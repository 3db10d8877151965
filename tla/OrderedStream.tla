--------------------------- MODULE OrderedStream ---------------------------
(***************************************************************************)
(* What the byte streams of gonetem promise to their reader, whatever the  *)
(* number of pipes, goroutines and messages in between: the pieces that    *)
(* were written arrive once each and in the order they were written; the   *)
(* reader may stop at any time, and what was not delivered by then is      *)
(* lost.  The output and the input of NodeExec and the output of           *)
(* NodeCapture are shown to implement this specification.                  *)
(*                                                                         *)
(* Pieces are numbered in the order they are written.                      *)
(***************************************************************************)
EXTENDS Naturals, Sequences

VARIABLES
    written,    \* number of pieces written so far
    delivered,  \* the pieces the reader was given, in the order it got them
    stopped     \* the reader takes nothing more

vars == <<written, delivered, stopped>>

Init ==
    /\ written = 0
    /\ delivered = <<>>
    /\ stopped = FALSE

Write ==
    /\ written' = written + 1
    /\ UNCHANGED <<delivered, stopped>>

(* Only the piece that follows the last one delivered may be delivered.    *)
Deliver ==
    /\ ~stopped
    /\ Len(delivered) < written
    /\ delivered' = Append(delivered, Len(delivered) + 1)
    /\ UNCHANGED <<written, stopped>>

Stop ==
    /\ ~stopped
    /\ stopped' = TRUE
    /\ UNCHANGED <<written, delivered>>

Next == Write \/ Deliver \/ Stop

Spec == Init /\ [][Next]_vars

=============================================================================
