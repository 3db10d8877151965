------------------------------ MODULE Sessions ------------------------------
(***************************************************************************)
(* The streams of a daemon until its end: a NodeExec session, a            *)
(* NodeCapture session and copies of files (modules NodeExec, NodeCapture, *)
(* FileCopy) on one node, while the node may be stopped and the daemon     *)
(* interrupted.                                                            *)
(*                                                                         *)
(* On a signal the daemon closes every project, which removes the          *)
(* containers and so ends the commands run in them, and then calls         *)
(* GracefulStop, which waits for the handlers that are still running       *)
(* (server.go, Close; cmd/gonetem-server/main.go).                         *)
(***************************************************************************)
EXTENDS Naturals, Sequences

CONSTANTS
    Mixes,       \* the sets of streams to consider
    Loads,                             \* see NodeExec
    MaxPackets, Window,                \* see NodeCapture
    Copies, Kinds, Blocks, Fragile, NoFile  \* see FileCopy

Streams == {"exec", "capture", "copies"}

ASSUME StreamsAssumption ==
    /\ Mixes \subseteq SUBSET Streams
    /\ Loads \subseteq [pieces : Nat, typed : Nat, resizes : Nat]
    /\ {MaxPackets, Window, Blocks} \subseteq Nat \ {0}
    /\ NoFile \notin Copies /\ Kinds \subseteq [Copies -> {"from", "to"}]

VARIABLES
    streams,   \* the streams of this behaviour
    daemon,    \* serving, stopping or stopped
    project,   \* the project is open or closed
    container, \* the container of the node is up or down
    load, terminal, conMain, conIn, verdict,
    typed, resizes, shown, link, toSrv, toCon, srvMain, srvRecv, srvOut,
    inData, piece, outCopy, inCopy, outBuf, conn,
    connOut, command, produced, received,
    capMain, capOut, capCopy, tcpdump, sniffed, capConn, capBuf,
    packet, capLink, toShark, capRecv, capVerdict, sharkCopy, pcap, shark, seen,
    kind, copy, temp, inode, open, offset, size, short, lost, skipped,
    result, answer, panicked, clash

E == INSTANCE NodeExec
C == INSTANCE NodeCapture
F == INSTANCE FileCopy

execState == <<load, terminal, conMain, conIn, verdict,
               typed, resizes, shown, link, toSrv, toCon, srvMain, srvRecv,
               srvOut, inData, piece, outCopy, inCopy, outBuf,
               conn, connOut, command, produced, received>>
captureState == <<capMain, capOut, capCopy, tcpdump, sniffed, capConn,
                  capBuf, packet, capLink, toShark, capRecv, capVerdict,
                  sharkCopy, pcap, shark, seen>>
copyState == <<kind, copy, temp, inode, open, offset, size, short,
               lost, skipped, result, answer, panicked, clash>>
nodeState == <<project, container>>
vars == <<streams, daemon, nodeState, execState, captureState, copyState>>

TypeOK ==
    /\ streams \in Mixes
    /\ daemon \in {"serving", "stopping", "stopped"}
    /\ project \in {"open", "closed"} /\ container \in {"up", "down"}
    /\ E!TypeOK /\ C!TypeOK /\ F!TypeOK

Init ==
    /\ streams \in Mixes
    /\ daemon = "serving" /\ project = "open" /\ container = "up"
    /\ E!Init /\ C!Init /\ F!Init

-----------------------------------------------------------------------------
(* A step of a stream of this behaviour.                                   *)
InExec(A) ==
    /\ "exec" \in streams /\ ~panicked /\ A
    /\ UNCHANGED <<streams, daemon, captureState, copyState>>

InCapture(A) ==
    /\ "capture" \in streams /\ ~panicked /\ A
    /\ UNCHANGED <<streams, daemon, execState, copyState>>

InCopies(A) ==
    /\ "copies" \in streams /\ ~panicked /\ A
    /\ UNCHANGED <<streams, daemon, execState, captureState>>

(* A user stops the node, or the project is closed by its console.         *)
StopNode ==
    /\ ~panicked /\ daemon = "serving" /\ container = "up"
    /\ container' = "down"
    /\ UNCHANGED <<streams, daemon, project, execState, captureState, copyState>>

(* The signal, and Server.Close: every project leaves openProjects and its *)
(* containers are removed.                                                 *)
Interrupt ==
    /\ ~panicked /\ daemon = "serving"
    /\ daemon' = "stopping" /\ project' = "closed" /\ container' = "down"
    /\ UNCHANGED <<streams, execState, captureState, copyState>>

HandlersDone ==
    /\ "exec" \in streams => srvMain = "returned"
    /\ "capture" \in streams => capMain = "returned"
    /\ "copies" \in streams => \A c \in Copies : copy[c] = "returned"

GracefulStop ==
    /\ ~panicked /\ daemon = "stopping" /\ HandlersDone
    /\ daemon' = "stopped"
    /\ UNCHANGED <<streams, nodeState, execState, captureState, copyState>>

Next ==
    \/ InExec(E!Next) \/ InCapture(C!Next) \/ InCopies(F!Next)
    \/ StopNode \/ Interrupt \/ GracefulStop

(* Every goroutine is scheduled while the daemon lives, and so is what the *)
(* system does to the processes of a container that was stopped.           *)
Fairness ==
    /\ WF_vars(InExec(E!Progress))
    /\ WF_vars(InExec(E!PollTimeout))
    /\ WF_vars(InExec(E!CommandKilled))
    /\ WF_vars(InCapture(C!CapProgress))
    /\ WF_vars(InCapture(C!TcpdumpKilled))
    /\ WF_vars(InCopies(F!CopyProgress))
    /\ WF_vars(GracefulStop)

Spec == Init /\ [][Next]_vars /\ Fairness

-----------------------------------------------------------------------------
(* Properties.                                                             *)

(* The output of a command reaches the terminal of its console, its input  *)
(* reaches the command, and the packets of tcpdump reach wireshark, as     *)
(* ordered streams: once each, in order, whatever is lost at the end.      *)
StreamsInOrder == E!Output!Spec /\ E!Input!Spec /\ C!Packets!Spec

(* What may be lost at the end when nobody left early is the one piece     *)
(* (NodeExec), the one packet (NodeCapture, when it ends with an error)    *)
(* that the final message may overtake.                                    *)
LittleIsLost == E!OnlyLastPieceLost /\ C!CaptureWhole

(* Why a handler of a stream may hang (see NodeExec and NodeCapture).      *)
HangsExplained == E!HangsExplained /\ C!CaptureHangsExplained

(* A copy that was reported done is exact but for the writes that failed,   *)
(* unless it shared its temporary file with another one; and the temporary *)
(* files do not stay.                                                      *)
CopyIsExact == F!CopyIsExact
NoTempLeft == F!NoTempLeft

(* The daemon only dies of a console lost in the middle of a copy.         *)
CrashExplained == F!CrashExplained

Stuck ==
    \/ "exec" \in streams /\ (E!InputStuck \/ E!OutputStuck)
    \/ "capture" \in streams /\ (C!WaitStuck \/ C!WindowStuck)

(* An interrupted daemon stops, unless it died or a handler is stuck:      *)
(* with the reasons of HangsExplained, nothing else holds up GracefulStop. *)
DaemonStops ==
    daemon = "stopping" ~> (daemon = "stopped" \/ panicked \/ Stuck)

=============================================================================
