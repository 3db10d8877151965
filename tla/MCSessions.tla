----------------------------- MODULE MCSessions -----------------------------
(* The streams of a daemon, one kind at a time: what they share, the node  *)
(* and the daemon, reacts to none of them.                                 *)
EXTENDS Sessions, TLC
CONSTANTS c1, c2
MCMixes == {{"exec"}, {"capture"}, {"copies"}}
Load(p, t, r) == [pieces |-> p, typed |-> t, resizes |-> r]
MCLoads == {Load(3, 0, 0), Load(1, 1, 0), Load(0, 2, 0), Load(0, 0, 1)}
MCCopies == {c1, c2}
MCFragile == {c1}
MCKinds == {c1 :> "from" @@ c2 :> "from", c1 :> "from" @@ c2 :> "to",
            c1 :> "to" @@ c2 :> "to"}
=============================================================================
