------------------------- MODULE MCConsoleRequests -------------------------
(* Two consoles: one node, or two for two saves.  The terminal of the      *)
(* second may be closed.  The channel of a run holds two messages.         *)
EXTENDS ConsoleRequests, TLC
CONSTANTS c1, c2, n1, n2
MCConsoles == {c1, c2}
MCNodes == {n1, n2}
MCMortal == {c2}
Of(a, b, ns, up) ==
    [plan |-> c1 :> a @@ c2 :> b, file |-> ns, running |-> up]
MCScenarios ==
    {Of("run", "save", {n1}, FALSE), Of("save", "close", {n1}, TRUE),
     Of("run", "reload", {n1}, FALSE), Of("run", "reload", {n1}, TRUE),
     Of("reload", "reload", {n1}, TRUE), Of("reload", "save", {n1}, TRUE),
     Of("reload", "close", {n1}, FALSE), Of("run", "close", {n1}, FALSE),
     Of("save", "save", {n1, n2}, TRUE)}
=============================================================================
