----------------------------- MODULE MCOvsNode -----------------------------
(* Three requests on a switch with two interfaces that runs or is stopped. *)
EXTENDS OvsNode, TLC
CONSTANTS r1, r2, r3, e0, e1
MCRequests == {r1, r2, r3}
MCInterfaces == {e0, e1}
Do(o) == [op |-> o, if |-> IF o = "attach" THEN e1 ELSE e0]
MCPlans == {r1 :> Do(p[1]) @@ r2 :> Do(p[2]) @@ r3 :> Do(p[3]) : p \in {
    <<"start", "start", "stop">>, <<"stop", "stop", "start">>,
    <<"restart", "restart", "save">>, <<"start", "save", "read">>,
    <<"save", "save", "restart">>, <<"stop", "attach", "start">>,
    <<"stop", "save", "start">>, <<"start", "attach", "save">>,
    <<"restart", "save", "close">>, <<"stop", "restart", "read">>,
    <<"down", "down", "up">>, <<"start", "save", "close">>}}
=============================================================================
