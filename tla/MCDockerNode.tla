---------------------------- MODULE MCDockerNode ----------------------------
(* Two or three requests on a node that runs or was stopped.               *)
EXTENDS DockerNode, TLC
CONSTANTS r1, r2, r3, e0, e1
MCRequests == {r1, r2, r3}
MCInterfaces == {e0, e1}
Do(o) == [op |-> o, if |-> IF o = "attach" THEN e1 ELSE e0]
MCPlans == {r1 :> Do(p[1]) @@ r2 :> Do(p[2]) @@ r3 :> Do(p[3]) : p \in {
    <<"start", "start", "stop">>, <<"start", "stop", "save">>,
    <<"restart", "restart", "save">>, <<"restart", "save", "read">>,
    <<"stop", "attach", "start">>, <<"restart", "attach", "down">>,
    <<"restart", "down", "up">>, <<"down", "up", "down">>,
    <<"start", "save", "close">>, <<"stop", "stop", "restart">>}}
=============================================================================
