----------------------------- MODULE MCTopology -----------------------------
(* Two docker nodes and a switch; three links that share endpoints.         *)
EXTENDS Topology

CONSTANTS a, b, s

MCDocker == {a, b}
MCOvs    == {s}
MCIdx    == {0, 1}
MCLaunch == {a, s}      \* b waits for a start request
MCLingering == {b}

Direct == <<<<a, 0>>, <<b, 0>>>>
Uplink == <<<<a, 1>>, <<s, 0>>>>
Other  == <<<<s, 0>>, <<b, 0>>>>    \* collides with both of them

MCLinks == {Direct, Uplink, Other}
MCFiles == {[nodes |-> {a, b, s}, links |-> {Direct, Uplink}],
            [nodes |-> {a, s}, links |-> {Uplink}]}

=============================================================================
