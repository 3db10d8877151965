--------------------------- MODULE MCHostNetwork ---------------------------
(* Two nodes on the management network and a bridge; two bridges that share *)
(* a node; two that share their interface of the host.                      *)
EXTENDS HostNetwork, TLC

CONSTANTS n1, n2, b1, b2, p1, p2, h1, h2

MCNodeOf == p1 :> n1 @@ p2 :> n1

MCLayouts ==
    {[bridge |-> p1 :> b1 @@ p2 :> None, host |-> b1 :> h1, mgnt |-> TRUE],
     [bridge |-> p1 :> b1 @@ p2 :> b2, host |-> b1 :> h1 @@ b2 :> h2,
      mgnt |-> FALSE],
     [bridge |-> p1 :> b1 @@ p2 :> b1, host |-> b1 :> h1 @@ b2 :> h1,
      mgnt |-> FALSE]}

=============================================================================
