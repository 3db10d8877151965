--------------------------- MODULE MCTopologyFile ---------------------------
(* Three requests on links between two routers; "p10" is the name of a     *)
(* node and passes for an end of a link, a00 is a second way to write a0,  *)
(* and ax a third, with no number after the dot, which the check refuses.  *)
(* The configuration of z is refused; nothing can create a node like w.    *)
EXTENDS TopologyFile, FiniteSets, TLC
CONSTANTS r1, r2, r3, a, b, p10, z, w, br, a0, a00, a1, b0, b1,
          bare, ax
MCRequests == {r1, r2, r3}
MCNodes == {a, b, p10, z, w}
MCPeers == {a0, a00, a1, b0, b1, bare, ax}
MCMatched == MCPeers \ {ax}
MCPeerNode ==
    a0 :> a @@ a00 :> a @@ a1 :> a @@ b0 :> b @@ b1 :> b @@ bare :> p10
    @@ ax :> a
MCPeerIdx == a0 :> 0 @@ a00 :> 0 @@ a1 :> 1 @@ b0 :> 0 @@ b1 :> 1 @@ bare :> 9
    @@ ax :> 0
MCBridgePeers == br :> {a1}

L(p, q, rated) == [peer1 |-> p, peer2 |-> q, rate |-> rated, buffer |-> FALSE,
                   qos |-> "none"]
With(l, q) == [l EXCEPT !.qos = q]
F(ls, brs) == [nodes |-> {a, p10} \X {TRUE} \cup {<<b, FALSE>>}, links |-> ls, bridges |-> brs]
R(k, l) == [kind |-> k, link |-> l, nodes |-> {}, whole |-> TRUE]
Half(k, l) == [R(k, l) EXCEPT !.whole = FALSE]
WithNode(k, l, n) == [R(k, l) EXCEPT !.nodes = {<<n, TRUE>>}]
S(f, q, u, v) == [file |-> f, plan |-> r1 :> q @@ r2 :> u @@ r3 :> v]

Zero == L(a0, b0, TRUE)
One == L(b1, a1, TRUE)
Two == F(<<Zero, One>>, {})
Back == L(b0, a0, TRUE)
Reload == R("reload", Zero)
MCScenarios ==
    {S(Two, R("del", Zero), R("del", One), Reload),
     S(Two, R("update", With(Back, "some")), R("del", One), Reload),
     S(Two, R("del", Zero), R("add", L(a0, b0, FALSE)), R("del", One)),
     S(F(<<Zero>>, {}), R("add", L(a1, b1, FALSE)), R("update", With(Zero, "some")),
       Reload),
     S(F(<<>>, {}), R("add", L(a1, b1, FALSE)), R("add", L(a0, b0, FALSE)), Reload),
     S(F(<<Zero>>, {}), R("edit", L(a00, b1, TRUE)), WithNode("edit", One, z), Reload),
     S(F(<<Zero>>, {}), R("edit", L(bare, b1, TRUE)),
       R("update", With(Zero, "some")), Reload),
     S(F(<<Zero>>, {br}), R("update", With(Zero, "some")), R("del", Zero), Reload),
     S(Two, R("update", With(Zero, "some")), Reload, R("reload", One)),
     S(F(<<Zero>>, {}), R("add", L(a00, a0, FALSE)), Reload, R("add", L(a1, b1, FALSE))),
     S(F(<<Zero>>, {br}), R("del", L(a0, bare, FALSE)), Half("update", Zero), Reload),
     S(F(<<Zero>>, {}), WithNode("edit", One, w), R("edit", L(ax, b1, TRUE)), Reload),
     S(F(<<Zero>>, {br}), Reload, R("reload", One), R("add", L(a1, b1, FALSE)))}
=============================================================================
