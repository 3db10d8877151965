--------------------------- MODULE Topology_proofs ---------------------------
(* Proofs about Topology, for any nodes, links, files and faults.           *)
EXTENDS Topology, TLAPS

-----------------------------------------------------------------------------
(* The inductive invariant behind NoLeak and ClosedClean.                   *)

\* What a request still has to do concerns nodes and links of the topology.
TodoKnown ==
    /\ pc \in {"run_nodes", "start", "stop", "restart", "close_nodes"} =>
            todo \subseteq nodes
    /\ pc = "run_links" => todo \subseteq links
    /\ pc \in {"load", "dead"} => nodes = {} /\ links = {} /\ ovs = "nil"
    /\ pc = "load_nodes" => links = {}
    /\ pc \in {"run_nodes", "run_links"} => ovs = "started"

\* The links join nodes of the topology; those of the file being loaded, nodes
\* that are created or still to be created, unless the creation of one failed.
LinksKnown ==
    /\ \A l \in links : EndNodes(l) \subseteq nodes
    /\ pc = "load_nodes" /\ ~failed =>
            \A l \in pending : EndNodes(l) \subseteq nodes \cup todo

\* The interfaces of node n that are left are in namespaces that outlive it.
NoSocket(n) ==
    \A v \in veths : (v[1][1] = n => Outlives(v[1])) /\ (v[2][1] = n => Outlives(v[2]))

\* Not in the topology, or Close has done with it.
Gone(n) == n \notin nodes \/ (pc = "close_nodes" /\ n \notin todo)

\* A docker node that is gone leaves nothing on the host unless its removal failed.
DockerAccounted ==
    \A n \in Docker : Gone(n) /\ n \notin abandoned
            => cont[n] = "none" /\ n \notin netns /\ NoSocket(n)

\* So does the ovs container when there is no instance.
OvsAccounted ==
    ovs = "nil" /\ OvsInst \notin abandoned =>
        cont[OvsInst] = "none" /\ \A n \in Ovs : NoSocket(n)

\* An interface is in the local namespace of a docker node, if in any, whose name
\* its object knows or an earlier one has left behind.
Named(s) == s[3] = "local" => s[1] \in Docker /\ s[1] \in netns \cup undeleted

LocalNamed == \A v \in veths : Named(v[1]) /\ Named(v[2])

Accounted == DockerAccounted /\ OvsAccounted /\ LocalNamed

CleanInv == TypeOK /\ TodoKnown /\ LinksKnown /\ Accounted

-----------------------------------------------------------------------------
(* What the operations of a node do to the host.                            *)

Pairs == In(Nodes, Places) \X In(Nodes, Places)

NodeTypeOK ==
    /\ up \in [Nodes -> BOOLEAN]
    /\ ifs \in [Nodes -> SUBSET Idx] /\ port \in [Nodes -> SUBSET Idx]
    /\ netns \subseteq Docker /\ br \subseteq Ovs
    /\ cont \in [Containers -> {"none", "created", "up"}]
    /\ veths \subseteq Pairs

\* The history of the breaks.
DoubtsOK == torn \subseteq Nodes /\ doubtful \subseteq Endpoints

\* A socket of node n may have become another one of n, the others are the same.
Own(n, x, y) ==
    /\ x[1] = y[1]
    /\ y = x \/ (y[1] = n /\ (y[3] = "local" => n \in netns'))

OwnPair(n, v, w) == Own(n, v[1], w[1]) /\ Own(n, v[2], w[2])

\* Only the container and the namespace of n may come into being, and of the veth
\* pairs only the ends at n change.
Confined(n) ==
    /\ \A c \in Containers : c # n => cont'[c] = cont[c]
    /\ n \notin Docker => cont' = cont /\ veths' = veths
    /\ netns \subseteq netns' /\ netns' \subseteq netns \cup ({n} \cap Docker)
    /\ \A w \in veths' : \E v \in veths : OwnPair(n, v, w)

\* When nodes N lose namespaces S, a socket stays or, if it was there, is kept.
Fades(N, S, x, y) == y = x \/ (x \in In(N, S) /\ y = <<x[1], x[2], "kept">>)

FadesPair(N, S, v, w) == Fades(N, S, v[1], w[1]) /\ Fades(N, S, v[2], w[2])

\* What is left of veth pairs V is W: no end is there, the ends have stayed or are
\* kept, and a pair with no end there is left.
Faded(N, S, V, W) ==
    /\ W \subseteq Pairs
    /\ \A w \in W : \E v \in V : FadesPair(N, S, v, w)
    /\ \A w \in W : w[1] \notin In(N, S) /\ w[2] \notin In(N, S)
    /\ \A v \in V : v[1] \notin In(N, S) /\ v[2] \notin In(N, S) => v \in W

\* Moving interfaces keeps the veth pairs well formed, and changes only the ends
\* at the node, which are then in the other namespace.
LEMMA MovedPairs ==
    ASSUME NEW n \in Nodes, NEW M, NEW from, NEW to \in Namespaces, veths \subseteq Pairs
    PROVE  /\ Moved(n, M, from, to) \subseteq Pairs
           /\ \A w \in Moved(n, M, from, to) : \E v \in veths :
                /\ w[1] = v[1] \/ (v[1][1] = n /\ w[1][1] = n /\ w[1][3] = to)
                /\ w[2] = v[2] \/ (v[2][1] = n /\ w[2][1] = n /\ w[2][3] = to)
<1> DEFINE Shift(s) == IF s[1] = n /\ s[2] \in M /\ s[3] = from
                       THEN <<n, s[2], to>> ELSE s
<1>1. ASSUME NEW s \in In(Nodes, Places)
      PROVE  /\ Shift(s) \in In(Nodes, Places)
             /\ Shift(s) = s \/ (s[1] = n /\ Shift(s)[1] = n /\ Shift(s)[3] = to)
  BY <1>1 DEF In, Places
<1>2. ASSUME NEW v \in veths
      PROVE  <<Shift(v[1]), Shift(v[2])>> \in Pairs
             /\ v[1] \in In(Nodes, Places) /\ v[2] \in In(Nodes, Places)
  <2>1. v[1] \in In(Nodes, Places) /\ v[2] \in In(Nodes, Places)
    BY <1>2 DEF Pairs
  <2>2. Shift(v[1]) \in In(Nodes, Places) /\ Shift(v[2]) \in In(Nodes, Places)
    BY <2>1, <1>1
  <2> HIDE DEF Shift
  <2> QED  BY <2>1, <2>2 DEF Pairs
<1>3. Moved(n, M, from, to) = {<<Shift(v[1]), Shift(v[2])>> : v \in veths}
  BY DEF Moved
<1> HIDE DEF Shift
<1>4. Moved(n, M, from, to) \subseteq Pairs
  BY <1>2, <1>3
<1>5. ASSUME NEW w \in Moved(n, M, from, to)
      PROVE  \E v \in veths :
                /\ w[1] = v[1] \/ (v[1][1] = n /\ w[1][1] = n /\ w[1][3] = to)
                /\ w[2] = v[2] \/ (v[2][1] = n /\ w[2][1] = n /\ w[2][3] = to)
  <2>1. PICK v \in veths : w = <<Shift(v[1]), Shift(v[2])>>
    BY <1>3, <1>5
  <2>2. w[1] = Shift(v[1]) /\ w[2] = Shift(v[2])
    BY <2>1
  <2>3. /\ Shift(v[1]) = v[1] \/ (v[1][1] = n /\ Shift(v[1])[1] = n /\ Shift(v[1])[3] = to)
        /\ Shift(v[2]) = v[2] \/ (v[2][1] = n /\ Shift(v[2])[1] = n /\ Shift(v[2])[3] = to)
    BY <1>1, <1>2
  <2> QED  BY <2>2, <2>3
<1> QED  BY <1>4, <1>5

\* When nodes N lose namespaces S, the veth pairs fade so.
LEMMA OutcomesPairs ==
    \A V \in SUBSET Pairs, N \in SUBSET Nodes, S \in SUBSET Namespaces :
        \A W \in Outcomes(V, N, S) : Faded(N, S, V, W)
<1> SUFFICES ASSUME NEW V \in SUBSET Pairs, NEW N \in SUBSET Nodes,
                    NEW S \in SUBSET Namespaces, NEW W \in Outcomes(V, N, S)
             PROVE  Faded(N, S, V, W)
  OBVIOUS
<1>1. PICK K \in SUBSET S : W = Without(Kept(V, In(N, K)), In(N, S \ K))
  BY DEF Outcomes
<1> DEFINE Keep(s) == IF s \in In(N, K) THEN <<s[1], s[2], "kept">> ELSE s
<1>2. ASSUME NEW s \in In(Nodes, Places)
      PROVE  /\ Keep(s) \in In(Nodes, Places) /\ Fades(N, S, s, Keep(s))
             /\ Keep(s) \notin In(N, S \ K) => Keep(s) \notin In(N, S)
             /\ s \notin In(N, S) => Keep(s) = s /\ Keep(s) \notin In(N, S \ K)
  BY <1>2 DEF In, Places, Namespaces, Fades
<1>3. Kept(V, In(N, K)) = {<<Keep(v[1]), Keep(v[2])>> : v \in V}
  BY DEF Kept
<1>4. \A v \in V : /\ v = <<v[1], v[2]>>
                   /\ v[1] \in In(Nodes, Places) /\ v[2] \in In(Nodes, Places)
  BY DEF Pairs
<1> HIDE DEF Keep
<1>5. ASSUME NEW w \in W
      PROVE  /\ w \in Pairs /\ w[1] \notin In(N, S) /\ w[2] \notin In(N, S)
             /\ \E v \in V : FadesPair(N, S, v, w)
  <2>1. w \in Kept(V, In(N, K)) /\ w[1] \notin In(N, S \ K) /\ w[2] \notin In(N, S \ K)
    BY <1>1, <1>5 DEF Without
  <2>2. PICK v \in V : w = <<Keep(v[1]), Keep(v[2])>>
    BY <1>3, <2>1
  <2>3. w[1] = Keep(v[1]) /\ w[2] = Keep(v[2])
    BY <2>2
  <2>4. Keep(v[1]) \in In(Nodes, Places) /\ Keep(v[2]) \in In(Nodes, Places)
    BY <1>2, <1>4
  <2>5. Fades(N, S, v[1], Keep(v[1])) /\ Fades(N, S, v[2], Keep(v[2]))
    BY <1>2, <1>4
  <2> QED  BY <1>2, <1>4, <2>1, <2>2, <2>3, <2>4, <2>5 DEF FadesPair, Pairs
<1>6. ASSUME NEW v \in V, v[1] \notin In(N, S), v[2] \notin In(N, S)
      PROVE  v \in W
  <2>1. Keep(v[1]) = v[1] /\ Keep(v[2]) = v[2]
    BY <1>2, <1>4, <1>6
  <2>2. v \in Kept(V, In(N, K))
    <3>1. v = <<Keep(v[1]), Keep(v[2])>>
      BY <1>4, <2>1
    <3> QED  BY <1>3, <3>1
  <2>3. v[1] \notin In(N, S \ K) /\ v[2] \notin In(N, S \ K)
    BY <1>2, <1>4, <1>6, <2>1
  <2> QED  BY <1>1, <2>2, <2>3 DEF Without
<1> QED  BY <1>5, <1>6 DEF Faded

\* A break keeps the types of the history.
LEMMA BreaksDoubts ==
    ASSUME DoubtsOK, links \subseteq Links, NEW n \in Nodes, Breaks(n)
    PROVE  DoubtsOK'
<1>1. \A l \in Links : Ends(l) \subseteq Endpoints
  BY LinksAssumption DEF Ends
<1>2. UNION {Ends(l) : l \in {m \in links : n \in EndNodes(m)}} \subseteq Endpoints
  BY <1>1
<1>3. {n} \X Idx \subseteq Endpoints
  BY DEF Endpoints
<1>4. torn' \subseteq Nodes
  BY DEF Breaks, DoubtsOK
<1>5. doubtful' \subseteq Endpoints
  BY <1>2, <1>3 DEF Breaks, DoubtsOK
<1> QED  BY <1>4, <1>5 DEF DoubtsOK

-----------------------------------------------------------------------------
\* Start and Stop keep the types and stay within their node.
LEMMA StartConfined ==
    ASSUME NodeTypeOK, NEW n \in Nodes, StartOk(n) \/ StartFails(n)
    PROVE  NodeTypeOK' /\ Confined(n)
<1> USE NamesAssumption DEF Nodes, Containers, Namespaces
<1>0. ASSUME UNCHANGED nodeVars
      PROVE  NodeTypeOK' /\ Confined(n)
  BY <1>0 DEF nodeVars, objVars, hostVars, NodeTypeOK, Confined, OwnPair, Own
<1>1. CASE DockerStartOk(n)
  <2>1. veths' \subseteq Pairs /\ \A w \in veths' : \E v \in veths : OwnPair(n, v, w)
    BY <1>1, MovedPairs DEF DockerStartOk, NodeTypeOK, OwnPair, Own
  <2> QED  BY <1>1, <2>1 DEF DockerStartOk, NodeTypeOK, Confined
<1>2. CASE DockerStartTorn(n)
  <2>1. PICK M \in SUBSET ifs[n] : veths' = Moved(n, M, "local", "run")
    BY <1>2 DEF DockerStartTorn
  <2>2. veths' \subseteq Pairs /\ \A w \in veths' : \E v \in veths : OwnPair(n, v, w)
    BY <2>1, MovedPairs DEF NodeTypeOK, OwnPair, Own
  <2>3. netns' \in {netns, netns \cup {n}}
    BY <1>2 DEF DockerStartTorn
  <2> QED  BY <1>2, <2>2, <2>3 DEF DockerStartTorn, NodeTypeOK, Confined
<1>3. CASE OvsStartOk(n)
  BY <1>3 DEF OvsStartOk, hostVars, NodeTypeOK, Confined, OwnPair, Own
<1>4. CASE OvsStartTorn(n)
  BY <1>4, ZenonT(40) DEF OvsStartTorn, hostVars, NodeTypeOK, Confined, OwnPair, Own
<1>5. CASE StartRefused(n)
  BY <1>0, <1>5 DEF StartRefused
<1> QED  BY <1>0, <1>1, <1>2, <1>3, <1>4, <1>5 DEF StartOk, StartFails

\* A stop, whatever its outcome, touches only what belongs to its node.
LEMMA StopConfined ==
    ASSUME NodeTypeOK, NEW n \in Nodes, StopOk(n) \/ StopFails(n)
    PROVE  NodeTypeOK' /\ Confined(n)
<1> USE NamesAssumption DEF Nodes, Containers, Namespaces
<1>0. ASSUME UNCHANGED nodeVars
      PROVE  NodeTypeOK' /\ Confined(n)
  BY <1>0 DEF nodeVars, objVars, hostVars, NodeTypeOK, Confined, OwnPair, Own
<1>1. CASE DockerStopOk(n)
  <2> DEFINE V == Moved(n, ifs[n], "run", "local")
  <2>1. /\ veths' \in Outcomes(V, {n}, {"run"})
        /\ n \in Docker /\ netns' = netns \cup {n}
    BY <1>1 DEF DockerStopOk
  <2>2. /\ V \subseteq Pairs
        /\ \A w \in V : \E v \in veths :
                /\ w[1] = v[1] \/ (v[1][1] = n /\ w[1][1] = n /\ w[1][3] = "local")
                /\ w[2] = v[2] \/ (v[2][1] = n /\ w[2][1] = n /\ w[2][3] = "local")
    BY MovedPairs DEF NodeTypeOK
  <2> HIDE DEF V
  <2>f. Faded({n}, {"run"}, V, veths')
    <3>1. V \in SUBSET Pairs /\ {n} \in SUBSET Nodes /\ {"run"} \in SUBSET Namespaces
      BY <2>2 DEF Namespaces
    <3> QED  BY <2>1, <3>1, OutcomesPairs
  <2>3. veths' \subseteq Pairs /\ \A w \in veths' : \E v \in V : FadesPair({n}, {"run"}, v, w)
    BY <2>f DEF Faded
  <2>4. ASSUME NEW w \in veths' PROVE \E v \in veths : OwnPair(n, v, w)
    <3>1. PICK u \in V : FadesPair({n}, {"run"}, u, w)
      BY <2>3
    <3>2. PICK v \in veths :
                /\ u[1] = v[1] \/ (v[1][1] = n /\ u[1][1] = n /\ u[1][3] = "local")
                /\ u[2] = v[2] \/ (v[2][1] = n /\ u[2][1] = n /\ u[2][3] = "local")
      BY <2>2
    <3>3. /\ w[1] = u[1] \/ (u[1][1] = n /\ w[1][1] = n /\ w[1][3] = "kept")
          /\ w[2] = u[2] \/ (u[2][1] = n /\ w[2][1] = n /\ w[2][3] = "kept")
      BY <3>1 DEF FadesPair, Fades, In
    <3> QED  BY <2>1, <3>2, <3>3 DEF OwnPair, Own
  <2> QED  BY <1>1, <2>3, <2>4 DEF DockerStopOk, NodeTypeOK, Confined
<1>2. CASE DockerStopTorn(n)
  <2>1. PICK M \in SUBSET ifs[n] : veths' = Moved(n, M, "run", "local")
    BY <1>2 DEF DockerStopTorn
  <2>2. veths' \subseteq Pairs /\ \A w \in veths' : \E v \in veths : OwnPair(n, v, w)
    BY <1>2, <2>1, MovedPairs DEF DockerStopTorn, NodeTypeOK, OwnPair, Own
  <2> QED  BY <1>2, <2>2 DEF DockerStopTorn, NodeTypeOK, Confined
<1>3. CASE OvsStopOk(n)
  BY <1>3 DEF OvsStopOk, hostVars, NodeTypeOK, Confined, OwnPair, Own
<1>4. CASE OvsStopTorn(n)
  BY <1>4, ZenonT(40) DEF OvsStopTorn, hostVars, NodeTypeOK, Confined, OwnPair, Own
<1>5. CASE StopRefused(n)
  BY <1>0, <1>5 DEF StopRefused
<1> QED  BY <1>0, <1>1, <1>2, <1>3, <1>4, <1>5 DEF StopOk, StopFails

\* Start and Stop remember a break, or leave the history alone.
LEMMA ToggleDoubts ==
    ASSUME NEW n \in Nodes, StartOk(n) \/ StartFails(n) \/ StopOk(n) \/ StopFails(n)
    PROVE  UNCHANGED doubts \/ Breaks(n)
<1>1. ASSUME StartOk(n) \/ StartFails(n) PROVE UNCHANGED doubts \/ Breaks(n)
  BY <1>1 DEF StartOk, StartFails, DockerStartOk, DockerStartTorn, OvsStartOk,
              OvsStartTorn, StartRefused, nodeVars, doubts
<1>2. ASSUME StopOk(n) \/ StopFails(n) PROVE UNCHANGED doubts \/ Breaks(n)
  BY <1>2 DEF StopOk, StopFails, DockerStopOk, DockerStopTorn, OvsStopOk,
              OvsStopTorn, StopRefused, nodeVars, doubts
<1> QED  BY <1>1, <1>2

\* So the history keeps its types.
LEMMA ToggleDoubtsOK ==
    ASSUME DoubtsOK, links \subseteq Links, NEW n \in Nodes,
           StartOk(n) \/ StartFails(n) \/ StopOk(n) \/ StopFails(n)
    PROVE  DoubtsOK'
<1>1. CASE UNCHANGED doubts
  BY <1>1 DEF doubts, DoubtsOK
<1>2. CASE Breaks(n)
  BY <1>2, BreaksDoubts
<1> QED  BY <1>1, <1>2, ToggleDoubts

\* setupLink creates no container; it may create the local namespace of an end,
\* and one veth pair between the ends, for which a switch needs the ovs instance.
SetupConfined(l) ==
    /\ cont' = cont
    /\ netns \subseteq netns' /\ netns' \subseteq netns \cup (EndNodes(l) \cap Docker)
    /\ \A w \in veths' : \/ w \in veths
                         \/ /\ w[1][1] = l[1][1] /\ w[2][1] = l[2][1]
                            /\ w[1][3] = "local" => w[1][1] \in netns'
                            /\ w[2][3] = "local" => w[2][1] \in netns'
                            /\ EndNodes(l) \cap Ovs # {} => ovs = "started"

\* The set-up of a link makes nothing but the two ends of its veth pair.
LEMMA SetupLinkConfined ==
    ASSUME NodeTypeOK, NEW l \in Links, NEW k \in 0..5, SetupLink(l, k)
    PROVE  NodeTypeOK' /\ SetupConfined(l)
<1>1. /\ l = <<l[1], l[2]>>
      /\ l[1] = <<l[1][1], l[1][2]>> /\ l[1][1] \in Nodes /\ l[1][2] \in Idx
      /\ l[2] = <<l[2][1], l[2][2]>> /\ l[2][1] \in Nodes /\ l[2][2] \in Idx
  BY LinksAssumption DEF Endpoints
<1>2. \A e \in {l[1], l[2]} : /\ Here(e) \in In(Nodes, Places) /\ Here(e)[1] = e[1]
                              /\ Here(e)[3] = "local" => e[1] \in Docker /\ ~up[e[1]]
  BY <1>1 DEF Here, CurNs, In, Namespaces, Places, Nodes
<1>n. netns \subseteq netns' /\ netns' \subseteq netns \cup (EndNodes(l) \cap Docker)
  BY DEF SetupLink, Touch, EndNodes
<1>i. ifs' \in [Nodes -> SUBSET Idx] /\ port' \in [Nodes -> SUBSET Idx]
  BY DEF SetupLink, Attach, NodeTypeOK
<1>3. CASE k < 3
  <2>1. veths' = veths
    BY <1>3 DEF SetupLink
  <2> QED  BY <1>n, <1>i, <2>1 DEF SetupLink, SetupConfined, NodeTypeOK
<1>4. CASE k >= 3
  <2>1. veths' = veths \cup {<<Here(l[1]), Here(l[2])>>}
    BY <1>4 DEF SetupLink
  <2>2. ~NsMissing(l[1]) /\ ~NsMissing(l[2])
    <3>1. ~Obstacle(l, 0) /\ ~Obstacle(l, 1)
      BY <1>4 DEF SetupLink
    <3> QED  BY <3>1 DEF Obstacle
  <2>3. EndNodes(l) \cap Ovs # {} => ovs = "started"
    BY <2>2 DEF NsMissing, EndNodes
  <2>4. veths' \subseteq Pairs
    BY <2>1, <1>2 DEF NodeTypeOK, Pairs
  <2>5. \A e \in {l[1], l[2]} : Here(e)[3] = "local" => e[1] \in netns'
    <3>1. Touch({l[1][1], l[2][1]})
      <4>1. {l[j][1] : j \in 1..2} = {l[1][1], l[2][1]}
        OBVIOUS
      <4> QED  BY <1>4, <4>1 DEF SetupLink
    <3> QED  BY <1>2, <3>1 DEF Touch
  <2>6. ASSUME NEW w \in veths', w \notin veths
        PROVE  /\ w[1][1] = l[1][1] /\ w[2][1] = l[2][1]
               /\ w[1][3] = "local" => w[1][1] \in netns'
               /\ w[2][3] = "local" => w[2][1] \in netns'
    <3>1. w[1] = Here(l[1]) /\ w[2] = Here(l[2])
      BY <2>1, <2>6
    <3> QED  BY <3>1, <1>2, <2>5
  <2>7. \A w \in veths' : \/ w \in veths
                          \/ /\ w[1][1] = l[1][1] /\ w[2][1] = l[2][1]
                             /\ w[1][3] = "local" => w[1][1] \in netns'
                             /\ w[2][3] = "local" => w[2][1] \in netns'
                             /\ EndNodes(l) \cap Ovs # {} => ovs = "started"
    BY <2>3, <2>6
  <2> QED  BY <1>n, <1>i, <2>4, <2>7 DEF SetupLink, SetupConfined, NodeTypeOK
<1> QED  BY <1>3, <1>4

-----------------------------------------------------------------------------
(* Type correctness.                                                        *)

\* The two parts of the type invariant that most steps need.
LEMMA TypeSplit == TypeOK => NodeTypeOK /\ DoubtsOK
BY DEF TypeOK, NodeTypeOK, DoubtsOK, Pairs

\* What the close of a node leaves of the veth pairs.
LEMMA CloseNodePairs ==
    ASSUME veths \subseteq Pairs, NEW n \in Nodes, CloseNode(n)
    PROVE  /\ veths' \subseteq Pairs
           /\ \A w \in veths' : \E v \in veths : FadesPair({n}, Namespaces, v, w)
           /\ n \notin Docker => veths' = veths
<1>0. /\ {n} \in SUBSET Nodes /\ {"run"} \in SUBSET Namespaces
      /\ Namespaces \in SUBSET Namespaces
  BY DEF Namespaces
<1>1. ASSUME NEW S \in {Namespaces, {"run"}}, veths' \in Outcomes(veths, {n}, S)
      PROVE  /\ veths' \subseteq Pairs
             /\ \A w \in veths' : \E v \in veths : FadesPair({n}, Namespaces, v, w)
  <2>1. /\ veths' \subseteq Pairs
        /\ \A w \in veths' : \E v \in veths : FadesPair({n}, S, v, w)
    <3>1. Faded({n}, S, veths, veths')
      BY <1>0, <1>1, OutcomesPairs
    <3> QED  BY <3>1 DEF Faded
  <2>2. \A x : x \in In({n}, S) => x \in In({n}, Namespaces)
    BY <1>0 DEF In
  <2>3. \A v, w : FadesPair({n}, S, v, w) => FadesPair({n}, Namespaces, v, w)
    BY <2>2 DEF FadesPair, Fades
  <2> QED  BY <2>1, <2>3
<1>2. CASE veths' = veths
  BY <1>2 DEF FadesPair, Fades
<1>3. CASE CloseDocker(n)
  <2>1. \/ veths' = veths
        \/ \E S \in {Namespaces, {"run"}} : veths' \in Outcomes(veths, {n}, S)
    BY <1>3 DEF CloseDocker, CloseNetns, hostVars
  <2>2. n \in Docker
    BY <1>3 DEF CloseDocker
  <2> QED  BY <1>1, <1>2, <2>1, <2>2
<1>4. CASE CloseOvs(n)
  <2>1. veths' = veths
    BY <1>4 DEF CloseOvs, hostVars
  <2> QED  BY <1>2, <2>1
<1> QED  BY <1>3, <1>4 DEF CloseNode

\* What the close of the ovs instance leaves of them.
LEMMA CloseEndPairs ==
    ASSUME veths \subseteq Pairs, CloseEnd
    PROVE  /\ veths' \subseteq Pairs
           /\ \A w \in veths' : \E v \in veths : FadesPair(Ovs, {"run"}, v, w)
           /\ \/ veths' = veths
              \/ \A w \in veths' : w[1] \notin In(Ovs, {"run"}) /\ w[2] \notin In(Ovs, {"run"})
<1>1. veths' = veths \/ veths' \in Outcomes(veths, Ovs, {"run"})
  BY DEF CloseEnd, CloseOvsInstance, hostVars
<1>2. Ovs \in SUBSET Nodes /\ {"run"} \in SUBSET Namespaces
  BY DEF Nodes, Namespaces
<1>3. CASE veths' = veths
  BY <1>3 DEF FadesPair, Fades
<1>4. CASE veths' \in Outcomes(veths, Ovs, {"run"})
  <2>1. Faded(Ovs, {"run"}, veths, veths')
    BY <1>2, <1>4, OutcomesPairs
  <2> QED  BY <2>1 DEF Faded
<1> QED  BY <1>1, <1>3, <1>4

\* One step per action; the steps of the nodes rest on the lemmas above.
LEMMA TypeStep == TypeOK /\ [Next]_vars => TypeOK'
<1> SUFFICES ASSUME TypeOK, [Next]_vars
             PROVE  TypeOK'
  OBVIOUS
<1> USE NamesAssumption DEF Nodes, Containers, TypeOK, States, doubts, leftVars
<1>n. NodeTypeOK /\ DoubtsOK
  BY TypeSplit
<1>1. CASE Run
  BY <1>1 DEF Run, nodeVars, objVars, hostVars
<1>2. CASE Start
  BY <1>2 DEF Start, Serve, nodeVars, objVars, hostVars
<1>3. CASE Stop
  BY <1>3 DEF Stop, Serve, nodeVars, objVars, hostVars
<1>4. CASE Restart
  BY <1>4 DEF Restart, Serve, nodeVars, objVars, hostVars
<1>5. CASE StartAll
  BY <1>5 DEF StartAll, Serve, nodeVars, objVars, hostVars
<1>6. CASE StopAll
  BY <1>6 DEF StopAll, Serve, nodeVars, objVars, hostVars
<1>7. CASE Close
  BY <1>7 DEF Close, nodeVars, objVars, hostVars
<1>8. CASE LoadRejected
  BY <1>8 DEF LoadRejected, LoadFailed, Reply, nodeVars, objVars, hostVars
<1>9. CASE LoadOvs
  BY <1>9, FilesAssumption DEF LoadOvs, nodeVars, objVars, hostVars
<1>10. CASE LoadOvsFails
  BY <1>10 DEF LoadOvsFails, LoadFailed, Reply, nodeVars, objVars, hostVars
<1>11. CASE LoadEnd
  <2>1. doubtful' \subseteq Endpoints /\ torn' = torn
    <3>1. UNION {Ends(l) : l \in pending} \subseteq Endpoints
      BY LinksAssumption DEF Ends
    <3> QED  BY <1>11, <3>1 DEF LoadEnd
  <2> QED  BY <1>11, <2>1 DEF LoadEnd, LoadFailed, Reply, nodeVars, objVars, hostVars
<1>12. CASE RunSkipped
  BY <1>12 DEF RunSkipped, Reply, nodeVars, objVars, hostVars
<1>13. CASE RunPanics
  BY <1>13 DEF RunPanics, nodeVars, objVars, hostVars
<1>14. CASE RunStartsOvs
  BY <1>14 DEF RunStartsOvs, nodeVars, objVars, hostVars
<1>15. CASE RunOvsFails
  BY <1>15 DEF RunOvsFails, Reply, nodeVars, objVars, hostVars
<1>16. CASE RunNodesEnd
  BY <1>16 DEF RunNodesEnd, Reply, nodeVars, objVars, hostVars
<1>17. CASE RunEnd
  BY <1>17 DEF RunEnd, Reply, nodeVars, objVars, hostVars
<1>18. CASE ServeEnd
  BY <1>18 DEF ServeEnd, Reply, nodeVars, objVars, hostVars
<1>20. ASSUME NEW l \in Links, LinkAdd(l) PROVE TypeOK'
  <2>1. PICK k \in 0..5 : /\ SetupLink(l, k) /\ Reply(k < 5)
                          /\ links' = IF k = 5 THEN links \cup {l} ELSE links
    BY <1>20 DEF LinkAdd
  <2>2. NodeTypeOK'
    BY <1>n, <2>1, SetupLinkConfined
  <2>3. failed' \in BOOLEAN /\ links' \subseteq Links
    BY <2>1 DEF Reply
  <2>4. DoubtsOK'
    <3>1. Ends(l) \subseteq Endpoints
      BY LinksAssumption DEF Ends
    <3>2. doubtful' \subseteq doubtful \cup Ends(l) /\ torn' = torn
      BY <1>20, Zenon DEF LinkAdd, DoubtOf
    <3> QED  BY <1>n, <3>1, <3>2 DEF DoubtsOK
  <2> QED  BY <1>20, <2>1, <2>2, <2>3, <2>4 DEF LinkAdd, Reply, NodeTypeOK, DoubtsOK, Pairs
<1>21. ASSUME NEW l \in Links, LinkAddPanics(l) PROVE TypeOK'
  BY <1>21 DEF LinkAddPanics, Touch, hostVars
<1>22. ASSUME NEW l \in Links, LinkDel(l) PROVE TypeOK'
  <2>1. veths' \subseteq veths
    BY <1>22 DEF LinkDel, Without
  <2>2. netns' \subseteq Docker
    BY <1>22 DEF LinkDel, Touch
  <2>3. /\ links' \subseteq Links /\ failed' \in BOOLEAN
        /\ pc' = "idle" /\ todo' = {} /\ pending' = {} /\ mode' = mode
    BY <1>22 DEF LinkDel, Reply
  <2> QED  BY <1>22, <2>1, <2>2, <2>3 DEF LinkDel
<1>19. ASSUME NEW l \in Links, LinkUpdate(l) PROVE TypeOK'
  <2>1. netns' \subseteq Docker
    BY <1>19 DEF LinkUpdate, Touch
  <2>2. failed' \in BOOLEAN /\ pc' = "idle" /\ todo' = {} /\ pending' = {} /\ mode' = mode
    BY <1>19 DEF LinkUpdate, Reply
  <2> QED  BY <1>19, <2>1, <2>2 DEF LinkUpdate, hostVars
<1>23. ASSUME NEW n \in Nodes, CreateNode(n) PROVE TypeOK'
  BY <1>23 DEF CreateNode, objVars
<1>24. ASSUME NEW n \in Nodes, RunNode(n) PROVE TypeOK'
  <2>1. NodeTypeOK'
    <3>1. CASE StartOk(n) \/ StartFails(n)
      BY <3>1, <1>n, StartConfined
    <3>2. CASE UNCHANGED nodeVars
      BY <1>n, <3>2 DEF nodeVars, objVars, hostVars, NodeTypeOK
    <3> QED  BY <1>24, <3>1, <3>2 DEF RunNode
  <2>2. DoubtsOK'
    <3>1. CASE StartOk(n) \/ StartFails(n)
      BY <3>1, <1>n, ToggleDoubtsOK
    <3>2. CASE UNCHANGED nodeVars
      BY <1>n, <3>2 DEF nodeVars, DoubtsOK
    <3> QED  BY <1>24, <3>1, <3>2 DEF RunNode
  <2> QED  BY <1>24, <2>1, <2>2 DEF RunNode, NodeTypeOK, DoubtsOK, Pairs
<1>25. ASSUME NEW n \in Nodes, ServeStart(n) PROVE TypeOK'
  <2>1. NodeTypeOK'
    BY <1>25, <1>n, StartConfined DEF ServeStart, StartThenConfig
  <2>2. DoubtsOK'
    BY <1>25, <1>n, ToggleDoubtsOK DEF ServeStart, StartThenConfig
  <2> QED  BY <1>25, <2>1, <2>2 DEF ServeStart, StartThenConfig, NodeTypeOK, DoubtsOK, Pairs
<1>26. ASSUME NEW n \in Nodes, ServeStop(n) PROVE TypeOK'
  <2>1. NodeTypeOK'
    BY <1>26, <1>n, StopConfined DEF ServeStop, StopNode
  <2>2. DoubtsOK'
    BY <1>26, <1>n, ToggleDoubtsOK DEF ServeStop, StopNode
  <2> QED  BY <1>26, <2>1, <2>2 DEF ServeStop, StopNode, NodeTypeOK, DoubtsOK, Pairs
<1>27. ASSUME NEW n \in Nodes, RestartStops(n) PROVE TypeOK'
  <2>1. NodeTypeOK'
    BY <1>27, <1>n, StopConfined DEF RestartStops, StopNode
  <2>2. DoubtsOK'
    BY <1>27, <1>n, ToggleDoubtsOK DEF RestartStops, StopNode
  <2> QED  BY <1>27, <2>1, <2>2 DEF RestartStops, StopNode, NodeTypeOK, DoubtsOK, Pairs
<1>28. ASSUME NEW n \in Nodes, CloseNode(n) PROVE TypeOK'
  <2>1. veths' \subseteq Pairs
    BY <1>n, <1>28, CloseNodePairs DEF NodeTypeOK
  <2>2. CASE CloseDocker(n)
    <3>1. undeleted' \subseteq Docker /\ netns' \subseteq Docker
      BY <2>2 DEF CloseDocker, CloseNetns
    <3>2. /\ up' \in [Nodes -> BOOLEAN] /\ ifs' \in [Nodes -> SUBSET Idx]
          /\ cont' \in [Containers -> {"none", "created", "up"}]
          /\ abandoned' \subseteq Containers /\ UNCHANGED <<br, port>>
      BY <2>2, ZenonT(40) DEF CloseDocker, hostVars
    <3> QED  BY <1>28, <2>1, <3>1, <3>2 DEF CloseNode, Pairs
  <2>3. CASE CloseOvs(n)
    BY <1>28, <2>1, <2>3 DEF CloseNode, CloseOvs, hostVars, Pairs
  <2> QED  BY <1>28, <2>2, <2>3 DEF CloseNode
<1>29. CASE CloseEnd
  <2>1. veths' \subseteq Pairs
    BY <1>n, <1>29, CloseEndPairs DEF NodeTypeOK
  <2>2. /\ cont' \in [Containers -> {"none", "created", "up"}]
        /\ abandoned' \subseteq Containers
    BY <1>29 DEF CloseEnd, CloseOvsInstance, hostVars
  <2> QED  BY <1>29, <2>1, <2>2 DEF CloseEnd, Pairs
<1>30. ASSUME NEW l \in Links, RunLink(l) PROVE TypeOK'
  <2>1. PICK k \in 0..5 : /\ SetupLink(l, k)
                          /\ \/ /\ todo' = todo \ {l}
                                /\ UNCHANGED <<pc, mode, pending, failed>>
                             \/ Reply(TRUE)
    BY <1>30 DEF RunLink
  <2>2. NodeTypeOK'
    BY <1>n, <2>1, SetupLinkConfined
  <2> QED  BY <1>30, <2>1, <2>2 DEF RunLink, Reply, NodeTypeOK, Pairs
<1>31. CASE UNCHANGED vars
  BY <1>31 DEF vars, reqVars, nodeVars, objVars, hostVars
<1>32. CASE LetGo
  BY <1>32 DEF LetGo, objVars, reqVars
<1> QED
  BY <1>1, <1>2, <1>3, <1>4, <1>5, <1>6, <1>7, <1>8, <1>9, <1>10, <1>11, <1>12, <1>13, <1>14, <1>15, <1>16, <1>17, <1>18,
     <1>19, <1>20, <1>21, <1>22, <1>23, <1>24, <1>25, <1>26, <1>27, <1>28, <1>29, <1>30, <1>31, <1>32
  DEF Next, Request, Progress, NodeStep, Terminated

\* The variables keep their types, whatever fails.
THEOREM TypeCorrect == Spec => []TypeOK
<1>1. Init => TypeOK
  BY NamesAssumption DEF Init, TypeOK, Nodes, Containers, States
<1> QED  BY <1>1, TypeStep, PTL DEF Spec

-----------------------------------------------------------------------------
(* Nothing is left behind.                                                  *)

\* A step that only removes things from the host, or leaves them in a namespace that
\* outlives its node, and drops no node and no name, is safe.
LEMMA HostShrinks ==
    ASSUME Accounted,
           \A c \in Containers : cont'[c] = cont[c] \/ cont'[c] = "none",
           netns' = netns, veths' \subseteq veths,
           abandoned \subseteq abandoned', undeleted \subseteq undeleted',
           \A n \in Docker : Gone(n)' => Gone(n),
           ovs' = "nil" => ovs = "nil"
    PROVE  Accounted'
<1>1. ASSUME NEW n \in Docker, (Gone(n) /\ n \notin abandoned)'
      PROVE  (cont[n] = "none" /\ n \notin netns /\ NoSocket(n))'
  <2>1. Gone(n) /\ n \notin abandoned
    BY <1>1
  <2>2. cont[n] = "none" /\ n \notin netns /\ NoSocket(n)
    BY <2>1 DEF Accounted, DockerAccounted
  <2> QED  BY <2>2 DEF NoSocket, Outlives, Containers
<1>2. DockerAccounted'
  BY <1>1 DEF DockerAccounted
<1>3. OvsAccounted'
  BY DEF Accounted, OvsAccounted, NoSocket, Outlives, Containers
<1>4. LocalNamed'
  BY DEF Accounted, LocalNamed, Named
<1> QED  BY <1>2, <1>3, <1>4 DEF Accounted

\* So is the start or the stop of a node of the topology.
LEMMA ConfinedAccounted ==
    ASSUME Accounted, NodeTypeOK', NEW n \in Nodes, n \in nodes, Confined(n),
           pc # "close_nodes", pc' # "close_nodes", UNCHANGED <<nodes, ovs, leftVars>>
    PROVE  Accounted'
<1>0. UNCHANGED <<abandoned, undeleted>>
  BY DEF leftVars
<1>1. ASSUME NEW d \in Nodes, d # n, NoSocket(d) PROVE NoSocket(d)'
  BY <1>0, <1>1 DEF NoSocket, Outlives, Confined, OwnPair, Own
<1>2. ASSUME NEW d \in Docker, (Gone(d) /\ d \notin abandoned)'
      PROVE  (cont[d] = "none" /\ d \notin netns /\ NoSocket(d))'
  <2>1. Gone(d) /\ d \notin abandoned /\ d # n
    BY <1>2 DEF Gone, leftVars
  <2>2. cont[d] = "none" /\ d \notin netns /\ NoSocket(d)
    BY <2>1 DEF Accounted, DockerAccounted
  <2>3. NoSocket(d)'
    BY <1>1, <2>1, <2>2 DEF Nodes
  <2> QED  BY <2>1, <2>2, <2>3 DEF Confined, Containers
<1>3. OvsAccounted'
  <2>1. cont'[OvsInst] = cont[OvsInst]
    BY NamesAssumption DEF Confined, Containers, Nodes
  <2>2. ASSUME NEW m \in Ovs, NoSocket(m) PROVE NoSocket(m)'
    <3>1. CASE m # n
      BY <1>1, <2>2, <3>1 DEF Nodes
    <3>2. CASE m = n
      <4>1. veths' = veths
        BY <3>2, NamesAssumption DEF Confined
      <4> QED  BY <1>0, <2>2, <4>1 DEF NoSocket, Outlives
    <3> QED  BY <3>1, <3>2
  <2> QED  BY <1>0, <2>1, <2>2 DEF Accounted, OvsAccounted
<1>4. LocalNamed'
  <2>1. ASSUME NEW x, NEW y, Own(n, x, y), Named(x) PROVE Named(y)'
    BY <1>0, <2>1 DEF Own, Named, Confined, NodeTypeOK
  <2> QED  BY <2>1 DEF Accounted, LocalNamed, Confined, OwnPair
<1> QED  BY <1>2, <1>3, <1>4 DEF Accounted, DockerAccounted

\* And the setup of a link between nodes of the topology.
LEMMA SetupAccounted ==
    ASSUME Accounted, NodeTypeOK', NEW l \in Links, EndNodes(l) \subseteq nodes,
           SetupConfined(l),
           pc # "close_nodes", pc' # "close_nodes", UNCHANGED <<nodes, ovs, leftVars>>
    PROVE  Accounted'
<1>0. UNCHANGED <<abandoned, undeleted>>
  BY DEF leftVars
<1>1. ASSUME NEW d \in Docker, (Gone(d) /\ d \notin abandoned)'
      PROVE  (cont[d] = "none" /\ d \notin netns /\ NoSocket(d))'
  <2>1. Gone(d) /\ d \notin abandoned /\ d \notin EndNodes(l)
    BY <1>0, <1>1 DEF Gone
  <2>2. cont[d] = "none" /\ d \notin netns /\ NoSocket(d)
    BY <2>1 DEF Accounted, DockerAccounted
  <2>3. NoSocket(d)'
    BY <1>0, <2>1, <2>2 DEF NoSocket, Outlives, SetupConfined, EndNodes
  <2> QED  BY <2>1, <2>2, <2>3 DEF SetupConfined
<1>2. OvsAccounted'
  <2>1. ASSUME NEW m \in Ovs, NoSocket(m), ovs = "nil" PROVE NoSocket(m)'
    BY <1>0, <2>1 DEF NoSocket, Outlives, SetupConfined, EndNodes
  <2> QED  BY <1>0, <2>1 DEF Accounted, OvsAccounted, SetupConfined
<1>3. LocalNamed'
  <2>1. ASSUME NEW w \in veths' PROVE Named(w[1])' /\ Named(w[2])'
    <3>1. CASE w \in veths
      <4>1. Named(w[1]) /\ Named(w[2])
        BY <3>1 DEF Accounted, LocalNamed
      <4> QED  BY <1>0, <4>1 DEF Named, SetupConfined
    <3>2. CASE w \notin veths
      BY <2>1, <3>2 DEF Named, SetupConfined, NodeTypeOK
    <3> QED  BY <3>1, <3>2
  <2> QED  BY <2>1 DEF LocalNamed
<1> QED  BY <1>1, <1>2, <1>3 DEF Accounted, DockerAccounted

\* A step that leaves the host alone, and after which no node is newly gone.
HostUntouched ==
    UNCHANGED <<hostVars, netns, leftVars, ovs, nodes>> /\ (pc' = "close_nodes" => todo' = nodes)

\* Such a step leaves everything on the host accounted for.
LEMMA UntouchedAccounted ==
    ASSUME Accounted, HostUntouched
    PROVE  Accounted'
<1>1. \A n \in Docker : Gone(n)' => Gone(n)
  BY DEF Gone, HostUntouched
<1> QED  BY <1>1, HostShrinks DEF HostUntouched, hostVars, leftVars

\* So is one that only creates the local namespaces of nodes of the topology.
LEMMA TouchAccounted ==
    ASSUME Accounted, UNCHANGED <<cont, nodes, ovs, leftVars>>, veths' \subseteq veths,
           netns \subseteq netns', netns' \subseteq netns \cup nodes,
           pc # "close_nodes", pc' # "close_nodes"
    PROVE  Accounted'
<1>0. UNCHANGED <<abandoned, undeleted>>
  BY DEF leftVars
<1>1. DockerAccounted'
  BY <1>0 DEF Accounted, DockerAccounted, Gone, NoSocket, Outlives
<1>2. OvsAccounted'
  BY <1>0 DEF Accounted, OvsAccounted, NoSocket, Outlives
<1>3. LocalNamed'
  BY <1>0 DEF Accounted, LocalNamed, Named
<1> QED  BY <1>1, <1>2, <1>3 DEF Accounted

\* Every step leaves what is on the host accounted for: one case per action.
LEMMA AccountedStep == CleanInv /\ TypeOK' /\ [Next]_vars => Accounted'
<1> SUFFICES ASSUME CleanInv, TypeOK', [Next]_vars
             PROVE  Accounted'
  OBVIOUS
<1>a. Accounted /\ TypeOK /\ TodoKnown /\ LinksKnown /\ NodeTypeOK /\ NodeTypeOK'
  <2>1. TypeOK => NodeTypeOK
    BY TypeSplit
  <2>2. NodeTypeOK'
    BY DEF TypeOK, NodeTypeOK, Pairs
  <2> QED  BY <2>1, <2>2 DEF CleanInv
<1>1. CASE Run
  <2>1. HostUntouched
    BY <1>a, <1>1 DEF Run, nodeVars, objVars, hostVars, HostUntouched
  <2> QED  BY <1>a, <2>1, UntouchedAccounted
<1>2. CASE Start
  <2>1. HostUntouched
    BY <1>a, <1>2 DEF Start, Serve, nodeVars, objVars, hostVars, HostUntouched
  <2> QED  BY <1>a, <2>1, UntouchedAccounted
<1>3. CASE Stop
  <2>1. HostUntouched
    BY <1>a, <1>3 DEF Stop, Serve, nodeVars, objVars, hostVars, HostUntouched
  <2> QED  BY <1>a, <2>1, UntouchedAccounted
<1>4. CASE Restart
  <2>1. HostUntouched
    BY <1>a, <1>4 DEF Restart, Serve, nodeVars, objVars, hostVars, HostUntouched
  <2> QED  BY <1>a, <2>1, UntouchedAccounted
<1>5. CASE StartAll
  <2>1. HostUntouched
    BY <1>a, <1>5 DEF StartAll, Serve, nodeVars, objVars, hostVars, HostUntouched
  <2> QED  BY <1>a, <2>1, UntouchedAccounted
<1>6. CASE StopAll
  <2>1. HostUntouched
    BY <1>a, <1>6 DEF StopAll, Serve, nodeVars, objVars, hostVars, HostUntouched
  <2> QED  BY <1>a, <2>1, UntouchedAccounted
<1>7. CASE Close
  <2>1. HostUntouched
    BY <1>a, <1>7 DEF Close, nodeVars, objVars, hostVars, HostUntouched
  <2> QED  BY <1>a, <2>1, UntouchedAccounted
<1>8. CASE LoadRejected
  <2>1. HostUntouched
    BY <1>a, <1>8 DEF LoadRejected, LoadFailed, Reply, nodeVars, objVars, hostVars, HostUntouched
  <2> QED  BY <1>a, <2>1, UntouchedAccounted
<1>9. CASE LoadOvsFails
  <2>1. HostUntouched
    BY <1>a, <1>9 DEF LoadOvsFails, LoadFailed, Reply, nodeVars, objVars, hostVars, HostUntouched
  <2> QED  BY <1>a, <2>1, UntouchedAccounted
<1>10. CASE LoadEnd
  <2>1. HostUntouched
    BY <1>a, <1>10 DEF LoadEnd, LoadFailed, Reply, nodeVars, objVars, hostVars, HostUntouched
  <2> QED  BY <1>a, <2>1, UntouchedAccounted
<1>11. CASE RunSkipped
  <2>1. HostUntouched
    BY <1>a, <1>11 DEF RunSkipped, Reply, nodeVars, objVars, hostVars, HostUntouched
  <2> QED  BY <1>a, <2>1, UntouchedAccounted
<1>12. CASE RunPanics
  <2>1. HostUntouched
    BY <1>a, <1>12 DEF RunPanics, nodeVars, objVars, hostVars, HostUntouched
  <2> QED  BY <1>a, <2>1, UntouchedAccounted
<1>13. CASE RunNodesEnd
  <2>1. HostUntouched
    BY <1>a, <1>13 DEF RunNodesEnd, Reply, nodeVars, objVars, hostVars, HostUntouched
  <2> QED  BY <1>a, <2>1, UntouchedAccounted
<1>14. CASE RunEnd
  <2>1. HostUntouched
    BY <1>a, <1>14 DEF RunEnd, Reply, nodeVars, objVars, hostVars, HostUntouched
  <2> QED  BY <1>a, <2>1, UntouchedAccounted
<1>15. CASE ServeEnd
  <2>1. HostUntouched
    BY <1>a, <1>15 DEF ServeEnd, Reply, nodeVars, objVars, hostVars, HostUntouched
  <2> QED  BY <1>a, <2>1, UntouchedAccounted
<1>16. CASE LoadOvs
  <2>1. /\ nodes = {} /\ nodes' = {} /\ pc' = "load_nodes" /\ pc = "load" /\ ovs' = "created"
        /\ \A c \in Docker : cont'[c] = cont[c]
        /\ UNCHANGED <<netns, veths, leftVars>>
    BY <1>a, <1>16, NamesAssumption DEF LoadOvs, TodoKnown, TypeOK, Nodes, Containers, objVars
  <2> QED  BY <1>a, <2>1 DEF Accounted, DockerAccounted, OvsAccounted, LocalNamed, Gone, NoSocket, Outlives, Named, leftVars
<1>17. ASSUME NEW n \in Nodes, CreateNode(n) PROVE Accounted'
  <2>1. /\ nodes \subseteq nodes' /\ pc = "load_nodes" /\ pc' = "load_nodes"
        /\ \A c \in Containers : cont'[c] = cont[c] \/ c \in nodes'
        /\ cont'[OvsInst] = cont[OvsInst]
        /\ UNCHANGED <<netns, veths, leftVars, ovs>>
    BY <1>a, <1>17, NamesAssumption DEF CreateNode, TypeOK, Nodes, Containers, objVars
  <2> QED  BY <1>a, <2>1 DEF Accounted, DockerAccounted, OvsAccounted, LocalNamed, Gone, NoSocket, Outlives, Named, leftVars, Containers
<1>18. CASE RunStartsOvs \/ RunOvsFails
  <2>1. /\ nodes' = nodes /\ pc = "run" /\ pc' # "close_nodes" /\ ovs' # "nil"
        /\ \A c \in Docker : cont'[c] = cont[c]
        /\ UNCHANGED <<netns, veths, leftVars>>
    BY <1>a, <1>18, NamesAssumption
    DEF RunStartsOvs, RunOvsFails, Reply, TypeOK, Nodes, Containers, objVars
  <2> QED  BY <1>a, <2>1 DEF Accounted, DockerAccounted, OvsAccounted, LocalNamed, Gone, NoSocket, Outlives, Named, leftVars
<1>19. ASSUME NEW n \in Nodes, RunNode(n) PROVE Accounted'
  <2>1. /\ n \in nodes /\ pc # "close_nodes" /\ pc' # "close_nodes"
        /\ UNCHANGED <<nodes, ovs, leftVars>>
    BY <1>a, <1>19 DEF RunNode, TodoKnown
  <2>2. CASE StartOk(n) \/ StartFails(n)
    BY <1>a, <2>1, <2>2, StartConfined, ConfinedAccounted
  <2>3. CASE UNCHANGED nodeVars
    <3>1. HostUntouched
      BY <2>1, <2>3 DEF nodeVars, objVars, hostVars, HostUntouched
    <3> QED  BY <1>a, <3>1, UntouchedAccounted
  <2> QED  BY <1>19, <2>2, <2>3 DEF RunNode
<1>20. ASSUME NEW n \in Nodes, ServeStart(n) PROVE Accounted'
  <2>1. /\ n \in nodes /\ pc # "close_nodes" /\ pc' # "close_nodes"
        /\ UNCHANGED <<nodes, ovs, leftVars>>
    BY <1>a, <1>20 DEF ServeStart, TodoKnown
  <2> QED  BY <1>a, <1>20, <2>1, StartConfined, ConfinedAccounted DEF ServeStart, StartThenConfig
<1>21. ASSUME NEW n \in Nodes, ServeStop(n) \/ RestartStops(n)
       PROVE Accounted'
  <2>1. /\ n \in nodes /\ pc # "close_nodes" /\ pc' # "close_nodes"
        /\ UNCHANGED <<nodes, ovs, leftVars>>
    BY <1>a, <1>21 DEF ServeStop, RestartStops, TodoKnown
  <2> QED
    BY <1>a, <1>21, <2>1, StopConfined, ConfinedAccounted DEF ServeStop, RestartStops, StopNode
<1>22. ASSUME NEW l \in Links, RunLink(l) PROVE Accounted'
  <2>1. /\ EndNodes(l) \subseteq nodes /\ pc # "close_nodes" /\ pc' # "close_nodes"
        /\ UNCHANGED <<nodes, ovs, leftVars>>
    BY <1>a, <1>22 DEF RunLink, Reply, TodoKnown, LinksKnown
  <2> QED  BY <1>a, <1>22, <2>1, SetupLinkConfined, SetupAccounted DEF RunLink
<1>23. ASSUME NEW l \in Links, LinkAdd(l) PROVE Accounted'
  <2>1. /\ EndNodes(l) \subseteq nodes /\ pc # "close_nodes" /\ pc' # "close_nodes"
        /\ UNCHANGED <<nodes, ovs, leftVars>>
    BY <1>a, <1>23 DEF LinkAdd, Reply
  <2> QED  BY <1>a, <1>23, <2>1, SetupLinkConfined, SetupAccounted DEF LinkAdd
<1>24. ASSUME NEW l \in Links, LinkAddPanics(l) PROVE Accounted'
  <2>1. /\ pc = "idle" /\ pc' = "crashed" /\ UNCHANGED <<nodes, ovs, leftVars, hostVars>>
        /\ netns \subseteq netns' /\ netns' \subseteq netns \cup nodes
    BY <1>24 DEF LinkAddPanics, Touch
  <2> QED  BY <1>a, <2>1, TouchAccounted DEF hostVars
<1>25. ASSUME NEW l \in Links, LinkDel(l) \/ LinkUpdate(l) PROVE Accounted'
  <2>1. /\ EndNodes(l) \subseteq nodes
        /\ pc = "idle" /\ pc' = "idle" /\ UNCHANGED <<nodes, ovs, leftVars, cont>>
    BY <1>a, <1>25 DEF LinkDel, LinkUpdate, Reply, LinksKnown, hostVars
  <2>2. netns \subseteq netns' /\ netns' \subseteq netns \cup nodes
    <3>1. ASSUME NEW N, N \subseteq EndNodes(l), Touch(N)
          PROVE  netns \subseteq netns' /\ netns' \subseteq netns \cup nodes
      BY <2>1, <3>1 DEF Touch
    <3>2. netns' = netns \/ \E N \in SUBSET EndNodes(l) : Touch(N)
      <4>1. CASE LinkDel(l)
        BY <4>1 DEF LinkDel, EndNodes
      <4>2. CASE LinkUpdate(l)
        <5>1. PICK k \in 0..2 : Touch({l[j][1] : j \in 1..k})
          BY <4>2 DEF LinkUpdate
        <5>2. {l[j][1] : j \in 1..k} \subseteq EndNodes(l)
          BY DEF EndNodes
        <5> QED  BY <5>1, <5>2
      <4> QED  BY <1>25, <4>1, <4>2
    <3> QED  BY <3>1, <3>2
  <2>3. veths' \subseteq veths
    BY <1>25 DEF LinkDel, LinkUpdate, Without, hostVars
  <2> QED  BY <1>a, <2>1, <2>2, <2>3, TouchAccounted
<1>26. ASSUME NEW n \in Nodes, CloseNode(n) PROVE Accounted'
  <2>1. /\ pc = "close_nodes" /\ pc' = pc /\ UNCHANGED <<nodes, ovs>>
        /\ \A d \in Docker : d # n /\ Gone(d)' => Gone(d)
    BY <1>26 DEF CloseNode, Gone
  <2>2. /\ \A c \in Containers : c # n => cont'[c] = cont[c]
        /\ netns' \subseteq netns /\ netns \subseteq netns' \cup {n}
        /\ abandoned \subseteq abandoned' /\ undeleted \subseteq undeleted'
        /\ n \notin Docker => cont' = cont /\ netns' = netns
    BY <1>a, <1>26, NamesAssumption
    DEF CloseNode, CloseDocker, CloseNetns, CloseOvs, hostVars, leftVars, TypeOK, Nodes, Containers
  <2>3. /\ \A w \in veths' : \E v \in veths : FadesPair({n}, Namespaces, v, w)
        /\ n \notin Docker => veths' = veths
    BY <1>a, <1>26, CloseNodePairs DEF NodeTypeOK
  <2>n. ASSUME NEW x, NEW y, Fades({n}, Namespaces, x, y), Named(x)
        PROVE  y[1] # n => Named(y)'
    BY <2>2, <2>n DEF Fades, Named
  <2>o. ASSUME NEW x, NEW y, Fades({n}, Namespaces, x, y), Outlives(x) PROVE Outlives(y)'
    BY <2>2, <2>o DEF Fades, Outlives
  <2>p. \A w \in veths' : \E v \in veths :
            Fades({n}, Namespaces, v[1], w[1]) /\ Fades({n}, Namespaces, v[2], w[2])
    BY <2>3 DEF FadesPair
  <2>s. ASSUME NEW d \in Nodes, d # n \/ n \notin Docker, NoSocket(d)
        PROVE  NoSocket(d)'
    <3>1. CASE n \notin Docker
      BY <2>2, <2>3, <2>s, <3>1 DEF NoSocket, Outlives
    <3>2. CASE d # n
      <4>1. ASSUME NEW x, NEW y, Fades({n}, Namespaces, x, y), x[1] = d => Outlives(x), y[1] = d
            PROVE  Outlives(y)'
        BY <2>2, <3>2, <4>1 DEF Fades, In, Outlives
      <4> QED  BY <2>p, <2>s, <4>1 DEF NoSocket
    <3> QED  BY <2>s, <3>1, <3>2
  <2>4. ASSUME n \in Docker, CloseNetns(n)
        PROVE  /\ n \notin netns' /\ NoSocket(n)'
               /\ \A w \in veths' : /\ w[1][1] = n => Named(w[1])'
                                    /\ w[2][1] = n => Named(w[2])'
    <3>0. /\ {n} \in SUBSET Nodes /\ veths \subseteq Pairs
          /\ {"run"} \in SUBSET Namespaces /\ Namespaces \in SUBSET Namespaces
      BY <1>a DEF Namespaces, NodeTypeOK
    <3>1. PICK S \in {Namespaces, {"run"}} :
                /\ veths' \in Outcomes(veths, {n}, S)
                /\ S = Namespaces \/ n \notin netns \/ n \in undeleted'
      BY <2>4 DEF CloseNetns
    <3>2. /\ veths' \subseteq Pairs
          /\ \A w \in veths' : \E v \in veths : FadesPair({n}, S, v, w)
          /\ \A w \in veths' : w[1] \notin In({n}, S) /\ w[2] \notin In({n}, S)
      <4>1. Faded({n}, S, veths, veths')
        BY <3>0, <3>1, OutcomesPairs
      <4> QED  BY <4>1 DEF Faded
    <3>3. ASSUME NEW x, NEW y, Fades({n}, S, x, y), Named(x), y \in In(Nodes, Places),
                 y \notin In({n}, S), y[1] = n
          PROVE  Outlives(y)' /\ Named(y)'
      <4>1. CASE y[3] = "local"
        <5>1. y = x /\ S = {"run"}
          BY <3>1, <3>3, <4>1 DEF Fades, In, Namespaces, Places
        <5>2. n \in undeleted'
          BY <2>2, <3>1, <3>3, <4>1, <5>1 DEF Named, Namespaces
        <5> QED  BY <2>4, <3>3, <4>1, <5>2 DEF Outlives, Named
      <4>2. CASE y[3] # "local"
        <5>1. y[3] = "kept"
          BY <3>1, <3>3, <4>2 DEF In, Namespaces, Places
        <5> QED  BY <5>1, <4>2 DEF Outlives, Named
      <4> QED  BY <4>1, <4>2
    <3>4. ASSUME NEW w \in veths'
          PROVE  /\ w[1][1] = n => Outlives(w[1])' /\ Named(w[1])'
                 /\ w[2][1] = n => Outlives(w[2])' /\ Named(w[2])'
      <4>1. PICK v \in veths : Fades({n}, S, v[1], w[1]) /\ Fades({n}, S, v[2], w[2])
        BY <3>2 DEF FadesPair
      <4>2. Named(v[1]) /\ Named(v[2])
        BY <1>a DEF Accounted, LocalNamed
      <4>3. w[1] \in In(Nodes, Places) /\ w[2] \in In(Nodes, Places)
        BY <3>2 DEF Pairs
      <4> QED  BY <3>2, <3>3, <4>1, <4>2, <4>3
    <3>5. n \notin netns'
      BY <2>4 DEF CloseNetns
    <3> QED  BY <3>4, <3>5 DEF NoSocket
  <2>5. n \in Docker => CloseNetns(n) \/ (n \in abandoned' /\ UNCHANGED <<netns, undeleted>>)
    BY <1>26, NamesAssumption DEF CloseNode, CloseDocker, CloseOvs
  <2>6. ASSUME NEW d \in Docker, (Gone(d) /\ d \notin abandoned)'
        PROVE  (cont[d] = "none" /\ d \notin netns /\ NoSocket(d))'
    <3>1. CASE d = n
      <4>1. CloseNetns(n)
        BY <2>5, <2>6, <3>1
      <4>2. cont' = [cont EXCEPT ![n] = "none"]
        BY <1>26, <2>6, <3>1, NamesAssumption DEF CloseNode, CloseDocker, CloseOvs
      <4> QED  BY <1>a, <2>4, <2>6, <3>1, <4>1, <4>2 DEF TypeOK, Containers
    <3>2. CASE d # n
      <4>1. cont[d] = "none" /\ d \notin netns /\ NoSocket(d)
        BY <1>a, <2>1, <2>2, <2>6, <3>2 DEF Accounted, DockerAccounted
      <4>2. NoSocket(d)'
        BY <2>s, <3>2, <4>1 DEF Nodes
      <4> QED  BY <2>2, <3>2, <4>1, <4>2 DEF Containers
    <3> QED  BY <3>1, <3>2
  <2>7. OvsAccounted'
    <3>1. ASSUME NEW m \in Ovs, NoSocket(m) PROVE NoSocket(m)'
      BY <2>s, <3>1, NamesAssumption DEF Nodes
    <3>2. cont'[OvsInst] = cont[OvsInst]
      BY <2>2, NamesAssumption DEF Containers, Nodes
    <3> QED  BY <1>a, <2>1, <2>2, <3>1, <3>2 DEF Accounted, OvsAccounted
  <2>8. LocalNamed'
    <3>1. ASSUME NEW w \in veths' PROVE Named(w[1])' /\ Named(w[2])'
      <4>1. PICK v \in veths :
                Fades({n}, Namespaces, v[1], w[1]) /\ Fades({n}, Namespaces, v[2], w[2])
        BY <2>p
      <4>2. Named(v[1]) /\ Named(v[2])
        BY <1>a DEF Accounted, LocalNamed
      <4>3. ASSUME w[1][1] = n PROVE Named(w[1])'
        <5>1. CASE n \in Docker /\ CloseNetns(n)
          BY <2>4, <4>3, <5>1
        <5>2. CASE ~(n \in Docker /\ CloseNetns(n))
          <6>1. netns' = netns
            BY <2>2, <2>5, <5>2
          <6> QED  BY <2>2, <4>1, <4>2, <6>1 DEF Fades, Named
        <5> QED  BY <5>1, <5>2
      <4>4. ASSUME w[2][1] = n PROVE Named(w[2])'
        <5>1. CASE n \in Docker /\ CloseNetns(n)
          BY <2>4, <4>4, <5>1
        <5>2. CASE ~(n \in Docker /\ CloseNetns(n))
          <6>1. netns' = netns
            BY <2>2, <2>5, <5>2
          <6> QED  BY <2>2, <4>1, <4>2, <6>1 DEF Fades, Named
        <5> QED  BY <5>1, <5>2
      <4> QED  BY <2>n, <4>1, <4>2, <4>3, <4>4
    <3> QED  BY <3>1 DEF LocalNamed
  <2> QED  BY <2>6, <2>7, <2>8 DEF Accounted, DockerAccounted
<1>27. CASE CloseEnd
  <2>1. /\ \A c \in Docker : cont'[c] = cont[c]
        /\ netns' = netns /\ undeleted' = undeleted /\ abandoned \subseteq abandoned'
        /\ \A n \in Docker : Gone(n)
    BY <1>a, <1>27, NamesAssumption
    DEF CloseEnd, CloseOvsInstance, hostVars, TypeOK, Nodes, Containers, Gone
  <2>2. /\ \A w \in veths' : \E v \in veths :
                Fades(Ovs, {"run"}, v[1], w[1]) /\ Fades(Ovs, {"run"}, v[2], w[2])
        /\ \/ veths' = veths
           \/ \A w \in veths' : w[1] \notin In(Ovs, {"run"}) /\ w[2] \notin In(Ovs, {"run"})
    BY <1>a, <1>27, CloseEndPairs DEF NodeTypeOK, FadesPair
  <2>3. ASSUME NEW x, NEW y, Fades(Ovs, {"run"}, x, y)
        PROVE  /\ Named(x) => Named(y)' /\ Named(y)
               /\ Outlives(x) => Outlives(y)'
               /\ \A d \in Docker : y[1] = d => x[1] = d
    BY <2>1, <2>3 DEF Fades, In, Named, Outlives
  <2>4. ASSUME NEW d \in Docker, NoSocket(d) PROVE NoSocket(d)'
    BY <2>2, <2>3, <2>4 DEF NoSocket
  <2>5. DockerAccounted'
    BY <1>a, <2>1, <2>4 DEF Accounted, DockerAccounted
  <2>6. LocalNamed'
    BY <1>a, <2>2, <2>3 DEF Accounted, LocalNamed
  <2>7. ASSUME ovs = "nil" PROVE OvsAccounted'
    <3>1. UNCHANGED <<cont, veths, abandoned, undeleted>>
      BY <1>27, <2>7 DEF CloseEnd, CloseOvsInstance, hostVars
    <3> QED  BY <1>a, <2>7, <3>1 DEF Accounted, OvsAccounted, NoSocket, Outlives
  <2>8. ASSUME ovs # "nil", OvsInst \notin abandoned' PROVE OvsAccounted'
    <3>1. cont' = [cont EXCEPT ![OvsInst] = "none"] /\ veths' \in Outcomes(veths, Ovs, {"run"})
      BY <1>27, <2>8 DEF CloseEnd, CloseOvsInstance
    <3>2. \A w \in veths' : w[1] \notin In(Ovs, {"run"}) /\ w[2] \notin In(Ovs, {"run"})
      <4>1. Ovs \in SUBSET Nodes /\ {"run"} \in SUBSET Namespaces /\ veths \subseteq Pairs
        BY <1>a DEF Nodes, Namespaces, NodeTypeOK
      <4>2. Faded(Ovs, {"run"}, veths, veths')
        BY <3>1, <4>1, OutcomesPairs
      <4> QED  BY <4>2 DEF Faded
    <3>3. ASSUME NEW m \in Ovs, NEW y \in In(Nodes, Places), y \notin In(Ovs, {"run"}),
                 Named(y)', y[1] = m
          PROVE  Outlives(y)'
      BY <3>3, NamesAssumption DEF In, Places, Namespaces, Named, Outlives
    <3>4. \A w \in veths' : w[1] \in In(Nodes, Places) /\ w[2] \in In(Nodes, Places)
      BY <1>a DEF NodeTypeOK, Pairs
    <3>5. ASSUME NEW m \in Ovs PROVE NoSocket(m)'
      BY <2>6, <3>2, <3>3, <3>4 DEF NoSocket, LocalNamed
    <3>6. cont'[OvsInst] = "none"
      BY <1>a, <3>1 DEF TypeOK, Containers
    <3> QED  BY <3>5, <3>6 DEF OvsAccounted
  <2>9. ASSUME OvsInst \in abandoned' PROVE OvsAccounted'
    BY <2>9 DEF OvsAccounted
  <2> QED  BY <2>5, <2>6, <2>7, <2>8, <2>9 DEF Accounted
<1>29. CASE LetGo
  <2>1. /\ veths' \subseteq veths
        /\ UNCHANGED <<cont, netns, nodes, ovs, pc, todo, abandoned, undeleted>>
    BY <1>29 DEF LetGo, objVars, reqVars, leftVars
  <2> QED  BY <1>a, <2>1, HostShrinks DEF Gone
<1>28. CASE UNCHANGED vars
  <2>1. UNCHANGED <<cont, veths, netns, nodes, ovs, pc, todo, abandoned, undeleted>>
    BY <1>28 DEF vars, nodeVars, objVars, hostVars, reqVars, leftVars
  <2> QED  BY <1>a, <2>1, HostShrinks DEF Gone
<1> QED
  BY <1>1, <1>2, <1>3, <1>4, <1>5, <1>6, <1>7, <1>8, <1>9, <1>10, <1>11, <1>12, <1>13, <1>14, <1>15,
     <1>16, <1>17, <1>18, <1>19, <1>20, <1>21, <1>22, <1>23, <1>24, <1>25, <1>26, <1>27, <1>28, <1>29
  DEF Next, Request, Progress, NodeStep, Terminated

\* What is left to do stays within the topology, and the links too.
LEMMA KnownStep == CleanInv /\ TypeOK' /\ [Next]_vars => TodoKnown' /\ LinksKnown'
<1> SUFFICES ASSUME TypeOK, TodoKnown, LinksKnown, [Next]_vars
             PROVE  TodoKnown' /\ LinksKnown'
  BY DEF CleanInv
<1> USE DEF TodoKnown, LinksKnown, EndNodes
<1>1. CASE Run
  BY <1>1 DEF Run
<1>2. CASE Start
  BY <1>2 DEF Start, Serve
<1>3. CASE Stop
  BY <1>3 DEF Stop, Serve
<1>4. CASE Restart
  BY <1>4 DEF Restart, Serve
<1>5. CASE StartAll
  BY <1>5 DEF StartAll, Serve
<1>6. CASE StopAll
  BY <1>6 DEF StopAll, Serve
<1>7. CASE Close
  BY <1>7 DEF Close
<1>8. CASE LoadRejected
  BY <1>8 DEF LoadRejected, LoadFailed, Reply
<1>9. CASE LoadOvsFails
  BY <1>9 DEF LoadOvsFails, LoadFailed, Reply
<1>10. CASE LoadEnd
  BY <1>10 DEF LoadEnd, LoadFailed, Reply
<1>11. CASE RunSkipped
  BY <1>11 DEF RunSkipped, Reply
<1>12. CASE RunPanics
  BY <1>12 DEF RunPanics
<1>13. CASE RunStartsOvs
  BY <1>13 DEF RunStartsOvs
<1>14. CASE RunOvsFails
  BY <1>14 DEF RunOvsFails, Reply
<1>15. CASE RunNodesEnd
  BY <1>15 DEF RunNodesEnd, Reply
<1>16. CASE RunEnd
  BY <1>16 DEF RunEnd, Reply
<1>17. CASE ServeEnd
  BY <1>17 DEF ServeEnd, Reply
<1>18. CASE CloseEnd
  BY <1>18 DEF CloseEnd
<1>19. ASSUME NEW l \in Links, LinkAdd(l) PROVE TodoKnown' /\ LinksKnown'
  BY <1>19 DEF LinkAdd, Reply
<1>20. ASSUME NEW l \in Links, LinkAddPanics(l) PROVE TodoKnown' /\ LinksKnown'
  BY <1>20 DEF LinkAddPanics
<1>21. ASSUME NEW l \in Links, LinkDel(l) PROVE TodoKnown' /\ LinksKnown'
  BY <1>21 DEF LinkDel, Reply
<1>22. ASSUME NEW l \in Links, RunLink(l) PROVE TodoKnown' /\ LinksKnown'
  BY <1>22 DEF RunLink, Reply
<1>23. ASSUME NEW n \in Nodes, CreateNode(n) PROVE TodoKnown' /\ LinksKnown'
  BY <1>23 DEF CreateNode
<1>24. ASSUME NEW n \in Nodes, RunNode(n) PROVE TodoKnown' /\ LinksKnown'
  BY <1>24 DEF RunNode
<1>25. ASSUME NEW n \in Nodes, ServeStart(n) PROVE TodoKnown' /\ LinksKnown'
  BY <1>25 DEF ServeStart
<1>26. ASSUME NEW n \in Nodes, ServeStop(n) PROVE TodoKnown' /\ LinksKnown'
  BY <1>26 DEF ServeStop
<1>27. ASSUME NEW n \in Nodes, RestartStops(n) PROVE TodoKnown' /\ LinksKnown'
  BY <1>27 DEF RestartStops
<1>28. ASSUME NEW n \in Nodes, CloseNode(n) PROVE TodoKnown' /\ LinksKnown'
  BY <1>28 DEF CloseNode
<1>29. CASE LoadOvs
  BY <1>29, FilesAssumption DEF LoadOvs
<1>31. ASSUME NEW l \in Links, LinkUpdate(l) PROVE TodoKnown' /\ LinksKnown'
  BY <1>31 DEF LinkUpdate, Reply
<1>32. CASE LetGo
  BY <1>32 DEF LetGo, reqVars
<1>30. CASE UNCHANGED vars
  BY <1>30 DEF vars, reqVars
<1> QED
  BY <1>1, <1>2, <1>3, <1>4, <1>5, <1>6, <1>7, <1>8, <1>9, <1>10, <1>11, <1>12, <1>13, <1>14,
     <1>15, <1>16, <1>17, <1>18, <1>19, <1>20, <1>21, <1>22, <1>23, <1>24, <1>25, <1>26, <1>27, <1>28, <1>29, <1>30, <1>31, <1>32
  DEF Next, Request, Progress, NodeStep, Terminated

\* The invariant of what is on the host is inductive.
LEMMA CleanStep == CleanInv /\ [Next]_vars => CleanInv'
BY TypeStep, KnownStep, AccountedStep DEF CleanInv

\* It holds of a topology that has not been loaded yet.
LEMMA CleanInit == Init => CleanInv
<1> SUFFICES ASSUME Init PROVE CleanInv
  OBVIOUS
<1>1. TypeOK
  BY NamesAssumption DEF Init, TypeOK, Nodes, Containers, States
<1>2. TodoKnown /\ LinksKnown
  BY DEF Init, TodoKnown, LinksKnown
<1>3. Accounted
  BY DEF Init, Accounted, DockerAccounted, OvsAccounted, LocalNamed, NoSocket, Containers
<1> QED  BY <1>1, <1>2, <1>3 DEF CleanInv

\* It holds in every reachable state.
LEMMA CleanInvariant == Spec => []CleanInv
BY CleanInit, CleanStep, PTL DEF Spec

\* Every container can still be reached by Close, or its removal has failed:
\* whatever fails while the topology is loaded, run, changed or closed.
THEOREM NothingLeaks == Spec => []NoLeak
<1>1. CleanInv => NoLeak
  BY DEF CleanInv, Accounted, DockerAccounted, OvsAccounted, Gone, NoLeak, Containers
<1> QED  BY <1>1, CleanInvariant, PTL

\* A closed topology leaves no container, namespace or interface behind, but those
\* of the containers that could not be removed, and the veth pairs with both ends
\* at one of these or in a namespace that outlives its node.
THEOREM CloseIsClean == Spec => []ClosedClean
<1>1. ASSUME CleanInv, pc \in {"load", "dead"}
      PROVE  /\ \A c \in Containers : cont[c] # "none" => c \in abandoned
             /\ netns \subseteq abandoned
             /\ \A v \in veths : ~Astray(v[1]) /\ ~Astray(v[2])
  <2>1. nodes = {} /\ ovs = "nil" /\ TypeOK
    BY <1>1 DEF CleanInv, TodoKnown
  <2>2. \A n \in Docker : n \notin abandoned => cont[n] = "none" /\ n \notin netns /\ NoSocket(n)
    BY <1>1, <2>1 DEF CleanInv, Accounted, DockerAccounted, Gone
  <2>3. OvsInst \notin abandoned => cont[OvsInst] = "none" /\ \A n \in Ovs : NoSocket(n)
    BY <1>1, <2>1 DEF CleanInv, Accounted, OvsAccounted
  <2>4. ASSUME NEW v \in veths
        PROVE  ~Astray(v[1]) /\ ~Astray(v[2])
    <3>1. v[1][1] \in Nodes /\ v[2][1] \in Nodes
      BY <2>1, <2>4 DEF TypeOK, In
    <3> QED  BY <2>2, <2>3, <2>4, <3>1 DEF NoSocket, Astray, Owner, Nodes
  <2> QED  BY <2>1, <2>2, <2>3, <2>4 DEF TypeOK, Containers
<1>2. CleanInv => ClosedClean
  BY <1>1 DEF ClosedClean
<1> QED  BY <1>2, CleanInvariant, PTL

-----------------------------------------------------------------------------
(* What the operations do to a link that is there.                          *)

\* The shape of a link.
LEMMA LinkParts ==
    ASSUME NEW l \in Links
    PROVE  /\ l[1] # l[2] /\ Ends(l) = {l[1], l[2]} /\ Ends(l) \subseteq Endpoints
           /\ \A e \in Ends(l) : /\ e[1] \in Nodes /\ e[2] \in Idx /\ e = <<e[1], e[2]>>
                                 /\ e[1] \in EndNodes(l)
BY LinksAssumption DEF Ends, Endpoints, EndNodes

\* Two endpoints have the same interface in their current namespaces only if they
\* are the same.
LEMMA HereInjective ==
    ASSUME NEW e \in Endpoints, NEW f \in Endpoints, Here(e) = Here(f)
    PROVE  e = f
<1>1. e = <<e[1], e[2]>> /\ f = <<f[1], f[2]>>
  BY DEF Endpoints
<1>2. e[1] = f[1] /\ e[2] = f[2]
  BY DEF Here
<1> QED  BY <1>1, <1>2

\* The interfaces of a link that is there are found under their names.
LEMMA WholePresent ==
    ASSUME NEW l, Whole(l), NEW e \in Ends(l)
    PROVE  Present(Here(e))
<1>1. <<Here(l[1]), Here(l[2])>> \in veths
  BY DEF Whole
<1>2. e = l[1] \/ e = l[2]
  BY DEF Ends
<1> QED  BY <1>1, <1>2 DEF Present

\* A step that changes neither node objects nor veth pairs keeps a link.
LEMMA UntouchedWhole ==
    ASSUME NEW l, UNCHANGED <<up, ifs, port, veths>>
    PROVE  Whole(l)' <=> Whole(l)
BY DEF Whole, Attached, Here, CurNs

\* Moving the interfaces of n moves the ends of a veth pair that are at n.
LEMMA MovedPair ==
    ASSUME NEW n, NEW M, NEW from, NEW to, NEW s, NEW t, <<s, t>> \in veths
    PROVE  <<IF s[1] = n /\ s[2] \in M /\ s[3] = from THEN <<n, s[2], to>> ELSE s,
             IF t[1] = n /\ t[2] \in M /\ t[3] = from THEN <<n, t[2], to>> ELSE t>>
                \in Moved(n, M, from, to)
<1> DEFINE Shift(x) == IF x[1] = n /\ x[2] \in M /\ x[3] = from
                       THEN <<n, x[2], to>> ELSE x
<1>1. Moved(n, M, from, to) = {<<Shift(v[1]), Shift(v[2])>> : v \in veths}
  BY DEF Moved
<1>2. \E v \in veths : v[1] = s /\ v[2] = t
  OBVIOUS
<1>3. <<Shift(s), Shift(t)>> \in {<<Shift(v[1]), Shift(v[2])>> : v \in veths}
  <2> HIDE DEF Shift
  <2> QED  BY <1>2
<1> QED  BY <1>1, <1>3

\* Starting a node carries its links along.
LEMMA StartKeeps ==
    ASSUME NodeTypeOK, NEW n \in Nodes, StartOk(n), NEW l \in Links, Whole(l)
    PROVE  Whole(l)'
<1>e. /\ l[1][1] \in Nodes /\ l[2][1] \in Nodes
      /\ Here(l[1]) = <<l[1][1], l[1][2], CurNs(l[1][1])>>
      /\ Here(l[2]) = <<l[2][1], l[2][2], CurNs(l[2][1])>>
  BY LinkParts DEF Here, Ends
<1>p. <<Here(l[1]), Here(l[2])>> \in veths /\ Attached(l[1]) /\ Attached(l[2])
  BY DEF Whole
<1>1. CASE UNCHANGED nodeVars
  BY <1>1, UntouchedWhole DEF nodeVars, objVars, hostVars
<1>2. CASE DockerStartOk(n)
  <2>1. /\ n \in Docker /\ n \notin Ovs /\ ~up[n] /\ up' = [up EXCEPT ![n] = TRUE]
        /\ UNCHANGED <<ifs, port>> /\ veths' = Moved(n, ifs[n], "local", "run")
    BY <1>2, NamesAssumption DEF DockerStartOk
  <2>2. ASSUME NEW e \in Ends(l)
        PROVE  Here(e)' = IF Here(e)[1] = n /\ Here(e)[2] \in ifs[n] /\ Here(e)[3] = "local"
                          THEN <<n, Here(e)[2], "run">> ELSE Here(e)
    <3>1. e[1] \in Nodes /\ e[2] \in ifs[e[1]]
      BY <1>p, LinkParts DEF Attached, Ends
    <3>2. CASE e[1] = n
      BY <2>1, <3>1, <3>2 DEF NodeTypeOK, Here, CurNs
    <3>3. CASE e[1] # n
      BY <2>1, <3>1, <3>3 DEF NodeTypeOK, Here, CurNs
    <3> QED  BY <3>2, <3>3
  <2>3. <<Here(l[1])', Here(l[2])'>> \in veths'
    BY <1>p, <2>1, <2>2, MovedPair DEF Ends
  <2>4. \A e \in Ends(l) : Attached(e)'
    BY <1>p, <2>1, LinkParts DEF NodeTypeOK, Attached, Ends
  <2> QED  BY <2>3, <2>4 DEF Whole, Ends
<1>3. CASE OvsStartOk(n)
  <2>1. /\ n \in Ovs /\ up' = [up EXCEPT ![n] = TRUE]
        /\ UNCHANGED <<ifs, veths>> /\ port' = [port EXCEPT ![n] = ifs[n]]
    BY <1>3 DEF OvsStartOk, hostVars
  <2>2. \A e \in Ends(l) : Here(e)' = Here(e)
    BY <2>1, LinkParts DEF NodeTypeOK, Here, CurNs
  <2>3. \A e \in Ends(l) : Attached(e)'
    BY <1>p, <2>1, LinkParts DEF NodeTypeOK, Attached, Ends
  <2> QED  BY <1>p, <2>1, <2>2, <2>3 DEF Whole, Ends
<1> QED  BY <1>1, <1>2, <1>3 DEF StartOk

\* So does stopping it: the interfaces leave the namespace before it dies.
LEMMA StopKeeps ==
    ASSUME NodeTypeOK, NEW n \in Nodes, StopOk(n), NEW l \in Links, Whole(l)
    PROVE  Whole(l)'
<1>p. <<Here(l[1]), Here(l[2])>> \in veths /\ Attached(l[1]) /\ Attached(l[2])
  BY DEF Whole
<1>1. CASE UNCHANGED nodeVars
  BY <1>1, UntouchedWhole DEF nodeVars, objVars, hostVars
<1>2. CASE DockerStopOk(n)
  <2>1. /\ n \in Docker /\ n \notin Ovs /\ up[n] /\ up' = [up EXCEPT ![n] = FALSE]
        /\ UNCHANGED <<ifs, port>>
        /\ veths' \in Outcomes(Moved(n, ifs[n], "run", "local"), {n}, {"run"})
    BY <1>2, NamesAssumption DEF DockerStopOk
  <2>2. ASSUME NEW e \in Ends(l)
        PROVE  /\ Here(e)' = IF Here(e)[1] = n /\ Here(e)[2] \in ifs[n] /\ Here(e)[3] = "run"
                             THEN <<n, Here(e)[2], "local">> ELSE Here(e)
               /\ Here(e)' \notin In({n}, {"run"})
    <3>1. e[1] \in Nodes /\ e[2] \in ifs[e[1]]
      BY <1>p, LinkParts DEF Attached, Ends
    <3>2. CASE e[1] = n
      BY <2>1, <3>1, <3>2 DEF NodeTypeOK, Here, CurNs, In
    <3>3. CASE e[1] # n
      BY <2>1, <3>1, <3>3 DEF NodeTypeOK, Here, CurNs, In
    <3> QED  BY <3>2, <3>3
  <2>3. <<Here(l[1])', Here(l[2])'>> \in Moved(n, ifs[n], "run", "local")
    BY <1>p, <2>2, MovedPair DEF Ends
  <2>4. <<Here(l[1])', Here(l[2])'>> \in veths'
    <3>1. /\ Moved(n, ifs[n], "run", "local") \subseteq Pairs
          /\ {n} \in SUBSET Nodes /\ {"run"} \in SUBSET Namespaces
      BY MovedPairs DEF NodeTypeOK, Namespaces
    <3>2. Here(l[1])' \notin In({n}, {"run"}) /\ Here(l[2])' \notin In({n}, {"run"})
      BY <2>2 DEF Ends
    <3>3. Faded({n}, {"run"}, Moved(n, ifs[n], "run", "local"), veths')
      BY <2>1, <3>1, OutcomesPairs
    <3> QED  BY <2>3, <3>2, <3>3 DEF Faded
  <2>5. \A e \in Ends(l) : Attached(e)'
    BY <1>p, <2>1, LinkParts DEF NodeTypeOK, Attached, Ends
  <2> QED  BY <2>4, <2>5 DEF Whole, Ends
<1>3. CASE OvsStopOk(n)
  <2>1. /\ n \in Ovs /\ up' = [up EXCEPT ![n] = FALSE]
        /\ UNCHANGED <<ifs, veths>> /\ port' = [port EXCEPT ![n] = {}]
    BY <1>3 DEF OvsStopOk, hostVars
  <2>2. \A e \in Ends(l) : Here(e)' = Here(e)
    BY <2>1, LinkParts DEF NodeTypeOK, Here, CurNs
  <2>3. \A e \in Ends(l) : Attached(e)'
    BY <1>p, <2>1, LinkParts DEF NodeTypeOK, Attached, Ends
  <2> QED  BY <1>p, <2>1, <2>2, <2>3 DEF Whole, Ends
<1> QED  BY <1>1, <1>2, <1>3 DEF StopOk

\* Whatever happens at a node, even half of a start or of a stop, keeps the links
\* that do not end there.
LEMMA ElsewhereKeeps ==
    ASSUME NodeTypeOK, NEW n \in Nodes, StartFails(n) \/ StopFails(n),
           NEW l \in Links, n \notin EndNodes(l), Whole(l)
    PROVE  Whole(l)'
<1>p. /\ <<Here(l[1]), Here(l[2])>> \in veths /\ Attached(l[1]) /\ Attached(l[2])
      /\ \A e \in Ends(l) : e[1] \in Nodes /\ e[1] # n
  BY LinkParts DEF Whole
<1>1. ASSUME UNCHANGED ifs, \A m \in Nodes : m # n => up'[m] = up[m] /\ port'[m] = port[m]
      PROVE  /\ \A e \in Ends(l) : Here(e)' = Here(e)
             /\ Attached(l[1])' /\ Attached(l[2])'
  BY <1>p, <1>1 DEF Here, CurNs, Attached, Ends
<1>2. ASSUME NEW M, NEW from, NEW to, veths' = Moved(n, M, from, to)
      PROVE  <<Here(l[1]), Here(l[2])>> \in veths'
  <2>1. Here(l[1])[1] # n /\ Here(l[2])[1] # n
    BY <1>p DEF Here, Ends
  <2> QED  BY <1>p, <1>2, <2>1, MovedPair
<1>3. <<Here(l[1]), Here(l[2])>> \in veths'
  <2>1. CASE veths' = veths
    BY <1>p, <2>1
  <2>2. CASE DockerStartTorn(n)
    BY <1>2, <2>2 DEF DockerStartTorn
  <2>3. CASE DockerStopTorn(n)
    BY <1>2, <2>3 DEF DockerStopTorn
  <2> QED
    BY <2>1, <2>2, <2>3 DEF StartFails, StopFails, OvsStartTorn, OvsStopTorn,
        StartRefused, StopRefused, nodeVars, hostVars
<1>4. UNCHANGED ifs /\ \A m \in Nodes : m # n => up'[m] = up[m] /\ port'[m] = port[m]
  <2>1. CASE DockerStartTorn(n) \/ OvsStartTorn(n)
    BY <2>1 DEF DockerStartTorn, OvsStartTorn, NodeTypeOK
  <2>2. CASE DockerStopTorn(n) \/ OvsStopTorn(n)
    BY <2>2 DEF DockerStopTorn, OvsStopTorn, NodeTypeOK
  <2>3. CASE StartRefused(n) \/ StopRefused(n)
    BY <2>3 DEF StartRefused, StopRefused, nodeVars, objVars
  <2> QED  BY <2>1, <2>2, <2>3 DEF StartFails, StopFails
<1> QED  BY <1>1, <1>3, <1>4 DEF Whole, Ends

\* A start or a stop that fails without breaking half way keeps every link.
LEMMA RefusalKeeps ==
    ASSUME NodeTypeOK, NEW n \in Nodes, StartFails(n) \/ StopFails(n), ~Breaks(n),
           NEW l \in Links, Whole(l)
    PROVE  Whole(l)'
<1>1. CASE StartRefused(n) \/ StopRefused(n)
  BY <1>1, UntouchedWhole DEF StartRefused, StopRefused, nodeVars, objVars, hostVars
<1>2. CASE DockerStopTorn(n)
  <2>1. UNCHANGED <<up, ifs, port>> /\ veths' = Moved(n, {}, "run", "local")
    BY <1>2 DEF DockerStopTorn
  <2>2. <<Here(l[1]), Here(l[2])>> \in veths'
    BY <2>1, MovedPair DEF Whole
  <2> QED  BY <2>1, <2>2 DEF Whole, Attached, Here, CurNs
<1>3. CASE OvsStopTorn(n)
  <2>1. UNCHANGED <<up, ifs, veths>> /\ port' = [port EXCEPT ![n] = @ \ {}]
    BY <1>3 DEF OvsStopTorn, hostVars
  <2>2. port' = port
    BY <2>1 DEF NodeTypeOK
  <2> QED  BY <2>1, <2>2, UntouchedWhole
<1> QED
  BY <1>1, <1>2, <1>3 DEF StartFails, StopFails, DockerStartTorn, OvsStartTorn

\* Setting up a link keeps the others.
LEMMA SetupKeeps ==
    ASSUME NodeTypeOK, NEW m \in Links, NEW k \in 0..5, SetupLink(m, k),
           NEW l \in Links, Whole(l)
    PROVE  Whole(l)'
<1>1. up' = up /\ veths \subseteq veths'
  BY DEF SetupLink
<1>2. \A n \in Nodes : ifs[n] \subseteq ifs'[n] /\ port[n] \subseteq port'[n]
  BY DEF SetupLink, Attach, NodeTypeOK
<1>3. \A e \in Ends(l) : Here(e)' = Here(e)
  BY <1>1 DEF Here, CurNs
<1>4. \A e \in Ends(l) : Attached(e) => Attached(e)'
  BY <1>1, <1>2, LinkParts DEF Attached
<1> QED  BY <1>1, <1>3, <1>4 DEF Whole, Ends

\* A setup that succeeds makes the link, and found none of its names in use: no
\* link that was there shares an endpoint with it.
LEMMA SetupMakes ==
    ASSUME NodeTypeOK, NEW m \in Links, SetupLink(m, 5)
    PROVE  /\ Whole(m)'
           /\ \A l \in Links : Whole(l) => Ends(l) \cap Ends(m) = {}
<1>1. /\ up' = up /\ veths' = veths \cup {<<Here(m[1]), Here(m[2])>>}
      /\ Attach({m[j] : j \in 1..2}) /\ \A j \in 0..4 : ~Obstacle(m, j)
  BY DEF SetupLink
<1>2. Attach({m[1], m[2]})
  <2>1. {m[j] : j \in 1..2} = {m[1], m[2]}
    OBVIOUS
  <2> QED  BY <1>1, <2>1
<1>3. ASSUME NEW e \in Ends(m)
      PROVE  Attached(e)'
  <2>1. /\ e[1] \in Nodes /\ e[2] \in Idx /\ <<e[1], e[2]>> \in {m[1], m[2]}
    BY LinkParts DEF Ends
  <2>2. e[2] \in ifs'[e[1]] /\ (e[1] \in Ovs /\ up[e[1]] => e[2] \in port'[e[1]])
    BY <1>2, <2>1 DEF Attach
  <2> QED  BY <1>1, <2>2 DEF Attached
<1>4. Whole(m)'
  BY <1>1, <1>3 DEF Whole, Here, CurNs, Ends
<1>5. ~Present(Here(m[1])) /\ ~Present(Here(m[2]))
  BY <1>1 DEF Obstacle
<1>6. ASSUME NEW l \in Links, Whole(l) PROVE Ends(l) \cap Ends(m) = {}
  BY <1>5, <1>6, WholePresent DEF Ends
<1> QED  BY <1>4, <1>6

\* Removing one interface keeps the links of the other ones.
LEMMA RemovalKeeps ==
    ASSUME NEW d \in Endpoints, NEW l \in Links, d \notin Ends(l), Whole(l),
           veths' = Without(veths, {Here(d)}), UNCHANGED <<up, ifs, port>>
    PROVE  Whole(l)'
<1>1. \A e \in Ends(l) : Here(e) # Here(d)
  BY HereInjective, LinkParts
<1>2. <<Here(l[1]), Here(l[2])>> \in veths'
  BY <1>1 DEF Whole, Without, Ends
<1> QED  BY <1>2 DEF Whole, Attached, Here, CurNs

\* So does the end of a namespace that was kept: no link is there.
LEMMA LetGoKeeps ==
    ASSUME LetGo, NEW l, Whole(l)
    PROVE  Whole(l)'
<1>1. PICK v \in veths : "kept" \in {v[1][3], v[2][3]} /\ veths' = veths \ {v}
  BY DEF LetGo
<1>2. UNCHANGED <<up, ifs, port>>
  BY DEF LetGo, objVars
<1>3. Here(l[1])[3] # "kept" /\ Here(l[2])[3] # "kept"
  BY DEF Here, CurNs
<1>4. <<Here(l[1]), Here(l[2])>> # v
  BY <1>1, <1>3
<1> QED  BY <1>1, <1>2, <1>4 DEF Whole, Attached, Here, CurNs

-----------------------------------------------------------------------------
(* The inductive invariant behind LinksIntact and RunIsComplete.            *)

\* Link l is there, and no other link of L shares an endpoint with it: removing
\* another one, by name, does not remove it.
Alone(l, L) == Whole(l) /\ \A m \in L : m # l => Ends(l) \cap Ends(m) = {}

\* While the topology runs, a link is there and alone, or doubtful at both ends.
LinksSettled == \A l \in links : Alone(l, links) \/ Ends(l) \subseteq doubtful

\* Run sets up the links one by one, after the nodes to be launched.
LinksInv ==
    /\ running /\ pc \in {"idle", "run", "start", "stop", "restart"} => LinksSettled
    /\ pc \in {"run_nodes", "run_links"} => ~running
    /\ pc = "run_nodes" /\ ~failed => \A n \in nodes \cap Launch : n \in todo \/ up[n]
    /\ pc = "run_links" => /\ \A n \in nodes \cap Launch : up[n]
                           /\ \A l \in links \ todo : Alone(l, links \ todo)

\* A link that is alone stays so when it stays there and no link is added.
LEMMA AloneStays ==
    ASSUME NEW L, NEW l, Alone(l, L), Whole(l)', NEW M, M \subseteq L
    PROVE  Alone(l, M)'
BY DEF Alone, Ends

\* A step that keeps the links there, the links and the doubts keeps the invariant.
LEMMA SettledStays ==
    ASSUME LinksSettled, UNCHANGED <<links, doubtful>>,
           \A l \in links : Whole(l) => Whole(l)'
    PROVE  LinksSettled'
BY DEF LinksSettled, Alone, Ends

\* A node that starts or stops keeps the links settled: when it breaks half way,
\* its links are doubtful at both ends, and no other link shares an end with them.
LEMMA SettledToggle ==
    ASSUME NodeTypeOK, links \subseteq Links, LinksSettled, links' = links, NEW n \in Nodes,
           StartOk(n) \/ StartFails(n) \/ StopOk(n) \/ StopFails(n)
    PROVE  LinksSettled'
<1>1. CASE StartOk(n)
  <2>1. doubtful' = doubtful
    BY <1>1 DEF StartOk, DockerStartOk, OvsStartOk, nodeVars, doubts
  <2> QED  BY <1>1, <2>1, StartKeeps, SettledStays
<1>2. CASE StopOk(n)
  <2>1. doubtful' = doubtful
    BY <1>2 DEF StopOk, DockerStopOk, OvsStopOk, nodeVars, doubts
  <2> QED  BY <1>2, <2>1, StopKeeps, SettledStays
<1>3. CASE (StartFails(n) \/ StopFails(n)) /\ ~Breaks(n)
  <2>1. doubtful' = doubtful
    BY <1>3, ToggleDoubts DEF doubts
  <2> QED  BY <1>3, <2>1, RefusalKeeps, SettledStays
<1>4. CASE (StartFails(n) \/ StopFails(n)) /\ Breaks(n)
  <2> DEFINE At == {m \in links : n \in EndNodes(m)}
  <2>1. doubtful' = doubtful \cup ({n} \X Idx) \cup UNION {Ends(m) : m \in At}
    BY <1>4 DEF Breaks
  <2>2. ASSUME NEW l \in links, l \in At PROVE Ends(l) \subseteq doubtful'
    BY <2>1, <2>2
  <2>3. ASSUME NEW l \in links, l \notin At, Alone(l, links)
        PROVE  Alone(l, links)'
    <3>1. Whole(l)'
      BY <1>4, <2>3, ElsewhereKeeps DEF Alone
    <3> QED  BY <2>3, <3>1, AloneStays
  <2>4. ASSUME NEW l \in links PROVE Alone(l, links)' \/ Ends(l) \subseteq doubtful'
    <3>1. CASE Ends(l) \subseteq doubtful
      BY <2>1, <3>1
    <3>2. CASE Alone(l, links)
      BY <2>2, <2>3, <3>2
    <3> QED  BY <3>1, <3>2 DEF LinksSettled
  <2> QED  BY <2>4 DEF LinksSettled, Ends
<1> QED  BY <1>1, <1>2, <1>3, <1>4

\* Adding a link keeps the links settled.
LEMMA SettledAdd ==
    ASSUME NodeTypeOK, links \subseteq Links, LinksSettled, NEW l \in Links, LinkAdd(l)
    PROVE  LinksSettled'
<1>1. PICK k \in 0..5 : /\ SetupLink(l, k)
                        /\ links' = IF k = 5 THEN links \cup {l} ELSE links
                        /\ doubtful' = IF k = 5 THEN doubtful \cup DoubtOf(l) ELSE doubtful
  BY DEF LinkAdd
<1>2. \A m \in links : Whole(m) => Whole(m)'
  BY <1>1, SetupKeeps
<1>3. CASE k # 5
  BY <1>1, <1>2, <1>3, SettledStays
<1>4. CASE k = 5
  <2>1. /\ links' = links \cup {l} /\ doubtful' = doubtful \cup DoubtOf(l)
        /\ Whole(l)' /\ \A m \in links : Whole(m) => Ends(m) \cap Ends(l) = {}
    BY <1>1, <1>4, SetupMakes
  <2>2. ASSUME NEW m \in links
        PROVE  Alone(m, links)' \/ Ends(m)' \subseteq doubtful'
    <3>1. CASE Ends(m) \subseteq doubtful
      BY <2>1, <3>1 DEF Ends
    <3>2. CASE Alone(m, links)
      <4>1. Whole(m) /\ Whole(m)'
        BY <1>2, <3>2 DEF Alone
      <4>2. \A x \in links' : x # m => Ends(m) \cap Ends(x) = {}
        BY <2>1, <3>2, <4>1 DEF Alone
      <4> QED  BY <4>1, <4>2 DEF Alone, Ends
    <3> QED  BY <3>1, <3>2 DEF LinksSettled
  <2>3. Alone(l, links)' \/ Ends(l)' \subseteq doubtful'
    <3>1. CASE Ends(l) \cap doubtful # {}
      BY <2>1, <3>1 DEF DoubtOf, Ends
    <3>2. CASE Ends(l) \cap doubtful = {}
      <4>1. ASSUME NEW m \in links, m # l PROVE Ends(l) \cap Ends(m) = {}
        BY <2>1, <3>2 DEF LinksSettled, Alone
      <4>2. \A x \in links' : x # l => Ends(l) \cap Ends(x) = {}
        BY <2>1, <4>1
      <4> QED  BY <2>1, <4>2 DEF Alone, Ends
    <3> QED  BY <3>1, <3>2
  <2> QED  BY <2>1, <2>2, <2>3 DEF LinksSettled
<1> QED  BY <1>3, <1>4

\* Removing a link keeps the other ones settled.
LEMMA SettledDel ==
    ASSUME NodeTypeOK, links \subseteq Links, LinksSettled, NEW d \in Links, LinkDel(d)
    PROVE  LinksSettled'
<1>1. UNCHANGED <<up, ifs, port, doubtful>> /\ d \in links
  BY DEF LinkDel, doubts
<1>2. CASE UNCHANGED <<veths, links>>
  BY <1>1, <1>2, UntouchedWhole, SettledStays
<1>3. CASE veths' = Without(veths, {Here(d[1])}) /\ links' = links \ {d}
  <2>1. d[1] \in Endpoints /\ d[1] \in Ends(d)
    BY LinkParts DEF Ends
  <2>2. ASSUME NEW l \in links, l # d, Alone(l, links)
        PROVE  Alone(l, links)'
    <3>1. Whole(l) /\ d[1] \notin Ends(l)
      BY <1>1, <2>1, <2>2 DEF Alone
    <3>2. Whole(l)'
      BY <1>1, <1>3, <2>1, <3>1, RemovalKeeps
    <3> QED  BY <1>3, <2>2, <3>2 DEF Alone, Ends
  <2> QED  BY <1>1, <1>3, <2>2 DEF LinksSettled, Ends
<1> QED  BY <1>2, <1>3 DEF LinkDel

\* A start stops no node, and one that succeeds leaves the node running.
LEMMA StartUp ==
    ASSUME NodeTypeOK, NEW n \in Nodes, StartOk(n) \/ StartFails(n)
    PROVE  /\ \A m \in Nodes : up[m] => up'[m]
           /\ StartOk(n) => up'[n]
<1>1. CASE UNCHANGED nodeVars
  BY <1>1 DEF nodeVars, objVars, StartOk, DockerStartOk, OvsStartOk, NodeTypeOK
<1>2. CASE up' = [up EXCEPT ![n] = TRUE]
  BY <1>2 DEF NodeTypeOK
<1> QED
  BY <1>1, <1>2 DEF StartOk, StartFails, DockerStartOk, OvsStartOk, DockerStartTorn,
      OvsStartTorn, StartRefused

\* While Run sets up the links: the ones made stay, and a new one joins them.
LEMMA RunLinkMade ==
    ASSUME TypeOK, NEW l \in Links, RunLink(l), l \in links,
           \A m \in links \ todo : Alone(m, links \ todo), pc' = "run_links"
    PROVE  \A m \in links' \ todo' : Alone(m, links \ todo)'
<1>1. NodeTypeOK /\ links \subseteq Links /\ links' = links
  BY TypeSplit DEF TypeOK, RunLink
<1>2. SetupLink(l, 5) /\ todo' = todo \ {l}
  BY DEF RunLink, Reply
<1> DEFINE Made == links \ todo
<1>3. links' \ todo' \subseteq Made \cup {l} /\ Made \subseteq Links
  BY <1>1, <1>2
<1>4. Whole(l)' /\ \A m \in Made : Whole(m) => Ends(m) \cap Ends(l) = {}
  BY <1>1, <1>2, <1>3, SetupMakes
<1>5. \A m \in Made : Whole(m) /\ Whole(m)'
  BY <1>1, <1>2, <1>3, SetupKeeps DEF Alone
<1>6. \A m \in Made \cup {l} : Whole(m)'
  BY <1>4, <1>5
<1>7. \A m, x \in Made \cup {l} : m # x => Ends(m) \cap Ends(x) = {}
  <2>1. \A m, x \in Made : m # x => Ends(m) \cap Ends(x) = {}
    BY DEF Alone
  <2> QED  BY <1>4, <1>5, <2>1
<1>8. \A m, x \in links' \ todo' : m # x => Ends(m)' \cap Ends(x)' = {}
  BY <1>3, <1>7 DEF Ends
<1> QED  BY <1>3, <1>6, <1>8 DEF Alone

\* One step per group of actions.
LEMMA LinksStep == CleanInv /\ LinksInv /\ [Next]_vars => LinksInv'
<1> SUFFICES ASSUME CleanInv, LinksInv, [Next]_vars
             PROVE  LinksInv'
  OBVIOUS
<1>a. /\ NodeTypeOK /\ TypeOK /\ TodoKnown /\ links \subseteq Links
      /\ nodes \subseteq Nodes /\ running \in BOOLEAN
  BY TypeSplit DEF CleanInv, TypeOK
\* A request begins, or ends without having done anything more.
<1>1. ASSUME UNCHANGED <<running, links, nodeVars>>,
             pc \in {"idle", "run", "start", "stop", "restart"},
             pc' \in {"idle", "run", "start", "stop", "restart", "close_nodes", "crashed"}
      PROVE  LinksInv'
  <2>1. UNCHANGED <<up, ifs, port, veths, doubtful>>
    BY <1>1 DEF nodeVars, objVars, hostVars, doubts
  <2>2. running => LinksSettled'
    BY <1>1, <2>1, UntouchedWhole, SettledStays DEF LinksInv
  <2> QED  BY <1>1, <2>2 DEF LinksInv
\* The topology is not running, or no request is served on its links.
<1>2. ASSUME pc' \notin {"run_nodes", "run_links"},
             \/ ~running' \/ links' = {}
             \/ pc' \in {"close_nodes", "load", "load_nodes", "dead", "crashed"}
      PROVE  LinksInv'
  BY <1>2 DEF LinksInv, LinksSettled
<1>3. CASE Run \/ Start \/ Stop \/ Restart \/ StartAll \/ StopAll
  <2>1. /\ UNCHANGED <<running, links, nodeVars>> /\ pc = "idle"
        /\ pc' \in {"run", "start", "stop", "restart"}
    BY <1>3 DEF Run, Start, Stop, Restart, StartAll, StopAll, Serve
  <2> QED  BY <1>1, <2>1
<1>4. CASE Close \/ LoadOvs \/ RunPanics \/ CloseEnd
  <2>1. pc' \in {"close_nodes", "load", "load_nodes", "dead", "crashed"}
    BY <1>4 DEF Close, LoadOvs, RunPanics, CloseEnd
  <2> QED  BY <1>2, <2>1
<1>5. CASE LoadRejected \/ LoadOvsFails
  <2>1. links' = {} /\ pc' \in {"close_nodes", "idle"}
    BY <1>a, <1>5 DEF LoadRejected, LoadOvsFails, LoadFailed, Reply, TodoKnown
  <2> QED  BY <1>2, <2>1
<1>6. CASE LoadEnd
  <2>1. pc' \in {"close_nodes", "idle", "run"}
    BY <1>6 DEF LoadEnd, LoadFailed, Reply
  <2>2. links' = {} \/ ~running' \/ \A l \in links' : Ends(l) \subseteq doubtful'
    BY <1>a, <1>6 DEF LoadEnd, LoadFailed, Reply, TodoKnown
  <2>3. links' = {} \/ ~running' \/ LinksSettled'
    BY <2>2 DEF LinksSettled, Ends
  <2> QED  BY <1>2, <2>1, <2>3 DEF LinksInv
<1>7. CASE RunSkipped \/ ServeEnd
  <2>1. /\ UNCHANGED <<running, links, nodeVars>> /\ pc \in {"run", "start", "stop"}
        /\ pc' = "idle"
    BY <1>7 DEF RunSkipped, ServeEnd, Reply
  <2> QED  BY <1>1, <2>1
<1>8. CASE RunOvsFails
  <2>1. ~running' /\ pc' = "idle"
    BY <1>8 DEF RunOvsFails, Reply
  <2> QED  BY <1>2, <2>1
<1>9. CASE RunStartsOvs
  BY <1>9 DEF RunStartsOvs, LinksInv
<1>10. ASSUME NEW n \in Nodes, RunNode(n) PROVE LinksInv'
  <2>1. /\ pc = "run_nodes" /\ pc' = pc /\ running' = running /\ todo' = todo \ {n}
        /\ nodes' = nodes
    BY <1>10 DEF RunNode
  <2>2. ASSUME ~failed' PROVE ~failed /\ (n \in Launch => StartOk(n))
    BY <1>10, <2>2 DEF RunNode
  <2>3. (n \in Launch => up'[n] \/ failed') /\ \A m \in Nodes : up[m] => up'[m]
    <3>1. CASE StartOk(n) \/ StartFails(n)
      BY <1>a, <2>2, <3>1, StartUp
    <3>2. CASE n \notin Launch
      BY <1>10, <3>2 DEF RunNode, nodeVars, objVars
    <3> QED  BY <1>10, <3>1, <3>2 DEF RunNode
  <2> QED  BY <1>a, <2>1, <2>2, <2>3 DEF LinksInv
<1>11. CASE RunNodesEnd
  <2>1. CASE failed
    <3>1. ~running' /\ pc' = "idle"
      BY <1>11, <2>1 DEF RunNodesEnd, Reply, LinksInv
    <3> QED  BY <1>2, <3>1
  <2>2. CASE ~failed
    <3>1. /\ pc = "run_nodes" /\ todo = {} /\ pc' = "run_links" /\ todo' = links
          /\ UNCHANGED <<running, nodes, links, up>>
      BY <1>11, <2>2 DEF RunNodesEnd, nodeVars, objVars
    <3> QED  BY <2>2, <3>1 DEF LinksInv
  <2> QED  BY <2>1, <2>2
<1>12. ASSUME NEW l \in Links, RunLink(l) PROVE LinksInv'
  <2>1. pc = "run_links" /\ ~running' /\ l \in links /\ UNCHANGED <<running, nodes, links, up>>
    BY <1>a, <1>12 DEF RunLink, SetupLink, LinksInv, TodoKnown
  <2>2. CASE pc' = "idle"
    BY <1>2, <2>1, <2>2
  <2>3. CASE pc' = "run_links"
    <3>1. \A m \in links' \ todo' : Alone(m, links \ todo)'
      BY <1>a, <1>12, <2>1, <2>3, RunLinkMade DEF LinksInv
    <3> QED  BY <2>1, <2>3, <3>1 DEF LinksInv
  <2> QED  BY <1>12, <2>2, <2>3 DEF RunLink, Reply
<1>13. CASE RunEnd
  <2>1. /\ pc = "run_links" /\ todo = {} /\ pc' = "idle"
        /\ UNCHANGED <<links, up, ifs, port, veths>>
    BY <1>13 DEF RunEnd, Reply, objVars, hostVars
  <2>2. \A l \in links : Alone(l, links)
    BY <2>1 DEF LinksInv
  <2>3. \A l \in links : Alone(l, links)'
    BY <2>1, <2>2, UntouchedWhole DEF Alone, Ends
  <2> QED  BY <2>1, <2>3 DEF LinksInv, LinksSettled
<1>14. ASSUME NEW n \in Nodes, ServeStart(n) \/ ServeStop(n) \/ RestartStops(n)
       PROVE  LinksInv'
  <2>1. /\ pc \in {"start", "stop", "restart"} /\ pc' \in {"start", "stop"}
        /\ UNCHANGED <<running, links>>
        /\ StartOk(n) \/ StartFails(n) \/ StopOk(n) \/ StopFails(n)
    BY <1>14 DEF ServeStart, ServeStop, RestartStops, StartThenConfig, StopNode
  <2>2. running => LinksSettled'
    BY <1>a, <2>1, SettledToggle DEF LinksInv
  <2> QED  BY <2>1, <2>2 DEF LinksInv
<1>15. ASSUME NEW l \in Links, LinkAdd(l) PROVE LinksInv'
  <2>1. pc = "idle" /\ pc' = "idle" /\ running' = running
    BY <1>15 DEF LinkAdd, Reply
  <2> QED  BY <1>a, <1>15, <2>1, SettledAdd DEF LinksInv
<1>16. ASSUME NEW l \in Links, LinkDel(l) PROVE LinksInv'
  <2>1. pc = "idle" /\ pc' = "idle" /\ running' = running
    BY <1>16 DEF LinkDel, Reply
  <2> QED  BY <1>a, <1>16, <2>1, SettledDel DEF LinksInv
<1>17. ASSUME NEW l \in Links, LinkAddPanics(l) PROVE LinksInv'
  BY <1>2, <1>17 DEF LinkAddPanics
<1>18. ASSUME NEW n \in Nodes, CreateNode(n) \/ CloseNode(n) PROVE LinksInv'
  <2>1. pc' \in {"load_nodes", "close_nodes"}
    BY <1>18 DEF CreateNode, CloseNode
  <2> QED  BY <1>2, <2>1
<1>20. ASSUME NEW l \in Links, LinkUpdate(l) PROVE LinksInv'
  <2>1. /\ UNCHANGED <<running, links, up, ifs, port, veths, doubtful>>
        /\ pc = "idle" /\ pc' = "idle"
    BY <1>20 DEF LinkUpdate, Reply, hostVars, doubts
  <2>2. running => LinksSettled'
    BY <2>1, UntouchedWhole, SettledStays DEF LinksInv
  <2> QED  BY <2>1, <2>2 DEF LinksInv
<1>21. CASE LetGo
  <2>1. UNCHANGED <<running, nodes, links, pc, todo, failed, up, doubtful>>
    BY <1>21 DEF LetGo, objVars, reqVars, doubts
  <2>2. \A l \in links : Whole(l) => Whole(l)'
    BY <1>21, LetGoKeeps
  <2>3. LinksSettled => LinksSettled'
    BY <2>1, <2>2, SettledStays
  <2>4. /\ links' = links /\ (links \ todo)' = links \ todo
        /\ \A l \in links \ todo : Alone(l, links \ todo) => Alone(l, links \ todo)'
    BY <2>1, <2>2 DEF Alone, Ends
  <2> QED  BY <2>1, <2>3, <2>4 DEF LinksInv
<1>19. CASE UNCHANGED vars
  <2>1. UNCHANGED <<running, nodes, links, pc, todo, failed, up, ifs, port, veths, doubtful>>
    BY <1>19 DEF vars, nodeVars, objVars, hostVars, reqVars, doubts
  <2>2. \A l \in links : Whole(l)' <=> Whole(l)
    BY <2>1, UntouchedWhole
  <2>3. LinksSettled => LinksSettled'
    BY <2>1, <2>2, SettledStays
  <2>4. /\ links' = links /\ (links \ todo)' = links \ todo
        /\ \A l \in links \ todo : Alone(l, links \ todo) => Alone(l, links \ todo)'
    BY <2>1, <2>2 DEF Alone, Ends
  <2> QED  BY <2>1, <2>3, <2>4 DEF LinksInv
<1> QED
  BY <1>3, <1>4, <1>5, <1>6, <1>7, <1>8, <1>9, <1>10, <1>11, <1>12, <1>13, <1>14, <1>15,
     <1>16, <1>17, <1>18, <1>19, <1>20, <1>21
  DEF Next, Request, Progress, NodeStep, Terminated

\* Together, the two invariants hold in every reachable state.
LEMMA LinksInvariant == Spec => [](CleanInv /\ LinksInv)
<1>1. Init => LinksInv
  BY DEF Init, LinksInv
<1> QED  BY <1>1, CleanInit, CleanStep, LinksStep, PTL DEF Spec

-----------------------------------------------------------------------------
(* What follows from it.                                                    *)

\* Once Run has succeeded, every recorded link whose ends are not doubtful is
\* really there, whatever is started, stopped, restarted, added and removed.
THEOREM LinksStayIntact == Spec => []LinksIntact
<1>1. CleanInv /\ LinksInv => LinksIntact
  <2> SUFFICES ASSUME CleanInv, LinksInv, running, pc \in {"idle", "start", "stop", "restart"},
                      NEW l \in links, Ends(l) \cap doubtful = {}
               PROVE  Whole(l)
    BY DEF LinksIntact
  <2> QED  BY DEF LinksInv, LinksSettled, Alone, Ends
<1> QED  BY <1>1, LinksInvariant, PTL

\* A node that starts or stops without breaking half way carries its links along,
\* running topology or not.
THEOREM TogglesKeepLinks == Spec => ToggleKeepsLinks
<1> DEFINE Keeps == \A n \in Nodes :
                up[n] # up'[n] /\ n \notin torn' /\ pc # "close_nodes" =>
                    \A l \in links : n \in EndNodes(l) /\ Whole(l) => Whole(l)'
<1>1. ASSUME CleanInv, [Next]_vars PROVE Keeps
  <2> SUFFICES ASSUME NEW n \in Nodes, up[n] # up'[n], n \notin torn', pc # "close_nodes",
                      NEW l \in links, Whole(l)
               PROVE  Whole(l)'
    OBVIOUS
  <2>a. NodeTypeOK /\ l \in Links
    BY <1>1, TypeSplit DEF CleanInv, TypeOK
  <2>1. \E m \in Nodes : RunNode(m) \/ ServeStart(m) \/ ServeStop(m) \/ RestartStops(m)
    <3>1. up' # up
      OBVIOUS
    <3>2. ~Request
      BY <3>1 DEF Request, Run, Start, Stop, Restart, StartAll, StopAll, Serve, Close, LinkAdd,
          LinkAddPanics, LinkDel, LinkUpdate, SetupLink, nodeVars, objVars
    <3>3. ~(LoadRejected \/ LoadOvs \/ LoadOvsFails \/ LoadEnd \/ RunSkipped \/ RunPanics
            \/ RunStartsOvs \/ RunOvsFails \/ RunNodesEnd \/ RunEnd \/ ServeEnd)
      BY <3>1 DEF LoadRejected, LoadOvs, LoadOvsFails, LoadEnd, RunSkipped, RunPanics, RunStartsOvs,
          RunOvsFails, RunNodesEnd, RunEnd, ServeEnd, nodeVars, objVars
    <3>4. ~CloseEnd /\ \A m \in Nodes : ~CreateNode(m) /\ ~CloseNode(m)
      BY <3>1 DEF CloseEnd, CreateNode, CloseNode, objVars
    <3>5. \A m \in Links : ~RunLink(m)
      BY <3>1 DEF RunLink, SetupLink
    <3>6. ~(UNCHANGED vars) /\ ~Terminated /\ ~LetGo
      BY <3>1 DEF vars, nodeVars, objVars, Terminated, LetGo
    <3> QED  BY <1>1, <3>2, <3>3, <3>4, <3>5, <3>6 DEF Next, Progress, NodeStep
  <2>2. PICK m \in Nodes : \/ StartOk(m) \/ StartFails(m) \/ StopOk(m) \/ StopFails(m)
                           \/ UNCHANGED nodeVars
    BY <2>1 DEF RunNode, ServeStart, ServeStop, RestartStops, StartThenConfig, StopNode
  <2>3. CASE StartOk(m)
    BY <2>a, <2>3, StartKeeps
  <2>4. CASE StopOk(m)
    BY <2>a, <2>4, StopKeeps
  <2>5. CASE StartFails(m) \/ StopFails(m)
    <3>1. CASE Breaks(m)
      <4>1. m # n
        BY <3>1 DEF Breaks
      <4>2. up'[n] = up[n]
        BY <2>a, <2>5, <4>1 DEF StartFails, StopFails, DockerStartTorn, DockerStopTorn, OvsStartTorn,
            OvsStopTorn, StartRefused, StopRefused, nodeVars, objVars, NodeTypeOK
      <4> QED  BY <4>2
    <3>2. CASE ~Breaks(m)
      BY <2>a, <2>5, <3>2, RefusalKeeps
    <3> QED  BY <3>1, <3>2
  <2>6. CASE UNCHANGED nodeVars
    BY <2>6 DEF nodeVars, objVars
  <2> QED  BY <2>2, <2>3, <2>4, <2>5, <2>6
<1>2. CleanInv /\ [Next]_vars => [Keeps]_vars
  BY <1>1
<1>3. ToggleKeepsLinks <=> [][Keeps]_vars
  BY PTL DEF ToggleKeepsLinks
<1> HIDE DEF Keeps
<1> QED  BY <1>2, <1>3, LinksInvariant, PTL DEF Spec

\* Run sets running only when every node to be launched runs and every link of the
\* topology is there.
THEOREM RunsAreComplete == Spec => RunIsComplete
<1> DEFINE Complete == ~running /\ running' =>
                          /\ \A n \in nodes \cap Launch : up'[n]
                          /\ \A l \in links : Whole(l)'
<1>1. ASSUME LinksInv, [Next]_vars PROVE Complete
  <2> SUFFICES ASSUME ~running, running'
               PROVE  /\ \A n \in nodes \cap Launch : up'[n]
                      /\ \A l \in links : Whole(l)'
    OBVIOUS
  <2>1. RunEnd
    <3>1. ~Request
      BY DEF Request, Run, Start, Stop, Restart, StartAll, StopAll, Serve, Close, LinkAdd,
          LinkAddPanics, LinkDel, LinkUpdate
    <3>2. ~(LoadRejected \/ LoadOvs \/ LoadOvsFails \/ LoadEnd \/ RunSkipped \/ RunPanics
            \/ RunStartsOvs \/ RunOvsFails \/ RunNodesEnd \/ ServeEnd \/ CloseEnd)
      BY DEF LoadRejected, LoadOvs, LoadOvsFails, LoadEnd, RunSkipped, RunPanics, RunStartsOvs,
          RunOvsFails, RunNodesEnd, ServeEnd, CloseEnd
    <3>3. \A m \in Nodes : ~NodeStep(m)
      BY DEF NodeStep, CreateNode, RunNode, ServeStart, ServeStop, RestartStops, CloseNode
    <3>4. \A m \in Links : ~RunLink(m)
      BY DEF RunLink
    <3>5. ~(UNCHANGED vars) /\ ~Terminated /\ ~LetGo
      BY DEF vars, Terminated, LetGo
    <3> QED  BY <1>1, <3>1, <3>2, <3>3, <3>4, <3>5 DEF Next, Progress
  <2>2. pc = "run_links" /\ todo = {} /\ UNCHANGED <<up, ifs, port, veths>>
    BY <2>1 DEF RunEnd, objVars, hostVars
  <2>3. (\A n \in nodes \cap Launch : up[n]) /\ \A l \in links : Whole(l)
    BY <1>1, <2>2 DEF LinksInv, Alone
  <2> QED  BY <2>2, <2>3, UntouchedWhole
<1>2. LinksInv /\ [Next]_vars => [Complete]_vars
  BY <1>1
<1>3. RunIsComplete <=> [][Complete]_vars
  BY PTL DEF RunIsComplete
<1> HIDE DEF Complete
<1> QED  BY <1>2, <1>3, LinksInvariant, PTL DEF Spec

=============================================================================
