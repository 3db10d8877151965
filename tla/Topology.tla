------------------------------ MODULE Topology ------------------------------
(***************************************************************************)
(* One project's topology manager (internal/server/topology.go), together  *)
(* with the parts of docker.DockerNode, ovs.OvsNode and                    *)
(* ovs.OvsProjectInstance that it drives: containers, bridges, ports and   *)
(* the veth pairs that realise the links.                                  *)
(*                                                                         *)
(* One request of a console is served at a time; inside it, the goroutines *)
(* of an errgroup (create, start, stop, close of every node) interleave    *)
(* and may fail one by one, and every call to the docker engine, to        *)
(* ovs-vsctl or to netlink may fail when Faults is TRUE.                   *)
(***************************************************************************)
EXTENDS Naturals

CONSTANTS
    Docker,     \* names of the docker nodes
    Ovs,        \* names of the ovswitch nodes
    Idx,        \* interface numbers
    Links,      \* the links that may be asked for: pairs of distinct endpoints
    Files,      \* the topologies the network file may hold: [nodes, links]
    Launch,     \* nodes with "launch: true"
    OvsInst,    \* the project's openvswitch container
    Faults,     \* may the calls to docker, ovs-vsctl and netlink fail?
    Lingering   \* nodes whose namespaces may outlive them (a bound)

Nodes      == Docker \cup Ovs
Containers == Docker \cup {OvsInst}
Endpoints  == Nodes \X Idx

ASSUME NamesAssumption ==
    /\ Docker \cap Ovs = {}
    /\ OvsInst \notin Nodes
    /\ Launch \subseteq Nodes
    /\ Faults \in BOOLEAN
    /\ Lingering \subseteq Nodes

ASSUME LinksAssumption ==
    /\ Links \subseteq Endpoints \X Endpoints
    /\ \A l \in Links : l[1] # l[2]

\* What CheckTopology accepts: known nodes, and an endpoint used only once.
ASSUME FilesAssumption ==
    /\ \A f \in Files : /\ f.nodes \subseteq Nodes
                        /\ f.links \subseteq Links
                        /\ \A l \in f.links : {l[1][1], l[2][1]} \subseteq f.nodes
    /\ \A f \in Files : \A l, m \in f.links :
            {l[1], l[2]} \cap {m[1], m[2]} # {} => l = m

VARIABLES
    running,    \* t.running
    nodes,      \* names in t.nodes
    links,      \* t.links
    ovs,        \* t.ovsInstance: "nil", or its state
    up,         \* Running of each node object
    ifs,        \* Interfaces of each node object
    netns,      \* docker nodes that have their local named netns
    undeleted,  \* docker nodes whose name DeleteNetns could not remove
    br,         \* bridges of the ovs instance
    port,       \* ports of each bridge in the OVSDB
    cont,       \* state of the containers, seen by the docker engine
    veths,      \* veth pairs, seen by the kernel
    pc,         \* where the request being served stands
    mode,       \* which request runs Load or Close, if any
    todo,       \* nodes or links the request has still to process
    pending,    \* links of the file being loaded
    failed,     \* the request in progress, or the last one, met an error
    torn,       \* nodes whose start or stop failed half way, since Run succeeded
    doubtful,   \* endpoints whose interface may be elsewhere because of it, or
                \* was never made, as the reload that recorded its link failed
    abandoned   \* containers whose removal failed

objVars  == <<up, ifs, netns, br, port>>
hostVars == <<cont, veths>>
doubts   == <<torn, doubtful>>
nodeVars == <<objVars, hostVars, doubts>>
reqVars  == <<pc, mode, todo, pending, failed>>
leftVars == <<undeleted, abandoned>>
vars     == <<running, nodes, links, ovs, nodeVars, reqVars, leftVars>>

-----------------------------------------------------------------------------
(* Interfaces: a veth pair is a pair of sockets <<node, idx, namespace>>.   *)
(* Inside its namespace an interface is named after <<node, idx>> (ethN in  *)
(* a docker node, switch.N in the namespace of the ovs container).          *)

Namespaces == {"local", "run"}

\* Where a socket may be: in a namespace of its node, or in one that has lost
\* its container or its name and that the daemon keeps alive.
Places == Namespaces \cup {"kept"}

\* The sockets of nodes N in namespaces S.
In(N, S) == N \X Idx \X S

\* The namespace GetNetns returns for node n.
CurNs(n) == IF n \in Ovs \/ up[n] THEN "run" ELSE "local"

EndNodes(l) == {l[1][1], l[2][1]}

Ends(l) == {l[1], l[2]}

Here(e) == <<e[1], e[2], CurNs(e[1])>>

Present(s) == \E v \in veths : s = v[1] \/ s = v[2]

\* What is left of the veth pairs V when the sockets S are destroyed.
Without(V, S) == {v \in V : v[1] \notin S /\ v[2] \notin S}

\* A namespace dies with its container or its name, unless the daemon still
\* refers to it: setupBridge, setupMgntLink and LinkUpdate never close their
\* handles, and a thread stays in the last namespace netns.Set took it to.
Kept(V, S) ==
    LET Keep(s) == IF s \in S THEN <<s[1], s[2], "kept">> ELSE s
    IN  {<<Keep(v[1]), Keep(v[2])>> : v \in V}

\* What may be left of V when nodes N lose their namespaces S.
Outcomes(V, N, S) ==
    {Without(Kept(V, In(N, K)), In(N, S \ K)) :
        K \in SUBSET (IF N \subseteq Lingering THEN S ELSE {})}

\* Interfaces M of node n go from one namespace to the other.
Moved(n, M, from, to) ==
    LET Shift(s) == IF s[1] = n /\ s[2] \in M /\ s[3] = from
                    THEN <<n, s[2], to>> ELSE s
    IN  {<<Shift(v[1]), Shift(v[2])>> : v \in veths}

\* Interfaces on which LinkByName or LinkSetNsFd refuses the move.
Stuck(n, from, to) ==
    {i \in ifs[n] : ~Present(<<n, i, from>>) \/ Present(<<n, i, to>>)}

-----------------------------------------------------------------------------
(* History: the start or stop of n broke half way. Its interfaces, and the  *)
(* other ends of its links, may no longer be where their names say.         *)

Breaks(n) ==
    /\ torn' = torn \cup {n}
    /\ doubtful' = doubtful \cup ({n} \X Idx)
                    \cup UNION {Ends(l) : l \in {m \in links : n \in EndNodes(m)}}

\* A link added at a doubtful endpoint is doubtful at both ends.
DoubtOf(l) == IF Ends(l) \cap doubtful = {} THEN {} ELSE Ends(l)

-----------------------------------------------------------------------------
(* Start and Stop of a node object.                                         *)

\* A mistaken variant: the interfaces stay in the local namespace.
DockerStartOkAlone(n) ==
    /\ n \in Docker /\ ~up[n]
    /\ up' = [up EXCEPT ![n] = TRUE]
    /\ cont' = [cont EXCEPT ![n] = "up"]
    /\ netns' = netns \cup {n}
    /\ UNCHANGED <<ifs, br, port, veths, doubts>>

DockerStartOk(n) ==
    /\ n \in Docker /\ ~up[n] /\ n \notin undeleted
    /\ Stuck(n, "local", "run") = {}
    /\ up' = [up EXCEPT ![n] = TRUE]
    /\ cont' = [cont EXCEPT ![n] = "up"]
    /\ netns' = netns \cup {n}
    /\ veths' = Moved(n, ifs[n], "local", "run")
    /\ UNCHANGED <<ifs, br, port, doubts>>

\* Running is set as soon as the container is started: an error after that
\* leaves a running node with only the interfaces M moved into it.
DockerStartTorn(n) ==
    /\ n \in Docker /\ ~up[n]
    /\ \E M \in SUBSET (ifs[n] \ Stuck(n, "local", "run")) :
          /\ \/ /\ M # ifs[n] /\ (Faults \/ Stuck(n, "local", "run") # {})
                /\ n \notin undeleted /\ netns' = netns \cup {n}
             \/ M = {} /\ Faults /\ n \notin undeleted /\ netns' = netns \cup {n}
             \/ M = {} /\ (Faults \/ n \in undeleted) /\ UNCHANGED netns
          /\ veths' = Moved(n, M, "local", "run")
    /\ up' = [up EXCEPT ![n] = TRUE]
    /\ cont' = [cont EXCEPT ![n] = "up"]
    /\ Breaks(n)
    /\ UNCHANGED <<ifs, br, port>>

OvsStartOk(n) ==
    /\ n \in Ovs /\ ~up[n]
    /\ ovs = "started" /\ n \notin br
    /\ up' = [up EXCEPT ![n] = TRUE]
    /\ br' = br \cup {n}
    /\ port' = [port EXCEPT ![n] = ifs[n]]
    /\ UNCHANGED <<ifs, netns, hostVars, doubts>>

OvsStartTorn(n) ==
    /\ Faults
    /\ n \in Ovs /\ ~up[n]
    /\ ovs = "started" /\ n \notin br
    /\ \E M \in SUBSET ifs[n] : /\ M # ifs[n]
                                /\ port' = [port EXCEPT ![n] = M]
    /\ up' = [up EXCEPT ![n] = TRUE]
    /\ br' = br \cup {n}
    /\ Breaks(n)
    /\ UNCHANGED <<ifs, netns, hostVars>>

\* The call that would start the container or add the bridge fails.
StartRefused(n) ==
    /\ ~up[n]
    /\ Faults \/ (n \in Ovs /\ (ovs # "started" \/ n \in br))
    /\ UNCHANGED nodeVars

StartOk(n) ==
    \/ up[n] /\ UNCHANGED nodeVars
    \/ DockerStartOk(n)
    \/ OvsStartOk(n)

StartFails(n) == DockerStartTorn(n) \/ OvsStartTorn(n) \/ StartRefused(n)

\* The namespace of the container loses it, with the interfaces that stayed.
DockerStopOk(n) ==
    /\ n \in Docker /\ up[n] /\ n \notin undeleted
    /\ Stuck(n, "run", "local") = {}
    /\ up' = [up EXCEPT ![n] = FALSE]
    /\ cont' = [cont EXCEPT ![n] = "created"]
    /\ netns' = netns \cup {n}
    /\ veths' \in Outcomes(Moved(n, ifs[n], "run", "local"), {n}, {"run"})
    /\ UNCHANGED <<ifs, br, port, doubts>>

\* Some interfaces are moved out, then an error: the node still runs. When
\* all are out, it is the container that could not be stopped.
DockerStopTorn(n) ==
    /\ n \in Docker /\ up[n] /\ n \notin undeleted
    /\ \E M \in SUBSET (ifs[n] \ Stuck(n, "run", "local")) :
          /\ Faults \/ Stuck(n, "run", "local") # {}
          /\ veths' = Moved(n, M, "run", "local")
          /\ IF M = {} THEN UNCHANGED doubts ELSE Breaks(n)
    /\ netns' = netns \cup {n}
    /\ UNCHANGED <<up, ifs, br, port, cont>>

OvsStopOk(n) ==
    /\ n \in Ovs /\ up[n]
    /\ ifs[n] \subseteq port[n]
    /\ up' = [up EXCEPT ![n] = FALSE]
    /\ br' = br \ {n}
    /\ port' = [port EXCEPT ![n] = {}]
    /\ UNCHANGED <<ifs, netns, hostVars, doubts>>

OvsStopTorn(n) ==
    /\ n \in Ovs /\ up[n]
    /\ Faults \/ ~(ifs[n] \subseteq port[n])
    /\ \E M \in SUBSET (ifs[n] \cap port[n]) :
          /\ port' = [port EXCEPT ![n] = @ \ M]
          /\ IF M = {} THEN UNCHANGED doubts ELSE Breaks(n)
    /\ UNCHANGED <<up, ifs, netns, br, hostVars>>

\* The docker client, or one of the two namespaces, fails before any move.
StopRefused(n) == up[n] /\ (Faults \/ n \in undeleted) /\ UNCHANGED nodeVars

StopOk(n) ==
    \/ ~up[n] /\ UNCHANGED nodeVars
    \/ DockerStopOk(n)
    \/ OvsStopOk(n)

StopFails(n) == DockerStopTorn(n) \/ OvsStopTorn(n) \/ StopRefused(n)

-----------------------------------------------------------------------------
(* setupLink: 0 namespace of the first node, 1 namespace of the second, 2   *)
(* the veth pair, 3 and 4 the attachment of its two ends.                   *)

\* The ovs container is not started, or the local namespace has to be created
\* under a name that an earlier object of the node has left behind.
NsMissing(e) ==
    \/ e[1] \in Ovs /\ ovs # "started"
    \/ e[1] \in undeleted /\ ~up[e[1]]
PortTaken(e) == e[1] \in Ovs /\ up[e[1]] /\ e[2] \in port[e[1]]

\* What makes stage k of the setup of link l fail, without any fault.
Obstacle(l, k) ==
    \/ k = 0 /\ NsMissing(l[1])
    \/ k = 1 /\ NsMissing(l[2])
    \/ k = 2 /\ (Present(Here(l[1])) \/ Present(Here(l[2])))
    \/ k = 3 /\ PortTaken(l[1])
    \/ k = 4 /\ PortTaken(l[2])

\* Attaching to a docker node never fails, so the last stage needs an ovs one.
MayFail(l, k) == Faults /\ (k = 4 => l[2][1] \in Ovs /\ up[l[2][1]])

\* GetLocalNetns creates the namespace of a docker node that does not run.
Touch(N) == netns' = netns \cup {n \in N \cap Docker : ~up[n]}

Attach(E) ==
    /\ ifs' = [n \in Nodes |-> ifs[n] \cup {i \in Idx : <<n, i>> \in E}]
    /\ port' = [n \in Nodes |-> IF n \in Ovs /\ up[n]
                               THEN port[n] \cup {i \in Idx : <<n, i>> \in E}
                               ELSE port[n]]

\* The setup goes through its first k stages; it succeeds when k = 5.
SetupLink(l, k) ==
    /\ \A j \in 0..(k - 1) : ~Obstacle(l, j)
    /\ k < 5 => Obstacle(l, k) \/ MayFail(l, k)
    /\ Touch({l[j][1] : j \in 1..(IF k < 2 THEN k ELSE 2)})
    /\ veths' = IF k < 3 THEN veths ELSE veths \cup {<<Here(l[1]), Here(l[2])>>}
    /\ Attach({l[j] : j \in 1..(IF k < 3 THEN 0 ELSE k - 3)})
    /\ UNCHANGED <<up, br, cont>>

-----------------------------------------------------------------------------
Init ==
    /\ running = FALSE
    /\ nodes = {}
    /\ links = {}
    /\ ovs = "nil"
    /\ up = [n \in Nodes |-> FALSE]
    /\ ifs = [n \in Nodes |-> {}]
    /\ netns = {} /\ undeleted = {}
    /\ br = {}
    /\ port = [n \in Nodes |-> {}]
    /\ cont = [c \in Containers |-> "none"]
    /\ veths = {}
    /\ pc = "load" /\ mode = "open"
    /\ todo = {} /\ pending = {}
    /\ failed = FALSE
    /\ torn = {} /\ doubtful = {}
    /\ abandoned = {}

\* A mistaken variant: what is left to do is kept for the next request.
ReplyKeepsTodo(err) ==
    /\ pc' = "idle"
    /\ failed' = err
    /\ pending' = {}
    /\ UNCHANGED <<mode, todo>>

\* The request ends, with or without an error.
Reply(err) ==
    /\ pc' = "idle"
    /\ failed' = err
    /\ todo' = {} /\ pending' = {}
    /\ UNCHANGED mode

-----------------------------------------------------------------------------
(* Load: called by LoadTopology when the project is opened, and by Reload.  *)

\* An error of Load makes ProjectOpen close the topology; Reload just returns.
LoadFailed ==
    \/ /\ mode = "open"
       /\ mode' = "close" /\ pc' = "close_nodes" /\ todo' = nodes
       /\ pending' = {} /\ failed' = TRUE
    \/ /\ mode = "reload"
       /\ Reply(TRUE)

\* The network file, edited by the user, does not pass CheckTopology.
LoadRejected ==
    /\ pc = "load"
    /\ LoadFailed
    /\ UNCHANGED <<running, nodes, links, ovs, nodeVars, leftVars>>

LoadOvs ==
    /\ pc = "load"
    /\ cont[OvsInst] = "none"
    /\ ovs' = "created"
    /\ cont' = [cont EXCEPT ![OvsInst] = "created"]
    /\ nodes' = {}
    /\ \E f \in Files : todo' = f.nodes /\ pending' = f.links
    /\ pc' = "load_nodes" /\ failed' = FALSE
    /\ UNCHANGED <<running, links, objVars, veths, doubts, mode, leftVars>>

LoadOvsFails ==
    /\ pc = "load"
    /\ Faults \/ cont[OvsInst] # "none"
    /\ LoadFailed
    /\ UNCHANGED <<running, nodes, links, ovs, nodeVars, leftVars>>

\* A mistaken variant: once a node has failed, the others are not recorded.
CreateNodeGivesUp(n) ==
    /\ pc = "load_nodes" /\ n \in todo
    /\ todo' = todo \ {n}
    /\ \/ /\ n \in Docker => cont[n] = "none"
          /\ cont' = IF n \in Docker THEN [cont EXCEPT ![n] = "created"] ELSE cont
          /\ nodes' = IF failed THEN nodes ELSE nodes \cup {n}
          /\ UNCHANGED failed
       \/ /\ n \in Docker /\ (Faults \/ cont[n] # "none")
          /\ failed' = TRUE
          /\ UNCHANGED <<cont, nodes>>
    /\ UNCHANGED <<running, links, ovs, objVars, veths, doubts, pc, mode, pending,
                   leftVars>>

CreateNode(n) ==
    /\ pc = "load_nodes" /\ n \in todo
    /\ todo' = todo \ {n}
    /\ \/ /\ n \in Docker => cont[n] = "none"
          /\ cont' = IF n \in Docker THEN [cont EXCEPT ![n] = "created"] ELSE cont
          /\ nodes' = nodes \cup {n}
          /\ UNCHANGED failed
       \/ /\ n \in Docker /\ (Faults \/ cont[n] # "none")
          /\ failed' = TRUE
          /\ UNCHANGED <<cont, nodes>>
    /\ UNCHANGED <<running, links, ovs, objVars, veths, doubts, pc, mode, pending,
                   leftVars>>

LoadEnd ==
    /\ pc = "load_nodes" /\ todo = {}
    /\ \/ /\ failed
          /\ LoadFailed
          /\ UNCHANGED <<running, links, doubts>>
       \/ /\ ~failed
          /\ links' = pending
          /\ pending' = {}
          /\ running' = FALSE
          /\ pc' = IF mode = "reload" /\ running THEN "run" ELSE "idle"
          /\ mode' = "none"
          /\ UNCHANGED <<todo, failed, doubts>>
       \* no identifier is left for a bridge: the links are recorded already,
       \* and a topology that ran before its reload is still said to run
       \/ /\ ~failed /\ Faults
          /\ links' = pending
          /\ doubtful' = doubtful \cup UNION {Ends(l) : l \in pending}
          /\ LoadFailed
          /\ UNCHANGED <<running, torn>>
    /\ UNCHANGED <<nodes, ovs, objVars, hostVars, leftVars>>

-----------------------------------------------------------------------------
(* Run.                                                                     *)

Run ==
    /\ pc = "idle"
    /\ pc' = "run"
    /\ failed' = FALSE
    /\ UNCHANGED <<running, nodes, links, ovs, nodeVars, mode, todo, pending,
                   leftVars>>

\* "Topology is already running": nothing is done, and no error is returned.
RunSkipped ==
    /\ pc = "run" /\ running
    /\ Reply(FALSE)
    /\ UNCHANGED <<running, nodes, links, ovs, nodeVars, leftVars>>

\* ovsInstance is nil after a failed Load: Start dereferences it.
RunPanics ==
    /\ pc = "run" /\ ~running /\ ovs = "nil"
    /\ pc' = "crashed"
    /\ UNCHANGED <<running, nodes, links, ovs, nodeVars, mode, todo, pending,
                   failed, leftVars>>

RunStartsOvs ==
    /\ pc = "run" /\ ~running /\ ovs # "nil"
    /\ ovs' = "started"
    /\ cont' = [cont EXCEPT ![OvsInst] = "up"]
    /\ pc' = "run_nodes"
    /\ todo' = nodes
    /\ UNCHANGED <<running, nodes, links, objVars, veths, doubts, mode, pending,
                   failed, leftVars>>

\* The container does not start, or never answers "ovs-vsctl show".
RunOvsFails ==
    /\ Faults
    /\ pc = "run" /\ ~running /\ ovs = "created"
    /\ cont' \in {cont, [cont EXCEPT ![OvsInst] = "up"]}
    /\ Reply(TRUE)
    /\ UNCHANGED <<running, nodes, links, ovs, objVars, veths, doubts, leftVars>>

RunNode(n) ==
    /\ pc = "run_nodes" /\ n \in todo
    /\ todo' = todo \ {n}
    /\ \/ /\ n \in Launch => StartOk(n)
          /\ n \notin Launch => UNCHANGED nodeVars
          /\ UNCHANGED failed
       \/ /\ n \in Launch /\ StartFails(n)
          /\ failed' = TRUE
    /\ UNCHANGED <<running, nodes, links, ovs, pc, mode, pending, leftVars>>

\* A mistaken variant: the error of the group is not looked at.
RunNodesEndRegardless ==
    /\ pc = "run_nodes" /\ todo = {}
    /\ pc' = "run_links" /\ todo' = links /\ failed' = FALSE
    /\ UNCHANGED <<running, nodes, links, ovs, nodeVars, mode, pending, leftVars>>

RunNodesEnd ==
    /\ pc = "run_nodes" /\ todo = {}
    /\ \/ failed /\ Reply(TRUE)
       \/ /\ ~failed
          /\ pc' = "run_links" /\ todo' = links
          /\ UNCHANGED <<mode, pending, failed>>
    /\ UNCHANGED <<running, nodes, links, ovs, nodeVars, leftVars>>

\* The links are set up one after the other; the first error ends Run.
RunLink(l) ==
    /\ pc = "run_links" /\ l \in todo
    /\ \E k \in 0..5 :
          /\ SetupLink(l, k)
          /\ \/ /\ k = 5
                /\ todo' = todo \ {l}
                /\ UNCHANGED <<pc, mode, pending, failed>>
             \/ k < 5 /\ Reply(TRUE)
    /\ UNCHANGED <<running, nodes, links, ovs, doubts, leftVars>>

\* Bridges, interfaces and configurations: any of them may fail.
RunEnd ==
    /\ pc = "run_links" /\ todo = {}
    /\ \/ running' = TRUE /\ Reply(FALSE) /\ torn' = {} /\ doubtful' = {}
       \/ Faults /\ Reply(TRUE) /\ UNCHANGED <<running, doubts>>
    /\ UNCHANGED <<nodes, links, ovs, objVars, hostVars, leftVars>>

-----------------------------------------------------------------------------
(* Requests on one node, or on all of them.                                 *)

\* startNode: an error of LoadConfig leaves the node started.
StartThenConfig(n) ==
    \/ StartOk(n) /\ UNCHANGED failed
    \/ StartOk(n) /\ Faults /\ failed' = TRUE
    \/ StartFails(n) /\ failed' = TRUE

StopNode(n) ==
    \/ StopOk(n) /\ UNCHANGED failed
    \/ StopFails(n) /\ failed' = TRUE

\* The goroutines of a request: one node each, in any order.
Serve(request, N) ==
    /\ pc = "idle"
    /\ pc' = request
    /\ todo' = N
    /\ failed' = FALSE
    /\ UNCHANGED <<running, nodes, links, ovs, nodeVars, mode, pending, leftVars>>

Start    == running /\ \E n \in nodes : Serve("start", {n})
Stop     == running /\ \E n \in nodes : Serve("stop", {n})
Restart  == running /\ \E n \in nodes : Serve("restart", {n})
\* Neither of these two looks at t.running.
StartAll == Serve("start", {n \in nodes : ~up[n]})
StopAll  == Serve("stop", {n \in nodes : up[n]})

ServeStart(n) ==
    /\ pc = "start" /\ n \in todo
    /\ StartThenConfig(n)
    /\ todo' = todo \ {n}
    /\ UNCHANGED <<running, nodes, links, ovs, pc, mode, pending, leftVars>>

ServeStop(n) ==
    /\ pc = "stop" /\ n \in todo
    /\ StopNode(n)
    /\ todo' = todo \ {n}
    /\ UNCHANGED <<running, nodes, links, ovs, pc, mode, pending, leftVars>>

\* NodeRestart: Stop then, unless it failed, Start.
RestartStops(n) ==
    /\ pc = "restart" /\ n \in todo
    /\ StopNode(n)
    /\ pc' = IF failed' THEN "stop" ELSE "start"
    /\ todo' = IF failed' THEN {} ELSE todo
    /\ UNCHANGED <<running, nodes, links, ovs, mode, pending, leftVars>>

ServeEnd ==
    /\ pc \in {"start", "stop"} /\ todo = {}
    /\ Reply(failed)
    /\ UNCHANGED <<running, nodes, links, ovs, nodeVars, leftVars>>

-----------------------------------------------------------------------------
(* Links added and removed while the project is open.                       *)

\* A mistaken variant: the link is recorded even if its setup failed.
LinkAddRegardless(l) ==
    /\ pc = "idle" /\ l \notin links
    /\ EndNodes(l) \subseteq nodes
    /\ \E k \in 0..5 : SetupLink(l, k) /\ Reply(k < 5)
    /\ links' = links \cup {l}
    /\ doubtful' = doubtful \cup DoubtOf(l)
    /\ UNCHANGED <<running, nodes, ovs, torn, leftVars>>

LinkAdd(l) ==
    /\ pc = "idle" /\ l \notin links
    /\ EndNodes(l) \subseteq nodes
    /\ \E k \in 0..5 : /\ SetupLink(l, k)
                       /\ links' = IF k = 5 THEN links \cup {l} ELSE links
                       /\ doubtful' = IF k = 5 THEN doubtful \cup DoubtOf(l) ELSE doubtful
                       /\ Reply(k < 5)
    /\ UNCHANGED <<running, nodes, ovs, torn, leftVars>>

\* GetNode returned nil for one end; setupLink calls its GetNetns.
LinkAddPanics(l) ==
    /\ pc = "idle" /\ l \notin links
    /\ ~(EndNodes(l) \subseteq nodes)
    /\ l[1][1] \in nodes => ~NsMissing(l[1])
    /\ Touch({l[1][1]} \cap nodes)
    /\ pc' = "crashed"
    /\ UNCHANGED <<running, nodes, links, ovs, up, ifs, br, port, hostVars, doubts,
                   mode, todo, pending, failed, leftVars>>

\* DeleteLink removes the interface it finds under the name of the first end.
LinkDel(l) ==
    /\ pc = "idle" /\ l \in links
    /\ \/ /\ ~NsMissing(l[1]) /\ Present(Here(l[1]))
          /\ Touch({l[1][1]})
          /\ veths' = Without(veths, {Here(l[1])})
          /\ links' = links \ {l}
          /\ Reply(FALSE)
       \/ /\ Faults \/ NsMissing(l[1])
          /\ Reply(TRUE)
          /\ UNCHANGED <<netns, veths, links>>
       \/ /\ ~NsMissing(l[1])
          /\ Faults \/ ~Present(Here(l[1]))
          /\ Touch({l[1][1]})
          /\ Reply(TRUE)
          /\ UNCHANGED <<veths, links>>
    /\ UNCHANGED <<running, nodes, ovs, up, ifs, br, port, cont, doubts, leftVars>>

\* LinkUpdate: of the topology, only GetNetns changes anything; the handles of
\* both namespaces are never closed. The rules on the ends are LinkQoS's.
LinkUpdate(l) ==
    /\ pc = "idle" /\ l \in links
    /\ \E k \in 0..2 :
          /\ \A j \in 0..(k - 1) : ~Obstacle(l, j)
          /\ k < 2 => Faults \/ Obstacle(l, k)
          /\ Touch({l[j][1] : j \in 1..k})
          /\ \/ k = 2 /\ Reply(FALSE)
             \/ (k < 2 \/ Faults \/ \E e \in Ends(l) : ~Present(Here(e))) /\ Reply(TRUE)
    /\ UNCHANGED <<running, nodes, links, ovs, up, ifs, br, port, hostVars, doubts, leftVars>>

-----------------------------------------------------------------------------
(* Close: by itself, or as the first half of Reload; which of the two makes *)
(* a difference, and is chosen, when it ends.                               *)

Close ==
    /\ pc = "idle"
    /\ mode' = "none"
    /\ pc' = "close_nodes" /\ todo' = nodes /\ failed' = FALSE
    /\ torn' = {} /\ doubtful' = {}
    /\ UNCHANGED <<running, nodes, links, ovs, objVars, hostVars, pending, leftVars>>

\* A mistaken variant: the local namespace is deleted only if the node runs.
CloseDockerKeepsNetns(n) ==
    /\ n \in Docker
    /\ up' = [up EXCEPT ![n] = FALSE]
    /\ cont' = [cont EXCEPT ![n] = "none"]
    /\ netns' = IF up[n] THEN netns \ {n} ELSE netns
    /\ ifs' = [ifs EXCEPT ![n] = {}]
    /\ veths' \in Outcomes(veths, {n}, IF up[n] THEN Namespaces ELSE {"run"})
    /\ UNCHANGED <<br, port, leftVars>>

\* The namespaces that go with the node; LocalNetnsName is forgotten, even when
\* the name, or the namespace as well, could not be removed.
CloseNetns(n) ==
    /\ netns' = netns \ {n}
    /\ \/ /\ veths' \in Outcomes(veths, {n},
                               IF n \in netns THEN Namespaces ELSE {"run"})
          /\ UNCHANGED undeleted
       \/ /\ Faults /\ n \in netns \cap Lingering
          /\ \E S \in {Namespaces, {"run"}} : veths' \in Outcomes(veths, {n}, S)
          /\ undeleted' = undeleted \cup {n}

CloseDocker(n) ==
    \* removed, with the interfaces of the object
    \/ /\ n \in Docker
       /\ up' = [up EXCEPT ![n] = FALSE]
       /\ cont' = [cont EXCEPT ![n] = "none"]
       /\ ifs' = [ifs EXCEPT ![n] = {}]
       /\ CloseNetns(n)
       /\ UNCHANGED <<br, port, abandoned>>
    \* no docker client, or Rm fails after the container was stopped or not
    \/ /\ Faults /\ n \in Docker
       /\ up' \in {up, [up EXCEPT ![n] = FALSE]}
       /\ \/ UNCHANGED hostVars
          \/ /\ up[n] /\ ~up'[n]
             /\ cont' = [cont EXCEPT ![n] = "created"]
             /\ veths' \in Outcomes(veths, {n}, {"run"})
       /\ abandoned' = abandoned \cup {n}
       /\ UNCHANGED <<ifs, netns, undeleted, br, port>>

CloseOvs(n) ==
    /\ n \in Ovs
    /\ \/ br' = br \ {n} /\ port' = [port EXCEPT ![n] = {}]
       \/ Faults /\ UNCHANGED <<br, port>>
    /\ UNCHANGED <<up, ifs, netns, hostVars, leftVars>>

\* An error is logged and forgotten.
CloseNode(n) ==
    /\ pc = "close_nodes" /\ n \in todo
    /\ todo' = todo \ {n}
    /\ CloseDocker(n) \/ CloseOvs(n)
    /\ UNCHANGED <<running, nodes, links, ovs, doubts, pc, mode, pending, failed>>

\* CloseOvsInstance forgets the instance, even when its container is not removed.
CloseOvsInstance ==
    \/ ovs = "nil" /\ UNCHANGED <<hostVars, abandoned>>
    \/ /\ ovs # "nil"
       /\ cont' = [cont EXCEPT ![OvsInst] = "none"]
       /\ veths' \in Outcomes(veths, Ovs, {"run"})
       /\ UNCHANGED abandoned
    \/ /\ Faults /\ ovs # "nil"
       /\ \/ UNCHANGED hostVars
          \/ /\ cont' = [cont EXCEPT ![OvsInst] = "created"]
             /\ veths' \in Outcomes(veths, Ovs, {"run"})
       /\ abandoned' = abandoned \cup {OvsInst}

\* The node objects are dropped; running keeps its value.
CloseEnd ==
    /\ pc = "close_nodes" /\ todo = {}
    /\ CloseOvsInstance
    /\ nodes' = {} /\ links' = {} /\ ovs' = "nil"
    /\ up' = [n \in Nodes |-> FALSE]
    /\ ifs' = [n \in Nodes |-> {}]
    /\ br' = {}
    /\ port' = [n \in Nodes |-> {}]
    /\ \/ mode # "close" /\ mode' = "reload" /\ pc' = "load"
       \/ mode' = "close" /\ pc' = "dead"
    /\ UNCHANGED <<running, netns, undeleted, doubts, todo, pending, failed>>

\* The last thread leaves a kept namespace that no handle refers to.
LetGo ==
    /\ \E v \in veths : /\ "kept" \in {v[1][3], v[2][3]}
                        /\ veths' = veths \ {v}
    /\ UNCHANGED <<running, nodes, links, ovs, objVars, cont, doubts, reqVars, leftVars>>

\* The project is closed, or the server has died: nothing more is served.
Terminated == pc \in {"dead", "crashed"} /\ UNCHANGED vars

-----------------------------------------------------------------------------
Request ==
    \/ Run \/ Start \/ Stop \/ Restart \/ StartAll \/ StopAll \/ Close
    \/ \E l \in Links : LinkAdd(l) \/ LinkAddPanics(l) \/ LinkDel(l) \/ LinkUpdate(l)

NodeStep(n) ==
    \/ CreateNode(n) \/ RunNode(n) \/ ServeStart(n) \/ ServeStop(n)
    \/ RestartStops(n) \/ CloseNode(n)

Progress ==
    \/ LoadRejected \/ LoadOvs \/ LoadOvsFails \/ LoadEnd
    \/ RunSkipped \/ RunPanics \/ RunStartsOvs \/ RunOvsFails
    \/ RunNodesEnd \/ RunEnd
    \/ ServeEnd \/ CloseEnd
    \/ \E n \in Nodes : NodeStep(n)
    \/ \E l \in Links : RunLink(l)

Next == Request \/ Progress \/ LetGo \/ Terminated

Spec == Init /\ [][Next]_vars

-----------------------------------------------------------------------------
(* Properties.                                                              *)

States == {"load", "load_nodes", "idle", "run", "run_nodes", "run_links",
           "start", "stop", "restart", "close_nodes", "dead", "crashed"}

\* Types of the variables.
TypeOK ==
    /\ running \in BOOLEAN /\ failed \in BOOLEAN
    /\ nodes \subseteq Nodes /\ torn \subseteq Nodes
    /\ doubtful \subseteq Endpoints
    /\ links \subseteq Links /\ pending \subseteq Links
    /\ ovs \in {"nil", "created", "started"}
    /\ up \in [Nodes -> BOOLEAN]
    /\ ifs \in [Nodes -> SUBSET Idx] /\ port \in [Nodes -> SUBSET Idx]
    /\ netns \subseteq Docker /\ undeleted \subseteq Docker /\ br \subseteq Ovs
    /\ cont \in [Containers -> {"none", "created", "up"}]
    /\ veths \subseteq In(Nodes, Places) \X In(Nodes, Places)
    /\ pc \in States /\ mode \in {"open", "reload", "close", "none"}
    /\ todo \subseteq IF pc = "run_links" THEN Links ELSE Nodes
    /\ abandoned \subseteq Containers

Attached(e) ==
    /\ e[2] \in ifs[e[1]]
    /\ e[1] \in Ovs /\ up[e[1]] => e[2] \in port[e[1]]

\* The link is there: its veth pair joins the current namespaces of its nodes,
\* which both know the interface (a running switch has it as a port).
Whole(l) ==
    /\ <<Here(l[1]), Here(l[2])>> \in veths
    /\ Attached(l[1]) /\ Attached(l[2])

\* Once Run has succeeded, every recorded link is really there, whatever nodes
\* are started, stopped, restarted, and links added or removed, except the links
\* of a node whose start or stop broke half way since, and those added later at
\* an endpoint of such a link: LinkDel removes whatever it finds under a name. The
\* links a failed reload has recorded, for a topology it still says runs, are
\* excepted too.
LinksIntact ==
    running /\ pc \in {"idle", "start", "stop", "restart"} =>
        \A l \in links : Ends(l) \cap doubtful = {} => Whole(l)

\* Starting or stopping a node, docker or switch, running topology or not,
\* carries its links along: a link that was there is still there.
ToggleKeepsLinks ==
    [][ \A n \in Nodes :
          up[n] # up'[n] /\ n \notin torn' /\ pc # "close_nodes" =>
              \A l \in links : n \in EndNodes(l) /\ Whole(l) => Whole(l)' ]_vars

\* Run reports success, and sets running, only when every node to be launched
\* runs and every link of the topology is there: also a second Run that comes
\* after a failed one, or after links were added before it.
RunIsComplete ==
    [][ ~running /\ running' =>
          /\ \A n \in nodes \cap Launch : up'[n]
          /\ \A l \in links : Whole(l)' ]_vars

\* A container exists only if its object can still be reached to remove it, or
\* if its removal was tried and failed: whatever fails in Load, Run or Close.
NoLeak ==
    \A c \in Containers : cont[c] # "none" =>
        c \in nodes \/ c \in abandoned \/ (c = OvsInst /\ ovs # "nil")

Owner(n) == IF n \in Ovs THEN OvsInst ELSE n

\* The socket is in a namespace that outlives its node: the daemon refers to it,
\* or its name could not be deleted.
Outlives(s) == s[3] = "kept" \/ (s[1] \in undeleted /\ s[3] = "local")

Astray(s) == Owner(s[1]) \notin abandoned /\ ~Outlives(s)

\* A closed topology leaves nothing on the host, no container, no namespace and
\* no interface, but what belongs to a container that could not be removed, to a
\* namespace whose name could not be deleted, or to one the daemon itself still
\* refers to: a veth pair is left only if both its ends are.
ClosedClean ==
    pc \in {"load", "dead"} =>
        /\ \A c \in Containers : cont[c] # "none" => c \in abandoned
        /\ netns \subseteq abandoned
        /\ \A v \in veths : ~Astray(v[1]) /\ ~Astray(v[2])

-----------------------------------------------------------------------------
(* What the documentation promises and the code does not do.                *)

\* commands.rst:146: stop stops a node or all the nodes. It does, when no call to
\* docker, ovs-vsctl or netlink fails.
StopSucceeds == pc = "stop" => ~failed

=============================================================================
