---------------------------- MODULE TopologyFile ----------------------------
(***************************************************************************)
(* The links of a topology and the file they come from: adding, deleting   *)
(* and updating a link with synchronisation, editing the file, reloading   *)
(* it (server/topology.go, server/check.go, server.go, console/prompt.go). *)
(* The topology runs.  Each request is served by a goroutine of its own:   *)
(* nothing orders the steps of two of them.                                *)
(*                                                                         *)
(* t.links is a sequence of pointers: table holds the numbers of link      *)
(* objects.  The parameters of a link are cut down to what CheckTopology   *)
(* relates: whether there is a rate, and a buffer; a rate has its delay.   *)
(***************************************************************************)
EXTENDS Naturals, Sequences

CONSTANTS
    Requests,   \* the requests
    Scenarios,  \* what they are, and the file the topology was loaded from
    Nodes,      \* names of nodes
    Unfit,      \* the nodes whose configuration is refused
    Odd,        \* those of a type that is accepted and that nothing can create
    Bridges,    \* names of bridges
    BridgePeers,\* the interfaces of each bridge
    Peers,      \* the ways to write the end of a link
    PeerNode,   \* the text before the dot, or all of it
    PeerIdx,    \* the number after the dot, or NoIdx
    NoIdx,
    Matched,    \* the ends that the pattern of the check matches
    Torn,       \* what is left of a file that two requests write at once
    NoFile

(* The name of a bridge as t.bridges has it, which is not a valid one.     *)
IfName(b) == <<b>>

(* A node is its name, and whether IPv6 is on.                             *)
Names(ns) == {n[1] : n \in ns}

LinkConfig == [peer1: Peers, peer2: Peers, rate: BOOLEAN, buffer: BOOLEAN,
               qos: {"none", "some"}]
File == [nodes: SUBSET (Nodes \X BOOLEAN), links: Seq(LinkConfig),
         bridges: SUBSET (Bridges \cup {IfName(b) : b \in Bridges})]
Empty == [nodes |-> {}, links |-> <<>>, bridges |-> {}]

Kinds == {"add", "del", "update", "edit", "reload"}

ASSUME TopologyFileAssumption ==
    /\ Unfit \subseteq Nodes /\ Odd \subseteq Nodes /\ Torn \notin File
    /\ Matched \subseteq Peers
    /\ BridgePeers \in [Bridges -> SUBSET Peers]
    /\ DOMAIN PeerNode = Peers /\ DOMAIN PeerIdx = Peers
    /\ \A s \in Scenarios :
          /\ s.file \in File
          /\ \A r \in Requests :
                /\ s.plan[r].kind \in Kinds
                /\ s.plan[r].link \in LinkConfig
                /\ s.plan[r].nodes \subseteq Nodes \X BOOLEAN
                /\ s.plan[r].whole \in BOOLEAN
                /\ s.plan[r].kind = "add" => ~s.plan[r].link.rate

VARIABLES
    daemon,     \* up, or panic
    plan,       \* the requests
    file,       \* the network file, or Torn
    nodes,      \* t.nodes
    table,      \* t.links
    bridges,    \* t.bridges
    objects,    \* the configurations of the link objects there have been
    broken,     \* the link objects with an end that is nil, and 0 for a bridge
                \* that is nil or has such an end
    veths,      \* the links in the kernel
    epoch,      \* counts the times the nodes were closed
    temp,       \* the temporary file of the editors, or NoFile
    at,         \* at[r]: where request r is
    found,      \* found[r]: the number of the link it works on
    index,      \* index[r]: the place of that link in t.links
    seen,       \* seen[r]: the epoch it saw
    data,       \* data[r]: what it is to write, or what its editor shows
    answer,     \* answer[r]
    under,      \* history: what it wrote over
    before,     \* history: what the topology was before its reload
    last,       \* history: the requests that have ended
    met         \* history: the pairs of requests that overlapped

topo == <<nodes, table, bridges, objects, broken, veths, epoch>>
work == <<found, index, seen, data>>
history == <<under, before, last, met>>
vars == <<daemon, plan, file, topo, temp, at, work, answer, history>>

-----------------------------------------------------------------------------
(* CheckTopology.                                                          *)

NodeAccepted(n) == n \notin Unfit

PeerValid(ns, used, p) ==
    p \in Matched /\ p \notin used /\ PeerNode[p] \in Names(ns)

(* What is in use after the first k links.  (One that does not pass uses   *)
(* nothing, but then the file is refused anyway.)                          *)
UsedAfter(f, k) == UNION {{f.links[i].peer1, f.links[i].peer2} : i \in 1..k}

LinkAccepted(ns, used, l) ==
    /\ PeerValid(ns, used, l.peer1) /\ PeerValid(ns, used, l.peer2)
    /\ l.peer1 # l.peer2
    /\ l.buffer => l.rate

BridgeAccepted(f, b) ==
    /\ b \in Bridges
    /\ \A p \in BridgePeers[b] :
          /\ PeerValid(f.nodes, UsedAfter(f, Len(f.links)), p)
          /\ \A c \in f.bridges \cap Bridges : c # b => p \notin BridgePeers[c]

Accepted(f) ==
    /\ f # Torn
    /\ \A n \in Names(f.nodes) : NodeAccepted(n)
    /\ \A k \in 1..Len(f.links) :
          LinkAccepted(f.nodes, UsedAfter(f, k - 1), f.links[k])
    /\ \A b \in f.bridges : BridgeAccepted(f, b)

-----------------------------------------------------------------------------
(* The topology in memory.                                                 *)

End(p) == <<PeerNode[p], PeerIdx[p]>>
Ends(l) == {End(l.peer1), End(l.peer2)}
Dotless(l) == NoIdx \in {PeerIdx[l.peer1], PeerIdx[l.peer2]}
Config(k) == objects[k]
Configs == [i \in 1..Len(table) |-> Config(table[i])]

(* A veth cannot join an interface to itself.                              *)
Loop(l) == End(l.peer1) = End(l.peer2)

(* The default buffer, given to every link.                                *)
WithBuffer(l) == [l EXCEPT !.buffer = TRUE]

Places(p, q) == {i \in 1..Len(table) : /\ End(Config(table[i]).peer1) = End(p)
                                      /\ End(Config(table[i]).peer2) = End(q)}

(* GetLink finds the link l at place i: the first with its ends, or the    *)
(* first with its ends the other way round; 0 when there is none.          *)
IsAt(l, i) ==
    LET same == Places(l.peer1, l.peer2)
        S == IF same # {} THEN same ELSE Places(l.peer2, l.peer1)
    IN  IF S = {} THEN i = 0 ELSE i \in S /\ \A j \in S : i <= j

Between(l) == {PeerNode[l.peer1], PeerNode[l.peer2]}

(* The nodes of a link are in the topology.                                *)
Known(l) == Between(l) \subseteq Names(nodes)

(* A mistaken variant: the QoS of the ends is left out.                    *)
TopologyWithoutQoS ==
    [nodes |-> Names(nodes) \X {TRUE},
     links |-> [i \in 1..Len(table) |-> [Configs[i] EXCEPT !.qos = "none"]],
     bridges |-> {IfName(b) : b \in bridges}]

(* What SynchroniseTopology writes.  FALSE is not written for IPv6         *)
(* (omitempty), and what is not written is TRUE when the file is read.     *)
Topology ==
    [nodes |-> Names(nodes) \X {TRUE}, links |-> Configs,
     bridges |-> {IfName(b) : b \in bridges}]

(* The file was loaded and run: it was accepted, and no two of its links   *)
(* need the same interface.  The name of a bridge in t.bridges has a dot.  *)
ASSUME LoadedAssumption ==
    /\ \A s \in Scenarios :
          /\ Accepted(s.file) /\ Names(s.file.nodes) \cap Odd = {}
          /\ \A i \in DOMAIN s.file.links :
                /\ ~Loop(s.file.links[i]) /\ ~Dotless(s.file.links[i])
                /\ \A j \in DOMAIN s.file.links \ {i} :
                      Ends(s.file.links[i]) \cap Ends(s.file.links[j]) = {}
    /\ \A b \in Bridges : IfName(b) \notin Bridges

Numbered(n, m) == [i \in 1..(m - n) |-> n + i]

Init ==
    \E s \in Scenarios :
        /\ plan = s.plan /\ file = s.file
        /\ daemon = "up"
        /\ nodes = s.file.nodes /\ bridges = s.file.bridges
        /\ objects = [i \in DOMAIN s.file.links |-> WithBuffer(s.file.links[i])]
        /\ table = Numbered(0, Len(s.file.links)) /\ broken = {}
        /\ veths = {Ends(s.file.links[i]) : i \in 1..Len(s.file.links)}
        /\ epoch = 0 /\ temp = NoFile
        /\ at = [r \in Requests |-> "begin"]
        /\ found = [r \in Requests |-> 0]
        /\ index = [r \in Requests |-> 0]
        /\ seen = [r \in Requests |-> 0]
        /\ data = [r \in Requests |-> Empty]
        /\ answer = [r \in Requests |-> "none"]
        /\ under = [r \in Requests |-> Empty]
        /\ before = [r \in Requests |-> Empty]
        /\ last = <<>> /\ met = {}

-----------------------------------------------------------------------------
(* Steps of any request.                                                   *)

Kind(r) == plan[r].kind
Link(r) == plan[r].link

Goto(r, place) ==
    /\ at' = [at EXCEPT ![r] = place]
    /\ UNCHANGED <<answer, last>>

Reply(r, a) ==
    /\ at' = [at EXCEPT ![r] = "done"]
    /\ answer' = [answer EXCEPT ![r] = a]
    /\ last' = Append(last, r)

Panic(r) ==
    /\ daemon' = "panic"
    /\ Goto(r, "panic")

Enters(r) ==
    /\ at[r] = "begin"
    /\ LET underway == {q \in Requests : at[q] \notin {"begin", "done"}}
       IN  met' = met \cup {{r, q} : q \in underway}

Finds(r, i) ==
    /\ index' = [index EXCEPT ![r] = i]
    /\ found' = [found EXCEPT ![r] = IF i = 0 THEN 0 ELSE table[i]]
    /\ seen' = [seen EXCEPT ![r] = epoch]

(* The objects of the nodes the request found have not been closed.        *)
Same(r) == seen[r] = epoch

(* The objects of the links that a reload has put in t.links, where there  *)
(* are nil pointers until it has filled them in.                           *)
Made(r) == {found[r] + i : i \in 1..Len(data[r].links)}
Nil(k) == \E r \in Requests : at[r] = "fill" /\ k \in Made(r)

(* The topology is read, then the file is emptied and written.             *)
Synchronise(r) ==
    /\ at[r] = "sync"
    /\ \A i \in 1..Len(table) : ~Nil(table[i])
    /\ data' = [data EXCEPT ![r] = Topology]
    /\ Goto(r, "empty")
    /\ UNCHANGED <<daemon, plan, file, topo, temp, found, index, seen, under,
                   before, met>>

(* A nil pointer is in t.links or, maybe, in t.bridges.                    *)
SynchronisePanics(r) ==
    /\ at[r] = "sync"
    /\ 0 \in broken \/ \E i \in 1..Len(table) : Nil(table[i])
    /\ Panic(r)
    /\ UNCHANGED <<plan, file, topo, temp, work, under, before, met>>

EmptyFile(r) ==
    /\ at[r] = "empty"
    /\ file' = Empty
    /\ under' = [under EXCEPT ![r] = file]
    /\ Goto(r, "write")
    /\ UNCHANGED <<daemon, plan, topo, temp, work, before, met>>

(* Written over what another request wrote, it may keep the end of that.   *)
WriteFile(r) ==
    /\ at[r] = "write"
    /\ \/ file' = data[r]
       \/ file # Empty /\ file' = Torn
    /\ IF Kind(r) = "edit" THEN Goto(r, "cleanup") ELSE Reply(r, "ok")
    /\ UNCHANGED <<daemon, plan, topo, temp, work, under, before, met>>

WriteFails(r) ==
    /\ at[r] \in {"empty", "write"} /\ Kind(r) # "edit"
    /\ Reply(r, "error")
    /\ UNCHANGED <<daemon, plan, file, topo, temp, work, under, before, met>>

-----------------------------------------------------------------------------
(* LinkAdd, LinkDel, LinkUpdate.                                           *)

(* No handler looks at what a request carries: its messages of the link    *)
(* and of the QoS may be absent, and an end may have no dot.               *)
Malformed(r) ==
    \/ ~plan[r].whole /\ Kind(r) \in {"add", "update"}
    \/ Dotless(Link(r))

(* What GetLink looks at until it finds a link at i, or none.              *)
Passed(l, i) ==
    IF i \in Places(l.peer1, l.peer2) THEN 1..i ELSE 1..Len(table)

(* It goes through a nil pointer, or to a node that is one.  (It may pass  *)
(* a link whose node is one, when the numbers differ.)                     *)
MustPanic(r, i) ==
    \/ Malformed(r)
    \/ \E j \in Passed(Link(r), i) : Nil(table[j])
    \/ i # 0 /\ table[i] \in broken
MayPanic(r, i) ==
    MustPanic(r, i) \/ \E j \in Passed(Link(r), i) : table[j] \in broken

(* A link is added between nodes that exist: the method of a nil node is a *)
(* panic.                                                                  *)
BeginAdd(r) ==
    /\ Kind(r) = "add" /\ Enters(r)
    /\ \E i \in 0..Len(table) :
          /\ IsAt(Link(r), i)
          /\ Finds(r, i)
          /\ \/ MayPanic(r, i) /\ Panic(r)
             \/ i = 0 /\ ~Known(Link(r)) /\ Panic(r)
             \/ /\ ~MustPanic(r, i) /\ UNCHANGED daemon
                /\ \/ i # 0 /\ Reply(r, "error")
                   \/ i = 0 /\ Known(Link(r)) /\ Goto(r, "setup")
    /\ UNCHANGED <<plan, file, topo, temp, data, under, before>>

(* The veth is made, and the rest of setupLink goes well or not.           *)
SetupLink(r) ==
    /\ at[r] = "setup"
    /\ \/ /\ Same(r) /\ ~Loop(Link(r))
          /\ \A v \in veths : v \cap Ends(Link(r)) = {}
          /\ veths' = veths \cup {Ends(Link(r))}
          /\ objects' = Append(objects, WithBuffer(Link(r)))
          /\ found' = [found EXCEPT ![r] = Len(objects) + 1]
          /\ Goto(r, "append") \/ Reply(r, "error")
       \/ Reply(r, "error") /\ UNCHANGED <<veths, objects, found>>
    /\ UNCHANGED <<daemon, plan, file, nodes, table, bridges, broken, epoch,
                   temp, index, seen, data, under, before, met>>

(* A mistaken variant: the place is counted from the wrong end.            *)
StoreBeside(r) ==
    IF at[r] = "append" THEN Append(table, found[r])
    ELSE [i \in 1..(Len(table) - 1) |->
             table[IF i < Len(table) + 1 - index[r] THEN i ELSE i + 1]]

(* What a request that has come to change t.links makes of it.             *)
Store(r) ==
    IF at[r] = "append" THEN Append(table, found[r])
    ELSE [i \in 1..(Len(table) - 1) |->
             table[IF i < index[r] THEN i ELSE i + 1]]

Storing(r) ==
    \/ at[r] = "append"
    \/ at[r] = "remove" /\ index[r] <= Len(table)

StoreLink(r) ==
    /\ Storing(r)
    /\ table' = Store(r)
    /\ Goto(r, "sync")
    /\ UNCHANGED <<daemon, plan, file, nodes, bridges, objects, broken, veths,
                   epoch, temp, work, under, before, met>>

(* Nothing protects t.links: of two requests that store at once one may be *)
(* lost, and an append may carry along the last link of a table that is    *)
(* being shifted.                                                          *)
StoreBoth(r, q) ==
    /\ r # q /\ Storing(r) /\ Storing(q)
    /\ \/ table' = Store(r)
       \/ /\ at[r] = "append" /\ at[q] = "remove"
          /\ table' = Store(q) \o <<table[Len(table)], found[r]>>
    /\ at' = [at EXCEPT ![r] = "sync", ![q] = "sync"]
    /\ UNCHANGED <<daemon, plan, file, nodes, bridges, objects, broken, veths,
                   epoch, temp, work, answer, history>>

(* The place is beyond the end of the slice.                               *)
RemovePanics(r) ==
    /\ at[r] = "remove" /\ index[r] > Len(table)
    /\ Panic(r)
    /\ UNCHANGED <<plan, file, topo, temp, work, under, before, met>>

BeginOn(r, next) ==
    /\ Enters(r)
    /\ \E i \in 0..Len(table) :
          /\ IsAt(Link(r), i)
          /\ Finds(r, i)
          /\ \/ MayPanic(r, i) /\ Panic(r)
             \/ /\ ~MustPanic(r, i) /\ UNCHANGED daemon
                /\ IF i = 0 THEN Reply(r, "error") ELSE Goto(r, next)
    /\ UNCHANGED <<plan, file, topo, temp, data, under, before>>

BeginDel(r) == Kind(r) = "del" /\ BeginOn(r, "delete")
BeginUpdate(r) == Kind(r) = "update" /\ BeginOn(r, "configure")

(* The interface is looked up by its name, and deleted.                    *)
DeleteLink(r) ==
    /\ at[r] = "delete"
    /\ \/ /\ Same(r) /\ Ends(Config(found[r])) \in veths
          /\ veths' = veths \ {Ends(Config(found[r]))}
          /\ Goto(r, "remove")
       \/ Reply(r, "error") /\ UNCHANGED veths
    /\ UNCHANGED <<daemon, plan, file, nodes, table, bridges, objects, broken,
                   epoch, temp, work, under, before, met>>

(* The configuration is set before the qdiscs, which may be refused.       *)
Configure(r) ==
    /\ at[r] = "configure"
    /\ \/ /\ objects' = [objects EXCEPT ![found[r]].qos = Link(r).qos]
          /\ \/ Same(r) /\ Goto(r, "sync")
             \/ Reply(r, "error")
       \/ Reply(r, "error") /\ UNCHANGED objects
    /\ UNCHANGED <<daemon, plan, file, nodes, table, bridges, broken, veths,
                   epoch, temp, work, under, before, met>>

-----------------------------------------------------------------------------
(* Reload of a topology that runs.                                         *)

(* A bridge that is nil, or has an end that is, cannot be deleted.         *)
ClosePanics(r) ==
    /\ Kind(r) = "reload" /\ Enters(r)
    /\ 0 \in broken
    /\ Panic(r)
    /\ UNCHANGED <<plan, file, topo, temp, work, under, before>>

CloseAll(r) ==
    /\ Kind(r) = "reload" /\ Enters(r)
    /\ 0 \notin broken
    /\ before' = [before EXCEPT ![r] =
                   [nodes |-> nodes, links |-> Configs, bridges |-> bridges]]
    /\ nodes' = {} /\ table' = <<>> /\ bridges' = {} /\ veths' = {}
    /\ epoch' = epoch + 1
    /\ seen' = [seen EXCEPT ![r] = epoch']
    /\ Goto(r, "load")
    /\ UNCHANGED <<daemon, plan, file, objects, broken, temp, found, index, data,
                   under>>

(* A file that is refused leaves nothing.  Otherwise a node cannot be      *)
(* created, which stops the daemon if it is for its type, or all of them   *)
(* are, and t.links is made of nil pointers.                               *)
Load(r) ==
    /\ at[r] = "load"
    /\ IF ~Accepted(file)
       THEN Reply(r, "refused") /\ UNCHANGED <<daemon, nodes, table, objects, found, data>>
       ELSE \/ /\ nodes' \in SUBSET {n \in file.nodes : n[1] \notin Odd} \ {file.nodes}
               /\ Reply(r, "error")
               /\ UNCHANGED <<daemon, table, objects, found, data>>
            \/ /\ Names(file.nodes) \cap Odd # {}
               /\ Panic(r) /\ UNCHANGED <<nodes, table, objects, found, data>>
            \/ /\ Names(file.nodes) \cap Odd = {} /\ nodes' = file.nodes
               /\ objects' = objects \o [k \in DOMAIN file.links |->
                                             WithBuffer(file.links[k])]
               /\ table' = Numbered(Len(objects), Len(objects'))
               /\ found' = [found EXCEPT ![r] = Len(objects)]
               /\ data' = [data EXCEPT ![r] = file]
               /\ Goto(r, "fill") /\ UNCHANGED daemon
    /\ UNCHANGED <<plan, file, bridges, broken, veths, epoch, temp, index, seen,
                   under, before, met>>

(* The pointers are set, each at its place in what t.links is by now, to   *)
(* links whose ends are the nodes found by then, and t.bridges is made of  *)
(* nil pointers.  An end without a dot stops the daemon, and so does a     *)
(* place that is no longer there.                                          *)
FillLinks(r) ==
    /\ at[r] = "fill"
    /\ IF \/ Len(data[r].links) > Len(table)
          \/ \E k \in 1..Len(data[r].links) : Dotless(data[r].links[k])
       THEN Panic(r) /\ UNCHANGED <<table, bridges, broken>>
       ELSE /\ table' = [i \in DOMAIN table |->
                           IF i <= Len(data[r].links) THEN found[r] + i ELSE table[i]]
            /\ broken' = {k \in Made(r) : ~Known(Config(k))}
                          \cup (broken \ {0})
                          \cup (IF data[r].bridges = {} THEN {} ELSE {0})
            /\ bridges' = data[r].bridges
            /\ Goto(r, IF data[r].bridges = {} THEN "run" ELSE "bridging")
            /\ UNCHANGED daemon
    /\ UNCHANGED <<plan, file, nodes, objects, veths, epoch, temp, work, under,
                   before, met>>

(* A bridge may get no identifier: it and those that follow stay nil.  The *)
(* bridges of a file do not change: what another reload has put there is   *)
(* the same number of them.                                                *)
FillBridges(r) ==
    /\ at[r] = "bridging"
    /\ LET ends == UNION {BridgePeers[b] : b \in data[r].bridges}
           whole == {PeerNode[p] : p \in ends} \subseteq Names(nodes)
       IN  \/ Reply(r, "error") /\ UNCHANGED <<daemon, broken>>
           \/ /\ bridges = {} \/ NoIdx \in {PeerIdx[p] : p \in ends}
              /\ Panic(r) /\ UNCHANGED broken
           \/ /\ bridges # {} /\ NoIdx \notin {PeerIdx[p] : p \in ends}
              /\ broken' = IF whole THEN broken \ {0} ELSE broken \cup {0}
              /\ Goto(r, "run") /\ UNCHANGED daemon
    /\ UNCHANGED <<plan, file, nodes, table, bridges, objects, veths, epoch, temp,
                   work, under, before, met>>

(* The links are set up in turn: one whose end is taken is an error.       *)
Clash ==
    \E i, j \in 1..Len(table) :
        \/ Loop(Config(table[i]))
        \/ i # j /\ Ends(Config(table[i])) \cap Ends(Config(table[j])) # {}
        \/ \E v \in veths : v \cap Ends(Config(table[i])) # {}

(* A nil pointer may be met on the way: a link or an end of it, a bridge,  *)
(* or the instance of the switch when another reload has closed it.        *)
Holes == 0 \in broken \/ \E i \in 1..Len(table) : Nil(table[i]) \/ table[i] \in broken

RunPanics(r) ==
    /\ at[r] = "run"
    /\ Holes \/ ~Same(r)
    /\ Panic(r)
    /\ UNCHANGED <<plan, file, topo, temp, work, under, before, met>>

RunLinks(r) ==
    /\ at[r] = "run"
    /\ LET wanted == {Ends(Config(table[i])) : i \in 1..Len(table)}
       IN  \/ ~Clash /\ ~Holes /\ veths' = veths \cup wanted /\ Reply(r, "ok")
           \/ /\ \E some \in SUBSET wanted : veths' = veths \cup some
              /\ Reply(r, "error")
    /\ UNCHANGED <<daemon, plan, file, nodes, table, bridges, objects, broken,
                   epoch, temp, work, under, before, met>>

-----------------------------------------------------------------------------
(* edit: the file is fetched into a temporary file, which all the editors  *)
(* of the project share.                                                   *)

Fetch(r) ==
    /\ Kind(r) = "edit" /\ Enters(r)
    /\ data' = [data EXCEPT ![r] = file]
    /\ Goto(r, "temp")
    /\ UNCHANGED <<daemon, plan, file, topo, temp, found, index, seen, under,
                   before>>

(* A mistaken variant: a temporary file that is there is opened again.     *)
OpenEditorAgain(r) ==
    /\ at[r] = "temp"
    /\ temp' = IF temp = NoFile THEN data[r] ELSE temp
    /\ data' = [data EXCEPT ![r] = temp']
    /\ Goto(r, "editor")
    /\ UNCHANGED <<daemon, plan, file, topo, found, index, seen, under,
                   before, met>>

OpenEditor(r) ==
    /\ at[r] = "temp"
    /\ temp' = data[r]
    /\ Goto(r, "editor")
    /\ UNCHANGED <<daemon, plan, file, topo, work, under, before, met>>

(* The user adds a link, or nodes as well, to what the editor shows.       *)
Edited(f, r) ==
    IF f = Torn THEN f
    ELSE [f EXCEPT !.links = Append(@, Link(r)), !.nodes = @ \cup plan[r].nodes]

SaveEditor(r) ==
    /\ at[r] = "editor"
    /\ temp' = Edited(data[r], r)
    /\ Goto(r, "reread")
    /\ UNCHANGED <<daemon, plan, file, topo, work, under, before, met>>

Reread(r) ==
    /\ at[r] = "reread"
    /\ IF temp = NoFile
       THEN Reply(r, "error") /\ UNCHANGED data
       ELSE data' = [data EXCEPT ![r] = temp] /\ Goto(r, "empty")
    /\ UNCHANGED <<daemon, plan, file, topo, temp, found, index, seen, under,
                   before, met>>

(* An error of the server ends the console: the temporary file stays.      *)
SendFails(r) ==
    /\ at[r] \in {"empty", "write"} /\ Kind(r) = "edit"
    /\ Reply(r, "error")
    /\ UNCHANGED <<daemon, plan, file, topo, temp, work, under, before, met>>

RemoveTemp(r) ==
    /\ at[r] = "cleanup"
    /\ temp' = NoFile
    /\ Reply(r, "ok")
    /\ UNCHANGED <<daemon, plan, file, topo, work, under, before, met>>

-----------------------------------------------------------------------------
Step(r) ==
    \/ Synchronise(r) \/ SynchronisePanics(r) \/ EmptyFile(r)
    \/ WriteFile(r) \/ WriteFails(r)
    \/ BeginAdd(r) \/ SetupLink(r) \/ BeginDel(r) \/ DeleteLink(r)
    \/ StoreLink(r) \/ (\E q \in Requests : StoreBoth(r, q)) \/ RemovePanics(r)
    \/ BeginUpdate(r) \/ Configure(r)
    \/ CloseAll(r) \/ ClosePanics(r) \/ Load(r) \/ FillLinks(r) \/ FillBridges(r)
    \/ RunLinks(r) \/ RunPanics(r)
    \/ Fetch(r) \/ OpenEditor(r) \/ SaveEditor(r) \/ Reread(r)
    \/ SendFails(r) \/ RemoveTemp(r)

Next == daemon = "up" /\ \E r \in Requests : Step(r)

Spec == Init /\ [][Next]_vars

-----------------------------------------------------------------------------
(* Properties.                                                             *)

Positions ==
    {"begin", "setup", "append", "delete", "remove", "configure", "sync", "empty",
     "write", "load", "fill", "bridging", "run", "temp", "editor", "reread", "cleanup", "done", "panic"}

TypeOK ==
    /\ daemon \in {"up", "panic"} /\ epoch \in Nat
    /\ \A r \in Requests : /\ Kind(r) \in Kinds /\ Link(r) \in LinkConfig
                           /\ plan[r].nodes \subseteq Nodes \X BOOLEAN
                           /\ plan[r].whole \in BOOLEAN
    /\ file \in File \cup {Torn} /\ temp \in File \cup {Torn, NoFile}
    /\ nodes \subseteq Nodes \X BOOLEAN /\ bridges \subseteq Bridges
    /\ objects \in Seq(LinkConfig) /\ table \in Seq(1..Len(objects))
    /\ broken \subseteq 0..Len(objects)
    /\ veths \subseteq {Ends(l) : l \in LinkConfig}
    /\ at \in [Requests -> Positions]
    /\ found \in [Requests -> 0..Len(objects)]
    /\ index \in [Requests -> Nat] /\ seen \in [Requests -> Nat]
    /\ data \in [Requests -> File \cup {Torn}] /\ under \in [Requests -> File \cup {Torn}]
    /\ before \in [Requests -> [nodes : SUBSET (Nodes \X BOOLEAN), links : Seq(LinkConfig),
                                bridges : SUBSET Bridges]]
    /\ answer \in [Requests -> {"none", "ok", "error", "refused"}]
    /\ last \in Seq(Requests) /\ met \subseteq SUBSET Requests

Overlap(r, kinds) ==
    \E q \in Requests \ {r} : {r, q} \in met /\ Kind(q) \in kinds

Held(t) == {t[i] : i \in 1..Len(t)}

(* The file that was loaded first has not the nodes of the link.           *)
Stray(l) ==
    \E s \in Scenarios :
        s.plan = plan /\ ~(Between(l) \subseteq Names(s.file.nodes))

(* Two reloads have overlapped.                                            *)
ReloadsMet ==
    \E q, s \in Requests :
        q # s /\ {q, s} \in met /\ Kind(q) = "reload" /\ Kind(s) = "reload"

(* A reload fills in t.links or t.bridges, or gave up t.bridges half way.  *)
HalfLoaded ==
    \E q \in Requests :
        \/ at[q] \in {"fill", "bridging"}
        \/ Kind(q) = "reload" /\ answer[q] = "error" /\ bridges # {}

DotlessEnds(f) ==
    \/ \E k \in 1..Len(f.links) : Dotless(f.links[k])
    \/ \E b \in f.bridges : \E p \in BridgePeers[b] : PeerIdx[p] = NoIdx

(* A link leaves t.links only by the request that asked for it, or by a    *)
(* reload: but for a delete that overlaps another delete or a reload, and  *)
(* a reload that overlaps a delete, an add or another reload.  The daemon  *)
(* survives, but for                                                       *)
(*   - a request without its messages, or with an end that has no dot;     *)
(*   - an add to nodes that were not in the file or that a reload has      *)
(*     taken away;                                                         *)
(*   - a delete that overlaps another delete or a reload, and a reload     *)
(*     that overlaps a delete or another reload;                           *)
(*   - a file with a type that nothing can create, or an end without a dot;*)
(*   - a request that goes through t.links or t.bridges while a reload     *)
(*     fills them in, after one could not fill in the bridges, or after    *)
(*     two of them overlapped.                                             *)
LinksGoWhenAsked ==
    [][/\ \A k \in Held(table) \ Held(table') :
             \E r \in Requests :
                \/ Kind(r) = "reload" /\ at[r] = "begin" /\ at'[r] = "load"
                \/ /\ at[r] = "load" /\ at'[r] = "fill"
                   /\ Overlap(r, {"add", "reload"})
                \/ /\ at[r] = "fill" /\ at'[r] \in {"bridging", "run"}
                   /\ Overlap(r, {"del", "reload"})
                \/ /\ at[r] = "remove" /\ at'[r] = "sync"
                   /\ \/ k = found[r]
                      \/ Overlap(r, {"del", "reload"})
       /\ daemon' = "panic" =>
             \E r \in Requests :
                /\ at'[r] = "panic"
                /\ \/ at[r] = "begin" /\ Malformed(r)
                   \/ Kind(r) = "add" /\ (epoch > 0 \/ Stray(Link(r)))
                   \/ at[r] \in {"remove", "fill"} /\ Overlap(r, {"del", "reload"})
                   \/ at[r] = "bridging" /\ Overlap(r, {"reload"})
                   \/ at[r] = "load" /\ Names(file.nodes) \cap Odd # {}
                   \/ at[r] \in {"fill", "bridging"} /\ DotlessEnds(data[r])
                   \/ at[r] \in {"begin", "sync", "run"} /\ (HalfLoaded \/ ReloadsMet)]_vars

(* After a synchronised change, with nothing at the same time and no       *)
(* reload that failed before, a reload gives the same nodes, links and QoS *)
(* again, but that IPv6 is on for every node.  The file is refused, and    *)
(* nothing is left, when a link has no rate, which no link has that was    *)
(* added by a request, or when there is a bridge.                          *)
ReloadKeepsLinks ==
    [][\A r \in Requests :
          /\ at[r] \in {"load", "fill"} /\ at'[r] \notin {"load", "fill"}
          /\ met = {} /\ \A q \in Requests : Kind(q) = "reload" => answer[q] # "error"
          /\ last # <<>> /\ Kind(last[Len(last)]) \in {"add", "del", "update"}
          /\ answer[last[Len(last)]] = "ok"
          => /\ answer'[r] = "refused" <=>
                   \/ before[r].bridges # {}
                   \/ \E i \in DOMAIN before[r].links : ~before[r].links[i].rate
             /\ at'[r] = "run" =>
                   /\ nodes' = Names(before[r].nodes) \X {TRUE}
                   /\ Configs' = before[r].links]_vars

(* An edit writes what its user saw in the file, with the user's change,   *)
(* over what was there: unless another edit, or a synchronised change,     *)
(* overlapped it.                                                          *)
EditKeepsTheRest ==
    [][\A r \in Requests :
          at[r] = "write" /\ at'[r] = "cleanup" =>
              \/ file' = Edited(under[r], r)
              \/ Overlap(r, {"edit", "add", "del", "update"})]_vars

=============================================================================
