---------------------------- MODULE HostNetwork ----------------------------
(***************************************************************************)
(* What a topology puts into the namespace of the host: its bridges to     *)
(* interfaces of the host and its management network (server/mgnt.go,      *)
(* server/topology.go, link/link.go), over runs that fail and are tried    *)
(* again, reloads and the close.  One request is served at a time; the     *)
(* goroutines of Run interleave.                                           *)
(*                                                                         *)
(* Every call of netlink switches a thread to the namespace it works in    *)
(* and leaves it there.  GetRootNetns takes the namespace of the main      *)
(* thread for that of the host: the goroutine of a call may have run on it.*)
(* The namespace of a node outlives its container, because setupBridge and *)
(* setupMgntLink never close the handle they have of it.                   *)
(***************************************************************************)
EXTENDS Naturals

CONSTANTS
    MgntNodes,  \* the nodes on the management network
    Bridges, MgntBridge,
    Peers,      \* interfaces of nodes on the bridges
    NodeOf,     \* NodeOf[p]: the node of p
    Layouts,    \* the files: the bridge of each interface, the interface of the
                \* host each bridge has, and whether there is a management network
    Hosts,      \* interfaces of the host
    Root,       \* the namespace of the host
    Other,      \* that of a node of another project
    None,
    MaxLoads, MaxRuns,
    Faults      \* may a call fail for a reason of its own?

ASSUME HostNetworkAssumption ==
    /\ \A f \in Layouts :
          /\ DOMAIN f.host \subseteq Bridges
          /\ \A b \in DOMAIN f.host : f.host[b] \in Hosts
          /\ f.bridge \in [Peers -> DOMAIN f.host \cup {None}]
          /\ f.mgnt \in BOOLEAN
    /\ DOMAIN NodeOf = Peers
    /\ MgntBridge \notin Bridges /\ None \notin Bridges
    /\ MaxLoads \in Nat /\ MaxRuns \in Nat /\ Faults \in BOOLEAN

VARIABLES
    daemon,     \* up, or panic
    pc,         \* where the request in progress is, or what it left
    again,      \* what Reload does after the close
    running,    \* t.running
    layout,     \* the file
    holes,      \* are there entries of t.bridges that are nil?
    made,       \* mNet.Instance is not nil
    mgntNs,     \* mNet.NetNs
    listed,     \* mNet.Interfaces
    seen,       \* seen[n]: that list, as the goroutine of n has read it
    nodeAt,     \* where the goroutine of each node is
    bridgeAt,   \* where the goroutine of each bridge is
    holds,      \* holds[b]: its handle of the root namespace
    todo,       \* todo[b]: the interfaces it has still to connect
    writing,    \* writing[b]: the one it is recording in its node
    known,      \* the interfaces recorded in their nodes
    mainNs,     \* the namespace of the main thread
    devs,       \* bridges and host ends of veth pairs in the kernel
    hostMaster, \* the bridge each interface of the host is attached to
    loads, runs,
    half,       \* history: veth pairs whose set-up failed half way
    lost,       \* history: nodes whose entry in the list was overwritten
    left,       \* history: devices Close looked for and did not delete
    raced       \* history: two goroutines wrote the map of one node

topo   == <<running, layout, holes>>
mgnt   == <<made, mgntNs, listed>>
nodeGo == <<seen, nodeAt>>
brGo   == <<bridgeAt, holds, todo, writing, known>>
kernel == <<mainNs, devs, hostMaster>>
hist   == <<half, lost, left, raced>>
vars == <<daemon, pc, again, topo, mgnt, nodeGo, brGo, kernel, loads, runs, hist>>

-----------------------------------------------------------------------------
(* The kernel.                                                             *)

(* The namespace a node uses since it was loaded.                          *)
Place(n) == <<n, loads>>

FileBridges == DOMAIN layout.host
PeersOf(b) == {p \in Peers : layout.bridge[p] = b}

Device(d, place, master) ==
    [dev |-> d, at |-> place, load |-> loads, master |-> master]

Exists(d, place) == \E x \in devs : x.dev = d /\ x.at = place

(* A veth pair cannot be created if its host end exists, or the end in the *)
(* namespace of the node: that of another pair of this load.               *)
PairExists(i, place) ==
    Exists(i, place) \/ \E x \in devs : x.dev = i /\ x.load = loads

(* The calls of a step are made on the main thread, or on others.          *)
Drift(places) == mainNs' \in {mainNs} \cup places

(* A link that is deleted takes its pair along, a bridge lets its links go.*)
Deleted(S) ==
    LET gone == {<<x.dev, x.at>> : x \in S}
    IN  {[x EXCEPT !.master = IF <<@, x.at>> \in gone THEN None ELSE @] :
             x \in devs \ S}

-----------------------------------------------------------------------------
(* Load.                                                                   *)

Init ==
    /\ layout \in Layouts
    /\ daemon = "up" /\ pc = "load" /\ again = "none"
    /\ running = FALSE /\ holes = FALSE
    /\ made = FALSE /\ mgntNs = Root /\ listed = {}
    /\ seen = [n \in MgntNodes |-> {}]
    /\ nodeAt = [n \in MgntNodes |-> "done"]
    /\ bridgeAt = [b \in Bridges |-> "done"]
    /\ holds = [b \in Bridges |-> Root]
    /\ todo = [b \in Bridges |-> {}]
    /\ writing = [b \in Bridges |-> None]
    /\ known = {}
    /\ mainNs = Root /\ devs = {}
    /\ hostMaster = [h \in Hosts |-> None]
    /\ loads = 1 /\ runs = 0
    /\ half = {} /\ lost = {} /\ left = {} /\ raced = FALSE

(* The handle of the management network is taken at the end of Load.       *)
Load ==
    /\ pc = "load"
    /\ mgntNs' = mainNs
    /\ pc' = IF again = "run" THEN "run" ELSE "loaded"
    /\ again' = "none"
    /\ running' = FALSE
    /\ made' = FALSE /\ listed' = {} /\ known' = {}
    /\ UNCHANGED <<daemon, layout, holes, nodeGo, bridgeAt, holds, todo,
                   writing, kernel, loads, runs, hist>>

(* No identifier is left for a bridge: t.bridges has its length already.   *)
LoadFails ==
    /\ pc = "load" /\ Faults
    /\ holes' = TRUE
    /\ pc' = "broken"
    /\ again' = "none"
    /\ UNCHANGED <<daemon, running, layout, mgnt, nodeGo, brGo, kernel, loads,
                   runs, hist>>

-----------------------------------------------------------------------------
(* Run.                                                                    *)

BeginRun ==
    /\ pc = "loaded" /\ ~running /\ runs < MaxRuns
    /\ runs' = runs + 1
    /\ pc' = "run"
    /\ UNCHANGED <<daemon, again, topo, mgnt, nodeGo, brGo, kernel, loads, hist>>

(* The ovs instance, then the bridge of the management network: created,   *)
(* set up and given its address.                                           *)
CreateMgnt ==
    /\ pc = "run" /\ layout.mgnt
    /\ \/ /\ ~Exists(MgntBridge, mgntNs)
          /\ devs' = devs \cup {Device(MgntBridge, mgntNs, None)}
          /\ made' = TRUE
          /\ \/ /\ pc' = "nodes"
                /\ nodeAt' = [n \in MgntNodes |-> "start"]
             \/ Faults /\ pc' = "loaded" /\ UNCHANGED nodeAt
          /\ Drift({mgntNs})
       \/ /\ Faults \/ Exists(MgntBridge, mgntNs)
          /\ pc' = "loaded" /\ made' = TRUE
          /\ Drift({mgntNs})
          /\ UNCHANGED <<devs, nodeAt>>
       \/ Faults /\ pc' = "loaded" /\ UNCHANGED <<made, mainNs, devs, nodeAt>>
    /\ UNCHANGED <<daemon, again, topo, mgntNs, listed, seen, brGo, hostMaster,
                   loads, runs, hist>>

NoMgnt ==
    /\ pc = "run" /\ ~layout.mgnt
    /\ \/ pc' = "links"
       \/ Faults /\ pc' = "loaded"
    /\ UNCHANGED <<daemon, again, topo, mgnt, nodeGo, brGo, kernel, loads, runs,
                   hist>>

NodeGoes(n, place) == nodeAt' = [nodeAt EXCEPT ![n] = place]

(* The node is started, and its veth pair created and set up.              *)
CreateMgntLink(n) ==
    /\ pc = "nodes" /\ nodeAt[n] = "start"
    /\ \/ /\ Faults \/ PairExists(n, mainNs)
          /\ NodeGoes(n, "failed")
          /\ UNCHANGED <<devs, half>>
       \/ /\ ~PairExists(n, mainNs)
          /\ devs' = devs \cup {Device(n, mainNs, None)}
          /\ \/ NodeGoes(n, "attach") /\ UNCHANGED half
             \/ /\ Faults /\ NodeGoes(n, "failed")
                /\ half' = half \cup {<<n, loads>>}
    /\ Drift({mainNs, Place(n)})
    /\ UNCHANGED <<daemon, pc, again, topo, mgnt, seen, brGo, hostMaster, loads,
                   runs, lost, left, raced>>

(* AttachInterface: the host end is looked up in mNet.NetNs.               *)
AttachMgnt(n) ==
    /\ nodeAt[n] = "attach"
    /\ \/ /\ \E x \in devs :
                /\ x.dev = n /\ x.at = mgntNs
                /\ devs' = (devs \ {x}) \cup {[x EXCEPT !.master = MgntBridge]}
          /\ NodeGoes(n, "read")
          /\ UNCHANGED half
       \/ /\ Faults \/ ~Exists(n, mgntNs)
          /\ NodeGoes(n, "failed")
          /\ half' = half \cup {<<n, loads>>}
          /\ UNCHANGED devs
    /\ Drift({mgntNs})
    /\ UNCHANGED <<daemon, pc, again, topo, mgnt, seen, brGo, hostMaster, loads,
                   runs, lost, left, raced>>

ReadList(n) ==
    /\ nodeAt[n] = "read"
    /\ seen' = [seen EXCEPT ![n] = listed]
    /\ NodeGoes(n, "append")
    /\ UNCHANGED <<daemon, pc, again, topo, mgnt, brGo, kernel, loads, runs, hist>>

(* The list is written, and the node gives its end an address; that it     *)
(* could not is not told.                                                  *)
AppendToList(n) ==
    /\ nodeAt[n] = "append"
    /\ listed' = seen[n] \cup {n}
    /\ lost' = lost \cup {<<m, loads>> : m \in listed \ seen[n]}
    /\ NodeGoes(n, "done") /\ seen' = [seen EXCEPT ![n] = {}]
    /\ Drift({Place(n)})
    /\ UNCHANGED <<daemon, pc, again, topo, made, mgntNs, brGo, devs,
                   hostMaster, loads, runs, half, left, raced>>

WaitNodes ==
    /\ pc = "nodes"
    /\ \A n \in MgntNodes : nodeAt[n] \in {"done", "failed"}
    /\ pc' = IF \E n \in MgntNodes : nodeAt[n] = "failed" THEN "loaded"
                                                          ELSE "links"
    /\ nodeAt' = [n \in MgntNodes |-> "done"]
    /\ UNCHANGED <<daemon, again, topo, mgnt, seen, brGo, kernel, loads, runs,
                   hist>>

(* The links between the nodes are made in their namespaces.               *)
SetupLinks ==
    /\ pc = "links"
    /\ Drift({Place(n) : n \in MgntNodes})
    /\ \/ /\ pc' = "bridges"
          /\ bridgeAt' = [b \in Bridges |-> IF b \in FileBridges THEN "start"
                                                      ELSE "done"]
          /\ todo' = [b \in Bridges |-> PeersOf(b)]
       \/ Faults /\ pc' = "loaded" /\ UNCHANGED <<bridgeAt, todo>>
    /\ UNCHANGED <<daemon, again, topo, mgnt, nodeGo, holds, writing, known, devs,
                   hostMaster, loads, runs, hist>>

(* setupBridge: the bridge, then the interface of the host, which can only *)
(* be found from the namespace of the host.                                *)
CreateBridge(b) ==
    /\ pc = "bridges" /\ bridgeAt[b] = "start"
    /\ holds' = [holds EXCEPT ![b] = mainNs]
    /\ \/ /\ ~Exists(b, mainNs)
          /\ devs' = devs \cup {Device(b, mainNs, None)}
          /\ \/ /\ mainNs = Root
                /\ hostMaster' = [hostMaster EXCEPT ![layout.host[b]] = b]
                /\ bridgeAt' = [bridgeAt EXCEPT ![b] = "connect"]
             \/ /\ Faults \/ mainNs # Root
                /\ bridgeAt' = [bridgeAt EXCEPT ![b] = "failed"]
                /\ UNCHANGED hostMaster
       \/ /\ Faults \/ Exists(b, mainNs)
          /\ bridgeAt' = [bridgeAt EXCEPT ![b] = "failed"]
          /\ UNCHANGED <<devs, hostMaster>>
    /\ UNCHANGED <<daemon, pc, again, topo, mgnt, nodeGo, todo, writing, known,
                   mainNs, loads, runs, hist>>

ConnectPeer(b, p) ==
    /\ bridgeAt[b] = "connect" /\ p \in todo[b]
    /\ \/ /\ ~PairExists(p, holds[b])
          /\ devs' = devs \cup {Device(p, holds[b], b)}
          /\ bridgeAt' = [bridgeAt EXCEPT ![b] = "record"]
          /\ writing' = [writing EXCEPT ![b] = p]
       \/ /\ Faults \/ PairExists(p, holds[b])
          /\ devs' \in {devs} \cup
                (IF PairExists(p, holds[b]) THEN {}
                 ELSE {devs \cup {Device(p, holds[b], None)}})
          /\ bridgeAt' = [bridgeAt EXCEPT ![b] = "failed"]
          /\ UNCHANGED writing
    /\ Drift({holds[b], Place(NodeOf[p])})
    /\ UNCHANGED <<daemon, pc, again, topo, mgnt, nodeGo, holds, todo, known,
                   hostMaster, loads, runs, hist>>

(* The node records the interface in a map.  Two goroutines that write one *)
(* map at once are a fatal error of the runtime, if it notices: otherwise  *)
(* an entry may be missing.                                                *)
Racing(b) ==
    \E c \in Bridges \ {b} :
        /\ bridgeAt[c] = "record"
        /\ NodeOf[writing[c]] = NodeOf[writing[b]]

Recorded(b) ==
    /\ bridgeAt' = [bridgeAt EXCEPT ![b] = "connect"]
    /\ todo' = [todo EXCEPT ![b] = @ \ {writing[b]}]
    /\ writing' = [writing EXCEPT ![b] = None]

RecordPeer(b) ==
    /\ bridgeAt[b] = "record" /\ ~Racing(b)
    /\ known' = known \cup {writing[b]}
    /\ Recorded(b)
    /\ UNCHANGED <<daemon, pc, again, topo, mgnt, nodeGo, holds, kernel, loads,
                   runs, hist>>

RecordAtOnce(b) ==
    /\ bridgeAt[b] = "record" /\ Racing(b)
    /\ \/ daemon' = "panic" /\ UNCHANGED known
       \/ known' \in {known, known \cup {writing[b]}} /\ UNCHANGED daemon
    /\ Recorded(b)
    /\ raced' = TRUE
    /\ UNCHANGED <<pc, again, topo, mgnt, nodeGo, holds, kernel, loads, runs,
                   half, lost, left>>

BridgeDone(b) == bridgeAt[b] = "connect" /\ todo[b] = {}

(* What is local to the goroutines goes with them.                         *)
EndBridges ==
    /\ bridgeAt' = [b \in Bridges |-> "done"]
    /\ holds' = [b \in Bridges |-> Root]
    /\ todo' = [b \in Bridges |-> {}]

(* A mistaken variant: errors of the bridges are dropped.                  *)
WaitBridgesRegardless ==
    /\ pc = "bridges"
    /\ \A b \in FileBridges : BridgeDone(b) \/ bridgeAt[b] = "failed"
    /\ pc' = "loaded" /\ running' = TRUE
    /\ EndBridges
    /\ UNCHANGED <<daemon, again, layout, holes, mgnt, nodeGo, writing, known,
                   kernel, loads, runs, hist>>

(* The configurations are loaded next, which may fail.                     *)
WaitBridges ==
    /\ pc = "bridges"
    /\ \A b \in FileBridges : BridgeDone(b) \/ bridgeAt[b] = "failed"
    /\ pc' = "loaded"
    /\ \/ (\A b \in FileBridges : BridgeDone(b)) /\ running' = TRUE
       \/ /\ Faults \/ \E b \in FileBridges : bridgeAt[b] = "failed"
          /\ UNCHANGED running
    /\ EndBridges
    /\ UNCHANGED <<daemon, again, layout, holes, mgnt, nodeGo, writing, known,
                   kernel, loads, runs, hist>>

-----------------------------------------------------------------------------
(* Close and Reload.                                                       *)

BeginClose ==
    /\ pc \in {"loaded", "broken"}
    /\ again' \in {"none"} \cup
          (IF loads < MaxLoads THEN {IF running THEN "run" ELSE "load"} ELSE {})
    /\ pc' = "close"
    /\ UNCHANGED <<daemon, topo, mgnt, nodeGo, brGo, kernel, loads, runs, hist>>

(* What is looked for in a namespace, and not found or not deleted.  Of    *)
(* the calls, one at most fails of its own.                                *)
Delete(wanted, place) ==
    \E stay \in {{}} \cup (IF Faults THEN {{d} : d \in wanted} ELSE {}) :
        LET here == {x \in devs : x.dev \in wanted \ stay /\ x.at = place}
        IN  /\ devs' = Deleted(here)
            /\ left' = left \cup
                  {<<x.dev, x.load>> : x \in {y \in devs : y.dev \in wanted} \ here}

(* All the bridges and the host ends of their interfaces.                  *)
CloseBridges ==
    /\ pc = "close" /\ ~holes
    /\ Delete(FileBridges \cup UNION {PeersOf(b) : b \in FileBridges}, mainNs)
    /\ hostMaster' = [h \in Hosts |->
          IF \E x \in devs' : x.dev = hostMaster[h] /\ x.at = Root
          THEN hostMaster[h] ELSE None]
    /\ pc' = "closeMgnt"
    /\ UNCHANGED <<daemon, again, topo, mgnt, nodeGo, brGo, mainNs, loads, runs,
                   half, lost, raced>>

CloseHoles ==
    /\ pc = "close" /\ holes
    /\ daemon' = "panic"
    /\ UNCHANGED <<pc, again, topo, mgnt, nodeGo, brGo, kernel, loads, runs, hist>>

(* A mistaken variant: the bridge of the management network is deleted,    *)
(* not what is on it.                                                      *)
CloseMgntAlone ==
    /\ pc = "closeMgnt"
    /\ Delete(IF made THEN {MgntBridge} ELSE {}, mgntNs)
    /\ listed' = {}
    /\ pc' = IF again = "none" THEN "closed" ELSE "load"
    /\ loads' = IF again = "none" THEN loads ELSE loads + 1
    /\ Drift({mgntNs})
    /\ UNCHANGED <<daemon, again, topo, made, mgntNs, nodeGo, brGo, hostMaster,
                   runs, half, lost, raced>>

(* The interfaces in the list, and the bridge.                             *)
CloseMgnt ==
    /\ pc = "closeMgnt"
    /\ Delete(listed \cup (IF made THEN {MgntBridge} ELSE {}), mgntNs)
    /\ listed' = {}
    /\ pc' = IF again = "none" THEN "closed" ELSE "load"
    /\ loads' = IF again = "none" THEN loads ELSE loads + 1
    /\ Drift({mgntNs})
    /\ UNCHANGED <<daemon, again, topo, made, mgntNs, nodeGo, brGo, hostMaster,
                   runs, half, lost, raced>>

-----------------------------------------------------------------------------
(* The requests of other projects use the same threads.                    *)
OtherProjects ==
    /\ mainNs' \in {Root, Other}
    /\ UNCHANGED <<daemon, pc, again, topo, mgnt, nodeGo, brGo, devs, hostMaster,
                   loads, runs, hist>>

Next ==
    /\ daemon = "up"
    /\ \/ Load \/ LoadFails
       \/ BeginRun \/ CreateMgnt \/ NoMgnt \/ WaitNodes \/ SetupLinks
       \/ \E n \in MgntNodes :
             CreateMgntLink(n) \/ AttachMgnt(n) \/ ReadList(n) \/ AppendToList(n)
       \/ \E b \in Bridges :
             \/ CreateBridge(b) \/ RecordPeer(b) \/ RecordAtOnce(b)
             \/ \E p \in Peers : ConnectPeer(b, p)
       \/ WaitBridges
       \/ BeginClose \/ CloseBridges \/ CloseHoles \/ CloseMgnt
       \/ OtherProjects

Spec == Init /\ [][Next]_vars

-----------------------------------------------------------------------------
(* Properties.                                                             *)

HasMaster(d, place, master) ==
    \E x \in devs : x.dev = d /\ x.at = place /\ x.load = loads
                     /\ x.master = master

LeftOver(d, place, master) ==
    \E x \in devs : x.dev = d /\ x.at = place /\ x.load < loads
                     /\ x.master = master

(* When Run has succeeded, each bridge is on the host with its interface   *)
(* and those of the nodes, and each node is on the management network and  *)
(* in its list, wherever the main thread went and whatever failed runs     *)
(* left.  Except that an interface of the host is on one bridge only, that *)
(* a lost entry is missing, that the management network may be in the      *)
(* namespace of some node, where Load found the main thread, and that a    *)
(* link left there by an earlier load may be taken for that of the node.   *)
RunConnects ==
    running /\ pc = "loaded" =>
        /\ \A b \in FileBridges :
              /\ HasMaster(b, Root, None)
              /\ \/ hostMaster[layout.host[b]] = b
                 \/ \E c \in FileBridges \ {b} : layout.host[c] = layout.host[b]
              /\ \A p \in PeersOf(b) : /\ HasMaster(p, Root, b)
                                       /\ p \in known \/ raced
        /\ layout.mgnt =>
              \A n \in MgntNodes :
                  /\ \/ HasMaster(n, mgntNs, MgntBridge)
                     \/ LeftOver(n, mgntNs, MgntBridge)
                  /\ n \in listed \/ <<n, loads>> \in lost

(* Nothing of a closed topology stays in the namespace of the host, but    *)
(* what Close looked for and did not delete, and a link to the management  *)
(* network whose set-up failed half way or whose entry was lost.           *)
HostIsLeftClean ==
    pc \in {"closed", "load"} =>
        \A x \in devs :
            x.at = Root => <<x.dev, x.load>> \in left \cup half \cup lost

=============================================================================
