-------------------------- MODULE HostNetwork_proofs --------------------------
(***************************************************************************)
(* Proofs about what Run makes in the kernel: HostNetwork, for any nodes,  *)
(* bridges, interfaces and files, any number of loads and runs, and any    *)
(* faults; and in the last part LinkQoS, for any files, updates, number of *)
(* moves and faults.  The two models share no state.                       *)
(***************************************************************************)
EXTENDS HostNetwork, LinkQoS, TLAPS

-----------------------------------------------------------------------------
(* Types.                                                                   *)

Names   == MgntNodes \cup Bridges \cup Peers \cup {MgntBridge}
Spaces  == {Root, Other} \cup ((MgntNodes \cup {NodeOf[p] : p \in Peers}) \X Nat)
Masters == Bridges \cup {MgntBridge, None}
Devices == [dev : Names, at : Spaces, load : Nat, master : Masters]

TypesOK ==
    /\ layout \in Layouts /\ running \in BOOLEAN /\ made \in BOOLEAN
    /\ listed \subseteq MgntNodes
    /\ seen \in [MgntNodes -> SUBSET MgntNodes]
    /\ nodeAt \in [MgntNodes -> {"start", "attach", "read", "append", "done", "failed"}]
    /\ bridgeAt \in [Bridges -> {"start", "connect", "record", "done", "failed"}]
    /\ holds \in [Bridges -> Spaces]
    /\ todo \in [Bridges -> SUBSET Peers]
    /\ writing \in [Bridges -> Peers \cup {None}]
    /\ known \subseteq Peers
    /\ mainNs \in Spaces /\ mgntNs \in Spaces
    /\ devs \subseteq Devices /\ \A x \in devs : x.load <= loads
    /\ hostMaster \in [Hosts -> Bridges \cup {None}]
    /\ loads \in Nat /\ raced \in BOOLEAN
    /\ \A b \in Bridges : bridgeAt[b] = "record" => writing[b] \in Peers

-----------------------------------------------------------------------------
(* What is in the kernel is accounted for.                                  *)

\* Outside of the stage of Run that starts them, the goroutines are done.
GoroutinesEnd ==
    /\ pc # "nodes" => \A n \in MgntNodes : nodeAt[n] = "done"
    /\ pc # "bridges" => \A b \in Bridges : bridgeAt[b] = "done"
    /\ \A b \in Bridges \ FileBridges : bridgeAt[b] = "done"

\* A bridge has only interfaces of the file left to connect.
TodoOfFile == \A b \in Bridges : todo[b] \subseteq PeersOf(b)

\* What CloseBridges looks for.
OfBridges == FileBridges \cup UNION {PeersOf(b) : b \in FileBridges}

\* CloseMgnt will look for it: it is in the list or about to be.
OfMgnt(d) ==
    \/ d \in listed
    \/ d = MgntBridge /\ made
    \/ d \in MgntNodes /\ nodeAt[d] \in {"attach", "read", "append"}

\* Close will look for device x, or has given it up.
Accounted(x) ==
    \/ <<x.dev, x.load>> \in left \cup half \cup lost
    \/ /\ x.load = loads /\ x.dev \in OfBridges
       /\ pc \notin {"closeMgnt", "load", "closed"}
    \/ x.load = loads /\ OfMgnt(x.dev) /\ pc \notin {"load", "closed"}

HostInv == TypesOK /\ GoroutinesEnd /\ TodoOfFile /\ \A x \in devs : Accounted(x)

-----------------------------------------------------------------------------
(* What Run has made.                                                       *)

\* The node is on the management network; it is in the list.
OnMgnt(n) ==
    HasMaster(n, mgntNs, MgntBridge) \/ LeftOver(n, mgntNs, MgntBridge)
InList(n) == n \in listed \/ <<n, loads>> \in lost

MgntMade == layout.mgnt => \A n \in MgntNodes : OnMgnt(n) /\ InList(n)

\* Bridge b is on the host with its interface, and the interfaces of P are on it.
BridgeMade(b, P) ==
    /\ HasMaster(b, Root, None)
    /\ \/ hostMaster[layout.host[b]] = b
       \/ \E c \in FileBridges \ {b} : layout.host[c] = layout.host[b]
    /\ \A p \in P : HasMaster(p, Root, b) /\ (p \in known \/ raced)

\* The goroutine of b has all to do before it begins; it works in the namespace
\* of the host if it found its interface there; what it has to do no more is done.
BridgeGoes(b) ==
    /\ bridgeAt[b] = "start" => todo[b] = PeersOf(b)
    /\ bridgeAt[b] \in {"connect", "record"} =>
            /\ holds[b] = Root /\ BridgeMade(b, PeersOf(b) \ todo[b])
            /\ bridgeAt[b] = "record" => HasMaster(writing[b], Root, b)

RunInv ==
    /\ pc \in {"run", "nodes", "links", "bridges"} => ~running
    /\ pc = "nodes" => \A n \in MgntNodes :
            /\ nodeAt[n] \in {"read", "append", "done"} => OnMgnt(n)
            /\ nodeAt[n] = "done" => InList(n)
    /\ pc \in {"links", "bridges"} => MgntMade
    /\ pc = "bridges" => \A b \in FileBridges : BridgeGoes(b)
    /\ pc = "loaded" /\ running =>
            MgntMade /\ \A b \in FileBridges : BridgeMade(b, PeersOf(b))

-----------------------------------------------------------------------------
(* The kernel.                                                              *)

\* The file names bridges of the topology, interfaces of nodes and of the host.
LEMMA LayoutFacts ==
    ASSUME TypesOK
    PROVE  /\ FileBridges \subseteq Bridges
           /\ \A b : PeersOf(b) \subseteq Peers
           /\ \A b \in FileBridges : layout.host[b] \in Hosts
           /\ OfBridges \subseteq Names
<1>1. FileBridges \subseteq Bridges /\ \A b \in FileBridges : layout.host[b] \in Hosts
  BY HostNetworkAssumption DEF TypesOK, FileBridges
<1>2. \A b : PeersOf(b) \subseteq Peers
  BY DEF PeersOf
<1> QED  BY <1>1, <1>2 DEF OfBridges, Names

\* A device that is made has the type of one, and belongs to the present load.
LEMMA DeviceType ==
    ASSUME TypesOK, NEW d \in Names, NEW place \in Spaces, NEW m \in Masters
    PROVE  /\ Device(d, place, m) \in Devices
           /\ Device(d, place, m).dev = d /\ Device(d, place, m).at = place
           /\ Device(d, place, m).load = loads /\ Device(d, place, m).master = m
BY DEF TypesOK, Devices, Device

\* What the deletion of S leaves are the other devices, some without a master.
LEMMA DeletedKeeps ==
    ASSUME NEW S, NEW y \in Deleted(S), devs \subseteq Devices
    PROVE  /\ y \in Devices
           /\ \E x \in devs \ S : y.dev = x.dev /\ y.at = x.at /\ y.load = x.load
<1> DEFINE Gone == {<<x.dev, x.at>> : x \in S}
           After(x) == [x EXCEPT !.master = IF <<x.master, x.at>> \in Gone
                                            THEN None ELSE x.master]
<1>1. PICK x \in devs \ S : y = After(x)
  BY DEF Deleted
<1>2. x \in Devices
  BY <1>1
<1>3. None \in Masters
  BY DEF Masters
<1>4. \A m \in Masters : LET z == [x EXCEPT !.master = m]
                         IN  z \in Devices /\ z.dev = x.dev /\ z.at = x.at /\ z.load = x.load
  BY <1>2 DEF Devices
<1>5. (IF <<x.master, x.at>> \in Gone THEN None ELSE x.master) \in Masters
  BY <1>2, <1>3 DEF Devices
<1> HIDE DEF Gone
<1>6. y \in Devices /\ y.dev = x.dev /\ y.at = x.at /\ y.load = x.load
  BY <1>1, <1>4, <1>5
<1> QED  BY <1>1, <1>6

\* What Close looks for is gone or given up; nothing else is.
LEMMA DeleteAccounts ==
    ASSUME devs \subseteq Devices, NEW wanted, NEW place, Delete(wanted, place)
    PROVE  /\ left \subseteq left'
           /\ devs' \subseteq Devices
           /\ \A y \in devs' : \E x \in devs :
                 /\ y.dev = x.dev /\ y.load = x.load
                 /\ x.dev \in wanted => <<x.dev, x.load>> \in left'
<1>1. PICK stay : LET here == {x \in devs : x.dev \in wanted \ stay /\ x.at = place}
                  IN  /\ devs' = Deleted(here)
                      /\ left' = left \cup
                            {<<x.dev, x.load>> : x \in {y \in devs : y.dev \in wanted} \ here}
  BY DEF Delete
<1> DEFINE here == {x \in devs : x.dev \in wanted \ stay /\ x.at = place}
<1>2. devs' = Deleted(here)
  BY <1>1
<1>3. left' = left \cup {<<x.dev, x.load>> : x \in {y \in devs : y.dev \in wanted} \ here}
  BY <1>1
<1> HIDE DEF here
<1>4. ASSUME NEW y \in devs'
      PROVE  /\ y \in Devices
             /\ \E x \in devs : /\ y.dev = x.dev /\ y.load = x.load
                                /\ x.dev \in wanted => <<x.dev, x.load>> \in left'
  <2>1. y \in Devices /\ \E x \in devs \ here : y.dev = x.dev /\ y.at = x.at /\ y.load = x.load
    BY <1>2, <1>4, DeletedKeeps
  <2>2. PICK x \in devs \ here : y.dev = x.dev /\ y.load = x.load
    BY <2>1
  <2>3. x.dev \in wanted => <<x.dev, x.load>> \in left'
    BY <1>3, <2>2
  <2> QED  BY <2>1, <2>2, <2>3
<1> QED  BY <1>3, <1>4

-----------------------------------------------------------------------------
(* Type correctness.                                                        *)

\* The variables have their types to begin with.
LEMMA InitTypes == Init => TypesOK
<1> SUFFICES ASSUME Init PROVE TypesOK
  OBVIOUS
<1>1. /\ seen \in [MgntNodes -> SUBSET MgntNodes]
      /\ nodeAt \in [MgntNodes -> {"start", "attach", "read", "append", "done", "failed"}]
  BY DEF Init
<1>2. /\ bridgeAt \in [Bridges -> {"start", "connect", "record", "done", "failed"}]
      /\ holds \in [Bridges -> Spaces] /\ todo \in [Bridges -> SUBSET Peers]
      /\ writing \in [Bridges -> Peers \cup {None}]
      /\ \A b \in Bridges : bridgeAt[b] # "record"
  BY DEF Init, Spaces
<1>3. /\ mainNs \in Spaces /\ mgntNs \in Spaces /\ devs = {} /\ loads = 1
      /\ hostMaster \in [Hosts -> Bridges \cup {None}]
  BY DEF Init, Spaces
<1>4. /\ layout \in Layouts /\ running = FALSE /\ made = FALSE
      /\ listed = {} /\ known = {} /\ raced = FALSE
  BY DEF Init
<1>5. \A x \in devs : x.load <= loads
  BY <1>3
<1> QED  BY <1>1, <1>2, <1>3, <1>4, <1>5 DEF TypesOK

\* A thread that makes calls ends in a namespace.
LEMMA DriftType ==
    ASSUME mainNs \in Spaces, NEW places, places \subseteq Spaces, Drift(places)
    PROVE  mainNs' \in Spaces
BY DEF Drift

\* The namespaces of the nodes of this load.
LEMMA Places ==
    ASSUME loads \in Nat
    PROVE  /\ \A n \in MgntNodes : Place(n) \in Spaces
           /\ \A p \in Peers : Place(NodeOf[p]) \in Spaces
BY DEF Place, Spaces

\* One step per action.
LEMMA TypesStep == TypesOK /\ [Next]_vars => TypesOK'
<1> SUFFICES ASSUME TypesOK, [Next]_vars PROVE TypesOK'
  OBVIOUS
<1>l. /\ FileBridges \subseteq Bridges /\ \A b : PeersOf(b) \subseteq Peers
      /\ \A b \in FileBridges : layout.host[b] \in Hosts
  BY LayoutFacts
<1>p. /\ \A n \in MgntNodes : Place(n) \in Spaces
      /\ \A p \in Peers : Place(NodeOf[p]) \in Spaces
  BY Places DEF TypesOK
<1>s. /\ Root \in Spaces /\ Other \in Spaces /\ None \in Masters /\ MgntBridge \in Masters
      /\ MgntBridge \in Names /\ MgntNodes \subseteq Names /\ Bridges \subseteq Names
      /\ Peers \subseteq Names /\ Bridges \subseteq Masters
  BY DEF Spaces, Masters, Names
\* A device is added to those of the kernel.
<1>d. ASSUME NEW d \in Names, NEW place \in Spaces, NEW m \in Masters,
             devs' = devs \cup {Device(d, place, m)}, loads' = loads
      PROVE  devs' \subseteq Devices /\ \A x \in devs' : x.load <= loads'
  <2>1. Device(d, place, m) \in Devices /\ Device(d, place, m).load = loads
    BY DeviceType
  <2> QED  BY <1>d, <2>1 DEF TypesOK
<1> USE DEF topo, mgnt, nodeGo, brGo, kernel, hist
<1>1. CASE Load
  BY <1>1 DEF Load, TypesOK
<1>2. CASE LoadFails \/ BeginRun \/ NoMgnt \/ BeginClose \/ CloseHoles
  BY <1>2 DEF LoadFails, BeginRun, NoMgnt, BeginClose, CloseHoles, TypesOK
<1>3. CASE CreateMgnt
  <2>1. devs' \subseteq Devices /\ \A x \in devs' : x.load <= loads'
    <3>1. devs' = devs \/ devs' = devs \cup {Device(MgntBridge, mgntNs, None)}
      BY <1>3 DEF CreateMgnt
    <3>2. loads' = loads
      BY <1>3 DEF CreateMgnt
    <3> QED  BY <1>s, <1>d, <3>1, <3>2 DEF TypesOK
  <2>2. mainNs' \in Spaces
    BY <1>3 DEF CreateMgnt, Drift, TypesOK
  <2> QED  BY <1>3, <2>1, <2>2 DEF CreateMgnt, TypesOK
<1>4. ASSUME NEW n \in MgntNodes, CreateMgntLink(n) PROVE TypesOK'
  <2>1. devs' \subseteq Devices /\ \A x \in devs' : x.load <= loads'
    <3>1. devs' = devs \/ devs' = devs \cup {Device(n, mainNs, None)}
      BY <1>4 DEF CreateMgntLink
    <3>2. loads' = loads
      BY <1>4 DEF CreateMgntLink
    <3> QED  BY <1>s, <1>d, <3>1, <3>2 DEF TypesOK
  <2>2. mainNs' \in Spaces
    BY <1>4, <1>p DEF CreateMgntLink, Drift, TypesOK
  <2>3. nodeAt' \in [MgntNodes -> {"start", "attach", "read", "append", "done", "failed"}]
    BY <1>4 DEF CreateMgntLink, NodeGoes, TypesOK
  <2> QED  BY <1>4, <2>1, <2>2, <2>3 DEF CreateMgntLink, TypesOK
<1>5. ASSUME NEW n \in MgntNodes, AttachMgnt(n) PROVE TypesOK'
  <2>1. devs' \subseteq Devices /\ \A x \in devs' : x.load <= loads
    <3>1. CASE devs' = devs
      BY <3>1 DEF TypesOK
    <3>2. ASSUME NEW x \in devs, devs' = (devs \ {x}) \cup {[x EXCEPT !.master = MgntBridge]}
          PROVE  devs' \subseteq Devices /\ \A y \in devs' : y.load <= loads
      <4>1. x \in Devices /\ x.load <= loads
        BY DEF TypesOK
      <4>2. LET z == [x EXCEPT !.master = MgntBridge] IN z \in Devices /\ z.load = x.load
        BY <1>s, <4>1 DEF Devices
      <4> QED  BY <3>2, <4>1, <4>2 DEF TypesOK
    <3> QED  BY <1>5, <3>1, <3>2 DEF AttachMgnt
  <2>2. mainNs' \in Spaces /\ loads' = loads
    BY <1>5 DEF AttachMgnt, Drift, TypesOK
  <2>3. nodeAt' \in [MgntNodes -> {"start", "attach", "read", "append", "done", "failed"}]
    BY <1>5 DEF AttachMgnt, NodeGoes, TypesOK
  <2> QED  BY <1>5, <2>1, <2>2, <2>3 DEF AttachMgnt, TypesOK
<1>6. ASSUME NEW n \in MgntNodes, ReadList(n) PROVE TypesOK'
  BY <1>6 DEF ReadList, NodeGoes, TypesOK
<1>7. ASSUME NEW n \in MgntNodes, AppendToList(n) PROVE TypesOK'
  <2>1. mainNs' \in Spaces
    BY <1>7, <1>p DEF AppendToList, Drift, TypesOK
  <2>2. listed' \subseteq MgntNodes /\ seen' \in [MgntNodes -> SUBSET MgntNodes]
    BY <1>7 DEF AppendToList, TypesOK
  <2>3. nodeAt' \in [MgntNodes -> {"start", "attach", "read", "append", "done", "failed"}]
    BY <1>7 DEF AppendToList, NodeGoes, TypesOK
  <2> QED  BY <1>7, <2>1, <2>2, <2>3 DEF AppendToList, TypesOK
<1>8. CASE WaitNodes
  BY <1>8 DEF WaitNodes, TypesOK
<1>9. CASE SetupLinks
  <2>1. mainNs' \in Spaces
    BY <1>9, <1>p DEF SetupLinks, Drift, TypesOK
  <2>2. bridgeAt' \in [Bridges -> {"start", "connect", "record", "done", "failed"}]
    BY <1>9 DEF SetupLinks, TypesOK
  <2>3. todo' \in [Bridges -> SUBSET Peers]
    BY <1>9, <1>l DEF SetupLinks, TypesOK
  <2>4. \A b \in Bridges : bridgeAt'[b] = "record" => writing'[b] \in Peers
    BY <1>9 DEF SetupLinks, TypesOK
  <2> QED  BY <1>9, <2>1, <2>2, <2>3, <2>4 DEF SetupLinks, TypesOK
<1>10. ASSUME NEW b \in Bridges, CreateBridge(b) PROVE TypesOK'
  <2>1. devs' \subseteq Devices /\ \A x \in devs' : x.load <= loads'
    <3>1. devs' = devs \/ devs' = devs \cup {Device(b, mainNs, None)}
      BY <1>10 DEF CreateBridge
    <3>2. loads' = loads
      BY <1>10 DEF CreateBridge
    <3> QED  BY <1>s, <1>d, <3>1, <3>2 DEF TypesOK
  <2>2. /\ bridgeAt' \in [Bridges -> {"start", "connect", "record", "done", "failed"}]
        /\ holds' \in [Bridges -> Spaces]
        /\ hostMaster' \in [Hosts -> Bridges \cup {None}]
        /\ \A c \in Bridges : bridgeAt'[c] = "record" => bridgeAt[c] = "record"
    BY <1>10 DEF CreateBridge, TypesOK
  <2> QED  BY <1>10, <2>1, <2>2 DEF CreateBridge, TypesOK
<1>11. ASSUME NEW b \in Bridges, NEW p \in Peers, ConnectPeer(b, p) PROVE TypesOK'
  <2>1. devs' \subseteq Devices /\ \A x \in devs' : x.load <= loads'
    <3>1. \/ devs' = devs \/ devs' = devs \cup {Device(p, holds[b], b)}
          \/ devs' = devs \cup {Device(p, holds[b], None)}
      BY <1>11 DEF ConnectPeer
    <3>2. loads' = loads /\ holds[b] \in Spaces
      BY <1>11 DEF ConnectPeer, TypesOK
    <3> QED  BY <1>s, <1>d, <3>1, <3>2 DEF TypesOK
  <2>2. mainNs' \in Spaces
    <3>1. {holds[b], Place(NodeOf[p])} \subseteq Spaces
      BY <1>p DEF TypesOK
    <3> QED  BY <1>11, <3>1, DriftType DEF ConnectPeer, TypesOK
  <2>3. /\ bridgeAt' \in [Bridges -> {"start", "connect", "record", "done", "failed"}]
        /\ writing' \in [Bridges -> Peers \cup {None}]
        /\ \A c \in Bridges : bridgeAt'[c] = "record" => writing'[c] \in Peers
    BY <1>11 DEF ConnectPeer, TypesOK
  <2> QED  BY <1>11, <2>1, <2>2, <2>3 DEF ConnectPeer, TypesOK
<1>12. ASSUME NEW b \in Bridges, RecordPeer(b) \/ RecordAtOnce(b) PROVE TypesOK'
  <2>1. bridgeAt[b] = "record" /\ writing[b] \in Peers /\ Recorded(b)
    BY <1>12 DEF RecordPeer, RecordAtOnce, TypesOK
  <2>2. /\ bridgeAt' \in [Bridges -> {"start", "connect", "record", "done", "failed"}]
        /\ writing' \in [Bridges -> Peers \cup {None}]
        /\ todo' \in [Bridges -> SUBSET Peers]
        /\ \A c \in Bridges : bridgeAt'[c] = "record" => writing'[c] \in Peers
    BY <2>1 DEF Recorded, TypesOK
  <2>3. known' \subseteq Peers /\ raced' \in BOOLEAN
    BY <1>12, <2>1 DEF RecordPeer, RecordAtOnce, TypesOK
  <2> QED  BY <1>12, <2>2, <2>3 DEF RecordPeer, RecordAtOnce, TypesOK
<1>13. CASE WaitBridges
  <2>1. /\ bridgeAt' \in [Bridges -> {"start", "connect", "record", "done", "failed"}]
        /\ holds' \in [Bridges -> Spaces] /\ todo' \in [Bridges -> SUBSET Peers]
        /\ \A b \in Bridges : bridgeAt'[b] # "record"
    BY <1>13, <1>s DEF WaitBridges, EndBridges, TypesOK
  <2> QED  BY <1>13, <2>1 DEF WaitBridges, TypesOK
<1>14. CASE CloseBridges
  <2>1. \E wanted : Delete(wanted, mainNs)
    BY <1>14 DEF CloseBridges
  <2>2. devs' \subseteq Devices /\ \A y \in devs' : \E x \in devs : y.load = x.load
    BY <2>1, DeleteAccounts DEF TypesOK
  <2>3. hostMaster' \in [Hosts -> Bridges \cup {None}]
    <3>1. hostMaster' = [h \in Hosts |->
            IF \E x \in devs' : x.dev = hostMaster[h] /\ x.at = Root
            THEN hostMaster[h] ELSE None]
      BY <1>14 DEF CloseBridges
    <3> QED  BY <3>1 DEF TypesOK
  <2> QED  BY <1>14, <2>2, <2>3 DEF CloseBridges, TypesOK
<1>15. CASE CloseMgnt
  <2>1. \E wanted : Delete(wanted, mgntNs)
    BY <1>15 DEF CloseMgnt
  <2>2. devs' \subseteq Devices /\ \A y \in devs' : \E x \in devs : y.load = x.load
    BY <2>1, DeleteAccounts DEF TypesOK
  <2>3. loads' \in Nat /\ loads <= loads'
    BY <1>15 DEF CloseMgnt, TypesOK
  <2>4. \A y \in devs' : y.load <= loads'
    BY <2>2, <2>3 DEF TypesOK, Devices
  <2>5. mainNs' \in Spaces
    BY <1>15 DEF CloseMgnt, Drift, TypesOK
  <2> QED  BY <1>15, <2>2, <2>3, <2>4, <2>5 DEF CloseMgnt, TypesOK
<1>16. CASE OtherProjects
  BY <1>16, <1>s DEF OtherProjects, TypesOK
<1>17. CASE UNCHANGED vars
  BY <1>17 DEF vars, TypesOK
<1> QED
  BY <1>1, <1>2, <1>3, <1>4, <1>5, <1>6, <1>7, <1>8, <1>9, <1>10, <1>11, <1>12, <1>13, <1>14,
     <1>15, <1>16, <1>17
  DEF Next

-----------------------------------------------------------------------------
(* Everything is accounted for.                                             *)

\* The file does not change.
LEMMA LayoutStays == [Next]_vars => layout' = layout
BY DEF topo, Next, Load, LoadFails, BeginRun, CreateMgnt, NoMgnt, CreateMgntLink, AttachMgnt,
    ReadList, AppendToList, WaitNodes, SetupLinks, CreateBridge, ConnectPeer, RecordPeer,
    RecordAtOnce, WaitBridges, BeginClose, CloseBridges, CloseHoles, CloseMgnt, OtherProjects, vars

\* The goroutines of a stage of Run have ended when the stage has.
LEMMA GoroutinesStep ==
    ASSUME TypesOK, GoroutinesEnd, [Next]_vars
    PROVE  GoroutinesEnd'
<1>l. FileBridges \subseteq Bridges
  BY LayoutFacts
<1> USE DEF topo, mgnt, nodeGo, brGo, kernel, hist
\* The goroutines of the nodes.
<1>1. pc' # "nodes" => \A n \in MgntNodes : nodeAt'[n] = "done"
  <2>1. CASE UNCHANGED nodeAt /\ (pc = "nodes" => pc' = "nodes")
    BY <2>1 DEF GoroutinesEnd
  <2>2. CASE CreateMgnt
    <3>1. pc = "run" /\ (nodeAt' = nodeAt \/ pc' = "nodes")
      BY <2>2 DEF CreateMgnt
    <3> QED  BY <3>1 DEF GoroutinesEnd
  <2>3. ASSUME NEW n \in MgntNodes,
               CreateMgntLink(n) \/ AttachMgnt(n) \/ ReadList(n) \/ AppendToList(n)
        PROVE  pc' = "nodes"
    BY <2>3 DEF CreateMgntLink, AttachMgnt, ReadList, AppendToList, GoroutinesEnd
  <2>4. CASE WaitNodes
    BY <2>4 DEF WaitNodes
  <2>5. ASSUME NEW b \in Bridges,
               \/ CreateBridge(b) \/ RecordPeer(b) \/ RecordAtOnce(b)
               \/ \E p \in Peers : ConnectPeer(b, p)
        PROVE  UNCHANGED <<nodeAt, pc>>
    BY <2>5 DEF CreateBridge, RecordPeer, RecordAtOnce, ConnectPeer
  <2>6. ASSUME \/ Load \/ LoadFails \/ BeginRun \/ NoMgnt \/ SetupLinks \/ WaitBridges
               \/ BeginClose \/ CloseBridges \/ CloseHoles \/ CloseMgnt \/ OtherProjects
               \/ UNCHANGED vars
        PROVE  UNCHANGED nodeAt /\ (pc = "nodes" => pc' = "nodes")
    BY <2>6 DEF Load, LoadFails, BeginRun, NoMgnt, SetupLinks, WaitBridges, BeginClose, CloseBridges,
        CloseHoles, CloseMgnt, OtherProjects, vars
  <2> QED  BY <2>1, <2>2, <2>3, <2>4, <2>5, <2>6 DEF Next
\* Those of the bridges.
<1>2. ASSUME NEW b \in Bridges, pc' # "bridges" \/ b \notin FileBridges'
      PROVE  bridgeAt'[b] = "done"
  <2>0. layout' = layout
    BY LayoutStays
  <2>1. CASE UNCHANGED bridgeAt /\ (pc = "bridges" => pc' = "bridges")
    BY <1>2, <2>0, <2>1 DEF GoroutinesEnd, FileBridges
  <2>2. CASE SetupLinks
    <3>1. \/ pc' = "bridges" /\ bridgeAt' = [c \in Bridges |-> IF c \in FileBridges THEN "start" ELSE "done"]
          \/ pc = "links" /\ bridgeAt' = bridgeAt
      BY <2>2 DEF SetupLinks
    <3> QED  BY <1>2, <2>0, <3>1 DEF GoroutinesEnd, FileBridges
  <2>3. CASE WaitBridges
    BY <2>3 DEF WaitBridges, EndBridges
  <2>4. ASSUME NEW c \in Bridges,
               \/ CreateBridge(c) \/ RecordPeer(c) \/ RecordAtOnce(c)
               \/ \E p \in Peers : ConnectPeer(c, p)
        PROVE  bridgeAt'[b] = "done"
    <3>1. bridgeAt[c] # "done" /\ pc' = pc
      BY <2>4 DEF CreateBridge, RecordPeer, RecordAtOnce, ConnectPeer
    <3>2. \A a \in Bridges : a # c => bridgeAt'[a] = bridgeAt[a]
      BY <2>4 DEF CreateBridge, RecordPeer, RecordAtOnce, Recorded, ConnectPeer, TypesOK
    <3>3. b # c
      BY <1>2, <2>0, <3>1 DEF GoroutinesEnd, FileBridges
    <3> QED  BY <1>2, <2>0, <3>1, <3>2, <3>3 DEF GoroutinesEnd, FileBridges
  <2>5. ASSUME NEW n \in MgntNodes,
               CreateMgntLink(n) \/ AttachMgnt(n) \/ ReadList(n) \/ AppendToList(n)
        PROVE  UNCHANGED <<bridgeAt, pc>>
    BY <2>5 DEF CreateMgntLink, AttachMgnt, ReadList, AppendToList
  <2>6. ASSUME \/ Load \/ LoadFails \/ BeginRun \/ CreateMgnt \/ NoMgnt \/ WaitNodes
               \/ BeginClose \/ CloseBridges \/ CloseHoles \/ CloseMgnt \/ OtherProjects
               \/ UNCHANGED vars
        PROVE  UNCHANGED bridgeAt /\ (pc = "bridges" => pc' = "bridges")
    BY <2>6 DEF Load, LoadFails, BeginRun, CreateMgnt, NoMgnt, WaitNodes, BeginClose, CloseBridges,
        CloseHoles, CloseMgnt, OtherProjects, vars
  <2> QED  BY <2>1, <2>2, <2>3, <2>4, <2>5, <2>6 DEF Next
<1> QED  BY <1>1, <1>2 DEF GoroutinesEnd

\* Interfaces are taken off the list of a bridge, or put there by the file.
LEMMA TodoStep ==
    ASSUME TypesOK, TodoOfFile, [Next]_vars
    PROVE  TodoOfFile'
<1>1. layout' = layout /\ \A b : PeersOf(b)' = PeersOf(b)
  BY LayoutStays DEF PeersOf
<1> USE DEF topo, mgnt, nodeGo, brGo, kernel, hist
<1>2. ASSUME NEW b \in Bridges, RecordPeer(b) \/ RecordAtOnce(b) PROVE TodoOfFile'
  <2>1. todo' = [todo EXCEPT ![b] = @ \ {writing[b]}]
    BY <1>2 DEF RecordPeer, RecordAtOnce, Recorded
  <2> QED  BY <1>1, <2>1 DEF TodoOfFile, TypesOK
<1>3. CASE SetupLinks
  <2>1. todo' = [b \in Bridges |-> PeersOf(b)] \/ todo' = todo
    BY <1>3 DEF SetupLinks
  <2> QED  BY <1>1, <2>1 DEF TodoOfFile
<1>4. CASE WaitBridges
  <2>1. todo' = [b \in Bridges |-> {}]
    BY <1>4 DEF WaitBridges, EndBridges
  <2> QED  BY <2>1 DEF TodoOfFile
<1>5. CASE todo' = todo
  BY <1>1, <1>5 DEF TodoOfFile
<1> QED
  BY <1>2, <1>3, <1>4, <1>5
  DEF Next, Load, LoadFails, BeginRun, CreateMgnt, NoMgnt, CreateMgntLink, AttachMgnt, ReadList,
      AppendToList, WaitNodes, CreateBridge, ConnectPeer, BeginClose, CloseBridges, CloseHoles,
      CloseMgnt, OtherProjects, vars

\* A step of the present load that begins no close: what CloseMgnt will look for
\* may change, if what it will not look for any more is remembered.
LEMMA AccountedStays ==
    ASSUME NEW x, Accounted(x), UNCHANGED <<loads, layout>>,
           left \subseteq left', half \subseteq half', lost \subseteq lost',
           pc' = pc \/ pc' \notin {"closeMgnt", "load", "closed"},
           OfMgnt(x.dev) => \/ OfMgnt(x.dev)'
                            \/ <<x.dev, loads>> \in left' \cup half' \cup lost'
    PROVE  Accounted(x)'
BY DEF Accounted, OfBridges, FileBridges, PeersOf

\* The same, for a step that leaves the list and the goroutines of the nodes alone.
LEMMA AccountedKept ==
    ASSUME NEW x, Accounted(x), UNCHANGED <<loads, layout, listed, made, nodeAt>>,
           left \subseteq left', half \subseteq half', lost \subseteq lost',
           pc' = pc \/ pc' \notin {"closeMgnt", "load", "closed"}
    PROVE  Accounted(x)'
<1>1. OfMgnt(x.dev) <=> OfMgnt(x.dev)'
  BY DEF OfMgnt
<1> QED  BY <1>1, AccountedStays

\* Whatever is done, and whatever fails, keeps the devices accounted for.
LEMMA AccountedStep == HostInv /\ [Next]_vars => \A x \in devs' : Accounted(x)'
<1> SUFFICES ASSUME HostInv, [Next]_vars PROVE \A x \in devs' : Accounted(x)'
  OBVIOUS
<1>a. TypesOK /\ GoroutinesEnd /\ TodoOfFile /\ \A x \in devs : Accounted(x)
  BY DEF HostInv
<1>b. layout' = layout /\ devs \subseteq Devices
  BY <1>a, LayoutStays DEF TypesOK
<1>c. /\ MgntBridge \in Names /\ MgntNodes \subseteq Names /\ Bridges \subseteq Names
      /\ Peers \subseteq Names /\ None \in Masters /\ Bridges \subseteq Masters
  BY DEF Names, Masters
<1> USE DEF topo, mgnt, nodeGo, brGo, kernel, hist
<1>1. CASE Load \/ LoadFails
  <2>1. /\ pc = "load" /\ UNCHANGED <<devs, loads, left, half, lost>>
    BY <1>1 DEF Load, LoadFails
  <2> QED  BY <1>a, <2>1 DEF Accounted
<1>2. CASE \/ BeginRun \/ NoMgnt \/ SetupLinks \/ BeginClose \/ CloseHoles \/ WaitBridges
           \/ OtherProjects \/ UNCHANGED vars
  <2>1. /\ UNCHANGED <<devs, loads, listed, made, nodeAt, left, half, lost>>
        /\ pc' = pc \/ pc' \notin {"closeMgnt", "load", "closed"}
    BY <1>2 DEF BeginRun, NoMgnt, SetupLinks, BeginClose, CloseHoles, WaitBridges, OtherProjects,
        vars
  <2> QED  BY <1>a, <1>b, <2>1, AccountedKept
<1>3. CASE WaitNodes
  <2>1. /\ UNCHANGED <<devs, loads, listed, made, left, half, lost>>
        /\ pc' \notin {"closeMgnt", "load", "closed"}
        /\ \A n \in MgntNodes : nodeAt[n] \in {"done", "failed"}
    BY <1>3 DEF WaitNodes
  <2>2. \A d : OfMgnt(d) => OfMgnt(d)'
    BY <2>1 DEF OfMgnt
  <2> QED  BY <1>a, <1>b, <2>1, <2>2, AccountedStays
<1>4. CASE CreateMgnt
  <2>1. /\ UNCHANGED <<loads, listed, left, half, lost>> /\ (made => made')
        /\ pc = "run" /\ pc' \notin {"closeMgnt", "load", "closed"}
        /\ \/ devs' = devs
           \/ devs' = devs \cup {Device(MgntBridge, mgntNs, None)} /\ made'
    BY <1>4 DEF CreateMgnt
  <2>2. \A d : OfMgnt(d) => OfMgnt(d)'
    BY <1>a, <2>1 DEF OfMgnt, GoroutinesEnd
  <2>3. \A x \in devs : Accounted(x)'
    BY <1>a, <1>b, <2>1, <2>2, AccountedStays
  <2>4. made' => Accounted(Device(MgntBridge, mgntNs, None))'
    BY <2>1 DEF Accounted, OfMgnt, Device
  <2>5. ASSUME made' PROVE \A x \in devs' : Accounted(x)'
    <3>1. ASSUME NEW x, x.dev = MgntBridge, x.load = loads PROVE Accounted(x)'
      BY <2>1, <2>5, <3>1 DEF Accounted, OfMgnt
    <3>2. LET x == Device(MgntBridge, mgntNs, None) IN x.dev = MgntBridge /\ x.load = loads
      BY DEF Device
    <3> QED  BY <2>1, <2>3, <3>1, <3>2
  <2> QED  BY <2>1, <2>3, <2>5
<1>5. ASSUME NEW n \in MgntNodes, CreateMgntLink(n) PROVE \A x \in devs' : Accounted(x)'
  <2>1. /\ UNCHANGED <<pc, loads, listed, made, left, lost>> /\ half \subseteq half'
        /\ pc = "nodes" /\ nodeAt[n] = "start"
        /\ \A m \in MgntNodes : m # n => nodeAt'[m] = nodeAt[m]
        /\ \/ devs' = devs
           \/ /\ devs' = devs \cup {Device(n, mainNs, None)}
              /\ nodeAt'[n] = "attach" \/ <<n, loads>> \in half'
    BY <1>a, <1>5 DEF CreateMgntLink, NodeGoes, TypesOK
  <2>2. \A d : OfMgnt(d) => OfMgnt(d)'
    BY <2>1 DEF OfMgnt
  <2>3. \A x \in devs : Accounted(x)'
    BY <1>a, <1>b, <2>1, <2>2, AccountedStays
  <2>4. ASSUME NEW x, x.dev = n, x.load = loads, nodeAt'[n] = "attach" \/ <<n, loads>> \in half'
        PROVE  Accounted(x)'
    BY <2>1, <2>4 DEF Accounted, OfMgnt
  <2>5. LET x == Device(n, mainNs, None) IN x.dev = n /\ x.load = loads
    BY DEF Device
  <2> QED  BY <2>1, <2>3, <2>4, <2>5
<1>6. ASSUME NEW n \in MgntNodes, AttachMgnt(n) PROVE \A x \in devs' : Accounted(x)'
  <2>1. /\ UNCHANGED <<pc, loads, listed, made, left, lost>> /\ half \subseteq half'
        /\ \A m \in MgntNodes : m # n => nodeAt'[m] = nodeAt[m]
        /\ nodeAt'[n] = "read" \/ <<n, loads>> \in half'
    BY <1>a, <1>6 DEF AttachMgnt, NodeGoes, TypesOK
  <2>2. \A d : OfMgnt(d) => OfMgnt(d)' \/ <<d, loads>> \in half'
    BY <2>1 DEF OfMgnt
  <2>3. \A x \in devs : Accounted(x)'
    BY <1>a, <1>b, <2>1, <2>2, AccountedStays
  <2>4. \A y \in devs' : \E x \in devs : y.dev = x.dev /\ y.load = x.load
    <3>1. ASSUME NEW x \in devs
          PROVE  LET z == [x EXCEPT !.master = MgntBridge] IN z.dev = x.dev /\ z.load = x.load
      BY <1>b DEF Devices
    <3>2. \/ devs' = devs
          \/ \E x \in devs : devs' = (devs \ {x}) \cup {[x EXCEPT !.master = MgntBridge]}
      BY <1>6 DEF AttachMgnt
    <3> QED  BY <3>1, <3>2
  <2>5. ASSUME NEW x, NEW y, y.dev = x.dev, y.load = x.load, Accounted(x)'
        PROVE  Accounted(y)'
    BY <2>5 DEF Accounted
  <2> QED  BY <2>3, <2>4, <2>5
<1>7. ASSUME NEW n \in MgntNodes, ReadList(n) PROVE \A x \in devs' : Accounted(x)'
  <2>1. /\ UNCHANGED <<pc, devs, loads, listed, made, left, half, lost>>
        /\ nodeAt' = [nodeAt EXCEPT ![n] = "append"]
    BY <1>7 DEF ReadList, NodeGoes
  <2>2. \A d : OfMgnt(d) => OfMgnt(d)'
    BY <1>a, <2>1 DEF OfMgnt, TypesOK
  <2> QED  BY <1>a, <1>b, <2>1, <2>2, AccountedStays
<1>8. ASSUME NEW n \in MgntNodes, AppendToList(n) PROVE \A x \in devs' : Accounted(x)'
  <2>1. /\ UNCHANGED <<pc, devs, loads, made, left, half>> /\ lost \subseteq lost'
        /\ nodeAt' = [nodeAt EXCEPT ![n] = "done"]
        /\ listed' = seen[n] \cup {n}
        /\ \A m \in listed \ seen[n] : <<m, loads>> \in lost'
    BY <1>8 DEF AppendToList, NodeGoes
  <2>2. \A d : OfMgnt(d) => OfMgnt(d)' \/ <<d, loads>> \in lost'
    BY <1>a, <2>1 DEF OfMgnt, TypesOK
  <2> QED  BY <1>a, <1>b, <2>1, <2>2, AccountedStays
<1>9. ASSUME NEW d \in OfBridges, pc = "bridges", pc' = pc,
             UNCHANGED <<loads, listed, made, nodeAt, left, half, lost>>,
             \/ devs' = devs
             \/ \E place, m : devs' = devs \cup {Device(d, place, m)}
      PROVE  \A x \in devs' : Accounted(x)'
  <2>1. \A x \in devs : Accounted(x)'
    BY <1>a, <1>b, <1>9, AccountedKept
  <2>2. ASSUME NEW x, x.dev = d, x.load = loads PROVE Accounted(x)'
    BY <1>b, <1>9, <2>2 DEF Accounted, OfBridges, FileBridges, PeersOf
  <2>3. ASSUME NEW place, NEW m
        PROVE  LET x == Device(d, place, m) IN x.dev = d /\ x.load = loads
    BY DEF Device
  <2> QED  BY <1>9, <2>1, <2>2, <2>3
<1>10. ASSUME NEW b \in Bridges, CreateBridge(b) PROVE \A x \in devs' : Accounted(x)'
  <2>1. b \in FileBridges /\ b \in OfBridges
    BY <1>a, <1>10 DEF CreateBridge, GoroutinesEnd, OfBridges
  <2>2. /\ pc = "bridges" /\ pc' = pc
        /\ UNCHANGED <<loads, listed, made, nodeAt, left, half, lost>>
        /\ devs' = devs \/ devs' = devs \cup {Device(b, mainNs, None)}
    BY <1>10 DEF CreateBridge
  <2> QED  BY <1>9, <2>1, <2>2
<1>11. ASSUME NEW b \in Bridges, NEW p \in Peers, ConnectPeer(b, p)
       PROVE  \A x \in devs' : Accounted(x)'
  <2>1. b \in FileBridges /\ p \in PeersOf(b) /\ p \in OfBridges /\ pc = "bridges"
    BY <1>a, <1>11 DEF ConnectPeer, GoroutinesEnd, TodoOfFile, OfBridges
  <2>2. /\ pc' = pc
        /\ UNCHANGED <<loads, listed, made, nodeAt, left, half, lost>>
        /\ \/ devs' = devs \/ devs' = devs \cup {Device(p, holds[b], b)}
           \/ devs' = devs \cup {Device(p, holds[b], None)}
    BY <1>11 DEF ConnectPeer
  <2> QED  BY <1>9, <2>1, <2>2
<1>12. ASSUME NEW b \in Bridges, RecordPeer(b) \/ RecordAtOnce(b)
       PROVE  \A x \in devs' : Accounted(x)'
  <2>1. UNCHANGED <<pc, devs, loads, listed, made, nodeAt, left, half, lost>>
    BY <1>12 DEF RecordPeer, RecordAtOnce
  <2> QED  BY <1>a, <1>b, <2>1, AccountedKept
<1>13. CASE CloseBridges
  <2>1. /\ Delete(OfBridges, mainNs) /\ pc = "close" /\ pc' = "closeMgnt"
        /\ UNCHANGED <<loads, listed, made, nodeAt, half, lost>>
    BY <1>13 DEF CloseBridges, OfBridges
  <2>2. left \subseteq left'
    BY <1>b, <2>1, DeleteAccounts
  <2>3. ASSUME NEW y \in devs' PROVE Accounted(y)'
    <3>1. PICK x \in devs : /\ y.dev = x.dev /\ y.load = x.load
                            /\ x.dev \in OfBridges => <<x.dev, x.load>> \in left'
      BY <1>b, <2>1, DeleteAccounts
    <3>2. Accounted(x)
      BY <1>a
    <3>3. OfMgnt(x.dev) <=> OfMgnt(x.dev)'
      BY <2>1 DEF OfMgnt
    <3> QED  BY <2>1, <2>2, <3>1, <3>2, <3>3 DEF Accounted
  <2> QED  BY <2>3
<1>14. CASE CloseMgnt
  <2> DEFINE wanted == listed \cup (IF made THEN {MgntBridge} ELSE {})
  <2>1. /\ Delete(wanted, mgntNs) /\ pc = "closeMgnt" /\ UNCHANGED <<half, lost>>
    BY <1>14 DEF CloseMgnt
  <2>2. left \subseteq left'
    BY <1>b, <2>1, DeleteAccounts
  <2>3. \A d : OfMgnt(d) => d \in wanted
    BY <1>a, <2>1 DEF OfMgnt, GoroutinesEnd
  <2> HIDE DEF wanted
  <2>4. ASSUME NEW y \in devs' PROVE <<y.dev, y.load>> \in left' \cup half' \cup lost'
    <3>1. PICK x \in devs : /\ y.dev = x.dev /\ y.load = x.load
                            /\ x.dev \in wanted => <<x.dev, x.load>> \in left'
      BY <1>b, <2>1, DeleteAccounts
    <3>2. Accounted(x)
      BY <1>a
    <3> QED  BY <2>1, <2>2, <2>3, <3>1, <3>2 DEF Accounted
  <2> QED  BY <2>4 DEF Accounted
<1> QED
  BY <1>1, <1>2, <1>3, <1>4, <1>5, <1>6, <1>7, <1>8, <1>10, <1>11, <1>12, <1>13, <1>14
  DEF Next

\* The invariant of the kernel's devices.
LEMMA HostInvariant == Spec => []HostInv
<1>1. Init => HostInv
  <2> SUFFICES ASSUME Init PROVE HostInv
    OBVIOUS
  <2>1. GoroutinesEnd /\ TodoOfFile /\ devs = {}
    BY DEF Init, GoroutinesEnd, TodoOfFile
  <2> QED  BY <2>1, InitTypes DEF HostInv
<1>2. HostInv /\ [Next]_vars => HostInv'
  BY TypesStep, GoroutinesStep, TodoStep, AccountedStep DEF HostInv
<1> QED  BY <1>1, <1>2, PTL DEF Spec

\* Nothing of a closed topology stays on the host but what is known to: whatever
\* failed in its runs, and wherever the threads of the daemon went.
THEOREM HostStaysClean == Spec => []HostIsLeftClean
<1>1. HostInv => HostIsLeftClean
  <2> SUFFICES ASSUME HostInv, pc \in {"closed", "load"}, NEW x \in devs
               PROVE  <<x.dev, x.load>> \in left \cup half \cup lost
    BY DEF HostIsLeftClean
  <2> QED  BY DEF HostInv, Accounted
<1> QED  BY <1>1, HostInvariant, PTL

-----------------------------------------------------------------------------
(* A run that succeeds has connected everything.                            *)

\* Devices that are added take nothing away from what is connected.
LEMMA MastersGrow ==
    ASSUME devs \subseteq devs', loads' = loads, NEW d, NEW place, NEW m
    PROVE  /\ HasMaster(d, place, m) => HasMaster(d, place, m)'
           /\ LeftOver(d, place, m) => LeftOver(d, place, m)'
BY DEF HasMaster, LeftOver

\* The device that is made has the master it was made with.
LEMMA MadeHasMaster ==
    ASSUME NEW d, NEW place, NEW m, devs' = devs \cup {Device(d, place, m)}, loads' = loads
    PROVE  HasMaster(d, place, m)'
<1>1. LET x == Device(d, place, m)
      IN  x \in devs' /\ x.dev = d /\ x.at = place /\ x.load = loads' /\ x.master = m
  BY DEF Device
<1> QED  BY <1>1 DEF HasMaster

\* The nodes stay on the management network and in its list.
LEMMA MgntStays ==
    ASSUME devs \subseteq devs', UNCHANGED <<loads, mgntNs, listed>>, lost \subseteq lost',
           NEW n
    PROVE  /\ OnMgnt(n) => OnMgnt(n)'
           /\ InList(n) => InList(n)'
<1>1. OnMgnt(n) => OnMgnt(n)'
  BY MastersGrow DEF OnMgnt, HasMaster, LeftOver
<1> QED  BY <1>1 DEF InList

\* So does the management network that a run has made.
LEMMA MgntMadeStays ==
    ASSUME MgntMade, devs \subseteq devs', UNCHANGED <<layout, loads, mgntNs, listed>>,
           lost \subseteq lost'
    PROVE  MgntMade'
BY MgntStays DEF MgntMade

\* And a bridge, unless another one takes its interface of the host, which the
\* file then gives to both.
LEMMA BridgeStays ==
    ASSUME NEW b, NEW P, BridgeMade(b, P), devs \subseteq devs', UNCHANGED <<layout, loads>>,
           known \subseteq known' \/ raced', raced => raced',
           \/ hostMaster'[layout.host[b]] = hostMaster[layout.host[b]]
           \/ \E c \in FileBridges \ {b} : layout.host[c] = layout.host[b]
    PROVE  BridgeMade(b, P)'
<1>1. HasMaster(b, Root, None)'
  BY MastersGrow DEF BridgeMade
<1>2. \A p \in P : HasMaster(p, Root, b)'
  BY MastersGrow DEF BridgeMade
<1>3. \A p \in P : p \in known' \/ raced'
  BY DEF BridgeMade
<1>4. \/ hostMaster'[layout'.host[b]] = b
      \/ \E c \in FileBridges' \ {b} : layout'.host[c] = layout'.host[b]
  BY DEF BridgeMade, FileBridges
<1> QED  BY <1>1, <1>2, <1>3, <1>4 DEF BridgeMade

\* The goroutine of a bridge that another one does not disturb.
LEMMA BridgeGoesOn ==
    ASSUME NEW b, BridgeGoes(b), devs \subseteq devs', UNCHANGED <<layout, loads>>,
           bridgeAt'[b] = bridgeAt[b], holds'[b] = holds[b], todo'[b] = todo[b],
           writing'[b] = writing[b],
           known \subseteq known' \/ raced', raced => raced',
           \/ hostMaster'[layout.host[b]] = hostMaster[layout.host[b]]
           \/ \E c \in FileBridges \ {b} : layout.host[c] = layout.host[b]
    PROVE  BridgeGoes(b)'
<1> SUFFICES ASSUME bridgeAt[b] \in {"connect", "record"}
             PROVE  /\ holds'[b] = Root
                    /\ BridgeMade(b, PeersOf(b) \ todo[b])'
                    /\ bridgeAt[b] = "record" => HasMaster(writing[b], Root, b)'
  BY DEF BridgeGoes, PeersOf
<1>1. holds[b] = Root /\ BridgeMade(b, PeersOf(b) \ todo[b])
  BY DEF BridgeGoes
<1>2. \A P : BridgeMade(b, P) => BridgeMade(b, P)'
  BY BridgeStays
<1>3. (PeersOf(b) \ todo[b])' = PeersOf(b) \ todo[b]
  BY DEF PeersOf
<1>4. BridgeMade(b, PeersOf(b) \ todo[b])'
  <2> DEFINE P == PeersOf(b) \ todo[b]
  <2>1. \E Q : Q = P /\ Q = P'
    BY <1>3
  <2>2. PICK Q : Q = P /\ Q = P'
    BY <2>1
  <2>3. BridgeMade(b, Q)'
    BY <1>1, <1>2, <2>2
  <2> QED  BY <2>2, <2>3 DEF BridgeMade
<1>5. bridgeAt[b] = "record" => HasMaster(writing[b], Root, b)'
  <2> SUFFICES ASSUME bridgeAt[b] = "record" PROVE HasMaster(writing[b], Root, b)'
    OBVIOUS
  <2>1. HasMaster(writing[b], Root, b)
    BY DEF BridgeGoes
  <2> QED  BY <2>1 DEF HasMaster
<1> QED  BY <1>1, <1>4, <1>5

\* A goroutine of a bridge does its part and leaves the other bridges alone.
LEMMA BridgesStep ==
    ASSUME TypesOK, GoroutinesEnd, TodoOfFile, RunInv, NEW b \in Bridges,
           \/ CreateBridge(b) \/ RecordPeer(b) \/ RecordAtOnce(b)
           \/ \E p \in Peers : ConnectPeer(b, p)
    PROVE  /\ pc = "bridges" /\ pc' = pc /\ running' = running
           /\ MgntMade' /\ \A c \in FileBridges' : BridgeGoes(c)'
<1> USE DEF topo, mgnt, nodeGo, brGo, kernel, hist
<1>l. FileBridges \subseteq Bridges /\ \A c \in FileBridges : layout.host[c] \in Hosts
  BY LayoutFacts
<1>b. b \in FileBridges /\ pc = "bridges"
  BY DEF CreateBridge, RecordPeer, RecordAtOnce, ConnectPeer, GoroutinesEnd
<1>m. MgntMade /\ \A c \in FileBridges : BridgeGoes(c)
  BY <1>b DEF RunInv
<1>1. /\ UNCHANGED <<pc, running, layout, loads, mgntNs, listed, lost>>
      /\ devs \subseteq devs' /\ (raced => raced') /\ (known \subseteq known' \/ raced')
  <2>1. ASSUME CreateBridge(b) \/ \E p \in Peers : ConnectPeer(b, p)
        PROVE  /\ UNCHANGED <<pc, running, layout, loads, mgntNs, listed, lost, raced, known>>
               /\ devs \subseteq devs'
    BY <2>1 DEF CreateBridge, ConnectPeer
  <2>2. ASSUME RecordPeer(b) \/ RecordAtOnce(b)
        PROVE  /\ UNCHANGED <<pc, running, layout, loads, mgntNs, listed, lost, devs>>
               /\ (raced => raced') /\ (known \subseteq known' \/ raced')
    BY <2>2 DEF RecordPeer, RecordAtOnce
  <2> QED  BY <2>1, <2>2
<1>2. MgntMade'
  BY <1>1, <1>m, MgntMadeStays
<1>3. FileBridges' = FileBridges /\ \A c : PeersOf(c)' = PeersOf(c)
  BY <1>1 DEF FileBridges, PeersOf
<1>4. ASSUME NEW c \in FileBridges, c # b PROVE BridgeGoes(c)'
  <2>1. /\ bridgeAt'[c] = bridgeAt[c] /\ holds'[c] = holds[c] /\ todo'[c] = todo[c]
        /\ writing'[c] = writing[c]
    <3>1. ASSUME CreateBridge(b) \/ \E p \in Peers : ConnectPeer(b, p)
          PROVE  /\ bridgeAt'[c] = bridgeAt[c] /\ holds'[c] = holds[c] /\ todo'[c] = todo[c]
                 /\ writing'[c] = writing[c]
      BY <1>l, <1>4, <3>1 DEF CreateBridge, ConnectPeer, TypesOK
    <3>2. ASSUME RecordPeer(b) \/ RecordAtOnce(b)
          PROVE  /\ bridgeAt'[c] = bridgeAt[c] /\ holds'[c] = holds[c] /\ todo'[c] = todo[c]
                 /\ writing'[c] = writing[c]
      BY <1>l, <1>4, <3>2 DEF RecordPeer, RecordAtOnce, Recorded, TypesOK
    <3> QED  BY <3>1, <3>2
  <2>2. \/ hostMaster'[layout.host[c]] = hostMaster[layout.host[c]]
        \/ \E d \in FileBridges \ {c} : layout.host[d] = layout.host[c]
    <3>1. CASE hostMaster' = hostMaster
      BY <3>1
    <3>2. CASE hostMaster' = [hostMaster EXCEPT ![layout.host[b]] = b]
      <4>1. CASE layout.host[b] = layout.host[c]
        BY <1>b, <1>4, <4>1
      <4>2. CASE layout.host[b] # layout.host[c]
        BY <1>l, <3>2, <4>2 DEF TypesOK
      <4> QED  BY <4>1, <4>2
    <3> QED
      BY <3>1, <3>2 DEF CreateBridge, RecordPeer, RecordAtOnce, ConnectPeer
  <2>3. BridgeGoes(c)
    BY <1>m
  <2> QED  BY <1>1, <2>1, <2>2, <2>3, BridgeGoesOn
<1>5. BridgeGoes(b)'
  <2> SUFFICES ASSUME bridgeAt'[b] \in {"connect", "record"}
               PROVE  /\ holds'[b] = Root
                      /\ BridgeMade(b, PeersOf(b) \ todo[b])'
                      /\ bridgeAt'[b] = "record" => HasMaster(writing[b], Root, b)'
    <3>1. bridgeAt'[b] # "start"
      BY DEF CreateBridge, RecordPeer, RecordAtOnce, Recorded, ConnectPeer, TypesOK
    <3> QED  BY <3>1 DEF BridgeGoes
  <2>t. PeersOf(b)' = PeersOf(b) /\ todo[b] \subseteq PeersOf(b)
    BY <1>3 DEF TodoOfFile
  <2>1. CASE CreateBridge(b)
    <3>1. /\ mainNs = Root /\ devs' = devs \cup {Device(b, mainNs, None)}
          /\ hostMaster' = [hostMaster EXCEPT ![layout.host[b]] = b]
          /\ bridgeAt' = [bridgeAt EXCEPT ![b] = "connect"]
          /\ holds' = [holds EXCEPT ![b] = mainNs] /\ todo' = todo
      <4>1. bridgeAt' # [bridgeAt EXCEPT ![b] = "failed"]
        BY DEF TypesOK
      <4> QED  BY <2>1, <4>1 DEF CreateBridge
    <3>2. holds'[b] = Root /\ bridgeAt'[b] = "connect"
      BY <3>1 DEF TypesOK
    <3>3. HasMaster(b, Root, None)'
      BY <1>1, <3>1, MadeHasMaster
    <3>4. hostMaster'[layout'.host[b]] = b
      BY <1>1, <1>b, <1>l, <3>1 DEF TypesOK
    <3>5. todo[b] = PeersOf(b)
      BY <1>b, <1>m, <2>1 DEF BridgeGoes, CreateBridge
    <3>6. (PeersOf(b) \ todo[b])' = {}
      BY <2>t, <3>1, <3>5
    <3> QED  BY <3>2, <3>3, <3>4, <3>6 DEF BridgeMade
  <2>2. ASSUME NEW p \in Peers, ConnectPeer(b, p)
        PROVE  /\ holds'[b] = Root
               /\ BridgeMade(b, PeersOf(b) \ todo[b])'
               /\ bridgeAt'[b] = "record" => HasMaster(writing[b], Root, b)'
    <3>1. /\ bridgeAt[b] = "connect" /\ devs' = devs \cup {Device(p, holds[b], b)}
          /\ writing' = [writing EXCEPT ![b] = p] /\ UNCHANGED <<holds, todo, hostMaster, known, raced>>
      <4>1. bridgeAt' # [bridgeAt EXCEPT ![b] = "failed"]
        BY DEF TypesOK
      <4> QED  BY <2>2, <4>1 DEF ConnectPeer
    <3>2. holds[b] = Root /\ BridgeMade(b, PeersOf(b) \ todo[b])
      BY <1>b, <1>m, <3>1 DEF BridgeGoes
    <3>3. HasMaster(p, Root, b)' /\ writing'[b] = p
      BY <1>1, <3>1, <3>2, MadeHasMaster DEF TypesOK
    <3>4. BridgeMade(b, PeersOf(b) \ todo[b])'
      <4>1. (PeersOf(b) \ todo[b])' = PeersOf(b) \ todo[b]
        BY <2>t, <3>1
      <4>2. \A q : HasMaster(q, Root, b) => HasMaster(q, Root, b)'
        BY <1>1, MastersGrow
      <4>3. HasMaster(b, Root, None) => HasMaster(b, Root, None)'
        BY <1>1, MastersGrow
      <4> QED  BY <1>1, <1>3, <3>1, <3>2, <4>1, <4>2, <4>3 DEF BridgeMade
    <3>5. HasMaster(writing[b], Root, b)'
      BY <3>3 DEF HasMaster
    <3> QED  BY <3>1, <3>2, <3>4, <3>5
  <2>3. CASE RecordPeer(b) \/ RecordAtOnce(b)
    <3>1. /\ bridgeAt[b] = "record" /\ UNCHANGED <<holds, hostMaster, devs>>
          /\ bridgeAt'[b] = "connect" /\ todo'[b] = todo[b] \ {writing[b]}
          /\ writing[b] \in known' \/ raced'
      BY <2>3 DEF RecordPeer, RecordAtOnce, Recorded, TypesOK
    <3>2. /\ holds[b] = Root /\ BridgeMade(b, PeersOf(b) \ todo[b])
          /\ HasMaster(writing[b], Root, b)
      BY <1>b, <1>m, <3>1 DEF BridgeGoes
    <3>3. (PeersOf(b) \ todo[b])' \subseteq (PeersOf(b) \ todo[b]) \cup {writing[b]}
      BY <2>t, <3>1
    <3>4. \A q, m : HasMaster(q, Root, m)' <=> HasMaster(q, Root, m)
      BY <1>1, <3>1 DEF HasMaster
    <3>5. \A q \in (PeersOf(b) \ todo[b])' : HasMaster(q, Root, b)' /\ (q \in known' \/ raced')
      BY <1>1, <3>1, <3>2, <3>3, <3>4 DEF BridgeMade
    <3>6. \/ hostMaster'[layout'.host[b]] = b
          \/ \E c \in FileBridges' \ {b} : layout'.host[c] = layout'.host[b]
      BY <1>1, <1>3, <3>1, <3>2 DEF BridgeMade
    <3>7. HasMaster(b, Root, None)'
      BY <3>2, <3>4 DEF BridgeMade
    <3> QED  BY <3>1, <3>2, <3>5, <3>6, <3>7 DEF BridgeMade
  <2> QED  BY <2>1, <2>2, <2>3
<1> QED  BY <1>1, <1>b, <1>2, <1>3, <1>4, <1>5

\* A goroutine of a node does its part and leaves the other nodes alone.
LEMMA NodesStep ==
    ASSUME TypesOK, GoroutinesEnd, RunInv, NEW n \in MgntNodes,
           CreateMgntLink(n) \/ AttachMgnt(n) \/ ReadList(n) \/ AppendToList(n)
    PROVE  /\ pc = "nodes" /\ pc' = pc /\ running' = running
           /\ \A m \in MgntNodes :
                 /\ nodeAt'[m] \in {"read", "append", "done"} => OnMgnt(m)'
                 /\ nodeAt'[m] = "done" => InList(m)'
<1> USE DEF topo, mgnt, nodeGo, brGo, kernel, hist
<1>n. pc = "nodes"
  BY DEF CreateMgntLink, AttachMgnt, ReadList, AppendToList, GoroutinesEnd
<1>1. /\ pc' = pc /\ running' = running /\ UNCHANGED <<loads, mgntNs>>
  BY DEF CreateMgntLink, AttachMgnt, ReadList, AppendToList
<1>2. ASSUME NEW m \in MgntNodes
      PROVE  /\ nodeAt[m] \in {"read", "append", "done"} => OnMgnt(m)
             /\ nodeAt[m] = "done" => InList(m)
  BY <1>n DEF RunInv
<1>3. ASSUME NEW m \in MgntNodes, CreateMgntLink(n) \/ AppendToList(n)
      PROVE  OnMgnt(m) => OnMgnt(m)'
  <2>1. devs \subseteq devs' /\ loads' = loads /\ mgntNs' = mgntNs
    BY <1>1, <1>3 DEF CreateMgntLink, AppendToList
  <2> QED  BY <2>1, MastersGrow DEF OnMgnt, HasMaster, LeftOver
<1>4. ASSUME NEW m \in MgntNodes, CreateMgntLink(n) \/ AttachMgnt(n) \/ ReadList(n)
      PROVE  InList(m) => InList(m)'
  BY <1>4 DEF CreateMgntLink, AttachMgnt, ReadList, InList
\* What is overwritten is lost.
<1>5. ASSUME NEW m \in MgntNodes, AppendToList(n)
      PROVE  /\ InList(m) => InList(m)'
             /\ InList(n)'
  <2>1. /\ listed' = seen[n] \cup {n} /\ loads' = loads
        /\ lost' = lost \cup {<<k, loads>> : k \in listed \ seen[n]}
    BY <1>5 DEF AppendToList
  <2> QED  BY <2>1 DEF InList
\* The interface that is attached is the one of n.
<1>6. ASSUME NEW x \in devs, x.dev = n, x.at = mgntNs,
             devs' = (devs \ {x}) \cup {[x EXCEPT !.master = MgntBridge]}
      PROVE  OnMgnt(n)' /\ \A m \in MgntNodes : OnMgnt(m) => OnMgnt(m)'
  <2> DEFINE z == [x EXCEPT !.master = MgntBridge]
  <2>1. /\ z.dev = n /\ z.at = mgntNs /\ z.master = MgntBridge /\ z.load = x.load
        /\ x.load \in Nat /\ x.load <= loads
    BY <1>6 DEF TypesOK, Devices
  <2>2. z \in devs'
    BY <1>6
  <2> HIDE DEF z
  <2>3. OnMgnt(n)'
    <3>1. loads \in Nat /\ (z.load = loads \/ z.load < loads)
      BY <2>1 DEF TypesOK
    <3>2. CASE z.load = loads
      BY <1>1, <2>1, <2>2, <3>2 DEF OnMgnt, HasMaster
    <3>3. CASE z.load < loads
      BY <1>1, <2>1, <2>2, <3>3 DEF OnMgnt, LeftOver
    <3> QED  BY <3>1, <3>2, <3>3
  <2>4. ASSUME NEW m \in MgntNodes, m # n PROVE OnMgnt(m) => OnMgnt(m)'
    <3>1. \A y \in devs : y.dev = m => y \in devs'
      BY <1>6, <2>4
    <3> QED  BY <1>1, <3>1 DEF OnMgnt, HasMaster, LeftOver
  <2> QED  BY <2>3, <2>4
<1>7. ASSUME NEW m \in MgntNodes
      PROVE  /\ nodeAt'[m] \in {"read", "append", "done"} => OnMgnt(m)'
             /\ nodeAt'[m] = "done" => InList(m)'
  <2>1. CASE CreateMgntLink(n)
    <3>1. nodeAt'[m] \in {"read", "append", "done"} => nodeAt'[m] = nodeAt[m]
      BY <2>1 DEF CreateMgntLink, NodeGoes, TypesOK
    <3> QED  BY <1>2, <1>3, <1>4, <2>1, <3>1
  <2>2. CASE AttachMgnt(n)
    <3>1. /\ m # n => nodeAt'[m] = nodeAt[m]
          /\ nodeAt'[n] # "done"
      BY <2>2 DEF AttachMgnt, NodeGoes, TypesOK
    <3>2. CASE devs' = devs /\ NodeGoes(n, "failed")
      <4>1. nodeAt'[n] = "failed"
        BY <3>2 DEF NodeGoes, TypesOK
      <4>2. OnMgnt(m) => OnMgnt(m)'
        BY <1>1, <3>2 DEF OnMgnt, HasMaster, LeftOver
      <4> QED  BY <1>2, <1>4, <2>2, <3>1, <4>1, <4>2
    <3>3. CASE \E x \in devs :
                  /\ x.dev = n /\ x.at = mgntNs
                  /\ devs' = (devs \ {x}) \cup {[x EXCEPT !.master = MgntBridge]}
      <4>1. OnMgnt(n)' /\ (OnMgnt(m) => OnMgnt(m)')
        BY <1>6, <3>3
      <4> QED  BY <1>2, <1>4, <2>2, <3>1, <4>1
    <3> QED  BY <2>2, <3>2, <3>3 DEF AttachMgnt
  <2>3. CASE ReadList(n)
    <3>1. /\ m # n => nodeAt'[m] = nodeAt[m]
          /\ nodeAt[n] = "read" /\ nodeAt'[n] = "append"
      BY <2>3 DEF ReadList, NodeGoes, TypesOK
    <3>2. OnMgnt(m) => OnMgnt(m)'
      BY <2>3 DEF ReadList, OnMgnt, HasMaster, LeftOver
    <3> QED  BY <1>2, <1>4, <2>3, <3>1, <3>2
  <2>4. CASE AppendToList(n)
    <3>1. /\ m # n => nodeAt'[m] = nodeAt[m]
          /\ nodeAt[n] = "append" /\ nodeAt'[n] = "done"
      BY <2>4 DEF AppendToList, NodeGoes, TypesOK
    <3> QED  BY <1>2, <1>3, <1>5, <2>4, <3>1
  <2> QED  BY <2>1, <2>2, <2>3, <2>4
<1> QED  BY <1>n, <1>1, <1>7

\* Every step of a run makes its part of what the run promises.
LEMMA RunStep ==
    TypesOK /\ GoroutinesEnd /\ TodoOfFile /\ RunInv /\ [Next]_vars => RunInv'
<1> SUFFICES ASSUME TypesOK, GoroutinesEnd, TodoOfFile, RunInv, [Next]_vars PROVE RunInv'
  OBVIOUS
<1> USE DEF topo, mgnt, nodeGo, brGo, kernel, hist
<1>1. CASE Load \/ LoadFails
  BY <1>1 DEF Load, LoadFails, RunInv
<1>2. CASE BeginRun \/ BeginClose \/ CloseBridges \/ CloseHoles \/ CloseMgnt
  BY <1>2 DEF BeginRun, BeginClose, CloseBridges, CloseHoles, CloseMgnt, RunInv
<1>3. CASE CreateMgnt
  <2>1. ~running' /\ pc' \in {"nodes", "loaded"}
    BY <1>3 DEF CreateMgnt, RunInv
  <2>2. pc' = "nodes" => \A n \in MgntNodes : nodeAt'[n] = "start"
    BY <1>3 DEF CreateMgnt
  <2> QED  BY <2>1, <2>2 DEF RunInv
<1>4. CASE NoMgnt
  <2>1. ~running' /\ pc' \in {"links", "loaded"} /\ ~layout'.mgnt
    BY <1>4 DEF NoMgnt, RunInv
  <2> QED  BY <2>1 DEF RunInv, MgntMade
<1>5. ASSUME NEW n \in MgntNodes,
             CreateMgntLink(n) \/ AttachMgnt(n) \/ ReadList(n) \/ AppendToList(n)
      PROVE  RunInv'
  <2>1. /\ pc = "nodes" /\ pc' = pc /\ running' = running
        /\ \A m \in MgntNodes : /\ nodeAt'[m] \in {"read", "append", "done"} => OnMgnt(m)'
                                /\ nodeAt'[m] = "done" => InList(m)'
    BY <1>5, NodesStep
  <2> QED  BY <2>1 DEF RunInv
<1>6. CASE WaitNodes
  <2>1. /\ pc = "nodes" /\ pc' \in {"loaded", "links"} /\ ~running'
        /\ UNCHANGED <<layout, loads, mgntNs, listed, lost, devs>>
    BY <1>6 DEF WaitNodes, RunInv
  <2>2. pc' = "links" => \A n \in MgntNodes : nodeAt[n] = "done"
    BY <1>6 DEF WaitNodes
  <2>3. pc' = "links" => MgntMade
    BY <2>1, <2>2 DEF RunInv, MgntMade
  <2>4. MgntMade => MgntMade'
    BY <2>1, MgntMadeStays
  <2> QED  BY <2>1, <2>3, <2>4 DEF RunInv
<1>7. CASE SetupLinks
  <2>1. /\ pc = "links" /\ pc' \in {"loaded", "bridges"} /\ ~running'
        /\ UNCHANGED <<layout, loads, mgntNs, listed, lost, devs>>
    BY <1>7 DEF SetupLinks, RunInv
  <2>2. MgntMade'
    BY <2>1, MgntMadeStays DEF RunInv
  <2>3. FileBridges' = FileBridges /\ \A b : PeersOf(b)' = PeersOf(b)
    BY <2>1 DEF FileBridges, PeersOf
  <2>4. ASSUME pc' = "bridges", NEW b \in FileBridges PROVE BridgeGoes(b)'
    <3>1. b \in Bridges
      BY LayoutFacts
    <3>2. bridgeAt'[b] = "start" /\ todo'[b] = PeersOf(b)
      BY <1>7, <2>1, <2>4, <3>1 DEF SetupLinks
    <3> QED  BY <2>3, <3>2 DEF BridgeGoes
  <2> QED  BY <2>1, <2>2, <2>3, <2>4 DEF RunInv
<1>8. ASSUME NEW b \in Bridges,
             \/ CreateBridge(b) \/ RecordPeer(b) \/ RecordAtOnce(b)
             \/ \E p \in Peers : ConnectPeer(b, p)
      PROVE  RunInv'
  <2>1. /\ pc = "bridges" /\ pc' = pc /\ running' = running
        /\ MgntMade' /\ \A c \in FileBridges' : BridgeGoes(c)'
    BY <1>8, BridgesStep
  <2> QED  BY <2>1 DEF RunInv
<1>9. CASE WaitBridges
  <2>1. /\ pc = "bridges" /\ pc' = "loaded" /\ ~running
        /\ UNCHANGED <<layout, loads, mgntNs, listed, lost, devs, hostMaster, known, raced>>
    BY <1>9 DEF WaitBridges, RunInv
  <2>2. MgntMade'
    BY <2>1, MgntMadeStays DEF RunInv
  <2>3. ASSUME running', NEW b \in FileBridges PROVE BridgeMade(b, PeersOf(b))'
    <3>1. BridgeDone(b)
      BY <1>9, <2>1, <2>3 DEF WaitBridges
    <3>2. BridgeMade(b, PeersOf(b) \ {})
      BY <2>1, <3>1 DEF BridgeDone, RunInv, BridgeGoes
    <3>3. BridgeMade(b, PeersOf(b))
      BY <3>2 DEF BridgeMade
    <3>4. PeersOf(b)' = PeersOf(b)
      BY <2>1 DEF PeersOf
    <3>5. \A q, m : HasMaster(q, Root, m)' <=> HasMaster(q, Root, m)
      BY <2>1 DEF HasMaster
    <3> QED  BY <2>1, <3>3, <3>4, <3>5 DEF BridgeMade, FileBridges
  <2>4. FileBridges' = FileBridges
    BY <2>1 DEF FileBridges
  <2> QED  BY <2>1, <2>2, <2>3, <2>4 DEF RunInv
<1>10. CASE OtherProjects \/ UNCHANGED vars
  <2>1. /\ UNCHANGED <<pc, running, layout, loads, mgntNs, listed, lost, devs, hostMaster>>
        /\ UNCHANGED <<known, raced, nodeAt, bridgeAt, holds, todo, writing>>
    BY <1>10 DEF OtherProjects, vars
  <2>2. MgntMade => MgntMade'
    BY <2>1, MgntMadeStays
  <2>3. \A n : (OnMgnt(n) => OnMgnt(n)') /\ (InList(n) => InList(n)')
    BY <2>1, MgntStays
  <2>4. FileBridges' = FileBridges /\ \A b : PeersOf(b)' = PeersOf(b)
    BY <2>1 DEF FileBridges, PeersOf
  <2>5. \A b : BridgeGoes(b) => BridgeGoes(b)'
    BY <2>1, BridgeGoesOn
  <2>6. \A b : BridgeMade(b, PeersOf(b)) => BridgeMade(b, PeersOf(b))'
    <3> SUFFICES ASSUME NEW b, BridgeMade(b, PeersOf(b)) PROVE BridgeMade(b, PeersOf(b))'
      OBVIOUS
    <3>1. \A q, m : HasMaster(q, Root, m)' <=> HasMaster(q, Root, m)
      BY <2>1 DEF HasMaster
    <3> QED  BY <2>1, <2>4, <3>1 DEF BridgeMade
  <2>7. pc' \in {"run", "nodes", "links", "bridges"} => ~running'
    BY <2>1 DEF RunInv
  <2>8. pc' = "nodes" => \A n \in MgntNodes :
            /\ nodeAt'[n] \in {"read", "append", "done"} => OnMgnt(n)'
            /\ nodeAt'[n] = "done" => InList(n)'
    BY <2>1, <2>3 DEF RunInv
  <2>9. /\ pc' \in {"links", "bridges"} => MgntMade'
        /\ pc' = "bridges" => \A b \in FileBridges' : BridgeGoes(b)'
        /\ pc' = "loaded" /\ running' =>
              MgntMade' /\ \A b \in FileBridges' : BridgeMade(b, PeersOf(b))'
    BY <2>1, <2>2, <2>4, <2>5, <2>6 DEF RunInv
  <2> QED  BY <2>7, <2>8, <2>9 DEF RunInv
<1> QED
  BY <1>1, <1>2, <1>3, <1>4, <1>5, <1>6, <1>7, <1>8, <1>9, <1>10 DEF Next

\* A run that has succeeded has put every bridge on the host with its interface
\* and those of the nodes, and every node on the management network: whatever
\* earlier runs left, and in any order of the goroutines.
THEOREM RunsConnect == Spec => []RunConnects
<1>1. Init => RunInv
  BY DEF Init, RunInv
<1>2. HostInv /\ RunInv /\ [Next]_vars => RunInv'
  BY RunStep DEF HostInv
<1>3. RunInv => RunConnects
  <2> SUFFICES ASSUME RunInv, running, pc = "loaded"
               PROVE  /\ \A b \in FileBridges : BridgeMade(b, PeersOf(b))
                      /\ MgntMade
    BY DEF RunConnects, BridgeMade, MgntMade, OnMgnt, InList
  <2> QED  BY DEF RunInv
<1> QED  BY <1>1, <1>2, <1>3, HostInvariant, PTL DEF Spec

-----------------------------------------------------------------------------
(* LinkQoS: what a request of a link has read and done.                      *)

\* What Read finds for the call a request is at.
ReadOf(r) ==
    LET c == Calls[step[r]]
        q == Effective(config, c.end)
    IN  IF c.kind = "netem"
        THEN [needed |-> NetemRequired(q), change |-> hasNetem[c.end],
              qdisc |-> NetemOf(q)]
        ELSE [needed |-> q["rate"] > 0, change |-> hasTbf[c.end],
              qdisc |-> TbfOf(q, config)]

\* The effect of a call is that of the configuration as it is now.
Applied(c) ==
    LET q == Effective(config, c.end)
    IN  IF c.kind = "netem"
        THEN NetemRequired(q) => netem[c.end] = NetemOf(q)
        ELSE q["rate"] > 0 => tbf[c.end] = TbfOf(q, config)

\* The calls a request has done have that effect, for ends that did not move.
DoneCalls(r) ==
    \A k \in 1 .. 4 : k < step[r] /\ Calls[k].end \notin moved => Applied(Calls[k])

\* A request that did not begin has nothing behind it.
FreshRequests == \A r \in Requests : result[r] = "none" => step[r] = 1

\* While no two requests overlapped, there is at most one in progress, what it
\* has read is still so, and its calls had their effect.
SoloInv ==
    ~mixed =>
        /\ \A r, s \in Active : r = s
        /\ \A r \in Active : DoneCalls(r)
        /\ \A r \in Active : plan[r] # Nothing => plan[r] = ReadOf(r)
        /\ QdiscsFollowConfig

\* The inductive invariant.
QosInv == TypeOK /\ FreshRequests /\ FlagsAgree /\ SoloInv

-----------------------------------------------------------------------------
(* Operators.                                                               *)

\* The calls, one by one.
LEMMA TheCalls ==
    /\ \A k \in 1 .. 4 : Calls[k] \in [kind : {"netem", "tbf"}, end : Ends]
    /\ \A e \in Ends : \E k \in 1 .. 4 :
          Calls[k] = [kind |-> "netem", end |-> e]
    /\ \A e \in Ends : \E k \in 1 .. 4 :
          Calls[k] = [kind |-> "tbf", end |-> e]
    /\ \A k \in 1 .. 4 : Calls[k].kind = "tbf" =>
          \E m \in 1 .. 4 :
              m < k /\ Calls[m] = [kind |-> "netem", end |-> Calls[k].end]
    /\ \A k, m \in 1 .. 4 : Calls[k] = Calls[m] => k = m
<1>1. /\ Calls[1] = [kind |-> "netem", end |-> 1]
      /\ Calls[2] = [kind |-> "netem", end |-> 2]
      /\ Calls[3] = [kind |-> "tbf", end |-> 1]
      /\ Calls[4] = [kind |-> "tbf", end |-> 2]
  BY DEF Calls
<1>2. \A k \in 1 .. 4 : k = 1 \/ k = 2 \/ k = 3 \/ k = 4
  OBVIOUS
<1>3. \A k \in 1 .. 4 : Calls[k] \in [kind : {"netem", "tbf"}, end : Ends]
  BY <1>1, <1>2 DEF Ends
<1>4. \A e \in Ends : /\ \E k \in 1 .. 4 : Calls[k] = [kind |-> "netem", end |-> e]
                      /\ \E k \in 1 .. 4 : Calls[k] = [kind |-> "tbf", end |-> e]
  <2> SUFFICES ASSUME NEW e \in Ends
               PROVE  /\ \E k \in 1 .. 4 : Calls[k] = [kind |-> "netem", end |-> e]
                      /\ \E k \in 1 .. 4 : Calls[k] = [kind |-> "tbf", end |-> e]
    OBVIOUS
  <2>1. CASE e = 1  BY <1>1, <2>1
  <2>2. CASE e = 2  BY <1>1, <2>2
  <2> QED  BY <2>1, <2>2 DEF Ends
<1>5. \A k \in 1 .. 4 : Calls[k].kind = "tbf" =>
          \E m \in 1 .. 4 :
              m < k /\ Calls[m] = [kind |-> "netem", end |-> Calls[k].end]
  <2> SUFFICES ASSUME NEW k \in 1 .. 4, Calls[k].kind = "tbf"
               PROVE  \E m \in 1 .. 4 :
                         m < k /\ Calls[m] = [kind |-> "netem", end |-> Calls[k].end]
    OBVIOUS
  <2>1. CASE k = 3  BY <1>1, <2>1
  <2>2. CASE k = 4  BY <1>1, <2>2
  <2> QED  BY <1>1, <1>2, <2>1, <2>2
<1>6. \A k, m \in 1 .. 4 : Calls[k] = Calls[m] => k = m
  BY <1>1, <1>2
<1> QED  BY <1>3, <1>4, <1>5, <1>6

\* The parameters computed from a configuration are those of a qdisc.
LEMMA QdiscTypes ==
    ASSUME NEW c \in [all : QoS, end : [Ends -> QoS]], NEW e \in Ends
    PROVE  /\ Effective(c, e) \in QoS
           /\ NetemRequired(Effective(c, e)) \in BOOLEAN
           /\ NetemOf(Effective(c, e)) \in NetemQdisc
           /\ TbfOf(Effective(c, e), c) \in TbfQdisc
<1> DEFINE q == Effective(c, e)
<1>1. q \in QoS
  BY DEF Effective
<1>2. \A p \in QoS : \A f \in Fields : p[f] \in Nat
  BY DEF QoS
<1>3. /\ q["loss"] \in Nat /\ q["delay"] \in Nat /\ q["jitter"] \in Nat
      /\ q["rate"] \in Nat /\ q["buffer"] \in Nat /\ c.all["jitter"] \in Nat
  BY <1>1, <1>2 DEF Fields
<1> HIDE DEF q
<1>4. NetemRequired(q) \in BOOLEAN /\ NetemOf(q) \in NetemQdisc
  BY <1>3 DEF NetemRequired, NetemOf, NetemQdisc
<1>5. TbfOf(q, c) \in TbfQdisc
  <2>1. \A x, y \in Nat : x * y \in Nat /\ x + y \in Nat
    OBVIOUS
  <2>2. \A x \in Nat : x \div 8 \in Nat
    OBVIOUS
  <2>3. (q["rate"] * 125) % Word \in Nat /\ Burst(q["rate"]) \in Nat
    <3>1. \A x \in Nat : x % Word \in Nat
      BY OtherAssumption
    <3>2. q["rate"] * 125 \in Nat /\ (q["rate"] * 4) \div 8 \in Nat
      BY <1>3, <2>2
    <3> QED  BY <3>1, <3>2 DEF Burst
  <2>4. q["buffer"] * q["rate"] \in Nat /\ q["delay"] + c.all["jitter"] \in Nat
    BY <1>3, <2>1
  <2>5. (q["buffer"] * q["rate"] * (q["delay"] + c.all["jitter"])) \div 8 \in Nat
    BY <2>1, <2>2, <2>4
  <2> QED  BY <2>3, <2>5 DEF TbfOf, TbfQdisc
<1> QED  BY <1>1, <1>4, <1>5 DEF q

\* What a request reads has the type of what it needs.
LEMMA ReadType ==
    ASSUME TypeOK, NEW r \in Requests, step[r] <= 4
    PROVE  /\ ReadOf(r) \in Plan
           /\ ReadOf(r).qdisc \in IF Calls[step[r]].kind = "netem"
                                  THEN NetemQdisc ELSE TbfQdisc
<1> DEFINE c == Calls[step[r]]
<1>1. step[r] \in 1 .. 4
  BY DEF TypeOK
<1>2. c \in [kind : {"netem", "tbf"}, end : Ends]
  BY <1>1, TheCalls
<1>3. /\ config \in [all : QoS, end : [Ends -> QoS]] /\ c.end \in Ends
      /\ hasNetem[c.end] \in BOOLEAN /\ hasTbf[c.end] \in BOOLEAN
  BY <1>2 DEF TypeOK
<1>4. /\ Effective(config, c.end) \in QoS
      /\ NetemRequired(Effective(config, c.end)) \in BOOLEAN
      /\ NetemOf(Effective(config, c.end)) \in NetemQdisc
      /\ TbfOf(Effective(config, c.end), config) \in TbfQdisc
  BY <1>3, QdiscTypes
<1> HIDE DEF c
<1>5. CASE c.kind = "netem"
  BY <1>3, <1>4, <1>5 DEF ReadOf, Plan, c
<1>6. CASE c.kind # "netem"
  BY <1>3, <1>4, <1>6 DEF ReadOf, Plan, c
<1> QED  BY <1>5, <1>6

-----------------------------------------------------------------------------
(* Types.                                                                   *)

\* The variables have their types to begin with.
LEMMA QosInitType == QosInit => TypeOK
<1> SUFFICES ASSUME QosInit PROVE TypeOK
  OBVIOUS
<1>1. PICK f \in Files : config = WithDefaults(f)
  BY DEF QosInit
<1>2. f \in [all : QoS, end : [Ends -> QoS]]
  BY FilesAssumption
<1>3. config \in [all : QoS, end : [Ends -> QoS]]
  BY <1>1, <1>2 DEF WithDefaults, QoS, Fields
<1>4. result \in [Requests -> {"none", "active", "ok", "error"}]
  BY DEF QosInit
<1>5. \A r \in Requests : plan[r] = Nothing
  BY DEF QosInit
<1>6. moves \in 0 .. MaxMoves
  BY OtherAssumption DEF QosInit
<1>7. /\ hasNetem \in [Ends -> BOOLEAN] /\ hasTbf \in [Ends -> BOOLEAN]
      /\ netem \in [Ends -> NetemQdisc \cup {Nothing}]
      /\ tbf \in [Ends -> TbfQdisc \cup {Nothing}]
      /\ step \in [Requests -> 1 .. 5]
      /\ plan \in [Requests -> Plan \cup {Nothing}]
  BY DEF QosInit
<1>8. veth \in BOOLEAN /\ mixed \in BOOLEAN /\ moved = {} /\ stale = {}
  BY DEF QosInit
<1>9. stale \subseteq Requests \X moved /\ moved \subseteq Ends
  BY <1>8
<1> QED  BY <1>3, <1>4, <1>5, <1>6, <1>7, <1>8, <1>9 DEF TypeOK

\* Every step keeps the types.
LEMMA QosTypeStep == TypeOK /\ [QosNext]_qosVars => TypeOK'
<1> SUFFICES ASSUME TypeOK, [QosNext]_qosVars PROVE TypeOK'
  OBVIOUS
<1> USE DEF TypeOK
<1>1. CASE Setup
  BY <1>1 DEF Setup, Begins, object, nodes, Requests
<1>2. ASSUME NEW r \in Updates, Update(r) PROVE TypeOK'
  <2>1. PICK a \in Asks : config' = [config EXCEPT !.end = a]
    BY <1>2 DEF Update
  <2>2. config' \in [all : QoS, end : [Ends -> QoS]]
    BY <2>1, AsksAssumption
  <2> QED  BY <1>2, <2>2 DEF Update, Begins, qdiscs, nodes, Requests
<1>3. ASSUME NEW r \in Requests, Read(r) PROVE TypeOK'
  <2>1. plan' = [plan EXCEPT ![r] = ReadOf(r)]
    BY <1>3 DEF Read, ReadOf
  <2>2. /\ ReadOf(r) \in Plan /\ step[r] <= 4 /\ result[r] = "active"
        /\ ReadOf(r).qdisc \in IF Calls[step[r]].kind = "netem"
                               THEN NetemQdisc ELSE TbfQdisc
    BY <1>3, ReadType DEF Read
  <2> QED  BY <1>3, <2>1, <2>2 DEF Read, object, qdiscs, nodes
<1>4. ASSUME NEW r \in Requests, Skip(r) PROVE TypeOK'
  BY <1>4 DEF Skip, Next4, object, qdiscs, nodes
<1>5. ASSUME NEW r \in Requests, Apply(r) PROVE TypeOK'
  <2> DEFINE c == Calls[step[r]]
  <2>1. /\ step[r] \in 1 .. 4 /\ plan[r] \in Plan
        /\ plan[r].qdisc \in IF c.kind = "netem" THEN NetemQdisc ELSE TbfQdisc
    BY <1>5 DEF Apply
  <2>2. c.end \in Ends
    BY <2>1, TheCalls
  <2>3. step' \in [Requests -> 1 .. 5] /\ plan' = [plan EXCEPT ![r] = Nothing]
    BY <1>5, <2>1 DEF Apply, Next4
  <2>4. \A s \in Requests : plan'[s] # Nothing =>
            s # r /\ plan'[s] = plan[s] /\ step'[s] = step[s]
    BY <1>5, <2>3 DEF Apply, Next4
  <2>5. CASE c.kind = "netem"
    <3>1. /\ netem' = [netem EXCEPT ![c.end] = plan[r].qdisc]
          /\ hasNetem' = [hasNetem EXCEPT ![c.end] = TRUE]
          /\ UNCHANGED <<config, tbf, hasTbf, veth, result, moves, stale, moved, mixed>>
      BY <1>5, <2>5 DEF Apply, nodes
    <3>2. netem' \in [Ends -> NetemQdisc \cup {Nothing}] /\ hasNetem' \in [Ends -> BOOLEAN]
      BY <2>1, <2>2, <2>5, <3>1
    <3> HIDE DEF c
    <3> QED  BY <2>3, <2>4, <3>1, <3>2
  <2>6. CASE c.kind # "netem"
    BY <1>5, <2>1, <2>2, <2>3, <2>4, <2>6, ZenonT(40) DEF Apply, nodes
  <2> HIDE DEF c
  <2> QED  BY <2>5, <2>6
<1>6. ASSUME NEW r \in Requests, Fail(r) PROVE TypeOK'
  BY <1>6 DEF Fail, object, qdiscs, nodes
<1>7. ASSUME NEW r \in Requests, Done(r) PROVE TypeOK'
  BY <1>7 DEF Done, object, qdiscs, nodes
<1>8. ASSUME NEW e \in Ends, Move(e) PROVE TypeOK'
  BY <1>8, OtherAssumption DEF Move, object, requests, Active
<1>9. CASE UNCHANGED qosVars
  BY <1>9 DEF qosVars, object, qdiscs, requests, nodes
<1> QED
  BY <1>1, <1>2, <1>3, <1>4, <1>5, <1>6, <1>7, <1>8, <1>9 DEF QosNext, Terminated

-----------------------------------------------------------------------------
(* The flags.                                                               *)

\* A flag and its qdisc change together: every step keeps them in agreement.
LEMMA FlagsStep == TypeOK /\ FlagsAgree /\ [QosNext]_qosVars => FlagsAgree'
<1> SUFFICES ASSUME TypeOK, FlagsAgree, [QosNext]_qosVars PROVE FlagsAgree'
  OBVIOUS
<1> USE DEF FlagsAgree
<1>1. ASSUME UNCHANGED <<hasNetem, hasTbf, netem, tbf, moved>> PROVE FlagsAgree'
  BY <1>1
<1>2. ASSUME NEW r \in Requests, Apply(r) PROVE FlagsAgree'
  <2> DEFINE c == Calls[step[r]]
  <2>1. /\ step[r] \in 1 .. 4 /\ plan[r] \in Plan
        /\ plan[r].qdisc \in IF c.kind = "netem" THEN NetemQdisc ELSE TbfQdisc
    BY <1>2 DEF Apply, TypeOK
  <2>2. c.end \in Ends
    BY <2>1, TheCalls
  <2>3. plan[r].qdisc # Nothing
    BY <2>1, OtherAssumption
  <2>4. moved' = moved /\ moved \subseteq Ends
    BY <1>2 DEF Apply, nodes, TypeOK
  <2>5. CASE c.kind = "netem"
    <3>1. /\ netem' = [netem EXCEPT ![c.end] = plan[r].qdisc]
          /\ hasNetem' = [hasNetem EXCEPT ![c.end] = TRUE]
          /\ UNCHANGED <<tbf, hasTbf>>
      BY <1>2, <2>5 DEF Apply
    <3> HIDE DEF c
    <3> QED  BY <2>2, <2>3, <2>4, <3>1 DEF TypeOK
  <2>6. CASE c.kind # "netem"
    <3>1. /\ tbf' = [tbf EXCEPT ![c.end] = plan[r].qdisc]
          /\ hasTbf' = [hasTbf EXCEPT ![c.end] = TRUE]
          /\ UNCHANGED <<netem, hasNetem>>
      BY <1>2, <2>6 DEF Apply
    <3> HIDE DEF c
    <3> QED  BY <2>2, <2>3, <2>4, <3>1 DEF TypeOK
  <2> HIDE DEF c
  <2> QED  BY <2>5, <2>6
<1>3. ASSUME NEW e \in Ends, Move(e) PROVE FlagsAgree'
  BY <1>3 DEF Move, object, TypeOK
<1>4. CASE Setup \/ \E r \in Updates : Update(r)
  BY <1>1, <1>4 DEF Setup, Update, object, qdiscs, nodes
<1>5. CASE \E r \in Requests : Read(r) \/ Skip(r) \/ Fail(r) \/ Done(r)
  BY <1>1, <1>5 DEF Read, Skip, Fail, Done, object, qdiscs, nodes
<1>6. CASE UNCHANGED qosVars
  BY <1>1, <1>6 DEF qosVars, object, qdiscs, nodes
<1> QED
  BY <1>2, <1>3, <1>4, <1>5, <1>6 DEF QosNext, Terminated

-----------------------------------------------------------------------------
(* One request at a time.                                                   *)

\* A request that has not begun has done nothing, after every step.
LEMMA FreshStep == TypeOK /\ FreshRequests /\ [QosNext]_qosVars => FreshRequests'
<1> SUFFICES ASSUME TypeOK, FreshRequests, [QosNext]_qosVars PROVE FreshRequests'
  OBVIOUS
<1> USE DEF FreshRequests, TypeOK
<1>1. CASE Setup \/ \E r \in Updates : Update(r)
  BY <1>1 DEF Setup, Update, Begins
<1>2. CASE \E r \in Requests : Read(r) \/ Fail(r) \/ Done(r)
  BY <1>2 DEF Read, Fail, Done
<1>3. CASE \E r \in Requests : Skip(r) \/ Apply(r)
  BY <1>3 DEF Skip, Apply, Next4
<1>4. CASE \E e \in Ends : Move(e)
  BY <1>4 DEF Move, requests
<1>5. CASE UNCHANGED qosVars
  BY <1>5 DEF qosVars, requests
<1> QED
  BY <1>1, <1>2, <1>3, <1>4, <1>5 DEF QosNext, Terminated

\* Each end that did not move has the qdiscs of the configuration.
ConfigApplied ==
    \A e \in Ends \ moved :
        LET q == Effective(config, e)
        IN  /\ NetemRequired(q) => netem[e] = NetemOf(q)
            /\ q["rate"] > 0 => tbf[e] = TbfOf(q, config)

\* When all four calls had their effect, the qdiscs are those of the
\* configuration.
LEMMA AllApplied ==
    ASSUME \A k \in 1 .. 4 : Calls[k].end \notin moved => Applied(Calls[k])
    PROVE  ConfigApplied
<1> SUFFICES ASSUME NEW e \in Ends \ moved
             PROVE  LET q == Effective(config, e)
                    IN  /\ NetemRequired(q) => netem[e] = NetemOf(q)
                        /\ q["rate"] > 0 => tbf[e] = TbfOf(q, config)
  BY DEF ConfigApplied
<1>1. PICK k \in 1 .. 4 : Calls[k] = [kind |-> "netem", end |-> e]
  BY TheCalls
<1>2. PICK m \in 1 .. 4 : Calls[m] = [kind |-> "tbf", end |-> e]
  BY TheCalls
<1>3. Calls[k].end = e /\ Calls[k].kind = "netem"
  BY <1>1
<1>4. Calls[m].end = e /\ Calls[m].kind = "tbf"
  BY <1>2
<1> QED  BY <1>3, <1>4 DEF Applied

\* A request in progress that has not failed, or one that failed, says that not
\* all requests succeeded.
LEMMA NotAllDone ==
    ASSUME NEW r \in Requests, result[r] \in {"active", "error"}
    PROVE  QdiscsFollowConfig
BY DEF QdiscsFollowConfig, Requests

\* What a request finds, and what its calls have done, depends on the link, its
\* qdiscs and the call the request is at.
LEMMA SameLink ==
    ASSUME NEW r, UNCHANGED <<config, hasNetem, hasTbf, step>>
    PROVE  /\ ReadOf(r)' = ReadOf(r)
           /\ UNCHANGED <<netem, tbf, moved>> => (DoneCalls(r)' <=> DoneCalls(r))
<1>1. ReadOf(r)' = ReadOf(r)
  BY DEF ReadOf
<1>2. ASSUME UNCHANGED <<netem, tbf, moved>>, NEW k \in 1 .. 4
      PROVE  Applied(Calls[k])' <=> Applied(Calls[k])
  BY <1>2 DEF Applied
<1> QED  BY <1>1, <1>2 DEF DoneCalls

\* A call that is done moves the request on, and has its effect.
LEMMA CallDone ==
    ASSUME TypeOK, SoloInv, ~mixed, NEW r \in Active, Skip(r) \/ Apply(r)
    PROVE  DoneCalls(r)'
<1>1. /\ step[r] \in 1 .. 4 /\ step' = [step EXCEPT ![r] = step[r] + 1]
      /\ r \in Requests /\ plan[r] \in Plan
  BY DEF Skip, Apply, Next4, TypeOK, Active
<1>2. /\ DoneCalls(r) /\ plan[r] = ReadOf(r)
      /\ UNCHANGED <<config, moved>>
  BY DEF SoloInv, Skip, Apply, nodes, object
<1> PICK n \in 1 .. 4 : n = step[r]
  BY <1>1
<1> DEFINE c == Calls[n]
<1>3. c.end \in Ends /\ c.kind \in {"netem", "tbf"}
  BY TheCalls
<1>4. c = Calls[step[r]]
  OBVIOUS
<1>8. /\ c.kind = "netem" => plan[r].needed = NetemRequired(Effective(config, c.end))
      /\ c.kind = "netem" => plan[r].qdisc = NetemOf(Effective(config, c.end))
      /\ c.kind # "netem" => plan[r].needed = (Effective(config, c.end)["rate"] > 0)
      /\ c.kind # "netem" => plan[r].qdisc = TbfOf(Effective(config, c.end), config)
  <2> HIDE DEF c
  <2> QED  BY <1>2, <1>4 DEF ReadOf
<1>5. Applied(c)'
  <2> HIDE DEF c
  <2>1. CASE Skip(r)
    <3>1. ~plan[r].needed /\ UNCHANGED <<netem, tbf>>
      BY <2>1 DEF Skip, qdiscs
    <3> QED  BY <1>2, <1>8, <3>1 DEF Applied
  <2>2. CASE Apply(r) /\ c.kind = "netem"
    <3>1. netem' = [netem EXCEPT ![c.end] = plan[r].qdisc]
      BY <1>4, <2>2 DEF Apply
    <3>2. netem'[c.end] = plan[r].qdisc
      BY <1>3, <3>1 DEF TypeOK
    <3> QED  BY <1>2, <1>8, <2>2, <3>2 DEF Applied
  <2>3. CASE Apply(r) /\ c.kind # "netem"
    <3>1. tbf' = [tbf EXCEPT ![c.end] = plan[r].qdisc]
      BY <1>4, <2>3 DEF Apply
    <3>2. tbf'[c.end] = plan[r].qdisc
      BY <1>3, <3>1 DEF TypeOK
    <3> QED  BY <1>2, <1>8, <2>3, <3>2 DEF Applied
  <2> QED  BY <2>1, <2>2, <2>3
<1>6. ASSUME NEW k \in 1 .. 4, k < n, Calls[k].end \notin moved
      PROVE  Applied(Calls[k])'
  <2> DEFINE d == Calls[k]
  <2>1. Applied(d)
    BY <1>2, <1>6 DEF DoneCalls
  <2>2. /\ d # c
        /\ d \in [kind : {"netem", "tbf"}, end : Ends]
        /\ c \in [kind : {"netem", "tbf"}, end : Ends]
    BY <1>6, TheCalls
  <2> HIDE DEF c, d
  <2>3. d.kind # c.kind \/ d.end # c.end
    BY <2>2
  <2>4. /\ d.kind = "netem" => netem'[d.end] = netem[d.end]
        /\ d.kind # "netem" => tbf'[d.end] = tbf[d.end]
    <3>1. CASE Skip(r)
      BY <3>1 DEF Skip, qdiscs
    <3>2. CASE Apply(r) /\ c.kind = "netem"
      <4>1. netem' = [netem EXCEPT ![c.end] = plan[r].qdisc] /\ UNCHANGED tbf
        BY <1>4, <3>2 DEF Apply
      <4> QED  BY <2>2, <2>3, <3>2, <4>1 DEF TypeOK
    <3>3. CASE Apply(r) /\ c.kind # "netem"
      <4>1. tbf' = [tbf EXCEPT ![c.end] = plan[r].qdisc] /\ UNCHANGED netem
        BY <1>4, <3>3 DEF Apply
      <4> QED  BY <2>2, <2>3, <3>3, <4>1 DEF TypeOK
    <3> QED  BY <3>1, <3>2, <3>3
  <2>5. Applied(d)'
    BY <1>2, <2>1, <2>4 DEF Applied
  <2> QED  BY <2>5 DEF d
<1> HIDE DEF c
<1>7. \A k \in 1 .. 4 : k < step'[r] => k < n \/ k = n
  BY <1>1 DEF TypeOK
<1> QED  BY <1>2, <1>5, <1>6, <1>7 DEF DoneCalls, c

\* An active request that did not do anything yet, alone.
LEMMA SoloBegins ==
    ASSUME TypeOK, FreshRequests, NEW r \in Requests, Begins(r), ~mixed',
           UNCHANGED <<step, plan>>
    PROVE  SoloInv'
<1>1. /\ Active = {} /\ result[r] = "none" /\ result' = [result EXCEPT ![r] = "active"]
      /\ step[r] = 1 /\ plan[r] = Nothing
  BY DEF Begins, FreshRequests, TypeOK
<1>2. Active' = {r}
  BY <1>1 DEF Active, TypeOK
<1>3. result'[r] = "active" /\ step'[r] = 1 /\ plan'[r] = Nothing
  BY <1>1 DEF TypeOK
<1>4. DoneCalls(r)'
  BY <1>3 DEF DoneCalls
<1>5. QdiscsFollowConfig'
  BY <1>3 DEF QdiscsFollowConfig, Requests
<1> QED  BY <1>2, <1>3, <1>4, <1>5 DEF SoloInv

\* While requests come one by one, a step of the one under way keeps what it
\* and those before it have done.
LEMMA SoloStep ==
    TypeOK /\ FreshRequests /\ SoloInv /\ [QosNext]_qosVars => SoloInv'
<1> SUFFICES ASSUME TypeOK, FreshRequests, SoloInv, [QosNext]_qosVars, ~mixed'
             PROVE  SoloInv'
  BY DEF SoloInv
<1>1. CASE Setup
  BY <1>1, SoloBegins DEF Setup, Requests
<1>2. ASSUME NEW r \in Updates, Update(r) PROVE SoloInv'
  BY <1>2, SoloBegins DEF Update, Requests
<1>3. ASSUME NEW r \in Requests, Read(r) PROVE SoloInv'
  <2>1. /\ plan' = [plan EXCEPT ![r] = ReadOf(r)] /\ r \in Active
        /\ UNCHANGED <<config, hasNetem, hasTbf, netem, tbf, step, result, moved>>
        /\ ~mixed
    BY <1>3 DEF Read, ReadOf, object, qdiscs, nodes, Active
  <2>2. Active' = Active /\ Active \subseteq Requests
    BY <2>1 DEF Active
  <2>3. ASSUME NEW s \in Active PROVE DoneCalls(s)' /\ ReadOf(s)' = ReadOf(s)
    BY <2>1, SameLink DEF SoloInv
  <2>4. ASSUME NEW s \in Active PROVE s = r /\ plan'[s] = ReadOf(r)
    BY <2>1, <2>2, <2>4 DEF SoloInv, TypeOK
  <2>5. QdiscsFollowConfig'
    BY <2>1 DEF SoloInv, QdiscsFollowConfig, Effective, TbfOf
  <2> QED  BY <2>1, <2>2, <2>3, <2>4, <2>5 DEF SoloInv
<1>4. ASSUME NEW r \in Requests, Skip(r) \/ Apply(r) PROVE SoloInv'
  <2>1. ~mixed /\ r \in Active /\ UNCHANGED result /\ plan' = [plan EXCEPT ![r] = Nothing]
    BY <1>4 DEF Skip, Apply, Next4, Active, TypeOK
  <2>2. DoneCalls(r)'
    BY <1>4, <2>1, CallDone
  <2>3. Active' = {r} /\ plan'[r] = Nothing
    BY <2>1 DEF Active, SoloInv, TypeOK
  <2>4. QdiscsFollowConfig'
    BY <2>1, <1>4 DEF Active, QdiscsFollowConfig, Requests
  <2> QED  BY <2>2, <2>3, <2>4 DEF SoloInv
<1>5. ASSUME NEW r \in Requests, Fail(r) PROVE SoloInv'
  <2>1. ~mixed /\ r \in Active /\ result' = [result EXCEPT ![r] = "error"]
    BY <1>5 DEF Fail, Active, TypeOK
  <2>2. Active' = {} /\ result'[r] = "error"
    BY <2>1 DEF Active, SoloInv, TypeOK
  <2>3. QdiscsFollowConfig'
    BY <2>2 DEF QdiscsFollowConfig, Requests
  <2> QED  BY <2>2, <2>3 DEF SoloInv
<1>6. ASSUME NEW r \in Requests, Done(r) PROVE SoloInv'
  <2>1. PICK x \in {"ok", "error"} : result' = [result EXCEPT ![r] = x]
    BY <1>6 DEF Done
  <2>2. /\ ~mixed /\ r \in Active /\ step[r] = 5
        /\ UNCHANGED <<config, netem, tbf, moved>>
    BY <1>6 DEF Done, Active, object, qdiscs, nodes
  <2>3. Active' = {}
    BY <2>1, <2>2 DEF Active, SoloInv, TypeOK
  <2>4. \A k \in 1 .. 4 : Calls[k].end \notin moved => Applied(Calls[k])
    BY <2>2 DEF SoloInv, DoneCalls
  <2>5. ConfigApplied
    BY <2>4, AllApplied
  <2>6. QdiscsFollowConfig'
    BY <2>2, <2>5 DEF QdiscsFollowConfig, ConfigApplied
  <2> QED  BY <2>3, <2>6 DEF SoloInv
<1>7. ASSUME NEW e \in Ends, Move(e) PROVE SoloInv'
  <2>1. /\ moved' = moved \cup {e} /\ ~mixed
        /\ netem' = [netem EXCEPT ![e] = Nothing] /\ tbf' = [tbf EXCEPT ![e] = Nothing]
        /\ UNCHANGED <<config, hasNetem, hasTbf, step, plan, result>>
    BY <1>7 DEF Move, object, requests
  <2>2. Active' = Active /\ \A r \in Active : ReadOf(r)' = ReadOf(r)
    BY <2>1 DEF Active, ReadOf, Effective, TbfOf
  <2>3. \A d \in Ends : d \notin moved' => netem'[d] = netem[d] /\ tbf'[d] = tbf[d]
    BY <2>1 DEF TypeOK
  <2>4. ASSUME NEW r \in Active, NEW k \in 1 .. 4, k < step[r], Calls[k].end \notin moved'
        PROVE  Applied(Calls[k])'
    <3>1. Calls[k].end \in Ends /\ Calls[k].end \notin moved
      BY <2>1, <2>4, TheCalls
    <3>2. Applied(Calls[k])
      BY <2>1, <2>4, <3>1 DEF SoloInv, DoneCalls
    <3> QED  BY <2>1, <2>3, <2>4, <3>1, <3>2 DEF Applied, Effective, TbfOf
  <2>5. \A r \in Active : DoneCalls(r)'
    BY <2>1, <2>4 DEF DoneCalls
  <2>6. QdiscsFollowConfig'
    BY <2>1, <2>3 DEF SoloInv, QdiscsFollowConfig, Effective, TbfOf
  <2> QED  BY <2>1, <2>2, <2>5, <2>6 DEF SoloInv
<1>8. CASE UNCHANGED qosVars
  <2>1. /\ UNCHANGED <<config, hasNetem, hasTbf, netem, tbf, step, plan, result>>
        /\ UNCHANGED <<moved, mixed>> /\ ~mixed
    BY <1>8 DEF qosVars, object, qdiscs, requests, nodes
  <2>2. Active' = Active /\ (QdiscsFollowConfig' <=> QdiscsFollowConfig)
    BY <2>1 DEF Active, QdiscsFollowConfig
  <2>3. \A r \in Active : DoneCalls(r)' /\ ReadOf(r)' = ReadOf(r)
    BY <2>1, SameLink DEF SoloInv
  <2> QED  BY <2>1, <2>2, <2>3 DEF SoloInv
<1> QED
  BY <1>1, <1>2, <1>3, <1>4, <1>5, <1>6, <1>7, <1>8 DEF QosNext, Terminated

-----------------------------------------------------------------------------
(* The theorems.                                                            *)

\* The invariant holds of a link that was loaded.
LEMMA QosStarts == QosInit => QosInv
<1> SUFFICES ASSUME QosInit PROVE QosInv
  OBVIOUS
<1>1. TypeOK
  BY QosInitType
<1>2. Active = {} /\ result[SetUp] = "none"
  BY DEF QosInit, Active, Requests
<1>3. FreshRequests /\ FlagsAgree
  BY DEF QosInit, FreshRequests, FlagsAgree
<1> QED  BY <1>1, <1>2, <1>3 DEF QosInv, SoloInv, QdiscsFollowConfig

\* The inductive invariant holds in every reachable state.
THEOREM QosInvariant == QosSpec => []QosInv
<1>1. QosInv /\ [QosNext]_qosVars => QosInv'
  BY QosTypeStep, FlagsStep, FreshStep, SoloStep DEF QosInv
<1> QED  BY QosStarts, <1>1, PTL DEF QosSpec

\* A request only ever plans a qdisc of the kind of the call it is at, with
\* parameters that are numbers, and only while it is in progress.
THEOREM QosTypeCorrect == QosSpec => []TypeOK
<1>1. QosInv => TypeOK
  BY DEF QosInv
<1> QED  BY <1>1, QosInvariant, PTL

\* HasPeerNNetem and HasPeerNTbf tell what the kernel has for an end whose
\* interface did not move, however many requests overlap and wherever they fail.
THEOREM FlagsAreTrue == QosSpec => []FlagsAgree
<1>1. QosInv => FlagsAgree
  BY DEF QosInv
<1> QED  BY <1>1, QosInvariant, PTL

\* After a setup and updates that all succeeded, one after the other, the kernel
\* has the qdiscs of the last configuration.
THEOREM LastUpdateHolds == QosSpec => []QdiscsFollowConfig
<1>1. QosInv => QdiscsFollowConfig
  BY DEF QosInv, SoloInv, QdiscsFollowConfig
<1> QED  BY <1>1, QosInvariant, PTL

\* The kernel accepts every call of a link that CheckTopology accepts.
LEMMA CallAccepted ==
    ASSUME QosInv, NEW r \in Requests, Fail(r), ~mixed, moved = {}, veth,
           config.all["rate"] > 0 =>
               config.all["delay"] > 0 /\ Burst(config.all["rate"]) > 0,
           \A e \in Ends : config.end[e]["rate"] = 0
    PROVE  Accepted(r, Calls[step[r]], plan[r])
<1>1. /\ r \in Active /\ plan[r] # Nothing /\ plan[r].needed /\ TypeOK
      /\ DoneCalls(r) /\ plan[r] = ReadOf(r)
  BY DEF QosInv, SoloInv, TypeOK, Fail, Active
<1>2. step[r] \in 1 .. 4
  BY <1>1 DEF TypeOK
<1> PICK n \in 1 .. 4 : n = step[r]
  BY <1>2
<1> DEFINE c == Calls[n]
           q == Effective(config, c.end)
<1>3. c \in [kind : {"netem", "tbf"}, end : Ends]
  BY TheCalls
<1>4. <<r, c.end>> \notin stale
  BY <1>1 DEF TypeOK
<1>5. /\ hasNetem[c.end] <=> netem[c.end] # Nothing
      /\ hasTbf[c.end] <=> tbf[c.end] # Nothing
  BY <1>3 DEF QosInv, FlagsAgree
<1>6. CASE c.kind = "netem"
  <2>1. plan[r].change = hasNetem[c.end]
    BY <1>1, <1>6 DEF ReadOf
  <2> QED  BY <1>4, <1>5, <1>6, <2>1 DEF Accepted
<1>7. CASE c.kind = "tbf"
  <2>1. plan[r].change = hasTbf[c.end] /\ q["rate"] > 0
    <3> HIDE DEF c
    <3>1. Calls[step[r]] = c /\ c.kind # "netem"
      BY <1>7 DEF c
    <3>2. /\ ReadOf(r).change = hasTbf[c.end]
          /\ ReadOf(r).needed = (q["rate"] > 0)
      BY <3>1 DEF ReadOf
    <3> QED  BY <1>1, <3>2
  <2>2. config \in [all : QoS, end : [Ends -> QoS]]
    BY <1>1 DEF TypeOK
  <2>3. q = config.all /\ NetemRequired(q)
    BY <1>3, <2>1 DEF Effective, NetemRequired
  <2>4. PICK m \in 1 .. 4 : m < n /\ Calls[m] = [kind |-> "netem", end |-> c.end]
    BY <1>7, TheCalls
  <2>5. Applied(Calls[m])
    BY <1>1, <2>4 DEF DoneCalls
  <2>6. netem[c.end] = NetemOf(q)
    BY <2>3, <2>4, <2>5 DEF Applied
  <2>7. NetemOf(q) \in NetemQdisc
    BY <1>3, <2>2, QdiscTypes
  <2>8. netem[c.end] # Nothing
    BY <2>6, <2>7, OtherAssumption
  <2>9. plan[r].qdisc.burst > 0
    <3>1. ReadOf(r).qdisc = TbfOf(q, config)
      <4> HIDE DEF c
      <4>1. Calls[step[r]] = c /\ c.kind # "netem"
        BY <1>7 DEF c
      <4> QED  BY <4>1 DEF ReadOf
    <3>2. plan[r].qdisc.burst = Burst(config.all["rate"])
      BY <1>1, <2>3, <3>1 DEF TbfOf
    <3> QED  BY <2>1, <2>3, <3>2
  <2> QED  BY <1>4, <1>5, <1>7, <2>1, <2>8, <2>9 DEF Accepted
<1> QED  BY <1>3, <1>6, <1>7

\* A link that CheckTopology accepts is set up and updated without the kernel
\* refusing a qdisc, for all its QoS and in whatever order its requests come.
THEOREM CheckedLinksAreAccepted == QosSpec => CheckedLinksWork
<1>1. ASSUME QosInv
      PROVE  \A r \in Requests :
               (/\ Fail(r)
                /\ config.all["rate"] > 0 =>
                       config.all["delay"] > 0 /\ Burst(config.all["rate"]) > 0
                /\ \A e \in Ends : config.end[e]["rate"] = 0
                /\ ~mixed /\ moved = {} /\ veth)
               => Accepted(r, Calls[step[r]], plan[r])
  BY <1>1, CallAccepted
<1> QED  BY <1>1, QosInvariant, PTL DEF CheckedLinksWork

=============================================================================
