------------------------ MODULE TopologyFile_proofs ------------------------
(***************************************************************************)
(* Proofs about TopologyFile, for any nodes, files and links and any       *)
(* number of requests, and about the identifiers the nodes of a file get   *)
(* (NodeIds), for any names, files and characters.                         *)
(***************************************************************************)
EXTENDS TopologyFile, NodeIds, SequenceTheorems, FiniteSetTheorems, TLAPS

-----------------------------------------------------------------------------
(* Sequences, files and configurations.                                     *)

\* Where the links of a file go in t.links.
LEMMA WithinSum ==
  \A a, n, m \in Nat : a + n <= m => \A i \in 1..n : a + i \in 1..m
OBVIOUS

\* A function on 1..n is a sequence of length n.
LEMMA FunctionIsSequence ==
    ASSUME NEW T, NEW n \in Nat, NEW f \in [1..n -> T]
    PROVE  f \in Seq(T) /\ Len(f) = n
<1>1. \A i \in 1..n : f[i] \in T
  OBVIOUS
<1>2. f = [i \in 1..n |-> f[i]]
  OBVIOUS
<1>3. [i \in 1..n |-> f[i]] \in Seq(T) /\ Len([i \in 1..n |-> f[i]]) = n
  BY <1>1
<1> QED BY <1>2, <1>3

\* The names of nodes are names.
LEMMA NamesType ==
    ASSUME NEW ns \in SUBSET (Nodes \X BOOLEAN)
    PROVE  /\ Names(ns) \subseteq Nodes
           /\ Names(ns) \X {TRUE} \subseteq Nodes \X BOOLEAN
           /\ Names(Names(ns) \X {TRUE}) = Names(ns)
<1>1. \A n \in ns : n[1] \in Nodes
  OBVIOUS
<1>2. Names(ns) \subseteq Nodes
  BY <1>1 DEF Names
<1>3. Names(ns) \X {TRUE} \subseteq Nodes \X BOOLEAN
  BY <1>2
<1> DEFINE M == Names(ns)
<1> HIDE DEF M
<1>4. \A x \in M : <<x, TRUE>> \in M \X {TRUE} /\ <<x, TRUE>>[1] = x
  OBVIOUS
<1>5. \A n \in M \X {TRUE} : n[1] \in M
  OBVIOUS
<1>6. {n[1] : n \in M \X {TRUE}} = M
  BY <1>4, <1>5
<1> QED BY <1>2, <1>3, <1>6 DEF M, Names

\* The default buffer changes nothing else, and nothing when there is a buffer.
LEMMA BufferGiven ==
    ASSUME NEW l \in LinkConfig
    PROVE  /\ WithBuffer(l) \in LinkConfig /\ WithBuffer(l).buffer
           /\ WithBuffer(l).peer1 = l.peer1 /\ WithBuffer(l).peer2 = l.peer2
           /\ WithBuffer(l).rate = l.rate
           /\ l.buffer => WithBuffer(l) = l
BY DEF WithBuffer, LinkConfig

\* The parts of a file.
LEMMA FileParts ==
    ASSUME NEW f \in File
    PROVE  /\ f.nodes \subseteq Nodes \X BOOLEAN
           /\ f.links \in Seq(LinkConfig) /\ Len(f.links) \in Nat
           /\ DOMAIN f.links = 1..Len(f.links)
           /\ \A i \in 1..Len(f.links) : f.links[i] \in LinkConfig
           /\ f.bridges \subseteq Bridges \cup {IfName(b) : b \in Bridges}
           /\ f # Torn
<1>1. f # Torn
  BY TopologyFileAssumption
<1>2. /\ f.nodes \in SUBSET (Nodes \X BOOLEAN) /\ f.links \in Seq(LinkConfig)
      /\ f.bridges \in SUBSET (Bridges \cup {IfName(b) : b \in Bridges})
  BY DEF File
<1> QED BY <1>1, <1>2

\* The configurations of t.links.
LEMMA ConfigsType ==
    ASSUME TypeOK
    PROVE  /\ Configs \in Seq(LinkConfig) /\ Len(Configs) = Len(table)
           /\ DOMAIN Configs = 1..Len(table)
           /\ \A i \in 1..Len(table) : /\ Configs[i] = Config(table[i])
                                       /\ Config(table[i]) \in LinkConfig
                                       /\ table[i] \in 1..Len(objects)
<1>1. Len(table) \in Nat /\ \A i \in 1..Len(table) : table[i] \in 1..Len(objects)
  BY DEF TypeOK
<1>2. \A k \in 1..Len(objects) : objects[k] \in LinkConfig
  BY DEF TypeOK
<1>3. \A i \in 1..Len(table) : Config(table[i]) \in LinkConfig
  BY <1>1, <1>2 DEF Config
<1>4. Configs \in [1..Len(table) -> LinkConfig]
  BY <1>3 DEF Configs
<1> QED BY <1>1, <1>3, <1>4, FunctionIsSequence DEF Configs

\* What SynchroniseTopology writes is a file.
LEMMA TopologyType == TypeOK => Topology \in File
<1> SUFFICES ASSUME TypeOK PROVE Topology \in File
  OBVIOUS
<1>1. Names(nodes) \X {TRUE} \in SUBSET (Nodes \X BOOLEAN)
  BY NamesType DEF TypeOK
<1>2. {IfName(b) : b \in bridges} \subseteq Bridges \cup {IfName(b) : b \in Bridges}
  BY DEF TypeOK
<1>3. Configs \in Seq(LinkConfig)
  BY ConfigsType
<1> QED BY <1>1, <1>2, <1>3 DEF Topology, File

\* The empty file is a file.
LEMMA EmptyType == Empty \in File
BY DEF Empty, File

\* A user's change makes a file of a file.
LEMMA EditedType ==
    ASSUME NEW f \in File \cup {Torn}, NEW r \in Requests, TypeOK
    PROVE  Edited(f, r) \in File \cup {Torn}
<1>1. CASE f = Torn
  BY <1>1 DEF Edited
<1>2. CASE f # Torn
  <2>1. f \in File
    BY <1>2
  <2>2. Append(f.links, Link(r)) \in Seq(LinkConfig)
    BY <2>1, FileParts DEF TypeOK
  <2>3. f.nodes \cup plan[r].nodes \in SUBSET (Nodes \X BOOLEAN)
    BY <2>1, FileParts DEF TypeOK
  <2>4. Edited(f, r) = [f EXCEPT !.links = Append(@, Link(r)), !.nodes = @ \cup plan[r].nodes]
    BY <1>2 DEF Edited
  <2> QED BY <2>1, <2>2, <2>3, <2>4 DEF File
<1> QED BY <1>1, <1>2

-----------------------------------------------------------------------------
(* The steps of one request.                                                *)

\* A request that goes on.
LEMMA GotoType ==
    ASSUME TypeOK, NEW r \in Requests, NEW p \in Positions, Goto(r, p)
    PROVE  /\ at' \in [Requests -> Positions]
           /\ answer' \in [Requests -> {"none", "ok", "error", "refused"}]
           /\ last' \in Seq(Requests)
           /\ at'[r] = p /\ \A q \in Requests \ {r} : at'[q] = at[q]
           /\ answer' = answer /\ last' = last
BY DEF TypeOK, Goto

\* A request that ends.
LEMMA ReplyType ==
    ASSUME TypeOK, NEW r \in Requests, NEW a \in {"ok", "error", "refused"}, Reply(r, a)
    PROVE  /\ at' \in [Requests -> Positions]
           /\ answer' \in [Requests -> {"none", "ok", "error", "refused"}]
           /\ last' \in Seq(Requests)
           /\ at'[r] = "done" /\ \A q \in Requests \ {r} : at'[q] = at[q]
           /\ answer'[r] = a /\ \A q \in Requests \ {r} : answer'[q] = answer[q]
           /\ last' = Append(last, r)
<1>1. at' = [at EXCEPT ![r] = "done"] /\ "done" \in Positions
  BY DEF Reply, Positions
<1>2. answer' = [answer EXCEPT ![r] = a]
  BY DEF Reply
<1>3. last' = Append(last, r) /\ last \in Seq(Requests)
  BY DEF Reply, TypeOK
<1>4. at \in [Requests -> Positions]
      /\ answer \in [Requests -> {"none", "ok", "error", "refused"}]
  BY DEF TypeOK
<1> QED BY <1>1, <1>2, <1>3, <1>4

\* A request that begins.
LEMMA EntersType ==
    ASSUME TypeOK, NEW r \in Requests, Enters(r)
    PROVE  /\ at[r] = "begin" /\ met \subseteq met' /\ met' \subseteq SUBSET Requests
           /\ \A q \in Requests : at[q] \notin {"begin", "done"} => {r, q} \in met'
<1> DEFINE pairs == {{r, q} : q \in {q \in Requests : at[q] \notin {"begin", "done"}}}
<1>1. at[r] = "begin" /\ met' = met \cup pairs
  BY DEF Enters
<1>2. \A q \in Requests : {r, q} \in SUBSET Requests
  OBVIOUS
<1>3. pairs \subseteq SUBSET Requests
  BY <1>2
<1>4. \A q \in Requests : at[q] \notin {"begin", "done"} => {r, q} \in pairs
  OBVIOUS
<1>5. met \subseteq SUBSET Requests
  BY DEF TypeOK
<1> HIDE DEF pairs
<1> QED BY <1>1, <1>3, <1>4, <1>5

\* The steps that only stop the daemon.
Halting(r) ==
    RemovePanics(r) \/ SynchronisePanics(r) \/ ClosePanics(r) \/ RunPanics(r)

\* They change nothing else.
LEMMA HaltingKeeps ==
    ASSUME NEW r \in Requests, Halting(r)
    PROVE  /\ daemon' = "panic" /\ Goto(r, "panic") /\ plan' = plan /\ file' = file
           /\ nodes' = nodes /\ table' = table /\ bridges' = bridges
           /\ objects' = objects /\ broken' = broken /\ veths' = veths /\ epoch' = epoch
           /\ temp' = temp /\ found' = found /\ index' = index /\ seen' = seen
           /\ data' = data /\ under' = under /\ before' = before
           /\ \/ at[r] \in {"remove", "sync", "run"} /\ met' = met
              \/ Enters(r) /\ Kind(r) = "reload"
BY DEF Halting, RemovePanics, SynchronisePanics, ClosePanics, RunPanics, Panic, topo, work

\* GetLink finds a link in t.links, or none.
LEMMA FindsType ==
    ASSUME TypeOK, NEW r \in Requests, NEW i \in 0..Len(table),
           IsAt(Link(r), i), Finds(r, i)
    PROVE  /\ found' \in [Requests -> 0..Len(objects)]
           /\ index' \in [Requests -> Nat] /\ seen' \in [Requests -> Nat]
           /\ index'[r] = i
           /\ i # 0 => i \in 1..Len(table) /\ found'[r] = table[i] /\ found'[r] # 0
           /\ \A q \in Requests \ {r} : index'[q] = index[q] /\ found'[q] = found[q]
<1>1. Len(table) \in Nat /\ \A j \in 1..Len(table) : table[j] \in 1..Len(objects)
      /\ Len(objects) \in Nat
  BY DEF TypeOK
<1>2. i \in Nat /\ (i # 0 => i \in 1..Len(table) /\ table[i] \in 1..Len(objects))
  BY <1>1
<1>3. (IF i = 0 THEN 0 ELSE table[i]) \in 0..Len(objects)
  BY <1>1, <1>2
<1>4. found \in [Requests -> 0..Len(objects)] /\ index \in [Requests -> Nat]
      /\ seen \in [Requests -> Nat] /\ epoch \in Nat
  BY DEF TypeOK
<1>5. /\ index' = [index EXCEPT ![r] = i]
      /\ found' = [found EXCEPT ![r] = IF i = 0 THEN 0 ELSE table[i]]
      /\ seen' = [seen EXCEPT ![r] = epoch]
  BY DEF Finds
<1>6. i # 0 => found'[r] = table[i] /\ found'[r] # 0
  BY <1>1, <1>2, <1>4, <1>5
<1> QED BY <1>2, <1>3, <1>4, <1>5, <1>6

\* t.links without the link at a place.
Without(k) == [i \in 1..(Len(table) - 1) |-> table[IF i < k THEN i ELSE i + 1]]

\* A removal leaves all links but the one at its place.
LEMMA WithoutType ==
    ASSUME TypeOK, NEW k \in Nat, k <= Len(table)
    PROVE  /\ Without(k) \in Seq(1..Len(objects))
           /\ Len(table) # 0 => Len(Without(k)) = Len(table) - 1
           /\ Len(table) = 0 => Without(k) = <<>>
           /\ \A i \in 1..(Len(table) - 1) :
                 Without(k)[i] = table[IF i < k THEN i ELSE i + 1]
<1>1. Len(table) \in Nat /\ \A i \in 1..Len(table) : table[i] \in 1..Len(objects)
  BY DEF TypeOK
<1>2. CASE Len(table) = 0
  <2>1. 1..(Len(table) - 1) = {}
    BY <1>2
  <2>2. Without(k) \in [1..0 -> 1..Len(objects)]
    BY <1>2, <2>1 DEF Without
  <2>3. Without(k) \in Seq(1..Len(objects)) /\ Len(Without(k)) = 0
    BY <2>2, FunctionIsSequence
  <2>4. Without(k) = <<>>
    BY <2>3, EmptySeq
  <2> QED BY <1>2, <2>1, <2>3, <2>4
<1>3. CASE Len(table) # 0
  <2>1. Len(table) - 1 \in Nat
    BY <1>1, <1>3
  <2>2. \A i \in 1..(Len(table) - 1) : (IF i < k THEN i ELSE i + 1) \in 1..Len(table)
    BY <1>1, <1>3
  <2>3. Without(k) \in [1..(Len(table) - 1) -> 1..Len(objects)]
    BY <1>1, <2>2 DEF Without
  <2>4. Without(k) \in Seq(1..Len(objects)) /\ Len(Without(k)) = Len(table) - 1
    BY <2>1, <2>3, FunctionIsSequence
  <2> QED BY <1>3, <2>4 DEF Without
<1> QED BY <1>2, <1>3

\* What a request that stores makes of t.links.
LEMMA StoreType ==
    ASSUME TypeOK, NEW r \in Requests, Storing(r), at[r] = "append" => found[r] # 0
    PROVE  Store(r) \in Seq(1..Len(objects))
<1>1. CASE at[r] = "append"
  <2>1. found[r] \in 1..Len(objects)
    BY <1>1 DEF TypeOK
  <2>2. table \in Seq(1..Len(objects))
    BY DEF TypeOK
  <2> QED BY <1>1, <2>1, <2>2 DEF Store
<1>2. CASE at[r] # "append"
  <2>1. at[r] = "remove" /\ index[r] <= Len(table) /\ index[r] \in Nat
    BY <1>2 DEF Storing, TypeOK
  <2>2. Store(r) = Without(index[r])
    BY <1>2 DEF Store, Without
  <2> QED BY <2>1, <2>2, WithoutType
<1> QED BY <1>1, <1>2

-----------------------------------------------------------------------------
(* The types.                                                               *)

\* What a request is at each of its steps.
Stages ==
    \A r \in Requests :
        /\ at[r] \in {"setup", "append"} => Kind(r) = "add"
        /\ at[r] \in {"delete", "remove"} => Kind(r) = "del"
        /\ at[r] = "configure" => Kind(r) = "update"
        /\ at[r] = "sync" => Kind(r) \in {"add", "del", "update"}
        /\ at[r] \in {"empty", "write"} => Kind(r) # "reload"
        /\ at[r] \in {"load", "fill", "bridging", "run"} => Kind(r) = "reload"
        /\ at[r] \in {"temp", "editor", "reread", "cleanup"} => Kind(r) = "edit"
        /\ at[r] \in {"append", "delete", "remove", "configure"} => found[r] # 0
        /\ at[r] \in {"delete", "remove"} => index[r] # 0
        /\ answer[r] # "none" => at[r] = "done"
        /\ Kind(r) = "add" => ~Link(r).rate

\* A reload that fills in the topology has the nodes, links and bridges of a file
\* that was accepted, where nothing that overlapped it has changed them.
Filling ==
    /\ \A r \in Requests : at[r] \in {"fill", "bridging"} =>
          data[r] \in File /\ Accepted(data[r])
    /\ \A r \in Requests : at[r] = "fill" =>
          found[r] + Len(data[r].links) <= Len(objects)
    /\ \A r \in Requests : at[r] = "fill" =>
          \A i \in 1..Len(data[r].links) :
             /\ objects[found[r] + i].peer1 = data[r].links[i].peer1
             /\ objects[found[r] + i].peer2 = data[r].links[i].peer2
    /\ \A r \in Requests : at[r] \in {"fill", "bridging"} /\ ~Overlap(r, {"reload"}) =>
          nodes = data[r].nodes
    /\ \A r \in Requests : at[r] = "fill" /\ ~Overlap(r, {"del", "reload"}) =>
          Len(data[r].links) <= Len(table)
    /\ \A r \in Requests : at[r] = "fill" /\ ~Overlap(r, {"del", "reload"}) =>
          \A i \in 1..Len(data[r].links) : table[i] = found[r] + i
    /\ \A r \in Requests : at[r] = "bridging" => data[r].bridges # {}
    /\ \A r \in Requests : at[r] = "bridging" /\ ~Overlap(r, {"reload"}) =>
          bridges = data[r].bridges
    /\ \A r \in Requests : at[r] \in {"load", "fill", "bridging", "run"} =>
          seen[r] = epoch \/ Overlap(r, {"reload"})

\* A nil pointer that a reload does not replace comes of two reloads, or of one
\* that could not fill in the bridges, or has not done so yet.
BrokenKnown ==
    daemon = "up" => \A k \in broken :
        \/ ReloadsMet
        \/ /\ k = 0 /\ bridges # {}
           /\ \E q \in Requests :
                 at[q] = "bridging" \/ (Kind(q) = "reload" /\ answer[q] = "error")

\* The types of a state, but for where the requests are.
DataOK ==
    /\ daemon \in {"up", "panic"} /\ epoch \in Nat
    /\ \A r \in Requests : /\ Kind(r) \in Kinds /\ Link(r) \in LinkConfig
                           /\ plan[r].nodes \subseteq Nodes \X BOOLEAN
                           /\ plan[r].whole \in BOOLEAN
    /\ file \in File \cup {Torn} /\ temp \in File \cup {Torn, NoFile}
    /\ nodes \subseteq Nodes \X BOOLEAN /\ bridges \subseteq Bridges
    /\ objects \in Seq(LinkConfig) /\ table \in Seq(1..Len(objects))
    /\ broken \subseteq 0..Len(objects)
    /\ veths \subseteq {Ends(l) : l \in LinkConfig}
    /\ found \in [Requests -> 0..Len(objects)]
    /\ index \in [Requests -> Nat] /\ seen \in [Requests -> Nat]
    /\ data \in [Requests -> File \cup {Torn}] /\ under \in [Requests -> File \cup {Torn}]
    /\ before \in [Requests -> [nodes : SUBSET (Nodes \X BOOLEAN), links : Seq(LinkConfig),
                                bridges : SUBSET Bridges]]

\* The types of where the requests are.
Control ==
    /\ at \in [Requests -> Positions]
    /\ answer \in [Requests -> {"none", "ok", "error", "refused"}]
    /\ last \in Seq(Requests) /\ met \subseteq SUBSET Requests

\* The two parts make the type invariant.
LEMMA TypeParts == TypeOK <=> DataOK /\ Control
BY DEF TypeOK, DataOK, Control

\* A step moves a request on or ends it, and what it does to the others is to
\* let one of them store at the same time.
Moves(r) ==
    /\ plan' = plan /\ met \subseteq met'
    /\ at[r] \notin {"done", "panic"} /\ at'[r] # "begin"
    /\ at[r] = "begin" =>
          \A q \in Requests : at[q] \notin {"begin", "done"} => {r, q} \in met'
    /\ at[r] # "begin" => met' = met
    /\ \A q \in Requests \ {r} :
          /\ answer'[q] = answer[q] /\ data'[q] = data[q] /\ under'[q] = under[q]
          /\ before'[q] = before[q] /\ found'[q] = found[q] /\ index'[q] = index[q]
          /\ seen'[q] = seen[q]
          /\ at'[q] = at[q] \/ (Storing(q) /\ at'[q] = "sync")
    /\ \/ at'[r] # "done" /\ answer' = answer /\ last' = last
       \/ at'[r] = "done" /\ last' = Append(last, r)

\* Every step moves a request.
LEMMA StepMoves ==
    ASSUME TypeOK, Stages, NEW r \in Requests, Step(r)
    PROVE  Moves(r) /\ Control'
<1> USE DEF Positions
<1>0. /\ data \in [Requests -> File \cup {Torn}] /\ under \in [Requests -> File \cup {Torn}]
      /\ found \in [Requests -> 0..Len(objects)] /\ index \in [Requests -> Nat]
      /\ index \in [Requests -> Nat] /\ seen \in [Requests -> Nat]
      /\ DOMAIN before = Requests
  BY DEF TypeOK
<1>1. ASSUME NEW p \in Positions \ {"begin", "done"}, Goto(r, p), plan' = plan,
             at[r] \notin {"begin", "done", "panic"}, UNCHANGED met,
             \A q \in Requests \ {r} :
                /\ data'[q] = data[q] /\ under'[q] = under[q] /\ before'[q] = before[q]
                /\ found'[q] = found[q] /\ index'[q] = index[q]
                /\ seen'[q] = seen[q]
      PROVE  Moves(r) /\ Control'
  <2>1. /\ at' \in [Requests -> Positions]
        /\ answer' \in [Requests -> {"none", "ok", "error", "refused"}]
        /\ last' \in Seq(Requests)
        /\ at'[r] = p /\ \A q \in Requests \ {r} : at'[q] = at[q]
        /\ answer' = answer /\ last' = last
    BY <1>1, GotoType
  <2> QED BY <1>1, <2>1 DEF Moves, Control, TypeOK
<1>2. ASSUME NEW a \in {"ok", "error", "refused"}, Reply(r, a), plan' = plan,
             at[r] \notin {"begin", "done", "panic"}, UNCHANGED met,
             \A q \in Requests \ {r} :
                /\ data'[q] = data[q] /\ under'[q] = under[q] /\ before'[q] = before[q]
                /\ found'[q] = found[q] /\ index'[q] = index[q]
                /\ seen'[q] = seen[q]
      PROVE  Moves(r) /\ Control'
  <2>1. /\ at' \in [Requests -> Positions]
        /\ answer' \in [Requests -> {"none", "ok", "error", "refused"}]
        /\ last' \in Seq(Requests)
        /\ at'[r] = "done" /\ \A q \in Requests \ {r} : at'[q] = at[q]
        /\ \A q \in Requests \ {r} : answer'[q] = answer[q]
        /\ last' = Append(last, r)
    BY <1>2, ReplyType
  <2> QED BY <1>2, <2>1 DEF Moves, Control, TypeOK
<1>3. ASSUME NEW p \in Positions \ {"begin", "done"}, Goto(r, p), plan' = plan,
             Enters(r),
             \A q \in Requests \ {r} :
                /\ data'[q] = data[q] /\ under'[q] = under[q] /\ before'[q] = before[q]
                /\ found'[q] = found[q] /\ index'[q] = index[q]
                /\ seen'[q] = seen[q]
      PROVE  Moves(r) /\ Control'
  <2>1. /\ at' \in [Requests -> Positions]
        /\ answer' \in [Requests -> {"none", "ok", "error", "refused"}]
        /\ last' \in Seq(Requests)
        /\ at'[r] = p /\ \A q \in Requests \ {r} : at'[q] = at[q]
        /\ answer' = answer /\ last' = last
    BY <1>3, GotoType
  <2> QED BY <1>3, <2>1, EntersType DEF Moves, Control, TypeOK
<1>4. ASSUME NEW a \in {"ok", "error", "refused"}, Reply(r, a), plan' = plan,
             Enters(r),
             \A q \in Requests \ {r} :
                /\ data'[q] = data[q] /\ under'[q] = under[q] /\ before'[q] = before[q]
                /\ found'[q] = found[q] /\ index'[q] = index[q]
                /\ seen'[q] = seen[q]
      PROVE  Moves(r) /\ Control'
  <2>1. /\ at' \in [Requests -> Positions]
        /\ answer' \in [Requests -> {"none", "ok", "error", "refused"}]
        /\ last' \in Seq(Requests)
        /\ at'[r] = "done" /\ \A q \in Requests \ {r} : at'[q] = at[q]
        /\ \A q \in Requests \ {r} : answer'[q] = answer[q]
        /\ last' = Append(last, r)
    BY <1>4, ReplyType
  <2> QED BY <1>4, <2>1, EntersType DEF Moves, Control, TypeOK
<1> DEFINE Steady ==
      /\ plan' = plan
      /\ \A q \in Requests \ {r} :
                /\ data'[q] = data[q] /\ under'[q] = under[q] /\ before'[q] = before[q]
                /\ found'[q] = found[q] /\ index'[q] = index[q]
                /\ seen'[q] = seen[q]
<1>5. CASE Synchronise(r)
  <2>1. Steady /\ Goto(r, "empty") /\ UNCHANGED met
    BY <1>5, <1>0 DEF Synchronise
  <2> QED BY <1>1, <1>5, <2>1 DEF Synchronise
<1>6. CASE EmptyFile(r)
  <2>1. Steady /\ Goto(r, "write") /\ UNCHANGED met
    BY <1>6, <1>0 DEF EmptyFile, work
  <2> QED BY <1>1, <1>6, <2>1 DEF EmptyFile
<1>7. CASE WriteFile(r)
  <2>1. Steady /\ (Goto(r, "cleanup") \/ Reply(r, "ok")) /\ UNCHANGED met
    BY <1>7, <1>0 DEF WriteFile, work
  <2> QED BY <1>1, <1>2, <1>7, <2>1 DEF WriteFile
<1>8. CASE WriteFails(r)
  <2>1. Steady /\ Reply(r, "error") /\ UNCHANGED met
    BY <1>8, <1>0 DEF WriteFails, work
  <2> QED BY <1>2, <1>8, <2>1 DEF WriteFails
<1>9. ASSUME NEW i, Finds(r, i)
      PROVE  \A q \in Requests \ {r} :
                /\ found'[q] = found[q] /\ index'[q] = index[q] /\ seen'[q] = seen[q]
  BY <1>9, <1>0 DEF Finds
<1>10. CASE BeginAdd(r)
  <2>1. PICK i \in 0..Len(table) :
            /\ Finds(r, i)
            /\ Reply(r, "error") \/ Goto(r, "panic") \/ Goto(r, "setup")
    BY <1>10 DEF BeginAdd, Panic
  <2>2. Steady /\ Enters(r)
    BY <1>9, <1>10, <2>1, <1>0 DEF BeginAdd
  <2> QED BY <1>3, <1>4, <2>1, <2>2
<1>11. CASE SetupLink(r)
  <2>1. found' = found \/ found' = [found EXCEPT ![r] = Len(objects) + 1]
    BY <1>11 DEF SetupLink
  <2>2. Steady /\ (Goto(r, "append") \/ Reply(r, "error")) /\ UNCHANGED met
    BY <1>11, <2>1, <1>0 DEF SetupLink
  <2> QED BY <1>1, <1>2, <1>11, <2>2 DEF SetupLink
<1>12. ASSUME NEW p \in Positions \ {"begin", "done"}, BeginOn(r, p)
       PROVE  Moves(r) /\ Control'
  <2>1. PICK i \in 0..Len(table) :
            Finds(r, i) /\ (Reply(r, "error") \/ Goto(r, "panic") \/ Goto(r, p))
    BY <1>12 DEF BeginOn, Panic
  <2>2. Steady /\ Enters(r)
    BY <1>9, <1>12, <2>1, <1>0 DEF BeginOn
  <2> QED BY <1>3, <1>4, <2>1, <2>2
<1>13. CASE BeginDel(r)
  BY <1>12, <1>13 DEF BeginDel
<1>14. CASE BeginUpdate(r)
  BY <1>12, <1>14 DEF BeginUpdate
<1>15. CASE DeleteLink(r)
  <2>1. Steady /\ (Goto(r, "remove") \/ Reply(r, "error")) /\ UNCHANGED met
    BY <1>15, <1>0 DEF DeleteLink, work
  <2> QED BY <1>1, <1>2, <1>15, <2>1 DEF DeleteLink
<1>16. CASE StoreLink(r)
  <2>1. Steady /\ Goto(r, "sync") /\ UNCHANGED met
    BY <1>16, <1>0 DEF StoreLink, work
  <2> QED BY <1>1, <1>16, <2>1 DEF StoreLink, Storing
<1>17. ASSUME NEW q \in Requests, StoreBoth(r, q)
       PROVE  Moves(r) /\ Control'
  <2>1. /\ at' = [at EXCEPT ![r] = "sync", ![q] = "sync"] /\ r # q
        /\ Storing(r) /\ Storing(q) /\ at[r] \in {"append", "remove"}
        /\ UNCHANGED <<plan, work, answer, history>>
    BY <1>17 DEF StoreBoth, Storing
  <2>2. at' \in [Requests -> Positions] /\ at'[r] = "sync"
        /\ \A s \in Requests \ {r} : at'[s] = IF s = q THEN "sync" ELSE at[s]
    BY <2>1 DEF TypeOK
  <2>3. /\ plan' = plan /\ answer' = answer /\ last' = last /\ met' = met
        /\ data' = data /\ under' = under /\ before' = before
        /\ found' = found /\ index' = index /\ seen' = seen
    BY <2>1 DEF work, history
  <2>4. \A s \in Requests \ {r} : at'[s] = at[s] \/ (Storing(s) /\ at'[s] = "sync")
    BY <2>1, <2>2
  <2>5. Moves(r)
    BY <2>1, <2>2, <2>3, <2>4 DEF Moves
  <2> QED BY <2>2, <2>3, <2>5 DEF Control, TypeOK
<1>18. CASE Halting(r)
  <2>1. /\ Steady /\ Goto(r, "panic")
        /\ (at[r] \in {"remove", "sync", "run"} /\ met' = met) \/ Enters(r)
    BY <1>18, HaltingKeeps
  <2> QED BY <1>1, <1>3, <2>1
<1>19. CASE Configure(r)
  <2>1. Steady /\ (Goto(r, "sync") \/ Reply(r, "error")) /\ UNCHANGED met
    BY <1>19, <1>0 DEF Configure, work
  <2> QED BY <1>1, <1>2, <1>19, <2>1 DEF Configure
<1>20. CASE CloseAll(r)
  <2>1. Steady /\ Goto(r, "load") /\ Enters(r)
    BY <1>20, <1>0 DEF CloseAll, work
  <2> QED BY <1>3, <2>1
<1>21. CASE Load(r)
  <2>1. /\ plan' = plan /\ met' = met /\ under' = under /\ before' = before /\ index' = index
        /\ seen' = seen
        /\ found' = found \/ found' = [found EXCEPT ![r] = Len(objects)]
        /\ data' = data \/ data' = [data EXCEPT ![r] = file]
    BY <1>21 DEF Load
  <2>2. Goto(r, "fill") \/ Goto(r, "panic") \/ Reply(r, "error") \/ Reply(r, "refused")
    BY <1>21 DEF Load, Panic
  <2>3. Steady
    BY <1>0, <2>1
  <2> QED BY <1>1, <1>2, <1>21, <2>1, <2>2, <2>3 DEF Load
<1>29. CASE FillLinks(r)
  <2>1. /\ Steady /\ UNCHANGED met
        /\ Goto(r, "panic") \/ Goto(r, "bridging") \/ Goto(r, "run")
    BY <1>29, <1>0 DEF FillLinks, work, Panic
  <2> QED BY <1>1, <1>29, <2>1 DEF FillLinks
<1>30. CASE FillBridges(r)
  <2>1. /\ Steady /\ UNCHANGED met
        /\ Goto(r, "panic") \/ Goto(r, "run") \/ Reply(r, "error")
    BY <1>30, <1>0 DEF FillBridges, work, Panic
  <2> QED BY <1>1, <1>2, <1>30, <2>1 DEF FillBridges
<1>22. CASE RunLinks(r)
  <2>1. Steady /\ (Reply(r, "ok") \/ Reply(r, "error")) /\ UNCHANGED met
    BY <1>22, <1>0 DEF RunLinks, work
  <2> QED BY <1>2, <1>22, <2>1 DEF RunLinks
<1>23. CASE Fetch(r)
  <2>1. Steady /\ Goto(r, "temp") /\ Enters(r)
    BY <1>23, <1>0 DEF Fetch
  <2> QED BY <1>3, <2>1
<1>24. CASE OpenEditor(r)
  <2>1. Steady /\ Goto(r, "editor") /\ UNCHANGED met
    BY <1>24, <1>0 DEF OpenEditor, work
  <2> QED BY <1>1, <1>24, <2>1 DEF OpenEditor
<1>25. CASE SaveEditor(r)
  <2>1. Steady /\ Goto(r, "reread") /\ UNCHANGED met
    BY <1>25, <1>0 DEF SaveEditor, work
  <2> QED BY <1>1, <1>25, <2>1 DEF SaveEditor
<1>26. CASE Reread(r)
  <2>1. Steady /\ (Goto(r, "empty") \/ Reply(r, "error")) /\ UNCHANGED met
    BY <1>26, <1>0 DEF Reread
  <2> QED BY <1>1, <1>2, <1>26, <2>1 DEF Reread
<1>27. CASE SendFails(r)
  <2>1. Steady /\ Reply(r, "error") /\ UNCHANGED met
    BY <1>27, <1>0 DEF SendFails, work
  <2> QED BY <1>2, <1>27, <2>1 DEF SendFails
<1>28. CASE RemoveTemp(r)
  <2>1. Steady /\ Reply(r, "ok") /\ UNCHANGED met
    BY <1>28, <1>0 DEF RemoveTemp, work
  <2> QED BY <1>2, <1>28, <2>1 DEF RemoveTemp
<1> QED
  BY <1>5, <1>6, <1>7, <1>8, <1>10, <1>11, <1>13, <1>14, <1>15, <1>16, <1>17, <1>18,
     <1>19, <1>20, <1>21, <1>22, <1>23, <1>24, <1>25, <1>26, <1>27, <1>28, <1>29, <1>30
     DEF Step, Halting

\* The objects that Load makes of a file, and their places in t.links.
LEMMA LoadedObjects ==
    ASSUME TypeOK, NEW f \in File, NEW objs,
           objs = objects \o [k \in DOMAIN f.links |-> WithBuffer(f.links[k])]
    PROVE  /\ objs \in Seq(LinkConfig) /\ Len(objs) = Len(objects) + Len(f.links)
           /\ Numbered(Len(objects), Len(objs)) \in Seq(1..Len(objs))
           /\ Len(Numbered(Len(objects), Len(objs))) = Len(f.links)
           /\ \A i \in 1..Len(f.links) :
                 /\ Numbered(Len(objects), Len(objs))[i] = Len(objects) + i
                 /\ objs[Len(objects) + i] = WithBuffer(f.links[i])
           /\ \A k \in 1..Len(objects) : objs[k] = objects[k]
<1> DEFINE n == Len(objects)
           m == Len(f.links)
           new == [k \in DOMAIN f.links |-> WithBuffer(f.links[k])]
<1>1. n \in Nat /\ m \in Nat /\ DOMAIN f.links = 1..m /\ objects \in Seq(LinkConfig)
  BY FileParts DEF TypeOK
<1>2. \A i \in 1..m : WithBuffer(f.links[i]) \in LinkConfig
  BY FileParts, BufferGiven
<1>3. new \in [1..m -> LinkConfig]
  BY <1>1, <1>2
<1>4. new \in Seq(LinkConfig) /\ Len(new) = m
  BY <1>1, <1>3, FunctionIsSequence
<1>5. \A i \in 1..m : new[i] = WithBuffer(f.links[i])
  BY <1>1
<1> HIDE DEF new
<1>6. /\ objs \in Seq(LinkConfig) /\ Len(objs) = n + m
      /\ \A i \in 1..(n + m) : objs[i] = IF i <= n THEN objects[i] ELSE new[i - n]
  BY <1>1, <1>4, ConcatProperties DEF new
<1> DEFINE t == Numbered(n, Len(objs))
<1>7. t = [i \in 1..m |-> n + i]
  BY <1>1, <1>6 DEF Numbered
<1>8. t \in [1..m -> 1..Len(objs)]
  BY <1>1, <1>6, <1>7
<1>9. t \in Seq(1..Len(objs)) /\ Len(t) = m
  BY <1>1, <1>8, FunctionIsSequence
<1>10. \A i \in 1..m : n + i \in 1..(n + m) /\ ~(n + i <= n) /\ (n + i) - n = i
  BY <1>1
<1>11. \A i \in 1..m : objs[n + i] = WithBuffer(f.links[i])
  BY <1>5, <1>6, <1>10
<1>12. \A k \in 1..n : objs[k] = objects[k]
  BY <1>1, <1>6
<1> QED BY <1>6, <1>7, <1>9, <1>11, <1>12

\* Every step keeps the types of the topology, the file and what is in progress.
LEMMA StepKeepsData ==
    ASSUME TypeOK, Stages, Filling, NEW r \in Requests, Step(r), daemon = "up"
    PROVE  DataOK'
<1>1. plan' = plan
  BY StepMoves DEF Moves
<1>2. DataOK
  BY TypeParts
<1>3. Len(objects) \in Nat /\ Len(table) \in Nat
      /\ \A i \in 1..Len(table) : table[i] \in 1..Len(objects)
  BY <1>2 DEF DataOK
<1> USE DEF Kind, Link
<1>5. CASE Synchronise(r)
  <2>1. data' \in [Requests -> File \cup {Torn}]
    BY <1>2, <1>5, TopologyType DEF DataOK, Synchronise
  <2> QED BY <1>1, <1>2, <1>5, <2>1 DEF DataOK, Synchronise, topo
<1>6. CASE EmptyFile(r)
  <2>1. file' \in File \cup {Torn} /\ under' \in [Requests -> File \cup {Torn}]
    BY <1>2, <1>6, EmptyType DEF DataOK, EmptyFile
  <2> QED BY <1>1, <1>2, <1>6, <2>1 DEF DataOK, EmptyFile, topo, work
<1>7. CASE WriteFile(r)
  <2>1. file' \in File \cup {Torn}
    BY <1>2, <1>7 DEF DataOK, WriteFile
  <2> QED BY <1>1, <1>2, <1>7, <2>1 DEF DataOK, WriteFile, topo, work
<1>8. CASE WriteFails(r)
  BY <1>1, <1>2, <1>8 DEF DataOK, WriteFails, topo, work
<1>10. CASE BeginAdd(r)
  <2>1. /\ found' \in [Requests -> 0..Len(objects)]
        /\ index' \in [Requests -> Nat] /\ seen' \in [Requests -> Nat]
    BY <1>10, FindsType DEF BeginAdd
  <2>2. daemon' \in {"up", "panic"}
    BY <1>2, <1>10 DEF BeginAdd, Panic, DataOK
  <2> QED BY <1>1, <1>2, <1>10, <2>1, <2>2 DEF DataOK, BeginAdd, topo
<1>11. CASE SetupLink(r)
  <2>1. CASE UNCHANGED <<veths, objects, found>>
    BY <1>1, <1>2, <1>11, <2>1 DEF DataOK, SetupLink
  <2>2. CASE /\ veths' = veths \cup {Ends(Link(r))}
             /\ objects' = Append(objects, WithBuffer(Link(r)))
             /\ found' = [found EXCEPT ![r] = Len(objects) + 1]
    <3>1. Link(r) \in LinkConfig /\ WithBuffer(Link(r)) \in LinkConfig
      BY <1>2, BufferGiven DEF DataOK
    <3>2. objects' \in Seq(LinkConfig) /\ Len(objects') = Len(objects) + 1
      BY <1>2, <2>2, <3>1 DEF DataOK
    <3>3. found' \in [Requests -> 0..Len(objects')]
      BY <1>2, <1>3, <2>2, <3>2 DEF DataOK
    <3>4. table \in Seq(1..Len(objects'))
      <4>1. table \in Seq(1..Len(objects))
        BY <1>2 DEF DataOK
      <4>2. 1..Len(objects) \subseteq 1..Len(objects')
        BY <1>3, <3>2
      <4> QED BY <4>1, <4>2, SeqMonotonic
    <3>5. veths' \subseteq {Ends(l) : l \in LinkConfig}
      BY <1>2, <2>2, <3>1 DEF DataOK
    <3>6. broken' \subseteq 0..Len(objects')
      <4>1. 0..Len(objects) \subseteq 0..Len(objects') /\ broken' = broken
        BY <1>3, <1>11, <3>2 DEF SetupLink
      <4> QED BY <1>2, <4>1 DEF DataOK
    <3> QED BY <1>1, <1>2, <1>11, <3>2, <3>3, <3>4, <3>5, <3>6 DEF DataOK, SetupLink
  <2> QED BY <1>11, <2>1, <2>2 DEF SetupLink
<1>12. ASSUME NEW p, BeginOn(r, p)
       PROVE  DataOK'
  <2>1. /\ found' \in [Requests -> 0..Len(objects)]
        /\ index' \in [Requests -> Nat] /\ seen' \in [Requests -> Nat]
    BY <1>12, FindsType DEF BeginOn
  <2>2. daemon' \in {"up", "panic"}
    BY <1>2, <1>12 DEF BeginOn, Panic, DataOK
  <2> QED BY <1>1, <1>2, <1>12, <2>1, <2>2 DEF DataOK, BeginOn, topo
<1>13. CASE BeginDel(r)
  BY <1>12, <1>13 DEF BeginDel
<1>14. CASE BeginUpdate(r)
  BY <1>12, <1>14 DEF BeginUpdate
<1>15. CASE DeleteLink(r)
  <2>1. veths' \subseteq veths
    BY <1>15 DEF DeleteLink
  <2> QED BY <1>1, <1>2, <1>15, <2>1 DEF DataOK, DeleteLink, work
<1>16. CASE StoreLink(r)
  <2>1. table' \in Seq(1..Len(objects))
    BY <1>16, StoreType DEF StoreLink, Stages
  <2> QED BY <1>1, <1>2, <1>16, <2>1 DEF DataOK, StoreLink, work
<1>17. ASSUME NEW q \in Requests, StoreBoth(r, q)
       PROVE  DataOK'
  <2>1. Store(r) \in Seq(1..Len(objects)) /\ Store(q) \in Seq(1..Len(objects))
    BY <1>17, StoreType DEF StoreBoth, Stages
  <2>2. CASE table' = Store(r)
    BY <1>1, <1>2, <1>17, <2>1, <2>2 DEF DataOK, StoreBoth, work, history
  <2>3. CASE /\ at[r] = "append" /\ at[q] = "remove"
             /\ table' = Store(q) \o <<table[Len(table)], found[r]>>
    <3>1. index[q] # 0 /\ index[q] \in Nat /\ index[q] <= Len(table)
          /\ found[r] # 0 /\ found[r] \in 0..Len(objects)
      BY <1>2, <1>17, <2>3 DEF DataOK, StoreBoth, Storing, Stages
    <3>2. Len(table) \in 1..Len(table) /\ found[r] \in 1..Len(objects)
      BY <1>3, <3>1
    <3>3. <<table[Len(table)], found[r]>> \in Seq(1..Len(objects))
      BY <1>3, <3>2
    <3>4. table' \in Seq(1..Len(objects))
      BY <2>1, <2>3, <3>3, ConcatProperties
    <3> QED BY <1>1, <1>2, <1>17, <3>4 DEF DataOK, StoreBoth, work, history
  <2> QED BY <1>17, <2>2, <2>3 DEF StoreBoth
<1>18. CASE Halting(r)
  BY <1>1, <1>2, <1>18, HaltingKeeps DEF DataOK
<1>19. CASE Configure(r)
  <2>1. objects' \in Seq(LinkConfig) /\ Len(objects') = Len(objects)
    <3>1. CASE UNCHANGED objects
      BY <1>2, <3>1 DEF DataOK
    <3>2. CASE objects' = [objects EXCEPT ![found[r]].qos = Link(r).qos]
      <4>1. found[r] \in 1..Len(objects)
        BY <1>2, <1>3, <1>19 DEF DataOK, Configure, Stages
      <4>2. objects[found[r]] \in LinkConfig /\ Link(r) \in LinkConfig
        BY <1>2, <4>1 DEF DataOK
      <4>3. [objects[found[r]] EXCEPT !.qos = Link(r).qos] \in LinkConfig
        BY <4>2 DEF LinkConfig
      <4>4. objects' = [objects EXCEPT ![found[r]] = [objects[found[r]] EXCEPT !.qos = Link(r).qos]]
        BY <3>2
      <4> QED BY <1>2, <4>1, <4>3, <4>4, ExceptSeq DEF DataOK
    <3> QED BY <1>19, <3>1, <3>2 DEF Configure
  <2> QED BY <1>1, <1>2, <1>19, <2>1 DEF DataOK, Configure, work
<1>20. CASE CloseAll(r)
  <2>1. /\ nodes' = {} /\ table' = <<>> /\ bridges' = {} /\ veths' = {} /\ epoch' \in Nat
    BY <1>2, <1>20 DEF DataOK, CloseAll
  <2>2. [nodes |-> nodes, links |-> Configs, bridges |-> bridges]
            \in [nodes : SUBSET (Nodes \X BOOLEAN), links : Seq(LinkConfig),
                 bridges : SUBSET Bridges]
    BY <1>2, ConfigsType DEF DataOK
  <2>3. before' \in [Requests -> [nodes : SUBSET (Nodes \X BOOLEAN),
                                  links : Seq(LinkConfig), bridges : SUBSET Bridges]]
    BY <1>2, <1>20, <2>2 DEF DataOK, CloseAll
  <2>4. table' \in Seq(1..Len(objects))
    BY <2>1
  <2>5. seen' \in [Requests -> Nat]
    BY <1>2, <1>20, <2>1 DEF DataOK, CloseAll
  <2> QED BY <1>1, <1>2, <1>20, <2>1, <2>3, <2>4, <2>5 DEF DataOK, CloseAll
<1>21. CASE Load(r)
  <2>1. CASE UNCHANGED <<table, objects, found, data>> /\ nodes' \subseteq Nodes \X BOOLEAN
    BY <1>1, <1>2, <1>21, <2>1 DEF DataOK, Load, Panic
  <2>2. CASE /\ Accepted(file) /\ nodes' = file.nodes
             /\ objects' = objects \o [k \in DOMAIN file.links |-> WithBuffer(file.links[k])]
             /\ table' = Numbered(Len(objects), Len(objects'))
             /\ found' = [found EXCEPT ![r] = Len(objects)]
             /\ data' = [data EXCEPT ![r] = file] /\ UNCHANGED daemon
    <3>1. file \in File
      BY <1>2, <2>2 DEF DataOK, Accepted
    <3>2. nodes' \subseteq Nodes \X BOOLEAN
      BY <2>2, <3>1, FileParts
    <3>3. /\ objects' \in Seq(LinkConfig) /\ Len(objects') = Len(objects) + Len(file.links)
          /\ table' \in Seq(1..Len(objects')) /\ Len(file.links) \in Nat
      BY <2>2, <3>1, LoadedObjects, FileParts
    <3>4. 0..Len(objects) \subseteq 0..Len(objects') /\ Len(objects) \in 0..Len(objects')
      BY <1>3, <3>3
    <3>5. found' \in [Requests -> 0..Len(objects')]
      BY <1>2, <2>2, <3>4 DEF DataOK
    <3>6. broken' \subseteq 0..Len(objects')
      BY <1>2, <1>21, <3>4 DEF DataOK, Load
    <3>7. data' \in [Requests -> File \cup {Torn}]
      BY <1>2, <2>2, <3>1 DEF DataOK
    <3> QED BY <1>1, <1>2, <1>21, <2>2, <3>2, <3>3, <3>5, <3>6, <3>7 DEF DataOK, Load
  <2>3. Accepted(file) => file.nodes \subseteq Nodes \X BOOLEAN
    BY <1>2, FileParts DEF DataOK, Accepted
  <2>4. nodes \subseteq Nodes \X BOOLEAN
    BY <1>2 DEF DataOK
  <2> QED BY <1>21, <2>1, <2>2, <2>3, <2>4 DEF Load
<1>29. CASE FillLinks(r)
  <2>1. CASE UNCHANGED <<table, bridges, broken>>
    BY <1>1, <1>2, <1>29, <2>1 DEF DataOK, FillLinks, Panic, work
  <2>2. CASE /\ table' = [i \in DOMAIN table |->
                             IF i <= Len(data[r].links) THEN found[r] + i ELSE table[i]]
             /\ broken' = {k \in Made(r) : ~Known(Config(k))}
                              \cup (broken \ {0})
                              \cup (IF data[r].bridges = {} THEN {} ELSE {0})
             /\ bridges' = data[r].bridges
    <3>1. /\ data[r] \in File /\ Accepted(data[r])
          /\ found[r] + Len(data[r].links) <= Len(objects)
      BY <1>29 DEF FillLinks, Filling
    <3>2. Len(data[r].links) \in Nat /\ found[r] \in Nat
      BY <1>2, <3>1, FileParts DEF DataOK
    <3>3. ASSUME NEW i \in 1..Len(data[r].links) PROVE found[r] + i \in 1..Len(objects)
      <4>1. Len(objects) \in Nat
        BY <1>3
      <4> QED BY <3>1, <3>2, <4>1, WithinSum
    <3>4. table' \in Seq(1..Len(objects))
      <4>1. DOMAIN table = 1..Len(table)
        BY <1>2 DEF DataOK
      <4>2. table' \in [1..Len(table) -> 1..Len(objects)]
        BY <1>3, <2>2, <3>2, <3>3, <4>1
      <4> QED BY <1>3, <4>2, FunctionIsSequence
    <3>5. Made(r) \subseteq 1..Len(objects)
      BY <3>3 DEF Made
    <3>6. broken' \subseteq 0..Len(objects)
      <4>1. 1..Len(objects) \subseteq 0..Len(objects) /\ 0 \in 0..Len(objects)
        BY <1>3
      <4>2. broken \subseteq 0..Len(objects)
        BY <1>2 DEF DataOK
      <4> QED BY <2>2, <3>5, <4>1, <4>2
    <3>7. bridges' \subseteq Bridges
      BY <2>2, <3>1, FileParts DEF Accepted, BridgeAccepted
    <3>8. daemon' \in {"up", "panic"}
      BY <1>29 DEF FillLinks, Panic
    <3> QED BY <1>1, <1>2, <1>29, <3>4, <3>6, <3>7, <3>8 DEF DataOK, FillLinks, work
  <2> QED BY <1>29, <2>1, <2>2 DEF FillLinks
<1>30. CASE FillBridges(r)
  <2>1. broken' \subseteq broken \cup {0} /\ daemon' \in {"up", "panic"}
    BY <1>30 DEF FillBridges, Panic
  <2>2. 0 \in 0..Len(objects) /\ broken \subseteq 0..Len(objects)
    BY <1>2, <1>3 DEF DataOK
  <2>3. broken' \subseteq 0..Len(objects)
    BY <2>1, <2>2
  <2> QED BY <1>1, <1>2, <1>30, <2>1, <2>3 DEF DataOK, FillBridges, work
<1>22. CASE RunLinks(r)
  <2>1. \A i \in 1..Len(table) : Ends(Config(table[i])) \in {Ends(l) : l \in LinkConfig}
    BY ConfigsType
  <2> DEFINE wanted == {Ends(Config(table[i])) : i \in 1..Len(table)}
             all == {Ends(l) : l \in LinkConfig}
  <2>2. wanted \subseteq all /\ veths \subseteq all
    BY <1>2, <2>1 DEF DataOK
  <2>3. \E some \in SUBSET wanted : veths' = veths \cup some
    BY <1>22 DEF RunLinks
  <2> HIDE DEF wanted, all
  <2>4. veths' \subseteq all
    BY <2>2, <2>3
  <2>5. veths' \subseteq {Ends(l) : l \in LinkConfig}
    BY <2>4 DEF all
  <2> QED BY <1>1, <1>2, <1>22, <2>5 DEF DataOK, RunLinks, work
<1>23. CASE Fetch(r)
  <2>1. data' \in [Requests -> File \cup {Torn}]
    BY <1>2, <1>23 DEF DataOK, Fetch
  <2> QED BY <1>1, <1>2, <1>23, <2>1 DEF DataOK, Fetch, topo
<1>24. CASE OpenEditor(r)
  <2>1. temp' \in File \cup {Torn, NoFile}
    BY <1>2, <1>24 DEF DataOK, OpenEditor
  <2> QED BY <1>1, <1>2, <1>24, <2>1 DEF DataOK, OpenEditor, topo, work
<1>25. CASE SaveEditor(r)
  <2>1. data[r] \in File \cup {Torn}
    BY <1>2 DEF DataOK
  <2>2. temp' \in File \cup {Torn, NoFile}
    BY <1>25, <2>1, EditedType DEF SaveEditor
  <2> QED BY <1>1, <1>2, <1>25, <2>2 DEF DataOK, SaveEditor, topo, work
<1>26. CASE Reread(r)
  <2>1. data' \in [Requests -> File \cup {Torn}]
    BY <1>2, <1>26 DEF DataOK, Reread
  <2> QED BY <1>1, <1>2, <1>26, <2>1 DEF DataOK, Reread, topo
<1>27. CASE SendFails(r)
  BY <1>1, <1>2, <1>27 DEF DataOK, SendFails, topo, work
<1>28. CASE RemoveTemp(r)
  <2>1. temp' \in File \cup {Torn, NoFile}
    BY <1>28 DEF RemoveTemp
  <2> QED BY <1>1, <1>2, <1>28, <2>1 DEF DataOK, RemoveTemp, topo, work
<1> QED
  BY <1>5, <1>6, <1>7, <1>8, <1>10, <1>11, <1>13, <1>14, <1>15, <1>16, <1>17, <1>18,
     <1>19, <1>20, <1>21, <1>22, <1>23, <1>24, <1>25, <1>26, <1>27, <1>28, <1>29, <1>30
     DEF Step, Halting

\* Every step keeps the types.
LEMMA StepKeepsType ==
    ASSUME TypeOK, Stages, Filling, NEW r \in Requests, Step(r), daemon = "up"
    PROVE  TypeOK'
<1>1. TypeOK' <=> DataOK' /\ Control'
  BY DEF TypeOK, DataOK, Control
<1> QED BY <1>1, StepMoves, StepKeepsData

\* A request is at the steps of its kind.
LEMMA StepKeepsStages ==
    ASSUME TypeOK, Stages, NEW r \in Requests, Step(r)
    PROVE  Stages'
<1> DEFINE Stage(s) ==
        /\ at[s] \in {"setup", "append"} => Kind(s) = "add"
        /\ at[s] \in {"delete", "remove"} => Kind(s) = "del"
        /\ at[s] = "configure" => Kind(s) = "update"
        /\ at[s] = "sync" => Kind(s) \in {"add", "del", "update"}
        /\ at[s] \in {"empty", "write"} => Kind(s) # "reload"
        /\ at[s] \in {"load", "fill", "bridging", "run"} => Kind(s) = "reload"
        /\ at[s] \in {"temp", "editor", "reread", "cleanup"} => Kind(s) = "edit"
        /\ at[s] \in {"append", "delete", "remove", "configure"} => found[s] # 0
        /\ at[s] \in {"delete", "remove"} => index[s] # 0
        /\ answer[s] # "none" => at[s] = "done"
        /\ Kind(s) = "add" => ~Link(s).rate
<1>1. Stages <=> \A s \in Requests : Stage(s)
  BY DEF Stages
<1>2. Stages' <=> \A s \in Requests : Stage(s)'
  BY DEF Stages
<1>3. Moves(r)
  BY StepMoves
<1>4. \A s \in Requests : Stage(s)
  BY DEF Stages
<1>5. \A s \in Requests \ {r} : Stage(s)'
  <2> TAKE s \in Requests \ {r}
  <2>1. /\ plan' = plan /\ found'[s] = found[s] /\ index'[s] = index[s]
        /\ answer'[s] = answer[s]
        /\ at'[s] = at[s] \/ (Storing(s) /\ at'[s] = "sync")
    BY <1>3 DEF Moves
  <2>2. Stage(s)
    BY <1>4
  <2>3. CASE at'[s] = at[s]
    BY <2>1, <2>2, <2>3 DEF Kind, Link
  <2>4. CASE Storing(s) /\ at'[s] = "sync"
    <3>1. Kind(s)' \in {"add", "del"} /\ at[s] # "done"
      BY <2>1, <2>2, <2>4 DEF Kind, Storing
    <3> QED BY <2>1, <2>2, <2>4, <3>1 DEF Kind, Link
  <2> QED BY <2>1, <2>3, <2>4
<1>6. Stage(r)'
  <2>1. plan' = plan /\ Stage(r) /\ at[r] # "done" /\ Kind(r)' = Kind(r) /\ Link(r)' = Link(r)
        /\ (at'[r] # "done" => answer' = answer)
    BY <1>3, <1>4 DEF Moves, Kind, Link
  <2>2. Kind(r) \in Kinds /\ answer[r] = "none"
    BY <2>1 DEF TypeOK
  <2>3. CASE at'[r] = "done"
    BY <2>1, <2>3
  <2> SUFFICES ASSUME at'[r] # "done" PROVE Stage(r)'
    BY <2>3
  <2>4. answer'[r] = "none"
    BY <2>1, <2>2
  <2>5. ASSUME NEW p, Goto(r, p), p \in Positions PROVE at'[r] = p
    BY <2>5, GotoType
  <2>6. ASSUME NEW a, Reply(r, a) PROVE FALSE
    BY <2>6 DEF Reply, TypeOK
  <2> HIDE DEF Stage
  <2> USE DEF Positions
  <2>7. CASE Synchronise(r)
    <3>1. at'[r] = "empty" /\ Kind(r) # "reload"
      BY <2>1, <2>5, <2>7 DEF Synchronise, Stage
    <3> QED BY <2>1, <2>4, <3>1 DEF Stage
  <2>8. CASE EmptyFile(r)
    <3>1. at'[r] = "write" /\ Kind(r) # "reload"
      BY <2>1, <2>5, <2>8 DEF EmptyFile, Stage
    <3> QED BY <2>1, <2>4, <3>1 DEF Stage
  <2>9. CASE WriteFile(r)
    <3>1. at'[r] = "cleanup" /\ Kind(r) = "edit"
      BY <2>5, <2>6, <2>9 DEF WriteFile
    <3> QED BY <2>1, <2>4, <3>1 DEF Stage
  <2>10. CASE WriteFails(r)
    BY <2>6, <2>10 DEF WriteFails
  <2>11. CASE BeginAdd(r)
    <3>1. at'[r] \in {"setup", "panic"} /\ Kind(r) = "add"
      BY <2>5, <2>6, <2>11 DEF BeginAdd, Panic
    <3> QED BY <2>1, <2>4, <3>1 DEF Stage
  <2>12. CASE SetupLink(r)
    <3>1. at'[r] = "append" /\ Kind(r) = "add" /\ found' = [found EXCEPT ![r] = Len(objects) + 1]
      BY <2>1, <2>5, <2>6, <2>12 DEF SetupLink, Stage
    <3>2. Len(objects) \in Nat /\ found \in [Requests -> 0..Len(objects)]
      BY DEF TypeOK
    <3>3. found'[r] # 0
      BY <3>1, <3>2
    <3> QED BY <2>1, <2>4, <3>1, <3>3 DEF Stage
  <2>13. ASSUME NEW p \in {"delete", "configure"}, BeginOn(r, p)
         PROVE  at'[r] = "panic" \/ (at'[r] = p /\ found'[r] # 0 /\ index'[r] # 0)
    <3>1. PICK i \in 0..Len(table) :
              /\ IsAt(Link(r), i) /\ Finds(r, i)
              /\ \/ Goto(r, "panic")
                 \/ IF i = 0 THEN Reply(r, "error") ELSE Goto(r, p)
      BY <2>13 DEF BeginOn, Panic
    <3>2. Goto(r, "panic") \/ (i # 0 /\ Goto(r, p))
      BY <2>6, <3>1
    <3> QED BY <2>5, <3>1, <3>2, FindsType
  <2>14. CASE BeginDel(r)
    <3>1. Kind(r) = "del" /\ BeginOn(r, "delete")
      BY <2>14 DEF BeginDel
    <3> QED BY <2>1, <2>4, <2>13, <3>1 DEF Stage
  <2>15. CASE BeginUpdate(r)
    <3>1. Kind(r) = "update" /\ BeginOn(r, "configure")
      BY <2>15 DEF BeginUpdate
    <3> QED BY <2>1, <2>4, <2>13, <3>1 DEF Stage
  <2>16. CASE DeleteLink(r)
    <3>1. at'[r] = "remove" /\ Kind(r) = "del" /\ found[r] # 0 /\ index[r] # 0
          /\ found' = found /\ index' = index
      BY <2>1, <2>5, <2>6, <2>16 DEF DeleteLink, Stage, work
    <3> QED BY <2>1, <2>4, <3>1 DEF Stage
  <2>17. CASE StoreLink(r)
    <3>1. at'[r] = "sync" /\ Kind(r) \in {"add", "del"}
      BY <2>1, <2>5, <2>17 DEF StoreLink, Storing, Stage
    <3> QED BY <2>1, <2>4, <3>1 DEF Stage
  <2>18. ASSUME NEW q \in Requests, StoreBoth(r, q) PROVE Stage(r)'
    <3>1. at'[r] = "sync" /\ Kind(r) \in {"add", "del"}
      BY <2>1, <2>18 DEF StoreBoth, Storing, Stage, TypeOK
    <3> QED BY <2>1, <2>4, <3>1 DEF Stage
  <2>19. CASE Halting(r)
    <3>1. at'[r] = "panic"
      BY <2>5, <2>19, HaltingKeeps
    <3> QED BY <2>1, <2>4, <3>1 DEF Stage
  <2>20. CASE Configure(r)
    <3>1. at'[r] = "sync" /\ Kind(r) = "update"
      BY <2>1, <2>5, <2>6, <2>20 DEF Configure, Stage
    <3> QED BY <2>1, <2>4, <3>1 DEF Stage
  <2>21. CASE CloseAll(r)
    <3>1. at'[r] = "load" /\ Kind(r) = "reload"
      BY <2>5, <2>21 DEF CloseAll
    <3> QED BY <2>1, <2>4, <3>1 DEF Stage
  <2>22. CASE Load(r)
    <3>1. at'[r] \in {"fill", "panic"} /\ Kind(r) = "reload"
      BY <2>1, <2>5, <2>6, <2>22 DEF Load, Panic, Stage
    <3> QED BY <2>1, <2>4, <3>1 DEF Stage
  <2>30. CASE FillLinks(r)
    <3>1. at'[r] \in {"bridging", "run", "panic"} /\ Kind(r) = "reload"
      BY <2>1, <2>5, <2>30 DEF FillLinks, Panic, Stage
    <3> QED BY <2>1, <2>4, <3>1 DEF Stage
  <2>31. CASE FillBridges(r)
    <3>1. at'[r] \in {"run", "panic"} /\ Kind(r) = "reload"
      BY <2>1, <2>5, <2>6, <2>31 DEF FillBridges, Panic, Stage
    <3> QED BY <2>1, <2>4, <3>1 DEF Stage
  <2>23. CASE RunLinks(r)
    BY <2>6, <2>23 DEF RunLinks
  <2>24. CASE Fetch(r)
    <3>1. at'[r] = "temp" /\ Kind(r) = "edit"
      BY <2>5, <2>24 DEF Fetch
    <3> QED BY <2>1, <2>4, <3>1 DEF Stage
  <2>25. CASE OpenEditor(r)
    <3>1. at'[r] = "editor" /\ Kind(r) = "edit"
      BY <2>1, <2>5, <2>25 DEF OpenEditor, Stage
    <3> QED BY <2>1, <2>4, <3>1 DEF Stage
  <2>26. CASE SaveEditor(r)
    <3>1. at'[r] = "reread" /\ Kind(r) = "edit"
      BY <2>1, <2>5, <2>26 DEF SaveEditor, Stage
    <3> QED BY <2>1, <2>4, <3>1 DEF Stage
  <2>27. CASE Reread(r)
    <3>1. at'[r] = "empty" /\ Kind(r) = "edit"
      BY <2>1, <2>5, <2>6, <2>27 DEF Reread, Stage
    <3> QED BY <2>1, <2>4, <3>1 DEF Stage
  <2>28. CASE SendFails(r)
    BY <2>6, <2>28 DEF SendFails
  <2>29. CASE RemoveTemp(r)
    BY <2>6, <2>29 DEF RemoveTemp
  <2> QED
    BY <2>7, <2>8, <2>9, <2>10, <2>11, <2>12, <2>14, <2>15, <2>16, <2>17, <2>18, <2>19,
       <2>20, <2>21, <2>22, <2>23, <2>24, <2>25, <2>26, <2>27, <2>28, <2>29, <2>30, <2>31
       DEF Step, Halting
<1> QED BY <1>2, <1>5, <1>6

-----------------------------------------------------------------------------
(* Requests that overlap.                                                   *)

\* Two requests that are under way have met.
UnderWay == {r \in Requests : at[r] \notin {"begin", "done"}}

Together == \A r, q \in UnderWay : r # q => {r, q} \in met

\* Every step keeps what has met.
LEMMA StepKeepsTogether ==
    ASSUME TypeOK, Stages, Together, NEW r \in Requests, Step(r)
    PROVE  Together'
<1>1. Moves(r)
  BY StepMoves
<1>2. \A q \in UnderWay' \ {r} : q \in UnderWay
  BY <1>1 DEF Moves, UnderWay, Storing
<1>3. met \subseteq met'
  BY <1>1 DEF Moves
<1>4. \A q \in UnderWay \ {r} : {r, q} \in met'
  <2>1. CASE at[r] = "begin"
    BY <1>1, <2>1 DEF Moves, UnderWay
  <2>2. CASE at[r] # "begin"
    <3>1. r \in UnderWay
      BY <1>1, <2>2 DEF Moves, UnderWay
    <3> QED BY <1>3, <3>1 DEF Together
  <2> QED BY <2>1, <2>2
<1> SUFFICES ASSUME NEW p \in UnderWay', NEW q \in UnderWay', p # q
               PROVE  {p, q} \in met'
  BY DEF Together
<1>6. {p, q} = {q, p}
  OBVIOUS
<1>7. CASE p = r
  BY <1>2, <1>4, <1>7
<1>8. CASE q = r
  BY <1>2, <1>4, <1>6, <1>8
<1>9. CASE p # r /\ q # r
  BY <1>2, <1>3, <1>9 DEF Together
<1> QED BY <1>7, <1>8, <1>9

\* A request that is served while another of some kinds is under way overlaps it.
LEMMA OverlapsWhenTogether ==
    ASSUME Together, NEW r \in UnderWay, NEW q \in UnderWay, r # q,
           NEW kinds, Kind(q) \in kinds
    PROVE  Overlap(r, kinds)
BY DEF Together, Overlap, UnderWay

\* Requests that have overlapped have done so for ever.
LEMMA OverlapStays ==
    ASSUME NEW r \in Requests, NEW kinds, Overlap(r, kinds), plan' = plan, met \subseteq met'
    PROVE  Overlap(r, kinds)'
BY DEF Overlap, Kind

\* A request that begins overlaps those that are under way.
LEMMA BeginningOverlaps ==
    ASSUME NEW r \in Requests, NEW q \in Requests, r # q, Moves(r), at[r] = "begin",
           at[q] \notin {"begin", "done"}
    PROVE  /\ \A kinds : Kind(r) \in kinds => Overlap(q, kinds)'
           /\ \A kinds : Kind(q) \in kinds => Overlap(r, kinds)'
<1>1. {r, q} \in met' /\ {r, q} = {q, r} /\ plan' = plan
  BY DEF Moves
<1> QED BY <1>1 DEF Overlap, Kind

\* A step beside a request that nothing of some kinds overlaps is of another kind.
LEMMA StepsBeside ==
    ASSUME Together, NEW r \in Requests, Moves(r), NEW s \in UnderWay, s # r,
           NEW kinds, ~Overlap(s, kinds)'
    PROVE  ~Overlap(s, kinds) /\ Kind(r) \notin kinds
<1>1. s \in Requests /\ at[s] \notin {"begin", "done"}
  BY DEF UnderWay
<1>2. ~Overlap(s, kinds)
  BY <1>1, OverlapStays DEF Moves
<1>3. CASE at[r] = "begin"
  BY <1>1, <1>2, <1>3, BeginningOverlaps
<1>4. CASE at[r] # "begin"
  <2>1. r \in UnderWay
    BY <1>4 DEF Moves, UnderWay
  <2> QED BY <1>2, <2>1, OverlapsWhenTogether
<1> QED BY <1>2, <1>3, <1>4

\* The step that brings a request to each place.
LEMMA Arrives ==
    ASSUME TypeOK, NEW r \in Requests, Step(r)
    PROVE  /\ at'[r] = "setup" => BeginAdd(r)
           /\ at'[r] = "append" => SetupLink(r)
           /\ at'[r] = "delete" => BeginDel(r)
           /\ at'[r] = "remove" => DeleteLink(r)
           /\ at'[r] = "configure" => BeginUpdate(r)
           /\ at'[r] = "empty" => Synchronise(r) \/ Reread(r)
           /\ at'[r] = "write" => EmptyFile(r)
           /\ at'[r] = "load" => CloseAll(r)
           /\ at'[r] = "fill" => Load(r)
           /\ at'[r] = "bridging" => FillLinks(r)
           /\ at'[r] = "run" => FillLinks(r) \/ FillBridges(r)
           /\ at'[r] = "temp" => Fetch(r)
           /\ at'[r] = "editor" => OpenEditor(r)
           /\ at'[r] = "reread" => SaveEditor(r)
           /\ at'[r] = "cleanup" => WriteFile(r)
<1>1. ASSUME NEW p \in Positions, Goto(r, p) PROVE at'[r] = p
  BY <1>1, GotoType
<1>2. ASSUME NEW a \in {"ok", "error", "refused"}, Reply(r, a) PROVE at'[r] = "done"
  BY <1>2, ReplyType
<1> USE DEF Positions
<1>3. CASE BeginAdd(r)
  <2>1. at'[r] \in {"done", "panic", "setup"}
    BY <1>1, <1>2, <1>3 DEF BeginAdd, Panic
  <2> QED BY <1>3, <2>1
<1>4. CASE BeginDel(r)
  <2>1. at'[r] \in {"done", "panic", "delete"}
    BY <1>1, <1>2, <1>4 DEF BeginDel, BeginOn, Panic
  <2> QED BY <1>4, <2>1
<1>5. CASE BeginUpdate(r)
  <2>1. at'[r] \in {"done", "panic", "configure"}
    BY <1>1, <1>2, <1>5 DEF BeginUpdate, BeginOn, Panic
  <2> QED BY <1>5, <2>1
<1>6. CASE StoreLink(r) \/ (\E q \in Requests : StoreBoth(r, q))
  <2>1. at'[r] = "sync"
    BY <1>1, <1>6 DEF StoreLink, StoreBoth, TypeOK
  <2> QED BY <2>1
<1>22. CASE Halting(r)
  <2>1. at'[r] = "panic"
    BY <1>1, <1>22, HaltingKeeps
  <2> QED BY <2>1
<1>7. CASE WriteFails(r) \/ SendFails(r) \/ RunLinks(r) \/ RemoveTemp(r)
  <2>1. at'[r] = "done"
    BY <1>2, <1>7 DEF WriteFails, SendFails, RunLinks, RemoveTemp
  <2> QED BY <2>1
<1>8. CASE Load(r)
  <2>1. at'[r] \in {"done", "panic", "fill"}
    BY <1>1, <1>2, <1>8 DEF Load, Panic
  <2> QED BY <1>8, <2>1
<1>20. CASE FillLinks(r)
  <2>1. at'[r] \in {"panic", "bridging", "run"}
    BY <1>1, <1>20 DEF FillLinks, Panic
  <2> QED BY <1>20, <2>1
<1>21. CASE FillBridges(r)
  <2>1. at'[r] \in {"done", "panic", "run"}
    BY <1>1, <1>2, <1>21 DEF FillBridges, Panic
  <2> QED BY <1>21, <2>1
<1>9. CASE CloseAll(r)
  <2>1. at'[r] = "load"
    BY <1>1, <1>9 DEF CloseAll
  <2> QED BY <1>9, <2>1
<1>10. CASE SetupLink(r)
  <2>1. at'[r] \in {"done", "append"}
    BY <1>1, <1>2, <1>10 DEF SetupLink
  <2> QED BY <1>10, <2>1
<1>11. CASE DeleteLink(r)
  <2>1. at'[r] \in {"done", "remove"}
    BY <1>1, <1>2, <1>11 DEF DeleteLink
  <2> QED BY <1>11, <2>1
<1>12. CASE Configure(r)
  <2>1. at'[r] \in {"done", "sync"}
    BY <1>1, <1>2, <1>12 DEF Configure
  <2> QED BY <2>1
<1>13. CASE WriteFile(r)
  <2>1. at'[r] \in {"done", "cleanup"}
    BY <1>1, <1>2, <1>13 DEF WriteFile
  <2> QED BY <1>13, <2>1
<1>14. CASE Synchronise(r)
  <2>1. at'[r] = "empty"
    BY <1>1, <1>14 DEF Synchronise
  <2> QED BY <1>14, <2>1
<1>15. CASE EmptyFile(r)
  <2>1. at'[r] = "write"
    BY <1>1, <1>15 DEF EmptyFile
  <2> QED BY <1>15, <2>1
<1>16. CASE Fetch(r)
  <2>1. at'[r] = "temp"
    BY <1>1, <1>16 DEF Fetch
  <2> QED BY <1>16, <2>1
<1>17. CASE OpenEditor(r)
  <2>1. at'[r] = "editor"
    BY <1>1, <1>17 DEF OpenEditor
  <2> QED BY <1>17, <2>1
<1>18. CASE SaveEditor(r)
  <2>1. at'[r] = "reread"
    BY <1>1, <1>18 DEF SaveEditor
  <2> QED BY <1>18, <2>1
<1>19. CASE Reread(r)
  <2>1. at'[r] \in {"done", "empty"}
    BY <1>1, <1>2, <1>19 DEF Reread
  <2> QED BY <1>19, <2>1
<1> QED
  BY <1>3, <1>4, <1>5, <1>6, <1>7, <1>8, <1>9, <1>10, <1>11, <1>12, <1>13, <1>14,
     <1>15, <1>16, <1>17, <1>18, <1>19, <1>20, <1>21, <1>22 DEF Step, Halting

\* The steps that a request may take at each place.
LEMMA Leaves ==
    ASSUME NEW r \in Requests, Step(r)
    PROVE  /\ at[r] = "begin" => \/ BeginAdd(r) \/ BeginDel(r) \/ BeginUpdate(r)
                                 \/ CloseAll(r) \/ Fetch(r) \/ ClosePanics(r)
           /\ at[r] = "setup" => SetupLink(r)
           /\ at[r] = "append" => StoreLink(r) \/ \E q \in Requests : StoreBoth(r, q)
           /\ at[r] = "delete" => DeleteLink(r)
           /\ at[r] = "remove" => \/ StoreLink(r) \/ RemovePanics(r)
                                  \/ \E q \in Requests : StoreBoth(r, q)
           /\ at[r] = "configure" => Configure(r)
           /\ at[r] = "sync" => Synchronise(r) \/ SynchronisePanics(r)
           /\ at[r] = "empty" => EmptyFile(r) \/ WriteFails(r) \/ SendFails(r)
           /\ at[r] = "write" => WriteFile(r) \/ WriteFails(r) \/ SendFails(r)
           /\ at[r] = "load" => Load(r)
           /\ at[r] = "fill" => FillLinks(r)
           /\ at[r] = "bridging" => FillBridges(r)
           /\ at[r] = "run" => RunLinks(r) \/ RunPanics(r)
<1>1. \/ BeginAdd(r) \/ BeginDel(r) \/ BeginUpdate(r) \/ CloseAll(r) \/ Fetch(r)
      \/ ClosePanics(r)
      => at[r] = "begin"
  BY DEF BeginAdd, BeginDel, BeginUpdate, BeginOn, CloseAll, Fetch, ClosePanics, Enters
<1>2. /\ SetupLink(r) => at[r] = "setup"
      /\ DeleteLink(r) => at[r] = "delete"
      /\ Configure(r) => at[r] = "configure"
      /\ Synchronise(r) => at[r] = "sync"
      /\ EmptyFile(r) => at[r] = "empty"
      /\ WriteFile(r) => at[r] = "write"
      /\ WriteFails(r) \/ SendFails(r) => at[r] \in {"empty", "write"}
      /\ Load(r) => at[r] = "load"
      /\ FillLinks(r) => at[r] = "fill"
      /\ FillBridges(r) => at[r] = "bridging"
      /\ RunLinks(r) \/ RunPanics(r) => at[r] = "run"
      /\ RemovePanics(r) => at[r] = "remove"
      /\ SynchronisePanics(r) => at[r] = "sync"
  BY DEF SetupLink, DeleteLink, Configure, Synchronise, EmptyFile, WriteFile,
         WriteFails, SendFails, Load, FillLinks, FillBridges, RunLinks, RunPanics,
         RemovePanics, SynchronisePanics
<1>3. StoreLink(r) \/ (\E q \in Requests : StoreBoth(r, q)) => at[r] \in {"append", "remove"}
  BY DEF StoreLink, StoreBoth, Storing
<1>4. /\ OpenEditor(r) => at[r] = "temp"
      /\ SaveEditor(r) => at[r] = "editor"
      /\ Reread(r) => at[r] = "reread"
      /\ RemoveTemp(r) => at[r] = "cleanup"
  BY DEF OpenEditor, SaveEditor, Reread, RemoveTemp
<1>5. Step(r)
  OBVIOUS
<1> QED BY <1>1, <1>2, <1>3, <1>4, <1>5 DEF Step

-----------------------------------------------------------------------------
(* Which requests take links away.                                          *)

\* t.links is changed by a request that stores, alone or with another, and by a
\* reload.
LEMMA TableSteps ==
    ASSUME TypeOK, Stages, NEW r \in Requests, Step(r)
    PROVE  \/ table' = table
           \/ Storing(r) /\ table' = Store(r) /\ at'[r] = "sync"
           \/ \E q \in Requests : StoreBoth(r, q)
           \/ at[r] = "begin" /\ Kind(r) = "reload" /\ at'[r] = "load" /\ table' = <<>>
           \/ at[r] = "load" /\ Kind(r) = "reload" /\ at'[r] = "fill"
           \/ FillLinks(r) /\ Kind(r) = "reload" /\ at'[r] \in {"bridging", "run"}
<1>1. ASSUME NEW p \in Positions, Goto(r, p) PROVE at'[r] = p
  BY <1>1, GotoType
<1> USE DEF Positions
<1>2. CASE StoreLink(r)
  BY <1>1, <1>2 DEF StoreLink
<1>3. CASE CloseAll(r)
  BY <1>1, <1>3 DEF CloseAll, Enters
<1>4. CASE Load(r)
  BY <1>1, <1>4 DEF Load, Stages
<1>8. CASE FillLinks(r)
  BY <1>1, <1>8 DEF FillLinks, Stages
<1>5. CASE \E q \in Requests : StoreBoth(r, q)
  BY <1>5
<1>6. CASE BeginDel(r) \/ BeginUpdate(r) \/ BeginAdd(r)
  BY <1>6 DEF BeginDel, BeginUpdate, BeginAdd, BeginOn, topo
<1>7. CASE \/ Synchronise(r) \/ EmptyFile(r) \/ WriteFile(r) \/ WriteFails(r)
           \/ SetupLink(r) \/ DeleteLink(r) \/ FillBridges(r) \/ Configure(r)
           \/ RunLinks(r) \/ Fetch(r) \/ OpenEditor(r) \/ SaveEditor(r) \/ Reread(r)
           \/ SendFails(r) \/ RemoveTemp(r)
  BY <1>7 DEF Synchronise, EmptyFile, WriteFile, WriteFails, SetupLink, DeleteLink,
              FillBridges, Configure, RunLinks, Fetch, OpenEditor, SaveEditor,
              Reread, SendFails, RemoveTemp, topo
<1>9. CASE Halting(r)
  BY <1>9, HaltingKeeps
<1> QED BY <1>2, <1>3, <1>4, <1>5, <1>6, <1>7, <1>8, <1>9 DEF Step, Halting

\* A step beside a request that no delete and no reload overlaps may append to
\* t.links.
LEMMA TableBeside ==
    ASSUME TypeOK, Stages, Together, NEW r \in Requests, Step(r), NEW s \in UnderWay,
           s # r, at'[s] # "sync", ~Overlap(s, {"del", "reload"})'
    PROVE  /\ ~Overlap(s, {"del", "reload"}) /\ Kind(r) \notin {"del", "reload"}
           /\ table' = table \/ (at[r] = "append" /\ table' = Store(r))
<1>1. ~Overlap(s, {"del", "reload"}) /\ Kind(r) \notin {"del", "reload"}
  BY StepMoves, StepsBeside
<1>2. ASSUME NEW q \in Requests, StoreBoth(r, q)
      PROVE  at[r] = "append" /\ table' = Store(r)
  <2>1. q # s /\ q \in UnderWay
    BY <1>2 DEF StoreBoth, Storing, UnderWay, TypeOK
  <2>2. Kind(q) \notin {"del", "reload"}
    BY <1>1, <2>1, OverlapsWhenTogether
  <2> QED BY <1>1, <1>2, <2>2 DEF StoreBoth, Storing, Stages
<1>3. Storing(r) => at[r] = "append"
  BY <1>1 DEF Storing, Stages
<1> QED BY <1>1, <1>2, <1>3, TableSteps

\* The nodes, the bridges, the nil pointers and the number of closures are changed
\* by reloads.
LEMMA ReloadSteps ==
    ASSUME TypeOK, Stages, NEW r \in Requests, Step(r)
    PROVE  /\ nodes' = nodes \/ CloseAll(r) \/ Load(r)
           /\ bridges' = bridges \/ CloseAll(r) \/ FillLinks(r)
           /\ epoch' = epoch \/ CloseAll(r)
           /\ broken' = broken \/ FillLinks(r) \/ FillBridges(r)
           /\ CloseAll(r) \/ Load(r) \/ FillLinks(r) \/ FillBridges(r) => Kind(r) = "reload"
<1>1. CloseAll(r) \/ Load(r) \/ FillLinks(r) \/ FillBridges(r) => Kind(r) = "reload"
  BY DEF CloseAll, Load, FillLinks, FillBridges, Stages
<1>2. /\ CloseAll(r) => broken' = broken
      /\ Load(r) => UNCHANGED <<bridges, epoch, broken>>
      /\ FillLinks(r) => UNCHANGED <<nodes, epoch>>
      /\ FillBridges(r) => UNCHANGED <<nodes, bridges, epoch>>
  BY DEF CloseAll, Load, FillLinks, FillBridges
<1>3. CASE BeginDel(r) \/ BeginUpdate(r) \/ BeginAdd(r) \/ StoreLink(r)
           \/ \E q \in Requests : StoreBoth(r, q)
  BY <1>1, <1>3 DEF BeginDel, BeginUpdate, BeginAdd, BeginOn, StoreLink, StoreBoth, topo
<1>4. CASE \/ Synchronise(r) \/ EmptyFile(r) \/ WriteFile(r) \/ WriteFails(r)
           \/ SetupLink(r) \/ DeleteLink(r) \/ Configure(r)
           \/ RunLinks(r) \/ Fetch(r) \/ OpenEditor(r) \/ SaveEditor(r) \/ Reread(r)
           \/ SendFails(r) \/ RemoveTemp(r)
  BY <1>1, <1>4 DEF Synchronise, EmptyFile, WriteFile, WriteFails, SetupLink, DeleteLink,
              Configure, RunLinks, Fetch, OpenEditor, SaveEditor,
              Reread, SendFails, RemoveTemp, topo
<1>5. CASE Halting(r)
  BY <1>1, <1>5, HaltingKeeps
<1> QED BY <1>1, <1>2, <1>3, <1>4, <1>5 DEF Step, Halting

\* A link object keeps its ends.
LEMMA ObjectSteps ==
    ASSUME TypeOK, Stages, NEW r \in Requests, Step(r)
    PROVE  /\ Len(objects) \in Nat /\ Len(objects') \in Nat /\ Len(objects) <= Len(objects')
           /\ \A k \in 1..Len(objects) :
                 /\ objects'[k].peer1 = objects[k].peer1
                 /\ objects'[k].peer2 = objects[k].peer2
<1>1. objects \in Seq(LinkConfig) /\ Len(objects) \in Nat
  BY DEF TypeOK
<1>2. CASE UNCHANGED objects
  BY <1>1, <1>2
<1>3. CASE SetupLink(r)
  <2>1. CASE objects' = Append(objects, WithBuffer(Link(r)))
    <3>1. WithBuffer(Link(r)) \in LinkConfig
      BY BufferGiven DEF TypeOK
    <3>2. Len(objects') = Len(objects) + 1 /\ \A k \in 1..Len(objects) : objects'[k] = objects[k]
      BY <1>1, <2>1, <3>1, AppendProperties
    <3> QED BY <1>1, <3>2
  <2> QED BY <1>2, <1>3, <2>1 DEF SetupLink
<1>4. CASE Configure(r)
  <2>1. CASE objects' = [objects EXCEPT ![found[r]].qos = Link(r).qos]
    <3>1. found[r] \in 1..Len(objects)
      BY <1>1, <1>4 DEF TypeOK, Configure, Stages
    <3>2. objects[found[r]] \in LinkConfig
      BY <1>1, <3>1
    <3> DEFINE new == [objects[found[r]] EXCEPT !.qos = Link(r).qos]
    <3>3. new.peer1 = objects[found[r]].peer1 /\ new.peer2 = objects[found[r]].peer2
      BY <3>2 DEF LinkConfig
    <3>4. objects' = [objects EXCEPT ![found[r]] = new]
      BY <2>1
    <3> HIDE DEF new
    <3>5. Len(objects') = Len(objects)
      BY <1>1, <3>4
    <3> QED BY <1>1, <3>1, <3>3, <3>4, <3>5
  <2> QED BY <1>2, <1>4, <2>1 DEF Configure
<1>5. CASE Load(r)
  <2>1. CASE Accepted(file) /\ objects' = objects \o [k \in DOMAIN file.links |-> WithBuffer(file.links[k])]
    <3>1. file \in File
      BY <2>1 DEF TypeOK, Accepted
    <3>2. /\ Len(objects') = Len(objects) + Len(file.links) /\ Len(file.links) \in Nat
          /\ \A k \in 1..Len(objects) : objects'[k] = objects[k]
      BY <2>1, <3>1, LoadedObjects, FileParts
    <3> QED BY <1>1, <3>2
  <2> QED BY <1>2, <1>5, <2>1 DEF Load
<1>6. CASE BeginDel(r) \/ BeginUpdate(r) \/ BeginAdd(r) \/ StoreLink(r) \/ CloseAll(r)
           \/ \E q \in Requests : StoreBoth(r, q)
  <2>1. UNCHANGED objects
    BY <1>6 DEF BeginDel, BeginUpdate, BeginAdd, BeginOn, StoreLink, CloseAll, StoreBoth, topo
  <2> QED BY <1>2, <2>1
<1>7. CASE \/ Synchronise(r) \/ EmptyFile(r) \/ WriteFile(r) \/ WriteFails(r)
           \/ DeleteLink(r) \/ FillLinks(r) \/ FillBridges(r) \/ RunLinks(r) \/ Fetch(r)
           \/ OpenEditor(r) \/ SaveEditor(r) \/ Reread(r) \/ SendFails(r) \/ RemoveTemp(r)
  <2>1. UNCHANGED objects
    BY <1>7 DEF Synchronise, EmptyFile, WriteFile, WriteFails, DeleteLink, FillLinks,
                FillBridges, RunLinks, Fetch, OpenEditor, SaveEditor, Reread, SendFails,
                RemoveTemp, topo
  <2> QED BY <1>2, <2>1
<1>8. CASE Halting(r)
  BY <1>2, <1>8, HaltingKeeps
<1> QED BY <1>3, <1>4, <1>5, <1>6, <1>7, <1>8 DEF Step, Halting

\* A delete that no other one and no reload overlaps has the place of its link;
\* a reload finds links in t.links only when another request has put them there.
PlacesKnown ==
    \A r \in Requests :
        /\ at[r] \in {"delete", "remove"} /\ ~Overlap(r, {"del", "reload"}) =>
              index[r] \in 1..Len(table) /\ table[index[r]] = found[r]
        /\ at[r] = "load" /\ table # <<>> => Overlap(r, {"add", "reload"})

\* What a request that appends makes of t.links.
LEMMA AppendKeeps ==
    ASSUME TypeOK, Stages, NEW r \in Requests, at[r] = "append"
    PROVE  /\ Store(r) = Append(table, found[r])
           /\ Len(Store(r)) = Len(table) + 1 /\ Len(table) \in Nat
           /\ \A i \in 1..Len(table) : Store(r)[i] = table[i]
           /\ Store(r)[Len(table) + 1] = found[r]
<1>1. found[r] \in 1..Len(objects) /\ table \in Seq(1..Len(objects))
  BY DEF TypeOK, Stages
<1>2. Store(r) = Append(table, found[r])
  BY DEF Store
<1> QED BY <1>1, <1>2, AppendProperties

\* What a request that removes makes of t.links.
LEMMA RemoveKeeps ==
    ASSUME TypeOK, Stages, NEW r \in Requests, at[r] = "remove", Storing(r)
    PROVE  /\ Len(table) \in Nat /\ index[r] \in 1..Len(table)
           /\ Store(r) = Without(index[r]) /\ Len(Store(r)) = Len(table) - 1
           /\ \A i \in 1..(Len(table) - 1) :
                 Store(r)[i] = table[IF i < index[r] THEN i ELSE i + 1]
<1>1. index[r] \in Nat /\ index[r] # 0 /\ index[r] <= Len(table) /\ Len(table) \in Nat
  BY DEF TypeOK, Stages, Storing
<1>2. Store(r) = Without(index[r])
  BY DEF Store, Without
<1>3. index[r] \in 1..Len(table) /\ Len(table) # 0
  BY <1>1
<1>4. /\ Len(Without(index[r])) = Len(table) - 1
      /\ \A i \in 1..(Len(table) - 1) :
            Without(index[r])[i] = table[IF i < index[r] THEN i ELSE i + 1]
  BY <1>1, <1>3, WithoutType
<1> QED BY <1>1, <1>2, <1>3, <1>4

\* Every step keeps the places of links.
LEMMA StepKeepsPlaces ==
    ASSUME TypeOK, Stages, Together, PlacesKnown, NEW r \in Requests, Step(r)
    PROVE  PlacesKnown'
<1>1. Moves(r)
  BY StepMoves
<1>2. plan' = plan /\ met \subseteq met' /\ Len(table) \in Nat
  BY <1>1 DEF Moves, TypeOK
<1>3. ASSUME NEW s \in Requests, at'[s] \in {"delete", "remove"},
             ~Overlap(s, {"del", "reload"})'
      PROVE  index'[s] \in 1..Len(table') /\ table'[index'[s]] = found'[s]
  <2>1. ~Overlap(s, {"del", "reload"})
    BY <1>2, <1>3, OverlapStays
  <2>2. CASE s = r
    <3>3. BeginDel(r) \/ DeleteLink(r)
      BY <1>3, <2>2, Arrives
    <3>4. CASE BeginDel(r)
      <4>1. PICK i \in 0..Len(table) :
                /\ IsAt(Link(r), i) /\ Finds(r, i)
                /\ \/ Goto(r, "panic")
                   \/ IF i = 0 THEN Reply(r, "error") ELSE Goto(r, "delete")
        BY <3>4 DEF BeginDel, BeginOn, Panic
      <4>2. i # 0
        BY <1>3, <2>2, <4>1, ReplyType, GotoType DEF Positions
      <4>3. table' = table
        BY <3>4 DEF BeginDel, BeginOn, topo
      <4> QED BY <2>2, <4>1, <4>2, <4>3, FindsType
    <3>5. CASE DeleteLink(r)
      <4>1. at[r] = "delete" /\ table' = table /\ index' = index /\ found' = found
        BY <3>5 DEF DeleteLink, work
      <4> QED BY <2>1, <2>2, <4>1 DEF PlacesKnown
    <3> QED BY <3>3, <3>4, <3>5
  <2>3. CASE s # r
    <3>1. /\ at[s] = at'[s] /\ index'[s] = index[s] /\ found'[s] = found[s]
          /\ s \in UnderWay
      BY <1>1, <1>3, <2>3 DEF Moves, UnderWay
    <3>2. index[s] \in 1..Len(table) /\ table[index[s]] = found[s]
      BY <1>3, <2>1, <3>1 DEF PlacesKnown
    <3>4. table' = table \/ (at[r] = "append" /\ table' = Store(r))
      BY <1>3, <2>3, <3>1, TableBeside
    <3>5. CASE table' = table
      BY <3>1, <3>2, <3>5
    <3>6. CASE at[r] = "append" /\ table' = Store(r)
      BY <3>1, <3>2, <3>6, AppendKeeps
    <3> QED BY <3>4, <3>5, <3>6
  <2> QED BY <2>2, <2>3
<1>4. ASSUME NEW s \in Requests, at'[s] = "load", table' # <<>>
      PROVE  Overlap(s, {"add", "reload"})'
  <2>1. CASE s = r
    <3>1. CloseAll(r)
      BY <1>4, <2>1, Arrives
    <3> QED BY <1>4, <3>1 DEF CloseAll
  <2>2. CASE s # r
    <3>1. at[s] = "load" /\ s \in UnderWay
      BY <1>1, <1>4, <2>2 DEF Moves, UnderWay
    <3>2. SUFFICES ASSUME table = <<>> PROVE Overlap(s, {"add", "reload"})'
      BY <1>2, <3>1, OverlapStays DEF PlacesKnown
    <3>3. ASSUME NEW q \in UnderWay, q # s, Kind(q) \in {"add", "reload"}
          PROVE  Overlap(s, {"add", "reload"})'
      BY <1>2, <3>1, <3>3, OverlapsWhenTogether, OverlapStays
    <3>4. Len(table) = 0
      BY <3>2
    <3>5. CASE Storing(r)
      <4>1. at[r] = "append"
        BY <3>4, <3>5, RemoveKeeps DEF Storing
      <4>2. r \in UnderWay /\ Kind(r) = "add"
        BY <4>1 DEF UnderWay, Stages
      <4> QED BY <2>2, <3>3, <4>2
    <3>6. CASE at[r] = "load" \/ FillLinks(r)
      <4>1. r \in UnderWay /\ Kind(r) = "reload"
        BY <3>6 DEF FillLinks, UnderWay, Stages
      <4> QED BY <2>2, <3>3, <4>1
    <3>7. CASE table' = table \/ table' = <<>>
      BY <1>4, <3>2, <3>7
    <3> QED BY <3>5, <3>6, <3>7, TableSteps DEF StoreBoth
  <2> QED BY <2>1, <2>2
<1> QED BY <1>3, <1>4 DEF PlacesKnown

\* What a reload that loads a file makes of the topology.
LEMMA LoadMakes ==
    ASSUME TypeOK, NEW r \in Requests, Load(r), at'[r] = "fill"
    PROVE  /\ file \in File /\ Accepted(file) /\ nodes' = file.nodes
           /\ objects' = objects \o [k \in DOMAIN file.links |-> WithBuffer(file.links[k])]
           /\ table' = Numbered(Len(objects), Len(objects'))
           /\ found'[r] = Len(objects) /\ data'[r] = file
           /\ Goto(r, "fill") /\ at[r] = "load" /\ seen' = seen /\ epoch' = epoch
           /\ veths' = veths
<1>1. \A a \in {"error", "refused"} : ~Reply(r, a)
  BY ReplyType
<1>2. ~Goto(r, "panic")
  BY GotoType DEF Positions
<1>3. /\ Accepted(file) /\ nodes' = file.nodes
      /\ objects' = objects \o [k \in DOMAIN file.links |-> WithBuffer(file.links[k])]
      /\ table' = Numbered(Len(objects), Len(objects'))
      /\ found' = [found EXCEPT ![r] = Len(objects)]
      /\ data' = [data EXCEPT ![r] = file]
      /\ Goto(r, "fill") /\ at[r] = "load" /\ seen' = seen /\ epoch' = epoch
      /\ veths' = veths
  BY <1>1, <1>2 DEF Load, Panic
<1> QED BY <1>3 DEF TypeOK, Accepted

\* Every step keeps what reloads fill in.
LEMMA StepKeepsFilling ==
    ASSUME TypeOK, Stages, Together, Filling, NEW r \in Requests, Step(r)
    PROVE  Filling'
<1>1. Moves(r) /\ plan' = plan /\ met \subseteq met'
  BY StepMoves DEF Moves
<1> DEFINE fills == {"fill", "bridging"}
<1>2. ASSUME NEW s \in Requests, NEW kinds, ~Overlap(s, kinds)' PROVE ~Overlap(s, kinds)
  BY <1>1, <1>2, OverlapStays
<1>3. ASSUME NEW s \in Requests, s # r, at'[s] \in {"load", "fill", "bridging", "run"}
      PROVE  /\ at[s] = at'[s] /\ s \in UnderWay /\ data'[s] = data[s]
             /\ found'[s] = found[s] /\ seen'[s] = seen[s]
  BY <1>1, <1>3 DEF Moves, UnderWay
<1>4. ASSUME NEW s \in Requests, s # r, at'[s] \in {"load", "fill", "bridging", "run"},
             ~Overlap(s, {"reload"})'
      PROVE  nodes' = nodes /\ bridges' = bridges /\ epoch' = epoch
  <2>1. s \in UnderWay
    BY <1>3, <1>4
  <2>2. Kind(r) # "reload"
    BY <1>1, <1>4, <2>1, StepsBeside
  <2> QED BY <2>2, ReloadSteps
<1>5. ASSUME at'[r] = "fill"
      PROVE  /\ data'[r] \in File /\ Accepted(data'[r]) /\ nodes' = data'[r].nodes
             /\ found'[r] + Len(data'[r].links) <= Len(objects')
             /\ \A i \in 1..Len(data'[r].links) :
                   /\ objects'[found'[r] + i].peer1 = data'[r].links[i].peer1
                   /\ objects'[found'[r] + i].peer2 = data'[r].links[i].peer2
             /\ Len(data'[r].links) <= Len(table')
             /\ \A i \in 1..Len(data'[r].links) : table'[i] = found'[r] + i
             /\ at[r] = "load" /\ seen'[r] = seen[r] /\ epoch' = epoch
  <2>1. Load(r)
    BY <1>5, Arrives
  <2>2. /\ file \in File /\ Accepted(file) /\ nodes' = file.nodes
        /\ objects' = objects \o [k \in DOMAIN file.links |-> WithBuffer(file.links[k])]
        /\ table' = Numbered(Len(objects), Len(objects'))
        /\ found'[r] = Len(objects) /\ data'[r] = file
        /\ at[r] = "load" /\ seen' = seen /\ epoch' = epoch
    BY <1>5, <2>1, LoadMakes
  <2>3. /\ Len(objects') = Len(objects) + Len(file.links)
        /\ Len(Numbered(Len(objects), Len(objects'))) = Len(file.links)
        /\ \A i \in 1..Len(file.links) :
              /\ Numbered(Len(objects), Len(objects'))[i] = Len(objects) + i
              /\ objects'[Len(objects) + i] = WithBuffer(file.links[i])
    BY <2>2, LoadedObjects
  <2>4. Len(objects) \in Nat /\ Len(file.links) \in Nat
    BY <2>2, FileParts DEF TypeOK
  <2>5. \A i \in 1..Len(file.links) :
            /\ WithBuffer(file.links[i]).peer1 = file.links[i].peer1
            /\ WithBuffer(file.links[i]).peer2 = file.links[i].peer2
    BY <2>2, FileParts, BufferGiven
  <2>6. data'[r].links = file.links /\ data'[r].nodes = file.nodes
    BY <2>2
  <2>7. /\ data'[r] \in File /\ Accepted(data'[r]) /\ nodes' = data'[r].nodes
        /\ at[r] = "load" /\ seen'[r] = seen[r] /\ epoch' = epoch
    BY <2>2
  <2>8. found'[r] + Len(data'[r].links) <= Len(objects')
    BY <2>2, <2>3, <2>4, <2>6
  <2>9. \A i \in 1..Len(data'[r].links) :
           /\ objects'[found'[r] + i].peer1 = data'[r].links[i].peer1
           /\ objects'[found'[r] + i].peer2 = data'[r].links[i].peer2
    BY <2>2, <2>3, <2>5, <2>6
  <2>10. /\ Len(data'[r].links) <= Len(table')
         /\ \A i \in 1..Len(data'[r].links) : table'[i] = found'[r] + i
    <3>1. Len(table') = Len(file.links)
      BY <2>2, <2>3
    <3>2. \A i \in 1..Len(file.links) : table'[i] = Len(objects) + i
      BY <2>2, <2>3
    <3> QED BY <2>2, <2>4, <2>6, <3>1, <3>2
  <2> QED BY <2>7, <2>8, <2>9, <2>10
<1>6. ASSUME at'[r] \in {"bridging", "run"}
      PROVE  /\ at[r] \in fills /\ UNCHANGED <<nodes, data, seen, epoch>>
             /\ at'[r] = "bridging" =>
                   bridges' = data[r].bridges /\ data[r].bridges # {}
  <2>1. FillLinks(r) \/ FillBridges(r)
    BY <1>6, Arrives
  <2>2. CASE FillLinks(r)
    <3>1. \A p : Goto(r, p) => at'[r] = p
      BY DEF Goto, TypeOK
    <3> QED BY <1>6, <2>2, <3>1 DEF FillLinks, Panic, work
  <2>3. CASE FillBridges(r)
    <3>1. at'[r] # "bridging"
      BY <2>3, Arrives DEF FillLinks, FillBridges
    <3> QED BY <2>3, <3>1 DEF FillBridges, work
  <2> QED BY <2>1, <2>2, <2>3
<1>7. ASSUME NEW s \in Requests, at'[s] \in fills
      PROVE  data'[s] \in File /\ Accepted(data'[s])
  <2>1. CASE s # r
    BY <1>3, <1>7, <2>1 DEF Filling
  <2>2. CASE s = r /\ at'[r] = "bridging"
    BY <1>6, <2>2 DEF Filling
  <2> QED BY <1>5, <1>7, <2>1, <2>2
<1>8. ASSUME NEW s \in Requests, at'[s] = "fill"
      PROVE  /\ found'[s] + Len(data'[s].links) <= Len(objects')
             /\ \A i \in 1..Len(data'[s].links) :
                   /\ objects'[found'[s] + i].peer1 = data'[s].links[i].peer1
                   /\ objects'[found'[s] + i].peer2 = data'[s].links[i].peer2
  <2>1. CASE s # r
    <3>1. at[s] = "fill" /\ data'[s] = data[s] /\ found'[s] = found[s]
      BY <1>3, <1>8, <2>1
    <3>2. found[s] + Len(data[s].links) <= Len(objects) /\ data[s] \in File
      BY <3>1 DEF Filling
    <3>3. \A i \in 1..Len(data[s].links) :
             /\ objects[found[s] + i].peer1 = data[s].links[i].peer1
             /\ objects[found[s] + i].peer2 = data[s].links[i].peer2
      BY <3>1 DEF Filling
    <3>4. found[s] \in Nat /\ Len(data[s].links) \in Nat
      BY <3>2, FileParts DEF TypeOK
    <3>5. Len(objects) \in Nat /\ Len(objects') \in Nat /\ Len(objects) <= Len(objects')
      BY ObjectSteps
    <3>6. \A i \in 1..Len(data[s].links) : found[s] + i \in 1..Len(objects)
      BY <3>2, <3>4, <3>5, WithinSum
    <3>7. \A i \in 1..Len(data[s].links) :
             /\ objects'[found[s] + i].peer1 = objects[found[s] + i].peer1
             /\ objects'[found[s] + i].peer2 = objects[found[s] + i].peer2
      BY <3>6, ObjectSteps
    <3>8. found[s] + Len(data[s].links) <= Len(objects')
      BY <3>2, <3>4, <3>5
    <3> QED BY <3>1, <3>3, <3>7, <3>8
  <2> QED BY <1>5, <1>8, <2>1
<1>9. ASSUME NEW s \in Requests, at'[s] \in fills, ~Overlap(s, {"reload"})'
      PROVE  nodes' = data'[s].nodes
  <2>1. ~Overlap(s, {"reload"})
    BY <1>2, <1>9
  <2>2. CASE s # r
    BY <1>3, <1>4, <1>9, <2>1, <2>2 DEF Filling
  <2>3. CASE s = r /\ at'[r] = "bridging"
    BY <1>6, <2>1, <2>3 DEF Filling
  <2> QED BY <1>5, <1>9, <2>2, <2>3
<1>10. ASSUME NEW s \in Requests, at'[s] = "fill", ~Overlap(s, {"del", "reload"})'
       PROVE  /\ Len(data'[s].links) <= Len(table')
              /\ \A i \in 1..Len(data'[s].links) : table'[i] = found'[s] + i
  <2>1. CASE s # r
    <3>1. at[s] = "fill" /\ data'[s] = data[s] /\ found'[s] = found[s] /\ s \in UnderWay
      BY <1>3, <1>10, <2>1
    <3>2. /\ ~Overlap(s, {"del", "reload"})
          /\ table' = table \/ (at[r] = "append" /\ table' = Store(r))
      BY <1>10, <2>1, <3>1, TableBeside
    <3>3. /\ Len(data[s].links) <= Len(table) /\ Len(data[s].links) \in Nat
      BY <3>1, <3>2, FileParts DEF Filling
    <3>4. \A i \in 1..Len(data[s].links) : table[i] = found[s] + i
      BY <3>1, <3>2 DEF Filling
    <3>5. CASE at[r] = "append" /\ table' = Store(r)
      BY <3>1, <3>3, <3>4, <3>5, AppendKeeps
    <3> QED BY <3>1, <3>2, <3>3, <3>4, <3>5
  <2> QED BY <1>5, <1>10, <2>1
<1>11. ASSUME NEW s \in Requests, at'[s] = "bridging"
       PROVE  /\ data'[s].bridges # {}
              /\ ~Overlap(s, {"reload"})' => bridges' = data'[s].bridges
  <2>1. CASE s # r
    <3>1. at[s] = "bridging" /\ data'[s] = data[s]
      BY <1>3, <1>11, <2>1
    <3>2. data[s].bridges # {}
      BY <3>1 DEF Filling
    <3>3. ASSUME ~Overlap(s, {"reload"})' PROVE bridges' = data[s].bridges
      <4>1. ~Overlap(s, {"reload"})
        BY <1>2, <3>3
      <4>2. bridges' = bridges
        BY <1>4, <1>11, <2>1, <3>3
      <4> QED BY <3>1, <4>1, <4>2 DEF Filling
    <3> QED BY <3>1, <3>2, <3>3
  <2>2. CASE s = r
    BY <1>6, <1>11, <2>2
  <2> QED BY <2>1, <2>2
<1>12. ASSUME NEW s \in Requests, at'[s] \in {"load", "fill", "bridging", "run"}
       PROVE  seen'[s] = epoch' \/ Overlap(s, {"reload"})'
  <2> SUFFICES ASSUME ~Overlap(s, {"reload"})' PROVE seen'[s] = epoch'
    OBVIOUS
  <2>1. ~Overlap(s, {"reload"})
    BY <1>2
  <2>2. CASE s # r
    BY <1>3, <1>4, <1>12, <2>1, <2>2 DEF Filling
  <2>3. CASE s = r /\ at'[r] = "load"
    <3>1. CloseAll(r)
      BY <2>3, Arrives
    <3> QED BY <2>3, <3>1 DEF CloseAll, TypeOK
  <2>4. CASE s = r /\ at'[r] = "fill"
    BY <1>5, <2>1, <2>4 DEF Filling
  <2>5. CASE s = r /\ at'[r] \in {"bridging", "run"}
    BY <1>6, <2>1, <2>5 DEF Filling
  <2> QED BY <1>12, <2>2, <2>3, <2>4, <2>5
<1> HIDE DEF fills
<1>13. /\ \A s \in Requests : at'[s] \in fills => data'[s] \in File /\ Accepted(data'[s])
       /\ \A s \in Requests : at'[s] \in fills /\ ~Overlap(s, {"reload"})' => nodes' = data'[s].nodes
  BY <1>7, <1>9
<1>14. /\ \A s \in Requests : at'[s] = "fill" => found'[s] + Len(data'[s].links) <= Len(objects')
       /\ \A s \in Requests : at'[s] = "fill" =>
             \A i \in 1..Len(data'[s].links) :
                /\ objects'[found'[s] + i].peer1 = data'[s].links[i].peer1
                /\ objects'[found'[s] + i].peer2 = data'[s].links[i].peer2
  BY <1>8
<1>15. /\ \A s \in Requests : at'[s] = "fill" /\ ~Overlap(s, {"del", "reload"})' =>
             Len(data'[s].links) <= Len(table')
       /\ \A s \in Requests : at'[s] = "fill" /\ ~Overlap(s, {"del", "reload"})' =>
             \A i \in 1..Len(data'[s].links) : table'[i] = found'[s] + i
  BY <1>10
<1>16. /\ \A s \in Requests : at'[s] = "bridging" => data'[s].bridges # {}
       /\ \A s \in Requests : at'[s] = "bridging" /\ ~Overlap(s, {"reload"})' =>
             bridges' = data'[s].bridges
  BY <1>11
<1>17. \A s \in Requests : at'[s] \in {"load", "fill", "bridging", "run"} =>
          seen'[s] = epoch' \/ Overlap(s, {"reload"})'
  BY <1>12
<1> QED BY <1>13, <1>14, <1>15, <1>16, <1>17 DEF Filling, fills

\* Reloads that overlap have met.
LEMMA ReloadsOverlap ==
    ASSUME NEW r \in Requests, Kind(r) = "reload", Overlap(r, {"reload"})
    PROVE  ReloadsMet
BY DEF Overlap, ReloadsMet

\* The nodes of a reload that no other overlaps are those of its links and bridges.
LEMMA FilledWhole ==
    ASSUME TypeOK, Filling, NEW r \in Requests, ~Overlap(r, {"reload"})
    PROVE  /\ at[r] = "fill" => \A k \in Made(r) : Known(Config(k))
           /\ at[r] = "bridging" =>
                 {PeerNode[p] : p \in UNION {BridgePeers[b] : b \in data[r].bridges}}
                     \subseteq Names(nodes)
<1>1. ASSUME at[r] = "fill", NEW k \in Made(r) PROVE Known(Config(k))
  <2>1. data[r] \in File /\ Accepted(data[r]) /\ nodes = data[r].nodes
    BY <1>1 DEF Filling
  <2>2. PICK i \in 1..Len(data[r].links) : k = found[r] + i
    BY <1>1 DEF Made
  <2>3. /\ Config(k).peer1 = data[r].links[i].peer1
        /\ Config(k).peer2 = data[r].links[i].peer2
    BY <1>1, <2>2 DEF Filling, Config
  <2>4. LinkAccepted(data[r].nodes, UsedAfter(data[r], i - 1), data[r].links[i])
    BY <2>1 DEF Accepted
  <2>5. {PeerNode[data[r].links[i].peer1], PeerNode[data[r].links[i].peer2]} \subseteq Names(nodes)
    BY <2>1, <2>4 DEF LinkAccepted, PeerValid
  <2> QED BY <2>3, <2>5 DEF Known, Between
<1>2. ASSUME at[r] = "bridging", NEW b \in data[r].bridges, NEW p \in BridgePeers[b]
      PROVE  PeerNode[p] \in Names(nodes)
  <2>1. data[r] \in File /\ Accepted(data[r]) /\ nodes = data[r].nodes
    BY <1>2 DEF Filling
  <2>2. BridgeAccepted(data[r], b)
    BY <1>2, <2>1 DEF Accepted
  <2>3. PeerValid(data[r].nodes, UsedAfter(data[r], Len(data[r].links)), p)
    BY <1>2, <2>2 DEF BridgeAccepted
  <2> QED BY <2>1, <2>3 DEF PeerValid
<1> QED BY <1>1, <1>2

\* Every step keeps the reasons for nil pointers.
LEMMA StepKeepsBroken ==
    ASSUME TypeOK, Stages, Filling, BrokenKnown, daemon = "up", NEW r \in Requests, Step(r)
    PROVE  BrokenKnown'
<1>1. Moves(r) /\ plan' = plan /\ met \subseteq met' /\ daemon \in {"up", "panic"}
  BY StepMoves DEF Moves, TypeOK
<1>2. ReloadsMet => ReloadsMet'
  BY <1>1 DEF ReloadsMet, Kind
<1> DEFINE Half == \E q \in Requests :
                      at[q] = "bridging" \/ (Kind(q) = "reload" /\ answer[q] = "error")
<1> SUFFICES ASSUME daemon' = "up", ~ReloadsMet', NEW k \in broken'
             PROVE  k = 0 /\ bridges' # {} /\ Half'
  BY DEF BrokenKnown
<1>3. ~ReloadsMet
  BY <1>2
<1>4. \A j \in broken : j = 0 /\ bridges # {} /\ Half
  BY <1>3 DEF BrokenKnown
<1>5. Kind(r) = "reload" => ~Overlap(r, {"reload"})
  BY <1>3, ReloadsOverlap
<1>6. Half /\ ~FillBridges(r) => Half'
  <2> SUFFICES ASSUME NEW q \in Requests, ~FillBridges(r),
                      at[q] = "bridging" \/ (Kind(q) = "reload" /\ answer[q] = "error")
               PROVE  Half'
    OBVIOUS
  <2>1. CASE q # r
    <3>1. answer'[q] = answer[q] /\ Kind(q)' = Kind(q) /\ (at[q] = "bridging" => at'[q] = at[q])
      BY <1>1, <2>1 DEF Moves, Storing, Kind
    <3> QED BY <3>1
  <2>2. CASE q = r
    <3>1. at[r] # "done"
      BY <1>1 DEF Moves
    <3>2. answer[r] = "none"
      BY <3>1 DEF Stages, TypeOK
    <3>3. at[r] # "bridging"
      BY Leaves
    <3> QED BY <2>2, <3>2, <3>3
  <2> QED BY <2>1, <2>2
<1>7. CASE FillLinks(r)
  <2>1. at[r] = "fill" /\ Kind(r) = "reload"
    BY <1>7 DEF FillLinks, Stages
  <2>2. {j \in Made(r) : ~Known(Config(j))} = {}
    BY <1>5, <2>1, FilledWhole
  <2>3. ~Panic(r)
    BY DEF Panic
  <2>4. /\ broken' = {j \in Made(r) : ~Known(Config(j))} \cup (broken \ {0})
                        \cup (IF data[r].bridges = {} THEN {} ELSE {0})
        /\ bridges' = data[r].bridges
        /\ Goto(r, IF data[r].bridges = {} THEN "run" ELSE "bridging")
    BY <1>7, <2>3 DEF FillLinks
  <2>5. k = 0 /\ data[r].bridges # {}
    BY <1>4, <2>2, <2>4
  <2>6. at'[r] = "bridging"
    BY <2>4, <2>5 DEF Goto, TypeOK
  <2> QED BY <2>4, <2>5, <2>6
<1>8. CASE FillBridges(r)
  <2>1. at[r] = "bridging" /\ Kind(r) = "reload" /\ bridges' = bridges
    BY <1>8 DEF FillBridges, Stages
  <2>2. {PeerNode[p] : p \in UNION {BridgePeers[b] : b \in data[r].bridges}} \subseteq Names(nodes)
    BY <1>5, <2>1, FilledWhole
  <2>3. ~Panic(r)
    BY DEF Panic
  <2>4. (Reply(r, "error") /\ broken' = broken) \/ broken' = broken \ {0}
    BY <1>8, <2>2, <2>3 DEF FillBridges
  <2>5. CASE broken' = broken \ {0}
    BY <1>4, <2>5
  <2>6. CASE Reply(r, "error") /\ broken' = broken
    <3>1. answer'[r] = "error" /\ Kind(r)' = "reload"
      BY <1>1, <2>1, <2>6, ReplyType DEF Kind
    <3> QED BY <1>4, <2>1, <2>6, <3>1
  <2> QED BY <2>4, <2>5, <2>6
<1>9. CASE ~FillLinks(r) /\ ~FillBridges(r)
  <2>1. broken' = broken
    BY <1>9, ReloadSteps
  <2>2. k = 0 /\ bridges # {} /\ Half'
    BY <1>4, <1>6, <1>9, <2>1
  <2>3. ~CloseAll(r)
    BY <2>1, <2>2 DEF CloseAll
  <2>4. bridges' = bridges
    BY <1>9, <2>3, ReloadSteps
  <2> QED BY <2>2, <2>4
<1> QED BY <1>7, <1>8, <1>9

\* A nil pointer is there when a reload fills in the topology, gave it up half way,
\* or met another.
LEMMA NilsExplained ==
    ASSUME BrokenKnown, daemon = "up", NEW k, k \in broken \/ Nil(k)
    PROVE  HalfLoaded \/ ReloadsMet
BY DEF BrokenKnown, Nil, HalfLoaded

\* Before the first reload the nodes are those of the file that was loaded.
FirstFile ==
    /\ epoch = 0 => \E s \in Scenarios : s.plan = plan /\ s.file.nodes = nodes
    /\ \A r \in Requests : at[r] = "load" => epoch # 0

\* Every step keeps the nodes until the first reload.
LEMMA StepKeepsFirstFile ==
    ASSUME TypeOK, Stages, FirstFile, NEW r \in Requests, Step(r)
    PROVE  FirstFile'
<1>1. plan' = plan /\ \A s \in Requests \ {r} : at'[s] = at[s] \/ at'[s] = "sync"
  BY StepMoves DEF Moves
<1>2. CASE CloseAll(r)
  <2>1. epoch' # 0
    BY <1>2 DEF CloseAll, TypeOK
  <2> QED BY <2>1 DEF FirstFile
<1>6. CASE UNCHANGED <<nodes, epoch>> /\ ~CloseAll(r)
  <2>1. at'[r] # "load"
    BY <1>6, Arrives
  <2>2. \A s \in Requests : at'[s] = "load" => at[s] = "load"
    BY <1>1, <2>1
  <2> QED BY <1>1, <1>6, <2>2 DEF FirstFile
<1>3. CASE Load(r)
  <2>1. epoch # 0 /\ epoch' = epoch
    BY <1>3 DEF Load, FirstFile
  <2> QED BY <2>1 DEF FirstFile
<1> QED BY <1>2, <1>3, <1>6, ReloadSteps

\* Why a request may stop the daemon.
MayStop(r) ==
    \/ at[r] = "begin" /\ Malformed(r)
    \/ Kind(r) = "add" /\ (epoch > 0 \/ Stray(Link(r)))
    \/ at[r] \in {"remove", "fill"} /\ Overlap(r, {"del", "reload"})
    \/ at[r] = "bridging" /\ Overlap(r, {"reload"})
    \/ at[r] = "load" /\ Names(file.nodes) \cap Odd # {}
    \/ at[r] \in {"fill", "bridging"} /\ DotlessEnds(data[r])
    \/ at[r] \in {"begin", "sync", "run"} /\ (HalfLoaded \/ ReloadsMet)

\* A reload that no delete and no other reload overlaps fills in what is there.
LEMMA FillKeeps ==
    ASSUME TypeOK, Filling, NEW r \in Requests, FillLinks(r), ~Overlap(r, {"del", "reload"})
    PROVE  table' = table /\ ~(Len(data[r].links) > Len(table))
<1>1. at[r] = "fill" /\ data[r] \in File
  BY DEF FillLinks, Filling
<1>2. Len(data[r].links) <= Len(table)
  BY <1>1 DEF Filling
<1>3. \A i \in 1..Len(data[r].links) : table[i] = found[r] + i
  BY <1>1 DEF Filling
<1>4. Len(data[r].links) \in Nat /\ Len(table) \in Nat /\ DOMAIN table = 1..Len(table)
      /\ table \in Seq(1..Len(objects))
  BY <1>1, FileParts DEF TypeOK
<1>5. \A i \in DOMAIN table :
         table[i] = IF i <= Len(data[r].links) THEN found[r] + i ELSE table[i]
  BY <1>2, <1>3, <1>4
<1>6. table = [i \in DOMAIN table |->
                 IF i <= Len(data[r].links) THEN found[r] + i ELSE table[i]]
  BY <1>4, <1>5
<1>7. table' = table \/ table' = [i \in DOMAIN table |->
                 IF i <= Len(data[r].links) THEN found[r] + i ELSE table[i]]
  BY DEF FillLinks
<1>8. table' = table
  BY <1>6, <1>7
<1>9. ~(Len(data[r].links) > Len(table))
  BY <1>2, <1>4
<1> QED BY <1>8, <1>9

\* A request stops the daemon only when it may.
LEMMA StopsWhenMay ==
    ASSUME TypeOK, Stages, PlacesKnown, FirstFile, Filling, BrokenKnown,
           daemon = "up", NEW r \in Requests, Step(r), daemon' = "panic"
    PROVE  at'[r] = "panic" /\ MayStop(r)
<1>1. Len(table) \in Nat /\ daemon' # daemon
  BY DEF TypeOK
<1>2. Panic(r) => at'[r] = "panic"
  BY DEF Panic, Goto, TypeOK
<1>3. \A i \in 0..Len(table) :
         MayPanic(r, i) => Malformed(r) \/ HalfLoaded \/ ReloadsMet
  <2> SUFFICES ASSUME NEW i \in 0..Len(table), MayPanic(r, i), ~Malformed(r)
               PROVE  HalfLoaded \/ ReloadsMet
    OBVIOUS
  <2>1. \E k : k \in broken \/ Nil(k)
    BY DEF MayPanic, MustPanic
  <2> QED BY <2>1, NilsExplained
<1>4. CASE BeginAdd(r)
  <2>1. at[r] = "begin" /\ Kind(r) = "add"
    BY <1>4 DEF BeginAdd, Enters
  <2>2. PICK i \in 0..Len(table) : (MayPanic(r, i) /\ Panic(r)) \/ (~Known(Link(r)) /\ Panic(r))
    BY <1>1, <1>4 DEF BeginAdd
  <2>3. CASE MayPanic(r, i)
    BY <1>2, <1>3, <2>1, <2>2, <2>3 DEF MayStop
  <2>4. CASE ~Known(Link(r))
    <3>1. epoch = 0 => Stray(Link(r))
      BY <2>4 DEF FirstFile, Known, Stray
    <3>2. epoch # 0 => epoch > 0
      BY DEF TypeOK
    <3> QED BY <1>2, <2>1, <2>2, <3>1, <3>2 DEF MayStop
  <2> QED BY <2>2, <2>3, <2>4
<1>5. CASE BeginDel(r) \/ BeginUpdate(r)
  <2>1. PICK i \in 0..Len(table) : MayPanic(r, i) /\ Panic(r)
    BY <1>1, <1>5 DEF BeginDel, BeginUpdate, BeginOn
  <2>2. at[r] = "begin"
    BY <1>5 DEF BeginDel, BeginUpdate, BeginOn, Enters
  <2> QED BY <1>2, <1>3, <2>1, <2>2 DEF MayStop
<1>6. CASE Load(r)
  <2>1. at[r] = "load" /\ Names(file.nodes) \cap Odd # {} /\ Panic(r)
    BY <1>1, <1>6 DEF Load
  <2> QED BY <1>2, <2>1 DEF MayStop
<1>7. CASE FillLinks(r)
  <2>1. /\ at[r] = "fill" /\ Panic(r)
        /\ \/ Len(data[r].links) > Len(table)
           \/ \E k \in 1..Len(data[r].links) : Dotless(data[r].links[k])
    BY <1>1, <1>7 DEF FillLinks
  <2>2. CASE Len(data[r].links) > Len(table)
    BY <1>2, <1>7, <2>1, <2>2, FillKeeps DEF MayStop
  <2>3. CASE \E k \in 1..Len(data[r].links) : Dotless(data[r].links[k])
    <3>1. DotlessEnds(data[r])
      BY <2>3 DEF DotlessEnds
    <3> QED BY <1>2, <2>1, <3>1 DEF MayStop
  <2> QED BY <2>1, <2>2, <2>3
<1>8. CASE FillBridges(r)
  <2>1. /\ at[r] = "bridging" /\ Panic(r)
        /\ \/ bridges = {}
           \/ NoIdx \in {PeerIdx[p] : p \in UNION {BridgePeers[b] : b \in data[r].bridges}}
    BY <1>1, <1>8 DEF FillBridges
  <2>2. bridges = {} => Overlap(r, {"reload"})
    BY <2>1 DEF Filling
  <2>3. NoIdx \in {PeerIdx[p] : p \in UNION {BridgePeers[b] : b \in data[r].bridges}}
        => DotlessEnds(data[r])
    BY DEF DotlessEnds
  <2> QED BY <1>2, <2>1, <2>2, <2>3 DEF MayStop
<1>9. CASE RemovePanics(r)
  <2>1. at[r] = "remove" /\ index[r] > Len(table) /\ index[r] \in Nat /\ Panic(r)
    BY <1>9 DEF RemovePanics, TypeOK
  <2>2. index[r] \notin 1..Len(table)
    BY <1>1, <2>1
  <2> QED BY <1>2, <2>1, <2>2 DEF PlacesKnown, MayStop
<1>10. CASE SynchronisePanics(r) \/ ClosePanics(r)
  <2>1. /\ at[r] \in {"begin", "sync"} /\ Panic(r)
        /\ \E k : k \in broken \/ Nil(k)
    BY <1>10 DEF SynchronisePanics, ClosePanics, Enters
  <2> QED BY <1>2, <2>1, NilsExplained DEF MayStop
<1>11. CASE RunPanics(r)
  <2>1. at[r] = "run" /\ Panic(r) /\ (Holes \/ ~Same(r)) /\ Kind(r) = "reload"
    BY <1>11 DEF RunPanics, Stages
  <2>2. CASE Holes
    <3>1. \E k : k \in broken \/ Nil(k)
      BY <2>2 DEF Holes
    <3> QED BY <1>2, <2>1, <3>1, NilsExplained DEF MayStop
  <2>3. CASE ~Same(r)
    <3>1. ReloadsMet
      BY <2>1, <2>3, ReloadsOverlap DEF Filling, Same
    <3> QED BY <1>2, <2>1, <3>1 DEF MayStop
  <2> QED BY <2>1, <2>2, <2>3
<1> QED
  BY <1>1, <1>4, <1>5, <1>6, <1>7, <1>8, <1>9, <1>10, <1>11
     DEF Step, Synchronise, EmptyFile, WriteFile, WriteFails, SetupLink, DeleteLink,
         StoreLink, StoreBoth, Configure, CloseAll, RunLinks, Fetch, OpenEditor, SaveEditor,
         Reread, SendFails, RemoveTemp

\* A step takes links away, or stops the daemon, only when it may.
LEMMA LinksGoStep ==
    ASSUME TypeOK, Stages, Together, PlacesKnown, FirstFile, Filling, BrokenKnown,
           daemon = "up", NEW r \in Requests, Step(r)
    PROVE  /\ \A k \in Held(table) \ Held(table') :
                 \E s \in Requests :
                    \/ Kind(s) = "reload" /\ at[s] = "begin" /\ at'[s] = "load"
                    \/ /\ at[s] = "load" /\ at'[s] = "fill"
                       /\ Overlap(s, {"add", "reload"})
                    \/ /\ at[s] = "fill" /\ at'[s] \in {"bridging", "run"}
                       /\ Overlap(s, {"del", "reload"})
                    \/ /\ at[s] = "remove" /\ at'[s] = "sync"
                       /\ \/ k = found[s]
                          \/ Overlap(s, {"del", "reload"})
           /\ daemon' = "panic" =>
                 \E s \in Requests : at'[s] = "panic" /\ MayStop(s)
<1>1. Len(table) \in Nat
  BY DEF TypeOK
<1>2. ASSUME NEW s \in Requests, at[s] = "append" PROVE Held(table) \subseteq Held(Store(s))
  <2>1. \A i \in 1..Len(table) : i \in 1..Len(Store(s)) /\ Store(s)[i] = table[i]
    BY <1>2, AppendKeeps
  <2> QED BY <2>1 DEF Held
<1>3. ASSUME NEW s \in Requests, at[s] = "remove", Storing(s),
             NEW k \in Held(table) \ Held(Store(s))
      PROVE  k = found[s] \/ Overlap(s, {"del", "reload"})
  <2>1. /\ index[s] \in 1..Len(table) /\ Len(Store(s)) = Len(table) - 1
        /\ \A i \in 1..(Len(table) - 1) :
              Store(s)[i] = table[IF i < index[s] THEN i ELSE i + 1]
    BY <1>3, RemoveKeeps
  <2>2. PICK i \in 1..Len(table) : table[i] = k
    BY <1>3 DEF Held
  <2>3. CASE i < index[s]
    <3>1. i \in 1..Len(Store(s)) /\ Store(s)[i] = k
      BY <1>1, <2>1, <2>2, <2>3
    <3> QED BY <1>3, <3>1 DEF Held
  <2>4. CASE i > index[s]
    <3>1. i - 1 \in 1..Len(Store(s)) /\ ~(i - 1 < index[s]) /\ (i - 1) + 1 = i
      BY <1>1, <2>1, <2>2, <2>4
    <3>2. Store(s)[i - 1] = k
      BY <2>1, <2>2, <3>1
    <3> QED BY <1>3, <3>1, <3>2 DEF Held
  <2>5. CASE i = index[s]
    BY <1>3, <2>2, <2>5 DEF PlacesKnown
  <2> QED BY <1>1, <2>1, <2>2, <2>3, <2>4, <2>5
<1>4. ASSUME NEW k \in Held(table) \ Held(table')
      PROVE  \E s \in Requests :
                \/ Kind(s) = "reload" /\ at[s] = "begin" /\ at'[s] = "load"
                \/ /\ at[s] = "load" /\ at'[s] = "fill"
                   /\ Overlap(s, {"add", "reload"})
                \/ /\ at[s] = "fill" /\ at'[s] \in {"bridging", "run"}
                   /\ Overlap(s, {"del", "reload"})
                \/ /\ at[s] = "remove" /\ at'[s] = "sync"
                   /\ \/ k = found[s]
                      \/ Overlap(s, {"del", "reload"})
  <2>1. CASE Storing(r) /\ table' = Store(r) /\ at'[r] = "sync"
    BY <1>2, <1>3, <1>4, <2>1 DEF Storing
  <2>2. ASSUME NEW q \in Requests, StoreBoth(r, q) PROVE <1>4!2
    <3>1. r # q /\ Storing(r) /\ Storing(q) /\ at'[r] = "sync" /\ at'[q] = "sync"
      BY <2>2 DEF StoreBoth, TypeOK
    <3>2. CASE table' = Store(r)
      BY <1>2, <1>3, <1>4, <3>1, <3>2 DEF Storing
    <3>3. CASE /\ at[r] = "append" /\ at[q] = "remove"
               /\ table' = Store(q) \o <<table[Len(table)], found[r]>>
      <4> DEFINE more == <<table[Len(table)], found[r]>>
      <4>1. Len(more) = 2 /\ more \in Seq({table[Len(table)], found[r]})
        OBVIOUS
      <4>2. Store(q) \in Seq(1..Len(objects)) /\ Len(Store(q)) \in Nat
        BY <3>1, <3>3, StoreType DEF Stages
      <4> HIDE DEF more
      <4>3. \A i \in 1..Len(Store(q)) :
               i \in 1..Len(Store(q) \o more) /\ (Store(q) \o more)[i] = Store(q)[i]
        <5>1. Store(q) \in Seq((1..Len(objects)) \cup {table[Len(table)], found[r]})
              /\ more \in Seq((1..Len(objects)) \cup {table[Len(table)], found[r]})
          BY <4>1, <4>2, SeqMonotonic
        <5> QED BY <4>1, <4>2, <5>1, ConcatProperties
      <4>4. Held(Store(q)) \subseteq Held(table')
        BY <3>3, <4>3 DEF Held, more
      <4> QED BY <1>3, <1>4, <3>1, <3>3, <4>4
    <3> QED BY <2>2, <3>2, <3>3 DEF StoreBoth
  <2>3. CASE at[r] = "load" /\ at'[r] = "fill"
    <3>1. table # <<>>
      BY <1>1, <1>4 DEF Held
    <3> QED BY <2>3, <3>1 DEF PlacesKnown
  <2>4. CASE FillLinks(r) /\ at'[r] \in {"bridging", "run"}
    <3>1. at[r] = "fill" /\ table' # table
      BY <1>4, <2>4 DEF FillLinks
    <3> QED BY <2>4, <3>1, FillKeeps
  <2> QED BY <1>4, <2>1, <2>2, <2>3, <2>4, TableSteps
<1>5. daemon' = "panic" => at'[r] = "panic" /\ MayStop(r)
  BY StopsWhenMay
<1> QED BY <1>4, <1>5

-----------------------------------------------------------------------------
(* Edits.                                                                   *)

\* What an edit that nothing overlaps has made of the file.
EditFollows ==
    \A r \in Requests :
        Kind(r) = "edit" /\ ~Overlap(r, {"edit", "add", "del", "update"}) =>
            /\ at[r] = "temp" => data[r] = file
            /\ at[r] = "editor" => data[r] = file
            /\ at[r] = "reread" => temp = Edited(file, r)
            /\ at[r] = "empty" => data[r] = Edited(file, r)
            /\ at[r] = "write" => file = Empty /\ data[r] = Edited(under[r], r)

\* The file and the temporary file are changed by others than reloads.
LEMMA FileSteps ==
    ASSUME TypeOK, Stages, NEW r \in Requests, Step(r), Kind(r) = "reload"
    PROVE  file' = file /\ temp' = temp
<1>1. BeginAdd(r) \/ BeginDel(r) \/ BeginUpdate(r) \/ CloseAll(r) \/ Load(r) \/ RunLinks(r)
      \/ FillLinks(r) \/ FillBridges(r)
      => file' = file /\ temp' = temp
  BY DEF BeginAdd, BeginDel, BeginUpdate, BeginOn, CloseAll, Load, RunLinks, FillLinks,
         FillBridges
<1>2. SetupLink(r) \/ DeleteLink(r) \/ StoreLink(r) \/ Configure(r)
      \/ (\E q \in Requests : StoreBoth(r, q))
      => file' = file /\ temp' = temp
  BY DEF SetupLink, DeleteLink, StoreLink, Configure, StoreBoth
<1>5. Halting(r) => file' = file /\ temp' = temp
  BY HaltingKeeps
<1>3. ~(Synchronise(r) \/ EmptyFile(r) \/ WriteFile(r) \/ WriteFails(r) \/ SendFails(r))
  BY DEF Synchronise, EmptyFile, WriteFile, WriteFails, SendFails, Stages
<1>4. ~(Fetch(r) \/ OpenEditor(r) \/ SaveEditor(r) \/ Reread(r) \/ RemoveTemp(r))
  BY DEF Fetch, OpenEditor, SaveEditor, Reread, RemoveTemp, Stages
<1> QED BY <1>1, <1>2, <1>3, <1>4, <1>5 DEF Step, Halting

\* Every step keeps what edits have made of the file.
LEMMA StepKeepsEdits ==
    ASSUME TypeOK, Stages, Together, EditFollows, NEW r \in Requests, Step(r)
    PROVE  EditFollows'
<1> DEFINE others == {"edit", "add", "del", "update"}
<1>1. Moves(r) /\ plan' = plan /\ met \subseteq met'
  BY StepMoves DEF Moves
<1>2. \A f, s : Edited(f, s)' = Edited(f, s)
  BY <1>1 DEF Edited, Link
<1> SUFFICES ASSUME NEW s \in Requests, Kind(s) = "edit", ~Overlap(s, others)'
      PROVE  /\ at'[s] = "temp" => data'[s] = file'
             /\ at'[s] = "editor" => data'[s] = file'
             /\ at'[s] = "reread" => temp' = Edited(file', s)
             /\ at'[s] = "empty" => data'[s] = Edited(file', s)
             /\ at'[s] = "write" => file' = Empty /\ data'[s] = Edited(under'[s], s)
  BY <1>1, <1>2 DEF EditFollows, Kind
<1>3. ~Overlap(s, others)
  BY <1>1, OverlapStays
<1>4. /\ at[s] = "temp" => data[s] = file
      /\ at[s] = "editor" => data[s] = file
      /\ at[s] = "reread" => temp = Edited(file, s)
      /\ at[s] = "empty" => data[s] = Edited(file, s)
      /\ at[s] = "write" => file = Empty /\ data[s] = Edited(under[s], s)
  BY <1>3 DEF EditFollows
<1> HIDE DEF others
<1>5. CASE s = r
  <2>1. CASE at'[r] = "temp"
    <3>1. Fetch(r)
      BY <2>1, Arrives
    <3>2. data'[r] = file /\ file' = file
      BY <3>1 DEF Fetch, TypeOK
    <3> QED BY <1>5, <2>1, <3>2
  <2>2. CASE at'[r] = "editor"
    <3>1. OpenEditor(r)
      BY <2>2, Arrives
    <3>2. at[r] = "temp" /\ data' = data /\ file' = file
      BY <3>1 DEF OpenEditor, work
    <3> QED BY <1>4, <1>5, <2>2, <3>2
  <2>3. CASE at'[r] = "reread"
    <3>1. SaveEditor(r)
      BY <2>3, Arrives
    <3>2. at[r] = "editor" /\ temp' = Edited(data[r], r) /\ file' = file
      BY <3>1 DEF SaveEditor
    <3> QED BY <1>4, <1>5, <2>3, <3>2
  <2>4. CASE at'[r] = "empty"
    <3>1. ~Synchronise(r)
      BY <1>5 DEF Synchronise, Stages
    <3>2. Reread(r)
      BY <2>4, <3>1, Arrives
    <3>3. Reply(r, "error") => at'[r] = "done"
      BY ReplyType
    <3>4. at[r] = "reread" /\ data'[r] = temp /\ file' = file
      BY <2>4, <3>2, <3>3 DEF Reread, TypeOK
    <3> QED BY <1>4, <1>5, <2>4, <3>4
  <2>5. CASE at'[r] = "write"
    <3>1. EmptyFile(r)
      BY <2>5, Arrives
    <3>2. at[r] = "empty" /\ data' = data /\ file' = Empty /\ under'[r] = file
      BY <3>1 DEF EmptyFile, work, TypeOK
    <3> QED BY <1>4, <1>5, <2>5, <3>2
  <2> QED BY <1>5, <2>1, <2>2, <2>3, <2>4, <2>5
<1>6. CASE s # r /\ at'[s] \in {"temp", "editor", "reread", "empty", "write"}
  <2>1. /\ at[s] = at'[s] /\ data'[s] = data[s] /\ under'[s] = under[s]
        /\ s \in UnderWay
    BY <1>1, <1>6 DEF Moves, UnderWay
  <2>2. Kind(r) \notin others
    <3>1. CASE at[r] = "begin"
      BY <1>1, <1>6, <2>1, <3>1, BeginningOverlaps DEF UnderWay
    <3>2. CASE at[r] # "begin"
      <4>1. r \in UnderWay
        BY <1>1, <3>2 DEF Moves, UnderWay
      <4> QED BY <1>3, <1>6, <2>1, <4>1, OverlapsWhenTogether
    <3> QED BY <3>1, <3>2
  <2>3. Kind(r) = "reload"
    BY <2>2 DEF others, TypeOK, Kinds
  <2>4. file' = file /\ temp' = temp
    BY <2>3, FileSteps
  <2> QED BY <1>4, <2>1, <2>4
<1> QED BY <1>5, <1>6

\* An edit writes over what its user saw.
LEMMA EditsKeepStep ==
    ASSUME TypeOK, Stages, EditFollows, NEW r \in Requests, Step(r),
           NEW s \in Requests, at[s] = "write", at'[s] = "cleanup"
    PROVE  file' = Edited(under[s], s) \/ Overlap(s, {"edit", "add", "del", "update"})
<1>1. s = r
  BY StepMoves DEF Moves
<1>2. WriteFile(r)
  BY <1>1, Arrives
<1>3. Kind(r) = "edit"
  <2>1. Reply(r, "ok") => at'[r] = "done"
    BY ReplyType
  <2> QED BY <1>1, <1>2, <2>1 DEF WriteFile
<1>4. file' = data[r] \/ file # Empty
  BY <1>2 DEF WriteFile
<1> QED BY <1>1, <1>3, <1>4 DEF EditFollows

-----------------------------------------------------------------------------
(* One request after the other.                                             *)

\* No two requests overlapped, and no reload has failed.
Calm == met = {} /\ \A q \in Requests : Kind(q) = "reload" => answer[q] # "error"

\* The last request has written the topology.
Synced ==
    /\ last # <<>> /\ Kind(last[Len(last)]) \in {"add", "del", "update"}
    /\ answer[last[Len(last)]] = "ok"

\* CheckTopology accepts the links, but for those without a rate.
Fit(ns, ls) ==
    \A i \in 1..Len(ls) :
        /\ Between(ls[i]) \subseteq Names(ns) /\ ls[i].peer1 # ls[i].peer2
        /\ ls[i].rate => {ls[i].peer1, ls[i].peer2} \subseteq Matched
        /\ \A j \in 1..Len(ls) :
              i # j => {ls[i].peer1, ls[i].peer2} \cap {ls[j].peer1, ls[j].peer2} = {}

\* No two links share an interface.
Apart(ls) ==
    \A i, j \in 1..Len(ls) : i # j => Ends(ls[i]) \cap Ends(ls[j]) = {}

\* The nodes were accepted once, and every link has a buffer.
Accepting ==
    /\ Names(nodes) \cap Unfit = {}
    /\ \A k \in 1..Len(objects) : objects[k].buffer

\* A link that is to be set up has its nodes.
SetupSound == \A r \in Requests : at[r] = "setup" => Known(Link(r))

\* A link that is set up has its nodes, its veth, and interfaces of its own, and no
\* rate.
AppendSound ==
    \A r \in Requests : at[r] = "append" =>
        /\ Known(Config(found[r])) /\ ~Loop(Config(found[r])) /\ ~Config(found[r]).rate
        /\ Ends(Config(found[r])) \in veths
        /\ \A i \in 1..Len(table) : Ends(Config(found[r])) \cap Ends(Configs[i]) = {}

\* No two links of t.links share an interface, and each has its veth, but for
\* those that a reload has still to set up and the one being deleted.
TableSound ==
    (\A r \in Requests : at[r] \notin {"fill", "bridging", "run", "panic"}) =>
        /\ Apart(Configs)
        /\ \A i \in 1..Len(table) :
              \/ Ends(Configs[i]) \in veths
              \/ \E r \in Requests : at[r] = "remove" /\ index[r] = i

LinksSound == Calm => Fit(nodes, Configs) /\ SetupSound /\ AppendSound /\ TableSound

\* What SynchroniseTopology writes of t.
Written(t) ==
    [nodes |-> Names(t.nodes) \X {TRUE}, links |-> t.links,
     bridges |-> {IfName(b) : b \in t.bridges}]

\* A reload knows what the topology was.
BeforeKnown ==
    \A r \in Requests : at[r] = "load" =>
        /\ Names(before[r].nodes) \cap Unfit = {}
        /\ \A i \in 1..Len(before[r].links) : before[r].links[i].buffer
        /\ Calm => Fit(before[r].nodes, before[r].links)
        /\ Calm /\ Synced => file = Written(before[r])

\* A reload that fills in the topology has loaded what it was.
BeforeKept ==
    \A r \in Requests : at[r] = "fill" /\ Calm /\ Synced =>
        /\ before[r].bridges = {} /\ \A i \in DOMAIN before[r].links : before[r].links[i].rate
        /\ nodes = Names(before[r].nodes) \X {TRUE} /\ Configs = before[r].links

\* After a request that synchronised, the file is the topology.
FileFollows ==
    Calm =>
        /\ UnderWay = {} /\ Synced => file = Topology
        /\ \A r \in Requests : Kind(r) # "edit" =>
              /\ at[r] = "empty" => data[r] = Topology
              /\ at[r] = "write" => data[r] = Topology /\ file = Empty

\* When all is calm after a step it was before, and nothing else is under way.
LEMMA CalmAlone ==
    ASSUME TypeOK, Stages, Together, NEW r \in Requests, Step(r), Calm'
    PROVE  /\ Calm /\ UnderWay \subseteq {r} /\ met = {} /\ met' = {}
           /\ \A q \in Requests \ {r} : at'[q] = at[q] /\ at[q] \in {"begin", "done"}
           /\ \A q \in Requests : ~StoreBoth(r, q)
           /\ \A q \in Requests : \A kinds : ~Overlap(q, kinds)
<1>1. Moves(r) /\ met' = {} /\ plan' = plan
  BY StepMoves DEF Moves, Calm
<1>2. met = {}
  BY <1>1 DEF Moves
<1>3. \A q \in Requests \ {r} : at[q] \in {"begin", "done"}
  <2> SUFFICES ASSUME NEW q \in Requests \ {r}, at[q] \notin {"begin", "done"} PROVE FALSE
    OBVIOUS
  <2>1. CASE at[r] = "begin"
    BY <1>1, <2>1 DEF Moves
  <2>2. CASE at[r] # "begin"
    <3>1. r \in UnderWay /\ q \in UnderWay /\ r # q
      BY <1>1, <2>2 DEF Moves, UnderWay
    <3> QED BY <1>2, <3>1 DEF Together
  <2> QED BY <2>1, <2>2
<1>4. \A q \in Requests \ {r} : at'[q] = at[q]
  BY <1>1, <1>3 DEF Moves, Storing
<1>5. \A q \in Requests : ~StoreBoth(r, q)
  BY <1>3 DEF StoreBoth, Storing
<1>6. Calm
  <2> SUFFICES ASSUME NEW q \in Requests, Kind(q) = "reload", answer[q] = "error"
               PROVE  FALSE
    BY <1>2 DEF Calm
  <2>1. at[q] = "done"
    BY DEF Stages
  <2>2. q # r
    BY <1>1, <2>1 DEF Moves
  <2>3. answer'[q] = "error" /\ Kind(q)' = "reload"
    BY <1>1, <2>2 DEF Moves, Kind
  <2> QED BY <2>3 DEF Calm
<1> QED BY <1>1, <1>2, <1>3, <1>4, <1>5, <1>6 DEF UnderWay, Overlap

-----------------------------------------------------------------------------
(* CheckTopology.                                                           *)

\* Links with the same ends and a rate or none fit alike.
LEMMA FitAlike ==
    ASSUME NEW ns, NEW ls, NEW ms, Fit(ns, ls), Len(ms) = Len(ls),
           \A i \in 1..Len(ls) : /\ ms[i].peer1 = ls[i].peer1 /\ ms[i].peer2 = ls[i].peer2
                                  /\ ms[i].rate = ls[i].rate
    PROVE  Fit(ns, ms)
BY DEF Fit, Between

\* Links with the same ends have the same interfaces.
LEMMA SameEnds ==
    ASSUME NEW l, NEW k, l.peer1 = k.peer1, l.peer2 = k.peer2
    PROVE  /\ Ends(l) = Ends(k) /\ Loop(l) = Loop(k) /\ Between(l) = Between(k)
           /\ Known(l) = Known(k)
BY DEF Ends, Loop, Between, Known

\* The links of a file that is accepted fit to its nodes.
LEMMA AcceptedFits ==
    ASSUME NEW f \in File, Accepted(f)
    PROVE  Fit(f.nodes, f.links) /\ Names(f.nodes) \cap Unfit = {}
<1>1. \A k \in 1..Len(f.links) : LinkAccepted(f.nodes, UsedAfter(f, k - 1), f.links[k])
  BY DEF Accepted
<1>2. ASSUME NEW i \in 1..Len(f.links), NEW j \in 1..Len(f.links), i < j
      PROVE  {f.links[i].peer1, f.links[i].peer2} \cap {f.links[j].peer1, f.links[j].peer2} = {}
  <2>1. i \in 1..(j - 1)
    BY <1>2, FileParts
  <2>2. {f.links[i].peer1, f.links[i].peer2} \subseteq UsedAfter(f, j - 1)
    BY <2>1 DEF UsedAfter
  <2>3. f.links[j].peer1 \notin UsedAfter(f, j - 1) /\ f.links[j].peer2 \notin UsedAfter(f, j - 1)
    BY <1>1 DEF LinkAccepted, PeerValid
  <2> QED BY <2>2, <2>3
<1>3. ASSUME NEW i \in 1..Len(f.links)
      PROVE  /\ Between(f.links[i]) \subseteq Names(f.nodes)
             /\ f.links[i].peer1 # f.links[i].peer2
             /\ {f.links[i].peer1, f.links[i].peer2} \subseteq Matched
  BY <1>1 DEF LinkAccepted, PeerValid, Between
<1>4. ASSUME NEW i \in 1..Len(f.links), NEW j \in 1..Len(f.links), i # j
      PROVE  {f.links[i].peer1, f.links[i].peer2} \cap {f.links[j].peer1, f.links[j].peer2} = {}
  <2>1. i < j \/ j < i
    BY <1>4, FileParts
  <2> QED BY <1>2, <2>1
<1>5. Names(f.nodes) \cap Unfit = {}
  BY DEF Accepted, NodeAccepted
<1> QED BY <1>3, <1>4, <1>5 DEF Fit

\* What is written of links that fit is accepted if there is no bridge and every
\* link has a rate.
LEMMA WrittenAccepted ==
    ASSUME NEW t \in [nodes : SUBSET (Nodes \X BOOLEAN), links : Seq(LinkConfig),
                      bridges : SUBSET Bridges],
           Names(t.nodes) \cap Unfit = {}, Fit(t.nodes, t.links),
           \A i \in 1..Len(t.links) : t.links[i].buffer
    PROVE  /\ Written(t) \in File
           /\ Accepted(Written(t)) <=> t.bridges = {} /\ \A i \in DOMAIN t.links : t.links[i].rate
<1> DEFINE f == Written(t)
<1>1. t.nodes \in SUBSET (Nodes \X BOOLEAN) /\ t.links \in Seq(LinkConfig)
      /\ t.bridges \in SUBSET Bridges
  OBVIOUS
<1>2. /\ Names(f.nodes) = Names(t.nodes) /\ f.links = t.links
      /\ f.bridges = {IfName(b) : b \in t.bridges}
  BY <1>1, NamesType DEF Written
<1>3. f \in File
  <2>1. Names(t.nodes) \X {TRUE} \in SUBSET (Nodes \X BOOLEAN)
    BY <1>1, NamesType
  <2>2. {IfName(b) : b \in t.bridges}
            \in SUBSET (Bridges \cup {IfName(b) : b \in Bridges})
    BY <1>1
  <2> QED BY <1>1, <2>1, <2>2 DEF Written, File
<1>4. f # Torn
  BY <1>3, FileParts
<1> HIDE DEF f
<1>5. DOMAIN t.links = 1..Len(t.links) /\ Len(t.links) \in Nat
      /\ \A i \in 1..Len(t.links) : t.links[i] \in LinkConfig
  BY <1>1
<1>6. ASSUME NEW k \in 1..Len(t.links)
      PROVE  LinkAccepted(f.nodes, UsedAfter(f, k - 1), f.links[k]) <=> t.links[k].rate
  <2>1. \A i \in 1..(k - 1) : i \in 1..Len(t.links) /\ i # k
    BY <1>5
  <2>2. \A p \in UsedAfter(f, k - 1) : \E i \in 1..(k - 1) :
            p \in {t.links[i].peer1, t.links[i].peer2}
    BY <1>2 DEF UsedAfter
  <2>3. {t.links[k].peer1, t.links[k].peer2} \cap UsedAfter(f, k - 1) = {}
    <3> SUFFICES ASSUME NEW p \in UsedAfter(f, k - 1),
                        p \in {t.links[k].peer1, t.links[k].peer2}
                 PROVE  FALSE
      OBVIOUS
    <3>1. PICK i \in 1..(k - 1) : p \in {t.links[i].peer1, t.links[i].peer2}
      BY <2>2
    <3>2. i \in 1..Len(t.links) /\ i # k
      BY <2>1
    <3>3. {t.links[i].peer1, t.links[i].peer2} \cap {t.links[k].peer1, t.links[k].peer2} = {}
      BY <3>2 DEF Fit
    <3> QED BY <3>1, <3>3
  <2>4. /\ t.links[k].rate =>
              /\ PeerValid(f.nodes, UsedAfter(f, k - 1), t.links[k].peer1)
              /\ PeerValid(f.nodes, UsedAfter(f, k - 1), t.links[k].peer2)
        /\ t.links[k].peer1 # t.links[k].peer2
    BY <1>2, <2>3 DEF Fit, PeerValid, Between
  <2>5. t.links[k].buffer /\ t.links[k].rate \in BOOLEAN
    BY <1>5 DEF LinkConfig
  <2> QED BY <1>2, <2>4, <2>5 DEF LinkAccepted
<1>7. \A n \in Names(f.nodes) : NodeAccepted(n)
  BY <1>2 DEF NodeAccepted
<1>8. (\A b \in f.bridges : BridgeAccepted(f, b)) <=> t.bridges = {}
  <2>1. \A b \in f.bridges : b \notin Bridges
    BY <1>1, <1>2, LoadedAssumption
  <2>2. f.bridges = {} <=> t.bridges = {}
    BY <1>2
  <2> QED BY <2>1, <2>2 DEF BridgeAccepted
<1>9. Accepted(f) <=> /\ t.bridges = {}
                      /\ \A k \in 1..Len(t.links) :
                            LinkAccepted(f.nodes, UsedAfter(f, k - 1), f.links[k])
  BY <1>2, <1>4, <1>7, <1>8 DEF Accepted
<1>10. Accepted(f) <=> t.bridges = {} /\ \A i \in DOMAIN t.links : t.links[i].rate
  BY <1>5, <1>6, <1>9
<1> QED BY <1>3, <1>10 DEF f

-----------------------------------------------------------------------------
(* Links in a calm topology.                                                *)

\* Every step keeps the nodes accepted and the links with a buffer.
LEMMA StepKeepsAccepting ==
    ASSUME TypeOK, Stages, Accepting, NEW r \in Requests, Step(r)
    PROVE  Accepting'
<1>1. ASSUME UNCHANGED <<nodes, objects>> PROVE Accepting'
  BY <1>1 DEF Accepting
<1>2. Len(objects) \in Nat /\ objects \in Seq(LinkConfig) /\ Link(r) \in LinkConfig
  BY DEF TypeOK
<1>3. CASE SetupLink(r)
  <2>1. CASE objects' = Append(objects, WithBuffer(Link(r)))
    <3>1. WithBuffer(Link(r)) \in LinkConfig /\ WithBuffer(Link(r)).buffer
      BY <1>2, BufferGiven
    <3>2. \A k \in 1..Len(objects') : objects'[k].buffer
      BY <1>2, <2>1, <3>1, AppendProperties DEF Accepting
    <3>3. nodes' = nodes
      BY <1>3 DEF SetupLink
    <3> QED BY <3>2, <3>3 DEF Accepting
  <2> QED BY <1>1, <1>3, <2>1 DEF SetupLink
<1>4. CASE Configure(r)
  <2>1. CASE objects' = [objects EXCEPT ![found[r]].qos = Link(r).qos]
    <3>1. found[r] \in 1..Len(objects)
      BY <1>2, <1>4 DEF TypeOK, Configure, Stages
    <3>2. objects[found[r]] \in LinkConfig
      BY <1>2, <3>1
    <3>3. [objects[found[r]] EXCEPT !.qos = Link(r).qos].buffer = objects[found[r]].buffer
      BY <3>2 DEF LinkConfig
    <3>4. objects' = [objects EXCEPT ![found[r]] = [objects[found[r]] EXCEPT !.qos = Link(r).qos]]
      BY <2>1
    <3>5. \A k \in 1..Len(objects') : k \in 1..Len(objects) /\ objects'[k].buffer
      BY <1>2, <3>1, <3>3, <3>4 DEF Accepting
    <3>6. nodes' = nodes
      BY <1>4 DEF Configure
    <3> QED BY <3>5, <3>6 DEF Accepting
  <2> QED BY <1>1, <1>4, <2>1 DEF Configure
<1>5. CASE CloseAll(r)
  <2>1. Names(nodes') = {} /\ objects' = objects
    BY <1>5 DEF CloseAll, Names
  <2> QED BY <2>1 DEF Accepting
<1>6. CASE Load(r)
  <2>1. CASE Accepted(file)
    <3>1. file \in File
      BY <2>1 DEF TypeOK, Accepted
    <3>2. nodes' = nodes \/ nodes' \subseteq file.nodes
      BY <1>6, <2>1 DEF Load
    <3>3. Names(nodes') \cap Unfit = {}
      <4>1. CASE nodes' = nodes
        BY <4>1 DEF Accepting
      <4>2. CASE nodes' \subseteq file.nodes
        BY <2>1, <3>1, <4>2, AcceptedFits DEF Names
      <4> QED BY <3>2, <4>1, <4>2
    <3>4. CASE UNCHANGED objects
      BY <3>3, <3>4 DEF Accepting
    <3>5. CASE objects' = objects \o [k \in DOMAIN file.links |-> WithBuffer(file.links[k])]
      <4>1. /\ Len(objects') = Len(objects) + Len(file.links)
            /\ \A i \in 1..Len(file.links) :
                  objects'[Len(objects) + i] = WithBuffer(file.links[i])
            /\ \A k \in 1..Len(objects) : objects'[k] = objects[k]
        BY <3>1, <3>5, LoadedObjects
      <4>2. \A i \in 1..Len(file.links) : WithBuffer(file.links[i]).buffer
        BY <3>1, FileParts, BufferGiven
      <4>3. ASSUME NEW k \in 1..Len(objects') PROVE objects'[k].buffer
        <5>1. Len(file.links) \in Nat
          BY <3>1, FileParts
        <5>2. CASE k <= Len(objects)
          BY <1>2, <4>1, <5>1, <5>2 DEF Accepting
        <5>3. CASE k > Len(objects)
          <6>1. k - Len(objects) \in 1..Len(file.links) /\ Len(objects) + (k - Len(objects)) = k
            BY <1>2, <4>1, <5>1, <5>3
          <6> QED BY <4>1, <4>2, <6>1
        <5> QED BY <1>2, <4>1, <5>1, <5>2, <5>3
      <4> QED BY <3>3, <4>3 DEF Accepting
    <3> QED BY <1>6, <2>1, <3>4, <3>5 DEF Load, Panic
  <2>2. CASE ~Accepted(file)
    BY <1>1, <1>6, <2>2 DEF Load
  <2> QED BY <2>1, <2>2
<1>7. CASE BeginDel(r) \/ BeginUpdate(r) \/ BeginAdd(r) \/ StoreLink(r)
           \/ \E q \in Requests : StoreBoth(r, q)
  <2>1. UNCHANGED <<nodes, objects>>
    BY <1>7 DEF BeginDel, BeginUpdate, BeginAdd, BeginOn, StoreLink, StoreBoth, topo
  <2> QED BY <1>1, <2>1
<1>8. CASE \/ Synchronise(r) \/ EmptyFile(r) \/ WriteFile(r) \/ WriteFails(r)
           \/ DeleteLink(r) \/ FillLinks(r) \/ FillBridges(r) \/ RunLinks(r) \/ Fetch(r)
           \/ OpenEditor(r) \/ SaveEditor(r) \/ Reread(r) \/ SendFails(r) \/ RemoveTemp(r)
  <2>1. UNCHANGED <<nodes, objects>>
    BY <1>8 DEF Synchronise, EmptyFile, WriteFile, WriteFails, DeleteLink, FillLinks,
                FillBridges, RunLinks, Fetch, OpenEditor, SaveEditor, Reread, SendFails,
                RemoveTemp, topo
  <2> QED BY <1>1, <2>1
<1>9. CASE Halting(r)
  BY <1>1, <1>9, HaltingKeeps
<1> QED BY <1>3, <1>4, <1>5, <1>6, <1>7, <1>8, <1>9 DEF Step, Halting

\* The configurations of the objects of a table.
LEMMA ConfigsOf ==
    ASSUME NEW o \in Seq(LinkConfig), NEW t \in Seq(1..Len(o)), NEW cs,
           cs = [i \in 1..Len(t) |-> o[t[i]]]
    PROVE  /\ Len(cs) = Len(t) /\ Len(t) \in Nat /\ cs \in Seq(LinkConfig)
           /\ \A i \in 1..Len(t) : cs[i] = o[t[i]] /\ cs[i] \in LinkConfig
<1>1. Len(t) \in Nat /\ \A i \in 1..Len(t) : t[i] \in 1..Len(o)
  OBVIOUS
<1>2. \A i \in 1..Len(t) : o[t[i]] \in LinkConfig
  BY <1>1
<1>3. cs \in [1..Len(t) -> LinkConfig]
  BY <1>2
<1> QED BY <1>1, <1>2, <1>3, FunctionIsSequence

\* Links that share no interface share no end, and a link to itself is a loop.
LEMMA ApartPeers ==
    ASSUME NEW l, NEW k
    PROVE  /\ Ends(l) \cap Ends(k) = {} => {l.peer1, l.peer2} \cap {k.peer1, k.peer2} = {}
           /\ ~Loop(l) => l.peer1 # l.peer2
           /\ Ends(l) \cap Ends(k) = {} => Ends(l) # Ends(k)
           /\ Ends(l) \cap Ends(k) = Ends(k) \cap Ends(l)
BY DEF Ends, Loop

\* Every step keeps the links sound while all is calm.
LEMMA StepKeepsSound ==
    ASSUME TypeOK, TypeOK', Stages, Together, PlacesKnown, Filling, LinksSound,
           NEW r \in Requests, Step(r)
    PROVE  LinksSound'
<1> SUFFICES ASSUME Calm'
             PROVE  Fit(nodes', Configs') /\ SetupSound' /\ AppendSound' /\ TableSound'
  BY DEF LinksSound
<1> DEFINE Sound == Fit(nodes', Configs') /\ SetupSound' /\ AppendSound' /\ TableSound'
<1>1. /\ Fit(nodes, Configs) /\ SetupSound /\ AppendSound /\ TableSound
      /\ plan' = plan
      /\ \A q \in Requests \ {r} : at'[q] = at[q] /\ at[q] \in {"begin", "done"}
      /\ \A q \in Requests : ~StoreBoth(r, q)
      /\ \A q \in Requests : \A kinds : ~Overlap(q, kinds)
  BY CalmAlone, StepMoves DEF LinksSound, Moves
<1>2. /\ Len(Configs) = Len(table) /\ Len(table) \in Nat
      /\ \A i \in 1..Len(table) : Configs[i] = objects[table[i]] /\ Configs[i] \in LinkConfig
      /\ \A i \in 1..Len(table) : table[i] \in 1..Len(objects)
  <2>1. objects \in Seq(LinkConfig) /\ table \in Seq(1..Len(objects))
    BY DEF TypeOK
  <2> QED BY <2>1, ConfigsOf DEF Configs, Config
<1>3. /\ Len(Configs') = Len(table') /\ Len(table') \in Nat
      /\ \A i \in 1..Len(table') : Configs'[i] = objects'[table'[i]] /\ Configs'[i] \in LinkConfig
      /\ \A i \in 1..Len(table') : table'[i] \in 1..Len(objects')
  <2>1. objects' \in Seq(LinkConfig) /\ table' \in Seq(1..Len(objects'))
    BY DEF TypeOK
  <2> QED BY <2>1, ConfigsOf DEF Configs, Config
<1>20. at[r] \notin {"done", "panic"}
  BY StepMoves DEF Moves
<1>4. ASSUME UNCHANGED <<nodes, table, objects, veths>>,
             at[r] \notin {"fill", "bridging", "run", "remove"},
             at'[r] # "append", at'[r] = "setup" => Known(Link(r))
      PROVE  Sound
  <2>1. Configs' = Configs
    BY <1>4 DEF Configs, Config
  <2>2. SetupSound'
    <3>1. Known(Link(r))' <=> Known(Link(r))
      BY <1>1, <1>4 DEF Known, Link
    <3> QED BY <1>1, <1>4, <3>1 DEF SetupSound
  <2>3. AppendSound'
    BY <1>1, <1>4 DEF AppendSound
  <2>4. TableSound'
    <3>1. /\ \A q \in Requests : at[q] \notin {"fill", "bridging", "run", "panic"}
          /\ ~\E q \in Requests : at[q] = "remove"
      BY <1>1, <1>4, <1>20
    <3> QED BY <1>1, <1>4, <2>1, <3>1 DEF TableSound
  <2> QED BY <1>1, <1>4, <2>1, <2>2, <2>3, <2>4
<1>5. ASSUME NEW p \in Positions, Goto(r, p) PROVE at'[r] = p
  BY <1>5, GotoType
<1>6. ASSUME NEW a \in {"ok", "error", "refused"}, Reply(r, a) PROVE at'[r] = "done"
  BY <1>6, ReplyType
<1>7. ASSUME at[r] \notin {"fill", "bridging", "run", "remove"}
      PROVE  /\ Apart(Configs)
             /\ \A i \in 1..Len(table) : Ends(Configs[i]) \in veths
  <2>1. \A q \in Requests : at[q] \notin {"fill", "bridging", "run", "panic"}
    BY <1>1, <1>7, <1>20
  <2>2. \A q \in Requests : at[q] # "remove"
    BY <1>1, <1>7
  <2> QED BY <1>1, <2>1, <2>2 DEF TableSound
<1>21. ASSUME UNCHANGED <<nodes, table, objects>>,
              at'[r] \in {"fill", "bridging", "run", "panic"}
       PROVE  Sound
  <2>1. Configs' = Configs
    BY <1>21 DEF Configs, Config
  <2>2. SetupSound' /\ AppendSound' /\ TableSound'
    BY <1>1, <1>21 DEF SetupSound, AppendSound, TableSound
  <2> QED BY <1>1, <1>21, <2>1, <2>2
<1> SUFFICES Sound
  OBVIOUS
<1> HIDE DEF Sound
<1> USE DEF Positions
<1>8. CASE \/ Synchronise(r) \/ EmptyFile(r) \/ WriteFile(r) \/ WriteFails(r) \/ Fetch(r)
           \/ OpenEditor(r) \/ SaveEditor(r) \/ Reread(r) \/ SendFails(r) \/ RemoveTemp(r)
  <2>1. UNCHANGED <<nodes, table, objects, veths>>
        /\ at[r] \notin {"fill", "bridging", "run", "remove"}
    BY <1>8 DEF Synchronise, EmptyFile, WriteFile, WriteFails, Fetch, Enters, OpenEditor,
                SaveEditor, Reread, SendFails, RemoveTemp, topo
  <2>2. at'[r] \notin {"append", "setup"}
    BY <1>5, <1>6, <1>8
       DEF Synchronise, EmptyFile, WriteFile, WriteFails, Fetch, OpenEditor,
           SaveEditor, Reread, SendFails, RemoveTemp
  <2> QED BY <1>4, <2>1, <2>2
<1>9. CASE BeginDel(r) \/ BeginUpdate(r)
  <2>1. UNCHANGED <<nodes, table, objects, veths>> /\ at[r] = "begin"
    BY <1>9 DEF BeginDel, BeginUpdate, BeginOn, Enters, topo
  <2>2. at'[r] \notin {"append", "setup"}
    BY <1>5, <1>6, <1>9 DEF BeginDel, BeginUpdate, BeginOn, Panic
  <2> QED BY <1>4, <2>1, <2>2
<1>10. CASE BeginAdd(r)
  <2>1. UNCHANGED <<nodes, table, objects, veths>> /\ at[r] = "begin"
    BY <1>10 DEF BeginAdd, Enters, topo
  <2>2. at'[r] # "append" /\ (at'[r] = "setup" => Known(Link(r)))
    BY <1>5, <1>6, <1>10 DEF BeginAdd, Panic
  <2> QED BY <1>4, <2>1, <2>2
<1>11. CASE Halting(r)
  <2>1. UNCHANGED <<nodes, table, objects>> /\ at'[r] = "panic"
    BY <1>5, <1>11, HaltingKeeps
  <2> QED BY <1>21, <2>1
<1>22. CASE FillLinks(r)
  <2>1. table' = table
    BY <1>1, <1>22, FillKeeps
  <2>2. UNCHANGED <<nodes, objects>> /\ at'[r] \in {"bridging", "run", "panic"}
    BY <1>5, <1>22 DEF FillLinks, Panic
  <2> QED BY <1>21, <2>1, <2>2
<1>23. ASSUME Kind(r) = "reload" PROVE ~Reply(r, "error")
  <2> SUFFICES ASSUME Reply(r, "error") PROVE FALSE
    OBVIOUS
  <2>1. answer'[r] = "error"
    BY ReplyType
  <2>2. Kind(r)' = "reload"
    BY <1>1, <1>23 DEF Kind
  <2> QED BY <2>1, <2>2 DEF Calm
<1>24. CASE FillBridges(r)
  <2>1. UNCHANGED <<nodes, table, objects>> /\ Kind(r) = "reload"
    BY <1>24 DEF FillBridges, Stages
  <2>2. at'[r] \in {"run", "panic"}
    BY <1>5, <1>23, <1>24, <2>1 DEF FillBridges, Panic
  <2> QED BY <1>21, <2>1, <2>2
<1>12. CASE SetupLink(r)
  <2> DEFINE l == Link(r)
             cfg == WithBuffer(l)
  <2>1. at[r] = "setup" /\ Known(l) /\ l \in LinkConfig
        /\ nodes' = nodes /\ table' = table
    BY <1>1, <1>12 DEF SetupLink, SetupSound, TypeOK
  <2>2. at'[r] \in {"append", "done"}
    BY <1>5, <1>6, <1>12 DEF SetupLink
  <2>3. CASE UNCHANGED <<veths, objects>> /\ at'[r] = "done"
    BY <1>4, <2>1, <2>3
  <2>4. CASE /\ ~Loop(l) /\ \A v \in veths : v \cap Ends(l) = {}
             /\ veths' = veths \cup {Ends(l)} /\ objects' = Append(objects, cfg)
             /\ found' = [found EXCEPT ![r] = Len(objects) + 1]
    <3>1. objects \in Seq(LinkConfig) /\ Len(objects) \in Nat /\ cfg \in LinkConfig
          /\ cfg.peer1 = l.peer1 /\ cfg.peer2 = l.peer2 /\ cfg.rate = l.rate
      BY <2>1, BufferGiven DEF TypeOK
    <3>14. ~cfg.rate
      BY <1>12, <2>1, <3>1 DEF Stages
    <3>2. /\ \A k \in 1..Len(objects) : objects'[k] = objects[k]
          /\ objects'[Len(objects) + 1] = cfg
      BY <2>4, <3>1, AppendProperties
    <3>3. \A i \in 1..Len(table) : Configs'[i] = Configs[i]
      BY <1>2, <1>3, <2>1, <3>2
    <3>4. Fit(nodes', Configs')
      BY <1>1, <1>2, <1>3, <2>1, <3>3, FitAlike
    <3>5. Apart(Configs) /\ \A i \in 1..Len(table) : Ends(Configs[i]) \in veths
      BY <1>7, <2>1
    <3>6. TableSound'
      BY <1>2, <1>3, <2>1, <2>4, <3>3, <3>5 DEF TableSound, Apart
    <3>7. SetupSound'
      BY <1>1, <2>2 DEF SetupSound
    <3>8. Config(found[r])' = cfg
      BY <2>4, <3>2 DEF Config, TypeOK
    <3>9. Ends(cfg) = Ends(l) /\ ~Loop(cfg) /\ Between(cfg) = Between(l)
      BY <2>4, <3>1, SameEnds
    <3>10. \A i \in 1..Len(table) : Ends(cfg) \cap Ends(Configs[i]) = {}
      BY <2>4, <3>5, <3>9, ApartPeers
    <3>11. Known(Config(found[r]))'
      BY <2>1, <3>8, <3>9 DEF Known
    <3>12. /\ ~Loop(Config(found[r]))' /\ Ends(Config(found[r]))' = Ends(cfg)
           /\ ~Config(found[r]).rate'
      BY <3>8, <3>9, <3>14 DEF Loop, Ends
    <3>13. AppendSound'
      BY <1>1, <2>1, <2>4, <3>3, <3>9, <3>10, <3>11, <3>12 DEF AppendSound
    <3> QED BY <3>4, <3>6, <3>7, <3>13 DEF Sound
  <2> QED BY <1>5, <1>6, <1>12, <2>3, <2>4 DEF SetupLink
<1>13. CASE DeleteLink(r)
  <2>1. at[r] = "delete" /\ UNCHANGED <<nodes, table, objects, index, found>>
    BY <1>13 DEF DeleteLink, work
  <2>2. at'[r] \in {"remove", "done"}
    BY <1>5, <1>6, <1>13 DEF DeleteLink
  <2>3. CASE veths' = veths
    BY <1>4, <2>1, <2>2, <2>3
  <2>4. CASE veths' = veths \ {Ends(Config(found[r]))} /\ at'[r] = "remove"
    <3>1. index[r] \in 1..Len(table) /\ table[index[r]] = found[r]
      BY <1>1, <2>1 DEF PlacesKnown
    <3>2. Config(found[r]) = Configs[index[r]] /\ Configs' = Configs
      BY <1>2, <2>1, <3>1 DEF Config, Configs
    <3>3. Apart(Configs) /\ \A i \in 1..Len(table) : Ends(Configs[i]) \in veths
      BY <1>7, <2>1
    <3>4. \A i \in 1..Len(table) : i # index[r] => Ends(Configs[i]) \in veths'
      <4> SUFFICES ASSUME NEW i \in 1..Len(table), i # index[r]
                   PROVE  Ends(Configs[i]) \in veths'
        OBVIOUS
      <4>1. Ends(Configs[i]) \cap Ends(Configs[index[r]]) = {}
        BY <1>2, <3>1, <3>3 DEF Apart
      <4>2. Ends(Configs[i]) # Ends(Configs[index[r]])
        BY <4>1, ApartPeers
      <4> QED BY <2>4, <3>2, <3>3, <4>2
    <3>5. TableSound'
      BY <2>1, <2>4, <3>2, <3>3, <3>4 DEF TableSound
    <3>6. SetupSound' /\ AppendSound'
      BY <1>1, <2>4 DEF SetupSound, AppendSound
    <3> QED BY <1>1, <2>1, <3>2, <3>5, <3>6 DEF Sound
  <2> QED BY <1>5, <1>13, <2>3, <2>4 DEF DeleteLink
<1>14. CASE StoreLink(r)
  <2>1. UNCHANGED <<nodes, objects, veths, found>> /\ Storing(r) /\ table' = Store(r)
        /\ at'[r] = "sync"
    BY <1>5, <1>14 DEF StoreLink, work
  <2>2. Apart(Configs) /\ \A i \in 1..Len(table) :
            Ends(Configs[i]) \in veths \/ (at[r] = "remove" /\ index[r] = i)
    BY <1>1, <2>1 DEF TableSound, Storing
  <2>3. SetupSound' /\ AppendSound'
    BY <1>1, <2>1 DEF SetupSound, AppendSound
  <2>4. CASE at[r] = "append"
    <3> DEFINE n == Len(table)
               cfg == Config(found[r])
    <3>1. Len(table') = n + 1 /\ (\A i \in 1..n : table'[i] = table[i]) /\ table'[n + 1] = found[r]
      BY <2>1, <2>4, AppendKeeps
    <3>2. /\ Len(Configs') = n + 1
          /\ \A i \in 1..n : Configs'[i] = Configs[i]
          /\ Configs'[n + 1] = cfg
      <4>1. n \in Nat /\ n + 1 \in 1..(n + 1) /\ \A i \in 1..n : i \in 1..(n + 1)
        BY <1>2
      <4>2. Len(Configs') = n + 1 /\ \A i \in 1..(n + 1) : Configs'[i] = objects[table'[i]]
        BY <1>3, <2>1, <3>1
      <4>3. \A i \in 1..n : Configs'[i] = Configs[i]
        <5> TAKE i \in 1..n
        <5>1. Configs[i] = objects[table[i]]
          BY <1>2
        <5>2. Configs'[i] = objects[table'[i]] /\ table'[i] = table[i]
          BY <3>1, <4>1, <4>2
        <5> QED BY <5>1, <5>2
      <4> QED BY <3>1, <4>1, <4>2, <4>3 DEF Config
    <3>3. /\ Between(cfg) \subseteq Names(nodes) /\ ~Loop(cfg) /\ Ends(cfg) \in veths
          /\ ~cfg.rate
          /\ \A i \in 1..n : Ends(cfg) \cap Ends(Configs[i]) = {}
      BY <1>1, <2>4 DEF AppendSound, Known
    <3>4. \A i \in 1..(n + 1) : i \in 1..n \/ i = n + 1
      BY <1>2
    <3>5. Fit(nodes', Configs')
      <4> SUFFICES ASSUME NEW i \in 1..(n + 1), NEW j \in 1..(n + 1), i # j
                   PROVE  {Configs'[i].peer1, Configs'[i].peer2}
                              \cap {Configs'[j].peer1, Configs'[j].peer2} = {}
        <5>1. ASSUME NEW i \in 1..(n + 1)
              PROVE  /\ Between(Configs'[i]) \subseteq Names(nodes')
                     /\ Configs'[i].peer1 # Configs'[i].peer2
                     /\ Configs'[i].rate => {Configs'[i].peer1, Configs'[i].peer2} \subseteq Matched
          <6>1. CASE i \in 1..n
            BY <1>1, <1>2, <2>1, <3>2, <6>1 DEF Fit
          <6>2. CASE i = n + 1
            BY <2>1, <3>2, <3>3, <6>2, ApartPeers
          <6> QED BY <3>4, <6>1, <6>2
        <5> QED BY <3>2, <5>1 DEF Fit
      <4>1. CASE i \in 1..n /\ j \in 1..n
        BY <1>1, <1>2, <3>2, <4>1 DEF Fit
      <4>2. CASE i = n + 1 /\ j \in 1..n
        BY <3>2, <3>3, <4>2, ApartPeers
      <4>3. CASE i \in 1..n /\ j = n + 1
        <5>1. {cfg.peer1, cfg.peer2} \cap {Configs[i].peer1, Configs[i].peer2} = {}
          BY <3>3, <4>3, ApartPeers
        <5> QED BY <3>2, <4>3, <5>1
      <4> QED BY <3>4, <4>1, <4>2, <4>3
    <3>6. TableSound'
      <4>1. Apart(Configs')
        <5> SUFFICES ASSUME NEW i \in 1..(n + 1), NEW j \in 1..(n + 1), i # j
                     PROVE  Ends(Configs'[i]) \cap Ends(Configs'[j]) = {}
          BY <3>2 DEF Apart
        <5>1. CASE i \in 1..n /\ j \in 1..n
          BY <1>2, <2>2, <3>2, <5>1 DEF Apart
        <5>2. CASE i = n + 1 /\ j \in 1..n
          BY <3>2, <3>3, <5>2
        <5>3. CASE i \in 1..n /\ j = n + 1
          BY <3>2, <3>3, <5>3
        <5> QED BY <3>4, <5>1, <5>2, <5>3
      <4>2. \A i \in 1..(n + 1) : Ends(Configs'[i]) \in veths'
        BY <2>1, <2>2, <2>4, <3>2, <3>3, <3>4
      <4> QED BY <3>1, <4>1, <4>2 DEF TableSound
    <3> QED BY <2>3, <3>5, <3>6 DEF Sound
  <2>5. CASE at[r] = "remove"
    <3> DEFINE n == Len(table)
               h(i) == IF i < index[r] THEN i ELSE i + 1
    <3>1. /\ n \in Nat /\ index[r] \in 1..n /\ Len(table') = n - 1
          /\ \A i \in 1..(n - 1) : table'[i] = table[h(i)]
      BY <2>1, <2>5, RemoveKeeps
    <3>2. \A i \in 1..(n - 1) : h(i) \in 1..n /\ h(i) # index[r]
      BY <3>1
    <3>3. \A i, j \in 1..(n - 1) : i # j => h(i) # h(j)
      BY <3>1
    <3> HIDE DEF h
    <3>4. Len(Configs') = n - 1 /\ \A i \in 1..(n - 1) : Configs'[i] = Configs[h(i)]
      <4>1. Len(Configs') = n - 1 /\ \A i \in 1..(n - 1) : Configs'[i] = objects[table'[i]]
        BY <1>3, <2>1, <3>1
      <4>2. \A i \in 1..(n - 1) : Configs[h(i)] = objects[table[h(i)]]
        BY <1>2, <3>2
      <4>3. \A i \in 1..(n - 1) : table'[i] = table[h(i)]
        BY <3>1 DEF h
      <4> QED BY <4>1, <4>2, <4>3
    <3>5. Fit(nodes', Configs')
      <4>1. \A i \in 1..(n - 1) :
               /\ Between(Configs[h(i)]) \subseteq Names(nodes)
               /\ Configs[h(i)].peer1 # Configs[h(i)].peer2
               /\ Configs[h(i)].rate => {Configs[h(i)].peer1, Configs[h(i)].peer2} \subseteq Matched
        BY <1>1, <1>2, <3>2 DEF Fit
      <4>2. ASSUME NEW i \in 1..(n - 1), NEW j \in 1..(n - 1), i # j
            PROVE  {Configs'[i].peer1, Configs'[i].peer2}
                       \cap {Configs'[j].peer1, Configs'[j].peer2} = {}
        <5>1. h(i) \in 1..n /\ h(j) \in 1..n /\ h(i) # h(j)
          BY <3>2, <3>3, <4>2
        <5>2. {Configs[h(i)].peer1, Configs[h(i)].peer2}
                  \cap {Configs[h(j)].peer1, Configs[h(j)].peer2} = {}
          BY <1>1, <1>2, <5>1 DEF Fit
        <5> QED BY <3>4, <5>2
      <4>3. nodes' = nodes
        BY <2>1
      <4> QED BY <3>4, <4>1, <4>2, <4>3 DEF Fit
    <3>6. TableSound'
      <4>1. Apart(Configs')
        <5> SUFFICES ASSUME NEW i \in 1..(n - 1), NEW j \in 1..(n - 1), i # j
                     PROVE  Ends(Configs'[i]) \cap Ends(Configs'[j]) = {}
          BY <3>4 DEF Apart
        <5>1. h(i) \in 1..n /\ h(j) \in 1..n /\ h(i) # h(j)
          BY <3>2, <3>3
        <5>2. Ends(Configs[h(i)]) \cap Ends(Configs[h(j)]) = {}
          BY <1>2, <2>2, <5>1 DEF Apart
        <5> QED BY <3>4, <5>2
      <4>2. \A i \in 1..(n - 1) : Ends(Configs'[i]) \in veths'
        BY <2>1, <2>2, <3>2, <3>4
      <4> QED BY <3>1, <4>1, <4>2 DEF TableSound
    <3> QED BY <2>3, <3>5, <3>6 DEF Sound
  <2> QED BY <2>1, <2>4, <2>5 DEF Storing
<1>15. CASE Configure(r)
  <2>1. UNCHANGED <<nodes, table, veths>> /\ at[r] = "configure"
    BY <1>15 DEF Configure
  <2>2. at'[r] \in {"sync", "done"}
    BY <1>5, <1>6, <1>15 DEF Configure
  <2>3. CASE UNCHANGED objects
    BY <1>4, <2>1, <2>2, <2>3
  <2>4. CASE objects' = [objects EXCEPT ![found[r]].qos = Link(r).qos]
    <3>1. objects \in Seq(LinkConfig) /\ found[r] \in 1..Len(objects)
      BY <2>1 DEF TypeOK, Stages
    <3>2. objects[found[r]] \in LinkConfig
      BY <3>1
    <3> DEFINE new == [objects[found[r]] EXCEPT !.qos = Link(r).qos]
    <3>3. /\ new.peer1 = objects[found[r]].peer1 /\ new.peer2 = objects[found[r]].peer2
          /\ new.rate = objects[found[r]].rate
      BY <3>2 DEF LinkConfig
    <3>4. objects' = [objects EXCEPT ![found[r]] = new]
      BY <2>4
    <3> HIDE DEF new
    <3>5. \A k \in 1..Len(objects) :
              /\ objects'[k].peer1 = objects[k].peer1 /\ objects'[k].peer2 = objects[k].peer2
              /\ objects'[k].rate = objects[k].rate
      BY <3>1, <3>3, <3>4
    <3>6. \A i \in 1..Len(table) : /\ Configs'[i].peer1 = Configs[i].peer1
                                   /\ Configs'[i].peer2 = Configs[i].peer2
                                   /\ Configs'[i].rate = Configs[i].rate
      BY <1>2, <1>3, <2>1, <3>5
    <3>7. \A i \in 1..Len(table) : Ends(Configs'[i]) = Ends(Configs[i])
      BY <3>6, SameEnds
    <3>8. Fit(nodes', Configs')
      BY <1>1, <1>2, <1>3, <2>1, <3>6, FitAlike
    <3>9. Apart(Configs) /\ \A i \in 1..Len(table) : Ends(Configs[i]) \in veths
      BY <1>7, <2>1
    <3>10. TableSound'
      BY <1>2, <1>3, <2>1, <3>7, <3>9 DEF TableSound, Apart
    <3>11. SetupSound' /\ AppendSound'
      BY <1>1, <2>2 DEF SetupSound, AppendSound
    <3> QED BY <3>8, <3>10, <3>11 DEF Sound
  <2> QED BY <1>15, <2>3, <2>4 DEF Configure
<1>16. ASSUME Len(table') = 0, at'[r] \notin {"setup", "append"} PROVE Sound
  <2>1. Fit(nodes', Configs') /\ TableSound'
    BY <1>3, <1>16 DEF Fit, TableSound, Apart
  <2>2. SetupSound' /\ AppendSound'
    BY <1>1, <1>16 DEF SetupSound, AppendSound
  <2> QED BY <2>1, <2>2 DEF Sound
<1>17. CASE CloseAll(r)
  <2>1. table' = <<>> /\ at'[r] = "load"
    BY <1>5, <1>17 DEF CloseAll
  <2> QED BY <1>16, <2>1
<1>18. CASE Load(r)
  <2>1. at[r] = "load" /\ table = <<>>
    BY <1>1, <1>18 DEF Load, PlacesKnown
  <2>2. at'[r] \in {"fill", "panic", "done"}
    BY <1>5, <1>6, <1>18 DEF Load, Panic
  <2>3. CASE UNCHANGED table
    BY <1>16, <2>1, <2>2, <2>3
  <2>4. CASE /\ Accepted(file) /\ nodes' = file.nodes
             /\ objects' = objects \o [k \in DOMAIN file.links |-> WithBuffer(file.links[k])]
             /\ table' = Numbered(Len(objects), Len(objects'))
             /\ at'[r] = "fill"
    <3>1. file \in File
      BY <2>4 DEF TypeOK, Accepted
    <3>2. /\ Len(table') = Len(file.links)
          /\ \A i \in 1..Len(file.links) :
                table'[i] = Len(objects) + i /\ objects'[Len(objects) + i] = WithBuffer(file.links[i])
      BY <2>4, <3>1, LoadedObjects
    <3>3. \A i \in 1..Len(file.links) : /\ Configs'[i].peer1 = file.links[i].peer1
                                        /\ Configs'[i].peer2 = file.links[i].peer2
                                        /\ Configs'[i].rate = file.links[i].rate
      BY <1>3, <3>1, <3>2, FileParts, BufferGiven
    <3>4. Fit(nodes', Configs')
      BY <1>3, <2>4, <3>1, <3>2, <3>3, AcceptedFits, FitAlike
    <3>5. SetupSound' /\ AppendSound' /\ TableSound'
      BY <1>1, <2>4 DEF SetupSound, AppendSound, TableSound
    <3> QED BY <3>4, <3>5 DEF Sound
  <2> QED BY <1>5, <1>18, <2>3, <2>4 DEF Load
<1>19. CASE RunLinks(r)
  <2>1. at[r] = "run" /\ UNCHANGED <<nodes, table, objects>> /\ Kind(r) = "reload"
    BY <1>19 DEF RunLinks, Stages
  <2>2. Configs' = Configs
    BY <2>1 DEF Configs, Config
  <2>3. ~Reply(r, "error")
    BY <1>23, <2>1
  <2>4. /\ ~Clash /\ at'[r] = "done"
        /\ veths' = veths \cup {Ends(Config(table[i])) : i \in 1..Len(table)}
    BY <1>6, <1>19, <2>3 DEF RunLinks
  <2>5. Apart(Configs) /\ \A i \in 1..Len(table) : Ends(Configs[i]) \in veths'
    <3>1. \A i, j \in 1..Len(table) :
              i # j => Ends(Config(table[i])) \cap Ends(Config(table[j])) = {}
      BY <2>4 DEF Clash
    <3>2. Apart(Configs)
      <4>1. ASSUME NEW i \in 1..Len(Configs), NEW j \in 1..Len(Configs), i # j
            PROVE  Ends(Configs[i]) \cap Ends(Configs[j]) = {}
        <5>1. i \in 1..Len(table) /\ j \in 1..Len(table)
          BY <1>2
        <5>2. Configs[i] = Config(table[i]) /\ Configs[j] = Config(table[j])
          BY <1>2, <5>1 DEF Config
        <5> QED BY <3>1, <4>1, <5>1, <5>2
      <4> QED BY <4>1 DEF Apart
    <3>3. \A i \in 1..Len(table) : Ends(Configs[i]) \in veths'
      BY <1>2, <2>4 DEF Config
    <3> QED BY <3>2, <3>3
  <2>6. TableSound'
    BY <2>1, <2>2, <2>5 DEF TableSound
  <2>7. SetupSound' /\ AppendSound'
    BY <1>1, <2>4 DEF SetupSound, AppendSound
  <2> QED BY <1>1, <2>1, <2>2, <2>6, <2>7 DEF Sound
<1> QED
  BY <1>1, <1>8, <1>9, <1>10, <1>11, <1>12, <1>13, <1>14, <1>15, <1>17, <1>18, <1>19,
     <1>22, <1>24 DEF Step, Halting

-----------------------------------------------------------------------------
(* Reloads.                                                                 *)

\* Every step keeps what reloads know of the topology before.
LEMMA StepKeepsBefore ==
    ASSUME TypeOK, Stages, Together, Accepting, LinksSound, BeforeKnown, FileFollows,
           NEW r \in Requests, Step(r)
    PROVE  BeforeKnown'
<1>1. Moves(r) /\ plan' = plan
  BY StepMoves DEF Moves
<1> SUFFICES ASSUME NEW s \in Requests, at'[s] = "load"
             PROVE  /\ Names(before'[s].nodes) \cap Unfit = {}
                    /\ \A i \in 1..Len(before'[s].links) : before'[s].links[i].buffer
                    /\ Calm' => Fit(before'[s].nodes, before'[s].links)
                    /\ Calm' /\ Synced' => file' = Written(before'[s])
  BY DEF BeforeKnown
<1>2. CASE s # r
  <2>1. at[s] = "load" /\ before'[s] = before[s]
    BY <1>1, <1>2 DEF Moves
  <2>2. ~Calm'
    BY <1>2, <2>1, CalmAlone
  <2> QED BY <2>1, <2>2 DEF BeforeKnown
<1>3. CASE s = r
  <2>1. CloseAll(r)
    BY <1>3, Arrives
  <2>2. at[r] = "begin" /\ file' = file /\ answer' = answer /\ last' = last
        /\ before'[r] = [nodes |-> nodes, links |-> Configs, bridges |-> bridges]
    BY <2>1 DEF CloseAll, Enters, Goto, TypeOK
  <2>3. /\ before'[r].nodes = nodes /\ before'[r].links = Configs
        /\ before'[r].bridges = bridges
    BY <2>2
  <2>4. \A i \in 1..Len(Configs) : Configs[i].buffer
    <3>1. \A i \in 1..Len(table) : table[i] \in 1..Len(objects)
      BY ConfigsType
    <3>2. \A i \in 1..Len(table) : objects[table[i]].buffer
      BY <3>1 DEF Accepting
    <3>3. Len(Configs) = Len(table) /\ \A i \in 1..Len(table) : Configs[i] = objects[table[i]]
      BY ConfigsType DEF Config
    <3> QED BY <3>2, <3>3
  <2>5. Calm' => Calm /\ UnderWay = {}
    BY <2>2, CalmAlone DEF UnderWay
  <2>6. Synced' => Synced
    BY <1>1, <2>2 DEF Synced, Kind
  <2>7. Written(before'[r]) = Topology
    BY <2>3 DEF Written, Topology
  <2> QED BY <1>3, <2>2, <2>3, <2>4, <2>5, <2>6, <2>7 DEF Accepting, LinksSound, FileFollows
<1> QED BY <1>2, <1>3

\* A request that changes a link and ends well has written the file.
LEMMA EndsWell ==
    ASSUME TypeOK, Stages, NEW r \in Requests, Step(r), at'[r] = "done",
           answer'[r] = "ok", Kind(r) \in {"add", "del", "update"}
    PROVE  WriteFile(r)
<1>1. ASSUME NEW p \in Positions \ {"done"}, Goto(r, p) PROVE FALSE
  BY <1>1, GotoType
<1>2. ~Reply(r, "error")
  BY ReplyType
<1> USE DEF Positions
<1>3. ~(Synchronise(r) \/ EmptyFile(r) \/ WriteFails(r) \/ SetupLink(r) \/ DeleteLink(r)
        \/ StoreLink(r) \/ Halting(r) \/ Configure(r))
  BY <1>1, <1>2, HaltingKeeps
     DEF Synchronise, EmptyFile, WriteFails, SetupLink, DeleteLink, StoreLink, Configure
<1>4. ~(BeginAdd(r) \/ BeginDel(r) \/ BeginUpdate(r) \/ \E q \in Requests : StoreBoth(r, q))
  BY <1>1, <1>2 DEF BeginAdd, BeginDel, BeginUpdate, BeginOn, Panic, StoreBoth, TypeOK
<1>5. ~(CloseAll(r) \/ Load(r) \/ FillLinks(r) \/ FillBridges(r) \/ RunLinks(r) \/ Fetch(r)
        \/ OpenEditor(r) \/ SaveEditor(r) \/ Reread(r) \/ SendFails(r) \/ RemoveTemp(r))
  BY DEF CloseAll, Load, FillLinks, FillBridges, RunLinks, Fetch, OpenEditor, SaveEditor,
         Reread, SendFails, RemoveTemp, Stages
<1> QED BY <1>3, <1>4, <1>5 DEF Step, Halting

\* Every step keeps the file the topology when all is calm.
LEMMA StepKeepsFile ==
    ASSUME TypeOK, Stages, Together, FileFollows, NEW r \in Requests, Step(r)
    PROVE  FileFollows'
<1> SUFFICES ASSUME Calm'
             PROVE  /\ UnderWay' = {} /\ Synced' => file' = Topology'
                    /\ \A s \in Requests : Kind(s)' # "edit" =>
                          /\ at'[s] = "empty" => data'[s] = Topology'
                          /\ at'[s] = "write" => data'[s] = Topology' /\ file' = Empty
  BY DEF FileFollows
<1>1. Moves(r) /\ plan' = plan /\ Kind(r)' = Kind(r)
  BY StepMoves DEF Moves, Kind
<1>2. Calm /\ \A q \in Requests \ {r} : at'[q] = at[q] /\ at[q] \in {"begin", "done"}
  BY CalmAlone
<1>3. ASSUME UNCHANGED topo PROVE Topology' = Topology
  BY <1>3 DEF topo, Topology, Configs, Config
<1>4. ASSUME UnderWay' = {}, Synced' PROVE file' = Topology'
  <2>1. at'[r] = "done" /\ last' = Append(last, r)
    BY <1>1, <1>4 DEF Moves, UnderWay
  <2>2. last'[Len(last')] = r
    BY <2>1 DEF TypeOK
  <2>3. answer'[r] = "ok" /\ Kind(r) \in {"add", "del", "update"}
    BY <1>1, <1>4, <2>2 DEF Synced, Kind
  <2>4. WriteFile(r)
    BY <2>1, <2>3, EndsWell
  <2>5. data[r] = Topology /\ file = Empty
    BY <1>2, <2>3, <2>4 DEF FileFollows, WriteFile
  <2>6. file' = data[r] /\ UNCHANGED topo
    BY <2>4, <2>5 DEF WriteFile
  <2> QED BY <1>3, <2>5, <2>6
<1>5. ASSUME NEW s \in Requests, Kind(s)' # "edit", at'[s] = "empty"
      PROVE  data'[s] = Topology'
  <2>1. s = r
    BY <1>2, <1>5
  <2>2. Synchronise(r)
    BY <1>1, <1>5, <2>1, Arrives DEF Reread, Stages
  <2>3. data'[r] = Topology /\ UNCHANGED topo
    BY <2>2 DEF Synchronise, TypeOK
  <2> QED BY <1>3, <2>1, <2>3
<1>6. ASSUME NEW s \in Requests, Kind(s)' # "edit", at'[s] = "write"
      PROVE  data'[s] = Topology' /\ file' = Empty
  <2>1. s = r
    BY <1>2, <1>6
  <2>2. EmptyFile(r)
    BY <1>6, <2>1, Arrives
  <2>3. /\ file' = Empty /\ data' = data /\ UNCHANGED topo /\ at[r] = "empty"
    BY <2>2 DEF EmptyFile, work
  <2>4. data[r] = Topology
    BY <1>1, <1>2, <1>6, <2>1, <2>3 DEF FileFollows
  <2> QED BY <1>3, <2>1, <2>3, <2>4
<1> QED BY <1>4, <1>5, <1>6

\* A load of what was written gives the same topology again.
LEMMA LoadKeeps ==
    ASSUME TypeOK, TypeOK', Stages, BeforeKnown, NEW r \in Requests, Step(r), Calm, Synced,
           NEW s \in Requests, at[s] = "load", at'[s] # "load"
    PROVE  /\ answer'[s] = "refused" <=>
                   \/ before[s].bridges # {}
                   \/ \E i \in DOMAIN before[s].links : ~before[s].links[i].rate
           /\ at'[s] = "fill" =>
                   /\ nodes' = Names(before[s].nodes) \X {TRUE}
                   /\ Configs' = before[s].links
           /\ s = r /\ Load(r) /\ (at'[s] = "fill" => answer'[s] # "refused")
<1> DEFINE b == before[r]
<1>1. s = r
  BY StepMoves DEF Moves, Storing
<1>2. Load(r)
  BY <1>1, Leaves
<1>3. b \in [nodes : SUBSET (Nodes \X BOOLEAN), links : Seq(LinkConfig), bridges : SUBSET Bridges]
  BY DEF TypeOK
<1>4. /\ Names(b.nodes) \cap Unfit = {} /\ Fit(b.nodes, b.links)
      /\ \A i \in 1..Len(b.links) : b.links[i].buffer
      /\ file = Written(b)
  BY <1>1 DEF BeforeKnown
<1> HIDE DEF b
<1>5. /\ file \in File
      /\ Accepted(file) <=> b.bridges = {} /\ \A i \in DOMAIN b.links : b.links[i].rate
  BY <1>3, <1>4, WrittenAccepted
<1>6. answer[r] = "none"
  BY <1>1 DEF Stages, TypeOK
<1>7. answer'[r] = "refused" <=> ~Accepted(file)
  <2>1. Reply(r, "refused") => answer'[r] = "refused"
    BY ReplyType
  <2>2. Reply(r, "error") => answer'[r] = "error"
    BY ReplyType
  <2>3. \A p : Goto(r, p) => answer'[r] = "none"
    BY <1>6 DEF Goto
  <2>4. CASE Accepted(file)
    <3>1. Reply(r, "error") \/ Goto(r, "panic") \/ Goto(r, "fill")
      BY <1>2, <2>4 DEF Load, Panic
    <3> QED BY <2>2, <2>3, <2>4, <3>1
  <2>5. CASE ~Accepted(file)
    BY <1>2, <2>1, <2>5 DEF Load
  <2> QED BY <2>4, <2>5
<1>10. at'[r] = "fill" => answer'[r] # "refused"
  <2> SUFFICES ASSUME at'[r] = "fill" PROVE answer'[r] # "refused"
    OBVIOUS
  <2>1. Goto(r, "fill")
    BY <1>2, LoadMakes
  <2> QED BY <1>6, <2>1 DEF Goto
<1>8. ASSUME at'[r] = "fill"
      PROVE  nodes' = Names(b.nodes) \X {TRUE} /\ Configs' = b.links
  <2>3. /\ nodes' = file.nodes
        /\ objects' = objects \o [k \in DOMAIN file.links |-> WithBuffer(file.links[k])]
        /\ table' = Numbered(Len(objects), Len(objects'))
    BY <1>2, <1>8, LoadMakes
  <2>4. file.nodes = Names(b.nodes) \X {TRUE} /\ file.links = b.links
    BY <1>4 DEF Written
  <2>5. /\ Len(table') = Len(b.links)
        /\ \A i \in 1..Len(b.links) :
              table'[i] = Len(objects) + i /\ objects'[Len(objects) + i] = WithBuffer(b.links[i])
    <3>1. /\ Len(Numbered(Len(objects), Len(objects'))) = Len(file.links)
          /\ \A i \in 1..Len(file.links) :
                /\ Numbered(Len(objects), Len(objects'))[i] = Len(objects) + i
                /\ objects'[Len(objects) + i] = WithBuffer(file.links[i])
      <4> DEFINE objs == objects \o [k \in DOMAIN file.links |-> WithBuffer(file.links[k])]
      <4>1. /\ Len(Numbered(Len(objects), Len(objs))) = Len(file.links)
            /\ \A i \in 1..Len(file.links) :
                  /\ Numbered(Len(objects), Len(objs))[i] = Len(objects) + i
                  /\ objs[Len(objects) + i] = WithBuffer(file.links[i])
        BY <1>5, LoadedObjects
      <4>2. objects' = objs
        BY <2>3
      <4> HIDE DEF objs
      <4> QED BY <4>1, <4>2
    <3> QED BY <2>3, <2>4, <3>1
  <2>6. \A i \in 1..Len(b.links) : WithBuffer(b.links[i]) = b.links[i]
    BY <1>3, <1>4, BufferGiven
  <2>7. /\ Configs' \in Seq(LinkConfig) /\ Len(Configs') = Len(table')
        /\ \A i \in 1..Len(table') : Configs'[i] = objects'[table'[i]]
    <3>1. objects' \in Seq(LinkConfig) /\ table' \in Seq(1..Len(objects'))
      BY DEF TypeOK
    <3> QED BY <3>1, ConfigsOf DEF Configs, Config
  <2>8. \A i \in 1..Len(b.links) : Configs'[i] = b.links[i]
    BY <2>5, <2>6, <2>7
  <2>9. Configs' = b.links
    BY <1>3, <2>5, <2>7, <2>8, SeqEqual
  <2> QED BY <2>3, <2>4, <2>9
<1>9. (\E i \in DOMAIN b.links : ~b.links[i].rate)
          <=> ~\A i \in DOMAIN b.links : b.links[i].rate
  OBVIOUS
<1> QED BY <1>1, <1>2, <1>5, <1>7, <1>8, <1>9, <1>10 DEF b

\* Every step keeps what reloads have loaded.
LEMMA StepKeepsKept ==
    ASSUME TypeOK, TypeOK', Stages, Together, BeforeKnown, NEW r \in Requests, Step(r)
    PROVE  BeforeKept'
<1> SUFFICES ASSUME NEW s \in Requests, at'[s] = "fill", Calm', Synced'
             PROVE  /\ before'[s].bridges = {}
                    /\ \A i \in DOMAIN before'[s].links : before'[s].links[i].rate
                    /\ nodes' = Names(before'[s].nodes) \X {TRUE} /\ Configs' = before'[s].links
  BY DEF BeforeKept
<1>1. /\ Calm /\ \A q \in Requests \ {r} : at'[q] = at[q] /\ at[q] \in {"begin", "done"}
  BY CalmAlone
<1>2. s = r
  BY <1>1
<1>3. Load(r)
  BY <1>2, Arrives
<1>4. at[r] = "load" /\ Goto(r, "fill") /\ before' = before /\ plan' = plan
  BY <1>2, <1>3, LoadMakes DEF Load
<1>5. Synced
  BY <1>4 DEF Goto, Synced, Kind
<1>6. /\ answer'[s] = "refused" <=>
             \/ before[s].bridges # {}
             \/ \E i \in DOMAIN before[s].links : ~before[s].links[i].rate
      /\ nodes' = Names(before[s].nodes) \X {TRUE} /\ Configs' = before[s].links
      /\ answer'[s] # "refused"
  BY <1>1, <1>2, <1>4, <1>5, LoadKeeps
<1> QED BY <1>4, <1>6

\* A reload of what was written gives the same topology again.
LEMMA ReloadsKeepStep ==
    ASSUME TypeOK, TypeOK', Stages, Filling, BeforeKnown, BeforeKept, NEW r \in Requests,
           Step(r), Calm, Synced, NEW s \in Requests, at[s] \in {"load", "fill"},
           at'[s] \notin {"load", "fill"}
    PROVE  /\ answer'[s] = "refused" <=>
                   \/ before[s].bridges # {}
                   \/ \E i \in DOMAIN before[s].links : ~before[s].links[i].rate
           /\ at'[s] = "run" =>
                   /\ nodes' = Names(before[s].nodes) \X {TRUE}
                   /\ Configs' = before[s].links
<1>1. CASE at[s] = "load"
  <2>1. Load(r) /\ s = r
    BY <1>1, LoadKeeps
  <2>2. at'[s] # "run"
    BY <2>1, Arrives DEF Load, FillLinks, FillBridges
  <2> QED BY <1>1, <2>2, LoadKeeps
<1>2. CASE at[s] = "fill"
  <2>1. s = r
    BY <1>2, StepMoves DEF Moves, Storing
  <2>2. FillLinks(r)
    BY <1>2, <2>1, Leaves
  <2>3. answer'[r] # "refused"
    <3>1. answer' = answer
      BY <2>2 DEF FillLinks, Panic, Goto
    <3>2. answer[r] = "none"
      BY <1>2, <2>1 DEF Stages, TypeOK
    <3> QED BY <3>1, <3>2
  <2>4. table' = table
    BY <2>2, FillKeeps DEF Calm, Overlap
  <2>5. Configs' = Configs /\ nodes' = nodes
    BY <2>2, <2>4 DEF FillLinks, Configs, Config
  <2> QED BY <1>2, <2>1, <2>3, <2>5 DEF BeforeKept
<1> QED BY <1>1, <1>2

-----------------------------------------------------------------------------
(* The inductive invariant.                                                 *)

\* The properties are about the places of links while deletes are under way, what
\* an edit has made of the file, and, while no two requests overlap and no reload
\* fails, links that CheckTopology and the kernel accept and a file that is the
\* topology.
IInv ==
    /\ TypeOK /\ Stages /\ Together
    /\ FirstFile /\ PlacesKnown /\ Filling /\ BrokenKnown /\ EditFollows
    /\ Accepting /\ LinksSound /\ BeforeKnown /\ BeforeKept /\ FileFollows

\* The invariant holds for a topology that was loaded and runs.
LEMMA InitIInv == Init => IInv
<1> SUFFICES ASSUME Init PROVE IInv
  OBVIOUS
<1>1. PICK s \in Scenarios :
        /\ plan = s.plan /\ file = s.file
        /\ nodes = s.file.nodes /\ bridges = s.file.bridges
        /\ objects = [i \in DOMAIN s.file.links |-> WithBuffer(s.file.links[i])]
        /\ table = Numbered(0, Len(s.file.links)) /\ broken = {}
        /\ veths = {Ends(s.file.links[i]) : i \in 1..Len(s.file.links)}
  BY DEF Init
<1>2. /\ daemon = "up" /\ epoch = 0 /\ temp = NoFile
      /\ at = [r \in Requests |-> "begin"] /\ found = [r \in Requests |-> 0]
      /\ index = [r \in Requests |-> 0] /\ seen = [r \in Requests |-> 0]
      /\ data = [r \in Requests |-> Empty] /\ answer = [r \in Requests |-> "none"]
      /\ under = [r \in Requests |-> Empty] /\ before = [r \in Requests |-> Empty]
      /\ last = <<>> /\ met = {}
  BY DEF Init
<1> DEFINE ls == s.file.links
           n == Len(s.file.links)
<1>3. /\ s.file \in File /\ Accepted(s.file)
      /\ \A i \in 1..n : ls[i] \in LinkConfig
      /\ n \in Nat /\ DOMAIN ls = 1..n
  BY TopologyFileAssumption, LoadedAssumption, FileParts
<1>4. /\ objects \in Seq(LinkConfig) /\ Len(objects) = n
      /\ \A i \in 1..n : objects[i] = WithBuffer(ls[i])
  <2>1. \A i \in 1..n : WithBuffer(ls[i]) \in LinkConfig
    BY <1>3, BufferGiven
  <2>2. objects \in [1..n -> LinkConfig]
    BY <1>1, <1>3, <2>1
  <2>3. objects \in Seq(LinkConfig) /\ Len(objects) = n
    BY <1>3, <2>2, FunctionIsSequence
  <2> QED BY <1>1, <1>3, <2>3
<1>5. /\ table \in Seq(1..Len(objects)) /\ Len(table) = n
      /\ \A i \in 1..n : table[i] = i
  <2>1. table = [i \in 1..n |-> i]
    BY <1>1, <1>3 DEF Numbered
  <2>2. table \in [1..n -> 1..Len(objects)]
    BY <1>4, <2>1
  <2>3. table \in Seq(1..Len(objects)) /\ Len(table) = n
    BY <1>3, <2>2, FunctionIsSequence
  <2> QED BY <2>1, <2>3
<1>6. /\ nodes \subseteq Nodes \X BOOLEAN /\ bridges \subseteq Bridges
  BY <1>1, <1>3, FileParts DEF Accepted, BridgeAccepted
<1>7. TypeOK
  <2>1. \A r \in Requests : /\ Kind(r) \in Kinds /\ Link(r) \in LinkConfig
                            /\ plan[r].nodes \subseteq Nodes \X BOOLEAN
                            /\ plan[r].whole \in BOOLEAN
                            /\ Kind(r) = "add" => ~Link(r).rate
    BY <1>1, TopologyFileAssumption DEF Kind, Link
  <2>2. veths \subseteq {Ends(l) : l \in LinkConfig}
    BY <1>1, <1>3
  <2>3. Empty \in File
    BY EmptyType
  <2>4. Empty \in [nodes : SUBSET (Nodes \X BOOLEAN), links : Seq(LinkConfig),
                   bridges : SUBSET Bridges]
    BY DEF Empty
  <2>5. found \in [Requests -> 0..Len(objects)]
    BY <1>2, <1>3, <1>4
  <2>6. /\ at \in [Requests -> Positions]
        /\ answer \in [Requests -> {"none", "ok", "error", "refused"}]
        /\ last \in Seq(Requests) /\ met \subseteq SUBSET Requests
    BY <1>2 DEF Positions
  <2>7. /\ data \in [Requests -> File \cup {Torn}] /\ under \in [Requests -> File \cup {Torn}]
        /\ index \in [Requests -> Nat] /\ seen \in [Requests -> Nat]
        /\ file \in File \cup {Torn} /\ temp \in File \cup {Torn, NoFile}
    BY <1>1, <1>2, <1>3, <2>3
  <2>8. before \in [Requests -> [nodes : SUBSET (Nodes \X BOOLEAN), links : Seq(LinkConfig),
                                 bridges : SUBSET Bridges]]
    BY <1>2, <2>4
  <2>9. daemon \in {"up", "panic"} /\ epoch \in Nat /\ broken \subseteq 0..Len(objects)
    BY <1>1, <1>2
  <2> QED BY <1>4, <1>5, <1>6, <2>1, <2>2, <2>5, <2>6, <2>7, <2>8, <2>9 DEF TypeOK
<1>8. \A r \in Requests : at[r] = "begin" /\ answer[r] = "none"
  BY <1>2
<1>14. \A r \in Requests : Kind(r) = "add" => ~Link(r).rate
  BY <1>1, TopologyFileAssumption DEF Kind, Link
<1>9. /\ Stages /\ Together /\ PlacesKnown /\ EditFollows /\ BeforeKnown /\ BeforeKept
      /\ Filling /\ BrokenKnown
  BY <1>1, <1>8, <1>14 DEF Stages, Together, UnderWay, PlacesKnown, EditFollows, BeforeKnown,
                           BeforeKept, Filling, BrokenKnown
<1>10. FirstFile
  BY <1>1, <1>8 DEF FirstFile
<1>11. FileFollows
  BY <1>2, <1>8 DEF FileFollows, Synced
<1>12. Accepting
  BY <1>1, <1>3, <1>4, AcceptedFits, BufferGiven DEF Accepting
<1>13. LinksSound
  <2>1. /\ Len(Configs) = n
        /\ \A i \in 1..n : /\ Configs[i].peer1 = ls[i].peer1
                           /\ Configs[i].peer2 = ls[i].peer2
                           /\ Configs[i].rate = ls[i].rate
    BY <1>3, <1>4, <1>5, <1>7, ConfigsType, BufferGiven DEF Config
  <2>2. Fit(nodes, Configs)
    BY <1>1, <1>3, <2>1, AcceptedFits, FitAlike
  <2>3. \A i \in 1..n : Ends(Configs[i]) = Ends(ls[i])
    BY <2>1, SameEnds
  <2>4. Apart(Configs)
    BY <1>3, <2>1, <2>3, LoadedAssumption DEF Apart
  <2>5. \A i \in 1..n : Ends(Configs[i]) \in veths
    BY <1>1, <2>3
  <2>6. TableSound
    BY <1>5, <2>4, <2>5 DEF TableSound
  <2>7. SetupSound /\ AppendSound
    BY <1>8 DEF SetupSound, AppendSound
  <2> QED BY <2>2, <2>6, <2>7 DEF LinksSound
<1> QED BY <1>7, <1>9, <1>10, <1>11, <1>12, <1>13 DEF IInv

\* Every step of a request keeps the invariant.
LEMMA NextKeepsIInv == IInv /\ [Next]_vars => IInv'
<1> SUFFICES ASSUME IInv, [Next]_vars PROVE IInv'
  OBVIOUS
<1>1. CASE Next
  <2>1. PICK r \in Requests : Step(r) /\ daemon = "up"
    BY <1>1 DEF Next
  <2>2. TypeOK' /\ Stages'
    BY <2>1, StepKeepsType, StepKeepsStages DEF IInv
  <2>3. Together' /\ FirstFile' /\ PlacesKnown' /\ EditFollows'
    BY <2>1, StepKeepsTogether, StepKeepsFirstFile, StepKeepsPlaces, StepKeepsEdits DEF IInv
  <2>6. Filling' /\ BrokenKnown'
    BY <2>1, StepKeepsFilling, StepKeepsBroken DEF IInv
  <2>4. Accepting' /\ LinksSound'
    BY <2>1, <2>2, StepKeepsAccepting, StepKeepsSound DEF IInv
  <2>5. BeforeKnown' /\ BeforeKept' /\ FileFollows'
    BY <2>1, <2>2, StepKeepsBefore, StepKeepsKept, StepKeepsFile DEF IInv
  <2> QED BY <2>2, <2>3, <2>4, <2>5, <2>6 DEF IInv
<1>2. CASE UNCHANGED vars
  <2>1. TypeOK' /\ Stages'
    BY <1>2 DEF IInv, vars, topo, work, history, TypeOK, Stages, Kind, Link
  <2>2. Together' /\ FirstFile' /\ PlacesKnown'
    BY <1>2 DEF IInv, vars, topo, work, history, Together, UnderWay, FirstFile, PlacesKnown,
                Overlap, Kind
  <2>3. EditFollows'
    <3>1. UNCHANGED <<plan, at, data, file, temp, met, under>> /\ EditFollows
      BY <1>2 DEF IInv, vars, topo, work, history
    <3>2. \A r \in Requests : \A ks : Overlap(r, ks)' <=> Overlap(r, ks)
      BY <3>1 DEF Overlap, Kind
    <3>3. \A f, r : Edited(f, r)' = Edited(f, r)
      BY <3>1 DEF Edited, Link
    <3> QED BY <3>1, <3>2, <3>3 DEF EditFollows, Kind
  <2>4. Configs' = Configs /\ Topology' = Topology /\ (Calm' <=> Calm) /\ (Synced' <=> Synced)
    BY <1>2 DEF vars, topo, work, history, Configs, Config, Topology, Calm, Synced, Kind
  <2>5. Accepting' /\ LinksSound'
    BY <1>2, <2>4 DEF IInv, vars, topo, work, history, Accepting, LinksSound, SetupSound,
                      AppendSound, TableSound, Known, Config, Link
  <2>6. BeforeKnown' /\ BeforeKept' /\ FileFollows'
    BY <1>2, <2>4 DEF IInv, vars, topo, work, history, BeforeKnown, BeforeKept, FileFollows,
                      UnderWay, Kind
  <2>7. Filling' /\ BrokenKnown'
    <3>1. /\ UNCHANGED <<daemon, plan, at, data, found, seen, epoch, nodes, table, bridges,
                         broken, objects, answer, met>>
          /\ Filling /\ BrokenKnown
      BY <1>2 DEF IInv, vars, topo, work, history
    <3>2. \A r \in Requests : \A ks : Overlap(r, ks)' <=> Overlap(r, ks)
      BY <3>1 DEF Overlap, Kind
    <3>3. Filling'
      BY <3>1, <3>2 DEF Filling
    <3>4. BrokenKnown'
      BY <3>1 DEF BrokenKnown, ReloadsMet, Kind
    <3> QED BY <3>3, <3>4
  <2> QED BY <2>1, <2>2, <2>3, <2>5, <2>6, <2>7 DEF IInv
<1> QED BY <1>1, <1>2

-----------------------------------------------------------------------------
(* The theorems.                                                            *)

\* The inductive invariant holds in every reachable state.
THEOREM Invariant == Spec => []IInv
BY InitIInv, NextKeepsIInv, PTL DEF Spec

\* The topology, the file and what the requests carry have their types.
THEOREM TypeCorrect == Spec => []TypeOK
<1>1. IInv => TypeOK
  BY DEF IInv
<1> QED BY <1>1, Invariant, PTL

\* A link leaves t.links, and the daemon stops, only as LinksGoWhenAsked says.
THEOREM LinksGo == Spec => LinksGoWhenAsked
<1> DEFINE Body ==
      /\ \A k \in Held(table) \ Held(table') :
             \E r \in Requests :
                \/ Kind(r) = "reload" /\ at[r] = "begin" /\ at'[r] = "load"
                \/ /\ at[r] = "load" /\ at'[r] = "fill"
                   /\ Overlap(r, {"add", "reload"})
                \/ /\ at[r] = "fill" /\ at'[r] \in {"bridging", "run"}
                   /\ Overlap(r, {"del", "reload"})
                \/ /\ at[r] = "remove" /\ at'[r] = "sync"
                   /\ \/ k = found[r]
                      \/ Overlap(r, {"del", "reload"})
      /\ daemon' = "panic" =>
             \E r \in Requests :
                /\ at'[r] = "panic"
                /\ \/ at[r] = "begin" /\ Malformed(r)
                   \/ Kind(r) = "add" /\ (epoch > 0 \/ Stray(Link(r)))
                   \/ at[r] \in {"remove", "fill"} /\ Overlap(r, {"del", "reload"})
                   \/ at[r] = "bridging" /\ Overlap(r, {"reload"})
                   \/ at[r] = "load" /\ Names(file.nodes) \cap Odd # {}
                   \/ at[r] \in {"fill", "bridging"} /\ DotlessEnds(data[r])
                   \/ at[r] \in {"begin", "sync", "run"} /\ (HalfLoaded \/ ReloadsMet)
<1>1. IInv /\ [Next]_vars => [Body]_vars
  <2> SUFFICES ASSUME IInv, Next PROVE Body
    OBVIOUS
  <2>1. PICK r \in Requests : Step(r) /\ daemon = "up"
    BY DEF Next
  <2> QED BY <2>1, LinksGoStep DEF IInv, MayStop
<1>2. LinksGoWhenAsked <=> [][Body]_vars
  BY PTL DEF LinksGoWhenAsked
<1> HIDE DEF Body
<1> QED BY <1>1, <1>2, Invariant, PTL DEF Spec

\* A reload after a synchronised change gives the topology again, or is refused
\* for the reasons that ReloadKeepsLinks gives.
THEOREM ReloadsKeep == Spec => ReloadKeepsLinks
<1> DEFINE Body ==
      \A r \in Requests :
          /\ at[r] \in {"load", "fill"} /\ at'[r] \notin {"load", "fill"}
          /\ met = {} /\ \A q \in Requests : Kind(q) = "reload" => answer[q] # "error"
          /\ last # <<>> /\ Kind(last[Len(last)]) \in {"add", "del", "update"}
          /\ answer[last[Len(last)]] = "ok"
          => /\ answer'[r] = "refused" <=>
                   \/ before[r].bridges # {}
                   \/ \E i \in DOMAIN before[r].links : ~before[r].links[i].rate
             /\ at'[r] = "run" =>
                   /\ nodes' = Names(before[r].nodes) \X {TRUE}
                   /\ Configs' = before[r].links
<1>1. IInv /\ [Next]_vars => [Body]_vars
  <2> SUFFICES ASSUME IInv, Next PROVE Body
    OBVIOUS
  <2>1. PICK q \in Requests : Step(q) /\ daemon = "up"
    BY DEF Next
  <2>2. TypeOK'
    BY <2>1, StepKeepsType DEF IInv
  <2> QED BY <2>1, <2>2, ReloadsKeepStep DEF IInv, Calm, Synced
<1>2. ReloadKeepsLinks <=> [][Body]_vars
  BY PTL DEF ReloadKeepsLinks
<1> HIDE DEF Body
<1> QED BY <1>1, <1>2, Invariant, PTL DEF Spec

\* An edit that no other edit and no synchronised change overlaps writes the
\* user's change of what it writes over.
THEOREM EditsKeep == Spec => EditKeepsTheRest
<1> DEFINE Body ==
      \A r \in Requests :
          at[r] = "write" /\ at'[r] = "cleanup" =>
              \/ file' = Edited(under[r], r)
              \/ Overlap(r, {"edit", "add", "del", "update"})
<1>1. IInv /\ [Next]_vars => [Body]_vars
  <2> SUFFICES ASSUME IInv, Next PROVE Body
    OBVIOUS
  <2>1. PICK q \in Requests : Step(q) /\ daemon = "up"
    BY DEF Next
  <2> QED BY <2>1, EditsKeepStep DEF IInv
<1>2. EditKeepsTheRest <=> [][Body]_vars
  BY PTL DEF EditKeepsTheRest
<1> HIDE DEF Body
<1> QED BY <1>1, <1>2, Invariant, PTL DEF Spec

-----------------------------------------------------------------------------
(* NodeIds: what GetId returns.                                             *)

\* GetId returns an identifier that nobody has.
LEMMA GetsUnused ==
    ASSUME NEW name, NEW id, Gets(name, id)
    PROVE  id \notin used
BY DEF Gets, Directly, First, Stops

\* A stem that can be cut has four letters.
LEMMA StemLength ==
    ASSUME NEW name \in Seq(Letters), NEW n \in 1 .. 3, CanCut(name, n)
    PROVE  Stem(name, n) \in Seq(Letters) /\ Len(Stem(name, n)) = 4
<1> DEFINE l == Len(name) - (4 - n) + 1
<1>1. n <= Len(name) /\ 4 - n <= Len(name) /\ Len(name) \in Nat
  BY DEF CanCut
<1>2. SubSeq(name, 1, n) \in Seq(Letters) /\ Len(SubSeq(name, 1, n)) = n
  BY <1>1
<1>3. l \in 1 .. Len(name) /\ Len(name) - l + 1 = 4 - n
  BY <1>1
<1>4. SubSeq(name, l, Len(name)) \in Seq(Letters)
      /\ Len(SubSeq(name, l, Len(name))) = 4 - n
  BY <1>1, <1>3
<1> HIDE DEF l
<1>5. /\ SubSeq(name, 1, n) \o SubSeq(name, l, Len(name)) \in Seq(Letters)
      /\ Len(SubSeq(name, 1, n) \o SubSeq(name, l, Len(name))) = 4
  BY <1>2, <1>4
<1> QED BY <1>5 DEF Stem, l

\* A generated identifier is a character and four letters.
LEMMA AttemptLength ==
    ASSUME NEW name \in Seq(Letters), NEW p \in Attempts, CanCut(name, Cuts[p[1]])
    PROVE  /\ Attempt(name, p[1], p[2]) \in Seq(Letters)
           /\ Len(Attempt(name, p[1], p[2])) = 5
           /\ Attempt(name, p[1], p[2])[1] = Characters[p[2]]
<1>1. p[1] \in 1 .. 3 /\ p[2] \in 1 .. Len(Characters)
  BY DEF Attempts
<1>2. Cuts[p[1]] \in 1 .. 3
  BY <1>1 DEF Cuts
<1>3. /\ Stem(name, Cuts[p[1]]) \in Seq(Letters)
      /\ Len(Stem(name, Cuts[p[1]])) = 4
  BY <1>2, StemLength
<1>4. Characters[p[2]] \in Letters
  BY <1>1, CharactersAssumption
<1> DEFINE head == <<Characters[p[2]]>>
           tail == Stem(name, Cuts[p[1]])
<1>5. head \in Seq(Letters) /\ Len(head) = 1 /\ head[1] = Characters[p[2]]
  BY <1>4
<1> HIDE DEF head, tail
<1>6. /\ head \o tail \in Seq(Letters)
      /\ Len(head \o tail) = 5
      /\ (head \o tail)[1] = Characters[p[2]]
  <2>1. tail \in Seq(Letters) /\ Len(tail) = 4
    BY <1>3 DEF tail
  <2>2. /\ head \o tail \in Seq(Letters)
        /\ Len(head \o tail) = Len(head) + Len(tail)
        /\ \A i \in 1 .. Len(head) + Len(tail) : (head \o tail)[i] =
                 IF i <= Len(head) THEN head[i] ELSE tail[i - Len(head)]
    BY <1>5, <2>1, ConcatProperties
  <2>3. Len(head) + Len(tail) = 5 /\ 1 \in 1 .. 5 /\ 1 <= 1
    BY <1>5, <2>1
  <2>4. (head \o tail)[1] = head[1]
    BY <1>5, <2>2, <2>3
  <2> QED BY <1>5, <2>2, <2>3, <2>4
<1> QED BY <1>6 DEF Attempt, head, tail

\* An identifier that GetId returns for a name has one to five letters.
LEMMA GetsShort ==
    ASSUME NEW name \in Name, NEW id, Gets(name, id)
    PROVE  id \in Seq(Letters) /\ Len(id) \in 1 .. 5
<1>1. name \in Seq(Letters) /\ Len(name) \in Nat \ {0}
  BY DEF Name
<1>2. CASE Directly(name, id)
  <2>1. id = name /\ Len(name) <= 5
    BY <1>2 DEF Directly
  <2>2. \A n \in Nat \ {0} : n <= 5 => n \in 1 .. 5
    OBVIOUS
  <2> QED BY <1>1, <2>1, <2>2
<1>3. CASE \E p \in Attempts : /\ First(name, p)
                              /\ CanCut(name, Cuts[p[1]])
                              /\ id = Attempt(name, p[1], p[2])
  BY <1>1, <1>3, AttemptLength
<1> QED BY <1>2, <1>3 DEF Gets

-----------------------------------------------------------------------------
(* NodeIds: the inductive invariant.                                        *)

\* The identifiers in use are those given, each to one entry, and short; an
\* entry whose GetId failed had more entries before it than characters.
IdsIInv ==
    /\ IdsTypeOK
    /\ used = {ids[x] : x \in DOMAIN ids}
    /\ IdsDiffer
    /\ IdsFit
    /\ FewNamesLoad

\* The entries of a file are finitely many, and their names are names.
LEMMA Entries ==
    ASSUME NEW f \in Files
    PROVE  /\ IsFiniteSet(EntriesOf(f))
           /\ \A x \in EntriesOf(f) : x[2] \in Name
<1>1. /\ f.nodes \subseteq Name /\ f.bridges \subseteq Name
      /\ IsFiniteSet(f.nodes) /\ IsFiniteSet(f.bridges)
  BY FilesAssumption
<1>2. IsFiniteSet({"node"}) /\ IsFiniteSet({"bridge"})
  BY FS_Singleton
<1>3. IsFiniteSet({"node"} \X f.nodes) /\ IsFiniteSet({"bridge"} \X f.bridges)
  BY <1>1, <1>2, FS_Product
<1>4. IsFiniteSet(EntriesOf(f))
  BY <1>3, FS_Union DEF EntriesOf, NodesOf, BridgesOf
<1> QED BY <1>1, <1>4 DEF EntriesOf, NodesOf, BridgesOf

\* GetId fails for an entry only if the others already use as many identifiers
\* as there are characters.
LEMMA FailsLate ==
    ASSUME IdsIInv, NEW x \in EntriesOf(netFile), x \notin DOMAIN ids, Fails(x[2])
    PROVE  Cardinality(EntriesOf(netFile)) > Len(Characters)
<1> DEFINE n == Len(Characters)
           E == EntriesOf(netFile)
           D == DOMAIN ids
           A(c) == Attempt(x[2], 1, c)
<1>1. netFile \in Files /\ D \subseteq E /\ used = {ids[y] : y \in D}
  BY DEF IdsIInv, IdsTypeOK
<1>2. IsFiniteSet(E) /\ x[2] \in Seq(Letters) /\ n \in Nat
  BY <1>1, Entries, CharactersAssumption DEF Name
<1>3. \A c \in 1 .. n : /\ CanCut(x[2], Cuts[1])
                        /\ A(c) \in used
                        /\ A(c)[1] = Characters[c]
  <2> TAKE c \in 1 .. n
  <2>1. <<1, c>> \in Attempts
    BY DEF Attempts
  <2>2. ~Stops(x[2], <<1, c>>)
    BY <2>1 DEF Fails
  <2>3. CanCut(x[2], Cuts[1]) /\ A(c) \in used
    BY <2>2 DEF Stops
  <2> QED BY <1>2, <2>1, <2>3, AttemptLength
<1>4. \A c \in 1 .. n : \E y \in D : ids[y] = A(c)
  BY <1>1, <1>3
<1> DEFINE owner == [c \in 1 .. n |-> CHOOSE y \in D : ids[y] = A(c)]
<1>5. \A c \in 1 .. n : owner[c] \in D /\ ids[owner[c]] = A(c)
  BY <1>4
<1> HIDE DEF A, owner
<1>6. \A c, d \in 1 .. n : owner[c] = owner[d] => c = d
  BY <1>3, <1>5, CharactersAssumption
<1>7. owner \in Injection(1 .. n, D)
  <2>1. owner \in [1 .. n -> D]
    BY <1>5 DEF owner
  <2> QED BY <1>6, <2>1 DEF Injection, IsInjective
<1>8. IsFiniteSet(D) /\ Cardinality(1 .. n) <= Cardinality(D)
  BY <1>1, <1>2, <1>7, FS_Subset, FS_Injection
<1>9. Cardinality(1 .. n) = n
  <2>1. 1 \in Int /\ n \in Int /\ (IF 1 > n THEN 0 ELSE n - 1 + 1) = n
    BY <1>2
  <2> QED BY <2>1, FS_Interval
<1>10. Cardinality(D) <= Cardinality(E \ {x})
  <2>1. D \subseteq E \ {x} /\ IsFiniteSet(E \ {x})
    BY <1>1, <1>2, FS_RemoveElement
  <2> QED BY <2>1, FS_Subset
<1>11. Cardinality(E \ {x}) = Cardinality(E) - 1 /\ Cardinality(E) \in Nat
  BY <1>2, FS_RemoveElement, FS_CardinalityType
<1>12. Cardinality(D) \in Nat
  BY <1>8, FS_CardinalityType
<1> QED BY <1>2, <1>8, <1>9, <1>10, <1>11, <1>12

-----------------------------------------------------------------------------
(* NodeIds: the steps.                                                      *)

\* The invariant holds before any entry has an identifier.
LEMMA IdsInitIInv == IdsInit => IdsIInv
<1> SUFFICES ASSUME IdsInit PROVE IdsIInv
  OBVIOUS
<1>1. DOMAIN ids = {}
  BY DEF IdsInit
<1>2. IdsTypeOK
  BY <1>1, MaxLoadsAssumption DEF IdsInit, IdsTypeOK
<1> QED BY <1>1, <1>2 DEF IdsInit, IdsIInv, IdsDiffer, IdsFit, FewNamesLoad

\* An entry that gets an identifier.
LEMMA SucceedKeepsIInv ==
    ASSUME IdsIInv, NEW x \in EntriesOf(netFile), x \notin DOMAIN ids, Succeed(x)
    PROVE  IdsIInv'
<1>1. PICK id : /\ Gets(x[2], id)
                /\ used' = used \cup {id}
                /\ ids' = [y \in DOMAIN ids \cup {x} |->
                              IF y = x THEN id ELSE ids[y]]
                /\ UNCHANGED <<netFile, failed, stage, loads>>
  BY DEF Succeed
<1>2. id \notin used
  BY <1>1, GetsUnused
<1>3. netFile \in Files /\ x[2] \in Name
  BY Entries DEF IdsIInv, IdsTypeOK
<1>4. Len(id) \in 1 .. 5
  BY <1>1, <1>3, GetsShort
<1>5. /\ DOMAIN ids' = DOMAIN ids \cup {x}
      /\ ids'[x] = id
      /\ \A y \in DOMAIN ids : y # x /\ ids'[y] = ids[y] /\ ids[y] \in used
  BY <1>1 DEF IdsIInv, IdsTypeOK
<1>6. IdsTypeOK'
  BY <1>1, <1>5 DEF IdsIInv, IdsTypeOK
<1>7. used' = {ids'[y] : y \in DOMAIN ids'}
  BY <1>1, <1>5 DEF IdsIInv
<1>8. IdsDiffer'
  BY <1>2, <1>5 DEF IdsIInv, IdsDiffer
<1>9. IdsFit'
  BY <1>4, <1>5 DEF IdsIInv, IdsFit
<1>10. FewNamesLoad'
  BY <1>1 DEF IdsIInv, FewNamesLoad
<1> QED BY <1>6, <1>7, <1>8, <1>9, <1>10 DEF IdsIInv

\* An entry whose GetId returns an error.
LEMMA FailKeepsIInv ==
    ASSUME IdsIInv, NEW x \in EntriesOf(netFile), x \notin DOMAIN ids, Fails(x[2]),
           failed' = failed \cup {x}, UNCHANGED <<netFile, used, ids, loads>>,
           stage' \in {stage, "error"}
    PROVE  IdsIInv'
<1>1. Cardinality(EntriesOf(netFile)) > Len(Characters)
  BY FailsLate
<1>2. FewNamesLoad'
  BY <1>1 DEF FewNamesLoad
<1>3. IdsTypeOK'
  BY DEF IdsIInv, IdsTypeOK
<1> QED BY <1>2, <1>3 DEF IdsIInv, IdsDiffer, IdsFit

\* Every call of GetId, and every Load, keeps the invariant.
LEMMA IdsNextKeepsIInv == IdsIInv /\ [IdsNext]_idsVars => IdsIInv'
<1> SUFFICES ASSUME IdsIInv, [IdsNext]_idsVars PROVE IdsIInv'
  OBVIOUS
<1>1. ASSUME NEW x \in EntriesOf(netFile), GetNodeId(x) PROVE IdsIInv'
  <2>1. x \notin DOMAIN ids
    BY <1>1 DEF GetNodeId, Pending
  <2>2. CASE Succeed(x)
    BY <2>1, <2>2, SucceedKeepsIInv
  <2>3. CASE ~Succeed(x)
    BY <1>1, <2>1, <2>3, FailKeepsIInv DEF GetNodeId
  <2> QED BY <2>2, <2>3
<1>2. ASSUME NEW x \in EntriesOf(netFile), GetBridgeId(x) PROVE IdsIInv'
  <2>1. x \notin DOMAIN ids
    BY <1>2 DEF GetBridgeId, Pending
  <2>2. CASE Succeed(x)
    BY <2>1, <2>2, SucceedKeepsIInv
  <2>3. CASE ~Succeed(x)
    BY <1>2, <2>1, <2>3, FailKeepsIInv DEF GetBridgeId
  <2> QED BY <2>2, <2>3
<1>3. ASSUME UNCHANGED <<netFile, used, ids, failed, loads>>,
             stage' \in {"nodes", "bridges", "loaded", "error", "panic"}
      PROVE  IdsIInv'
  BY <1>3 DEF IdsIInv, IdsTypeOK, IdsDiffer, IdsFit, FewNamesLoad
<1>4. ASSUME NEW x \in EntriesOf(netFile), PanicInGetId(x) PROVE IdsIInv'
  BY <1>3, <1>4 DEF PanicInGetId
<1>5. CASE WaitNodes
  BY <1>3, <1>5 DEF WaitNodes
<1>6. CASE Loaded
  BY <1>3, <1>6 DEF Loaded
<1>7. CASE Reload
  <2>1. DOMAIN ids' = {} /\ used' = {} /\ failed' = {} /\ netFile' \in Files
    BY <1>7 DEF Reload, Again
  <2>2. stage' = "nodes" /\ loads' \in 1 .. MaxLoads
    BY <1>7, MaxLoadsAssumption DEF Reload, Again, IdsIInv, IdsTypeOK
  <2>3. IdsTypeOK'
    BY <2>1, <2>2 DEF IdsTypeOK
  <2> QED BY <2>1, <2>3 DEF IdsIInv, IdsDiffer, IdsFit, FewNamesLoad
<1>8. CASE UNCHANGED idsVars
  BY <1>3, <1>8 DEF idsVars, IdsIInv, IdsTypeOK
<1> QED BY <1>1, <1>2, <1>4, <1>5, <1>6, <1>7, <1>8 DEF IdsNext, Terminated

-----------------------------------------------------------------------------
(* NodeIds: the theorems.                                                   *)

\* The inductive invariant holds in every reachable state.
THEOREM IdsInvariant == IdsSpec => []IdsIInv
BY IdsInitIInv, IdsNextKeepsIInv, PTL DEF IdsSpec

\* In every state the identifiers belong to entries of the file, and each of
\* them is among those that GetId takes for used.
THEOREM IdsTypeCorrect == IdsSpec => []IdsTypeOK
<1>1. IdsIInv => IdsTypeOK
  BY DEF IdsIInv
<1> QED BY <1>1, IdsInvariant, PTL

\* GetId never gives two nodes or bridges of a project the same identifier.
THEOREM UniqueIds == IdsSpec => []IdsDiffer
<1>1. IdsIInv => IdsDiffer
  BY DEF IdsIInv
<1> QED BY <1>1, IdsInvariant, PTL

\* GetId never returns an identifier longer than five letters, or an empty one.
THEOREM ShortIds == IdsSpec => []IdsFit
<1>1. IdsIInv => IdsFit
  BY DEF IdsIInv
<1> QED BY <1>1, IdsInvariant, PTL

\* A file with no more nodes and bridges than characters never makes GetId
\* return an error, in any order of its calls and at any Load.
THEOREM EnoughIds == IdsSpec => []FewNamesLoad
<1>1. IdsIInv => FewNamesLoad
  BY DEF IdsIInv
<1> QED BY <1>1, IdsInvariant, PTL

=============================================================================
