------------------------------ MODULE NodeIds ------------------------------
(***************************************************************************)
(* The short identifiers of nodes and bridges: NodeIdentifierGenerator     *)
(* (internal/server/node.go) as Load and Close use it                      *)
(* (internal/server/topology.go).                                          *)
(*                                                                         *)
(* Interfaces of the host are named after these identifiers, which must    *)
(* differ within a project and fit into a name of 15 bytes.  A name is a   *)
(* sequence of letters.  The nodes of a file get their identifiers in any  *)
(* order (one goroutine each, GetId holds a lock), then the bridges, one   *)
(* after the other, in the order of a Go map, which is any order too.      *)
(***************************************************************************)
EXTENDS Naturals, Sequences, FiniteSets

CONSTANTS
    Letters,    \* of names
    Files,      \* the network files: [nodes, bridges], two sets of names
    Characters, \* characterList: the first letter of a generated identifier
    MaxLoads    \* bound on Load

Name == Seq(Letters) \ {<<>>}

\* nameRE: at least one letter.  Nodes and bridges are two maps of the file.
ASSUME FilesAssumption ==
    \A f \in Files : /\ f.nodes \subseteq Name /\ f.bridges \subseteq Name
                      /\ IsFiniteSet(f.nodes) /\ IsFiniteSet(f.bridges)

ASSUME CharactersAssumption ==
    /\ Characters \in Seq(Letters)
    /\ \A c, d \in 1 .. Len(Characters) :
           Characters[c] = Characters[d] => c = d

ASSUME MaxLoadsAssumption == MaxLoads \in Nat \ {0}

VARIABLES
    netFile,      \* the network file being loaded
    used,       \* usedIds
    ids,        \* the identifier of each node and bridge that has one
    failed,     \* those for which GetId returned an error
    stage,      \* of Load
    loads       \* Loads so far

idsVars == <<netFile, used, ids, failed, stage, loads>>

NodesOf(f)   == {"node"} \X f.nodes
BridgesOf(f) == {"bridge"} \X f.bridges
EntriesOf(f) == NodesOf(f) \cup BridgesOf(f)

-----------------------------------------------------------------------------
(* GetId.                                                                   *)

\* The three ways to cut a name to four letters: how many come from its
\* beginning, in the order they are tried.
Cuts == <<2, 3, 1>>

\* name[:n] + name[len(name)-(4-n):]
Stem(name, n) ==
    SubSeq(name, 1, n) \o SubSeq(name, Len(name) - (4 - n) + 1, Len(name))

\* The slices of Stem exist.
CanCut(name, n) == n <= Len(name) /\ 4 - n <= Len(name)

Attempt(name, k, c) == <<Characters[c]>> \o Stem(name, Cuts[k])

\* The attempts <<cut, character>>, in the order of the two loops.
Attempts == (1 .. 3) \X (1 .. Len(Characters))

Before(p, q) == p[1] < q[1] \/ (p[1] = q[1] /\ p[2] < q[2])

\* The first attempt that gives an identifier nobody has, or at which the name
\* is too short to be cut.
Stops(name, p) ==
    CanCut(name, Cuts[p[1]]) => Attempt(name, p[1], p[2]) \notin used

First(name, p) ==
    /\ p \in Attempts /\ Stops(name, p)
    /\ \A q \in Attempts : Before(q, p) => ~Stops(name, q)

\* A mistaken variant: a name that is short enough is taken as it is.
TakeAnyDirectly(name, id) == Len(name) <= 5 /\ id = name

\* A mistaken variant: the limit is off by one.
TakeSixDirectly(name, id) == Len(name) <= 6 /\ name \notin used /\ id = name

\* A short name that nobody has is its own identifier.
Directly(name, id) == Len(name) <= 5 /\ name \notin used /\ id = name

IsDirect(name) == \E id \in {name} : Directly(name, id)

\* GetId returns id.
Gets(name, id) ==
    \/ Directly(name, id)
    \/ /\ ~IsDirect(name)
       /\ \E p \in Attempts : /\ First(name, p)
                              /\ CanCut(name, Cuts[p[1]])
                              /\ id = Attempt(name, p[1], p[2])

\* GetId slices a string beyond its end.
Panics(name) ==
    /\ ~IsDirect(name)
    /\ \E p \in Attempts : First(name, p) /\ ~CanCut(name, Cuts[p[1]])

\* GetId returns an error: all attempts fail.
Fails(name) == ~IsDirect(name) /\ \A p \in Attempts : ~Stops(name, p)

-----------------------------------------------------------------------------
(* Load and Close.                                                          *)

IdsInit ==
    /\ netFile \in Files
    /\ used = {} /\ ids = <<>> /\ failed = {}
    /\ stage = "nodes" /\ loads = 1

Pending(entries) == entries \ (DOMAIN ids \cup failed)

\* What a call of GetId(name) does for an entry of the file.
Succeed(x) ==
    \E id \in {x[2]} \cup {Attempt(x[2], p[1], p[2]) :
                              p \in {p \in Attempts : CanCut(x[2], Cuts[p[1]])}} :
        /\ Gets(x[2], id)
        /\ used' = used \cup {id}
        /\ ids' = [y \in DOMAIN ids \cup {x} |-> IF y = x THEN id ELSE ids[y]]
        /\ UNCHANGED <<netFile, failed, stage, loads>>

\* Load, the goroutine of a node: an error does not stop the others.
GetNodeId(x) ==
    /\ stage = "nodes" /\ x \in Pending(NodesOf(netFile))
    /\ \/ Succeed(x)
       \/ /\ Fails(x[2])
          /\ failed' = failed \cup {x}
          /\ UNCHANGED <<netFile, used, ids, stage, loads>>

\* g.Wait: Load goes on when every node exists.  CreateNode may fail as well.
WaitNodes ==
    /\ stage = "nodes" /\ Pending(NodesOf(netFile)) = {}
    /\ \/ failed = {} /\ stage' = "bridges"
       \/ stage' = "error"
    /\ UNCHANGED <<netFile, used, ids, failed, loads>>

\* Load, the loop over the bridges: an error ends it.
GetBridgeId(x) ==
    /\ stage = "bridges" /\ x \in Pending(BridgesOf(netFile))
    /\ \/ Succeed(x)
       \/ /\ Fails(x[2])
          /\ failed' = failed \cup {x} /\ stage' = "error"
          /\ UNCHANGED <<netFile, used, ids, loads>>

\* A panic in GetId ends the daemon.
PanicInGetId(x) ==
    /\ \/ stage = "nodes" /\ x \in Pending(NodesOf(netFile))
       \/ stage = "bridges" /\ x \in Pending(BridgesOf(netFile))
    /\ Panics(x[2])
    /\ stage' = "panic"
    /\ UNCHANGED <<netFile, used, ids, failed, loads>>

Loaded ==
    /\ stage = "bridges" /\ Pending(BridgesOf(netFile)) = {}
    /\ stage' = "loaded"
    /\ UNCHANGED <<netFile, used, ids, failed, loads>>

\* A project whose first Load fails is not opened.
Again ==
    /\ stage = "loaded" \/ (stage = "error" /\ loads > 1)
    /\ loads < MaxLoads
    /\ stage' = "nodes" /\ loads' = loads + 1
    /\ netFile' \in Files

\* A mistaken variant: Close leaves the identifiers to the next Load.
ReloadKeepsUsed == Again /\ ids' = <<>> /\ failed' = {} /\ UNCHANGED used

\* A mistaken variant: Close leaves the nodes to the next Load.
ReloadKeepsNodes == Again /\ used' = {} /\ failed' = {} /\ UNCHANGED ids

\* Reload: Close forgets nodes, bridges and identifiers, Load reads the file,
\* which may have changed.
Reload == Again /\ used' = {} /\ ids' = <<>> /\ failed' = {}

Terminated ==
    /\ \/ stage = "panic"
       \/ stage = "loaded" /\ loads = MaxLoads
       \/ stage = "error" /\ loads \in {1, MaxLoads}
    /\ UNCHANGED idsVars

IdsNext ==
    \/ \E x \in EntriesOf(netFile) : GetNodeId(x) \/ GetBridgeId(x) \/ PanicInGetId(x)
    \/ WaitNodes \/ Loaded \/ Reload \/ Terminated

IdsSpec == IdsInit /\ [][IdsNext]_idsVars

-----------------------------------------------------------------------------
(* Properties.                                                              *)

IdsTypeOK ==
    /\ netFile \in Files
    /\ DOMAIN ids \subseteq EntriesOf(netFile)
    /\ \A x \in DOMAIN ids : ids[x] \in used
    /\ failed \subseteq EntriesOf(netFile)
    /\ stage \in {"nodes", "bridges", "loaded", "error", "panic"}
    /\ loads \in 1 .. MaxLoads

\* Two nodes, two bridges, or a node and a bridge never share an identifier,
\* whatever their names and the order of the calls: GetId gives what nobody has.
IdsDiffer == \A x, y \in DOMAIN ids : ids[x] = ids[y] => x = y

\* An identifier has at most five letters: the interfaces of the host, "ntm",
\* three letters of the project, the identifier, a dot and an index, then fit
\* into the kernel's 15 bytes up to index 999.
IdsFit == \A x \in DOMAIN ids : Len(ids[x]) \in 1 .. 5

\* Load runs out of identifiers only for a file with more nodes and bridges
\* than there are characters, also when it is not the first Load.
FewNamesLoad ==
    failed # {} => Cardinality(EntriesOf(netFile)) > Len(Characters)

=============================================================================
