------------------------------ MODULE LinkQoS ------------------------------
(***************************************************************************)
(* The quality of service of one link: NetemLink and its LinkConfig        *)
(* (internal/server/topology.go), and the netem and tbf qdiscs that        *)
(* internal/link/tc.go puts on the two ends of its veth pair.              *)
(*                                                                         *)
(* Run sets the link up, LinkUpdate requests change it, nodes stop and     *)
(* start.  Requests overlap: nothing locks a link.  Each of the four calls *)
(* (netem of end 1 and of end 2, tbf of end 1 and of end 2) is two steps,  *)
(* one that reads the configuration and the flag, one that calls the       *)
(* kernel and sets the flag.                                               *)
(*                                                                         *)
(* QosInit, QosNext and QosSpec are named so that the module can be        *)
(* extended beside HostNetwork.                                            *)
(***************************************************************************)
EXTENDS Naturals

CONSTANTS
    Files,      \* the QoS a link of the network file may have: [all, end]
    Asks,       \* the QoS an update may ask for, one for each end it names
    SetUp,      \* the request that runs the topology
    Updates,    \* LinkUpdate requests
    MaxMoves,   \* bound on the stops and starts of the nodes
    Nothing,
    Word,       \* how many values 32 bits have
    CallsFail   \* may a call fail for a reason of its own?

Requests == {SetUp} \cup Updates
Ends     == {1, 2}
Fields   == {"loss", "delay", "jitter", "rate", "buffer"}
QoS      == [Fields -> Nat]

ASSUME FilesAssumption ==
    Files \subseteq [all : QoS, end : [Ends -> QoS]]

\* getLinkConfigFromRequest reads neither a rate nor a buffer.
ASSUME AsksAssumption ==
    /\ Asks \subseteq [Ends -> QoS]
    /\ \A a \in Asks, e \in Ends : a[e]["rate"] = 0 /\ a[e]["buffer"] = 0

\* The parameters of a qdisc, as tc.go computes them.
NetemQdisc == [delay : Nat, jitter : Nat, loss : Nat]
TbfQdisc   == [rate : Nat, burst : Nat, limit : Nat]

\* What a request has read for a call.
Plan == [needed : BOOLEAN, change : BOOLEAN, qdisc : NetemQdisc \cup TbfQdisc]

ASSUME OtherAssumption ==
    /\ SetUp \notin Updates
    /\ Nothing \notin NetemQdisc \cup TbfQdisc \cup Plan
    /\ MaxMoves \in Nat
    /\ Word \in Nat \ {0}
    /\ CallsFail \in BOOLEAN

VARIABLES
    config,     \* l.Config: [all, end]
    hasNetem,   \* HasPeer1Netem, HasPeer2Netem
    hasTbf,     \* HasPeer1Tbf, HasPeer2Tbf
    veth,       \* does the veth pair exist?
    netem,      \* the root qdisc of each end, in the kernel
    tbf,        \* the qdisc below it
    step,       \* the call each request is at
    plan,       \* what it read for that call
    result,     \* of each request
    moves,      \* stops and starts so far
    stale,      \* <<r, e>>: r holds a namespace that end e has left
    moved,      \* history: ends moved to another namespace since they exist
    mixed       \* history: two requests overlapped

object   == <<config, hasNetem, hasTbf>>
qdiscs   == <<veth, netem, tbf>>
requests == <<step, plan, result>>
nodes    == <<moves, stale, moved>>
qosVars  == <<object, qdiscs, requests, nodes, mixed>>

-----------------------------------------------------------------------------
(* Configuration.                                                           *)

NoQoS == [f \in Fields |-> 0]

\* Load gives the link a buffer of one bandwidth-delay product.
WithDefaults(c) ==
    [c EXCEPT !.all["buffer"] = IF @ = 0 THEN 1 ELSE @]

\* GetPeer1QoS, GetPeer2QoS: that of the end, if it has any.
Effective(c, e) == IF c.end[e] # NoQoS THEN c.end[e] ELSE c.all

\* IsNetemRequired.
NetemRequired(q) == q["delay"] > 0 \/ q["loss"] > 0 \/ q["jitter"] > 0

NetemOf(q) ==
    [delay |-> q["delay"], jitter |-> q["jitter"], loss |-> q["loss"]]

\* What the bucket of a rate holds: nothing for 1 kbit/s (or 2^33, in 32 bits).
Burst(rate) == ((rate * 4) \div 8) % Word

\* CreateTbf: rate in kbit/s, delay in ms, the results in bytes.  The delay is
\* that of the end, the jitter that of the link.  A limit beyond 32 bits is not
\* truncated: Go leaves it open what it becomes, and no limit is refused.
TbfOf(q, c) ==
    [rate  |-> (q["rate"] * 125) % Word,
     burst |-> Burst(q["rate"]),
     limit |-> (q["buffer"] * q["rate"] * (q["delay"] + c.all["jitter"])) \div 8]

\* A mistaken variant: tbf comes before the netem it is put under.
CallsTbfFirst == <<[kind |-> "tbf",   end |-> 1], [kind |-> "tbf",   end |-> 2],
                   [kind |-> "netem", end |-> 1], [kind |-> "netem", end |-> 2]>>

\* The four calls of setupLink and LinkUpdate, in order.
Calls == <<[kind |-> "netem", end |-> 1], [kind |-> "netem", end |-> 2],
           [kind |-> "tbf",   end |-> 1], [kind |-> "tbf",   end |-> 2]>>

Active == {r \in Requests : result[r] = "active"}

-----------------------------------------------------------------------------
(* Requests.                                                                *)

QosInit ==
    /\ \E f \in Files : config = WithDefaults(f)
    /\ hasNetem = [e \in Ends |-> FALSE]
    /\ hasTbf = [e \in Ends |-> FALSE]
    /\ veth = FALSE
    /\ netem = [e \in Ends |-> Nothing]
    /\ tbf = [e \in Ends |-> Nothing]
    /\ step = [r \in Requests |-> 1]
    /\ plan = [r \in Requests |-> Nothing]
    /\ result = [r \in Requests |-> "none"]
    /\ moves = 0 /\ stale = {} /\ moved = {} /\ mixed = FALSE

Begins(r) ==
    /\ result[r] = "none"
    /\ result' = [result EXCEPT ![r] = "active"]
    /\ mixed' = (mixed \/ Active # {})

\* setupLink: CreateVethLink, then the four calls.
Setup ==
    /\ Begins(SetUp)
    /\ veth' = TRUE
    /\ UNCHANGED <<object, netem, tbf, step, plan, nodes>>

\* LinkUpdate: in whatever order the request names the ends of the link, what it
\* gives for its first end is set for Peer1.
Update(r) ==
    /\ Begins(r)
    /\ \E a \in Asks : config' = [config EXCEPT !.end = a]
    /\ UNCHANGED <<hasNetem, hasTbf, qdiscs, step, plan, nodes>>

\* A mistaken variant: the configuration of the other end is read.
ReadOtherEnd(r) ==
    /\ result[r] = "active" /\ plan[r] = Nothing /\ step[r] <= 4
    /\ LET c == Calls[step[r]]
           q == Effective(config, 3 - c.end)
       IN  IF c.kind = "netem"
           THEN plan' = [plan EXCEPT ![r] =
                    [needed |-> NetemRequired(q), change |-> hasNetem[c.end],
                     qdisc |-> NetemOf(q)]]
           ELSE plan' = [plan EXCEPT ![r] =
                    [needed |-> q["rate"] > 0, change |-> hasTbf[c.end],
                     qdisc |-> TbfOf(q, config)]]
    /\ UNCHANGED <<object, qdiscs, step, result, nodes, mixed>>

\* SetPeerNNetem, SetPeerNTBF: what they need, and whether the qdisc is to be
\* added or changed.
Read(r) ==
    /\ result[r] = "active" /\ plan[r] = Nothing /\ step[r] <= 4
    /\ LET c == Calls[step[r]]
           q == Effective(config, c.end)
       IN  IF c.kind = "netem"
           THEN plan' = [plan EXCEPT ![r] =
                    [needed |-> NetemRequired(q), change |-> hasNetem[c.end],
                     qdisc |-> NetemOf(q)]]
           ELSE plan' = [plan EXCEPT ![r] =
                    [needed |-> q["rate"] > 0, change |-> hasTbf[c.end],
                     qdisc |-> TbfOf(q, config)]]
    /\ UNCHANGED <<object, qdiscs, step, result, nodes, mixed>>

\* What the kernel accepts: an interface in the namespace that the request took
\* at its beginning, a qdisc to change or a free place to add it, and for tbf
\* the netem above it and a bucket that holds something.
Accepted(r, c, p) ==
    /\ veth /\ <<r, c.end>> \notin stale
    /\ IF c.kind = "netem"
       THEN p.change <=> netem[c.end] # Nothing
       ELSE /\ netem[c.end] # Nothing /\ (p.change <=> tbf[c.end] # Nothing)
            /\ p.qdisc.burst > 0

Next4(r) == /\ step' = [step EXCEPT ![r] = @ + 1]
            /\ plan' = [plan EXCEPT ![r] = Nothing]

Skip(r) ==
    /\ plan[r] # Nothing /\ ~plan[r].needed
    /\ Next4(r)
    /\ UNCHANGED <<object, qdiscs, result, nodes, mixed>>

\* A mistaken variant: nothing tells later that the qdisc exists.
ApplyUnflagged(r) ==
    /\ plan[r] # Nothing /\ plan[r].needed
    /\ LET c == Calls[step[r]]
       IN  /\ Accepted(r, c, plan[r])
           /\ IF c.kind = "netem"
              THEN netem' = [netem EXCEPT ![c.end] = plan[r].qdisc] /\ UNCHANGED tbf
              ELSE tbf' = [tbf EXCEPT ![c.end] = plan[r].qdisc] /\ UNCHANGED netem
    /\ Next4(r)
    /\ UNCHANGED <<object, veth, result, nodes, mixed>>

\* Netem, CreateTbf: the call succeeds and the flag is set ...
Apply(r) ==
    /\ plan[r] # Nothing /\ plan[r].needed
    /\ LET c == Calls[step[r]]
       IN  /\ Accepted(r, c, plan[r])
           /\ IF c.kind = "netem"
              THEN /\ netem' = [netem EXCEPT ![c.end] = plan[r].qdisc]
                   /\ hasNetem' = [hasNetem EXCEPT ![c.end] = TRUE]
                   /\ UNCHANGED <<tbf, hasTbf>>
              ELSE /\ tbf' = [tbf EXCEPT ![c.end] = plan[r].qdisc]
                   /\ hasTbf' = [hasTbf EXCEPT ![c.end] = TRUE]
                   /\ UNCHANGED <<netem, hasNetem>>
    /\ Next4(r)
    /\ UNCHANGED <<config, veth, result, nodes, mixed>>

\* ... or it fails, which ends the request: what it did so far stays.
Fail(r) ==
    /\ plan[r] # Nothing /\ plan[r].needed
    /\ CallsFail \/ ~Accepted(r, Calls[step[r]], plan[r])
    /\ result' = [result EXCEPT ![r] = "error"]
    /\ plan' = [plan EXCEPT ![r] = Nothing]
    /\ UNCHANGED <<object, qdiscs, step, nodes, mixed>>

\* After the four calls setupLink sets the interfaces up and attaches them to
\* their nodes, LinkUpdate may write the network file.
Done(r) ==
    /\ result[r] = "active" /\ step[r] = 5
    /\ \E x \in {"ok"} \cup (IF CallsFail THEN {"error"} ELSE {}) :
           result' = [result EXCEPT ![r] = x]
    /\ UNCHANGED <<object, qdiscs, step, plan, nodes, mixed>>

\* The docker node of end e, to which setupLink has attached its interface,
\* stops or starts: the interface goes to another namespace, and the kernel
\* takes the qdiscs of an interface that moves away.
Move(e) ==
    /\ step[SetUp] = 5 /\ moves < MaxMoves
    /\ moves' = moves + 1
    /\ netem' = [netem EXCEPT ![e] = Nothing]
    /\ tbf' = [tbf EXCEPT ![e] = Nothing]
    /\ stale' = stale \cup (Active \X {e})
    /\ moved' = moved \cup {e}
    /\ UNCHANGED <<object, veth, requests, mixed>>

Terminated ==
    /\ \A r \in Requests : result[r] \in {"ok", "error"}
    /\ UNCHANGED qosVars

QosNext ==
    \/ Setup
    \/ \E r \in Updates : Update(r)
    \/ \E r \in Requests : Read(r) \/ Skip(r) \/ Apply(r) \/ Fail(r) \/ Done(r)
    \/ \E e \in Ends : Move(e)
    \/ Terminated

QosSpec == QosInit /\ [][QosNext]_qosVars

-----------------------------------------------------------------------------
(* Properties.                                                              *)

TypeOK ==
    /\ config \in [all : QoS, end : [Ends -> QoS]]
    /\ hasNetem \in [Ends -> BOOLEAN] /\ hasTbf \in [Ends -> BOOLEAN]
    /\ veth \in BOOLEAN
    /\ netem \in [Ends -> NetemQdisc \cup {Nothing}]
    /\ tbf \in [Ends -> TbfQdisc \cup {Nothing}]
    /\ step \in [Requests -> 1 .. 5]
    /\ result \in [Requests -> {"none", "active", "ok", "error"}]
    /\ plan \in [Requests -> Plan \cup {Nothing}]
    /\ \A r \in Requests : plan[r] # Nothing =>
          /\ result[r] = "active" /\ step[r] <= 4
          /\ plan[r].qdisc \in IF Calls[step[r]].kind = "netem"
                               THEN NetemQdisc ELSE TbfQdisc
    /\ moves \in 0 .. MaxMoves /\ stale \subseteq Requests \X moved
    /\ moved \subseteq Ends /\ mixed \in BOOLEAN

\* The flags tell Netem and CreateTbf whether to add or to change a qdisc: they
\* agree with the kernel for an end that was not moved, even when requests
\* overlap or fail half way.
FlagsAgree ==
    \A e \in Ends \ moved : /\ hasNetem[e] <=> netem[e] # Nothing
                            /\ hasTbf[e] <=> tbf[e] # Nothing

\* When setting the link up has succeeded and the requests after it too, one by
\* one, each end that needs a netem or a tbf qdisc has that of the link's
\* configuration as it is now (SetPeerNNetem, SetPeerNTBF).
QdiscsFollowConfig ==
    (/\ result[SetUp] = "ok" /\ ~mixed
     /\ \A r \in Updates : result[r] \in {"none", "ok"}) =>
        \A e \in Ends \ moved :
            LET q == Effective(config, e)
            IN  /\ NetemRequired(q) => netem[e] = NetemOf(q)
                /\ q["rate"] > 0 => tbf[e] = TbfOf(q, config)

\* A link that CheckTopology accepts, without QoS of its own for an end, is set
\* up and updated without the kernel refusing a qdisc, unless requests overlap
\* or a node was stopped, and unless its rate leaves tbf an empty bucket, as that
\* of 1 kbit/s does: else a request fails only if a call fails by itself.
\* (check.go:189 asks for a delay with a rate: tbf needs the netem above it.)
CheckedLinksWork ==
    [][\A r \in Requests :
          (/\ Fail(r)
           /\ config.all["rate"] > 0 =>
                  config.all["delay"] > 0 /\ Burst(config.all["rate"]) > 0
           /\ \A e \in Ends : config.end[e]["rate"] = 0
           /\ ~mixed /\ moved = {} /\ veth)
          => Accepted(r, Calls[step[r]], plan[r])]_qosVars

=============================================================================
