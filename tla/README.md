# gonetem in TLA+

gonetem is a network emulator: a daemon (`gonetem-server`) builds, for every
open project, a network of docker containers and openvswitch bridges joined by
veth pairs; consoles drive it over gRPC. This directory holds a TLA+ model of
the daemon, the TLC runs that check it on small instances, and theorems about
it checked by TLAPS. File names below are relative to the repository root,
where the Go code is under `internal/` and `cmd/`.

| file | what it is |
|---|---|
| `Topology.tla` | one project: its nodes, links and ovs instance, and the requests that change them |
| `Topology_proofs.tla` | inductive invariants of `Topology`, six theorems |
| `ProjectRegistry.tla` | the daemon's table of projects, under concurrent requests, a crash and the end of the process |
| `ProjectRegistry_proofs.tla` | its inductive invariant, five theorems |
| `DockerNode.tla` | one docker node under requests that overlap: interfaces and configuration |
| `DockerNode_proofs.tla` | its inductive invariant, three theorems |
| `OvsNode.tla` | one switch under requests that overlap: ports, interface states and configuration |
| `OvsNode_proofs.tla` | its inductive invariant, three theorems |
| `LinkQoS.tla` | the QoS of one link: its configuration, flags and qdiscs under overlapping updates |
| `TopologyFile.tla` | the table of links and the network file: add, delete, update, edit, reload |
| `TopologyFile_proofs.tla` | its inductive invariant, four theorems; that of `NodeIds`, four |
| `HostNetwork.tla` | bridges and management network in the namespace of the host |
| `HostNetwork_proofs.tla` | its inductive invariants, two theorems; that of `LinkQoS`, four |
| `ConsoleRequests.tla` | run, reload, save and close of one project by several consoles, with their progress |
| `ConsoleRequests_proofs.tla` | its inductive invariant, three theorems |
| `Sessions.tla` | the streams of a daemon until its end; composes the three modules below |
| `NodeExec.tla`, `NodeCapture.tla`, `FileCopy.tla` | a command in a node, a capture, copies of files |
| `OrderedStream.tla` | what a stream of bytes promises; implemented by `NodeExec` and `NodeCapture` |
| `Sessions_proofs.tla` | the refinement of `OrderedStream` and the inductive invariants of the streams, seven theorems |
| `NodeIds.tla` | the short identifiers of nodes and bridges |
| `MC*.tla`, `*.cfg` | their instances for TLC: one `MC` module per module that is run |
| `PROJECT.json` | components, runs, mistaken variants, source map, findings, hazards, theorems |

## The system

| component | source | state | operations |
|---|---|---|---|
| project registry | `server/project.go`, `server/server.go` | `openProjects` (id → project), no lock | open, close, save, list; name and id checks |
| daemon life cycle | `cmd/gonetem-server/main.go`, `server.go` `Close` | – | serve, signal, close all, `GracefulStop` |
| clean | `server.go` `ServerCleanContainers` | – | list containers, remove those of no project |
| topology manager | `server/topology.go` | `nodes`, `links`, `bridges`, `ovsInstance`, `mgntNet`, `running` | Load, Run, Reload, Start, Stop, StartAll, StopAll, LinkAdd, LinkDel, LinkUpdate, Save, Close |
| docker node | `docker/node.go` | `ID`, `Running`, `ConfigLoaded`, `Interfaces`, local namespace | Start, Stop, AttachInterface, LoadConfig, Save, SetInterfaceState, Close |
| ovs instance | `ovs/instance.go` | `ovsInstances` (id → instance), `state`, `bridges` | Start, AddBr, DelBr, AddPort, DelPort, LoadConfig, SaveConfig, Close |
| ovs node | `ovs/node.go` | `Running`, `Interfaces` | Start, Stop, AttachInterface, Save, Close |
| links | `link/link.go` | the kernel's interfaces and namespaces | CreateVethLink, DeleteLink, MoveInterfacesNetns, bridges, VRF, macvlan |
| QoS | `link/tc.go`, `topology.go` 150–262 | qdiscs; `HasPeerNNetem`, `HasPeerNTbf` | netem and tbf add/change |
| management network | `server/mgnt.go` | bridge, list of attached interfaces | Create, AttachInterface, Close |
| topology file | `server/check.go`, `topology.go` | `network.yml` | CheckTopology, SynchroniseTopology, WriteNetworkFile |
| node identifiers | `server/node.go` | `usedIds` | GetId, Close |
| streams | `server.go` | goroutines, channels | NodeExec, NodeCapture, copies, progress |
| console, options, archives, stubs, images | `console/`, `options/`, `utils/`, `proto/`, `docker/` | – | user interface, files, what runs in containers |

How they interact: every gRPC request is a goroutine. A handler looks the
project up, calls its topology manager, which runs one goroutine per node in an
`errgroup`; a node calls the docker engine or `ovs-vsctl`, and netlink with the
thread switched to a network namespace. Long requests report their progress on
a channel that another goroutine forwards to the console; exec, capture and
copies are streams of messages. Nothing locks a project or the registry; only
`t.nodes` in Load, the identifier generator, `AddBr`/`DelBr` and `IsLinkExist`
have a mutex.

Hard behaviours, and what makes each part correct:

* **Topology.** Containers, bridges and veth pairs live outside the process and
  every call may fail half way. A docker node's interfaces must move from its
  local named namespace to that of its container at start and back at stop.
  Correct: the recorded links are wired in the namespaces their nodes use now;
  Run does everything or answers an error; Close removes everything.
* **Registry.** Check-then-act on two shared maps, with long operations between
  the check and the act. Correct: a container always has somebody who will
  remove it; an open project keeps its containers; the end of the daemon closes
  what was open; clean removes the rest and only the rest.
* **Docker node.** Overlapping Start, Stop, LoadConfig and Save on one node,
  commands that hang, a container that stops by itself. Correct: no interface
  is lost; a configuration is loaded once per start and never saved before it
  is loaded; every request is answered.
* **Switch.** The same requests, and one file of the container that load, save
  and read share. Correct: a running switch has its ports, the states it
  records are those of the kernel, a save stores the configuration.
* **QoS.** The qdiscs of both ends must be those of the recorded configuration
  after any sequence of updates, stops and starts.
* **Table of links and file.** Positions in `t.links` are used after other
  requests may have changed it; whole files are written over one another.
  Correct: only the request for it takes a link away; what the daemon writes
  back is accepted and means the same; an edit keeps what it did not change.
* **Host.** Goroutines leave threads in other namespaces and share maps and
  lists. Correct: a Run that answers success has connected every bridge and
  node, and Close leaves nothing.
* **Consoles.** Handler, forwarding goroutine and console share a channel and a
  stream that any of them may leave. Correct: each request ends and is
  answered; a save gives a whole archive; nobody panics.
* **Streams.** Six goroutines and two processes for one command. Correct: what
  arrives is in order and complete, every goroutine ends once either side is
  gone, and the daemon can stop.
* **Identifiers.** No two containers or host interfaces of one name.

`PROJECT.json` lists the hazards one by one with their lines, and which property
catches each.

## Topology

One request is served at a time (the console is the only client of most
projects); inside it the goroutines of an errgroup interleave node by node,
in any order, each succeeding, failing before it changed anything, or failing
half way. `Faults` says whether calls to docker, `ovs-vsctl` and netlink may
fail for reasons outside the model; what must fail (an interface that is
missing, a bridge that exists) fails also without it.

| variable | code |
|---|---|
| `running`, `nodes`, `links`, `ovs` | `t.running`, `t.nodes`, `t.links`, `t.ovsInstance` and its `state` |
| `up`, `ifs` | `Running` and `Interfaces` of each node object |
| `netns`, `undeleted`, `br`, `port` | names of local namespaces; those `DeleteNetns` could not remove; bridges and ports of the OVSDB |
| `cont`, `veths` | containers (docker engine) and veth pairs (kernel) |
| `pc`, `mode`, `todo`, `pending`, `failed` | where the request in progress stands |
| `torn`, `doubtful`, `abandoned` | history: nodes whose start or stop failed half way, the ends of links whose interface may be elsewhere because of it, containers whose removal failed |

A veth pair is a pair of sockets ⟨node, number, namespace⟩ where the namespace is
`"local"` (the node's named namespace, while it is stopped) or `"run"` (that of
its container). A pair dies with either end, an interface with its namespace. A
namespace should die with its container or its name, but not while the daemon
refers to it: `setupBridge` (617), `setupMgntLink` (660) and `LinkUpdate`
(859-867) never close their handles, and a thread stays in the last namespace
`netns.Set` took it to. Its sockets are then `"kept"`, until a `LetGo` if no
handle is left. Which nodes this may happen to is the constant `Lingering`: in
the code all of them, in the run one, a bound on the number of states; the proofs
hold for any set. Close does not look at the error of `DeleteNetns`
(`docker/node.go:720`): the name, or the namespace as well, may stay, and the
node of the next load is then refused its own (`netns.NewNamed` creates the name
exclusively).

Actions: `Load*` (Load in a fresh project and after a reload, one `CreateNode`
per goroutine), `Run*` (Run: ovs instance, nodes, links, end), `Start`, `Stop`,
`Restart`, `StartAll`, `StopAll` with `ServeStart`/`ServeStop` for the
goroutines, `LinkAdd`, `LinkDel`, `LinkUpdate`, `Close*` (Close and the closing half
of Reload; which of the two it was is chosen at the end, where it first makes a
difference), `Reply` (the request's return). An operation named `...Torn` is the
same code stopped by an error after some of its effects.

Abstracted: configurations, bridges to host interfaces and the management
network are one step of Run that may fail (`HostNetwork` has their detail,
`DockerNode` and `OvsNode` that of the nodes); the content of the network file is
one of `Files`; QoS, the sync flag and the files written are absent; a request
that names an unknown node or link answers an error and changes nothing, and is
left out; of LinkUpdate only GetNetns is kept, the qdiscs are `LinkQoS`'s; of
bridges in Load only that their identifier may be refused, after the links are
recorded; `ovs-vsctl add-port` succeeds whether the device exists or not, as the
real one records the port.

Properties:

* `LinksIntact` – every recorded link of a running topology is wired where its
  nodes look for it, whatever was started, stopped, added or deleted, unless one
  of its ends is `doubtful`. That are the ends at a node whose start or stop
  failed half way, those of the links of that node, and those of a link added
  at such an end: LinkDel removes by name whatever interface it finds
  (`topology.go:843`), which may then be that of another link. A reload that
  fails at a bridge makes the links it has recorded doubtful too, as `running`
  stays set and nothing was made. A Run that succeeds, or a Close, ends the doubt.
* `NoLeak`, `ClosedClean` – a container that exists is known to the topology or
  its removal failed; after Close nothing is left but such containers with their
  namespaces and interfaces, the namespaces whose name could not be deleted, and
  those the daemon still refers to. A veth pair is left only if each of its ends
  is in one of these.
* `ToggleKeepsLinks` – a start or stop that succeeds moves links and loses none.
* `RunIsComplete` – when Run answers success, all launched nodes run and all
  links are wired.

Runs (two docker nodes, a switch, two interface numbers, three links that share
endpoints, two files): `topology` with faults, 4.2 million states. Two docker nodes
and a switch give every kind of link; one node that waits for a start request
(`b`) gives links between a running and a stopped node; two links on one
endpoint give every collision CreateVethLink meets; two files make a reload
keep, drop and add nodes and links. More nodes add only independent copies: a
step touches one node or the two ends of a link.

`topology_stop`, without faults, shows something the documentation says and the
code does not do: a node can no longer be stopped after the removal of one of
its links. `PROJECT.json` quotes the lines.

## ProjectRegistry

Each ProjectOpen, ProjectClose and clean request is a task with its own program
counter, and so is the daemon's main goroutine after a signal. A step is what a
handler does between two points where another may run: the name check, the
choice of an identifier, unpacking, the ovs container, the node, the
registration; and for a close the nodes, the ovs container, and the two
deferred deletes, which remove whatever the entry holds by then. `Crash`
(enabled by `MayCrash`) loses the tables and the requests and keeps the
containers. A project has a single node here, because `Topology` covers what
happens inside; a second close of one topology may or may not still find its
nodes in the list, and both are allowed.

* `NoOrphans` – a container has a request or a registered project that will
  remove it.
* `OpenProjectsWhole` – nothing removes a container, the ovs instance or the
  directory of an open project but its close; the exception is a container a
  clean listed while its project was being opened.
* `CleanIsThorough` – a clean leaves no container that was nobody's when it
  made its list.
* `ExitIsClean` – at exit nothing is left of the projects open at the signal.
* `ShutdownEnds` – a daemon that got a signal exits. It assumes weak fairness of
  every request in progress, of clean and of the main goroutine: the Go
  scheduler runs each runnable goroutine, and the docker engine answers (the
  calls have no deadline, so a hung engine hangs the daemon). No fairness is
  given to the arrival of requests or of the signal.

Opens whose identifier two tasks use at the same time (history variable
`clashed`) are exempt: nothing in the code excludes the clash, and it destroys
the other project's ovs container. With 52³ identifiers it is rare; with the two
of the runs it happens constantly, which is why the exemption is exact
(an identifier used again later is not exempt).

Runs: `registry` (two opens and two closes beside the daemon's own, so that an
identifier is freed and drawn again and a project is closed three times at
once; faults; the properties of safety and `ShutdownEnds`), `registry_clean`
(two opens, a close, a clean, a crash). Requests, names and identifiers of a
kind are interchangeable (`Symmetry`, used by the run without liveness). `ASSUME` gives
enough identifiers, since RandString would otherwise be asked for ever.

## LinkQoS

One link between two docker nodes, from Load on. `SetUp` is the request that
runs the topology, `Updates` are LinkUpdate requests; they overlap in any way,
since nothing locks a link. A request makes four calls (`Calls`): netem of end 1
and of end 2, tbf of end 1 and of end 2. Each call is two steps: `Read` takes
the configuration and the flag as `SetPeerNNetem` and `SetPeerNTBF` do, then
`Skip`, `Apply` or `Fail` stands for `Netem` or `CreateTbf` and the flag set
after it. `Move` is a stop or a start of a node.

| variable | code |
|---|---|
| `config` | `l.Config`: the QoS of the link and of each end |
| `hasNetem`, `hasTbf` | `HasPeerNNetem`, `HasPeerNTbf` |
| `veth`, `netem`, `tbf` | the veth pair and its qdiscs, in the kernel |
| `step`, `plan`, `result` | where each request stands |
| `stale` | which requests hold a namespace that an end has left |
| `moved`, `mixed` | history: ends that moved, whether requests overlapped |

Assumed of the kernel (`Accepted`, `Move`): a qdisc can be added only where there
is none and changed only where there is one; tbf goes below the netem of its
end and is refused with a burst of 0; an interface that moves to another namespace loses its qdiscs.

* `FlagsAgree` – the flags tell whether a qdisc exists, for ends that did not
  move, however requests overlap or fail. It holds since a flag is set only
  after a call that succeeds and a qdisc is never removed.
* `QdiscsFollowConfig` – after requests that succeed one by one, an end that
  needs a qdisc has that of the configuration. It says nothing of a qdisc that
  is no longer needed: the code leaves it.
* `CheckedLinksWork` – the kernel never refuses a qdisc of a link that
  CheckTopology accepts, unless requests overlap or a node moved, or the rate is
  one whose burst is 0: CreateTbf gives `rate * 4 / 8` (`tc.go:122`), which is 0
  for 1 kbit/s, a rate `check.go:186-191` accepts. The ends must have no rate of
  their own: check.go looks only at that of the link.

Runs: `qos` with two updates, one move, faults, five configurations (none, of
the link, of each end, and two that tbf refuses: no netem above it, and a rate of
1 kbit/s), updates that change one end or clear both; 106,000 states. With the request that runs the topology these are
three requests: every overlap of two, and a third that finds the flags and
qdiscs that two may leave.

Left out: a link that is deleted and added again (a new object with its flags
down), the file that an update may write, the 32-bit units of netem (a delay
above 274 s does not fit), percentages of loss.

## NodeIds

Load gives every node, in the order its goroutines take the generator's lock,
and then every bridge an identifier; Reload closes and loads again, maybe
another file. Names are sequences of letters, since the properties are about
how GetId cuts them: `Stem` and `Attempt` are the cut and the generated
identifier, `Gets`, `Fails` and `Panics` the three ways a call ends.

| variable | code |
|---|---|
| `used` | `usedIds` |
| `ids` | `ShortName` of each node, the end of `Name` of each bridge |
| `netFile`, `failed`, `stage`, `loads` | where Load stands |

* `IdsDiffer` – two entries never share an identifier.
* `IdsFit` – an identifier has one to five letters.
* `FewNamesLoad` – GetId fails only for a file with more names than there are
  characters.

Runs: `ids` takes six files whose names collide in each way (all three cuts
equal, one cut equal, a name that looks like a generated identifier, a bridge
named like a node, a name too short to be cut), with three characters instead of
33, so that attempts do run out, and three loads.
One of the files has a node and a bridge with one name of one letter, for which
GetId panics.

## DockerNode

One docker node and up to three requests on it, each in its own goroutine: start,
stop, restart, save, read of the configuration, the state of an interface, a new
link, close. A step is one call to docker or netlink with the assignments that go
with it; between two steps another request may run, since no lock covers a node.
Beside the requests, the user changes the configuration of the running node
(`Edit`) and the container may stop by itself (`ContainerDies`).

| variable | code |
|---|---|
| `running`, `loaded`, `recorded`, `localNs` | `Running`, `ConfigLoaded`, `Interfaces`, `LocalNetnsName` |
| `container`, `boot`, `vrfs` | the container, how many times it was started, its VRFs |
| `place`, `up` | the namespace each interface is in (`Local`, a boot, `Nowhere`), and whether it is up |
| `live`, `file`, `archive` | the configuration: running, in the container, in the project |
| `at`, `ns`, `todo`, `answer` | where a request is, its handle of a namespace, the interfaces its loop has left |
| `met`, `deaths` | history: requests that overlapped; stops of the container by itself |

Actions: `BeginStart` … `MoveUp` (Start with the move of its interfaces),
`BeginLoad` … `SetLoaded` (LoadConfig, with `CreateVrf` and the timeout that
answers while the command goes on: `HungTimeout`, `LateLoad`), `BeginStop` …
`SetStopped`, `BeginSave`/`BeginRead` … `WriteArchive`, `BeginState` …
`RecordState`, `BeginAttach` … `AttachInterface` (setupLink's half of one node),
`BeginClose`, `Remove`.

Assumed of the kernel: a namespace lives as long as it has a name, a process or
a handle, an interface dies with it; an interface comes down when it moves.

* `InterfacesSurvive` – two requests never lose an interface of the node, except a
  new link that is made during a start or a stop. Two starts and a stop do.
* `ConfigIsReal` – a node that says its configuration is loaded has it, and the
  archive gets neither a blank configuration nor a cut one: with the overlaps
  that break it, each of which TLC needs.
* `RequestsEnd` – every request is answered, even if a command hangs. Assumes
  weak fairness of the steps of each request: its goroutine is scheduled, and
  the docker engine answers other calls than the commands with a timeout.

Run `node`: two interfaces (one may be attached by a request), ten plans of
three requests: the pairs that share interfaces or a configuration, with a third
request that finds what the two left; one death of the container. An attach
beside a close and two saves are not among the plans; the theorems are about all
plans.

## OvsNode

One switch and three requests on it, as in `DockerNode`; a switch has no
container of its own, so that what is shared differs: the bridge and its ports
in the ovs container of the project, and the file `/tmp/<name>.conf` of that
container through which load, save and read go. There is no flag for a loaded
configuration: every start loads the archive. `Edit` is the user who changes
the configuration, maybe to one with a bond. The command that saves is the one
of `docker/ovs/ovs-config.py`: it reads the switch, then writes the file.

| variable | code |
|---|---|
| `running`, `recorded`, `listed` | `Running`, `Interfaces`, membership in `bridges` of the instance |
| `bridge`, `ports`, `bond`, `up` | the OVSDB and the kernel |
| `live`, `file`, `archive` | the configuration: of the bridge, in the container, in the project |
| `at`, `todo`, `seen`, `text`, `answer` | where a request is and what it has read |
| `faults`, `met` | calls that failed; history: requests that overlapped |

Assumed of `ovs-vsctl`: it refuses a port that exists and the deletion of one
that does not; a member of a bond is not a port. Assumed of a plan
(`SwitchAssumption`): an interface is attached once, since `setupLink` makes it
first and the kernel refuses a name that exists; the deletion of a link is
`Topology`'s and not followed here.

* `RecordsAreTrue` – when no request is under way, a running switch has the ports
  of the interfaces it records, unless a start or stop answered an error or an
  attach overlapped a start; and the recorded states are those of the kernel,
  unless three requests fought over them.
* `SaveIsTrue` – a save answered without error archives a configuration that a
  command read meanwhile, and a whole one, unless a start or stop overlapped or
  failed.

Run `switch`: two interfaces, twelve plans, one failing call, whose
half-done start, stop, load or save the other two requests then meet. Safety only, hence no fairness.

## TopologyFile

The links of a topology that runs, `t.links`, and the file it comes from.
Requests overlap: LinkAdd, LinkDel and LinkUpdate with synchronisation, a reload,
and the console's edit, which reads the file, waits for its user, and writes it.
Only what CheckTopology relates is kept of a file: nodes, ends, whether a link
has a rate, a buffer and QoS, bridges. The code reads an end in two ways: by
`peerRE` (`Matched` are the ends it matches) and by cutting at the dot
(`PeerNode`, `PeerIdx`); an end without a dot (`NoIdx`) may match. `Odd` nodes have
a type such as `fooovs`, which the pattern of the check lets pass (`check.go:17`)
and CreateNode does not know.

| variable | code |
|---|---|
| `file`, `temp` | `network.yml`; the file the editors share |
| `nodes`, `table`, `bridges`, `objects` | `t.nodes`, `t.links` (a sequence of pointers to `objects`), `t.bridges` |
| `veths` | the links in the kernel |
| `at`, `found`, `index`, `seen`, `data` | where a request is; the link and position it computed; what it will write |
| `broken` | the links, and 0 for a bridge, that are nil or have a nil node |
| `under`, `before`, `last`, `met`, `epoch` | history |

A reload has the steps of Load: the nodes are created and `t.links` is made of
nil pointers (`Load`), the links are filled in and `t.bridges` is made the same
way (`FillLinks`), the bridges are filled in or one gets no identifier
(`FillBridges`). `Nil` are the links still to be filled in. Every request that
goes through a nil pointer panics (`MustPanic`, `SynchronisePanics`, `ClosePanics`,
`RunPanics`). Requests carry anything: no handler looks at it, so `Malformed` ones,
without the messages of the link and the QoS, or with an end that has no dot, reach
GetLink.

`Accepted` is CheckTopology, `Topology` what SynchroniseTopology writes;
`EmptyFile` and `WriteFile` are the two halves of `os.WriteFile`, which truncates
first. Two appends to a slice at once may lose one (`StoreBoth`). `IsAt` is the
place GetLink finds, `Passed` the links it looks at before, `Known` that LinkAdd finds the nodes of both ends, `Loop` a link of an
interface with itself, which CreateVethLink cannot make.

A scenario begins with a topology that was loaded and is running, which
`LoadedAssumption` says of its file: CheckTopology accepted it, and Run, which
stops at the first link it cannot set up, made all its links, so that no two of
them need the same interface. Load would have panicked at a node of an odd type or
an end without a dot; an edit may write either.

* `LinksGoWhenAsked` – a link leaves the table only by its own delete or a reload,
  but for the overlaps it names: two deletes, a delete and a reload, a reload and an
  add or another reload. The daemon panics only at a malformed request; at an add
  that names a node the topology does not have (it never had it, or a reload read a
  file without it); at a delete that overlaps another or a reload, a reload that
  overlaps a delete or a reload; at an odd type or an end without a dot in the file;
  and at a nil pointer, while a reload fills in the lists, after one could not fill
  in the bridges, or after two overlapped. Without any one of these causes TLC finds
  the panic. Of the overlaps that take links away one is not in the scenarios: a
  delete between the two halves of a reload, which takes an add as well.
* `ReloadKeepsLinks` – a reload after a synchronised change gives the same nodes,
  links and QoS, or is refused for exactly the stated reasons, as long as no two
  requests overlapped and no reload failed before.
* `EditKeepsTheRest` – an edit writes over what its user saw.

Run `file`: thirteen scenarios of three requests over two routers and two links,
each built around one way for two requests to meet on `t.links` or the file,
with a third that reads the result; two reloads, with and without a bridge, an add
of a link to the interface itself, malformed requests and files that Load cannot
take are among them; 1,067,000 states. No liveness.

## HostNetwork

What a topology puts into the namespace of the host, one request at a time; the
goroutines of Run interleave at every netlink call. Namespaces are places:
`Root`, that of a node of one load, and `Other`, of another project. Every call
leaves its thread where it worked; `Drift` is the choice of whether it ran on
the main thread, whose namespace GetRootNetns takes for the root (`mainNs`).

| variable | code |
|---|---|
| `running`, `layout`, `holes` | `t.running`, the bridges and management network of the file, nil entries of `t.bridges` |
| `made`, `mgntNs`, `listed` | `mgntNet`: `Instance`, `NetNs`, `Interfaces` |
| `nodeAt`, `seen`, `bridgeAt`, `holds`, `todo`, `writing`, `known` | the goroutines of Run, and what they record |
| `devs`, `hostMaster` | bridges and host ends of veth pairs; the master of each host interface |
| `half`, `lost`, `left`, `raced` | history |

`ReadList` and `AppendToList` are the two halves of the append in
`AttachInterface`; `RecordPeer` writes a map of the node that another bridge's
goroutine may be writing. `WaitBridges` and `WaitNodes` are the errgroups.

* `RunConnects` – after a Run that succeeds, bridges and nodes are connected
  wherever the main thread went, with the four exceptions stated.
* `HostIsLeftClean` – nothing of a closed topology stays on the host, but what
  Close looked for and did not delete, a half-made link and one whose entry in
  the list was lost.

Run `host`: two loads and two runs (a leftover is met by the next load, a failed
run is tried again), two nodes, two bridges; 3.1 million states. Safety only.

## ConsoleRequests

Run, reload, save and close of one project by two consoles. Each request has a
handler with one goroutine per node, a goroutine that forwards the progress
(`Take`, `Forward`), and a console that counts bars. Only a run has a buffered
channel. The handlers share `t.nodes`, `t.links`, `t.bridges`, `t.mgntNet`, `t.running`,
`t.ovsInstance` and the directory of the project, without a lock. Load makes these
one after the other (`ReadFile`, `CreateNodes`, `FillLinks`, `FillBridges`): the lists
of links and of bridges are published with nil pointers and then filled, so that a
run, a close or another reload beside it may find them so.

| variable | code |
|---|---|
| `open`, `dir`, `nodes`, `ovs`, `running`, `loaded`, `conf` | the project, its topology and its files |
| `links`, `bridges` | `t.links`, `t.bridges` (with `t.mgntNet`): empty, nil pointers, whole, or with ends that are nil |
| `phase`, `pending`, `task`, `failed`, `archive` | the handler of each console |
| `chan`, `hold`, `end` | the channel, the forwarding goroutine, the end of the stream |
| `con`, `bars`, `shut`, `result`, `disk` | the console, its bars, the file it writes |

* `ArchiveIsWhole` – a save without overlap gives a whole archive; which overlaps
  give one that is cut, lacks files, or is old, although answered OK.
* `PanicsExplained` – the daemon panics only when a project is closed during a save,
  when a topology that was closed is run, when a run overlaps a close or a reload
  (it meets links, bridges or a management network that are nil: `topology.go:385`,
  `417`, `446`), when a reload overlaps a close or another reload, or when a reload
  failed for want of an identifier for a bridge and left nil pointers
  (`topology.go:419-421`), which the next close or run meets; the consoles panic only
  in the named cases too.
* `RequestsEnd` – every request ends and every console is answered, also when
  another console, or its own, is gone. Assumes weak fairness of the system as a
  whole (`Progress`), the least that a scheduler gives.

Run `console`: nine scenarios of two requests, one node with a link and a bridge (two
nodes for two saves), a channel of two messages in place of 100; 278 thousand states; the terminal of the second console may
be closed at any time.

## Sessions, NodeExec, NodeCapture, FileCopy, OrderedStream

`NodeExec` is one command with its terminal: four goroutines of the console, three
of the handler, three of the docker client, the grpc stream and the connection to
the command. `NodeCapture` is one tcpdump with its wireshark. `FileCopy` is any
number of copies from and to a node that share the name of their temporary file;
a file is a list of blocks of an inode, and an inode has the name of the copy that
created it. Nobody looks at the error of a write of a block that was received, nor
at that of the console's os.Create: such blocks are `skipped`. A pipe without buffer is a pair of
actions (peek, then release the writer), a channel without buffer a joint one;
a goroutine that waits to send is in state `"offer"`.

`Sessions` composes them with a node that is stopped and a daemon that gets a
signal, closes its projects and waits in `GracefulStop` for every handler.

| variable | code |
|---|---|
| `conMain`, `conIn`, `verdict`, `shown`, `typed`, `resizes` | console: `exec.go` |
| `srvMain`, `srvRecv`, `srvOut`, `inData`, `piece` | handler of NodeExec |
| `outCopy`, `inCopy`, `outBuf`, `conn`, `connOut` | `ExecTty` |
| `toSrv`, `toCon`, `link` | the grpc stream |
| `capMain`, `capOut`, `capCopy`, `capRecv`, `sharkCopy`, … | handler, `ExecOutStream` and console of a capture |
| `copy`, `temp`, `inode`, `open`, `offset`, `size`, `skipped`, … | copies and their files |

* `StreamsInOrder` – the refinement: output and input of a command, and the packets
  of a capture, implement `OrderedStream` (each piece once and in order, until the
  reader stops), by the refinement mappings `Output`, `Input` and `Packets`.
* `LittleIsLost` – at a normal end at most the last piece, or packet, is missing:
  the final message is sent by another goroutine than the output.
* `HangsExplained` – a handler hangs only if two pieces of input came too late,
  or its console left; a capture only if the prompt or wireshark was closed.
* `CopyIsExact` – a copy answered without error gave its source, in order and whole
  but for the blocks whose write failed; `NoTempLeft`, `CrashExplained` – copies
  clean up, and the daemon dies of one only when a console is lost while it sends.
* `DaemonStops` – an interrupted daemon stops unless a handler is stuck for these
  reasons. Assumes weak fairness of the goroutines of each stream, and that the
  processes of a stopped container end. Users need not type, quit or resize.

Run `sessions`: one kind of stream at a time, as they share no state but node and
daemon (`Mixes`); up to three pieces of output, two typed, one resize: enough for
one piece in each pipe and one behind it; three packets over a stream that holds
one; two copies, of two blocks, in the three combinations of directions; writes fail
in one of the two copies only (`Fragile`).


## Divergences

The `findings` of `PROJECT.json` have a run each. Reading the code against its
documentation and tests showed more, which the models contain and no run states
as a property:

* `commands.rst:91-96` – reload starts all the nodes. Reload of a topology that is
  not running, after `open --no-start` or a Run that failed, starts none.
* `commands.rst:104-105` – run starts the nodes. After a reload whose file was
  rejected the running flag stays set (Close does not reset it), so Run calls
  Start on a nil ovs instance (`topology.go:499`); after a LinkAdd before Run,
  Run fails on the veth pair that exists already.
* `usage.rst:39`, `server.go:74` – clean removes containers of no project. It also
  removes those of a project that is being opened.
* `server.go:167` – "A project with this name is already open". Two opens of one
  name at the same time both pass the check at `server.go:163`.
* `topology.rst:165` – the QoS of an end. LinkUpdate with the ends in the other
  order than the file gives each end the QoS of the other (`topology.go:870`).
* `topology.rst:164-165` – the default buffer. It is not given to the QoS of an
  end (`topology.go:393`), whose tbf then has a limit of 0 (`tc.go:124`).
* `topology_test.go:189` – after an update `Config.Delay` is the delay asked for.
  LinkUpdate sets only `Config.Peer1QoS` and `Config.Peer2QoS`.
* `topology.rst:163`, `188` – a rate of 1024 kbit/s. Its tbf gets a burst of 512
  bytes (`tc.go:122`), and frames longer than the burst do not pass. One of 1
  kbit/s gets a burst of 0, which the kernel refuses: the link is never set up.
* `topology.rst:160` – the delay of a link. A node that stops and starts moves its
  interface to another namespace, where it has no qdiscs (`Move`); nothing sets
  them again, and the flags stay set, so that the next update fails.
* `topology.rst:65` – `ipv6` is "no by default". The code's default is true, and
  since false is not written (`topology.go:111`), synchronising switches it on.
* `node.go:61`, `:71` – GetId panics on a used name of one letter; a node and a
  bridge may share a name (`check.go:23`, `78`).

What the properties except, and a reader of the code would want to know:

* *Overlapping requests on a node.* Two starts and a stop can lose an interface; a
  save beside a restart can archive a blank configuration; a start that ends
  after a stop sets `ConfigLoaded`, so that the next one loads nothing and
  answers OK. Close keeps `ConfigLoaded` when docker fails. After a timeout, the
  VRFs that exist make the retry fail. An interface that moved is down and
  recorded `UP`, so that `ifState up` does nothing. A container that stops by itself leaves
  `Running` set, and Stop then fails for ever.
* *A switch.* A start loads the archive over changes nobody saved, also when the
  switch runs. `Running` is set before the ports are added: after a start or stop that fails in
  the middle the switch can be neither stopped (DelPort fails on a port that is
  gone) nor repaired (Start does nothing); one with a bond cannot be stopped.
  An attach during a start loses its port without an error.
* *Nodes.* The handles of namespaces that `setupBridge`, `setupMgntLink` and
  LinkUpdate open are never closed, so that a closed topology may leave its
  interfaces behind, and with them the host's side of a bridge or of the
  management network. A local namespace that could not be deleted keeps the node
  of that name from working after a reload.
* *Links.* The second of two overlapping deletes removes another link or panics
  (`topology.go:847`). Links added by a request have no rate (`server.go:22-38`),
  so that the file the daemon writes is refused (`check.go:195`) and a reload
  destroys the topology; so does a bridge, written under a name with a dot
  (`topology.go:302`). An end without a dot passes `peerRE` and panics Load, and so
  does a type such as `fooovs`, which passes `check.go:17` (`topology.go:361` calls
  IsNil on a nil interface); `a.0` and `a.00` pass as different ends. The handlers
  of links look at nothing in a request: without its messages (`server.go:24-36`)
  or with an end without a dot (`topology.go:758`) it panics the daemon. So does any
  that meets the nil links of a reload under way.
* *The host.* A management link whose entry was lost, or half made, survives Close
  and may be taken for that of a later load. A Run that failed after its first
  bridge can never succeed without a reload. A Load that fails at a bridge leaves
  nil entries, on which Close panics (`topology.go:1075`).
* *Consoles.* A save beside a close panics the daemon (`archive.go`'s walk
  dereferences a nil `info`) or gives an archive without the configurations,
  answered OK; two saves may archive cut files. A run beside a reload, or a close
  beside one, may meet links, bridges or a management network that are nil and
  panics the daemon. A second run panics the console
  (bars added after `Wait`). `os.WriteFile` empties the user's project file before
  it is written.
* *Streams.* Input typed after the end of the command blocks a handler, which then
  holds up `GracefulStop`; a capture whose console left blocks in the same way.
  An error of Recv other than EOF panics the daemon in NodeCopyTo. A copy whose
  file the console cannot read to its end is cut and answered OK; two copies of
  files of one name mix. A write of a block that fails is dropped without a word
  (`server.go:1028`, `prompt.go:422`, and `prompt.go:386-389`, which goes on
  without a file), so a cut or empty file may be answered OK.

## Mistaken variants

An operator whose comment begins "A mistaken variant" is not part of the model.
It states the operation after it with a plausible bug, and `PROJECT.json` names
the property TLC then finds violated: it shows that the property depends on the
code it is about.

## Proofs

Each proof module is about every choice of the constants that satisfies the
assumptions of its component: any number of nodes, links, requests, copies,
loads, and any faults. None of the properties is inductive as it stands; each
module begins with the invariant that is. Every theorem that names a property
of a run states it for all instances; the run, and runs of the inductive
invariants on the same instances, showed beforehand that it holds of small ones.

`Topology_proofs.tla`:

* `TypeCorrect` – `Spec => []TypeOK`;
* `NothingLeaks` – `Spec => []NoLeak`;
* `CloseIsClean` – `Spec => []ClosedClean`, for any set `Lingering`;
* `LinksStayIntact` – `Spec => []LinksIntact`;
* `TogglesKeepLinks` – `Spec => ToggleKeepsLinks`;
* `RunsAreComplete` – `Spec => RunIsComplete`.

A container may exist only while its node is in `t.nodes`, or its creation is
under way, or its removal failed; an interface or a namespace only together with
a container or a node that is not yet closed; and what a request still has `todo`
must be part of what the topology knows. The first inductive invariant,
`CleanInv`, is the conjunction `TypeOK`, `TodoKnown`, `LinksKnown`,
`DockerAccounted`, `OvsAccounted`, `LocalNamed` (an interface in a local namespace
has its name, or one left behind). What the end of a namespace leaves of the veth
pairs, whether it dies or is kept, is `OutcomesPairs`. The argument: `Start`, `Stop` and link set-up
confine what they create to known nodes (`StartConfined`, `StopConfined`,
`SetupLinkConfined`), steps that only remove things keep the invariant
(`HostShrinks`), and each action is one of the two (`AccountedStep`, `KnownStep`,
`TypeStep`), which gives `CleanStep`.

The second, `LinksInv`, says of a running topology that each recorded link is
wired and shares no end with another one, or is doubtful at both ends
(`LinksSettled`), and of a Run how far it is. That a link is alone at its ends is
what keeps the removal of another one, which goes by name, from taking it. A
start or stop that succeeds moves all interfaces of its node together, so that a
link that is wired before is wired after; one that breaks makes the links of its
node doubtful at both ends.

`ProjectRegistry_proofs.tla`:

* `TypeCorrect` – `Spec => []TypeOK`;
* `NothingIsOrphaned` – `Spec => []NoOrphans`;
* `RegisteredProjectsAreWhole` – `Spec => []OpenProjectsWhole`;
* `CleansAreThorough` – `Spec => []CleanIsThorough`;
* `ExitLeavesNothing` – `Spec => []ExitIsClean`.

Everything rests on who holds an identifier (`Holds`): an open does while its
project is registered or a task works on it, and two that hold the same one are
recorded in `clashed` (`HoldersApart`). From it follows where the ovs container of
a project is found (`OvsFound`, `OvsHeld`), what a task that closes a project has
behind it (`Removed`), and that the containers of an open that ended are those of a
registered project (`Owned`). `MadeStays`, `CleanKnown`, `NamesTaken`,
`StraysHandled` and `ShutdownKnown` add what the cleans and the end of the daemon
may take away, and when.

`HostNetwork_proofs.tla`:

* `RunsConnect` – `Spec => []RunConnects`;
* `HostStaysClean` – `Spec => []HostIsLeftClean`.

`HostInv` says that every device is one that Close will still look for, or is in
one of the histories (`Accounted`); and that goroutines are only under way in the
stage of Run that waits for them. `RunInv` says what a Run has made so far: each
node that got that far is on the management network and in its list, a bridge
whose goroutine found its interface works in the namespace of the host
(`BridgeGoes`), and all that it no longer has to do is done. The steps of one
goroutine leave those of the others as they are (`NodesStep`, `BridgesStep`),
except for an interface of the host that the file gives to two bridges.

The last part of the same module is about `LinkQoS`, which it extends beside
`HostNetwork` (hence the names `QosInit`, `QosNext`, `QosSpec` there):

* `QosTypeCorrect` – `QosSpec => []TypeOK`;
* `FlagsAreTrue` – `QosSpec => []FlagsAgree`;
* `LastUpdateHolds` – `QosSpec => []QdiscsFollowConfig`;
* `CheckedLinksAreAccepted` – `QosSpec => CheckedLinksWork`.

`FlagsAgree` is inductive with the types. The other two need `SoloInv`: while no
two requests overlapped, what a request has read is still so when it calls the
kernel, and each call it has done has the effect the configuration asks for now.

`Sessions_proofs.tla`:

* `TypeCorrect` – `Spec => []TypeOK`;
* `StreamsAreOrdered` – `Spec => StreamsInOrder`, the refinement of
  `OrderedStream` by the output and input of a command and the packets of a
  capture;
* `LittleLost`, `HangsHaveReasons` – `Spec => []LittleIsLost`,
  `Spec => []HangsExplained`;
* `CopiesAreExact`, `NoTempStays`, `CrashesHaveReasons` – `Spec => []CopyIsExact`,
  `Spec => []NoTempLeft`, `Spec => []CrashExplained`.

Initial states map to initial states, and every step maps to a step of
`OrderedStream` or to a stutter (`OutputRefines`, `InputRefines` and their like for
the capture), from an invariant that says where in the chain of pipes each piece is:
those on their way are the last ones, in order (`ExecOutput`, `ExecInput`, `CapPipe`,
`CapFlow`). `ExecStages` and `CapStages` say what the goroutines know of each other,
which leaves the listed reasons for one that hangs. A copy that shared its
temporary file with nobody is alone with what it wrote there (`CopyAlone`).

`DockerNode_proofs.tla`, for any number of requests and interfaces, any plans and
any number of times the container stops by itself:

* `TypeCorrect` – `Spec => []TypeOK`;
* `InterfacesStay` – `Spec => []InterfacesSurvive`;
* `ConfigStaysReal` – `Spec => []ConfigIsReal`.

An interface is alive when its namespace is, and a handle of a request keeps a
namespace alive for a while only. So `InterfacesFollow` asks for more: the interface
is in a namespace that lives without handles (`Steady`). `SunkStay` is why a container may
then be stopped: what a stop has moved out of it stays out, since no start has still
to move it (`Rising`) and no other stop has moved it (`Sunk`). For a stop that
moves an interface beside a start that has yet to do so, `PlacesLive` finds a second
start that has brought the interface in meanwhile: that is the `Crowd` which the
property excepts. `HandlesLive` says that the namespaces requests move interfaces to
are those of this boot. `TornFollows` and `BlankFollows` say of a cut and of a blank
configuration which places it can be in, and that a node which stays loaded without
its container has a stop that is about to say so. What the properties except, once
so, stays so (`ExcusesStay`).

`OvsNode_proofs.tla`, for any number of requests, interfaces and failing calls:

* `TypeCorrect` – `Spec => []TypeOK`;
* `RecordsStayTrue` – `Spec => []RecordsAreTrue`;
* `SavesAreTrue` – `Spec => SaveIsTrue`.

The properties speak of a switch at rest, so `IInv` says what a request between
two of its steps may owe. `PortsFollow`: a port that a running switch lacks is
one that a stop under way is removing, or that a start has still to add.
`StatesFollow`: two requests that change an interface at once want the same, for
one that wanted the other found what a third one recorded. `FileFollows`: the
file a save looks at was read by a request that overlapped it. `ConfigFollows`:
while nothing is spoilt, no configuration in a file is blank or partial, and that
of a running switch is whole or in the hands of a request (`Cared`). All rest on
`Together`: two requests that are between two steps have met (`Overlap`), so that
a start or a stop beside an attach or a save is one of the excuses, and excuses
stay (`ExcusesStay`).

`TopologyFile_proofs.tla`, for any nodes, files and links, and any number of
requests; assumed of the constants are their types (`TopologyFileAssumption`) and
`LoadedAssumption` above:

* `TypeCorrect` – `Spec => []TypeOK`;
* `LinksGo` – `Spec => LinksGoWhenAsked`;
* `ReloadsKeep` – `Spec => ReloadKeepsLinks`;
* `EditsKeep` – `Spec => EditKeepsTheRest`.

(`TypeOK` is no property of the run, whose properties fail sooner.) Two requests
meet on the table, on the file, or on neither, and `IInv` follows each. `Stages`
says which kinds of request are at which step. `Together`: requests that are both
under way have met, so that what one computed before a step of another is stale
only with one of the excuses. `PlacesKnown`: a delete that no delete and no reload
overlaps has the place of its link, hence takes its own link and slices within
bounds; a reload finds a link in the table it emptied only after an overlap.
`Filling`: what a reload fills in is the accepted file it read, between nodes that
are those of the file unless another reload overlapped it, at places that are
there unless a delete or a reload did. `BrokenKnown`: a nil pointer that stays is
that of a bridge a reload has not filled in, or could not, or comes of two reloads.
`FirstFile`: before the first reload the nodes are those of the file loaded first
(so an add without its nodes is `Stray`). `EditFollows`: an edit that nothing
overlaps holds the change of the file as it is.

The theorem on reloads needs more: that the file holds the topology, and that
CheckTopology accepts it when it should. While no two requests overlapped and no
reload failed (`Calm`), `FileFollows` says that after a synchronised change the
file is what was written of the topology, and `BeforeKnown` carries this, and what
the topology was, to the load, and `BeforeKept` past it, while the links are filled
in. `Accepting`: the nodes were accepted once, every
link has a buffer. `LinksSound`: every link has its nodes (`Fit`), no two links of
the table share an interface and each has its veth. GetLink compares two ends with
two ends, so it is only the kernel, which refuses a veth whose name is taken, that
keeps an add from sharing one end with another link (`SetupLink`); CheckTopology
asks just this of a file (`UsedAfter`, `LinkAccepted`).

In the same module (the identifiers are those of the nodes of such a file), for any
letters, finite files, characters without repetition and number of loads:

* `IdsTypeCorrect` – `IdsSpec => []IdsTypeOK`;
* `UniqueIds` – `IdsSpec => []IdsDiffer`;
* `ShortIds` – `IdsSpec => []IdsFit`;
* `EnoughIds` – `IdsSpec => []FewNamesLoad`.

`IdsIInv` adds that `used` is exactly the set of the identifiers given. What GetId
returns is unused (`GetsUnused`) and short (`GetsShort`, by the lengths of the
slices). If it fails for a name, then each character before the first cut is
the identifier of another entry, so an injection from the characters to the
entries without this one bounds their number (`FailsLate`).

`ConsoleRequests_proofs.tla`, for any number of consoles and nodes, any scenarios:

* `TypeCorrect` – `Spec => []TypeOK`;
* `PanicsHaveReasons` – `Spec => []PanicsExplained`;
* `ArchivesAreWhole` – `Spec => ArchiveIsWhole`.

Each request is a handler, its goroutines, the goroutine that forwards its
progress and a console; `IInv` ties these four together. `Stages` says in which
phases there are goroutines and counts to send. `Together`: requests under way at
one time have met, so that what only a close or a reload takes away tells of an
overlap: the directory, and what a request has made or looked for (`Robbed`: the ovs
instance, nodes, places for links and bridges, the management network; no request
robs itself, `RobbedByOthers`). `NilsKnown` says whose the nil pointers are, and that
ends are nil only after such an overlap. `BarsCome` follows the count of the
nodes from the handler to the bar of the console: it is sent before the first
node is told of, which is why a console without such an overlap does not
increment a bar it does not have. `CutsKnown` says that a file which is cut is
being written or was left by a save that failed, `ArchiveFollows` what a save
has seen of the nodes and read so far, `AnswersFollow` that an answer without
error comes after the file of the archive. Every step is of one console
(`StepOfOne`); what it may change and which phase it enters (`Changes`,
`Enters`) is proved once for all the parts.

Only model-checked: liveness (`ShutdownEnds`, `DaemonStops`, `RequestsEnd`), for
the prover has no rule for fairness. Every safety property of a passing run is
proved.

## Not modelled

* Options and TLS, generated stubs: input and default values, generated code.
* The rest of the console: completion, parsing of command lines, lists.
* The docker engine, the kernel and openvswitch: the models assume of them what
  the sections above say, and that a call succeeds or fails as a whole unless
  the module says otherwise.
* What runs in the containers, except the commands of `ovs-config.py`.
* A docker connection that breaks in the middle of an output, the flow control of
  the stream of NodeExec, volumes, VRRP and macvlan interfaces, addresses, the
  32-bit units of netem.
* A crash of the daemon is followed in `ProjectRegistry` only: nothing else is
  kept by the daemon, and the containers it leaves are all that a restart meets.

## Plan

Done: the modules of the table, and a proof of each safety property they are run
for.
