----------------------------- MODULE DockerNode -----------------------------
(***************************************************************************)
(* One docker node under requests that overlap (docker/node.go, and        *)
(* startNode, stopNode, setupLink and Save of server/topology.go that call *)
(* it).  Nothing in the daemon orders the requests of two consoles on one  *)
(* node, nor those of one console that gave up waiting: each runs in its   *)
(* own goroutine and reads and writes the fields of the node as it goes.   *)
(*                                                                         *)
(* A request is a sequence of steps; a step is a call to docker or to the  *)
(* kernel, with the assignments that go with it.                           *)
(*                                                                         *)
(* The configuration of the node is followed through four places: the      *)
(* archive (the files of the project on the host), the files in the        *)
(* container, the running configuration, and the flag ConfigLoaded.  An    *)
(* interface is followed through the network namespaces; the kernel        *)
(* destroys it with its namespace: that of a container lives as long as    *)
(* the container runs or a request holds a handle of it.                   *)
(***************************************************************************)
EXTENDS Integers, FiniteSets

CONSTANTS
    Interfaces,  \* the interfaces of the node
    Requests,    \* the requests
    Plans,       \* what the requests are, see Ops
    HasVrf,      \* the node has VRFs
    Timeout,     \* the operations on configurations have a timeout
    MaxDeaths    \* times the container may stop by itself

Ops == {"start", "stop", "restart", "save", "read", "down", "up", "attach",
        "close"}

ASSUME NodeAssumption ==
    /\ IsFiniteSet(Interfaces) /\ IsFiniteSet(Requests)
    /\ Plans \subseteq [Requests -> [op : Ops, if : Interfaces]]
    /\ HasVrf \in BOOLEAN /\ Timeout \in BOOLEAN /\ MaxDeaths \in Nat

VARIABLES
    running,      \* n.Running
    loaded,       \* n.ConfigLoaded
    recorded,     \* n.Interfaces: UP, DOWN, or none when it is not there
    localNs,      \* n.LocalNetnsName is set: the local namespace exists
    container,    \* stopped, running or removed
    boot,         \* how many times the container was started
    vrfs,         \* the VRFs exist in the namespace of this boot
    place,        \* the namespace an interface is in, see Alive
    up,           \* the interfaces that are up in the kernel
    live,         \* the running configuration
    file,         \* the configuration file in the container
    archive,      \* the configuration file of the project
    plan,         \* the requests of this behaviour
    at,           \* at[r]: the next step of request r
    ns,           \* ns[r]: the boot of the running namespace r has a handle of
    todo,         \* todo[r]: the interfaces r still has to move
    answer,       \* answer[r]: none, ok or error
    deaths,       \* times the container has stopped by itself
    met           \* history: the pairs of requests that overlapped

node == <<running, loaded, recorded, localNs>>
kernel == <<container, boot, vrfs, place, up>>
config == <<live, file, archive>>
vars == <<node, kernel, config, plan, at, ns, todo, answer, deaths, met>>

(* A configuration: the one a node boots with, the one that was saved      *)
(* first, the one the user made since, or a file that was cut.             *)
Configs == {"blank", "saved", "edited", "torn"}

Steps == {"begin", "boot", "enter", "moveUp", "load", "vrf", "copy", "exec",
          "hung", "flag", "moveDown", "halt", "off", "again", "saveCmd",
          "fetch", "cut",
          "set", "record", "veth", "add", "rm", "done"}

(* The namespaces: the local one, and one for each boot of the container.  *)
Nowhere == -1
Local == 0

UnderWay == {r \in Requests : at[r] \notin {"begin", "done"}}

Alive(n) ==
    \/ n = Local /\ localNs
    \/ n > Local /\ \/ container = "running" /\ boot = n
                    \/ \E r \in UnderWay : ns[r] = n

TypeOK ==
    /\ running \in BOOLEAN /\ loaded \in BOOLEAN /\ localNs \in BOOLEAN
    /\ recorded \in [Interfaces -> {"none", "UP", "DOWN"}]
    /\ container \in {"stopped", "running", "removed"}
    /\ boot \in Nat /\ vrfs \in BOOLEAN
    /\ place \in [Interfaces -> Nowhere..boot]
    /\ up \subseteq Interfaces
    /\ live \in Configs /\ file \in Configs /\ archive \in Configs
    /\ plan \in Plans
    /\ at \in [Requests -> Steps]
    /\ ns \in [Requests -> 0..boot]
    /\ todo \in [Requests -> SUBSET Interfaces]
    /\ answer \in [Requests -> {"none", "ok", "error"}]
    /\ deaths \in 0..MaxDeaths
    /\ met \subseteq SUBSET Requests

Op(r) == plan[r].op
If(r) == plan[r].if
Attached == {i \in Interfaces : recorded[i] # "none"}

(* The interfaces that no request attaches were attached before.  The node *)
(* runs with its configuration, or was stopped since.                      *)
Init ==
    /\ plan \in Plans
    /\ \E started \in BOOLEAN :
          LET old == {i \in Interfaces :
                        \A r \in Requests : Op(r) = "attach" => If(r) # i}
          IN  /\ running = started /\ loaded = started /\ vrfs = started
              /\ localNs = ~started
              /\ container = IF started THEN "running" ELSE "stopped"
              /\ recorded = [i \in Interfaces |->
                                IF i \in old THEN "UP" ELSE "none"]
              /\ place = [i \in Interfaces |->
                                IF i \notin old THEN Nowhere
                                ELSE IF started THEN 1 ELSE Local]
              /\ up = IF started THEN old ELSE {}
              /\ live = IF started THEN "saved" ELSE "blank"
    /\ boot = 1 /\ file = "saved" /\ archive = "saved"
    /\ at = [r \in Requests |-> "begin"] /\ ns = [r \in Requests |-> 0]
    /\ todo = [r \in Requests |-> {}]
    /\ answer = [r \in Requests |-> "none"]
    /\ deaths = 0 /\ met = {}

-----------------------------------------------------------------------------
(* Helpers.                                                                *)

Goto(r, step) == at' = [at EXCEPT ![r] = step] /\ UNCHANGED answer

Answer(r, a) ==
    /\ at' = [at EXCEPT ![r] = "done"]
    /\ answer' = [answer EXCEPT ![r] = a]

(* A request that begins while others are under way.                       *)
Begins(r) == met' = met \cup {{r, s} : s \in UnderWay}

(* The container stops with its processes.                                 *)
ContainerStops == container' = "stopped" /\ live' = "blank"

-----------------------------------------------------------------------------
(* Start, then LoadConfig (startNode).                                     *)

BeginStart(r) ==
    /\ at[r] = "begin" /\ Op(r) = "start"
    /\ Goto(r, IF running THEN "load" ELSE "boot")
    /\ Begins(r)
    /\ UNCHANGED <<node, kernel, config, plan, ns, todo, deaths>>

(* The second half of a restart, when the stop has ended without error.    *)
StartAgain(r) ==
    /\ at[r] = "again"
    /\ Goto(r, IF running THEN "load" ELSE "boot")
    /\ UNCHANGED <<node, kernel, config, plan, ns, todo, deaths, met>>

(* Docker starts the container, or finds it started; Running is set.       *)
Boot(r) ==
    /\ at[r] = "boot"
    /\ \/ /\ container # "removed"
          /\ container' = "running" /\ running' = TRUE /\ localNs' = TRUE
          /\ IF container = "stopped"
             THEN boot' = boot + 1 /\ vrfs' = FALSE /\ live' = "blank"
             ELSE UNCHANGED <<boot, vrfs, live>>
          /\ Goto(r, "enter")
       \/ /\ Answer(r, "error")
          /\ UNCHANGED <<node, kernel, live>>
    /\ UNCHANGED <<loaded, recorded, place, up, file, archive, plan, ns, todo,
                   deaths, met>>

(* The handle of the running namespace; the interfaces to move are those   *)
(* of the map at that time.                                                *)
Enter(r) ==
    /\ at[r] = "enter"
    /\ IF container = "running"
       THEN /\ ns' = [ns EXCEPT ![r] = boot]
            /\ todo' = [todo EXCEPT ![r] = Attached]
            /\ Goto(r, "moveUp")
       ELSE Answer(r, "error") /\ UNCHANGED <<ns, todo>>
    /\ UNCHANGED <<node, kernel, config, plan, deaths, met>>

(* MoveInterfacesNetns into the container: an interface comes down.  The   *)
(* first that is not found ends the request.                               *)
MoveUp(r) ==
    /\ at[r] = "moveUp"
    /\ \/ \E i \in todo[r] :
          IF place[i] = Local
          THEN /\ place' = [place EXCEPT ![i] = ns[r]]
               /\ up' = up \ {i}
               /\ todo' = [todo EXCEPT ![r] = @ \ {i}]
               /\ UNCHANGED <<at, answer>>
          ELSE Answer(r, "error") /\ UNCHANGED <<place, up, todo>>
       \/ /\ todo[r] = {}
          /\ Goto(r, "load")
          /\ UNCHANGED <<place, up, todo>>
    /\ UNCHANGED <<node, container, boot, vrfs, config, plan, ns, deaths, met>>

BeginLoad(r) ==
    /\ at[r] = "load"
    /\ ns' = [ns EXCEPT ![r] = IF container = "running" THEN boot ELSE Local]
    /\ IF ~running \/ loaded
       THEN Answer(r, "ok")
       ELSE Goto(r, "vrf")
    /\ UNCHANGED <<node, kernel, config, plan, todo, deaths, met>>

(* A VRF that exists is an error: a load that failed is not tried again    *)
(* with success before the next stop.                                      *)
CreateVrf(r) ==
    /\ at[r] = "vrf"
    /\ IF HasVrf /\ (ns[r] = Local \/ (ns[r] = boot /\ vrfs))
       THEN Answer(r, "error") /\ UNCHANGED vrfs
       ELSE Goto(r, "copy") /\ vrfs' = IF ns[r] = boot THEN HasVrf ELSE vrfs
    /\ UNCHANGED <<node, container, boot, place, up, config, plan, ns, todo,
                   deaths, met>>

(* The files of the archive are copied into the container ...              *)
CopyConfig(r) ==
    /\ at[r] = "copy"
    /\ \/ container # "removed" /\ file' = archive /\ Goto(r, "exec")
       \/ Answer(r, "error") /\ UNCHANGED file
    /\ UNCHANGED <<node, kernel, live, archive, plan, ns, todo, deaths, met>>

(* ... and the commands that load them are executed.  A command may fail,  *)
(* or hang until the timeout cancels the wait (not the command).           *)
ExecLoad(r) ==
    /\ at[r] = "exec"
    /\ \/ container = "running" /\ live' = file /\ Goto(r, "flag")
       \/ container = "running" /\ Goto(r, "hung") /\ UNCHANGED live
       \/ Answer(r, "error") /\ UNCHANGED live
    /\ UNCHANGED <<node, kernel, file, archive, plan, ns, todo, deaths, met>>

(* The command ends late, in time for the request or not.                  *)
LateLoad(r) ==
    /\ at[r] = "hung" /\ container = "running"
    /\ live' = file
    /\ Goto(r, "flag")
    /\ UNCHANGED <<node, kernel, file, archive, plan, ns, todo, deaths, met>>

(* A mistaken variant: the command is waited for with context.Background.  *)
NoTimeout(r) ==
    /\ at[r] = "hung" /\ container # "running"
    /\ Answer(r, "error")
    /\ UNCHANGED <<node, kernel, config, plan, ns, todo, deaths, met>>

(* The wait ends with its context or with the container.                   *)
HungTimeout(r) ==
    /\ at[r] = "hung"
    /\ Timeout \/ container # "running"
    /\ Answer(r, "error")
    /\ UNCHANGED <<node, kernel, config, plan, ns, todo, deaths, met>>

SetLoaded(r) ==
    /\ at[r] = "flag"
    /\ loaded' = TRUE
    /\ Answer(r, "ok")
    /\ UNCHANGED <<running, recorded, localNs, kernel, config, plan, ns, todo,
                   deaths, met>>

-----------------------------------------------------------------------------
(* Stop (stopNode), and the first half of a restart.                       *)

BeginStop(r) ==
    /\ at[r] = "begin" /\ Op(r) \in {"stop", "restart"}
    /\ Begins(r)
    /\ IF ~running
       THEN /\ IF Op(r) = "stop" THEN Answer(r, "ok") ELSE Goto(r, "again")
            /\ UNCHANGED <<localNs, ns, todo>>
       ELSE IF container # "running"          \* no pid, no namespace
       THEN Answer(r, "error") /\ UNCHANGED <<localNs, ns, todo>>
       ELSE /\ localNs' = TRUE
            /\ ns' = [ns EXCEPT ![r] = boot]
            /\ todo' = [todo EXCEPT ![r] = Attached]
            /\ Goto(r, "moveDown")
    /\ UNCHANGED <<running, loaded, recorded, kernel, config, plan, deaths>>

(* A mistaken variant: an interface that is not found is skipped.          *)
MoveDownLeniently(r) ==
    /\ at[r] = "moveDown"
    /\ \/ \E i \in todo[r] :
          /\ todo' = [todo EXCEPT ![r] = @ \ {i}]
          /\ IF place[i] = ns[r]
             THEN place' = [place EXCEPT ![i] = Local] /\ up' = up \ {i}
             ELSE UNCHANGED <<place, up>>
          /\ UNCHANGED <<at, answer>>
       \/ /\ todo[r] = {}
          /\ Goto(r, "halt")
          /\ UNCHANGED <<place, up, todo>>
    /\ UNCHANGED <<node, container, boot, vrfs, config, plan, ns, deaths, met>>

MoveDown(r) ==
    /\ at[r] = "moveDown"
    /\ \/ \E i \in todo[r] :
          IF place[i] = ns[r]
          THEN /\ place' = [place EXCEPT ![i] = Local]
               /\ up' = up \ {i}
               /\ todo' = [todo EXCEPT ![r] = @ \ {i}]
               /\ UNCHANGED <<at, answer>>
          ELSE Answer(r, "error") /\ UNCHANGED <<place, up, todo>>
       \/ /\ todo[r] = {}
          /\ Goto(r, "halt")
          /\ UNCHANGED <<place, up, todo>>
    /\ UNCHANGED <<node, container, boot, vrfs, config, plan, ns, deaths, met>>

(* docker stop: the state is asked first, and a container that does not    *)
(* run is left alone.                                                      *)
Halt(r) ==
    /\ at[r] = "halt"
    /\ \/ container = "running" /\ ContainerStops /\ Goto(r, "off")
       \/ container = "stopped" /\ Goto(r, "off") /\ UNCHANGED <<container, live>>
       \/ Answer(r, "error") /\ UNCHANGED <<container, live>>
    /\ UNCHANGED <<node, boot, vrfs, place, up, file, archive, plan, ns, todo,
                   deaths, met>>

(* A mistaken variant: ConfigLoaded is not reset.                          *)
SetStoppedLoaded(r) ==
    /\ at[r] = "off"
    /\ running' = FALSE
    /\ ns' = [ns EXCEPT ![r] = Local]
    /\ IF Op(r) = "restart" THEN Goto(r, "again") ELSE Answer(r, "ok")
    /\ UNCHANGED <<loaded, recorded, localNs, kernel, config, plan, todo, deaths,
                   met>>

SetStopped(r) ==
    /\ at[r] = "off"
    /\ running' = FALSE /\ loaded' = FALSE
    /\ ns' = [ns EXCEPT ![r] = Local]
    /\ IF Op(r) = "restart" THEN Goto(r, "again") ELSE Answer(r, "ok")
    /\ UNCHANGED <<recorded, localNs, kernel, config, plan, todo, deaths, met>>

-----------------------------------------------------------------------------
(* Save: the save commands, then the copy of the files to the archive,     *)
(* which os.Create empties first.  ReadConfigFiles saves to a directory of *)
(* its own, or reads the archive.                                          *)

BeginSave(r) ==
    /\ at[r] = "begin" /\ Op(r) = "save"
    /\ Begins(r)
    /\ IF running /\ loaded THEN Goto(r, "saveCmd") ELSE Answer(r, "ok")
    /\ UNCHANGED <<node, kernel, config, plan, ns, todo, deaths>>

(* The configuration is saved first if the node runs or is loaded: a node  *)
(* that is not both answers the archive, or nothing.                       *)
BeginRead(r) ==
    /\ at[r] = "begin" /\ Op(r) = "read"
    /\ Begins(r)
    /\ IF running /\ loaded THEN Goto(r, "saveCmd") ELSE Answer(r, "ok")
    /\ UNCHANGED <<node, kernel, config, plan, ns, todo, deaths>>

(* A command that fails, or is not waited for any longer, may have written *)
(* the file.                                                               *)
ExecSave(r) ==
    /\ at[r] = "saveCmd"
    /\ \/ container = "running" /\ file' = live /\ Goto(r, "fetch")
       \/ container = "running" /\ file' = live /\ Answer(r, "error")
       \/ Answer(r, "error") /\ UNCHANGED file
    /\ UNCHANGED <<node, kernel, live, archive, plan, ns, todo, deaths, met>>

(* A file that cannot be seen (the container is removed) is skipped.       *)
FetchConfig(r) ==
    /\ at[r] = "fetch"
    /\ IF container # "removed" /\ Op(r) = "save"
       THEN archive' = "torn" /\ Goto(r, "cut")
       ELSE Answer(r, "ok") /\ UNCHANGED archive
    /\ UNCHANGED <<node, kernel, live, file, plan, ns, todo, deaths, met>>

WriteArchive(r) ==
    /\ at[r] = "cut"
    /\ \/ archive' = file /\ Answer(r, "ok")
       \/ Answer(r, "error") /\ UNCHANGED archive
    /\ UNCHANGED <<node, kernel, live, file, plan, ns, todo, deaths, met>>

-----------------------------------------------------------------------------
(* SetInterfaceState: the record is read, the kernel is told, the record   *)
(* is replaced.                                                            *)

Wanted(r) == IF Op(r) = "up" THEN "UP" ELSE "DOWN"

BeginState(r) ==
    /\ at[r] = "begin" /\ Op(r) \in {"down", "up"}
    /\ Begins(r)
    /\ IF recorded[If(r)] = Wanted(r)
       THEN Answer(r, "ok") /\ UNCHANGED ns
       ELSE IF recorded[If(r)] = "none" \/ (running /\ container # "running")
       THEN Answer(r, "error") /\ UNCHANGED ns
       ELSE /\ ns' = [ns EXCEPT ![r] = IF running THEN boot ELSE Local]
            /\ Goto(r, "set")
    /\ UNCHANGED <<node, kernel, config, plan, todo, deaths>>

SetState(r) ==
    /\ at[r] = "set"
    /\ IF place[If(r)] = ns[r]
       THEN /\ up' = IF Op(r) = "up" THEN up \cup {If(r)} ELSE up \ {If(r)}
            /\ Goto(r, "record")
       ELSE Answer(r, "error") /\ UNCHANGED up
    /\ UNCHANGED <<node, container, boot, vrfs, place, config, plan, ns, todo,
                   deaths, met>>

RecordState(r) ==
    /\ at[r] = "record"
    /\ recorded' = [recorded EXCEPT ![If(r)] = Wanted(r)]
    /\ Answer(r, "ok")
    /\ UNCHANGED <<running, loaded, localNs, kernel, config, plan, ns, todo,
                   deaths, met>>

-----------------------------------------------------------------------------
(* One end of setupLink: the veth is created and set up in the namespace   *)
(* the node has at that time, and recorded in the node afterwards.         *)

BeginAttach(r) ==
    /\ at[r] = "begin" /\ Op(r) = "attach"
    /\ Begins(r)
    /\ IF running /\ container # "running"
       THEN Answer(r, "error") /\ UNCHANGED <<ns, localNs>>
       ELSE /\ ns' = [ns EXCEPT ![r] = IF running THEN boot ELSE Local]
            /\ localNs' = (localNs \/ ~running)
            /\ Goto(r, "veth")
    /\ UNCHANGED <<running, loaded, recorded, kernel, config, plan, todo, deaths>>

CreateVeth(r) ==
    /\ at[r] = "veth"
    /\ \/ /\ place' = [place EXCEPT ![If(r)] = ns[r]]
          /\ up' = up \cup {If(r)}
          /\ Goto(r, "add")
       \/ /\ Answer(r, "error")
          /\ UNCHANGED <<place, up>>
    /\ UNCHANGED <<node, container, boot, vrfs, config, plan, ns, todo, deaths,
                   met>>

AttachInterface(r) ==
    /\ at[r] = "add"
    /\ recorded' = [recorded EXCEPT ![If(r)] = "UP"]
    /\ Answer(r, "ok")
    /\ UNCHANGED <<running, loaded, localNs, kernel, config, plan, ns, todo,
                   deaths, met>>

-----------------------------------------------------------------------------
(* Close: stop without a word about errors, then remove and forget.        *)

BeginClose(r) ==
    /\ at[r] = "begin" /\ Op(r) = "close"
    /\ Begins(r)
    /\ IF running
       THEN /\ running' = FALSE
            /\ \/ container = "running" /\ ContainerStops
               \/ UNCHANGED <<container, live>>
       ELSE UNCHANGED <<running, container, live>>
    /\ Goto(r, "rm")
    /\ UNCHANGED <<loaded, recorded, localNs, boot, vrfs, place, up, file,
                   archive, plan, ns, todo, deaths>>

Remove(r) ==
    /\ at[r] = "rm"
    /\ \/ /\ container' = "removed"
          /\ place' = [i \in Interfaces |-> Nowhere]
          /\ up' = {} /\ live' = "blank"
          /\ loaded' = FALSE /\ localNs' = FALSE
          /\ recorded' = [i \in Interfaces |-> "none"]
          /\ Answer(r, "ok")
       \/ /\ Answer(r, "error")
          /\ UNCHANGED <<container, place, up, live, loaded, localNs, recorded>>
    /\ UNCHANGED <<running, boot, vrfs, file, archive, plan, ns, todo, deaths,
                   met>>

-----------------------------------------------------------------------------
(* The user configures a node that has its configuration; the container    *)
(* stops by itself, of which the node knows nothing.                       *)
Edit ==
    /\ container = "running" /\ live = "saved"
    /\ live' = "edited"
    /\ UNCHANGED <<node, kernel, file, archive, plan, at, ns, todo, answer,
                   deaths, met>>

ContainerDies ==
    /\ container = "running" /\ deaths < MaxDeaths
    /\ deaths' = deaths + 1
    /\ ContainerStops
    /\ UNCHANGED <<node, boot, vrfs, place, up, file, archive, plan, at, ns,
                   todo, answer, met>>

Step(r) ==
    \/ BeginStart(r) \/ StartAgain(r) \/ Boot(r) \/ Enter(r) \/ MoveUp(r)
    \/ BeginLoad(r) \/ CreateVrf(r) \/ CopyConfig(r) \/ ExecLoad(r)
    \/ HungTimeout(r) \/ SetLoaded(r)
    \/ BeginStop(r) \/ MoveDown(r) \/ Halt(r) \/ SetStopped(r)
    \/ BeginSave(r) \/ BeginRead(r) \/ ExecSave(r) \/ FetchConfig(r) \/ WriteArchive(r)
    \/ BeginState(r) \/ SetState(r) \/ RecordState(r)
    \/ BeginAttach(r) \/ CreateVeth(r) \/ AttachInterface(r)
    \/ BeginClose(r) \/ Remove(r)

Next ==
    \/ \E r \in Requests : Step(r) \/ LateLoad(r)
    \/ Edit \/ ContainerDies

(* A request goes on by itself; a command that hangs may hang for ever.    *)
Fairness == \A r \in Requests : WF_vars(Step(r))

Spec == Init /\ [][Next]_vars /\ Fairness

-----------------------------------------------------------------------------
(* Properties.                                                             *)

(* Did a request of A overlap one of B?                                    *)
Met(A, B) == \E r, s \in Requests : {r, s} \in met /\ Op(r) \in A /\ Op(s) \in B

Starting == {"start", "restart"}
Ending == {"stop", "restart", "close"}
Saving == {"save", "read"}

(* Two starts that overlapped, and a stop that overlapped one of them.     *)
Crowd ==
    \E r, s, t \in Requests :
        /\ {{r, s}, {r, t}} \subseteq met /\ t # s
        /\ Op(r) \in Starting /\ Op(s) \in Starting /\ Op(t) \in Ending

(* The node is being closed, or its container has stopped by itself.       *)
Disturbed == deaths > 0 \/ \E r \in Requests : Op(r) = "close" /\ at[r] # "begin"

(* Two requests never destroy an interface of the node, unless its link    *)
(* was being created while the node started or stopped: a start and a stop *)
(* that overlap may leave it in the wrong namespace, but the second of two *)
(* stops gives up when it does not find the interfaces that the first has  *)
(* moved, and a container is only stopped once its interfaces have left.   *)
(* It takes two starts and a stop: the second start then brings an         *)
(* interface back into the container that the stop is about to halt.       *)
InterfacesSurvive ==
    \A i \in Interfaces :
        recorded[i] # "none" =>
            \/ Alive(place[i])
            \/ Disturbed
            \/ Met({"attach"}, Starting \cup Ending)
            \/ Crowd

(* A node that says that its configuration is loaded has it, and the       *)
(* archive never gets the blank configuration of a node that has just      *)
(* booted, unless a stop overlapped the load or the save, the container    *)
(* has stopped by itself, or a Close failed (which forgets Running and     *)
(* keeps ConfigLoaded).  The archive is cut only while a save writes it,   *)
(* after one that failed, and when a node loaded it during a save.         *)
ConfigIsReal ==
    /\ archive = "torn" =>
          \/ \E r \in Requests :
                Op(r) = "save" /\ (at[r] = "cut" \/ answer[r] = "error")
          \/ Met(Starting, Saving)
    /\ archive = "blank" => Disturbed \/ Met(Ending, Starting \cup Saving)
    /\ loaded /\ running /\ container = "running" /\ live = "blank" =>
          Disturbed \/ Met(Ending, Starting \cup Saving)

(* Every request is answered, whatever the others do and even if a command *)
(* hangs, when the operations have a timeout.                              *)
RequestsEnd == \A r \in Requests : <>(answer[r] # "none")

=============================================================================
