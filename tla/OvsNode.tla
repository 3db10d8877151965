------------------------------ MODULE OvsNode ------------------------------
(* One switch of a project (internal/ovs: OvsNode and its part of the      *)
(* OvsProjectInstance) under requests that overlap.                        *)
(*                                                                         *)
(* A switch is a bridge in the ovs container of the project.  No lock      *)
(* covers the node: the mutex of the package is held by AddBr and DelBr    *)
(* alone.  Loading, saving and merely reading the configuration go through *)
(* one file of the container, /tmp/<name>.conf.  A command of the          *)
(* container is one step, except the one that saves, which removes the     *)
(* file before it writes it.  ovs-vsctl refuses to add a port twice and to *)
(* delete one that is not there; the member of a bond is not a port.       *)
EXTENDS Naturals, FiniteSets

CONSTANTS
    Requests,       \* the requests on the switch
    Interfaces,     \* the names of its interfaces
    Plans,          \* the requests that may come together:
                    \* functions from Requests to [op, if]
    MaxFaults       \* how many calls of docker fail

Ops == {"start", "stop", "restart", "close", "save", "read", "attach", "down",
        "up"}

(* setupLink creates an interface before it attaches it, and the kernel    *)
(* refuses a name that exists: an interface is attached once, as long as   *)
(* its link is not deleted, which is not followed here.                    *)
ASSUME SwitchAssumption ==
    /\ Plans \subseteq [Requests -> [op : Ops, if : Interfaces]]
    /\ \A p \in Plans : \A r, s \in Requests :
          p[r].op = "attach" /\ p[s] = p[r] => r = s
    /\ MaxFaults \in Nat

VARIABLES
    running,        \* OvsNode.Running
    recorded,       \* OvsNode.Interfaces: the state noted for each, or "none"
    listed,         \* is the bridge in OvsProjectInstance.bridges?
    bridge,         \* does it exist in the container?
    ports,          \* its ports
    bond,           \* the interfaces it has in a bond
    up,             \* the interfaces that are up in the kernel
    live,           \* the configuration of the bridge
    file,           \* /tmp/<name>.conf in the container
    archive,        \* <name>.conf in the directory of the project
    plan,           \* what each request does
    at,             \* the next step of each request
    todo,           \* the interfaces its loop has left
    seen,           \* the configuration its save command read
    text,           \* the content its CopyFrom received
    answer,         \* what it answered
    faults,         \* the calls that failed so far
    met             \* the pairs of requests that overlapped

node == <<running, recorded, listed>>
ovs == <<bridge, ports, bond, up>>
config == <<live, file, archive>>
local == <<todo, seen, text>>
vars == <<node, ovs, config, plan, at, local, answer, faults, met>>

(* A configuration: that of a bridge just created, which waits for its own *)
(* ("blank"), the one a switch never saved has ("plain"), the one saved    *)
(* first, the ones the user made since (the second bonds the ports), one   *)
(* that lacks ports or was applied in part, a file that was cut, no file.  *)
Configs == {"none", "blank", "plain", "saved", "edited", "bonded", "partial",
            "torn"}

Op(r) == plan[r].op
If(r) == plan[r].if
UnderWay == {r \in Requests : at[r] \notin {"begin", "done"}}
Attached == {i \in Interfaces : recorded[i] # "none"}

(* The interfaces that no request attaches: those of the saved files.      *)
Old == {i \in Interfaces : \A r \in Requests : Op(r) = "attach" => If(r) # i}

Steps == {"begin", "addBr", "run", "addPorts", "load", "exec", "delPorts",
          "delBr", "off", "again", "saveCmd", "write", "fetch", "cut", "set",
          "record", "addPort", "add", "done"}

TypeOK ==
    /\ running \in BOOLEAN /\ listed \in BOOLEAN /\ bridge \in BOOLEAN
    /\ recorded \in [Interfaces -> {"none", "UP", "DOWN"}]
    /\ ports \subseteq Interfaces /\ bond \subseteq Interfaces /\ up \subseteq Interfaces
    /\ live \in Configs /\ file \in Configs /\ archive \in Configs
    /\ plan \in Plans /\ at \in [Requests -> Steps]
    /\ todo \in [Requests -> SUBSET Interfaces]
    /\ seen \in [Requests -> Configs] /\ text \in [Requests -> Configs]
    /\ answer \in [Requests -> {"none", "ok", "error"}]
    /\ faults \in 0..MaxFaults /\ met \subseteq SUBSET Requests

(* The switch runs with its configuration, saved or not, or was stopped.   *)
Init ==
    /\ plan \in Plans
    /\ archive \in {"none", "saved"}
    /\ \E started \in BOOLEAN :
          /\ running = started /\ listed = started /\ bridge = started
          /\ ports = IF started THEN Old ELSE {}
          /\ live = IF ~started THEN "none"
                    ELSE IF archive = "none" THEN "plain" ELSE archive
    /\ bond = {}
    /\ recorded = [i \in Interfaces |-> IF i \in Old THEN "UP" ELSE "none"]
    /\ up = Interfaces \* setupLink sets a link up before it attaches it
    /\ file = "none"
    /\ at = [r \in Requests |-> "begin"]
    /\ todo = [r \in Requests |-> {}]
    /\ seen = [r \in Requests |-> "none"]
    /\ text = [r \in Requests |-> "none"]
    /\ answer = [r \in Requests |-> "none"]
    /\ faults = 0 /\ met = {}

-----------------------------------------------------------------------------
(* Helpers.                                                                *)

Goto(r, step) == at' = [at EXCEPT ![r] = step] /\ UNCHANGED <<answer, local>>

Answer(r, a) ==
    /\ at' = [at EXCEPT ![r] = "done"]
    /\ answer' = [answer EXCEPT ![r] = a]
    /\ todo' = [todo EXCEPT ![r] = {}]
    /\ text' = [text EXCEPT ![r] = "none"]
    /\ UNCHANGED seen

(* A request that begins while others are under way.                       *)
Begins(r) == met' = met \cup {{r, s} : s \in UnderWay}

(* The loop over o.Interfaces, in the order the map gives.                 *)
GotoLoop(r, step) ==
    /\ at' = [at EXCEPT ![r] = step]
    /\ todo' = [todo EXCEPT ![r] = Attached]
    /\ UNCHANGED <<answer, seen, text>>

(* A call that docker refuses, or whose command ends with an error: what   *)
(* loads or saves a configuration may have begun.                          *)
CallFails(r) ==
    /\ at[r] \in {"addBr", "addPorts", "load", "exec", "delPorts", "delBr",
                  "saveCmd", "fetch", "set", "addPort"}
    /\ at[r] \in {"addPorts", "delPorts"} => todo[r] # {}
    /\ faults < MaxFaults /\ faults' = faults + 1
    /\ Answer(r, "error")
    /\ \/ UNCHANGED <<live, file>>
       \/ at[r] = "exec" /\ bridge /\ live' = "partial" /\ UNCHANGED file
       \/ at[r] = "saveCmd" /\ bridge /\ file' = "none" /\ UNCHANGED live
    /\ UNCHANGED <<node, ovs, archive, plan, met>>

-----------------------------------------------------------------------------
(* Start, then LoadConfig (startNode).                                     *)

BeginStart(r) ==
    /\ at[r] = "begin" /\ Op(r) = "start"
    /\ Begins(r)
    /\ Goto(r, IF running THEN "load" ELSE "addBr")
    /\ UNCHANGED <<node, ovs, config, plan, faults>>

(* The second half of a restart, when its stop ended without error.        *)
StartAgain(r) ==
    /\ at[r] = "again"
    /\ Goto(r, IF running THEN "load" ELSE "addBr")
    /\ UNCHANGED <<node, ovs, config, plan, faults, met>>

(* Under the mutex: the name is refused, or the bridge is made and listed. *)
AddBr(r) ==
    /\ at[r] = "addBr"
    /\ IF listed
       THEN Answer(r, "error") /\ UNCHANGED <<listed, bridge, live>>
       ELSE /\ listed' = TRUE /\ bridge' = TRUE /\ live' = "blank"
            /\ Goto(r, "run")
    /\ UNCHANGED <<running, recorded, ports, bond, up, file, archive, plan,
                   faults, met>>

(* Running is set before the ports are there.                              *)
SetRunning(r) ==
    /\ at[r] = "run"
    /\ running' = TRUE
    /\ GotoLoop(r, "addPorts")
    /\ UNCHANGED <<recorded, listed, ovs, config, plan, faults, met>>

AddPort(r) ==
    /\ at[r] = "addPorts"
    /\ \/ \E i \in todo[r] :
          IF bridge /\ i \notin ports
          THEN /\ ports' = ports \cup {i}
               /\ todo' = [todo EXCEPT ![r] = @ \ {i}]
               /\ UNCHANGED <<at, answer, seen, text>>
          ELSE Answer(r, "error") /\ UNCHANGED ports
       \/ todo[r] = {} /\ Goto(r, "load") /\ UNCHANGED ports
    /\ UNCHANGED <<node, bridge, bond, up, config, plan, faults, met>>

(* LoadConfig: there is no flag that says that the configuration is        *)
(* loaded.  The file is copied into the container ...                      *)
CopyConfig(r) ==
    /\ at[r] = "load"
    /\ IF running /\ archive # "none"
       THEN file' = archive /\ Goto(r, "exec") /\ UNCHANGED live
       ELSE /\ live' = IF live = "blank" /\ archive = "none"
                       THEN "plain" ELSE live
            /\ Answer(r, "ok")
            /\ UNCHANGED file
    /\ UNCHANGED <<node, ovs, archive, plan, faults, met>>

(* ... and loaded by a command, which needs each port the file names; a    *)
(* bond takes its ports out of the bridge first.                           *)
ExecLoad(r) ==
    /\ at[r] = "exec"
    /\ \/ /\ bridge /\ file \notin {"none", "torn"}
          /\ file \notin {"blank", "partial"} => Old \subseteq ports
          /\ live' = file
          /\ IF file = "bonded"
             THEN ports' = ports \ Old /\ bond' = Old
             ELSE UNCHANGED <<ports, bond>>
          /\ Answer(r, "ok")
       \/ /\ \/ ~bridge \/ file \in {"none", "torn"}
             \/ ~(Old \subseteq ports)
          /\ live' \in IF bridge THEN {live, "partial"} ELSE {live}
          /\ \/ UNCHANGED ports
             \/ file = "bonded" /\ ports' = ports \ Old
          /\ Answer(r, "error")
          /\ UNCHANGED bond
    /\ UNCHANGED <<node, bridge, up, file, archive, plan, faults, met>>

-----------------------------------------------------------------------------
(* Stop (stopNode), and the first half of a restart.                       *)

Stopped(r) == IF Op(r) = "restart" THEN Goto(r, "again") ELSE Answer(r, "ok")

BeginStop(r) ==
    /\ at[r] = "begin" /\ Op(r) \in {"stop", "restart"}
    /\ Begins(r)
    /\ IF running THEN GotoLoop(r, "delPorts") ELSE Stopped(r)
    /\ UNCHANGED <<node, ovs, config, plan, faults>>

DelPort(r) ==
    /\ at[r] = "delPorts"
    /\ \/ \E i \in todo[r] :
          IF i \in ports
          THEN /\ ports' = ports \ {i}
               /\ todo' = [todo EXCEPT ![r] = @ \ {i}]
               /\ UNCHANGED <<at, answer, seen, text>>
          ELSE Answer(r, "error") /\ UNCHANGED ports
       \/ todo[r] = {} /\ Goto(r, "delBr") /\ UNCHANGED ports
    /\ UNCHANGED <<node, bridge, bond, up, config, plan, faults, met>>

(* Under the mutex: a bridge that is not listed is no error.               *)
DelBr(r) ==
    /\ at[r] = "delBr"
    /\ IF listed
       THEN /\ listed' = FALSE /\ bridge' = FALSE
            /\ ports' = {} /\ bond' = {} /\ live' = "none"
       ELSE UNCHANGED <<listed, bridge, ports, bond, live>>
    /\ IF Op(r) = "close" THEN Answer(r, "ok") ELSE Goto(r, "off")
    /\ UNCHANGED <<running, recorded, up, file, archive, plan, faults, met>>

SetStopped(r) ==
    /\ at[r] = "off"
    /\ running' = FALSE
    /\ Stopped(r)
    /\ UNCHANGED <<recorded, listed, ovs, config, plan, faults, met>>

(* Close deletes the bridge of a switch, whatever it runs.                 *)
BeginClose(r) ==
    /\ at[r] = "begin" /\ Op(r) = "close"
    /\ Begins(r)
    /\ Goto(r, "delBr")
    /\ UNCHANGED <<node, ovs, config, plan, faults>>

-----------------------------------------------------------------------------
(* Save, and ReadConfigFiles, which saves to a directory of its own.       *)

BeginSave(r) ==
    /\ at[r] = "begin" /\ Op(r) \in {"save", "read"}
    /\ Begins(r)
    /\ IF running THEN Goto(r, "saveCmd") ELSE Answer(r, "ok")
    /\ UNCHANGED <<node, ovs, config, plan, faults>>

(* What the save command finds: the ports that are not there are left out. *)
Found ==
    IF live = "blank" \/ Old \subseteq ports \cup bond THEN live ELSE "partial"

(* A mistaken variant: a command that fails is not looked at.              *)
ExecSaveAnyhow(r) ==
    /\ at[r] = "saveCmd"
    /\ seen' = [seen EXCEPT ![r] = IF bridge THEN Found ELSE @]
    /\ file' = IF bridge THEN "none" ELSE file
    /\ at' = [at EXCEPT ![r] = IF bridge THEN "write" ELSE "fetch"]
    /\ UNCHANGED <<node, ovs, live, archive, plan, answer, todo, text, faults,
                   met>>

(* The command reads the ports and removes the file ...                    *)
ExecSave(r) ==
    /\ at[r] = "saveCmd"
    /\ IF bridge
       THEN /\ seen' = [seen EXCEPT ![r] = Found]
            /\ file' = "none"
            /\ at' = [at EXCEPT ![r] = "write"]
            /\ UNCHANGED <<answer, todo, text>>
       ELSE Answer(r, "error") /\ UNCHANGED file
    /\ UNCHANGED <<node, ovs, live, archive, plan, faults, met>>

(* ... before it writes what it read.                                      *)
WriteFile(r) ==
    /\ at[r] = "write"
    /\ file' = seen[r]
    /\ Goto(r, "fetch")
    /\ UNCHANGED <<node, ovs, live, archive, plan, faults, met>>

(* CopyFrom asks docker for the file, and empties the one it writes.       *)
FetchFile(r) ==
    /\ at[r] = "fetch"
    /\ IF file = "none"
       THEN Answer(r, "error") /\ UNCHANGED archive
       ELSE IF Op(r) = "read"
       THEN Answer(r, "ok") /\ UNCHANGED archive
       ELSE /\ text' = [text EXCEPT ![r] = file]
            /\ archive' = "torn"
            /\ at' = [at EXCEPT ![r] = "cut"]
            /\ UNCHANGED <<answer, todo, seen>>
    /\ UNCHANGED <<node, ovs, live, file, plan, faults, met>>

(* Everything is written, or the copy ends too early.                      *)
WriteArchive(r) ==
    /\ at[r] = "cut"
    /\ \/ /\ archive' = text[r]
          /\ Answer(r, "ok")
          /\ UNCHANGED faults
       \/ /\ faults < MaxFaults /\ faults' = faults + 1
          /\ Answer(r, "error")
          /\ UNCHANGED archive
    /\ UNCHANGED <<node, ovs, live, file, plan, met>>

-----------------------------------------------------------------------------
(* AttachInterface (setupLink has made the interface): the port is added   *)
(* if the switch runs, and the interface recorded.                         *)

BeginAttach(r) ==
    /\ at[r] = "begin" /\ Op(r) = "attach"
    /\ Begins(r)
    /\ Goto(r, IF running THEN "addPort" ELSE "add")
    /\ UNCHANGED <<node, ovs, config, plan, faults>>

(* A mistaken variant: the interface is recorded without its port.         *)
AttachNoPort(r) ==
    /\ at[r] = "addPort"
    /\ Goto(r, "add")
    /\ UNCHANGED <<node, ovs, config, plan, faults, met>>

AttachPort(r) ==
    /\ at[r] = "addPort"
    /\ IF bridge /\ If(r) \notin ports
       THEN ports' = ports \cup {If(r)} /\ Goto(r, "add")
       ELSE Answer(r, "error") /\ UNCHANGED ports
    /\ UNCHANGED <<node, bridge, bond, up, config, plan, faults, met>>

RecordInterface(r) ==
    /\ at[r] = "add"
    /\ recorded' = [recorded EXCEPT ![If(r)] = "UP"]
    /\ Answer(r, "ok")
    /\ UNCHANGED <<running, listed, ovs, config, plan, faults, met>>

-----------------------------------------------------------------------------
(* SetInterfaceState: the record is read, the kernel told, and the record  *)
(* replaced.                                                               *)

Wanted(r) == IF Op(r) = "up" THEN "UP" ELSE "DOWN"

BeginState(r) ==
    /\ at[r] = "begin" /\ Op(r) \in {"down", "up"}
    /\ Begins(r)
    /\ IF recorded[If(r)] = "none" THEN Answer(r, "error")
       ELSE IF recorded[If(r)] = Wanted(r) THEN Answer(r, "ok")
       ELSE Goto(r, "set")
    /\ UNCHANGED <<node, ovs, config, plan, faults>>

SetState(r) ==
    /\ at[r] = "set"
    /\ up' = IF Op(r) = "up" THEN up \cup {If(r)} ELSE up \ {If(r)}
    /\ Goto(r, "record")
    /\ UNCHANGED <<node, bridge, ports, bond, config, plan, faults, met>>

RecordState(r) ==
    /\ at[r] = "record"
    /\ recorded' = [recorded EXCEPT ![If(r)] = Wanted(r)]
    /\ Answer(r, "ok")
    /\ UNCHANGED <<running, listed, ovs, config, plan, faults, met>>

-----------------------------------------------------------------------------
(* The user configures the switch on its console, and may bond its ports.  *)
Edit ==
    /\ bridge /\ running /\ live \in {"saved", "plain"} /\ Old \subseteq ports
    /\ \/ live' = "edited" /\ UNCHANGED <<ports, bond>>
       \/ live' = "bonded" /\ ports' = ports \ Old /\ bond' = Old
    /\ UNCHANGED <<node, bridge, up, file, archive, plan, at, local, answer,
                   faults, met>>

Step(r) ==
    \/ BeginStart(r) \/ StartAgain(r) \/ AddBr(r) \/ SetRunning(r)
    \/ AddPort(r) \/ CopyConfig(r) \/ ExecLoad(r)
    \/ BeginStop(r) \/ DelPort(r) \/ DelBr(r) \/ SetStopped(r) \/ BeginClose(r)
    \/ BeginSave(r) \/ ExecSave(r) \/ WriteFile(r) \/ FetchFile(r)
    \/ WriteArchive(r)
    \/ BeginAttach(r) \/ AttachPort(r) \/ RecordInterface(r)
    \/ BeginState(r) \/ SetState(r) \/ RecordState(r)
    \/ CallFails(r)

Next == Edit \/ \E r \in Requests : Step(r)

Spec == Init /\ [][Next]_vars

-----------------------------------------------------------------------------
(* Properties.                                                             *)

(* Did a request of A overlap another of B?                                *)
Met(A, B) ==
    \E r, s \in Requests :
        r # s /\ {r, s} \in met /\ Op(r) \in A /\ Op(s) \in B

Starting == {"start", "restart"}
Ending == {"stop", "restart", "close"}
Saving == {"save", "read"}

(* No request is between two of its steps.                                 *)
Quiet == UnderWay = {}

(* A start or a stop has answered an error.                                *)
Failed(A) == \E r \in Requests : Op(r) \in A /\ answer[r] = "error"

Closed == \E r \in Requests : Op(r) = "close" /\ at[r] # "begin"

(* Two requests that asked for the same state overlapped, and one that     *)
(* asked for the other state overlapped one of them.                       *)
Contended ==
    \E r, s, t \in Requests :
        /\ r # s /\ {{r, s}, {s, t}} \subseteq met
        /\ {Op(r), Op(t)} = {"down", "up"} /\ Op(s) = Op(r)

(* The interfaces that a running switch records are connected to it: a     *)
(* start or a stop that left some out has answered an error, unless an     *)
(* attach overlapped a start, and it takes a third request to make the     *)
(* record of a state false.  A switch that lost its ports can neither be   *)
(* stopped (DelPort fails) nor get them back (Start does nothing).         *)
RecordsAreTrue ==
    Quiet =>
        /\ running /\ ~Closed =>
              \/ Attached \subseteq ports \cup bond
              \/ Failed(Starting \cup Ending)
              \/ Met({"attach"}, Starting)
        /\ Contended \/ \A i \in Attached : recorded[i] = "UP" <=> i \in up

(* A save that is answered without error puts in the archive what its      *)
(* command read, or what the command of a save or a read read meanwhile,   *)
(* unless a start overlapped it: both go through one file of the           *)
(* container, and the start puts the old archive there.  What was read is  *)
(* the whole configuration, unless a start or a stop overlapped the save,  *)
(* or the read, or failed before.                                          *)
SaveIsTrue ==
    [][\A r \in Requests :
          at[r] = "cut" /\ answer'[r] = "ok" =>
              /\ \/ \E s \in Requests :
                       (s = r \/ {r, s} \in met) /\ archive' = seen[s]
                 \/ Met({"save"}, Starting)
              /\ archive' \in {"blank", "partial"} =>
                    \/ Met(Saving, Starting \cup Ending)
                    \/ Failed(Starting \cup Ending)]_vars

=============================================================================
