-------------------------- MODULE DockerNode_proofs --------------------------
(* Proofs about DockerNode, for any number of requests and interfaces, any  *)
(* plans, and any number of times the container stops by itself.            *)
EXTENDS DockerNode, TLAPS

-----------------------------------------------------------------------------
(* The inductive invariant.                                                 *)

\* The steps that belong to each kind of request.
StepsOfOps ==
    \A r \in Requests :
        /\ at[r] \in {"boot", "enter", "moveUp", "load", "vrf", "copy", "exec",
                      "hung", "flag"} => Op(r) \in Starting
        /\ at[r] = "again" => Op(r) = "restart"
        /\ at[r] \in {"moveDown", "halt", "off"} => Op(r) \in {"stop", "restart"}
        /\ at[r] \in {"saveCmd", "fetch"} => Op(r) \in Saving
        /\ at[r] = "cut" => Op(r) = "save"
        /\ at[r] \in {"set", "record"} => Op(r) \in {"down", "up"}
        /\ at[r] \in {"veth", "add"} => Op(r) = "attach"
        /\ at[r] = "rm" => Op(r) = "close"

\* Requests that are under way together have met, and have not answered.
Together ==
    /\ \A r, s \in UnderWay : r # s => {r, s} \in met
    /\ \A r \in Requests : answer[r] # "none" => at[r] = "done"

\* The interfaces that are recorded, or about to be.
Owed == Attached \cup {If(r) : r \in {s \in Requests : at[s] = "add"}}

\* A namespace that lives whatever handles are held.
Steady(n) ==
    \/ n = Local /\ localNs
    \/ n > Local /\ container = "running" /\ boot = n

\* A start that has still to move interface i into the container, a stop that
\* has moved it out, and a start that has begun to move interfaces.
Rising(s, i) == at[s] \in {"boot", "enter"} \/ (at[s] = "moveUp" /\ i \in todo[s])
Sunk(t, i)   == at[t] \in {"halt", "off"} \/ (at[t] = "moveDown" /\ i \notin todo[t])
Risen(s)     == at[s] \in {"moveUp", "load", "vrf", "copy", "exec", "hung", "flag", "done"}

\* What InterfacesSurvive excepts.
Excused == Disturbed \/ Met({"attach"}, Starting \cup Ending) \/ Crowd

\* Handles are of namespaces that live: the one of an attach, and those of a stop
\* and a start that have interfaces to move.
HandlesLive ==
    /\ \A r \in Requests : at[r] \in {"veth", "add"} =>
          Steady(ns[r]) /\ (ns[r] # Local => running)
    /\ \A t \in Requests : at[t] = "moveDown" => ns[t] > Local /\ localNs
    /\ \A s \in Requests, i \in Owed : Rising(s, i) /\ at[s] # "boot" =>
          /\ running /\ container = "running"
          /\ at[s] = "moveUp" => ns[s] = boot

\* Every interface is in a namespace that lives by itself; one that is not in the
\* local one is in a node that runs, and if a start has still to move it, another
\* one has done so meanwhile.
PlacesLive ==
    \A i \in Owed :
        /\ Steady(place[i])
        /\ place[i] # Local => running
        /\ \A s \in Requests : Rising(s, i) /\ place[i] # Local =>
              \E q \in Requests \ {s} : {s, q} \in met /\ Op(q) \in Starting /\ Risen(q)

\* An interface that a stop has moved stays where it is: the node still runs, no
\* start will move it and no other stop has moved it.
SunkStay ==
    \A t \in Requests, i \in Owed : Sunk(t, i) =>
        /\ place[i] = Local /\ running
        /\ \A s \in Requests \ {t} : ~Rising(s, i) /\ ~Sunk(s, i)

\* An interface whose state is about to be recorded is one of the node.
StatesKnown == \A r \in Requests : at[r] \in {"set", "record"} => If(r) \in Attached

InterfacesFollow == Excused \/ (HandlesLive /\ PlacesLive /\ SunkStay /\ StatesKnown)

\* What ConfigIsReal excepts of torn and of blank configurations.
Cut == \/ \E r \in Requests : Op(r) = "save" /\ answer[r] = "error"
       \/ Met(Starting, Saving)
Beside == Disturbed \/ Met(Ending, Starting \cup Saving)

\* A torn file is in the archive alone, while a save writes it.
TornFollows ==
    \/ Cut
    \/ /\ file # "torn" /\ live # "torn"
       /\ archive = "torn" => \E r \in Requests : Op(r) = "save" /\ at[r] = "cut"

\* The blank configuration is in no file, nor in a container whose node is loaded
\* or about to be; a node stays loaded without its container only while a stop is
\* about to say so, and while a save command is to be executed.
BlankFollows ==
    \/ Beside
    \/ /\ file # "blank" /\ archive # "blank"
       /\ loaded /\ container = "running" => live # "blank"
       /\ loaded /\ container # "running" => \E t \in Requests : at[t] = "off"
       /\ \A r \in Requests : at[r] = "saveCmd" => loaded
       /\ \A s \in Requests : at[s] = "flag" => container = "running" /\ live # "blank"

IInv ==
    /\ TypeOK /\ boot > 0 /\ StepsOfOps /\ Together
    /\ InterfacesFollow /\ TornFollows /\ BlankFollows

-----------------------------------------------------------------------------
(* What every step does.                                                    *)

Moves(r) == Step(r) \/ LateLoad(r)

\* What a request does, and the values of its part of the functions.
LEMMA Typed ==
    ASSUME TypeOK
    PROVE  /\ \A r \in Requests : Op(r) \in Ops /\ If(r) \in Interfaces
           /\ \A r \in Requests : /\ at[r] \in Steps /\ todo[r] \subseteq Interfaces
                                  /\ ns[r] \in 0..boot
                                  /\ answer[r] \in {"none", "ok", "error"}
           /\ \A i \in Interfaces : place[i] \in Nowhere..boot
<1>1. plan \in [Requests -> [op : Ops, if : Interfaces]]
      BY NodeAssumption DEF TypeOK
<1>2. \A r \in Requests : plan[r] \in [op : Ops, if : Interfaces]
      BY <1>1
<1> QED BY <1>2 DEF TypeOK, Op, If

\* A step of a request leaves what the other requests do alone; only its first one
\* adds to the pairs that met; none leads back to the first one; how it comes to
\* the places that the invariant speaks of.
LEMMA StepOfOne ==
    ASSUME TypeOK, NEW r \in Requests, Moves(r)
    PROVE  /\ plan' = plan /\ deaths' = deaths
           /\ \A s \in Requests \ {r} :
                 /\ at'[s] = at[s] /\ todo'[s] = todo[s] /\ ns'[s] = ns[s]
                 /\ answer'[s] = answer[s]
           /\ met' = IF at[r] = "begin" THEN met \cup {{r, s} : s \in UnderWay}
                     ELSE met
           /\ at[r] # "done" /\ at'[r] # "begin"
           /\ at'[r] = "done" \/ answer'[r] = answer[r]
           /\ at' \in [Requests -> Steps]
           /\ answer' \in [Requests -> {"none", "ok", "error"}]
           /\ todo' \in [Requests -> SUBSET Interfaces]
<1> USE DEF TypeOK, node, kernel, config, Goto, Answer, Begins, Steps
<1>1. CASE BeginStart(r) \/ StartAgain(r) \/ Boot(r)
      BY <1>1 DEF BeginStart, StartAgain, Boot
<1>2. CASE Enter(r)
      BY <1>2 DEF Enter, Attached
<1>3. CASE MoveUp(r)
      BY <1>3 DEF MoveUp
<1>4. CASE BeginLoad(r) \/ CreateVrf(r) \/ CopyConfig(r) \/ ExecLoad(r)
      BY <1>4 DEF BeginLoad, CreateVrf, CopyConfig, ExecLoad
<1>5. CASE HungTimeout(r) \/ LateLoad(r) \/ SetLoaded(r)
      BY <1>5 DEF HungTimeout, LateLoad, SetLoaded
<1>6. CASE BeginStop(r)
      BY <1>6 DEF BeginStop, Attached
<1>7. CASE MoveDown(r)
      BY <1>7 DEF MoveDown
<1>8. CASE Halt(r) \/ SetStopped(r)
      BY <1>8 DEF Halt, SetStopped
<1>9. CASE BeginSave(r) \/ BeginRead(r) \/ ExecSave(r) \/ FetchConfig(r) \/ WriteArchive(r)
      BY <1>9 DEF BeginSave, BeginRead, ExecSave, FetchConfig, WriteArchive
<1>10. CASE BeginState(r) \/ SetState(r) \/ RecordState(r)
       BY <1>10 DEF BeginState, SetState, RecordState
<1>11. CASE BeginAttach(r) \/ CreateVeth(r) \/ AttachInterface(r)
       BY <1>11 DEF BeginAttach, CreateVeth, AttachInterface
<1>12. CASE BeginClose(r) \/ Remove(r)
       BY <1>12 DEF BeginClose, Remove
<1> QED BY <1>1, <1>2, <1>3, <1>4, <1>5, <1>6, <1>7, <1>8, <1>9, <1>10, <1>11, <1>12
        DEF Moves, Step

\* Which steps change what.
LEMMA Changes ==
    ASSUME NEW r \in Requests, Moves(r)
    PROVE  /\ running' = running \/ Boot(r) \/ SetStopped(r) \/ BeginClose(r)
           /\ loaded' = loaded \/ SetLoaded(r) \/ SetStopped(r) \/ Remove(r)
           /\ recorded' = recorded \/ RecordState(r) \/ AttachInterface(r) \/ Remove(r)
           /\ localNs' = localNs \/ Boot(r) \/ BeginStop(r) \/ BeginAttach(r) \/ Remove(r)
           /\ container' = container \/ Boot(r) \/ Halt(r) \/ BeginClose(r) \/ Remove(r)
           /\ (boot' = boot /\ vrfs' = vrfs) \/ Boot(r) \/ (boot' = boot /\ CreateVrf(r))
           /\ (place' = place /\ up' = up) \/ MoveUp(r) \/ MoveDown(r) \/ CreateVeth(r)
                 \/ Remove(r) \/ (place' = place /\ SetState(r))
           /\ \/ live' = live
              \/ Boot(r) \/ ExecLoad(r) \/ LateLoad(r) \/ Halt(r) \/ BeginClose(r) \/ Remove(r)
           /\ file' = file \/ CopyConfig(r) \/ ExecSave(r)
           /\ archive' = archive \/ FetchConfig(r) \/ WriteArchive(r)
           /\ \/ ns' = ns
              \/ Enter(r) \/ BeginLoad(r) \/ BeginStop(r) \/ SetStopped(r) \/ BeginState(r)
              \/ BeginAttach(r)
<1> USE DEF node, kernel, config
<1>1. CASE BeginStart(r) \/ StartAgain(r) \/ Boot(r)
      BY <1>1 DEF BeginStart, StartAgain, Boot
<1>2. CASE Enter(r) \/ MoveUp(r)
      BY <1>2 DEF Enter, MoveUp
<1>3. CASE BeginLoad(r) \/ CreateVrf(r) \/ CopyConfig(r) \/ ExecLoad(r)
      BY <1>3 DEF BeginLoad, CreateVrf, CopyConfig, ExecLoad
<1>4. CASE HungTimeout(r) \/ LateLoad(r) \/ SetLoaded(r)
      BY <1>4 DEF HungTimeout, LateLoad, SetLoaded
<1>5. CASE BeginStop(r) \/ MoveDown(r)
      BY <1>5 DEF BeginStop, MoveDown
<1>6. CASE Halt(r) \/ SetStopped(r)
      BY <1>6 DEF Halt, SetStopped
<1>7. CASE BeginSave(r) \/ BeginRead(r) \/ ExecSave(r) \/ FetchConfig(r) \/ WriteArchive(r)
      BY <1>7 DEF BeginSave, BeginRead, ExecSave, FetchConfig, WriteArchive
<1>8. CASE BeginState(r) \/ SetState(r) \/ RecordState(r)
      BY <1>8 DEF BeginState, SetState, RecordState
<1>9. CASE BeginAttach(r) \/ CreateVeth(r) \/ AttachInterface(r)
      BY <1>9 DEF BeginAttach, CreateVeth, AttachInterface
<1>10. CASE BeginClose(r) \/ Remove(r)
       BY <1>10 DEF BeginClose, Remove
<1> QED BY <1>1, <1>2, <1>3, <1>4, <1>5, <1>6, <1>7, <1>8, <1>9, <1>10 DEF Moves, Step

\* The step that each place leads to.
LEMMA Which ==
    ASSUME NEW r \in Requests, Moves(r)
    PROVE  /\ at[r] = "begin" =>
                 \/ BeginStart(r) \/ BeginStop(r) \/ BeginSave(r) \/ BeginRead(r)
                 \/ BeginState(r) \/ BeginAttach(r) \/ BeginClose(r)
           /\ at[r] = "again" => StartAgain(r)
           /\ at[r] = "boot" => Boot(r)
           /\ at[r] = "enter" => Enter(r)
           /\ at[r] = "moveUp" => MoveUp(r)
           /\ at[r] = "load" => BeginLoad(r)
           /\ at[r] = "vrf" => CreateVrf(r)
           /\ at[r] = "copy" => CopyConfig(r)
           /\ at[r] = "exec" => ExecLoad(r)
           /\ at[r] = "hung" => HungTimeout(r) \/ LateLoad(r)
           /\ at[r] = "flag" => SetLoaded(r)
           /\ at[r] = "moveDown" => MoveDown(r)
           /\ at[r] = "halt" => Halt(r)
           /\ at[r] = "off" => SetStopped(r)
           /\ at[r] = "saveCmd" => ExecSave(r)
           /\ at[r] = "fetch" => FetchConfig(r)
           /\ at[r] = "cut" => WriteArchive(r)
           /\ at[r] = "set" => SetState(r)
           /\ at[r] = "record" => RecordState(r)
           /\ at[r] = "veth" => CreateVeth(r)
           /\ at[r] = "add" => AttachInterface(r)
           /\ at[r] = "rm" => Remove(r)
BY DEF Moves, Step, BeginStart, StartAgain, Boot, Enter, MoveUp, BeginLoad, CreateVrf,
       CopyConfig, ExecLoad, HungTimeout, LateLoad, SetLoaded, BeginStop, MoveDown,
       Halt, SetStopped, BeginSave, BeginRead, ExecSave, FetchConfig, WriteArchive,
       BeginState, SetState, RecordState, BeginAttach, CreateVeth, AttachInterface,
       BeginClose, Remove

\* How a request comes to the places that the invariant speaks of.
LEMMA Arrives ==
    ASSUME TypeOK, NEW r \in Requests, Moves(r)
    PROVE  /\ at'[r] = "boot" => ~running /\ (BeginStart(r) \/ StartAgain(r))
           /\ at'[r] = "enter" => Boot(r) /\ container' = "running" /\ running'
           /\ at'[r] = "moveUp" => Enter(r) \/ (MoveUp(r) /\ todo'[r] \subseteq todo[r])
           /\ at'[r] = "moveDown" => BeginStop(r) \/ MoveDown(r)
           /\ at'[r] = "halt" => MoveDown(r) /\ todo[r] = {} /\ place' = place
           /\ at'[r] = "off" => Halt(r) /\ container' # "running"
           /\ at'[r] = "flag" => /\ ExecLoad(r) \/ LateLoad(r)
                                 /\ container' = "running" /\ live' = file
           /\ at'[r] = "saveCmd" => loaded /\ at[r] = "begin"
           /\ at'[r] = "cut" => FetchConfig(r) /\ Op(r) = "save"
           /\ at'[r] = "set" => BeginState(r)
           /\ at'[r] = "record" => SetState(r)
           /\ at'[r] = "veth" => BeginAttach(r)
           /\ at'[r] = "add" => CreateVeth(r) /\ place'[If(r)] = ns[r]
           /\ Risen(r) /\ at[r] # "done" => at'[r] \in
                 {"moveUp", "load", "vrf", "copy", "exec", "hung", "flag", "done"}
<1> USE DEF TypeOK, node, kernel, config, Goto, Answer, Steps, Risen
<1>1. CASE BeginStart(r) \/ StartAgain(r) \/ Boot(r)
      BY <1>1 DEF BeginStart, StartAgain, Boot
<1>2. CASE Enter(r) \/ MoveUp(r)
      BY <1>2 DEF Enter, MoveUp
<1>3. CASE BeginLoad(r) \/ CreateVrf(r) \/ CopyConfig(r) \/ ExecLoad(r)
      BY <1>3 DEF BeginLoad, CreateVrf, CopyConfig, ExecLoad
<1>4. CASE HungTimeout(r) \/ LateLoad(r) \/ SetLoaded(r)
      BY <1>4 DEF HungTimeout, LateLoad, SetLoaded
<1>5. CASE BeginStop(r) \/ MoveDown(r)
      BY <1>5 DEF BeginStop, MoveDown
<1>6. CASE Halt(r) \/ SetStopped(r)
      BY <1>6 DEF Halt, SetStopped, ContainerStops
<1>7. CASE BeginSave(r) \/ BeginRead(r) \/ ExecSave(r) \/ FetchConfig(r) \/ WriteArchive(r)
      BY <1>7 DEF BeginSave, BeginRead, ExecSave, FetchConfig, WriteArchive
<1>8. CASE BeginState(r) \/ SetState(r) \/ RecordState(r)
      BY <1>8 DEF BeginState, SetState, RecordState
<1>9. CASE BeginAttach(r) \/ CreateVeth(r) \/ AttachInterface(r)
      BY <1>9, Typed DEF BeginAttach, CreateVeth, AttachInterface
<1>10. CASE BeginClose(r) \/ Remove(r)
       BY <1>10 DEF BeginClose, Remove
<1> QED BY <1>1, <1>2, <1>3, <1>4, <1>5, <1>6, <1>7, <1>8, <1>9, <1>10 DEF Moves, Step


\* The shapes of a step: nobody's request moves, or one request does.
Outside == Edit \/ ContainerDies \/ vars' = vars

LEMMA Shapes ==
    ASSUME [Next]_vars
    PROVE  Outside \/ \E r \in Requests : Moves(r)
BY DEF Next, Outside, Moves

\* What no request does leaves the requests alone, and what they were asked; only
\* the end of the container changes more than the configuration.
LEMMA Others ==
    ASSUME Outside
    PROVE  /\ plan' = plan /\ at' = at /\ todo' = todo /\ ns' = ns /\ answer' = answer
           /\ met' = met /\ running' = running /\ loaded' = loaded
           /\ recorded' = recorded /\ localNs' = localNs /\ boot' = boot /\ vrfs' = vrfs
           /\ place' = place /\ up' = up /\ file' = file /\ archive' = archive
           /\ container' = container \/ ContainerDies
           /\ live' = live \/ live' = "edited" \/ ContainerDies
           /\ deaths' = deaths \/ ContainerDies
BY DEF Outside, Edit, ContainerDies, vars, node, kernel, config

\* What every step does to the requests, whoever takes it.
LEMMA EveryStep ==
    ASSUME TypeOK, Together, [Next]_vars
    PROVE  /\ plan' = plan /\ met \subseteq met'
           /\ \A r \in Requests : at[r] # "begin" => at'[r] # "begin"
           /\ \A r \in Requests : answer[r] # "none" => answer'[r] = answer[r]
           /\ deaths > 0 => deaths' > 0
<1>1. CASE Outside
      BY <1>1, Others DEF ContainerDies, TypeOK
<1>2. ASSUME NEW r \in Requests, Moves(r)
      PROVE  /\ plan' = plan /\ met \subseteq met'
             /\ \A s \in Requests : at[s] # "begin" => at'[s] # "begin"
             /\ \A s \in Requests : answer[s] # "none" => answer'[s] = answer[s]
             /\ deaths > 0 => deaths' > 0
      BY <1>2, StepOfOne DEF Together
<1> QED BY <1>1, <1>2, Shapes

\* The container stops by itself only in behaviours that are excused.
LEMMA DeathsDisturb == ASSUME TypeOK, ContainerDies PROVE Disturbed'
BY DEF TypeOK, ContainerDies, Disturbed

\* Excuses are never taken back.
LEMMA ExcusesStay ==
    ASSUME TypeOK, Together, [Next]_vars
    PROVE  /\ Disturbed => Disturbed'
           /\ Excused => Excused'
           /\ Beside => Beside'
           /\ Cut => Cut'
<1>1. \A r \in Requests : Op(r)' = Op(r) /\ If(r)' = If(r)
      BY EveryStep DEF Op, If
<1>2. Disturbed => Disturbed'
      BY <1>1, EveryStep DEF Disturbed
<1>3. Crowd => Crowd'
  <2> SUFFICES ASSUME Crowd PROVE Crowd'
      OBVIOUS
  <2>1. PICK r, s, t \in Requests :
           /\ {{r, s}, {r, t}} \subseteq met /\ t # s
           /\ Op(r) \in Starting /\ Op(s) \in Starting /\ Op(t) \in Ending
        BY DEF Crowd
  <2>2. {{r, s}, {r, t}} \subseteq met'
        BY <2>1, EveryStep
  <2>3. Op(r)' \in Starting /\ Op(s)' \in Starting /\ Op(t)' \in Ending
        BY <1>1, <2>1
  <2> QED BY <2>1, <2>2, <2>3 DEF Crowd, Starting, Ending
<1>4. Met({"attach"}, Starting \cup Ending) => Met({"attach"}, Starting \cup Ending)'
      BY <1>1, EveryStep DEF Met, Starting, Ending
<1>5. Met(Ending, Starting \cup Saving) => Met(Ending, Starting \cup Saving)'
      BY <1>1, EveryStep DEF Met, Starting, Ending, Saving
<1>6. Met(Starting, Saving) => Met(Starting, Saving)'
      BY <1>1, EveryStep DEF Met, Starting, Saving
<1>7. Cut => Cut'
      BY <1>1, <1>6, EveryStep DEF Cut
<1> QED BY <1>2, <1>3, <1>4, <1>5, <1>7 DEF Excused, Beside

-----------------------------------------------------------------------------
(* Types, and which steps belong to which request.                          *)

LEMMA InitTypes == Init => TypeOK
<1> SUFFICES ASSUME Init PROVE TypeOK
    OBVIOUS
<1>1. at \in [Requests -> Steps] /\ answer \in [Requests -> {"none", "ok", "error"}]
      BY DEF Init, Steps
<1>2. recorded \in [Interfaces -> {"none", "UP", "DOWN"}] /\ up \subseteq Interfaces
      BY DEF Init
<1>3. place \in [Interfaces -> Nowhere..boot]
      BY DEF Init, Nowhere, Local
<1> QED BY <1>1, <1>2, <1>3, NodeAssumption DEF Init, TypeOK, Configs

\* The boots are counted upwards.
LEMMA BootStep ==
    ASSUME TypeOK, [Next]_vars
    PROVE  boot' \in Nat /\ boot' >= boot
<1>1. ASSUME NEW r \in Requests, Boot(r)
      PROVE  boot' \in Nat /\ boot' >= boot
      BY <1>1 DEF Boot, TypeOK, kernel
<1> QED BY <1>1, Shapes, Others, Changes DEF TypeOK

LEMMA TypeStep == ASSUME TypeOK, [Next]_vars PROVE TypeOK'
<1> USE Typed, NodeAssumption
<1>1. CASE Outside
  <2>1. container' \in {"stopped", "running", "removed"} /\ live' \in Configs
        BY <1>1, Others DEF ContainerDies, ContainerStops, TypeOK, Configs
  <2>2. deaths' \in 0..MaxDeaths
        BY <1>1, Others DEF ContainerDies, TypeOK
  <2> QED BY <1>1, <2>1, <2>2, Others DEF TypeOK
<1>2. ASSUME NEW r \in Requests, Moves(r) PROVE TypeOK'
  <2>1. /\ plan' \in Plans /\ deaths' \in 0..MaxDeaths /\ at' \in [Requests -> Steps]
        /\ answer' \in [Requests -> {"none", "ok", "error"}]
        /\ todo' \in [Requests -> SUBSET Interfaces]
        BY <1>2, StepOfOne DEF TypeOK
  <2>2. met' \subseteq SUBSET Requests
    <3>1. \A s \in UnderWay : {r, s} \in SUBSET Requests
          BY DEF UnderWay
    <3>2. CASE at[r] = "begin"
      <4>1. met' = met \cup {{r, s} : s \in UnderWay}
            BY <1>2, <3>2, StepOfOne
      <4> QED BY <3>1, <4>1 DEF TypeOK
    <3>3. CASE at[r] # "begin"
          BY <1>2, <3>3, StepOfOne DEF TypeOK
    <3> QED BY <3>2, <3>3
  <2>3. running' \in BOOLEAN
        BY <1>2, Changes DEF TypeOK, Boot, SetStopped, BeginClose, node
  <2>4. loaded' \in BOOLEAN
        BY <1>2, Changes DEF TypeOK, SetLoaded, SetStopped, Remove
  <2>5. localNs' \in BOOLEAN
    <3>1. CASE Boot(r) \/ Remove(r)
          BY <3>1 DEF TypeOK, Boot, Remove, node
    <3>2. CASE BeginStop(r) \/ BeginAttach(r)
          BY <3>2 DEF TypeOK, BeginStop, BeginAttach, node
    <3> QED BY <1>2, <3>1, <3>2, Changes DEF TypeOK
  <2>6. recorded' \in [Interfaces -> {"none", "UP", "DOWN"}]
        BY <1>2, Changes DEF TypeOK, RecordState, AttachInterface, Remove, Wanted
  <2>7. container' \in {"stopped", "running", "removed"}
        BY <1>2, Changes DEF TypeOK, Boot, Halt, BeginClose, Remove, ContainerStops, kernel
  <2>8. boot' \in Nat /\ boot' >= boot
        BY BootStep
  <2>9. vrfs' \in BOOLEAN
        BY <1>2, Changes DEF TypeOK, Boot, CreateVrf, kernel
  <2>10. place' \in [Interfaces -> Nowhere..boot'] /\ up' \subseteq Interfaces
    <3>0. ns[r] \in Nowhere..boot /\ Local \in Nowhere..boot
          BY DEF TypeOK, Nowhere, Local
    <3>1. CASE MoveUp(r) \/ MoveDown(r)
      <4>1. boot' = boot
            BY <3>1 DEF MoveUp, MoveDown
      <4>2. place' \in [Interfaces -> Nowhere..boot] /\ up' \subseteq Interfaces
            BY <3>0, <3>1 DEF TypeOK, MoveUp, MoveDown
      <4> QED BY <4>1, <4>2
    <3>2. CASE CreateVeth(r)
          BY <2>8, <3>2 DEF TypeOK, CreateVeth, Nowhere
    <3>3. CASE Remove(r)
          BY <2>8, <3>3 DEF TypeOK, Remove, Nowhere
    <3>4. CASE SetState(r)
          BY <2>8, <3>4 DEF TypeOK, SetState
    <3>5. CASE place' = place /\ up' = up
          BY <2>8, <3>5 DEF TypeOK, Nowhere
    <3> QED BY <1>2, <3>1, <3>2, <3>3, <3>4, <3>5, Changes
  <2>11. ns' \in [Requests -> 0..boot']
    <3>1. CASE Enter(r) \/ BeginLoad(r) \/ SetStopped(r) \/ BeginState(r)
          BY <2>8, <3>1 DEF TypeOK, Enter, BeginLoad, SetStopped, BeginState, Local
    <3>2. CASE BeginStop(r) \/ BeginAttach(r)
          BY <2>8, <3>2 DEF TypeOK, BeginStop, BeginAttach, Local
    <3>3. CASE ns' = ns
          BY <2>8, <3>3 DEF TypeOK
    <3> QED BY <1>2, <3>1, <3>2, <3>3, Changes
  <2>12. live' \in Configs
    <3>1. CASE Boot(r) \/ Halt(r)
          BY <3>1 DEF TypeOK, Configs, Boot, Halt, ContainerStops
    <3>2. CASE ExecLoad(r) \/ LateLoad(r)
          BY <3>2 DEF TypeOK, ExecLoad, LateLoad
    <3>3. CASE BeginClose(r) \/ Remove(r)
          BY <3>3 DEF TypeOK, Configs, BeginClose, Remove, ContainerStops
    <3> QED BY <1>2, <3>1, <3>2, <3>3, Changes DEF TypeOK
  <2>13. file' \in Configs /\ archive' \in Configs
        BY <1>2, Changes
        DEF TypeOK, CopyConfig, ExecSave, FetchConfig, WriteArchive, Configs
  <2> QED BY <2>1, <2>2, <2>3, <2>4, <2>5, <2>6, <2>7, <2>8, <2>9, <2>10, <2>11, <2>12,
             <2>13 DEF TypeOK
<1> QED BY <1>1, <1>2, Shapes

\* A request keeps to the steps of its kind.
LEMMA StepsStep == ASSUME TypeOK, Together, StepsOfOps, [Next]_vars PROVE StepsOfOps'
<1>1. \A r \in Requests : Op(r)' = Op(r)
      BY EveryStep DEF Op
<1>2. CASE Outside
      BY <1>1, <1>2, Others DEF StepsOfOps
<1>3. ASSUME NEW r \in Requests, Moves(r) PROVE StepsOfOps'
  <2>1. \A s \in Requests \ {r} : at'[s] = at[s]
        BY <1>3, StepOfOne
  <2>2. /\ at'[r] \in {"boot", "enter", "moveUp", "load", "vrf", "copy", "exec",
                       "hung", "flag"} => Op(r) \in Starting
        /\ at'[r] = "again" => Op(r) = "restart"
        /\ at'[r] \in {"moveDown", "halt", "off"} => Op(r) \in {"stop", "restart"}
        /\ at'[r] \in {"saveCmd", "fetch"} => Op(r) \in Saving
        /\ at'[r] = "cut" => Op(r) = "save"
        /\ at'[r] \in {"set", "record"} => Op(r) \in {"down", "up"}
        /\ at'[r] \in {"veth", "add"} => Op(r) = "attach"
        /\ at'[r] = "rm" => Op(r) = "close"
    <3> USE DEF TypeOK, StepsOfOps, Starting, Ending, Saving, Goto, Answer
    <3>1. CASE BeginStart(r) \/ StartAgain(r) \/ Boot(r) \/ Enter(r) \/ MoveUp(r)
          BY <3>1 DEF BeginStart, StartAgain, Boot, Enter, MoveUp
    <3>2. CASE BeginLoad(r) \/ CreateVrf(r) \/ CopyConfig(r) \/ ExecLoad(r)
          BY <3>2 DEF BeginLoad, CreateVrf, CopyConfig, ExecLoad
    <3>3. CASE HungTimeout(r) \/ LateLoad(r) \/ SetLoaded(r)
          BY <3>3 DEF HungTimeout, LateLoad, SetLoaded
    <3>4. CASE BeginStop(r) \/ MoveDown(r) \/ Halt(r) \/ SetStopped(r)
          BY <3>4 DEF BeginStop, MoveDown, Halt, SetStopped
    <3>5. CASE BeginSave(r) \/ BeginRead(r) \/ ExecSave(r) \/ FetchConfig(r) \/ WriteArchive(r)
          BY <3>5 DEF BeginSave, BeginRead, ExecSave, FetchConfig, WriteArchive
    <3>6. CASE BeginState(r) \/ SetState(r) \/ RecordState(r)
          BY <3>6 DEF BeginState, SetState, RecordState
    <3>7. CASE BeginAttach(r) \/ CreateVeth(r) \/ AttachInterface(r)
          BY <3>7 DEF BeginAttach, CreateVeth, AttachInterface
    <3>8. CASE BeginClose(r) \/ Remove(r)
          BY <3>8 DEF BeginClose, Remove
    <3> QED BY <1>3, <3>1, <3>2, <3>3, <3>4, <3>5, <3>6, <3>7, <3>8 DEF Moves, Step
  <2> QED BY <1>1, <2>1, <2>2 DEF StepsOfOps
<1> QED BY <1>2, <1>3, Shapes

\* Requests that are under way together have met.
LEMMA TogetherStep == ASSUME TypeOK, Together, [Next]_vars PROVE Together'
<1>1. CASE Outside
      BY <1>1, Others DEF Together, UnderWay
<1>2. ASSUME NEW r \in Requests, Moves(r) PROVE Together'
  <2>1. \A s \in Requests \ {r} : at'[s] = at[s] /\ answer'[s] = answer[s]
        BY <1>2, StepOfOne
  <2>2. at[r] # "done" /\ (at'[r] = "done" \/ answer'[r] = answer[r])
        BY <1>2, StepOfOne
  <2>3. \A s \in UnderWay \ {r} : {r, s} \in met'
        BY <1>2, StepOfOne DEF Together, UnderWay
  <2>4. \A s \in Requests \ {r} : s \in UnderWay' <=> s \in UnderWay
        BY <2>1 DEF UnderWay
  <2>5. \A s, t \in UnderWay' : s # t => {s, t} \in met'
    <3> SUFFICES ASSUME NEW s \in UnderWay', NEW t \in UnderWay', s # t
                 PROVE  {s, t} \in met'
        OBVIOUS
    <3>1. s \in Requests /\ t \in Requests
          BY DEF UnderWay
    <3>2. CASE s = r
          BY <2>3, <2>4, <3>1, <3>2
    <3>3. CASE t = r
      <4>1. {s, t} = {t, s}
            OBVIOUS
      <4> QED BY <2>3, <2>4, <3>1, <3>3, <4>1
    <3>4. CASE s # r /\ t # r
          BY <1>2, <2>4, <3>1, <3>4, EveryStep DEF Together
    <3> QED BY <3>2, <3>3, <3>4
  <2>6. \A s \in Requests : answer'[s] # "none" => at'[s] = "done"
        BY <2>1, <2>2 DEF Together
  <2> QED BY <2>5, <2>6 DEF Together
<1> QED BY <1>1, <1>2, Shapes

\* Two requests under way together count as met for Met.
LEMMA Overlap ==
    ASSUME Together, NEW r \in UnderWay, NEW s \in UnderWay, r # s,
           NEW A, NEW B, Op(r) \in A, Op(s) \in B
    PROVE  Met(A, B)
BY DEF Together, Met, UnderWay


\* A close disturbs.
LEMMA ClosesDisturb ==
    ASSUME TypeOK, StepsOfOps, NEW r \in Requests, Moves(r), BeginClose(r) \/ Remove(r)
    PROVE  Disturbed'
<1>1. Op(r)' = "close"
      BY StepOfOne DEF BeginClose, Remove, StepsOfOps, Op
<1>2. at'[r] # "begin"
      BY StepOfOne
<1> QED BY <1>1, <1>2 DEF Disturbed

-----------------------------------------------------------------------------
(* Configurations.                                                          *)

LEMMA TornStep ==
    ASSUME TypeOK, StepsOfOps, Together, TornFollows, [Next]_vars, TypeOK', StepsOfOps'
    PROVE  TornFollows'
<1> SUFFICES ASSUME ~Cut' PROVE TornFollows'
    BY DEF TornFollows
<1>1. ~Cut
      BY ExcusesStay
<1>2. /\ file # "torn" /\ live # "torn"
      /\ archive = "torn" => \E q \in Requests : Op(q) = "save" /\ at[q] = "cut"
      BY <1>1 DEF TornFollows
<1>3. \A q \in Requests : Op(q)' = Op(q)
      BY EveryStep DEF Op
<1>4. CASE Outside
  <2>1. live' # "torn"
        BY <1>2, <1>4, Others DEF ContainerDies, ContainerStops
  <2> QED BY <1>2, <1>3, <1>4, <2>1, Others DEF TornFollows
<1>5. ASSUME NEW r \in Requests, Moves(r) PROVE TornFollows'
  <2>1. file' # "torn"
    <3>1. CASE CopyConfig(r)
      <4>1. at[r] = "copy" /\ Op(r) \in Starting
            BY <3>1 DEF CopyConfig, StepsOfOps
      <4>2. ASSUME NEW q \in Requests, Op(q) = "save", at[q] = "cut" PROVE FALSE
        <5>1. Op(q) \in Saving /\ q # r /\ q \in UnderWay /\ r \in UnderWay
              BY <4>1, <4>2 DEF Saving, UnderWay
        <5>2. Met(Starting, Saving)
              BY <4>1, <5>1, Overlap
        <5> QED BY <1>1, <5>2 DEF Cut
      <4> QED BY <1>2, <3>1, <4>2 DEF CopyConfig
    <3>2. CASE ExecSave(r)
          BY <1>2, <3>2 DEF ExecSave
    <3> QED BY <1>2, <1>5, <3>1, <3>2, Changes
  <2>2. live' # "torn"
        BY <1>2, <1>5, Changes DEF Boot, ExecLoad, LateLoad, Halt, BeginClose, Remove,
           ContainerStops
  <2>3. ASSUME archive' = "torn"
        PROVE  \E q \in Requests : Op(q) = "save" /\ at'[q] = "cut"
    <3>1. CASE FetchConfig(r) /\ archive' # archive
          BY <3>1 DEF FetchConfig, Goto, TypeOK
    <3>2. CASE WriteArchive(r)
      <4>1. Op(r)' = "save" /\ answer'[r] = "error"
            BY <1>2, <1>3, <2>3, <3>2 DEF WriteArchive, Answer, TypeOK, StepsOfOps
      <4> QED BY <4>1 DEF Cut
    <3>3. CASE archive' = archive /\ ~WriteArchive(r)
      <4>1. PICK q \in Requests : Op(q) = "save" /\ at[q] = "cut"
            BY <1>2, <2>3, <3>3
      <4>2. q # r
            BY <1>5, <3>3, <4>1, Which
      <4> QED BY <1>5, <4>1, <4>2, StepOfOne
    <3> QED BY <1>5, <3>1, <3>2, <3>3, Changes
  <2> QED BY <1>3, <2>1, <2>2, <2>3 DEF TornFollows
<1> QED BY <1>4, <1>5, Shapes

LEMMA BlankStep ==
    ASSUME TypeOK, StepsOfOps, Together, BlankFollows, [Next]_vars
    PROVE  BlankFollows'
<1> SUFFICES ASSUME ~Beside' PROVE BlankFollows'
    BY DEF BlankFollows
<1>1. ~Beside /\ ~Disturbed'
      BY ExcusesStay DEF Beside
<1>2. /\ file # "blank" /\ archive # "blank"
      /\ loaded /\ container = "running" => live # "blank"
      /\ loaded /\ container # "running" => \E t \in Requests : at[t] = "off"
      /\ \A r \in Requests : at[r] = "saveCmd" => loaded
      /\ \A s \in Requests : at[s] = "flag" => container = "running" /\ live # "blank"
      BY <1>1 DEF BlankFollows
<1>3. CASE Outside
  <2>1. container' = container /\ (live' = live \/ live' = "edited")
        BY <1>1, <1>3, Others, DeathsDisturb
  <2> QED BY <1>2, <1>3, <2>1, Others DEF BlankFollows
<1>4. ASSUME NEW r \in Requests, Moves(r) PROVE BlankFollows'
  <2>1. ~BeginClose(r) /\ ~Remove(r)
        BY <1>1, <1>4, ClosesDisturb
  <2>2. ASSUME NEW t \in Requests, NEW s \in Requests, at[t] \in {"halt", "off"},
               at[s] \in {"boot", "enter", "moveUp", "load", "vrf", "copy", "exec",
                          "hung", "flag", "saveCmd"}
        PROVE  FALSE
    <3>1. t # s /\ t \in UnderWay /\ s \in UnderWay
          BY <2>2 DEF UnderWay
    <3>2. Op(t) \in Ending /\ Op(s) \in Starting \cup Saving
          BY <2>2 DEF StepsOfOps, Ending
    <3> QED BY <1>1, <3>1, <3>2, Overlap DEF Beside
  <2>3. \A s \in Requests \ {r} : at'[s] = at[s]
        BY <1>4, StepOfOne
  <2>4. CASE Boot(r)
    <3>1. /\ loaded' = loaded /\ file' = file /\ archive' = archive
          /\ at[r] = "boot" /\ at'[r] \in {"enter", "done"}
          BY <2>4 DEF Boot, Goto, Answer, TypeOK
    <3>2. \/ container' = container /\ live' = live
          \/ container = "stopped" /\ container' = "running"
          BY <2>4 DEF Boot, kernel, TypeOK
    <3>3. container # "running" => ~loaded
          BY <1>2, <2>2, <3>1
    <3>4. \A s \in Requests : at'[s] \in {"saveCmd", "flag", "off"} <=>
                                 at[s] \in {"saveCmd", "flag", "off"}
          BY <2>3, <3>1
    <3>5. \A s \in Requests : at[s] \in {"saveCmd", "flag", "off"} => at'[s] = at[s]
          BY <2>3, <3>1
    <3> QED BY <1>2, <3>1, <3>2, <3>3, <3>4, <3>5 DEF BlankFollows
  <2>5. CASE Halt(r)
    <3>1. /\ loaded' = loaded /\ file' = file /\ archive' = archive
          /\ at[r] = "halt"
          /\ \/ at'[r] = "off" /\ container' # "running"
             \/ at'[r] = "done" /\ container' = container /\ live' = live
          BY <2>5 DEF Halt, Goto, Answer, TypeOK, ContainerStops, node
    <3>2. \A s \in Requests : at[s] \notin {"saveCmd", "flag"}
          BY <2>2, <3>1
    <3> QED BY <1>2, <2>3, <3>1, <3>2 DEF BlankFollows
  <2>6. CASE SetStopped(r)
    <3>1. /\ loaded' = FALSE /\ file' = file /\ archive' = archive
          /\ at[r] = "off" /\ at'[r] \in {"again", "done"}
          BY <2>6 DEF SetStopped, Goto, Answer, TypeOK, config
    <3>2. \A s \in Requests : at[s] \notin {"saveCmd", "flag"}
          BY <2>2, <3>1
    <3> QED BY <1>2, <2>3, <3>1, <3>2 DEF BlankFollows
  <2>7. CASE SetLoaded(r)
    <3>1. /\ loaded' = TRUE /\ file' = file /\ archive' = archive
          /\ container' = container /\ live' = live
          /\ at[r] = "flag" /\ at'[r] = "done"
          BY <2>7 DEF SetLoaded, Answer, TypeOK, config, kernel
    <3> QED BY <1>2, <2>3, <3>1 DEF BlankFollows
  <2>8. CASE ~Boot(r) /\ ~Halt(r) /\ ~SetStopped(r) /\ ~SetLoaded(r)
    <3>1. loaded' = loaded /\ container' = container
          BY <1>4, <2>1, <2>8, Changes
    <3>2. file' # "blank"
          BY <1>2, <1>4, Changes DEF CopyConfig, ExecSave
    <3>3. archive' # "blank"
          BY <1>2, <1>4, Changes DEF FetchConfig, WriteArchive
    <3>4. live' = live \/ live' = file
          BY <1>4, <2>1, <2>8, Changes DEF ExecLoad, LateLoad
    <3>5. at[r] # "off" /\ at[r] # "flag"
          BY <1>4, <2>8, Which
    <3>6. at'[r] = "saveCmd" => loaded
          BY <1>4, Arrives
    <3>7. at'[r] = "flag" => container' = "running" /\ live' = file
          BY <1>4, Arrives
    <3> QED BY <1>2, <2>3, <3>1, <3>2, <3>3, <3>4, <3>5, <3>6, <3>7 DEF BlankFollows
  <2> QED BY <2>4, <2>5, <2>6, <2>7, <2>8
<1> QED BY <1>3, <1>4, Shapes


-----------------------------------------------------------------------------
(* Interfaces.                                                              *)

\* The invariant, of behaviours that are not excused.
Sound ==
    /\ TypeOK /\ boot > 0 /\ StepsOfOps /\ Together
    /\ HandlesLive /\ PlacesLive /\ SunkStay /\ StatesKnown

\* How an interface moves: from the local namespace to that of the handle of a
\* start, or back; it leaves the interfaces still to move with that.
LEMMA Moved ==
    ASSUME TypeOK, NEW r \in Requests, NEW i \in Interfaces
    PROVE  /\ MoveUp(r) =>
                 /\ todo'[r] \subseteq todo[r]
                 /\ \/ place'[i] = place[i]
                    \/ /\ i \in todo[r] /\ i \notin todo'[r] /\ at'[r] = "moveUp"
                       /\ place[i] = Local /\ place'[i] = ns[r]
           /\ MoveDown(r) =>
                 /\ todo'[r] \subseteq todo[r]
                 /\ \/ place'[i] = place[i] /\ (i \in todo[r] <=> i \in todo'[r])
                    \/ i \in todo[r] /\ place[i] = ns[r] /\ place'[i] = Local
<1>1. ASSUME MoveUp(r)
      PROVE  /\ todo'[r] \subseteq todo[r]
             /\ \/ place'[i] = place[i]
                \/ /\ i \in todo[r] /\ i \notin todo'[r] /\ at'[r] = "moveUp"
                   /\ place[i] = Local /\ place'[i] = ns[r]
      BY <1>1 DEF MoveUp, TypeOK, Goto, Answer
<1>2. ASSUME MoveDown(r)
      PROVE  /\ todo'[r] \subseteq todo[r]
             /\ \/ place'[i] = place[i] /\ (i \in todo[r] <=> i \in todo'[r])
                \/ i \in todo[r] /\ place[i] = ns[r] /\ place'[i] = Local
      BY <1>2 DEF MoveDown, TypeOK, Goto, Answer
<1> QED BY <1>1, <1>2

\* In a behaviour that is not excused nothing is closed, and no request attaches an
\* interface while the node starts or stops.
LEMMA Calm ==
    ASSUME Sound, NEW r \in Requests, Moves(r), TypeOK', StepsOfOps', Together', ~Excused'
    PROVE  /\ \A s \in Requests : Op(s)' = Op(s) /\ If(s)' = If(s)
           /\ \A s \in Requests \ {r} : at'[s] = at[s] /\ todo'[s] = todo[s] /\ ns'[s] = ns[s]
           /\ ~BeginClose(r) /\ ~Remove(r) /\ ~Excused
           /\ \A a, s \in Requests :
                 ~(at[a] \in {"veth", "add"} /\ s \in UnderWay /\ Op(s) \in Starting \cup Ending)
           /\ \A a, s \in Requests :
                 ~(at'[a] \in {"veth", "add"} /\ s \in UnderWay' /\ Op(s) \in Starting \cup Ending)
<1> USE DEF Sound
<1>1. [Next]_vars
      BY DEF Next, Moves
<1>2. \A s \in Requests : Op(s)' = Op(s) /\ If(s)' = If(s)
      BY StepOfOne DEF Op, If
<1>3. ~Excused /\ ~Disturbed' /\ ~Met({"attach"}, Starting \cup Ending)'
      BY <1>1, ExcusesStay DEF Excused
<1>4. ~BeginClose(r) /\ ~Remove(r)
      BY <1>3, ClosesDisturb
<1>5. ASSUME NEW a \in Requests, NEW s \in Requests,
             at[a] \in {"veth", "add"}, s \in UnderWay, Op(s) \in Starting \cup Ending
      PROVE  FALSE
  <2>1. Op(a) = "attach" /\ a \in UnderWay
        BY <1>5 DEF StepsOfOps, UnderWay
  <2>2. a # s
        BY <1>5, <2>1 DEF Starting, Ending
  <2>3. Met({"attach"}, Starting \cup Ending)
        BY <1>5, <2>1, <2>2, Overlap
  <2> QED BY <1>3, <2>3 DEF Excused
<1>6. ASSUME NEW a \in Requests, NEW s \in Requests,
             at'[a] \in {"veth", "add"}, s \in UnderWay', Op(s) \in Starting \cup Ending
      PROVE  FALSE
  <2>1. Op(a) = "attach" /\ a \in UnderWay'
        BY <1>2, <1>6 DEF StepsOfOps, UnderWay
  <2>2. a # s
        BY <1>6, <2>1 DEF Starting, Ending
  <2>3. {a, s} \in met'
        BY <1>6, <2>1, <2>2 DEF Together
  <2> QED BY <1>2, <1>3, <1>6, <2>1, <2>3 DEF Met, Starting, Ending
<1> QED BY <1>2, <1>3, <1>4, <1>5, <1>6, StepOfOne

\* What becomes of the interfaces: the one whose veth is created is new.
LEMMA OwedStep ==
    ASSUME Sound, NEW r \in Requests, Moves(r), TypeOK', StepsOfOps', Together', ~Excused'
    PROVE  /\ Owed \subseteq Interfaces /\ Owed' \subseteq Interfaces
           /\ \A i \in Owed' \ Owed :
                 CreateVeth(r) /\ at[r] = "veth" /\ at'[r] = "add" /\ i = If(r) /\ place'[i] = ns[r]
           /\ StatesKnown'
<1> USE DEF Sound
<1>1. Owed \subseteq Interfaces /\ Owed' \subseteq Interfaces
      BY Typed, Calm DEF Owed, Attached
<1>2. recorded' = recorded \/ RecordState(r) \/ AttachInterface(r)
      BY Changes, Calm
<1>3. RecordState(r) => at[r] = "record" /\ \A i \in Interfaces :
            recorded'[i] = IF i = If(r) THEN Wanted(r) ELSE recorded[i]
      BY DEF RecordState, TypeOK
<1>4. AttachInterface(r) => at[r] = "add" /\ \A i \in Interfaces :
            recorded'[i] = IF i = If(r) THEN "UP" ELSE recorded[i]
      BY DEF AttachInterface, TypeOK
<1>5. Attached \subseteq Attached' /\ Attached' \subseteq Owed
  <2>1. CASE recorded' = recorded
        BY <2>1 DEF Attached, Owed
  <2>2. CASE RecordState(r)
    <3>1. If(r) \in Attached
          BY <1>3, <2>2 DEF StatesKnown
    <3> QED BY <1>3, <2>2, <3>1 DEF Attached, Owed, Wanted
  <2>3. CASE AttachInterface(r)
        BY <1>4, <2>3 DEF Attached, Owed
  <2> QED BY <1>2, <2>1, <2>2, <2>3
<1>6. \A i \in Owed' \ Owed :
            CreateVeth(r) /\ at[r] = "veth" /\ at'[r] = "add" /\ i = If(r) /\ place'[i] = ns[r]
  <2> SUFFICES ASSUME NEW i \in Owed', i \notin Owed
               PROVE  CreateVeth(r) /\ at[r] = "veth" /\ at'[r] = "add" /\ i = If(r)
                      /\ place'[i] = ns[r]
      OBVIOUS
  <2>1. PICK a \in Requests : at'[a] = "add" /\ i = If(a)
        BY <1>5, Calm DEF Owed
  <2>2. a = r
        BY <2>1, Calm DEF Owed
  <2> QED BY <2>1, <2>2, Arrives DEF CreateVeth
<1>7. StatesKnown'
  <2> SUFFICES ASSUME NEW a \in Requests, at'[a] \in {"set", "record"}
               PROVE  If(a) \in Attached
      BY <1>5, Calm DEF StatesKnown
  <2>1. CASE a = r
    <3>1. BeginState(r) \/ SetState(r)
          BY <2>1, Arrives DEF Moves
    <3> QED BY <2>1, <3>1, Typed DEF BeginState, SetState, StatesKnown, Attached, Answer, TypeOK
  <2>2. CASE a # r
        BY <2>2, Calm DEF StatesKnown
  <2> QED BY <2>1, <2>2
<1> QED BY <1>1, <1>6, <1>7


\* The handles of an attach, of a stop and of a start stay good.
LEMMA HandlesStep ==
    ASSUME Sound, NEW r \in Requests, Moves(r), TypeOK', StepsOfOps', Together', ~Excused'
    PROVE  HandlesLive'
<1> USE DEF Sound
<1>1. localNs => localNs'
      BY Changes, Calm DEF Boot, BeginStop, BeginAttach, node
<1>2. ASSUME NEW a \in Requests, at'[a] \in {"veth", "add"}
      PROVE  Steady(ns[a])' /\ (ns'[a] # Local => running')
  <2>1. CASE a = r
    <3>1. CASE at'[r] = "veth"
      <4>1. /\ ns'[r] = IF running THEN boot ELSE Local
            /\ running => container = "running"
            /\ localNs' = (localNs \/ ~running)
            /\ running' = running /\ container' = container /\ boot' = boot
            BY <3>1, Arrives DEF BeginAttach, Answer, TypeOK, kernel
      <4> QED BY <2>1, <4>1 DEF Steady, Local, TypeOK
    <3>2. CASE at'[r] = "add"
      <4>1. /\ at[r] = "veth" /\ ns' = ns
            /\ running' = running /\ container' = container /\ boot' = boot
            BY <3>2, Arrives DEF CreateVeth, node
      <4> QED BY <1>1, <2>1, <4>1 DEF HandlesLive, Steady
    <3> QED BY <1>2, <2>1, <3>1, <3>2
  <2>2. CASE a # r
    <3>1. at[a] \in {"veth", "add"} /\ ns'[a] = ns[a]
          BY <1>2, <2>2, Calm
    <3>2. ~Boot(r) /\ ~SetStopped(r) /\ ~Halt(r)
          BY <3>1, Calm DEF Boot, SetStopped, Halt, UnderWay, StepsOfOps, Ending
    <3>3. running' = running /\ container' = container /\ boot' = boot
          BY <3>2, Calm, Changes
    <3> QED BY <1>1, <3>1, <3>3 DEF HandlesLive, Steady
  <2> QED BY <2>1, <2>2
<1>3. ASSUME NEW t \in Requests, at'[t] = "moveDown"
      PROVE  ns'[t] > Local /\ localNs'
  <2>1. CASE t = r
    <3>1. CASE BeginStop(r)
          BY <1>3, <2>1, <3>1 DEF BeginStop, TypeOK, Local, Answer, Goto
    <3>2. CASE MoveDown(r)
          BY <1>1, <2>1, <3>2 DEF MoveDown, HandlesLive
    <3> QED BY <1>3, <2>1, <3>1, <3>2, Arrives
  <2>2. CASE t # r
        BY <1>1, <1>3, <2>2, Calm DEF HandlesLive
  <2> QED BY <2>1, <2>2
<1>4. ASSUME NEW s \in Requests, NEW i \in Owed', Rising(s, i)', at'[s] # "boot"
      PROVE  /\ running' /\ container' = "running"
             /\ at'[s] = "moveUp" => ns'[s] = boot'
  <2>1. s \in UnderWay' /\ Op(s) \in Starting
        BY <1>4, Calm DEF Rising, UnderWay, StepsOfOps
  <2>2. i \in Owed
        BY <2>1, Calm, OwedStep
  <2>3. CASE s = r
    <3>1. CASE at'[r] = "enter"
          BY <2>3, <3>1, Arrives
    <3>2. CASE at'[r] = "moveUp"
      <4>1. CASE Enter(r)
        <5>1. at[r] = "enter" /\ ns'[r] = boot /\ boot' = boot
              /\ running' = running /\ container' = container
              BY <3>2, <4>1 DEF Enter, node, kernel, TypeOK, Answer
        <5> QED BY <2>2, <2>3, <5>1 DEF HandlesLive, Rising
      <4>2. CASE MoveUp(r) /\ todo'[r] \subseteq todo[r]
        <5>1. at[r] = "moveUp" /\ ns' = ns /\ boot' = boot
              /\ running' = running /\ container' = container
              BY <4>2 DEF MoveUp, node
        <5>2. Rising(r, i)
              BY <1>4, <2>3, <3>2, <4>2, <5>1 DEF Rising
        <5> QED BY <2>2, <2>3, <5>1, <5>2 DEF HandlesLive
      <4> QED BY <3>2, <4>1, <4>2, Arrives
    <3> QED BY <1>4, <2>3, <3>1, <3>2 DEF Rising
  <2>4. CASE s # r
    <3>1. Rising(s, i) /\ at'[s] = at[s] /\ ns'[s] = ns[s]
          BY <1>4, <2>4, Calm DEF Rising
    <3>2. /\ running /\ container = "running"
          /\ at[s] = "moveUp" => ns[s] = boot
          BY <1>4, <2>2, <3>1 DEF HandlesLive
    <3>3. ~Sunk(r, i)
          BY <2>2, <2>4, <3>1 DEF SunkStay
    <3>4. ~Halt(r) /\ ~SetStopped(r)
          BY <3>3 DEF Halt, SetStopped, Sunk
    <3>5. running' /\ container' = container /\ boot' = boot
      <4>1. CASE Boot(r)
            BY <3>2, <4>1 DEF Boot, node, kernel
      <4>2. CASE ~Boot(r)
            BY <3>2, <3>4, <4>2, Changes, Calm
      <4> QED BY <4>1, <4>2
    <3> QED BY <3>1, <3>2, <3>5
  <2> QED BY <2>3, <2>4
<1> QED BY <1>2, <1>3, <1>4 DEF HandlesLive

\* Every interface stays in a namespace that lives.
LEMMA PlacesStep ==
    ASSUME Sound, NEW r \in Requests, Moves(r), TypeOK', StepsOfOps', Together', ~Excused'
    PROVE  PlacesLive'
<1> USE DEF Sound
<1> SUFFICES ASSUME NEW i \in Owed'
             PROVE  /\ Steady(place[i])'
                    /\ place'[i] # Local => running'
                    /\ \A s \in Requests : Rising(s, i)' /\ place'[i] # Local =>
                          \E q \in Requests \ {s} :
                              {s, q} \in met' /\ Op(q) \in Starting /\ Risen(q)'
    BY Calm DEF PlacesLive
<1>1. i \in Interfaces
      BY OwedStep
<1>2. localNs => localNs'
      BY Changes, Calm DEF Boot, BeginStop, BeginAttach, node
<1>3. CASE CreateVeth(r) /\ i = If(r)
  <2>1. /\ at[r] = "veth" /\ running' = running /\ container' = container /\ boot' = boot
        /\ place'[i] = ns[r] \/ place'[i] = place[i]
        BY <1>1, <1>3 DEF CreateVeth, node, TypeOK
  <2>2. place'[i] = ns[r] \/ i \in Owed
        BY OwedStep
  <2>3. /\ Steady(ns[r]) /\ (ns[r] # Local => running)
        /\ i \in Owed => Steady(place[i]) /\ (place[i] # Local => running)
        BY <2>1 DEF HandlesLive, PlacesLive
  <2>4. Steady(place[i])' /\ (place'[i] # Local => running')
        BY <1>2, <2>1, <2>2, <2>3, OwedStep DEF Steady
  <2>5. \A s \in Requests : ~Rising(s, i)'
    <3> SUFFICES ASSUME NEW s \in Requests, Rising(s, i)' PROVE FALSE
        OBVIOUS
    <3>1. s # r
          BY <1>3 DEF CreateVeth, Rising, Goto, Answer, TypeOK
    <3>2. s \in UnderWay /\ Op(s) \in Starting
          BY <3>1, Calm DEF Rising, UnderWay, StepsOfOps
    <3> QED BY <2>1, <3>2, Calm
  <2> QED BY <2>4, <2>5
<1>4. CASE ~(CreateVeth(r) /\ i = If(r))
  <2>1. i \in Owed
        BY <1>4, OwedStep
  <2>2. /\ Steady(place[i]) /\ (place[i] # Local => running)
        /\ \A s \in Requests : Rising(s, i) /\ place[i] # Local =>
              \E q \in Requests \ {s} : {s, q} \in met /\ Op(q) \in Starting /\ Risen(q)
        BY <2>1 DEF PlacesLive
  <2>3. \/ place'[i] = place[i]
        \/ /\ MoveUp(r) /\ Rising(r, i) /\ at'[r] = "moveUp" /\ i \notin todo'[r]
           /\ place[i] = Local /\ place'[i] = ns[r]
        \/ MoveDown(r) /\ at[r] = "moveDown" /\ place'[i] = Local
    <3>1. CASE MoveUp(r)
          BY <1>1, <3>1, Moved DEF Rising, MoveUp
    <3>2. CASE MoveDown(r)
          BY <1>1, <3>2, Moved DEF MoveDown
    <3>3. CASE CreateVeth(r)
          BY <1>1, <1>4, <3>3 DEF CreateVeth, TypeOK
    <3> QED BY <3>1, <3>2, <3>3, Changes, Calm
  <2>4. CASE place'[i] = place[i]
    <3>1. Steady(place[i])'
      <4>1. CASE Boot(r)
        <5>1. \/ boot' = boot /\ container' = container
              \/ container # "running" /\ localNs'
              BY <4>1 DEF Boot, kernel, TypeOK
        <5> QED BY <1>2, <2>2, <2>4, <5>1 DEF Steady
      <4>2. CASE Halt(r)
        <5>1. place[i] = Local
              BY <2>1, <4>2 DEF SunkStay, Sunk, Halt
        <5> QED BY <1>2, <2>2, <2>4, <5>1 DEF Steady, Local
      <4>3. CASE ~Boot(r) /\ ~Halt(r)
        <5>1. container' = container /\ boot' = boot
              BY <4>3, Changes, Calm
        <5> QED BY <1>2, <2>2, <2>4, <5>1 DEF Steady
      <4> QED BY <4>1, <4>2, <4>3
    <3>2. place[i] # Local => running'
      <4>1. CASE SetStopped(r)
            BY <2>1, <4>1 DEF SunkStay, Sunk, SetStopped
      <4>2. CASE ~SetStopped(r)
            BY <2>2, <4>2, Changes, Calm DEF Boot, node
      <4> QED BY <4>1, <4>2
    <3>3. ASSUME NEW s \in Requests, Rising(s, i)', place[i] # Local
          PROVE  \E q \in Requests \ {s} :
                     {s, q} \in met' /\ Op(q) \in Starting /\ Risen(q)'
      <4>1. Rising(s, i)
        <5>1. CASE s = r
              BY <2>2, <3>3, <5>1, Arrives DEF Rising, Boot, Enter, MoveUp
        <5>2. CASE s # r
              BY <3>3, <5>2, Calm DEF Rising
        <5> QED BY <5>1, <5>2
      <4>2. PICK q \in Requests \ {s} : {s, q} \in met /\ Op(q) \in Starting /\ Risen(q)
            BY <2>2, <3>3, <4>1
      <4>3. Risen(q)'
        <5>1. CASE q = r
              BY <4>2, <5>1, Arrives, StepOfOne DEF Risen
        <5>2. CASE q # r
              BY <4>2, <5>2, Calm DEF Risen
        <5> QED BY <5>1, <5>2
      <4>4. {s, q} \in met'
            BY <4>2, StepOfOne
      <4> QED BY <4>2, <4>3, <4>4
    <3> QED BY <2>4, <3>1, <3>2, <3>3
  <2>5. CASE /\ MoveUp(r) /\ Rising(r, i) /\ at'[r] = "moveUp" /\ i \notin todo'[r]
             /\ place[i] = Local /\ place'[i] = ns[r]
    <3>1. at[r] = "moveUp" /\ running' = running /\ container' = container /\ boot' = boot
          BY <2>5 DEF MoveUp, node
    <3>2. running /\ container = "running" /\ ns[r] = boot
          BY <2>1, <2>5, <3>1 DEF HandlesLive
    <3>3. Steady(place[i])' /\ running'
          BY <2>5, <3>1, <3>2 DEF Steady, Local
    <3>4. ASSUME NEW s \in Requests, Rising(s, i)'
          PROVE  \E q \in Requests \ {s} :
                     {s, q} \in met' /\ Op(q) \in Starting /\ Risen(q)'
      <4>1. s # r
            BY <2>5, <3>4 DEF Rising
      <4>2. s \in UnderWay /\ r \in UnderWay
            BY <3>1, <3>4, <4>1, Calm DEF Rising, UnderWay
      <4>3. {s, r} \in met'
            BY <4>1, <4>2, StepOfOne DEF Together
      <4>4. Op(r) \in Starting /\ Risen(r)'
            BY <2>5, <3>1 DEF StepsOfOps, Risen
      <4> QED BY <4>1, <4>3, <4>4
    <3> QED BY <3>3, <3>4
  <2>6. CASE MoveDown(r) /\ at[r] = "moveDown" /\ place'[i] = Local
        BY <1>2, <2>6 DEF HandlesLive, Steady
  <2> QED BY <2>3, <2>4, <2>5, <2>6
<1> QED BY <1>3, <1>4


\* An interface that a stop has moved stays in the local namespace.
LEMMA SunkStep ==
    ASSUME Sound, NEW r \in Requests, Moves(r), TypeOK', StepsOfOps', Together', ~Excused'
    PROVE  SunkStay'
<1> USE DEF Sound
<1> SUFFICES ASSUME NEW t \in Requests, NEW i \in Owed', Sunk(t, i)'
             PROVE  /\ place'[i] = Local /\ running'
                    /\ \A s \in Requests \ {t} : ~Rising(s, i)' /\ ~Sunk(s, i)'
    BY DEF SunkStay
<1>1. t \in UnderWay' /\ Op(t) \in Ending
      BY Calm DEF Sunk, UnderWay, StepsOfOps, Ending
<1>2. i \in Owed /\ i \in Interfaces
      BY <1>1, OwedStep, Calm
<1>3. ~(at'[r] = "add" /\ If(r) = i) /\ ~(CreateVeth(r) /\ place'[i] # place[i])
  <2>1. ~(at'[r] = "add")
        BY <1>1, Calm
  <2>2. CreateVeth(r) => at'[r] = "add" \/ place' = place
        BY DEF CreateVeth, Goto, TypeOK
  <2> QED BY <2>1, <2>2
<1>4. \A s \in Requests \ {r} : /\ Rising(s, i)' <=> Rising(s, i)
                                /\ Sunk(s, i)' <=> Sunk(s, i)
      BY Calm DEF Rising, Sunk
<1>5. \A u \in Requests : Sunk(u, i) =>
            /\ place[i] = Local /\ running
            /\ \A s \in Requests \ {u} : ~Rising(s, i) /\ ~Sunk(s, i)
      BY <1>2 DEF SunkStay
\* The request that moves an interface out of the container finds it there.
<1>6. Sunk(r, i)' =>
            \/ Sunk(r, i) /\ place'[i] = place[i] /\ running' = running
            \/ /\ MoveDown(r) /\ at[r] = "moveDown" /\ place[i] # Local /\ place'[i] = Local
               /\ running' = running
  <2> SUFFICES ASSUME Sunk(r, i)'
               PROVE  \/ Sunk(r, i) /\ place'[i] = place[i] /\ running' = running
                      \/ /\ MoveDown(r) /\ at[r] = "moveDown" /\ place[i] # Local
                         /\ place'[i] = Local /\ running' = running
      OBVIOUS
  <2>1. CASE at'[r] = "halt"
        BY <2>1, Arrives DEF Sunk, MoveDown, node
  <2>2. CASE at'[r] = "off"
        BY <2>2, Arrives DEF Sunk, Halt, node
  <2>3. CASE at'[r] = "moveDown" /\ i \notin todo'[r]
    <3>1. CASE BeginStop(r)
      <4>1. i \notin Attached
            BY <2>3, <3>1 DEF BeginStop, Answer, Goto, TypeOK
      <4>2. PICK a \in Requests : at[a] = "add" /\ i = If(a)
            BY <1>2, <4>1 DEF Owed
      <4>3. at'[a] = "add"
            BY <3>1, <4>2, Calm DEF BeginStop
      <4>4. r \in UnderWay' /\ Op(r) \in Ending
            BY <2>3, <3>1 DEF UnderWay, BeginStop, Ending
      <4> QED BY <4>3, <4>4, Calm
    <3>2. CASE MoveDown(r)
      <4>1. at[r] = "moveDown" /\ running' = running
            BY <3>2 DEF MoveDown, node
      <4>2. ns[r] > Local
            BY <4>1 DEF HandlesLive
      <4>3. \/ place'[i] = place[i] /\ i \notin todo[r]
            \/ place[i] = ns[r] /\ place'[i] = Local
            BY <1>2, <2>3, <3>2, Moved
      <4> QED BY <3>2, <4>1, <4>2, <4>3 DEF Sunk, Local
    <3> QED BY <2>3, <3>1, <3>2, Arrives
  <2> QED BY <2>1, <2>2, <2>3 DEF Sunk
<1>7. CASE t = r
  <2>1. CASE Sunk(r, i) /\ place'[i] = place[i] /\ running' = running
        BY <1>4, <1>5, <1>7, <2>1
  <2>2. CASE /\ MoveDown(r) /\ at[r] = "moveDown" /\ place[i] # Local /\ place'[i] = Local
             /\ running' = running
    <3>1. running
          BY <1>2, <2>2 DEF PlacesLive
    <3>2. ASSUME NEW s \in Requests \ {r}, Rising(s, i) PROVE FALSE
      <4>1. PICK q \in Requests \ {s} : {s, q} \in met /\ Op(q) \in Starting /\ Risen(q)
            BY <1>2, <2>2, <3>2 DEF PlacesLive
      <4>2. q # r
            BY <2>2, <4>1 DEF Risen
      <4>3. s \in UnderWay /\ r \in UnderWay /\ Op(s) \in Starting /\ Op(r) \in Ending
            BY <2>2, <3>2 DEF Rising, UnderWay, StepsOfOps, Ending
      <4>4. {s, r} \in met
            BY <3>2, <4>3 DEF Together
      <4>5. Crowd
            BY <4>1, <4>2, <4>3, <4>4 DEF Crowd
      <4> QED BY <4>5, Calm DEF Excused
    <3>3. \A s \in Requests : ~Sunk(s, i)
          BY <1>5, <2>2
    <3> QED BY <1>4, <1>7, <2>2, <3>1, <3>2, <3>3
  <2> QED BY <1>6, <1>7, <2>1, <2>2
<1>8. CASE t # r
  <2>1. /\ Sunk(t, i) /\ place[i] = Local /\ running
        /\ \A s \in Requests \ {t} : ~Rising(s, i) /\ ~Sunk(s, i)
        BY <1>4, <1>5, <1>8
  <2>2. place'[i] = Local
    <3>1. CASE MoveUp(r)
          BY <1>2, <1>8, <2>1, <3>1, Moved DEF Rising, MoveUp
    <3>2. CASE MoveDown(r)
          BY <1>2, <2>1, <3>2, Moved
    <3> QED BY <1>3, <2>1, <3>1, <3>2, Changes, Calm
  <2>3. running'
    <3>1. ~SetStopped(r)
          BY <1>8, <2>1 DEF SetStopped, Sunk
    <3> QED BY <2>1, <3>1, Changes, Calm DEF Boot, node
  <2>4. ~Rising(r, i)'
        BY <1>8, <2>1, Arrives DEF Rising, Boot, Enter, MoveUp
  <2>5. ~Sunk(r, i)'
        BY <1>6, <1>8, <2>1
  <2> QED BY <1>4, <1>8, <2>1, <2>2, <2>3, <2>4, <2>5
<1> QED BY <1>7, <1>8

LEMMA InterfacesStep ==
    ASSUME TypeOK, boot > 0, StepsOfOps, Together, InterfacesFollow, [Next]_vars,
           TypeOK', StepsOfOps', Together'
    PROVE  InterfacesFollow'
<1> SUFFICES ASSUME ~Excused' PROVE InterfacesFollow'
    BY DEF InterfacesFollow
<1>1. ~Excused
      BY ExcusesStay
<1>2. Sound
      BY <1>1 DEF InterfacesFollow, Sound
<1>3. CASE Outside
  <2>1. container' = container
        BY <1>3, Others, DeathsDisturb DEF Excused
  <2>2. \A q \in Requests : Op(q)' = Op(q) /\ If(q)' = If(q)
        BY EveryStep DEF Op, If
  <2>3. \A i : Steady(place[i])' <=> Steady(place[i])
        BY <1>3, <2>1, Others DEF Steady
  <2>4. Owed' = Owed /\ Attached' = Attached
        BY <1>3, <2>2, Others DEF Owed, Attached
  <2>5. HandlesLive'
        BY <1>2, <1>3, <2>1, <2>4, Others DEF Sound, HandlesLive, Steady, Rising
  <2>6. PlacesLive'
    <3>1. \A s \in Requests : (Risen(s)' <=> Risen(s)) /\ \A i : Rising(s, i)' <=> Rising(s, i)
          BY <1>3, Others DEF Risen, Rising
    <3>2. place' = place /\ running' = running /\ met' = met
          BY <1>3, Others
    <3> QED BY <1>2, <2>2, <2>3, <2>4, <3>1, <3>2 DEF Sound, PlacesLive
  <2>7. SunkStay' /\ StatesKnown'
        BY <1>2, <1>3, <2>2, <2>4, Others DEF Sound, SunkStay, StatesKnown, Rising, Sunk
  <2> QED BY <2>5, <2>6, <2>7 DEF InterfacesFollow
<1>4. ASSUME NEW r \in Requests, Moves(r) PROVE InterfacesFollow'
      BY <1>2, <1>4, HandlesStep, PlacesStep, SunkStep, OwedStep DEF InterfacesFollow
<1> QED BY <1>3, <1>4, Shapes

-----------------------------------------------------------------------------
(* The invariant holds, and what follows from it.                           *)

LEMMA InitIInv == Init => IInv
<1> SUFFICES ASSUME Init PROVE IInv
    OBVIOUS
<1>1. /\ \A r \in Requests : at[r] = "begin" /\ answer[r] = "none"
      /\ boot = 1 /\ UnderWay = {}
      BY DEF Init, UnderWay
<1>2. StepsOfOps /\ Together
      BY <1>1 DEF StepsOfOps, Together
<1>3. TornFollows
      BY <1>1 DEF Init, TornFollows
<1>4. BlankFollows
      BY <1>1 DEF Init, BlankFollows
<1>5. HandlesLive /\ SunkStay /\ StatesKnown
      BY <1>1 DEF HandlesLive, SunkStay, StatesKnown, Rising, Sunk
<1>6. PlacesLive
  <2>1. \A i \in Owed : i \in Interfaces /\ recorded[i] # "none"
        BY <1>1 DEF Owed, Attached
  <2>2. \A i \in Owed : Steady(place[i]) /\ (place[i] # Local => running)
    <3> SUFFICES ASSUME NEW i \in Interfaces, recorded[i] # "none"
                 PROVE  Steady(place[i]) /\ (place[i] # Local => running)
        BY <2>1
    <3>1. \/ running /\ container = "running" /\ place[i] = 1
          \/ localNs /\ place[i] = Local
      <4>1. PICK started \in BOOLEAN :
               /\ running = started /\ localNs = ~started
               /\ container = IF started THEN "running" ELSE "stopped"
               /\ \E old \in SUBSET Interfaces :
                     /\ recorded = [j \in Interfaces |-> IF j \in old THEN "UP" ELSE "none"]
                     /\ place = [j \in Interfaces |->
                                   IF j \notin old THEN Nowhere
                                   ELSE IF started THEN 1 ELSE Local]
            BY DEF Init
      <4>2. place[i] = IF started THEN 1 ELSE Local
            BY <4>1
      <4>3. CASE started = TRUE
            BY <4>1, <4>2, <4>3
      <4>4. CASE started = FALSE
            BY <4>1, <4>2, <4>4
      <4> QED BY <4>3, <4>4
    <3> QED BY <1>1, <3>1 DEF Steady, Local
  <2> QED BY <1>1, <2>2 DEF PlacesLive, Rising
<1> QED BY <1>1, <1>2, <1>3, <1>4, <1>5, <1>6, InitTypes DEF IInv, InterfacesFollow

LEMMA StepIInv == IInv /\ [Next]_vars => IInv'
<1> SUFFICES ASSUME IInv, [Next]_vars PROVE IInv'
    OBVIOUS
<1> USE DEF IInv
<1>1. TypeOK'
      BY TypeStep
<1>2. boot' > 0
      BY BootStep DEF TypeOK
<1>3. StepsOfOps'
      BY StepsStep
<1>4. Together'
      BY TogetherStep
<1>5. InterfacesFollow'
      BY <1>1, <1>3, <1>4, InterfacesStep
<1>6. TornFollows'
      BY <1>1, <1>3, TornStep
<1>7. BlankFollows'
      BY BlankStep
<1> QED BY <1>1, <1>2, <1>3, <1>4, <1>5, <1>6, <1>7

\* The invariant holds in every behaviour.
THEOREM Invariant == Spec => []IInv
BY InitIInv, StepIInv, PTL DEF Spec

\* The variables keep their types.
THEOREM TypeCorrect == Spec => []TypeOK
<1>1. IInv => TypeOK
      BY DEF IInv
<1> QED BY <1>1, Invariant, PTL

\* However many requests overlap in whatever order (startNode, stopNode, setupLink,
\* SetInterfaceState), no interface of the node is destroyed: it takes a link created
\* while the node starts or stops, two starts that overlap and a stop, a close, or a
\* container that stopped by itself.
THEOREM InterfacesStay == Spec => []InterfacesSurvive
<1>1. \A n : Steady(n) => Alive(n)
      BY DEF Steady, Alive
<1>2. IInv => InterfacesSurvive
      BY <1>1 DEF IInv, InterfacesFollow, PlacesLive, Excused, InterfacesSurvive, Owed, Attached
<1> QED BY <1>2, Invariant, PTL

\* A node whose ConfigLoaded is set runs its configuration, and the archive is never
\* the blank configuration of a node that has just booted, nor cut, but in the cases
\* that ConfigIsReal names (LoadConfig and Save of docker/node.go, stopNode).
THEOREM ConfigStaysReal == Spec => []ConfigIsReal
<1>1. IInv => ConfigIsReal
      BY DEF IInv, TornFollows, BlankFollows, Cut, Beside, ConfigIsReal
<1> QED BY <1>1, Invariant, PTL

=============================================================================
