--------------------------- MODULE OvsNode_proofs ---------------------------
(* Proofs about OvsNode, for any number of requests and interfaces, any plans *)
(* and any number of failing calls.                                           *)
EXTENDS OvsNode, TLAPS

-----------------------------------------------------------------------------
(* The inductive invariant.                                                 *)

\* The steps that belong to each kind of request.
StepsOfOps ==
    \A r \in Requests :
        /\ at[r] \in {"addBr", "run", "addPorts", "load", "exec"} => Op(r) \in Starting
        /\ at[r] = "again" => Op(r) = "restart"
        /\ at[r] \in {"delPorts", "off"} => Op(r) \in {"stop", "restart"}
        /\ at[r] = "delBr" => Op(r) \in Ending
        /\ at[r] \in {"saveCmd", "write", "fetch"} => Op(r) \in Saving
        /\ at[r] = "cut" => Op(r) = "save"
        /\ at[r] \in {"addPort", "add"} => Op(r) = "attach"
        /\ at[r] \in {"set", "record"} => Op(r) \in {"down", "up"}

\* Requests that are under way together have met, and have not answered.
Together ==
    /\ \A r, s \in UnderWay : r # s => {r, s} \in met
    /\ \A r \in Requests : answer[r] # "none" => at[r] = "done"

\* The requests that change the state of an interface.
Changing(r) == at[r] \in {"set", "record"}

\* The list of the instance is true, bonds are of ports the files name, which
\* are recorded; what a request will attach is not, and is up; what a request
\* changes is recorded.
SwitchKnown ==
    /\ listed = bridge
    /\ bond \subseteq Old
    /\ Old \subseteq Attached
    /\ \A r \in Requests :
          Op(r) = "attach" /\ at[r] # "done" => recorded[If(r)] = "none"
    /\ \A r \in Requests : Changing(r) => recorded[If(r)] # "none"
    /\ \A i \in Interfaces : recorded[i] = "none" => i \in up

\* A stop that has begun to remove the ports, or a close the bridge; a start
\* that has made the bridge, or has still to add port i.
Leaving(r)   == at[r] \in {"delPorts", "delBr", "off"} /\ Op(r) # "close"
Removing(r)  == at[r] = "delBr" /\ Op(r) = "close"
Waking(r)    == at[r] \in {"run", "addPorts", "load", "exec"}
Adding(r, i) == at[r] = "addPorts" /\ i \in todo[r]

\* The interfaces that are recorded, or about to be.
Owed == Attached \cup {If(r) : r \in {s \in Requests : at[s] = "add"}}

\* What RecordsAreTrue excepts of the ports.
Excused ==
    Closed \/ Failed(Starting \cup Ending) \/ Met({"attach"}, Starting)

\* A port that a running switch lacks is removed by a stop under way, which will
\* end in a switch that does not run, or has still to be added by a start.
PortsFollow ==
    \/ Excused
    \/ running => \A i \in Owed :
            \/ i \in ports \cup bond
            \/ \E r \in Requests : Leaving(r) \/ Adding(r, i)

\* A request that finds what it wants recorded while it changes an interface has
\* met another one that wanted the same.
MetAnother ==
    \A r \in Requests : Changing(r) /\ recorded[If(r)] = Wanted(r) =>
        \E s \in Requests \ {r} : {r, s} \in met /\ Op(s) = Op(r)

\* Requests that change an interface at the same time want the same.
SameWish ==
    \A r, s \in Requests : Changing(r) /\ Changing(s) /\ If(r) = If(s) => Op(r) = Op(s)

\* The kernel has what a request is about to record, and what is recorded.
KernelFollows ==
    /\ \A r \in Requests : at[r] = "record" => (If(r) \in up <=> Op(r) = "up")
    /\ \A i \in Attached : \/ recorded[i] = "UP" <=> i \in up
                           \/ \E r \in Requests : at[r] = "record" /\ If(r) = i

\* All this unless three requests have contended: one that finds the opposite of
\* what another one wants finds what a third one has recorded.
StatesFollow == Contended \/ (MetAnother /\ SameWish /\ KernelFollows)

\* What request r, or one that overlapped it, has read.
ReadBy(c, r) ==
    \E s \in Requests : /\ s = r \/ {r, s} \in met
                        /\ at[s] \notin {"begin", "saveCmd"} /\ c = seen[s]

\* The file of the container, while a save looks at it.
FileFollows ==
    \A r \in Requests : Op(r) = "save" =>
        /\ at[r] = "fetch" =>
              file = "none" \/ ReadBy(file, r) \/ Met({"save"}, Starting)
        /\ at[r] = "cut" => ReadBy(text[r], r) \/ Met({"save"}, Starting)

\* What SaveIsTrue excepts of the configurations.
Spoilt == Met(Saving, Starting \cup Ending) \/ Failed(Starting \cup Ending)

Whole(c) == c \notin {"blank", "partial"}

\* A switch that runs has its ports and a configuration, or a request under way
\* will see to them, or to the switch, or fail.
Cared ==
    running /\ bridge =>
        /\ live = "blank" =>
              \E r \in Requests : Waking(r) \/ Leaving(r) \/ Removing(r)
        /\ \A i \in Old :
              \/ i \in ports \cup bond
              \/ \E r \in Requests : \/ Leaving(r) \/ Removing(r)
                                     \/ at[r] = "run" \/ Adding(r, i)

\* What is read, copied and loaded is whole.
ConfigFollows ==
    \/ Spoilt
    \/ /\ Whole(file) /\ Whole(archive) /\ live # "partial"
       /\ \A r \in Requests : Whole(seen[r]) /\ Whole(text[r])
       /\ \A r \in Requests : at[r] = "saveCmd" => running
       /\ Cared

IInv ==
    /\ TypeOK /\ StepsOfOps /\ Together /\ SwitchKnown
    /\ PortsFollow /\ StatesFollow /\ FileFollows /\ ConfigFollows

-----------------------------------------------------------------------------
(* What every step does.                                                    *)

\* The types in the shape the proofs use: what a request does, and that each of
\* the functions has the requests for domain.
LEMMA Typed ==
    ASSUME TypeOK
    PROVE  /\ \A r \in Requests : Op(r) \in Ops /\ If(r) \in Interfaces
           /\ \A r \in Requests : /\ at[r] \in Steps /\ todo[r] \subseteq Interfaces
                                  /\ seen[r] \in Configs /\ text[r] \in Configs
                                  /\ answer[r] \in {"none", "ok", "error"}
<1>1. plan \in [Requests -> [op : Ops, if : Interfaces]]
      BY SwitchAssumption DEF TypeOK
<1> QED BY <1>1 DEF TypeOK, Op, If

\* A step of a request leaves what the other requests do alone; only its first
\* one adds to the pairs that met; none leads back to the first one, and none
\* but the first one to the command that saves.
LEMMA StepOfOne ==
    ASSUME TypeOK, NEW r \in Requests, Step(r)
    PROVE  /\ plan' = plan
           /\ \A s \in Requests \ {r} :
                 /\ at'[s] = at[s] /\ todo'[s] = todo[s] /\ seen'[s] = seen[s]
                 /\ text'[s] = text[s] /\ answer'[s] = answer[s]
           /\ met' = IF at[r] = "begin" THEN met \cup {{r, s} : s \in UnderWay}
                     ELSE met
           /\ at[r] # "done" /\ at'[r] # "begin"
           /\ at'[r] = "saveCmd" => at[r] = "begin"
           /\ at'[r] = "done" \/ answer'[r] = answer[r]
           /\ at[r] = "saveCmd" \/ seen'[r] = seen[r]
           /\ at' \in [Requests -> Steps]
<1> USE DEF TypeOK, node, ovs, config, local, Goto, GotoLoop, Answer, Begins, Steps
<1>1. CASE BeginStart(r) \/ StartAgain(r) \/ AddBr(r) \/ SetRunning(r)
      BY <1>1 DEF BeginStart, StartAgain, AddBr, SetRunning
<1>2. CASE AddPort(r)
      BY <1>2 DEF AddPort
<1>3. CASE CopyConfig(r) \/ ExecLoad(r)
      BY <1>3 DEF CopyConfig, ExecLoad
<1>4. CASE BeginStop(r) \/ BeginClose(r)
      BY <1>4 DEF BeginStop, BeginClose, Stopped
<1>5. CASE DelPort(r)
      BY <1>5 DEF DelPort
<1>6. CASE DelBr(r) \/ SetStopped(r)
      BY <1>6 DEF DelBr, SetStopped, Stopped
<1>7. CASE BeginSave(r) \/ ExecSave(r) \/ WriteFile(r) \/ FetchFile(r) \/ WriteArchive(r)
      BY <1>7 DEF BeginSave, ExecSave, WriteFile, FetchFile, WriteArchive
<1>8. CASE BeginAttach(r) \/ AttachPort(r) \/ RecordInterface(r)
      BY <1>8 DEF BeginAttach, AttachPort, RecordInterface
<1>9. CASE BeginState(r) \/ SetState(r) \/ RecordState(r)
      BY <1>9 DEF BeginState, SetState, RecordState
<1>10. CASE CallFails(r)
      BY <1>10 DEF CallFails
<1> QED BY <1>1, <1>2, <1>3, <1>4, <1>5, <1>6, <1>7, <1>8, <1>9, <1>10 DEF Step


\* Which steps change what.
LEMMA Changes ==
    ASSUME NEW r \in Requests, Step(r)
    PROVE  /\ running' = running \/ SetRunning(r) \/ SetStopped(r)
           /\ recorded' = recorded \/ RecordInterface(r) \/ RecordState(r)
           /\ (listed' = listed /\ bridge' = bridge) \/ AddBr(r) \/ DelBr(r)
           /\ \/ ports' = ports /\ bond' = bond
              \/ AddPort(r) \/ ExecLoad(r) \/ DelPort(r) \/ DelBr(r) \/ AttachPort(r)
           /\ up' = up \/ SetState(r)
           /\ \/ live' = live
              \/ AddBr(r) \/ CopyConfig(r) \/ ExecLoad(r) \/ DelBr(r) \/ CallFails(r)
           /\ \/ file' = file
              \/ CopyConfig(r) \/ ExecSave(r) \/ WriteFile(r) \/ CallFails(r)
           /\ archive' = archive \/ FetchFile(r) \/ WriteArchive(r)
           /\ seen' = seen \/ ExecSave(r)
           /\ faults' = faults \/ CallFails(r) \/ WriteArchive(r)
<1> USE DEF node, ovs, config, local, Goto, GotoLoop, Answer
<1>1. CASE BeginStart(r) \/ StartAgain(r) \/ AddBr(r) \/ SetRunning(r)
      BY <1>1 DEF BeginStart, StartAgain, AddBr, SetRunning
<1>2. CASE AddPort(r)
      BY <1>2 DEF AddPort
<1>3. CASE CopyConfig(r) \/ ExecLoad(r)
      BY <1>3 DEF CopyConfig, ExecLoad
<1>4. CASE BeginStop(r) \/ BeginClose(r)
      BY <1>4 DEF BeginStop, BeginClose, Stopped
<1>5. CASE DelPort(r)
      BY <1>5 DEF DelPort
<1>6. CASE DelBr(r) \/ SetStopped(r)
      BY <1>6 DEF DelBr, SetStopped, Stopped
<1>7. CASE BeginSave(r) \/ ExecSave(r) \/ WriteFile(r) \/ FetchFile(r) \/ WriteArchive(r)
      BY <1>7 DEF BeginSave, ExecSave, WriteFile, FetchFile, WriteArchive
<1>8. CASE BeginAttach(r) \/ AttachPort(r) \/ RecordInterface(r)
      BY <1>8 DEF BeginAttach, AttachPort, RecordInterface
<1>9. CASE BeginState(r) \/ SetState(r) \/ RecordState(r)
      BY <1>9 DEF BeginState, SetState, RecordState
<1>10. CASE CallFails(r)
      BY <1>10 DEF CallFails
<1> QED BY <1>1, <1>2, <1>3, <1>4, <1>5, <1>6, <1>7, <1>8, <1>9, <1>10 DEF Step

\* The step that each place leads to.
LEMMA Which ==
    ASSUME NEW r \in Requests, Step(r)
    PROVE  /\ at[r] = "begin" => \/ BeginStart(r) \/ BeginStop(r) \/ BeginClose(r)
                                 \/ BeginSave(r) \/ BeginAttach(r) \/ BeginState(r)
           /\ at[r] = "again" => StartAgain(r)
           /\ at[r] = "addBr" => AddBr(r) \/ CallFails(r)
           /\ at[r] = "run" => SetRunning(r)
           /\ at[r] = "addPorts" => AddPort(r) \/ CallFails(r)
           /\ at[r] = "load" => CopyConfig(r) \/ CallFails(r)
           /\ at[r] = "exec" => ExecLoad(r) \/ CallFails(r)
           /\ at[r] = "delPorts" => DelPort(r) \/ CallFails(r)
           /\ at[r] = "delBr" => DelBr(r) \/ CallFails(r)
           /\ at[r] = "off" => SetStopped(r)
           /\ at[r] = "saveCmd" => ExecSave(r) \/ CallFails(r)
           /\ at[r] = "write" => WriteFile(r)
           /\ at[r] = "fetch" => FetchFile(r) \/ CallFails(r)
           /\ at[r] = "cut" => WriteArchive(r)
           /\ at[r] = "addPort" => AttachPort(r) \/ CallFails(r)
           /\ at[r] = "add" => RecordInterface(r)
           /\ at[r] = "set" => SetState(r) \/ CallFails(r)
           /\ at[r] = "record" => RecordState(r)
BY DEF Step, BeginStart, StartAgain, AddBr, SetRunning, AddPort, CopyConfig, ExecLoad,
       BeginStop, DelPort, DelBr, SetStopped, BeginClose, BeginSave, ExecSave,
       WriteFile, FetchFile, WriteArchive, BeginAttach, AttachPort, RecordInterface,
       BeginState, SetState, RecordState, CallFails

\* What a step leaves its request: what it found if it changes a state; interfaces of its loop, or the recorded ones
\* when the loop begins; a text it had, none or the one of the file.
LEMMA Rest ==
    ASSUME TypeOK, NEW r \in Requests, Step(r)
    PROVE  /\ at'[r] \in {"set", "record"} =>
                 \/ at[r] \in {"set", "record"}
                 \/ BeginState(r) /\ recorded[If(r)] \notin {"none", Wanted(r)}
           /\ at'[r] = "record" => SetState(r)
           /\ at'[r] = "saveCmd" => running
           /\ at'[r] = "fetch" => WriteFile(r)
           /\ at'[r] = "cut" => FetchFile(r) /\ file # "none" /\ text'[r] = file
           /\ at'[r] = "add" => \/ at[r] = "begin" /\ ~running /\ running' = running
                                \/ AttachPort(r) /\ If(r) \in ports'
           /\ todo' \in [Requests -> SUBSET Interfaces]
           /\ text' \in [Requests -> Configs]
           /\ answer' \in [Requests -> {"none", "ok", "error"}]
           /\ text'[r] = text[r] \/ text'[r] = "none" \/ (FetchFile(r) /\ text'[r] = file)
           /\ at'[r] # "done" => todo'[r] \subseteq todo[r] \/ todo'[r] = Attached
<1> USE DEF TypeOK, node, ovs, config, local, Goto, GotoLoop, Answer, Configs, Attached
<1>1. CASE BeginStart(r) \/ StartAgain(r) \/ AddBr(r) \/ SetRunning(r)
      BY <1>1 DEF BeginStart, StartAgain, AddBr, SetRunning
<1>2. CASE AddPort(r)
      BY <1>2 DEF AddPort
<1>3. CASE CopyConfig(r) \/ ExecLoad(r)
      BY <1>3 DEF CopyConfig, ExecLoad
<1>4. CASE BeginStop(r) \/ BeginClose(r)
      BY <1>4 DEF BeginStop, BeginClose, Stopped
<1>5. CASE DelPort(r)
      BY <1>5 DEF DelPort
<1>6. CASE DelBr(r) \/ SetStopped(r)
      BY <1>6 DEF DelBr, SetStopped, Stopped
<1>7. CASE BeginSave(r) \/ ExecSave(r) \/ WriteFile(r) \/ FetchFile(r) \/ WriteArchive(r)
      BY <1>7 DEF BeginSave, ExecSave, WriteFile, FetchFile, WriteArchive
<1>8. CASE BeginAttach(r) \/ AttachPort(r) \/ RecordInterface(r)
      BY <1>8 DEF BeginAttach, AttachPort, RecordInterface
<1>9. CASE BeginState(r) \/ SetState(r) \/ RecordState(r)
      BY <1>9 DEF BeginState, SetState, RecordState
<1>10. CASE CallFails(r)
      BY <1>10 DEF CallFails
<1> QED BY <1>1, <1>2, <1>3, <1>4, <1>5, <1>6, <1>7, <1>8, <1>9, <1>10 DEF Step

\* The shapes of a step: the user edits, nothing changes, or one request moves.
LEMMA Shapes ==
    ASSUME [Next]_vars
    PROVE  Edit \/ vars' = vars \/ \E r \in Requests : Step(r)
BY DEF Next

\* Edit and a stutter leave every request alone, and what it was asked.
LEMMA Others ==
    ASSUME Edit \/ vars' = vars
    PROVE  /\ plan' = plan /\ at' = at /\ todo' = todo /\ seen' = seen /\ text' = text
           /\ answer' = answer /\ faults' = faults /\ met' = met
           /\ running' = running /\ recorded' = recorded /\ listed' = listed
           /\ bridge' = bridge /\ up' = up /\ file' = file /\ archive' = archive
BY DEF Edit, vars, node, ovs, config, local

\* What every step does to the requests, whoever takes it.
LEMMA EveryStep ==
    ASSUME TypeOK, Together, [Next]_vars
    PROVE  /\ plan' = plan /\ met \subseteq met'
           /\ \A r \in Requests : at[r] # "begin" => at'[r] # "begin"
           /\ \A r \in Requests : answer[r] # "none" => answer'[r] = answer[r]
<1>1. CASE Edit \/ vars' = vars
      BY <1>1, Others
<1>2. ASSUME NEW r \in Requests, Step(r)
      PROVE  /\ plan' = plan /\ met \subseteq met'
             /\ \A s \in Requests : at[s] # "begin" => at'[s] # "begin"
             /\ \A s \in Requests : answer[s] # "none" => answer'[s] = answer[s]
      BY <1>2, StepOfOne DEF Together
<1> QED BY <1>1, <1>2, Shapes

\* Excuses are never taken back.
LEMMA ExcusesStay ==
    ASSUME TypeOK, Together, [Next]_vars
    PROVE  /\ Old' = Old
           /\ Excused => Excused'
           /\ Spoilt => Spoilt'
           /\ Contended => Contended'
           /\ Met({"save"}, Starting) => Met({"save"}, Starting)'
<1>1. \A r \in Requests : Op(r)' = Op(r) /\ If(r)' = If(r)
      BY EveryStep DEF Op, If
<1>2. Old' = Old
      BY <1>1 DEF Old
<1>3. Contended => Contended'
      BY <1>1, EveryStep DEF Contended
<1>4. Failed(Starting \cup Ending) => Failed(Starting \cup Ending)'
      BY <1>1, EveryStep DEF Failed, Starting, Ending
<1>5. Closed => Closed'
      BY <1>1, EveryStep DEF Closed
<1>6. Met({"attach"}, Starting) => Met({"attach"}, Starting)'
      BY <1>1, EveryStep DEF Met, Starting
<1>7. Met(Saving, Starting \cup Ending) => Met(Saving, Starting \cup Ending)'
      BY <1>1, EveryStep DEF Met, Starting, Ending, Saving
<1>8. Met({"save"}, Starting) => Met({"save"}, Starting)'
      BY <1>1, EveryStep DEF Met, Starting
<1> QED BY <1>2, <1>3, <1>4, <1>5, <1>6, <1>7, <1>8 DEF Excused, Spoilt

-----------------------------------------------------------------------------
(* Types, and which steps belong to which request.                          *)

LEMMA InitTypes == Init => TypeOK
<1> SUFFICES ASSUME Init PROVE TypeOK
    OBVIOUS
<1>1. Old \subseteq Interfaces
      BY DEF Old
<1> QED BY <1>1, SwitchAssumption DEF Init, TypeOK, Configs, Steps

LEMMA TypeStep == ASSUME TypeOK, [Next]_vars PROVE TypeOK'
<1> USE Typed, SwitchAssumption
<1>1. CASE vars' = vars
      BY <1>1 DEF vars, node, ovs, config, local, TypeOK
<1>2. CASE Edit
      BY <1>2 DEF Edit, node, ovs, config, local, TypeOK, Configs, Old
<1>3. ASSUME NEW r \in Requests, Step(r) PROVE TypeOK'
  <2>1. /\ plan' \in Plans /\ at' \in [Requests -> Steps]
        BY <1>3, StepOfOne DEF TypeOK
  <2>0. met' \subseteq SUBSET Requests
    <3>1. \A s \in UnderWay : {r, s} \in SUBSET Requests
          BY DEF UnderWay
    <3>2. CASE at[r] = "begin"
      <4>1. met' = met \cup {{r, s} : s \in UnderWay}
            BY <1>3, <3>2, StepOfOne
      <4> QED BY <3>1, <4>1 DEF TypeOK
    <3>3. CASE at[r] # "begin"
          BY <1>3, <3>3, StepOfOne DEF TypeOK
    <3> QED BY <3>2, <3>3
  <2>2. running' \in BOOLEAN /\ listed' \in BOOLEAN /\ bridge' \in BOOLEAN
        BY <1>3, Changes DEF TypeOK, SetRunning, SetStopped, AddBr, DelBr
  <2>3. recorded' \in [Interfaces -> {"none", "UP", "DOWN"}]
        BY <1>3, Changes DEF TypeOK, RecordInterface, RecordState, Wanted
  <2>4. ports' \subseteq Interfaces /\ bond' \subseteq Interfaces
    <3>1. CASE AddPort(r) \/ AttachPort(r)
          BY <1>3, <3>1 DEF TypeOK, AddPort, AttachPort
    <3>2. CASE ExecLoad(r)
          BY <1>3, <3>2 DEF TypeOK, ExecLoad, Old
    <3>3. CASE DelPort(r) \/ DelBr(r)
          BY <1>3, <3>3 DEF TypeOK, DelPort, DelBr
    <3> QED BY <1>3, <3>1, <3>2, <3>3, Changes DEF TypeOK
  <2>5. up' \subseteq Interfaces
    <3>1. CASE SetState(r)
          BY <3>1, Typed DEF TypeOK, SetState
    <3> QED BY <1>3, <3>1, Changes DEF TypeOK
  <2>6. live' \in Configs
    <3>1. CASE AddBr(r) \/ DelBr(r) \/ CallFails(r)
          BY <1>3, <3>1 DEF TypeOK, AddBr, DelBr, CallFails, Configs
    <3>2. CASE CopyConfig(r)
          BY <1>3, <3>2 DEF TypeOK, CopyConfig, Configs
    <3>3. CASE ExecLoad(r)
          BY <1>3, <3>3 DEF TypeOK, ExecLoad, Configs
    <3> QED BY <1>3, <3>1, <3>2, <3>3, Changes DEF TypeOK
  <2>7. file' \in Configs /\ archive' \in Configs
        BY <1>3, Changes
        DEF TypeOK, CopyConfig, ExecSave, WriteFile, CallFails, FetchFile, WriteArchive,
            Configs, config
  <2>8. seen' \in [Requests -> Configs]
    <3>1. CASE ExecSave(r)
          BY <3>1 DEF TypeOK, ExecSave, Answer, Found, Configs
    <3> QED BY <1>3, <3>1, Changes DEF TypeOK
  <2>9. faults' \in 0..MaxFaults
        BY <1>3, Changes DEF TypeOK, CallFails, WriteArchive
  <2> QED BY <1>3, <2>0, <2>1, <2>2, <2>3, <2>4, <2>5, <2>6, <2>7, <2>8, <2>9, Rest DEF TypeOK
<1> QED BY <1>1, <1>2, <1>3, Shapes


\* A request keeps to the steps of its kind.
LEMMA StepsStep == ASSUME TypeOK, Together, StepsOfOps, [Next]_vars PROVE StepsOfOps'
<1>1. \A r \in Requests : Op(r)' = Op(r)
      BY EveryStep DEF Op
<1>2. CASE Edit \/ vars' = vars
      BY <1>1, <1>2, Others DEF StepsOfOps
<1>3. ASSUME NEW r \in Requests, Step(r) PROVE StepsOfOps'
  <2>1. \A s \in Requests \ {r} : at'[s] = at[s]
        BY <1>3, StepOfOne
  <2>2. /\ at'[r] \in {"addBr", "run", "addPorts", "load", "exec"} => Op(r) \in Starting
        /\ at'[r] = "again" => Op(r) = "restart"
        /\ at'[r] \in {"delPorts", "off"} => Op(r) \in {"stop", "restart"}
        /\ at'[r] = "delBr" => Op(r) \in Ending
        /\ at'[r] \in {"saveCmd", "write", "fetch"} => Op(r) \in Saving
        /\ at'[r] = "cut" => Op(r) = "save"
        /\ at'[r] \in {"addPort", "add"} => Op(r) = "attach"
        /\ at'[r] \in {"set", "record"} => Op(r) \in {"down", "up"}
    <3> USE DEF TypeOK, StepsOfOps, Starting, Ending, Saving, Goto, GotoLoop, Answer
    <3>1. CASE BeginStart(r) \/ StartAgain(r) \/ AddBr(r) \/ SetRunning(r)
          BY <3>1 DEF BeginStart, StartAgain, AddBr, SetRunning
    <3>2. CASE AddPort(r)
          BY <3>2 DEF AddPort
    <3>3. CASE CopyConfig(r) \/ ExecLoad(r)
          BY <3>3 DEF CopyConfig, ExecLoad
    <3>4. CASE BeginStop(r) \/ BeginClose(r)
          BY <3>4 DEF BeginStop, BeginClose, Stopped
    <3>5. CASE DelPort(r)
          BY <3>5 DEF DelPort
    <3>6. CASE DelBr(r) \/ SetStopped(r)
          BY <3>6 DEF DelBr, SetStopped, Stopped
    <3>7. CASE BeginSave(r) \/ ExecSave(r) \/ WriteFile(r) \/ FetchFile(r) \/ WriteArchive(r)
          BY <3>7 DEF BeginSave, ExecSave, WriteFile, FetchFile, WriteArchive
    <3>8. CASE BeginAttach(r) \/ AttachPort(r) \/ RecordInterface(r)
          BY <3>8 DEF BeginAttach, AttachPort, RecordInterface
    <3>9. CASE BeginState(r) \/ SetState(r) \/ RecordState(r)
          BY <3>9 DEF BeginState, SetState, RecordState
    <3>10. CASE CallFails(r)
          BY <3>10 DEF CallFails
    <3> QED BY <1>3, <3>1, <3>2, <3>3, <3>4, <3>5, <3>6, <3>7, <3>8, <3>9, <3>10 DEF Step
  <2> QED BY <1>1, <2>1, <2>2 DEF StepsOfOps
<1> QED BY <1>2, <1>3, Shapes

\* Requests that are under way together have met.
LEMMA TogetherStep == ASSUME TypeOK, Together, [Next]_vars PROVE Together'
<1>1. CASE Edit \/ vars' = vars
      BY <1>1, Others DEF Together, UnderWay
<1>2. ASSUME NEW r \in Requests, Step(r) PROVE Together'
  <2>1. \A s \in Requests \ {r} : at'[s] = at[s] /\ answer'[s] = answer[s]
        BY <1>2, StepOfOne
  <2>2. at[r] # "done" /\ (at'[r] = "done" \/ answer'[r] = answer[r])
        BY <1>2, StepOfOne
  <2>3. \A s \in UnderWay \ {r} : {r, s} \in met'
        BY <1>2, StepOfOne DEF Together, UnderWay
  <2>4. \A s \in Requests \ {r} : s \in UnderWay' <=> s \in UnderWay
        BY <2>1 DEF UnderWay
  <2>5. \A s, t \in UnderWay' : s # t => {s, t} \in met'
    <3> SUFFICES ASSUME NEW s \in UnderWay', NEW t \in UnderWay', s # t
                 PROVE  {s, t} \in met'
        OBVIOUS
    <3>1. s \in Requests /\ t \in Requests
          BY DEF UnderWay
    <3>2. CASE s = r
          BY <2>3, <2>4, <3>1, <3>2
    <3>3. CASE t = r
      <4>1. {s, t} = {t, s}
            OBVIOUS
      <4> QED BY <2>3, <2>4, <3>1, <3>3, <4>1
    <3>4. CASE s # r /\ t # r
          BY <1>2, <2>4, <3>1, <3>4, EveryStep DEF Together
    <3> QED BY <3>2, <3>3, <3>4
  <2>6. \A s \in Requests : answer'[s] # "none" => at'[s] = "done"
        BY <2>1, <2>2 DEF Together
  <2> QED BY <2>5, <2>6 DEF Together
<1> QED BY <1>1, <1>2, Shapes

\* Two requests under way together count as met for Met.
LEMMA Overlap ==
    ASSUME Together, NEW r \in UnderWay, NEW s \in UnderWay, r # s,
           NEW A, NEW B, Op(r) \in A, Op(s) \in B
    PROVE  Met(A, B)
BY DEF Together, Met, UnderWay

\* No two requests attach one interface.
LEMMA AttachedOnce ==
    ASSUME TypeOK, NEW r \in Requests, NEW s \in Requests,
           Op(r) = "attach", Op(s) = "attach", If(r) = If(s)
    PROVE  r = s
<1>1. plan \in [Requests -> [op : Ops, if : Interfaces]]
      BY SwitchAssumption DEF TypeOK
<1>2. plan[r] = plan[s]
      BY <1>1 DEF Op, If
<1> QED BY <1>2, SwitchAssumption DEF Op, TypeOK

\* A start, a stop or a close that answers an error is an excuse.
LEMMA FailsNow ==
    ASSUME TypeOK, Together, [Next]_vars, NEW r \in Requests,
           Op(r) \in Starting \cup Ending, answer'[r] = "error"
    PROVE  Excused' /\ Spoilt'
<1>1. Op(r)' = Op(r)
      BY EveryStep DEF Op
<1>2. Failed(Starting \cup Ending)'
      BY <1>1 DEF Failed, Starting, Ending
<1> QED BY <1>2 DEF Excused, Spoilt

-----------------------------------------------------------------------------
(* The bridge and the records.                                              *)

LEMMA KnownStep ==
    ASSUME TypeOK, Together, StepsOfOps, SwitchKnown, [Next]_vars
    PROVE  SwitchKnown'
<1>1. Old' = Old /\ \A r \in Requests : Op(r)' = Op(r) /\ If(r)' = If(r)
      BY EveryStep, ExcusesStay DEF Op, If
<1>2. CASE Edit \/ vars' = vars
  <2>1. bond' \subseteq Old
        BY <1>2 DEF Edit, vars, ovs, SwitchKnown
  <2> QED BY <1>1, <1>2, <2>1, Others DEF SwitchKnown, Attached, Changing
<1>3. ASSUME NEW r \in Requests, Step(r) PROVE SwitchKnown'
  <2>1. listed' = bridge'
    <3>1. CASE AddBr(r)
          BY <3>1, ZenonT(30) DEF SwitchKnown, AddBr
    <3>2. CASE DelBr(r)
          BY <3>2, ZenonT(30) DEF SwitchKnown, DelBr
    <3> QED BY <1>3, <3>1, <3>2, Changes DEF SwitchKnown
  <2>2. bond' \subseteq Old
        BY <1>3, Changes
        DEF SwitchKnown, AddPort, ExecLoad, DelPort, DelBr, AttachPort, ovs
  <2>3. Old \subseteq Attached'
    <3>1. \A i \in Interfaces : recorded[i] # "none" => recorded'[i] # "none"
          BY <1>3, Changes, Typed DEF TypeOK, RecordInterface, RecordState, Wanted
    <3> QED BY <3>1 DEF SwitchKnown, Attached
  <2>4. ASSUME NEW s \in Requests, Op(s) = "attach", at'[s] # "done"
        PROVE  recorded'[If(s)] = "none"
    <3>1. at[s] # "done"
          BY <1>3, <2>4, StepOfOne
    <3>2. recorded[If(s)] = "none"
          BY <2>4, <3>1 DEF SwitchKnown
    <3>3. CASE RecordInterface(r)
      <4>1. Op(r) = "attach" /\ s # r
            BY <2>4, <3>3 DEF RecordInterface, StepsOfOps, Answer, TypeOK
      <4>2. If(s) # If(r)
            BY <2>4, <4>1, AttachedOnce
      <4> QED BY <3>2, <3>3, <4>2, Typed DEF RecordInterface, TypeOK
    <3>4. CASE RecordState(r)
      <4>1. If(s) # If(r)
            BY <3>2, <3>4 DEF RecordState, SwitchKnown, Changing
      <4> QED BY <3>2, <3>4, <4>1, Typed DEF RecordState, TypeOK
    <3> QED BY <1>3, <3>2, <3>3, <3>4, Changes
  <2>5. ASSUME NEW s \in Requests, at'[s] \in {"set", "record"}
        PROVE  recorded'[If(s)] # "none"
    <3>1. \A i \in Interfaces : recorded[i] # "none" => recorded'[i] # "none"
          BY <1>3, Changes, Typed DEF TypeOK, RecordInterface, RecordState, Wanted
    <3>2. CASE at[s] \in {"set", "record"}
          BY <3>1, <3>2, Typed DEF SwitchKnown, Changing
    <3>3. CASE at[s] \notin {"set", "record"}
      <4>1. s = r
            BY <1>3, <2>5, <3>3, StepOfOne
      <4>2. recorded[If(r)] # "none"
            BY <1>3, <2>5, <3>3, <4>1, Rest
      <4> QED BY <3>1, <4>1, <4>2, Typed
    <3> QED BY <3>2, <3>3
  <2>6. ASSUME NEW i \in Interfaces, recorded'[i] = "none"
        PROVE  i \in up'
    <3>1. recorded[i] = "none"
          BY <1>3, <2>6, Changes, Typed DEF TypeOK, RecordInterface, RecordState, Wanted
    <3>2. CASE SetState(r)
          BY <3>1, <3>2 DEF SetState, SwitchKnown, Changing
    <3> QED BY <1>3, <3>1, <3>2, Changes DEF SwitchKnown
  <2> QED BY <1>1, <2>1, <2>2, <2>3, <2>4, <2>5, <2>6 DEF SwitchKnown, Changing
<1> QED BY <1>2, <1>3, Shapes


-----------------------------------------------------------------------------
(* The ports of a switch that runs.                                         *)

LEMMA PortsStep ==
    ASSUME TypeOK, Together, StepsOfOps, SwitchKnown, PortsFollow, [Next]_vars
    PROVE  PortsFollow'
<1>1. \A r \in Requests : Op(r)' = Op(r) /\ If(r)' = If(r)
      BY EveryStep DEF Op, If
<1>2. Old' = Old /\ (Excused => Excused')
      BY ExcusesStay
<1> SUFFICES ASSUME ~Excused', running', NEW i \in Owed'
             PROVE  \/ i \in ports' \cup bond'
                    \/ \E r \in Requests :
                          \/ at'[r] \in {"delPorts", "delBr", "off"} /\ Op(r) # "close"
                          \/ at'[r] = "addPorts" /\ i \in todo'[r]
    BY <1>1 DEF PortsFollow, Leaving, Adding
<1>3. ~Excused
      BY <1>2
<1>4. running => \A j \in Owed :
            \/ j \in ports \cup bond
            \/ \E r \in Requests :
                  \/ at[r] \in {"delPorts", "delBr", "off"} /\ Op(r) # "close"
                  \/ at[r] = "addPorts" /\ j \in todo[r]
      BY <1>3 DEF PortsFollow, Leaving, Adding
<1>5. CASE Edit \/ vars' = vars
  <2>1. i \in Owed /\ running
        BY <1>1, <1>5, Others DEF Owed, Attached
  <2>2. ports \cup bond \subseteq ports' \cup bond'
        BY <1>5 DEF Edit, vars, ovs, SwitchKnown
  <2> QED BY <1>4, <1>5, <2>1, <2>2, Others
<1>6. ASSUME NEW r \in Requests, Step(r)
      PROVE  \/ i \in ports' \cup bond'
             \/ \E s \in Requests :
                   \/ at'[s] \in {"delPorts", "delBr", "off"} /\ Op(s) # "close"
                   \/ at'[s] = "addPorts" /\ i \in todo'[s]
  <2>1. \A s \in Requests \ {r} : at'[s] = at[s] /\ todo'[s] = todo[s]
        BY <1>6, StepOfOne
  <2>2. Op(r) \in Starting \cup Ending => answer'[r] # "error"
        BY FailsNow
  <2>3. CASE i \notin Owed
    <3>1. \A j \in Interfaces : recorded'[j] # "none" =>
             recorded[j] # "none" \/ (j = If(r) /\ at[r] = "add")
      <4>1. CASE RecordInterface(r)
            BY <4>1, Typed DEF TypeOK, RecordInterface
      <4>2. CASE RecordState(r)
            BY <4>2, Typed DEF TypeOK, RecordState, SwitchKnown, Changing
      <4> QED BY <1>6, <4>1, <4>2, Changes
    <3>2. i = If(r) /\ at'[r] = "add"
          BY <1>1, <2>1, <2>3, <3>1 DEF Owed, Attached
    <3> QED BY <1>6, <3>2, Rest
  <2>4. CASE i \in Owed /\ SetRunning(r)
    <3>1. at[r] = "run" /\ at'[r] = "addPorts" /\ todo'[r] = Attached
          BY <2>4 DEF SetRunning, GotoLoop, TypeOK
    <3>2. Op(r) \in Starting /\ r \in UnderWay
          BY <3>1 DEF StepsOfOps, UnderWay
    <3>3. ASSUME NEW s \in Requests, at[s] = "add" PROVE FALSE
      <4>1. s \in UnderWay /\ Op(s) \in {"attach"} /\ s # r
            BY <3>1, <3>3 DEF UnderWay, StepsOfOps
      <4> QED BY <1>3, <3>2, <4>1, Overlap DEF Excused
    <3> QED BY <2>4, <3>1, <3>3 DEF Owed
  <2>5. CASE i \in Owed /\ ~SetRunning(r)
    <3>1. running
          BY <1>6, <2>5, Changes DEF SetStopped
    <3>2. CASE i \in ports \cup bond
      <4>1. CASE DelPort(r)
            BY <2>2, <4>1 DEF DelPort, Goto, Answer, TypeOK, StepsOfOps, Ending
      <4>2. CASE DelBr(r)
            BY <1>3, <4>2 DEF DelBr, Goto, TypeOK, Excused, Closed
      <4>3. CASE ExecLoad(r)
        <5>1. Op(r) \in Starting
              BY <4>3 DEF ExecLoad, StepsOfOps
        <5>2. answer'[r] # "error"
              BY <2>2, <5>1
        <5> QED BY <3>2, <4>3, <5>2 DEF ExecLoad, Answer, TypeOK, SwitchKnown
      <4>4. CASE AddPort(r) \/ AttachPort(r)
            BY <3>2, <4>4 DEF AddPort, AttachPort
      <4> QED BY <1>6, <3>2, <4>1, <4>2, <4>3, <4>4, Changes
    <3>3. ASSUME NEW s \in Requests,
                 at[s] \in {"delPorts", "delBr", "off"}, Op(s) # "close"
          PROVE  at'[s] \in {"delPorts", "delBr", "off"}
      <4>1. CASE s # r
            BY <2>1, <3>3, <4>1
      <4>2. CASE s = r
        <5>1. Op(r) \in Ending
              BY <3>3, <4>2 DEF StepsOfOps, Ending
        <5>2. ~CallFails(r)
              BY <2>2, <5>1 DEF CallFails, Answer, TypeOK
        <5>3. DelPort(r) \/ DelBr(r) \/ SetStopped(r)
              BY <1>6, <3>3, <4>2, <5>2, Which
        <5>4. CASE DelPort(r)
              BY <2>2, <4>2, <5>1, <5>4 DEF DelPort, Goto, Answer, TypeOK
        <5>5. CASE DelBr(r)
              BY <3>3, <4>2, <5>5 DEF DelBr, Goto, TypeOK
        <5>6. CASE SetStopped(r)
              BY <5>6 DEF SetStopped
        <5> QED BY <5>3, <5>4, <5>5, <5>6
      <4> QED BY <4>1, <4>2
    <3>4. ASSUME NEW s \in Requests, at[s] = "addPorts", i \in todo[s]
          PROVE  i \in ports' \/ (at'[s] = "addPorts" /\ i \in todo'[s])
      <4>1. CASE s # r
            BY <2>1, <3>4, <4>1
      <4>2. CASE s = r
        <5>1. Op(r) \in Starting
              BY <3>4, <4>2 DEF StepsOfOps
        <5>2. answer'[r] # "error"
              BY <2>2, <5>1
        <5>3. AddPort(r)
              BY <1>6, <3>4, <4>2, <5>2, Which DEF CallFails, Answer, TypeOK
        <5> QED BY <3>4, <4>2, <5>2, <5>3 DEF AddPort, Answer, TypeOK
      <4> QED BY <4>1, <4>2
    <3> QED BY <1>4, <2>5, <3>1, <3>2, <3>3, <3>4
  <2> QED BY <2>3, <2>4, <2>5
<1> QED BY <1>5, <1>6, Shapes


-----------------------------------------------------------------------------
(* The states that are recorded.                                            *)

\* A request that begins to change an interface that another one changes the
\* other way makes the three of them contend.
LEMMA Contend ==
    ASSUME TypeOK, Together, StepsOfOps, [Next]_vars,
           NEW r \in Requests, NEW s \in Requests, NEW t \in Requests,
           r # s, s # t, {r, s} \in met', {s, t} \in met', Op(t) = Op(s),
           Op(r) \in {"down", "up"}, Op(s) \in {"down", "up"}, Op(r) # Op(s)
    PROVE  Contended'
<1>1. Op(r)' = Op(r) /\ Op(s)' = Op(s) /\ Op(t)' = Op(t)
      BY EveryStep DEF Op
<1>2. {t, s} = {s, t} /\ {s, r} = {r, s}
      OBVIOUS
<1>3. {{t, s}, {s, r}} \subseteq met' /\ {Op(t), Op(r)} = {"down", "up"}
      BY <1>2
<1> QED BY <1>1, <1>3 DEF Contended

LEMMA StatesStep ==
    ASSUME TypeOK, Together, StepsOfOps, SwitchKnown, StatesFollow, [Next]_vars
    PROVE  StatesFollow'
<1>1. \A r \in Requests : Op(r)' = Op(r) /\ If(r)' = If(r) /\ Wanted(r)' = Wanted(r)
      BY EveryStep DEF Op, If, Wanted
<1>2. met \subseteq met' /\ (Contended => Contended')
      BY ExcusesStay, EveryStep
<1> SUFFICES ASSUME ~Contended' PROVE MetAnother' /\ SameWish' /\ KernelFollows'
    BY DEF StatesFollow
<1>3. /\ \A r \in Requests : at[r] \in {"set", "record"} /\ recorded[If(r)] = Wanted(r) =>
            \E s \in Requests \ {r} : {r, s} \in met /\ Op(s) = Op(r)
      /\ \A r, s \in Requests :
            at[r] \in {"set", "record"} /\ at[s] \in {"set", "record"} /\ If(r) = If(s)
            => Op(r) = Op(s)
      /\ \A r \in Requests : at[r] = "record" => (If(r) \in up <=> Op(r) = "up")
      /\ \A i \in Attached :
            \/ recorded[i] = "UP" <=> i \in up
            \/ \E r \in Requests : at[r] = "record" /\ If(r) = i
      BY <1>2 DEF StatesFollow, MetAnother, SameWish, KernelFollows, Changing
<1>4. CASE Edit \/ vars' = vars
  <2>1. at' = at /\ recorded' = recorded /\ met' = met /\ up' = up
        BY <1>4, Others
  <2>2. MetAnother'
    <3> SUFFICES ASSUME NEW r \in Requests, at'[r] \in {"set", "record"},
                        recorded'[If(r)] = Wanted(r)
                 PROVE  \E s \in Requests \ {r} : {r, s} \in met' /\ Op(s) = Op(r)
        BY <1>1 DEF MetAnother, Changing
    <3> QED BY <1>3, <2>1
  <2>3. SameWish'
    <3> SUFFICES ASSUME NEW r \in Requests, NEW s \in Requests,
                        Changing(r)', Changing(s)', If(r)' = If(s)'
                 PROVE  Op(r)' = Op(s)'
        BY DEF SameWish
    <3> QED BY <1>1, <1>3, <2>1 DEF Changing
  <2>4. KernelFollows'
        BY <1>1, <1>3, <2>1 DEF KernelFollows, Attached
  <2> QED BY <2>2, <2>3, <2>4
<1>5. ASSUME NEW q \in Requests, Step(q)
      PROVE  MetAnother' /\ SameWish' /\ KernelFollows'
  <2>1. \A s \in Requests \ {q} : at'[s] = at[s]
        BY <1>5, StepOfOne
  <2>2. \A s \in Requests : at[s] \in {"set", "record"} =>
           Op(s) \in {"down", "up"} /\ recorded[If(s)] # "none"
        BY DEF StepsOfOps, SwitchKnown, Changing
  <2>3. at'[q] \in {"set", "record"} =>
           \/ at[q] = "set" /\ recorded' = recorded
           \/ BeginState(q) /\ recorded[If(q)] \notin {"none", Wanted(q)}
    <3>1. at'[q] = "done" \/ recorded' = recorded
          BY <1>5, Changes DEF RecordInterface, RecordState, Answer, TypeOK
    <3>2. at[q] = "record" => at'[q] = "done"
          BY <1>5, Which DEF RecordState, Answer, TypeOK
    <3> QED BY <1>5, <3>1, <3>2, Rest
  <2>4. \A i \in Interfaces : recorded[i] \in {"none", "UP", "DOWN"}
        BY DEF TypeOK
  <2>5. ASSUME NEW i \in Interfaces, recorded[i] # "none"
        PROVE  recorded'[i] = recorded[i] \/ (RecordState(q) /\ i = If(q))
    <3>1. CASE RecordInterface(q)
      <4>1. recorded[If(q)] = "none"
            BY <3>1 DEF RecordInterface, SwitchKnown, StepsOfOps
      <4> QED BY <2>5, <3>1, <4>1, Typed DEF RecordInterface, TypeOK
    <3>2. CASE RecordState(q)
          BY <3>2, Typed DEF RecordState, TypeOK
    <3> QED BY <1>5, <3>1, <3>2, Changes
  <2>6. ASSUME NEW r \in Requests, at'[r] \in {"set", "record"}, recorded'[If(r)] = Wanted(r)
        PROVE  \E s \in Requests \ {r} : {r, s} \in met' /\ Op(s) = Op(r)
    <3>1. CASE r = q
          BY <1>2, <1>3, <2>3, <2>6, <3>1 DEF BeginState, node
    <3>2. CASE r # q
      <4>1. at[r] \in {"set", "record"} /\ recorded[If(r)] # "none" /\ If(r) \in Interfaces
            BY <2>1, <2>2, <2>6, <3>2, Typed
      <4>2. CASE RecordState(q) /\ If(r) = If(q)
        <5>1. at[q] = "record"
              BY <4>2 DEF RecordState
        <5>2. Op(q) = Op(r)
              BY <1>3, <4>1, <4>2, <5>1
        <5>3. {r, q} \in met
              BY <3>2, <4>1, <5>1 DEF Together, UnderWay
        <5> QED BY <1>2, <3>2, <5>2, <5>3
      <4>3. CASE recorded'[If(r)] = recorded[If(r)]
            BY <1>2, <1>3, <2>6, <4>1, <4>3
      <4> QED BY <2>5, <4>1, <4>2, <4>3
    <3> QED BY <3>1, <3>2
  <2>7. ASSUME NEW s \in Requests, s # q, at[s] \in {"set", "record"}, BeginState(q),
               at'[q] \in {"set", "record"}, recorded[If(q)] \notin {"none", Wanted(q)},
               If(q) = If(s)
        PROVE  Op(q) = Op(s)
    <3> SUFFICES ASSUME Op(q) # Op(s) PROVE FALSE
        OBVIOUS
    <3>1. Op(q) \in {"down", "up"} /\ Op(s) \in {"down", "up"}
          BY <2>2, <2>7 DEF BeginState
    <3>2. recorded[If(s)] = Wanted(s)
          BY <2>4, <2>7, <3>1, Typed DEF Wanted
    <3>3. PICK t \in Requests \ {s} : {s, t} \in met /\ Op(t) = Op(s)
          BY <1>3, <2>7, <3>2
    <3>4. {q, s} \in met'
          BY <2>1, <2>7, TogetherStep DEF Together, UnderWay
    <3> QED BY <1>2, <2>7, <3>1, <3>3, <3>4, Contend
  <2>8. ASSUME NEW r \in Requests, NEW s \in Requests,
               at'[r] \in {"set", "record"}, at'[s] \in {"set", "record"}, If(r) = If(s)
        PROVE  Op(r) = Op(s)
    <3>1. CASE at[r] \in {"set", "record"} /\ at[s] \in {"set", "record"}
          BY <1>3, <2>8, <3>1
    <3>2. CASE r = q /\ s # q
          BY <2>1, <2>3, <2>7, <2>8, <3>1, <3>2
    <3>3. CASE s = q /\ r # q
          BY <2>1, <2>3, <2>7, <2>8, <3>1, <3>3
    <3> QED BY <2>1, <2>8, <3>1, <3>2, <3>3
  <2>9. ASSUME NEW r \in Requests, at'[r] = "record"
        PROVE  If(r) \in up' <=> Op(r) = "up"
    <3>1. CASE SetState(q)
      <4>1. at[q] = "set" /\ at'[q] = "record" /\ Op(q) \in {"down", "up"}
            BY <2>2, <3>1 DEF SetState, Goto, TypeOK
      <4>2. CASE If(r) = If(q)
        <5>1. Op(r) = Op(q)
              BY <2>8, <2>9, <4>1, <4>2
        <5> QED BY <3>1, <4>2, <5>1 DEF SetState
      <4>3. CASE If(r) # If(q)
        <5>1. at[r] = "record"
              BY <2>1, <2>9, <4>3
        <5> QED BY <1>3, <3>1, <4>3, <5>1 DEF SetState
      <4> QED BY <4>2, <4>3
    <3>2. CASE ~SetState(q)
          BY <1>3, <1>5, <2>1, <2>9, <3>2, Changes, Rest
    <3> QED BY <3>1, <3>2
  <2>10. ASSUME NEW i \in Attached'
         PROVE  \/ recorded'[i] = "UP" <=> i \in up'
                \/ \E r \in Requests : at'[r] = "record" /\ If(r) = i
    <3>1. i \in Interfaces
          BY DEF Attached
    <3>2. CASE recorded[i] = "none"
      <4>1. i \in up /\ recorded'[i] # "none"
            BY <3>1, <3>2 DEF SwitchKnown, Attached
      <4>2. RecordInterface(q) \/ RecordState(q)
            BY <1>5, <3>2, <4>1, Changes
      <4>3. ~RecordState(q)
            BY <2>2, <3>1, <3>2, <4>1, Typed DEF RecordState, TypeOK
      <4> QED BY <3>1, <3>2, <4>1, <4>2, <4>3, Typed DEF RecordInterface, TypeOK, ovs
    <3>3. CASE recorded[i] # "none" /\ SetState(q) /\ i = If(q)
          BY <3>3 DEF SetState, Goto, TypeOK
    <3>4. CASE recorded[i] # "none" /\ RecordState(q) /\ i = If(q)
      <4>1. at[q] = "record" /\ recorded'[i] = Wanted(q) /\ up' = up
            BY <3>1, <3>4 DEF RecordState, TypeOK, ovs
      <4>2. Op(q) \in {"down", "up"} /\ (i \in up <=> Op(q) = "up")
            BY <1>3, <2>2, <3>4, <4>1
      <4> QED BY <4>1, <4>2 DEF Wanted
    <3>5. CASE /\ recorded[i] # "none"
               /\ ~(SetState(q) /\ i = If(q)) /\ ~(RecordState(q) /\ i = If(q))
      <4>1. recorded'[i] = recorded[i]
            BY <2>5, <3>1, <3>5
      <4>2. i \in up' <=> i \in up
            BY <1>5, <3>5, Changes DEF SetState
      <4>3. \A r \in Requests : at[r] = "record" /\ If(r) = i => at'[r] = "record"
            BY <1>5, <2>1, <3>5, Which
      <4>4. \/ recorded[i] = "UP" <=> i \in up
            \/ \E r \in Requests : at[r] = "record" /\ If(r) = i
            BY <1>3, <3>1, <3>5 DEF Attached
      <4> QED BY <4>1, <4>2, <4>3, <4>4
    <3> QED BY <3>2, <3>3, <3>4, <3>5
  <2>11. MetAnother'
         BY <1>1, <2>6 DEF MetAnother, Changing
  <2>12. SameWish'
    <3> SUFFICES ASSUME NEW r \in Requests, NEW s \in Requests,
                        Changing(r)', Changing(s)', If(r)' = If(s)'
                 PROVE  Op(r)' = Op(s)'
        BY DEF SameWish
    <3> QED BY <1>1, <2>8 DEF Changing
  <2>13. KernelFollows'
         BY <1>1, <2>9, <2>10 DEF KernelFollows
  <2> QED BY <2>11, <2>12, <2>13
<1> QED BY <1>4, <1>5, Shapes


-----------------------------------------------------------------------------
(* The file of the container.                                               *)

LEMMA FileStep ==
    ASSUME TypeOK, Together, StepsOfOps, FileFollows, [Next]_vars
    PROVE  FileFollows'
<1>1. \A r \in Requests : Op(r)' = Op(r)
      BY EveryStep DEF Op
<1>2. /\ met \subseteq met' /\ (Met({"save"}, Starting) => Met({"save"}, Starting)')
      /\ \A r \in Requests : at[r] # "begin" => at'[r] # "begin"
      BY ExcusesStay, EveryStep
<1>3. ASSUME Edit \/ vars' = vars, NEW r \in Requests, Op(r) = "save",
             ~Met({"save"}, Starting)'
      PROVE  /\ at'[r] = "fetch" => file' = "none" \/ ReadBy(file, r)'
             /\ at'[r] = "cut" => ReadBy(text[r], r)'
  <2>1. /\ at' = at /\ seen' = seen /\ text' = text /\ met' = met /\ file' = file
        BY <1>3, Others
  <2>2. /\ at[r] = "fetch" => file = "none" \/ ReadBy(file, r)
        /\ at[r] = "cut" => ReadBy(text[r], r)
        BY <1>2, <1>3 DEF FileFollows
  <2> QED BY <2>1, <2>2 DEF ReadBy
<1>4. ASSUME NEW q \in Requests, Step(q), NEW r \in Requests, Op(r) = "save",
             ~Met({"save"}, Starting)'
      PROVE  /\ at'[r] = "fetch" => file' = "none" \/ ReadBy(file, r)'
             /\ at'[r] = "cut" => ReadBy(text[r], r)'
  <2>1. \A s \in Requests \ {q} :
           at'[s] = at[s] /\ seen'[s] = seen[s] /\ text'[s] = text[s]
        BY <1>4, StepOfOne
  <2>2. ASSUME NEW s \in Requests, at[s] \notin {"begin", "saveCmd"}
        PROVE  at'[s] \notin {"begin", "saveCmd"} /\ seen'[s] = seen[s]
        BY <1>4, <2>1, <2>2, StepOfOne
  <2>3. ASSUME NEW c, ReadBy(c, r)
        PROVE  \E s \in Requests : /\ s = r \/ {r, s} \in met'
                                   /\ at'[s] \notin {"begin", "saveCmd"} /\ c = seen'[s]
        BY <1>2, <2>2, <2>3 DEF ReadBy
  <2>4. /\ at[r] = "fetch" => file = "none" \/ ReadBy(file, r)
        /\ at[r] = "cut" => ReadBy(text[r], r)
        BY <1>2, <1>4 DEF FileFollows
  <2>5. ASSUME at'[r] = "fetch"
        PROVE  \/ file' = "none"
               \/ \E s \in Requests : /\ s = r \/ {r, s} \in met'
                                      /\ at'[s] \notin {"begin", "saveCmd"}
                                      /\ file' = seen'[s]
    <3>1. CASE WriteFile(q)
      <4>1. file' = seen'[q] /\ at[q] = "write" /\ at'[q] = "fetch"
            BY <3>1 DEF WriteFile, Goto, local, TypeOK
      <4>2. q = r \/ {r, q} \in met'
            BY <1>2, <2>1, <2>5, <4>1 DEF Together, UnderWay
      <4> QED BY <4>1, <4>2
    <3>2. CASE CopyConfig(q)
      <4>1. at[q] = "load" /\ at'[q] # "fetch"
            BY <3>2 DEF CopyConfig, Goto, Answer, TypeOK
      <4>2. q # r /\ q \in UnderWay /\ r \in UnderWay /\ Op(q) \in Starting
            BY <2>1, <2>5, <4>1 DEF UnderWay, StepsOfOps
      <4> QED BY <1>2, <1>4, <4>2, Overlap
    <3>3. CASE ExecSave(q)
      <4>1. file' = "none" \/ (file' = file /\ at'[q] = "done")
            BY <3>3 DEF ExecSave, Answer, TypeOK
      <4>2. at'[q] # "fetch"
            BY <3>3 DEF ExecSave, Answer, TypeOK
      <4> QED BY <2>1, <2>3, <2>4, <2>5, <4>1, <4>2
    <3>4. CASE ~WriteFile(q) /\ ~CopyConfig(q) /\ ~ExecSave(q)
      <4>1. file' \in {file, "none"}
            BY <1>4, <3>4, Changes DEF CallFails
      <4>2. at[r] = "fetch"
            BY <1>4, <2>1, <2>5, <3>4, Rest
      <4> QED BY <2>3, <2>4, <4>1, <4>2
    <3> QED BY <3>1, <3>2, <3>3, <3>4
  <2>6. ASSUME at'[r] = "cut"
        PROVE  \E s \in Requests : /\ s = r \/ {r, s} \in met'
                                   /\ at'[s] \notin {"begin", "saveCmd"}
                                   /\ text'[r] = seen'[s]
    <3>1. CASE at[r] = "cut"
      <4>1. q # r
            BY <1>4, <2>6, <3>1, Which DEF WriteArchive, Answer, TypeOK
      <4> QED BY <2>1, <2>3, <2>4, <3>1, <4>1
    <3>2. CASE at[r] # "cut"
      <4>1. q = r /\ FetchFile(r) /\ text'[r] = file /\ file # "none"
            BY <1>4, <2>1, <2>6, <3>2, Rest
      <4> QED BY <2>3, <2>4, <4>1 DEF FetchFile
    <3> QED BY <3>1, <3>2
  <2> QED BY <1>1, <2>5, <2>6 DEF ReadBy
<1> QED BY <1>1, <1>2, <1>3, <1>4, Shapes DEF FileFollows


-----------------------------------------------------------------------------
(* The configuration of the switch.                                         *)

\* The command that saves finds a whole configuration, unless something is spoilt.
LEMMA FoundWhole ==
    ASSUME TypeOK, Together, StepsOfOps, ConfigFollows, ~Spoilt,
           NEW r \in Requests, at[r] = "saveCmd", bridge
    PROVE  Found = live /\ Whole(Found)
<1>1. r \in UnderWay /\ Op(r) \in Saving
      BY DEF UnderWay, StepsOfOps
<1>2. ASSUME NEW s \in Requests, Op(s) \in Starting \cup Ending, s \in UnderWay
      PROVE  FALSE
  <2>1. s # r
        BY <1>1, <1>2 DEF Starting, Ending, Saving
  <2> QED BY <1>1, <1>2, <2>1, Overlap DEF Spoilt
<1>3. \A s \in Requests : ~Waking(s) /\ ~Leaving(s) /\ ~Removing(s) /\ at[s] \notin {"run", "addPorts"}
  <2> SUFFICES ASSUME NEW s \in Requests,
                      at[s] \in {"run", "addPorts", "load", "exec", "delPorts", "delBr", "off"}
               PROVE  FALSE
      BY DEF Waking, Leaving, Removing
  <2> QED BY <1>2 DEF StepsOfOps, UnderWay, Ending
<1>4. live # "blank" /\ live # "partial" /\ Old \subseteq ports \cup bond
      BY <1>3 DEF ConfigFollows, Cared, Adding
<1> QED BY <1>4 DEF Found, Whole

\* What goes through the files is whole, unless something is spoilt.
LEMMA WholeStep ==
    ASSUME TypeOK, Together, StepsOfOps, ConfigFollows, [Next]_vars, ~Spoilt'
    PROVE  /\ Whole(file)' /\ Whole(archive)' /\ live' # "partial"
           /\ \A r \in Requests : Whole(seen'[r]) /\ Whole(text'[r])
<1>1. ~Spoilt
      BY ExcusesStay
<1>2. /\ Whole(file) /\ Whole(archive) /\ live # "partial"
      /\ \A r \in Requests : Whole(seen[r]) /\ Whole(text[r])
      BY <1>1 DEF ConfigFollows
<1>3. CASE Edit \/ vars' = vars
  <2>1. live' # "partial"
        BY <1>2, <1>3 DEF Edit, vars, config
  <2> QED BY <1>2, <1>3, <2>1, Others DEF Whole
<1>4. ASSUME NEW r \in Requests, Step(r)
      PROVE  /\ Whole(file)' /\ Whole(archive)' /\ live' # "partial"
             /\ \A s \in Requests : Whole(seen'[s]) /\ Whole(text'[s])
  <2>1. /\ \A s \in Requests \ {r} : seen'[s] = seen[s] /\ text'[s] = text[s]
        BY <1>4, StepOfOne
  <2>2. Op(r) \in Starting => answer'[r] # "error"
        BY FailsNow
  <2>3. Whole(file)'
        BY <1>2, <1>4, Changes
        DEF Whole, CopyConfig, ExecSave, WriteFile, CallFails, local
  <2>4. Whole(archive)'
        BY <1>2, <1>4, Changes DEF Whole, FetchFile, WriteArchive
  <2>5. live' # "partial"
    <3>1. CASE AddBr(r) \/ CopyConfig(r) \/ DelBr(r)
          BY <1>2, <3>1 DEF AddBr, CopyConfig, DelBr
    <3>2. CASE ExecLoad(r)
      <4>1. answer'[r] # "error"
            BY <2>2, <3>2 DEF ExecLoad, StepsOfOps
      <4> QED BY <1>2, <3>2, <4>1 DEF ExecLoad, Answer, TypeOK, Whole
    <3>3. CASE CallFails(r)
      <4>1. at[r] # "exec"
            BY <2>2, <3>3 DEF CallFails, Answer, TypeOK, StepsOfOps
      <4> QED BY <1>2, <3>3, <4>1 DEF CallFails
    <3> QED BY <1>2, <1>4, <3>1, <3>2, <3>3, Changes
  <2>6. Whole(seen'[r])
    <3>1. CASE ExecSave(r)
          BY <1>1, <1>2, <3>1, FoundWhole DEF ExecSave, Answer, TypeOK
    <3> QED BY <1>2, <1>4, <3>1, Changes
  <2>7. Whole(text'[r])
        BY <1>2, <1>4, Rest DEF Whole
  <2> QED BY <1>2, <2>1, <2>3, <2>4, <2>5, <2>6, <2>7
<1> QED BY <1>3, <1>4, Shapes

\* A command that saves is under way on a switch that runs.
LEMMA SavingRuns ==
    ASSUME TypeOK, Together, StepsOfOps, ConfigFollows, [Next]_vars, ~Spoilt',
           NEW r \in Requests, at'[r] = "saveCmd"
    PROVE  running'
<1>1. ~Spoilt
      BY ExcusesStay
<1>2. CASE Edit \/ vars' = vars
      BY <1>1, <1>2, Others DEF ConfigFollows
<1>3. ASSUME NEW q \in Requests, Step(q) PROVE running'
  <2>1. running
    <3>1. CASE at[r] = "saveCmd"
          BY <1>1, <3>1 DEF ConfigFollows
    <3>2. CASE at[r] # "saveCmd"
      <4>1. q = r
            BY <1>3, <3>2, StepOfOne
      <4> QED BY <1>3, <3>2, <4>1, Rest
    <3> QED BY <3>1, <3>2
  <2>2. CASE SetStopped(q)
    <3>1. at[q] = "off" /\ at'[q] # "saveCmd"
          BY <2>2 DEF SetStopped, Stopped, Goto, Answer, TypeOK
    <3>2. q # r /\ at[r] = "saveCmd"
          BY <1>3, <3>1, StepOfOne
    <3>3. q \in UnderWay /\ r \in UnderWay /\ Op(q) \in Starting \cup Ending /\ Op(r) \in Saving
          BY <3>1, <3>2 DEF UnderWay, StepsOfOps, Ending
    <3> QED BY <1>1, <3>2, <3>3, Overlap DEF Spoilt
  <2> QED BY <1>3, <2>1, <2>2, Changes DEF SetRunning
<1> QED BY <1>2, <1>3, Shapes


\* The bridge of a switch that runs stays in good hands.
LEMMA CaredStep ==
    ASSUME TypeOK, Together, StepsOfOps, SwitchKnown, ConfigFollows, [Next]_vars, ~Spoilt'
    PROVE  Cared'
<1>1. Old' = Old /\ ~Spoilt /\ \A r \in Requests : Op(r)' = Op(r)
      BY ExcusesStay, EveryStep DEF Op
<1>2. Cared /\ Whole(file)
      BY <1>1 DEF ConfigFollows
<1> SUFFICES ASSUME running', bridge'
    PROVE /\ live' = "blank" =>
                \E r \in Requests :
                   \/ at'[r] \in {"run", "addPorts", "load", "exec"}
                   \/ at'[r] \in {"delPorts", "delBr", "off"}
          /\ \A i \in Old :
                \/ i \in ports' \cup bond'
                \/ \E r \in Requests : \/ at'[r] \in {"delPorts", "delBr", "off", "run"}
                                       \/ at'[r] = "addPorts" /\ i \in todo'[r]
  <2>1. \A r \in Requests :
           /\ Waking(r)' <=> at'[r] \in {"run", "addPorts", "load", "exec"}
           /\ Leaving(r)' \/ Removing(r)' <=> at'[r] \in {"delPorts", "delBr", "off"}
    <3>1. \A r \in Requests : at'[r] \in {"delPorts", "off"} => Op(r) # "close"
          BY <1>1, StepsStep DEF StepsOfOps
    <3> QED BY <1>1, <3>1 DEF Waking, Leaving, Removing
  <2> QED BY <1>1, <2>1 DEF Cared, Adding
<1>3. running /\ bridge =>
         /\ live = "blank" =>
               \E r \in Requests :
                  \/ at[r] \in {"run", "addPorts", "load", "exec"}
                  \/ at[r] \in {"delPorts", "delBr", "off"}
         /\ \A i \in Old :
               \/ i \in ports \cup bond
               \/ \E r \in Requests : \/ at[r] \in {"delPorts", "delBr", "off", "run"}
                                      \/ at[r] = "addPorts" /\ i \in todo[r]
      BY <1>2 DEF Cared, Waking, Leaving, Removing, Adding
<1>4. CASE Edit \/ vars' = vars
  <2>1. running /\ bridge /\ at' = at /\ todo' = todo
        BY <1>4, Others
  <2>2. ports \cup bond \subseteq ports' \cup bond' /\ (live' = "blank" => live = "blank")
        BY <1>4 DEF Edit, vars, ovs, config, SwitchKnown
  <2> QED BY <1>3, <2>1, <2>2
<1>5. ASSUME NEW r \in Requests, Step(r)
      PROVE  /\ live' = "blank" =>
                   \E s \in Requests :
                      \/ at'[s] \in {"run", "addPorts", "load", "exec"}
                      \/ at'[s] \in {"delPorts", "delBr", "off"}
             /\ \A i \in Old :
                   \/ i \in ports' \cup bond'
                   \/ \E s \in Requests : \/ at'[s] \in {"delPorts", "delBr", "off", "run"}
                                          \/ at'[s] = "addPorts" /\ i \in todo'[s]
  <2>1. \A s \in Requests \ {r} : at'[s] = at[s] /\ todo'[s] = todo[s]
        BY <1>5, StepOfOne
  <2>2. at[r] \in {"addBr", "run", "addPorts", "load", "exec", "delPorts", "delBr", "off"} =>
           answer'[r] # "error" /\ ~CallFails(r)
    <3>1. at[r] \in {"addBr", "run", "addPorts", "load", "exec", "delPorts", "delBr", "off"} =>
             Op(r) \in Starting \cup Ending
          BY DEF StepsOfOps, Ending
    <3> QED BY <3>1, FailsNow DEF CallFails, Answer, TypeOK
  <2>3. ~DelBr(r) /\ ~SetStopped(r)
        BY DEF DelBr, SetStopped, SwitchKnown
  <2>4. CASE AddBr(r)
    <3>1. at[r] = "addBr" /\ answer'[r] # "error"
          BY <2>2, <2>4 DEF AddBr
    <3>2. ~Answer(r, "error")
          BY <3>1 DEF Answer, TypeOK
    <3>3. at'[r] = "run"
          BY <2>4, <3>2 DEF AddBr, Goto, TypeOK
    <3> QED BY <3>3
  <2>5. CASE SetRunning(r)
    <3>1. at'[r] = "addPorts" /\ todo'[r] = Attached
          BY <2>5 DEF SetRunning, GotoLoop, TypeOK
    <3> QED BY <3>1 DEF SwitchKnown
  <2>6. CASE ~AddBr(r) /\ ~SetRunning(r)
    <3>1. running /\ bridge
          BY <1>5, <2>3, <2>6, Changes
    <3>2. \A s \in Requests : at[s] \in {"delPorts", "delBr", "off"} =>
             at'[s] \in {"delPorts", "delBr", "off"}
      <4>1. at[r] \in {"delPorts", "delBr", "off"} => DelPort(r)
            BY <1>5, <2>2, <2>3, Which
      <4>2. DelPort(r) => at'[r] \in {"delPorts", "delBr"}
            BY <2>2 DEF DelPort, Goto, Answer, TypeOK
      <4> QED BY <2>1, <4>1, <4>2
    <3>3. ASSUME live' = "blank", NEW s \in Requests,
                 at[s] \in {"run", "addPorts", "load", "exec"}
          PROVE  at'[s] \in {"run", "addPorts", "load", "exec"}
      <4> SUFFICES ASSUME s = r PROVE at'[r] \in {"run", "addPorts", "load", "exec"}
          BY <2>1, <3>3
      <4>1. AddPort(r) \/ CopyConfig(r) \/ ExecLoad(r)
            BY <1>5, <2>2, <2>6, <3>3, Which
      <4>2. CASE AddPort(r)
            BY <2>2, <4>2 DEF AddPort, Goto, Answer, TypeOK
      <4>3. CASE CopyConfig(r)
            BY <3>1, <3>3, <4>3 DEF CopyConfig, Goto, Answer, TypeOK
      <4>4. CASE ExecLoad(r)
            BY <1>2, <2>2, <3>3, <4>4 DEF ExecLoad, Answer, TypeOK, Whole
      <4> QED BY <4>1, <4>2, <4>3, <4>4
    <3>4. live' = "blank" => live = "blank"
      <4>1. CASE ExecLoad(r)
            BY <1>2, <2>2, <4>1 DEF ExecLoad, Answer, TypeOK, Whole
      <4> QED BY <1>5, <2>3, <2>6, <4>1, Changes DEF CopyConfig, CallFails
    <3>5. ASSUME NEW i \in Old, i \in ports \cup bond
          PROVE  i \in ports' \cup bond' \/ at'[r] \in {"delPorts", "delBr"}
      <4>1. CASE DelPort(r)
            BY <2>2, <4>1 DEF DelPort, Goto, Answer, TypeOK
      <4>2. CASE ExecLoad(r)
            BY <2>2, <3>5, <4>2 DEF ExecLoad, Answer, TypeOK, SwitchKnown
      <4>3. CASE AddPort(r) \/ AttachPort(r)
            BY <3>5, <4>3 DEF AddPort, AttachPort
      <4> QED BY <1>5, <2>3, <3>5, <4>1, <4>2, <4>3, Changes
    <3>6. ASSUME NEW i \in Old, NEW s \in Requests, at[s] = "addPorts", i \in todo[s]
          PROVE  i \in ports' \/ (at'[s] = "addPorts" /\ i \in todo'[s])
      <4>1. CASE s # r
            BY <2>1, <3>6, <4>1
      <4>2. CASE s = r
        <5>1. AddPort(r) /\ answer'[r] # "error"
              BY <1>5, <2>2, <3>6, <4>2, Which
        <5> QED BY <3>6, <4>2, <5>1 DEF AddPort, Answer, TypeOK
      <4> QED BY <4>1, <4>2
    <3>7. \A s \in Requests : at[s] = "run" => at'[s] = "run"
          BY <1>5, <2>1, <2>6, Which
    <3> QED BY <1>3, <3>1, <3>2, <3>3, <3>4, <3>5, <3>6, <3>7
  <2> QED BY <2>4, <2>5, <2>6
<1> QED BY <1>4, <1>5, Shapes

-----------------------------------------------------------------------------
(* The invariant, and what follows from it.                                 *)

\* The invariant holds in every initial state: a switch that runs has all the
\* ports that are recorded, and the configuration of its archive.
LEMMA InitIInv == Init => IInv
<1> SUFFICES ASSUME Init PROVE IInv
    OBVIOUS
<1>1. TypeOK
      BY InitTypes
<1>2. StepsOfOps /\ Together /\ FileFollows
      BY <1>1 DEF Init, StepsOfOps, Together, FileFollows, UnderWay, TypeOK
<1>3. SwitchKnown
  <2>1. Attached = Old
        BY DEF Init, Attached, Old
  <2>2. \A r \in Requests : Op(r) = "attach" => If(r) \notin Old
        BY DEF Old
  <2>3. \A r \in Requests : Op(r) = "attach" => recorded[If(r)] = "none"
        BY <1>1, <2>2, Typed DEF Init
  <2> QED BY <1>1, <2>1, <2>3 DEF Init, SwitchKnown, Changing, TypeOK
<1>4. PortsFollow
      BY <1>1 DEF Init, PortsFollow, Owed, Attached, Old, TypeOK
<1>5. StatesFollow
      BY <1>1
      DEF Init, StatesFollow, MetAnother, SameWish, KernelFollows, Changing, Attached, TypeOK
<1>6. ConfigFollows
      BY <1>1 DEF Init, ConfigFollows, Cared, Whole, TypeOK
<1> QED BY <1>1, <1>2, <1>3, <1>4, <1>5, <1>6 DEF IInv

\* Every step preserves the invariant.
LEMMA StepIInv == IInv /\ [Next]_vars => IInv'
<1> SUFFICES ASSUME IInv, [Next]_vars PROVE IInv'
    OBVIOUS
<1> USE DEF IInv
<1>1. TypeOK' /\ StepsOfOps' /\ Together'
      BY TypeStep, StepsStep, TogetherStep
<1>2. SwitchKnown' /\ PortsFollow'
      BY KnownStep, PortsStep
<1>3. StatesFollow' /\ FileFollows'
      BY StatesStep, FileStep
<1>4. ConfigFollows'
  <2> SUFFICES ASSUME ~Spoilt' PROVE ConfigFollows'
      BY DEF ConfigFollows
  <2>1. Cared'
        BY CaredStep
  <2>2. \A r \in Requests : at'[r] = "saveCmd" => running'
        BY SavingRuns
  <2> QED BY <2>1, <2>2, WholeStep DEF ConfigFollows
<1> QED BY <1>1, <1>2, <1>3, <1>4

\* The switch keeps the inductive invariant through every interleaving.
THEOREM Invariant == Spec => []IInv
BY InitIInv, StepIInv, PTL DEF Spec

\* The state of the switch, its files and its requests keep their types.
THEOREM TypeCorrect == Spec => []TypeOK
<1>1. IInv => TypeOK
      BY DEF IInv
<1> QED BY <1>1, Invariant, PTL

\* When no request is under way a running switch has the ports it records, and
\* the recorded states are those of the kernel, but for the excuses named: a
\* failure that was answered, a close, an attach beside a start, three requests
\* that contend (OvsNode.Start, Stop, AttachInterface, SetInterfaceState).
THEOREM RecordsStayTrue == Spec => []RecordsAreTrue
<1>1. ASSUME IInv PROVE RecordsAreTrue
  <2>1. ASSUME Quiet, NEW r \in Requests
        PROVE  at[r] \in {"begin", "done"}
        BY <2>1 DEF Quiet, UnderWay
  <2>2. ASSUME Quiet, running, ~Closed
        PROVE  \/ Attached \subseteq ports \cup bond
               \/ Failed(Starting \cup Ending)
               \/ Met({"attach"}, Starting)
        BY <1>1, <2>1, <2>2 DEF IInv, PortsFollow, Excused, Owed, Leaving, Adding
  <2>3. ASSUME Quiet
        PROVE  Contended \/ \A i \in Attached : recorded[i] = "UP" <=> i \in up
        BY <1>1, <2>1, <2>3 DEF IInv, StatesFollow, KernelFollows
  <2> QED BY <2>2, <2>3 DEF RecordsAreTrue
<1> QED BY <1>1, Invariant, PTL

\* A save that answers without error has archived what its command read, or that
\* of a save or a read beside it, and all of it, but for a start or a stop beside
\* it or one that failed (OvsNode.Save, SaveConfig, LoadConfig).
THEOREM SavesAreTrue == Spec => SaveIsTrue
<1> DEFINE Body ==
       \A r \in Requests :
          at[r] = "cut" /\ answer'[r] = "ok" =>
              /\ \/ \E s \in Requests :
                       (s = r \/ {r, s} \in met) /\ archive' = seen[s]
                 \/ Met({"save"}, Starting)
              /\ archive' \in {"blank", "partial"} =>
                    \/ Met(Saving, Starting \cup Ending)
                    \/ Failed(Starting \cup Ending)
<1>1. IInv /\ [Next]_vars => [Body]_vars
  <2> SUFFICES ASSUME IInv, [Next]_vars, NEW r \in Requests,
                      at[r] = "cut", answer'[r] = "ok"
               PROVE  /\ \/ \E s \in Requests :
                               (s = r \/ {r, s} \in met) /\ archive' = seen[s]
                         \/ Met({"save"}, Starting)
                      /\ archive' \in {"blank", "partial"} =>
                            \/ Met(Saving, Starting \cup Ending)
                            \/ Failed(Starting \cup Ending)
      OBVIOUS
  <2> USE DEF IInv
  <2>1. answer[r] = "none"
        BY Typed DEF Together
  <2>2. Step(r)
    <3>1. ~(Edit \/ vars' = vars)
          BY <2>1, Others
    <3> QED BY <2>1, <3>1, Shapes, StepOfOne
  <2>3. archive' = text[r]
        BY <2>2, Which DEF WriteArchive, Answer, TypeOK
  <2>4. Op(r) = "save"
        BY DEF StepsOfOps
  <2>5. ReadBy(text[r], r) \/ Met({"save"}, Starting)
        BY <2>4 DEF FileFollows
  <2>6. Spoilt \/ Whole(text[r])
        BY DEF ConfigFollows
  <2> QED BY <2>3, <2>5, <2>6 DEF ReadBy, Spoilt, Whole
<1>2. SaveIsTrue <=> [][Body]_vars
      BY PTL DEF SaveIsTrue
<1> HIDE DEF Body
<1>3. Spec => [][Next]_vars
      BY PTL DEF Spec
<1> QED BY <1>1, <1>2, <1>3, Invariant, PTL

=============================================================================
