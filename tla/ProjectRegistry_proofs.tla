---------------------- MODULE ProjectRegistry_proofs ----------------------
(* Proofs about ProjectRegistry, for any number of requests, names and        *)
(* identifiers, whatever fails and whenever the daemon dies.                  *)
EXTENDS ProjectRegistry, TLAPS

-----------------------------------------------------------------------------
(* The inductive invariant.                                                 *)

\* The stages of a task that changes nothing under its identifier, and those
\* of an open that has made no container.
Asleep == Ended \cup {"rmdir"}
Young  == {"idle", "named", "picked", "unpacked"}

\* An open holds its identifier while its project is registered, and while a
\* task still works on it.
Holds(o) ==
    /\ id[o] # None
    /\ \/ openProjects[id[o]] = o
       \/ \E t \in Tasks : prj[t] = o /\ at[t] \notin Asleep

\* An open works on its own project and has an identifier once it has picked
\* one; the other tasks work on projects that were registered.
TasksKnown ==
    /\ \A o \in Opens :
          /\ at[o] # "idle" => prj[o] = o
          /\ at[o] \in {"idle", "named"} => id[o] = None
          /\ at[o] \in Opening \cup Closing => at[o] = "named" \/ id[o] # None
          /\ at[o] # "unregister"
    /\ \A t \in Tasks \ Opens :
          /\ at[t] \notin Opening
          /\ at[t] \in Closing =>
                /\ prj[t] # None /\ id[t] # None
                /\ id[prj[t]] = id[t] /\ at[prj[t]] = "end"

\* The tables hold opens that are far enough, under their identifiers, and not
\* those whose entry was deleted.
TablesKnown ==
    /\ \A i \in Ids : openProjects[i] # None =>
          id[openProjects[i]] = i /\ at[openProjects[i]] = "end"
    /\ \A i \in Ids : ovsInstances[i] # None =>
          id[ovsInstances[i]] = i /\ at[ovsInstances[i]] \notin Young
    /\ \A t \in Tasks : at[t] \in {"unregister", "rmdir"} =>
          ovsInstances[id[t]] # prj[t]
    /\ \A t \in Tasks : at[t] = "rmdir" => openProjects[id[t]] # prj[t]

\* Two opens that hold the same identifier are both in "clashed".
HoldersApart ==
    \A o, p \in Opens :
        Holds(o) /\ Holds(p) /\ id[o] = id[p] => o = p \/ o \in clashed

\* An ovs instance is forgotten before its identifier is given up.
OvsHeld ==
    \A i \in Ids : ovsInstances[i] # None =>
        Holds(ovsInstances[i]) \/ ovsInstances[i] \in clashed

\* Nobody has a container before it made one.
ContsKnown ==
    \A c \in conts : /\ at[c[1]] \notin Young /\ id[c[1]] # None
                     /\ c[2] = "node" => at[c[1]] # "loaded"

Gone(c) == c \notin conts \/ c \in stuck

\* An ovs container that is to be removed is found under its identifier.
OvsFound ==
    \A o \in Opens \ clashed :
        at[o] # "lost" /\ ~Gone(<<o, "ovs">>) => ovsInstances[id[o]] = o

\* What a task that closes a project has behind it.
Removed ==
    \A t \in Tasks :
        /\ at[t] \in {"ovs", "forget", "unregister", "rmdir"} =>
              Gone(<<prj[t], "node">>)
        /\ at[t] \in {"forget", "unregister", "rmdir"} =>
              prj[t] \in clashed \/ Gone(<<prj[t], "ovs">>)

\* The containers of an open that has ended are those of a registered project.
Owned ==
    \A o \in Opens \ clashed, kind \in Kinds :
        at[o] = "end" /\ ~Gone(<<o, kind>>) => openProjects[id[o]] = o

OrphanInv ==
    /\ TypeOK /\ TasksKnown /\ TablesKnown /\ HoldersApart /\ OvsHeld
    /\ ContsKnown /\ OvsFound /\ Removed /\ Owned

\* A container is in its place, or a clean listed it before its project was
\* registered.
InPlace(c) == c \in conts \/ \E k \in Cleans : c \in clean[k].strays

IsOpen(o) ==
    /\ id[o] # None /\ openProjects[id[o]] = o
    /\ ~BeingClosed(o)

\* What an open has made stays until somebody closes its project.
MadeStays ==
    \A o \in Opens \ clashed :
        /\ at[o] \in {"loaded", "created"} \/ IsOpen(o) =>
              ovsInstances[id[o]] = o /\ InPlace(<<o, "ovs">>)
        /\ at[o] = "created" \/ IsOpen(o) => InPlace(<<o, "node">>)
        /\ at[o] \in {"unpacked", "loaded", "created"} \/ IsOpen(o) => o \in dirs

\* What a clean has listed belongs to no open project, or its project was
\* registered when the clean listed it; what it is about to remove belongs to no
\* open project, or did not when the clean listed it.
CleanKnown ==
    \A k \in Cleans :
        /\ clean[k].at = "idle" => clean[k].strays = {}
        /\ \A c \in clean[k].todo :
              /\ id[c[1]] # None
              /\ c \in clean[k].strays \/ at[c[1]] \in {"end", "lost"}
        /\ \A c \in clean[k].victims :
              /\ id[c[1]] # None
              /\ \/ c \in clean[k].strays
                 \/ openProjects[id[c[1]]] # c[1] /\ at[c[1]] \in {"end", "lost"}
        /\ \A c \in clean[k].strays :
              /\ id[c[1]] # None /\ at[c[1]] \notin Young
              /\ c[2] = "node" => at[c[1]] # "loaded"

\* Under the identifier of a project that was loaded nobody else has a
\* container.
NamesTaken ==
    \A o, p \in Opens :
        (o # p /\ p \notin clashed /\ id[o] # None /\ id[p] = id[o]) =>
            /\ at[o] \in {"loaded", "created"} \/ openProjects[id[o]] = o =>
                  <<p, "ovs">> \notin conts
            /\ at[o] = "created" \/ openProjects[id[o]] = o =>
                  <<p, "node">> \notin conts

\* A clean has still to consider or to remove a stray, or somebody else will.
StraysHandled ==
    \A k \in Cleans : clean[k].at = "listed" =>
        \A c \in clean[k].strays \cap conts :
            \/ c \in clean[k].todo \cup clean[k].victims
            \/ c \in stuck
            \/ openProjects[id[c[1]]] = c[1]
            \/ c[1] \in clashed

\* The daemon has still to close a project that was open at its signal, or
\* somebody does.
ShutdownKnown ==
    /\ shutdown.at = "up" => shutdown.open = {}
    /\ \A o \in shutdown.open :
          /\ at[o] \in {"end", "lost"} /\ id[o] # None
          /\ openProjects[id[o]] = o =>
                id[o] \in shutdown.todo \/ BeingClosed(o)
    /\ shutdown.at \in {"draining", "exited"} =>
          shutdown.todo = {} /\ at[Daemon] \in Ended
    /\ shutdown.at = "exited" => \A t \in Tasks : at[t] \in Ended

IInv == /\ OrphanInv /\ MadeStays /\ CleanKnown /\ NamesTaken /\ StraysHandled
        /\ ShutdownKnown

-----------------------------------------------------------------------------
(* Types.                                                                   *)

\* A project that is found is one that an open has registered.
LEMMA FoundType ==
    ASSUME TypeOK, NEW t \in Tasks, NEW i \in Ids, Finds(t, i)
    PROVE  /\ openProjects[i] \in Opens
           /\ id' \in [Tasks -> Ids \cup {None}]
           /\ prj' \in [Tasks -> Opens \cup {None}]
           /\ at' \in [Tasks -> Opening \cup Closing \cup Ended]
           /\ \A u \in Tasks : at'[u] \in Closing => prj'[u] # None /\ id'[u] # None
BY RegistryAssumption DEF TypeOK, Finds, Goes, Closing

\* Rm works on containers.
LEMMA RmType ==
    ASSUME TypeOK, NEW c \in Opens \X Kinds, Rm(c)
    PROVE  conts' \subseteq Opens \X Kinds /\ stuck' \subseteq Opens \X Kinds
BY DEF TypeOK, Rm

\* The variables have their types to begin with.
LEMMA InitType == Init => TypeOK
<1> SUFFICES ASSUME Init PROVE TypeOK
  OBVIOUS
<1> USE DEF Init
<1>1. clean \in [Cleans -> CleanState] /\ shutdown \in ShutdownState
  BY DEF NoClean, CleanState, ShutdownState
<1>2. at \in [Tasks -> Opening \cup Closing \cup Ended]
  BY DEF Ended
<1>3. \A t \in Tasks : at[t] \notin Closing
  BY DEF Closing
<1> QED  BY <1>1, <1>2, <1>3 DEF TypeOK

\* Every step keeps the types.
LEMMA TypeStep == TypeOK /\ TasksKnown /\ [Next]_vars => TypeOK'
<1> SUFFICES ASSUME TypeOK, TasksKnown, [Next]_vars PROVE TypeOK'
  OBVIOUS
<1> USE DEF TypeOK, tables, tasks, host, hist, Opening, Closing, Ended
<1>1. ASSUME NEW o \in Opens, CheckName(o) PROVE TypeOK'
  BY <1>1 DEF CheckName, Goes, Tasks
<1>2. ASSUME NEW o \in Opens, PickId(o) PROVE TypeOK'
  <2>1. PICK i \in Ids :
          /\ id' = [id EXCEPT ![o] = i]
          /\ clashed' = clashed \cup
                (IF Users(i) = {} THEN {} ELSE {o} \cup {prj[t] : t \in Users(i)})
    BY <1>2 DEF PickId
  <2>2. \A t \in Users(i) : prj[t] \in Opens
    BY DEF Users, TasksKnown
  <2>3. clashed' \subseteq Opens
    BY <2>1, <2>2
  <2>4. id' \in [Tasks -> Ids \cup {None}] /\ i # None
    BY <2>1, RegistryAssumption
  <2>5. /\ at' = [at EXCEPT ![o] = "picked"]
        /\ UNCHANGED <<tables, name, prj, host, clean, shutdown, crashed>>
    BY <1>2 DEF PickId, Goes
  <2> QED  BY <2>1, <2>3, <2>4, <2>5 DEF Tasks
<1>3. ASSUME NEW o \in Opens, Unpack(o) PROVE TypeOK'
  BY <1>3 DEF Unpack, Goes, Tasks
<1>4. ASSUME NEW o \in Opens, Load(o) PROVE TypeOK'
  <2>1. /\ prj[o] # None /\ id[o] \in Ids /\ id[o] # None
        /\ UNCHANGED <<openProjects, name, id, prj, dirs, stuck, clean,
                       shutdown, hist>>
        /\ \/ NewOvsInstance(o) \/ CreateNode(o) \/ LoadFails(o)
    BY <1>4, RegistryAssumption DEF Load, TasksKnown, Tasks
  <2>2. CASE NewOvsInstance(o)
    BY <2>1, <2>2 DEF NewOvsInstance, Goes, Tasks, Kinds
  <2>3. CASE CreateNode(o)
    BY <2>1, <2>3 DEF CreateNode, Goes, Tasks, Kinds
  <2>4. CASE LoadFails(o)
    BY <2>1, <2>4 DEF LoadFails, Goes, Tasks
  <2> QED  BY <2>1, <2>2, <2>3, <2>4
<1>5. ASSUME NEW o \in Opens, Register(o) PROVE TypeOK'
  BY <1>5 DEF Register, Goes, Tasks
<1>6. ASSUME NEW c \in Closes, Close(c) PROVE TypeOK'
  BY <1>6, FoundType DEF Close, Tasks
<1>7. ASSUME NEW t \in Tasks, CloseNodes(t) PROVE TypeOK'
  <2>1. <<prj[t], "node">> \in Opens \X Kinds
    BY <1>7 DEF CloseNodes, Kinds
  <2> QED  BY <1>7, <2>1, RmType DEF CloseNodes, Goes
<1>8. ASSUME NEW t \in Tasks, CloseOvs(t) PROVE TypeOK'
  <2>1. ovsInstances[id[t]] # None => <<ovsInstances[id[t]], "ovs">> \in Opens \X Kinds
    BY <1>8 DEF CloseOvs, Kinds
  <2>2. conts' \subseteq Opens \X Kinds /\ stuck' \subseteq Opens \X Kinds
    BY <1>8, <2>1, RmType DEF CloseOvs
  <2> QED  BY <1>8, <2>2 DEF CloseOvs, Goes
<1>9. ASSUME NEW t \in Tasks, ForgetOvs(t) \/ Unregister(t) \/ RemoveDir(t)
      PROVE  TypeOK'
  BY <1>9 DEF ForgetOvs, Unregister, RemoveDir, Goes
<1>10. ASSUME NEW k \in Cleans, CleanList(k) PROVE TypeOK'
  BY <1>10 DEF CleanList, CleanState
<1>11. ASSUME NEW k \in Cleans, CleanConsider(k) \/ CleanEnd(k) PROVE TypeOK'
  <2>1. CASE CleanConsider(k)
    <3>1. PICK c \in clean[k].todo :
              clean' = [clean EXCEPT ![k].todo = @ \ {c},
                  ![k].victims = IF openProjects[id[c[1]]] # None
                                 THEN @ ELSE @ \cup {c}]
      BY <2>1 DEF CleanConsider
    <3> DEFINE W == IF openProjects[id[c[1]]] # None
                    THEN clean[k].victims ELSE clean[k].victims \cup {c}
               new == [clean[k] EXCEPT !.todo = @ \ {c}, !.victims = W]
    <3>2. clean[k] \in CleanState
      OBVIOUS
    <3>3. W \in SUBSET (Opens \X Kinds)
      BY <3>2 DEF CleanState
    <3>4. clean' = [clean EXCEPT ![k] = new]
      BY <3>1
    <3> HIDE DEF W
    <3>5. new \in CleanState
      BY <3>2, <3>3 DEF CleanState
    <3> HIDE DEF new
    <3>6. clean' \in [Cleans -> CleanState]
      BY <3>4, <3>5
    <3> QED  BY <2>1, <3>6 DEF CleanConsider
  <2>2. CASE CleanEnd(k)
    BY <2>2 DEF CleanEnd, CleanState
  <2> QED  BY <1>11, <2>1, <2>2
<1>12. ASSUME NEW k \in Cleans, CleanRemove(k) PROVE TypeOK'
  <2>1. PICK c \in clean[k].victims :
            Rm(c) /\ clean' = [clean EXCEPT ![k].victims = @ \ {c}]
    BY <1>12 DEF CleanRemove
  <2>2. clean' \in [Cleans -> CleanState] /\ c \in Opens \X Kinds
    BY <2>1 DEF CleanState
  <2>3. conts' \subseteq Opens \X Kinds /\ stuck' \subseteq Opens \X Kinds
    BY <2>1, <2>2, RmType
  <2> QED  BY <1>12, <2>2, <2>3 DEF CleanRemove
<1>13. CASE Signal
  BY <1>13 DEF Signal, Registered, ShutdownState
<1>14. CASE ShutdownCloses
  <2>1. PICK i \in shutdown.todo :
          /\ Finds(Daemon, i) \/ UNCHANGED <<at, id, prj>>
          /\ shutdown' = [shutdown EXCEPT !.todo = @ \ {i}]
    BY <1>14 DEF ShutdownCloses
  <2>2. shutdown' \in ShutdownState /\ i \in Ids
    BY <2>1 DEF ShutdownState
  <2> QED  BY <1>14, <2>1, <2>2, FoundType DEF ShutdownCloses, Tasks
<1>15. CASE ShutdownDrains \/ Exit
  BY <1>15 DEF ShutdownDrains, Exit, ShutdownState
<1>16. CASE Crash
  BY <1>16 DEF Crash, NoClean, CleanState, ShutdownState
<1>17. CASE UNCHANGED vars
  BY <1>17 DEF vars
<1> QED
  BY <1>1, <1>2, <1>3, <1>4, <1>5, <1>6, <1>7, <1>8, <1>9, <1>10, <1>11, <1>12,
     <1>13, <1>14, <1>15, <1>16, <1>17
  DEF Next, Open, Teardown, Clean, Terminated

-----------------------------------------------------------------------------
(* Tasks and tables.                                                        *)

\* What may be said of a task that closes a project.
LEMMA CloserKnown ==
    ASSUME TypeOK, TasksKnown, NEW t \in Tasks, at[t] \in Closing
    PROVE  /\ prj[t] \in Opens /\ id[t] \in Ids /\ id[t] # None
           /\ id[prj[t]] = id[t]
           /\ t \notin Opens => at[prj[t]] = "end"
           /\ t \in Opens => prj[t] = t
           /\ at[prj[t]] \notin Opening
BY RegistryAssumption DEF TypeOK, TasksKnown, Closing, Opening

\* The steps that change neither the tables nor where a task is.
Quiet ==
    \/ \E k \in Cleans : CleanList(k) \/ Clean(k)
    \/ Signal \/ ShutdownDrains \/ Exit \/ UNCHANGED vars

\* They leave all of this as it is.
LEMMA QuietStep == Quiet => UNCHANGED <<openProjects, ovsInstances, at, id, prj, dirs, clashed>>
BY DEF Quiet, CleanList, Clean, CleanConsider, CleanRemove, CleanEnd, Signal,
   ShutdownDrains, Exit, vars, tables, tasks, host, hist

\* Every step keeps what is known of the tasks.
LEMMA TasksStep ==
    TypeOK /\ TasksKnown /\ TablesKnown /\ [Next]_vars => TasksKnown'
<1> SUFFICES ASSUME TypeOK, TasksKnown, TablesKnown, [Next]_vars PROVE TasksKnown'
  OBVIOUS
<1> USE RegistryAssumption DEF TypeOK, TasksKnown, Opening, Closing, Ended, tables,
        tasks
<1>1. ASSUME NEW o \in Opens, CheckName(o) PROVE TasksKnown'
  BY <1>1 DEF CheckName, Goes, Tasks
<1>2. ASSUME NEW o \in Opens, PickId(o) PROVE TasksKnown'
  <2>1. PICK i \in Ids : id' = [id EXCEPT ![o] = i]
    BY <1>2 DEF PickId
  <2> QED  BY <1>2, <2>1 DEF PickId, Goes, Tasks
<1>3. ASSUME NEW o \in Opens, Unpack(o) \/ Load(o) \/ Register(o) PROVE TasksKnown'
  <2>1. /\ UNCHANGED <<id, prj>> /\ at[o] \in {"picked", "unpacked", "loaded", "created"}
        /\ \E x \in {"unpacked", "nodes", "loaded", "created", "end"} : Goes(o, x)
    BY <1>3 DEF Unpack, Load, LoadFails, NewOvsInstance, CreateNode, Register
  <2> QED  BY <2>1 DEF Goes, Tasks
<1>4. ASSUME NEW t \in Tasks \ Opens, NEW i \in Ids, Finds(t, i) PROVE TasksKnown'
  <2>1. /\ openProjects[i] \in Opens /\ id[openProjects[i]] = i
        /\ at[openProjects[i]] = "end"
    BY <1>4 DEF Finds, TablesKnown
  <2> QED  BY <1>4, <2>1 DEF Finds, Goes
<1>5. ASSUME NEW t \in Tasks, Teardown(t) PROVE TasksKnown'
  <2>1. /\ UNCHANGED <<id, prj>> /\ at[t] \in Closing
        /\ \E x \in {"ovs", "forget", "unregister", "rmdir", "end"} :
              Goes(t, x) /\ (t \in Opens => x # "unregister")
    BY <1>5 DEF Teardown, CloseNodes, CloseOvs, ForgetOvs, Unregister, RemoveDir
  <2> QED  BY <2>1 DEF Goes, Tasks
<1>6. CASE Crash
  <2>1. /\ UNCHANGED <<id, prj>>
        /\ \A t \in Tasks : /\ at'[t] \in Ended
                            /\ at'[t] = "idle" => at[t] = "idle"
    BY <1>6 DEF Crash
  <2>2. \A t \in Tasks : at'[t] \notin Opening \cup Closing
    BY <2>1
  <2>3. Opens \subseteq Tasks /\ \A o \in Opens : at'[o] # "unregister"
    BY <2>1 DEF Tasks
  <2>4. \A o \in Opens : /\ at'[o] # "idle" => prj'[o] = o
                         /\ at'[o] \in {"idle", "named"} => id'[o] = None
    <3>1. \A o \in Opens : at'[o] # "idle" => prj'[o] = o
      BY <1>6, <2>1, <2>3 DEF Crash
    <3> QED  BY <2>1, <2>2, <2>3, <3>1
  <2> QED  BY <2>2, <2>3, <2>4
<1>7. CASE Quiet
  BY <1>7, QuietStep
<1>8. CASE UNCHANGED <<at, id, prj>>
  BY <1>8
<1>9. Daemon \in Tasks \ Opens /\ Closes \subseteq Tasks \ Opens
  BY DEF Tasks
<1>10. ASSUME NEW c \in Closes, Close(c) PROVE TasksKnown'
  BY <1>4, <1>9, <1>10 DEF Close
<1>11. CASE ShutdownCloses
  <2>1. PICK i \in Ids : Finds(Daemon, i) \/ UNCHANGED <<at, id, prj>>
    BY <1>11 DEF ShutdownCloses, ShutdownState
  <2> QED  BY <1>4, <1>8, <1>9, <2>1
<1> HIDE DEF TypeOK, TasksKnown
<1> QED
  BY <1>1, <1>2, <1>3, <1>5, <1>6, <1>7, <1>10, <1>11 DEF Next, Open, Terminated, Quiet

\* A step of one task, to a stage that it may reach.
LEMMA StageStep ==
    ASSUME TypeOK, TablesKnown, NEW t \in Tasks, NEW x,
           at' = [at EXCEPT ![t] = x],
           UNCHANGED <<openProjects, ovsInstances, id, prj>>,
           x \notin Young, t \in Opens => at[t] # "end",
           x \in {"unregister", "rmdir"} => ovsInstances[id[t]] # prj[t],
           x = "rmdir" => openProjects[id[t]] # prj[t]
    PROVE  TablesKnown'
<1> USE DEF TypeOK, TablesKnown
<1>1. \A i \in Ids : openProjects[i] # None =>
          id[openProjects[i]] = i /\ at'[openProjects[i]] = "end"
  OBVIOUS
<1>2. \A i \in Ids : ovsInstances[i] # None =>
          id[ovsInstances[i]] = i /\ at'[ovsInstances[i]] \notin Young
  <2> SUFFICES ASSUME NEW i \in Ids, ovsInstances[i] # None
               PROVE  at'[ovsInstances[i]] \notin Young
    OBVIOUS
  <2> QED  OBVIOUS
<1>3. \A u \in Tasks : at'[u] \in {"unregister", "rmdir"} => ovsInstances[id[u]] # prj[u]
  OBVIOUS
<1>4. \A u \in Tasks : at'[u] = "rmdir" => openProjects[id[u]] # prj[u]
  OBVIOUS
<1> QED  BY <1>1, <1>2, <1>3, <1>4

\* Every step keeps the tables in agreement with the tasks.
LEMMA TablesStep ==
    TypeOK /\ TasksKnown /\ TablesKnown /\ [Next]_vars => TablesKnown'
<1> SUFFICES ASSUME TypeOK, TasksKnown, TablesKnown, [Next]_vars PROVE TablesKnown'
  OBVIOUS
<1> USE RegistryAssumption DEF TypeOK, TablesKnown, Young, tables, tasks
<1>1. ASSUME NEW o \in Opens, CheckName(o) PROVE TablesKnown'
  BY <1>1 DEF CheckName, Goes, Tasks
<1>2. ASSUME NEW o \in Opens, PickId(o) PROVE TablesKnown'
  <2>1. PICK i \in Ids : id' = [id EXCEPT ![o] = i]
    BY <1>2 DEF PickId
  <2> QED  BY <1>2, <2>1 DEF PickId, Goes, Tasks
<1>3. ASSUME NEW o \in Opens, Unpack(o) PROVE TablesKnown'
  BY <1>3 DEF Unpack, Goes, Tasks
<1>4. ASSUME NEW o \in Opens, Load(o) PROVE TablesKnown'
  <2>1. /\ id[o] \in Ids /\ o \in Tasks /\ UNCHANGED <<openProjects, id, prj>>
        /\ at[o] \in {"unpacked", "loaded"}
    BY <1>4 DEF Load, TasksKnown, Tasks, Opening
  <2>2. CASE NewOvsInstance(o)
    <3>1. ASSUME NEW t \in Tasks, at'[t] \in {"unregister", "rmdir"}
          PROVE  prj[t] # o /\ at'[t] = at[t]
      BY <2>1, <2>2, <3>1, CloserKnown DEF NewOvsInstance, Goes, Closing, Opening
    <3> QED  BY <2>1, <2>2, <3>1 DEF NewOvsInstance, Goes
  <2>3. CASE UNCHANGED ovsInstances
    <3>1. \E x \in {"nodes", "created"} : at' = [at EXCEPT ![o] = x]
      BY <1>4, <2>1, <2>3 DEF Load, NewOvsInstance, CreateNode, LoadFails, Goes, TasksKnown
    <3> QED  BY <2>1, <2>3, <3>1, StageStep
  <2> QED  BY <1>4, <2>2, <2>3 DEF Load, LoadFails, CreateNode
<1>5. ASSUME NEW o \in Opens, Register(o) PROVE TablesKnown'
  <2>1. /\ id[o] \in Ids /\ o \in Tasks /\ at[o] = "created"
        /\ at' = [at EXCEPT ![o] = "end"]
        /\ openProjects' = [openProjects EXCEPT ![id[o]] = o]
        /\ UNCHANGED <<ovsInstances, id, prj>>
    BY <1>5 DEF Register, Goes, TasksKnown, Tasks, Opening
  <2>2. ASSUME NEW t \in Tasks, at'[t] \in {"unregister", "rmdir"}
        PROVE  prj[t] # o /\ at'[t] = at[t]
    BY <2>1, <2>2, CloserKnown DEF Closing, Opening
  <2> QED  BY <2>1, <2>2
<1>6. ASSUME NEW t \in Tasks \ Opens, NEW i \in Ids, Finds(t, i), UNCHANGED tables
      PROVE  TablesKnown'
  BY <1>6 DEF Finds, Goes
<1>7. ASSUME NEW t \in Tasks, CloseNodes(t) \/ RemoveDir(t) PROVE TablesKnown'
  <2>1. /\ \E x \in {"ovs", "end"} : at' = [at EXCEPT ![t] = x]
        /\ UNCHANGED <<openProjects, ovsInstances, id, prj>> /\ at[t] # "end"
    BY <1>7 DEF CloseNodes, RemoveDir, Goes
  <2> QED  BY <2>1, StageStep
<1>8. ASSUME NEW t \in Tasks, CloseOvs(t) PROVE TablesKnown'
  <2>1. /\ at[t] = "ovs" /\ prj[t] # None /\ id[t] \in Ids
        /\ UNCHANGED <<openProjects, ovsInstances, id, prj>>
    BY <1>8, CloserKnown DEF CloseOvs, Closing
  <2>2. t \in Opens => openProjects[id[t]] # prj[t]
    BY <2>1, CloserKnown DEF Closing
  <2>3. /\ ovsInstances[id[t]] = None => at' = [at EXCEPT ![t] =
              IF t \in Opens THEN "rmdir" ELSE "unregister"]
        /\ ovsInstances[id[t]] # None => at' = [at EXCEPT ![t] = "forget"]
    BY <1>8 DEF CloseOvs, Goes
  <2>4. CASE ovsInstances[id[t]] = None
    BY <2>1, <2>2, <2>3, <2>4, StageStep
  <2>5. CASE ovsInstances[id[t]] # None
    BY <2>1, <2>3, <2>5, StageStep
  <2> QED  BY <2>4, <2>5
<1>9. ASSUME NEW t \in Tasks, ForgetOvs(t) PROVE TablesKnown'
  <2>1. /\ at[t] = "forget" /\ prj[t] # None /\ id[t] \in Ids
        /\ at' = [at EXCEPT ![t] = IF t \in Opens THEN "rmdir" ELSE "unregister"]
        /\ ovsInstances' = [ovsInstances EXCEPT ![id[t]] = None]
        /\ UNCHANGED <<openProjects, id, prj>>
    BY <1>9, CloserKnown DEF ForgetOvs, Closing, Goes
  <2>2. t \in Opens => openProjects[id[t]] # prj[t]
    BY <2>1, CloserKnown DEF Closing
  <2>3. \A u \in Tasks : at[u] \in {"unregister", "rmdir"} => prj[u] # None
    BY CloserKnown DEF Closing
  <2> QED  BY <2>1, <2>2, <2>3
<1>10. ASSUME NEW t \in Tasks, Unregister(t) PROVE TablesKnown'
  <2>1. /\ at[t] = "unregister" /\ prj[t] # None /\ id[t] \in Ids
        /\ at' = [at EXCEPT ![t] = "rmdir"]
        /\ openProjects' = [openProjects EXCEPT ![id[t]] = None]
        /\ UNCHANGED <<ovsInstances, id, prj>>
    BY <1>10, CloserKnown DEF Unregister, Closing, Goes
  <2>2. \A u \in Tasks : at[u] = "rmdir" => prj[u] # None /\ id[u] \in Ids
    BY CloserKnown DEF Closing
  <2> QED  BY <2>1, <2>2
<1>11. CASE Crash
  <2>1. \A t \in Tasks : at'[t] \in Ended
    BY <1>11 DEF Crash, Ended
  <2>2. \A t \in Tasks : at'[t] \notin {"unregister", "rmdir"}
    BY <2>1 DEF Ended
  <2>3. \A i \in Ids : openProjects'[i] = None /\ ovsInstances'[i] = None
    BY <1>11 DEF Crash
  <2> QED  BY <2>2, <2>3
<1>12. CASE Quiet
  BY <1>12, QuietStep
<1>13. CASE UNCHANGED <<openProjects, ovsInstances, at, id, prj>>
  BY <1>13
<1>14. Daemon \in Tasks \ Opens /\ Closes \subseteq Tasks \ Opens
  BY DEF Tasks
<1>15. ASSUME NEW c \in Closes, Close(c) PROVE TablesKnown'
  BY <1>6, <1>14, <1>15 DEF Close
<1>16. CASE ShutdownCloses
  <2>1. PICK i \in Ids : Finds(Daemon, i) \/ UNCHANGED <<at, id, prj>>
    BY <1>16 DEF ShutdownCloses, ShutdownState
  <2>2. UNCHANGED tables
    BY <1>16 DEF ShutdownCloses
  <2> QED  BY <1>6, <1>13, <1>14, <2>1, <2>2
<1> HIDE DEF TypeOK, TablesKnown
<1> QED
  BY <1>1, <1>2, <1>3, <1>4, <1>5, <1>7, <1>8, <1>9, <1>10, <1>11, <1>12, <1>15, <1>16
  DEF Next, Open, Teardown, Terminated, Quiet

-----------------------------------------------------------------------------
(* Who holds an identifier.                                                 *)

\* A task that is not asleep works on a project that holds its identifier.
LEMMA UserHolds ==
    ASSUME TypeOK, TasksKnown, NEW t \in Tasks, at[t] \notin Asleep, at[t] # "named"
    PROVE  prj[t] \in Opens /\ Holds(prj[t]) /\ id[prj[t]] = id[t] /\ id[t] \in Ids
<1>1. CASE t \in Opens
  BY <1>1, RegistryAssumption
  DEF TypeOK, TasksKnown, Asleep, Ended, Opening, Closing, Holds, Tasks
<1>2. CASE t \notin Opens
  <2>1. at[t] \in Closing
    BY <1>2 DEF TypeOK, TasksKnown, Asleep
  <2> QED  BY <2>1, CloserKnown DEF Holds
<1> QED  BY <1>1, <1>2

\* Nobody but the closers of an open works under the identifier it holds.
LEMMA OnlyItsClosers ==
    ASSUME TypeOK, TasksKnown, HoldersApart, NEW o \in Opens \ clashed, Holds(o),
           NEW t \in Tasks, at[t] \notin Asleep, at[t] # "named", id[t] = id[o]
    PROVE  prj[t] = o
BY UserHolds DEF HoldersApart

\* The project of a task that is not asleep holds its identifier; so does one
\* that is registered.
LEMMA RegisteredHolds ==
    ASSUME TypeOK, TablesKnown, NEW i \in Ids, openProjects[i] # None
    PROVE  openProjects[i] \in Opens /\ Holds(openProjects[i])
BY RegistryAssumption DEF TypeOK, TablesKnown, Holds

\* An identifier is only held by what held it, or by an open that has just
\* picked it.
LEMMA HoldsStep ==
    ASSUME TypeOK, TasksKnown, TablesKnown, [Next]_vars, NEW o \in Opens, Holds(o)'
    PROVE  (Holds(o) /\ id'[o] = id[o]) \/ PickId(o)
<1> USE RegistryAssumption DEF tables, tasks
<1>1. ASSUME UNCHANGED <<openProjects, id, prj>>, NEW t \in Tasks,
             at[t] \notin Asleep, NEW x, at' = [at EXCEPT ![t] = x]
      PROVE  Holds(o) /\ id'[o] = id[o]
  BY <1>1 DEF Holds, TypeOK
<1>2. ASSUME NEW p \in Opens, CheckName(p) PROVE Holds(o) /\ id'[o] = id[o]
  <2>1. /\ at[p] = "idle" /\ id[p] = None /\ id' = id /\ openProjects' = openProjects
        /\ prj' = [prj EXCEPT ![p] = p] /\ \E x : at' = [at EXCEPT ![p] = x]
    BY <1>2 DEF CheckName, TasksKnown, Goes
  <2>2. o # p
    BY <2>1 DEF Holds
  <2> QED  BY <2>1, <2>2 DEF Holds, TypeOK, Tasks
<1>3. ASSUME NEW p \in Opens, p # o, PickId(p) PROVE Holds(o) /\ id'[o] = id[o]
  <2>1. PICK i \in Ids : id' = [id EXCEPT ![p] = i]
    BY <1>3 DEF PickId
  <2>2. /\ at[p] = "named" /\ at' = [at EXCEPT ![p] = "picked"]
        /\ UNCHANGED <<openProjects, prj>>
    BY <1>3 DEF PickId, Goes
  <2>3. id'[o] = id[o]
    BY <1>3, <2>1 DEF TypeOK, Tasks
  <2> QED  BY <2>2, <2>3 DEF Holds, TypeOK, Asleep, Ended, Tasks
<1>4. ASSUME NEW p \in Opens, Unpack(p) \/ Load(p) PROVE Holds(o) /\ id'[o] = id[o]
  <2>1. /\ UNCHANGED <<openProjects, id, prj>> /\ at[p] \notin Asleep
        /\ \E x : at' = [at EXCEPT ![p] = x]
    BY <1>4 DEF Unpack, Load, NewOvsInstance, LoadFails, CreateNode, Goes, Asleep, Ended
  <2> QED  BY <1>1, <2>1 DEF Tasks
<1>5. ASSUME NEW p \in Opens, Register(p) PROVE Holds(o) /\ id'[o] = id[o]
  <2>1. /\ openProjects' = [openProjects EXCEPT ![id[p]] = p] /\ id' = id /\ prj' = prj
        /\ at[p] = "created" /\ at' = [at EXCEPT ![p] = "end"] /\ prj[p] = p
    BY <1>5 DEF Register, Goes, TasksKnown
  <2>2. p \in Tasks /\ at[p] \notin Asleep
    BY <2>1 DEF Tasks, Asleep, Ended
  <2>3. CASE o = p
    BY <2>1, <2>2, <2>3 DEF Holds
  <2>4. CASE o # p
    BY <2>1, <2>2, <2>4 DEF Holds, TypeOK
  <2> QED  BY <2>3, <2>4
<1>6. ASSUME NEW t \in Tasks \ Opens, NEW i \in Ids, Finds(t, i), UNCHANGED tables
      PROVE  Holds(o) /\ id'[o] = id[o]
  <2>1. /\ openProjects[i] # None /\ id'[o] = id[o]
        /\ at' = [at EXCEPT ![t] = "nodes"]
        /\ prj' = [prj EXCEPT ![t] = openProjects[i]]
        /\ UNCHANGED openProjects
    BY <1>6 DEF Finds, Goes, TypeOK, Tasks
  <2>2. CASE o = openProjects[i]
    BY <2>1, <2>2, RegisteredHolds
  <2>3. CASE o # openProjects[i]
    BY <2>1, <2>3 DEF Holds, TypeOK
  <2> QED  BY <2>1, <2>2, <2>3
<1>7. ASSUME NEW t \in Tasks, CloseNodes(t) \/ CloseOvs(t) \/ ForgetOvs(t)
      PROVE  Holds(o) /\ id'[o] = id[o]
  <2>1. /\ UNCHANGED <<openProjects, id, prj>> /\ at[t] \notin Asleep
        /\ \E x : at' = [at EXCEPT ![t] = x]
    BY <1>7 DEF CloseNodes, CloseOvs, ForgetOvs, Goes, Asleep, Ended
  <2> QED  BY <1>1, <2>1
<1>8. ASSUME NEW t \in Tasks, Unregister(t) PROVE Holds(o) /\ id'[o] = id[o]
  <2>1. /\ UNCHANGED <<id, prj>> /\ at[t] = "unregister" /\ at' = [at EXCEPT ![t] = "rmdir"]
        /\ openProjects' = [openProjects EXCEPT ![id[t]] = None]
    BY <1>8 DEF Unregister, Goes
  <2> QED  BY <2>1 DEF Holds, TypeOK, Asleep, Tasks
<1>9. ASSUME NEW t \in Tasks, RemoveDir(t) PROVE Holds(o) /\ id'[o] = id[o]
  <2>1. /\ UNCHANGED <<openProjects, id, prj>> /\ at' = [at EXCEPT ![t] = "end"]
    BY <1>9 DEF RemoveDir, Goes
  <2> QED  BY <2>1 DEF Holds, TypeOK, Asleep, Ended
<1>10. CASE Crash
  <2>1. \A t \in Tasks : at'[t] \in Asleep
    BY <1>10 DEF Crash, Asleep, Ended
  <2>2. ~Holds(o)'
    BY <1>10, <2>1 DEF Crash, Holds, TypeOK, Tasks
  <2> QED  BY <2>2
<1>11. CASE Quiet
  BY <1>11, QuietStep DEF Holds
<1>12. Daemon \in Tasks \ Opens /\ Closes \subseteq Tasks \ Opens
  BY DEF Tasks
<1>13. ASSUME NEW c \in Closes, Close(c) PROVE Holds(o) /\ id'[o] = id[o]
  BY <1>6, <1>12, <1>13 DEF Close
<1>14. CASE ShutdownCloses
  <2>1. PICK i \in Ids : Finds(Daemon, i) \/ UNCHANGED <<at, id, prj>>
    BY <1>14 DEF ShutdownCloses, ShutdownState, TypeOK
  <2>2. UNCHANGED tables
    BY <1>14 DEF ShutdownCloses
  <2>3. CASE UNCHANGED <<at, id, prj>>
    BY <2>2, <2>3 DEF Holds
  <2> QED  BY <1>6, <1>12, <2>1, <2>2, <2>3
<1> QED
  BY <1>2, <1>3, <1>4, <1>5, <1>7, <1>8, <1>9, <1>10, <1>11, <1>13, <1>14
  DEF Next, Open, Teardown, Terminated, Quiet

\* Opens are only ever added to "clashed".
LEMMA ClashedGrows == [Next]_vars => clashed \subseteq clashed'
<1>1. ASSUME NEW o \in Opens, PickId(o) PROVE clashed \subseteq clashed'
  BY <1>1 DEF PickId
<1>2. Quiet => UNCHANGED clashed
  BY QuietStep
<1> QED
  BY <1>1, <1>2 DEF Next, Open, Teardown, Terminated, Quiet, CheckName, Unpack, Load, Register,
     Close, CloseNodes, CloseOvs, ForgetOvs, Unregister, RemoveDir, ShutdownCloses,
     Crash, hist

\* Two opens come to hold one identifier only if they are recorded as clashing.
LEMMA HoldersStep ==
    TypeOK /\ TasksKnown /\ TablesKnown /\ HoldersApart /\ [Next]_vars => HoldersApart'
<1> SUFFICES ASSUME TypeOK, TasksKnown, TablesKnown, HoldersApart, [Next]_vars,
                    NEW o \in Opens, NEW p \in Opens, Holds(o)', Holds(p)',
                    id'[o] = id'[p], o # p
             PROVE  o \in clashed'
  BY DEF HoldersApart
<1>1. CASE Holds(o) /\ Holds(p) /\ id'[o] = id[o] /\ id'[p] = id[p]
  BY <1>1, ClashedGrows DEF HoldersApart
<1>2. ASSUME NEW q \in {o, p}, NEW r \in {o, p}, q # r, PickId(q)
      PROVE  o \in clashed'
  <2>1. PICK i \in Ids :
          /\ openProjects[i] = None /\ id' = [id EXCEPT ![q] = i]
          /\ clashed' = clashed \cup
                (IF Users(i) = {} THEN {} ELSE {q} \cup {prj[t] : t \in Users(i)})
    BY <1>2 DEF PickId
  <2>2. /\ at[q] = "named" /\ at'[r] = at[r] /\ UNCHANGED <<prj, openProjects>>
        /\ id'[q] = i /\ id'[r] = id[r]
    BY <1>2, <2>1 DEF PickId, Goes, TypeOK, Tasks, tables
  <2>3. ~PickId(r)
    BY <1>2, <2>2 DEF PickId, Goes, TypeOK, Tasks
  <2>4. Holds(r) /\ id[r] = i
    BY <1>2, <2>2, <2>3, HoldsStep
  <2>5. PICK t \in Tasks : prj[t] = r /\ at[t] \notin Asleep
    BY <2>1, <2>4, RegistryAssumption DEF Holds, Tasks
  <2>6. at[t] # "named"
    BY <2>4, <2>5, RegistryAssumption DEF TasksKnown, Opening
  <2>7. t \in Users(i)
    BY <2>4, <2>5, <2>6, UserHolds DEF Users, Asleep
  <2> QED  BY <1>2, <2>1, <2>5, <2>7
<1> QED  BY <1>1, <1>2, HoldsStep

-----------------------------------------------------------------------------
(* Containers.                                                              *)

\* What Rm does to its container and to the others.
LEMMA RmKnown ==
    ASSUME NEW c, Rm(c)
    PROVE  /\ Gone(c)' /\ conts' \subseteq conts
           /\ \A d : Gone(d) => Gone(d)'
           /\ \A d : d # c => (d \in conts' <=> d \in conts) /\ (d \in stuck' <=> d \in stuck)
BY DEF Rm, Gone

\* An open that has made a container does not make it again; one that has ended
\* stays so, and nobody changes its identifier.
LEMMA OpenAges ==
    ASSUME TypeOK, TasksKnown, [Next]_vars, NEW o \in Opens
    PROVE  /\ at[o] \notin Young =>
                 at'[o] \notin Young /\ (at'[o] = "loaded" => at[o] = "loaded")
           /\ at[o] = "end" => at'[o] \in {"end", "lost"}
           /\ at[o] = "lost" => at'[o] = "lost"
           /\ at'[o] = "end" /\ at[o] # "end" =>
                 at[o] \in Young \/ Register(o) \/ RemoveDir(o)
           /\ at'[o] = "lost" /\ at[o] # "lost" => Crash
           /\ id[o] # None => id'[o] = id[o]
<1> USE DEF TypeOK, Young, Tasks, tables, tasks, Goes
<1>1. ASSUME NEW p \in Opens, CheckName(p) \/ PickId(p) \/ Unpack(p) \/ Load(p) \/ Register(p),
             ~Register(o)
      PROVE  /\ p = o =>
                   /\ at'[o] # "lost"
                   /\ \/ at[o] \in Young
                      \/ at[o] = "loaded" /\ at'[o] \in {"created", "nodes"}
             /\ p # o => at'[o] = at[o]
             /\ id[o] # None => id'[o] = id[o]
  <2>1. CASE CheckName(p)
    BY <2>1 DEF CheckName
  <2>2. CASE PickId(p)
    BY <2>2 DEF PickId, TasksKnown
  <2>3. CASE Unpack(p)
    BY <2>3 DEF Unpack
  <2>4. CASE Load(p)
    BY <2>4 DEF Load, NewOvsInstance, CreateNode, LoadFails
  <2>5. CASE Register(p)
    BY <1>1, <2>5 DEF Register
  <2> QED  BY <1>1, <2>1, <2>2, <2>3, <2>4, <2>5
<1>2. CASE Register(o)
  BY <1>2 DEF Register
<1>3. ASSUME NEW t \in Tasks \ Opens, NEW i \in Ids, Finds(t, i)
      PROVE  at'[o] = at[o] /\ id'[o] = id[o]
  BY <1>3 DEF Finds
<1>4. ASSUME NEW t \in Tasks, Teardown(t), ~RemoveDir(o)
      PROVE  /\ id'[o] = id[o]
             /\ at'[o] = at[o] \/ (at[o] \in Closing /\ at'[o] \in Closing)
  BY <1>4 DEF Teardown, CloseNodes, CloseOvs, ForgetOvs, Unregister, RemoveDir, Closing
<1>5. CASE RemoveDir(o)
  BY <1>5 DEF RemoveDir
<1>6. CASE Crash
  BY <1>6 DEF Crash
<1>7. CASE Quiet
  BY <1>7, QuietStep
<1>8. Daemon \in Tasks \ Opens /\ Closes \subseteq Tasks \ Opens
  BY RegistryAssumption
<1>9. ASSUME NEW c \in Closes, Close(c) PROVE at'[o] = at[o] /\ id'[o] = id[o]
  BY <1>3, <1>8, <1>9 DEF Close
<1>10. CASE ShutdownCloses
  <2>1. PICK i \in Ids : Finds(Daemon, i) \/ UNCHANGED <<at, id, prj>>
    BY <1>10 DEF ShutdownCloses, ShutdownState
  <2> QED  BY <1>3, <1>8, <2>1
<1> HIDE DEF TypeOK, Goes
<1> USE DEF Closing
<1> QED
  BY <1>1, <1>2, <1>4, <1>5, <1>6, <1>7, <1>9, <1>10
  DEF Next, Open, Terminated, Quiet

\* A container is only made by its open.
LEMMA GoneStep ==
    ASSUME TypeOK, [Next]_vars, NEW c
    PROVE  /\ c \in conts' \ conts \/ (Gone(c) /\ ~Gone(c)') =>
              \E o \in Opens :
                 \/ /\ c = <<o, "ovs">> /\ at[o] = "unpacked" /\ at'[o] = "loaded"
                    /\ NewOvsInstance(o)
                 \/ /\ c = <<o, "node">> /\ at[o] = "loaded" /\ at'[o] = "created"
                    /\ CreateNode(o)
<1>1. ASSUME NEW d, Rm(d) PROVE conts' \subseteq conts /\ (Gone(c) => Gone(c)')
  BY <1>1, RmKnown
<1>2. ASSUME UNCHANGED <<conts, stuck>> PROVE conts' \subseteq conts /\ (Gone(c) => Gone(c)')
  BY <1>2 DEF Gone
<1>3. ASSUME NEW o \in Opens, Load(o), c \in conts' \ conts \/ (Gone(c) /\ ~Gone(c)')
      PROVE  \/ /\ c = <<o, "ovs">> /\ at[o] = "unpacked" /\ at'[o] = "loaded"
                /\ NewOvsInstance(o)
             \/ /\ c = <<o, "node">> /\ at[o] = "loaded" /\ at'[o] = "created"
                /\ CreateNode(o)
  <2>1. stuck' = stuck /\ conts' # conts
    BY <1>3 DEF Load, Gone
  <2>2. CASE NewOvsInstance(o) /\ at[o] = "unpacked"
    BY <1>3, <2>1, <2>2 DEF NewOvsInstance, Gone, Goes, TypeOK, Tasks
  <2>3. CASE CreateNode(o) /\ at[o] = "loaded"
    BY <1>3, <2>1, <2>3 DEF CreateNode, Gone, Goes, TypeOK, Tasks
  <2> QED  BY <1>3, <2>1, <2>2, <2>3 DEF Load, LoadFails
<1>4. ASSUME NEW t \in Tasks, Teardown(t) PROVE conts' \subseteq conts /\ (Gone(c) => Gone(c)')
  BY <1>1, <1>2, <1>4
  DEF Teardown, CloseNodes, CloseOvs, ForgetOvs, Unregister, RemoveDir, host
<1>5. ASSUME NEW k \in Cleans, Clean(k) \/ CleanList(k)
      PROVE  conts' \subseteq conts /\ (Gone(c) => Gone(c)')
  BY <1>1, <1>2, <1>5 DEF Clean, CleanConsider, CleanRemove, CleanEnd, CleanList, host
<1>6. CASE \E o \in Opens : CheckName(o) \/ PickId(o) \/ Unpack(o) \/ Register(o)
  BY <1>2, <1>6 DEF CheckName, PickId, Unpack, Register, host
<1>7. CASE \/ \E d \in Closes : Close(d)
           \/ Signal \/ ShutdownCloses \/ ShutdownDrains \/ Exit \/ Crash \/ UNCHANGED vars
  BY <1>2, <1>7
  DEF Close, Signal, ShutdownCloses, ShutdownDrains, Exit, Crash, vars, host
<1> QED
  BY <1>3, <1>4, <1>5, <1>6, <1>7 DEF Next, Open, Terminated

\* A container is made by the open that has its identifier.
LEMMA ContsStep ==
    TypeOK /\ TasksKnown /\ ContsKnown /\ [Next]_vars => ContsKnown'
<1> SUFFICES ASSUME TypeOK, TasksKnown, ContsKnown, [Next]_vars, NEW c \in conts'
             PROVE  /\ at'[c[1]] \notin Young /\ id'[c[1]] # None
                    /\ c[2] = "node" => at'[c[1]] # "loaded"
  BY DEF ContsKnown
<1>1. CASE c \in conts
  <2>1. /\ c[1] \in Opens /\ at[c[1]] \notin Young /\ id[c[1]] # None
        /\ c[2] = "node" => at[c[1]] # "loaded"
    BY <1>1 DEF TypeOK, ContsKnown
  <2> QED  BY <2>1, OpenAges
<1>2. CASE c \notin conts
  <2>1. PICK o \in Opens :
          \/ c = <<o, "ovs">> /\ at[o] = "unpacked" /\ at'[o] = "loaded"
          \/ c = <<o, "node">> /\ at[o] = "loaded" /\ at'[o] = "created"
    BY <1>2, GoneStep
  <2>2. id'[o] # None
    BY <2>1, OpenAges DEF TasksKnown, Opening
  <2> QED  BY <2>1, <2>2 DEF Young
<1> QED  BY <1>1, <1>2

\* How the two tables change.
LEMMA TablesChange ==
    ASSUME TypeOK, TasksKnown, [Next]_vars, NEW i \in Ids
    PROVE  /\ ovsInstances'[i] # ovsInstances[i] =>
                \/ \E o \in Opens : /\ Load(o) /\ NewOvsInstance(o) /\ id[o] = i
                                    /\ ovsInstances'[i] = o /\ ovsInstances[i] = None
                \/ \E t \in Tasks : /\ ForgetOvs(t) /\ id[t] = i /\ ovsInstances'[i] = None
                \/ Crash /\ ovsInstances'[i] = None
           /\ openProjects'[i] # openProjects[i] =>
                \/ \E o \in Opens : Register(o) /\ id[o] = i /\ openProjects'[i] = o
                \/ \E t \in Tasks : Unregister(t) /\ id[t] = i /\ openProjects'[i] = None
                \/ Crash /\ openProjects'[i] = None
<1> USE DEF tables
<1>1. ASSUME NEW o \in Opens, CheckName(o) \/ PickId(o) \/ Unpack(o)
      PROVE  UNCHANGED <<openProjects, ovsInstances>>
  BY <1>1 DEF CheckName, PickId, Unpack
<1>2. ASSUME NEW o \in Opens, Load(o), UNCHANGED ovsInstances
      PROVE  UNCHANGED <<openProjects, ovsInstances>>
  BY <1>2 DEF Load
<1>3. ASSUME NEW o \in Opens, Load(o), ~UNCHANGED ovsInstances
      PROVE  /\ NewOvsInstance(o) /\ UNCHANGED openProjects
             /\ id[o] = i => ovsInstances'[i] = o /\ ovsInstances[i] = None
             /\ id[o] # i => ovsInstances'[i] = ovsInstances[i]
  <2>1. NewOvsInstance(o) /\ UNCHANGED openProjects
    BY <1>3 DEF Load, LoadFails, CreateNode
  <2> QED  BY <2>1 DEF NewOvsInstance, TypeOK
<1>4. ASSUME NEW o \in Opens, Register(o)
      PROVE  /\ UNCHANGED ovsInstances
             /\ id[o] = i => openProjects'[i] = o
             /\ id[o] # i => openProjects'[i] = openProjects[i]
  BY <1>4 DEF Register, TypeOK
<1>5. ASSUME NEW t \in Tasks, CloseNodes(t) \/ CloseOvs(t) \/ RemoveDir(t)
      PROVE  UNCHANGED <<openProjects, ovsInstances>>
  BY <1>5 DEF CloseNodes, CloseOvs, RemoveDir
<1>6. ASSUME NEW t \in Tasks, ForgetOvs(t)
      PROVE  /\ UNCHANGED openProjects
             /\ id[t] = i => ovsInstances'[i] = None
             /\ id[t] # i => ovsInstances'[i] = ovsInstances[i]
  BY <1>6 DEF ForgetOvs, TypeOK
<1>7. ASSUME NEW t \in Tasks, Unregister(t)
      PROVE  /\ UNCHANGED ovsInstances
             /\ id[t] = i => openProjects'[i] = None
             /\ id[t] # i => openProjects'[i] = openProjects[i]
  BY <1>7 DEF Unregister, TypeOK
<1>8. Crash => openProjects'[i] = None /\ ovsInstances'[i] = None
  BY DEF Crash
<1>9. Quiet \/ ShutdownCloses \/ (\E c \in Closes : Close(c)) =>
        UNCHANGED <<openProjects, ovsInstances>>
  BY QuietStep DEF ShutdownCloses, Close
<1> QED
  BY <1>1, <1>2, <1>3, <1>4, <1>5, <1>6, <1>7, <1>8, <1>9
  DEF Next, Open, Teardown, Terminated, Quiet

\* An ovs container that exists stays under its identifier in the table.
LEMMA OvsFoundStep ==
    OrphanInv /\ [Next]_vars => OvsFound'
<1> SUFFICES ASSUME OrphanInv, [Next]_vars, NEW o \in Opens \ clashed',
                    at'[o] # "lost", ~Gone(<<o, "ovs">>)'
             PROVE  ovsInstances'[id'[o]] = o
  BY DEF OvsFound
<1> DEFINE c == <<o, "ovs">>
<1>1. o \in Opens \ clashed
  BY ClashedGrows
<1>2. CASE Gone(c)
  <2>1. PICK p \in Opens : c = <<p, "ovs">> /\ NewOvsInstance(p) /\ at[p] = "unpacked"
    BY <1>2, GoneStep DEF OrphanInv
  <2>2. p = o /\ id[o] # None /\ id[o] \in Ids
    BY <2>1 DEF OrphanInv, TypeOK, TasksKnown, Tasks, Opening
  <2>3. id'[o] = id[o]
    BY <2>2, OpenAges DEF OrphanInv
  <2> QED  BY <2>1, <2>2, <2>3 DEF NewOvsInstance, OrphanInv, TypeOK
<1>3. CASE ~Gone(c)
  <2>1. /\ at[o] # "lost" /\ at[o] \notin Young /\ id[o] # None
    BY <1>3, OpenAges DEF OrphanInv, ContsKnown, Gone
  <2>2. /\ id'[o] = id[o] /\ id[o] \in Ids /\ ovsInstances[id[o]] = o
    BY <1>1, <1>3, <2>1, OpenAges DEF OrphanInv, OvsFound, TypeOK, Tasks
  <2>3. Holds(o) /\ o # None
    BY <1>1, <2>2, RegistryAssumption DEF OrphanInv, OvsHeld, Tasks
  <2>4. ASSUME NEW t \in Tasks, ForgetOvs(t), id[t] = id[o] PROVE FALSE
    <3>1. at[t] = "forget"
      BY <2>4 DEF ForgetOvs
    <3>2. prj[t] = o
      BY <1>1, <2>3, <2>4, <3>1, OnlyItsClosers DEF OrphanInv, Asleep, Ended
    <3> QED  BY <1>1, <1>3, <3>1, <3>2 DEF OrphanInv, Removed
  <2>5. ~Crash
    BY <2>1 DEF Crash, Tasks, Young
  <2> QED  BY <2>2, <2>3, <2>4, <2>5, TablesChange DEF OrphanInv
<1> QED  BY <1>2, <1>3

\* What may move a task on, and when it takes another project.
LEMMA TaskStep ==
    ASSUME TypeOK, [Next]_vars, NEW t \in Tasks
    PROVE  /\ at'[t] # at[t] =>
                \/ t \in Opens /\ (CheckName(t) \/ Open(t))
                \/ /\ t \notin Opens /\ at[t] \in Ended /\ Serving
                   /\ \E i \in Ids : Finds(t, i)
                \/ Teardown(t)
                \/ Crash
           /\ prj'[t] # prj[t] => at[t] \in Ended
<1> USE DEF TypeOK, Tasks, tables, tasks, Goes
<1>1. ASSUME NEW p \in Opens, CheckName(p) \/ PickId(p) \/ Unpack(p) \/ Load(p) \/ Register(p)
      PROVE  /\ p # t => at'[t] = at[t]
             /\ prj'[t] # prj[t] => at[t] \in Ended
  BY <1>1
  DEF CheckName, PickId, Unpack, Load, NewOvsInstance, CreateNode, LoadFails, Register, Ended
<1>2. ASSUME NEW c \in Tasks \ Opens, NEW i \in Ids, Finds(c, i), at[c] \in Ended
      PROVE  /\ c # t => at'[t] = at[t]
             /\ prj'[t] # prj[t] => at[t] \in Ended
  BY <1>2 DEF Finds
<1>3. ASSUME NEW u \in Tasks, Teardown(u)
      PROVE  /\ u # t => at'[t] = at[t]
             /\ UNCHANGED prj
  BY <1>3 DEF Teardown, CloseNodes, CloseOvs, ForgetOvs, Unregister, RemoveDir
<1>4. Crash => UNCHANGED prj
  BY DEF Crash
<1>5. Quiet => UNCHANGED <<at, prj>>
  BY QuietStep
<1>6. Daemon \in Tasks \ Opens /\ Closes \subseteq Tasks \ Opens
  BY RegistryAssumption
<1>7. ASSUME NEW c \in Closes, Close(c)
      PROVE  at[c] \in Ended /\ Serving /\ \E i \in Ids : Finds(c, i)
  BY <1>7 DEF Close, Ended
<1>8. ShutdownCloses => \/ UNCHANGED <<at, prj>>
                        \/ /\ at[Daemon] \in Ended /\ Serving
                           /\ \E i \in Ids : Finds(Daemon, i)
  BY DEF ShutdownCloses, ShutdownState, Serving
<1> HIDE DEF TypeOK, Tasks, tables, tasks, Goes
<1>9. ASSUME NEW p \in Opens, CheckName(p) \/ Open(p)
      PROVE  /\ at'[t] # at[t] => t \in Opens /\ (CheckName(t) \/ Open(t))
             /\ prj'[t] # prj[t] => at[t] \in Ended
  BY <1>1, <1>9 DEF Open
<1>10. ASSUME NEW c \in Tasks \ Opens, NEW i \in Ids, Finds(c, i), at[c] \in Ended, Serving
       PROVE  /\ at'[t] # at[t] =>
                    /\ t \notin Opens /\ at[t] \in Ended /\ Serving
                    /\ \E j \in Ids : Finds(t, j)
              /\ prj'[t] # prj[t] => at[t] \in Ended
  BY <1>2, <1>10
<1> QED
  BY <1>3, <1>4, <1>5, <1>6, <1>7, <1>8, <1>9, <1>10 DEF Next, Terminated, Quiet

\* An identifier is given up after its ovs instance was forgotten.
LEMMA OvsHeldStep ==
    OrphanInv /\ [Next]_vars => OvsHeld'
<1> SUFFICES ASSUME OrphanInv, [Next]_vars PROVE OvsHeld'
  OBVIOUS
<1>0. TypeOK'
  BY TypeStep DEF OrphanInv
<1> SUFFICES ASSUME NEW i \in Ids, NEW o \in Opens, ovsInstances'[i] = o, o \notin clashed'
             PROVE  Holds(o)'
  BY <1>0 DEF OvsHeld, TypeOK
<1> USE DEF OrphanInv
<1>1. o \in Opens \ clashed
  BY ClashedGrows
<1>2. CASE ovsInstances[i] # o
  <2>1. Load(o) /\ NewOvsInstance(o) /\ id[o] = i
    BY <1>2, TablesChange, RegistryAssumption DEF Tasks
  <2>2. /\ at'[o] = "loaded" /\ prj'[o] = o /\ id'[o] # None
    BY <2>1, RegistryAssumption
    DEF Load, NewOvsInstance, Goes, TypeOK, TasksKnown, Tasks, Opening
  <2> QED  BY <2>2 DEF Holds, Tasks, Asleep, Ended
<1>3. CASE ovsInstances[i] = o
  <2>1. /\ Holds(o) /\ id[o] = i /\ at[o] \notin Young /\ id'[o] = i /\ o # None /\ i # None
    BY <1>1, <1>3, OpenAges, RegistryAssumption DEF OvsHeld, TablesKnown, Tasks
  <2>2. ~Crash /\ \A t \in Tasks : ForgetOvs(t) => id[t] # i
    BY <2>1, RegistryAssumption DEF Crash, ForgetOvs, TypeOK
  <2>3. CASE openProjects[i] = o
    <3>1. ASSUME NEW p \in Opens, Register(p), id[p] = i PROVE p = o
      <4>1. Holds(p)
        BY <2>1, <3>1 DEF Register, Holds, TasksKnown, Tasks, Asleep, Ended
      <4> QED  BY <1>1, <2>1, <3>1, <4>1 DEF HoldersApart
    <3>2. ASSUME NEW t \in Tasks, Unregister(t), id[t] = i PROVE FALSE
      <4>1. at[t] = "unregister"
        BY <3>2 DEF Unregister
      <4>2. prj[t] = o
        BY <1>1, <2>1, <3>2, <4>1, OnlyItsClosers DEF Asleep, Ended
      <4> QED  BY <1>3, <3>2, <4>1, <4>2 DEF TablesKnown
    <3>3. openProjects'[i] = o
      BY <2>2, <2>3, <3>1, <3>2, TablesChange
    <3> QED  BY <2>1, <3>3 DEF Holds
  <2>4. CASE openProjects[i] # o
    <3>1. PICK t \in Tasks : prj[t] = o /\ at[t] \notin Asleep
      BY <2>1, <2>4 DEF Holds
    <3>2. at[t] # "named" /\ id[t] = i
      BY <2>1, <3>1, UserHolds DEF TasksKnown, Young, Opening
    <3>3. CASE at'[t] \notin Asleep /\ prj'[t] = o
      BY <2>1, <3>3 DEF Holds
    <3>4. CASE ~(at'[t] \notin Asleep /\ prj'[t] = o)
      <4>1. at[t] \notin Ended /\ prj'[t] = o /\ at'[t] \in Asleep
        BY <3>1, <3>4, TaskStep DEF Asleep
      <4>2. at'[t] # at[t]
        BY <3>1, <4>1
      <4>3. ~ForgetOvs(t) /\ ~Unregister(t)
        BY <1>3, <2>2, <3>1, <3>2 DEF TablesKnown, Unregister
      <4>4. ~CloseOvs(t)
        BY <1>3, <2>1, <3>2, <4>1 DEF CloseOvs, Goes, Asleep, Ended, TypeOK
      <4>5. ~CloseNodes(t) /\ ~RemoveDir(t)
        BY <3>1, <4>1 DEF CloseNodes, RemoveDir, Goes, Asleep, Ended, TypeOK
      <4>6. t \in Opens /\ (CheckName(t) \/ Open(t))
        BY <2>2, <4>1, <4>2, <4>3, <4>4, <4>5, TaskStep DEF Teardown
      <4>7. t = o
        BY <3>1, <4>1, <4>6 DEF TasksKnown, Ended
      <4>8. CASE Register(o)
        <5>1. openProjects'[i] = o
          BY <2>1, <4>8 DEF Register, TypeOK
        <5> QED  BY <2>1, <5>1 DEF Holds
      <4>9. CASE Load(o)
        BY <4>1, <4>7, <4>9
        DEF Load, NewOvsInstance, CreateNode, LoadFails, Goes, Asleep, Ended, TypeOK
      <4> QED
        BY <2>1, <4>6, <4>7, <4>8, <4>9 DEF Open, CheckName, PickId, Unpack, Young
    <3> QED  BY <3>3, <3>4
  <2> QED  BY <2>3, <2>4
<1> QED  BY <1>2, <1>3

\* A task that closes a project goes on only when the containers before it are
\* gone.
LEMMA RemovedStep == OrphanInv /\ [Next]_vars => Removed'
<1> SUFFICES ASSUME OrphanInv, [Next]_vars, NEW t \in Tasks,
                    at'[t] \in {"ovs", "forget", "unregister", "rmdir"}
             PROVE  /\ Gone(<<prj[t], "node">>)' /\ prj'[t] = prj[t]
                    /\ at'[t] # "ovs" => prj[t] \in clashed' \/ Gone(<<prj[t], "ovs">>)'
  BY DEF Removed
<1> USE DEF OrphanInv
<1>1. at[t] \in Closing
  <2>1. CASE at'[t] = at[t]
    BY <2>1 DEF Closing
  <2>2. CASE at'[t] # at[t]
    <3>1. ~Crash /\ \A i \in Ids : ~Finds(t, i)
      BY DEF Crash, Finds, Goes, TypeOK, Ended
    <3>2. ~CheckName(t) /\ ~(t \in Opens /\ Open(t))
      BY DEF CheckName, Open, PickId, Unpack, Load, NewOvsInstance, CreateNode, LoadFails,
         Register, Goes, TypeOK
    <3>3. Teardown(t)
      BY <2>2, <3>1, <3>2, TaskStep
    <3> QED
      BY <3>3 DEF Teardown, CloseNodes, CloseOvs, ForgetOvs, Unregister, RemoveDir, Closing
  <2> QED  BY <2>1, <2>2
<1>2. /\ prj'[t] = prj[t] /\ prj[t] \in Opens /\ id[prj[t]] = id[t]
      /\ at[prj[t]] \notin Opening /\ at[prj[t]] # "lost"
  BY <1>1, TaskStep, CloserKnown DEF Closing, Ended
<1>3. \A kind \in Kinds : Gone(<<prj[t], kind>>) => Gone(<<prj[t], kind>>)'
  BY <1>2, GoneStep DEF Opening
<1>4. CASE at'[t] = at[t]
  BY <1>2, <1>3, <1>4, ClashedGrows DEF Removed, Kinds
<1>5. CASE at'[t] # at[t]
  <2>1. Teardown(t)
    BY <1>1, <1>5, TaskStep
    DEF Closing, Ended, Crash, CheckName, Open, PickId, Unpack, Load, Register
  <2>2. CASE CloseNodes(t)
    BY <1>2, <2>2, RmKnown DEF CloseNodes, Goes, TypeOK
  <2>3. CASE CloseOvs(t)
    <3>1. at[t] = "ovs" /\ Gone(<<prj[t], "node">>)'
      BY <1>3, <2>3 DEF CloseOvs, Removed, Kinds
    <3>2. CASE ovsInstances[id[t]] = prj[t]
      <4>1. Rm(<<prj[t], "ovs">>)
        BY <1>2, <2>3, <3>2, RegistryAssumption DEF CloseOvs, Tasks
      <4> QED  BY <1>2, <3>1, <4>1, RmKnown
    <3>3. CASE ovsInstances[id[t]] # prj[t]
      <4>1. prj[t] \in clashed \/ Gone(<<prj[t], "ovs">>)
        BY <1>2, <3>3 DEF OvsFound
      <4> QED  BY <1>2, <1>3, <3>1, <4>1, ClashedGrows DEF Kinds
    <3> QED  BY <3>2, <3>3
  <2>4. CASE ForgetOvs(t) \/ Unregister(t)
    BY <1>2, <1>3, <2>4, ClashedGrows DEF ForgetOvs, Unregister, Removed, Kinds
  <2>5. CASE RemoveDir(t)
    BY <2>5 DEF RemoveDir, Goes, TypeOK
  <2> QED  BY <2>1, <2>2, <2>3, <2>4, <2>5 DEF Teardown
<1> QED  BY <1>4, <1>5

\* An open that ends leaves its containers to a registered project.
LEMMA OwnedStep == OrphanInv /\ [Next]_vars => Owned'
<1> SUFFICES ASSUME OrphanInv, [Next]_vars, NEW o \in Opens \ clashed', NEW kind \in Kinds,
                    at'[o] = "end", ~Gone(<<o, kind>>)'
             PROVE  openProjects'[id'[o]] = o
  BY DEF Owned
<1> USE DEF OrphanInv
<1>1. o \in Opens \ clashed /\ o \in Tasks /\ o # None
  BY ClashedGrows, RegistryAssumption DEF Tasks
<1>2. /\ at[o] \notin Young /\ ~Gone(<<o, kind>>) /\ id[o] # None /\ id[o] \in Ids
      /\ id'[o] = id[o]
  <2>1. ~Gone(<<o, kind>>)
    BY <1>1, GoneStep DEF Kinds
  <2> QED  BY <1>1, <2>1, OpenAges DEF ContsKnown, Gone, TypeOK
<1>3. CASE at[o] = "end"
  <2>1. openProjects[id[o]] = o /\ Holds(o)
    BY <1>1, <1>2, <1>3 DEF Owned, Holds
  <2>2. ASSUME NEW p \in Opens, Register(p), id[p] = id[o] PROVE p = o
    <3>1. at[p] = "created"
      BY <2>2 DEF Register
    <3> QED
      BY <1>1, <2>1, <2>2, <3>1, OnlyItsClosers DEF TasksKnown, Tasks, Asleep, Ended
  <2>3. ASSUME NEW t \in Tasks, Unregister(t), id[t] = id[o] PROVE FALSE
    <3>1. at[t] = "unregister"
      BY <2>3 DEF Unregister
    <3>2. prj[t] = o
      BY <1>1, <2>1, <2>3, <3>1, OnlyItsClosers DEF Asleep, Ended
    <3> QED  BY <1>1, <1>2, <3>1, <3>2 DEF Removed, Kinds
  <2>4. ~Crash
    BY <1>1, <1>3 DEF Crash
  <2> QED  BY <1>2, <2>1, <2>2, <2>3, <2>4, TablesChange
<1>4. CASE at[o] # "end"
  <2>1. CASE Register(o)
    BY <1>2, <2>1 DEF Register, TypeOK
  <2>2. CASE RemoveDir(o)
    <3>1. at[o] = "rmdir" /\ prj[o] = o
      BY <2>2 DEF RemoveDir, TasksKnown
    <3> QED  BY <1>1, <1>2, <3>1 DEF Removed, Kinds
  <2> QED  BY <1>2, <1>4, <2>1, <2>2, OpenAges
<1> QED  BY <1>3, <1>4

\* What is known of containers and their owners holds of a daemon that starts.
LEMMA OrphanInit == Init => OrphanInv
<1> SUFFICES ASSUME Init PROVE OrphanInv
  OBVIOUS
<1>1. TypeOK
  BY InitType
<1>2. \A t \in Tasks : at[t] = "idle" /\ id[t] = None
  BY DEF Init
<1>3. TasksKnown /\ TablesKnown
  BY <1>2 DEF Init, TasksKnown, TablesKnown, Opening, Closing, Tasks
<1>4. HoldersApart
  BY <1>2 DEF HoldersApart, Holds, Tasks
<1>5. OvsHeld /\ ContsKnown /\ OvsFound /\ Removed /\ Owned
  BY <1>2 DEF Init, OvsHeld, ContsKnown, OvsFound, Removed, Owned, Gone
<1> QED  BY <1>1, <1>3, <1>4, <1>5 DEF OrphanInv

\* Every step keeps it.
LEMMA OrphanStep == OrphanInv /\ [Next]_vars => OrphanInv'
<1> SUFFICES ASSUME OrphanInv, [Next]_vars PROVE OrphanInv'
  OBVIOUS
<1>1. TypeOK' /\ TasksKnown' /\ TablesKnown' /\ HoldersApart' /\ ContsKnown'
  BY TypeStep, TasksStep, TablesStep, HoldersStep, ContsStep DEF OrphanInv
<1>2. OvsHeld' /\ OvsFound' /\ Removed' /\ Owned'
  BY OvsHeldStep, OvsFoundStep, RemovedStep, OwnedStep
<1> QED  BY <1>1, <1>2 DEF OrphanInv

-----------------------------------------------------------------------------
(* Open projects.                                                           *)

\* What may remove a container.
LEMMA ContsShrink ==
    ASSUME [Next]_vars, NEW c \in conts \ conts'
    PROVE  \/ \E t \in Tasks : CloseNodes(t) /\ c = <<prj[t], "node">>
           \/ \E t \in Tasks : /\ CloseOvs(t) /\ ovsInstances[id[t]] # None
                               /\ c = <<ovsInstances[id[t]], "ovs">>
           \/ \E k \in Cleans : CleanRemove(k) /\ c \in clean[k].victims
<1>1. ASSUME NEW d, Rm(d) PROVE c = d
  BY <1>1 DEF Rm
<1>2. ASSUME NEW o \in Opens, CheckName(o) \/ Open(o) PROVE FALSE
  BY <1>2 DEF CheckName, Open, PickId, Unpack, Load, NewOvsInstance, CreateNode, LoadFails,
     Register, host
<1>3. ASSUME NEW t \in Tasks, ForgetOvs(t) \/ Unregister(t) \/ RemoveDir(t) PROVE FALSE
  BY <1>3 DEF ForgetOvs, Unregister, RemoveDir, host
<1>4. ASSUME NEW t \in Tasks, CloseNodes(t) PROVE c = <<prj[t], "node">>
  BY <1>1, <1>4 DEF CloseNodes
<1>5. ASSUME NEW t \in Tasks, CloseOvs(t)
      PROVE  ovsInstances[id[t]] # None /\ c = <<ovsInstances[id[t]], "ovs">>
  BY <1>1, <1>5 DEF CloseOvs
<1>6. ASSUME NEW k \in Cleans, CleanRemove(k) PROVE c \in clean[k].victims
  BY <1>1, <1>6 DEF CleanRemove
<1>7. ASSUME NEW k \in Cleans, CleanList(k) \/ CleanConsider(k) \/ CleanEnd(k) PROVE FALSE
  BY <1>7 DEF CleanList, CleanConsider, CleanEnd, host
<1>8. ~(\/ \E d \in Closes : Close(d)
        \/ Signal \/ ShutdownCloses \/ ShutdownDrains \/ Exit \/ Crash \/ UNCHANGED vars)
  BY DEF Close, Signal, ShutdownCloses, ShutdownDrains, Exit, Crash, vars, host
<1> QED
  BY <1>2, <1>3, <1>4, <1>5, <1>6, <1>7, <1>8 DEF Next, Teardown, Clean, Terminated

\* What may change the state of a clean request.
LEMMA CleanStep ==
    ASSUME TypeOK, [Next]_vars, NEW k \in Cleans
    PROVE  \/ clean'[k] = clean[k]
           \/ /\ CleanList(k) /\ clean[k].at = "idle"
              /\ clean'[k].at = "listed"
              /\ clean'[k].todo = conts /\ clean'[k].victims = {}
              /\ clean'[k].strays = {c \in conts : c[1] \notin Registered}
           \/ /\ CleanConsider(k)
              /\ clean'[k].at = clean[k].at /\ clean'[k].strays = clean[k].strays
              /\ \E c \in clean[k].todo :
                    /\ clean'[k].todo = clean[k].todo \ {c}
                    /\ \/ /\ openProjects[id[c[1]]] # None
                          /\ clean'[k].victims = clean[k].victims
                       \/ /\ openProjects[id[c[1]]] = None
                          /\ clean'[k].victims = clean[k].victims \cup {c}
           \/ /\ CleanRemove(k)
              /\ clean'[k].at = clean[k].at /\ clean'[k].strays = clean[k].strays
              /\ clean'[k].todo = clean[k].todo
              /\ \E c \in clean[k].victims :
                    Rm(c) /\ clean'[k].victims = clean[k].victims \ {c}
           \/ /\ CleanEnd(k) /\ clean'[k].at = "end"
              /\ clean'[k].todo = clean[k].todo /\ clean'[k].victims = clean[k].victims
              /\ clean'[k].strays = clean[k].strays
           \/ /\ Crash /\ clean'[k].at # "listed"
              /\ clean[k].at = "listed" /\ clean'[k] = [NoClean EXCEPT !.at = "end"]
<1> DEFINE Fields == [at : {"idle", "listed", "end"},
                      todo : SUBSET (Opens \X Kinds),
                      victims : SUBSET (Opens \X Kinds),
                      strays : SUBSET (Opens \X Kinds)]
<1>1. clean \in [Cleans -> Fields]
  BY DEF TypeOK, CleanState
<1>2. ASSUME NEW j \in Cleans, CleanList(j) \/ Clean(j), j # k PROVE clean'[k] = clean[k]
  BY <1>1, <1>2 DEF CleanList, Clean, CleanConsider, CleanRemove, CleanEnd
<1>3. CASE CleanList(k)
  BY <1>1, <1>3 DEF CleanList
<1>4. CASE CleanConsider(k)
  <2>1. PICK c \in clean[k].todo :
            clean' = [clean EXCEPT ![k].todo = @ \ {c},
                ![k].victims = IF openProjects[id[c[1]]] # None
                               THEN @ ELSE @ \cup {c}]
    BY <1>4 DEF CleanConsider
  <2>2. /\ clean'[k].at = clean[k].at /\ clean'[k].strays = clean[k].strays
        /\ clean'[k].todo = clean[k].todo \ {c}
        /\ clean'[k].victims = IF openProjects[id[c[1]]] # None
                               THEN clean[k].victims ELSE clean[k].victims \cup {c}
    BY <1>1, <2>1
  <2> QED  BY <1>4, <2>2
<1>5. CASE CleanRemove(k)
  <2>1. PICK c \in clean[k].victims :
            Rm(c) /\ clean' = [clean EXCEPT ![k].victims = @ \ {c}]
    BY <1>5 DEF CleanRemove
  <2>2. /\ clean'[k].at = clean[k].at /\ clean'[k].strays = clean[k].strays
        /\ clean'[k].todo = clean[k].todo /\ clean'[k].victims = clean[k].victims \ {c}
    BY <1>1, <2>1
  <2> QED  BY <1>5, <2>1, <2>2
<1>6. CASE CleanEnd(k)
  BY <1>1, <1>6 DEF CleanEnd
<1>7. CASE Crash
  BY <1>1, <1>7 DEF Crash, NoClean
<1>8. ASSUME NEW o \in Opens, CheckName(o) \/ Open(o) PROVE UNCHANGED clean
  BY <1>8 DEF CheckName, Open, PickId, Unpack, Load, Register
<1>9. ASSUME NEW t \in Tasks, Teardown(t) PROVE UNCHANGED clean
  BY <1>9 DEF Teardown, CloseNodes, CloseOvs, ForgetOvs, Unregister, RemoveDir
<1>10. (\/ \E d \in Closes : Close(d)
        \/ Signal \/ ShutdownCloses \/ ShutdownDrains \/ Exit \/ UNCHANGED vars)
       => UNCHANGED clean
  BY DEF Close, Signal, ShutdownCloses, ShutdownDrains, Exit, vars
<1> HIDE DEF Fields
<1> QED
  BY <1>2, <1>3, <1>4, <1>5, <1>6, <1>7, <1>8, <1>9, <1>10 DEF Next, Clean, Terminated

\* Every step keeps what is known of the cleans under way.
LEMMA CleanKnownStep == OrphanInv /\ CleanKnown /\ [Next]_vars => CleanKnown'
<1> SUFFICES ASSUME OrphanInv, CleanKnown, [Next]_vars, NEW k \in Cleans
             PROVE  (/\ clean[k].at = "idle" => clean[k].strays = {}
                     /\ \A c \in clean[k].todo :
                           /\ id[c[1]] # None
                           /\ c \in clean[k].strays \/ at[c[1]] \in {"end", "lost"}
                     /\ \A c \in clean[k].victims :
                           /\ id[c[1]] # None
                           /\ \/ c \in clean[k].strays
                              \/ /\ openProjects[id[c[1]]] # c[1]
                                 /\ at[c[1]] \in {"end", "lost"}
                     /\ \A c \in clean[k].strays :
                           /\ id[c[1]] # None /\ at[c[1]] \notin Young
                           /\ c[2] = "node" => at[c[1]] # "loaded")'
  BY DEF CleanKnown
<1> USE DEF OrphanInv
<1>1. /\ clean[k] \in CleanState
      /\ clean[k].todo \subseteq Opens \X Kinds
      /\ clean[k].victims \subseteq Opens \X Kinds
      /\ clean[k].strays \subseteq Opens \X Kinds
  BY DEF TypeOK, CleanState
<1>2. ASSUME NEW o \in Opens, id[o] # None
      PROVE  /\ id'[o] = id[o]
             /\ at[o] \in {"end", "lost"} => at'[o] \in {"end", "lost"}
             /\ at[o] \notin Young =>
                   at'[o] \notin Young /\ (at'[o] = "loaded" => at[o] = "loaded")
             /\ at[o] \in {"end", "lost"} /\ openProjects[id[o]] # o =>
                   openProjects'[id'[o]] # o
  <2>1. id[o] \in Ids /\ o # None
    BY <1>2, RegistryAssumption DEF TypeOK, Tasks
  <2>2. at[o] \in {"end", "lost"} => ~Register(o)
    BY DEF Register
  <2> QED  BY <1>2, <2>1, <2>2, OpenAges, TablesChange
<1>3. ASSUME NEW c \in Opens \X Kinds, id[c[1]] # None,
             c \in clean[k].strays \/ at[c[1]] \in {"end", "lost"}
      PROVE  c \in clean[k].strays \/ at'[c[1]] \in {"end", "lost"}
  BY <1>2, <1>3
<1>4. CASE clean'[k] = clean[k]
  BY <1>1, <1>2, <1>4 DEF CleanKnown
<1>5. CASE CleanList(k) /\ clean'[k].at = "listed" /\ clean'[k].todo = conts
           /\ clean'[k].victims = {}
           /\ clean'[k].strays = {c \in conts : c[1] \notin Registered}
  <2>1. UNCHANGED <<openProjects, at, id>>
    BY <1>5, QuietStep DEF Quiet
  <2>2. \A o \in Registered : at[o] = "end"
    BY DEF Registered, TablesKnown
  <2> QED  BY <1>5, <2>1, <2>2 DEF ContsKnown
<1>6. ASSUME NEW c \in clean[k].todo, CleanConsider(k),
             clean'[k].at = clean[k].at, clean'[k].strays = clean[k].strays,
             clean'[k].todo = clean[k].todo \ {c},
             \/ clean'[k].victims = clean[k].victims
             \/ /\ openProjects[id[c[1]]] = None
                /\ clean'[k].victims = clean[k].victims \cup {c}
      PROVE  (/\ clean[k].at = "idle" => clean[k].strays = {}
              /\ \A d \in clean[k].todo :
                    /\ id[d[1]] # None
                    /\ d \in clean[k].strays \/ at[d[1]] \in {"end", "lost"}
              /\ \A d \in clean[k].victims :
                    /\ id[d[1]] # None
                    /\ \/ d \in clean[k].strays
                       \/ /\ openProjects[id[d[1]]] # d[1]
                          /\ at[d[1]] \in {"end", "lost"}
              /\ \A d \in clean[k].strays :
                    /\ id[d[1]] # None /\ at[d[1]] \notin Young
                    /\ d[2] = "node" => at[d[1]] # "loaded")'
  <2>2. UNCHANGED <<openProjects, at, id>>
    BY <1>6, QuietStep DEF Quiet, Clean
  <2>3. c[1] # None
    BY <1>1, RegistryAssumption DEF Tasks
  <2> QED  BY <1>6, <2>2, <2>3 DEF CleanKnown
<1>7. CASE /\ clean'[k].at = clean[k].at \/ clean'[k].at = "end"
           /\ clean'[k].strays = clean[k].strays /\ clean'[k].todo = clean[k].todo
           /\ clean'[k].victims \subseteq clean[k].victims
  BY <1>1, <1>2, <1>7 DEF CleanKnown
<1>8. CASE clean'[k] = [NoClean EXCEPT !.at = "end"]
  BY <1>8 DEF NoClean
<1> QED  BY <1>4, <1>5, <1>6, <1>7, <1>8, CleanStep

\* While an open has made something, nobody closes its project.
LEMMA NobodyCloses ==
    ASSUME TypeOK, TasksKnown, NEW o \in Opens, at[o] \in Opening
    PROVE  ~BeingClosed(o)
BY CloserKnown DEF BeingClosed

\* A project is open after a step if it was before, or has just been registered.
LEMMA MadeAges ==
    ASSUME OrphanInv, [Next]_vars, NEW o \in Opens
    PROVE  /\ at'[o] = "unpacked" => at[o] = "unpacked" \/ Unpack(o)
           /\ at'[o] = "loaded" => at[o] = "loaded" \/ (NewOvsInstance(o) /\ Load(o))
           /\ at'[o] = "created" => at[o] = "created" \/ (at[o] = "loaded" /\ CreateNode(o))
           /\ IsOpen(o)' => IsOpen(o) \/ (Register(o) /\ at[o] = "created")
<1> USE DEF OrphanInv
<1>1. \A i \in Ids : ~Finds(o, i) \/ at'[o] \notin Opening
  BY DEF Finds, Goes, TypeOK, Tasks, Opening
<1>2. Teardown(o) => at'[o] \notin Opening
  BY DEF Teardown, CloseNodes, CloseOvs, ForgetOvs, Unregister, RemoveDir, Goes, TypeOK,
     Tasks, Opening
<1>3. Crash => at'[o] \notin Opening
  BY DEF Crash, TypeOK, Tasks, Opening
<1>4. CheckName(o) => at'[o] \in {"named", "end"}
  BY DEF CheckName, Goes, TypeOK, Tasks
<1>5. PickId(o) => at'[o] = "picked"
  BY DEF PickId, Goes, TypeOK, Tasks
<1>6. Unpack(o) => at'[o] \in {"unpacked", "end"}
  BY DEF Unpack, Goes, TypeOK, Tasks
<1>7. Register(o) => at'[o] = "end" /\ at[o] = "created"
  BY DEF Register, Goes, TypeOK, Tasks
<1>8. Load(o) => \/ NewOvsInstance(o) /\ at'[o] = "loaded"
                 \/ CreateNode(o) /\ at'[o] = "created" /\ at[o] = "loaded"
                 \/ at'[o] = "nodes"
  BY DEF Load, NewOvsInstance, CreateNode, LoadFails, Goes, TypeOK, Tasks
<1>9. at'[o] \in {"unpacked", "loaded", "created"} /\ at'[o] # at[o] => Open(o)
  BY <1>1, <1>2, <1>3, <1>4, TaskStep DEF Opening, Tasks
<1>10. ASSUME IsOpen(o)', ~Register(o) PROVE IsOpen(o)
  <2>1. o # None /\ id'[o] # None /\ id'[o] \in Ids /\ openProjects'[id'[o]] = o
    BY <1>10, TypeStep, RegistryAssumption DEF IsOpen, TypeOK, Tasks
  <2>2. openProjects[id'[o]] = o /\ id'[o] = id[o] /\ ~Crash
    <3>1. ~Crash
      BY <2>1 DEF Crash
    <3>2. openProjects[id'[o]] = o
      BY <1>10, <2>1, <3>1, TablesChange
    <3> QED  BY <2>1, <3>1, <3>2 DEF TablesKnown
  <2>3. ASSUME NEW t \in Tasks, prj[t] = o, at[t] \in Closing PROVE FALSE
    <3>1. prj'[t] = o
      BY <2>3, TaskStep DEF Closing, Ended
    <3>2. at'[t] \notin Closing
      BY <1>10, <3>1 DEF IsOpen, BeingClosed
    <3>3. Teardown(t)
      BY <2>2, <2>3, <3>2, TaskStep
      DEF Closing, Ended, CheckName, Open, PickId, Unpack, Load, Register
    <3>4. RemoveDir(t)
      BY <3>2, <3>3
      DEF Teardown, CloseNodes, CloseOvs, ForgetOvs, Unregister, Goes, TypeOK, Closing
    <3>5. at[t] = "rmdir" /\ id[t] = id[o]
      BY <2>3, <3>4, CloserKnown DEF RemoveDir
    <3> QED  BY <2>2, <2>3, <3>5 DEF TablesKnown
  <2> QED  BY <2>1, <2>2, <2>3 DEF IsOpen, BeingClosed
<1> QED
  BY <1>5, <1>6, <1>7, <1>8, <1>9, <1>10 DEF Open

\* An open that has made something, and whose project nobody closes.
Made(o) == at[o] \in {"loaded", "created"} \/ IsOpen(o)

\* Such an open holds its identifier, and nobody closes its project.
LEMMA MadeHolds ==
    ASSUME OrphanInv, NEW o \in Opens, Made(o)
    PROVE  /\ Holds(o) /\ ~BeingClosed(o) /\ id[o] \in Ids /\ id[o] # None
           /\ at[o] \in {"loaded", "created", "end"} /\ o # None
<1> USE RegistryAssumption DEF OrphanInv, TypeOK, Tasks
<1>1. CASE at[o] \in {"loaded", "created"}
  BY <1>1, NobodyCloses DEF TasksKnown, Opening, Holds, Asleep, Ended
<1>2. CASE IsOpen(o)
  BY <1>2 DEF IsOpen, Holds, TablesKnown
<1> QED  BY <1>1, <1>2 DEF Made

\* Of an open that nobody closes, only a clean removes a container that it has
\* listed before.
LEMMA InPlaceStep ==
    ASSUME OrphanInv, CleanKnown, [Next]_vars, ~Crash, NEW o \in Opens \ clashed, Made(o),
           NEW kind \in Kinds, InPlace(<<o, kind>>)
    PROVE  InPlace(<<o, kind>>)'
<1> DEFINE c == <<o, kind>>
<1> USE DEF OrphanInv
<1>1. Holds(o) /\ ~BeingClosed(o) /\ id[o] \in Ids /\ o # None
  BY MadeHolds
<1>2. ASSUME NEW k \in Cleans, c \in clean[k].strays PROVE InPlace(c)'
  <2>1. clean[k].at # "idle"
    BY <1>2 DEF CleanKnown
  <2>2. c \in clean'[k].strays
    BY <1>2, <2>1, CleanStep DEF NoClean
  <2> QED  BY <2>2 DEF InPlace
<1>3. CASE c \in conts /\ c \notin conts'
  <2>1. ASSUME NEW t \in Tasks, CloseNodes(t) PROVE c # <<prj[t], "node">>
    BY <1>1, <2>1 DEF CloseNodes, BeingClosed, Closing
  <2>2. ASSUME NEW t \in Tasks, CloseOvs(t), ovsInstances[id[t]] = o PROVE FALSE
    <3>1. at[t] = "ovs" /\ id[t] \in Ids
      BY <2>2, CloserKnown DEF CloseOvs, Closing
    <3>2. id[t] = id[o]
      BY <1>1, <2>2, <3>1 DEF TablesKnown
    <3>3. prj[t] = o
      BY <1>1, <3>1, <3>2, OnlyItsClosers DEF Asleep, Ended
    <3> QED  BY <1>1, <3>1, <3>3 DEF BeingClosed, Closing
  <2>3. PICK k \in Cleans : CleanRemove(k) /\ c \in clean[k].victims
    BY <1>3, <2>1, <2>2, ContsShrink
  <2>4. c \in clean[k].strays
    <3>1. ~(openProjects[id[o]] # o /\ at[o] \in {"end", "lost"})
      BY MadeHolds DEF Made, IsOpen
    <3> QED  BY <2>3, <3>1 DEF CleanKnown
  <2> QED  BY <1>2, <2>4
<1>4. CASE c \in conts'
  BY <1>4 DEF InPlace
<1> HIDE DEF c
<1>5. c \in conts \/ \E k \in Cleans : c \in clean[k].strays
  BY DEF InPlace, c
<1> QED  BY <1>2, <1>3, <1>4, <1>5 DEF c

\* No step takes away what such an open has made.
LEMMA MadeStaysStep == OrphanInv /\ CleanKnown /\ MadeStays /\ [Next]_vars => MadeStays'
<1> SUFFICES ASSUME OrphanInv, CleanKnown, MadeStays, [Next]_vars, NEW o \in Opens \ clashed'
             PROVE  (/\ at[o] \in {"loaded", "created"} \/ IsOpen(o) =>
                           ovsInstances[id[o]] = o /\ InPlace(<<o, "ovs">>)
                     /\ at[o] = "created" \/ IsOpen(o) => InPlace(<<o, "node">>)
                     /\ at[o] \in {"unpacked", "loaded", "created"} \/ IsOpen(o) => o \in dirs)'
  BY DEF MadeStays
<1> USE DEF OrphanInv
<1>1. o \in Opens \ clashed /\ o \in Tasks
  BY ClashedGrows DEF Tasks
<1>2. ASSUME Crash PROVE at'[o] \notin Opening /\ ~IsOpen(o)'
  BY <1>1, <1>2, TypeStep, RegistryAssumption DEF Crash, IsOpen, TypeOK, Tasks, Opening
<1>3. ASSUME Made(o), ~Crash, Made(o)'
      PROVE  /\ ovsInstances'[id'[o]] = o /\ InPlace(<<o, "ovs">>)'
             /\ InPlace(<<o, "node">>) => InPlace(<<o, "node">>)'
  <2>1. Holds(o) /\ ~BeingClosed(o) /\ id[o] \in Ids /\ o # None /\ id[o] # None
    BY <1>1, <1>3, MadeHolds
  <2>2. id'[o] = id[o] /\ ovsInstances[id[o]] = o /\ InPlace(<<o, "ovs">>)
    BY <1>1, <1>3, <2>1, OpenAges DEF MadeStays, Made
  <2>3. ASSUME NEW t \in Tasks, ForgetOvs(t), id[t] = id[o] PROVE FALSE
    <3>1. at[t] = "forget"
      BY <2>3 DEF ForgetOvs
    <3>2. prj[t] = o
      BY <1>1, <2>1, <2>3, <3>1, OnlyItsClosers DEF Asleep, Ended
    <3> QED  BY <2>1, <3>1, <3>2 DEF BeingClosed, Closing
  <2>4. ovsInstances'[id[o]] = o
    BY <1>3, <2>1, <2>2, <2>3, TablesChange
  <2> QED  BY <1>1, <1>3, <2>2, <2>4, InPlaceStep DEF Kinds
<1>4. ASSUME NewOvsInstance(o), Load(o), at'[o] = "loaded"
      PROVE  ovsInstances'[id'[o]] = o /\ InPlace(<<o, "ovs">>)'
  <2>1. id[o] \in Ids /\ id'[o] = id[o]
    BY <1>1, <1>4, RegistryAssumption DEF Load, TasksKnown, TypeOK, Opening
  <2> QED  BY <1>4, <2>1 DEF NewOvsInstance, TypeOK, InPlace
<1>5. at'[o] \in {"loaded", "created"} \/ IsOpen(o)' =>
          ovsInstances'[id'[o]] = o /\ InPlace(<<o, "ovs">>)'
  BY <1>1, <1>2, <1>3, <1>4, MadeAges DEF Made, Opening
<1>6. at'[o] = "created" \/ IsOpen(o)' => InPlace(<<o, "node">>)'
  <2>1. at[o] = "loaded" /\ CreateNode(o) => InPlace(<<o, "node">>)'
    BY DEF CreateNode, InPlace
  <2>2. Made(o)' /\ (at[o] = "created" \/ IsOpen(o)) => InPlace(<<o, "node">>)'
    BY <1>1, <1>2, <1>3 DEF Made, MadeStays, Opening
  <2> QED  BY <1>1, <2>1, <2>2, MadeAges DEF Made
<1>7. at'[o] \in {"unpacked", "loaded", "created"} \/ IsOpen(o)' => o \in dirs'
  <2>1. CASE Unpack(o)
    BY <2>1 DEF Unpack
  <2>2. CASE at[o] \in {"unpacked", "loaded", "created"} \/ IsOpen(o)
    <3>1. o \in dirs
      BY <1>1, <2>2 DEF MadeStays
    <3>2. ~BeingClosed(o)
      BY <1>1, <2>2, NobodyCloses DEF IsOpen, Opening
    <3>3. ASSUME NEW t \in Tasks, RemoveDir(t) PROVE prj[t] # o
      BY <3>2, <3>3 DEF RemoveDir, BeingClosed, Closing
    <3>4. ASSUME NEW t \in Tasks, RemoveDir(t) PROVE o \in dirs'
      BY <3>1, <3>3, <3>4 DEF RemoveDir
    <3>5. ASSUME NEW t \in Tasks, Teardown(t) PROVE o \in dirs'
      BY <3>1, <3>4, <3>5
      DEF Teardown, CloseNodes, CloseOvs, ForgetOvs, Unregister, host
    <3>6. ASSUME NEW p \in Opens, CheckName(p) \/ Open(p) PROVE o \in dirs'
      BY <3>1, <3>6 DEF CheckName, Open, PickId, Unpack, Load, Register, host
    <3> QED
      BY <3>1, <3>5, <3>6, QuietStep
      DEF Next, Quiet, Close, ShutdownCloses, Crash, Terminated, host
  <2>3. CASE Load(o)
    BY <1>1, <2>3 DEF Load, MadeStays
  <2> QED  BY <1>1, <2>1, <2>2, <2>3, MadeAges
<1> QED  BY <1>5, <1>6, <1>7

\* No step makes a second container of a name that is taken.
LEMMA NamesTakenStep ==
    OrphanInv /\ NamesTaken /\ [Next]_vars => NamesTaken'
<1> SUFFICES ASSUME OrphanInv, NamesTaken, [Next]_vars, NEW o \in Opens, NEW p \in Opens,
                    o # p, p \notin clashed', id'[o] # None, id'[p] = id'[o]
             PROVE  (/\ at[o] \in {"loaded", "created"} \/ openProjects[id[o]] = o =>
                           <<p, "ovs">> \notin conts
                     /\ at[o] = "created" \/ openProjects[id[o]] = o =>
                           <<p, "node">> \notin conts)'
  BY DEF NamesTaken
<1>1. OrphanInv'
  BY OrphanStep
<1> USE DEF OrphanInv
<1>2. p \notin clashed /\ o \in Tasks /\ p \in Tasks /\ o # None /\ id'[o] \in Ids
  BY <1>1, ClashedGrows, RegistryAssumption DEF TypeOK, Tasks
<1>3. ASSUME NEW kind \in Kinds, at'[o] \in {"loaded", "created"} \/ openProjects'[id'[o]] = o,
             <<p, kind>> \notin conts
      PROVE  <<p, kind>> \notin conts'
  <2> SUFFICES ASSUME <<p, kind>> \in conts' PROVE FALSE
    OBVIOUS
  <2>1. at'[p] \in {"loaded", "created"}
    BY <1>3, GoneStep
  <2>2. Holds(p)' /\ Holds(o)'
    BY <1>1, <1>2, <1>3, <2>1 DEF Holds, TasksKnown, Asleep, Ended
  <2> QED  BY <1>1, <2>2 DEF HoldersApart
<1>4. ASSUME NEW kind \in Kinds, <<p, kind>> \in conts'
      PROVE  <<p, kind>> \in conts => id[p] = id'[p]
  BY OpenAges DEF ContsKnown
<1>5. at'[o] \in {"loaded", "created"} => id[o] = id'[o]
  BY <1>2, MadeAges, OpenAges, RegistryAssumption DEF TasksKnown, Opening, Load
<1>6. openProjects'[id'[o]] = o => id[o] = id'[o]
  <2>1. openProjects'[id'[o]] = o /\ openProjects[id'[o]] = o => id[o] = id'[o]
    BY <1>2 DEF TablesKnown
  <2>2. openProjects'[id'[o]] = o /\ openProjects[id'[o]] # o => id[o] = id'[o]
    BY <1>2, TablesChange, RegistryAssumption DEF Tasks
  <2> QED  BY <2>1, <2>2
<1>7. ASSUME at'[o] \in {"loaded", "created"} \/ openProjects'[id'[o]] = o,
             <<p, "ovs">> \in conts'
      PROVE  FALSE
  <2>1. <<p, "ovs">> \in conts /\ id[p] = id[o] /\ id[o] # None
    BY <1>3, <1>4, <1>5, <1>6, <1>7 DEF Kinds
  <2>2. CASE at[o] \in {"loaded", "created"} \/ openProjects[id[o]] = o
    BY <1>2, <2>1, <2>2 DEF NamesTaken
  <2>3. CASE NewOvsInstance(o)
    BY <2>1, <2>3 DEF NewOvsInstance, NameInUse
  <2>4. CASE Register(o)
    BY <2>2, <2>4 DEF Register
  <2>5. openProjects'[id'[o]] = o /\ openProjects[id[o]] # o => Register(o)
    BY <1>2, <1>6, TablesChange
  <2> QED  BY <1>2, <1>7, <2>2, <2>3, <2>4, <2>5, MadeAges
<1>8. ASSUME at'[o] = "created" \/ openProjects'[id'[o]] = o,
             <<p, "node">> \in conts'
      PROVE  FALSE
  <2>1. <<p, "node">> \in conts /\ id[p] = id[o] /\ id[o] # None
    BY <1>3, <1>4, <1>5, <1>6, <1>8 DEF Kinds
  <2>2. CASE at[o] = "created" \/ openProjects[id[o]] = o
    BY <1>2, <2>1, <2>2 DEF NamesTaken
  <2>3. CASE CreateNode(o)
    BY <2>1, <2>3 DEF CreateNode, NameInUse
  <2>4. CASE Register(o)
    BY <2>2, <2>4 DEF Register
  <2>5. openProjects'[id'[o]] = o /\ openProjects[id[o]] # o => Register(o)
    BY <1>2, <1>6, TablesChange
  <2> QED  BY <1>2, <1>8, <2>2, <2>3, <2>4, <2>5, MadeAges
<1> QED  BY <1>7, <1>8

-----------------------------------------------------------------------------
(* Cleans and the end of the daemon.                                        *)

\* A stray that a clean has listed stays in the care of somebody.
LEMMA StraysStep ==
    OrphanInv /\ CleanKnown /\ NamesTaken /\ StraysHandled /\ [Next]_vars => StraysHandled'
<1> SUFFICES ASSUME OrphanInv, CleanKnown, NamesTaken, StraysHandled, [Next]_vars,
                    NEW k \in Cleans, clean'[k].at = "listed",
                    NEW c \in clean'[k].strays \cap conts', c[1] \notin clashed',
                    c \notin stuck'
             PROVE  \/ c \in clean'[k].todo \cup clean'[k].victims
                    \/ openProjects'[id'[c[1]]] = c[1]
  BY DEF StraysHandled
<1> USE DEF OrphanInv
<1> DEFINE o == c[1]
<1>1. OrphanInv'
  BY OrphanStep
<1>2. c \in Opens \X Kinds /\ o \in Opens \ clashed /\ c = <<o, c[2]>> /\ o # None
  BY <1>1, ClashedGrows, RegistryAssumption DEF TypeOK, Tasks
<1>3. at'[o] = "end" => openProjects'[id'[o]] = o
  BY <1>1, <1>2 DEF Owned, Gone
<1>4. ~Crash
  BY DEF Crash, NoClean
<1>5. CASE CleanList(k) /\ clean'[k].todo = conts
  BY <1>5 DEF CleanList, host
<1>6. ASSUME c \in clean[k].strays, clean[k].at = "listed",
             \/ clean'[k].todo = clean[k].todo /\ clean'[k].victims = clean[k].victims
             \/ \E d \in clean[k].todo :
                    /\ clean'[k].todo = clean[k].todo \ {d}
                    /\ \/ /\ openProjects[id[d[1]]] # None
                          /\ clean'[k].victims = clean[k].victims /\ CleanConsider(k)
                       \/ clean'[k].victims = clean[k].victims \cup {d}
             \/ /\ clean'[k].todo = clean[k].todo
                /\ \E d \in clean[k].victims :
                      Rm(d) /\ clean'[k].victims = clean[k].victims \ {d}
      PROVE  \/ c \in clean'[k].todo \cup clean'[k].victims
             \/ openProjects'[id'[o]] = o
  <2>1. /\ at[o] \notin Young /\ id[o] # None /\ id[o] \in Ids
        /\ c[2] = "node" => at[o] # "loaded"
    BY <1>2, <1>6 DEF CleanKnown, TypeOK, Tasks
  <2>2. ~Gone(c)
    <3>1. ASSUME NEW p \in Opens, c = <<p, "ovs">>, at[p] = "unpacked" PROVE FALSE
      BY <2>1, <3>1 DEF Young
    <3>2. ASSUME NEW p \in Opens, c = <<p, "node">>, at[p] = "loaded" PROVE FALSE
      BY <2>1, <3>2
    <3>3. ~(Gone(c))'
      BY DEF Gone
    <3> QED  BY <3>1, <3>2, <3>3, GoneStep
  <2>3. c \in clean[k].todo \cup clean[k].victims \/ openProjects[id[o]] = o
    BY <1>2, <1>6, <2>2 DEF StraysHandled, Gone
  <2>4. CASE openProjects[id[o]] = o
    <3>1. at[o] = "end"
      BY <1>2, <2>1, <2>4 DEF TablesKnown
    <3>2. at'[o] = "end"
      BY <1>2, <1>4, <3>1, OpenAges
    <3> QED  BY <1>3, <3>2
  <2>5. ASSUME openProjects[id[o]] # None, openProjects[id[o]] # o PROVE FALSE
    <3>1. PICK q \in Opens : q = openProjects[id[o]] /\ id[q] = id[o]
      BY <2>1, <2>5 DEF TypeOK, TablesKnown
    <3>2. <<o, "ovs">> \notin conts /\ <<o, "node">> \notin conts
      BY <1>2, <2>1, <2>5, <3>1 DEF NamesTaken
    <3> QED  BY <1>2, <2>2, <3>2 DEF Gone, Kinds
  <2>6. \A d \in clean[k].victims : Rm(d) => d # c
    <3>1. Rm(c) => Gone(c)'
      BY RmKnown
    <3> QED  BY <3>1 DEF Gone
  <2> QED  BY <1>6, <2>3, <2>4, <2>5, <2>6
<1> QED  BY <1>4, <1>5, <1>6, CleanStep

\* A task goes on closing a project until it has removed its directory.
LEMMA ClosingGoesOn ==
    ASSUME OrphanInv, [Next]_vars, ~Crash, NEW o \in Opens, BeingClosed(o), id[o] \in Ids,
           openProjects[id[o]] = o
    PROVE  BeingClosed(o)'
<1> USE DEF OrphanInv
<1>1. PICK t \in Tasks : prj[t] = o /\ at[t] \in Closing
  BY DEF BeingClosed
<1>2. prj'[t] = o
  BY <1>1, TaskStep DEF Closing, Ended
<1>3. at'[t] # at[t] => Teardown(t)
  BY <1>1, TaskStep
  DEF Closing, Ended, CheckName, Open, PickId, Unpack, Load, Register
<1>4. ~RemoveDir(t)
  BY <1>1, CloserKnown DEF RemoveDir, TablesKnown
<1>5. at'[t] \in Closing
  BY <1>1, <1>3, <1>4
  DEF Teardown, CloseNodes, CloseOvs, ForgetOvs, Unregister, Goes, TypeOK, Closing
<1> QED  BY <1>2, <1>5 DEF BeingClosed

\* What may change the state of the daemon's end.
LEMMA ShutdownChanges ==
    [Next]_vars => UNCHANGED shutdown \/ Signal \/ ShutdownCloses \/ ShutdownDrains
                   \/ Exit \/ Crash
<1>1. ASSUME NEW o \in Opens, CheckName(o) \/ Open(o) PROVE UNCHANGED shutdown
  BY <1>1 DEF CheckName, Open, PickId, Unpack, Load, Register
<1>2. ASSUME NEW t \in Tasks, Teardown(t) PROVE UNCHANGED shutdown
  BY <1>2 DEF Teardown, CloseNodes, CloseOvs, ForgetOvs, Unregister, RemoveDir
<1>3. ASSUME NEW k \in Cleans, CleanList(k) \/ Clean(k) PROVE UNCHANGED shutdown
  BY <1>3 DEF CleanList, Clean, CleanConsider, CleanRemove, CleanEnd
<1>4. (\E c \in Closes : Close(c)) \/ UNCHANGED vars => UNCHANGED shutdown
  BY DEF Close, vars
<1> QED  BY <1>1, <1>2, <1>3, <1>4 DEF Next, Terminated

\* The end of the daemon forgets none of the projects that were open.
LEMMA ShutdownStep == OrphanInv /\ ShutdownKnown /\ [Next]_vars => ShutdownKnown'
<1> SUFFICES ASSUME OrphanInv, ShutdownKnown, [Next]_vars PROVE ShutdownKnown'
  OBVIOUS
<1> USE DEF OrphanInv
<1>1. shutdown \in [at : {"up", "closing", "draining", "exited"},
                    todo : SUBSET Ids, open : SUBSET Opens]
  BY DEF TypeOK, ShutdownState
<1>2. shutdown'.at = "up" => shutdown'.open = {}
  BY <1>1, ShutdownChanges
  DEF ShutdownKnown, Signal, ShutdownCloses, ShutdownDrains, Exit, Crash
<1>3. ASSUME NEW o \in shutdown'.open
      PROVE  (/\ at[o] \in {"end", "lost"} /\ id[o] # None
              /\ openProjects[id[o]] = o => id[o] \in shutdown.todo \/ BeingClosed(o))'
  <2>1. CASE Signal
    <3>1. UNCHANGED <<openProjects, at, id>>
      BY <2>1, QuietStep DEF Quiet
    <3>2. PICK i \in Ids : o = openProjects[i] /\ o # None
      BY <1>3, <2>1 DEF Signal, Registered
    <3>3. id[o] = i /\ at[o] = "end" /\ i \in shutdown'.todo /\ i # None
      BY <2>1, <3>2, RegistryAssumption DEF Signal, TablesKnown
    <3> QED  BY <3>1, <3>3
  <2>2. CASE ~Signal
    <3>1. ~Crash /\ o \in shutdown.open
      BY <1>1, <1>3, <2>2, ShutdownChanges
      DEF ShutdownCloses, ShutdownDrains, Exit, Crash
    <3>2. /\ o \in Opens /\ at[o] \in {"end", "lost"} /\ id[o] # None /\ id[o] \in Ids
          /\ o # None /\ o \in Tasks
      BY <1>1, <3>1, RegistryAssumption DEF ShutdownKnown, TypeOK, Tasks
    <3>3. at'[o] \in {"end", "lost"} /\ id'[o] = id[o]
      BY <3>2, OpenAges
    <3>4. ASSUME openProjects'[id[o]] = o
          PROVE  id[o] \in shutdown'.todo \/ BeingClosed(o)'
      <4>1. openProjects[id[o]] = o
        <5>1. ~Register(o)
          BY <3>2 DEF Register
        <5> QED  BY <3>1, <3>2, <3>4, <5>1, TablesChange
      <4>2. CASE BeingClosed(o)
        BY <3>1, <3>2, <4>1, <4>2, ClosingGoesOn
      <4>3. CASE id[o] \in shutdown.todo /\ id[o] \notin shutdown'.todo
        <5>1. ShutdownCloses
          BY <1>1, <2>2, <3>1, <4>3, ShutdownChanges DEF ShutdownDrains, Exit
        <5>2. Finds(Daemon, id[o])
          BY <1>1, <3>2, <4>1, <4>3, <5>1 DEF ShutdownCloses
        <5> QED  BY <4>1, <5>2 DEF Finds, Goes, BeingClosed, TypeOK, Tasks, Closing
      <4> QED  BY <3>1, <4>1, <4>2, <4>3 DEF ShutdownKnown
    <3> QED  BY <3>2, <3>3, <3>4
  <2> QED  BY <2>1, <2>2
<1>4. ASSUME NEW t \in Tasks, at[t] \in Ended, ~Serving PROVE at'[t] \in Ended
  <2>1. ~Teardown(t) /\ ~Open(t) /\ ~CheckName(t)
    BY <1>4
    DEF Ended, Teardown, CloseNodes, CloseOvs, ForgetOvs, Unregister, RemoveDir,
        Open, PickId, Unpack, Load, Register, CheckName
  <2>2. CASE at'[t] # at[t]
    <3>1. Crash
      BY <1>4, <2>1, <2>2, TaskStep
    <3> QED  BY <1>1, <1>4, <3>1 DEF Crash, Ended, TypeOK
  <2> QED  BY <1>4, <2>2
<1>5. ASSUME shutdown'.at \in {"draining", "exited"}
      PROVE  shutdown'.todo = {} /\ at'[Daemon] \in Ended
  <2>1. CASE ShutdownDrains
    BY <1>1, <2>1, QuietStep DEF Quiet, ShutdownDrains
  <2>2. CASE ~ShutdownDrains
    <3>1. /\ shutdown.at \in {"draining", "exited"} /\ shutdown'.todo = shutdown.todo
          /\ ~Serving
      BY <1>1, <1>5, <2>2, ShutdownChanges
      DEF Signal, ShutdownCloses, Exit, Crash, Serving
    <3> QED  BY <1>4, <3>1 DEF ShutdownKnown, Tasks
  <2> QED  BY <2>1, <2>2
<1>6. ASSUME shutdown'.at = "exited", NEW t \in Tasks PROVE at'[t] \in Ended
  <2>1. CASE Exit
    BY <2>1, QuietStep DEF Quiet, Exit, Idle, ShutdownKnown, Tasks
  <2>2. CASE ~Exit
    <3>1. shutdown.at = "exited" /\ ~Serving
      BY <1>1, <1>6, <2>2, ShutdownChanges
      DEF Signal, ShutdownCloses, ShutdownDrains, Crash, Serving
    <3> QED  BY <1>4, <3>1 DEF ShutdownKnown
  <2> QED  BY <2>1, <2>2
<1> QED  BY <1>2, <1>3, <1>5, <1>6 DEF ShutdownKnown

-----------------------------------------------------------------------------
(* The theorems.                                                            *)

\* The whole invariant holds of a daemon that starts.
LEMMA InitIInv == Init => IInv
<1> SUFFICES ASSUME Init PROVE IInv
  OBVIOUS
<1>1. OrphanInv
  BY OrphanInit
<1>2. \A o \in Opens : at[o] = "idle" /\ id[o] = None
  BY DEF Init, Tasks
<1>3. MadeStays /\ CleanKnown /\ NamesTaken
  BY <1>2 DEF Init, MadeStays, CleanKnown, NamesTaken, IsOpen, NoClean
<1>4. StraysHandled /\ ShutdownKnown
  BY DEF Init, StraysHandled, ShutdownKnown, NoClean
<1> QED  BY <1>1, <1>3, <1>4 DEF IInv

\* The inductive invariant holds in every reachable state.
THEOREM Invariant == Spec => []IInv
<1>1. IInv /\ [Next]_vars => IInv'
  BY OrphanStep, MadeStaysStep, CleanKnownStep, NamesTakenStep, StraysStep, ShutdownStep
  DEF IInv
<1> QED  BY InitIInv, <1>1, PTL DEF Spec

\* A task only closes a project that some open has made.
THEOREM TypeCorrect == Spec => []TypeOK
<1>1. IInv => TypeOK
  BY DEF IInv, OrphanInv
<1> QED  BY <1>1, Invariant, PTL

\* Every container has somebody who will remove it, or its removal failed, or
\* the daemon died, or two opens drew the same identifier at the same time.
THEOREM NothingIsOrphaned == Spec => []NoOrphans
<1>1. ASSUME IInv, NEW c \in conts
      PROVE  \/ at[c[1]] \notin Ended
             \/ openProjects[id[c[1]]] = c[1]
             \/ c \in stuck
             \/ at[c[1]] = "lost"
             \/ c[1] \in clashed
  <2>1. c[1] \in Opens /\ c[2] \in Kinds /\ c = <<c[1], c[2]>>
    BY <1>1 DEF IInv, OrphanInv, TypeOK
  <2> QED  BY <1>1, <2>1 DEF IInv, OrphanInv, ContsKnown, Owned, Gone, Young, Ended
<1>2. IInv => NoOrphans
  BY <1>1 DEF NoOrphans
<1> QED  BY <1>2, Invariant, PTL

\* A project that ProjectOpen returned is whole until somebody closes it, but
\* for what a clean has listed before it was registered.
THEOREM RegisteredProjectsAreWhole == Spec => []OpenProjectsWhole
<1>1. ASSUME IInv, NEW o \in Registered, o \notin clashed, ~BeingClosed(o)
      PROVE  /\ ovsInstances[id[o]] = o
             /\ o \in dirs
             /\ \A kind \in Kinds :
                   \/ <<o, kind>> \in conts
                   \/ \E k \in Cleans : <<o, kind>> \in clean[k].strays
  <2>1. o \in Opens /\ id[o] # None /\ openProjects[id[o]] = o
    BY <1>1, RegistryAssumption DEF Registered, IInv, OrphanInv, TypeOK, TablesKnown
  <2> QED  BY <1>1, <2>1 DEF IInv, MadeStays, IsOpen, InPlace, Kinds
<1>2. IInv => OpenProjectsWhole
  BY <1>1 DEF OpenProjectsWhole
<1> QED  BY <1>2, Invariant, PTL

\* A clean that has ended has removed every stray container that it listed, or
\* tried to, or the container's project was registered in the meantime.
THEOREM CleansAreThorough == Spec => CleanIsThorough
<1>1. ASSUME IInv
      PROVE  \A k \in Cleans : CleanEnd(k) =>
                \A c \in clean[k].strays \cap conts :
                    \/ c \in stuck
                    \/ openProjects[id[c[1]]] = c[1]
                    \/ c[1] \in clashed
  BY <1>1 DEF IInv, StraysHandled, CleanEnd
<1> QED  BY <1>1, Invariant, PTL DEF CleanIsThorough

\* The daemon exits only when the projects that were open at the signal are gone
\* from the host.
THEOREM ExitLeavesNothing == Spec => []ExitIsClean
<1>1. ASSUME IInv, shutdown.at = "exited", NEW c \in conts, c[1] \in shutdown.open,
             c \notin stuck, at[c[1]] # "lost", c[1] \notin clashed
      PROVE  FALSE
  <2>1. c[1] \in Opens /\ c[2] \in Kinds /\ c = <<c[1], c[2]>>
    BY <1>1 DEF IInv, OrphanInv, TypeOK
  <2>2. at[c[1]] = "end"
    BY <1>1 DEF IInv, ShutdownKnown
  <2>3. openProjects[id[c[1]]] = c[1]
    BY <1>1, <2>1, <2>2 DEF IInv, OrphanInv, Owned, Gone
  <2>4. BeingClosed(c[1])
    BY <1>1, <2>3 DEF IInv, ShutdownKnown
  <2> QED  BY <1>1, <2>4 DEF IInv, ShutdownKnown, BeingClosed, Ended, Closing
<1>2. IInv => ExitIsClean
  BY <1>1 DEF ExitIsClean
<1> QED  BY <1>2, Invariant, PTL

=============================================================================
