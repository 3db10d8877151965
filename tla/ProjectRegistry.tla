-------------------------- MODULE ProjectRegistry --------------------------
(***************************************************************************)
(* The daemon's table of open projects and the gRPC handlers that work on  *)
(* it at the same time: ProjectOpen and ProjectClose                       *)
(* (internal/server/server.go, project.go), ServerCleanContainers, the     *)
(* table of ovs instances (internal/ovs/instance.go), and the end of the   *)
(* daemon (Server.Close and the tail of cmd/gonetem-server/main.go).       *)
(*                                                                         *)
(* No lock covers the two tables: each step below is what a handler does   *)
(* between two points where another handler may run.  A project has one    *)
(* node: what happens inside a topology is the matter of module Topology.  *)
(***************************************************************************)
EXTENDS Naturals, FiniteSets

CONSTANTS
    Opens,      \* ProjectOpen requests
    Closes,     \* ProjectClose requests
    Cleans,     \* ServerCleanContainers requests
    Names,      \* names of the projects
    Ids,        \* the identifiers RandString(3) may return
    Daemon,     \* the task of the daemon's main goroutine
    None,
    Faults,     \* may unpacking, loading and the removal of a container fail?
    MayCrash    \* may the process die (a kill, or a panic of a handler)?

Tasks == Opens \cup Closes \cup {Daemon}
Kinds == {"ovs", "node"}

ASSUME RegistryAssumption ==
    /\ Opens \cap Closes = {} /\ Daemon \notin Opens \cup Closes
    /\ None \notin Tasks \cup Ids \cup Names
    /\ {Faults, MayCrash} \subseteq BOOLEAN
    /\ IsFiniteSet(Opens)
    /\ IsFiniteSet(Ids) => Cardinality(Ids) >= Cardinality(Opens)

VARIABLES
    openProjects,   \* id -> the ProjectOpen call that made the project
    ovsInstances,   \* id -> the ProjectOpen call that made the container
    at,             \* where each task stands
    name,           \* of the project of each open
    id,             \* the identifier each task works on
    prj,            \* the project each task works on
    conts,          \* containers of the host: <<open, kind>>
    dirs,           \* opens whose temporary directory exists
    stuck,          \* containers whose removal failed
    clean,          \* state of each clean request
    shutdown,       \* stage of the daemon's end, and the ids it has to close
    crashed,        \* history: the process died, and was started again
    clashed         \* history: opens whose identifier two tasks used at once

tables == <<openProjects, ovsInstances>>
tasks  == <<at, name, id, prj>>
host   == <<conts, dirs, stuck>>
hist   == <<crashed, clashed>>
vars   == <<tables, tasks, host, clean, shutdown, hist>>

Registered == {openProjects[i] : i \in Ids} \ {None}
Serving    == shutdown.at \in {"up", "closing"}

Opening == {"named", "picked", "unpacked", "loaded", "created"}
Closing == {"nodes", "ovs", "forget", "unregister", "rmdir"}
Ended   == {"idle", "end", "lost"}

\* A clean: what it has listed and has to consider, what it removes, and the
\* containers that belonged to no open project when it listed them.
CleanState == [at      : {"idle", "listed", "end"},
               todo    : SUBSET (Opens \X Kinds),
               victims : SUBSET (Opens \X Kinds),
               strays  : SUBSET (Opens \X Kinds)]

ShutdownState == [at   : {"up", "closing", "draining", "exited"},
                  todo : SUBSET Ids,
                  open : SUBSET Opens]

TypeOK ==
    /\ openProjects \in [Ids -> Opens \cup {None}]
    /\ ovsInstances \in [Ids -> Opens \cup {None}]
    /\ at \in [Tasks -> Opening \cup Closing \cup Ended]
    /\ name \in [Opens -> Names \cup {None}]
    /\ id \in [Tasks -> Ids \cup {None}]
    /\ prj \in [Tasks -> Opens \cup {None}]
    /\ \A t \in Tasks : at[t] \in Closing => prj[t] # None /\ id[t] # None
    /\ conts \subseteq Opens \X Kinds
    /\ dirs \subseteq Opens
    /\ stuck \subseteq Opens \X Kinds
    /\ clean \in [Cleans -> CleanState]
    /\ shutdown \in ShutdownState
    /\ crashed \in BOOLEAN
    /\ clashed \subseteq Opens

NoClean == [at |-> "idle", todo |-> {}, victims |-> {}, strays |-> {}]

Init ==
    /\ openProjects = [i \in Ids |-> None]
    /\ ovsInstances = [i \in Ids |-> None]
    /\ at = [t \in Tasks |-> "idle"]
    /\ name = [o \in Opens |-> None]
    /\ id = [t \in Tasks |-> None]
    /\ prj = [t \in Tasks |-> None]
    /\ conts = {} /\ dirs = {} /\ stuck = {}
    /\ clean = [k \in Cleans |-> NoClean]
    /\ shutdown = [at |-> "up", todo |-> {}, open |-> {}]
    /\ crashed = FALSE /\ clashed = {}

-----------------------------------------------------------------------------
(* ProjectOpen.                                                             *)

Goes(t, stage) == at' = [at EXCEPT ![t] = stage]

\* ProjectIsExist: the name is free, or the request is refused.
CheckName(o) ==
    /\ Serving /\ at[o] = "idle"
    /\ \E n \in Names :
          LET taken == \E p \in Registered : name[p] = n
          IN  /\ name' = [name EXCEPT ![o] = n]
              /\ Goes(o, IF taken THEN "end" ELSE "named")
    /\ prj' = [prj EXCEPT ![o] = o]
    /\ UNCHANGED <<tables, id, host, clean, shutdown, hist>>

\* The tasks that may still change something under identifier i.
Users(i) == {t \in Tasks : at[t] \notin Ended \cup {"rmdir"} /\ id[t] = i}

\* A mistaken variant: the identifier is not compared to those in use.
PickIdBlindly(o) ==
    /\ at[o] = "named"
    /\ \E i \in Ids :
          /\ id' = [id EXCEPT ![o] = i]
          /\ clashed' = clashed \cup
                (IF Users(i) = {} THEN {} ELSE {o} \cup {prj[t] : t \in Users(i)})
    /\ Goes(o, "picked")
    /\ UNCHANGED <<tables, name, prj, host, clean, shutdown, crashed>>

\* RandString, until ProjectIsIdExist says that no open project has the
\* identifier: a request in progress may have it.
PickId(o) ==
    /\ at[o] = "named"
    /\ \E i \in Ids :
          /\ openProjects[i] = None
          /\ id' = [id EXCEPT ![o] = i]
          /\ clashed' = clashed \cup
                (IF Users(i) = {} THEN {} ELSE {o} \cup {prj[t] : t \in Users(i)})
    /\ Goes(o, "picked")
    /\ UNCHANGED <<tables, name, prj, host, clean, shutdown, crashed>>

\* MkdirTemp and OpenArchive: an archive that cannot be opened ends the
\* request, and leaves the directory.
Unpack(o) ==
    /\ at[o] = "picked"
    /\ dirs' = dirs \cup {o}
    /\ Goes(o, "unpacked") \/ (Faults /\ Goes(o, "end"))
    /\ UNCHANGED <<tables, name, id, prj, conts, stuck, clean, shutdown, hist>>

\* The names docker knows: ntm<id>.ovs and ntm<id>.<node>, one container each.
NameInUse(o, kind) == \E c \in conts : id[c[1]] = id[o] /\ c[2] = kind

LoadFails(o) == Goes(o, "nodes") /\ UNCHANGED <<ovsInstances, conts>>

NewOvsInstance(o) ==
    /\ ovsInstances[id[o]] = None
    /\ ~NameInUse(o, "ovs")
    /\ conts' = conts \cup {<<o, "ovs">>}
    /\ ovsInstances' = [ovsInstances EXCEPT ![id[o]] = o]
    /\ Goes(o, "loaded")

CreateNode(o) ==
    /\ ~NameInUse(o, "node")
    /\ conts' = conts \cup {<<o, "node">>}
    /\ Goes(o, "created")
    /\ UNCHANGED ovsInstances

\* LoadTopology: the ovs instance, then the node; or an error, after which
\* topology.Close cleans what this call made.
Load(o) ==
    /\ \/ /\ at[o] = "unpacked"
          /\ \/ NewOvsInstance(o)
             \/ LoadFails(o) /\ (\/ Faults \/ ovsInstances[id[o]] # None
                                 \/ NameInUse(o, "ovs"))
       \/ /\ at[o] = "loaded"
          /\ CreateNode(o) \/ (LoadFails(o) /\ (Faults \/ NameInUse(o, "node")))
    /\ UNCHANGED <<openProjects, name, id, prj, dirs, stuck, clean, shutdown,
                   hist>>

Register(o) ==
    /\ at[o] = "created"
    /\ openProjects' = [openProjects EXCEPT ![id[o]] = o]
    /\ Goes(o, "end")
    /\ UNCHANGED <<ovsInstances, name, id, prj, host, clean, shutdown, hist>>

-----------------------------------------------------------------------------
(* ProjectClose, by a request, by the end of the daemon or, from the stage  *)
(* "nodes", by an open that failed.                                         *)

\* A mistaken variant: a project that is not found is closed too.
FindsAny(t, i) ==
    /\ id' = [id EXCEPT ![t] = i]
    /\ prj' = [prj EXCEPT ![t] = openProjects[i]]
    /\ Goes(t, "nodes")

\* ProjectGetOne finds project i.
Finds(t, i) ==
    /\ openProjects[i] # None
    /\ id' = [id EXCEPT ![t] = i]
    /\ prj' = [prj EXCEPT ![t] = openProjects[i]]
    /\ Goes(t, "nodes")

Close(c) ==
    /\ Serving /\ at[c] = "idle"
    /\ \E i \in Ids : Finds(c, i)
    /\ UNCHANGED <<tables, name, host, clean, shutdown, hist>>

\* Rm of a container: it may fail.  One that is gone already is an error
\* nobody minds.
Rm(c) ==
    \/ conts' = conts \ {c} /\ stuck' = stuck \ {c}
    \/ /\ Faults /\ c \in conts
       /\ stuck' = stuck \cup {c}
       /\ UNCHANGED conts

\* Topology.Close: the nodes of the topology.
CloseNodes(t) ==
    /\ at[t] = "nodes"
    /\ Rm(<<prj[t], "node">>)
    /\ Goes(t, "ovs")
    /\ UNCHANGED <<tables, name, id, prj, dirs, clean, shutdown, hist>>

\* A mistaken variant: the ovs container is left to a later clean.
CloseOvsForgets(t) ==
    /\ at[t] = "ovs"
    /\ Goes(t, "forget")
    /\ UNCHANGED <<tables, name, id, prj, host, clean, shutdown, hist>>

\* CloseOvsInstance: the container found under the identifier ...
CloseOvs(t) ==
    /\ at[t] = "ovs"
    /\ LET o == ovsInstances[id[t]]
       IN  IF o = None THEN UNCHANGED <<conts, stuck>> ELSE Rm(<<o, "ovs">>)
    /\ Goes(t, IF ovsInstances[id[t]] # None THEN "forget"
               ELSE IF t \in Opens THEN "rmdir" ELSE "unregister")
    /\ UNCHANGED <<tables, name, id, prj, dirs, clean, shutdown, hist>>

\* ... and the deferred delete of the entry, whatever it holds by then.
ForgetOvs(t) ==
    /\ at[t] = "forget"
    /\ ovsInstances' = [ovsInstances EXCEPT ![id[t]] = None]
    /\ Goes(t, IF t \in Opens THEN "rmdir" ELSE "unregister")
    /\ UNCHANGED <<openProjects, name, id, prj, host, clean, shutdown, hist>>

\* The deferred delete of ProjectClose, whatever the entry holds by then.
Unregister(t) ==
    /\ at[t] = "unregister"
    /\ openProjects' = [openProjects EXCEPT ![id[t]] = None]
    /\ Goes(t, "rmdir")
    /\ UNCHANGED <<ovsInstances, name, id, prj, host, clean, shutdown, hist>>

RemoveDir(t) ==
    /\ at[t] = "rmdir"
    /\ dirs' = dirs \ {prj[t]}
    /\ Goes(t, "end")
    /\ UNCHANGED <<tables, name, id, prj, conts, stuck, clean, shutdown, hist>>

Teardown(t) ==
    CloseNodes(t) \/ CloseOvs(t) \/ ForgetOvs(t) \/ Unregister(t) \/ RemoveDir(t)

-----------------------------------------------------------------------------
(* ServerCleanContainers.                                                   *)

\* client.List.  "strays" is a history: the containers listed that belong to
\* no open project by then.
CleanList(k) ==
    /\ Serving /\ clean[k].at = "idle"
    /\ clean' = [clean EXCEPT ![k] =
                    [at |-> "listed", todo |-> conts, victims |-> {},
                     strays |-> {c \in conts : c[1] \notin Registered}]]
    /\ UNCHANGED <<tables, tasks, host, shutdown, hist>>

\* A mistaken variant: every container is removed.
CleanConsiderNobody(k) ==
    \E c \in clean[k].todo :
        /\ clean' = [clean EXCEPT ![k].todo = @ \ {c}, ![k].victims = @ \cup {c}]
        /\ UNCHANGED <<tables, tasks, host, shutdown, hist>>

\* The identifier in the container's name is that of an open project, or a
\* goroutine removes the container.
CleanConsider(k) ==
    \E c \in clean[k].todo :
        LET used == openProjects[id[c[1]]] # None
        IN  /\ clean' = [clean EXCEPT ![k].todo = @ \ {c},
                                      ![k].victims = IF used THEN @ ELSE @ \cup {c}]
            /\ UNCHANGED <<tables, tasks, host, shutdown, hist>>

CleanRemove(k) ==
    \E c \in clean[k].victims :
        /\ Rm(c)
        /\ clean' = [clean EXCEPT ![k].victims = @ \ {c}]
        /\ UNCHANGED <<tables, tasks, dirs, shutdown, hist>>

\* A mistaken variant: the goroutines are not waited for.
CleanEndsEarly(k) ==
    /\ clean[k].at = "listed" /\ clean[k].todo = {}
    /\ clean' = [clean EXCEPT ![k].at = "end"]
    /\ UNCHANGED <<tables, tasks, host, shutdown, hist>>

CleanEnd(k) ==
    /\ clean[k].at = "listed" /\ clean[k].todo = {} /\ clean[k].victims = {}
    /\ clean' = [clean EXCEPT ![k].at = "end"]
    /\ UNCHANGED <<tables, tasks, host, shutdown, hist>>

Clean(k) == CleanConsider(k) \/ CleanRemove(k) \/ CleanEnd(k)

-----------------------------------------------------------------------------
(* The end of the daemon.                                                   *)

\* A signal: Server.Close makes the list of the projects to close ("open" is
\* a history of it).
Signal ==
    /\ shutdown.at = "up"
    /\ shutdown' = [at |-> "closing", open |-> Registered,
                    todo |-> {i \in Ids : openProjects[i] # None}]
    /\ UNCHANGED <<tables, tasks, host, clean, hist>>

\* A mistaken variant: a project that is gone is tried again.
ShutdownRetries ==
    /\ shutdown.at = "closing" /\ at[Daemon] \in Ended
    /\ \E i \in shutdown.todo :
          \/ Finds(Daemon, i) /\ shutdown' = [shutdown EXCEPT !.todo = @ \ {i}]
          \/ openProjects[i] = None /\ UNCHANGED <<at, id, prj, shutdown>>
    /\ UNCHANGED <<tables, name, host, clean, hist>>

\* One project after the other; one that is gone by now is only logged.
ShutdownCloses ==
    /\ shutdown.at = "closing" /\ at[Daemon] \in Ended
    /\ \E i \in shutdown.todo :
          /\ \/ Finds(Daemon, i)
             \/ openProjects[i] = None /\ UNCHANGED <<at, id, prj>>
          /\ shutdown' = [shutdown EXCEPT !.todo = @ \ {i}]
    /\ UNCHANGED <<tables, name, host, clean, hist>>

\* A mistaken variant: the daemon does not wait for the projects it closes.
ShutdownDrainsEarly ==
    /\ shutdown.at = "closing"
    /\ shutdown' = [shutdown EXCEPT !.at = "draining", !.todo = {}]
    /\ UNCHANGED <<tables, tasks, host, clean, hist>>

\* GracefulStop: no new request, and the pending ones are waited for.
ShutdownDrains ==
    /\ shutdown.at = "closing" /\ at[Daemon] \in Ended /\ shutdown.todo = {}
    /\ shutdown' = [shutdown EXCEPT !.at = "draining"]
    /\ UNCHANGED <<tables, tasks, host, clean, hist>>

Idle == /\ \A t \in Opens \cup Closes : at[t] \in Ended
        /\ \A k \in Cleans : clean[k].at # "listed"

Exit ==
    /\ shutdown.at = "draining" /\ Idle
    /\ shutdown' = [shutdown EXCEPT !.at = "exited"]
    /\ UNCHANGED <<tables, tasks, host, clean, hist>>

\* The process dies and is started again: the tables and the requests in
\* progress are lost, the containers and the directories stay.
Crash ==
    /\ MayCrash /\ ~crashed /\ shutdown.at # "exited"
    /\ openProjects' = [i \in Ids |-> None]
    /\ ovsInstances' = [i \in Ids |-> None]
    /\ at' = [t \in Tasks |->
                IF t \in Opens /\ at[t] # "idle" THEN "lost"
                ELSE IF at[t] \in Ended THEN at[t] ELSE "end"]
    /\ clean' = [k \in Cleans |-> IF clean[k].at = "listed"
                                  THEN [NoClean EXCEPT !.at = "end"] ELSE clean[k]]
    /\ shutdown' = [at |-> "up", todo |-> {}, open |-> {}]
    /\ crashed' = TRUE
    /\ UNCHANGED <<name, id, prj, host, clashed>>

\* Nothing is left to do: what the finite sets of requests allow is done.
Terminated ==
    /\ shutdown.at = "exited"
    /\ UNCHANGED vars

Open(o) == PickId(o) \/ Unpack(o) \/ Load(o) \/ Register(o)

Next ==
    \/ \E o \in Opens : CheckName(o) \/ Open(o)
    \/ \E c \in Closes : Close(c)
    \/ \E t \in Tasks : Teardown(t)
    \/ \E k \in Cleans : CleanList(k) \/ Clean(k)
    \/ Signal \/ ShutdownCloses \/ ShutdownDrains \/ Exit
    \/ Crash
    \/ Terminated

Spec == Init /\ [][Next]_vars

\* The scheduler runs every goroutine that can run, and the docker engine
\* answers; no request has to come, nor a signal.
Fairness ==
    /\ \A o \in Opens : WF_vars(Open(o))
    /\ \A t \in Tasks : WF_vars(Teardown(t))
    /\ \A k \in Cleans : WF_vars(Clean(k))
    /\ WF_vars(ShutdownCloses) /\ WF_vars(ShutdownDrains) /\ WF_vars(Exit)

FairSpec == Spec /\ Fairness

-----------------------------------------------------------------------------
(* Properties.                                                              *)

(* Nothing is promised to the opens in "clashed".                           *)

BeingClosed(o) == \E t \in Tasks : prj[t] = o /\ at[t] \in Closing

\* Whatever the interleaving of opens, closes, cleans and the end of the
\* daemon, a container has a request or a registered project that will remove
\* it, unless its removal was tried and failed or the daemon died (ProjectOpen
\* cleans what a failed load made, ProjectClose unregisters last).
NoOrphans ==
    \A c \in conts :
        LET o == c[1]
        IN  \/ at[o] \notin Ended
            \/ openProjects[id[o]] = o
            \/ c \in stuck
            \/ at[o] = "lost"
            \/ o \in clashed

\* A registered project that nobody is closing has its ovs instance, its
\* directory and its containers, but for those a clean listed while the
\* project was still being opened (ServerCleanContainers asks
\* ProjectIsIdExist before it removes a container).
OpenProjectsWhole ==
    \A o \in Registered :
        \/ o \in clashed \/ BeingClosed(o)
        \/ /\ ovsInstances[id[o]] = o
           /\ o \in dirs
           /\ \A kind \in Kinds :
                 \/ <<o, kind>> \in conts
                 \/ \E k \in Cleans : <<o, kind>> \in clean[k].strays

\* When a clean ends, each container that belonged to no open project when it
\* made its list is gone, or its removal failed, or its project was opened in
\* the meantime (the loop and g.Wait of ServerCleanContainers).
CleanIsThorough ==
    [][\A k \in Cleans : CleanEnd(k) =>
          \A c \in clean[k].strays \cap conts :
              \/ c \in stuck
              \/ openProjects[id[c[1]]] = c[1]
              \/ c[1] \in clashed]_vars

\* When the daemon has exited, every project that was open when the signal
\* came is gone from the host (Server.Close), also if requests closed some of
\* them at the same time.
ExitIsClean ==
    shutdown.at = "exited" =>
        \A c \in conts : \/ c[1] \notin shutdown.open
                         \/ c \in stuck
                         \/ at[c[1]] = "lost"
                         \/ c[1] \in clashed

\* The daemon that got a signal exits: Server.Close ends, and GracefulStop
\* does not wait for ever.
ShutdownEnds ==
    shutdown.at = "closing" ~> (shutdown.at = "exited" \/ crashed)

=============================================================================
