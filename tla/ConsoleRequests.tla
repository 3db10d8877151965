-------------------------- MODULE ConsoleRequests --------------------------
(***************************************************************************)
(* The long requests of consoles on one project: run, reload, save and     *)
(* close (server.go, project.go, archive.go, console/prompt.go,            *)
(* console/progress.go).  Each has a handler, which does the work with one *)
(* goroutine per node, a goroutine that forwards the progress of the       *)
(* handler to the stream, and a console that shows bars and waits for the  *)
(* end.  The channel between handler and goroutine is unbuffered, but for  *)
(* run.  The handlers share the topology and the directory of the project. *)
(*                                                                         *)
(* What the nodes do is in DockerNode, what runs and closes leave behind   *)
(* in Topology, what an edited file does to Load in TopologyFile and       *)
(* NodeIds: here the file of the topology is one that Load can read, with  *)
(* a link and a bridge when it has nodes; a node is loaded or not, and its *)
(* configuration file in the directory is the old one, the new one, or cut.*)
(***************************************************************************)
EXTENDS Naturals, Sequences

CONSTANTS
    Consoles,   \* the consoles, each with one request
    Nodes,      \* the nodes a topology file may have
    Scenarios,  \* what the requests are, the nodes of the file, and
                \* whether the topology runs
    Mortal,     \* the consoles whose terminal may be closed
    Room        \* the capacity of the channel of a run (100 in the code)

Kinds == {"run", "reload", "save", "close"}

ASSUME ConsoleAssumption ==
    /\ Scenarios \subseteq [plan: [Consoles -> Kinds], file: SUBSET Nodes,
                           running: BOOLEAN]
    /\ Mortal \subseteq Consoles
    /\ Room \in Nat

VARIABLES
    daemon,     \* up, or panic
    open,       \* the project is registered
    dir,        \* its directory is there
    nodes,      \* t.nodes
    links,      \* t.links: none, nil pointers, links whose ends are all
                \* nodes, or broken ones whose ends are not
    bridges,    \* t.bridges, in the same way; with them, t.mgntNet
    ovs,        \* t.ovsInstance is there
    running,    \* t.running
    loaded,     \* the nodes that run with their configuration
    conf,       \* conf[n]: the configuration file of n
    plan,       \* what the requests are
    file,       \* the nodes of the topology file
    phase,      \* phase[c]: what the handler of c does
    pending,    \* pending[c]: the counts the handler still has to send
    task,       \* task[c][n]: the goroutine of the handler for node n
    failed,     \* failed[c]: one of them returned an error
    archive,    \* archive[c][n]: the file of n in the archive
    chan,       \* chan[c]: the buffer of the channel
    hold,       \* hold[c]: what the goroutine of progress holds
    end,        \* end[c]: the status that ends the stream
    con,        \* con[c]: what the console does
    bars,       \* bars[c]: the bars it has
    shut,       \* shut[c]: it waited for the end of its bars
    result,     \* result[c]: what it told its user
    disk,       \* disk[c]: the file of the project at the console
    met         \* history: the pairs of requests that overlapped

project == <<daemon, open, dir, nodes, links, bridges, ovs, running, loaded, conf,
             plan, file>>
handler == <<phase, pending, task, failed, archive, met>>
stream == <<chan, hold, end>>
console == <<con, bars, shut, result, disk>>
vars == <<project, handler, stream, console>>

Working == {"starting", "linking", "loading", "saving", "closing"}
Counts == {"nCount", "nZero", "lCount", "lZero"}
Codes == Counts \cup {"nStart", "lSetup", "nLoad", "saved", "closed"}
Contents == {"none", "old", "cut", "new"}

ProjectTypes ==
    /\ daemon \in {"up", "panic"}
    /\ open \in BOOLEAN /\ dir \in BOOLEAN
    /\ ovs \in BOOLEAN /\ running \in BOOLEAN
    /\ {links, bridges} \subseteq {"none", "nil", "whole", "broken"}
    /\ nodes \subseteq file /\ loaded \subseteq file
    /\ conf \in [Nodes -> Contents]
    /\ plan \in [Consoles -> Kinds] /\ file \subseteq Nodes

HandlerTypes ==
    /\ phase \in [Consoles -> Working \cup {"begin", "counted", "linked",
                     "reading", "creating", "filling", "bridging", "again",
                     "archive", "dropping", "removing",
                     "final", "return", "returned"}]
    /\ pending \in [Consoles -> Seq({"node", "link"})]
    /\ task \in [Consoles -> [Nodes -> {"todo", "mgnt", "cut", "say", "done"}]]
    /\ failed \in [Consoles -> BOOLEAN]
    /\ archive \in [Consoles -> [Nodes -> Contents \cup {"todo"}]]
    /\ met \subseteq SUBSET Consoles

StreamTypes ==
    /\ chan \in [Consoles -> Seq(Codes)]
    /\ \A c \in Consoles : Len(chan[c]) <= Room
    /\ hold \in [Consoles -> Codes \cup {"idle", "quit"}]
    /\ end \in [Consoles -> {"none", "EOF", "ERR"}]

ConsoleTypes ==
    /\ con \in [Consoles -> {"wait", "write", "prompt", "panic", "gone"}]
    /\ bars \in [Consoles -> SUBSET {"node", "link"}]
    /\ shut \in [Consoles -> BOOLEAN]
    /\ result \in [Consoles -> {"none", "ok", "error"}]
    /\ disk \in [Consoles -> {"before", "torn", "written"}]

TypeOK == ProjectTypes /\ HandlerTypes /\ StreamTypes /\ ConsoleTypes

(* The project was opened, and run or not.                                 *)
Init ==
    /\ \E s \in Scenarios :
          plan = s.plan /\ file = s.file /\ running = s.running
    /\ daemon = "up" /\ open = TRUE /\ dir = TRUE /\ ovs = TRUE
    /\ links = IF file = {} THEN "none" ELSE "whole"
    /\ bridges = links
    /\ nodes = file /\ loaded = IF running THEN file ELSE {}
    /\ conf = [n \in Nodes |-> IF n \in file THEN "old" ELSE "none"]
    /\ phase = [c \in Consoles |-> "begin"]
    /\ pending = [c \in Consoles |-> <<>>]
    /\ task = [c \in Consoles |-> [n \in Nodes |-> "done"]]
    /\ failed = [c \in Consoles |-> FALSE]
    /\ archive = [c \in Consoles |-> [n \in Nodes |-> "none"]]
    /\ chan = [c \in Consoles |-> <<>>]
    /\ hold = [c \in Consoles |-> "idle"]
    /\ end = [c \in Consoles |-> "none"]
    /\ con = [c \in Consoles |-> "wait"]
    /\ bars = [c \in Consoles |-> {}]
    /\ shut = [c \in Consoles |-> FALSE]
    /\ result = [c \in Consoles |-> "none"]
    /\ disk = [c \in Consoles |-> "before"]
    /\ met = {}

-----------------------------------------------------------------------------
(* The channel and the stream.                                             *)

Alive(c) == con[c] \notin {"panic", "gone"}

Cap(c) == IF plan[c] = "run" THEN Room ELSE 0

(* A send on the channel: into the buffer, or into the hands of the        *)
(* goroutine, which waits at its select.                                   *)
Put(c, code) ==
    /\ UNCHANGED end
    /\ IF Cap(c) > 0
       THEN /\ Len(chan[c]) < Room
            /\ chan' = [chan EXCEPT ![c] = Append(@, code)]
            /\ UNCHANGED hold
       ELSE /\ hold[c] = "idle"
            /\ hold' = [hold EXCEPT ![c] = code]
            /\ UNCHANGED chan

Take(c) ==
    /\ hold[c] = "idle" /\ chan[c] # <<>>
    /\ hold' = [hold EXCEPT ![c] = Head(chan[c])]
    /\ chan' = [chan EXCEPT ![c] = Tail(@)]
    /\ UNCHANGED <<project, handler, console, end>>

(* A bar is added when there is something to count; one added after the    *)
(* end of the bars was waited for is a panic of mpb.                       *)
ShowCount(c, code) ==
    IF code \in {"nZero", "lZero"}
    THEN UNCHANGED <<con, bars>>
    ELSE IF shut[c]
    THEN con' = [con EXCEPT ![c] = "panic"] /\ UNCHANGED bars
    ELSE /\ bars' = [bars EXCEPT ![c] = @ \cup
                        {IF code = "nCount" THEN "node" ELSE "link"}]
         /\ UNCHANGED con

(* A bar that was not added is a nil pointer.                              *)
Increment(c, code) ==
    /\ con' = IF (IF code = "lSetup" THEN "link" ELSE "node") \in bars[c]
              THEN con ELSE [con EXCEPT ![c] = "panic"]
    /\ UNCHANGED bars

(* The console of a reload counts nothing; the goroutine of a run or a     *)
(* reload does not forward that a node is closed.  A console that is gone  *)
(* sees nothing.                                                           *)
Show(c, code) ==
    IF ~Alive(c) \/ plan[c] = "reload"
    THEN UNCHANGED <<con, bars>>
    ELSE IF code \in Counts THEN ShowCount(c, code) ELSE Increment(c, code)

(* A mistaken variant: the goroutine ends when the console is gone.        *)
ForwardOrQuit(c) ==
    /\ hold[c] \notin {"idle", "quit"}
    /\ hold' = [hold EXCEPT ![c] = IF Alive(c) THEN "idle" ELSE "quit"]
    /\ Show(c, hold[c])
    /\ UNCHANGED <<project, handler, chan, end, shut, result, disk>>

(* The error of the send is ignored.                                       *)
Forward(c) ==
    /\ hold[c] \notin {"idle", "quit"}
    /\ hold' = [hold EXCEPT ![c] = "idle"]
    /\ Show(c, hold[c])
    /\ UNCHANGED <<project, handler, chan, end, shut, result, disk>>

-----------------------------------------------------------------------------
(* The handlers.                                                           *)

Enter(c, p) == phase' = [phase EXCEPT ![c] = p]

(* The goroutines of a phase: one for each node of the topology.           *)
Launch(c) ==
    task' = [task EXCEPT ![c] =
                [n \in Nodes |-> IF n \in nodes THEN "todo" ELSE "done"]]

(* A mistaken variant: a save does not tell how many nodes it saves.       *)
CountsForgotten(c) == IF plan[c] = "save" THEN <<>> ELSE <<"node", "link">>

CountsOf(c) == IF plan[c] = "save" THEN <<"node">> ELSE <<"node", "link">>

(* The context of the goroutine of progress is cancelled: what it holds,   *)
(* and what is still in the buffer, is lost.                               *)
Return(c, status) ==
    /\ Enter(c, "returned")
    /\ end' = [end EXCEPT ![c] = status]
    /\ chan' = [chan EXCEPT ![c] = <<>>]
    /\ hold' = [hold EXCEPT ![c] = "quit"]

UnderWay == {c \in Consoles : phase[c] \notin {"begin", "returned"}}

(* The project is looked up; save creates the directory of configurations  *)
(* first, which fails when that of the project is gone.                    *)
Begin(c) ==
    /\ phase[c] = "begin"
    /\ IF ~open \/ (plan[c] = "save" /\ ~dir)
       THEN Return(c, "ERR") /\ UNCHANGED <<pending, met>>
       ELSE /\ Enter(c, "counted")
            /\ pending' = [pending EXCEPT ![c] = CountsOf(c)]
            /\ met' = met \cup {{c, d} : d \in UnderWay}
            /\ UNCHANGED stream
    /\ UNCHANGED <<project, console, task, failed, archive>>

SendCount(c) ==
    /\ pending[c] # <<>>
    /\ Put(c, IF Head(pending[c]) = "node"
              THEN IF nodes = {} THEN "nZero" ELSE "nCount"
              ELSE IF (IF plan[c] = "close" THEN bridges ELSE links) = "none"
              THEN "lZero" ELSE "lCount")
    /\ pending' = [pending EXCEPT ![c] = Tail(@)]
    /\ UNCHANGED <<project, console, phase, task, failed, archive, met>>

(* A run of a topology that runs has nothing to do; one of a topology that *)
(* was closed calls a method of a nil instance, and the daemon panics.  A  *)
(* reload closes, then runs if the topology was running.                   *)
Counted(c) ==
    /\ phase[c] \in {"counted", "again"} /\ pending[c] = <<>>
    /\ LET runs == plan[c] = "run" \/ phase[c] = "again"
       IN  \/ /\ runs /\ running
              /\ Enter(c, "final") /\ UNCHANGED <<daemon, task>>
           \/ /\ runs /\ ~running /\ ~ovs
              /\ daemon' = "panic" /\ UNCHANGED <<phase, task>>
           \/ /\ runs /\ ~running /\ ovs
              /\ Enter(c, "starting") /\ Launch(c) /\ UNCHANGED daemon
           \/ /\ ~runs
              /\ Enter(c, IF plan[c] = "save" THEN "saving" ELSE "closing")
              /\ Launch(c) /\ UNCHANGED daemon
    /\ UNCHANGED <<open, dir, nodes, links, bridges, ovs, running, loaded, conf, plan, file,
                   console,
                   stream, pending, failed, archive, met>>

(* The goroutine of a node has done its work, or failed.                   *)
Becomes(c, n, t, error) ==
    /\ task' = [task EXCEPT ![c][n] = t]
    /\ failed' = [failed EXCEPT ![c] = @ \/ error]

StartNode(c, n) ==
    /\ phase[c] = "starting" /\ task[c][n] = "todo"
    /\ \/ \E error \in BOOLEAN : Becomes(c, n, "say", error)
       \/ bridges \in {"whole", "broken"} /\ Becomes(c, n, "mgnt", FALSE)
    /\ UNCHANGED <<project, console, stream, phase, pending, archive, met>>

(* The link to the management network, if there was one when it was looked *)
(* for: a nil pointer if the topology was closed since.                    *)
AttachMgnt(c, n) ==
    /\ task[c][n] = "mgnt"
    /\ IF bridges \in {"whole", "broken"}
       THEN /\ \E error \in BOOLEAN : Becomes(c, n, "say", error)
            /\ UNCHANGED daemon
       ELSE daemon' = "panic" /\ UNCHANGED <<task, failed>>
    /\ UNCHANGED <<open, dir, nodes, links, bridges, ovs, running, loaded, conf,
                   plan, file, console,
                   stream, phase, pending, archive, met>>

(* A node that does not run is left alone.  When its interfaces cannot be  *)
(* configured the goroutine ends without a word.                           *)
LoadNode(c, n) ==
    /\ phase[c] = "loading" /\ task[c][n] = "todo"
    /\ \/ loaded' = loaded \cup {n} /\ Becomes(c, n, "say", FALSE)
       \/ /\ \/ \E error \in BOOLEAN : Becomes(c, n, "say", error)
             \/ Becomes(c, n, "done", TRUE)
          /\ UNCHANGED loaded
    /\ UNCHANGED <<daemon, open, dir, nodes, links, bridges, ovs, running, conf, plan, file,
                   console,
                   stream, phase, pending, archive, met>>

CloseNode(c, n) ==
    /\ phase[c] = "closing" /\ task[c][n] = "todo"
    /\ loaded' = loaded \ {n}
    /\ Becomes(c, n, "say", FALSE)
    /\ UNCHANGED <<daemon, open, dir, nodes, links, bridges, ovs, running, conf, plan, file,
                   console,
                   stream, phase, pending, archive, met>>

(* The file is emptied, then written.                                      *)
SaveNode(c, n) ==
    /\ phase[c] = "saving" /\ task[c][n] = "todo"
    /\ \/ n \notin loaded /\ Becomes(c, n, "say", FALSE) /\ UNCHANGED conf
       \/ n \in loaded /\ Becomes(c, n, "say", TRUE) /\ UNCHANGED conf
       \/ /\ n \in loaded /\ dir
          /\ conf' = [conf EXCEPT ![n] = "cut"]
          /\ Becomes(c, n, "cut", FALSE)
    /\ UNCHANGED <<daemon, open, dir, nodes, links, bridges, ovs, running, loaded, plan,
                   file, console,
                   stream, phase, pending, archive, met>>

WriteNode(c, n) ==
    /\ task[c][n] = "cut"
    /\ \/ conf' = [conf EXCEPT ![n] = IF dir THEN "new" ELSE @]
          /\ Becomes(c, n, "say", FALSE)
       \/ Becomes(c, n, "say", TRUE) /\ UNCHANGED conf
    /\ UNCHANGED <<daemon, open, dir, nodes, links, bridges, ovs, running, loaded, plan,
                   file, console,
                   stream, phase, pending, archive, met>>

Said == [starting |-> "nStart", loading |-> "nLoad", saving |-> "saved",
         closing |-> "closed"]

SayNode(c, n) ==
    /\ task[c][n] = "say"
    /\ Put(c, Said[phase[c]])
    /\ task' = [task EXCEPT ![c][n] = "done"]
    /\ UNCHANGED <<project, console, phase, pending, failed, archive, met>>

Waited(c) == \A n \in Nodes : task[c][n] = "done"

(* g.Wait of the first phase of a run; then one link is set up.            *)
Started(c) ==
    /\ phase[c] = "starting" /\ Waited(c)
    /\ IF failed[c] THEN Return(c, "ERR")
       ELSE Enter(c, IF links = "none" THEN "linked" ELSE "linking") /\ UNCHANGED stream
    /\ UNCHANGED <<project, console, pending, task, failed, archive, met>>

(* A link, or an end of it, that is a nil pointer is a panic.  One that is  *)
(* no longer there was read before the topology was closed.                *)
SetupLink(c) ==
    /\ phase[c] = "linking"
    /\ \/ /\ links \in {"nil", "broken"} /\ daemon' = "panic"
          /\ UNCHANGED <<phase, stream>>
       \/ /\ links \in {"none", "whole"}
          /\ \/ Put(c, "lSetup") /\ Enter(c, "linked")
             \/ Return(c, "ERR")
          /\ UNCHANGED daemon
    /\ UNCHANGED <<open, dir, nodes, links, bridges, ovs, running, loaded, conf,
                   plan, file, console,
                   pending, task, failed, archive, met>>

(* The bridges are set up, in the same way, then the nodes are configured.  *)
BeginLoads(c) ==
    /\ phase[c] = "linked"
    /\ \/ /\ bridges \in {"nil", "broken"} /\ daemon' = "panic"
          /\ UNCHANGED <<phase, task, stream>>
       \/ /\ bridges \in {"none", "whole"} /\ UNCHANGED <<daemon, stream>>
          /\ Enter(c, "loading") /\ Launch(c)
       \/ /\ bridges = "whole" /\ UNCHANGED <<daemon, task>>
          /\ Return(c, "ERR")
    /\ UNCHANGED <<open, dir, nodes, links, bridges, ovs, running, loaded, conf,
                   plan, file, console,
                   pending, failed, archive, met>>

Loaded(c) ==
    /\ phase[c] = "loading" /\ Waited(c)
    /\ IF failed[c]
       THEN Return(c, "ERR") /\ UNCHANGED running
       ELSE Enter(c, "final") /\ running' = TRUE /\ UNCHANGED stream
    /\ UNCHANGED <<daemon, open, dir, nodes, links, bridges, ovs, loaded, conf, plan, file,
                   console,
                   pending, task, failed, archive, met>>

Unread == [n \in Nodes |-> IF n \in file THEN "todo" ELSE "none"]

(* A mistaken variant: the archive is made without waiting for the nodes.  *)
SavedEarly(c) ==
    /\ phase[c] = "saving"
    /\ Enter(c, "archive") /\ UNCHANGED stream
    /\ archive' = [archive EXCEPT ![c] = Unread]
    /\ UNCHANGED <<project, console, pending, task, failed, met>>

Saved(c) ==
    /\ phase[c] = "saving" /\ Waited(c)
    /\ IF failed[c]
       THEN Return(c, "ERR") /\ UNCHANGED archive
       ELSE /\ Enter(c, "archive") /\ UNCHANGED stream
            /\ archive' = [archive EXCEPT ![c] = Unread]
    /\ UNCHANGED <<project, console, pending, task, failed, met>>

(* CreateArchive walks the directory.  Its callback ignores the error it   *)
(* is given: a name that has vanished has no FileInfo, and the daemon      *)
(* panics; a directory that has vanished is skipped.  A file that changes  *)
(* its size is an error, or not.                                           *)
ArchiveFile(c, n) ==
    /\ phase[c] = "archive" /\ archive[c][n] = "todo"
    /\ \/ /\ dir
          /\ archive' = [archive EXCEPT ![c][n] = conf[n]]
          /\ UNCHANGED <<daemon, phase, stream>>
       \/ /\ ~dir \/ conf[n] = "cut"
          /\ Return(c, "ERR")
          /\ UNCHANGED <<daemon, archive>>
       \/ /\ ~dir
          /\ archive' = [archive EXCEPT ![c] =
                            [m \in Nodes |-> IF @[m] = "todo" THEN "none" ELSE @[m]]]
          /\ UNCHANGED <<daemon, phase, stream>>
       \/ /\ ~dir
          /\ daemon' = "panic"
          /\ UNCHANGED <<archive, phase, stream>>
    /\ UNCHANGED <<open, dir, nodes, links, bridges, ovs, running, loaded, conf, plan, file,
                   console,
                   pending, task, failed, met>>

Archived(c) ==
    /\ phase[c] = "archive" /\ \A n \in Nodes : archive[c][n] # "todo"
    /\ Enter(c, "final")
    /\ UNCHANGED <<project, console, stream, pending, task, failed, archive,
                   met>>

(* The bridges are deleted: one that is nil, or whose ends are, is a panic. *)
(* Then all is forgotten.  A reload goes on with the topology file.        *)
Closed(c) ==
    /\ phase[c] = "closing" /\ Waited(c)
    /\ IF bridges \in {"nil", "broken"}
       THEN daemon' = "panic" /\ UNCHANGED <<nodes, links, bridges, ovs, phase>>
       ELSE /\ nodes' = {} /\ links' = "none" /\ bridges' = "none" /\ ovs' = FALSE
            /\ Enter(c, IF plan[c] = "close" THEN "dropping" ELSE "reading")
            /\ UNCHANGED daemon
    /\ UNCHANGED <<open, dir, running, loaded, conf, plan, file, console,
                   stream, pending, task, failed, archive, met>>

(* Load: the file is refused, or the ovs instance cannot be created, or    *)
(* the list of nodes begins anew.                                          *)
ReadFile(c) ==
    /\ phase[c] = "reading"
    /\ \/ Return(c, "ERR") /\ ovs' \in {ovs, FALSE} /\ UNCHANGED nodes
       \/ /\ dir /\ ovs' = TRUE /\ nodes' = {}
          /\ Enter(c, "creating") /\ UNCHANGED stream
    /\ UNCHANGED <<daemon, open, dir, links, bridges, running, loaded, conf, plan,
                   file, console,
                   pending, task, failed, archive, met>>

(* Lists of links and bridges are made of nil pointers, then filled.       *)
Published == IF file = {} THEN "none" ELSE "nil"
Filled == IF file = {} THEN "none" ELSE IF nodes = file THEN "whole" ELSE "broken"

(* Another handler that fills its list at the same time may leave a hole    *)
(* in the one that was published last.                                     *)
AfterFill(c, p) ==
    {Filled} \cup {Published : d \in {d \in Consoles \ {c} : phase[d] = p}}

(* All the nodes are created, or not; then the links are to be filled in.  *)
CreateNodes(c) ==
    /\ phase[c] = "creating"
    /\ \/ /\ \E some \in SUBSET file : some # file /\ nodes' = nodes \cup some
          /\ Return(c, "ERR") /\ UNCHANGED links
       \/ /\ nodes' = file /\ links' = Published
          /\ Enter(c, "filling") /\ UNCHANGED stream
    /\ UNCHANGED <<daemon, open, dir, bridges, ovs, running, loaded, conf, plan,
                   file, console,
                   pending, task, failed, archive, met>>

(* A mistaken variant: the links are not looked up in the list of nodes    *)
(* that was just made.                                                     *)
FillNone(c) ==
    /\ phase[c] = "filling"
    /\ links' = (IF file = {} THEN "none" ELSE "broken")
    /\ bridges' = Published /\ Enter(c, "bridging") /\ UNCHANGED daemon
    /\ UNCHANGED <<open, dir, nodes, ovs, running, loaded, conf, plan, file,
                   console, stream, pending, task, failed, archive, met>>

(* There is no place for a link when the topology was closed meanwhile.    *)
FillLinks(c) ==
    /\ phase[c] = "filling"
    /\ IF links = "none" /\ file # {}
       THEN daemon' = "panic" /\ UNCHANGED <<links, bridges, phase>>
       ELSE /\ links' \in AfterFill(c, "filling") /\ bridges' = Published
            /\ Enter(c, "bridging") /\ UNCHANGED daemon
    /\ UNCHANGED <<open, dir, nodes, ovs, running, loaded, conf, plan, file,
                   console, stream, pending, task, failed, archive, met>>

(* The bridges, in the same way, unless no identifier is left for one: the  *)
(* pointers stay nil.  A topology that was running is run again.           *)
FillBridges(c) ==
    /\ phase[c] = "bridging"
    /\ \/ /\ file # {} /\ Return(c, "ERR")
          /\ UNCHANGED <<daemon, bridges, running, pending>>
       \/ /\ file # {} /\ bridges = "none" /\ daemon' = "panic"
          /\ UNCHANGED <<bridges, running, pending, phase, stream>>
       \/ /\ file = {} \/ bridges # "none"
          /\ bridges' \in AfterFill(c, "bridging")
          /\ running' = FALSE
          /\ IF running
             THEN /\ Enter(c, "again")
                  /\ pending' = [pending EXCEPT ![c] = <<"node", "link">>]
             ELSE Enter(c, "final") /\ UNCHANGED pending
          /\ UNCHANGED <<daemon, stream>>
    /\ UNCHANGED <<open, dir, nodes, links, ovs, loaded, conf, plan, file, console,
                   task, failed, archive, met>>

(* ProjectClose: out of the registry, then the directory is removed.       *)
Unregister(c) ==
    /\ phase[c] = "dropping"
    /\ open' = FALSE
    /\ Enter(c, "removing")
    /\ UNCHANGED <<daemon, dir, nodes, links, bridges, ovs, running, loaded, conf, plan,
                   file, console,
                   stream, pending, task, failed, archive, met>>

RemoveDir(c) ==
    /\ phase[c] = "removing"
    /\ dir' = FALSE
    /\ Enter(c, "return")
    /\ UNCHANGED <<daemon, open, nodes, links, bridges, ovs, running, loaded, conf, plan,
                   file, console,
                   stream, pending, task, failed, archive, met>>

(* The last message.  The console of a run completes its bars and waits    *)
(* for them; that of a save writes its file, which os.WriteFile empties    *)
(* first.  Then the handler returns and its context is cancelled.          *)
SendFinal(c) ==
    /\ phase[c] = "final"
    /\ Enter(c, "return")
    /\ shut' = [shut EXCEPT ![c] = plan[c] = "run" /\ Alive(c)]
    /\ IF plan[c] = "save" /\ Alive(c)
       THEN /\ con' = [con EXCEPT ![c] = "write"]
            /\ disk' = [disk EXCEPT ![c] = "torn"]
       ELSE UNCHANGED <<con, disk>>
    /\ UNCHANGED <<project, stream, bars, result, pending, task, failed,
                   archive,
                   met>>

Answer(c) ==
    /\ phase[c] = "return"
    /\ Return(c, "EOF")
    /\ UNCHANGED <<project, console, pending, task, failed, archive, met>>

-----------------------------------------------------------------------------
(* The consoles.                                                           *)

(* An error is told, and the console goes on.                              *)
WriteFile(c) ==
    /\ con[c] = "write"
    /\ con' = [con EXCEPT ![c] = "wait"]
    /\ \/ disk' = [disk EXCEPT ![c] = "written"] /\ UNCHANGED result
       \/ result' = [result EXCEPT ![c] = "error"] /\ UNCHANGED disk
    /\ UNCHANGED <<project, handler, stream, bars, shut>>

(* The end of the stream; the console that closes the project exits.       *)
RecvEnd(c) ==
    /\ con[c] = "wait"
    /\ end[c] # "none" \/ daemon = "panic"
    /\ result' = [result EXCEPT ![c] =
                     IF @ = "none" /\ end[c] = "EOF" THEN "ok" ELSE "error"]
    /\ con' = [con EXCEPT ![c] = IF plan[c] = "close" THEN "gone" ELSE "prompt"]
    /\ UNCHANGED <<project, handler, stream, bars, shut, disk>>

(* The terminal of a console is closed.                                    *)
Kill(c) ==
    /\ c \in Mortal /\ con[c] \in {"wait", "write"}
    /\ con' = [con EXCEPT ![c] = "gone"]
    /\ UNCHANGED <<project, handler, stream, bars, shut, result, disk>>

-----------------------------------------------------------------------------
Node(c, n) ==
    \/ StartNode(c, n) \/ AttachMgnt(c, n) \/ LoadNode(c, n) \/ CloseNode(c, n)
    \/ SaveNode(c, n) \/ WriteNode(c, n) \/ SayNode(c, n) \/ ArchiveFile(c, n)

Handle(c) ==
    \/ Begin(c) \/ SendCount(c) \/ Counted(c)
    \/ Started(c) \/ SetupLink(c) \/ BeginLoads(c) \/ Loaded(c)
    \/ Saved(c) \/ Archived(c)
    \/ Closed(c) \/ ReadFile(c) \/ CreateNodes(c) \/ FillLinks(c) \/ FillBridges(c)
    \/ Unregister(c) \/ RemoveDir(c)
    \/ SendFinal(c) \/ Answer(c)

Receive(c) == WriteFile(c) \/ RecvEnd(c)

Daemon(c) ==
    /\ daemon = "up"
    /\ \/ Handle(c) \/ Take(c) \/ Forward(c)
       \/ \E n \in Nodes : Node(c, n)

Progress == \E c \in Consoles : Daemon(c) \/ Receive(c)

Next == Progress \/ \E c \in Consoles : Kill(c)

(* Goroutines run, docker answers, and a console that lives reads: while   *)
(* one of them can go on, one does.  No loop of theirs is endless.         *)
Spec == Init /\ [][Next]_vars /\ WF_vars(Progress)

-----------------------------------------------------------------------------
(* Properties.                                                             *)

Overlap(c, kinds) ==
    \E d \in Consoles \ {c} : {c, d} \in met /\ plan[d] \in kinds

(* A save that no other request overlapped gives its console, if it tells  *)
(* no error, a whole file, and when its archive is complete it holds the   *)
(* configuration every node of the topology has.  One that overlapped      *)
(* another save may give files that are cut, as may one after a save that  *)
(* failed; one that overlapped a close, a reload or a run gives files that *)
(* are missing or old, without a word.                                     *)
ArchiveIsWhole ==
    [][\A c \in Consoles :
          /\ phase[c] = "archive" /\ phase'[c] = "final" =>
                \A n \in file :
                   /\ archive[c][n] = "cut" =>
                         \/ Overlap(c, {"save"})
                         \/ \E d \in Consoles : plan[d] = "save" /\ end[d] = "ERR"
                   /\ archive[c][n] = "none" => Overlap(c, {"close"})
                   /\ archive[c][n] = "old" /\ n \in nodes \cap loaded =>
                         Overlap(c, {"run", "reload", "close"})
          /\ plan[c] = "save" /\ result'[c] = "ok" => disk'[c] = "written"]_vars

(* The daemon panics only when                                             *)
(*   - a project is closed during a save (the archive);                    *)
(*   - a topology is run that was closed, with no instance of ovs;         *)
(*   - a run overlaps a close or a reload: it meets links, bridges or a    *)
(*     management network that are nil;                                    *)
(*   - a reload overlaps a close or another reload: in the same way, or    *)
(*     because its lists are taken away while it fills them, or because    *)
(*     they were left with ends that are nil;                              *)
(*   - a reload failed that had no identifier for a bridge: the next close *)
(*     or run meets a bridge that is nil.                                  *)
(* So requests that do not overlap kill the daemon only after one failed.  *)
(* A console panics only when its project is closed or reloaded by another *)
(* at the same time, or during a run: of the requests that have an         *)
(* unbuffered channel, none brings its counts too late.                    *)
PanicsExplained ==
    /\ daemon = "panic" =>
          \E c \in Consoles :
              \/ plan[c] = "save" /\ Overlap(c, {"close"})
              \/ plan[c] = "run" /\ ~ovs /\ ~running
              \/ plan[c] \in {"run", "reload"} /\ Overlap(c, {"close", "reload"})
              \/ plan[c] = "reload" /\ end[c] = "ERR" /\ bridges = "nil"
    /\ \A c \in Consoles :
          con[c] = "panic" =>
              \/ plan[c] = "run"
              \/ Overlap(c, {"close", "reload"})

(* Every request ends, also when its console is gone, and every console    *)
(* gets an answer: the handler is never left waiting on its channel.       *)
RequestsEnd ==
    \A c \in Consoles :
        <>((phase[c] = "returned" \/ daemon = "panic") /\ con[c] \notin {"wait", "write"})

=============================================================================
