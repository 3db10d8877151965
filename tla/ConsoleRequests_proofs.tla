----------------------- MODULE ConsoleRequests_proofs -----------------------
(* Proofs about ConsoleRequests, for any consoles, nodes and requests, and a *)
(* channel of any capacity.                                                  *)
EXTENDS ConsoleRequests, TLAPS

-----------------------------------------------------------------------------
(* The inductive invariant.                                                 *)

\* The phases in which a reload loads the topology.
Loads == {"reading", "creating", "filling", "bridging"}

\* The phases that belong to each kind of request.
PhasesOfPlans ==
    \A c \in Consoles :
        /\ phase[c] \in {"starting", "linking", "linked", "loading"} =>
              plan[c] \in {"run", "reload"}
        /\ phase[c] \in Loads \cup {"again"} => plan[c] = "reload"
        /\ phase[c] \in {"saving", "archive"} => plan[c] = "save"
        /\ phase[c] = "closing" => plan[c] \in {"reload", "close"}
        /\ phase[c] \in {"dropping", "removing"} => plan[c] = "close"

\* The phases in which there are goroutines, for nodes of the file, and those in
\* which counts are still to be sent; the stream ends when the handler returns.
Stages ==
    \A c \in Consoles :
        /\ \A n \in Nodes \ file : task[c][n] = "done"
        /\ phase[c] \notin {"starting", "loading", "saving", "closing"} => Waited(c)
        /\ \A n \in Nodes : task[c][n] = "cut" => phase[c] = "saving"
        /\ \A n \in Nodes : task[c][n] = "mgnt" => phase[c] = "starting"
        /\ pending[c] # <<>> => phase[c] \in {"counted", "again"}
        /\ pending[c] \in {<<>>, <<"node">>, <<"link">>, <<"node", "link">>}
        /\ end[c] # "none" => phase[c] = "returned"

\* What a request finds missing that it has made, or has looked for: the instance
\* of ovs, nodes, places for links and for bridges, the management network.
Robbed(c) ==
    \/ phase[c] \in {"creating", "filling", "bridging", "again"} /\ ~ovs
    \/ phase[c] \in {"filling", "bridging"} /\ nodes # file
    \/ phase[c] = "filling" /\ links = "none" /\ file # {}
    \/ phase[c] = "bridging" /\ bridges = "none" /\ file # {}
    \/ bridges \in {"none", "nil"} /\ \E n \in Nodes : task[c][n] = "mgnt"

\* Requests that are under way together have met.  A request is robbed only by
\* another one, and a save of its directory.
Together ==
    /\ \A c, d \in UnderWay : c # d => {c, d} \in met
    /\ \A c \in Consoles :
          /\ Robbed(c) => Overlap(c, {"close", "reload"})
          /\ plan[c] = "save" /\ c \in UnderWay /\ ~dir => Overlap(c, {"close"})

\* Pointers are nil while a reload fills them in, or because it had no identifier
\* for a bridge; links and bridges are broken when another request took their nodes.
NilsKnown ==
    /\ links = "nil" => \E d \in Consoles : phase[d] = "filling"
    /\ bridges = "nil" =>
          \E d \in Consoles : phase[d] = "bridging" \/ (plan[d] = "reload" /\ end[d] = "ERR")
    /\ "broken" \in {links, bridges} =>
          \E d \in Consoles : plan[d] = "reload" /\ Overlap(d, {"close", "reload"})

\* The bar of the nodes is there, or on its way.
Counting(c) == "node" \in bars[c] \/ hold[c] = "nCount"

\* A console that saves or closes, whose project nobody closes or reloads
\* meanwhile, is told the count of the nodes before it is told of one of them.
BarsCome ==
    \A c \in Consoles :
        plan[c] \in {"save", "close"} /\ Alive(c) /\ ~Overlap(c, {"close", "reload"}) =>
            /\ hold[c] \in {"saved", "closed"} => "node" \in bars[c]
            /\ ~Waited(c) => Counting(c)
            /\ phase[c] = "counted" /\ pending[c] \in {<<>>, <<"link">>} /\ nodes # {} =>
                  Counting(c)

\* Only a run has a buffer, and a console that waits for its bars; a save or a
\* close tells of nodes that are saved or closed only.
StreamsOfPlans ==
    \A c \in Consoles :
        plan[c] # "run" =>
            /\ chan[c] = <<>> /\ ~shut[c]
            /\ plan[c] # "reload" =>
                  hold[c] \in Counts \cup {"saved", "closed", "idle", "quit"}

\* A file that is cut is being written, or its save failed.
SaveFailed == \E d \in Consoles : plan[d] = "save" /\ end[d] = "ERR"

CutsKnown ==
    /\ \A n \in file : conf[n] # "none"
    /\ \A n \in Nodes : dir /\ conf[n] = "cut" =>
          \/ SaveFailed
          \/ \E d \in Consoles :
                \/ task[d][n] = "cut"
                \/ phase[d] = "saving" /\ failed[d]

\* What a save has seen of the nodes, and has read into its archive.
Fresh(c, n) == Overlap(c, {"run", "reload", "close"}) \/ n \notin nodes \cap loaded

ArchiveFollows ==
    \A c \in Consoles, n \in Nodes :
        /\ phase[c] = "saving" /\ ~failed[c] /\ task[c][n] # "todo" =>
              Fresh(c, n) \/ conf[n] # "old"
        /\ phase[c] = "archive" =>
              /\ Fresh(c, n) \/ (conf[n] # "old" /\ archive[c][n] # "old")
              /\ archive[c][n] = "cut" => Overlap(c, {"save"}) \/ SaveFailed
              /\ archive[c][n] = "none" /\ n \in file => Overlap(c, {"close"})

\* The console of a save that was answered has written its file, or told that
\* it could not.
AnswersFollow ==
    \A c \in Consoles :
        /\ result[c] = "ok" => end[c] = "EOF"
        /\ plan[c] = "save" =>
              /\ result[c] = "ok" => disk[c] = "written"
              /\ con[c] = "wait" /\ (phase[c] = "return" \/ end[c] = "EOF") =>
                    disk[c] = "written" \/ result[c] = "error"

IInv ==
    /\ TypeOK /\ PhasesOfPlans /\ Stages /\ Together /\ NilsKnown
    /\ StreamsOfPlans /\ BarsCome
    /\ CutsKnown /\ ArchiveFollows /\ AnswersFollow
    /\ PanicsExplained

-----------------------------------------------------------------------------
(* What every step does.                                                    *)

\* The steps of console c and its handler.
Acts(c) == (daemon = "up" /\ Daemon(c)) \/ Receive(c) \/ Kill(c)

Phases == Working \cup Loads \cup {"begin", "counted", "linked", "again", "archive",
                        "dropping", "removing", "final", "return", "returned"}

\* The shapes of a step: nothing changes, or one console and its handler move.
LEMMA Shapes ==
    ASSUME [Next]_vars
    PROVE  vars' = vars \/ \E c \in Consoles : Acts(c)
BY DEF Next, Progress, Daemon, Acts

\* The steps, one by one.
LEMMA Which ==
    ASSUME NEW c \in Consoles, Acts(c)
    PROVE  \/ Begin(c) \/ SendCount(c) \/ Counted(c) \/ Started(c) \/ SetupLink(c)
           \/ BeginLoads(c) \/ Loaded(c) \/ Saved(c) \/ Archived(c) \/ Closed(c)
           \/ ReadFile(c) \/ CreateNodes(c) \/ FillLinks(c) \/ FillBridges(c)
           \/ Unregister(c) \/ RemoveDir(c) \/ SendFinal(c) \/ Answer(c)
           \/ Take(c) \/ Forward(c) \/ WriteFile(c) \/ RecvEnd(c) \/ Kill(c)
           \/ \E n \in Nodes : \/ StartNode(c, n) \/ AttachMgnt(c, n) \/ LoadNode(c, n)
                               \/ CloseNode(c, n) \/ SaveNode(c, n) \/ WriteNode(c, n)
                               \/ SayNode(c, n) \/ ArchiveFile(c, n)
BY DEF Acts, Daemon, Handle, Node, Receive

\* A step leaves the other consoles and their handlers alone, and what was asked.
Alone(c) ==
    /\ plan' = plan /\ file' = file
    /\ \A d \in Consoles \ {c} :
          /\ phase'[d] = phase[d] /\ pending'[d] = pending[d] /\ task'[d] = task[d]
          /\ failed'[d] = failed[d] /\ archive'[d] = archive[d]
          /\ chan'[d] = chan[d] /\ hold'[d] = hold[d] /\ end'[d] = end[d]
          /\ con'[d] = con[d] /\ bars'[d] = bars[d] /\ shut'[d] = shut[d]
          /\ result'[d] = result[d] /\ disk'[d] = disk[d]

\* Every step of a console's request is of that console alone.
LEMMA StepOfOne ==
    ASSUME TypeOK, NEW c \in Consoles, Acts(c)
    PROVE  Alone(c)
<1> USE DEF TypeOK, ProjectTypes, HandlerTypes, StreamTypes, ConsoleTypes, Alone,
            project, handler, stream, console, Enter, Return, Put, Becomes, Launch,
            Show, ShowCount, Increment
<1>1. CASE Begin(c) \/ SendCount(c)
      BY <1>1 DEF Begin, SendCount
<1>2. CASE Counted(c)
      BY <1>2 DEF Counted
<1>3. CASE Started(c) \/ SetupLink(c) \/ BeginLoads(c) \/ Loaded(c)
      BY <1>3 DEF Started, SetupLink, BeginLoads, Loaded
<1>4. CASE Saved(c) \/ Archived(c) \/ Closed(c)
      BY <1>4 DEF Saved, Archived, Closed
<1>5. CASE Unregister(c) \/ RemoveDir(c)
      BY <1>5 DEF Unregister, RemoveDir
<1>15. CASE ReadFile(c)
  <2>1. CASE Return(c, "ERR") /\ ovs' \in {ovs, FALSE} /\ UNCHANGED nodes
        BY <1>15, <2>1 DEF ReadFile
  <2>2. CASE Enter(c, "creating") /\ UNCHANGED stream
        BY <1>15, <2>2 DEF ReadFile
  <2> QED BY <1>15, <2>1, <2>2 DEF ReadFile
<1>6. CASE SendFinal(c) \/ Answer(c)
      BY <1>6 DEF SendFinal, Answer
<1>7. CASE Take(c) \/ Forward(c)
      BY <1>7 DEF Take, Forward
<1>8. CASE WriteFile(c) \/ RecvEnd(c) \/ Kill(c)
      BY <1>8 DEF WriteFile, RecvEnd, Kill
<1>9. ASSUME NEW n \in Nodes, StartNode(c, n) \/ LoadNode(c, n) \/ CloseNode(c, n)
      PROVE  Alone(c)
      BY <1>9 DEF StartNode, LoadNode, CloseNode
<1>12. ASSUME NEW n \in Nodes, AttachMgnt(c, n)
       PROVE  Alone(c)
       BY <1>12 DEF AttachMgnt
<1>13. CASE CreateNodes(c) \/ FillLinks(c)
       BY <1>13 DEF CreateNodes, FillLinks
<1>14. CASE FillBridges(c)
       BY <1>14 DEF FillBridges
<1>10. ASSUME NEW n \in Nodes, SaveNode(c, n) \/ WriteNode(c, n)
      PROVE  Alone(c)
      BY <1>10 DEF SaveNode, WriteNode
<1>11. ASSUME NEW n \in Nodes, SayNode(c, n) \/ ArchiveFile(c, n)
      PROVE  Alone(c)
      BY <1>11 DEF SayNode, ArchiveFile
<1> QED BY <1>1, <1>2, <1>3, <1>4, <1>5, <1>6, <1>7, <1>8, <1>9, <1>10, <1>11, <1>12,
           <1>13, <1>14, <1>15, Which

\* Which steps change what.
Changing(c) ==
    /\ open' = open \/ open' = FALSE
    /\ dir' = dir \/ RemoveDir(c)
    /\ ovs' = ovs \/ Closed(c) \/ ReadFile(c)
    /\ nodes' = nodes \/ Closed(c) \/ ReadFile(c) \/ CreateNodes(c)
    /\ links' = links \/ Closed(c) \/ CreateNodes(c) \/ FillLinks(c)
    /\ bridges' = bridges \/ Closed(c) \/ FillLinks(c) \/ FillBridges(c)
    /\ running' = running \/ Loaded(c) \/ FillBridges(c)
    /\ \/ daemon' = daemon \/ Counted(c) \/ SetupLink(c) \/ BeginLoads(c) \/ Closed(c)
       \/ FillLinks(c) \/ FillBridges(c)
       \/ \E n \in Nodes : AttachMgnt(c, n) \/ ArchiveFile(c, n)
    /\ loaded' = loaded \/ \E n \in Nodes : LoadNode(c, n) \/ CloseNode(c, n)
    /\ conf' = conf \/ \E n \in Nodes : SaveNode(c, n) \/ WriteNode(c, n)
    /\ met' = met \/ Begin(c)
    /\ pending' = pending \/ Begin(c) \/ SendCount(c) \/ FillBridges(c)
    /\ \/ task' = task \/ Counted(c) \/ BeginLoads(c)
       \/ \E n \in Nodes : \/ StartNode(c, n) \/ AttachMgnt(c, n) \/ LoadNode(c, n)
                           \/ CloseNode(c, n) \/ SaveNode(c, n) \/ WriteNode(c, n)
                           \/ SayNode(c, n)
    /\ \/ failed' = failed
       \/ \E n \in Nodes : \/ StartNode(c, n) \/ AttachMgnt(c, n) \/ LoadNode(c, n)
                           \/ CloseNode(c, n) \/ SaveNode(c, n) \/ WriteNode(c, n)
    /\ archive' = archive \/ Saved(c) \/ \E n \in Nodes : ArchiveFile(c, n)
    /\ \/ chan' = chan /\ hold' = hold /\ end' = end
       \/ Take(c) \/ Forward(c) \/ SendCount(c) \/ SetupLink(c)
       \/ \E n \in Nodes : SayNode(c, n)
       \/ \E status \in {"EOF", "ERR"} : Return(c, status)
    /\ end' = end \/ \E status \in {"EOF", "ERR"} : Return(c, status)
    /\ bars' = bars \/ Forward(c)
    /\ shut' = shut \/ SendFinal(c)
    /\ con' = con \/ Forward(c) \/ SendFinal(c) \/ WriteFile(c) \/ RecvEnd(c) \/ Kill(c)
    /\ disk' = disk \/ SendFinal(c) \/ WriteFile(c)
    /\ result' = result \/ WriteFile(c) \/ RecvEnd(c)

\* These steps make all the changes to what the requests share.
LEMMA Changes ==
    ASSUME TypeOK, NEW c \in Consoles, Acts(c)
    PROVE  Changing(c)
<1> USE DEF TypeOK, HandlerTypes, project, handler, stream, console, Changing, Enter,
            Return, Put, Becomes
<1>1. CASE Begin(c) \/ SendCount(c)
      BY <1>1 DEF Begin, SendCount
<1>2. CASE Counted(c)
      BY <1>2 DEF Counted
<1>3. CASE Started(c) \/ SetupLink(c) \/ BeginLoads(c) \/ Loaded(c)
      BY <1>3 DEF Started, SetupLink, BeginLoads, Loaded
<1>4. CASE Saved(c) \/ Archived(c) \/ Closed(c)
      BY <1>4 DEF Saved, Archived, Closed
<1>5. CASE ReadFile(c) \/ Unregister(c) \/ RemoveDir(c)
      BY <1>5 DEF ReadFile, Unregister, RemoveDir
<1>6. CASE SendFinal(c) \/ Answer(c)
      BY <1>6 DEF SendFinal, Answer
<1>7. CASE Take(c) \/ Forward(c)
      BY <1>7 DEF Take, Forward
<1>8. CASE WriteFile(c) \/ RecvEnd(c) \/ Kill(c)
      BY <1>8 DEF WriteFile, RecvEnd, Kill
<1>9. ASSUME NEW n \in Nodes, StartNode(c, n) \/ LoadNode(c, n) \/ CloseNode(c, n)
      PROVE  Changing(c)
      BY <1>9 DEF StartNode, LoadNode, CloseNode
<1>12. ASSUME NEW n \in Nodes, AttachMgnt(c, n)
       PROVE  Changing(c)
       BY <1>12 DEF AttachMgnt
<1>13. CASE CreateNodes(c) \/ FillLinks(c)
       BY <1>13 DEF CreateNodes, FillLinks
<1>14. CASE FillBridges(c)
       BY <1>14 DEF FillBridges
<1>10. ASSUME NEW n \in Nodes, SaveNode(c, n) \/ WriteNode(c, n)
      PROVE  Changing(c)
      BY <1>10 DEF SaveNode, WriteNode
<1>11. ASSUME NEW n \in Nodes, SayNode(c, n) \/ ArchiveFile(c, n)
      PROVE  Changing(c)
      BY <1>11 DEF SayNode, ArchiveFile
<1> QED BY <1>1, <1>2, <1>3, <1>4, <1>5, <1>6, <1>7, <1>8, <1>9, <1>10, <1>11, <1>12,
           <1>13, <1>14, Which

\* The step that enters each phase, and leaves some.
Entering(c) ==
    /\ phase' = phase \/ phase' = [phase EXCEPT ![c] = phase'[c]]
    /\ phase'[c] \in Phases
    /\ phase[c] = "returned" => phase'[c] = "returned" /\ end' = end
    /\ phase'[c] # phase[c] =>
          /\ phase'[c] # "begin"
          /\ phase[c] = "begin" => Begin(c)
          /\ phase[c] = "saving" => Saved(c)
          /\ phase[c] = "archive" => Archived(c) \/ \E n \in Nodes : ArchiveFile(c, n)
          /\ phase'[c] = "counted" => Begin(c)
          /\ phase'[c] \in {"starting", "saving", "closing"} => Counted(c)
          /\ phase'[c] = "linking" => Started(c)
          /\ phase'[c] = "linked" => Started(c) \/ SetupLink(c)
          /\ phase'[c] = "loading" => BeginLoads(c)
          /\ phase'[c] = "archive" => Saved(c)
          /\ phase'[c] \in {"dropping", "reading"} => Closed(c)
          /\ phase'[c] = "removing" => Unregister(c)
          /\ phase'[c] = "creating" => ReadFile(c)
          /\ phase'[c] = "filling" => CreateNodes(c)
          /\ phase'[c] = "bridging" => FillLinks(c)
          /\ phase[c] = "filling" => FillLinks(c)
          /\ phase[c] = "bridging" => FillBridges(c)
          /\ phase'[c] = "again" => FillBridges(c)
          /\ phase'[c] = "final" => Counted(c) \/ Loaded(c) \/ Archived(c) \/ FillBridges(c)
          /\ phase'[c] = "return" => RemoveDir(c) \/ SendFinal(c)
          /\ phase'[c] = "returned" =>
                \/ Begin(c) \/ Started(c) \/ SetupLink(c) \/ BeginLoads(c) \/ Loaded(c)
                \/ Saved(c) \/ ReadFile(c) \/ CreateNodes(c) \/ FillBridges(c) \/ Answer(c)
                \/ \E n \in Nodes : ArchiveFile(c, n)

\* Every step enters a phase from the one before it.
LEMMA Enters ==
    ASSUME TypeOK, NEW c \in Consoles, Acts(c)
    PROVE  Entering(c)
<1> USE DEF TypeOK, HandlerTypes, handler, stream, Entering, Enter, Return, Put, Phases,
            Working, Loads, Becomes
<1>1. CASE Begin(c) \/ SendCount(c)
      BY <1>1 DEF Begin, SendCount
<1>2. CASE Counted(c)
      BY <1>2 DEF Counted
<1>3. CASE Started(c) \/ SetupLink(c) \/ BeginLoads(c) \/ Loaded(c)
      BY <1>3 DEF Started, SetupLink, BeginLoads, Loaded
<1>4. CASE Saved(c) \/ Archived(c) \/ Closed(c)
      BY <1>4 DEF Saved, Archived, Closed
<1>5. CASE ReadFile(c) \/ Unregister(c) \/ RemoveDir(c)
      BY <1>5 DEF ReadFile, Unregister, RemoveDir
<1>6. CASE SendFinal(c) \/ Answer(c)
      BY <1>6 DEF SendFinal, Answer
<1>7. CASE Take(c) \/ Forward(c)
      BY <1>7 DEF Take, Forward
<1>8. CASE WriteFile(c) \/ RecvEnd(c) \/ Kill(c)
      BY <1>8 DEF WriteFile, RecvEnd, Kill
<1>9. ASSUME NEW n \in Nodes, StartNode(c, n) \/ LoadNode(c, n) \/ CloseNode(c, n)
      PROVE  Entering(c)
      BY <1>9 DEF StartNode, LoadNode, CloseNode
<1>12. ASSUME NEW n \in Nodes, AttachMgnt(c, n)
       PROVE  Entering(c)
       BY <1>12 DEF AttachMgnt
<1>13. CASE CreateNodes(c) \/ FillLinks(c)
       BY <1>13 DEF CreateNodes, FillLinks
<1>14. CASE FillBridges(c)
       BY <1>14 DEF FillBridges
<1>10. ASSUME NEW n \in Nodes, SaveNode(c, n) \/ WriteNode(c, n)
      PROVE  Entering(c)
      BY <1>10 DEF SaveNode, WriteNode
<1>11. ASSUME NEW n \in Nodes, SayNode(c, n) \/ ArchiveFile(c, n)
      PROVE  Entering(c)
      BY <1>11 DEF SayNode, ArchiveFile
<1> QED BY <1>1, <1>2, <1>3, <1>4, <1>5, <1>6, <1>7, <1>8, <1>9, <1>10, <1>11, <1>12,
           <1>13, <1>14, Which

\* The counts a handler may still have to send.
LEMMA Queues ==
    /\ {<<>>, <<"node">>, <<"link">>, <<"node", "link">>} \subseteq Seq({"node", "link"})
    /\ Head(<<"node">>) = "node" /\ Tail(<<"node">>) = <<>>
    /\ Head(<<"link">>) = "link" /\ Tail(<<"link">>) = <<>>
    /\ Head(<<"node", "link">>) = "node" /\ Tail(<<"node", "link">>) = <<"link">>
OBVIOUS

\* The requests that are under way, as sets of consoles, and which step lets one
\* be under way.
LEMMA WayOn ==
    ASSUME TypeOK, NEW c \in Consoles, Acts(c)
    PROVE  /\ \A d \in UnderWay' : d \in UnderWay \/ (d = c /\ Begin(c))
           /\ met \subseteq met'
           /\ Begin(c) => met' = met \/ met' = met \cup {{c, d} : d \in UnderWay}
<1>1. Alone(c) /\ Entering(c) /\ Changing(c)
      BY StepOfOne, Enters, Changes
<1>2. Begin(c) => met' = met \/ met' = met \cup {{c, d} : d \in UnderWay}
      BY DEF Begin
<1>3. \A d \in UnderWay' : d \in UnderWay \/ (d = c /\ Begin(c))
  <2> TAKE d \in UnderWay'
  <2>1. CASE d # c
        BY <1>1, <2>1 DEF UnderWay, Alone
  <2>2. CASE d = c
        BY <1>1, <2>2 DEF UnderWay, Entering
  <2> QED BY <2>1, <2>2
<1> QED BY <1>1, <1>2, <1>3 DEF Changing

\* Overlaps, and what the requests were, are never taken back.
LEMMA Lasting ==
    ASSUME TypeOK, [Next]_vars
    PROVE  /\ plan' = plan /\ file' = file /\ met \subseteq met'
           /\ \A c \in Consoles, k \in SUBSET Kinds : Overlap(c, k) => Overlap(c, k)'
<1>1. plan' = plan /\ file' = file /\ met \subseteq met'
  <2>1. ASSUME NEW c \in Consoles, Acts(c)
        PROVE  plan' = plan /\ file' = file /\ met \subseteq met'
        BY <2>1, StepOfOne, WayOn DEF Alone
  <2>2. CASE vars' = vars
        BY <2>2 DEF vars, project, handler
  <2> QED BY <2>1, <2>2, Shapes
<1> QED BY <1>1 DEF Overlap

-----------------------------------------------------------------------------
(* The types.                                                               *)

\* The initial states have the types.
LEMMA InitTypes == Init => TypeOK
<1> SUFFICES ASSUME Init PROVE TypeOK
    OBVIOUS
<1>1. PICK s \in Scenarios : plan = s.plan /\ file = s.file /\ running = s.running
      BY DEF Init
<1>2. s \in [plan: [Consoles -> Kinds], file: SUBSET Nodes, running: BOOLEAN]
      BY ConsoleAssumption
<1>3. plan \in [Consoles -> Kinds] /\ file \subseteq Nodes /\ running \in BOOLEAN
      BY <1>1, <1>2
<1>4. ProjectTypes
      BY <1>3 DEF Init, ProjectTypes, Contents
<1>5. HandlerTypes
      BY DEF Init, HandlerTypes, Contents
<1>6. StreamTypes
      BY ConsoleAssumption DEF Init, StreamTypes
<1>7. ConsoleTypes
      BY DEF Init, ConsoleTypes
<1> QED BY <1>4, <1>5, <1>6, <1>7 DEF TypeOK

\* Every step keeps them.
LEMMA TypesStay ==
    ASSUME TypeOK, Stages, [Next]_vars
    PROVE  TypeOK'
<1> USE DEF TypeOK
<1>1. CASE vars' = vars
  <2>1. ProjectTypes' /\ HandlerTypes'
        BY <1>1 DEF vars, project, handler, ProjectTypes, HandlerTypes
  <2>2. StreamTypes' /\ ConsoleTypes'
        BY <1>1 DEF vars, stream, console, StreamTypes, ConsoleTypes
  <2> QED BY <2>1, <2>2
<1>2. ASSUME NEW c \in Consoles, Acts(c) PROVE TypeOK'
  <2>1. Alone(c) /\ Entering(c) /\ Changing(c)
        BY <1>2, StepOfOne, Enters, Changes
  <2>2. ProjectTypes'
    <3> USE DEF ProjectTypes
    <3>1. daemon' \in {"up", "panic"}
      <4>1. ASSUME NEW n \in Nodes, AttachMgnt(c, n) \/ ArchiveFile(c, n)
            PROVE  daemon' \in {"up", "panic"}
            BY <4>1 DEF AttachMgnt, ArchiveFile
      <4>2. CASE Counted(c) \/ SetupLink(c) \/ BeginLoads(c) \/ Closed(c)
            BY <4>2 DEF Counted, SetupLink, BeginLoads, Closed
      <4>3. CASE FillLinks(c) \/ FillBridges(c)
            BY <4>3 DEF FillLinks, FillBridges
      <4> QED BY <2>1, <4>1, <4>2, <4>3 DEF Changing
    <3>2. open' \in BOOLEAN /\ dir' \in BOOLEAN
          BY <2>1 DEF Changing, RemoveDir
    <3>3. ovs' \in BOOLEAN /\ running' \in BOOLEAN
          BY <2>1 DEF Changing, Closed, ReadFile, Loaded, FillBridges
    <3>4. nodes' \subseteq file'
          BY <2>1 DEF Changing, Closed, ReadFile, CreateNodes, Alone
    <3>8. {links', bridges'} \subseteq {"none", "nil", "whole", "broken"}
      <4>1. /\ Published \in {"none", "nil"} /\ Filled \in {"none", "whole", "broken"}
            /\ \A p : AfterFill(c, p) \subseteq {Published, Filled}
            BY DEF Published, Filled, AfterFill
      <4> QED BY <2>1, <4>1 DEF Changing, Closed, CreateNodes, FillLinks, FillBridges
    <3>5. loaded' \subseteq file'
      <4>1. ASSUME NEW n \in Nodes, LoadNode(c, n) PROVE loaded' \subseteq file
        <5>1. n \in file
              BY <4>1 DEF LoadNode, Stages
        <5> QED BY <4>1, <5>1 DEF LoadNode
      <4>2. ASSUME NEW n \in Nodes, CloseNode(c, n) PROVE loaded' \subseteq file
            BY <4>2 DEF CloseNode
      <4>3. file' = file
            BY <2>1 DEF Alone
      <4> QED BY <2>1, <4>1, <4>2, <4>3 DEF Changing
    <3>6. conf' \in [Nodes -> Contents]
          BY <2>1 DEF Changing, SaveNode, WriteNode, Contents
    <3>7. plan' \in [Consoles -> Kinds] /\ file' \subseteq Nodes
          BY <2>1 DEF Alone
    <3> QED BY <3>1, <3>2, <3>3, <3>4, <3>5, <3>6, <3>7, <3>8
  <2>3. HandlerTypes'
    <3> USE DEF HandlerTypes
    <3>1. phase' \in [Consoles -> Phases]
      <4>1. phase \in [Consoles -> Phases]
            BY DEF Phases, Loads
      <4>2. phase'[c] \in Phases
            BY <2>1 DEF Entering
      <4> QED BY <2>1, <4>1, <4>2 DEF Entering
    <3>2. pending' \in [Consoles -> Seq({"node", "link"})]
      <4>1. CASE Begin(c)
        <5>1. CountsOf(c) \in Seq({"node", "link"})
              BY Queues DEF CountsOf
        <5>2. CASE pending' = pending
              BY <5>2
        <5>3. CASE pending' = [pending EXCEPT ![c] = CountsOf(c)]
              BY <5>1, <5>3
        <5> QED BY <4>1, <5>2, <5>3 DEF Begin
      <4>2. CASE SendCount(c)
        <5>1. Tail(pending[c]) \in Seq({"node", "link"})
              BY <4>2 DEF SendCount
        <5> QED BY <4>2, <5>1 DEF SendCount
      <4>3. CASE FillBridges(c)
            BY <4>3, Queues DEF FillBridges
      <4> QED BY <2>1, <4>1, <4>2, <4>3 DEF Changing
    <3>3. task' \in [Consoles -> [Nodes -> {"todo", "mgnt", "cut", "say", "done"}]]
      <4>1. CASE Launch(c)
        <5>1. [n \in Nodes |-> IF n \in nodes THEN "todo" ELSE "done"]
                 \in [Nodes -> {"todo", "mgnt", "cut", "say", "done"}]
              OBVIOUS
        <5> QED BY <4>1, <5>1 DEF Launch
      <4>2. ASSUME NEW n \in Nodes, NEW t \in {"mgnt", "cut", "say", "done"},
                   task' = [task EXCEPT ![c][n] = t]
            PROVE  task' \in [Consoles -> [Nodes -> {"todo", "mgnt", "cut", "say", "done"}]]
        <5>1. [task[c] EXCEPT ![n] = t] \in [Nodes -> {"todo", "mgnt", "cut", "say", "done"}]
              OBVIOUS
        <5> QED BY <4>2, <5>1
      <4>3. CASE Counted(c)
            BY <4>1, <4>3 DEF Counted
      <4>4. CASE BeginLoads(c)
            BY <4>1, <4>4 DEF BeginLoads
      <4>5. ASSUME NEW n \in Nodes,
                   StartNode(c, n) \/ LoadNode(c, n) \/ CloseNode(c, n)
            PROVE  task' \in [Consoles -> [Nodes -> {"todo", "mgnt", "cut", "say", "done"}]]
            BY <4>2, <4>5 DEF StartNode, LoadNode, CloseNode, Becomes
      <4>7. ASSUME NEW n \in Nodes, AttachMgnt(c, n)
            PROVE  task' \in [Consoles -> [Nodes -> {"todo", "mgnt", "cut", "say", "done"}]]
            BY <4>2, <4>7 DEF AttachMgnt, Becomes
      <4>6. ASSUME NEW n \in Nodes, SaveNode(c, n) \/ WriteNode(c, n) \/ SayNode(c, n)
            PROVE  task' \in [Consoles -> [Nodes -> {"todo", "mgnt", "cut", "say", "done"}]]
            BY <4>2, <4>6 DEF SaveNode, WriteNode, SayNode, Becomes
      <4> QED BY <2>1, <4>3, <4>4, <4>5, <4>6, <4>7 DEF Changing
    <3>4. failed' \in [Consoles -> BOOLEAN]
          BY <2>1 DEF Changing, StartNode, AttachMgnt, LoadNode, CloseNode, SaveNode, WriteNode,
             Becomes
    <3>5. archive' \in [Consoles -> [Nodes -> Contents \cup {"todo"}]]
      <4>1. CASE Saved(c)
        <5>1. Unread \in [Nodes -> Contents \cup {"todo"}]
              BY DEF Unread, Contents
        <5>2. CASE archive' = archive
              BY <5>2
        <5>3. CASE archive' = [archive EXCEPT ![c] = Unread]
              BY <5>1, <5>3
        <5> QED BY <4>1, <5>2, <5>3 DEF Saved
      <4>2. ASSUME NEW n \in Nodes, ArchiveFile(c, n)
            PROVE  archive' \in [Consoles -> [Nodes -> Contents \cup {"todo"}]]
        <5>1. conf[n] \in Contents /\ "none" \in Contents
              BY DEF ProjectTypes, Contents
        <5>2. /\ [archive[c] EXCEPT ![n] = conf[n]] \in [Nodes -> Contents \cup {"todo"}]
              /\ [m \in Nodes |-> IF archive[c][m] = "todo" THEN "none" ELSE archive[c][m]]
                    \in [Nodes -> Contents \cup {"todo"}]
              BY <5>1
        <5> QED BY <4>2, <5>2 DEF ArchiveFile
      <4> QED BY <2>1, <4>1, <4>2 DEF Changing
    <3>6. met' \subseteq SUBSET Consoles
      <4>1. \A d \in UnderWay : {c, d} \in SUBSET Consoles
        <5>1. UnderWay \subseteq Consoles
              BY DEF UnderWay
        <5> QED BY <5>1
      <4>2. met' = met \/ met' = met \cup {{c, d} : d \in UnderWay}
            BY <1>2, <2>1, WayOn DEF Changing
      <4> SUFFICES ASSUME NEW x \in met' PROVE x \in SUBSET Consoles
          OBVIOUS
      <4>3. x \in met \/ \E d \in UnderWay : x = {c, d}
            BY <4>2
      <4> QED BY <4>1, <4>3
    <3> QED BY <3>1, <3>2, <3>3, <3>4, <3>5, <3>6 DEF Phases, Loads
  <2>4. StreamTypes'
    <3> USE DEF StreamTypes
    <3>1. end' \in [Consoles -> {"none", "EOF", "ERR"}]
          BY <2>1 DEF Changing, Return
    <3>2. ASSUME NEW code \in Codes, Put(c, code) PROVE StreamTypes'
      <4>1. Append(chan[c], code) \in Seq(Codes) /\ Len(Append(chan[c], code)) = Len(chan[c]) + 1
            OBVIOUS
      <4>2. Len(chan[c]) \in Nat /\ Room \in Nat
            BY ConsoleAssumption
      <4>3. Len(chan[c]) < Room => Len(chan[c]) + 1 <= Room
            BY <4>2
      <4>4. chan' \in [Consoles -> Seq(Codes)] /\ \A d \in Consoles : Len(chan'[d]) <= Room
            BY <3>2, <4>1, <4>3 DEF Put, Cap, ProjectTypes
      <4> QED BY <3>1, <3>2, <4>4 DEF Put
    <3>3. CASE SendCount(c)
          BY <3>2, <3>3 DEF SendCount, Codes, Counts
    <3>4. CASE SetupLink(c)
      <4>1. CASE Put(c, "lSetup")
            BY <3>2, <4>1 DEF Codes
      <4>2. CASE Return(c, "ERR")
            BY <3>1, <4>2, ConsoleAssumption DEF Return
      <4>3. CASE stream' = stream
            BY <4>3 DEF stream
      <4> QED BY <3>4, <4>1, <4>2, <4>3 DEF SetupLink
    <3>5. ASSUME NEW n \in Nodes, SayNode(c, n) PROVE StreamTypes'
      <4>1. phase[c] \in {"starting", "loading", "saving", "closing"}
            BY <3>5 DEF SayNode, Stages, Waited
      <4>2. Said[phase[c]] \in Codes
            BY <4>1 DEF Said, Codes
      <4> QED BY <3>2, <3>5, <4>2 DEF SayNode
    <3>6. ASSUME NEW status \in {"EOF", "ERR"}, Return(c, status) PROVE StreamTypes'
          BY <3>1, <3>6, ConsoleAssumption DEF Return
    <3>7. CASE Take(c)
      <4>1. /\ Head(chan[c]) \in Codes /\ Tail(chan[c]) \in Seq(Codes)
            /\ Len(Tail(chan[c])) = Len(chan[c]) - 1
            BY <3>7 DEF Take
      <4>2. Len(chan[c]) \in Nat /\ Room \in Nat /\ Len(chan[c]) <= Room
            BY ConsoleAssumption
      <4>3. Len(chan[c]) - 1 <= Room
            BY <4>2
      <4>4. chan' \in [Consoles -> Seq(Codes)] /\ \A d \in Consoles : Len(chan'[d]) <= Room
            BY <3>7, <4>1, <4>3 DEF Take
      <4> QED BY <3>1, <3>7, <4>1, <4>4 DEF Take
    <3>8. CASE Forward(c)
          BY <3>1, <3>8 DEF Forward
    <3>9. CASE chan' = chan /\ hold' = hold /\ end' = end
          BY <3>9
    <3> QED BY <2>1, <3>3, <3>4, <3>5, <3>6, <3>7, <3>8, <3>9 DEF Changing
  <2>5. ConsoleTypes'
    <3> USE DEF ConsoleTypes
    <3>1. con' \in [Consoles -> {"wait", "write", "prompt", "panic", "gone"}]
          BY <2>1 DEF Changing, Forward, Show, ShowCount, Increment, SendFinal, WriteFile,
             RecvEnd, Kill
    <3>2. bars' \in [Consoles -> SUBSET {"node", "link"}]
          BY <2>1 DEF Changing, Forward, Show, ShowCount, Increment
    <3>3. shut' \in [Consoles -> BOOLEAN]
          BY <2>1 DEF Changing, SendFinal, Alive
    <3>4. result' \in [Consoles -> {"none", "ok", "error"}]
          BY <2>1 DEF Changing, WriteFile, RecvEnd
    <3>5. disk' \in [Consoles -> {"before", "torn", "written"}]
          BY <2>1 DEF Changing, SendFinal, WriteFile
    <3> QED BY <3>1, <3>2, <3>3, <3>4, <3>5
  <2> QED BY <2>2, <2>3, <2>4, <2>5
<1> QED BY <1>1, <1>2, Shapes

-----------------------------------------------------------------------------
(* The phases.                                                              *)

\* A stutter changes nothing.
LEMMA Stutters ==
    ASSUME vars' = vars
    PROVE  /\ daemon' = daemon /\ open' = open /\ dir' = dir /\ nodes' = nodes /\ ovs' = ovs
           /\ links' = links /\ bridges' = bridges
           /\ running' = running /\ loaded' = loaded /\ conf' = conf
           /\ plan' = plan /\ file' = file
           /\ phase' = phase /\ pending' = pending /\ task' = task /\ failed' = failed
           /\ archive' = archive /\ met' = met
           /\ chan' = chan /\ hold' = hold /\ end' = end
           /\ con' = con /\ bars' = bars /\ shut' = shut /\ result' = result /\ disk' = disk
BY DEF vars, project, handler, stream, console

\* Each phase is entered by the requests it belongs to.
LEMMA PhasesStay ==
    ASSUME TypeOK, PhasesOfPlans, [Next]_vars
    PROVE  PhasesOfPlans'
<1>1. CASE vars' = vars
      BY <1>1, Stutters DEF PhasesOfPlans
<1>2. ASSUME NEW c \in Consoles, Acts(c) PROVE PhasesOfPlans'
  <2>1. Alone(c) /\ Entering(c)
        BY <1>2, StepOfOne, Enters
  <2>2. plan[c] \in Kinds
        BY DEF TypeOK, ProjectTypes
  <2> DEFINE Fits ==
        /\ phase'[c] \in {"starting", "linking", "linked", "loading"} =>
              plan[c] \in {"run", "reload"}
        /\ phase'[c] \in Loads \cup {"again"} => plan[c] = "reload"
        /\ phase'[c] \in {"saving", "archive"} => plan[c] = "save"
        /\ phase'[c] = "closing" => plan[c] \in {"reload", "close"}
        /\ phase'[c] \in {"dropping", "removing"} => plan[c] = "close"
  <2> SUFFICES Fits
      BY <2>1 DEF PhasesOfPlans, Alone
  <2>3. CASE phase'[c] = phase[c]
        BY <2>3 DEF PhasesOfPlans
  <2>4. CASE Counted(c)
        BY <2>2, <2>4 DEF PhasesOfPlans, Counted, Enter, Kinds, Loads, TypeOK, HandlerTypes
  <2>5. CASE Started(c) \/ SetupLink(c) \/ BeginLoads(c)
        BY <2>5 DEF PhasesOfPlans, Started, SetupLink, BeginLoads, Enter, Return, Loads, handler,
           TypeOK, HandlerTypes
  <2>6. CASE Saved(c) \/ Closed(c) \/ Unregister(c)
        BY <2>6 DEF PhasesOfPlans, Saved, Closed, Unregister, Enter, Return, Loads, TypeOK,
           HandlerTypes
  <2>7. CASE ReadFile(c) \/ CreateNodes(c) \/ FillLinks(c) \/ FillBridges(c)
    <3>1. phase[c] \in Loads /\ phase'[c] \in Loads \cup {"again", "final", "returned"}
          BY <2>7 DEF ReadFile, CreateNodes, FillLinks, FillBridges, Enter, Return, Loads, TypeOK,
             HandlerTypes
    <3> QED BY <3>1 DEF PhasesOfPlans, Loads
  <2>8. CASE phase'[c] \in {"counted", "final", "return", "returned", "begin"}
        BY <2>8 DEF Loads
  <2> QED BY <2>1, <2>3, <2>4, <2>5, <2>6, <2>7, <2>8 DEF Entering, Phases, Loads, Working
<1> QED BY <1>1, <1>2, Shapes

\* Goroutines belong to their phases, and counts to theirs.
LEMMA StagesStay ==
    ASSUME TypeOK, Stages, [Next]_vars
    PROVE  Stages'
<1>1. CASE vars' = vars
      BY <1>1, Stutters DEF Stages, Waited
<1>2. ASSUME NEW c \in Consoles, Acts(c) PROVE Stages'
  <2> USE DEF TypeOK
  <2>1. Alone(c) /\ Entering(c) /\ Changing(c)
        BY <1>2, StepOfOne, Enters, Changes
  <2>2. \A n \in Nodes \ file : task'[c][n] = "done"
    <3>1. CASE task' = task
          BY <3>1 DEF Stages
    <3>2. CASE Launch(c)
          BY <3>2 DEF Launch, ProjectTypes, HandlerTypes
    <3>3. ASSUME NEW m \in Nodes, task[c][m] # "done", NEW t, task' = [task EXCEPT ![c][m] = t]
          PROVE  \A n \in Nodes \ file : task'[c][n] = "done"
          BY <3>3 DEF Stages, HandlerTypes
    <3>4. ASSUME NEW m \in Nodes,
                 StartNode(c, m) \/ LoadNode(c, m) \/ CloseNode(c, m) \/ SaveNode(c, m)
          PROVE  \A n \in Nodes \ file : task'[c][n] = "done"
          BY <3>3, <3>4 DEF StartNode, LoadNode, CloseNode, SaveNode, Becomes
    <3>5. ASSUME NEW m \in Nodes, WriteNode(c, m) \/ SayNode(c, m)
          PROVE  \A n \in Nodes \ file : task'[c][n] = "done"
          BY <3>3, <3>5 DEF WriteNode, SayNode, Becomes
    <3>7. ASSUME NEW m \in Nodes, AttachMgnt(c, m)
          PROVE  \A n \in Nodes \ file : task'[c][n] = "done"
          BY <3>1, <3>3, <3>7 DEF AttachMgnt, Becomes
    <3>6. CASE Counted(c) \/ BeginLoads(c)
          BY <3>1, <3>2, <3>6 DEF Counted, BeginLoads
    <3> QED BY <2>1, <3>1, <3>4, <3>5, <3>6, <3>7 DEF Changing
  <2>3. phase'[c] \notin {"starting", "loading", "saving", "closing"} =>
            \A n \in Nodes : task'[c][n] = "done"
    <3> SUFFICES ASSUME phase'[c] \notin {"starting", "loading", "saving", "closing"}
                 PROVE  \A n \in Nodes : task'[c][n] = "done"
        OBVIOUS
    <3>1. ASSUME task' = task, phase[c] \notin {"starting", "loading", "saving", "closing"}
          PROVE  \A n \in Nodes : task'[c][n] = "done"
          BY <3>1 DEF Stages, Waited
    <3>2. CASE Started(c) \/ Loaded(c) \/ Saved(c) \/ Closed(c)
          BY <3>2 DEF Started, Loaded, Saved, Closed, Waited
    <3>7. CASE SetupLink(c) \/ CreateNodes(c) \/ FillLinks(c) \/ FillBridges(c)
          BY <3>1, <3>7 DEF SetupLink, CreateNodes, FillLinks, FillBridges
    <3>3. CASE Counted(c)
          BY <3>1, <3>3, <2>1 DEF Counted, Enter, HandlerTypes
    <3>4. CASE BeginLoads(c)
          BY <3>1, <3>4 DEF BeginLoads, Enter, HandlerTypes
    <3>5. ASSUME NEW m \in Nodes, StartNode(c, m) \/ LoadNode(c, m) \/ CloseNode(c, m)
                                  \/ SaveNode(c, m) \/ WriteNode(c, m) \/ SayNode(c, m)
                                  \/ AttachMgnt(c, m)
          PROVE  FALSE
      <4>1. phase' = phase /\ task[c][m] # "done"
            BY <3>5 DEF StartNode, LoadNode, CloseNode, SaveNode, WriteNode, SayNode, AttachMgnt,
               Becomes, handler
      <4> QED BY <4>1 DEF Stages, Waited
    <3>6. CASE task' = task
      <4>1. CASE phase'[c] = phase[c]
            BY <3>1, <3>6, <4>1
      <4>2. CASE Begin(c) \/ Archived(c) \/ ReadFile(c) \/ Unregister(c)
                 \/ RemoveDir(c) \/ SendFinal(c) \/ Answer(c)
            BY <3>1, <3>6, <4>2 DEF Begin, Archived, ReadFile, Unregister, RemoveDir, SendFinal,
               Answer
      <4>3. ASSUME NEW m \in Nodes, ArchiveFile(c, m) PROVE phase[c] = "archive"
            BY <4>3 DEF ArchiveFile
      <4> QED BY <2>1, <3>1, <3>2, <3>3, <3>4, <3>6, <3>7, <4>1, <4>2, <4>3
              DEF Entering, Phases, Loads, Working
    <3> QED BY <2>1, <3>3, <3>4, <3>5, <3>6 DEF Changing
  <2>4. /\ pending'[c] # <<>> => phase'[c] \in {"counted", "again"}
        /\ pending'[c] \in {<<>>, <<"node">>, <<"link">>, <<"node", "link">>}
    <3>1. CASE Begin(c)
      <4>1. pending[c] = <<>>
            BY <3>1 DEF Begin, Stages
      <4>2. \/ pending' = pending
            \/ pending' = [pending EXCEPT ![c] = CountsOf(c)] /\ Enter(c, "counted")
            BY <3>1 DEF Begin
      <4> QED BY <4>1, <4>2 DEF CountsOf, Enter, HandlerTypes
    <3>2. CASE SendCount(c)
      <4>1. phase' = phase /\ pending' = [pending EXCEPT ![c] = Tail(@)] /\ pending[c] # <<>>
            BY <3>2 DEF SendCount
      <4>2. phase[c] \in {"counted", "again"}
            BY <4>1 DEF Stages
      <4>3. pending[c] \in {<<"node">>, <<"link">>, <<"node", "link">>}
            BY <4>1 DEF Stages
      <4>4. Tail(pending[c]) \in {<<>>, <<"link">>}
            BY <4>3, Queues
      <4>5. pending'[c] = Tail(pending[c])
            BY <4>1 DEF HandlerTypes
      <4> QED BY <4>1, <4>2, <4>4, <4>5
    <3>3. CASE FillBridges(c)
      <4>1. pending[c] = <<>>
            BY <3>3 DEF FillBridges, Stages
      <4>2. \/ pending' = pending
            \/ pending' = [pending EXCEPT ![c] = <<"node", "link">>] /\ Enter(c, "again")
            BY <3>3 DEF FillBridges
      <4> QED BY <4>1, <4>2 DEF Enter, HandlerTypes
    <3>4. CASE Counted(c)
          BY <3>4 DEF Counted, Stages
    <3>5. CASE pending' = pending /\ ~Counted(c) /\ ~Begin(c) /\ ~FillBridges(c)
      <4>1. CASE phase'[c] = phase[c]
            BY <3>5, <4>1 DEF Stages
      <4>2. ASSUME phase'[c] # phase[c] PROVE phase[c] \notin {"counted", "again"}
            BY <2>1, <3>5, <4>2 DEF Entering, Phases, Loads, Working, Started, SetupLink,
               BeginLoads, Loaded, Saved, Archived, Closed, ReadFile, CreateNodes, FillLinks,
               Unregister, RemoveDir, SendFinal, Answer, ArchiveFile
      <4> QED BY <3>5, <4>1, <4>2 DEF Stages
    <3> QED BY <2>1, <3>1, <3>2, <3>3, <3>4, <3>5 DEF Changing
  <2>5. end'[c] # "none" => phase'[c] = "returned"
        BY <2>1 DEF Changing, Return, Enter, Stages, Entering, HandlerTypes
  <2>7. ASSUME NEW n \in Nodes, task'[c][n] = "mgnt" PROVE phase'[c] = "starting"
    <3>1. CASE task[c][n] = "mgnt"
      <4>1. phase[c] = "starting" /\ ~Waited(c)
            BY <3>1 DEF Stages, Waited
      <4>2. CASE phase'[c] = phase[c]
            BY <4>1, <4>2
      <4>3. ASSUME phase'[c] # phase[c] PROVE FALSE
            BY <2>1, <4>1, <4>3 DEF Entering, Phases, Loads, Working, Begin, Counted, Started,
               SetupLink, BeginLoads, Loaded, Saved, Archived, Closed, ReadFile, CreateNodes,
               FillLinks, FillBridges, Unregister, RemoveDir, SendFinal, Answer, ArchiveFile
      <4> QED BY <4>2, <4>3
    <3>2. CASE task[c][n] # "mgnt"
      <4>1. \E m \in Nodes : StartNode(c, m)
        <5>1. CASE Launch(c)
              BY <2>7, <5>1 DEF Launch, HandlerTypes
        <5>2. ASSUME NEW m \in Nodes, AttachMgnt(c, m) \/ LoadNode(c, m) \/ CloseNode(c, m)
                                      \/ SaveNode(c, m) \/ WriteNode(c, m) \/ SayNode(c, m)
              PROVE  FALSE
              BY <2>7, <3>2, <5>2 DEF AttachMgnt, LoadNode, CloseNode, SaveNode, WriteNode,
                 SayNode, Becomes, HandlerTypes
        <5> QED BY <2>1, <2>7, <3>2, <5>1, <5>2 DEF Changing, Counted, BeginLoads
      <4> QED BY <4>1 DEF StartNode
    <3> QED BY <3>1, <3>2
  <2>6. ASSUME NEW n \in Nodes, task'[c][n] = "cut" PROVE phase'[c] = "saving"
    <3>1. CASE task[c][n] = "cut"
      <4>1. phase[c] = "saving" /\ ~Waited(c)
            BY <3>1 DEF Stages, Waited
      <4> QED BY <2>1, <4>1 DEF Entering, Saved
    <3>2. CASE task[c][n] # "cut"
      <4>1. \E m \in Nodes : SaveNode(c, m)
        <5>1. CASE Launch(c)
              BY <2>6, <5>1 DEF Launch, HandlerTypes
        <5>2. ASSUME NEW m \in Nodes, StartNode(c, m) \/ AttachMgnt(c, m) \/ LoadNode(c, m)
                                      \/ CloseNode(c, m) \/ WriteNode(c, m) \/ SayNode(c, m)
              PROVE  FALSE
              BY <2>6, <3>2, <5>2 DEF StartNode, AttachMgnt, LoadNode, CloseNode, WriteNode,
                 SayNode, Becomes, HandlerTypes
        <5> QED BY <2>1, <2>6, <3>2, <5>1, <5>2 DEF Changing, Counted, BeginLoads
      <4> QED BY <4>1 DEF SaveNode
    <3> QED BY <3>1, <3>2
  <2> QED BY <2>1, <2>2, <2>3, <2>4, <2>5, <2>6, <2>7 DEF Stages, Waited, Alone
<1> QED BY <1>1, <1>2, Shapes

-----------------------------------------------------------------------------
(* The overlaps.                                                            *)

\* The steps that take something from another request are of a close or a reload.
LEMMA Robberies ==
    ASSUME TypeOK, PhasesOfPlans, NEW c \in Consoles, Acts(c)
    PROVE  \/ ovs' = ovs /\ nodes' = nodes /\ links' = links /\ bridges' = bridges
           \/ c \in UnderWay /\ plan[c] \in {"close", "reload"}
<1>1. Changing(c)
      BY Changes
<1>2. ASSUME phase[c] \in Loads \cup {"closing"}
      PROVE  c \in UnderWay /\ plan[c] \in {"close", "reload"}
      BY <1>2 DEF PhasesOfPlans, UnderWay, Loads
<1>3. CASE Closed(c) \/ ReadFile(c) \/ CreateNodes(c) \/ FillLinks(c) \/ FillBridges(c)
  <2>1. phase[c] \in Loads \cup {"closing"}
        BY <1>3 DEF Closed, ReadFile, CreateNodes, FillLinks, FillBridges, Loads
  <2> QED BY <1>2, <2>1
<1> QED BY <1>1, <1>3 DEF Changing

\* No request robs itself.
LEMMA RobbedByOthers ==
    ASSUME TypeOK, Stages, Stages', NEW c \in Consoles, Acts(c), Robbed(c)'
    PROVE  Robbed(c)
<1>1. Alone(c) /\ Entering(c) /\ Changing(c)
      BY StepOfOne, Enters, Changes
<1>2. file' = file
      BY <1>1 DEF Alone
<1> USE DEF TypeOK, HandlerTypes
<1>3. CASE phase'[c] \in {"creating", "filling", "bridging", "again"} /\ ~ovs'
  <2>1. ~ReadFile(c)
    <3>1. ASSUME ReadFile(c) PROVE ovs' \/ phase'[c] = "returned"
          BY <3>1 DEF ReadFile, Return, Enter
    <3> QED BY <1>3, <3>1
  <2>2. ~Closed(c)
    <3>1. ASSUME Closed(c)
          PROVE  phase[c] = "closing" /\ phase'[c] \in {"closing", "dropping", "reading"}
          BY <3>1 DEF Closed, Enter
    <3> QED BY <1>3, <3>1
  <2>3. phase[c] \in {"creating", "filling", "bridging", "again"}
        BY <1>1, <1>3, <2>1 DEF Entering, CreateNodes, FillLinks, FillBridges
  <2> QED BY <1>1, <1>3, <2>1, <2>2, <2>3 DEF Changing, Robbed
<1>4. CASE phase'[c] \in {"filling", "bridging"} /\ nodes' # file'
  <2>1. ~CreateNodes(c)
    <3>1. ASSUME CreateNodes(c) PROVE nodes' = file \/ phase'[c] = "returned"
          BY <3>1 DEF CreateNodes, Return, Enter
    <3> QED BY <1>2, <1>4, <3>1
  <2>2. phase[c] \in {"filling", "bridging"}
        BY <1>1, <1>4, <2>1 DEF Entering, FillLinks
  <2> QED BY <1>1, <1>2, <1>4, <2>1, <2>2 DEF Changing, Robbed, Closed, ReadFile
<1>5. CASE phase'[c] = "filling" /\ links' = "none" /\ file' # {}
  <2>1. ~CreateNodes(c)
    <3>1. ASSUME CreateNodes(c) PROVE links' = Published \/ phase'[c] = "returned"
          BY <3>1 DEF CreateNodes, Return, Enter
    <3> QED BY <1>2, <1>5, <3>1 DEF Published
  <2>2. phase[c] = "filling"
        BY <1>1, <1>5, <2>1 DEF Entering
  <2>3. links' = links
        BY <1>1, <1>5, <2>1, <2>2 DEF Changing, Closed, FillLinks, Enter
  <2> QED BY <1>2, <1>5, <2>2, <2>3 DEF Robbed
<1>6. CASE phase'[c] = "bridging" /\ bridges' = "none" /\ file' # {}
  <2>1. ~FillLinks(c)
    <3>1. ASSUME FillLinks(c) PROVE bridges' = Published \/ phase'[c] = "filling"
          BY <3>1 DEF FillLinks, Enter
    <3> QED BY <1>2, <1>6, <3>1 DEF Published
  <2>2. phase[c] = "bridging"
        BY <1>1, <1>6, <2>1 DEF Entering
  <2>3. bridges' = bridges
    <3>1. ASSUME FillBridges(c) PROVE bridges' = bridges \/ phase'[c] # "bridging"
          BY <3>1 DEF FillBridges, Return, Enter
    <3> QED BY <1>1, <1>6, <2>1, <2>2, <3>1 DEF Changing, Closed
  <2> QED BY <1>2, <1>6, <2>2, <2>3 DEF Robbed
<1>7. ASSUME bridges' \in {"none", "nil"}, NEW n \in Nodes, task'[c][n] = "mgnt"
      PROVE  Robbed(c)
  <2>1. phase'[c] = "starting"
        BY <1>7 DEF Stages
  <2>2. bridges' = bridges
    <3>1. ASSUME Closed(c) \/ FillLinks(c) \/ FillBridges(c) PROVE phase'[c] # "starting"
          BY <3>1 DEF Closed, FillLinks, FillBridges, Return, Enter
    <3> QED BY <1>1, <2>1, <3>1 DEF Changing
  <2>3. task[c][n] = "mgnt"
    <3>1. CASE Launch(c)
          BY <1>7, <3>1 DEF Launch
    <3>2. ASSUME NEW m \in Nodes, StartNode(c, m) \/ AttachMgnt(c, m)
          PROVE  task[c][n] = "mgnt"
          BY <1>7, <2>2, <3>2 DEF StartNode, AttachMgnt, Becomes
    <3>3. ASSUME NEW m \in Nodes, LoadNode(c, m) \/ CloseNode(c, m)
                                  \/ SaveNode(c, m) \/ WriteNode(c, m) \/ SayNode(c, m)
          PROVE  task[c][n] = "mgnt"
          BY <1>7, <3>3 DEF LoadNode, CloseNode, SaveNode, WriteNode, SayNode, Becomes
    <3>4. CASE task' = task
          BY <1>7, <3>4
    <3> QED BY <1>1, <3>1, <3>2, <3>3, <3>4 DEF Changing, Counted, BeginLoads
  <2> QED BY <1>7, <2>2, <2>3 DEF Robbed
<1> QED BY <1>3, <1>4, <1>5, <1>6, <1>7 DEF Robbed

\* Two requests that are under way together overlap, whichever came first, and
\* what only a close or a reload takes away tells of one.
LEMMA TogetherStays ==
    ASSUME TypeOK, PhasesOfPlans, Stages, Together, [Next]_vars
    PROVE  Together'
<1>1. CASE vars' = vars
  <2>1. UnderWay' = UnderWay /\ \A c \in Consoles, k \in SUBSET Kinds : Overlap(c, k)' = Overlap(c, k)
        BY <1>1, Stutters DEF UnderWay, Overlap
  <2>2. \A c \in Consoles : Robbed(c)' = Robbed(c)
        BY <1>1, Stutters DEF Robbed
  <2> QED BY <1>1, <2>1, <2>2, Stutters DEF Together, Kinds
<1>2. ASSUME NEW c \in Consoles, Acts(c) PROVE Together'
  <2>1. Alone(c) /\ Entering(c) /\ Changing(c)
        BY <1>2, StepOfOne, Enters, Changes
  <2>2. plan' = plan /\ met \subseteq met'
        BY Lasting
  <2>3. \A d \in Consoles : /\ Overlap(d, {"close", "reload"}) => Overlap(d, {"close", "reload"})'
                            /\ Overlap(d, {"close"}) => Overlap(d, {"close"})'
        BY <2>2 DEF Overlap
  <2>4. ASSUME NEW d \in UnderWay', NEW e \in UnderWay', d # e PROVE {d, e} \in met'
    <3>1. CASE d \in UnderWay /\ e \in UnderWay
          BY <2>2, <2>4, <3>1 DEF Together
    <3>2. ASSUME c \notin UnderWay, Begin(c), c \in UnderWay'
          PROVE  \A x \in UnderWay : {c, x} \in met'
      <4>1. phase'[c] # "returned"
            BY <3>2 DEF UnderWay
      <4>2. met' = met \cup {{c, x} : x \in UnderWay}
            BY <3>2, <4>1 DEF Begin, Return, Enter, TypeOK, HandlerTypes
      <4> QED BY <4>2
    <3>3. {d, e} = {e, d}
          OBVIOUS
    <3> QED BY <1>2, <2>4, <3>1, <3>2, <3>3, WayOn
  <2>5. ASSUME NEW d \in Consoles, Robbed(d)'
        PROVE  Overlap(d, {"close", "reload"})'
    <3>1. CASE d = c
      <4>1. Robbed(c)
            BY <1>2, <2>5, <3>1, StagesStay, RobbedByOthers
      <4> QED BY <2>3, <3>1, <4>1 DEF Together
    <3>2. CASE d # c
      <4>1. phase'[d] = phase[d] /\ task'[d] = task[d] /\ file' = file
            BY <2>1, <3>2 DEF Alone
      <4>2. d \in UnderWay
            BY <2>5, <4>1 DEF Robbed, UnderWay, Stages
      <4>3. CASE ovs' = ovs /\ nodes' = nodes /\ links' = links /\ bridges' = bridges
        <5>1. Robbed(d)
              BY <2>5, <4>1, <4>3 DEF Robbed
        <5> QED BY <2>3, <5>1 DEF Together
      <4>4. CASE c \in UnderWay /\ plan[c] \in {"close", "reload"}
        <5>1. {d, c} \in met
              BY <3>2, <4>2, <4>4 DEF Together
        <5> QED BY <2>2, <3>2, <4>4, <5>1 DEF Overlap
      <4> QED BY <1>2, <4>3, <4>4, Robberies
    <3> QED BY <3>1, <3>2
  <2>6. ASSUME NEW d \in Consoles, plan[d] = "save", d \in UnderWay', ~dir'
        PROVE  Overlap(d, {"close"})'
    <3>1. CASE RemoveDir(c)
      <4>1. phase[c] = "removing" /\ ~Begin(c)
            BY <3>1 DEF RemoveDir, Begin
      <4>2. plan[c] = "close" /\ c \in UnderWay
            BY <4>1 DEF PhasesOfPlans, UnderWay
      <4>3. d # c /\ d \in UnderWay
            BY <1>2, <2>6, <4>1, <4>2, WayOn
      <4>4. {d, c} \in met
            BY <4>2, <4>3 DEF Together
      <4> QED BY <2>2, <4>2, <4>3, <4>4 DEF Overlap
    <3>2. CASE dir' = dir
      <4>1. CASE d \in UnderWay
            BY <2>3, <2>6, <3>2, <4>1 DEF Together
      <4>2. CASE d \notin UnderWay
        <5>1. d = c /\ Begin(c)
              BY <1>2, <2>6, <4>2, WayOn
        <5>2. phase'[c] = "returned"
              BY <2>6, <3>2, <5>1 DEF Begin, Return, Enter, TypeOK, HandlerTypes
        <5> QED BY <2>6, <5>1, <5>2 DEF UnderWay
      <4> QED BY <4>1, <4>2
    <3> QED BY <2>1, <3>1, <3>2 DEF Changing
  <2> QED BY <2>2, <2>4, <2>5, <2>6 DEF Together
<1> QED BY <1>1, <1>2, Shapes

-----------------------------------------------------------------------------
(* The streams and the bars.                                                *)

\* A buffer and a wait for the bars are of a run.
LEMMA StreamsStay ==
    ASSUME TypeOK, PhasesOfPlans, Stages, StreamsOfPlans, [Next]_vars
    PROVE  StreamsOfPlans'
<1>1. CASE vars' = vars
      BY <1>1, Stutters DEF StreamsOfPlans
<1>2. ASSUME NEW c \in Consoles, Acts(c) PROVE StreamsOfPlans'
  <2>1. Alone(c) /\ Changing(c)
        BY <1>2, StepOfOne, Changes
  <2> SUFFICES ASSUME plan[c] # "run"
               PROVE  /\ chan'[c] = <<>> /\ ~shut'[c]
                      /\ plan[c] # "reload" =>
                            hold'[c] \in Counts \cup {"saved", "closed", "idle", "quit"}
      BY <2>1 DEF StreamsOfPlans, Alone
  <2>2. chan[c] = <<>> /\ ~shut[c]
        BY DEF StreamsOfPlans
  <2>3. ~shut'[c]
        BY <2>1, <2>2 DEF Changing, SendFinal, TypeOK, ConsoleTypes
  <2>4. ASSUME NEW code, Put(c, code)
        PROVE  chan' = chan /\ hold' = [hold EXCEPT ![c] = code]
        BY <2>4 DEF Put, Cap
  <2>5. CASE SendCount(c)
    <3>1. PICK code \in Counts : Put(c, code)
          BY <2>5 DEF SendCount, Counts
    <3> QED BY <2>2, <2>3, <2>4, <3>1 DEF TypeOK, StreamTypes
  <2>6. CASE SetupLink(c)
    <3>1. CASE Put(c, "lSetup")
      <4>1. plan[c] = "reload"
            BY <2>6 DEF SetupLink, PhasesOfPlans
      <4> QED BY <2>2, <2>3, <2>4, <3>1, <4>1
    <3>2. CASE Return(c, "ERR")
          BY <2>3, <3>2 DEF Return, TypeOK, StreamTypes
    <3>3. CASE stream' = stream
          BY <2>2, <2>3, <3>3 DEF StreamsOfPlans, stream
    <3> QED BY <2>6, <3>1, <3>2, <3>3 DEF SetupLink
  <2>7. ASSUME NEW n \in Nodes, SayNode(c, n)
        PROVE  /\ chan'[c] = <<>>
               /\ plan[c] # "reload" => hold'[c] \in {"saved", "closed"}
    <3>1. phase[c] \in {"starting", "loading", "saving", "closing"} /\ Put(c, Said[phase[c]])
          BY <2>7 DEF SayNode, Stages, Waited
    <3>2. plan[c] # "reload" => phase[c] \in {"saving", "closing"}
          BY <3>1 DEF PhasesOfPlans
    <3>3. plan[c] # "reload" => Said[phase[c]] \in {"saved", "closed"}
          BY <3>2 DEF Said
    <3> QED BY <2>2, <2>4, <3>1, <3>3 DEF TypeOK, StreamTypes
  <2>8. ASSUME NEW status, Return(c, status)
        PROVE  chan'[c] = <<>> /\ hold'[c] = "quit"
        BY <2>8 DEF Return, TypeOK, StreamTypes
  <2>9. CASE Forward(c)
        BY <2>2, <2>3, <2>9 DEF Forward, TypeOK, StreamTypes
  <2>10. ~Take(c)
        BY <2>2 DEF Take
  <2>11. CASE chan' = chan /\ hold' = hold
        BY <2>2, <2>3, <2>11 DEF StreamsOfPlans
  <2> QED BY <2>1, <2>3, <2>5, <2>6, <2>7, <2>8, <2>9, <2>10, <2>11 DEF Changing
<1> QED BY <1>1, <1>2, Shapes

\* A console learns the count of its nodes before it learns of one of them.
LEMMA BarsStay ==
    ASSUME TypeOK, PhasesOfPlans, Stages, Together, StreamsOfPlans, BarsCome, [Next]_vars
    PROVE  BarsCome'
<1>1. CASE vars' = vars
  <2>1. \A c \in Consoles :
            Overlap(c, {"close", "reload"})' = Overlap(c, {"close", "reload"})
        BY <1>1, Stutters DEF Overlap
  <2> QED BY <1>1, <2>1, Stutters DEF BarsCome, Alive, Waited, Counting
<1>2. ASSUME NEW c \in Consoles, Acts(c) PROVE BarsCome'
  <2>1. Alone(c) /\ Entering(c) /\ Changing(c)
        BY <1>2, StepOfOne, Enters, Changes
  <2>2. plan' = plan /\ met \subseteq met'
        BY Lasting
  <2>3. \A d \in Consoles : Overlap(d, {"close", "reload"}) => Overlap(d, {"close", "reload"})'
        BY <2>2 DEF Overlap
  <2> SUFFICES ASSUME NEW d \in Consoles, plan[d] \in {"save", "close"}, Alive(d)',
                      ~Overlap(d, {"close", "reload"})'
               PROVE  /\ hold'[d] \in {"saved", "closed"} => "node" \in bars'[d]
                      /\ ~Waited(d)' => Counting(d)'
                      /\ phase'[d] = "counted" /\ pending'[d] \in {<<>>, <<"link">>}
                            /\ nodes' # {} => Counting(d)'
      BY <2>2 DEF BarsCome
  <2>4. ~Overlap(d, {"close", "reload"})
        BY <2>3
  <2>5. phase[d] = "counted" /\ d # c => nodes' = nodes
    <3>1. SUFFICES ASSUME d # c, phase[d] = "counted", c \in UnderWay,
                          plan[c] \in {"close", "reload"}
                   PROVE  FALSE
          BY <1>2, Robberies
    <3>2. {d, c} \in met
          BY <3>1 DEF Together, UnderWay
    <3> QED BY <2>4, <3>1, <3>2 DEF Overlap
  <2>6. CASE d # c
    <3>1. /\ con'[d] = con[d] /\ bars'[d] = bars[d] /\ hold'[d] = hold[d]
          /\ task'[d] = task[d] /\ phase'[d] = phase[d] /\ pending'[d] = pending[d]
          BY <2>1, <2>6 DEF Alone
    <3> QED BY <2>4, <2>5, <2>6, <3>1 DEF BarsCome, Alive, Waited, Counting
  <2>7. CASE d = c
    <3> DEFINE Told ==
          /\ hold'[c] \in {"saved", "closed"} => "node" \in bars'[c]
          /\ ~Waited(c)' => Counting(c)'
          /\ phase'[c] = "counted" /\ pending'[c] \in {<<>>, <<"link">>}
                /\ nodes' # {} => Counting(c)'
    <3> SUFFICES Told
        BY <2>7
    <3>1. Alive(c)
          BY <2>1, <2>7 DEF Changing, Alive, Forward, Show, ShowCount, Increment, SendFinal,
             WriteFile, RecvEnd, Kill, TypeOK, ConsoleTypes
    <3>2. /\ hold[c] \in {"saved", "closed"} => "node" \in bars[c]
          /\ ~Waited(c) => Counting(c)
          /\ phase[c] = "counted" /\ pending[c] \in {<<>>, <<"link">>} /\ nodes # {} =>
                Counting(c)
          BY <2>4, <2>7, <3>1 DEF BarsCome
    <3>3. phase[c] \notin Loads \cup {"starting", "linking", "linked", "loading", "again"}
          BY <2>7 DEF PhasesOfPlans
    <3>4. ASSUME task'[c] = task[c], bars'[c] = bars[c], phase'[c] # "counted",
                 hold'[c] = hold[c] \/ (hold'[c] = "quit" /\ Waited(c))
          PROVE  Told
          BY <3>2, <3>4 DEF Waited, Counting
    <3>5. CASE Begin(c)
      <4>1. Waited(c) /\ task' = task /\ bars' = bars
            BY <3>5 DEF Begin, Stages, console
      <4>2. CASE Return(c, "ERR")
            BY <3>4, <4>1, <4>2 DEF Return, Enter, TypeOK, HandlerTypes, StreamTypes
      <4>3. CASE hold' = hold /\ pending'[c] = CountsOf(c)
        <5>1. pending'[c] \notin {<<>>, <<"link">>}
              BY <4>3, Queues DEF CountsOf
        <5> QED BY <3>2, <4>1, <4>3, <5>1 DEF Waited
      <4> QED BY <3>5, <4>2, <4>3 DEF Begin, stream, TypeOK, HandlerTypes
    <3>6. CASE SendCount(c)
      <4>1. /\ task' = task /\ bars' = bars /\ phase' = phase /\ nodes' = nodes
            /\ pending[c] # <<>> /\ pending'[c] = Tail(pending[c]) /\ hold[c] = "idle"
            BY <2>7, <3>6 DEF SendCount, Put, Cap, project, console, TypeOK, HandlerTypes
      <4>2. /\ phase[c] = "counted" /\ Waited(c)
            /\ pending[c] \in {<<"node">>, <<"link">>, <<"node", "link">>}
            BY <3>3, <4>1 DEF Stages
      <4>3. hold'[c] \in Counts
            BY <2>7, <3>6 DEF SendCount, Put, Cap, Counts, TypeOK, StreamTypes
      <4>4. CASE pending[c] = <<"link">>
            BY <3>2, <4>1, <4>2, <4>3, <4>4 DEF Counting, Counts, Waited
      <4>5. CASE pending[c] \in {<<"node">>, <<"node", "link">>}
        <5>1. nodes # {} => hold'[c] = "nCount"
              BY <2>7, <3>6, <4>5, Queues DEF SendCount, Put, Cap, TypeOK, StreamTypes
        <5> QED BY <4>1, <4>2, <4>3, <5>1 DEF Counting, Counts, Waited
      <4> QED BY <4>2, <4>4, <4>5
    <3>7. CASE Counted(c)
      <4>1. /\ phase[c] = "counted" /\ pending[c] = <<>> /\ plan[c] # "run"
            /\ bars' = bars /\ hold' = hold /\ phase'[c] \in {"saving", "closing"} /\ Launch(c)
            BY <2>7, <3>3, <3>7 DEF Counted, stream, console, Enter, TypeOK, HandlerTypes
      <4>2. ~Waited(c)' => nodes # {}
            BY <4>1 DEF Launch, Waited, TypeOK, HandlerTypes
      <4> QED BY <3>2, <4>1, <4>2 DEF Counting
    <3>8. CASE Saved(c)
          BY <3>4, <3>8 DEF Saved, console, stream, Return, Enter, TypeOK, HandlerTypes,
             StreamTypes
    <3>9. CASE Closed(c)
          BY <3>4, <3>9 DEF Closed, console, stream, Enter, TypeOK, HandlerTypes
    <3>10. CASE Archived(c) \/ Unregister(c) \/ RemoveDir(c) \/ SendFinal(c) \/ Answer(c)
      <4>1. task' = task /\ bars' = bars /\ Waited(c)
            BY <3>10 DEF Archived, Unregister, RemoveDir, SendFinal, Answer, console, Stages
      <4>2. phase'[c] # "counted" /\ hold'[c] \in {hold[c], "quit"}
            BY <3>10 DEF Archived, Unregister, RemoveDir, SendFinal, Answer, stream, Return,
               Enter, TypeOK, HandlerTypes, StreamTypes
      <4> QED BY <3>4, <4>1, <4>2
    <3>11. CASE Forward(c)
      <4>1. /\ task' = task /\ phase' = phase /\ nodes' = nodes /\ pending' = pending
            /\ hold'[c] = "idle" /\ Show(c, hold[c])
            BY <3>11 DEF Forward, project, handler, TypeOK, StreamTypes
      <4>2. Counting(c) => "node" \in bars'[c]
        <5>1. bars[c] \subseteq bars'[c]
              BY <4>1 DEF Show, ShowCount, Increment, TypeOK, ConsoleTypes
        <5>2. hold[c] = "nCount" => "node" \in bars'[c]
              BY <2>7, <3>1, <4>1 DEF Show, ShowCount, Counts, StreamsOfPlans, TypeOK,
                 ConsoleTypes
        <5> QED BY <5>1, <5>2 DEF Counting
      <4> QED BY <3>2, <4>1, <4>2 DEF Counting, Waited
    <3>12. CASE WriteFile(c) \/ RecvEnd(c) \/ Kill(c)
      <4>1. task' = task /\ bars' = bars /\ hold' = hold /\ phase' = phase
            /\ nodes' = nodes /\ pending' = pending
            BY <3>12 DEF WriteFile, RecvEnd, Kill, project, handler, stream
      <4> QED BY <3>2, <4>1 DEF Waited, Counting
    <3>13. ASSUME NEW n \in Nodes, CloseNode(c, n) \/ SaveNode(c, n) \/ WriteNode(c, n)
           PROVE  Told
      <4>1. /\ task[c][n] # "done" /\ bars' = bars /\ phase' = phase /\ hold' = hold
            BY <3>13 DEF CloseNode, SaveNode, WriteNode, console, stream
      <4>2. ~Waited(c) /\ phase[c] # "counted"
            BY <4>1 DEF Waited, Stages
      <4> QED BY <3>2, <4>1, <4>2 DEF Counting
    <3>14. ASSUME NEW n \in Nodes, SayNode(c, n) PROVE Told
      <4>1. /\ task[c][n] # "done" /\ bars' = bars /\ phase' = phase /\ hold[c] = "idle"
            BY <2>7, <3>14 DEF SayNode, Put, Cap, console
      <4>2. ~Waited(c) /\ phase[c] # "counted"
            BY <4>1 DEF Waited, Stages
      <4> QED BY <3>2, <4>1, <4>2 DEF Counting
    <3>15. ASSUME NEW n \in Nodes, ArchiveFile(c, n) PROVE Told
      <4>1. task' = task /\ bars' = bars /\ Waited(c)
            BY <3>15 DEF ArchiveFile, console, Stages
      <4>2. phase'[c] # "counted" /\ hold'[c] \in {hold[c], "quit"}
            BY <3>15 DEF ArchiveFile, stream, Return, Enter, TypeOK, HandlerTypes, StreamTypes
      <4> QED BY <3>4, <4>1, <4>2
    <3>16. ~Take(c)
           BY <2>7 DEF Take, StreamsOfPlans
    <3>17. /\ ~Started(c) /\ ~SetupLink(c) /\ ~BeginLoads(c) /\ ~Loaded(c) /\ ~ReadFile(c)
           /\ \A n \in Nodes : ~StartNode(c, n) /\ ~LoadNode(c, n)
           BY <3>3 DEF Started, SetupLink, BeginLoads, Loaded, ReadFile, StartNode, LoadNode, Loads
    <3>18. ~CreateNodes(c) /\ ~FillLinks(c) /\ ~FillBridges(c)
           BY <3>3 DEF CreateNodes, FillLinks, FillBridges, Loads
    <3>19. \A n \in Nodes : ~AttachMgnt(c, n)
           BY <3>3 DEF AttachMgnt, Stages
    <3> HIDE DEF Told
    <3> QED BY <1>2, <3>5, <3>6, <3>7, <3>8, <3>9, <3>10, <3>11, <3>12, <3>13, <3>14, <3>15,
               <3>16, <3>17, <3>18, <3>19, Which
  <2> QED BY <2>6, <2>7
<1> QED BY <1>1, <1>2, Shapes

-----------------------------------------------------------------------------
(* The files and the archives.                                              *)

\* What an error was once, and a file that is new, stay so.
LEMMA Ratchets ==
    ASSUME TypeOK, Stages, NEW c \in Consoles, Acts(c)
    PROVE  /\ SaveFailed => SaveFailed'
           /\ \A d \in Consoles : end[d] # "none" => end'[d] = end[d]
           /\ \A d \in Consoles : failed[d] => failed'[d]
           /\ \A n \in Nodes : conf[n] # "old" => conf'[n] # "old"
           /\ \A n \in Nodes : conf[n] # "none" => conf'[n] # "none"
           /\ dir' => dir
<1>1. Alone(c) /\ Entering(c) /\ Changing(c)
      BY StepOfOne, Enters, Changes
<1>2. \A d \in Consoles : end[d] # "none" => end'[d] = end[d]
      BY <1>1 DEF Alone, Entering, Stages
<1>3. SaveFailed => SaveFailed'
      BY <1>1, <1>2 DEF SaveFailed, Alone
<1>4. \A d \in Consoles : failed[d] => failed'[d]
  <2>1. ASSUME NEW x \in BOOLEAN, failed' = [failed EXCEPT ![c] = @ \/ x]
        PROVE  \A d \in Consoles : failed[d] => failed'[d]
        BY <2>1 DEF TypeOK, HandlerTypes
  <2>2. ASSUME NEW n \in Nodes, AttachMgnt(c, n)
        PROVE  \A d \in Consoles : failed[d] => failed'[d]
        BY <2>1, <2>2 DEF AttachMgnt, Becomes
  <2> QED BY <1>1, <2>1, <2>2 DEF Changing, StartNode, LoadNode, CloseNode, SaveNode,
             WriteNode, Becomes
<1>5. \A n \in Nodes : /\ conf[n] # "old" => conf'[n] # "old"
                       /\ conf[n] # "none" => conf'[n] # "none"
      BY <1>1 DEF Changing, SaveNode, WriteNode, TypeOK, ProjectTypes
<1>6. dir' => dir
      BY <1>1 DEF Changing, RemoveDir
<1> QED BY <1>2, <1>3, <1>4, <1>5, <1>6

\* Nil pointers are of a load that goes on, or failed; broken ones of a load that
\* was robbed of its nodes.
LEMMA NilsStay ==
    ASSUME TypeOK, PhasesOfPlans, Stages, Together, NilsKnown, [Next]_vars
    PROVE  NilsKnown'
<1>1. CASE vars' = vars
  <2>1. \A c \in Consoles :
            Overlap(c, {"close", "reload"})' = Overlap(c, {"close", "reload"})
        BY <1>1, Stutters DEF Overlap
  <2> QED BY <1>1, <2>1, Stutters DEF NilsKnown
<1>2. ASSUME NEW c \in Consoles, Acts(c) PROVE NilsKnown'
  <2>1. Alone(c) /\ Entering(c) /\ Changing(c)
        BY <1>2, StepOfOne, Enters, Changes
  <2>2. plan' = plan /\ met \subseteq met'
        BY Lasting
  <2>3. \A d \in Consoles : Overlap(d, {"close", "reload"}) => Overlap(d, {"close", "reload"})'
        BY <2>2 DEF Overlap
  <2>4. ASSUME NEW p, NEW list \in AfterFill(c, p), list = "nil"
        PROVE  \E d \in Consoles \ {c} : phase'[d] = p
    <3>1. Filled # "nil"
          BY DEF Filled
    <3> QED BY <2>1, <2>4, <3>1 DEF AfterFill, Alone
  <2>5. ASSUME NEW p, NEW list \in AfterFill(c, p), list = "broken",
               phase[c] \in {"filling", "bridging"}
        PROVE  \E d \in Consoles : plan'[d] = "reload" /\ Overlap(d, {"close", "reload"})'
    <3>1. Published # "broken"
          BY DEF Published
    <3>2. Filled = "broken"
          BY <2>5, <3>1 DEF AfterFill
    <3>3. Robbed(c)
          BY <2>5, <3>2 DEF Filled, Robbed
    <3>4. plan[c] = "reload" /\ Overlap(c, {"close", "reload"})
          BY <2>5, <3>3 DEF Together, PhasesOfPlans, Loads
    <3> QED BY <2>2, <2>3, <3>4
  <2>6. links' = "nil" => \E d \in Consoles : phase'[d] = "filling"
    <3>1. CASE links' = links
      <4>1. ASSUME NEW d \in Consoles, phase[d] = "filling", links = "nil"
            PROVE  links' # "nil" \/ \E e \in Consoles : phase'[e] = "filling"
        <5>1. CASE phase'[d] = "filling"
              BY <5>1
        <5>2. CASE phase'[d] # "filling"
          <6>1. d = c /\ FillLinks(c)
                BY <2>1, <4>1, <5>2 DEF Alone, Entering
          <6>2. links' \in AfterFill(c, "filling")
                BY <4>1, <5>2, <6>1 DEF FillLinks
          <6> QED BY <2>4, <6>2
        <5> QED BY <5>1, <5>2
      <4> QED BY <3>1, <4>1 DEF NilsKnown
    <3>2. CASE Closed(c)
          BY <3>1, <3>2 DEF Closed
    <3>3. CASE CreateNodes(c)
      <4>1. phase'[c] = "filling" \/ links' = links
            BY <3>3 DEF CreateNodes, Enter, TypeOK, HandlerTypes
      <4> QED BY <3>1, <4>1
    <3>4. CASE FillLinks(c)
      <4>1. links' \in AfterFill(c, "filling") \/ links' = links
            BY <3>4 DEF FillLinks
      <4> QED BY <2>4, <3>1, <4>1
    <3> QED BY <2>1, <3>1, <3>2, <3>3, <3>4 DEF Changing
  <2> DEFINE Holes(d) == phase[d] = "bridging" \/ (plan[d] = "reload" /\ end[d] = "ERR")
  <2>7. bridges' = "nil" => \E d \in Consoles : Holes(d)'
    <3>1. CASE bridges' = bridges
      <4>1. ASSUME NEW d \in Consoles, Holes(d), bridges = "nil"
            PROVE  bridges' # "nil" \/ \E e \in Consoles : Holes(e)'
        <5>1. CASE phase[d] = "bridging" /\ phase'[d] = "bridging"
              BY <5>1
        <5>2. CASE phase[d] = "bridging" /\ phase'[d] # "bridging"
          <6>1. d = c /\ FillBridges(c)
                BY <2>1, <5>2 DEF Alone, Entering
          <6>2. \/ bridges' \in AfterFill(c, "bridging")
                \/ Return(c, "ERR")
                BY <5>2, <6>1 DEF FillBridges
          <6>3. CASE Return(c, "ERR")
            <7>1. end'[c] = "ERR"
                  BY <6>3 DEF Return, TypeOK, StreamTypes
            <7>2. plan'[c] = "reload"
                  BY <2>2, <5>2, <6>1 DEF PhasesOfPlans, Loads
            <7> QED BY <7>1, <7>2
          <6> QED BY <2>4, <6>2, <6>3
        <5>3. CASE plan[d] = "reload" /\ end[d] = "ERR"
              BY <1>2, <2>2, <5>3, Ratchets
        <5> QED BY <4>1, <5>1, <5>2, <5>3
      <4> QED BY <3>1, <4>1 DEF NilsKnown
    <3>2. CASE Closed(c)
          BY <3>1, <3>2 DEF Closed
    <3>3. CASE FillLinks(c)
      <4>1. phase'[c] = "bridging" \/ bridges' = bridges
            BY <3>3 DEF FillLinks, Enter, TypeOK, HandlerTypes
      <4> QED BY <3>1, <4>1
    <3>4. CASE FillBridges(c)
      <4>1. bridges' \in AfterFill(c, "bridging") \/ bridges' = bridges
            BY <3>4 DEF FillBridges
      <4> QED BY <2>4, <3>1, <4>1
    <3> HIDE DEF Holes
    <3> QED BY <2>1, <3>1, <3>2, <3>3, <3>4 DEF Changing
  <2> DEFINE Robbing == \E d \in Consoles : plan[d] = "reload" /\ Overlap(d, {"close", "reload"})
  <2>8. "broken" \in {links', bridges'} => Robbing'
    <3>1. "broken" \in {links, bridges} => Robbing'
          BY <2>2, <2>3 DEF NilsKnown
    <3>2. links' = "broken" /\ links' # links => Robbing'
      <4>1. ~Closed(c) \/ links' # "broken" \/ links' = links
            BY DEF Closed
      <4>2. ~CreateNodes(c) \/ links' # "broken" \/ links' = links
            BY DEF CreateNodes, Published
      <4>3. FillLinks(c) => /\ phase[c] = "filling"
                            /\ links' \in AfterFill(c, "filling") \/ links' = links
            BY DEF FillLinks
      <4> QED BY <2>1, <2>5, <4>1, <4>2, <4>3 DEF Changing
    <3>3. bridges' = "broken" /\ bridges' # bridges => Robbing'
      <4>1. ~Closed(c) \/ bridges' # "broken" \/ bridges' = bridges
            BY DEF Closed
      <4>2. ~FillLinks(c) \/ bridges' # "broken" \/ bridges' = bridges
            BY DEF FillLinks, Published
      <4>3. FillBridges(c) => /\ phase[c] = "bridging"
                              /\ bridges' \in AfterFill(c, "bridging") \/ bridges' = bridges
            BY DEF FillBridges
      <4> QED BY <2>1, <2>5, <4>1, <4>2, <4>3 DEF Changing
    <3> HIDE DEF Robbing
    <3> QED BY <3>1, <3>2, <3>3
  <2> QED BY <2>6, <2>7, <2>8 DEF NilsKnown
<1> QED BY <1>1, <1>2, Shapes

\* A file is cut only while its save goes on, or has failed.
LEMMA CutsStay ==
    ASSUME TypeOK, PhasesOfPlans, Stages, CutsKnown, [Next]_vars
    PROVE  CutsKnown'
<1>1. CASE vars' = vars
      BY <1>1, Stutters DEF CutsKnown, SaveFailed
<1>2. ASSUME NEW c \in Consoles, Acts(c) PROVE CutsKnown'
  <2>1. Alone(c) /\ Entering(c) /\ Changing(c)
        BY <1>2, StepOfOne, Enters, Changes
  <2>2. \A n \in file' : conf'[n] # "none"
        BY <1>2, <2>1, Ratchets DEF CutsKnown, Alone, TypeOK, ProjectTypes
  <2> DEFINE Busy(d, n) == task[d][n] = "cut" \/ (phase[d] = "saving" /\ failed[d])
  <2>3. SUFFICES ASSUME NEW n \in Nodes, dir', conf'[n] = "cut"
                 PROVE  SaveFailed' \/ \E d \in Consoles : Busy(d, n)'
        BY <2>2 DEF CutsKnown
  <2>4. dir
        BY <1>2, <2>3, Ratchets
  <2>5. CASE conf[n] # "cut"
    <3>1. PICK m \in Nodes : SaveNode(c, m) \/ WriteNode(c, m)
          BY <2>1, <2>3, <2>5 DEF Changing
    <3>2. SaveNode(c, n)
          BY <2>3, <2>4, <2>5, <3>1 DEF SaveNode, WriteNode, TypeOK, ProjectTypes
    <3> QED BY <2>3, <2>5, <3>2 DEF SaveNode, Becomes, TypeOK, HandlerTypes, ProjectTypes
  <2>6. CASE conf[n] = "cut" /\ SaveFailed
        BY <1>2, <2>6, Ratchets
  <2>7. ASSUME conf[n] = "cut", NEW d \in Consoles, Busy(d, n)
        PROVE  SaveFailed' \/ Busy(d, n)'
    <3>1. CASE d # c
          BY <2>1, <2>7, <3>1 DEF Alone
    <3>2. CASE d = c /\ phase[c] = "saving" /\ failed[c]
      <4>1. failed'[c]
            BY <1>2, <3>2, Ratchets
      <4>2. CASE Saved(c)
        <5>1. end'[c] = "ERR"
              BY <3>2, <4>2 DEF Saved, Return, TypeOK, StreamTypes
        <5>2. plan'[c] = "save"
              BY <2>1, <3>2 DEF PhasesOfPlans, Alone
        <5> QED BY <5>1, <5>2 DEF SaveFailed
      <4> QED BY <2>1, <3>2, <4>1, <4>2 DEF Entering
    <3>3. CASE d = c /\ task[c][n] = "cut"
      <4>1. phase[c] = "saving" /\ ~Waited(c)
            BY <3>3 DEF Stages, Waited
      <4>2. phase'[c] = "saving"
            BY <2>1, <4>1 DEF Entering, Saved
      <4>3. CASE task'[c][n] = "cut"
            BY <3>3, <4>3
      <4>4. CASE task'[c][n] # "cut"
        <5>1. WriteNode(c, n)
          <6>1. ASSUME NEW m \in Nodes, SaveNode(c, m) \/ SayNode(c, m) \/ WriteNode(c, m)
                PROVE  WriteNode(c, n)
            <7>1. CASE m = n
                  BY <3>3, <6>1, <7>1 DEF SaveNode, SayNode
            <7>2. CASE m # n
                  BY <3>3, <4>4, <6>1, <7>2 DEF SaveNode, SayNode, WriteNode, Becomes,
                     TypeOK, HandlerTypes
            <7> QED BY <7>1, <7>2
          <6>2. \A m \in Nodes : ~AttachMgnt(c, m)
                BY <4>1 DEF AttachMgnt, Stages
          <6> QED BY <2>1, <3>3, <4>1, <4>4, <6>1, <6>2 DEF Changing, Counted, BeginLoads,
                     StartNode, LoadNode, CloseNode
        <5>2. CASE Becomes(c, n, "say", TRUE)
              BY <3>3, <4>2, <5>2 DEF Becomes, TypeOK, HandlerTypes
        <5>3. CASE conf' = [conf EXCEPT ![n] = IF dir THEN "new" ELSE @]
              BY <2>3, <2>4, <5>3 DEF TypeOK, ProjectTypes
        <5> QED BY <5>1, <5>2, <5>3 DEF WriteNode
      <4> QED BY <4>3, <4>4
    <3> QED BY <2>7, <3>1, <3>2, <3>3
  <2> QED BY <2>4, <2>5, <2>6, <2>7 DEF CutsKnown
<1> QED BY <1>1, <1>2, Shapes

\* A save keeps what it has seen of a node fresh, unless a request that changes
\* what runs overlaps it.
LEMMA FreshStays ==
    ASSUME TypeOK, PhasesOfPlans, Together, NEW c \in Consoles, Acts(c),
           NEW d \in Consoles, phase[d] \in {"saving", "archive"}, NEW n \in Nodes, Fresh(d, n)
    PROVE  Fresh(d, n)'
<1>1. Alone(c) /\ Changing(c)
      BY StepOfOne, Changes
<1>2. plan' = plan /\ met \subseteq met'
      BY <1>1, WayOn DEF Alone
<1>3. CASE Overlap(d, {"run", "reload", "close"})
      BY <1>2, <1>3 DEF Overlap, Fresh
<1>4. ASSUME phase[c] \in {"loading", "closing", "reading", "creating"}
      PROVE  Overlap(d, {"run", "reload", "close"})'
  <2>1. plan[c] \in {"run", "reload", "close"}
        BY <1>4 DEF PhasesOfPlans, Loads
  <2>2. d # c /\ {d, c} \in met
        BY <1>4 DEF Together, UnderWay
  <2> QED BY <1>2, <2>1, <2>2 DEF Overlap
<1>5. CASE nodes' # nodes \/ loaded' # loaded
  <2>1. phase[c] \in {"loading", "closing", "reading", "creating"}
        BY <1>1, <1>5 DEF Changing, Closed, ReadFile, CreateNodes, LoadNode, CloseNode
  <2> QED BY <1>4, <2>1 DEF Fresh
<1>6. CASE nodes' = nodes /\ loaded' = loaded /\ n \notin nodes \cap loaded
      BY <1>6 DEF Fresh
<1> QED BY <1>3, <1>5, <1>6 DEF Fresh

\* What a save reads into its archive.
LEMMA ArchiveStays ==
    ASSUME TypeOK, PhasesOfPlans, Stages, Together, CutsKnown, ArchiveFollows, [Next]_vars
    PROVE  ArchiveFollows'
<1>1. CASE vars' = vars
  <2>1. /\ SaveFailed' = SaveFailed
        /\ \A c \in Consoles, n \in Nodes : Fresh(c, n)' = Fresh(c, n)
        /\ \A c \in Consoles : /\ Overlap(c, {"save"})' = Overlap(c, {"save"})
                               /\ Overlap(c, {"close"})' = Overlap(c, {"close"})
        BY <1>1, Stutters DEF Fresh, SaveFailed, Overlap
  <2> QED BY <1>1, <2>1, Stutters DEF ArchiveFollows
<1>2. ASSUME NEW c \in Consoles, Acts(c) PROVE ArchiveFollows'
  <2>1. Alone(c) /\ Entering(c) /\ Changing(c)
        BY <1>2, StepOfOne, Enters, Changes
  <2>2. plan' = plan /\ met \subseteq met' /\ file' = file
        BY Lasting
  <2>3. \A d \in Consoles : /\ Overlap(d, {"save"}) => Overlap(d, {"save"})'
                            /\ Overlap(d, {"close"}) => Overlap(d, {"close"})'
        BY <2>2 DEF Overlap
  <2> SUFFICES ASSUME NEW d \in Consoles, NEW n \in Nodes
               PROVE  /\ phase'[d] = "saving" /\ ~failed'[d] /\ task'[d][n] # "todo" =>
                            Fresh(d, n)' \/ conf'[n] # "old"
                      /\ phase'[d] = "archive" =>
                            /\ Fresh(d, n)' \/ (conf'[n] # "old" /\ archive'[d][n] # "old")
                            /\ archive'[d][n] = "cut" => Overlap(d, {"save"})' \/ SaveFailed'
                            /\ archive'[d][n] = "none" /\ n \in file' => Overlap(d, {"close"})'
      BY DEF ArchiveFollows
  <2>4. CASE d # c
    <3>1. /\ phase'[d] = phase[d] /\ failed'[d] = failed[d] /\ task'[d] = task[d]
          /\ archive'[d] = archive[d]
          BY <2>1, <2>4 DEF Alone
    <3> QED BY <1>2, <2>2, <2>3, <3>1, FreshStays, Ratchets DEF ArchiveFollows
  <2>5. CASE d = c
    <3>1. ASSUME phase'[c] = "saving", ~failed'[c], task'[c][n] # "todo"
          PROVE  Fresh(c, n)' \/ conf'[n] # "old"
      <4>1. CASE phase[c] = "saving" /\ task[c][n] # "todo"
        <5>1. ~failed[c]
              BY <1>2, <3>1, Ratchets
        <5>2. Fresh(c, n) \/ conf[n] # "old"
              BY <4>1, <5>1 DEF ArchiveFollows
        <5> QED BY <1>2, <4>1, <5>2, FreshStays, Ratchets
      <4>2. CASE phase[c] = "saving" /\ task[c][n] = "todo"
        <5>1. SaveNode(c, n)
          <6>1. ASSUME NEW m \in Nodes, SaveNode(c, m) \/ SayNode(c, m) \/ WriteNode(c, m)
                PROVE  SaveNode(c, n)
            <7>1. CASE m = n
                  BY <4>2, <6>1, <7>1 DEF WriteNode, SayNode
            <7>2. CASE m # n
                  BY <3>1, <4>2, <6>1, <7>2 DEF SaveNode, SayNode, WriteNode, Becomes,
                     TypeOK, HandlerTypes
            <7> QED BY <7>1, <7>2
          <6>2. \A m \in Nodes : ~AttachMgnt(c, m)
                BY <4>2 DEF AttachMgnt, Stages
          <6> QED BY <2>1, <3>1, <4>2, <6>1, <6>2 DEF Changing, Counted, BeginLoads, StartNode,
                     LoadNode, CloseNode
        <5>2. CASE n \notin loaded /\ loaded' = loaded
              BY <5>2 DEF Fresh
        <5>3. CASE Becomes(c, n, "say", TRUE)
              BY <3>1, <5>3 DEF Becomes, TypeOK, HandlerTypes
        <5>4. CASE conf' = [conf EXCEPT ![n] = "cut"]
              BY <5>4 DEF TypeOK, ProjectTypes
        <5> QED BY <5>1, <5>2, <5>3, <5>4 DEF SaveNode
      <4>3. CASE phase[c] # "saving"
        <5>1. Counted(c) /\ Launch(c) /\ nodes' = nodes
          <6>1. Counted(c)
                BY <2>1, <3>1, <4>3 DEF Entering
          <6> QED BY <3>1, <6>1 DEF Counted, Enter, TypeOK, HandlerTypes
        <5>2. n \notin nodes
              BY <3>1, <5>1 DEF Launch, TypeOK, HandlerTypes
        <5> QED BY <5>1, <5>2 DEF Fresh
      <4> QED BY <4>1, <4>2, <4>3
    <3>2. ASSUME phase'[c] = "archive", phase[c] # "archive"
          PROVE  /\ Fresh(c, n)' \/ (conf'[n] # "old" /\ archive'[c][n] # "old")
                 /\ archive'[c][n] # "cut"
                 /\ n \in file => archive'[c][n] # "none"
      <4>1. Saved(c)
            BY <2>1, <3>2 DEF Entering
      <4>2. /\ phase[c] = "saving" /\ Waited(c) /\ ~failed[c] /\ archive'[c] = Unread
            BY <3>2, <4>1 DEF Saved, Return, Enter, TypeOK, HandlerTypes
      <4>3. task[c][n] # "todo"
            BY <4>2 DEF Waited
      <4>4. Fresh(c, n) \/ conf[n] # "old"
            BY <4>2, <4>3 DEF ArchiveFollows
      <4>5. Fresh(c, n)' \/ conf'[n] # "old"
            BY <1>2, <4>2, <4>4, FreshStays, Ratchets
      <4> QED BY <4>2, <4>5 DEF Unread
    <3>3. ASSUME phase[c] = "archive"
          PROVE  /\ Fresh(c, n)' \/ (conf'[n] # "old" /\ archive'[c][n] # "old")
                 /\ archive'[c][n] = "cut" => Overlap(c, {"save"})' \/ SaveFailed'
                 /\ archive'[c][n] = "none" /\ n \in file => Overlap(c, {"close"})'
      <4>1. /\ Fresh(c, n) \/ (conf[n] # "old" /\ archive[c][n] # "old")
            /\ archive[c][n] = "cut" => Overlap(c, {"save"}) \/ SaveFailed
            /\ archive[c][n] = "none" /\ n \in file => Overlap(c, {"close"})
            BY <3>3 DEF ArchiveFollows
      <4>2. /\ plan[c] = "save" /\ c \in UnderWay
            /\ \A m \in Nodes : task[c][m] = "done"
            BY <3>3 DEF PhasesOfPlans, UnderWay, Stages, Waited
      <4>3. CASE archive'[c][n] = archive[c][n]
            BY <1>2, <2>3, <3>3, <4>1, <4>3, FreshStays, Ratchets
      <4>4. CASE archive'[c][n] = "none" /\ ~dir
        <5>1. Overlap(c, {"close"})
              BY <4>2, <4>4 DEF Together
        <5> QED BY <1>2, <2>3, <3>3, <4>1, <4>4, <5>1, FreshStays, Ratchets
      <4>5. CASE archive'[c][n] = conf[n] /\ dir
        <5>1. n \in file => conf[n] # "none"
              BY DEF CutsKnown
        <5>2. conf[n] = "cut" => Overlap(c, {"save"}) \/ SaveFailed
          <6>1. ASSUME NEW e \in Consoles, phase[e] = "saving"
                PROVE  Overlap(c, {"save"})
            <7>1. e # c /\ e \in UnderWay /\ plan[e] = "save"
                  BY <3>3, <6>1 DEF PhasesOfPlans, UnderWay
            <7> QED BY <4>2, <7>1 DEF Together, Overlap
          <6>2. \A e \in Consoles : task[e][n] = "cut" => phase[e] = "saving"
                BY DEF Stages
          <6> QED BY <4>5, <6>1, <6>2 DEF CutsKnown
        <5> QED BY <1>2, <2>3, <3>3, <4>1, <4>5, <5>1, <5>2, FreshStays, Ratchets
      <4>6. \/ archive'[c][n] = archive[c][n]
            \/ archive'[c][n] = "none" /\ ~dir
            \/ archive'[c][n] = conf[n] /\ dir
            BY <2>1, <3>3 DEF Changing, Saved, ArchiveFile, TypeOK, HandlerTypes
      <4> QED BY <4>3, <4>4, <4>5, <4>6
    <3> QED BY <2>2, <2>5, <3>1, <3>2, <3>3
  <2> QED BY <2>4, <2>5
<1> QED BY <1>1, <1>2, Shapes

-----------------------------------------------------------------------------
(* The answers.                                                             *)

\* The console of a save answers what became of its file.
LEMMA AnswersStay ==
    ASSUME TypeOK, PhasesOfPlans, Stages, AnswersFollow, [Next]_vars
    PROVE  AnswersFollow'
<1>1. CASE vars' = vars
      BY <1>1, Stutters DEF AnswersFollow
<1>2. ASSUME NEW c \in Consoles, Acts(c) PROVE AnswersFollow'
  <2>1. Alone(c) /\ Entering(c) /\ Changing(c)
        BY <1>2, StepOfOne, Enters, Changes
  <2> SUFFICES /\ result'[c] = "ok" => end'[c] = "EOF"
               /\ plan[c] = "save" =>
                     /\ result'[c] = "ok" => disk'[c] = "written"
                     /\ con'[c] = "wait" /\ (phase'[c] = "return" \/ end'[c] = "EOF") =>
                           disk'[c] = "written" \/ result'[c] = "error"
      BY <2>1 DEF AnswersFollow, Alone
  <2>2. end[c] # "none" => end'[c] = end[c]
        BY <1>2, Ratchets
  <2>3. /\ result[c] = "ok" => end[c] = "EOF"
        /\ plan[c] = "save" =>
              /\ result[c] = "ok" => disk[c] = "written"
              /\ con[c] = "wait" /\ (phase[c] = "return" \/ end[c] = "EOF") =>
                    disk[c] = "written" \/ result[c] = "error"
        BY DEF AnswersFollow
  <2>4. CASE SendFinal(c)
    <3>1. end[c] = "none" /\ result' = result /\ end' = end
          BY <2>4 DEF SendFinal, Stages, stream
    <3>2. plan[c] = "save" => con'[c] # "wait"
          BY <2>4 DEF SendFinal, Alive, TypeOK, ConsoleTypes
    <3> QED BY <2>3, <3>1, <3>2
  <2>5. CASE WriteFile(c)
    <3>1. end' = end /\ phase' = phase
          BY <2>5 DEF WriteFile, handler, stream
    <3> QED BY <2>3, <2>5, <3>1 DEF WriteFile, TypeOK, ConsoleTypes
  <2>6. CASE RecvEnd(c)
    <3>1. end' = end /\ phase' = phase /\ disk' = disk
          BY <2>6 DEF RecvEnd, handler, stream
    <3> QED BY <2>3, <2>6, <3>1 DEF RecvEnd, TypeOK, ConsoleTypes
  <2>7. CASE result' = result /\ disk' = disk /\ ~SendFinal(c) /\ ~WriteFile(c) /\ ~RecvEnd(c)
    <3>1. con'[c] = "wait" => con[c] = "wait"
          BY <2>1, <2>7 DEF Changing, Forward, Show, ShowCount, Increment, Kill, TypeOK,
             ConsoleTypes
    <3>2. plan[c] = "save" /\ phase'[c] = "return" => phase[c] = "return"
          BY <2>1, <2>7 DEF Entering, RemoveDir, PhasesOfPlans
    <3>3. end'[c] = "EOF" => end[c] = "EOF" \/ phase[c] = "return"
      <4>1. ASSUME Return(c, "ERR") PROVE end'[c] = "ERR"
            BY <4>1 DEF Return, TypeOK, StreamTypes
      <4>2. ASSUME end' # end, end'[c] = "EOF" PROVE Answer(c)
        <5>1. phase'[c] = "returned" /\ phase[c] # "returned"
              BY <2>1, <4>2 DEF Changing, Return, Enter, Entering, TypeOK, HandlerTypes
        <5>2. CASE Begin(c) \/ Started(c) \/ SetupLink(c) \/ Loaded(c) \/ Saved(c) \/ ReadFile(c)
              BY <4>1, <4>2, <5>2 DEF Begin, Started, SetupLink, Loaded, Saved, ReadFile, stream,
                 Put
        <5>4. CASE BeginLoads(c) \/ CreateNodes(c) \/ FillBridges(c)
              BY <4>1, <4>2, <5>4 DEF BeginLoads, CreateNodes, FillBridges, stream
        <5>3. ASSUME NEW n \in Nodes, ArchiveFile(c, n) PROVE Answer(c)
              BY <4>1, <4>2, <5>3 DEF ArchiveFile, stream
        <5> QED BY <2>1, <5>1, <5>2, <5>3, <5>4 DEF Entering
      <4> QED BY <4>2 DEF Answer
    <3> QED BY <2>2, <2>3, <2>7, <3>1, <3>2, <3>3
  <2> QED BY <2>1, <2>4, <2>5, <2>6, <2>7 DEF Changing
<1> QED BY <1>1, <1>2, Shapes

-----------------------------------------------------------------------------
(* The panics.                                                              *)

\* What a panic of the daemon or of a console is put down to.
LEMMA PanicsStay ==
    ASSUME TypeOK, PhasesOfPlans, Stages, Together, NilsKnown, StreamsOfPlans, BarsCome,
           PanicsExplained, [Next]_vars
    PROVE  PanicsExplained'
<1>1. CASE vars' = vars
  <2>1. \A c \in Consoles : /\ Overlap(c, {"close"})' = Overlap(c, {"close"})
                            /\ Overlap(c, {"close", "reload"})' = Overlap(c, {"close", "reload"})
        BY <1>1, Stutters DEF Overlap
  <2> QED BY <1>1, <2>1, Stutters DEF PanicsExplained
<1>2. ASSUME NEW c \in Consoles, Acts(c) PROVE PanicsExplained'
  <2>1. Alone(c) /\ Changing(c)
        BY <1>2, StepOfOne, Changes
  <2>2. plan' = plan /\ met \subseteq met'
        BY Lasting
  <2>3. \A d \in Consoles : /\ Overlap(d, {"close"}) => Overlap(d, {"close"})'
                            /\ Overlap(d, {"close", "reload"}) =>
                                  Overlap(d, {"close", "reload"})'
        BY <2>2 DEF Overlap
  <2> DEFINE Reason ==
        \E d \in Consoles : \/ plan[d] = "save" /\ Overlap(d, {"close"})
                            \/ plan[d] = "run" /\ ~ovs /\ ~running
                            \/ plan[d] \in {"run", "reload"} /\ Overlap(d, {"close", "reload"})
                            \/ plan[d] = "reload" /\ end[d] = "ERR" /\ bridges = "nil"
  <2>4. daemon' = "panic" => Reason'
    <3>1. CASE daemon = "panic"
      <4>1. ovs' = ovs /\ running' = running /\ bridges' = bridges /\ end' = end
            BY <1>2, <3>1 DEF Acts, Receive, WriteFile, RecvEnd, Kill, project, stream
      <4>2. Reason
            BY <3>1 DEF PanicsExplained
      <4> QED BY <2>2, <2>3, <4>1, <4>2
    <3>2. ASSUME daemon # "panic", daemon' = "panic", Counted(c) PROVE Reason'
      <4>1. ~ovs /\ ~running /\ ovs' = ovs /\ running' = running
            BY <3>2 DEF Counted
      <4>2. plan[c] = "run" \/ phase[c] = "again"
            BY <3>2 DEF Counted
      <4>3. CASE plan[c] = "run"
            BY <2>2, <4>1, <4>3
      <4>4. CASE phase[c] = "again"
        <5>1. plan[c] = "reload" /\ Overlap(c, {"close", "reload"})
              BY <4>1, <4>4 DEF PhasesOfPlans, Together, Robbed
        <5> QED BY <2>2, <2>3, <5>1
      <4> QED BY <4>2, <4>3, <4>4
    <3>3. ASSUME daemon # "panic", daemon' = "panic", NEW n \in Nodes, ArchiveFile(c, n)
          PROVE  Reason'
      <4>1. ~dir /\ phase[c] = "archive"
            BY <3>3 DEF ArchiveFile
      <4>2. plan[c] = "save" /\ Overlap(c, {"close"})
            BY <4>1 DEF PhasesOfPlans, Together, UnderWay
      <4> QED BY <2>2, <2>3, <4>2
    <3>4. ASSUME plan[c] \in {"run", "reload"}, Overlap(c, {"close", "reload"}) PROVE Reason'
          BY <2>2, <2>3, <3>4
    <3>5. ASSUME NEW d \in UnderWay, plan[d] = "reload", c \in UnderWay, d # c,
                 plan[c] \in {"run", "reload", "close"}
          PROVE  Reason'
      <4>1. {c, d} \in met /\ {d, c} = {c, d}
            BY <3>5 DEF Together
      <4>2. d \in Consoles
            BY DEF UnderWay
      <4>3. CASE plan[c] = "close"
        <5>1. Overlap(d, {"close", "reload"})
              BY <3>5, <4>1, <4>3 DEF Overlap
        <5> QED BY <2>2, <2>3, <3>5, <4>2, <5>1
      <4>4. CASE plan[c] # "close"
        <5>1. Overlap(c, {"close", "reload"})
              BY <3>5, <4>1, <4>2 DEF Overlap
        <5> QED BY <3>4, <3>5, <4>4, <5>1
      <4> QED BY <4>3, <4>4
    <3>6. ASSUME "broken" \in {links, bridges} PROVE Reason'
          BY <2>2, <2>3, <3>6 DEF NilsKnown
    <3>7. ASSUME bridges = "nil", bridges' = bridges, end' = end, c \in UnderWay,
                 phase[c] # "bridging", plan[c] \in {"run", "reload", "close"}
          PROVE  Reason'
      <4>1. PICK d \in Consoles : phase[d] = "bridging" \/ (plan[d] = "reload" /\ end[d] = "ERR")
            BY <3>7 DEF NilsKnown
      <4>2. CASE phase[d] = "bridging"
        <5>1. d \in UnderWay /\ plan[d] = "reload" /\ d # c
              BY <3>7, <4>2 DEF UnderWay, PhasesOfPlans, Loads
        <5> QED BY <3>5, <3>7, <5>1
      <4>3. CASE plan[d] = "reload" /\ end[d] = "ERR"
            BY <2>2, <3>7, <4>3
      <4> QED BY <4>1, <4>2, <4>3
    <3>8. ASSUME daemon # "panic", daemon' = "panic", NEW n \in Nodes, AttachMgnt(c, n)
          PROVE  Reason'
      <4>1. Robbed(c)
            BY <3>8 DEF AttachMgnt, Robbed, TypeOK, ProjectTypes
      <4>2. phase[c] = "starting"
            BY <3>8 DEF AttachMgnt, Stages
      <4>3. plan[c] \in {"run", "reload"} /\ Overlap(c, {"close", "reload"})
            BY <4>1, <4>2 DEF Together, PhasesOfPlans
      <4> QED BY <3>4, <4>3
    <3>9. ASSUME daemon # "panic", daemon' = "panic", SetupLink(c) PROVE Reason'
      <4>1. phase[c] = "linking" /\ links \in {"nil", "broken"}
            BY <3>9 DEF SetupLink
      <4>2. CASE links = "nil"
        <5>1. PICK d \in Consoles : phase[d] = "filling"
              BY <4>2 DEF NilsKnown
        <5>2. /\ d \in UnderWay /\ plan[d] = "reload" /\ d # c
              /\ c \in UnderWay /\ plan[c] \in {"run", "reload"}
              BY <4>1, <5>1 DEF UnderWay, PhasesOfPlans, Loads
        <5> QED BY <3>5, <5>2
      <4>3. CASE links = "broken"
            BY <3>6, <4>3
      <4> QED BY <4>1, <4>2, <4>3
    <3>10. ASSUME daemon # "panic", daemon' = "panic", BeginLoads(c) \/ Closed(c)
           PROVE  Reason'
      <4>1. /\ phase[c] \in {"linked", "closing"} /\ bridges \in {"nil", "broken"}
            /\ bridges' = bridges /\ end' = end
            BY <3>10 DEF BeginLoads, Closed, stream
      <4>2. c \in UnderWay /\ plan[c] \in {"run", "reload", "close"}
            BY <4>1 DEF UnderWay, PhasesOfPlans
      <4> QED BY <3>6, <3>7, <4>1, <4>2
    <3>11. ASSUME daemon # "panic", daemon' = "panic", FillLinks(c) \/ FillBridges(c)
           PROVE  Reason'
      <4>1. phase[c] \in {"filling", "bridging"} /\ Robbed(c)
            BY <3>11 DEF FillLinks, FillBridges, Robbed
      <4>2. plan[c] = "reload" /\ Overlap(c, {"close", "reload"})
            BY <4>1 DEF Together, PhasesOfPlans, Loads
      <4> QED BY <3>4, <4>2
    <3> HIDE DEF Reason
    <3> QED BY <2>1, <3>1, <3>2, <3>3, <3>8, <3>9, <3>10, <3>11 DEF Changing
  <2>5. ASSUME NEW d \in Consoles, con'[d] = "panic"
        PROVE  plan[d] = "run" \/ Overlap(d, {"close", "reload"})
    <3>1. CASE con[d] = "panic"
          BY <3>1 DEF PanicsExplained
    <3>2. CASE con[d] # "panic"
      <4>1. d = c
            BY <2>1, <2>5, <3>2 DEF Alone
      <4>2. Forward(c)
            BY <2>1, <2>5, <3>2, <4>1 DEF Changing, SendFinal, WriteFile, RecvEnd, Kill, TypeOK,
               ConsoleTypes
      <4>3. Alive(c) /\ plan[c] # "reload"
            BY <2>5, <3>2, <4>1, <4>2 DEF Forward, Show
      <4>4. SUFFICES ASSUME plan[c] # "run", ~Overlap(c, {"close", "reload"}) PROVE FALSE
            BY <4>1
      <4>5. plan[c] \in {"save", "close"}
            BY <4>3, <4>4 DEF TypeOK, ProjectTypes, Kinds
      <4>6. ~shut[c] /\ hold[c] \in Counts \cup {"saved", "closed"}
            BY <4>2, <4>3, <4>4 DEF StreamsOfPlans, Forward
      <4>7. CASE hold[c] \in Counts
            BY <2>5, <3>2, <4>1, <4>2, <4>3, <4>6, <4>7 DEF Forward, Show, ShowCount, TypeOK,
               ConsoleTypes
      <4>8. CASE hold[c] \in {"saved", "closed"}
        <5>1. "node" \in bars[c]
              BY <4>3, <4>4, <4>5, <4>8 DEF BarsCome
        <5> QED BY <2>5, <3>2, <4>1, <4>2, <4>3, <4>8, <5>1 DEF Forward, Show, Increment,
                   Counts, TypeOK, ConsoleTypes
      <4> QED BY <4>6, <4>7, <4>8
    <3> QED BY <3>1, <3>2
  <2>6. \A d \in Consoles : con'[d] = "panic" =>
            plan'[d] = "run" \/ Overlap(d, {"close", "reload"})'
        BY <2>2, <2>3, <2>5
  <2> QED BY <2>4, <2>6 DEF PanicsExplained
<1> QED BY <1>1, <1>2, Shapes

-----------------------------------------------------------------------------
(* The theorems.                                                            *)

\* The invariant holds before any request begins.
LEMMA InitIInv == Init => IInv
<1> SUFFICES ASSUME Init PROVE IInv
    OBVIOUS
<1>1. TypeOK
      BY InitTypes
<1>2. /\ \A c \in Consoles : /\ phase[c] = "begin" /\ pending[c] = <<>> /\ end[c] = "none"
                             /\ chan[c] = <<>> /\ hold[c] = "idle" /\ ~shut[c]
                             /\ con[c] = "wait" /\ result[c] = "none"
      /\ links \in {"none", "whole"} /\ bridges = links
      /\ \A c \in Consoles, n \in Nodes : task[c][n] = "done"
      /\ \A n \in Nodes : conf[n] = IF n \in file THEN "old" ELSE "none"
      /\ dir /\ daemon = "up"
      BY DEF Init
<1>3. PhasesOfPlans /\ Stages
      BY <1>2 DEF PhasesOfPlans, Loads, Stages, Waited
<1>4. Together /\ NilsKnown
      BY <1>2 DEF Together, NilsKnown, UnderWay, Robbed
<1>5. StreamsOfPlans /\ BarsCome
      BY <1>2 DEF StreamsOfPlans, BarsCome, Waited
<1>6. CutsKnown
      BY <1>1, <1>2 DEF CutsKnown, TypeOK, ProjectTypes
<1>7. ArchiveFollows /\ AnswersFollow
      BY <1>2 DEF ArchiveFollows, AnswersFollow
<1>8. PanicsExplained
      BY <1>2 DEF PanicsExplained
<1> QED BY <1>1, <1>3, <1>4, <1>5, <1>6, <1>7, <1>8 DEF IInv

\* Every step keeps it.
LEMMA NextKeepsIInv == IInv /\ [Next]_vars => IInv'
BY TypesStay, PhasesStay, StagesStay, TogetherStays, NilsStay, StreamsStay, BarsStay,
   CutsStay, ArchiveStays, AnswersStay, PanicsStay DEF IInv

\* The inductive invariant holds in every reachable state.
THEOREM Invariant == Spec => []IInv
BY InitIInv, NextKeepsIInv, PTL DEF Spec

\* The variables have their types in every reachable state.
THEOREM TypeCorrect == Spec => []TypeOK
<1>1. IInv => TypeOK
  BY DEF IInv
<1> QED BY <1>1, Invariant, PTL

\* The daemon and the consoles panic for no other reason than those listed.
THEOREM PanicsHaveReasons == Spec => []PanicsExplained
<1>1. IInv => PanicsExplained
  BY DEF IInv
<1> QED BY <1>1, Invariant, PTL

\* A save without overlap gives a whole archive and a whole file, and what is
\* wrong with another one is put down to what overlapped it.
THEOREM ArchivesAreWhole == Spec => ArchiveIsWhole
<1> DEFINE Body ==
      \A c \in Consoles :
          /\ phase[c] = "archive" /\ phase'[c] = "final" =>
                \A n \in file :
                   /\ archive[c][n] = "cut" =>
                         \/ Overlap(c, {"save"})
                         \/ \E d \in Consoles : plan[d] = "save" /\ end[d] = "ERR"
                   /\ archive[c][n] = "none" => Overlap(c, {"close"})
                   /\ archive[c][n] = "old" /\ n \in nodes \cap loaded =>
                         Overlap(c, {"run", "reload", "close"})
          /\ plan[c] = "save" /\ result'[c] = "ok" => disk'[c] = "written"
<1>1. IInv /\ [Next]_vars => [Body]_vars
  <2> SUFFICES ASSUME IInv, [Next]_vars PROVE Body
      OBVIOUS
  <2>1. AnswersFollow' /\ plan' = plan
        BY AnswersStay, Lasting DEF IInv
  <2>2. file \subseteq Nodes
        BY DEF IInv, TypeOK, ProjectTypes
  <2>3. ArchiveFollows
        BY DEF IInv
  <2> QED BY <2>1, <2>2, <2>3 DEF AnswersFollow, ArchiveFollows, Fresh, SaveFailed
<1>2. ArchiveIsWhole <=> [][Body]_vars
  BY PTL DEF ArchiveIsWhole
<1> HIDE DEF Body
<1> QED BY <1>1, <1>2, Invariant, PTL DEF Spec

=============================================================================
