------------------------------ MODULE NodeExec ------------------------------
(***************************************************************************)
(* One NodeExec session: a command run in a node from a console, with its  *)
(* terminal.  Three parties, each with several goroutines:                 *)
(*                                                                         *)
(*   - the console (console/exec.go, nodeExec): a goroutine polls the      *)
(*     standard input, one receives the messages of the server, the main   *)
(*     one waits for both; signals send RESIZE and CLOSE messages;         *)
(*   - the handler (server.go, NodeExec): a goroutine receives messages    *)
(*     and writes the input pipe, one reads the output pipe and sends      *)
(*     messages, the main one runs the command and waits for both;         *)
(*   - the docker client (client.go, ExecTty), called by the main          *)
(*     goroutine of the handler: one goroutine copies the output of the    *)
(*     command into the output pipe, one copies the input pipe into the    *)
(*     connection to the command, one resizes the terminal.                *)
(*                                                                         *)
(* An io.Pipe has no buffer: Write returns when its data was read.  The    *)
(* channels have no buffer either: a send is a rendezvous, and a goroutine *)
(* that has something to send is in state "offer".  The grpc stream is a   *)
(* queue of messages in each direction.  Pieces of output, and pieces of   *)
(* input, are numbered in the order they are produced.                     *)
(***************************************************************************)
EXTENDS Naturals, Sequences

CONSTANTS
    Loads   \* the sessions to consider: how many pieces of output the
            \* command writes, how many pieces of input are typed and how
            \* many times the terminal is resized, at most

VARIABLES
    project,      \* "open" or "closed": the project is in openProjects
    container,    \* "up" or "down": the container of the node
    load,         \* the bounds of this session
    terminal,     \* "open" or "hungup": the terminal of the console
    conMain,      \* the main goroutine of the console
    conIn,        \* its goroutine on the standard input
    verdict,      \* why its goroutine on the output stopped to receive
    typed, resizes, \* how many DATA and RESIZE messages were sent
    shown,        \* the pieces of output written on the terminal
    link,         \* the stream seen from the server: open, half closed, gone
    toSrv, toCon, \* the messages in transit
    srvMain, srvRecv, srvOut, \* the goroutines of the handler
    inData,       \* the piece srvRecv writes in the input pipe
    piece,        \* the piece srvOut read and has not sent
    outCopy, inCopy, \* the copying goroutines of ExecTty
    outBuf,       \* what is left of the data outCopy writes in the pipe
    conn,         \* the connection to the command: none, open or closed
    connOut,      \* output of the command waiting in the connection
    command,      \* none, running or ended
    produced,     \* pieces of output the command has written
    received      \* the pieces of input the command was given

conVars == <<load, terminal, conMain, conIn, verdict, typed, resizes, shown>>
srvVars == <<srvMain, srvRecv, srvOut, inData, piece>>
ttyVars == <<outCopy, inCopy, outBuf, conn>>
cmdVars == <<connOut, command, produced, received>>
netVars == <<link, toSrv, toCon>>
nodeVars == <<project, container>>

Message == [code : {"DATA", "STDOUT"}, data : Nat]
               \cup [code : {"RESIZE", "CLOSE", "ERROR"}]

TypeOK ==
    /\ load \in Loads
    /\ terminal \in {"open", "hungup"}
    /\ conMain \in {"output", "input", "left", "killed"}
    /\ conIn \in {"poll", "send", "offer", "off"}
    /\ verdict \in {"none", "closed", "error", "lost"}
    /\ typed \in 0..load.typed /\ resizes \in 0..load.resizes
    /\ shown \in Seq(1..load.pieces)
    /\ link \in {"open", "half", "gone"}
    /\ toSrv \in Seq(Message) /\ toCon \in Seq(Message)
    /\ srvMain \in {"begin", "exec", "select", "close", "error", "wait",
                    "returned"}
    /\ srvRecv \in {"off", "recv", "write", "resize", "ended"}
    /\ srvOut \in {"off", "read", "send", "ended"}
    /\ inData \in 0..load.typed /\ piece \in 0..load.pieces
    /\ outCopy \in {"off", "read", "write", "ended"}
    /\ inCopy \in {"off", "read", "ended"}
    /\ outBuf \in Seq(1..load.pieces) /\ connOut \in Seq(1..load.pieces)
    /\ conn \in {"none", "open", "closed"}
    /\ command \in {"none", "running", "ended"}
    /\ produced \in 0..load.pieces
    /\ received \in Seq(1..load.typed)

(* The console has opened the stream and sent CMD; the handler has not     *)
(* looked at it yet.                                                       *)
Init ==
    /\ load \in Loads
    /\ terminal = "open" /\ conMain = "output" /\ conIn = "poll"
    /\ verdict = "none" /\ typed = 0 /\ resizes = 0 /\ shown = <<>>
    /\ link = "open" /\ toSrv = <<>> /\ toCon = <<>>
    /\ srvMain = "begin" /\ srvRecv = "off" /\ srvOut = "off"
    /\ inData = 0 /\ piece = 0
    /\ outCopy = "off" /\ inCopy = "off" /\ outBuf = <<>>
    /\ conn = "none" /\ connOut = <<>> /\ command = "none"
    /\ produced = 0 /\ received = <<>>

-----------------------------------------------------------------------------
(* The console.                                                            *)

Finished == srvMain = "returned"      \* the status of the call was sent
outputClosed == conMain # "output"    \* set when the main goroutine goes on

(* One turn of the loop on the standard input: the flag is read after the  *)
(* poll, before the read and the Send of what was read.                    *)
PollInput ==
    /\ conIn = "poll"
    /\ \/ /\ outputClosed \/ terminal = "hungup"    \* told to stop, or EOF
          /\ conIn' = "offer"
       \/ /\ ~outputClosed /\ terminal = "open" /\ typed < load.typed
          /\ conIn' = "send"
    /\ UNCHANGED <<nodeVars, load, terminal, conMain, verdict, typed, resizes, shown,
                   srvVars, ttyVars, cmdVars, netVars>>

SendInput ==
    /\ conIn = "send"
    /\ IF Finished
       THEN conIn' = "offer" /\ UNCHANGED <<typed, toSrv>>
       ELSE /\ conIn' = "poll"
            /\ typed' = typed + 1
            /\ toSrv' = Append(toSrv, [code |-> "DATA", data |-> typed'])
    /\ UNCHANGED <<nodeVars, load, terminal, conMain, verdict, resizes, shown, srvVars,
                   ttyVars, cmdVars, link, toCon>>

(* SIGWINCH and SIGHUP are handled by a goroutine that never ends.         *)
SendResize ==
    /\ conMain \in {"output", "input"} /\ ~Finished
    /\ terminal = "open" /\ resizes < load.resizes
    /\ resizes' = resizes + 1
    /\ toSrv' = Append(toSrv, [code |-> "RESIZE"])
    /\ UNCHANGED <<nodeVars, load, terminal, conMain, conIn, verdict, typed, shown,
                   srvVars, ttyVars, cmdVars, link, toCon>>

Hangup ==
    /\ conMain \in {"output", "input"} /\ terminal = "open"
    /\ terminal' = "hungup"
    /\ toSrv' = IF Finished THEN toSrv ELSE Append(toSrv, [code |-> "CLOSE"])
    /\ UNCHANGED <<nodeVars, load, conMain, conIn, verdict, typed, resizes, shown,
                   srvVars, ttyVars, cmdVars, link, toCon>>

(* One turn of the loop on the messages of the server.  The last one ends  *)
(* the first wait of the main goroutine, which then sets outputClosed.     *)
RecvOutput ==
    /\ conMain = "output"
    /\ \/ /\ toCon # <<>> /\ Head(toCon).code = "STDOUT" /\ terminal = "open"
          /\ shown' = Append(shown, Head(toCon).data)
          /\ toCon' = Tail(toCon)
          /\ UNCHANGED <<conMain, verdict>>
       \/ /\ toCon # <<>> /\ (Head(toCon).code = "STDOUT" => terminal = "hungup")
          /\ verdict' = IF Head(toCon).code = "CLOSE" THEN "closed"
                        ELSE IF Head(toCon).code = "ERROR" THEN "error"
                        ELSE "lost"                      \* the write failed
          /\ conMain' = "input"
          /\ toCon' = Tail(toCon)
          /\ UNCHANGED shown
       \/ /\ toCon = <<>> /\ Finished
          /\ verdict' = "lost"
          /\ conMain' = "input"
          /\ UNCHANGED <<toCon, shown>>
    /\ UNCHANGED <<nodeVars, load, terminal, conIn, typed, resizes, srvVars, ttyVars,
                   cmdVars, link, toSrv>>

(* The second wait; then the stream is half closed, and a console of its   *)
(* own (StartRemoteConsole) closes the connection, while the prompt keeps  *)
(* it.                                                                     *)
WaitInput ==
    /\ conMain = "input" /\ conIn = "offer"
    /\ conMain' = "left" /\ conIn' = "off"
    /\ link' \in {"half", "gone"}
    /\ UNCHANGED <<nodeVars, load, terminal, verdict, typed, resizes, shown, srvVars,
                   ttyVars, cmdVars, toSrv, toCon>>

(* The process of the console is killed (the prompt kills the terminals it *)
(* started when the project is closed), or the prompt exits later.         *)
Kill ==
    /\ link # "gone" /\ link' = "gone"
    /\ IF conMain = "left"
       THEN UNCHANGED <<conMain, conIn>>
       ELSE conMain' = "killed" /\ conIn' = "off"
    /\ UNCHANGED <<nodeVars, load, terminal, verdict, typed, resizes, shown, srvVars,
                   ttyVars, cmdVars, toSrv, toCon>>

-----------------------------------------------------------------------------
(* The handler.  A message is sent while the connection is there; Send     *)
(* fails when it is gone.                                                  *)

Sent(m) == toCon' = IF link = "gone" THEN toCon ELSE Append(toCon, m)

Lookup ==
    /\ srvMain = "begin"
    /\ IF project = "open"
       THEN /\ srvMain' = "exec" /\ srvRecv' = "recv" /\ srvOut' = "read"
            /\ UNCHANGED toCon
       ELSE /\ srvMain' = "returned"
            /\ Sent([code |-> "ERROR"])
            /\ UNCHANGED <<srvRecv, srvOut>>
    /\ UNCHANGED <<nodeVars, conVars, inData, piece, ttyVars, cmdVars, link,
                   toSrv>>

(* node.ExecCommand fails when the node does not run or docker refuses;    *)
(* otherwise ExecTty starts its goroutines and waits for the output (that  *)
(* the input is over only means that it waits for nothing else).           *)
StartCommand ==
    /\ srvMain = "exec"
    /\ \/ /\ container = "up"
          /\ srvMain' = "select" /\ command' = "running" /\ conn' = "open"
          /\ outCopy' = "read" /\ inCopy' = "read"
       \/ /\ srvMain' = "error"
          /\ UNCHANGED <<command, conn, outCopy, inCopy>>
    /\ UNCHANGED <<nodeVars, conVars, srvRecv, srvOut, inData, piece, outBuf,
                   connOut, produced, received, netVars>>

(* CLOSE, or ERROR with the error of ExecCommand, is sent by the main      *)
(* goroutine while srvOut may hold a piece; then wOut.Close.               *)
Reply ==
    /\ srvMain \in {"close", "error"}
    /\ Sent([code |-> IF srvMain = "close" THEN "CLOSE" ELSE "ERROR"])
    /\ srvMain' = "wait"
    /\ UNCHANGED <<nodeVars, conVars, srvRecv, srvOut, inData, piece, ttyVars,
                   cmdVars, link, toSrv>>

(* g.Wait.  (The deferred wIn.Close then ends the copy of the input that   *)
(* still reads the pipe: it offers its result to nobody.)                  *)
Return ==
    /\ srvMain = "wait" /\ srvRecv = "ended" /\ srvOut = "ended"
    /\ srvMain' = "returned"
    /\ UNCHANGED <<nodeVars, conVars, srvRecv, srvOut, inData, piece, ttyVars,
                   cmdVars, netVars>>

(* The receiving goroutine.                                                *)
RecvMessage ==
    /\ srvRecv = "recv" /\ toSrv # <<>>
    /\ toSrv' = Tail(toSrv)
    /\ \/ /\ Head(toSrv).code = "DATA"
          /\ srvRecv' = "write" /\ inData' = Head(toSrv).data
       \/ /\ Head(toSrv).code = "RESIZE"
          /\ srvRecv' = "resize" /\ UNCHANGED inData
       \/ /\ Head(toSrv).code = "CLOSE"       \* no way to end the command
          /\ UNCHANGED <<srvRecv, inData>>
    /\ UNCHANGED <<nodeVars, conVars, srvMain, srvOut, piece, ttyVars, cmdVars,
                   link, toCon>>

(* A mistaken variant: only the end of the stream ends the loop.           *)
RecvOnlyEof ==
    /\ srvRecv = "recv" /\ link = "half" /\ toSrv = <<>>
    /\ srvRecv' = "ended"
    /\ UNCHANGED <<nodeVars, conVars, srvMain, srvOut, inData, piece, ttyVars,
                   cmdVars, netVars>>

RecvEnd ==
    /\ srvRecv = "recv"
    /\ link = "gone" \/ (link = "half" /\ toSrv = <<>>)
    /\ srvRecv' = "ended"
    /\ UNCHANGED <<nodeVars, conVars, srvMain, srvOut, inData, piece, ttyVars,
                   cmdVars, netVars>>

(* A mistaken variant: the data stays in the pipe after it was read.       *)
PeekPiece ==
    /\ srvOut = "read"
    /\ \/ /\ outBuf # <<>> /\ srvOut' = "send" /\ piece' = Head(outBuf)
       \/ /\ outBuf = <<>> /\ srvMain = "wait"
          /\ srvOut' = "ended" /\ UNCHANGED piece
    /\ UNCHANGED <<nodeVars, conVars, srvMain, srvRecv, inData, ttyVars,
                   cmdVars, netVars>>

(* The sending goroutine: it ends when the pipe is closed, and at the      *)
(* first Send that fails; then nobody reads the output pipe any more.      *)
ReadPiece ==
    /\ srvOut = "read"
    /\ \/ /\ outBuf # <<>>
          /\ srvOut' = "send" /\ piece' = Head(outBuf) /\ outBuf' = Tail(outBuf)
       \/ /\ outBuf = <<>> /\ srvMain = "wait"
          /\ srvOut' = "ended" /\ UNCHANGED <<piece, outBuf>>
    /\ UNCHANGED <<nodeVars, conVars, srvMain, srvRecv, inData, outCopy, inCopy,
                   conn, cmdVars, netVars>>

(* A mistaken variant: it gives up when the console has sent its last.     *)
SendWhileOpen ==
    /\ srvOut = "send"
    /\ Sent([code |-> "STDOUT", data |-> piece])
    /\ srvOut' = IF link = "open" THEN "read" ELSE "ended"
    /\ piece' = 0
    /\ UNCHANGED <<nodeVars, conVars, srvMain, srvRecv, inData, ttyVars,
                   cmdVars, link, toSrv>>

SendPiece ==
    /\ srvOut = "send"
    /\ Sent([code |-> "STDOUT", data |-> piece])
    /\ srvOut' = IF link = "gone" THEN "ended" ELSE "read"
    /\ piece' = 0
    /\ UNCHANGED <<nodeVars, conVars, srvMain, srvRecv, inData, ttyVars,
                   cmdVars, link, toSrv>>

-----------------------------------------------------------------------------
(* The goroutines of ExecTty and the command.                              *)

(* A mistaken variant: the end of the output is reported while the last    *)
(* buffer is still in the pipe.                                            *)
CopyOutputEarly ==
    /\ \/ /\ outCopy = "read" /\ connOut # <<>>
          /\ outBuf' = connOut /\ connOut' = <<>>
          /\ outCopy' = "write"
          /\ UNCHANGED <<srvMain, conn>>
       \/ /\ outCopy = "write" /\ outBuf = <<>>
          /\ outCopy' = "read"
          /\ UNCHANGED <<srvMain, conn, outBuf, connOut>>
       \/ /\ outCopy # "ended" /\ connOut = <<>> /\ command = "ended"
          /\ outCopy' = "ended"
          /\ srvMain' \in {"close", "error"} /\ conn' = "closed"
          /\ UNCHANGED <<outBuf, connOut>>
    /\ UNCHANGED <<nodeVars, conVars, srvRecv, srvOut, inData, piece, inCopy,
                   command, produced, received, netVars>>

(* io.Copy of the output: a buffer takes what is there, one piece or more, *)
(* and Write returns when the whole buffer was read.  At the end of the    *)
(* output ExecTty inspects the exit code and closes the connection.        *)
CopyOutput ==
    /\ \/ /\ outCopy = "read" /\ connOut # <<>>
          /\ \E n \in 1..Len(connOut) :
                /\ outBuf' = SubSeq(connOut, 1, n)
                /\ connOut' = SubSeq(connOut, n + 1, Len(connOut))
          /\ outCopy' = "write"
          /\ UNCHANGED <<srvMain, conn>>
       \/ /\ outCopy = "write" /\ outBuf = <<>>
          /\ outCopy' = "read"
          /\ UNCHANGED <<srvMain, conn, outBuf, connOut>>
       \/ /\ outCopy = "read" /\ connOut = <<>> /\ command = "ended"
          /\ outCopy' = "ended"
          /\ srvMain' \in {"close", "error"} /\ conn' = "closed"
          /\ UNCHANGED <<outBuf, connOut>>
    /\ UNCHANGED <<nodeVars, conVars, srvRecv, srvOut, inData, piece, inCopy,
                   command, produced, received, netVars>>

(* io.Copy of the input: reading the pipe releases srvRecv; the write of   *)
(* what was read is lost or refused once the command ended, and a write    *)
(* that is refused ends the copy.                                          *)
CopyInput ==
    /\ inCopy = "read" /\ srvRecv = "write"
    /\ srvRecv' = "recv" /\ inData' = 0
    /\ \/ /\ command = "running"
          /\ received' = Append(received, inData) /\ UNCHANGED inCopy
       \/ /\ command = "ended"
          /\ inCopy' \in IF conn = "open" THEN {"read", "ended"} ELSE {"ended"}
          /\ UNCHANGED received
    /\ UNCHANGED <<nodeVars, conVars, srvMain, srvOut, piece, outCopy, outBuf,
                   conn, connOut, command, produced, netVars>>

(* The goroutine that resizes the terminal lives as long as srvRecv does.  *)
ResizeTty ==
    /\ conn # "none" /\ srvRecv = "resize"
    /\ srvRecv' = "recv"
    /\ UNCHANGED <<nodeVars, conVars, srvMain, srvOut, inData, piece, ttyVars,
                   cmdVars, netVars>>

Produce ==
    /\ command = "running" /\ produced < load.pieces
    /\ produced' = produced + 1
    /\ connOut' = Append(connOut, produced')
    /\ UNCHANGED <<nodeVars, conVars, srvVars, ttyVars, command, received,
                   netVars>>

CommandExits ==
    /\ command = "running"
    /\ command' = "ended"
    /\ UNCHANGED <<nodeVars, conVars, srvVars, ttyVars, connOut, produced,
                   received, netVars>>

-----------------------------------------------------------------------------
(* What the goroutines do by themselves, and what the user, the command    *)
(* and the system may do.                                                  *)
Progress ==
    \/ SendInput \/ RecvOutput \/ WaitInput
    \/ Lookup \/ StartCommand \/ Reply \/ Return
    \/ RecvMessage \/ RecvEnd \/ ReadPiece \/ SendPiece
    \/ CopyOutput \/ CopyInput \/ ResizeTty

Next ==
    \/ Progress
    \/ PollInput \/ SendResize \/ Hangup \/ Kill \/ Produce \/ CommandExits

(* What the scheduler and the system bring about: a goroutine that can go  *)
(* on does, the poll of the standard input has a timeout of 100 ms, and a  *)
(* container that is stopped ends its processes.                           *)
PollTimeout == PollInput /\ conIn' = "offer"
CommandKilled == container = "down" /\ CommandExits

-----------------------------------------------------------------------------
(* Properties.                                                             *)

(* srvRecv is blocked on a pipe or a channel nobody reads any more: the    *)
(* copy of the input ended, or ExecTty never started its goroutines.       *)
InputStuck ==
    /\ srvMain = "wait"
    /\ \/ srvRecv = "write" /\ inCopy # "read"
       \/ srvRecv = "resize" /\ conn = "none"

(* outCopy is blocked in the output pipe, which nobody reads any more.     *)
OutputStuck == srvOut = "ended" /\ outBuf # <<>>

(* When the console was told that the command ended well, the terminal     *)
(* shows everything the command wrote, its last piece at most excepted:    *)
(* CLOSE is sent by another goroutine than the output, and may overtake    *)
(* the one piece that was read and not sent, never more.                   *)
OnlyLastPieceLost ==
    verdict = "closed" => Len(shown) + 1 >= produced

(* A handler only hangs for one of three reasons: the console typed at     *)
(* least two pieces the command never got (one, or a resize, when the      *)
(* command could not be started), or the connection to the console was     *)
(* lost while output was under way.                                        *)
HangsExplained ==
    /\ InputStuck =>
          IF conn = "none"
          THEN typed + resizes > 0
          ELSE typed >= Len(received) + 2
    /\ OutputStuck => link = "gone"

(* The output reaches the terminal, and the input reaches the command, as  *)
(* ordered streams.                                                        *)
Output == INSTANCE OrderedStream WITH
    written <- produced, delivered <- shown, stopped <- conMain # "output"

Input == INSTANCE OrderedStream WITH
    written <- typed, delivered <- received, stopped <- command = "ended"

=============================================================================
