---------------------------- MODULE NodeCapture ----------------------------
(***************************************************************************)
(* One NodeCapture session: tcpdump in a node, its packets shown by a      *)
(* wireshark the console started.                                          *)
(*                                                                         *)
(*   - the handler (server.go, NodeCapture): the main goroutine runs       *)
(*     tcpdump and then waits for waitCh; a goroutine reads the output     *)
(*     pipe, sends messages, and offers its result on waitCh;              *)
(*   - the docker client (client.go, ExecOutStream): a goroutine copies    *)
(*     the output of tcpdump into the pipe;                                *)
(*   - the console (prompt.go, Capture): a goroutine receives the messages *)
(*     and writes them in a pipe that a goroutine of os/exec copies to     *)
(*     wireshark.                                                          *)
(*                                                                         *)
(* Pipes and channels have no buffer (see NodeExec).  The stream of grpc   *)
(* holds Window messages nobody has received: Send blocks beyond.          *)
(***************************************************************************)
EXTENDS Naturals, Sequences

CONSTANTS
    MaxPackets,  \* packets tcpdump writes at most
    Window       \* messages the stream holds

VARIABLES
    project, container,  \* see NodeExec
    capMain, capOut,     \* the goroutines of the handler
    capCopy,             \* the goroutine of ExecOutStream
    tcpdump,             \* none, running or ended
    sniffed,             \* packets tcpdump has written
    capConn,             \* packets waiting in the connection to tcpdump
    capBuf,              \* what is left of the data capCopy writes
    packet,              \* the packet capOut has read and not sent
    capLink,             \* the connection of the console: open or gone
    toShark,             \* the messages in transit to the console
    capRecv,             \* the receiving goroutine of the console
    capVerdict,          \* why it ended
    sharkCopy,           \* the goroutine that copies to wireshark
    pcap,                \* the packet capRecv writes for wireshark
    shark,               \* wireshark: none, running or exited
    seen                 \* the packets wireshark was given

capSrv == <<capMain, capOut, capCopy, capBuf, packet>>
capDump == <<tcpdump, sniffed, capConn>>
capCon == <<capRecv, capVerdict, sharkCopy, pcap, shark, seen>>

CapMessage == [code : {"STDOUT"}, data : Nat] \cup [code : {"OK", "ERROR"}]

TypeOK ==
    /\ capMain \in {"begin", "start", "output", "failed", "done", "wait",
                    "returned"}
    /\ capOut \in {"off", "read", "send", "offer", "ended"}
    /\ capCopy \in {"off", "read", "write", "ended"}
    /\ tcpdump \in {"none", "running", "ended"}
    /\ sniffed \in 0..MaxPackets
    /\ capConn \in Seq(1..MaxPackets) /\ capBuf \in Seq(1..MaxPackets)
    /\ packet \in 0..MaxPackets /\ pcap \in 0..MaxPackets
    /\ capLink \in {"open", "gone"}
    /\ toShark \in Seq(CapMessage)
    /\ capRecv \in {"first", "recv", "write", "ended"}
    /\ capVerdict \in {"none", "refused", "noshark", "eof", "error", "quit"}
    /\ sharkCopy \in {"off", "copy", "ended"}
    /\ shark \in {"none", "running", "exited"}
    /\ seen \in Seq(1..MaxPackets)

Init ==
    /\ capMain = "begin" /\ capOut = "off" /\ capCopy = "off"
    /\ tcpdump = "none" /\ sniffed = 0
    /\ capConn = <<>> /\ capBuf = <<>> /\ packet = 0
    /\ capLink = "open" /\ toShark = <<>>
    /\ capRecv = "first" /\ capVerdict = "none" /\ sharkCopy = "off"
    /\ pcap = 0 /\ shark = "none" /\ seen = <<>>

-----------------------------------------------------------------------------
(* The handler.                                                            *)

Room == capLink = "gone" \/ Len(toShark) < Window
Sent(m) ==
    toShark' = IF capLink = "gone" THEN toShark ELSE Append(toShark, m)

CapLookup ==
    /\ capMain = "begin" /\ Room
    /\ IF project = "open"
       THEN /\ Sent([code |-> "OK"])
            /\ capMain' = "start" /\ capOut' = "read"
       ELSE /\ Sent([code |-> "ERROR"])
            /\ capMain' = "returned" /\ UNCHANGED capOut
    /\ UNCHANGED <<project, container, capCopy, capBuf, packet,
                   capDump, capCon, capLink>>

StartTcpdump ==
    /\ capMain = "start"
    /\ \/ /\ container = "up"
          /\ capMain' = "output" /\ tcpdump' = "running" /\ capCopy' = "read"
       \/ /\ capMain' = "failed" /\ UNCHANGED <<tcpdump, capCopy>>
    /\ UNCHANGED <<project, container, capOut, capBuf, packet, sniffed,
                   capConn, capCon, capLink, toShark>>

(* An error is sent while capOut may hold a packet; then wOut.Close.       *)
EndCapture ==
    /\ \/ /\ capMain = "failed" /\ Room /\ Sent([code |-> "ERROR"])
       \/ /\ capMain = "done" /\ UNCHANGED toShark
    /\ capMain' = "wait"
    /\ UNCHANGED <<project, container, capOut, capCopy, capBuf, packet, capDump,
                   capCon, capLink>>

CapReturn ==
    /\ capMain = "wait" /\ capOut = "offer"
    /\ capMain' = "returned" /\ capOut' = "ended"
    /\ UNCHANGED <<project, container, capCopy, capBuf, packet,
                   capDump, capCon, capLink, toShark>>

(* The sending goroutine offers its result at the end of the pipe and at   *)
(* the first Send that fails, and closes the pipe only after the offer is  *)
(* taken.                                                                  *)
ReadPacket ==
    /\ capOut = "read"
    /\ \/ /\ capBuf # <<>>
          /\ capOut' = "send" /\ packet' = Head(capBuf) /\ capBuf' = Tail(capBuf)
       \/ /\ capBuf = <<>> /\ capMain = "wait"
          /\ capOut' = "offer" /\ UNCHANGED <<packet, capBuf>>
    /\ UNCHANGED <<project, container, capMain, capCopy, capDump,
                   capCon, capLink, toShark>>

SendPacket ==
    /\ capOut = "send" /\ Room
    /\ Sent([code |-> "STDOUT", data |-> packet])
    /\ capOut' = IF capLink = "gone" THEN "offer" ELSE "read"
    /\ packet' = 0
    /\ UNCHANGED <<project, container, capMain, capCopy, capBuf,
                   capDump, capCon, capLink>>

(* stdcopy.StdCopy; at the end of the output the exit code decides how     *)
(* Capture returns.                                                        *)
CopyPackets ==
    /\ \/ /\ capCopy = "read" /\ capConn # <<>>
          /\ \E n \in 1..Len(capConn) :
                /\ capBuf' = SubSeq(capConn, 1, n)
                /\ capConn' = SubSeq(capConn, n + 1, Len(capConn))
          /\ capCopy' = "write" /\ UNCHANGED capMain
       \/ /\ capCopy = "write" /\ capBuf = <<>>
          /\ capCopy' = "read" /\ UNCHANGED <<capMain, capBuf, capConn>>
       \/ /\ capCopy = "read" /\ capConn = <<>> /\ tcpdump = "ended"
          /\ capCopy' = "ended" /\ capMain' \in {"failed", "done"}
          /\ UNCHANGED <<capBuf, capConn>>
    /\ UNCHANGED <<project, container, capOut, packet, tcpdump, sniffed,
                   capCon, capLink, toShark>>

Sniff ==
    /\ tcpdump = "running" /\ sniffed < MaxPackets
    /\ sniffed' = sniffed + 1
    /\ capConn' = Append(capConn, sniffed')
    /\ UNCHANGED <<project, container, capSrv, tcpdump, capCon, capLink,
                   toShark>>

TcpdumpExits ==
    /\ tcpdump = "running" /\ tcpdump' = "ended"
    /\ UNCHANGED <<project, container, capSrv, sniffed, capConn, capCon,
                   capLink, toShark>>

-----------------------------------------------------------------------------
(* The console.                                                            *)

(* The first message decides whether wireshark is started.  When it cannot *)
(* be started Capture returns and leaves the stream open.                  *)
RecvFirst ==
    /\ capRecv = "first"
    /\ \/ /\ toShark # <<>> /\ Head(toShark).code = "OK"
          /\ toShark' = Tail(toShark)
          /\ \/ /\ capRecv' = "recv" /\ shark' = "running" /\ sharkCopy' = "copy"
                /\ UNCHANGED capVerdict
             \/ /\ capRecv' = "ended" /\ capVerdict' = "noshark"
                /\ UNCHANGED <<shark, sharkCopy>>
       \/ /\ toShark # <<>> /\ Head(toShark).code = "ERROR"
          /\ toShark' = Tail(toShark)
          /\ capRecv' = "ended" /\ capVerdict' = "refused"
          /\ UNCHANGED <<shark, sharkCopy>>
    /\ UNCHANGED <<project, container, capSrv, capDump, capLink, pcap, seen>>

RecvPacket ==
    /\ capRecv = "recv"
    /\ \/ /\ toShark # <<>> /\ Head(toShark).code = "STDOUT"
          /\ toShark' = Tail(toShark)
          /\ capRecv' = "write" /\ pcap' = Head(toShark).data
          /\ UNCHANGED <<capVerdict, shark, capLink>>
       \/ /\ toShark # <<>> /\ Head(toShark).code = "ERROR"
          /\ toShark' = Tail(toShark)
          /\ capRecv' = "ended" /\ capVerdict' = "error"
          /\ shark' = "exited" /\ capLink' = "gone"
          /\ UNCHANGED pcap
       \/ /\ toShark = <<>> /\ capMain = "returned"
          /\ capRecv' = "ended" /\ capVerdict' = "eof" /\ capLink' = "gone"
          /\ UNCHANGED <<toShark, pcap, shark>>
    /\ UNCHANGED <<project, container, capSrv, capDump, sharkCopy, seen>>

(* wIn.Write returns when the copy goroutine read the data.  That goroutine *)
(* ends when wireshark does not take what it has read.                     *)
FeedShark ==
    /\ capRecv = "write" /\ sharkCopy = "copy"
    /\ IF shark = "running"
       THEN seen' = Append(seen, pcap) /\ UNCHANGED sharkCopy
       ELSE sharkCopy' = "ended" /\ UNCHANGED seen
    /\ capRecv' = "recv" /\ pcap' = 0
    /\ UNCHANGED <<project, container, capSrv, capDump, capVerdict, shark,
                   capLink, toShark>>

QuitShark ==
    /\ shark = "running" /\ shark' = "exited"
    /\ UNCHANGED <<project, container, capSrv, capDump, capRecv, capVerdict,
                   sharkCopy, pcap, seen, capLink, toShark>>

(* The prompt exits: its goroutines and its connections go with it.        *)
QuitPrompt ==
    /\ capLink = "open" /\ capLink' = "gone"
    /\ capRecv' = "ended"
    /\ capVerdict' = IF capRecv = "ended" THEN capVerdict ELSE "quit"
    /\ sharkCopy' = IF sharkCopy = "off" THEN "off" ELSE "ended"
    /\ pcap' = 0
    /\ UNCHANGED <<project, container, capSrv, capDump, shark, seen, toShark>>

-----------------------------------------------------------------------------
CapProgress ==
    \/ CapLookup \/ StartTcpdump \/ EndCapture \/ CapReturn
    \/ ReadPacket \/ SendPacket \/ CopyPackets
    \/ RecvFirst \/ RecvPacket \/ FeedShark

Next == CapProgress \/ Sniff \/ TcpdumpExits \/ QuitShark \/ QuitPrompt

(* A stopped container ends its processes.                                 *)
TcpdumpKilled == container = "down" /\ TcpdumpExits

-----------------------------------------------------------------------------
(* Properties.                                                             *)

(* A handler hangs when its sending goroutine gave up and the output pipe  *)
(* is full: waitCh is only read after Capture returns, and Capture only    *)
(* returns after somebody reads the pipe.  Or the sending goroutine waits  *)
(* for room in a stream whose console does not receive any more.           *)
WaitStuck == capOut = "offer" /\ capBuf # <<>>
WindowStuck ==
    /\ \/ capOut = "send"
       \/ capMain \in {"begin", "failed"}
    /\ ~Room
    /\ capRecv = "ended" \/ (capRecv = "write" /\ sharkCopy = "ended")

(* When the stream ended without error, wireshark was given everything     *)
(* tcpdump wrote; when it ended with an error, everything but the one      *)
(* packet that the error message overtook.                                 *)
CaptureWhole ==
    /\ capVerdict = "eof" /\ shark = "running" => Len(seen) = sniffed
    /\ capVerdict = "error" /\ sharkCopy = "copy" => Len(seen) + 1 >= sniffed

(* The first hang needs a prompt that quit before the capture ended, the   *)
(* second one a wireshark that could not be started or was closed.         *)
CaptureHangsExplained ==
    /\ WaitStuck => capLink = "gone"
    /\ WindowStuck => capVerdict = "noshark" \/ shark = "exited"

Packets == INSTANCE OrderedStream WITH
    written <- sniffed, delivered <- seen, stopped <- shark = "exited"

=============================================================================
