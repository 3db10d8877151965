------------------------------ MODULE FileCopy ------------------------------
(***************************************************************************)
(* Copies of files from and to a node (server.go, NodeCopyFrom and         *)
(* NodeCopyTo; client.go, CopyFrom and CopyTo; prompt.go, CopyFrom and     *)
(* CopyTo).                                                                *)
(*                                                                         *)
(* Each copy goes through a temporary file of the daemon whose name is     *)
(* made of the project, the node and the last element of the path in the   *)
(* node.  The copies modelled here, of different consoles, all use the     *)
(* same name.  A file keeps its content as long as a handler has it open,  *)
(* whether the name is removed or not: the name designates one inode, and  *)
(* os.Create of a name that exists empties that inode.  An inode has the   *)
(* name of the copy that created it.                                       *)
(*                                                                         *)
(* A source file is a sequence of Blocks blocks; block k of copy c is the  *)
(* pair <<c, k>>.  A write beyond the end of a file leaves a hole; one that *)
(* fails writes nothing.                                                   *)
(***************************************************************************)
EXTENDS Naturals, Sequences

CONSTANTS
    Copies,   \* the copies, one per console
    Kinds,    \* the directions of the copies to consider
    Blocks,   \* blocks of a source file
    Fragile,  \* the copies of which a write may fail unnoticed (a bound)
    NoFile    \* no inode

VARIABLES
    project, container, \* see NodeExec; the container is there or removed
    kind,      \* kind[c]: "from" or "to" the node
    copy,      \* copy[c]: where its handler is
    temp,      \* the inode of the temporary name, or NoFile
    inode,     \* inode[i]: the content of inode i
    open,      \* open[c]: the inode the handler has open, or NoFile
    offset,    \* offset[c]: blocks read or written through that descriptor
    size,      \* size[c]: blocks announced in the tar header
    short,     \* the copies whose console could not read its whole file
    lost,      \* the copies whose console died
    skipped,   \* skipped[c]: blocks received whose write failed, unnoticed
    result,    \* result[c]: the blocks the destination got
    answer,    \* answer[c]: what the console was told
    panicked,  \* the daemon died
    clash      \* history: copies whose temporary file was shared

files == <<temp, inode>>
console == <<short, lost>>
losses == <<console, skipped>>

Hole == <<>>
Inodes == Copies
Content == UNION {[1..n -> {Hole} \cup (Copies \X (1..Blocks))] : n \in 0..Blocks}

(* The handlers whose temporary file is in use.                            *)
Using == {c \in Copies : copy[c] \in {"fetch", "opening", "sending",
                                      "receiving", "put", "tar"}}

TypeOK ==
    /\ kind \in Kinds
    /\ copy \in [Copies -> {"begin", "fetch", "opening", "sending",
                            "receiving", "put", "tar", "returned"}]
    /\ temp \in Inodes \cup {NoFile}
    /\ inode \in [Inodes -> Content]
    /\ open \in [Copies -> Inodes \cup {NoFile}]
    /\ offset \in [Copies -> 0..Blocks] /\ size \in [Copies -> 0..Blocks]
    /\ short \subseteq Copies /\ lost \subseteq Copies
    /\ skipped \in [Copies -> 0..Blocks]
    /\ result \in [Copies -> Content]
    /\ answer \in [Copies -> {"none", "ok", "error"}]
    /\ panicked \in BOOLEAN /\ clash \subseteq Copies

Init ==
    /\ kind \in Kinds
    /\ copy = [c \in Copies |-> "begin"]
    /\ temp = NoFile /\ inode = [i \in Inodes |-> <<>>]
    /\ open = [c \in Copies |-> NoFile]
    /\ offset = [c \in Copies |-> 0] /\ size = [c \in Copies |-> 0]
    /\ short = {} /\ lost = {} /\ skipped = [c \in Copies |-> 0]
    /\ result = [c \in Copies |-> <<>>]
    /\ answer = [c \in Copies |-> "none"]
    /\ panicked = FALSE /\ clash = {}

-----------------------------------------------------------------------------
(* Files.                                                                  *)

(* os.Create by copy c.                                                    *)
CreateTemp(c) ==
    /\ temp' = IF temp = NoFile THEN c ELSE temp
    /\ inode' = [inode EXCEPT ![temp'] = <<>>]
    /\ open' = [open EXCEPT ![c] = temp']
    /\ offset' = [offset EXCEPT ![c] = 0]
    /\ clash' = IF Using = {} THEN clash ELSE clash \cup Using \cup {c}

(* A write of copy c at its offset.                                        *)
WriteTemp(c, block) ==
    /\ inode' = [inode EXCEPT ![open[c]] =
          [k \in 1..(IF offset[c] < Len(@) THEN Len(@) ELSE offset[c] + 1) |->
              IF k = offset[c] + 1 THEN block
              ELSE IF k <= Len(@) THEN @[k] ELSE Hole]]
    /\ offset' = [offset EXCEPT ![c] = @ + 1]

(* The write of a block fails, and nobody looks at the error.              *)
Skip(c) == c \in Fragile /\ skipped' = [skipped EXCEPT ![c] = @ + 1]

(* The handler of copy c returns; the deferred os.Remove takes whatever    *)
(* file has the name.                                                      *)
Return(c, status, remove) ==
    /\ copy' = [copy EXCEPT ![c] = "returned"]
    /\ answer' = [answer EXCEPT ![c] = IF c \in lost THEN @ ELSE status]
    /\ temp' = IF remove THEN NoFile ELSE temp

-----------------------------------------------------------------------------
(* NodeCopyFrom.  The console, which creates its file first, goes on when   *)
(* it cannot, and does not look at the error of a write.                   *)

(* The project is looked up, then the file copied out of the container:    *)
(* created, then written.  An error on the way leaves the file, since      *)
(* Remove is deferred afterwards.                                          *)
FromCreate(c) ==
    /\ kind[c] = "from" /\ copy[c] = "begin"
    /\ \/ /\ project = "open" /\ container = "up"
          /\ CreateTemp(c)
          /\ copy' = [copy EXCEPT ![c] = "fetch"]
          /\ UNCHANGED answer
       \/ /\ Return(c, "error", FALSE)
          /\ UNCHANGED <<inode, open, offset, clash>>
    /\ UNCHANGED <<project, container, kind, size, losses, result, panicked>>

FromFetch(c) ==
    /\ copy[c] = "fetch"
    /\ \/ /\ container = "up" /\ offset[c] < Blocks
          /\ WriteTemp(c, <<c, offset[c] + 1>>)
          /\ UNCHANGED <<copy, answer, temp>>
       \/ /\ offset[c] = Blocks
          /\ copy' = [copy EXCEPT ![c] = "opening"]
          /\ UNCHANGED <<answer, temp, inode, offset>>
       \* the container is gone, or the write fails
       \/ /\ offset[c] < Blocks
          /\ Return(c, "error", FALSE)
          /\ UNCHANGED <<inode, offset>>
    /\ UNCHANGED <<project, container, kind, open, size, losses, result,
                   panicked, clash>>

(* A mistaken variant: the file that was written is read where it stands.  *)
FromKeepOffset(c) ==
    /\ copy[c] = "opening"
    /\ copy' = [copy EXCEPT ![c] = "sending"]
    /\ UNCHANGED <<project, container, kind, files, open, offset, size, losses,
                   result, answer, panicked, clash>>

(* The error of os.Open is dropped: the first Read of no file reports it.  *)
FromOpen(c) ==
    /\ copy[c] = "opening"
    /\ open' = [open EXCEPT ![c] = temp]
    /\ offset' = [offset EXCEPT ![c] = 0]
    /\ copy' = [copy EXCEPT ![c] = "sending"]
    /\ UNCHANGED <<project, container, kind, files, size, losses, result,
                   answer, panicked, clash>>

FromSend(c) ==
    /\ copy[c] = "sending"
    /\ IF open[c] = NoFile \/ c \in lost
       THEN Return(c, "error", TRUE) /\ UNCHANGED <<offset, result, skipped>>
       ELSE IF offset[c] < Len(inode[open[c]])
       THEN /\ offset' = [offset EXCEPT ![c] = @ + 1]
            /\ \/ /\ result' = [result EXCEPT
                               ![c] = Append(@, inode[open[c]][offset'[c]])]
                  /\ UNCHANGED skipped
               \/ Skip(c) /\ UNCHANGED result
            /\ UNCHANGED <<copy, answer, temp>>
       ELSE Return(c, "ok", TRUE) /\ UNCHANGED <<offset, result, skipped>>
    /\ UNCHANGED <<project, container, kind, inode, open, size, console,
                   panicked, clash>>

-----------------------------------------------------------------------------
(* NodeCopyTo.  The console sends INIT, the blocks it reads, and the end   *)
(* of the stream, then waits for the answer.                               *)

ConsoleDies(c) ==
    /\ c \notin lost /\ copy[c] # "returned"
    /\ lost' = lost \cup {c}
    /\ UNCHANGED <<project, container, kind, copy, files, open, offset, size,
                   short, skipped, result, answer, panicked, clash>>

(* INIT: the node is looked up and the file created, or not.               *)
ToInit(c) ==
    /\ kind[c] = "to" /\ copy[c] = "begin" /\ c \notin lost
    /\ \/ /\ project = "open"
          /\ CreateTemp(c)
          /\ copy' = [copy EXCEPT ![c] = "receiving"]
          /\ UNCHANGED answer
       \/ /\ Return(c, "error", FALSE)
          /\ UNCHANGED <<inode, open, offset, clash>>
    /\ UNCHANGED <<project, container, kind, size, losses, result, panicked>>

(* How many blocks the console has sent.                                   *)
Sent(c) == offset[c] + skipped[c]

(* DATA messages, and the end of the stream: the console takes an error of *)
(* a read for the end of its file.                                         *)
ToReceive(c) ==
    /\ copy[c] = "receiving" /\ c \notin lost
    /\ \/ /\ Sent(c) < Blocks
          /\ \/ WriteTemp(c, <<c, Sent(c) + 1>>) /\ UNCHANGED skipped
             \/ Skip(c) /\ UNCHANGED <<inode, offset>>
          /\ UNCHANGED <<copy, short>>
       \/ /\ copy' = [copy EXCEPT ![c] = "put"]
          /\ short' = IF Sent(c) = Blocks THEN short ELSE short \cup {c}
          /\ UNCHANGED <<inode, offset, skipped>>
    /\ UNCHANGED <<project, container, kind, temp, open, size, lost,
                   result, answer, panicked, clash>>

(* A mistaken variant: the end of the stream has no message either.        *)
ToBrokenAtEof(c) ==
    /\ kind[c] = "to" /\ copy[c] = "receiving" /\ Sent(c) = Blocks
    /\ panicked' = TRUE
    /\ UNCHANGED <<project, container, kind, copy, files, open, offset, size,
                   losses, result, answer, clash>>

(* Recv fails without io.EOF: the code goes on with a nil message.         *)
ToBroken(c) ==
    /\ kind[c] = "to" /\ copy[c] \in {"begin", "receiving"} /\ c \in lost
    /\ panicked' = TRUE
    /\ UNCHANGED <<project, container, kind, copy, files, open, offset, size,
                   losses, result, answer, clash>>

(* A mistaken variant: Remove is only deferred once the copy was done.     *)
ToPutNoRemove(c) ==
    /\ copy[c] = "put"
    /\ IF temp # NoFile /\ container = "up"
       THEN /\ open' = [open EXCEPT ![c] = temp]
            /\ size' = [size EXCEPT ![c] = Len(inode[temp])]
            /\ offset' = [offset EXCEPT ![c] = 0]
            /\ copy' = [copy EXCEPT ![c] = "tar"]
            /\ UNCHANGED <<answer, temp>>
       ELSE Return(c, "error", FALSE) /\ UNCHANGED <<open, size, offset>>
    /\ UNCHANGED <<project, container, kind, inode, losses, result,
                   panicked, clash>>

(* The copy into the container: a tar of what has the name at that time,   *)
(* its size in the header.                                                 *)
ToPut(c) ==
    /\ copy[c] = "put"
    /\ IF temp # NoFile /\ container = "up"
       THEN /\ open' = [open EXCEPT ![c] = temp]
            /\ size' = [size EXCEPT ![c] = Len(inode[temp])]
            /\ offset' = [offset EXCEPT ![c] = 0]
            /\ copy' = [copy EXCEPT ![c] = "tar"]
            /\ UNCHANGED <<answer, temp>>
       ELSE Return(c, "error", TRUE) /\ UNCHANGED <<open, size, offset>>
    /\ UNCHANGED <<project, container, kind, inode, losses, result,
                   panicked, clash>>

(* A file that grew or shrank since its header was written is an error.    *)
ToTar(c) ==
    /\ copy[c] = "tar"
    /\ LET content == inode[open[c]]
       IN IF container # "up"
          THEN Return(c, "error", TRUE) /\ UNCHANGED <<offset, result>>
          ELSE IF offset[c] < Len(content) /\ offset[c] < size[c]
          THEN /\ offset' = [offset EXCEPT ![c] = @ + 1]
               /\ result' = [result EXCEPT ![c] = Append(@, content[offset'[c]])]
               /\ UNCHANGED <<copy, answer, temp>>
          ELSE /\ Return(c, IF Len(content) = size[c] /\ offset[c] = size[c]
                            THEN "ok" ELSE "error", TRUE)
               /\ UNCHANGED <<offset, result>>
    /\ UNCHANGED <<project, container, kind, inode, open, size, losses,
                   panicked, clash>>

-----------------------------------------------------------------------------
CopyProgress ==
    \E c \in Copies :
        \/ FromCreate(c) \/ FromFetch(c) \/ FromOpen(c)
        \/ FromSend(c)
        \/ ToInit(c) \/ ToReceive(c) \/ ToBroken(c) \/ ToPut(c)
        \/ ToTar(c)

Next == CopyProgress \/ \E c \in Copies : ConsoleDies(c)

-----------------------------------------------------------------------------
(* Properties.                                                             *)

(* What is left of the first n blocks of copy c when m of them are skipped: *)
(* exactly those blocks when m is 0.                                       *)
Left(c, s, n, m) ==
    /\ Len(s) = n - m
    /\ \A k \in 1..Len(s) : s[k] \in {c} \X (k..(k + m))
    /\ \A k \in 1..Len(s) : \A j \in 1..(k - 1) : s[j][2] < s[k][2]

(* A copy that was reported done gave the destination the source file,     *)
(* whole and in order, but for the blocks whose write failed (in the       *)
(* temporary file of the daemon or in the file of the console), of which   *)
(* nobody is told.  Not so when another copy used the same temporary file  *)
(* at the same time, or when the console could not read its file.          *)
CopyIsExact ==
    \A c \in Copies \ (clash \cup short) :
        answer[c] = "ok" => Left(c, result[c], Blocks, skipped[c])

(* No temporary file is left once the copies are over, unless one of them  *)
(* out of a node failed on the way.                                        *)
NoTempLeft ==
    (\A c \in Copies : copy[c] = "returned") =>
        temp = NoFile \/ \E c \in Copies : kind[c] = "from" /\ answer[c] # "ok"

(* The daemon dies of a copy only when the console of a copy to a node is  *)
(* lost before the handler has seen the end of its stream.                 *)
CrashExplained ==
    panicked => \E c \in lost : kind[c] = "to" /\ copy[c] \in {"begin", "receiving"}

=============================================================================
