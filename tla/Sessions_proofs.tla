-------------------------- MODULE Sessions_proofs --------------------------
(* Proofs about Sessions and the modules it is made of (NodeExec,            *)
(* NodeCapture, FileCopy), for any set of copies, any sizes and any          *)
(* combination of streams.                                                   *)
EXTENDS Sessions, Integers, SequenceTheorems, TLAPS

-----------------------------------------------------------------------------
(* A step of the daemon is, for each of its streams, a step of that stream   *)
(* or nothing.                                                               *)

\* Whatever the daemon does, a stream takes one of its own steps or none.
LEMMA Parts ==
  ASSUME [Next]_vars
  PROVE  /\ [E!Next]_execState
         /\ [C!Next]_captureState
         /\ [F!Next]_copyState
BY DEF Next, vars, InExec, InCapture, InCopies, StopNode, Interrupt,
       GracefulStop, execState, captureState, copyState

-----------------------------------------------------------------------------
(* Copies of files.                                                         *)

\* The first n blocks of the source file of copy c.
Part(c, n) == [k \in 1..n |-> <<c, k>>]

\* Where a copy is says which way it goes, whether it has the file open and
\* how much of the result is there.
CopyStages ==
    \A c \in Copies :
        /\ copy[c] \in {"fetch", "opening", "sending"} => kind[c] = "from"
        /\ copy[c] \in {"receiving", "put", "tar"} => kind[c] = "to"
        /\ copy[c] \in {"fetch", "receiving", "tar"} => open[c] \in F!Inodes
        /\ copy[c] = "sending" => Len(result[c]) + skipped[c] = offset[c]
        /\ copy[c] = "tar" => Len(result[c]) = offset[c]
        /\ copy[c] \in {"begin", "fetch", "opening"} => skipped[c] = 0
        /\ copy[c] = "receiving" => F!Sent(c) <= Blocks
        /\ copy[c] \notin {"sending", "tar", "returned"} => result[c] = <<>>
        /\ copy[c] # "returned" => answer[c] = "none"

\* A copy that shared its file with nobody is the only one to use it, and the
\* file has what the copy has written.
CopyAlone ==
    \A c \in F!Using \ clash :
        /\ F!Using = {c}
        /\ temp \in F!Inodes /\ open[c] = temp
        /\ copy[c] = "fetch" => inode[temp] = Part(c, offset[c])
        /\ copy[c] \in {"opening", "sending"} => inode[temp] = Part(c, Blocks)
        /\ copy[c] = "sending" => F!Left(c, result[c], offset[c], skipped[c])
        /\ copy[c] = "receiving" =>
              F!Left(c, inode[temp], F!Sent(c), skipped[c])
        /\ copy[c] \in {"put", "tar"} /\ c \notin short =>
              F!Left(c, inode[temp], Blocks, skipped[c])
        /\ copy[c] = "tar" =>
              /\ size[c] = Len(inode[temp])
              /\ \A k \in 1..offset[c] : result[c][k] = inode[temp][k]

\* A file that is there is used, or was left by a copy that failed.
TempKept ==
    temp # NoFile =>
        \/ F!Using # {}
        \/ \E c \in Copies :
              kind[c] = "from" /\ copy[c] = "returned" /\ answer[c] # "ok"

CopyInv ==
    /\ F!TypeOK /\ CopyStages /\ CopyAlone /\ F!CopyIsExact /\ TempKept

\* What a file may contain is a sequence of at most Blocks blocks.
LEMMA ContentIsSeq ==
  ASSUME NEW s \in F!Content
  PROVE  /\ Len(s) \in 0..Blocks
         /\ s \in [1..Len(s) -> {F!Hole} \cup (Copies \X (1..Blocks))]
         /\ \A k \in 1..Len(s) : s[k] \in {F!Hole} \cup (Copies \X (1..Blocks))
<1>1. PICK n \in 0..Blocks : s \in [1..n -> {F!Hole} \cup (Copies \X (1..Blocks))]
  BY DEF F!Content
<1>2. s \in Seq({F!Hole} \cup (Copies \X (1..Blocks)))
  BY <1>1, SeqDef, StreamsAssumption
<1>3. Len(s) = n
  BY <1>1, <1>2, LenProperties, StreamsAssumption
<1> QED  BY <1>1, <1>3

\* A sequence of at most Blocks blocks is what a file may contain.
LEMMA SeqIsContent ==
  ASSUME NEW n \in 0..Blocks,
         NEW s \in [1..n -> {F!Hole} \cup (Copies \X (1..Blocks))]
  PROVE  s \in F!Content /\ Len(s) = n
<1>1. s \in Seq({F!Hole} \cup (Copies \X (1..Blocks)))
  BY SeqDef, StreamsAssumption
<1>2. Len(s) = n
  BY <1>1, LenProperties, StreamsAssumption
<1> QED  BY <1>2 DEF F!Content

\* Appending a block to a content that is not full gives a content.
LEMMA ContentGrows ==
  ASSUME NEW s \in F!Content, Len(s) < Blocks,
         NEW b \in {F!Hole} \cup (Copies \X (1..Blocks))
  PROVE  Append(s, b) \in F!Content /\ Len(Append(s, b)) = Len(s) + 1
<1> DEFINE B == {F!Hole} \cup (Copies \X (1..Blocks))
<1>1. s \in [1..Len(s) -> B] /\ Len(s) \in 0..Blocks
  BY ContentIsSeq
<1>2. s \in Seq(B)
  BY <1>1, SeqDef, StreamsAssumption
<1>3. /\ Append(s, b) \in Seq(B) /\ Len(Append(s, b)) = Len(s) + 1
  BY <1>2, AppendProperties
<1>4. Append(s, b) \in [1..(Len(s) + 1) -> B]
  BY <1>3, LenProperties
<1>5. Len(s) + 1 \in 0..Blocks
  BY <1>1, StreamsAssumption
<1> QED  BY <1>3, <1>4, <1>5, SeqIsContent

\* The first blocks of a file, their number, and the block that follows.
LEMMA PartGrows ==
  ASSUME NEW c \in Copies, NEW n \in 0..Blocks
  PROVE  /\ Part(c, n) \in F!Content /\ Len(Part(c, n)) = n
         /\ \A k \in 1..n : Part(c, n)[k] = <<c, k>>
         /\ Append(Part(c, n), <<c, n + 1>>) = Part(c, n + 1)
<1> DEFINE B == {F!Hole} \cup (Copies \X (1..Blocks))
<1>1. Part(c, n) \in [1..n -> B]
  BY StreamsAssumption DEF Part
<1>2. Part(c, n) \in F!Content /\ Len(Part(c, n)) = n
  BY <1>1, SeqIsContent
<1>3. \A k \in 1..n : Part(c, n)[k] = <<c, k>>
  BY DEF Part
<1>4. Append(Part(c, n), <<c, n + 1>>) = Part(c, n + 1)
  <2>1. Part(c, n) \in Seq(Copies \X Nat)
    <3>1. Part(c, n) \in [1..n -> Copies \X Nat]
      BY StreamsAssumption DEF Part
    <3> QED  BY <3>1, SeqDef, StreamsAssumption
  <2>2. <<c, n + 1>> \in Copies \X Nat
    BY StreamsAssumption
  <2>3. /\ Append(Part(c, n), <<c, n + 1>>) \in Seq(Copies \X Nat)
        /\ Len(Append(Part(c, n), <<c, n + 1>>)) = n + 1
        /\ \A k \in 1..n : Append(Part(c, n), <<c, n + 1>>)[k] = Part(c, n)[k]
        /\ Append(Part(c, n), <<c, n + 1>>)[n + 1] = <<c, n + 1>>
    BY <1>2, <2>1, <2>2, AppendProperties
  <2>4. DOMAIN Append(Part(c, n), <<c, n + 1>>) = 1..(n + 1)
    BY <2>3, LenProperties
  <2>5. \A k \in 1..(n + 1) : Append(Part(c, n), <<c, n + 1>>)[k] = <<c, k>>
    BY <1>3, <2>3, StreamsAssumption
  <2> QED
    BY <2>3, <2>4, <2>5, StreamsAssumption DEF Part
<1> QED  BY <1>2, <1>3, <1>4

\* What is left of a file grows by the block that follows, or by a block that
\* is skipped; at first nothing is left.
LEMMA LeftGrows ==
  ASSUME NEW c \in Copies, NEW n \in Nat, NEW m \in 0..n, NEW s, F!Left(c, s, n, m)
  PROVE  /\ F!Left(c, s, n + 1, m + 1)
         /\ \A t : /\ Len(t) = Len(s) + 1
                   /\ \A k \in 1..Len(s) : t[k] = s[k]
                   /\ t[Len(s) + 1] = <<c, n + 1>>
                  => F!Left(c, t, n + 1, m)
<1>1. /\ Len(s) = n - m /\ n - m \in Nat
      /\ \A k \in 1..(n - m) : s[k] \in {c} \X (k..(k + m))
      /\ \A k \in 1..(n - m) : \A j \in 1..(k - 1) : s[j][2] < s[k][2]
  <2>1. Len(s) = n - m /\ n - m \in Nat
    BY DEF F!Left
  <2> QED  BY <2>1 DEF F!Left
<1>2. F!Left(c, s, n + 1, m + 1)
  <2>1. (n + 1) - (m + 1) = n - m
    OBVIOUS
  <2>2. \A k \in 1..(n - m) : s[k] \in {c} \X (k..(k + (m + 1)))
    BY <1>1
  <2> QED  BY <1>1, <2>1, <2>2 DEF F!Left
<1>3. ASSUME NEW t, Len(t) = Len(s) + 1, \A k \in 1..Len(s) : t[k] = s[k],
             t[Len(s) + 1] = <<c, n + 1>>
      PROVE  F!Left(c, t, n + 1, m)
  <2>1. /\ Len(t) = n + 1 - m /\ Len(t) = (n - m) + 1
        /\ \A k \in 1..(n - m) : t[k] = s[k]
        /\ t[(n - m) + 1] = <<c, n + 1>>
    BY <1>1, <1>3
  <2>2. ASSUME NEW k \in 1..Len(t) PROVE t[k] \in {c} \X (k..(k + m))
    <3>1. CASE k \in 1..(n - m)
      BY <1>1, <2>1, <3>1
    <3>2. CASE k = (n - m) + 1
      <4>1. n + 1 \in k..(k + m)
        BY <3>2
      <4>2. <<c, n + 1>> \in {c} \X (k..(k + m))
        BY <4>1
      <4>3. t[k] = <<c, n + 1>>
        BY <2>1, <3>2
      <4> QED  BY <4>2, <4>3
    <3> QED  BY <1>1, <2>1, <3>1, <3>2
  <2>3. ASSUME NEW k \in 1..Len(t), NEW j \in 1..(k - 1) PROVE t[j][2] < t[k][2]
    <3>1. CASE k \in 1..(n - m)
      <4>1. j \in 1..(n - m)
        BY <1>1, <3>1
      <4> QED  BY <1>1, <2>1, <2>3, <3>1, <4>1
    <3>2. CASE k = (n - m) + 1
      <4>1. j \in 1..(n - m) /\ t[j] = s[j]
        BY <1>1, <2>1, <3>2
      <4>2. s[j][2] \in j..(j + m)
        BY <1>1, <4>1
      <4>3. s[j][2] < n + 1
        BY <1>1, <4>1, <4>2
      <4> QED  BY <2>1, <3>2, <4>1, <4>3
    <3> QED  BY <1>1, <2>1, <3>1, <3>2
  <2>4. Len(t) = n + 1 - m
    BY <2>1
  <2> QED  BY <2>2, <2>3, <2>4 DEF F!Left
<1> QED  BY <1>2, <1>3

\* Before anything is there, nothing is left of nothing.
LEMMA LeftBegins ==
  ASSUME NEW c \in Copies
  PROVE  F!Left(c, <<>>, 0, 0)
BY EmptySeq DEF F!Left

\* A copy that begins has a file to write to.
LEMMA CreateFinds ==
  ASSUME CopyInv, NEW c \in Copies, F!CreateTemp(c)
  PROVE  /\ temp' \in F!Inodes
         /\ inode' = [inode EXCEPT ![temp'] = <<>>]
         /\ open' = [open EXCEPT ![c] = temp'] /\ offset' = [offset EXCEPT ![c] = 0]
BY DEF CopyInv, F!CreateTemp, F!TypeOK, F!Inodes

\* A write appends a block or overwrites one, and changes no other file.
LEMMA WriteGrows ==
  ASSUME CopyInv, NEW c \in Copies, offset[c] < Blocks,
         NEW b \in Copies \X (1..Blocks),
         open[c] \in F!Inodes, F!WriteTemp(c, b)
  PROVE  /\ inode' \in [F!Inodes -> F!Content]
         /\ offset' \in [Copies -> 0..Blocks]
<1> DEFINE s == inode[open[c]]
           n == IF offset[c] < Len(s) THEN Len(s) ELSE offset[c] + 1
           new == [k \in 1..n |-> IF k = offset[c] + 1 THEN b
                                  ELSE IF k <= Len(s) THEN s[k] ELSE F!Hole]
<1>1. /\ s \in F!Content /\ offset[c] \in 0..Blocks /\ Blocks \in Nat
      /\ inode \in [F!Inodes -> F!Content] /\ offset \in [Copies -> 0..Blocks]
  BY StreamsAssumption DEF CopyInv, F!TypeOK
<1>2. /\ Len(s) \in 0..Blocks
      /\ s \in [1..Len(s) -> {F!Hole} \cup (Copies \X (1..Blocks))]
  BY <1>1, ContentIsSeq
<1>3. n \in 0..Blocks
  BY <1>1, <1>2
<1>4. new \in [1..n -> {F!Hole} \cup (Copies \X (1..Blocks))]
  BY <1>1, <1>2, <1>3
<1>5. new \in F!Content
  BY <1>3, <1>4, SeqIsContent
<1>6. inode' = [inode EXCEPT ![open[c]] = new]
  BY DEF F!WriteTemp
<1>7. offset' = [offset EXCEPT ![c] = offset[c] + 1]
  BY DEF F!WriteTemp
<1> HIDE DEF s, n, new
<1> QED  BY <1>1, <1>5, <1>6, <1>7

\* A copy that sends its file, or writes it into the container, takes the next
\* block over, or skips it, or changes nothing of what was taken over.
LEMMA Transfers ==
  ASSUME CopyInv, NEW c \in Copies, F!FromSend(c) \/ F!ToTar(c)
  PROVE  \/ UNCHANGED <<offset, result, skipped>>
         \/ /\ UNCHANGED <<kind, copy, temp, inode, open, size, short, answer, clash>>
            /\ copy[c] \in {"sending", "tar"} /\ open[c] \in F!Inodes
            /\ offset[c] < Len(inode[open[c]]) /\ offset[c] + 1 \in 0..Blocks
            /\ offset' = [offset EXCEPT ![c] = offset[c] + 1]
            /\ \/ LET r == Append(result[c], inode[open[c]][offset[c] + 1])
                  IN  /\ result' = [result EXCEPT ![c] = r] /\ UNCHANGED skipped
                      /\ r \in F!Content /\ Len(r) = Len(result[c]) + 1
               \/ /\ copy[c] = "sending" /\ skipped[c] + 1 \in 0..Blocks
                  /\ skipped' = [skipped EXCEPT ![c] = skipped[c] + 1]
                  /\ UNCHANGED result
<1> USE DEF CopyInv
<1>1. CASE UNCHANGED <<offset, result, skipped>>
  BY <1>1
<1>2. CASE ~UNCHANGED <<offset, result, skipped>>
  <2>1. /\ UNCHANGED <<kind, copy, temp, inode, open, size, short, answer, clash>>
        /\ copy[c] \in {"sending", "tar"} /\ open[c] \in F!Inodes
        /\ offset[c] < Len(inode[open[c]])
        /\ offset' = [offset EXCEPT ![c] = offset[c] + 1]
        /\ \/ /\ result' = [result EXCEPT ![c] =
                              Append(result[c], inode[open[c]][offset'[c]])]
              /\ UNCHANGED skipped
           \/ /\ copy[c] = "sending" /\ UNCHANGED result
              /\ skipped' = [skipped EXCEPT ![c] = skipped[c] + 1]
    <3>1. CASE F!FromSend(c)
      <4>1. open[c] # NoFile => open[c] \in F!Inodes
        BY DEF F!TypeOK, F!Inodes
      <4> QED  BY <1>2, <3>1, <4>1 DEF F!FromSend, F!Skip, F!console
    <3>2. CASE F!ToTar(c)
      <4>1. open[c] \in F!Inodes
        BY <3>2 DEF F!ToTar, CopyStages, F!Inodes
      <4> QED  BY <1>2, <3>2, <4>1 DEF F!ToTar, F!console, F!losses
    <3> QED  BY <3>1, <3>2
  <2>2. /\ inode[open[c]] \in F!Content /\ result[c] \in F!Content
        /\ offset[c] \in 0..Blocks /\ skipped[c] \in 0..Blocks /\ Blocks \in Nat
    BY <2>1, StreamsAssumption DEF F!TypeOK
  <2>3. /\ Len(inode[open[c]]) \in 0..Blocks /\ Len(result[c]) \in 0..Blocks
        /\ \A k \in 1..Len(inode[open[c]]) :
              inode[open[c]][k] \in {F!Hole} \cup (Copies \X (1..Blocks))
    BY <2>2, ContentIsSeq
  <2>4. /\ offset[c] + 1 \in 0..Blocks /\ offset[c] < Blocks
        /\ inode[open[c]][offset[c] + 1] \in {F!Hole} \cup (Copies \X (1..Blocks))
    <3>1. offset[c] + 1 \in 1..Len(inode[open[c]])
      BY <2>1, <2>2, <2>3
    <3> QED  BY <2>2, <2>3, <3>1
  <2>5. /\ Len(result[c]) < Blocks
        /\ copy[c] = "sending" => skipped[c] + 1 \in 0..Blocks
    <3>1. /\ copy[c] = "sending" => Len(result[c]) + skipped[c] = offset[c]
          /\ copy[c] = "tar" => Len(result[c]) = offset[c]
      BY DEF CopyStages
    <3>2. /\ offset[c] \in Nat /\ skipped[c] \in Nat /\ Len(result[c]) \in Nat
          /\ offset[c] < Blocks /\ Blocks \in Nat
      BY <2>2, <2>3, <2>4
    <3>3. Len(result[c]) <= offset[c] /\ (copy[c] = "sending" => skipped[c] <= offset[c])
      BY <2>1, <3>1, <3>2
    <3> QED  BY <3>2, <3>3
  <2>6. /\ Append(result[c], inode[open[c]][offset[c] + 1]) \in F!Content
        /\ Len(Append(result[c], inode[open[c]][offset[c] + 1])) = Len(result[c]) + 1
    BY <2>2, <2>4, <2>5, ContentGrows
  <2>7. offset'[c] = offset[c] + 1
    BY <2>1 DEF F!TypeOK
  <2> QED  BY <2>1, <2>4, <2>5, <2>6, <2>7
<1> QED  BY <1>1, <1>2

\* The state of the copies is of its type.
LEMMA CopyTypeStep ==
  ASSUME CopyInv, [F!Next]_copyState
  PROVE  F!TypeOK'
<1> USE DEF CopyInv
<1>1. CASE UNCHANGED copyState
  BY <1>1 DEF copyState, F!TypeOK
<1>2. ASSUME NEW c \in Copies, F!FromCreate(c) \/ F!ToInit(c)
      PROVE  F!TypeOK'
  <2>1. /\ copy[c] = "begin"
        /\ copy' \in [Copies -> {"begin", "fetch", "opening", "sending",
                                 "receiving", "put", "tar", "returned"}]
        /\ answer' \in [Copies -> {"none", "ok", "error"}]
        /\ UNCHANGED <<kind, size, short, lost, skipped, result, panicked>>
    BY <1>2 DEF F!FromCreate, F!ToInit, F!Return, F!TypeOK, F!console, F!losses
  <2>2. CASE F!CreateTemp(c)
    <3>1. clash' \subseteq Copies
      BY <2>2 DEF F!CreateTemp, F!Using, F!TypeOK
    <3>2. <<>> \in F!Content
      BY SeqIsContent, StreamsAssumption DEF F!Content
    <3>3. /\ temp' \in F!Inodes
          /\ inode' = [inode EXCEPT ![temp'] = <<>>]
          /\ open' = [open EXCEPT ![c] = temp'] /\ offset' = [offset EXCEPT ![c] = 0]
      BY <2>2, CreateFinds
    <3>4. /\ open' \in [Copies -> F!Inodes \cup {NoFile}]
          /\ offset' \in [Copies -> 0..Blocks]
      BY <3>3, StreamsAssumption DEF F!TypeOK
    <3>5. inode' \in [F!Inodes -> F!Content]
      BY <3>2, <3>3 DEF F!TypeOK
    <3> QED  BY <2>1, <3>1, <3>3, <3>4, <3>5 DEF F!TypeOK, F!Inodes, F!Content, F!Hole
  <2>3. CASE ~F!CreateTemp(c)
    <3>1. UNCHANGED <<inode, open, offset, clash, temp>>
      BY <1>2, <2>3 DEF F!FromCreate, F!ToInit, F!Return
    <3> QED  BY <2>1, <3>1 DEF F!TypeOK
  <2> QED  BY <2>2, <2>3
<1>3. ASSUME NEW c \in Copies, F!FromFetch(c) \/ F!ToReceive(c)
      PROVE  F!TypeOK'
  <2>1. /\ open[c] \in F!Inodes
        /\ copy' \in [Copies -> {"begin", "fetch", "opening", "sending",
                                 "receiving", "put", "tar", "returned"}]
        /\ answer' \in [Copies -> {"none", "ok", "error"}]
        /\ short' \subseteq Copies /\ UNCHANGED temp
        /\ UNCHANGED <<kind, open, size, lost, result, panicked, clash>>
    BY <1>3 DEF F!FromFetch, F!ToReceive, F!Return, F!TypeOK, F!console, F!losses,
                F!WriteTemp, CopyStages
  <2>s. skipped' \in [Copies -> 0..Blocks]
    <3>1. CASE UNCHANGED skipped
      BY <3>1 DEF F!TypeOK
    <3>2. CASE F!Skip(c) /\ F!Sent(c) < Blocks
      <4>1. skipped[c] + 1 \in 0..Blocks
        BY <3>2, StreamsAssumption DEF F!Sent, F!TypeOK
      <4> QED  BY <3>2, <4>1 DEF F!Skip, F!TypeOK
    <3> QED  BY <1>3, <3>1, <3>2 DEF F!FromFetch, F!ToReceive, F!losses
  <2>2. inode' \in [F!Inodes -> F!Content] /\ offset' \in [Copies -> 0..Blocks]
    <3>1. CASE UNCHANGED <<inode, offset>>
      BY <3>1 DEF F!TypeOK
    <3>2. ASSUME NEW k \in 1..Blocks, F!WriteTemp(c, <<c, k>>), offset[c] < Blocks
          PROVE  inode' \in [F!Inodes -> F!Content] /\ offset' \in [Copies -> 0..Blocks]
      BY <2>1, <3>2, WriteGrows
    <3>3. CASE F!WriteTemp(c, <<c, offset[c] + 1>>) /\ offset[c] < Blocks
      <4>1. offset[c] + 1 \in 1..Blocks
        BY <3>3, StreamsAssumption DEF F!TypeOK
      <4> QED  BY <3>2, <3>3, <4>1
    <3>4. CASE F!WriteTemp(c, <<c, F!Sent(c) + 1>>) /\ F!Sent(c) < Blocks
      <4>1. F!Sent(c) + 1 \in 1..Blocks /\ offset[c] < Blocks
        BY <3>4, StreamsAssumption DEF F!Sent, F!TypeOK
      <4> QED  BY <3>2, <3>4, <4>1
    <3> QED  BY <1>3, <3>1, <3>3, <3>4 DEF F!FromFetch, F!ToReceive
  <2> QED  BY <2>1, <2>s, <2>2 DEF F!TypeOK
<1>4. ASSUME NEW c \in Copies, F!FromOpen(c)
      PROVE  F!TypeOK'
  BY <1>4, StreamsAssumption DEF F!FromOpen, F!TypeOK, F!files, F!console, F!losses
<1>5. ASSUME NEW c \in Copies, F!FromSend(c) \/ F!ToTar(c)
      PROVE  F!TypeOK'
  <2>1. /\ copy' \in [Copies -> {"begin", "fetch", "opening", "sending",
                                 "receiving", "put", "tar", "returned"}]
        /\ answer' \in [Copies -> {"none", "ok", "error"}]
        /\ temp' \in {NoFile, temp}
        /\ UNCHANGED <<kind, inode, open, size, short, lost, panicked,
                       clash>>
    BY <1>5 DEF F!FromSend, F!ToTar, F!Return, F!TypeOK, F!console, F!losses
  <2>2. /\ offset' \in [Copies -> 0..Blocks] /\ result' \in [Copies -> F!Content]
        /\ skipped' \in [Copies -> 0..Blocks]
    <3>1. CASE UNCHANGED <<offset, result, skipped>>
      BY <3>1 DEF F!TypeOK
    <3>2. CASE ~UNCHANGED <<offset, result, skipped>>
      <4>1. /\ offset[c] + 1 \in 0..Blocks
            /\ offset' = [offset EXCEPT ![c] = offset[c] + 1]
            /\ \/ /\ UNCHANGED skipped
                  /\ \E r \in F!Content : result' = [result EXCEPT ![c] = r]
               \/ /\ skipped[c] + 1 \in 0..Blocks /\ UNCHANGED result
                  /\ skipped' = [skipped EXCEPT ![c] = skipped[c] + 1]
        BY <1>5, <3>2, Transfers
      <4> QED  BY <4>1 DEF F!TypeOK
    <3> QED  BY <3>1, <3>2
  <2> QED  BY <2>1, <2>2 DEF F!TypeOK
<1>6. ASSUME NEW c \in Copies, F!ToPut(c)
      PROVE  F!TypeOK'
  <2>1. temp # NoFile => Len(inode[temp]) \in 0..Blocks
    BY ContentIsSeq DEF F!TypeOK, F!Inodes
  <2>2. CASE temp # NoFile /\ container = "up"
    <3>1. /\ open' = [open EXCEPT ![c] = temp]
          /\ size' = [size EXCEPT ![c] = Len(inode[temp])]
          /\ offset' = [offset EXCEPT ![c] = 0]
          /\ copy' = [copy EXCEPT ![c] = "tar"]
          /\ UNCHANGED <<kind, temp, inode, short, lost, skipped, result, answer,
                         panicked, clash>>
      BY <1>6, <2>2 DEF F!ToPut, F!console, F!losses
    <3>2. 0 \in 0..Blocks /\ temp \in F!Inodes \cup {NoFile}
      BY StreamsAssumption DEF F!TypeOK
    <3>3. /\ open' \in [Copies -> F!Inodes \cup {NoFile}]
          /\ size' \in [Copies -> 0..Blocks] /\ offset' \in [Copies -> 0..Blocks]
      BY <2>1, <2>2, <3>1, <3>2 DEF F!TypeOK
    <3> QED  BY <3>1, <3>3 DEF F!TypeOK, F!Inodes, F!Content, F!Hole
  <2>3. CASE ~(temp # NoFile /\ container = "up")
    BY <1>6, <2>3 DEF F!ToPut, F!Return, F!TypeOK, F!console, F!losses
  <2> QED  BY <2>2, <2>3
<1>7. ASSUME NEW c \in Copies, F!ToBroken(c) \/ F!ConsoleDies(c)
      PROVE  F!TypeOK'
  BY <1>7 DEF F!ToBroken, F!ConsoleDies, F!TypeOK, F!files, F!console, F!losses
<1> QED
  BY <1>1, <1>2, <1>3, <1>4, <1>5, <1>6, <1>7 DEF F!Next, F!CopyProgress

\* Each copy keeps what its stage says of it.
LEMMA StagesStep ==
  ASSUME CopyInv, [F!Next]_copyState
  PROVE  CopyStages'
<1> USE DEF CopyInv
<1> DEFINE S(d) ==
      /\ copy[d] \in {"fetch", "opening", "sending"} => kind[d] = "from"
      /\ copy[d] \in {"receiving", "put", "tar"} => kind[d] = "to"
      /\ copy[d] \in {"fetch", "receiving", "tar"} => open[d] \in F!Inodes
      /\ copy[d] = "sending" => Len(result[d]) + skipped[d] = offset[d]
      /\ copy[d] = "tar" => Len(result[d]) = offset[d]
      /\ copy[d] \in {"begin", "fetch", "opening"} => skipped[d] = 0
      /\ copy[d] = "receiving" => F!Sent(d) <= Blocks
      /\ copy[d] \notin {"sending", "tar", "returned"} => result[d] = <<>>
      /\ copy[d] # "returned" => answer[d] = "none"
<1>s. SUFFICES ASSUME NEW d \in Copies PROVE S(d)'
  BY DEF CopyStages
<1>0. S(d)
  BY DEF CopyStages
<1>t. /\ offset[d] \in 0..Blocks /\ skipped[d] \in 0..Blocks /\ Blocks \in Nat
      /\ Len(result[d]) \in 0..Blocks
      /\ copy[d] \in {"begin", "fetch", "opening", "sending",
                      "receiving", "put", "tar", "returned"}
  BY StreamsAssumption, ContentIsSeq DEF F!TypeOK
<1>u. ASSUME copy'[d] = copy[d], open'[d] = open[d], offset'[d] = offset[d],
             skipped'[d] = skipped[d], result'[d] = result[d],
             answer'[d] = answer[d], kind' = kind
      PROVE  S(d)'
  BY <1>0, <1>u DEF F!Inodes, F!Sent
<1>r. ASSUME NEW status, NEW remove, F!Return(d, status, remove) PROVE S(d)'
  <2>1. copy'[d] = "returned"
    BY <1>r DEF F!Return, F!TypeOK
  <2> QED  BY <2>1
<1>1. CASE UNCHANGED copyState
  BY <1>1, <1>u DEF copyState
<1>e. ASSUME NEW c \in Copies, c # d,
             \/ F!FromCreate(c) \/ F!ToInit(c) \/ F!FromFetch(c) \/ F!ToReceive(c)
             \/ F!FromOpen(c) \/ F!FromSend(c) \/ F!ToTar(c) \/ F!ToPut(c)
      PROVE  S(d)'
  <2>1. /\ copy'[d] = copy[d] /\ open'[d] = open[d] /\ offset'[d] = offset[d]
        /\ answer'[d] = answer[d] /\ kind' = kind
    BY <1>e
    DEF F!FromCreate, F!ToInit, F!FromFetch, F!ToReceive, F!FromOpen, F!FromSend,
        F!ToTar, F!ToPut, F!CreateTemp, F!WriteTemp, F!Return, F!TypeOK
  <2>2. skipped'[d] = skipped[d] /\ result'[d] = result[d]
    BY <1>e
    DEF F!FromCreate, F!ToInit, F!FromFetch, F!ToReceive, F!FromOpen, F!FromSend,
        F!ToTar, F!ToPut, F!Skip, F!losses, F!TypeOK
  <2> QED  BY <1>u, <2>1, <2>2
<1>2. CASE F!FromCreate(d) \/ F!ToInit(d)
  <2>1. CASE F!Return(d, "error", FALSE)
    BY <1>r, <2>1
  <2>2. CASE ~F!Return(d, "error", FALSE)
    <3>1. /\ F!CreateTemp(d) /\ UNCHANGED <<kind, skipped, result, answer>>
          /\ copy[d] = "begin"
          /\ \/ copy'[d] = "fetch" /\ kind[d] = "from"
             \/ copy'[d] = "receiving" /\ kind[d] = "to"
      BY <1>2, <2>2 DEF F!FromCreate, F!ToInit, F!TypeOK, F!losses
    <3>2. open'[d] \in F!Inodes /\ offset'[d] = 0
      BY <3>1, CreateFinds DEF F!TypeOK, F!Inodes
    <3>3. skipped'[d] = 0 /\ result'[d] = <<>> /\ answer'[d] = "none"
      BY <1>0, <3>1
    <3>4. F!Sent(d)' = 0
      BY <3>2, <3>3 DEF F!Sent
    <3> QED  BY <1>t, <3>1, <3>2, <3>3, <3>4 DEF F!Inodes
  <2> QED  BY <2>1, <2>2
<1>3. CASE F!FromFetch(d)
  <2>1. CASE F!Return(d, "error", FALSE)
    BY <1>r, <2>1
  <2>2. CASE ~F!Return(d, "error", FALSE)
    <3>1. /\ UNCHANGED <<kind, open, skipped, result, answer>>
          /\ copy[d] = "fetch" /\ copy'[d] \in {"fetch", "opening"}
      BY <1>3, <2>2 DEF F!FromFetch, F!losses, F!TypeOK
    <3> QED  BY <1>0, <3>1 DEF F!Inodes
  <2> QED  BY <2>1, <2>2
<1>4. CASE F!ToReceive(d)
  <2>1. /\ UNCHANGED <<kind, open, result, answer>>
        /\ copy[d] = "receiving" /\ copy'[d] \in {"receiving", "put"}
    BY <1>4 DEF F!ToReceive, F!TypeOK
  <2>2. copy'[d] = "receiving" => F!Sent(d)' <= Blocks
    <3>1. SUFFICES ASSUME copy'[d] = "receiving" PROVE F!Sent(d)' <= Blocks
      OBVIOUS
    <3>2. /\ F!Sent(d) < Blocks
          /\ \/ F!WriteTemp(d, <<d, F!Sent(d) + 1>>) /\ UNCHANGED skipped
             \/ F!Skip(d) /\ UNCHANGED <<inode, offset>>
      BY <1>4, <3>1 DEF F!ToReceive, F!TypeOK
    <3>3. \/ offset'[d] = offset[d] + 1 /\ skipped'[d] = skipped[d]
          \/ offset'[d] = offset[d] /\ skipped'[d] = skipped[d] + 1
      BY <3>2 DEF F!WriteTemp, F!Skip, F!TypeOK
    <3> QED  BY <1>t, <3>2, <3>3 DEF F!Sent
  <2> QED  BY <1>0, <2>1, <2>2 DEF F!Inodes
<1>5. CASE F!FromOpen(d)
  <2>1. /\ copy[d] = "opening" /\ copy'[d] = "sending" /\ offset'[d] = 0
        /\ UNCHANGED <<kind, skipped, result, answer>>
    BY <1>5 DEF F!FromOpen, F!losses, F!TypeOK
  <2> QED  BY <1>0, <2>1, EmptySeq
<1>6. CASE F!FromSend(d) \/ F!ToTar(d)
  <2>1. CASE UNCHANGED <<offset, result, skipped>>
    <3>1. F!Return(d, "ok", TRUE) \/ F!Return(d, "error", TRUE)
      <4>1. offset'[d] = offset[d]
        BY <2>1
      <4>2. offset' # [offset EXCEPT ![d] = @ + 1]
        BY <1>t, <4>1 DEF F!TypeOK
      <4> QED  BY <1>6, <4>2 DEF F!FromSend, F!ToTar
    <3> QED  BY <1>r, <3>1
  <2>2. CASE ~UNCHANGED <<offset, result, skipped>>
    <3>1. /\ UNCHANGED <<kind, copy, open, answer>>
          /\ copy[d] \in {"sending", "tar"}
          /\ offset'[d] = offset[d] + 1
          /\ \/ skipped'[d] = skipped[d] /\ Len(result'[d]) = Len(result[d]) + 1
             \/ /\ copy[d] = "sending" /\ result'[d] = result[d]
                /\ skipped'[d] = skipped[d] + 1
      BY <1>6, <2>2, Transfers DEF F!TypeOK
    <3>3. CASE copy[d] = "sending"
      <4>1. Len(result'[d]) + skipped'[d] = offset'[d]
        <5>1. Len(result[d]) + skipped[d] = offset[d]
          BY <1>0, <3>3
        <5>2. /\ Len(result[d]) \in Nat /\ skipped[d] \in Nat
              /\ offset'[d] = offset[d] + 1
              /\ \/ skipped'[d] = skipped[d] /\ Len(result'[d]) = Len(result[d]) + 1
                 \/ skipped'[d] = skipped[d] + 1 /\ Len(result'[d]) = Len(result[d])
          BY <1>t, <3>1
        <5> QED  BY <5>1, <5>2
      <4> QED  BY <1>0, <3>1, <3>3, <4>1
    <3>4. CASE copy[d] = "tar"
      <4>1. Len(result'[d]) = offset'[d] /\ open'[d] \in F!Inodes
        BY <1>0, <3>1, <3>4
      <4> QED  BY <1>0, <3>1, <3>4, <4>1 DEF F!Inodes
    <3> QED  BY <3>1, <3>3, <3>4
  <2> QED  BY <2>1, <2>2
<1>7. CASE F!ToPut(d)
  <2>1. CASE F!Return(d, "error", TRUE)
    BY <1>r, <2>1
  <2>2. CASE ~F!Return(d, "error", TRUE)
    <3>1. /\ copy[d] = "put" /\ copy'[d] = "tar" /\ offset'[d] = 0
          /\ open'[d] \in F!Inodes
          /\ UNCHANGED <<kind, skipped, result, answer>>
      BY <1>7, <2>2 DEF F!ToPut, F!losses, F!TypeOK
    <3> QED  BY <1>0, <3>1, EmptySeq DEF F!Inodes
  <2> QED  BY <2>1, <2>2
<1>8. ASSUME NEW c \in Copies, F!ToBroken(c) \/ F!ConsoleDies(c)
      PROVE  S(d)'
  BY <1>u, <1>8 DEF F!ToBroken, F!ConsoleDies, F!losses
<1> QED
  BY <1>1, <1>e, <1>2, <1>3, <1>4, <1>5, <1>6, <1>7, <1>8
  DEF F!Next, F!CopyProgress

\* A file that is there is used, or was left by a copy that failed.
LEMMA TempStep ==
  ASSUME CopyInv, [F!Next]_copyState
  PROVE  TempKept'
<1> USE DEF CopyInv
<1>1. SUFFICES ASSUME temp' # NoFile
               PROVE  TempKept'
  BY DEF TempKept
<1>2. ASSUME NEW c \in Copies, F!CreateTemp(c), copy'[c] \in {"fetch", "receiving"}
      PROVE  TempKept'
  BY <1>2 DEF TempKept, F!Using
<1>3. ASSUME temp # NoFile, NEW c \in Copies, NEW status \in {"ok", "error"},
             F!Return(c, status, FALSE), UNCHANGED kind,
             copy[c] \in {"begin", "fetch"},
             \/ copy[c] = "begin"
             \/ copy[c] = "fetch" /\ status = "error"
      PROVE  TempKept'
  <2>1. ASSUME NEW d \in F!Using PROVE TempKept'
    <3>1. CASE d = c
      BY <1>3, <2>1, <3>1
      DEF TempKept, F!Using, F!Return, F!TypeOK, CopyStages
    <3>2. CASE d # c
      BY <1>3, <2>1, <3>2 DEF TempKept, F!Using, F!Return, F!TypeOK
    <3> QED  BY <3>1, <3>2
  <2>2. ASSUME NEW d \in Copies, kind[d] = "from", copy[d] = "returned",
               answer[d] # "ok"
        PROVE  TempKept'
    BY <1>3, <2>2 DEF TempKept, F!Return, F!TypeOK
  <2> QED  BY <1>3, <2>1, <2>2 DEF TempKept
<1>4. ASSUME temp # NoFile, UNCHANGED <<kind, answer>>,
             \A c \in F!Using : copy'[c] \in {"fetch", "opening", "sending",
                                              "receiving", "put", "tar"},
             \A c \in Copies : copy[c] = "returned" => copy'[c] = "returned"
      PROVE  TempKept'
  BY <1>4 DEF TempKept, F!Using
<1>5. CASE UNCHANGED copyState
  BY <1>1, <1>4, <1>5 DEF copyState, F!Using
<1>6. ASSUME NEW c \in Copies, F!FromCreate(c) \/ F!ToInit(c) PROVE TempKept'
  <2>1. CASE F!CreateTemp(c)
    BY <1>1, <1>2, <1>3, <1>6, <2>1 DEF F!FromCreate, F!ToInit, F!TypeOK, F!Return
  <2>2. CASE ~F!CreateTemp(c)
    BY <1>1, <1>3, <1>6, <2>2 DEF F!FromCreate, F!ToInit, F!Return
  <2> QED  BY <2>1, <2>2
<1>7. ASSUME NEW c \in Copies, F!FromFetch(c) PROVE TempKept'
  <2>1. CASE F!Return(c, "error", FALSE)
    BY <1>1, <1>3, <1>7, <2>1 DEF F!FromFetch, F!Return
  <2>2. CASE ~F!Return(c, "error", FALSE)
    BY <1>1, <1>4, <1>7, <2>2 DEF F!FromFetch, F!TypeOK, F!Using
  <2> QED  BY <2>1, <2>2
<1>8. ASSUME NEW c \in Copies,
             \/ F!FromOpen(c) \/ F!FromSend(c) \/ F!ToReceive(c) \/ F!ToPut(c)
             \/ F!ToTar(c) \/ F!ToBroken(c) \/ F!ConsoleDies(c)
      PROVE  TempKept'
  BY <1>1, <1>4, <1>8
  DEF F!FromOpen, F!FromSend, F!ToReceive, F!ToPut, F!ToTar, F!ToBroken,
      F!ConsoleDies, F!Return, F!TypeOK, F!Using, F!files
<1> QED
  BY <1>5, <1>6, <1>7, <1>8 DEF F!Next, F!CopyProgress

\* A copy that shared its file with nobody goes on alone, and finds in the
\* file what it wrote.
LEMMA AloneStep ==
  ASSUME CopyInv, [F!Next]_copyState
  PROVE  CopyAlone'
<1> USE DEF CopyInv
<1> DEFINE P(d) ==
      /\ F!Using = {d}
      /\ temp \in F!Inodes /\ open[d] = temp
      /\ copy[d] = "fetch" => inode[temp] = Part(d, offset[d])
      /\ copy[d] \in {"opening", "sending"} => inode[temp] = Part(d, Blocks)
      /\ copy[d] = "sending" => F!Left(d, result[d], offset[d], skipped[d])
      /\ copy[d] = "receiving" =>
            F!Left(d, inode[temp], F!Sent(d), skipped[d])
      /\ copy[d] \in {"put", "tar"} /\ d \notin short =>
            F!Left(d, inode[temp], Blocks, skipped[d])
      /\ copy[d] = "tar" =>
            /\ size[d] = Len(inode[temp])
            /\ \A k \in 1..offset[d] : result[d][k] = inode[temp][k]
<1>1. SUFFICES ASSUME NEW d \in (F!Using \ clash)'
               PROVE  P(d)'
  BY DEF CopyAlone
<1>2. d \in Copies
  BY DEF F!Using
<1>3. d \in F!Using \ clash => P(d)
  BY DEF CopyAlone
<1>4. Part(d, 0) = <<>>
  <2>1. Part(d, 0) \in F!Content /\ Len(Part(d, 0)) = 0
    BY <1>2, PartGrows, StreamsAssumption
  <2> QED  BY <2>1, EmptySeq, SeqDef, StreamsAssumption DEF Part
<1>5. /\ offset[d] \in 0..Blocks /\ skipped[d] \in 0..Blocks /\ Blocks \in Nat
      /\ \A n \in 0..Blocks : Len(Part(d, n)) = n
      /\ \A n \in 0..Blocks, k \in 1..Blocks : k <= n => Part(d, n)[k] = <<d, k>>
  BY <1>2, PartGrows, StreamsAssumption, SMTT(30) DEF F!TypeOK
<1>6. CASE UNCHANGED copyState
  BY <1>3, <1>6 DEF copyState, F!Using, F!Inodes, F!Sent
<1>7. ASSUME NEW c \in Copies, F!FromCreate(c) \/ F!ToInit(c) PROVE P(d)'
  <2>1. ASSUME F!CreateTemp(c), NEW stage \in {"fetch", "receiving"},
               copy' = [copy EXCEPT ![c] = stage]
        PROVE  P(d)'
    <3>1. F!Using' = F!Using \cup {c} /\ copy'[c] = stage
      BY <2>1 DEF F!Using, F!TypeOK
    <3>2. d = c /\ F!Using = {}
      BY <2>1, <3>1 DEF F!CreateTemp
    <3>3. /\ temp' \in F!Inodes /\ open'[d] = temp' /\ offset'[d] = 0
          /\ inode'[temp'] = <<>>
      BY <2>1, <3>2, CreateFinds DEF F!TypeOK
    <3>4. skipped'[d] = 0
      BY <1>7, <3>2 DEF F!FromCreate, F!ToInit, F!losses, CopyStages
    <3>5. F!Left(d, inode'[temp'], F!Sent(d)', skipped'[d])
      <4>1. F!Sent(d)' = 0
        BY <3>3, <3>4 DEF F!Sent
      <4> QED  BY <1>2, <3>3, <3>4, <4>1, LeftBegins
    <3> QED  BY <1>4, <2>1, <3>1, <3>2, <3>3, <3>5 DEF F!Inodes, F!Left
  <2>2. CASE F!Return(c, "error", FALSE) /\ UNCHANGED <<inode, open, offset, clash>>
    <3>1. /\ UNCHANGED <<temp, inode, open, offset, size, short, skipped, result, clash>>
          /\ copy' = [copy EXCEPT ![c] = "returned"]
      BY <1>7, <2>2 DEF F!FromCreate, F!ToInit, F!Return, F!console, F!losses
    <3>2. d # c /\ d \in F!Using \ clash /\ F!Using' = F!Using
      BY <1>7, <3>1 DEF F!FromCreate, F!ToInit, F!Using, F!TypeOK
    <3> QED  BY <1>3, <3>1, <3>2 DEF F!TypeOK, F!Inodes, F!Sent
  <2> QED  BY <1>7, <2>1, <2>2 DEF F!FromCreate, F!ToInit
<1>8. ASSUME NEW c \in F!Using, UNCHANGED clash, F!Using' \subseteq F!Using
      PROVE  c = d /\ P(d)
  BY <1>1, <1>3, <1>8
<1>9. ASSUME NEW c \in Copies, F!FromFetch(c) \/ F!ToReceive(c) PROVE P(d)'
  <2>1. c \in F!Using /\ UNCHANGED clash /\ F!Using' \subseteq F!Using
    BY <1>9 DEF F!FromFetch, F!ToReceive, F!Using, F!Return, F!TypeOK
  <2>2. c = d /\ P(d)
    BY <1>8, <2>1
  <2> DEFINE s == inode[temp]
             o == offset[d]
  <2>3. /\ s \in F!Content /\ DOMAIN s = 1..Len(s) /\ Len(s) \in Nat
        /\ inode \in [F!Inodes -> F!Content]
    <3>1. s \in F!Content
      BY <2>2 DEF F!TypeOK
    <3> QED  BY <3>1, ContentIsSeq DEF F!TypeOK
  <2>4. ASSUME NEW b, F!WriteTemp(d, b), Len(s) = o
        PROVE  /\ Len(inode'[temp]) = o + 1 /\ inode'[temp][o + 1] = b
               /\ inode'[temp] = [k \in 1..(o + 1) |-> inode'[temp][k]]
               /\ \A k \in 1..o : inode'[temp][k] = s[k]
               /\ DOMAIN inode'[temp] = 1..(o + 1) /\ offset'[d] = o + 1
    <3> DEFINE new == [k \in 1..(o + 1) |->
                         IF k = o + 1 THEN b
                         ELSE IF k <= Len(s) THEN s[k] ELSE F!Hole]
    <3>1. inode' = [inode EXCEPT ![temp] = new]
      <4>1. inode' = [inode EXCEPT ![temp] =
                        [k \in 1..(IF o < Len(s) THEN Len(s) ELSE o + 1) |->
                           IF k = o + 1 THEN b
                           ELSE IF k <= Len(s) THEN s[k] ELSE F!Hole]]
        BY <2>2, <2>4 DEF F!WriteTemp
      <4>2. (IF o < Len(s) THEN Len(s) ELSE o + 1) = o + 1
        BY <2>4, <1>5
      <4> QED  BY <4>1, <4>2
    <3>2. inode'[temp] = new
      BY <2>2, <2>3, <3>1
    <3>3. Len(new) = o + 1
      <4>1. o + 1 \in Nat
        BY <1>5
      <4> HIDE DEF o
      <4>2. new \in [1..(o + 1) -> {new[k] : k \in 1..(o + 1)}]
        OBVIOUS
      <4>3. new \in Seq({new[k] : k \in 1..(o + 1)})
        BY <4>1, <4>2, SeqDef
      <4> QED  BY <4>1, <4>2, <4>3, LenProperties
    <3>4. offset'[d] = o + 1
      BY <1>2, <2>4 DEF F!WriteTemp, F!TypeOK
    <3>5. new = [k \in 1..(o + 1) |-> new[k]]
      OBVIOUS
    <3> QED  BY <1>5, <2>4, <3>2, <3>3, <3>4, <3>5
  <2>5. CASE F!FromFetch(d) /\ copy'[d] = "fetch"
    <3>1. /\ F!WriteTemp(d, <<d, o + 1>>) /\ copy[d] = "fetch"
          /\ UNCHANGED <<copy, temp, open>>
      BY <1>2, <2>2, <2>5 DEF F!FromFetch, F!Return, F!TypeOK
    <3>2. s = Part(d, o) /\ Len(s) = o
      BY <1>5, <2>2, <3>1
    <3>3. /\ inode'[temp][o + 1] = <<d, o + 1>> /\ offset'[d] = o + 1
          /\ \A k \in 1..o : inode'[temp][k] = <<d, k>>
          /\ inode'[temp] = [k \in 1..(o + 1) |-> inode'[temp][k]]
      BY <2>4, <3>1, <3>2 DEF Part
    <3>4. inode'[temp] = Part(d, o + 1)
      <4>1. \A k \in 1..(o + 1) : inode'[temp][k] = <<d, k>>
        <5>1. \A k \in 1..(o + 1) : k \in 1..o \/ k = o + 1
          BY <1>5
        <5> QED  BY <3>3, <5>1
      <4> QED  BY <3>3, <4>1 DEF Part
    <3> QED  BY <2>2, <3>1, <3>3, <3>4 DEF F!Using, F!Inodes
  <2>6. CASE F!FromFetch(d) /\ copy'[d] # "fetch"
    <3>1. /\ o = Blocks /\ copy[d] = "fetch" /\ copy' = [copy EXCEPT ![d] = "opening"]
          /\ UNCHANGED <<temp, inode, open>>
      BY <1>1, <1>2, <2>2, <2>6 DEF F!FromFetch, F!Return, F!Using, F!TypeOK
    <3>2. F!Using' = {d} /\ copy'[d] = "opening"
      BY <1>2, <2>1, <2>2, <3>1 DEF F!Using, F!TypeOK
    <3> QED  BY <2>2, <3>1, <3>2 DEF F!Inodes
  <2>7. CASE F!ToReceive(d)
    <3>1. /\ copy[d] = "receiving" /\ UNCHANGED <<temp, open>>
          /\ F!Left(d, s, F!Sent(d), skipped[d])
      BY <2>2, <2>7 DEF F!ToReceive
    <3>2. /\ F!Sent(d) \in Nat /\ skipped[d] \in 0..F!Sent(d)
          /\ F!Sent(d) = o + skipped[d] /\ F!Sent(d) - skipped[d] = o
      BY <1>5 DEF F!Sent
    <3>3. Len(s) = o
      BY <3>1, <3>2 DEF F!Left
    <3>4. /\ F!Left(d, s, F!Sent(d) + 1, skipped[d] + 1)
          /\ \A t : /\ Len(t) = Len(s) + 1
                    /\ \A k \in 1..Len(s) : t[k] = s[k]
                    /\ t[Len(s) + 1] = <<d, F!Sent(d) + 1>>
                   => F!Left(d, t, F!Sent(d) + 1, skipped[d])
      BY <1>2, <3>1, <3>2, LeftGrows
    <3>5. CASE F!WriteTemp(d, <<d, F!Sent(d) + 1>>) /\ UNCHANGED <<copy, skipped>>
      <4>1. F!Left(d, inode'[temp], F!Sent(d) + 1, skipped[d])
        BY <2>4, <3>3, <3>4, <3>5
      <4>2. F!Sent(d)' = F!Sent(d) + 1
        <5>1. offset'[d] = o + 1 /\ skipped'[d] = skipped[d]
          BY <2>4, <3>3, <3>5
        <5> QED  BY <1>5, <5>1 DEF F!Sent
      <4> QED  BY <2>2, <3>1, <3>5, <4>1, <4>2 DEF F!Using, F!Inodes
    <3>6. CASE F!Skip(d) /\ UNCHANGED <<copy, inode, offset>>
      <4>1. skipped'[d] = skipped[d] + 1 /\ F!Sent(d)' = F!Sent(d) + 1
        BY <1>2, <1>5, <3>6 DEF F!Skip, F!Sent, F!TypeOK
      <4> QED  BY <2>2, <3>1, <3>4, <3>6, <4>1 DEF F!Using, F!Inodes
    <3>7. CASE copy' = [copy EXCEPT ![d] = "put"]
      <4>1. /\ UNCHANGED <<inode, offset, skipped>>
            /\ F!Sent(d) = Blocks \/ d \in short'
        <5>1. copy' # copy
          BY <1>2, <3>1, <3>7 DEF F!TypeOK
        <5> QED  BY <2>7, <5>1 DEF F!ToReceive
      <4>2. F!Using' = {d} /\ copy'[d] = "put"
        BY <1>2, <2>1, <2>2, <3>7 DEF F!Using, F!TypeOK
      <4> QED  BY <2>2, <3>1, <4>1, <4>2 DEF F!Inodes
    <3> QED  BY <2>7, <3>5, <3>6, <3>7 DEF F!ToReceive
  <2> QED  BY <1>9, <2>2, <2>5, <2>6, <2>7
<1>10. ASSUME NEW c \in Copies, F!FromOpen(c) PROVE P(d)'
  <2>1. c \in F!Using /\ UNCHANGED clash /\ F!Using' \subseteq F!Using
    BY <1>10 DEF F!FromOpen, F!Using, F!TypeOK
  <2>2. c = d /\ P(d)
    BY <1>8, <2>1
  <2>3. /\ copy[d] = "opening" /\ copy'[d] = "sending"
        /\ open'[d] = temp /\ offset'[d] = 0
        /\ UNCHANGED <<temp, inode, skipped, result>>
    BY <1>2, <1>10, <2>2
    DEF F!FromOpen, F!TypeOK, F!files, F!losses
  <2>4. result[d] = <<>> /\ skipped[d] = 0
    BY <1>2, <2>3 DEF CopyStages
  <2>5. F!Left(d, result'[d], offset'[d], skipped'[d])
    BY <1>2, <2>3, <2>4, LeftBegins
  <2>6. F!Using' = F!Using
    BY <1>10 DEF F!FromOpen, F!Using, F!TypeOK
  <2> QED  BY <2>2, <2>3, <2>5, <2>6 DEF F!Inodes
<1>11. ASSUME NEW c \in Copies, F!FromSend(c) \/ F!ToTar(c) PROVE P(d)'
  <2>1. c \in F!Using /\ UNCHANGED clash /\ F!Using' \subseteq F!Using
    BY <1>11 DEF F!FromSend, F!ToTar, F!Using, F!Return, F!TypeOK
  <2>2. c = d /\ P(d)
    BY <1>8, <2>1
  <2> DEFINE s == inode[temp]
             o == offset[d]
             r == result[d]
  <2>3. ~UNCHANGED <<offset, result, skipped>>
    <3>1. SUFFICES ASSUME UNCHANGED <<offset, result, skipped>> PROVE FALSE
      OBVIOUS
    <3>2. F!Return(d, "ok", TRUE) \/ F!Return(d, "error", TRUE)
      <4>1. offset'[d] = offset[d]
        BY <3>1
      <4>2. offset' # [offset EXCEPT ![d] = @ + 1]
        BY <1>2, <1>5, <4>1 DEF F!TypeOK
      <4> QED  BY <1>11, <2>2, <4>2 DEF F!FromSend, F!ToTar
    <3>3. copy'[d] = "returned"
      BY <1>2, <3>2 DEF F!Return, F!TypeOK
    <3> QED  BY <1>1, <3>3 DEF F!Using
  <2>4. /\ UNCHANGED <<copy, temp, inode, open, size, short>>
        /\ copy[d] \in {"sending", "tar"} /\ o < Len(s)
        /\ offset' = [offset EXCEPT ![d] = o + 1]
        /\ \/ /\ result' = [result EXCEPT ![d] = Append(r, s[o + 1])]
              /\ UNCHANGED skipped
           \/ /\ copy[d] = "sending" /\ UNCHANGED result
              /\ skipped' = [skipped EXCEPT ![d] = skipped[d] + 1]
    <3>1. open[d] = temp
      BY <2>2
    <3> QED  BY <1>2, <1>11, <2>2, <2>3, <3>1, Transfers
  <2>5. offset'[d] = o + 1 /\ F!Using' = F!Using
    BY <1>2, <2>4 DEF F!TypeOK, F!Using
  <2>6. /\ r \in Seq({F!Hole} \cup (Copies \X (1..Blocks)))
        /\ s[o + 1] \in {F!Hole} \cup (Copies \X (1..Blocks))
        /\ Len(s) \in Nat /\ Len(r) \in Nat
    <3>1. r \in F!Content /\ s \in F!Content
      BY <1>2, <2>2 DEF F!TypeOK
    <3>2. /\ r \in [1..Len(r) -> {F!Hole} \cup (Copies \X (1..Blocks))]
          /\ Len(r) \in 0..Blocks /\ Len(s) \in 0..Blocks
          /\ \A k \in 1..Len(s) : s[k] \in {F!Hole} \cup (Copies \X (1..Blocks))
      BY <3>1, ContentIsSeq
    <3>3. o + 1 \in 1..Len(s)
      BY <1>5, <2>4, <3>2
    <3>4. r \in Seq({F!Hole} \cup (Copies \X (1..Blocks)))
      BY <3>2, SeqDef, StreamsAssumption
    <3> QED  BY <3>2, <3>3, <3>4
  <2>7. /\ Len(Append(r, s[o + 1])) = Len(r) + 1
        /\ \A k \in 1..Len(r) : Append(r, s[o + 1])[k] = r[k]
        /\ Append(r, s[o + 1])[Len(r) + 1] = s[o + 1]
    BY <2>6, AppendProperties
  <2>8. CASE copy[d] = "sending"
    <3>1. s[o + 1] = <<d, o + 1>>
      BY <1>5, <2>2, <2>4, <2>8
    <3>2. F!Left(d, r, o, skipped[d]) /\ skipped[d] \in 0..o
      BY <1>2, <1>5, <2>2, <2>6, <2>8 DEF CopyStages
    <3>3. /\ F!Left(d, r, o + 1, skipped[d] + 1)
          /\ \A t : /\ Len(t) = Len(r) + 1
                    /\ \A k \in 1..Len(r) : t[k] = r[k]
                    /\ t[Len(r) + 1] = <<d, o + 1>>
                   => F!Left(d, t, o + 1, skipped[d])
      <4>1. o \in Nat
        BY <1>5
      <4> HIDE DEF o, r
      <4> QED  BY <1>2, <3>2, <4>1, LeftGrows
    <3>4. F!Left(d, result'[d], offset'[d], skipped'[d])
      <4>1. CASE result' = [result EXCEPT ![d] = Append(r, s[o + 1])] /\ UNCHANGED skipped
        <5>1. result'[d] = Append(r, s[o + 1])
          BY <1>2, <4>1 DEF F!TypeOK
        <5>2. F!Left(d, Append(r, s[o + 1]), o + 1, skipped[d])
          BY <2>7, <3>1, <3>3
        <5> QED  BY <2>5, <4>1, <5>1, <5>2
      <4>2. CASE UNCHANGED result /\ skipped' = [skipped EXCEPT ![d] = skipped[d] + 1]
        <5>1. skipped'[d] = skipped[d] + 1 /\ result'[d] = r
          BY <1>2, <4>2 DEF F!TypeOK
        <5> QED  BY <2>5, <3>3, <5>1
      <4> QED  BY <2>4, <4>1, <4>2
    <3> QED  BY <2>2, <2>4, <2>5, <2>8, <3>4 DEF F!Inodes
  <2>9. CASE copy[d] = "tar"
    <3>1. result'[d] = Append(r, s[o + 1]) /\ UNCHANGED skipped
      BY <1>2, <2>4, <2>9 DEF F!TypeOK
    <3>2. Len(r) = o
      BY <1>2, <2>9 DEF CopyStages
    <3>3. \A k \in 1..(o + 1) : result'[d][k] = s[k]
      BY <1>5, <2>2, <2>7, <2>9, <3>1, <3>2
    <3> QED  BY <2>2, <2>4, <2>5, <2>9, <3>1, <3>3 DEF F!Inodes
  <2> QED  BY <2>4, <2>8, <2>9
<1>12. ASSUME NEW c \in Copies, F!ToPut(c) PROVE P(d)'
  <2>1. c \in F!Using /\ UNCHANGED clash /\ F!Using' \subseteq F!Using
    BY <1>12 DEF F!ToPut, F!Using, F!Return, F!TypeOK
  <2>2. c = d /\ P(d)
    BY <1>8, <2>1
  <2>3. /\ UNCHANGED <<temp, inode, short, skipped, result>>
        /\ open'[d] = temp /\ offset'[d] = 0 /\ size'[d] = Len(inode[temp])
        /\ copy' = [copy EXCEPT ![d] = "tar"] /\ copy[d] = "put"
    BY <1>1, <1>2, <1>12, <2>2
    DEF F!ToPut, F!Return, F!Using, F!TypeOK, F!console, F!losses
  <2>4. F!Using' = F!Using /\ copy'[d] = "tar"
    BY <1>2, <2>3 DEF F!Using, F!TypeOK
  <2> QED  BY <2>2, <2>3, <2>4 DEF F!Inodes
<1>13. ASSUME NEW c \in Copies, F!ToBroken(c) \/ F!ConsoleDies(c) PROVE P(d)'
  BY <1>3, <1>13
  DEF F!ToBroken, F!ConsoleDies, F!Using, F!files, F!console, F!losses, F!Inodes,
      F!Sent
<1> QED
  BY <1>6, <1>7, <1>9, <1>10, <1>11, <1>12, <1>13 DEF F!Next, F!CopyProgress

\* A copy that was reported done is exact, but for the writes that failed.
LEMMA ExactStep ==
  ASSUME CopyInv, [F!Next]_copyState
  PROVE  F!CopyIsExact'
<1> USE DEF CopyInv
<1>1. SUFFICES ASSUME NEW c \in Copies, c \notin clash', c \notin short',
                      answer'[c] = "ok"
               PROVE  F!Left(c, result'[c], Blocks, skipped'[c])
  BY DEF F!CopyIsExact
<1>2. clash \subseteq clash' /\ short \subseteq short'
  BY DEF F!Next, F!CopyProgress, F!FromCreate, F!FromFetch, F!FromOpen,
         F!FromSend, F!ToInit, F!ToReceive, F!ToBroken, F!ToPut, F!ToTar,
         F!ConsoleDies, F!CreateTemp, F!console, F!losses, F!files, copyState
<1>3. CASE answer[c] = "ok"
  <2>1. copy[c] = "returned" /\ F!Left(c, result[c], Blocks, skipped[c])
    BY <1>1, <1>2, <1>3 DEF CopyStages, F!CopyIsExact
  <2>2. ASSUME NEW e \in Copies, F!FromSend(e) \/ F!ToTar(e)
        PROVE  result'[c] = result[c] /\ skipped'[c] = skipped[c]
    BY <2>1, <2>2 DEF F!TypeOK, F!FromSend, F!ToTar, F!Skip, F!losses
  <2>3. ASSUME NEW e \in Copies, F!ToReceive(e)
        PROVE  result'[c] = result[c] /\ skipped'[c] = skipped[c]
    BY <2>1, <2>3 DEF F!TypeOK, F!ToReceive, F!Skip
  <2>4. ASSUME NEW e \in Copies,
               \/ F!FromCreate(e) \/ F!FromFetch(e) \/ F!FromOpen(e) \/ F!ToInit(e)
               \/ F!ToBroken(e) \/ F!ToPut(e) \/ F!ConsoleDies(e)
        PROVE  result'[c] = result[c] /\ skipped'[c] = skipped[c]
    BY <2>4 DEF F!FromCreate, F!FromFetch, F!FromOpen, F!ToInit, F!ToBroken,
         F!ToPut, F!ConsoleDies, F!losses
  <2>5. UNCHANGED copyState => result'[c] = result[c] /\ skipped'[c] = skipped[c]
    BY DEF copyState
  <2> QED  BY <2>1, <2>2, <2>3, <2>4, <2>5 DEF F!Next, F!CopyProgress
<1>4. CASE answer[c] # "ok"
  <2>1. /\ copy[c] \in {"sending", "tar"}
        /\ UNCHANGED <<result, short, clash, skipped>>
        /\ copy[c] = "sending" => offset[c] >= Len(inode[open[c]])
        /\ copy[c] = "tar" => offset[c] = size[c]
    <3>1. answer'[c] = "ok" /\ answer[c] # "ok" /\ answer \in [Copies -> {"none", "ok", "error"}]
      BY <1>1, <1>4 DEF F!TypeOK
    <3>2. F!FromSend(c) \/ F!ToTar(c)
      <4>1. ASSUME NEW e \in Copies, NEW remove, F!Return(e, "error", remove)
            PROVE  FALSE
        BY <3>1, <4>1 DEF F!Return
      <4>2. ASSUME NEW e \in Copies, NEW status, NEW remove, e # c,
                   F!Return(e, status, remove)
            PROVE  FALSE
        BY <3>1, <4>2 DEF F!Return
      <4>3. answer' # answer
        BY <3>1
      <4>4. PICK e \in Copies :
               \/ F!FromSend(e) \/ F!ToTar(e)
               \/ F!Return(e, "error", FALSE) \/ F!Return(e, "error", TRUE)
        BY <4>3
        DEF F!Next, F!CopyProgress, F!FromCreate, F!FromFetch, F!FromOpen,
            F!ToInit, F!ToReceive, F!ToBroken, F!ToPut, F!ConsoleDies,
            F!console, F!losses, F!files, copyState
      <4>5. \E status, remove : F!Return(e, status, remove)
        BY <4>3, <4>4 DEF F!FromSend, F!ToTar
      <4> QED  BY <4>1, <4>2, <4>4, <4>5
    <3>3. CASE F!FromSend(c)
      BY <3>1, <3>3 DEF F!FromSend, F!Return, F!TypeOK, F!console, F!losses, F!Inodes
    <3>4. CASE F!ToTar(c)
      BY <3>1, <3>4 DEF F!ToTar, F!Return, F!TypeOK, F!console, F!losses, F!Inodes
    <3> QED  BY <3>2, <3>3, <3>4
  <2>2. /\ temp = open[c] /\ c \in F!Using \ clash /\ c \notin short
        /\ offset[c] \in 0..Blocks /\ Blocks \in Nat
    BY <1>1, <2>1, StreamsAssumption DEF CopyAlone, F!Using, F!TypeOK
  <2>3. CASE copy[c] = "sending"
    <3>1. /\ inode[temp] = Part(c, Blocks)
          /\ F!Left(c, result[c], offset[c], skipped[c])
      BY <2>2, <2>3 DEF CopyAlone
    <3>2. Len(Part(c, Blocks)) = Blocks
      BY <2>2, PartGrows
    <3>3. offset[c] = Blocks
      BY <2>1, <2>2, <2>3, <3>1, <3>2
    <3> QED  BY <2>1, <3>1, <3>3
  <2>4. CASE copy[c] = "tar"
    <3>1. /\ F!Left(c, inode[temp], Blocks, skipped[c])
          /\ offset[c] = Len(inode[temp]) /\ Len(result[c]) = offset[c]
          /\ \A k \in 1..offset[c] : result[c][k] = inode[temp][k]
      BY <2>1, <2>2, <2>4 DEF CopyAlone, CopyStages
    <3>2. \A k \in 1..Len(result[c]) : \A j \in 1..(k - 1) : j \in 1..Len(result[c])
      BY <2>2, <3>1
    <3>3. F!Left(c, result[c], Blocks, skipped[c])
      BY <3>1, <3>2 DEF F!Left
    <3> QED  BY <2>1, <3>3
  <2> QED  BY <2>1, <2>3, <2>4
<1> QED  BY <1>3, <1>4

\* The invariant holds at first.
LEMMA CopyInit ==
  ASSUME F!Init  PROVE CopyInv
<1>1. <<>> \in F!Content
  <2>1. <<>> \in [1..0 -> {F!Hole} \cup (Copies \X (1..Blocks))]
    BY EmptySeq, LenProperties
  <2>2. 0 \in 0..Blocks
    BY StreamsAssumption
  <2> QED  BY <2>1, <2>2, SeqIsContent
<1>3. F!TypeOK
  <2>1. 0 \in 0..Blocks
    BY StreamsAssumption
  <2>2. /\ inode \in [F!Inodes -> F!Content] /\ result \in [Copies -> F!Content]
    BY <1>1 DEF F!Init
  <2> QED  BY <2>1, <2>2, StreamsAssumption DEF F!Init, F!TypeOK
<1>5. CopyStages /\ CopyAlone /\ F!CopyIsExact /\ TempKept
  BY DEF F!Init, CopyStages, CopyAlone, F!CopyIsExact, TempKept, F!Using
<1> QED  BY <1>3, <1>5 DEF CopyInv

\* Every step keeps it.
LEMMA CopyStep ==
  ASSUME CopyInv, [F!Next]_copyState  PROVE CopyInv'
BY CopyTypeStep, StagesStep, AloneStep, ExactStep, TempStep
DEF CopyInv

-----------------------------------------------------------------------------
(* NodeExec.                                                                *)

\* What the goroutines know of each other.
ExecStages ==
    /\ conMain \in {"output", "input"} => link = "open"
    /\ conIn = "send" => typed < load.typed
    /\ srvMain = "begin" => srvRecv = "off" /\ srvOut = "off"
    /\ srvMain \in {"begin", "exec"} => outCopy = "off"
    /\ srvMain = "select" => outCopy \in {"read", "write"}
    /\ srvMain = "close" => outCopy = "ended"
    /\ srvMain \in {"error", "wait", "returned"} => outCopy \in {"off", "ended"}
    /\ outCopy = "off" <=> conn = "none"
    /\ inCopy = "off" <=> conn = "none"
    /\ command = "none" <=> conn = "none"
    /\ outCopy # "write" => outBuf = <<>>
    /\ outCopy = "ended" => command = "ended" /\ connOut = <<>>
    /\ outCopy = "off" => connOut = <<>> /\ produced = 0
    /\ srvOut = "ended" =>
          link = "gone" \/ (outBuf = <<>> /\ srvMain \in {"wait", "returned"})
    /\ srvOut = "send" <=> piece # 0
    /\ inCopy = "ended" => command = "ended"

\* The output on its way: what is held by srvOut, and what is behind it.
Held   == IF piece = 0 THEN 0 ELSE 1
Behind == Len(outBuf) + Len(connOut)

OutputOnly(s) == \A k \in 1..Len(s) : s[k].code = "STDOUT"

\* The pieces on their way are the last ones, in order; while the console
\* receives, they follow those it has shown.  A message that ends the session
\* is the last but one at worst.
ExecOutput ==
    /\ \A k \in 1..Len(connOut) : connOut[k] = produced - Len(connOut) + k
    /\ \A k \in 1..Len(outBuf) : outBuf[k] = produced - Behind + k
    /\ piece # 0 => piece = produced - Behind
    /\ Held + Behind <= produced
    /\ \A k \in 1..Len(toCon) :
          /\ toCon[k].code \in {"STDOUT", "CLOSE", "ERROR"}
          /\ toCon[k].code = "STDOUT" => toCon[k].data \in 1..produced
          /\ toCon[k].code # "STDOUT" => srvMain \in {"wait", "returned"}
    /\ conMain = "output" =>
          /\ OutputOnly(toCon) =>
                Len(shown) + Len(toCon) + Held + Behind = produced
          /\ \A k \in 1..Len(toCon) :
                /\ (\A j \in 1..k : toCon[j].code = "STDOUT") =>
                      toCon[k].data = Len(shown) + k
                /\ toCon[k].code = "CLOSE" =>
                      command = "ended" /\ Len(shown) + k >= produced
    /\ verdict = "closed" =>
          /\ command = "ended" /\ conMain # "output"
          /\ Len(shown) + 1 >= produced

\* The pieces of input on their way are in order, beyond those the command was
\* given; none is missing as long as the command reads.  Once the copy to the
\* command has ended one is lost.
ExecInput ==
    /\ srvRecv = "write" <=> inData # 0
    /\ Len(received) <= typed
    /\ inData # 0 => inData \in (Len(received) + 1)..typed
    /\ \A k \in 1..Len(toSrv) :
          /\ toSrv[k].code \in {"DATA", "RESIZE", "CLOSE"}
          /\ toSrv[k].code = "RESIZE" => resizes > 0
          /\ toSrv[k].code = "DATA" =>
                /\ toSrv[k].data \in (Len(received) + 1)..typed
                /\ toSrv[k].data > inData
                /\ \A j \in 1..(k - 1) :
                      toSrv[j].code = "DATA" => toSrv[j].data < toSrv[k].data
    /\ command # "ended" =>
          \A v \in (Len(received) + 1)..typed :
              \/ inData = v
              \/ \E k \in 1..Len(toSrv) :
                    toSrv[k].code = "DATA" /\ toSrv[k].data = v
    /\ srvRecv = "resize" => resizes > 0
    /\ inCopy = "ended" =>
          /\ typed >= Len(received) + 1
          /\ inData # 0 => inData >= Len(received) + 2
          /\ \A k \in 1..Len(toSrv) :
                toSrv[k].code = "DATA" => toSrv[k].data >= Len(received) + 2

ExecInv == E!TypeOK /\ ExecStages /\ ExecOutput /\ ExecInput

\* The loads of a session are natural numbers.
LEMMA LoadType ==
  ASSUME E!TypeOK
  PROVE  load.pieces \in Nat /\ load.typed \in Nat /\ load.resizes \in Nat
BY StreamsAssumption DEF E!TypeOK

\* Taking the first element of a sequence.
LEMMA TailFacts ==
  ASSUME NEW S, NEW s \in Seq(S), s # <<>>
  PROVE  /\ Len(s) \in Nat \ {0} /\ Head(s) = s[1] /\ Head(s) \in S
         /\ Tail(s) \in Seq(S) /\ Len(Tail(s)) = Len(s) - 1
         /\ \A i \in 1..Len(Tail(s)) : Tail(s)[i] = s[i + 1]
BY HeadTailProperties, EmptySeq

\* Cutting a sequence in two.
LEMMA CutFacts ==
  ASSUME NEW S, NEW s \in Seq(S), NEW n \in 1..Len(s)
  PROVE  /\ SubSeq(s, 1, n) \in Seq(S) /\ Len(SubSeq(s, 1, n)) = n
         /\ \A i \in 1..n : SubSeq(s, 1, n)[i] = s[i]
         /\ SubSeq(s, n + 1, Len(s)) \in Seq(S)
         /\ Len(SubSeq(s, n + 1, Len(s))) = Len(s) - n
         /\ \A i \in 1..(Len(s) - n) : SubSeq(s, n + 1, Len(s))[i] = s[n + i]
<1>1. Len(s) \in Nat /\ \A i \in 1..Len(s) : s[i] \in S
  BY LenProperties, ElementOfSeq
<1>2. \A i \in 1..n : s[i] \in S
  BY <1>1
<1>3. \A i \in (n + 1)..Len(s) : s[i] \in S
  BY <1>1
<1>4. /\ SubSeq(s, 1, n) \in Seq(S)
      /\ Len(SubSeq(s, 1, n)) = IF 1 <= n THEN n - 1 + 1 ELSE 0
      /\ \A i \in 1..(n - 1 + 1) : SubSeq(s, 1, n)[i] = s[1 + i - 1]
  BY <1>1, <1>2, SubSeqProperties
<1>5. /\ SubSeq(s, n + 1, Len(s)) \in Seq(S)
      /\ Len(SubSeq(s, n + 1, Len(s))) =
            IF n + 1 <= Len(s) THEN Len(s) - (n + 1) + 1 ELSE 0
      /\ \A i \in 1..(Len(s) - (n + 1) + 1) :
            SubSeq(s, n + 1, Len(s))[i] = s[(n + 1) + i - 1]
  BY <1>1, <1>3, SubSeqProperties
<1> QED  BY <1>1, <1>4, <1>5

\* The lengths of what is on its way.
LEMMA LengthTypes ==
  ASSUME E!TypeOK
  PROVE  /\ Len(toCon) \in Nat /\ Len(toSrv) \in Nat /\ Len(outBuf) \in Nat
         /\ Len(connOut) \in Nat /\ Len(shown) \in Nat /\ Len(received) \in Nat
         /\ produced \in 0..load.pieces /\ typed \in 0..load.typed
BY LenProperties DEF E!TypeOK

\* The messages of the console and of the server are messages.
LEMMA MessageType ==
  /\ \A c \in {"RESIZE", "CLOSE", "ERROR"} : [code |-> c] \in E!Message
  /\ \A c \in {"DATA", "STDOUT"}, n \in Nat : [code |-> c, data |-> n] \in E!Message
BY DEF E!Message

\* The state of a session is of its type.
LEMMA ExecTypeStep ==
  ASSUME ExecInv, [E!Next]_execState
  PROVE  E!TypeOK'
<1> USE DEF ExecInv
<1>1. CASE UNCHANGED execState
  BY <1>1 DEF execState, E!TypeOK, E!Message
<1>2. CASE E!PollInput
  BY <1>2 DEF E!PollInput, E!TypeOK, E!Message, E!nodeVars, E!srvVars, E!ttyVars,
              E!cmdVars, E!netVars
<1>3. CASE E!SendInput
  <2>1. typed + 1 \in 1..load.typed \/ conIn # "send"
    BY LoadType DEF ExecStages, E!TypeOK
  <2>2. toSrv' \in Seq(E!Message) /\ typed' \in 0..load.typed
    <3>1. CASE UNCHANGED <<typed, toSrv>>
      BY <3>1 DEF E!TypeOK, E!Message
    <3>2. CASE /\ conIn = "send" /\ typed' = typed + 1
               /\ toSrv' = Append(toSrv, [code |-> "DATA", data |-> typed'])
      <4>1. [code |-> "DATA", data |-> typed'] \in E!Message
        BY <2>1, <3>2, MessageType, LoadType
      <4> QED  BY <2>1, <3>2, <4>1, LoadType, AppendProperties DEF E!TypeOK
    <3> QED  BY <1>3, <3>1, <3>2 DEF E!SendInput
  <2>3. conIn' \in {"poll", "send", "offer", "off"}
    BY <1>3 DEF E!SendInput
  <2>4. UNCHANGED <<load, terminal, conMain, verdict, resizes, shown, link, toCon,
                    srvMain, srvRecv, srvOut, inData, piece, outCopy, inCopy,
                    outBuf, conn, connOut, command, produced, received>>
    BY <1>3 DEF E!SendInput, E!srvVars, E!ttyVars, E!cmdVars
  <2> QED  BY <2>2, <2>3, <2>4 DEF E!TypeOK, E!Message
<1>4. CASE E!SendResize \/ E!Hangup
  <2>1. toSrv' \in Seq(E!Message)
    <3>1. \A m \in E!Message : Append(toSrv, m) \in Seq(E!Message)
      BY AppendProperties DEF E!TypeOK
    <3> QED  BY <1>4, <3>1, MessageType DEF E!SendResize, E!Hangup, E!TypeOK
  <2>2. resizes' \in 0..load.resizes /\ terminal' \in {"open", "hungup"}
    <3>1. /\ resizes \in 0..load.resizes /\ terminal \in {"open", "hungup"}
          /\ load.resizes \in Nat
      BY LoadType DEF E!TypeOK
    <3> QED  BY <1>4, <3>1 DEF E!SendResize, E!Hangup
  <2>3. UNCHANGED <<load, conMain, conIn, verdict, typed, shown, link, toCon,
                    srvMain, srvRecv, srvOut, inData, piece, outCopy, inCopy,
                    outBuf, conn, connOut, command, produced, received>>
    BY <1>4 DEF E!SendResize, E!Hangup, E!srvVars, E!ttyVars, E!cmdVars
  <2> QED  BY <2>1, <2>2, <2>3 DEF E!TypeOK, E!Message
<1>5. CASE E!RecvOutput
  <2>1. toCon # <<>> => /\ Head(toCon) = toCon[1] /\ Tail(toCon) \in Seq(E!Message)
                        /\ Len(toCon) \in Nat \ {0}
    BY TailFacts DEF E!TypeOK
  <2>2. toCon # <<>> /\ Head(toCon).code = "STDOUT" => Head(toCon).data \in 1..load.pieces
    BY <2>1, LoadType, LengthTypes DEF ExecOutput
  <2>3. /\ toCon' \in Seq(E!Message) /\ shown' \in Seq(1..load.pieces)
        /\ conMain' \in {"output", "input", "left", "killed"}
        /\ verdict' \in {"none", "closed", "error", "lost"}
    <3>1. shown \in Seq(1..load.pieces) /\ toCon \in Seq(E!Message)
      BY DEF E!TypeOK
    <3>2. toCon # <<>> /\ Head(toCon).code = "STDOUT" =>
             Append(shown, Head(toCon).data) \in Seq(1..load.pieces)
      BY <2>2, <3>1, AppendProperties
    <3> QED  BY <1>5, <2>1, <3>1, <3>2 DEF E!RecvOutput, E!TypeOK
  <2>4. UNCHANGED <<load, terminal, conIn, typed, resizes, link, toSrv,
                    srvMain, srvRecv, srvOut, inData, piece, outCopy, inCopy,
                    outBuf, conn, connOut, command, produced, received>>
    BY <1>5 DEF E!RecvOutput, E!srvVars, E!ttyVars, E!cmdVars
  <2> QED  BY <2>3, <2>4 DEF E!TypeOK, E!Message
<1>6. CASE E!WaitInput \/ E!Kill
  BY <1>6 DEF E!WaitInput, E!Kill, E!TypeOK, E!Message, E!nodeVars, E!srvVars,
              E!ttyVars, E!cmdVars
<1>7. CASE E!Lookup \/ E!StartCommand \/ E!Reply \/ E!Return
  <2>1. toCon' \in Seq(E!Message)
    <3>1. \A m \in E!Message : Append(toCon, m) \in Seq(E!Message)
      BY AppendProperties DEF E!TypeOK
    <3> QED
      BY <1>7, <3>1, MessageType
      DEF E!Lookup, E!StartCommand, E!Reply, E!Return, E!Sent, E!TypeOK, E!netVars
  <2> QED
    BY <1>7, <2>1
    DEF E!Lookup, E!StartCommand, E!Reply, E!Return, E!TypeOK, E!Message,
        E!nodeVars, E!conVars, E!srvVars, E!ttyVars, E!cmdVars, E!netVars
<1>8. CASE E!RecvMessage
  <2>1. toSrv # <<>> => /\ Head(toSrv) = toSrv[1] /\ Tail(toSrv) \in Seq(E!Message)
                        /\ Len(toSrv) \in Nat \ {0}
    BY TailFacts DEF E!TypeOK
  <2>2. toSrv # <<>> /\ Head(toSrv).code = "DATA" => Head(toSrv).data \in 0..load.typed
    BY <2>1, LoadType, LengthTypes, SMTT(30) DEF ExecInput
  <2> QED
    BY <1>8, <2>1, <2>2
    DEF E!RecvMessage, E!TypeOK, E!nodeVars, E!conVars, E!srvVars, E!ttyVars,
        E!cmdVars, E!netVars
<1>9. CASE E!RecvEnd \/ E!ResizeTty \/ E!CommandExits
  BY <1>9
  DEF E!RecvEnd, E!ResizeTty, E!CommandExits, E!TypeOK, E!Message, E!nodeVars,
      E!conVars, E!srvVars, E!ttyVars, E!cmdVars, E!netVars
<1>10. CASE E!ReadPiece
  <2>1. outBuf # <<>> => Head(outBuf) \in 1..load.pieces /\ Tail(outBuf) \in Seq(1..load.pieces)
    BY TailFacts DEF E!TypeOK
  <2>2. /\ outBuf' \in Seq(1..load.pieces) /\ piece' \in 0..load.pieces
        /\ srvOut' \in {"off", "read", "send", "ended"}
    <3>1. /\ outBuf \in Seq(1..load.pieces) /\ piece \in 0..load.pieces
          /\ load.pieces \in Nat
      BY LoadType DEF E!TypeOK
    <3>2. CASE outBuf = <<>>
      BY <1>10, <3>1, <3>2 DEF E!ReadPiece
    <3>3. CASE outBuf # <<>>
      <4>1. /\ outBuf' = Tail(outBuf) /\ piece' = Head(outBuf) /\ srvOut' = "send"
        BY <1>10, <3>3 DEF E!ReadPiece
      <4> QED  BY <2>1, <3>1, <3>3, <4>1
    <3> QED  BY <3>2, <3>3
  <2>3. UNCHANGED <<E!conVars, srvMain, srvRecv, inData, outCopy, inCopy, conn,
                    E!cmdVars, E!netVars>>
    BY <1>10 DEF E!ReadPiece
  <2> QED
    BY <2>2, <2>3 DEF E!TypeOK, E!Message, E!conVars, E!cmdVars, E!netVars
<1>11. CASE E!SendPiece
  <2>1. toCon' \in Seq(E!Message)
    <3>1. [code |-> "STDOUT", data |-> piece] \in E!Message
      BY MessageType, LoadType DEF E!TypeOK
    <3> QED  BY <1>11, <3>1, AppendProperties DEF E!SendPiece, E!Sent, E!TypeOK
  <2> QED
    BY <1>11, <2>1, LoadType
    DEF E!SendPiece, E!TypeOK, E!nodeVars, E!conVars, E!srvVars, E!ttyVars,
        E!cmdVars, E!netVars
<1>12. CASE E!CopyOutput
  <2>1. \A n \in 1..Len(connOut) :
           /\ SubSeq(connOut, 1, n) \in Seq(1..load.pieces)
           /\ SubSeq(connOut, n + 1, Len(connOut)) \in Seq(1..load.pieces)
    BY CutFacts DEF E!TypeOK
  <2>2. /\ outBuf' \in Seq(1..load.pieces) /\ connOut' \in Seq(1..load.pieces)
        /\ outCopy' \in {"off", "read", "write", "ended"}
        /\ srvMain' \in {"begin", "exec", "select", "close", "error", "wait",
                         "returned"}
        /\ conn' \in {"none", "open", "closed"}
    BY <1>12, <2>1 DEF E!CopyOutput, E!TypeOK
  <2>3. UNCHANGED <<E!conVars, srvRecv, srvOut, inData, piece, inCopy, command,
                    produced, received, E!netVars>>
    BY <1>12 DEF E!CopyOutput
  <2> QED
    BY <2>2, <2>3 DEF E!TypeOK, E!Message, E!conVars, E!netVars
<1>13. CASE E!CopyInput
  <2>1. inData \in 1..load.typed
    BY <1>13, LoadType DEF E!CopyInput, ExecInput, E!TypeOK
  <2>2. Append(received, inData) \in Seq(1..load.typed)
    BY <2>1, AppendProperties DEF E!TypeOK
  <2>3. /\ received' \in Seq(1..load.typed) /\ inData' \in 0..load.typed
        /\ srvRecv' \in {"off", "recv", "write", "resize", "ended"}
        /\ inCopy' \in {"off", "read", "ended"}
    <3>1. /\ received \in Seq(1..load.typed) /\ 0 \in 0..load.typed
      BY LoadType DEF E!TypeOK
    <3> QED  BY <1>13, <2>2, <3>1 DEF E!CopyInput
  <2>4. UNCHANGED <<E!conVars, srvMain, srvOut, piece, outCopy, outBuf, conn,
                    connOut, command, produced, E!netVars>>
    BY <1>13 DEF E!CopyInput
  <2> QED
    BY <2>3, <2>4 DEF E!TypeOK, E!Message, E!conVars, E!netVars
<1>14. CASE E!Produce
  <2>1. produced + 1 \in 1..load.pieces
    BY <1>14, LoadType, SMTT(30) DEF E!Produce, E!TypeOK
  <2>2. Append(connOut, produced + 1) \in Seq(1..load.pieces)
    BY <2>1, AppendProperties DEF E!TypeOK
  <2> QED
    BY <1>14, <2>1, <2>2, LoadType
    DEF E!Produce, E!TypeOK, E!Message, E!nodeVars, E!conVars, E!srvVars,
        E!ttyVars, E!cmdVars, E!netVars
<1> QED
  BY <1>1, <1>2, <1>3, <1>4, <1>5, <1>6, <1>7, <1>8, <1>9, <1>10, <1>11, <1>12,
     <1>13, <1>14
  DEF E!Next, E!Progress

\* The goroutines keep what they know of each other.
LEMMA ExecStagesStep ==
  ASSUME ExecInv, [E!Next]_execState
  PROVE  ExecStages'
<1> USE DEF ExecInv
<1>0. /\ typed \in 0..load.typed /\ load.typed \in Nat /\ produced \in Nat
      /\ conMain \in {"output", "input", "left", "killed"}
      /\ link \in {"open", "half", "gone"}
      /\ srvMain \in {"begin", "exec", "select", "close", "error", "wait", "returned"}
      /\ piece \in Nat /\ conIn \in {"poll", "send", "offer", "off"}
  BY LoadType, LengthTypes DEF E!TypeOK
<1>1. CASE UNCHANGED execState
  BY <1>1 DEF execState, ExecStages
<1>2. CASE E!PollInput \/ E!SendInput \/ E!SendResize \/ E!Hangup
  BY <1>0, <1>2
  DEF E!PollInput, E!SendInput, E!SendResize, E!Hangup, ExecStages, E!srvVars,
      E!ttyVars, E!cmdVars, E!netVars
<1>3. CASE E!RecvOutput \/ E!WaitInput \/ E!Kill
  BY <1>0, <1>3
  DEF E!RecvOutput, E!WaitInput, E!Kill, ExecStages, E!srvVars, E!ttyVars, E!cmdVars
<1>4. CASE E!Lookup \/ E!StartCommand \/ E!Reply \/ E!Return
  <2>1. CASE E!Lookup
    BY <1>0, <2>1 DEF E!Lookup, ExecStages, E!conVars, E!ttyVars, E!cmdVars
  <2>2. CASE E!StartCommand
    <3>1. /\ srvMain = "exec" /\ outCopy = "off" /\ conn = "none"
          /\ command = "none" /\ inCopy = "off" /\ connOut = <<>> /\ produced = 0
          /\ outBuf = <<>>
      BY <2>2 DEF E!StartCommand, ExecStages
    <3>2. UNCHANGED <<E!conVars, srvRecv, srvOut, piece, outBuf, connOut, produced,
                      E!netVars>>
      BY <2>2 DEF E!StartCommand
    <3>3. \/ /\ srvMain' = "select" /\ command' = "running" /\ conn' = "open"
             /\ outCopy' = "read" /\ inCopy' = "read"
          \/ /\ srvMain' = "error"
             /\ UNCHANGED <<command, conn, outCopy, inCopy>>
      BY <2>2 DEF E!StartCommand
    <3> QED
      BY <3>1, <3>2, <3>3 DEF ExecStages, E!conVars, E!netVars
  <2>3. CASE E!Reply \/ E!Return
    BY <1>0, <2>3
    DEF E!Reply, E!Return, ExecStages, E!conVars, E!ttyVars, E!cmdVars, E!netVars
  <2> QED  BY <1>4, <2>1, <2>2, <2>3
<1>5. CASE E!RecvMessage \/ E!RecvEnd \/ E!ResizeTty \/ E!CommandExits
  BY <1>0, <1>5
  DEF E!RecvMessage, E!RecvEnd, E!ResizeTty, E!CommandExits, ExecStages, E!conVars,
      E!srvVars, E!ttyVars, E!cmdVars, E!netVars
<1>6. CASE E!ReadPiece
  <2>1. outBuf # <<>> => Head(outBuf) # 0
    BY TailFacts, LoadType, SMTT(30) DEF E!TypeOK
  <2>2. UNCHANGED <<E!conVars, srvMain, srvRecv, outCopy, inCopy, conn, E!cmdVars, E!netVars>>
    BY <1>6 DEF E!ReadPiece
  <2>3. CASE outBuf = <<>>
    <3>1. /\ srvOut = "read" /\ srvOut' = "ended" /\ srvMain = "wait"
          /\ UNCHANGED <<piece, outBuf>>
      BY <1>6, <2>3 DEF E!ReadPiece
    <3> QED  BY <2>2, <2>3, <3>1 DEF ExecStages, E!conVars, E!cmdVars, E!netVars
  <2>4. CASE outBuf # <<>>
    <3>1. srvOut = "read" /\ srvOut' = "send" /\ piece' # 0
      BY <1>6, <2>1, <2>4 DEF E!ReadPiece
    <3>2. outCopy = "write"
      BY <2>4 DEF ExecStages
    <3> QED  BY <2>2, <2>4, <3>1, <3>2 DEF ExecStages, E!conVars, E!cmdVars, E!netVars
  <2> QED  BY <2>3, <2>4
<1>7. CASE E!SendPiece \/ E!CopyInput
  BY <1>0, <1>7
  DEF E!SendPiece, E!CopyInput, ExecStages, E!conVars, E!srvVars, E!ttyVars,
      E!cmdVars, E!netVars
<1>8. CASE E!CopyOutput
  BY <1>0, <1>8 DEF E!CopyOutput, ExecStages, E!conVars, E!netVars
<1>9. CASE E!Produce
  BY <1>0, <1>9 DEF E!Produce, ExecStages, E!conVars, E!srvVars, E!ttyVars, E!netVars
<1> QED
  BY <1>1, <1>2, <1>3, <1>4, <1>5, <1>6, <1>7, <1>8, <1>9 DEF E!Next, E!Progress

\* The output stays in order.
LEMMA ExecOutputStep ==
  ASSUME ExecInv, [E!Next]_execState
  PROVE  ExecOutput'
<1> USE DEF ExecInv
<1>0. /\ produced \in Nat /\ piece \in Nat /\ Len(toCon) \in Nat /\ Len(shown) \in Nat
      /\ Len(outBuf) \in Nat /\ Len(connOut) \in Nat
      /\ toCon \in Seq(E!Message) /\ shown \in Seq(1..load.pieces)
      /\ outBuf \in Seq(1..load.pieces) /\ connOut \in Seq(1..load.pieces)
      /\ conMain \in {"output", "input", "left", "killed"}
      /\ srvMain \in {"begin", "exec", "select", "close", "error", "wait", "returned"}
  BY LoadType, LengthTypes DEF E!TypeOK
<1>1. ASSUME UNCHANGED <<shown, toCon, piece, outBuf, connOut, produced>>,
             UNCHANGED verdict \/ (verdict' # "closed"),
             conMain' = "output" => conMain = "output",
             command = "ended" => command' = "ended",
             srvMain \in {"wait", "returned"} => srvMain' \in {"wait", "returned"}
      PROVE  ExecOutput'
  BY <1>0, <1>1 DEF ExecOutput, Held, Behind, OutputOnly
<1>2. ASSUME NEW m \in E!Message, toCon' = Append(toCon, m) \/ (link = "gone" /\ toCon' = toCon),
             m.code \in {"STDOUT", "CLOSE", "ERROR"},
             m.code = "STDOUT" =>
                 /\ srvMain' = srvMain
                 /\ piece # 0 /\ m.data = piece /\ piece' = 0,
             m.code # "STDOUT" => /\ srvMain \notin {"wait", "returned"}
                                  /\ srvMain' \in {"wait", "returned"}
                                  /\ UNCHANGED piece,
             m.code = "CLOSE" => srvMain = "close",
             UNCHANGED <<shown, outBuf, connOut, produced, conMain, verdict, command>>
      PROVE  ExecOutput'
  <2> USE DEF Held, Behind
  <2>1. conMain = "output" => toCon' = Append(toCon, m)
    BY <1>2 DEF ExecStages
  <2>2. /\ Len(Append(toCon, m)) = Len(toCon) + 1
        /\ Append(toCon, m)[Len(toCon) + 1] = m
        /\ \A k \in 1..Len(toCon) : Append(toCon, m)[k] = toCon[k]
    BY <1>0, AppendProperties
  <2>3. /\ \A k \in 1..Len(connOut) : connOut[k] = produced - Len(connOut) + k
        /\ \A k \in 1..Len(outBuf) : outBuf[k] = produced - Behind + k
        /\ piece # 0 => piece = produced - Behind
        /\ Held + Behind <= produced
    BY DEF ExecOutput
  <2>4. /\ piece' # 0 => piece' = produced - Behind
        /\ Held' + Behind' <= produced'
    BY <1>0, <1>2, <2>3
  <2>5. m.code = "STDOUT" => m.data \in 1..produced
    BY <1>0, <1>2, <2>3
  <2>6. ASSUME NEW k \in 1..Len(toCon')
        PROVE  /\ toCon'[k].code \in {"STDOUT", "CLOSE", "ERROR"}
               /\ toCon'[k].code = "STDOUT" => toCon'[k].data \in 1..produced'
               /\ toCon'[k].code # "STDOUT" => srvMain' \in {"wait", "returned"}
    <3>1. CASE k \in 1..Len(toCon)
      <4>1. toCon'[k] = toCon[k]
        BY <1>2, <2>2, <3>1
      <4> QED  BY <1>2, <3>1, <4>1 DEF ExecOutput
    <3>2. CASE k \notin 1..Len(toCon)
      <4>1. toCon'[k] = m
        BY <1>0, <1>2, <2>2, <3>2
      <4> QED  BY <1>2, <2>5, <4>1
    <3> QED  BY <3>1, <3>2
  <2>7. ASSUME conMain' = "output"
        PROVE  /\ OutputOnly(toCon') =>
                     Len(shown') + Len(toCon') + Held' + Behind' = produced'
               /\ \A k \in 1..Len(toCon') :
                     /\ (\A j \in 1..k : toCon'[j].code = "STDOUT") =>
                           toCon'[k].data = Len(shown') + k
                     /\ toCon'[k].code = "CLOSE" =>
                           command' = "ended" /\ Len(shown') + k >= produced'
    <3>1. conMain = "output" /\ toCon' = Append(toCon, m)
      BY <1>2, <2>1, <2>7
    <3>2. ASSUME OutputOnly(toCon)
          PROVE  Len(shown) + Len(toCon) + Held + Behind = produced
      BY <3>1, <3>2 DEF ExecOutput
    <3>3. ASSUME OutputOnly(toCon')
          PROVE  Len(shown') + Len(toCon') + Held' + Behind' = produced'
      <4>1. m.code = "STDOUT" /\ OutputOnly(toCon)
        BY <1>0, <2>2, <3>1, <3>3 DEF OutputOnly
      <4> QED  BY <1>0, <1>2, <2>2, <3>1, <3>2, <4>1
    <3>4. ASSUME NEW k \in 1..Len(toCon'), \A j \in 1..k : toCon'[j].code = "STDOUT"
          PROVE  toCon'[k].data = Len(shown') + k
      <4>1. CASE k \in 1..Len(toCon)
        BY <1>0, <1>2, <2>2, <3>1, <3>4, <4>1 DEF ExecOutput
      <4>2. CASE k \notin 1..Len(toCon)
        <5>1. k = Len(toCon) + 1 /\ toCon'[k] = m
          BY <1>0, <2>2, <3>1, <4>2
        <5>2. OutputOnly(toCon) /\ m.code = "STDOUT"
          BY <1>0, <2>2, <3>1, <3>4, <5>1 DEF OutputOnly
        <5> QED  BY <1>0, <1>2, <2>3, <3>2, <5>1, <5>2, SMTT(30)
      <4> QED  BY <4>1, <4>2
    <3>5. ASSUME NEW k \in 1..Len(toCon'), toCon'[k].code = "CLOSE"
          PROVE  command' = "ended" /\ Len(shown') + k >= produced'
      <4>1. CASE k \in 1..Len(toCon)
        BY <1>0, <1>2, <2>2, <3>1, <3>5, <4>1 DEF ExecOutput
      <4>2. CASE k \notin 1..Len(toCon)
        <5>1. k = Len(toCon) + 1 /\ m.code = "CLOSE"
          BY <1>0, <2>2, <3>1, <3>5, <4>2
        <5>2. OutputOnly(toCon)
          BY <1>2, <5>1 DEF ExecOutput, OutputOnly
        <5>3. command = "ended" /\ connOut = <<>> /\ outBuf = <<>>
          BY <1>2, <5>1 DEF ExecStages
        <5>4. Behind = 0
          BY <5>3
        <5> QED  BY <1>0, <1>2, <3>2, <5>1, <5>2, <5>3, <5>4
      <4> QED  BY <4>1, <4>2
    <3> QED  BY <3>3, <3>4, <3>5
  <2>8. verdict' = "closed" =>
           /\ command' = "ended" /\ conMain' # "output"
           /\ Len(shown') + 1 >= produced'
    BY <1>2 DEF ExecOutput
  <2> HIDE DEF Held
  <2> QED  BY <1>2, <2>3, <2>4, <2>6, <2>7, <2>8 DEF ExecOutput
<1>3. CASE UNCHANGED execState
  BY <1>1, <1>3 DEF execState
<1>4. CASE E!PollInput \/ E!SendInput \/ E!SendResize \/ E!Hangup \/ E!WaitInput
           \/ E!Kill \/ E!Return \/ E!StartCommand
  BY <1>1, <1>4
  DEF E!PollInput, E!SendInput, E!SendResize, E!Hangup, E!WaitInput, E!Kill,
      E!Return, E!StartCommand, ExecStages, E!conVars, E!srvVars, E!ttyVars,
      E!cmdVars, E!netVars
<1>5. CASE E!RecvMessage \/ E!RecvEnd \/ E!CopyInput \/ E!ResizeTty \/ E!CommandExits
  BY <1>1, <1>5
  DEF E!RecvMessage, E!RecvEnd, E!CopyInput, E!ResizeTty, E!CommandExits,
      E!conVars, E!srvVars, E!ttyVars, E!cmdVars, E!netVars
<1>6. CASE E!RecvOutput
  <2>1. /\ UNCHANGED <<srvMain, piece, outBuf, connOut, command, produced>>
        /\ UNCHANGED <<Held, Behind>> /\ Held \in Nat /\ Behind \in Nat
    <3>1. UNCHANGED <<srvMain, piece, outBuf, connOut, command, produced>>
      BY <1>6 DEF E!RecvOutput, E!srvVars, E!ttyVars, E!cmdVars
    <3> QED  BY <1>0, <3>1 DEF Held, Behind
  <2>2. CASE toCon = <<>>
    BY <1>1, <1>6, <2>1, <2>2 DEF E!RecvOutput
  <2>3. CASE toCon # <<>>
    <3>1. /\ Len(toCon) \in Nat \ {0} /\ Head(toCon) = toCon[1]
          /\ Len(Tail(toCon)) = Len(toCon) - 1
          /\ \A i \in 1..Len(Tail(toCon)) : Tail(toCon)[i] = toCon[i + 1]
      BY <1>0, <2>3, TailFacts
    <3>2. toCon' = Tail(toCon) /\ conMain = "output"
      BY <1>6, <2>3 DEF E!RecvOutput
    <3>3. ASSUME NEW k \in 1..Len(toCon')
          PROVE  /\ k + 1 \in 1..Len(toCon) /\ toCon'[k] = toCon[k + 1]
                 /\ toCon'[k].code \in {"STDOUT", "CLOSE", "ERROR"}
                 /\ toCon'[k].code = "STDOUT" => toCon'[k].data \in 1..produced'
                 /\ toCon'[k].code # "STDOUT" => srvMain' \in {"wait", "returned"}
      <4>1. k + 1 \in 1..Len(toCon) /\ toCon'[k] = toCon[k + 1]
        BY <3>1, <3>2
      <4> QED  BY <2>1, <4>1 DEF ExecOutput
    <3>4. ASSUME conMain' = "output"
          PROVE  /\ OutputOnly(toCon') =>
                       Len(shown') + Len(toCon') + Held' + Behind' = produced'
                 /\ \A k \in 1..Len(toCon') :
                       /\ (\A j \in 1..k : toCon'[j].code = "STDOUT") =>
                             toCon'[k].data = Len(shown') + k
                       /\ toCon'[k].code = "CLOSE" =>
                             command' = "ended" /\ Len(shown') + k >= produced'
      <4>1. toCon[1].code = "STDOUT" /\ shown' = Append(shown, toCon[1].data)
        BY <1>6, <2>3, <3>1, <3>4 DEF E!RecvOutput
      <4>2. Len(shown') = Len(shown) + 1
        <5>1. toCon[1].data \in 1..load.pieces
          BY <1>0, <3>1, <4>1, LoadType, LengthTypes DEF ExecOutput
        <5> QED  BY <1>0, <4>1, <5>1, AppendProperties
      <4>3. ASSUME NEW k \in 1..Len(toCon'), \A j \in 1..k : toCon'[j].code = "STDOUT"
            PROVE  \A j \in 1..(k + 1) : toCon[j].code = "STDOUT"
        <5> SUFFICES ASSUME NEW j \in 1..(k + 1) PROVE toCon[j].code = "STDOUT"
          OBVIOUS
        <5>1. CASE j = 1
          BY <4>1, <5>1
        <5>2. CASE j # 1
          <6>1. /\ j - 1 \in 1..k /\ j - 1 \in 1..Len(toCon') /\ (j - 1) + 1 = j
            BY <3>1, <3>2, <5>2
          <6>2. toCon'[j - 1] = toCon[(j - 1) + 1]
            BY <3>1, <3>2, <6>1
          <6> QED  BY <4>3, <6>1, <6>2
        <5> QED  BY <5>1, <5>2
      <4>4. ASSUME OutputOnly(toCon')
            PROVE  Len(shown') + Len(toCon') + Held' + Behind' = produced'
        <5>1. OutputOnly(toCon)
          <6> SUFFICES ASSUME NEW j \in 1..Len(toCon) PROVE toCon[j].code = "STDOUT"
            BY DEF OutputOnly
          <6>1. CASE j = 1
            BY <4>1, <6>1
          <6>2. CASE j # 1
            <7>1. j - 1 \in 1..Len(toCon') /\ (j - 1) + 1 = j
              BY <3>1, <3>2, <6>2
            <7>2. toCon'[j - 1] = toCon[(j - 1) + 1]
              BY <3>1, <3>2, <7>1
            <7> QED  BY <4>4, <7>1, <7>2 DEF OutputOnly
          <6> QED  BY <6>1, <6>2
        <5>2. Len(shown) + Len(toCon) + Held + Behind = produced
          BY <3>2, <5>1 DEF ExecOutput
        <5>3. Len(toCon') = Len(toCon) - 1
          BY <3>1, <3>2
        <5>4. /\ Len(shown) \in Nat /\ Len(toCon) \in Nat /\ produced \in Nat
              /\ Held' = Held /\ Behind' = Behind /\ produced' = produced
              /\ Held \in Nat /\ Behind \in Nat
          BY <1>0, <2>1
        <5> QED  BY <4>2, <5>2, <5>3, <5>4
      <4>5. ASSUME NEW k \in 1..Len(toCon')
            PROVE  /\ (\A j \in 1..k : toCon'[j].code = "STDOUT") =>
                         toCon'[k].data = Len(shown') + k
                   /\ toCon'[k].code = "CLOSE" =>
                         command' = "ended" /\ Len(shown') + k >= produced'
        <5>1. /\ (\A j \in 1..(k + 1) : toCon[j].code = "STDOUT") =>
                    toCon[k + 1].data = Len(shown) + (k + 1)
              /\ toCon[k + 1].code = "CLOSE" =>
                    command = "ended" /\ Len(shown) + (k + 1) >= produced
          BY <3>2, <3>3, <4>5 DEF ExecOutput
        <5>2. /\ toCon'[k] = toCon[k + 1] /\ k \in Nat
              /\ Len(shown') + k = Len(shown) + (k + 1)
          BY <1>0, <3>3, <4>2, <4>5
        <5> QED  BY <2>1, <4>3, <4>5, <5>1, <5>2
      <4> QED  BY <4>4, <4>5
    <3>5. verdict' = "closed" =>
             /\ command' = "ended" /\ conMain' # "output"
             /\ Len(shown') + 1 >= produced'
      <4>1. verdict # "closed"
        BY <3>2 DEF ExecOutput
      <4>2. verdict' = "closed" =>
               /\ toCon[1].code = "CLOSE" /\ conMain' = "input" /\ UNCHANGED shown
        BY <1>6, <2>3, <3>1, <4>1 DEF E!RecvOutput
      <4> QED  BY <2>1, <3>1, <3>2, <4>2 DEF ExecOutput
    <3>6. /\ \A k \in 1..Len(connOut) : connOut[k] = produced - Len(connOut) + k
          /\ \A k \in 1..Len(outBuf) : outBuf[k] = produced - Behind + k
          /\ piece # 0 => piece = produced - Behind
          /\ Held + Behind <= produced
      BY DEF ExecOutput
    <3> QED  BY <2>1, <3>3, <3>4, <3>5, <3>6 DEF ExecOutput
  <2> QED  BY <2>2, <2>3
<1>7. CASE E!Lookup
  <2>1. CASE toCon' = toCon
    BY <1>1, <1>7, <2>1
    DEF E!Lookup, E!conVars, E!ttyVars, E!cmdVars
  <2>2. CASE toCon' # toCon
    <3>1. [code |-> "ERROR"] \in E!Message
      BY MessageType
    <3>2. /\ toCon' = Append(toCon, [code |-> "ERROR"])
          /\ srvMain = "begin" /\ srvMain' = "returned"
          /\ UNCHANGED <<piece, shown, outBuf, connOut, produced, conMain, verdict,
                         command>>
      BY <1>7, <2>2 DEF E!Lookup, E!Sent, E!conVars, E!ttyVars, E!cmdVars
    <3> QED  BY <1>2, <3>1, <3>2
  <2> QED  BY <2>1, <2>2
<1>8. CASE E!Reply
  <2> DEFINE m == [code |-> IF srvMain = "close" THEN "CLOSE" ELSE "ERROR"]
  <2>1. m \in E!Message
    BY MessageType
  <2>2. /\ toCon' = Append(toCon, m) \/ (link = "gone" /\ toCon' = toCon)
        /\ srvMain \in {"close", "error"} /\ srvMain' = "wait"
        /\ m.code \in {"CLOSE", "ERROR"} /\ (m.code = "CLOSE" => srvMain = "close")
        /\ UNCHANGED <<piece, shown, outBuf, connOut, produced, conMain, verdict,
                       command>>
    BY <1>8 DEF E!Reply, E!Sent, E!conVars, E!ttyVars, E!cmdVars
  <2> HIDE DEF m
  <2> QED  BY <1>2, <2>1, <2>2
<1>9. CASE E!SendPiece
  <2> DEFINE m == [code |-> "STDOUT", data |-> piece]
  <2>1. m \in E!Message /\ m.code = "STDOUT" /\ m.data = piece
    BY <1>0, MessageType
  <2>2. /\ toCon' = Append(toCon, m) \/ (link = "gone" /\ toCon' = toCon)
        /\ piece # 0 /\ piece' = 0
        /\ UNCHANGED <<srvMain, shown, outBuf, connOut, produced, conMain, verdict,
                       command>>
    BY <1>9 DEF E!SendPiece, E!Sent, E!conVars, E!ttyVars, E!cmdVars, ExecStages
  <2> HIDE DEF m
  <2> QED  BY <1>2, <2>1, <2>2
<1>10. ASSUME UNCHANGED <<shown, toCon, conMain, verdict, command>>,
              srvMain \in {"wait", "returned"} => srvMain' \in {"wait", "returned"},
              NEW p \in Nat, NEW h \in Nat, NEW b \in Nat,
              produced' = p, Held' = h, Behind' = b,
              p - (h + b) = produced - (Held + Behind),
              p = produced \/ command # "ended", p >= produced,
              piece' # 0 => piece' = p - b,
              \A k \in 1..Len(connOut') : connOut'[k] = p - Len(connOut') + k,
              \A k \in 1..Len(outBuf') : outBuf'[k] = p - b + k
       PROVE  ExecOutput'
  <2>1. Held \in Nat /\ Behind \in Nat /\ Held + Behind <= produced
    BY <1>0 DEF Held, Behind, ExecOutput
  <2>2. h + b <= p
    <3>1. produced \in Nat /\ p - (h + b) = produced - (Held + Behind)
      BY <1>0, <1>10
    <3> QED  BY <2>1, <3>1
  <2>3. ASSUME NEW k \in 1..Len(toCon)
        PROVE  /\ toCon[k].code \in {"STDOUT", "CLOSE", "ERROR"}
               /\ toCon[k].code = "STDOUT" => toCon[k].data \in 1..p
               /\ toCon[k].code # "STDOUT" => srvMain' \in {"wait", "returned"}
    <3>1. produced \in Nat /\ p >= produced
      BY <1>0, <1>10
    <3>2. 1..produced \subseteq 1..p
      BY <3>1
    <3>3. /\ toCon[k].code \in {"STDOUT", "CLOSE", "ERROR"}
          /\ toCon[k].code = "STDOUT" => toCon[k].data \in 1..produced
          /\ toCon[k].code # "STDOUT" => srvMain \in {"wait", "returned"}
      BY DEF ExecOutput
    <3> QED  BY <1>10, <3>2, <3>3
  <2>4. ASSUME conMain = "output"
        PROVE  /\ OutputOnly(toCon) =>
                     Len(shown) + Len(toCon) + h + b = p
               /\ \A k \in 1..Len(toCon) :
                     /\ (\A j \in 1..k : toCon[j].code = "STDOUT") =>
                           toCon[k].data = Len(shown) + k
                     /\ toCon[k].code = "CLOSE" =>
                           command = "ended" /\ Len(shown) + k >= p
    <3>1. /\ OutputOnly(toCon) => Len(shown) + Len(toCon) + Held + Behind = produced
          /\ \A k \in 1..Len(toCon) :
                /\ (\A j \in 1..k : toCon[j].code = "STDOUT") =>
                      toCon[k].data = Len(shown) + k
                /\ toCon[k].code = "CLOSE" =>
                      command = "ended" /\ Len(shown) + k >= produced
      BY <2>4 DEF ExecOutput
    <3>2. /\ produced \in Nat /\ Len(shown) \in Nat /\ Len(toCon) \in Nat
          /\ p - (h + b) = produced - (Held + Behind)
          /\ p = produced \/ command # "ended"
      BY <1>0, <1>10
    <3>3. ASSUME OutputOnly(toCon)  PROVE Len(shown) + Len(toCon) + h + b = p
      <4>1. Len(shown) + Len(toCon) + Held + Behind = produced
        BY <3>1, <3>3
      <4>2. Held \in Nat /\ Behind \in Nat
        BY <2>1
      <4> HIDE DEF Held, Behind
      <4> QED  BY <3>2, <4>1, <4>2
    <3> QED  BY <3>1, <3>2, <3>3
  <2>5. verdict = "closed" =>
           command = "ended" /\ conMain # "output" /\ Len(shown) + 1 >= p
    BY <1>10 DEF ExecOutput
  <2> QED  BY <1>10, <2>2, <2>3, <2>4, <2>5 DEF ExecOutput, OutputOnly
<1>11. CASE E!ReadPiece
  <2>1. CASE outBuf = <<>>
    BY <1>1, <1>11, <2>1 DEF E!ReadPiece, E!conVars, E!cmdVars, E!netVars
  <2>2. CASE outBuf # <<>>
    <3>1. /\ Len(outBuf) \in Nat \ {0} /\ Head(outBuf) = outBuf[1]
          /\ Head(outBuf) \in 1..load.pieces
          /\ Len(Tail(outBuf)) = Len(outBuf) - 1
          /\ \A i \in 1..Len(Tail(outBuf)) : Tail(outBuf)[i] = outBuf[i + 1]
      BY <1>0, <2>2, TailFacts
    <3>2. /\ piece' = outBuf[1] /\ outBuf' = Tail(outBuf) /\ piece = 0
          /\ UNCHANGED <<shown, toCon, conMain, verdict, command, srvMain, produced,
                         connOut>>
      BY <1>11, <2>2, <3>1
      DEF E!ReadPiece, E!conVars, E!cmdVars, E!netVars, ExecStages
    <3>3. /\ \A k \in 1..Len(connOut) : connOut[k] = produced - Len(connOut) + k
          /\ \A k \in 1..Len(outBuf) : outBuf[k] = produced - Behind + k
      BY DEF ExecOutput
    <3>4. /\ Held = 0 /\ Held' = 1 /\ Behind \in Nat /\ Behind' = Behind - 1
          /\ Behind' \in Nat
      BY <1>0, <3>1, <3>2, LoadType DEF Held, Behind
    <3>5. piece' = produced' - Behind'
      BY <1>0, <3>1, <3>2, <3>3, <3>4
    <3>6. \A k \in 1..Len(outBuf') : outBuf'[k] = produced' - Behind' + k
      BY <1>0, <3>1, <3>2, <3>3, <3>4
    <3> QED  BY <1>0, <1>10, <3>2, <3>3, <3>4, <3>5, <3>6
  <2> QED  BY <2>1, <2>2
<1>12. CASE E!CopyOutput
  <2>1. CASE UNCHANGED <<outBuf, connOut>>
    <3>1. srvMain \in {"wait", "returned"} => srvMain' \in {"wait", "returned"}
      BY <1>12 DEF E!CopyOutput, ExecStages
    <3> QED  BY <1>1, <1>12, <2>1, <3>1 DEF E!CopyOutput, E!conVars, E!netVars
  <2>2. CASE ~UNCHANGED <<outBuf, connOut>>
    <3>1. PICK n \in 1..Len(connOut) :
             /\ outBuf' = SubSeq(connOut, 1, n)
             /\ connOut' = SubSeq(connOut, n + 1, Len(connOut))
      BY <1>12, <2>2 DEF E!CopyOutput
    <3>2. /\ outBuf = <<>>
          /\ UNCHANGED <<shown, toCon, conMain, verdict, command, srvMain, produced,
                         piece>>
      BY <1>12, <2>2 DEF E!CopyOutput, E!conVars, E!netVars, ExecStages
    <3>3. /\ Len(outBuf') = n /\ Len(connOut') = Len(connOut) - n
          /\ \A i \in 1..n : outBuf'[i] = connOut[i]
          /\ \A i \in 1..(Len(connOut) - n) : connOut'[i] = connOut[n + i]
      BY <1>0, <3>1, CutFacts, SMTT(30)
    <3>4. /\ \A k \in 1..Len(connOut) : connOut[k] = produced - Len(connOut) + k
          /\ piece # 0 => piece = produced - Behind
      BY DEF ExecOutput
    <3>5. /\ Behind = Len(connOut) /\ Behind' = Behind /\ Behind \in Nat
          /\ Held' = Held /\ Held \in Nat
      BY <1>0, <3>2, <3>3 DEF Held, Behind
    <3>6. ASSUME NEW k \in 1..Len(connOut')
          PROVE  connOut'[k] = produced - Len(connOut') + k
      <4>1. n + k \in 1..Len(connOut) /\ connOut'[k] = connOut[n + k]
        <5>1. n \in 1..Len(connOut) /\ k \in 1..(Len(connOut) - n)
          BY <3>3
        <5> QED  BY <1>0, <3>3, <5>1
      <4>2. connOut[n + k] = produced - Len(connOut) + (n + k)
        BY <3>4, <4>1
      <4> QED  BY <1>0, <3>3, <4>1, <4>2
    <3>7. ASSUME NEW k \in 1..Len(outBuf')
          PROVE  outBuf'[k] = produced - Behind' + k
      <4>1. k \in 1..Len(connOut) /\ outBuf'[k] = connOut[k]
        BY <1>0, <3>1, <3>3
      <4> QED  BY <3>4, <3>5, <4>1
    <3>8. /\ piece' # 0 => piece' = produced - Behind
          /\ produced' = produced /\ Held' = Held /\ Behind' = Behind
          /\ Behind \in Nat /\ Held \in Nat /\ produced \in Nat
      BY <1>0, <3>2, <3>4, <3>5
    <3>9. /\ \A k \in 1..Len(connOut') : connOut'[k] = produced - Len(connOut') + k
          /\ \A k \in 1..Len(outBuf') : outBuf'[k] = produced - Behind + k
      BY <3>6, <3>7, <3>8
    <3>10. produced - (Held + Behind) = produced - (Held + Behind) /\ produced >= produced
      BY <3>8
    <3> QED  BY <1>10, <3>2, <3>8, <3>9, <3>10
  <2> QED  BY <2>1, <2>2
<1>13. CASE E!Produce
  <2>1. /\ command = "running" /\ produced' = produced + 1
        /\ connOut' = Append(connOut, produced + 1)
        /\ UNCHANGED <<shown, toCon, conMain, verdict, command, srvMain, piece, outBuf>>
    BY <1>13 DEF E!Produce, E!conVars, E!srvVars, E!ttyVars, E!netVars
  <2>2. /\ Len(connOut') = Len(connOut) + 1 /\ connOut'[Len(connOut) + 1] = produced + 1
        /\ \A k \in 1..Len(connOut) : connOut'[k] = connOut[k]
    <3>1. connOut \in Seq(Nat) /\ produced + 1 \in Nat
      BY <1>0, LoadType, SeqMonotonic
    <3> QED  BY <2>1, <3>1, AppendProperties
  <2>3. /\ \A k \in 1..Len(connOut) : connOut[k] = produced - Len(connOut) + k
        /\ \A k \in 1..Len(outBuf) : outBuf[k] = produced - Behind + k
        /\ piece # 0 => piece = produced - Behind
    BY DEF ExecOutput
  <2>4. /\ Behind \in Nat /\ Behind' = Behind + 1 /\ Held' = Held /\ Held \in Nat
    BY <1>0, <2>1, <2>2 DEF Held, Behind
  <2>5. ASSUME NEW k \in 1..Len(connOut')
        PROVE  connOut'[k] = produced' - Len(connOut') + k
    <3>1. CASE k \in 1..Len(connOut)
      <4>1. connOut'[k] = produced - Len(connOut) + k
        BY <2>2, <2>3, <3>1
      <4> QED  BY <1>0, <2>1, <2>2, <4>1
    <3>2. CASE k \notin 1..Len(connOut)
      <4>1. k = Len(connOut) + 1
        BY <1>0, <2>2, <3>2
      <4> QED  BY <1>0, <2>1, <2>2, <4>1
    <3> QED  BY <3>1, <3>2
  <2>6. \A k \in 1..Len(outBuf') : outBuf'[k] = produced' - Behind' + k
    BY <1>0, <2>1, <2>3, <2>4
  <2>7. piece' # 0 => piece' = produced' - Behind'
    BY <1>0, <2>1, <2>3, <2>4
  <2> QED  BY <1>0, <1>10, <2>1, <2>4, <2>5, <2>6, <2>7
<1> QED
  BY <1>3, <1>4, <1>5, <1>6, <1>7, <1>8, <1>9, <1>11, <1>12, <1>13
  DEF E!Next, E!Progress

\* The input stays in order.
LEMMA ExecInputStep ==
  ASSUME ExecInv, [E!Next]_execState
  PROVE  ExecInput'
<1> USE DEF ExecInv
<1>0. /\ typed \in Nat /\ resizes \in Nat /\ inData \in Nat
      /\ Len(received) \in Nat /\ Len(toSrv) \in Nat
      /\ toSrv \in Seq(E!Message) /\ received \in Seq(1..load.typed)
  BY LoadType, LengthTypes DEF E!TypeOK
<1>1. ASSUME UNCHANGED <<srvRecv, inData, received, typed, resizes, toSrv, inCopy>>,
             command = "ended" => command' = "ended"
      PROVE  ExecInput'
  BY <1>1 DEF ExecInput
<1>2. ASSUME NEW m \in E!Message, toSrv' = Append(toSrv, m),
             UNCHANGED <<srvRecv, inData, received, inCopy, command>>,
             m.code \in {"DATA", "RESIZE", "CLOSE"},
             typed' = (IF m.code = "DATA" THEN typed + 1 ELSE typed),
             m.code = "DATA" => m.data = typed + 1,
             resizes' = (IF m.code = "RESIZE" THEN resizes + 1 ELSE resizes)
      PROVE  ExecInput'
  <2>1. /\ Len(toSrv') = Len(toSrv) + 1 /\ toSrv'[Len(toSrv) + 1] = m
        /\ \A k \in 1..Len(toSrv) : toSrv'[k] = toSrv[k]
    BY <1>0, <1>2, AppendProperties
  <2>2. /\ typed' \in Nat /\ typed <= typed' /\ (m.code = "DATA" => m.data = typed')
        /\ resizes <= resizes' /\ (m.code = "RESIZE" => resizes' > 0)
        /\ (m.code = "DATA" => typed' > typed) /\ resizes' \in Nat
        /\ (m.code # "DATA" => typed' = typed)
    BY <1>0, <1>2
  <2>3. /\ Len(received) <= typed
        /\ inData # 0 => inData \in (Len(received) + 1)..typed
        /\ inData <= typed
    BY <1>0 DEF ExecInput
  <2>4. ASSUME NEW k \in 1..Len(toSrv')
        PROVE  /\ toSrv'[k].code \in {"DATA", "RESIZE", "CLOSE"}
               /\ toSrv'[k].code = "RESIZE" => resizes' > 0
               /\ toSrv'[k].code = "DATA" =>
                     /\ toSrv'[k].data \in (Len(received) + 1)..typed'
                     /\ toSrv'[k].data > inData
                     /\ \A j \in 1..(k - 1) :
                           toSrv'[j].code = "DATA" => toSrv'[j].data < toSrv'[k].data
    <3>1. CASE k \in 1..Len(toSrv)
      <4>1. toSrv'[k] = toSrv[k] /\ \A j \in 1..(k - 1) : toSrv'[j] = toSrv[j]
        BY <1>0, <2>1, <3>1
      <4>2. /\ toSrv[k].code \in {"DATA", "RESIZE", "CLOSE"}
            /\ toSrv[k].code = "RESIZE" => resizes > 0
            /\ toSrv[k].code = "DATA" =>
                  /\ toSrv[k].data \in (Len(received) + 1)..typed
                  /\ toSrv[k].data > inData
                  /\ \A j \in 1..(k - 1) :
                        toSrv[j].code = "DATA" => toSrv[j].data < toSrv[k].data
        BY <3>1 DEF ExecInput
      <4> QED  BY <1>0, <2>2, <4>1, <4>2
    <3>2. CASE k \notin 1..Len(toSrv)
      <4>1. k = Len(toSrv) + 1 /\ toSrv'[k] = m
        BY <1>0, <2>1, <3>2
      <4>2. ASSUME m.code = "DATA", NEW j \in 1..(k - 1), toSrv'[j].code = "DATA"
            PROVE  toSrv'[j].data < m.data
        <5>1. j \in 1..Len(toSrv) /\ toSrv'[j] = toSrv[j]
          BY <1>0, <2>1, <4>1
        <5>2. toSrv[j].data \in (Len(received) + 1)..typed
          BY <4>2, <5>1 DEF ExecInput
        <5> QED  BY <1>0, <2>2, <4>2, <5>1, <5>2
      <4>3. m.code = "DATA" =>
               m.data \in (Len(received) + 1)..typed' /\ m.data > inData
        BY <1>0, <2>2, <2>3
      <4> QED  BY <1>2, <2>2, <4>1, <4>2, <4>3
    <3> QED  BY <3>1, <3>2
  <2>5. ASSUME command # "ended", NEW v \in (Len(received) + 1)..typed'
        PROVE  \/ inData = v
               \/ \E k \in 1..Len(toSrv') :
                     toSrv'[k].code = "DATA" /\ toSrv'[k].data = v
    <3>1. CASE v \in (Len(received) + 1)..typed
      <4>1. \/ inData = v
            \/ \E k \in 1..Len(toSrv) : toSrv[k].code = "DATA" /\ toSrv[k].data = v
        BY <2>5, <3>1 DEF ExecInput
      <4>2. 1..Len(toSrv) \subseteq 1..Len(toSrv')
        BY <1>0, <2>1
      <4> QED  BY <2>1, <4>1, <4>2
    <3>2. CASE v \notin (Len(received) + 1)..typed
      <4>1. m.code = "DATA" /\ v = typed + 1
        BY <1>0, <1>2, <3>2
      <4>2. Len(toSrv) + 1 \in 1..Len(toSrv')
        BY <1>0, <2>1
      <4> QED  BY <1>2, <2>1, <4>1, <4>2
    <3> QED  BY <3>1, <3>2
  <2>6. ASSUME inCopy = "ended"
        PROVE  /\ typed' >= Len(received) + 1
               /\ inData # 0 => inData >= Len(received) + 2
               /\ \A k \in 1..Len(toSrv') :
                     toSrv'[k].code = "DATA" => toSrv'[k].data >= Len(received) + 2
    <3>1. /\ typed >= Len(received) + 1
          /\ inData # 0 => inData >= Len(received) + 2
          /\ \A k \in 1..Len(toSrv) :
                toSrv[k].code = "DATA" => toSrv[k].data >= Len(received) + 2
      BY <2>6 DEF ExecInput
    <3>2. ASSUME NEW k \in 1..Len(toSrv'), toSrv'[k].code = "DATA"
          PROVE  toSrv'[k].data >= Len(received) + 2
      <4>1. CASE k \in 1..Len(toSrv)
        BY <2>1, <3>1, <3>2, <4>1
      <4>2. CASE k \notin 1..Len(toSrv)
        <5>1. toSrv'[k] = m
          BY <1>0, <2>1, <4>2
        <5> QED  BY <1>0, <1>2, <3>1, <3>2, <5>1
      <4> QED  BY <4>1, <4>2
    <3> QED  BY <1>0, <2>2, <3>1, <3>2
  <2>7. /\ srvRecv' = "write" <=> inData' # 0
        /\ Len(received') <= typed'
        /\ inData' # 0 => inData' \in (Len(received') + 1)..typed'
        /\ srvRecv' = "resize" => resizes' > 0
    BY <1>0, <1>2, <2>2, <2>3 DEF ExecInput
  <2> QED  BY <1>2, <2>4, <2>5, <2>6, <2>7 DEF ExecInput
<1>3. CASE UNCHANGED execState
  BY <1>1, <1>3 DEF execState
<1>4. CASE E!PollInput \/ E!RecvOutput \/ E!WaitInput \/ E!Kill
  BY <1>1, <1>4
  DEF E!PollInput, E!RecvOutput, E!WaitInput, E!Kill, E!srvVars, E!ttyVars,
      E!cmdVars, E!netVars
<1>5. CASE E!Reply \/ E!Return \/ E!ReadPiece \/ E!SendPiece \/ E!CopyOutput
           \/ E!Produce \/ E!CommandExits
  BY <1>1, <1>5
  DEF E!Reply, E!Return, E!ReadPiece, E!SendPiece, E!CopyOutput, E!Produce,
      E!CommandExits, E!conVars, E!srvVars, E!ttyVars, E!cmdVars, E!netVars
<1>6. CASE E!SendInput
  <2>1. CASE toSrv' = toSrv
    <3>1. toSrv # Append(toSrv, [code |-> "DATA", data |-> typed'])
                \/ typed' \notin Nat
      <4> SUFFICES ASSUME typed' \in Nat
                   PROVE  toSrv # Append(toSrv, [code |-> "DATA", data |-> typed'])
        OBVIOUS
      <4>1. [code |-> "DATA", data |-> typed'] \in E!Message
        BY MessageType
      <4>2. Len(Append(toSrv, [code |-> "DATA", data |-> typed'])) = Len(toSrv) + 1
        BY <1>0, <4>1, AppendProperties
      <4> QED  BY <1>0, <4>2
    <3> QED
      BY <1>0, <1>1, <1>6, <2>1, <3>1
      DEF E!SendInput, E!srvVars, E!ttyVars, E!cmdVars
  <2>2. CASE toSrv' # toSrv
    <3> DEFINE m == [code |-> "DATA", data |-> typed + 1]
    <3>1. m \in E!Message /\ m.code = "DATA" /\ m.data = typed + 1
      BY <1>0, MessageType
    <3>2. /\ toSrv' = Append(toSrv, m) /\ typed' = typed + 1
          /\ UNCHANGED <<resizes, srvRecv, inData, received, inCopy, command>>
      BY <1>6, <2>2 DEF E!SendInput, E!srvVars, E!ttyVars, E!cmdVars
    <3> HIDE DEF m
    <3> QED  BY <1>2, <3>1, <3>2
  <2> QED  BY <2>1, <2>2
<1>7. CASE E!SendResize
  <2> DEFINE m == [code |-> "RESIZE"]
  <2>1. m \in E!Message /\ m.code = "RESIZE"
    BY MessageType
  <2>2. /\ toSrv' = Append(toSrv, m) /\ resizes' = resizes + 1
        /\ UNCHANGED <<typed, srvRecv, inData, received, inCopy, command>>
    BY <1>7 DEF E!SendResize, E!srvVars, E!ttyVars, E!cmdVars
  <2> HIDE DEF m
  <2> QED  BY <1>2, <2>1, <2>2
<1>8. CASE E!Hangup
  <2>1. CASE toSrv' = toSrv
    BY <1>1, <1>8, <2>1 DEF E!Hangup, E!srvVars, E!ttyVars, E!cmdVars
  <2>2. CASE toSrv' # toSrv
    <3> DEFINE m == [code |-> "CLOSE"]
    <3>1. m \in E!Message /\ m.code = "CLOSE"
      BY MessageType
    <3>2. /\ toSrv' = Append(toSrv, m)
          /\ UNCHANGED <<typed, resizes, srvRecv, inData, received, inCopy, command>>
      BY <1>8, <2>2 DEF E!Hangup, E!srvVars, E!ttyVars, E!cmdVars
    <3> HIDE DEF m
    <3> QED  BY <1>2, <3>1, <3>2
  <2> QED  BY <2>1, <2>2
<1>9. CASE E!Lookup \/ E!StartCommand \/ E!RecvEnd \/ E!ResizeTty
  <2>1. /\ \/ srvRecv # "write" /\ srvRecv' # "write" /\ srvRecv' # "resize"
           \/ srvRecv' = srvRecv
        /\ UNCHANGED <<inData, received, typed, resizes, toSrv>>
        /\ inCopy' = "ended" => inCopy = "ended"
        /\ command = "ended" => command' = "ended"
    BY <1>9
    DEF E!Lookup, E!StartCommand, E!RecvEnd, E!ResizeTty, ExecStages, E!conVars,
        E!srvVars, E!ttyVars, E!cmdVars, E!netVars
  <2> QED  BY <2>1 DEF ExecInput
<1>10. CASE E!RecvMessage
  <2>1. /\ srvRecv = "recv" /\ inData = 0 /\ toSrv # <<>> /\ toSrv' = Tail(toSrv)
        /\ UNCHANGED <<received, typed, resizes, inCopy, command>>
    BY <1>10 DEF E!RecvMessage, ExecInput, E!conVars, E!ttyVars, E!cmdVars
  <2>2. /\ Len(toSrv) \in Nat \ {0} /\ Head(toSrv) = toSrv[1] /\ Head(toSrv) \in E!Message
        /\ Len(toSrv') = Len(toSrv) - 1
        /\ \A i \in 1..Len(toSrv') : toSrv'[i] = toSrv[i + 1]
    BY <1>0, <2>1, TailFacts
  <2>3. \/ /\ toSrv[1].code = "DATA" /\ srvRecv' = "write" /\ inData' = toSrv[1].data
        \/ /\ toSrv[1].code = "RESIZE" /\ srvRecv' = "resize" /\ inData' = 0
        \/ /\ toSrv[1].code = "CLOSE" /\ srvRecv' = "recv" /\ inData' = 0
    BY <1>10, <2>1, <2>2 DEF E!RecvMessage
  <2>4. /\ toSrv[1].code = "DATA" => toSrv[1].data \in (Len(received) + 1)..typed
        /\ toSrv[1].code = "RESIZE" => resizes > 0
        /\ inCopy = "ended" /\ toSrv[1].code = "DATA" => toSrv[1].data >= Len(received) + 2
    BY <2>2 DEF ExecInput
  <2>5. ASSUME NEW k \in 1..Len(toSrv')
        PROVE  /\ toSrv'[k].code \in {"DATA", "RESIZE", "CLOSE"}
               /\ toSrv'[k].code = "RESIZE" => resizes > 0
               /\ toSrv'[k].code = "DATA" =>
                     /\ toSrv'[k].data \in (Len(received) + 1)..typed
                     /\ toSrv'[k].data > inData'
                     /\ \A j \in 1..(k - 1) :
                           toSrv'[j].code = "DATA" => toSrv'[j].data < toSrv'[k].data
               /\ inCopy = "ended" /\ toSrv'[k].code = "DATA" =>
                     toSrv'[k].data >= Len(received) + 2
    <3>1. /\ k + 1 \in 1..Len(toSrv) /\ toSrv'[k] = toSrv[k + 1] /\ 1 \in 1..((k + 1) - 1)
      BY <2>2
    <3>2. /\ toSrv[k + 1].code \in {"DATA", "RESIZE", "CLOSE"}
          /\ toSrv[k + 1].code = "RESIZE" => resizes > 0
          /\ toSrv[k + 1].code = "DATA" =>
                /\ toSrv[k + 1].data \in (Len(received) + 1)..typed
                /\ \A j \in 1..((k + 1) - 1) :
                      toSrv[j].code = "DATA" => toSrv[j].data < toSrv[k + 1].data
          /\ inCopy = "ended" /\ toSrv[k + 1].code = "DATA" =>
                toSrv[k + 1].data >= Len(received) + 2
      BY <3>1 DEF ExecInput
    <3>3. toSrv[k + 1].code = "DATA" => toSrv[k + 1].data > inData'
      BY <1>0, <2>3, <2>4, <3>1, <3>2
    <3>4. ASSUME toSrv[k + 1].code = "DATA", NEW j \in 1..(k - 1),
                 toSrv'[j].code = "DATA"
          PROVE  toSrv'[j].data < toSrv'[k].data
      <4>1. j + 1 \in 1..((k + 1) - 1) /\ toSrv'[j] = toSrv[j + 1]
        BY <2>2
      <4> QED  BY <3>1, <3>2, <3>4, <4>1
    <3> QED  BY <3>1, <3>2, <3>3, <3>4
  <2>6. ASSUME command # "ended", NEW v \in (Len(received) + 1)..typed
        PROVE  \/ inData' = v
               \/ \E k \in 1..Len(toSrv') :
                     toSrv'[k].code = "DATA" /\ toSrv'[k].data = v
    <3>1. inData # v
      BY <1>0, <2>1
    <3>2. PICK i \in 1..Len(toSrv) : toSrv[i].code = "DATA" /\ toSrv[i].data = v
      BY <2>6, <3>1 DEF ExecInput
    <3>3. CASE i = 1
      BY <2>3, <3>2, <3>3
    <3>4. CASE i # 1
      <4>1. i - 1 \in 1..Len(toSrv') /\ (i - 1) + 1 = i
        BY <2>2, <3>4
      <4>2. toSrv'[i - 1] = toSrv[(i - 1) + 1]
        BY <2>2, <4>1
      <4> QED  BY <3>2, <4>1, <4>2
    <3> QED  BY <3>3, <3>4
  <2>7. /\ srvRecv' = "write" <=> inData' # 0
        /\ inData' # 0 => inData' \in (Len(received) + 1)..typed
        /\ srvRecv' = "resize" => resizes > 0
        /\ inCopy = "ended" /\ inData' # 0 => inData' >= Len(received) + 2
    BY <1>0, <2>3, <2>4
  <2>8. Len(received) <= typed /\ (inCopy = "ended" => typed >= Len(received) + 1)
    BY DEF ExecInput
  <2> QED  BY <2>1, <2>5, <2>6, <2>7, <2>8 DEF ExecInput
<1>11. CASE E!CopyInput
  <2>1. /\ srvRecv = "write" /\ inCopy = "read" /\ srvRecv' = "recv" /\ inData' = 0
        /\ UNCHANGED <<typed, resizes, toSrv, command>>
    BY <1>11 DEF E!CopyInput, E!conVars, E!cmdVars, E!netVars
  <2>2. /\ inData \in (Len(received) + 1)..typed
        /\ \A k \in 1..Len(toSrv) :
              /\ toSrv[k].code \in {"DATA", "RESIZE", "CLOSE"}
              /\ toSrv[k].code = "RESIZE" => resizes > 0
              /\ toSrv[k].code = "DATA" =>
                    /\ toSrv[k].data \in (Len(received) + 1)..typed
                    /\ toSrv[k].data > inData
                    /\ \A j \in 1..(k - 1) :
                          toSrv[j].code = "DATA" => toSrv[j].data < toSrv[k].data
    BY <2>1 DEF ExecInput
  <2>3. CASE command = "ended"
    <3>1. received' = received /\ inCopy' \in {"read", "ended"}
      BY <1>11, <2>1, <2>3 DEF E!CopyInput
    <3>2. /\ typed >= Len(received) + 1 /\ Len(received) <= typed
          /\ \A k \in 1..Len(toSrv) :
                toSrv[k].code = "DATA" =>
                    toSrv[k].data >= Len(received) + 2 /\ toSrv[k].data > 0
      BY <1>0, <2>2
    <3> QED  BY <2>1, <2>2, <2>3, <3>1, <3>2 DEF ExecInput
  <2>4. CASE command # "ended"
    <3>1. received' = Append(received, inData) /\ inCopy' = "read"
      BY <1>11, <2>1, <2>4 DEF E!CopyInput
    <3>2. inData = Len(received) + 1
      <4>1. Len(received) + 1 \in (Len(received) + 1)..typed
        BY <1>0, <2>2
      <4>2. \/ inData = Len(received) + 1
            \/ \E k \in 1..Len(toSrv) :
                  toSrv[k].code = "DATA" /\ toSrv[k].data = Len(received) + 1
        BY <2>4, <4>1 DEF ExecInput
      <4> QED  BY <1>0, <2>2, <4>2
    <3>3. Len(received') = Len(received) + 1
      <4>1. received \in Seq(Nat)
        BY <1>0, LoadType, SeqMonotonic
      <4> QED  BY <1>0, <3>1, <4>1, AppendProperties
    <3>4. ASSUME NEW k \in 1..Len(toSrv), toSrv[k].code = "DATA"
          PROVE  toSrv[k].data \in (Len(received') + 1)..typed /\ toSrv[k].data > 0
      BY <1>0, <2>2, <3>2, <3>3, <3>4
    <3>5. ASSUME NEW v \in (Len(received') + 1)..typed
          PROVE  \E k \in 1..Len(toSrv) : toSrv[k].code = "DATA" /\ toSrv[k].data = v
      <4>1. v \in (Len(received) + 1)..typed /\ v # inData
        BY <1>0, <3>2, <3>3
      <4> QED  BY <2>4, <4>1 DEF ExecInput
    <3>6. Len(received') <= typed
      BY <1>0, <2>2, <3>2, <3>3
    <3> QED  BY <2>1, <2>2, <3>1, <3>4, <3>5, <3>6 DEF ExecInput
  <2> QED  BY <2>3, <2>4
<1> QED
  BY <1>3, <1>4, <1>5, <1>6, <1>7, <1>8, <1>9, <1>10, <1>11
  DEF E!Next, E!Progress

\* The invariant holds at first.
LEMMA ExecInit ==
  ASSUME E!Init  PROVE ExecInv
<1>1. load.pieces \in Nat /\ load.typed \in Nat /\ load.resizes \in Nat
  BY StreamsAssumption DEF E!Init
<1>2. E!TypeOK
  BY <1>1, EmptySeq DEF E!Init, E!TypeOK
<1>3. ExecStages
  BY DEF E!Init, ExecStages
<1>4. ExecOutput /\ ExecInput
  BY EmptySeq DEF E!Init, ExecOutput, ExecInput, Held, Behind, OutputOnly
<1> QED  BY <1>2, <1>3, <1>4 DEF ExecInv

\* Every step keeps it.
LEMMA ExecStep ==
  ASSUME ExecInv, [E!Next]_execState  PROVE ExecInv'
BY ExecTypeStep, ExecStagesStep, ExecOutputStep, ExecInputStep DEF ExecInv

\* Each step of a session is a step of the stream of its output, or nothing.
LEMMA OutputRefines ==
  ASSUME ExecInv, [E!Next]_execState
  PROVE  [E!Output!Next]_(E!Output!vars)
<1>1. CASE UNCHANGED <<produced, shown, conMain # "output">>
  BY <1>1 DEF E!Output!vars
<1>2. CASE E!Produce
  BY <1>2 DEF E!Produce, E!Output!Next, E!Output!Write, E!conVars
<1>3. CASE E!RecvOutput
  <2>1. UNCHANGED produced /\ conMain = "output"
    BY <1>3 DEF E!RecvOutput, E!cmdVars
  <2>2. CASE shown' = shown
    BY <1>1, <1>3, <2>1, <2>2
    DEF E!RecvOutput, E!Output!Next, E!Output!Stop
  <2>3. CASE shown' # shown
    <3>1. /\ toCon # <<>> /\ Head(toCon).code = "STDOUT" /\ conMain' = conMain
          /\ shown' = Append(shown, Head(toCon).data)
      BY <1>3, <2>3 DEF E!RecvOutput
    <3>2. Len(toCon) \in Nat \ {0} /\ Head(toCon) = toCon[1]
      BY <3>1, TailFacts DEF ExecInv, E!TypeOK
    <3>3. /\ toCon[1].data = Len(shown) + 1 /\ toCon[1].data \in 1..produced
      <4>1. \A j \in 1..1 : toCon[j].code = "STDOUT"
        BY <3>1, <3>2
      <4> QED  BY <2>1, <3>1, <3>2, <4>1 DEF ExecInv, ExecOutput
    <3>4. Len(shown) \in Nat /\ produced \in Nat
      BY LengthTypes, LoadType DEF ExecInv
    <3> QED
      BY <2>1, <3>1, <3>2, <3>3, <3>4 DEF E!Output!Next, E!Output!Deliver
  <2> QED  BY <2>2, <2>3
<1>4. CASE E!WaitInput \/ E!Kill
  BY <1>1, <1>4
  DEF E!WaitInput, E!Kill, E!cmdVars, E!Output!Next, E!Output!Stop
<1>5. CASE \/ E!PollInput \/ E!SendInput \/ E!SendResize \/ E!Hangup \/ E!Lookup
           \/ E!StartCommand \/ E!Reply \/ E!Return \/ E!RecvMessage \/ E!RecvEnd
           \/ E!ReadPiece
  BY <1>1, <1>5
  DEF E!PollInput, E!SendInput, E!SendResize, E!Hangup, E!Lookup, E!StartCommand,
      E!Reply, E!Return, E!RecvMessage, E!RecvEnd, E!ReadPiece, E!conVars, E!cmdVars
<1>6. CASE E!SendPiece \/ E!CopyOutput \/ E!CopyInput \/ E!ResizeTty \/ E!CommandExits
           \/ UNCHANGED execState
  BY <1>1, <1>6
  DEF E!SendPiece, E!CopyOutput, E!CopyInput, E!ResizeTty, E!CommandExits,
      E!conVars, E!cmdVars, execState
<1> QED  BY <1>2, <1>3, <1>4, <1>5, <1>6 DEF E!Next, E!Progress

\* Each step of a session is a step of the stream of its input, or nothing.
LEMMA InputRefines ==
  ASSUME ExecInv, [E!Next]_execState
  PROVE  [E!Input!Next]_(E!Input!vars)
<1>1. CASE UNCHANGED <<typed, received, command = "ended">>
  BY <1>1 DEF E!Input!vars
<1>2. CASE E!SendInput
  BY <1>1, <1>2 DEF E!SendInput, E!Input!Next, E!Input!Write, E!cmdVars
<1>3. CASE E!CopyInput
  <2>1. UNCHANGED <<typed, command>> /\ srvRecv = "write" /\ inCopy = "read"
    BY <1>3 DEF E!CopyInput, E!conVars
  <2>2. CASE received' = received
    BY <1>1, <2>1, <2>2
  <2>3. CASE received' # received
    <3>1. received' = Append(received, inData) /\ command = "running"
      BY <1>3, <2>3 DEF E!CopyInput
    <3>2. /\ Len(received) \in Nat /\ typed \in Nat
          /\ inData \in (Len(received) + 1)..typed
      BY <2>1, LengthTypes, LoadType DEF ExecInv, ExecInput
    <3>3. inData = Len(received) + 1
      <4>1. Len(received) + 1 \in (Len(received) + 1)..typed
        BY <3>2
      <4>2. \/ inData = Len(received) + 1
            \/ \E k \in 1..Len(toSrv) :
                  toSrv[k].code = "DATA" /\ toSrv[k].data = Len(received) + 1
        BY <3>1, <4>1 DEF ExecInv, ExecInput
      <4>3. \A k \in 1..Len(toSrv) :
               toSrv[k].code = "DATA" =>
                  toSrv[k].data > inData /\ toSrv[k].data \in (Len(received) + 1)..typed
        BY DEF ExecInv, ExecInput
      <4> QED  BY <3>2, <4>2, <4>3
    <3> QED  BY <2>1, <3>1, <3>2, <3>3 DEF E!Input!Next, E!Input!Deliver
  <2> QED  BY <2>2, <2>3
<1>4. CASE E!StartCommand \/ E!CommandExits
  BY <1>1, <1>4
  DEF E!StartCommand, E!CommandExits, E!Input!Next, E!Input!Stop, E!conVars,
      ExecInv, ExecStages
<1>5. CASE \/ E!PollInput \/ E!SendResize \/ E!Hangup \/ E!RecvOutput \/ E!WaitInput
           \/ E!Kill \/ E!Lookup \/ E!Reply \/ E!Return
  BY <1>1, <1>5
  DEF E!PollInput, E!SendResize, E!Hangup, E!RecvOutput, E!WaitInput, E!Kill,
      E!Lookup, E!Reply, E!Return, E!conVars, E!cmdVars
<1>6. CASE \/ E!RecvMessage \/ E!RecvEnd \/ E!ReadPiece \/ E!SendPiece
           \/ E!CopyOutput \/ E!ResizeTty \/ E!Produce \/ UNCHANGED execState
  BY <1>1, <1>6
  DEF E!RecvMessage, E!RecvEnd, E!ReadPiece, E!SendPiece, E!CopyOutput, E!ResizeTty,
      E!Produce, E!conVars, E!cmdVars, execState
<1> QED  BY <1>2, <1>3, <1>4, <1>5, <1>6 DEF E!Next, E!Progress

\* What the invariant says of the end of a session.
LEMMA ExecEnds ==
  ASSUME ExecInv  PROVE E!OnlyLastPieceLost /\ E!HangsExplained
<1>1. /\ typed \in Nat /\ resizes \in Nat /\ Len(received) \in Nat
      /\ conn \in {"none", "open", "closed"} /\ inCopy \in {"off", "read", "ended"}
  BY LoadType, LengthTypes DEF ExecInv, E!TypeOK
<1>2. E!OnlyLastPieceLost
  BY DEF ExecInv, ExecOutput, E!OnlyLastPieceLost
<1>3. E!OutputStuck => link = "gone"
  BY DEF E!OutputStuck, ExecInv, ExecStages
<1>4. ASSUME E!InputStuck
      PROVE  IF conn = "none" THEN typed + resizes > 0 ELSE typed >= Len(received) + 2
  <2>1. srvRecv = "write" =>
           /\ inData \in (Len(received) + 1)..typed
           /\ inCopy = "ended" => inData >= Len(received) + 2
    BY DEF ExecInv, ExecInput
  <2>2. srvRecv = "resize" => resizes > 0
    BY DEF ExecInv, ExecInput
  <2>3. inCopy = "off" <=> conn = "none"
    BY DEF ExecInv, ExecStages
  <2> QED  BY <1>1, <1>4, <2>1, <2>2, <2>3 DEF E!InputStuck
<1> QED  BY <1>2, <1>3, <1>4 DEF E!HangsExplained

-----------------------------------------------------------------------------
(* NodeCapture.                                                             *)

\* What the goroutines of a capture know of each other.
CapStages ==
    /\ capMain = "begin" => /\ capOut = "off" /\ toShark = <<>>
                            /\ capRecv \in {"first", "ended"}
    /\ capOut = "off" => capMain \in {"begin", "returned"}
    /\ capMain \in {"begin", "start"} => capCopy = "off"
    /\ capMain = "output" => capCopy \in {"read", "write"}
    /\ capMain = "done" => capCopy = "ended"
    /\ capMain \in {"failed", "wait", "returned"} => capCopy \in {"off", "ended"}
    /\ capMain = "returned" => capOut \in {"off", "ended"}
    /\ capCopy = "off" <=> tcpdump = "none"
    /\ capCopy # "write" => capBuf = <<>>
    /\ capCopy = "ended" => tcpdump = "ended" /\ capConn = <<>>
    /\ capCopy = "off" => sniffed = 0 /\ capConn = <<>>
    /\ capOut = "send" <=> packet # 0
    /\ capOut \in {"offer", "ended"} =>
          capLink = "gone" \/ (capBuf = <<>> /\ capMain \in {"wait", "returned"})
    /\ capRecv # "ended" => capLink = "open" /\ capVerdict = "none"
    /\ capRecv = "first" =>
          /\ sharkCopy = "off" /\ shark = "none" /\ pcap = 0
          /\ \/ capMain = "begin"
             \/ /\ capMain = "returned" /\ capOut = "off"
                /\ Len(toShark) = 1 /\ toShark[1].code = "ERROR"
             \/ capOut # "off" /\ Len(toShark) > 0 /\ toShark[1].code = "OK"
    /\ capRecv \in {"recv", "write"} =>
          sharkCopy # "off" /\ shark # "none" /\ capOut # "off"
    /\ capRecv = "write" <=> pcap # 0
    /\ shark = "none" => seen = <<>> /\ sharkCopy = "off"
    /\ sharkCopy = "ended" => shark = "exited" \/ capLink = "gone"
    /\ capRecv = "ended" =>
          \/ capLink = "gone" \/ capVerdict = "noshark"
          \/ capVerdict = "refused" /\ capMain = "returned" /\ capOut = "off"

\* The packets on their way to the stream, and those that were sent.
CapHeld   == IF packet = 0 THEN 0 ELSE 1
CapBehind == Len(capBuf) + Len(capConn)
CapSent   == sniffed - CapBehind - CapHeld

\* The packets on their way to the stream are the last ones, in order.
CapPipe ==
    /\ \A k \in 1..Len(capConn) : capConn[k] = sniffed - Len(capConn) + k
    /\ \A k \in 1..Len(capBuf) : capBuf[k] = sniffed - CapBehind + k
    /\ packet # 0 => packet = CapSent + 1
    /\ CapSent >= 0

\* The messages q of a stream carry, in order and up to an error, the packets
\* that follow number b, when n packets were sent of the s that were written;
\* an error comes after all of them but one at worst.
Follows(q, b, n, s) ==
    /\ (\A k \in 1..Len(q) : q[k].code # "ERROR") => b + Len(q) = n
    /\ \A k \in 1..Len(q) :
          /\ q[k].code = "STDOUT" /\ (\A j \in 1..k : q[j].code # "ERROR") =>
                q[k].data = b + k
          /\ q[k].code = "ERROR" => b + k >= s

\* The console receives packets and wireshark is given them.
Flowing ==
    /\ capOut # "off"
    /\ capRecv = "first" \/ (capRecv # "ended" /\ sharkCopy = "copy")

\* The last packet received; one less before the message that accepts.
CapBase == Len(seen) + (IF pcap = 0 THEN 0 ELSE 1)
                     - (IF capRecv = "first" THEN 1 ELSE 0)

\* The messages and the packet being written are those that follow what
\* wireshark was given.  What a capture that ended has lost.
CapFlow ==
    /\ \A k \in 1..Len(toShark) :
          /\ toShark[k].code = "STDOUT" => toShark[k].data \in 1..CapSent
          /\ toShark[k].code = "ERROR" => capMain \in {"wait", "returned"}
    /\ Flowing => Follows(toShark, CapBase, CapSent, sniffed)
    /\ Flowing /\ pcap # 0 => pcap = Len(seen) + 1 /\ pcap <= CapSent
    /\ capVerdict \in {"eof", "error"} => capMain \in {"wait", "returned"}
    /\ C!CaptureWhole

CaptureInv == C!TypeOK /\ CapStages /\ CapPipe /\ CapFlow

\* The messages of a capture are messages.
LEMMA CapMessageType ==
  /\ \A c \in {"OK", "ERROR"} : [code |-> c] \in C!CapMessage
  /\ \A n \in Nat : [code |-> "STDOUT", data |-> n] \in C!CapMessage
  /\ \A m \in C!CapMessage : m.code \in {"OK", "ERROR", "STDOUT"}
BY DEF C!CapMessage

\* The lengths of what is on its way.
LEMMA CapLengths ==
  ASSUME C!TypeOK
  PROVE  /\ Len(toShark) \in Nat /\ Len(capBuf) \in Nat /\ Len(capConn) \in Nat
         /\ Len(seen) \in Nat /\ MaxPackets \in Nat /\ sniffed \in 0..MaxPackets
         /\ packet \in Nat /\ pcap \in Nat
         /\ CapHeld \in {0, 1} /\ CapBehind \in Nat /\ CapSent \in Int
         /\ CapBase \in Int
<1>1. /\ Len(toShark) \in Nat /\ Len(capBuf) \in Nat /\ Len(capConn) \in Nat
      /\ Len(seen) \in Nat /\ MaxPackets \in Nat /\ sniffed \in 0..MaxPackets
      /\ packet \in Nat /\ pcap \in Nat
  BY LenProperties, StreamsAssumption DEF C!TypeOK
<1> QED  BY <1>1 DEF CapHeld, CapBehind, CapSent, CapBase

\* Receiving the first message.
LEMMA FollowsPop ==
  ASSUME NEW q \in Seq(C!CapMessage), q # <<>>, NEW b \in Int, NEW n \in Int,
         NEW s \in Int, Follows(q, b, n, s), q[1].code # "ERROR"
  PROVE  Follows(Tail(q), b + 1, n, s)
<1> DEFINE t == Tail(q)
<1>1. /\ Len(q) \in Nat \ {0} /\ Len(t) = Len(q) - 1
      /\ \A i \in 1..Len(t) : t[i] = q[i + 1]
  BY TailFacts
<1> HIDE DEF t
<1>2. ASSUME NEW k \in 1..Len(t), \A j \in 1..k : t[j].code # "ERROR",
             NEW i \in 1..(k + 1)
      PROVE  q[i].code # "ERROR"
  <2>1. CASE i = 1
    BY <2>1
  <2>2. CASE i # 1
    <3>1. i - 1 \in 1..k /\ i - 1 \in 1..Len(t) /\ (i - 1) + 1 = i
      BY <1>1, <2>2
    <3>2. t[i - 1] = q[(i - 1) + 1]
      BY <1>1, <3>1
    <3> QED  BY <1>2, <3>1, <3>2
  <2> QED  BY <2>1, <2>2
<1>3. ASSUME \A k \in 1..Len(t) : t[k].code # "ERROR"
      PROVE  (b + 1) + Len(t) = n
  <2>1. ASSUME NEW i \in 1..Len(q)  PROVE q[i].code # "ERROR"
    <3>1. CASE i = 1
      BY <3>1
    <3>2. CASE i # 1
      <4>1. i - 1 \in 1..Len(t) /\ (i - 1) + 1 = i
        BY <1>1, <3>2
      <4>2. t[i - 1] = q[(i - 1) + 1]
        BY <1>1, <4>1
      <4> QED  BY <1>3, <4>1, <4>2
    <3> QED  BY <3>1, <3>2
  <2>2. b + Len(q) = n
    BY <2>1 DEF Follows
  <2> QED  BY <1>1, <2>2
<1>4. ASSUME NEW k \in 1..Len(t)
      PROVE  /\ t[k].code = "STDOUT" /\ (\A j \in 1..k : t[j].code # "ERROR") =>
                   t[k].data = (b + 1) + k
             /\ t[k].code = "ERROR" => (b + 1) + k >= s
  <2>1. k + 1 \in 1..Len(q) /\ t[k] = q[k + 1] /\ (b + 1) + k = b + (k + 1)
    BY <1>1, SMTT(30)
  <2>2. /\ q[k + 1].code = "STDOUT" /\ (\A j \in 1..(k + 1) : q[j].code # "ERROR") =>
              q[k + 1].data = b + (k + 1)
        /\ q[k + 1].code = "ERROR" => b + (k + 1) >= s
    BY <2>1 DEF Follows
  <2> QED  BY <1>2, <2>1, <2>2
<1>5. Follows(t, b + 1, n, s)
  BY <1>3, <1>4 DEF Follows
<1> QED  BY <1>5 DEF t

\* Sending a message: a packet, or the error that ends the stream.
LEMMA FollowsPut ==
  ASSUME NEW q \in Seq(C!CapMessage), NEW b \in Int, NEW n \in Int,
         NEW s \in Int, Follows(q, b, n, s), NEW m \in C!CapMessage,
         NEW d \in Int,
         \/ m.code = "STDOUT" /\ m.data = n + 1 /\ d = n + 1
         \/ /\ m.code = "ERROR" /\ d = n /\ n + 1 >= s
            /\ \A k \in 1..Len(q) : q[k].code # "ERROR"
  PROVE  Follows(Append(q, m), b, d, s)
<1> DEFINE t == Append(q, m)
<1>1. /\ Len(q) \in Nat /\ Len(t) = Len(q) + 1 /\ t[Len(q) + 1] = m
      /\ \A i \in 1..Len(q) : t[i] = q[i]
  BY AppendProperties, LenProperties
<1> HIDE DEF t
<1>2. ASSUME \A k \in 1..Len(t) : t[k].code # "ERROR"
      PROVE  b + Len(t) = d
  <2>1. \A k \in 1..Len(q) : q[k].code # "ERROR"
    BY <1>1, <1>2
  <2>2. b + Len(q) = n /\ m.code # "ERROR"
    BY <1>1, <1>2, <2>1 DEF Follows
  <2> QED  BY <1>1, <2>2
<1>3. ASSUME NEW k \in 1..Len(t)
      PROVE  /\ t[k].code = "STDOUT" /\ (\A j \in 1..k : t[j].code # "ERROR") =>
                   t[k].data = b + k
             /\ t[k].code = "ERROR" => b + k >= s
  <2>1. CASE k \in 1..Len(q)
    <3>1. /\ q[k].code = "STDOUT" /\ (\A j \in 1..k : q[j].code # "ERROR") =>
                q[k].data = b + k
          /\ q[k].code = "ERROR" => b + k >= s
      BY <2>1 DEF Follows
    <3>2. t[k] = q[k] /\ \A j \in 1..k : t[j] = q[j]
      BY <1>1, <2>1
    <3> QED  BY <3>1, <3>2
  <2>2. CASE k \notin 1..Len(q)
    <3>1. k = Len(q) + 1 /\ t[k] = m
      BY <1>1, <2>2
    <3>2. CASE \E j \in 1..Len(q) : q[j].code = "ERROR"
      <4>1. \E j \in 1..k : t[j].code = "ERROR"
        BY <1>1, <3>1, <3>2
      <4> QED  BY <3>1, <3>2, <4>1
    <3>3. CASE \A j \in 1..Len(q) : q[j].code # "ERROR"
      <4>1. b + Len(q) = n
        BY <3>3 DEF Follows
      <4> QED  BY <1>1, <3>1, <4>1
    <3> QED  BY <3>2, <3>3
  <2> QED  BY <2>1, <2>2
<1>4. Follows(t, b, d, s)
  BY <1>2, <1>3 DEF Follows
<1> QED  BY <1>4 DEF t

\* Another packet is written while no error was sent.
LEMMA FollowsSniff ==
  ASSUME NEW q, NEW b, NEW n, NEW s, NEW s2, Follows(q, b, n, s),
         \A k \in 1..Len(q) : q[k].code # "ERROR"
  PROVE  Follows(q, b, n, s2)
BY DEF Follows

\* The state of a capture is of its type.
LEMMA CapTypeStep ==
  ASSUME CaptureInv, [C!Next]_captureState
  PROVE  C!TypeOK'
<1> USE DEF CaptureInv
<1>0. /\ toShark \in Seq(C!CapMessage) /\ capConn \in Seq(1..MaxPackets)
      /\ capBuf \in Seq(1..MaxPackets) /\ seen \in Seq(1..MaxPackets)
      /\ MaxPackets \in Nat /\ sniffed \in 0..MaxPackets
  BY CapLengths DEF C!TypeOK
<1>1. CASE UNCHANGED captureState
  BY <1>1 DEF captureState, C!TypeOK, C!CapMessage
<1>2. ASSUME NEW m \in C!CapMessage, C!Sent(m)  PROVE toShark' \in Seq(C!CapMessage)
  BY <1>0, <1>2, AppendProperties DEF C!Sent
<1>3. CASE C!CapLookup \/ C!EndCapture
  <2>1. toShark' \in Seq(C!CapMessage)
    BY <1>0, <1>2, <1>3, CapMessageType DEF C!CapLookup, C!EndCapture
  <2> QED
    BY <1>3, <2>1
    DEF C!CapLookup, C!EndCapture, C!TypeOK, C!CapMessage, C!capDump, C!capCon
<1>4. CASE C!StartTcpdump \/ C!CapReturn
  BY <1>4
  DEF C!StartTcpdump, C!CapReturn, C!TypeOK, C!CapMessage, C!capDump, C!capCon
<1>5. CASE C!ReadPacket
  <2>1. capBuf # <<>> =>
           Head(capBuf) \in 1..MaxPackets /\ Tail(capBuf) \in Seq(1..MaxPackets)
    BY <1>0, TailFacts
  <2>2. /\ capBuf' \in Seq(1..MaxPackets) /\ packet' \in 0..MaxPackets
        /\ capOut' \in {"off", "read", "send", "offer", "ended"}
    <3>1. CASE capBuf = <<>>
      BY <1>0, <1>5, <3>1 DEF C!ReadPacket, C!TypeOK
    <3>2. CASE capBuf # <<>>
      <4>1. capOut' = "send" /\ packet' = Head(capBuf) /\ capBuf' = Tail(capBuf)
        BY <1>5, <3>2 DEF C!ReadPacket
      <4> QED  BY <1>0, <2>1, <3>2, <4>1
    <3> QED  BY <3>1, <3>2
  <2> QED
    BY <1>5, <2>2 DEF C!ReadPacket, C!TypeOK, C!CapMessage, C!capDump, C!capCon
<1>6. CASE C!SendPacket
  <2>1. toShark' \in Seq(C!CapMessage)
    BY <1>2, <1>6, CapMessageType, CapLengths DEF C!SendPacket
  <2>2. packet' \in 0..MaxPackets /\ capOut' \in {"read", "offer"}
    BY <1>0, <1>6 DEF C!SendPacket
  <2> QED
    BY <1>6, <2>1, <2>2 DEF C!SendPacket, C!TypeOK, C!CapMessage, C!capDump, C!capCon
<1>7. CASE C!CopyPackets
  <2>1. \A n \in 1..Len(capConn) :
           /\ SubSeq(capConn, 1, n) \in Seq(1..MaxPackets)
           /\ SubSeq(capConn, n + 1, Len(capConn)) \in Seq(1..MaxPackets)
    BY <1>0, CutFacts
  <2>2. capBuf' \in Seq(1..MaxPackets) /\ capConn' \in Seq(1..MaxPackets)
    BY <1>0, <1>7, <2>1 DEF C!CopyPackets
  <2> QED
    BY <1>7, <2>2 DEF C!CopyPackets, C!TypeOK, C!CapMessage, C!capCon
<1>8. CASE C!Sniff
  <2>1. sniffed' \in 1..MaxPackets
    BY <1>0, <1>8 DEF C!Sniff
  <2>2. capConn' \in Seq(1..MaxPackets)
    BY <1>0, <1>8, <2>1, AppendProperties DEF C!Sniff
  <2> QED
    BY <1>0, <1>8, <2>1, <2>2 DEF C!Sniff, C!TypeOK, C!CapMessage, C!capSrv, C!capCon
<1>9. CASE C!TcpdumpExits \/ C!QuitShark \/ C!QuitPrompt
  BY <1>0, <1>9
  DEF C!TcpdumpExits, C!QuitShark, C!QuitPrompt, C!TypeOK, C!CapMessage, C!capSrv,
      C!capDump, C!capCon
<1>10. CASE C!RecvFirst
  <2>1. toShark' \in Seq(C!CapMessage)
    BY <1>0, <1>10, TailFacts DEF C!RecvFirst
  <2> QED
    BY <1>10, <2>1 DEF C!RecvFirst, C!TypeOK, C!CapMessage, C!capSrv, C!capDump
<1>11. CASE C!RecvPacket
  <2>1. toShark' \in Seq(C!CapMessage)
    BY <1>0, <1>11, TailFacts DEF C!RecvPacket
  <2>2. pcap' \in 0..MaxPackets
    <3>1. pcap \in 0..MaxPackets
      BY DEF C!TypeOK
    <3>2. ASSUME toShark # <<>>, Head(toShark).code = "STDOUT"
          PROVE  Head(toShark).data \in 0..MaxPackets
      <4>1. 1 \in 1..Len(toShark) /\ Head(toShark) = toShark[1]
        BY <1>0, <3>2, TailFacts
      <4>2. toShark[1].data \in 1..CapSent
        BY <3>2, <4>1 DEF CapFlow
      <4>3. CapSent \in Int /\ CapSent <= sniffed
        BY CapLengths DEF CapSent
      <4> QED  BY <1>0, <4>1, <4>2, <4>3
    <3> QED  BY <1>11, <3>1, <3>2 DEF C!RecvPacket
  <2> QED
    BY <1>11, <2>1, <2>2 DEF C!RecvPacket, C!TypeOK, C!CapMessage, C!capSrv, C!capDump
<1>12. CASE C!FeedShark
  <2>1. pcap \in 1..MaxPackets
    BY <1>0, <1>12 DEF C!FeedShark, C!TypeOK, CapStages
  <2>2. seen' \in Seq(1..MaxPackets) /\ pcap' \in 0..MaxPackets
    <3>1. Append(seen, pcap) \in Seq(1..MaxPackets)
      BY <1>0, <2>1, AppendProperties
    <3>2. pcap' = 0 /\ (seen' = seen \/ seen' = Append(seen, pcap))
      BY <1>12 DEF C!FeedShark
    <3>3. seen' \in Seq(1..MaxPackets)
      <4>1. CASE seen' = seen
        BY <1>0, <4>1
      <4>2. CASE seen' = Append(seen, pcap)
        BY <3>1, <4>2
      <4> QED  BY <3>2, <4>1, <4>2
    <3> QED  BY <1>0, <3>2, <3>3
  <2> QED
    BY <1>12, <2>2 DEF C!FeedShark, C!TypeOK, C!CapMessage, C!capSrv, C!capDump
<1> QED
  BY <1>1, <1>3, <1>4, <1>5, <1>6, <1>7, <1>8, <1>9, <1>10, <1>11, <1>12
  DEF C!Next, C!CapProgress

\* The goroutines keep what they know of each other.
LEMMA CapStagesStep ==
  ASSUME CaptureInv, [C!Next]_captureState
  PROVE  CapStages'
<1> USE DEF CaptureInv
<1>0. /\ toShark \in Seq(C!CapMessage) /\ Len(toShark) \in Nat
      /\ capMain \in {"begin", "start", "output", "failed", "done", "wait", "returned"}
      /\ capOut \in {"off", "read", "send", "offer", "ended"}
      /\ capCopy \in {"off", "read", "write", "ended"}
      /\ capLink \in {"open", "gone"}
      /\ capRecv \in {"first", "recv", "write", "ended"}
      /\ packet \in Nat /\ pcap \in Nat
      /\ shark \in {"none", "running", "exited"}
      /\ sharkCopy \in {"off", "copy", "ended"}
  BY CapLengths DEF C!TypeOK
<1>1. CASE UNCHANGED captureState
  BY <1>1 DEF captureState, CapStages
<1>2. ASSUME NEW m \in C!CapMessage, C!Sent(m), capLink = "open"
      PROVE  /\ toShark' = Append(toShark, m) /\ Len(toShark') = Len(toShark) + 1
             /\ Len(toShark) > 0 => toShark'[1] = toShark[1]
             /\ toShark = <<>> => toShark'[1] = m
  BY <1>0, <1>2, AppendProperties, EmptySeq DEF C!Sent
<1>3. CASE C!CapLookup
  <2>1. /\ capMain = "begin" /\ capOut = "off" /\ toShark = <<>> /\ Len(toShark) = 0
        /\ capRecv \in {"first", "ended"} /\ capCopy = "off"
    BY <1>3 DEF C!CapLookup, CapStages
  <2>2. UNCHANGED <<capCopy, capBuf, packet, C!capDump, C!capCon, capLink>>
    BY <1>3 DEF C!CapLookup
  <2>3. CASE project = "open"
    <3>1. capMain' = "start" /\ capOut' = "read" /\ C!Sent([code |-> "OK"])
      BY <1>3, <2>3 DEF C!CapLookup
    <3>2. capRecv = "first" => Len(toShark') > 0 /\ toShark'[1].code = "OK"
      BY <1>2, <2>1, <3>1, CapMessageType DEF CapStages
    <3> QED
      BY <2>1, <2>2, <3>1, <3>2 DEF CapStages, C!capDump, C!capCon
  <2>4. CASE project # "open"
    <3>1. capMain' = "returned" /\ capOut' = "off" /\ C!Sent([code |-> "ERROR"])
      BY <1>3, <2>1, <2>4 DEF C!CapLookup
    <3>2. capRecv = "first" => Len(toShark') = 1 /\ toShark'[1].code = "ERROR"
      BY <1>2, <2>1, <3>1, CapMessageType DEF CapStages
    <3> QED
      BY <2>1, <2>2, <3>1, <3>2 DEF CapStages, C!capDump, C!capCon
  <2> QED  BY <2>3, <2>4
<1>4. CASE C!StartTcpdump
  BY <1>0, <1>4 DEF C!StartTcpdump, CapStages, C!capCon
<1>5. CASE C!EndCapture
  <2>1. /\ capMain \in {"failed", "done"} /\ capMain' = "wait"
        /\ UNCHANGED <<capOut, capCopy, capBuf, packet, C!capDump, C!capCon, capLink>>
    BY <1>5 DEF C!EndCapture
  <2>2. capRecv = "first" => Len(toShark') > 0 /\ toShark'[1].code = "OK"
    <3>1. capRecv = "first" => Len(toShark) > 0 /\ toShark[1].code = "OK" /\ capLink = "open"
      BY <2>1 DEF CapStages
    <3> QED  BY <1>0, <1>2, <1>5, <3>1, CapMessageType DEF C!EndCapture
  <2> QED  BY <1>0, <2>1, <2>2 DEF CapStages, C!capDump, C!capCon
<1>6. CASE C!CapReturn
  BY <1>0, <1>6 DEF C!CapReturn, CapStages, C!capDump, C!capCon
<1>7. CASE C!ReadPacket
  <2>1. capBuf # <<>> => Head(capBuf) # 0
    BY TailFacts, CapLengths DEF C!TypeOK
  <2> QED  BY <1>0, <1>7, <2>1 DEF C!ReadPacket, CapStages, C!capDump, C!capCon
<1>8. CASE C!SendPacket
  <2>1. /\ capOut = "send" /\ packet' = 0
        /\ capOut' = IF capLink = "gone" THEN "offer" ELSE "read"
        /\ UNCHANGED <<capMain, capCopy, capBuf, C!capDump, C!capCon, capLink>>
    BY <1>8 DEF C!SendPacket
  <2>2. capRecv = "first" => Len(toShark') > 0 /\ toShark'[1].code = "OK"
    <3>1. capRecv = "first" => Len(toShark) > 0 /\ toShark[1].code = "OK" /\ capLink = "open"
      BY <2>1 DEF CapStages
    <3> QED  BY <1>0, <1>2, <1>8, <3>1, CapMessageType DEF C!SendPacket
  <2> QED  BY <1>0, <2>1, <2>2 DEF CapStages, C!capDump, C!capCon
<1>9. CASE C!CopyPackets
  BY <1>0, <1>9 DEF C!CopyPackets, CapStages, C!capCon
<1>10. CASE C!Sniff \/ C!TcpdumpExits \/ C!QuitShark
  BY <1>0, <1>10
  DEF C!Sniff, C!TcpdumpExits, C!QuitShark, CapStages, C!capSrv, C!capDump, C!capCon
<1>11. CASE C!QuitPrompt
  BY <1>0, <1>11 DEF C!QuitPrompt, CapStages, C!capSrv, C!capDump
<1>12. CASE C!RecvFirst
  <2>1. toShark # <<>> => /\ Len(toShark) \in Nat \ {0} /\ Head(toShark) = toShark[1]
                          /\ Len(Tail(toShark)) = Len(toShark) - 1
    BY <1>0, TailFacts
  <2>2. /\ capRecv = "first" /\ toShark # <<>>
        /\ UNCHANGED <<C!capSrv, C!capDump, capLink, pcap, seen>>
    BY <1>12 DEF C!RecvFirst
  <2>3. \/ /\ toShark[1].code = "OK" /\ capRecv' = "recv" /\ shark' = "running"
           /\ sharkCopy' = "copy" /\ UNCHANGED capVerdict
        \/ /\ toShark[1].code = "OK" /\ capRecv' = "ended" /\ capVerdict' = "noshark"
           /\ UNCHANGED <<shark, sharkCopy>>
        \/ /\ toShark[1].code = "ERROR" /\ capRecv' = "ended" /\ capVerdict' = "refused"
           /\ UNCHANGED <<shark, sharkCopy>>
    BY <1>12, <2>1, <2>2 DEF C!RecvFirst
  <2>4. toShark[1].code = "OK" => capOut # "off"
    BY <2>1, <2>2 DEF CapStages
  <2>5. toShark[1].code = "ERROR" => capMain = "returned" /\ capOut = "off"
    BY <2>1, <2>2 DEF CapStages
  <2>6. capMain # "begin"
    BY <2>2 DEF CapStages
  <2> QED
    BY <1>0, <2>2, <2>3, <2>4, <2>5, <2>6 DEF CapStages, C!capSrv, C!capDump
<1>13. CASE C!RecvPacket
  <2>1. /\ capRecv = "recv"
        /\ UNCHANGED <<C!capSrv, C!capDump, sharkCopy, seen>>
    BY <1>13 DEF C!RecvPacket
  <2>2. toShark # <<>> /\ Head(toShark).code = "STDOUT" => Head(toShark).data # 0
    <3> SUFFICES ASSUME toShark # <<>>, Head(toShark).code = "STDOUT"
                 PROVE  Head(toShark).data # 0
      OBVIOUS
    <3>1. 1 \in 1..Len(toShark) /\ Head(toShark) = toShark[1]
      BY <1>0, TailFacts
    <3> QED  BY <3>1, CapLengths DEF CapFlow
  <2> QED  BY <1>0, <1>13, <2>1, <2>2 DEF C!RecvPacket, CapStages, C!capSrv, C!capDump
<1>14. CASE C!FeedShark
  BY <1>0, <1>14 DEF C!FeedShark, CapStages, C!capSrv, C!capDump
<1> QED
  BY <1>1, <1>3, <1>4, <1>5, <1>6, <1>7, <1>8, <1>9, <1>10, <1>11, <1>12, <1>13, <1>14
  DEF C!Next, C!CapProgress

\* The packets of tcpdump stay in order, and only SendPacket sends one.
LEMMA CapPipeStep ==
  ASSUME CaptureInv, [C!Next]_captureState
  PROVE  /\ CapPipe'
         /\ CapSent' = CapSent + IF C!SendPacket THEN 1 ELSE 0
<1> USE DEF CaptureInv
<1>0. /\ sniffed \in Nat /\ packet \in Nat /\ Len(capBuf) \in Nat /\ Len(capConn) \in Nat
      /\ capBuf \in Seq(1..MaxPackets) /\ capConn \in Seq(1..MaxPackets)
      /\ CapHeld \in {0, 1} /\ CapBehind \in Nat /\ CapSent \in Int
      /\ CapSent = sniffed - CapBehind - CapHeld
  BY CapLengths DEF C!TypeOK, CapSent
<1>00. /\ \A k \in 1..Len(capConn) : capConn[k] = sniffed - Len(capConn) + k
       /\ \A k \in 1..Len(capBuf) : capBuf[k] = sniffed - CapBehind + k
       /\ packet # 0 => packet = CapSent + 1
       /\ CapSent >= 0
  BY DEF CapPipe
<1>1. ASSUME UNCHANGED <<sniffed, capConn, capBuf, packet>>
      PROVE  CapPipe' /\ CapSent' = CapSent
  BY <1>1 DEF CapPipe, CapSent, CapBehind, CapHeld
<1>2. ASSUME NEW s \in Nat, NEW h \in {0, 1}, NEW b \in Nat,
             sniffed' = s, CapHeld' = h, CapBehind' = b,
             s - b - h = CapSent,
             packet' # 0 => packet' = CapSent + 1,
             \A k \in 1..Len(capConn') : capConn'[k] = s - Len(capConn') + k,
             \A k \in 1..Len(capBuf') : capBuf'[k] = s - b + k
      PROVE  CapPipe' /\ CapSent' = CapSent
  <2>1. CapSent' = CapSent
    BY <1>2 DEF CapSent
  <2>2. packet' # 0 => packet' = CapSent' + 1
    BY <1>2, <2>1
  <2>3. CapSent' >= 0
    BY <1>00, <2>1
  <2> QED  BY <1>2, <2>1, <2>2, <2>3 DEF CapPipe
<1>3. CASE C!SendPacket
  <2>1. /\ packet # 0 /\ packet' = 0 /\ UNCHANGED <<sniffed, capConn, capBuf>>
    BY <1>3 DEF C!SendPacket, C!capDump, CapStages
  <2>2. CapHeld = 1 /\ CapHeld' = 0 /\ CapBehind' = CapBehind
    BY <2>1 DEF CapHeld, CapBehind
  <2>3. CapSent' = CapSent + 1
    <3>1. CapSent' = sniffed' - CapBehind' - CapHeld'
      BY DEF CapSent
    <3> QED  BY <1>0, <2>1, <2>2, <3>1
  <2> QED  BY <1>0, <1>00, <1>3, <2>1, <2>2, <2>3 DEF CapPipe
<1>4. CASE C!ReadPacket /\ capBuf # <<>>
  <2>1. /\ packet = 0 /\ packet' = Head(capBuf) /\ capBuf' = Tail(capBuf)
        /\ UNCHANGED <<sniffed, capConn>>
    BY <1>4 DEF C!ReadPacket, C!capDump, CapStages
  <2>2. /\ Len(capBuf) \in Nat \ {0} /\ packet' = capBuf[1] /\ packet' \in 1..MaxPackets
        /\ Len(capBuf') = Len(capBuf) - 1
        /\ \A i \in 1..Len(capBuf') : capBuf'[i] = capBuf[i + 1]
    BY <1>0, <1>4, <2>1, TailFacts
  <2>3. CapHeld = 0 /\ CapHeld' = 1 /\ CapBehind' = CapBehind - 1 /\ CapBehind' \in Nat
    BY <1>0, <2>1, <2>2, CapLengths DEF CapHeld, CapBehind
  <2>4. packet' = CapSent + 1
    BY <1>0, <1>00, <2>2, <2>3
  <2>5. \A k \in 1..Len(capBuf') : capBuf'[k] = sniffed - CapBehind' + k
    BY <1>0, <1>00, <2>2, <2>3
  <2>6. \A k \in 1..Len(capConn') : capConn'[k] = sniffed - Len(capConn') + k
    BY <1>00, <2>1
  <2>7. sniffed - CapBehind' - CapHeld' = CapSent
    BY <1>0, <2>3
  <2>8. ~C!SendPacket
    BY <2>2 DEF C!SendPacket
  <2> QED  BY <1>0, <1>2, <2>1, <2>3, <2>4, <2>5, <2>6, <2>7, <2>8
<1>5. CASE C!CopyPackets /\ ~UNCHANGED <<capBuf, capConn>>
  <2>1. PICK n \in 1..Len(capConn) :
           /\ capBuf' = SubSeq(capConn, 1, n)
           /\ capConn' = SubSeq(capConn, n + 1, Len(capConn))
    BY <1>5 DEF C!CopyPackets
  <2>2. capBuf = <<>> /\ UNCHANGED <<sniffed, packet>>
    BY <1>5 DEF C!CopyPackets, CapStages
  <2>3. /\ Len(capBuf') = n /\ Len(capConn') = Len(capConn) - n
        /\ \A i \in 1..n : capBuf'[i] = capConn[i]
        /\ \A i \in 1..(Len(capConn) - n) : capConn'[i] = capConn[n + i]
    BY <1>0, <2>1, CutFacts, SMTT(30)
  <2>4. CapBehind = Len(capConn) /\ CapBehind' = CapBehind /\ CapHeld' = CapHeld
    BY <1>0, <2>2, <2>3 DEF CapBehind, CapHeld
  <2>5. ASSUME NEW k \in 1..Len(capConn')
        PROVE  capConn'[k] = sniffed - Len(capConn') + k
    <3>1. n + k \in 1..Len(capConn) /\ capConn'[k] = capConn[n + k]
      <4>1. n \in 1..Len(capConn) /\ k \in 1..(Len(capConn) - n)
        BY <2>3
      <4> QED  BY <1>0, <2>3, <4>1
    <3>2. capConn[n + k] = sniffed - Len(capConn) + (n + k)
      BY <1>00, <3>1
    <3> QED  BY <1>0, <2>3, <3>1, <3>2
  <2>6. ASSUME NEW k \in 1..Len(capBuf')
        PROVE  capBuf'[k] = sniffed - CapBehind + k
    <3>1. k \in 1..Len(capConn) /\ capBuf'[k] = capConn[k]
      BY <1>0, <2>1, <2>3
    <3> QED  BY <1>00, <2>4, <3>1
  <2>7. packet' # 0 => packet' = CapSent + 1
    BY <1>00, <2>2
  <2>8. ~C!SendPacket
    BY <1>5 DEF C!SendPacket, C!capDump
  <2>9. CapPipe' /\ CapSent' = CapSent
    BY <1>0, <1>2, <2>2, <2>4, <2>5, <2>6, <2>7
  <2> QED  BY <1>0, <2>8, <2>9
<1>6. CASE C!Sniff
  <2>1. /\ sniffed' = sniffed + 1 /\ capConn' = Append(capConn, sniffed + 1)
        /\ UNCHANGED <<capBuf, packet>>
    BY <1>6 DEF C!Sniff, C!capSrv
  <2>2. /\ Len(capConn') = Len(capConn) + 1 /\ capConn'[Len(capConn) + 1] = sniffed + 1
        /\ \A k \in 1..Len(capConn) : capConn'[k] = capConn[k]
    <3>1. capConn \in Seq(Nat) /\ sniffed + 1 \in Nat
      BY <1>0, CapLengths, SeqMonotonic
    <3> QED  BY <2>1, <3>1, AppendProperties
  <2>3. CapBehind' = CapBehind + 1 /\ CapHeld' = CapHeld
    BY <1>0, <2>1, <2>2 DEF CapBehind, CapHeld
  <2>4. ASSUME NEW k \in 1..Len(capConn')
        PROVE  capConn'[k] = (sniffed + 1) - Len(capConn') + k
    <3>1. CASE k \in 1..Len(capConn)
      <4>1. capConn'[k] = sniffed - Len(capConn) + k
        BY <1>00, <2>2, <3>1
      <4> QED  BY <1>0, <2>2, <4>1
    <3>2. CASE k \notin 1..Len(capConn)
      <4>1. k = Len(capConn) + 1
        BY <1>0, <2>2, <3>2
      <4> QED  BY <1>0, <2>2, <4>1
    <3> QED  BY <3>1, <3>2
  <2>5. \A k \in 1..Len(capBuf') : capBuf'[k] = (sniffed + 1) - CapBehind' + k
    BY <1>0, <1>00, <2>1, <2>3
  <2>6. packet' # 0 => packet' = CapSent + 1
    BY <1>00, <2>1
  <2>7. (sniffed + 1) - CapBehind' - CapHeld' = CapSent /\ CapBehind' \in Nat
    BY <1>0, <2>3
  <2>8. ~C!SendPacket
    BY <1>0, <2>1 DEF C!SendPacket, C!capDump
  <2>9. /\ sniffed + 1 \in Nat /\ CapHeld \in {0, 1} /\ CapBehind' \in Nat
        /\ (sniffed + 1) - CapBehind' - CapHeld = CapSent
    BY <1>0, <2>3, <2>7
  <2>10. CapPipe' /\ CapSent' = CapSent
    BY <1>2, <2>1, <2>3, <2>4, <2>5, <2>6, <2>9
  <2> QED  BY <1>0, <2>8, <2>10
<1>7. CASE \/ UNCHANGED captureState
           \/ C!CapLookup \/ C!StartTcpdump \/ C!EndCapture \/ C!CapReturn
           \/ (C!ReadPacket /\ capBuf = <<>>)
           \/ (C!CopyPackets /\ UNCHANGED <<capBuf, capConn>>)
           \/ C!TcpdumpExits \/ C!RecvFirst \/ C!RecvPacket \/ C!FeedShark
           \/ C!QuitShark \/ C!QuitPrompt
  <2>1. UNCHANGED <<sniffed, capConn, capBuf, packet>>
    BY <1>7
    DEF captureState, C!CapLookup, C!StartTcpdump, C!EndCapture, C!CapReturn,
        C!ReadPacket, C!CopyPackets, C!TcpdumpExits, C!RecvFirst, C!RecvPacket,
        C!FeedShark, C!QuitShark, C!QuitPrompt, C!capSrv, C!capDump
  <2>2. ~C!SendPacket
    BY <2>1 DEF C!SendPacket, CapStages
  <2> QED  BY <1>0, <1>1, <2>1, <2>2
<1> QED
  BY <1>0, <1>3, <1>4, <1>5, <1>6, <1>7 DEF C!Next, C!CapProgress

\* The packets reach wireshark in order, and few of them are lost.
LEMMA CapFlowStep ==
  ASSUME CaptureInv, [C!Next]_captureState
  PROVE  CapFlow'
<1> USE DEF CaptureInv
<1>0. /\ toShark \in Seq(C!CapMessage) /\ Len(toShark) \in Nat /\ Len(seen) \in Nat
      /\ sniffed \in Nat /\ CapSent \in Int /\ CapSent >= 0 /\ CapSent <= sniffed
      /\ CapBase \in Int /\ seen \in Seq(1..MaxPackets)
      /\ capMain \in {"begin", "start", "output", "failed", "done", "wait", "returned"}
      /\ capRecv \in {"first", "recv", "write", "ended"}
      /\ capLink \in {"open", "gone"} /\ capOut \in {"off", "read", "send", "offer", "ended"}
      /\ shark \in {"none", "running", "exited"}
  BY CapLengths DEF C!TypeOK, CapPipe, CapSent
<1>00. /\ \A k \in 1..Len(toShark) :
             /\ toShark[k].code = "STDOUT" => toShark[k].data \in 1..CapSent
             /\ toShark[k].code = "ERROR" => capMain \in {"wait", "returned"}
       /\ Flowing => Follows(toShark, CapBase, CapSent, sniffed)
       /\ Flowing /\ pcap # 0 => pcap = Len(seen) + 1 /\ pcap <= CapSent
       /\ capVerdict \in {"eof", "error"} => capMain \in {"wait", "returned"}
       /\ capVerdict = "eof" /\ shark = "running" => Len(seen) = sniffed
       /\ capVerdict = "error" /\ sharkCopy = "copy" => Len(seen) + 1 >= sniffed
  BY DEF CapFlow, C!CaptureWhole
<1>01. CapStages'
  BY CapStagesStep
<1>02. CapSent' = CapSent + IF C!SendPacket THEN 1 ELSE 0
  BY CapPipeStep
\* A step that leaves the messages and the console alone.
<1>1. ASSUME UNCHANGED <<toShark, seen, pcap, capRecv, capVerdict, sharkCopy>>,
             shark' \in {shark, "exited"}, CapSent' = CapSent,
             capMain \in {"wait", "returned"} =>
                sniffed' = sniffed /\ capMain' \in {"wait", "returned"},
             capOut = "off" => capOut' = "off"
      PROVE  CapFlow'
  <2>1. CapBase' = CapBase /\ (Flowing' => Flowing)
    BY <1>1 DEF CapBase, Flowing
  <2>2. ASSUME Flowing'  PROVE Follows(toShark, CapBase, CapSent, sniffed')
    <3>1. Follows(toShark, CapBase, CapSent, sniffed)
      BY <1>00, <2>1, <2>2
    <3>2. CASE sniffed' = sniffed
      BY <3>1, <3>2
    <3>3. CASE sniffed' # sniffed
      <4>1. \A k \in 1..Len(toShark) : toShark[k].code # "ERROR"
        BY <1>00, <1>1, <3>3
      <4> QED  BY <3>1, <4>1, FollowsSniff
    <3> QED  BY <3>2, <3>3
  <2>3. Flowing' => Follows(toShark, CapBase, CapSent, sniffed)'
    <3>1. Flowing' => Follows(toShark', CapBase', CapSent', sniffed')
      BY <1>1, <2>1, <2>2
    <3> QED  BY <3>1 DEF Follows
  <2>4. C!CaptureWhole'
    BY <1>00, <1>1 DEF C!CaptureWhole
  <2> QED  BY <1>00, <1>1, <2>1, <2>3, <2>4 DEF CapFlow
\* A step with which the console stops receiving.
<1>2. ASSUME capRecv' = "ended", UNCHANGED <<sniffed, seen, capMain>>,
             CapSent' = CapSent,
             toShark' = toShark \/ (toShark # <<>> /\ toShark' = Tail(toShark)),
             capVerdict' \in {"eof", "error"} => capMain \in {"wait", "returned"},
             C!CaptureWhole'
      PROVE  CapFlow'
  <2>1. ASSUME NEW k \in 1..Len(toShark')
        PROVE  /\ toShark'[k].code = "STDOUT" => toShark'[k].data \in 1..CapSent
               /\ toShark'[k].code = "ERROR" => capMain \in {"wait", "returned"}
    <3>1. CASE toShark' = toShark
      BY <1>00, <3>1
    <3>2. CASE toShark # <<>> /\ toShark' = Tail(toShark)
      <4>1. k + 1 \in 1..Len(toShark) /\ toShark'[k] = toShark[k + 1]
        <5>1. /\ Len(toShark) \in Nat \ {0} /\ Len(toShark') = Len(toShark) - 1
              /\ \A i \in 1..Len(toShark') : toShark'[i] = toShark[i + 1]
          BY <1>0, <3>2, TailFacts
        <5> QED  BY <5>1
      <4> QED  BY <1>00, <4>1
    <3> QED  BY <1>2, <3>1, <3>2
  <2>2. ~Flowing'
    BY <1>2 DEF Flowing
  <2> QED  BY <1>2, <2>1, <2>2 DEF CapFlow
\* A message is sent.
<1>3. ASSUME NEW m \in C!CapMessage, NEW d \in Int,
             toShark' = Append(toShark, m),
             CapSent' = d, UNCHANGED <<sniffed, C!capCon>>,
             capMain \in {"wait", "returned"} => capMain' \in {"wait", "returned"},
             \/ m.code = "STDOUT" /\ m.data = CapSent + 1 /\ d = CapSent + 1
             \/ /\ m.code = "ERROR" /\ d = CapSent /\ CapSent + 1 >= sniffed
                /\ capMain \notin {"wait", "returned"} /\ capMain' = "wait",
             capOut = "off" => capOut' = "off"
      PROVE  CapFlow'
  <2>1. CapBase' = CapBase /\ (Flowing' => Flowing)
    BY <1>3 DEF CapBase, Flowing, C!capCon
  <2>2. d >= CapSent
    BY <1>0, <1>3
  <2>3. ASSUME NEW k \in 1..Len(toShark')
        PROVE  /\ toShark'[k].code = "STDOUT" => toShark'[k].data \in 1..d
               /\ toShark'[k].code = "ERROR" => capMain' \in {"wait", "returned"}
    <3>1. /\ Len(toShark') = Len(toShark) + 1 /\ toShark'[Len(toShark) + 1] = m
          /\ \A i \in 1..Len(toShark) : toShark'[i] = toShark[i]
      BY <1>0, <1>3, AppendProperties
    <3>2. CASE k \in 1..Len(toShark)
      <4>1. /\ toShark'[k] = toShark[k]
            /\ toShark[k].code = "STDOUT" => toShark[k].data \in 1..CapSent
            /\ toShark[k].code = "ERROR" => capMain \in {"wait", "returned"}
        BY <1>00, <3>1, <3>2
      <4>2. 1..CapSent \subseteq 1..d
        BY <1>0, <2>2
      <4> QED  BY <1>3, <4>1, <4>2
    <3>3. CASE k \notin 1..Len(toShark)
      <4>1. toShark'[k] = m
        BY <1>0, <3>1, <3>3
      <4>2. m.code = "STDOUT" => m.data \in 1..d
        BY <1>0, <1>3
      <4>3. m.code = "ERROR" => capMain' = "wait"
        BY <1>3
      <4> QED  BY <4>1, <4>2, <4>3
    <3> QED  BY <3>2, <3>3
  <2>4. ASSUME Flowing'  PROVE Follows(toShark', CapBase', d, sniffed')
    <3>1. Follows(toShark, CapBase, CapSent, sniffed)
      BY <1>00, <2>1, <2>4
    <3>2. capMain \notin {"wait", "returned"} =>
             \A k \in 1..Len(toShark) : toShark[k].code # "ERROR"
      BY <1>00
    <3>3. \/ m.code = "STDOUT" /\ m.data = CapSent + 1 /\ d = CapSent + 1
          \/ /\ m.code = "ERROR" /\ d = CapSent /\ CapSent + 1 >= sniffed
             /\ \A k \in 1..Len(toShark) : toShark[k].code # "ERROR"
      BY <1>3, <3>2
    <3>4. Follows(Append(toShark, m), CapBase, d, sniffed)
      BY <1>0, <3>1, <3>3, FollowsPut
    <3> QED  BY <1>3, <2>1, <3>4
  <2>5. Flowing' => Follows(toShark, CapBase, CapSent, sniffed)'
    <3>1. Flowing' => Follows(toShark', CapBase', CapSent', sniffed')
      BY <1>3, <2>4
    <3> QED  BY <3>1 DEF Follows
  <2>6. C!CaptureWhole'
    BY <1>00, <1>3 DEF C!CaptureWhole, C!capCon
  <2>7. UNCHANGED <<pcap, seen, capVerdict>>
    BY <1>3 DEF C!capCon
  <2>8. Flowing' /\ pcap' # 0 => pcap' = Len(seen') + 1 /\ pcap' <= d
    <3>1. Flowing' /\ pcap # 0 => pcap = Len(seen) + 1 /\ pcap <= CapSent
      BY <1>00, <2>1
    <3> QED  BY <1>0, <2>2, <2>7, <3>1
  <2> QED  BY <1>00, <1>3, <2>3, <2>5, <2>6, <2>7, <2>8 DEF CapFlow
\* A message is received, and the console goes on.
<1>4. ASSUME toShark # <<>>, toShark' = Tail(toShark), toShark[1].code # "ERROR",
             UNCHANGED <<sniffed, capMain, seen, capVerdict>>, CapSent' = CapSent,
             capVerdict = "none", Flowing' => Flowing, CapBase' = CapBase + 1,
             Flowing' /\ pcap' # 0 => pcap' = Len(seen) + 1 /\ pcap' <= CapSent
      PROVE  CapFlow'
  <2>1. ASSUME NEW k \in 1..Len(toShark')
        PROVE  /\ toShark'[k].code = "STDOUT" => toShark'[k].data \in 1..CapSent
               /\ toShark'[k].code = "ERROR" => capMain \in {"wait", "returned"}
    <3>1. k + 1 \in 1..Len(toShark) /\ toShark'[k] = toShark[k + 1]
      <4>1. /\ Len(toShark) \in Nat \ {0} /\ Len(toShark') = Len(toShark) - 1
            /\ \A i \in 1..Len(toShark') : toShark'[i] = toShark[i + 1]
        BY <1>0, <1>4, TailFacts
      <4> QED  BY <4>1
    <3> QED  BY <1>00, <3>1
  <2>2. ASSUME Flowing'  PROVE Follows(toShark', CapBase', CapSent, sniffed)
    <3>1. Follows(toShark, CapBase, CapSent, sniffed)
      BY <1>00, <1>4, <2>2
    <3>2. Follows(Tail(toShark), CapBase + 1, CapSent, sniffed)
      BY <1>0, <1>4, <3>1, FollowsPop
    <3> QED  BY <1>4, <3>2
  <2>3. Flowing' => Follows(toShark, CapBase, CapSent, sniffed)'
    <3>1. Flowing' => Follows(toShark', CapBase', CapSent', sniffed')
      BY <1>4, <2>2
    <3> QED  BY <3>1 DEF Follows
  <2>4. C!CaptureWhole'
    BY <1>4 DEF C!CaptureWhole
  <2> QED  BY <1>4, <2>1, <2>3, <2>4 DEF CapFlow
<1>5. CASE UNCHANGED captureState
  <2>1. ~C!SendPacket
    BY <1>5 DEF captureState, C!SendPacket, CapStages
  <2> QED  BY <1>0, <1>02, <1>1, <1>5, <2>1 DEF captureState
<1>6. CASE C!CapLookup
  <2>1. /\ capMain = "begin" /\ toShark = <<>> /\ capOut = "off" /\ sniffed = 0
        /\ capRecv \in {"first", "ended"} /\ packet = 0
        /\ UNCHANGED <<sniffed, C!capCon, packet>>
    BY <1>6 DEF C!CapLookup, CapStages, C!capDump
  <2>2. CapSent' = CapSent /\ CapSent = 0
    <3>1. ~C!SendPacket
      BY <2>1 DEF C!SendPacket, CapStages
    <3> QED  BY <1>0, <1>02, <2>1, <3>1
  <2>3. CASE capLink = "gone"
    <3>1. toShark' = toShark /\ capRecv = "ended"
      BY <1>6, <2>1, <2>3, CapMessageType DEF C!CapLookup, C!Sent, CapStages
    <3>2. ~Flowing'
      BY <2>1, <3>1 DEF Flowing, C!capCon
    <3>3. C!CaptureWhole'
      BY <1>00, <2>1 DEF C!CaptureWhole, C!capCon
    <3> QED
      BY <1>00, <2>1, <3>1, <3>2, <3>3, EmptySeq DEF CapFlow, C!capCon
  <2>4. CASE capLink # "gone"
    <3>1. \/ /\ toShark' = Append(toShark, [code |-> "OK"]) /\ capMain' = "start"
             /\ capOut' = "read"
          \/ /\ toShark' = Append(toShark, [code |-> "ERROR"]) /\ capMain' = "returned"
             /\ capOut' = "off"
      BY <1>6, <2>1, <2>4 DEF C!CapLookup, C!Sent
    <3>2. /\ Len(toShark') = 1
          /\ capMain' = "start" => toShark'[1].code = "OK"
          /\ capMain' = "returned" => toShark'[1].code = "ERROR"
      <4>1. \A m \in C!CapMessage : /\ Len(Append(toShark, m)) = 1
                                    /\ Append(toShark, m)[1] = m
        BY <2>1, AppendProperties, EmptySeq
      <4> QED  BY <3>1, <4>1, CapMessageType, ZenonT(40)
    <3>3. \A k \in 1..Len(toShark') :
             /\ toShark'[k].code = "STDOUT" => toShark'[k].data \in 1..CapSent'
             /\ toShark'[k].code = "ERROR" => capMain' \in {"wait", "returned"}
      BY <3>1, <3>2
    <3>4. Flowing' => Follows(toShark, CapBase, CapSent, sniffed)'
      <4>1. ASSUME Flowing'  PROVE toShark'[1].code = "OK" /\ CapBase' = -1
        <5>1. capMain' = "start" /\ capRecv = "first"
          BY <2>1, <3>1, <4>1 DEF Flowing, C!capCon
        <5>2. seen = <<>> /\ pcap = 0
          BY <5>1 DEF CapStages
        <5> QED  BY <2>1, <3>2, <5>1, <5>2, EmptySeq DEF CapBase, C!capCon
      <4> QED  BY <2>1, <2>2, <3>2, <4>1 DEF Follows
    <3>5. pcap' = 0 \/ ~Flowing'
      BY <2>1 DEF CapStages, C!capCon, Flowing
    <3>6. C!CaptureWhole' /\ capVerdict' \notin {"eof", "error"}
      BY <1>00, <2>1 DEF C!CaptureWhole, C!capCon
    <3> QED  BY <3>3, <3>4, <3>5, <3>6 DEF CapFlow
  <2> QED  BY <2>3, <2>4
<1>7. CASE C!StartTcpdump \/ C!CapReturn \/ C!ReadPacket \/ C!CopyPackets \/ C!Sniff
           \/ C!TcpdumpExits \/ C!QuitShark \/ (C!EndCapture /\ capMain = "done")
  <2>1. UNCHANGED toShark /\ ~C!SendPacket
    BY <1>7
    DEF C!StartTcpdump, C!CapReturn, C!ReadPacket, C!CopyPackets, C!Sniff,
        C!TcpdumpExits, C!QuitShark, C!EndCapture, C!SendPacket, C!capSrv, C!capCon,
        C!capDump, CapStages
  <2>2. /\ UNCHANGED <<seen, pcap, capRecv, capVerdict, sharkCopy>>
        /\ shark' \in {shark, "exited"}
        /\ capMain \in {"wait", "returned"} =>
              sniffed' = sniffed /\ capMain' \in {"wait", "returned"}
        /\ capOut = "off" => capOut' = "off"
    BY <1>7
    DEF C!StartTcpdump, C!CapReturn, C!ReadPacket, C!CopyPackets, C!Sniff,
        C!TcpdumpExits, C!QuitShark, C!EndCapture, C!capSrv, C!capCon,
        C!capDump, CapStages
  <2> QED  BY <1>0, <1>02, <1>1, <2>1, <2>2
<1>8. CASE C!EndCapture /\ capMain = "failed"
  <2> DEFINE m == [code |-> "ERROR"]
  <2>1. m \in C!CapMessage /\ m.code = "ERROR"
    BY CapMessageType
  <2>2. /\ C!Sent(m) /\ capMain' = "wait"
        /\ UNCHANGED <<capOut, packet, C!capDump, C!capCon>>
    BY <1>8 DEF C!EndCapture
  <2> HIDE DEF m
  <2>3. CapSent' = CapSent
    <3>1. ~C!SendPacket
      BY <2>2 DEF C!SendPacket, CapStages
    <3> QED  BY <1>0, <1>02, <3>1
  <2>4. CASE capLink = "gone"
    <3>1. toShark' = toShark
      BY <2>2, <2>4 DEF C!Sent
    <3> QED  BY <1>1, <1>8, <2>2, <2>3, <3>1 DEF C!capCon, C!capDump
  <2>5. CASE capLink # "gone"
    <3>1. toShark' = Append(toShark, m)
      BY <2>2, <2>5 DEF C!Sent
    <3>2. CapSent + 1 >= sniffed
      <4>1. capBuf = <<>> /\ capConn = <<>>
        BY <1>8 DEF CapStages
      <4>2. CapBehind = 0
        BY <4>1, EmptySeq DEF CapBehind
      <4> QED  BY <1>0, <4>2, CapLengths DEF CapSent
    <3> QED
      BY <1>0, <1>3, <1>8, <2>1, <2>2, <2>3, <3>1, <3>2 DEF C!capDump
  <2> QED  BY <2>4, <2>5
<1>9. CASE C!SendPacket
  <2> DEFINE m == [code |-> "STDOUT", data |-> packet]
  <2>1. m \in C!CapMessage /\ m.code = "STDOUT" /\ m.data = packet
    BY CapMessageType, CapLengths
  <2>2. /\ C!Sent(m) /\ packet = CapSent + 1 /\ capOut # "off"
        /\ UNCHANGED <<capMain, C!capDump, C!capCon>>
    BY <1>9 DEF C!SendPacket, CapStages, CapPipe
  <2> HIDE DEF m
  <2>3. CapSent' = CapSent + 1 /\ CapSent + 1 \in Int
    BY <1>0, <1>02, <1>9
  <2>4. CASE capLink = "gone"
    <3>1. toShark' = toShark /\ capRecv = "ended"
      BY <2>2, <2>4 DEF C!Sent, CapStages
    <3>2. ~Flowing'
      BY <2>2, <3>1 DEF Flowing, C!capCon
    <3>3. \A k \in 1..Len(toShark) :
             toShark[k].code = "STDOUT" => toShark[k].data \in 1..(CapSent + 1)
      BY <1>0, <1>00
    <3>4. C!CaptureWhole'
      BY <1>00, <2>2 DEF C!CaptureWhole, C!capCon, C!capDump
    <3> QED
      BY <1>00, <2>2, <2>3, <3>1, <3>2, <3>3, <3>4 DEF CapFlow, C!capCon
  <2>5. CASE capLink # "gone"
    <3>1. toShark' = Append(toShark, m)
      BY <2>2, <2>5 DEF C!Sent
    <3> QED  BY <1>3, <2>1, <2>2, <2>3, <3>1 DEF C!capDump
  <2> QED  BY <2>4, <2>5
<1>10. CASE C!QuitPrompt
  <2>1. /\ capRecv' = "ended" /\ UNCHANGED <<sniffed, seen, capMain, toShark, shark>>
        /\ capVerdict' \in {capVerdict, "quit"} /\ sharkCopy' # "copy"
    BY <1>10 DEF C!QuitPrompt, C!capSrv, C!capDump
  <2>2. ~C!SendPacket
    BY <1>10 DEF C!QuitPrompt, C!SendPacket, C!capSrv, CapStages
  <2>3. C!CaptureWhole'
    BY <1>00, <2>1 DEF C!CaptureWhole
  <2> QED  BY <1>0, <1>00, <1>02, <1>2, <2>1, <2>2, <2>3
<1>11. ASSUME toShark # <<>>
       PROVE  /\ 1 \in 1..Len(toShark) /\ Head(toShark) = toShark[1]
  BY <1>0, <1>11, TailFacts
<1>12. CASE C!RecvFirst
  <2>1. /\ capRecv = "first" /\ toShark # <<>> /\ toShark' = Tail(toShark)
        /\ UNCHANGED <<C!capSrv, C!capDump, capLink, pcap, seen>>
    BY <1>12 DEF C!RecvFirst
  <2>2. CapSent' = CapSent
    <3>1. ~C!SendPacket
      BY <2>1 DEF C!SendPacket, C!capSrv, CapStages
    <3> QED  BY <1>0, <1>02, <3>1
  <2>3. CASE capRecv' = "ended"
    <3>1. capVerdict' \in {"noshark", "refused"}
      BY <1>12, <2>3 DEF C!RecvFirst
    <3>2. C!CaptureWhole'
      BY <3>1 DEF C!CaptureWhole
    <3> QED  BY <1>2, <2>1, <2>2, <2>3, <3>1, <3>2 DEF C!capSrv, C!capDump
  <2>4. CASE capRecv' # "ended"
    <3>1. toShark[1].code = "OK" /\ capRecv' = "recv" /\ UNCHANGED capVerdict
      BY <1>11, <1>12, <2>1, <2>4 DEF C!RecvFirst
    <3>2. pcap = 0 /\ capVerdict = "none" /\ capOut # "off"
      BY <2>1, <3>1 DEF CapStages
    <3>3. Flowing /\ CapBase' = CapBase + 1
      BY <1>0, <2>1, <3>1, <3>2 DEF Flowing, CapBase
    <3> QED  BY <1>4, <2>1, <2>2, <3>1, <3>2, <3>3 DEF C!capSrv, C!capDump
  <2> QED  BY <2>3, <2>4
<1>13. CASE C!RecvPacket
  <2>1. /\ capRecv = "recv" /\ pcap = 0 /\ capVerdict = "none" /\ capLink = "open"
        /\ capOut # "off" /\ sharkCopy # "off"
        /\ UNCHANGED <<C!capSrv, C!capDump, sharkCopy, seen>>
    BY <1>13 DEF C!RecvPacket, CapStages
  <2>2. CapSent' = CapSent
    <3>1. ~C!SendPacket
      BY <2>1 DEF C!SendPacket, C!capSrv, CapStages
    <3> QED  BY <1>0, <1>02, <3>1
  <2>3. Flowing <=> sharkCopy = "copy"
    BY <2>1 DEF Flowing
  <2>4. CapBase = Len(seen)
    BY <1>0, <2>1 DEF CapBase
  <2>5. CASE toShark # <<>> /\ toShark[1].code = "STDOUT"
    <3>1. /\ toShark' = Tail(toShark) /\ capRecv' = "write" /\ pcap' = toShark[1].data
          /\ UNCHANGED <<capVerdict, shark>>
      BY <1>11, <1>13, <2>5 DEF C!RecvPacket
    <3>2. toShark[1].data \in 1..CapSent
      BY <1>00, <1>11, <2>5
    <3>3. ASSUME Flowing  PROVE toShark[1].data = Len(seen) + 1
      <4>1. 1 \in 1..Len(toShark) /\ \A j \in 1..1 : toShark[j].code # "ERROR"
        BY <1>11, <2>5
      <4>2. Follows(toShark, CapBase, CapSent, sniffed)
        BY <1>00, <3>3
      <4> QED  BY <2>4, <2>5, <4>1, <4>2 DEF Follows
    <3>4. CapBase' = CapBase + 1 /\ (Flowing' => Flowing)
      BY <1>0, <2>1, <2>4, <3>1, <3>2 DEF CapBase, Flowing
    <3> QED
      BY <1>0, <1>4, <2>1, <2>2, <2>5, <3>1, <3>2, <3>3, <3>4 DEF C!capSrv, C!capDump
  <2>6. CASE toShark # <<>> /\ toShark[1].code = "ERROR"
    <3>1. /\ toShark' = Tail(toShark) /\ capRecv' = "ended" /\ capVerdict' = "error"
          /\ shark' = "exited"
      BY <1>11, <1>13, <2>6 DEF C!RecvPacket
    <3>2. sharkCopy = "copy" => Len(seen) + 1 >= sniffed
      <4>1. Flowing => Follows(toShark, CapBase, CapSent, sniffed)
        BY <1>00
      <4> QED  BY <1>11, <2>3, <2>4, <2>6, <4>1 DEF Follows
    <3>3. C!CaptureWhole'
      BY <2>1, <3>1, <3>2 DEF C!CaptureWhole, C!capDump
    <3>4. capMain \in {"wait", "returned"}
      BY <1>00, <1>11, <2>6
    <3> QED  BY <1>2, <2>1, <2>2, <2>6, <3>1, <3>3, <3>4 DEF C!capSrv, C!capDump
  <2>7. CASE toShark = <<>>
    <3>1. /\ toShark' = toShark /\ capRecv' = "ended" /\ capVerdict' = "eof"
          /\ capMain = "returned" /\ UNCHANGED shark
      BY <1>13, <2>7 DEF C!RecvPacket
    <3>2. capOut = "ended" /\ capBuf = <<>> /\ capConn = <<>> /\ packet = 0
      BY <2>1, <3>1 DEF CapStages
    <3>3. CapSent = sniffed
      BY <1>0, <3>2, EmptySeq DEF CapSent, CapBehind, CapHeld
    <3>4. shark = "running" => sharkCopy = "copy"
      BY <2>1 DEF CapStages, C!TypeOK
    <3>5. Flowing => Len(seen) = sniffed
      <4>1. Flowing => Follows(toShark, CapBase, CapSent, sniffed)
        BY <1>00
      <4>2. Len(toShark) = 0
        BY <2>7, EmptySeq
      <4> QED  BY <1>0, <2>4, <3>3, <4>1, <4>2 DEF Follows
    <3>6. C!CaptureWhole'
      BY <2>1, <2>3, <3>1, <3>4, <3>5 DEF C!CaptureWhole, C!capDump
    <3> QED  BY <1>2, <2>1, <2>2, <3>1, <3>6 DEF C!capSrv, C!capDump
  <2> QED  BY <1>11, <1>13, <2>5, <2>6, <2>7 DEF C!RecvPacket
<1>14. CASE C!FeedShark
  <2>1. /\ capRecv = "write" /\ pcap # 0 /\ capVerdict = "none" /\ sharkCopy = "copy"
        /\ capRecv' = "recv" /\ pcap' = 0
        /\ UNCHANGED <<C!capSrv, C!capDump, capVerdict, shark, toShark>>
    BY <1>14 DEF C!FeedShark, CapStages
  <2>2. CapSent' = CapSent
    <3>1. ~C!SendPacket
      BY <2>1 DEF C!SendPacket, C!capSrv, CapStages
    <3> QED  BY <1>0, <1>02, <3>1
  <2>3. Flowing' => Flowing /\ CapBase' = CapBase
    <3>1. CASE shark = "running"
      <4>1. seen' = Append(seen, pcap)
        BY <1>14, <3>1 DEF C!FeedShark
      <4>2. Len(seen') = Len(seen) + 1
        <5>1. seen \in Seq(Nat) /\ pcap \in Nat
          BY <1>0, CapLengths, SeqMonotonic
        <5> QED  BY <4>1, <5>1, AppendProperties
      <4> QED  BY <1>0, <2>1, <4>2 DEF Flowing, CapBase, C!capSrv
    <3>2. CASE shark # "running"
      BY <1>14, <2>1, <3>2 DEF C!FeedShark, Flowing
    <3> QED  BY <3>1, <3>2
  <2>4. Flowing' => Follows(toShark, CapBase, CapSent, sniffed)'
    <3>1. Flowing' => Follows(toShark', CapBase', CapSent', sniffed')
      BY <1>00, <2>1, <2>2, <2>3 DEF C!capDump
    <3> QED  BY <3>1 DEF Follows
  <2>5. C!CaptureWhole'
    BY <2>1 DEF C!CaptureWhole
  <2> QED
    BY <1>00, <2>1, <2>2, <2>4, <2>5 DEF CapFlow, C!capSrv
<1> QED
  BY <1>0, <1>5, <1>6, <1>7, <1>8, <1>9, <1>10, <1>12, <1>13, <1>14
  DEF C!Next, C!CapProgress, C!EndCapture

\* The invariant holds at first.
LEMMA CaptureInit ==
  ASSUME C!Init  PROVE CaptureInv
<1>1. Len(toShark) = 0 /\ Len(capBuf) = 0 /\ Len(capConn) = 0 /\ Len(seen) = 0
  BY EmptySeq DEF C!Init
<1>2. C!TypeOK
  BY StreamsAssumption DEF C!Init, C!TypeOK
<1>3. CapStages
  BY DEF C!Init, CapStages
<1>4. CapSent = 0
  <2>1. CapBehind = 0
    BY <1>1 DEF CapBehind
  <2>2. CapHeld = 0 /\ sniffed = 0
    BY DEF C!Init, CapHeld
  <2> QED  BY <2>1, <2>2 DEF CapSent
<1>5. CapPipe
  BY <1>1, <1>4 DEF C!Init, CapPipe
<1>6. CapFlow
  BY <1>1 DEF C!Init, CapFlow, Flowing, C!CaptureWhole
<1> QED  BY <1>2, <1>3, <1>5, <1>6 DEF CaptureInv

\* Every step keeps it.
LEMMA CaptureStep ==
  ASSUME CaptureInv, [C!Next]_captureState  PROVE CaptureInv'
BY CapTypeStep, CapStagesStep, CapPipeStep, CapFlowStep DEF CaptureInv

\* Each step of a capture is a step of the stream of its packets, or nothing.
LEMMA PacketsRefine ==
  ASSUME CaptureInv, [C!Next]_captureState
  PROVE  [C!Packets!Next]_(C!Packets!vars)
<1> USE DEF CaptureInv
<1>1. CASE UNCHANGED <<sniffed, seen, shark = "exited">>
  BY <1>1 DEF C!Packets!vars
<1>2. CASE C!Sniff
  BY <1>2 DEF C!Sniff, C!Packets!Next, C!Packets!Write, C!capCon
<1>3. CASE C!FeedShark
  <2>1. /\ UNCHANGED <<sniffed, shark>> /\ capRecv = "write" /\ sharkCopy = "copy"
        /\ seen' = seen \/ (seen' = Append(seen, pcap) /\ shark = "running")
    BY <1>3 DEF C!FeedShark, C!capDump
  <2>2. CASE seen' = seen
    BY <1>1, <2>1, <2>2
  <2>3. CASE seen' = Append(seen, pcap) /\ shark = "running"
    <3>1. Flowing /\ pcap # 0
      BY <2>1 DEF Flowing, CapStages
    <3>2. pcap = Len(seen) + 1 /\ pcap <= CapSent
      BY <3>1 DEF CapFlow
    <3>3. Len(seen) < sniffed
      BY <3>2, CapLengths DEF CapSent
    <3> QED  BY <2>1, <2>3, <3>2, <3>3 DEF C!Packets!Next, C!Packets!Deliver
  <2> QED  BY <2>1, <2>2, <2>3
<1>4. CASE C!RecvPacket \/ C!QuitShark
  <2>1. UNCHANGED <<sniffed, seen>> /\ shark' \in {shark, "exited"}
    BY <1>4 DEF C!RecvPacket, C!QuitShark, C!capSrv, C!capDump
  <2>2. CASE shark' = "exited" /\ shark # "exited"
    BY <2>1, <2>2 DEF C!Packets!Next, C!Packets!Stop
  <2>3. CASE shark' = shark \/ shark = "exited"
    BY <1>1, <2>1, <2>3
  <2> QED  BY <2>1, <2>2, <2>3
<1>5. CASE C!RecvFirst
  BY <1>1, <1>5 DEF C!RecvFirst, CapStages, C!capSrv, C!capDump
<1>6. CASE \/ C!CapLookup \/ C!StartTcpdump \/ C!EndCapture \/ C!CapReturn
           \/ C!ReadPacket \/ C!SendPacket \/ C!CopyPackets \/ C!TcpdumpExits
           \/ C!QuitPrompt \/ UNCHANGED captureState
  BY <1>1, <1>6
  DEF C!CapLookup, C!StartTcpdump, C!EndCapture, C!CapReturn, C!ReadPacket,
      C!SendPacket, C!CopyPackets, C!TcpdumpExits, C!QuitPrompt, C!capSrv, C!capDump,
      C!capCon, captureState
<1> QED
  BY <1>2, <1>3, <1>4, <1>5, <1>6 DEF C!Next, C!CapProgress

\* What the invariant says of the end of a capture.
LEMMA CaptureEnds ==
  ASSUME CaptureInv  PROVE C!CaptureWhole /\ C!CaptureHangsExplained
<1>1. C!CaptureWhole
  BY DEF CaptureInv, CapFlow
<1>2. C!WaitStuck => capLink = "gone"
  BY DEF C!WaitStuck, CaptureInv, CapStages
<1>3. C!WindowStuck => capVerdict = "noshark" \/ shark = "exited"
  BY DEF C!WindowStuck, C!Room, CaptureInv, CapStages
<1> QED  BY <1>1, <1>2, <1>3 DEF C!CaptureHangsExplained

-----------------------------------------------------------------------------
(* The daemon and its streams.                                              *)

\* The inductive invariant: that of each stream, and why the daemon died.
SessionInv ==
    /\ streams \in Mixes /\ daemon \in {"serving", "stopping", "stopped"}
    /\ project \in {"open", "closed"} /\ container \in {"up", "down"}
    /\ ExecInv /\ CaptureInv /\ CopyInv /\ CrashExplained

\* A console that was lost in the middle of its copy is why the daemon dies,
\* and nothing happens afterwards.
LEMMA CrashStep ==
  ASSUME SessionInv, [Next]_vars  PROVE CrashExplained'
<1> USE DEF CrashExplained, F!CrashExplained
<1>1. CASE UNCHANGED copyState
  BY <1>1 DEF SessionInv, copyState
<1>2. CASE InCopies(F!Next)
  <2>1. ~panicked /\ F!Next
    BY <1>2 DEF InCopies
  <2>2. CASE UNCHANGED panicked
    BY <2>1, <2>2
  <2>3. CASE ~UNCHANGED panicked
    <3>1. \E c \in Copies : F!ToBroken(c)
      BY <2>1, <2>3
      DEF F!Next, F!CopyProgress, F!FromCreate, F!FromFetch, F!FromOpen, F!FromSend,
          F!ToInit, F!ToReceive, F!ToPut, F!ToTar, F!ConsoleDies, F!console, F!losses, F!files
    <3> QED  BY <3>1 DEF F!ToBroken, F!console, F!losses
  <2> QED  BY <2>2, <2>3
<1> QED
  BY <1>1, <1>2
  DEF Next, vars, InExec, InCapture, StopNode, Interrupt, GracefulStop, copyState

\* The invariant holds at first, and every step keeps it.
LEMMA SessionInit ==
  ASSUME Init  PROVE SessionInv
BY ExecInit, CaptureInit, CopyInit
DEF Init, SessionInv, CrashExplained, F!CrashExplained, F!Init

\* No step of the daemon or of a stream breaks the invariant.
LEMMA SessionStep ==
  ASSUME SessionInv, [Next]_vars  PROVE SessionInv'
<1>1. ExecInv' /\ CaptureInv' /\ CopyInv'
  BY Parts, ExecStep, CaptureStep, CopyStep DEF SessionInv
<1>2. CrashExplained'
  BY CrashStep
<1>3. ASSUME E!Next \/ C!Next \/ F!Next
      PROVE  UNCHANGED nodeState
  BY <1>3
  DEF nodeState, E!Next, E!Progress, E!PollInput, E!SendInput, E!SendResize, E!Hangup,
      E!RecvOutput, E!WaitInput, E!Kill, E!Lookup, E!StartCommand, E!Reply, E!Return,
      E!RecvMessage, E!RecvEnd, E!ReadPiece, E!SendPiece, E!CopyOutput, E!CopyInput,
      E!ResizeTty, E!Produce, E!CommandExits, E!nodeVars,
      C!Next, C!CapProgress, C!CapLookup, C!StartTcpdump, C!EndCapture, C!CapReturn,
      C!ReadPacket, C!SendPacket, C!CopyPackets, C!Sniff, C!TcpdumpExits, C!RecvFirst,
      C!RecvPacket, C!FeedShark, C!QuitShark, C!QuitPrompt,
      F!Next, F!CopyProgress, F!FromCreate, F!FromFetch, F!FromOpen, F!FromSend,
      F!ToInit, F!ToReceive, F!ToBroken, F!ToPut, F!ToTar, F!ConsoleDies
<1>4. /\ streams' \in Mixes /\ daemon' \in {"serving", "stopping", "stopped"}
      /\ project' \in {"open", "closed"} /\ container' \in {"up", "down"}
  BY <1>3
  DEF SessionInv, Next, vars, InExec, InCapture, InCopies, StopNode, Interrupt,
      GracefulStop, nodeState
<1> QED  BY <1>1, <1>2, <1>4 DEF SessionInv

\* Every state of a daemon and of its streams has the invariant.
THEOREM Invariant == Spec => []SessionInv
<1>1. Init => SessionInv
  BY SessionInit
<1>2. SessionInv /\ [Next]_vars => SessionInv'
  BY SessionStep
<1> QED  BY <1>1, <1>2, PTL DEF Spec

\* Every variable keeps its type (TypeOK).
THEOREM TypeCorrect == Spec => []TypeOK
<1>1. SessionInv => TypeOK
  BY DEF SessionInv, TypeOK, ExecInv, CaptureInv, CopyInv
<1> QED  BY <1>1, Invariant, PTL

\* The streams of a session are ordered streams: the output and the input of a
\* command and the packets of a capture arrive once each and in order.  Every
\* step of the system is a step of OrderedStream or leaves the stream alone.
THEOREM StreamsAreOrdered == Spec => StreamsInOrder
<1>1. Init => E!Output!Init /\ E!Input!Init /\ C!Packets!Init
  BY DEF Init, E!Init, C!Init, E!Output!Init, E!Input!Init, C!Packets!Init
<1>2. SessionInv /\ [Next]_vars => [E!Output!Next]_(E!Output!vars)
  BY Parts, OutputRefines DEF SessionInv
<1>3. SessionInv /\ [Next]_vars => [E!Input!Next]_(E!Input!vars)
  BY Parts, InputRefines DEF SessionInv
<1>4. SessionInv /\ [Next]_vars => [C!Packets!Next]_(C!Packets!vars)
  BY Parts, PacketsRefine DEF SessionInv
<1>5. Spec => E!Output!Spec
  BY <1>1, <1>2, Invariant, PTL DEF Spec, E!Output!Spec
<1>6. Spec => E!Input!Spec
  BY <1>1, <1>3, Invariant, PTL DEF Spec, E!Input!Spec
<1>7. Spec => C!Packets!Spec
  BY <1>1, <1>4, Invariant, PTL DEF Spec, C!Packets!Spec
<1> QED  BY <1>5, <1>6, <1>7 DEF StreamsInOrder

\* A session that ended without anybody leaving lost at most the last piece of
\* output, a capture at most the last packet, and only when it ended with an error.
THEOREM LittleLost == Spec => []LittleIsLost
<1>1. SessionInv => LittleIsLost
  BY ExecEnds, CaptureEnds DEF SessionInv, LittleIsLost
<1> QED  BY <1>1, Invariant, PTL

\* A handler only hangs for a reason that HangsExplained gives.
THEOREM HangsHaveReasons == Spec => []HangsExplained
<1>1. SessionInv => HangsExplained
  BY ExecEnds, CaptureEnds DEF SessionInv, HangsExplained
<1> QED  BY <1>1, Invariant, PTL

\* A copy that was reported done is the source file in order, without the blocks
\* whose write failed and whole when none did, unless its temporary file was
\* shared or the console could not read its file.
THEOREM CopiesAreExact == Spec => []CopyIsExact
<1>1. SessionInv => CopyIsExact
  BY DEF SessionInv, CopyInv, CopyIsExact
<1> QED  BY <1>1, Invariant, PTL

\* Once the copies are over no temporary file is left, unless a copy out of a
\* node failed.
THEOREM NoTempStays == Spec => []NoTempLeft
<1>1. SessionInv => NoTempLeft
  BY DEF SessionInv, CopyInv, TempKept, NoTempLeft, F!NoTempLeft, F!Using
<1> QED  BY <1>1, Invariant, PTL

\* The daemon only dies of a console lost in the middle of a copy to a node.
THEOREM CrashesHaveReasons == Spec => []CrashExplained
<1>1. SessionInv => CrashExplained
  BY DEF SessionInv
<1> QED  BY <1>1, Invariant, PTL

=============================================================================
