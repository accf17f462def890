------------------------- MODULE PieceStoreProofs -------------------------
(* PieceStore for any number of pieces, any sizes, any published file and  *)
(* any answers of the peers.                                               *)
EXTENDS PieceStore, DataLemmas, TLAPS

\* The download loop has seen to every subpiece before its position; that is
\* what makes the state it sets at its end true, however it was resumed.
Loop == Running => \A i \in Subpieces : i < job.next => Present(job.piece, i)

\* Every subpiece of a piece that was never lied to is what was published.
HonestSlots ==
    \A p \in Pieces, i \in Subpieces :
        p \notin forged /\ Present(p, i) => subs[p][i] = Answer(p, i)

\* Slots are filled from the first on, however often a download is aborted.
InOrder ==
    \A p \in Pieces, i, j \in Subpieces : i < j /\ Present(p, j) => Present(p, i)

\* No slot holds more than was asked for.
ShortSlots ==
    \A p \in Pieces, i \in Subpieces : Present(p, i) => Len(subs[p][i]) <= SubpieceSize

IInv ==
    /\ MemoryOK /\ Loop /\ UnverifiedIsComplete /\ HonestSlots
    /\ InOrder /\ ShortSlots

\* The number of subpieces is a natural number, pieces are counted from 0.
LEMMA Sizes ==
    /\ NumSubpieces \in Nat /\ Size \in Nat
    /\ 0 \in Pieces /\ Pieces \subseteq Nat
    /\ Subpieces \subseteq Nat \ {0}
<1>1. Size \in Nat
  BY PieceAssumption DEF Size
<1>2. Size \div SubpieceSize \in Nat
  BY <1>1, PieceAssumption
<1> QED
  BY <1>1, <1>2, PieceAssumption DEF NumSubpieces, Pieces, Subpieces

\* A truthful answer has at most the bytes that were asked for.
LEMMA AnswerType ==
    ASSUME MemoryOK, NEW p \in Pieces, NEW i \in Subpieces
    PROVE  Answer(p, i) \in Seq(Units) /\ Len(Answer(p, i)) <= SubpieceSize
<1> DEFINE s == content[p]
           a == BeginOf(i) + 1
           b == IF BeginOf(i) + SubpieceSize < Len(s)
                THEN BeginOf(i) + SubpieceSize ELSE Len(s)
<1>1. s \in Seq(Units)
  BY PieceAssumption DEF MemoryOK
<1>2. i \in Nat /\ i >= 1
  BY Sizes
<1>3. (i - 1) * SubpieceSize \in Nat
  BY <1>2, PieceAssumption
<1>4. a \in Nat /\ a >= 1
  BY <1>3 DEF BeginOf
<1>5. b \in Nat /\ b <= Len(s)
  BY <1>1, <1>3, PieceAssumption DEF BeginOf
<1>6. SubSeq(s, a, b) \in Seq(Units) /\ Len(SubSeq(s, a, b)) = IF a <= b THEN b - a + 1 ELSE 0
  <2> HIDE DEF s, a, b
  <2> QED
    BY <1>1, <1>4, <1>5
<1>7. b - a + 1 <= SubpieceSize /\ 0 <= SubpieceSize
  BY <1>1, <1>3, PieceAssumption DEF BeginOf
<1> QED
  BY <1>6, <1>7 DEF Answer

\* The pieces as Torrent's constructor leaves them.
LEMMA ConstructedOK ==
    ASSUME content' \in Contents, up' \in BOOLEAN, path' \in {"absent", "file", "other"},
           forged' \subseteq Pieces, Constructed
    PROVE  IInv'
<1>1. MemoryOK'
  <2>1. job' \in [piece : Pieces, next : 0..(NumSubpieces + 1)]
    BY Sizes DEF Constructed, Idle
  <2>2. subs' \in [Pieces -> [Subpieces -> Seq(Units) \cup {Missing}]]
    BY DEF Constructed
  <2>3. state' \in [Pieces -> States]
    BY DEF Constructed, States
  <2> QED
    BY <2>1, <2>2, <2>3 DEF Constructed, MemoryOK
<1>2. Loop'
  BY DEF Constructed, Loop, Running
<1>3. UnverifiedIsComplete' /\ HonestSlots' /\ InOrder' /\ ShortSlots'
  BY DEF Constructed, UnverifiedIsComplete, HonestSlots, InOrder, ShortSlots, Present
<1> QED
  BY <1>1, <1>2, <1>3 DEF IInv

\* Before the first run.
LEMMA InitOK == Init => IInv
<1> SUFFICES ASSUME Init PROVE IInv
  OBVIOUS
<1>1. subs \in [Pieces -> [Subpieces -> Seq(Units) \cup {Missing}]]
  BY DEF Init
<1>2. state \in [Pieces -> States] /\ forged \subseteq Pieces
  BY DEF Init, States
<1>3. job \in [piece : Pieces, next : 0..(NumSubpieces + 1)]
  BY Sizes DEF Init, Idle
<1>4. MemoryOK
  BY <1>1, <1>2, <1>3 DEF Init, MemoryOK
<1>5. Loop
  BY DEF Init, Loop, Running
<1>6. UnverifiedIsComplete /\ HonestSlots /\ InOrder /\ ShortSlots
  BY DEF Init, UnverifiedIsComplete, HonestSlots, InOrder, ShortSlots, Present
<1> QED
  BY <1>4, <1>5, <1>6 DEF IInv

\* Every step of every job keeps the invariant.
LEMMA StepOK == IInv /\ [Next]_vars => IInv'
<1> SUFFICES ASSUME IInv, [Next]_vars PROVE IInv'
  OBVIOUS
<1> USE Sizes, PieceAssumption
<1> USE DEF IInv, MemoryOK, Loop, UnverifiedIsComplete, Complete, HonestSlots,
            InOrder, ShortSlots, Running, Present, Idle, Subpieces, Ready, pieces, disk
<1>1. ASSUME NEW p \in Pieces, BeginDownload(p) PROVE IInv'
  <2>1. job' = [piece |-> p, next |-> 1] /\ UNCHANGED <<content, state, subs, disk, forged>>
    BY <1>1 DEF BeginDownload
  <2>2. job' \in [piece : Pieces, next : 0..(NumSubpieces + 1)] /\ Loop'
    BY <2>1
  <2> QED
    BY <2>1, <2>2 DEF Answer
<1>2. ASSUME NEW p \in Pieces, Verify(p) PROVE IInv'
  <2>1. state' \in [Pieces -> States]
    BY <1>2 DEF Verify, States
  <2>2. \A q \in Pieces : state'[q] = "HaveUnverified" => state[q] = "HaveUnverified"
    BY <1>2 DEF Verify
  <2>3. UNCHANGED <<content, subs, job, up, path, fileBad, forged>>
    BY <1>2 DEF Verify
  <2> QED
    BY <2>1, <2>2, <2>3 DEF Answer
<1>3. ASSUME NEW p \in Pieces, Flush(p) PROVE IInv'
  BY <1>3 DEF Flush, Answer
<1>4. ASSUME NEW p \in Pieces, FlushFails(p) PROVE IInv'
  BY <1>4 DEF FlushFails, Answer
<1>5. ASSUME SkipPresent PROVE IInv'
  BY <1>5 DEF SkipPresent, Answer
<1>6. ASSUME StoreAnswer PROVE IInv'
  <2>1. job.piece \in Pieces /\ job.next \in Subpieces
    BY <1>6 DEF StoreAnswer, Awaiting
  <2>2. PICK data \in Replies(job.piece, job.next) :
          /\ subs' = [subs EXCEPT ![job.piece][job.next] = data]
          /\ forged' = IF CanAnswer /\ data = Answer(job.piece, job.next)
                       THEN forged ELSE forged \cup {job.piece}
    BY <1>6 DEF StoreAnswer
  <2>3. data \in Seq(Units) /\ Len(data) <= SubpieceSize
    BY <2>1, <2>2, AnswerType DEF Replies
  <2>4. data # Missing
    BY <2>3
  <2>5. job' = [piece |-> job.piece, next |-> job.next + 1] /\ UNCHANGED <<content, state, up, path, file, fileBad>>
    BY <1>6 DEF StoreAnswer
  <2>6. MemoryOK'
    <3>1. subs' \in [Pieces -> [Subpieces -> Seq(Units) \cup {Missing}]]
      <4> HIDE DEF Subpieces
      <4> QED
        BY <2>1, <2>2, <2>3
    <3>2. forged' \subseteq Pieces
      BY <2>1, <2>2
    <3>3. job' \in [piece : Pieces, next : 0..(NumSubpieces + 1)]
      BY <2>1, <2>5
    <3> QED
      BY <2>5, <3>1, <3>2, <3>3
  <2>7. Loop'
    <3> SUFFICES ASSUME NEW i \in Subpieces, i < job.next + 1
                 PROVE subs'[job.piece][i] # Missing
      BY <2>1, <2>5
    <3>1. Running
      BY <1>6 DEF StoreAnswer, Awaiting
    <3>2. i < job.next \/ i = job.next
      BY <2>1
    <3>3. CASE i = job.next
      BY <2>1, <2>2, <2>4, <3>3
    <3>4. CASE i < job.next
      BY <2>1, <2>2, <2>4, <3>1, <3>4
    <3> QED
      BY <3>2, <3>3, <3>4
  <2>8. UnverifiedIsComplete'
    BY <2>1, <2>2, <2>4, <2>5
  <2>9. HonestSlots'
    BY <2>1, <2>2, <2>5 DEF Answer
  <2>10. InOrder'
    <3> SUFFICES ASSUME NEW q \in Pieces, NEW i \in Subpieces, NEW j \in Subpieces,
                        i < j, subs'[q][j] # Missing
                 PROVE  subs'[q][i] # Missing
      OBVIOUS
    <3>1. CASE q = job.piece /\ i < job.next
      BY <2>1, <2>5, <2>7, <3>1
    <3>2. CASE q = job.piece /\ i = job.next
      BY <2>1, <2>2, <2>4, <3>2
    <3>3. CASE q # job.piece \/ i > job.next
      BY <2>1, <2>2, <2>4, <3>3
    <3> QED
      BY <2>1, <3>1, <3>2, <3>3
  <2>11. ShortSlots'
    BY <2>1, <2>2, <2>3
  <2> QED
    BY <2>6, <2>7, <2>8, <2>9, <2>10, <2>11
<1>7. ASSUME DownloadThrows PROVE IInv'
  BY <1>7 DEF DownloadThrows, Answer
<1>8. ASSUME FinishDownload PROVE IInv'
  BY <1>8 DEF FinishDownload, Answer, States
<1>9. ASSUME UNCHANGED vars PROVE IInv'
  BY <1>9 DEF vars, Answer
<1>10. ASSUME Construct PROVE IInv'
  BY <1>10, ConstructedOK DEF Construct
<1>11. ASSUME Stop PROVE IInv'
  BY <1>11, ConstructedOK DEF Stop
<1>12. ASSUME PathChanges PROVE IInv'
  BY <1>12 DEF PathChanges, Answer
<1> QED
  BY <1>1, <1>2, <1>3, <1>4, <1>5, <1>6, <1>7, <1>8, <1>9, <1>10, <1>11, <1>12
     DEF Next, ConstructFails, DownloadWithoutPeer, FlushRefused

\* The inductive invariant holds in every behaviour.
LEMMA Inductive == Spec => []IInv
BY InitOK, StepOK, PTL DEF Spec

\* Type correctness of everything but the file's bytes.
THEOREM MemoryTypes == Spec => []MemoryOK
BY Inductive, PTL DEF IInv

\* A piece marked as had has all its subpieces, whatever the peers answered
\* and wherever downloads were aborted.
THEOREM HadIsComplete == Spec => []UnverifiedIsComplete
BY Inductive, PTL DEF IInv

\* A piece that was only answered truthfully holds published bytes in every
\* slot that is filled.
THEOREM HonestSlotsHold == Spec => []HonestSlots
BY Inductive, PTL DEF IInv

\* What was downloaded is never dropped or replaced in a run.
THEOREM DownloadedStays == Spec => SubpiecesSticky
<1>1. IInv /\ [Next]_vars
        => [up /\ up' => \A p \in Pieces, i \in Subpieces :
              Present(p, i) => subs'[p][i] = subs[p][i]]_vars
  <2> SUFFICES ASSUME IInv, Next, up, up', NEW p \in Pieces, NEW i \in Subpieces, Present(p, i)
               PROVE subs'[p][i] = subs[p][i]
    OBVIOUS
  <2>1. CASE StoreAnswer
    BY <2>1, Sizes DEF StoreAnswer, Awaiting, Present, IInv, MemoryOK
  <2>2. CASE UNCHANGED subs
    BY <2>2
  <2> QED
    BY <2>1, <2>2 DEF Next, Construct, ConstructFails, Stop, PathChanges, BeginDownload,
       DownloadWithoutPeer, Verify, FlushRefused, Flush, FlushFails, SkipPresent,
       DownloadThrows, FinishDownload, vars, pieces
<1> QED
  BY <1>1, Inductive, PTL DEF Spec, SubpiecesSticky

\* After one failed flush no byte of the file changes in that run.
THEOREM BrokenStreamIsFinal == Spec => BrokenStreamFreezesFile
<1>1. [Next]_vars => [up /\ up' /\ fileBad => fileBad' /\ file' = file]_vars
  BY DEF Next, Construct, ConstructFails, Stop, PathChanges, BeginDownload,
     DownloadWithoutPeer, Verify, FlushRefused, Flush, FlushFails, SkipPresent,
     StoreAnswer, DownloadThrows, FinishDownload, vars, disk
<1> QED
  BY <1>1, PTL DEF Spec, BrokenStreamFreezesFile

----------------------------------------------------------------------------
(* What a piece holds: its filled slots, one after another.                *)
Slots(s) == [i \in Subpieces |-> IF s[i] = Missing THEN <<>> ELSE s[i]]

LEMMA DumpedIsJoined == ASSUME NEW s PROVE Dumped(s) = Joined(Slots(s), NumSubpieces)
<1>1. Initial(Slots(s), NumSubpieces)
        = [i \in Subpieces |-> IF s[i] = Missing THEN <<>> ELSE s[i]]
  BY DEF Initial, Slots, Subpieces
<1> QED
  BY <1>1 DEF Dumped, Joined

LEMMA SlotTypes ==
    ASSUME IInv, NEW p \in Pieces, NEW i \in Subpieces
    PROVE  Slots(subs[p])[i] \in Seq(Units) /\ Len(Slots(subs[p])[i]) <= SubpieceSize
<1>1. CASE Present(p, i)
  BY <1>1 DEF Slots, IInv, MemoryOK, ShortSlots, Present
<1>2. CASE ~Present(p, i)
  <2>1. Slots(subs[p])[i] = <<>>
    BY <1>2 DEF Slots, Present
  <2> QED
    BY <2>1, EmptyType, PieceAssumption
<1> QED
  BY <1>1, <1>2

\* A flush writes bytes, and never more than the slots have room for.
LEMMA DumpedFits ==
    ASSUME IInv, NEW p \in Pieces
    PROVE  /\ Dumped(subs[p]) \in Seq(Units)
           /\ Len(Dumped(subs[p])) <= NumSubpieces * SubpieceSize
<1>1. \A i \in 1..NumSubpieces :
        Slots(subs[p])[i] \in Seq(Units) /\ Len(Slots(subs[p])[i]) <= SubpieceSize
  BY SlotTypes DEF Subpieces
<1>2. NumSubpieces \in Nat /\ SubpieceSize \in Nat
  BY Sizes, PieceAssumption
<1> HIDE DEF Slots
<1> QED
  BY <1>1, <1>2, JoinedLength, DumpedIsJoined

\* The first m slots of a piece that was never lied to hold the beginning of
\* what was published, up to the first slot that is empty.
LEMMA HonestPrefix ==
    ASSUME IInv, NEW p \in Pieces \ forged, NEW m \in 0..NumSubpieces
    PROVE  \E e \in 0..Len(content[p]) :
             /\ Joined(Slots(subs[p]), m) = SubSeq(content[p], 1, e)
             /\ m = 0 \/ Present(p, m) =>
                  e = IF m * SubpieceSize <= Len(content[p])
                      THEN m * SubpieceSize ELSE Len(content[p])
<1> DEFINE c == content[p]
           g == Slots(subs[p])
           Cut(k) == IF k * SubpieceSize <= Len(c) THEN k * SubpieceSize ELSE Len(c)
           Reaches(k) == \E e \in 0..Len(c) :
                           /\ Joined(g, k) = SubSeq(c, 1, e)
                           /\ k = 0 \/ Present(p, k) => e = Cut(k)
           S == {k \in Nat : k <= NumSubpieces => Reaches(k)}
<1>1. c \in Seq(Units) /\ Len(c) \in Nat /\ NumSubpieces \in Nat /\ SubpieceSize \in Nat \ {0}
  BY Sizes, PieceAssumption DEF IInv, MemoryOK
<1>2. ASSUME NEW i \in Subpieces
      PROVE  /\ g[i] \in Seq(Units)
             /\ ~Present(p, i) => g[i] = <<>>
             /\ Present(p, i) => g[i] = Answer(p, i)
  BY SlotTypes DEF Slots, Present, IInv, HonestSlots
<1>3. ASSUME NEW i \in Subpieces
      PROVE  Answer(p, i) = SubSeq(c, (i - 1) * SubpieceSize + 1,
               IF (i - 1) * SubpieceSize + SubpieceSize < Len(c)
               THEN (i - 1) * SubpieceSize + SubpieceSize ELSE Len(c))
  BY DEF Answer, BeginOf
<1>4. ASSUME NEW k \in Nat \ {0}, k + 1 \in Subpieces, Present(p, k + 1) PROVE Present(p, k)
  BY <1>1, <1>4 DEF IInv, InOrder, Subpieces
<1> HIDE DEF c, g
<1>5. 0 \in S
  <2>1. SubSeq(c, 1, 0) = <<>>
    BY <1>1, SubSeqNone
  <2>2. Joined(g, 0) = <<>> /\ 0 \in 0..Len(c) /\ Cut(0) = 0
    BY <1>1, JoinedNone
  <2>3. Reaches(0)
    BY <2>1, <2>2
  <2> QED
    BY <2>3
<1>6. ASSUME NEW k \in Nat, k \in S PROVE k + 1 \in S
  <2> SUFFICES ASSUME k + 1 <= NumSubpieces PROVE Reaches(k + 1)
    OBVIOUS
  <2>1. k + 1 \in Subpieces
    BY <1>1 DEF Subpieces
  <2>2. PICK e \in 0..Len(c) :
          /\ Joined(g, k) = SubSeq(c, 1, e)
          /\ k = 0 \/ Present(p, k) => e = Cut(k)
    BY <1>1, <1>6
  <2>3. Joined(g, k + 1) = Joined(g, k) \o g[k + 1]
    BY <1>2, <2>1, JoinedNext
  <2>4. CASE ~Present(p, k + 1)
    <3>1. g[k + 1] = <<>>
      BY <1>2, <2>1, <2>4
    <3>2. SubSeq(c, 1, e) \o <<>> = SubSeq(c, 1, e)
      <4>1. SubSeq(c, 1, e) \in Seq(Units)
        BY <1>1, SubSeqType
      <4> QED
        BY <4>1, ConcatNone
    <3>3. Joined(g, k + 1) = SubSeq(c, 1, e)
      BY <2>2, <2>3, <3>1, <3>2
    <3>4. ~(k + 1 = 0)
      OBVIOUS
    <3> HIDE DEF Cut
    <3> QED
      BY <2>4, <3>3, <3>4
  <2>5. CASE Present(p, k + 1)
    <3> DEFINE a == k * SubpieceSize
               d == Cut(k + 1)
    <3>1. a \in Nat /\ (k + 1) * SubpieceSize = a + SubpieceSize /\ (k + 1) - 1 = k
      BY <1>1
    <3>2. e = Cut(k)
      BY <1>4, <2>1, <2>2, <2>5
    <3>3. d = IF a + SubpieceSize < Len(c) THEN a + SubpieceSize ELSE Len(c)
      BY <1>1, <3>1
    <3>4. g[k + 1] = SubSeq(c, a + 1, d)
      BY <1>2, <1>3, <2>1, <2>5, <3>1, <3>3
    <3>5. e = IF a <= Len(c) THEN a ELSE Len(c)
      BY <3>2
    <3> HIDE DEF a, d, Cut
    <3>6. d \in 0..Len(c)
      BY <1>1, <3>1, <3>3
    <3>7. SubSeq(c, 1, e) \o SubSeq(c, a + 1, d) = SubSeq(c, 1, d)
      <4>1. CASE a <= Len(c)
        <5>1. e = a /\ d \in e..Len(c)
          BY <1>1, <3>1, <3>3, <3>5, <4>1
        <5> QED
          BY <1>1, <5>1, SubSeqsMeet
      <4>2. CASE ~(a <= Len(c))
        <5>1. e = d /\ a + 1 > d /\ a + 1 \in Nat
          BY <1>1, <3>1, <3>3, <3>5, <4>2
        <5>2. SubSeq(c, a + 1, d) = <<>>
          BY <1>1, <3>6, <5>1, SubSeqNone
        <5>3. SubSeq(c, 1, d) \in Seq(Units)
          BY <1>1, <3>6, SubSeqType
        <5> QED
          BY <5>1, <5>2, <5>3, ConcatNone
      <4> QED
        BY <4>1, <4>2
    <3>8. Joined(g, k + 1) = SubSeq(c, 1, d)
      BY <2>2, <2>3, <3>4, <3>7
    <3> QED
      BY <3>6, <3>8 DEF d
  <2> QED
    BY <2>4, <2>5
<1> HIDE DEF S
<1>7. Nat \subseteq S
  BY <1>5, <1>6, Induction
<1>8. Reaches(m)
  BY <1>7, Sizes DEF S
<1> QED
  BY <1>8 DEF c, g

\* The sizes of the torrents the 32 bit arithmetic gets right.
LEMMA SizesInRange ==
    ASSUME InRange
    PROVE  /\ Size = PieceLength
           /\ NumSubpieces \in Nat \ {0}
           /\ NumSubpieces * SubpieceSize = PieceLength
           /\ \A p \in Pieces : SeekPos(p) = p * PieceLength
<1>1. ASSUME NEW p \in Pieces
      PROVE  p * PieceLength \in Nat /\ p * PieceLength + PieceLength < WordSize
  <2>1. PICK n \in Nat : NumPieces = p + 1 + n
    <3>1. NumPieces - p - 1 \in Nat /\ NumPieces = p + 1 + (NumPieces - p - 1)
      BY PieceAssumption DEF Pieces
    <3> QED
      BY <3>1
  <2>2. p \in Nat
    BY DEF Pieces
  <2>3. NumPieces * PieceLength = p * PieceLength + PieceLength + n * PieceLength
    BY <2>1, <2>2, PieceAssumption
  <2>4. n * PieceLength \in Nat /\ p * PieceLength \in Nat
    BY <2>2, PieceAssumption
  <2> QED
    BY <2>3, <2>4, PieceAssumption DEF InRange
<1>2. \A i \in 0..(WordSize - 1) : i % WordSize = i
  <2>1. 0 * WordSize = 0 /\ 0 \in Nat /\ WordSize \in Nat \ {0}
    BY PieceAssumption
  <2> QED
    BY <2>1, Remainder
<1>3. Size = PieceLength
  <2>1. 0 * PieceLength = 0 /\ 0 \in Pieces
    BY Sizes, PieceAssumption
  <2>2. PieceLength \in 0..(WordSize - 1)
    BY <1>1, <2>1, PieceAssumption
  <2> QED
    BY <1>2, <2>2 DEF Size
<1>4. \A p \in Pieces : SeekPos(p) = p * PieceLength
  <2> SUFFICES ASSUME NEW p \in Pieces PROVE (p * PieceLength) % WordSize = p * PieceLength
    BY <1>3 DEF SeekPos
  <2>1. p * PieceLength \in 0..(WordSize - 1)
    BY <1>1, PieceAssumption
  <2> QED
    BY <1>2, <2>1
<1>5. NumSubpieces = PieceLength \div SubpieceSize
  BY <1>3, PieceAssumption, Division DEF NumSubpieces, InRange
<1>6. PieceLength = SubpieceSize * NumSubpieces /\ NumSubpieces \in Nat
  <2> DEFINE d == PieceLength \div SubpieceSize
  <2>1. /\ d \in Nat
        /\ PieceLength = SubpieceSize * d + (PieceLength % SubpieceSize)
    BY PieceAssumption, Division
  <2>2. PieceLength % SubpieceSize = 0
    BY DEF InRange
  <2>3. NumSubpieces = d
    BY <1>5
  <2> HIDE DEF d
  <2>4. SubpieceSize * d \in Nat
    BY <2>1, PieceAssumption
  <2> QED
    BY <2>1, <2>2, <2>3, <2>4
<1>7. NumSubpieces # 0
  BY <1>6, PieceAssumption
<1> QED
  BY <1>3, <1>4, <1>6, <1>7, PieceAssumption

\* The places of two pieces in the file do not overlap.
LEMMA Places ==
    ASSUME NEW p \in Pieces, NEW q \in Pieces, NEW x \in Nat,
           p * PieceLength <= x, x < p * PieceLength + PieceLength,
           q * PieceLength <= x, x < q * PieceLength + PieceLength
    PROVE  p = q
<1>1. ASSUME NEW a \in Nat, NEW b \in Nat, a < b
      PROVE  a * PieceLength + PieceLength <= b * PieceLength
  <2>1. PICK n \in Nat : b = a + 1 + n
    <3>1. b - a - 1 \in Nat /\ b = a + 1 + (b - a - 1)
      BY <1>1
    <3> QED
      BY <3>1
  <2>2. b * PieceLength = a * PieceLength + PieceLength + n * PieceLength
    BY <2>1, PieceAssumption
  <2>3. n * PieceLength \in Nat /\ a * PieceLength \in Nat
    BY PieceAssumption
  <2> QED
    BY <2>2, <2>3, PieceAssumption
<1>2. p \in Nat /\ q \in Nat /\ p * PieceLength \in Nat /\ q * PieceLength \in Nat
  BY PieceAssumption DEF Pieces
<1>3. ~(p < q)
  BY <1>1, <1>2, PieceAssumption
<1>4. ~(q < p)
  BY <1>1, <1>2, PieceAssumption
<1> QED
  BY <1>2, <1>3, <1>4

\* A piece that never got a false answer and is marked as had holds exactly
\* what was published, in every torrent of less than 4 GiB.
LEMMA HonestIsPublished == ASSUME InRange, IInv PROVE HonestPieceIsPublished
<1> SUFFICES ASSUME NEW p \in Pieces, state[p] = "HaveUnverified", p \notin forged
             PROVE  Dumped(subs[p]) = content[p]
  BY DEF HonestPieceIsPublished
<1>1. NumSubpieces \in Nat \ {0} /\ NumSubpieces * SubpieceSize = PieceLength
  BY SizesInRange
<1>2. Present(p, NumSubpieces)
  BY <1>1 DEF IInv, UnverifiedIsComplete, Complete, Subpieces
<1>3. content[p] \in Seq(Units) /\ Len(content[p]) <= PieceLength /\ Len(content[p]) \in Nat
  BY PieceAssumption DEF IInv, MemoryOK
<1>4. PICK e \in 0..Len(content[p]) :
        /\ Joined(Slots(subs[p]), NumSubpieces) = SubSeq(content[p], 1, e)
        /\ e = IF PieceLength <= Len(content[p]) THEN PieceLength ELSE Len(content[p])
  <2>1. NumSubpieces \in 0..NumSubpieces
    BY <1>1
  <2>2. p \in Pieces \ forged
    OBVIOUS
  <2> HIDE DEF Slots
  <2> QED
    BY <1>1, <1>2, <2>1, <2>2, HonestPrefix
<1>5. e = Len(content[p])
  BY <1>3, <1>4, PieceAssumption
<1>6. SubSeq(content[p], 1, Len(content[p])) = content[p]
  BY <1>3, SubSeqAll
<1> QED
  BY <1>4, <1>5, <1>6, DumpedIsJoined

THEOREM HonestPiecesArePublished == ASSUME InRange PROVE Spec => []HonestPieceIsPublished
BY Inductive, HonestIsPublished, PTL

----------------------------------------------------------------------------
(* The file.  Positions, what one write does at one of them, and the types. *)
FileOK ==
    /\ file \in [Positions -> Units \cup {Hole}]
    /\ buffer \in [pos : Nat, bytes : Seq(Units)]
    /\ flushed \in [Pieces -> Seq(Units)]

LEMMA PositionsAreNat ==
    /\ Positions \subseteq Nat
    /\ \A p \in Pieces : SeekPos(p) \in Nat
<1>1. NumPieces * (PieceLength + SubpieceSize) \in Nat
  BY PieceAssumption
<1>2. ASSUME NEW p \in Pieces PROVE SeekPos(p) \in Nat
  <2>1. p * Size \in Nat
    BY Sizes
  <2> QED
    BY <2>1, PieceAssumption DEF SeekPos
<1> QED
  BY <1>1, <1>2 DEF Positions

LEMMA OntoAt ==
    ASSUME NEW f, NEW pos, NEW b, NEW x \in Positions
    PROVE  Onto(f, pos, b)[x] = IF pos <= x /\ x < pos + Len(b) THEN b[x - pos + 1] ELSE f[x]
BY DEF Onto

LEMMA OntoType ==
    ASSUME NEW f \in [Positions -> Units \cup {Hole}], NEW pos \in Nat, NEW b \in Seq(Units)
    PROVE  Onto(f, pos, b) \in [Positions -> Units \cup {Hole}]
<1>1. ASSUME NEW x \in Positions, pos <= x, x < pos + Len(b) PROVE b[x - pos + 1] \in Units
  <2>1. x - pos + 1 \in 1..Len(b)
    BY <1>1, PositionsAreNat
  <2> QED
    BY <2>1
<1> QED
  BY <1>1 DEF Onto

LEMMA PendingType ==
    ASSUME NEW pos \in Nat, NEW b \in Seq(Units)
    PROVE  Pending(pos, b) \in [pos : Nat, bytes : Seq(Units)]
BY DEF Pending

LEMMA NothingType == Nothing \in [pos : Nat, bytes : Seq(Units)]
<1>1. <<>> \in Seq(Units)
  BY EmptyType
<1> QED
  BY <1>1, PendingType DEF Nothing

\* g is f with the first m bytes of b from pos on.
Written(f, pos, b, m, g) ==
    \A x \in Positions :
        g[x] = IF pos <= x /\ x < pos + m THEN b[x - pos + 1] ELSE f[x]

LEMMA WrittenOnto ==
    ASSUME NEW f, NEW pos, NEW b PROVE Written(f, pos, b, Len(b), Onto(f, pos, b))
BY OntoAt DEF Written

\* A write of which a part reaches the file, a part the buffer, and the rest
\* nothing: the two parts meet without a gap.
LEMMA SplitWrite ==
    ASSUME NEW f \in [Positions -> Units \cup {Hole}], NEW pos \in Nat, NEW b \in Seq(Units),
           NEW m \in 0..Len(b), NEW n \in 0..m,
           NEW h, h = Onto(f, pos, SubSeq(b, 1, n)),
           NEW r, r = Pending(pos + n, SubSeq(b, n + 1, m))
    PROVE  /\ h \in [Positions -> Units \cup {Hole}]
           /\ r \in [pos : Nat, bytes : Seq(Units)]
           /\ Written(f, pos, b, n, h)
           /\ Written(f, pos, b, m, Onto(h, r.pos, r.bytes))
<1> DEFINE u == SubSeq(b, 1, n)
           w == SubSeq(b, n + 1, m)
<1>1. u \in Seq(Units) /\ Len(u) = n /\ \A k \in 1..n : u[k] = b[k]
  <2>1. 1 \in 1..(Len(b) + 1) /\ n \in 0..Len(b)
    OBVIOUS
  <2> QED
    BY <2>1, WindowType
<1>2. w \in Seq(Units) /\ Len(w) = m - n /\ \A k \in 1..(m - n) : w[k] = b[n + k]
  <2>1. n + 1 \in 1..(Len(b) + 1) /\ m \in 0..Len(b)
    OBVIOUS
  <2>2. /\ SubSeq(b, n + 1, m) \in Seq(Units)
        /\ Len(SubSeq(b, n + 1, m)) = IF n + 1 <= m THEN m - (n + 1) + 1 ELSE 0
        /\ \A k \in 1..(m - (n + 1) + 1) : SubSeq(b, n + 1, m)[k] = b[n + 1 + k - 1]
    BY <2>1, WindowType
  <2> QED
    BY <2>2
<1>3. h = Onto(f, pos, u) /\ r = Pending(pos + n, w)
  OBVIOUS
<1> HIDE DEF u, w
<1>4. h \in [Positions -> Units \cup {Hole}] /\ r \in [pos : Nat, bytes : Seq(Units)]
  BY <1>1, <1>2, <1>3, OntoType, PendingType
<1>5. ASSUME NEW x \in Positions
      PROVE  h[x] = IF pos <= x /\ x < pos + n THEN b[x - pos + 1] ELSE f[x]
  <2>1. x \in Nat
    BY PositionsAreNat
  <2>2. h[x] = IF pos <= x /\ x < pos + n THEN u[x - pos + 1] ELSE f[x]
    BY <1>1, <1>3, OntoAt
  <2> QED
    BY <1>1, <2>1, <2>2
<1>6. ASSUME NEW x \in Positions
      PROVE  Onto(h, r.pos, r.bytes)[x]
               = IF pos <= x /\ x < pos + m THEN b[x - pos + 1] ELSE f[x]
  <2>1. x \in Nat
    BY PositionsAreNat
  <2>2. Onto(h, r.pos, r.bytes)[x]
          = IF r.pos <= x /\ x < r.pos + Len(r.bytes) THEN r.bytes[x - r.pos + 1] ELSE h[x]
    BY OntoAt
  <2>3. CASE w = <<>>
    <3>1. r.pos = 0 /\ r.bytes = <<>> /\ Len(r.bytes) = 0 /\ m = n
      BY <1>2, <1>3, <2>3 DEF Pending
    <3>2. ~(x < 0 + 0)
      BY <2>1
    <3> QED
      BY <1>5, <2>2, <3>1, <3>2
  <2>4. CASE w # <<>>
    <3>1. r.pos = pos + n /\ r.bytes = w
      BY <1>3, <2>4 DEF Pending
    <3>2. CASE pos + n <= x /\ x < pos + m
      <4>1. x - (pos + n) + 1 \in 1..(m - n) /\ n + (x - (pos + n) + 1) = x - pos + 1
        BY <2>1, <3>2
      <4>2. w[x - (pos + n) + 1] = b[x - pos + 1]
        BY <1>2, <4>1
      <4>3. x < (pos + n) + (m - n) /\ pos <= x
        BY <2>1, <3>2
      <4> QED
        BY <1>2, <2>2, <3>1, <3>2, <4>2, <4>3
    <3>3. CASE ~(pos + n <= x /\ x < pos + m)
      <4>1. ~(pos + n <= x /\ x < (pos + n) + (m - n))
        BY <2>1, <3>3
      <4>2. (pos <= x /\ x < pos + n) <=> (pos <= x /\ x < pos + m)
        BY <2>1, <3>3
      <4> QED
        BY <1>2, <1>5, <2>2, <3>1, <4>1, <4>2
    <3> QED
      BY <3>2, <3>3
  <2> QED
    BY <2>3, <2>4
<1> QED
  BY <1>4, <1>5, <1>6 DEF Written

\* Where a flush of p writes, and what.
In(p, x) == SeekPos(p) <= x /\ x < SeekPos(p) + Len(Dumped(subs[p]))
Byte(p, x) == Dumped(subs[p])[x - SeekPos(p) + 1]

LEMMA DrainedType ==
    ASSUME FileOK PROVE Drained \in [Positions -> Units \cup {Hole}]
BY OntoType DEF FileOK, Drained

\* A flush that returns has written all its bytes, to the file or the buffer,
\* and what was in the buffer before has reached the file.
LEMMA FlushEffect ==
    ASSUME IInv, FileOK, NEW p \in Pieces, Flush(p)
    PROVE  /\ FileOK'
           /\ \A x \in Positions :
                /\ file'[x] = Drained[x] \/ (In(p, x) /\ file'[x] = Byte(p, x))
                /\ Drained'[x] = IF In(p, x) THEN Byte(p, x) ELSE Drained[x]
<1> DEFINE b == Dumped(subs[p])
           pos == SeekPos(p)
<1>1. b \in Seq(Units) /\ pos \in Nat
  BY DumpedFits, PositionsAreNat
<1>2. PICK n \in 0..Len(b) :
        /\ file' = Onto(Drained, pos, SubSeq(b, 1, n))
        /\ buffer' = Pending(pos + n, SubSeq(b, n + 1, Len(b)))
  BY DEF Flush, Upto, After
<1>3. flushed' \in [Pieces -> Seq(Units)]
  BY <1>1 DEF Flush, FileOK
<1>4. Drained' = Onto(file', buffer'.pos, buffer'.bytes)
  BY DEF Drained
<1>5. /\ file' \in [Positions -> Units \cup {Hole}]
      /\ buffer' \in [pos : Nat, bytes : Seq(Units)]
      /\ Written(Drained, pos, b, n, file')
      /\ Written(Drained, pos, b, Len(b), Drained')
  <2>1. Len(b) \in 0..Len(b)
    BY <1>1
  <2> HIDE DEF b, pos
  <2> QED
    BY <1>1, <1>2, <1>4, <2>1, DrainedType, SplitWrite
<1>6. ASSUME NEW x \in Positions
      PROVE  /\ file'[x] = Drained[x] \/ (In(p, x) /\ file'[x] = Byte(p, x))
             /\ Drained'[x] = IF In(p, x) THEN Byte(p, x) ELSE Drained[x]
  <2>1. pos <= x /\ x < pos + n => In(p, x)
    BY <1>1, PositionsAreNat DEF In
  <2> QED
    BY <1>5, <2>1 DEF In, Byte, Written
<1> QED
  BY <1>3, <1>5, <1>6 DEF FileOK

\* A flush that fails has written a part of its bytes, or a part of the buffer.
LEMMA FlushFailsEffect ==
    ASSUME IInv, FileOK, NEW p \in Pieces, FlushFails(p)
    PROVE  /\ FileOK'
           /\ \A x \in Positions :
                /\ \/ file'[x] \in {file[x], Drained[x]}
                   \/ In(p, x) /\ file'[x] = Byte(p, x)
                /\ \/ Drained'[x] \in {file[x], Drained[x]}
                   \/ In(p, x) /\ Drained'[x] = Byte(p, x)
<1> DEFINE b == Dumped(subs[p])
           pos == SeekPos(p)
<1>1. b \in Seq(Units) /\ pos \in Nat
  BY DumpedFits, PositionsAreNat
<1>2. Drained' = Onto(file', buffer'.pos, buffer'.bytes) /\ flushed' \in [Pieces -> Seq(Units)]
  BY DEF Drained, FlushFails, FileOK
<1>3. CASE SeekFails
  <2> DEFINE c == buffer.bytes
             at == buffer.pos
  <2>1. c \in Seq(Units) /\ at \in Nat /\ file \in [Positions -> Units \cup {Hole}]
    BY DEF FileOK
  <2>2. PICK n \in 0..Len(c) :
          /\ file' = Onto(file, at, SubSeq(c, 1, n))
          /\ buffer' = Pending(at + n, SubSeq(c, n + 1, Len(c)))
    BY <1>3 DEF SeekFails, Upto, After
  <2>3. /\ file' \in [Positions -> Units \cup {Hole}]
        /\ buffer' \in [pos : Nat, bytes : Seq(Units)]
        /\ Written(file, at, c, n, file')
        /\ Written(file, at, c, Len(c), Drained')
    <3>1. Len(c) \in 0..Len(c)
      BY <2>1
    <3> HIDE DEF c, at
    <3>2. /\ file' \in [Positions -> Units \cup {Hole}]
          /\ buffer' \in [pos : Nat, bytes : Seq(Units)]
          /\ Written(file, at, c, n, file')
          /\ Written(file, at, c, Len(c), Onto(file', buffer'.pos, buffer'.bytes))
      BY <2>1, <2>2, <3>1, SplitWrite, Zenon
    <3> QED
      BY <1>2, <3>2
  <2>4. Written(file, at, c, Len(c), Drained)
    BY WrittenOnto DEF Drained
  <2>5. ASSUME NEW x \in Positions
        PROVE  file'[x] \in {file[x], Drained[x]} /\ Drained'[x] = Drained[x]
    <3>1. at <= x /\ x < at + n => x < at + Len(c)
      BY <2>1, PositionsAreNat
    <3> HIDE DEF c, at
    <3> QED
      BY <2>3, <2>4, <3>1 DEF Written
  <2> QED
    BY <1>2, <2>3, <2>5 DEF FileOK
<1>4. CASE WriteFails(p)
  <2>1. PICK m \in 0..Len(b) : \E n \in 0..m :
          /\ file' = Onto(Drained, pos, SubSeq(b, 1, n))
          /\ buffer' = Pending(pos + n, SubSeq(b, n + 1, m))
    BY <1>4 DEF WriteFails, Upto
  <2>2. PICK n \in 0..m :
          /\ file' = Onto(Drained, pos, SubSeq(b, 1, n))
          /\ buffer' = Pending(pos + n, SubSeq(b, n + 1, m))
    BY <2>1
  <2>3. /\ file' \in [Positions -> Units \cup {Hole}]
        /\ buffer' \in [pos : Nat, bytes : Seq(Units)]
        /\ Written(Drained, pos, b, n, file')
        /\ Written(Drained, pos, b, m, Drained')
    <3> HIDE DEF b, pos
    <3>1. /\ file' \in [Positions -> Units \cup {Hole}]
          /\ buffer' \in [pos : Nat, bytes : Seq(Units)]
          /\ Written(Drained, pos, b, n, file')
          /\ Written(Drained, pos, b, m, Onto(file', buffer'.pos, buffer'.bytes))
      BY <1>1, <2>2, DrainedType, SplitWrite, Zenon
    <3> QED
      BY <1>2, <3>1
  <2>4. ASSUME NEW x \in Positions
        PROVE  /\ file'[x] = Drained[x] \/ (In(p, x) /\ file'[x] = Byte(p, x))
               /\ Drained'[x] = Drained[x] \/ (In(p, x) /\ Drained'[x] = Byte(p, x))
    <3>1. pos <= x /\ x < pos + n => In(p, x)
      BY <1>1, PositionsAreNat DEF In
    <3>2. pos <= x /\ x < pos + m => In(p, x)
      BY <1>1, PositionsAreNat DEF In
    <3> QED
      BY <2>3, <3>1, <3>2 DEF Byte, Written
  <2> QED
    BY <1>2, <2>3, <2>4 DEF FileOK
<1> QED
  BY <1>3, <1>4 DEF FlushFails

\* The end of a run keeps a part of the buffer; a new run and a changed path
\* keep the file or leave an empty one.
LEMMA StopEffect ==
    ASSUME FileOK, Stop
    PROVE  /\ FileOK'
           /\ \A x \in Positions :
                file'[x] \in {file[x], Drained[x]} /\ Drained'[x] = file'[x]
<1>1. buffer.bytes \in Seq(Units) /\ buffer.pos \in Nat
      /\ file \in [Positions -> Units \cup {Hole}]
  BY DEF FileOK
<1>2. PICK n \in 0..Len(buffer.bytes) : file' = Onto(file, buffer.pos, SubSeq(buffer.bytes, 1, n))
  BY DEF Stop, Upto
<1>3. buffer' = Nothing /\ flushed' = [p \in Pieces |-> <<>>]
  BY DEF Stop, Constructed
<1>4. FileOK'
  <2>1. <<>> \in Seq(Units)
    BY EmptyType
  <2>2. Len(buffer.bytes) \in 0..Len(buffer.bytes)
    BY <1>1
  <2>3. Onto(file, buffer.pos, SubSeq(buffer.bytes, 1, n)) \in [Positions -> Units \cup {Hole}]
    BY <1>1, <2>2, SplitWrite
  <2> QED
    BY <1>2, <1>3, <2>1, <2>3, NothingType DEF FileOK
<1>5. Written(file, buffer.pos, buffer.bytes, n, file')
  <2>1. Len(buffer.bytes) \in 0..Len(buffer.bytes)
    BY <1>1
  <2> DEFINE r == Pending(buffer.pos + n, SubSeq(buffer.bytes, n + 1, Len(buffer.bytes)))
  <2>2. r = Pending(buffer.pos + n, SubSeq(buffer.bytes, n + 1, Len(buffer.bytes)))
    OBVIOUS
  <2> HIDE DEF r
  <2> QED
    BY <1>1, <1>2, <2>1, <2>2, SplitWrite, Zenon
<1>6. Written(file, buffer.pos, buffer.bytes, Len(buffer.bytes), Drained)
  BY WrittenOnto DEF Drained
<1>7. ASSUME NEW x \in Positions
      PROVE  file'[x] \in {file[x], Drained[x]} /\ Drained'[x] = file'[x]
  <2>1. buffer.pos <= x /\ x < buffer.pos + n => x < buffer.pos + Len(buffer.bytes)
    BY <1>1, PositionsAreNat
  <2>2. Drained'[x] = file'[x]
    <3>1. Drained' = Onto(file', 0, <<>>)
      BY <1>3 DEF Drained, Nothing, Pending
    <3>2. Len(<<>>) = 0 /\ ~(x < 0 + 0)
      BY PositionsAreNat
    <3> QED
      BY <3>1, <3>2, OntoAt
  <2> QED
    BY <1>5, <1>6, <2>1, <2>2 DEF Written
<1> QED
  BY <1>4, <1>7

LEMMA ConstructEffect ==
    ASSUME FileOK, Construct \/ PathChanges
    PROVE  /\ FileOK'
           /\ \A x \in Positions : file'[x] \in {file[x], Hole}
                                   /\ Drained'[x] \in {file'[x], Drained[x]}
<1>1. file \in [Positions -> Units \cup {Hole}] /\ [x \in Positions |-> Hole] \in [Positions -> Units \cup {Hole}]
  BY DEF FileOK
<1>2. file' \in {file, [x \in Positions |-> Hole]}
  BY DEF Construct, PathChanges
<1>3. CASE Construct
  <2>1. buffer' = Nothing /\ flushed' = [p \in Pieces |-> <<>>] /\ <<>> \in Seq(Units)
    BY <1>3, EmptyType DEF Construct, Constructed
  <2>2. ASSUME NEW x \in Positions PROVE Drained'[x] = file'[x]
    <3>1. Drained' = Onto(file', 0, <<>>)
      BY <2>1 DEF Drained, Nothing, Pending
    <3>2. Len(<<>>) = 0 /\ ~(x < 0 + 0)
      BY PositionsAreNat
    <3> QED
      BY <3>1, <3>2, OntoAt
  <2> QED
    BY <1>1, <1>2, <2>1, <2>2, NothingType DEF FileOK
<1>4. CASE PathChanges
  <2>1. UNCHANGED <<buffer, flushed>>
    BY <1>4 DEF PathChanges
  <2>2. ASSUME NEW x \in Positions PROVE Drained'[x] \in {file'[x], Drained[x]}
    <3>1. Drained'[x] = IF buffer.pos <= x /\ x < buffer.pos + Len(buffer.bytes)
                        THEN buffer.bytes[x - buffer.pos + 1] ELSE file'[x]
      BY <2>1, OntoAt DEF Drained
    <3>2. Drained[x] = IF buffer.pos <= x /\ x < buffer.pos + Len(buffer.bytes)
                       THEN buffer.bytes[x - buffer.pos + 1] ELSE file[x]
      BY OntoAt DEF Drained
    <3> QED
      BY <3>1, <3>2
  <2> QED
    BY <1>1, <1>2, <2>1, <2>2 DEF FileOK
<1> QED
  BY <1>3, <1>4

\* The steps that do not touch the stream.
DiskAlone == UNCHANGED <<file, buffer, flushed>>

LEMMA DiskSteps ==
    ASSUME [Next]_vars
    PROVE  \/ DiskAlone /\ UNCHANGED <<content, fileBad, up>>
           \/ \E p \in Pieces : Flush(p)
           \/ \E p \in Pieces : FlushFails(p)
           \/ Stop \/ Construct \/ PathChanges
BY DEF Next, ConstructFails, BeginDownload, DownloadWithoutPeer, Verify, FlushRefused,
   SkipPresent, StoreAnswer, DownloadThrows, FinishDownload, vars, pieces, disk, DiskAlone

LEMMA AloneEffect ==
    ASSUME DiskAlone
    PROVE  Drained' = Drained /\ file' = file /\ flushed' = flushed /\ (FileOK => FileOK')
BY DEF DiskAlone, FileOK, Drained

\* The whole type invariant.
LEMMA TypesInit == Init => FileOK
<1> SUFFICES ASSUME Init PROVE FileOK
  OBVIOUS
<1>1. <<>> \in Seq(Units)
  BY EmptyType
<1> QED
  BY <1>1, NothingType DEF Init, FileOK

LEMMA TypesStep == IInv /\ FileOK /\ [Next]_vars => FileOK'
BY DiskSteps, AloneEffect, FlushEffect, FlushFailsEffect, StopEffect, ConstructEffect

LEMMA TypesHold == Spec => [](IInv /\ FileOK)
<1>1. Init => IInv /\ FileOK
  BY InitOK, TypesInit
<1>2. IInv /\ FileOK /\ [Next]_vars => (IInv /\ FileOK)'
  BY StepOK, TypesStep
<1> QED
  BY <1>1, <1>2, PTL DEF Spec

\* Type correctness, the file and the stream's buffer included.
THEOREM TypeCorrect == Spec => []TypeOK
<1>1. IInv /\ FileOK => TypeOK
  BY DEF IInv, FileOK, TypeOK
<1> QED
  BY <1>1, TypesHold, PTL

----------------------------------------------------------------------------
(* What ends up where in the file.                                         *)

\* The k-th byte of the place of p.
LEMMA PlaceOf ==
    ASSUME NEW p \in Pieces, NEW k \in 1..PieceLength
    PROVE  /\ p * PieceLength \in Nat
           /\ p * PieceLength + k - 1 \in Positions
           /\ p * PieceLength <= p * PieceLength + k - 1
           /\ p * PieceLength + k - 1 < p * PieceLength + PieceLength
<1>1. p \in Nat /\ NumPieces \in Nat /\ PieceLength \in Nat /\ SubpieceSize \in Nat
  BY PieceAssumption DEF Pieces
<1>2. PICK n \in Nat : NumPieces = p + 1 + n
  <2>1. NumPieces - p - 1 \in Nat /\ NumPieces = p + 1 + (NumPieces - p - 1)
    BY PieceAssumption DEF Pieces
  <2> QED
    BY <2>1
<1>3. NumPieces * (PieceLength + SubpieceSize)
        = p * PieceLength + PieceLength + n * PieceLength + NumPieces * SubpieceSize
  BY <1>1, <1>2
<1>4. p * PieceLength \in Nat /\ n * PieceLength \in Nat /\ NumPieces * SubpieceSize \in Nat
  BY <1>1
<1> QED
  BY <1>1, <1>3, <1>4 DEF Positions

\* A flush of q writes in the place of q only, and in its order.
LEMMA InPlace ==
    ASSUME InRange, IInv, NEW p \in Pieces, NEW q \in Pieces, NEW k \in 1..PieceLength,
           In(q, p * PieceLength + k - 1)
    PROVE  /\ q = p /\ k \in 1..Len(Dumped(subs[p]))
           /\ Byte(q, p * PieceLength + k - 1) = Dumped(subs[p])[k]
<1> DEFINE x == p * PieceLength + k - 1
<1>1. Dumped(subs[q]) \in Seq(Units) /\ Len(Dumped(subs[q])) <= PieceLength
      /\ SeekPos(q) = q * PieceLength
  BY DumpedFits, SizesInRange
<1>2. x \in Nat /\ p * PieceLength \in Nat /\ q * PieceLength \in Nat
  BY PlaceOf, PositionsAreNat, PieceAssumption DEF Pieces
<1>3. q * PieceLength <= x /\ x < q * PieceLength + Len(Dumped(subs[q]))
  BY <1>1 DEF In
<1>4. p * PieceLength <= x /\ x < p * PieceLength + PieceLength
  BY PlaceOf
<1>5. x < q * PieceLength + PieceLength
  <2> HIDE DEF x
  <2> QED
    BY <1>1, <1>2, <1>3, PieceAssumption
<1>6. q = p
  <2> HIDE DEF x
  <2> QED
    BY <1>2, <1>3, <1>4, <1>5, Places
<1>7. x - p * PieceLength + 1 = k
  BY <1>2
<1> QED
  BY <1>1, <1>2, <1>3, <1>6, <1>7 DEF Byte

\* The converse: the bytes of a dump have their places.
LEMMA HasPlace ==
    ASSUME InRange, IInv, NEW p \in Pieces, NEW k \in 1..PieceLength,
           k <= Len(Dumped(subs[p]))
    PROVE  In(p, p * PieceLength + k - 1)
<1>1. Dumped(subs[p]) \in Seq(Units) /\ SeekPos(p) = p * PieceLength
  BY DumpedFits, SizesInRange
<1>2. p * PieceLength \in Nat
  BY PlaceOf
<1> QED
  BY <1>1, <1>2 DEF In

\* No flush, complete or failed, and no end of a run changes a byte outside
\* the place of the verified piece that is being flushed.
THEOREM FlushStaysInPlace == ASSUME InRange PROVE Spec => FlushInPlace
<1>1. IInv /\ FileOK /\ [Next]_vars
        => [up => \A x \in Positions :
              \/ Drained'[x] \in {Drained[x], file[x]}
              \/ \E p \in Pieces :
                   /\ state[p] = "HaveVerified"
                   /\ p * PieceLength <= x /\ x < (p + 1) * PieceLength]_vars
  <2> SUFFICES ASSUME IInv, FileOK, [Next]_vars, up, NEW x \in Positions
               PROVE  \/ Drained'[x] \in {Drained[x], file[x]}
                      \/ \E p \in Pieces :
                           /\ state[p] = "HaveVerified"
                           /\ p * PieceLength <= x /\ x < (p + 1) * PieceLength
    OBVIOUS
  <2>1. ASSUME NEW p \in Pieces, In(p, x)
        PROVE  p * PieceLength <= x /\ x < (p + 1) * PieceLength
    <3>1. Dumped(subs[p]) \in Seq(Units) /\ Len(Dumped(subs[p])) <= PieceLength
          /\ SeekPos(p) = p * PieceLength
      BY DumpedFits, SizesInRange
    <3>2. x \in Nat /\ p \in Nat /\ PieceLength \in Nat /\ p * PieceLength \in Nat
      BY PositionsAreNat, PieceAssumption DEF Pieces
    <3>3. (p + 1) * PieceLength = p * PieceLength + PieceLength
      BY <3>2
    <3> QED
      BY <2>1, <3>1, <3>2, <3>3 DEF In
  <2>2. CASE DiskAlone
    BY <2>2, AloneEffect
  <2>3. ASSUME NEW p \in Pieces, Flush(p)
        PROVE  Drained'[x] = Drained[x] \/ (In(p, x) /\ state[p] = "HaveVerified")
    BY <2>3, FlushEffect DEF Flush
  <2>4. ASSUME NEW p \in Pieces, FlushFails(p)
        PROVE  Drained'[x] \in {Drained[x], file[x]} \/ (In(p, x) /\ state[p] = "HaveVerified")
    BY <2>4, FlushFailsEffect DEF FlushFails
  <2>5. CASE Stop
    <3>1. Drained'[x] = file'[x] /\ file'[x] \in {file[x], Drained[x]}
      BY <2>5, StopEffect
    <3> QED
      BY <3>1
  <2>6. ~Construct /\ ~PathChanges
    BY DEF Construct, PathChanges
  <2> QED
    BY <2>1, <2>2, <2>3, <2>4, <2>5, <2>6, DiskSteps
<1> QED
  BY <1>1, TypesHold, PTL DEF Spec, FlushInPlace

\* f holds nothing but published bytes in the places of honest pieces.
PublishedIn(f) ==
    \A p \in Pieces \ forged : \A k \in 1..PieceLength :
        f[p * PieceLength + k - 1] # Hole
          => /\ k <= Len(content[p])
             /\ f[p * PieceLength + k - 1] = content[p][k]

\* Both what is in the file and what will be once the buffer is written.
HonestDisk == PublishedIn(file) /\ PublishedIn(Drained)

\* What a flush of an honest piece writes at a position is what was published.
LEMMA HonestByte ==
    ASSUME InRange, IInv, NEW p \in Pieces \ forged, NEW k \in 1..PieceLength,
           k \in 1..Len(Dumped(subs[p]))
    PROVE  k <= Len(content[p]) /\ Dumped(subs[p])[k] = content[p][k]
<1>1. content[p] \in Seq(Units) /\ NumSubpieces \in 0..NumSubpieces
  BY Sizes, PieceAssumption DEF IInv, MemoryOK
<1>2. PICK e \in 0..Len(content[p]) :
        Joined(Slots(subs[p]), NumSubpieces) = SubSeq(content[p], 1, e)
  <2> HIDE DEF Slots
  <2> QED
    BY <1>1, HonestPrefix
<1>3. Dumped(subs[p]) = SubSeq(content[p], 1, e)
  BY <1>2, DumpedIsJoined
<1>4. /\ Len(SubSeq(content[p], 1, e)) = e
      /\ \A i \in 1..e : SubSeq(content[p], 1, e)[i] = content[p][i]
  <2>1. 1 \in 1..(Len(content[p]) + 1)
    BY <1>1
  <2>2. /\ Len(SubSeq(content[p], 1, e)) = IF 1 <= e THEN e - 1 + 1 ELSE 0
        /\ \A i \in 1..(e - 1 + 1) : SubSeq(content[p], 1, e)[i] = content[p][1 + i - 1]
    BY <1>1, <2>1, WindowType
  <2> QED
    BY <2>2
<1> QED
  BY <1>3, <1>4

LEMMA HonestDiskInit == Init => HonestDisk
<1> SUFFICES ASSUME Init, NEW p \in Pieces, NEW k \in 1..PieceLength
             PROVE  /\ file[p * PieceLength + k - 1] = Hole
                    /\ Drained[p * PieceLength + k - 1] = Hole
  BY DEF HonestDisk, PublishedIn
<1>1. p * PieceLength + k - 1 \in Positions
  BY PlaceOf
<1>2. file[p * PieceLength + k - 1] = Hole
  BY <1>1 DEF Init
<1>3. Drained = Onto(file, 0, <<>>) /\ Len(<<>>) = 0
  BY DEF Init, Drained, Nothing, Pending
<1>4. ASSUME NEW x \in Positions PROVE ~(x < 0 + 0)
  BY PositionsAreNat
<1> QED
  BY <1>1, <1>2, <1>3, <1>4, OntoAt

LEMMA HonestDiskStep ==
    ASSUME InRange, IInv, FileOK, HonestDisk, [Next]_vars
    PROVE  HonestDisk'
<1>1. content' = content /\ forged \subseteq forged'
  BY DEF Next, Construct, ConstructFails, Stop, PathChanges, BeginDownload,
     DownloadWithoutPeer, Verify, FlushRefused, Flush, FlushFails, SkipPresent,
     StoreAnswer, DownloadThrows, FinishDownload, vars
<1> SUFFICES ASSUME NEW p \in Pieces \ forged, NEW k \in 1..PieceLength,
                    NEW y, y \in {file'[p * PieceLength + k - 1],
                                  Drained'[p * PieceLength + k - 1]},
                    y # Hole
             PROVE  k <= Len(content[p]) /\ y = content[p][k]
  BY <1>1 DEF HonestDisk, PublishedIn
<1> DEFINE x == p * PieceLength + k - 1
           Good(z) == z # Hole => k <= Len(content[p]) /\ z = content[p][k]
<1>2. x \in Positions
  BY PlaceOf
<1>3. Good(file[x]) /\ Good(Drained[x]) /\ Good(Hole)
  BY DEF HonestDisk, PublishedIn
<1>4. ASSUME NEW q \in Pieces, In(q, x) PROVE Good(Byte(q, x))
  <2>1. q = p /\ k \in 1..Len(Dumped(subs[p])) /\ Byte(q, x) = Dumped(subs[p])[k]
    BY <1>4, InPlace
  <2>2. k <= Len(content[p]) /\ Dumped(subs[p])[k] = content[p][k]
    BY <2>1, HonestByte
  <2> QED
    BY <2>1, <2>2
<1>5. y \in {file'[x], Drained'[x]}
  OBVIOUS
<1> HIDE DEF x, Good
<1>6. Good(y)
  <2>1. CASE DiskAlone
    BY <1>3, <1>5, <2>1, AloneEffect
  <2>2. ASSUME NEW q \in Pieces, Flush(q) PROVE Good(y)
    BY <1>2, <1>3, <1>4, <1>5, <2>2, FlushEffect
  <2>3. ASSUME NEW q \in Pieces, FlushFails(q) PROVE Good(y)
    BY <1>2, <1>3, <1>4, <1>5, <2>3, FlushFailsEffect
  <2>4. CASE Stop
    BY <1>2, <1>3, <1>5, <2>4, StopEffect
  <2>5. CASE Construct \/ PathChanges
    BY <1>2, <1>3, <1>5, <2>5, ConstructEffect
  <2> QED
    BY <2>1, <2>2, <2>3, <2>4, <2>5, DiskSteps
<1> QED
  BY <1>6 DEF Good

\* In the place of a piece that never got a false answer the file holds nothing
\* but published bytes at their published offsets.
THEOREM HonestFile == ASSUME InRange PROVE Spec => []HonestPlaceInFile
<1>1. Init => IInv /\ FileOK /\ HonestDisk
  BY InitOK, TypesInit, HonestDiskInit
<1>2. IInv /\ FileOK /\ HonestDisk /\ [Next]_vars => (IInv /\ FileOK /\ HonestDisk)'
  BY StepOK, TypesStep, HonestDiskStep
<1>3. HonestDisk => HonestPlaceInFile
  BY DEF HonestDisk, PublishedIn, HonestPlaceInFile
<1> QED
  BY <1>1, <1>2, <1>3, PTL DEF Spec

\* A flush wrote no more than a piece.
ShortFlushed == \A p \in Pieces : Len(flushed[p]) <= PieceLength

LEMMA FlushedStep ==
    ASSUME InRange, IInv, FileOK, ShortFlushed, FlushedNotLost, [Next]_vars
    PROVE  ShortFlushed' /\ FlushedNotLost'
<1>1. CASE DiskAlone /\ UNCHANGED <<fileBad, up>>
  BY <1>1, AloneEffect DEF ShortFlushed, FlushedNotLost
<1>2. ASSUME NEW q \in Pieces, Flush(q) PROVE ShortFlushed' /\ FlushedNotLost'
  <2> DEFINE b == Dumped(subs[q])
  <2>1. b \in Seq(Units) /\ Len(b) <= PieceLength
    BY DumpedFits, SizesInRange
  <2>2. flushed' = [flushed EXCEPT ![q] = b] /\ up /\ ~fileBad
    BY <1>2 DEF Flush, Ready
  <2>3. ShortFlushed'
    BY <2>1, <2>2 DEF ShortFlushed, FileOK
  <2>4. ASSUME NEW p \in Pieces, NEW k \in 1..Len(flushed'[p])
        PROVE  Drained'[p * PieceLength + k - 1] = flushed'[p][k]
    <3> DEFINE x == p * PieceLength + k - 1
    <3>1. k \in 1..PieceLength
      <4>1. flushed'[p] \in Seq(Units)
        BY <1>2, FlushEffect DEF FileOK
      <4> QED
        BY <2>3, <4>1, PieceAssumption DEF ShortFlushed
    <3>2. x \in Positions
      BY <3>1, PlaceOf
    <3>3. Drained'[x] = IF In(q, x) THEN Byte(q, x) ELSE Drained[x]
      BY <1>2, <3>2, FlushEffect
    <3>4. CASE p = q
      <4>1. flushed'[p] = b /\ k \in 1..Len(b)
        BY <2>2, <3>4 DEF FileOK
      <4>2. In(q, x)
        BY <2>1, <3>1, <3>4, <4>1, HasPlace
      <4>3. Byte(q, x) = b[k]
        BY <3>1, <3>4, <4>2, InPlace
      <4> QED
        BY <3>3, <4>1, <4>2, <4>3
    <3>5. CASE p # q
      <4>1. flushed'[p] = flushed[p] /\ k \in 1..Len(flushed[p])
        BY <2>2, <3>5 DEF FileOK
      <4>2. ~In(q, x)
        BY <3>1, <3>5, InPlace
      <4> QED
        BY <2>2, <3>3, <4>1, <4>2 DEF FlushedNotLost
    <3> QED
      BY <3>4, <3>5
  <2> QED
    BY <2>3, <2>4 DEF FlushedNotLost
<1>3. ASSUME NEW q \in Pieces, FlushFails(q) PROVE ShortFlushed' /\ FlushedNotLost'
  BY <1>3 DEF FlushFails, ShortFlushed, FlushedNotLost
<1>4. CASE Stop \/ Construct \/ PathChanges
  <2>1. CASE PathChanges
    BY <2>1 DEF PathChanges, ShortFlushed, FlushedNotLost
  <2>2. CASE Stop \/ Construct
    <3>1. flushed' = [p \in Pieces |-> <<>>]
      BY <2>2 DEF Stop, Construct, Constructed
    <3>2. Len(<<>>) = 0 /\ PieceLength \in Nat
      BY PieceAssumption
    <3> QED
      BY <3>1, <3>2 DEF ShortFlushed, FlushedNotLost
  <2> QED
    BY <1>4, <2>1, <2>2
<1> QED
  BY <1>1, <1>2, <1>3, <1>4, DiskSteps

\* Until a flush fails or the program ends, what a flush that returned wrote
\* is in the file or in the buffer, in the place of its piece.
THEOREM FlushedStays == ASSUME InRange PROVE Spec => []FlushedNotLost
<1>1. Init => ShortFlushed /\ FlushedNotLost
  <2>1. Len(<<>>) = 0 /\ PieceLength \in Nat
    BY PieceAssumption
  <2> QED
    BY <2>1 DEF Init, ShortFlushed, FlushedNotLost
<1>2. IInv /\ FileOK /\ ShortFlushed /\ FlushedNotLost /\ [Next]_vars
        => (ShortFlushed /\ FlushedNotLost)'
  BY FlushedStep
<1> QED
  BY <1>1, <1>2, TypesHold, PTL DEF Spec
============================================================================
