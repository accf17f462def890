------------------------- MODULE PeerChannelProofs -------------------------
(* PeerSession implements PeerChannel: its safety half, for any lengths,   *)
(* buffer, timeout and bounds.                                             *)
EXTENDS PeerSessionProofs

Units == Ops \X (1..(4 * PartLen))

\* An operation ends at k only if unit k is its last one.
LEMMA EndingUnit ==
    ASSUME NEW s \in Seq(Units), NEW k \in 1..Len(s), NEW o \in Ending(s, k)
    PROVE  o \in Ops /\ s[k] = <<o, OpLen(o)>>
<1>1. o \in Ops /\ OpLen(o) <= k
      /\ SubSeq(s, k - OpLen(o) + 1, k) = [i \in 1..OpLen(o) |-> <<o, i>>]
  BY DEF Ending
<1>2. OpLen(o) \in Nat \ {0}
  BY <1>1, OpLens DEF Ops
<1> DEFINE n == OpLen(o)
<1>3. n \in Nat \ {0} /\ n <= k /\ k \in Nat /\ k <= Len(s) /\ Len(s) \in Nat
  BY <1>1, <1>2
<1> HIDE DEF n
<1>4. k - n + 1 \in 1..(Len(s) + 1) /\ k \in 0..Len(s) /\ n \in 1..(k - (k - n + 1) + 1)
      /\ (k - n + 1) + n - 1 = k
  BY <1>3
<1>5. SubSeq(s, k - n + 1, k)[n] = s[(k - n + 1) + n - 1]
  BY <1>4, WindowType
<1>6. [i \in 1..n |-> <<o, i>>][n] = <<o, n>>
  BY <1>2 DEF n
<1> QED
  BY <1>1, <1>4, <1>5, <1>6 DEF n

\* So at most one operation ends there.
LEMMA EndingOne ==
    ASSUME NEW s \in Seq(Units), NEW k \in 1..Len(s)
    PROVE  Ending(s, k) = {} \/ \E o \in Ops : Ending(s, k) = {o}
<1> SUFFICES ASSUME NEW o \in Ending(s, k) PROVE Ending(s, k) = {o}
  BY EndingUnit
<1>1. ASSUME NEW r \in Ending(s, k) PROVE r = o
  BY EndingUnit
<1> QED
  BY <1>1

LEMMA EndingSeq ==
    ASSUME NEW s \in Seq(Units), NEW k \in 1..Len(s)
    PROVE  SetToSeq(Ending(s, k)) \in Seq(Ops)
<1>1. CASE Ending(s, k) = {}
  BY <1>1, SetToSeqEmpty, EmptyType
<1>2. ASSUME NEW o \in Ops, Ending(s, k) = {o} PROVE SetToSeq(Ending(s, k)) \in Seq(Ops)
  <2>1. <<o>> \in Seq(Ops)
    OBVIOUS
  <2> QED
    BY <1>2, <2>1, SetToSeqSingleton
<1> QED
  BY <1>1, <1>2, EndingOne

\* What ends at k does not depend on what comes behind it.
LEMMA EndingOfAppend ==
    ASSUME NEW s \in Seq(Units), NEW e \in Units, NEW k \in 1..Len(s)
    PROVE  Ending(Append(s, e), k) = Ending(s, k)
<1>1. ASSUME NEW o \in Ops, OpLen(o) <= k
      PROVE  SubSeq(Append(s, e), k - OpLen(o) + 1, k) = SubSeq(s, k - OpLen(o) + 1, k)
  <2>1. OpLen(o) \in Nat
    BY OpLens DEF Ops
  <2>2. k - OpLen(o) + 1 \in Nat \ {0} /\ k \in 0..Len(s)
    BY <1>1, <2>1
  <2> QED
    BY <2>2, SubSeqOfAppend
<1> QED
  BY <1>1 DEF Ending

\* The operations in a stream, one unit after another.
Ends(s) == [k \in 1..Len(s) |-> SetToSeq(Ending(s, k))]

LEMMA WholeIsJoined == ASSUME NEW s PROVE Whole(s) = Joined(Ends(s), Len(s))
<1>1. Initial(Ends(s), Len(s)) = [k \in 1..Len(s) |-> SetToSeq(Ending(s, k))]
  BY DEF Initial, Ends
<1> QED
  BY <1>1 DEF Whole, Joined

LEMMA WholeType == ASSUME NEW s \in Seq(Units) PROVE Whole(s) \in Seq(Ops)
<1>1. \A k \in 1..Len(s) : Ends(s)[k] \in Seq(Ops)
  BY EndingSeq DEF Ends
<1>2. Len(s) \in Nat
  OBVIOUS
<1> HIDE DEF Ends
<1> QED
  BY <1>1, <1>2, JoinedType, WholeIsJoined

LEMMA WholeNone == Whole(<<>>) = <<>>
<1>1. Len(<<>>) = 0
  OBVIOUS
<1> QED
  BY <1>1, WholeIsJoined, JoinedNone

\* A unit more adds the operation that ends with it.
LEMMA WholeOfAppend ==
    ASSUME NEW s \in Seq(Units), NEW e \in Units
    PROVE  Whole(Append(s, e)) = Whole(s) \o SetToSeq(Ending(Append(s, e), Len(s) + 1))
<1> DEFINE t == Append(s, e)
           n == Len(s)
<1>1. t \in Seq(Units) /\ n \in Nat /\ Len(t) = n + 1
  OBVIOUS
<1>2. \A k \in 1..n : Ends(t)[k] = Ends(s)[k]
  BY <1>1, EndingOfAppend DEF Ends
<1>3. n + 1 \in 1..Len(t)
  BY <1>1
<1>4. Ends(t)[n + 1] = SetToSeq(Ending(t, n + 1)) /\ Ends(t)[n + 1] \in Seq(Ops)
  BY <1>1, <1>3, EndingSeq DEF Ends
<1> HIDE DEF t, n, Ends
<1>5. Joined(Ends(t), n) = Joined(Ends(s), n)
  BY <1>1, <1>2, JoinedSame
<1>6. Joined(Ends(t), n + 1) = Joined(Ends(t), n) \o Ends(t)[n + 1]
  BY <1>1, <1>4, JoinedNext
<1> QED
  BY <1>1, <1>4, <1>5, <1>6, WholeIsJoined DEF t, n

----------------------------------------------------------------------------
(* What the kernel's copying of a unit does to the operations.             *)

\* The running operation is through with the unit that is copied next.
Completes == part = Parts(op) /\ sent + copied + 1 = PartLen

LEMMA OffsetOf ==
    ASSUME IInv, KernelCopy
    PROVE  /\ Offset \in Nat /\ Offset + 1 \in 1..OpLen(op)
           /\ Completes <=> Offset + 1 = OpLen(op)
           /\ op \in Ops /\ OpLen(op) \in Nat
           /\ OpLen(op) <= 4 * PartLen /\ 4 * PartLen \in Nat
<1>1. /\ sent + copied < PartLen /\ part \in 1..Parts(op)
      /\ sent \in Nat /\ copied \in Nat /\ PartLen \in Nat \ {0} /\ op \in Ops
  BY SessionAssumption DEF KernelCopy, IInv, Counted, Numbers, Labels
<1>2. Parts(op) \in {2, 4}
  BY DEF Parts
<1>3. CASE Parts(op) = 2
  BY <1>1, <1>3 DEF Offset, OpLen, Completes
<1>4. CASE Parts(op) = 4
  BY <1>1, <1>4 DEF Offset, OpLen, Completes
<1> QED
  BY <1>1, <1>2, <1>3, <1>4

\* On a sound connection the units before it are those of the operation.
LEMMA Behind ==
    ASSUME IInv, InPlace, Framed, KernelCopy, ~failed
    PROVE  /\ sock /\ Offset <= Len(out)
           /\ \A i \in 1..Offset : out[Len(out) - Offset + i] = <<op, i>>
           /\ op = "request" => Len(out) >= H
           /\ op = "handshake" => Len(out) = Offset
<1>1. sock /\ call = "send" /\ op \in {"handshake", "request"}
  BY DEF InPlace, KernelCopy, Sending, IInv, Labels, Ops
<1>2. Len(out) \in Nat /\ \A k \in 1..Len(out) : out[k] = Expected(k)
  BY <1>1 DEF IInv, Written, Framed
<1>3. Offset \in Nat /\ Offset + 1 \in 1..OpLen(op)
  BY OffsetOf
<1>4. CASE op = "handshake"
  <2>1. Len(out) = Offset
    BY <1>1, <1>4 DEF InPlace
  <2>2. ASSUME NEW i \in 1..Offset PROVE out[Len(out) - Offset + i] = <<op, i>>
    <3>1. Len(out) - Offset + i = i /\ i \in 1..Len(out) /\ i \in 1..H
      BY <1>2, <1>3, <1>4, <2>1, OpLens
    <3> QED
      BY <1>2, <1>4, <3>1, ExpectedAt
  <2> QED
    BY <1>1, <1>3, <1>4, <2>1, <2>2
<1>5. CASE op = "request"
  <2>1. PICK q \in Nat : Len(out) - Offset = H + q * R
    BY <1>1, <1>5 DEF InPlace, Boundary
  <2>2. q * R \in Nat
    BY OpLens
  <2>3. ASSUME NEW i \in 1..Offset PROVE out[Len(out) - Offset + i] = <<op, i>>
    <3>1. Len(out) - Offset + i = H + q * R + i
      BY <2>1
    <3>2. H + q * R + i \in 1..Len(out) /\ i \in 1..R
      BY <1>2, <1>3, <1>5, <2>1, <2>2, OpLens
    <3> QED
      BY <1>2, <1>5, <3>1, <3>2, ExpectedAt
  <2>4. Offset <= Len(out) /\ Len(out) >= H
    BY <1>2, <1>3, <2>1, <2>2, OpLens
  <2> QED
    BY <1>1, <1>5, <2>3, <2>4
<1> QED
  BY <1>1, <1>4, <1>5

\* The last unit of an operation adds that operation, every other one none.
LEMMA EndingOfCopy ==
    ASSUME IInv, InPlace, Framed, KernelCopy, ~failed
    PROVE  Ending(out', Len(out) + 1) = IF Completes THEN {op} ELSE {}
<1> DEFINE n == OpLen(op)
           m == Len(out)
           e == <<op, Offset + 1>>
<1>1. out \in Seq(Units) /\ m \in Nat
  BY DEF IInv, Written, Units
<1>2. out' = Append(out, e)
  BY DEF KernelCopy, Offset
<1>3. e \in Units
  <2>1. Offset + 1 \in 1..(4 * PartLen) /\ op \in Ops
    BY OffsetOf
  <2> QED
    BY <2>1 DEF Units
<1>4. out' \in Seq(Units) /\ Len(out') = m + 1 /\ out'[m + 1] = e
      /\ \A i \in 1..m : out'[i] = out[i]
  BY <1>1, <1>2, <1>3
<1>5. ASSUME NEW o \in Ending(out', m + 1) PROVE o = op /\ Completes
  <2>1. m + 1 \in 1..Len(out')
    BY <1>1, <1>4
  <2>2. out'[m + 1] = <<o, OpLen(o)>>
    BY <1>4, <2>1, EndingUnit
  <2> QED
    BY <1>4, <2>2, OffsetOf
<1>6. ASSUME Completes PROVE op \in Ending(out', m + 1)
  <2>1. n = Offset + 1 /\ n \in Nat /\ op \in Ops
    BY <1>6, OffsetOf
  <2>2. Offset <= m /\ \A i \in 1..Offset : out[m - Offset + i] = <<op, i>>
    BY Behind
  <2>3. Offset \in Nat
    BY OffsetOf
  <2> HIDE DEF n, m, e
  <2>4. n <= m + 1 /\ (m + 1) - n + 1 = m - Offset + 1
    BY <1>1, <2>1, <2>2, <2>3
  <2> DEFINE a == m - Offset + 1
             u == SubSeq(out', a, m + 1)
  <2>5. a \in 1..(Len(out') + 1) /\ m + 1 \in 0..Len(out') /\ (m + 1) - a + 1 = n /\ a <= m + 1
    BY <1>1, <1>4, <2>1, <2>2, <2>3
  <2> HIDE DEF a
  <2>6. u \in Seq(Units) /\ Len(u) = n /\ \A k \in 1..n : u[k] = out'[a + k - 1]
    BY <1>4, <2>5, WindowType
  <2> HIDE DEF u
  <2>7. ASSUME NEW k \in 1..n PROVE u[k] = <<op, k>>
    <3>1. CASE k = n
      <4>1. a + k - 1 = m + 1
        BY <1>1, <2>1, <2>3, <3>1 DEF a
      <4> QED
        BY <1>4, <2>1, <2>6, <3>1, <4>1 DEF e
    <3>2. CASE k # n
      <4>1. k \in 1..Offset /\ a + k - 1 = m - Offset + k /\ m - Offset + k \in 1..m
        BY <1>1, <2>1, <2>2, <2>3, <3>2 DEF a
      <4> QED
        BY <1>4, <2>2, <2>6, <4>1
    <3> QED
      BY <3>1, <3>2
  <2>8. u = [i \in 1..n |-> <<op, i>>]
    <3>1. [i \in 1..n |-> <<op, i>>] = [i \in 1..Len(u) |-> u[i]]
      BY <2>6, <2>7
    <3>2. u = [i \in 1..Len(u) |-> u[i]]
      BY <2>6, SeqEqual
    <3> QED
      BY <3>1, <3>2
  <2>9. SubSeq(out', (m + 1) - n + 1, m + 1) = [i \in 1..n |-> <<op, i>>]
    BY <2>4, <2>8 DEF u, a
  <2> QED
    BY <2>1, <2>4, <2>9 DEF Ending, n
<1> QED
  BY <1>5, <1>6

LEMMA WholeOfCopy ==
    ASSUME IInv, InPlace, Framed, KernelCopy, ~failed
    PROVE  Whole(out') = IF Completes THEN Append(Whole(out), op) ELSE Whole(out)
<1>1. out \in Seq(Units) /\ <<op, Offset + 1>> \in Units /\ op \in Ops
  <2>1. Offset + 1 \in 1..(4 * PartLen) /\ op \in Ops
    BY OffsetOf
  <2> QED
    BY <2>1 DEF Units, IInv, Written
<1>2. out' = Append(out, <<op, Offset + 1>>)
  BY DEF KernelCopy, Offset
<1>3. Whole(out') = Whole(out) \o SetToSeq(Ending(out', Len(out) + 1))
  BY <1>1, <1>2, WholeOfAppend
<1>4. Whole(out) \in Seq(Ops)
  BY <1>1, WholeType
<1>5. CASE Completes
  <2>1. SetToSeq(Ending(out', Len(out) + 1)) = <<op>>
    BY <1>5, EndingOfCopy, SetToSeqSingleton
  <2> QED
    BY <1>1, <1>3, <1>4, <1>5, <2>1, AppendIsConcat
<1>6. CASE ~Completes
  <2>1. SetToSeq(Ending(out', Len(out) + 1)) = <<>>
    BY <1>6, EndingOfCopy, SetToSeqEmpty
  <2> QED
    BY <1>3, <1>4, <1>6, <2>1, ConcatNone
<1> QED
  BY <1>5, <1>6

----------------------------------------------------------------------------
(* A connection that carries a whole handshake carries an operation.       *)
Begun == sock /\ ~failed /\ Len(out) >= H => Whole(out) # <<>>

CInv == IInv /\ InPlace /\ Framed /\ Begun

LEMMA BegunStep == IInv /\ InPlace /\ Framed /\ Begun /\ Next => Begun'
<1> SUFFICES ASSUME IInv, InPlace, Framed, Begun, Next, sock', ~failed', Len(out') >= H
             PROVE  Whole(out') # <<>>
  BY DEF Begun, H
<1>1. CASE KernelCopy
  <2>1. ~failed /\ sock
    BY <1>1, Behind DEF KernelCopy
  <2>2. Whole(out) \in Seq(Ops) /\ Len(out) \in Nat /\ Len(out') = Len(out) + 1
    BY <1>1, WholeType DEF IInv, Written, Units, KernelCopy
  <2>3. CASE Completes
    <3>1. Whole(out') = Append(Whole(out), op)
      BY <1>1, <2>1, <2>3, WholeOfCopy
    <3>2. Append(Whole(out), op) # <<>>
      BY <2>2
    <3> QED
      BY <3>1, <3>2
  <2>4. CASE ~Completes
    <3>1. Whole(out') = Whole(out)
      BY <1>1, <2>1, <2>4, WholeOfCopy
    <3>2. Len(out) >= H
      <4>1. CASE op = "request"
        BY <1>1, <2>1, <4>1, Behind
      <4>2. CASE op = "handshake"
        <5>1. Len(out) = Offset /\ Offset + 1 \in 1..H /\ Offset + 1 # H
          BY <1>1, <2>1, <2>4, <4>2, Behind, OffsetOf, OpLens
        <5>2. H \in Nat
          BY OpLens
        <5> QED
          BY <2>2, <5>1, <5>2
      <4> QED
        BY <1>1, <4>1, <4>2, OffsetOf DEF Ops
    <3> QED
      BY <2>1, <3>1, <3>2 DEF Begun
  <2> QED
    BY <2>3, <2>4
<1>2. CASE out' = <<>>
  BY <1>2, OpLens
<1>3. CASE out' = out /\ sock /\ ~failed
  BY <1>3 DEF Begun
<1> QED
  BY <1>1, <1>2, <1>3, OutSteps

LEMMA ChannelInvariant == Spec => []CInv
<1>1. Init => InPlace /\ Framed /\ Begun
  BY DEF Init, InPlace, Framed, Begun
<1>2. CInv /\ UNCHANGED vars => (InPlace /\ Framed /\ Begun)'
  BY DEF CInv, vars, sending, wire, InPlace, Framed, Begun, Offset, Expected, H
<1>3. CInv /\ [Next]_vars => (InPlace /\ Framed /\ Begun)'
  BY <1>2, InPlaceStep, FramedStep, BegunStep DEF CInv
<1> QED
  BY <1>1, <1>3, Inductive, PTL DEF Spec, CInv

----------------------------------------------------------------------------
(* Every step of the session is a step of the channel or shows nothing.    *)

\* What the client sees is a function of these.
Seen == <<call, op, part, sent, copied, sock, out, failed>>

LEMMA SeenSame == ASSUME UNCHANGED Seen PROVE UNCHANGED Channel!cvars
<1>1. Link' = Link
  BY DEF Seen, Link
<1>2. Current' = Current
  BY DEF Seen, Current, InHand, Parts
<1>3. OnWire' = OnWire
  BY <1>1 DEF Seen, OnWire, Whole, Ending, OpLen, Parts
<1> QED
  BY <1>1, <1>2, <1>3 DEF Channel!cvars

\* No sending call runs before and after, and the connection is the same.
LEMMA IdleSame ==
    ASSUME call \in {"none", "recv"}, call' \in {"none", "recv"},
           UNCHANGED <<sock, out, failed>>
    PROVE  UNCHANGED Channel!cvars
<1>1. Link' = Link
  BY DEF Link
<1>2. Current' = "none" /\ Current = "none"
  BY DEF Current, InHand
<1>3. OnWire' = OnWire
  BY <1>1 DEF OnWire, Whole, Ending, OpLen, Parts
<1> QED
  BY <1>1, <1>2, <1>3 DEF Channel!cvars

LEMMA HandshakeConnects == ASSUME CInv, Handshake PROVE Channel!Connect
<1>1. call = "none" /\ call' = "send" /\ op' = "handshake" /\ part' = 1 /\ copied' = 0
      /\ sent' = 0 /\ sock' = TRUE /\ failed' = FALSE /\ out' = <<>>
  BY DEF Handshake, EnterSend, Ready
<1>2. Current = "none" /\ Link # "lost"
  BY <1>1 DEF Current, InHand, Link
<1>3. Link' = "open"
  BY <1>1 DEF Link
<1>4. Current' = "handshake"
  BY <1>1, SessionAssumption DEF Current, InHand, Parts
<1>5. OnWire' = <<>>
  <2>1. Whole(out)' = Whole(out')
    BY DEF Whole, Ending, OpLen, Parts
  <2> QED
    BY <1>1, <1>3, <2>1, WholeNone DEF OnWire
<1> QED
  BY <1>2, <1>3, <1>4, <1>5 DEF Channel!Connect

LEMMA SendMessageBegins ==
    ASSUME CInv, SendMessage
    PROVE  Channel!Begin \/ UNCHANGED Channel!cvars
<1>1. call = "none" /\ call' = "send" /\ op' = "request" /\ part' = 1 /\ copied' = 0
      /\ sent' = 0 /\ sock /\ UNCHANGED <<sock, failed, out>>
  BY DEF SendMessage, EnterSend, Ready, wire
<1>2. Current = "none" /\ Link' = Link
  BY <1>1 DEF Current, InHand, Link
<1>3. OnWire' = OnWire
  BY <1>1, <1>2 DEF OnWire, Whole, Ending, OpLen, Parts
<1>4. CASE failed
  <2>1. Current' = "none"
    BY <1>1, <1>4 DEF Current, InHand
  <2> QED
    BY <1>2, <1>3, <2>1 DEF Channel!cvars
<1>5. CASE ~failed
  <2>1. Link = "open" /\ OnWire = Whole(out)
    BY <1>1, <1>5 DEF Link, OnWire
  <2>2. Boundary(Len(out))
    BY <1>1, <1>5 DEF CInv, InPlace
  <2>3. Len(out) >= H
    <3>1. PICK q \in Nat : Len(out) = H + q * R
      BY <2>2 DEF Boundary
    <3>2. q * R \in Nat
      BY OpLens
    <3> QED
      BY <3>1, <3>2, OpLens
  <2>4. OnWire # <<>>
    BY <1>1, <1>5, <2>1, <2>3 DEF CInv, Begun
  <2>5. Current' = "request"
    BY <1>1, <1>5, SessionAssumption DEF Current, InHand, Parts
  <2> QED
    BY <1>2, <1>3, <2>1, <2>4, <2>5 DEF Channel!Begin
<1> QED
  BY <1>4, <1>5

LEMMA CopyDelivers ==
    ASSUME CInv, KernelCopy
    PROVE  Channel!Deliver \/ UNCHANGED Channel!cvars
<1>1. /\ call = "send" /\ sent + copied < PartLen /\ copied' = copied + 1
      /\ UNCHANGED <<call, op, part, sent, sock, failed>>
  BY DEF KernelCopy, Sending
<1>2. Link' = Link
  BY <1>1 DEF Link
<1>3. sent \in Nat /\ copied \in Nat /\ PartLen \in Nat /\ op \in Ops
  BY SessionAssumption DEF CInv, IInv, Numbers, Labels
<1>4. CASE failed
  <2>1. Current = "none" /\ Current' = "none" /\ Link # "open"
    BY <1>1, <1>4 DEF Current, InHand, Link
  <2>2. OnWire = <<>> /\ OnWire' = <<>>
    BY <1>2, <2>1 DEF OnWire
  <2> QED
    BY <1>2, <2>1, <2>2 DEF Channel!cvars
<1>5. CASE ~failed
  <2>1. Current = op /\ op # "none"
    BY <1>1, <1>3, <1>5 DEF Current, InHand, Ops
  <2>2. Link = "open"
    BY <1>1, <1>5, Behind DEF CInv, Link
  <2>3. OnWire = Whole(out) /\ OnWire' = Whole(out')
    BY <1>2, <2>2 DEF OnWire, Whole, Ending, OpLen, Parts
  <2>4. Current' = IF Completes THEN "none" ELSE op
    BY <1>1, <1>3, <1>5 DEF Current, InHand, Completes, Parts
  <2>5. Whole(out') = IF Completes THEN Append(Whole(out), op) ELSE Whole(out)
    BY <1>5, WholeOfCopy DEF CInv
  <2>6. CASE Completes
    BY <1>2, <2>1, <2>3, <2>4, <2>5, <2>6 DEF Channel!Deliver
  <2>7. CASE ~Completes
    BY <1>2, <2>1, <2>3, <2>4, <2>5, <2>7 DEF Channel!cvars
  <2> QED
    BY <2>6, <2>7
<1> QED
  BY <1>4, <1>5

LEMMA FailsGivesUp ==
    ASSUME CInv, SendFails
    PROVE  Channel!GiveUp \/ UNCHANGED Channel!cvars
<1>1. /\ call = "send" /\ sent < PartLen /\ copied = 0 /\ call' = "none" /\ failed'
      /\ UNCHANGED <<op, sock, out>> /\ sock
  BY DEF SendFails, Sending, Leave, sending, CInv, InPlace
<1>2. sent \in Nat /\ PartLen \in Nat /\ op \in Ops
  BY SessionAssumption DEF CInv, IInv, Numbers, Labels
<1>3. Link' = "failed" /\ Current' = "none"
  BY <1>1 DEF Link, Current, InHand
<1>4. OnWire' = <<>>
  BY <1>3 DEF OnWire
<1>5. CASE failed
  <2>1. Link = "failed" /\ Current = "none"
    BY <1>1, <1>5 DEF Link, Current, InHand
  <2>2. OnWire = <<>>
    BY <2>1 DEF OnWire
  <2> QED
    BY <1>3, <1>4, <2>1, <2>2 DEF Channel!cvars
<1>6. CASE ~failed
  <2>1. Current # "none"
    BY <1>1, <1>2, <1>6 DEF Current, InHand, Ops
  <2> QED
    BY <1>3, <1>4, <2>1 DEF Channel!GiveUp
<1> QED
  BY <1>5, <1>6

LEMMA KilledLoses == ASSUME CInv, SendKilled PROVE Channel!GiveUp \/ Channel!Lose
<1>1. /\ call = "send" /\ sent < PartLen /\ copied = 0 /\ call' = "killed" /\ sock
  BY DEF SendKilled, Sending, CInv, InPlace
<1>2. sent \in Nat /\ PartLen \in Nat /\ op \in Ops
  BY SessionAssumption DEF CInv, IInv, Numbers, Labels
<1>3. Link' = "lost" /\ Current' = "none"
  BY <1>1 DEF Link, Current, InHand
<1>4. OnWire' = <<>>
  BY <1>3 DEF OnWire
<1>5. CASE failed
  <2>1. Link = "failed" /\ Current = "none"
    BY <1>1, <1>5 DEF Link, Current, InHand
  <2>2. OnWire = <<>>
    BY <2>1 DEF OnWire
  <2> QED
    BY <1>3, <1>4, <2>1, <2>2 DEF Channel!Lose
<1>6. CASE ~failed
  <2>1. Current # "none"
    BY <1>1, <1>2, <1>6 DEF Current, InHand, Ops
  <2> QED
    BY <1>3, <1>4, <2>1 DEF Channel!GiveUp
<1> QED
  BY <1>5, <1>6

LEMMA PartSentShowsNothing == ASSUME CInv, PartSent PROVE UNCHANGED Channel!cvars
<1>1. call = "send" /\ sent + copied = PartLen /\ UNCHANGED <<sock, out, failed>>
  BY DEF PartSent, Sending, wire
<1>2. call' \in {"send", "none"}
  BY DEF PartSent, EnterSend, Leave
<1>3. Link' = Link
  BY <1>1, <1>2 DEF Link
<1>4. Current' = Current
  <2>1. CASE part < Parts(op)
    <3>1. call' = "send" /\ op' = op /\ part' = part + 1 /\ sent' = 0 /\ copied' = 0
      BY <2>1 DEF PartSent, EnterSend
    <3>2. part # Parts(op) /\ sent' + copied' # PartLen
      BY <2>1, <3>1, SessionAssumption DEF CInv, IInv, Numbers, Parts
    <3> QED
      BY <1>1, <3>1, <3>2 DEF Current, InHand
  <2>2. CASE ~(part < Parts(op))
    <3>1. call' = "none" /\ part = Parts(op)
      BY <2>2 DEF PartSent, Leave, CInv, IInv, Counted, Numbers, Parts
    <3> QED
      BY <1>1, <3>1 DEF Current, InHand
  <2> QED
    BY <2>1, <2>2
<1>5. OnWire' = OnWire
  BY <1>1, <1>3 DEF OnWire, Whole, Ending, OpLen, Parts
<1> QED
  BY <1>3, <1>4, <1>5 DEF Channel!cvars

LEMMA PartialShowsNothing == ASSUME CInv, SendPartial PROVE UNCHANGED Channel!cvars
<1>1. /\ sent' = sent + copied /\ copied' = 0
      /\ UNCHANGED <<call, op, part, sock, out, failed>>
      /\ sent + copied \in Nat
  BY DEF SendPartial, wire, CInv, IInv, Numbers
<1>2. sent' + copied' = sent + copied
  BY <1>1
<1>3. Link' = Link
  BY <1>1 DEF Link
<1>4. Current' = Current
  BY <1>1, <1>2 DEF Current, InHand, Parts
<1>5. OnWire' = OnWire
  BY <1>1, <1>3 DEF OnWire, Whole, Ending, OpLen, Parts
<1> QED
  BY <1>3, <1>4, <1>5 DEF Channel!cvars

LEMMA ChannelStep == CInv /\ [Next]_vars => [Channel!Next]_(Channel!cvars)
<1> SUFFICES ASSUME CInv, [Next]_vars PROVE Channel!Next \/ UNCHANGED Channel!cvars
  OBVIOUS
<1>1. CASE Handshake
  BY <1>1, HandshakeConnects DEF Channel!Next
<1>2. CASE SendMessage
  BY <1>2, SendMessageBegins DEF Channel!Next
<1>3. CASE KernelCopy
  BY <1>3, CopyDelivers DEF Channel!Next
<1>4. CASE SendFails
  BY <1>4, FailsGivesUp DEF Channel!Next
<1>5. CASE SendKilled
  BY <1>5, KilledLoses DEF Channel!Next
<1>6. CASE PartSent
  BY <1>6, PartSentShowsNothing
<1>7. CASE SendPartial
  BY <1>7, PartialShowsNothing
<1>8. CASE SendKeepalive \/ WaitForMessage \/ RecvData \/ RecvFails
  <2>1. call \in {"none", "recv"} /\ call' \in {"none", "recv"}
        /\ UNCHANGED <<sock, out, failed>>
    BY <1>8 DEF SendKeepalive, WaitForMessage, RecvData, RecvFails, Leave, wire, Ready,
                Receiving
  <2> QED
    BY <2>1, IdleSame
<1>9. CASE \/ Tick \/ RecvSpins \/ UNCHANGED vars
           \/ HandshakeCannotConnect \/ CallUnconnected \/ KeepaliveUnconnected
           \/ RemoteReads \/ RemoteSends \/ RemoteCloses \/ RemoteResets
  <2>1. UNCHANGED Seen
    BY <1>9 DEF Seen, Tick, RecvSpins, vars, sending, wire, client,
           HandshakeCannotConnect, CallUnconnected, KeepaliveUnconnected,
           RemoteReads, RemoteSends, RemoteCloses, RemoteResets
  <2> QED
    BY <2>1, SeenSame
<1> QED
  BY <1>1, <1>2, <1>3, <1>4, <1>5, <1>6, <1>7, <1>8, <1>9 DEF Next

\* For any lengths, buffer and timeout the session implements the channel.
THEOREM SessionImplementsChannel == Spec => ChannelImplemented
<1>1. Init => Channel!Init
  <2> SUFFICES ASSUME Init PROVE Link = "none" /\ Current = "none" /\ OnWire = <<>>
    BY DEF Channel!Init
  <2>1. Link = "none" /\ Current = "none"
    BY DEF Init, Link, Current, InHand
  <2> QED
    BY <2>1 DEF OnWire
<1>2. CInv /\ [Next]_vars => [Channel!Next]_(Channel!cvars)
  BY ChannelStep
<1> QED
  BY <1>1, <1>2, ChannelInvariant, PTL DEF Spec, ChannelImplemented, Channel!Spec
============================================================================
