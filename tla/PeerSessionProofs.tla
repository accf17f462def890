------------------------- MODULE PeerSessionProofs -------------------------
(* PeerSession for any part length, send buffer, timeout and bounds.       *)
EXTENDS PeerSession, DataLemmas, TLAPS

\* TypeOK by the kind of value.
Labels ==
    /\ call \in {"none", "send", "recv", "killed"}
    /\ op \in Ops
    /\ armed \in BOOLEAN /\ sock \in BOOLEAN /\ failed \in BOOLEAN
    /\ remote \in {"up", "fin", "reset", "broken"}
    /\ outcome \in {"none", "ok", "exception", "out_of_range", "bad_optional"}

Numbers ==
    /\ part \in 1..4
    /\ sent \in 0..PartLen /\ copied \in 0..PartLen
    /\ elapsed \in 0..Timeout
    /\ queue \in 0..Cap /\ inbox \in 0..MaxIn

Waiting == waited \in 0..(Timeout * PartLen)

Written == out \in Seq(Ops \X (1..(4 * PartLen)))

\* A Sock::send never counts more units than its part has, and an operation
\* sends no part that it does not have.
Counted == sent + copied <= PartLen /\ part <= Parts(op)

IInv ==
    /\ Labels /\ Numbers /\ Waiting /\ Written
    /\ Counted /\ SendBlockedBounded /\ TimeoutIffInCall

LEMMA TypeParts == TypeOK <=> Labels /\ Numbers /\ Waiting /\ Written
BY DEF TypeOK, Labels, Numbers, Waiting, Written

\* The timeout is at least one tick long.
LEMMA TimeoutType == Timeout \in Nat \ {0}
BY SessionAssumption DEF Timeout

\* The position of a unit lies inside the longest operation.
LEMMA PositionType ==
    ASSUME NEW k \in 1..4, NEW n \in Nat, n < PartLen
    PROVE  (k - 1) * PartLen + n + 1 \in 1..(4 * PartLen)
<1>1. PartLen \in Nat
  BY SessionAssumption
<1> QED
  BY <1>1

\* Time that was waited for earlier units, and one full timeout for the next.
LEMMA OneMore ==
    ASSUME NEW m \in Nat, NEW n \in Nat, m < n
    PROVE  /\ Timeout * m \in Nat /\ Timeout * n \in Nat
           /\ Timeout * m + Timeout <= Timeout * n
<1>1. PICK d \in Nat : n = m + 1 + d
  <2>1. n - m - 1 \in Nat /\ n = m + 1 + (n - m - 1)
    OBVIOUS
  <2> QED
    BY <2>1
<1>2. Timeout * n = Timeout * m + Timeout + Timeout * d
  BY <1>1, TimeoutType
<1>3. Timeout * m \in Nat /\ Timeout * d \in Nat
  BY TimeoutType
<1> QED
  BY <1>2, <1>3, TimeoutType

LEMMA InitOK == Init => IInv
<1> SUFFICES ASSUME Init PROVE IInv
  OBVIOUS
<1>1. Labels
  BY DEF Init, Labels, Ops
<1>2. Numbers /\ Counted
  BY TimeoutType, SessionAssumption DEF Init, Numbers, Counted, Parts
<1>3. Waiting
  <2>1. Timeout * PartLen \in Nat
    BY TimeoutType, SessionAssumption
  <2> QED
    BY <2>1 DEF Init, Waiting
<1>4. Written
  <2>1. ASSUME NEW S PROVE <<>> \in Seq(S)
    OBVIOUS
  <2> QED
    BY <2>1, Zenon DEF Init, Written
<1> QED
  BY <1>1, <1>2, <1>3, <1>4 DEF Init, IInv, SendBlockedBounded, TimeoutIffInCall

\* Flags and the program counter keep their values.
LEMMA LabelsStep == IInv /\ Next => Labels'
<1> SUFFICES ASSUME IInv, Next PROVE Labels'
  OBVIOUS
<1> USE DEF IInv, Labels, Ops, sending, wire, client, vars,
           enable_timeout, disable_timeout
<1>1. CASE Handshake \/ SendMessage
  BY <1>1 DEF Handshake, SendMessage, EnterSend
<1>2. CASE HandshakeCannotConnect \/ CallUnconnected \/ KeepaliveUnconnected
  BY <1>2 DEF HandshakeCannotConnect, CallUnconnected, KeepaliveUnconnected
<1>3. CASE SendKeepalive \/ WaitForMessage
  BY <1>3 DEF SendKeepalive, WaitForMessage, Leave
<1>4. CASE KernelCopy \/ Tick \/ SendPartial \/ SendKilled
  BY <1>4 DEF KernelCopy, Tick, SendPartial, SendKilled
<1>5. CASE PartSent
  BY <1>5 DEF PartSent, EnterSend, Leave
<1>6. CASE SendFails \/ RecvData \/ RecvFails \/ RecvSpins
  BY <1>6 DEF SendFails, RecvData, RecvFails, RecvSpins, Leave
<1>7. CASE RemoteReads \/ RemoteSends \/ RemoteCloses \/ RemoteResets
  BY <1>7 DEF RemoteReads, RemoteSends, RemoteCloses, RemoteResets
<1> QED
  BY <1>1, <1>2, <1>3, <1>4, <1>5, <1>6, <1>7 DEF Next

\* Counts stay in their ranges: what the kernel still copies is what the part
\* still lacks, and a part follows only when the operation has another.
LEMMA NumbersStep == IInv /\ Next => (Numbers /\ Counted)'
<1> SUFFICES ASSUME IInv, Next PROVE (Numbers /\ Counted)'
  OBVIOUS
<1> USE TimeoutType, SessionAssumption
    DEF IInv, Numbers, Counted, Parts, sending, wire, client, vars
<1>1. CASE Handshake \/ SendMessage
  <2>1. part' = 1 /\ sent' = 0 /\ copied' = 0 /\ elapsed' = 0
    BY <1>1 DEF Handshake, SendMessage, EnterSend
  <2>2. queue' \in 0..Cap /\ inbox' \in 0..MaxIn
    BY <1>1 DEF Handshake, SendMessage
  <2> QED
    BY <2>1, <2>2
<1>2. CASE HandshakeCannotConnect \/ CallUnconnected \/ KeepaliveUnconnected
  BY <1>2 DEF HandshakeCannotConnect, CallUnconnected, KeepaliveUnconnected
<1>3. CASE SendKeepalive \/ WaitForMessage
  BY <1>3 DEF SendKeepalive, WaitForMessage, Leave
<1>4. CASE KernelCopy
  BY <1>4 DEF KernelCopy
<1>5. CASE Tick \/ SendPartial \/ SendKilled
  BY <1>5 DEF Tick, SendPartial, SendKilled
<1>6. CASE PartSent
  BY <1>6 DEF PartSent, EnterSend, Leave, Labels, Ops
<1>7. CASE SendFails \/ RecvData \/ RecvFails \/ RecvSpins
  BY <1>7 DEF SendFails, RecvData, RecvFails, RecvSpins, Leave, Receiving
<1>8. CASE RemoteReads \/ RemoteSends \/ RemoteCloses \/ RemoteResets
  BY <1>8 DEF RemoteReads, RemoteSends, RemoteCloses, RemoteResets
<1> QED
  BY <1>1, <1>2, <1>3, <1>4, <1>5, <1>6, <1>7, <1>8 DEF Next

\* No Sock::send waits for more than one timeout per unit it got through and
\* one more: a shorter count starts the timer again, but it counts a unit.
LEMMA WaitingStep == IInv /\ Next => (Waiting /\ SendBlockedBounded)'
<1> SUFFICES ASSUME IInv, Next PROVE (Waiting /\ SendBlockedBounded)'
  OBVIOUS
<1> USE DEF IInv, Numbers, Waiting, SendBlockedBounded, sending, wire, client, vars
<1>1. /\ PartLen \in Nat \ {0} /\ Timeout \in Nat \ {0}
      /\ sent \in Nat /\ copied \in Nat /\ elapsed \in Nat /\ waited \in Nat
  BY TimeoutType, SessionAssumption
<1>2. CASE Handshake \/ SendMessage
  <2>1. waited' = 0 /\ sent' = 0 /\ elapsed' = 0
    BY <1>2 DEF Handshake, SendMessage, EnterSend
  <2>2. Timeout * PartLen \in Nat /\ Timeout * 0 = 0
    BY <1>1
  <2> QED
    BY <2>1, <2>2
<1>3. CASE Tick
  <2>1. sent < PartLen /\ elapsed < Timeout /\ call = "send"
    BY <1>1, <1>3 DEF Tick, Sending
  <2>2. Timeout * sent + Timeout <= Timeout * PartLen
    BY <1>1, <2>1, OneMore
  <2>3. waited' = waited + 1 /\ elapsed' = elapsed + 1 /\ sent' = sent
    BY <1>3 DEF Tick
  <2>4. Timeout * sent \in Nat /\ Timeout * PartLen \in Nat
    BY <1>1, <2>1, OneMore
  <2> QED
    BY <1>1, <2>1, <2>2, <2>3, <2>4
<1>4. CASE SendPartial
  <2>1. sent < sent + copied /\ call = "send"
    BY <1>1, <1>4 DEF SendPartial, Sending
  <2>2. Timeout * sent + Timeout <= Timeout * (sent + copied)
    BY <1>1, <2>1, OneMore
  <2>3. waited' = waited /\ elapsed' = 0 /\ sent' = sent + copied
    BY <1>4 DEF SendPartial
  <2>4. Timeout * sent \in Nat /\ Timeout * (sent + copied) \in Nat
    BY <1>1, <2>1, OneMore
  <2> QED
    BY <1>1, <2>1, <2>2, <2>3, <2>4
<1>5. CASE PartSent
  <2>1. \/ waited' = 0 /\ sent' = 0 /\ elapsed' = 0
        \/ waited' = waited /\ call' = "none"
    BY <1>5 DEF PartSent, EnterSend, Leave
  <2>2. Timeout * PartLen \in Nat /\ Timeout * 0 = 0
    BY <1>1
  <2> QED
    BY <2>1, <2>2
<1>6. CASE UNCHANGED <<call, sent, elapsed, waited>>
  BY <1>6
<1>7. CASE waited' = waited /\ call' # "send"
  BY <1>7
<1>8. \/ UNCHANGED <<call, sent, elapsed, waited>>
      \/ waited' = waited /\ call' # "send"
      \/ Handshake \/ SendMessage \/ Tick \/ SendPartial \/ PartSent
  BY DEF Next, HandshakeCannotConnect, CallUnconnected, KeepaliveUnconnected,
         SendKeepalive, WaitForMessage, Leave, KernelCopy, SendFails, SendKilled,
         RecvData, RecvFails, RecvSpins, RemoteReads, RemoteSends, RemoteCloses,
         RemoteResets
<1> QED
  BY <1>2, <1>3, <1>4, <1>5, <1>6, <1>7, <1>8

\* The stream stays a sequence of units.
LEMMA WrittenStep == IInv /\ Next => Written'
<1> SUFFICES ASSUME IInv, Next PROVE Written'
  OBVIOUS
<1>1. CASE KernelCopy
  <2>1. sent + copied \in Nat /\ sent + copied < PartLen /\ part \in 1..4
    BY <1>1, SessionAssumption DEF IInv, Numbers, KernelCopy
  <2>2. (part - 1) * PartLen + (sent + copied) + 1 \in 1..(4 * PartLen)
    BY <2>1, PositionType
  <2>3. (part - 1) * PartLen + sent + copied + 1
          = (part - 1) * PartLen + (sent + copied) + 1
    BY SessionAssumption DEF IInv, Numbers
  <2>4. ASSUME NEW S, NEW s \in Seq(S), NEW e \in S PROVE Append(s, e) \in Seq(S)
    OBVIOUS
  <2>5. out' = Append(out, <<op, (part - 1) * PartLen + (sent + copied) + 1>>)
    BY <1>1, <2>3 DEF KernelCopy
  <2>6. <<op, (part - 1) * PartLen + (sent + copied) + 1>> \in Ops \X (1..(4 * PartLen))
    BY <2>2, Zenon DEF IInv, Labels
  <2> QED
    BY <2>4, <2>5, <2>6, Zenon DEF IInv, Written
<1>2. CASE out' = <<>>
  <2>1. ASSUME NEW S PROVE <<>> \in Seq(S)
    OBVIOUS
  <2> QED
    BY <1>2, <2>1, Zenon DEF Written
<1>3. CASE out' = out
  BY <1>3 DEF IInv, Written
<1>4. KernelCopy \/ out' = <<>> \/ out' = out
  BY DEF Next, sending, wire, client, vars,
         Handshake, SendMessage, Tick, SendPartial, PartSent,
         HandshakeCannotConnect, CallUnconnected, KeepaliveUnconnected,
         SendKeepalive, WaitForMessage, SendFails, SendKilled,
         RecvData, RecvFails, RecvSpins, RemoteReads, RemoteSends, RemoteCloses,
         RemoteResets
<1> QED
  BY <1>1, <1>2, <1>3, <1>4

\* Every way into a Sock call sets SO_SNDTIMEO, every way out of one resets it.
LEMMA ArmedStep == IInv /\ Next => TimeoutIffInCall'
BY DEF IInv, TimeoutIffInCall, enable_timeout, disable_timeout, Labels, Next, sending, wire, client, vars, Ready, Sending,
       Receiving, EnterSend, Leave, Handshake, HandshakeCannotConnect, SendMessage,
       SendKeepalive, WaitForMessage, CallUnconnected, KeepaliveUnconnected,
       KernelCopy, Tick, SendPartial, PartSent, SendFails, SendKilled,
       RecvData, RecvFails, RecvSpins, RemoteReads, RemoteSends, RemoteCloses,
       RemoteResets

LEMMA Inductive == Spec => []IInv
<1>1. IInv /\ UNCHANGED vars => IInv'
  BY DEF IInv, Labels, Numbers, Waiting, Written, Counted, SendBlockedBounded,
         TimeoutIffInCall, vars, sending, wire
<1>2. IInv /\ [Next]_vars => IInv'
  BY <1>1, LabelsStep, NumbersStep, WaitingStep, WrittenStep, ArmedStep DEF IInv
<1> QED
  BY InitOK, <1>2, PTL DEF Spec

\* Type correctness of the session: in particular a Sock::send never waits
\* longer than one timeout per unit of its data.
THEOREM TypeCorrect == Spec => []TypeOK
BY Inductive, TypeParts, PTL DEF IInv

\* However short the counts of ::send are, a Sock::send was blocked for at most
\* one timeout per unit it got through and the time of the running ::send.
THEOREM BlockedBounded == Spec => []SendBlockedBounded
BY Inductive, PTL DEF IInv

\* The timeout is on the socket exactly while a Sock::send or Sock::recv runs.
THEOREM TimeoutInCall == Spec => []TimeoutIffInCall
BY Inductive, PTL DEF IInv

----------------------------------------------------------------------------
(* Framing: where the running ::send is in its operation says how long the *)
(* stream is.                                                              *)
H == 4 * PartLen
R == 2 * PartLen

\* Units of the running operation on the wire.
Offset == (part - 1) * PartLen + sent + copied

\* After the handshake and whole requests.
Boundary(n) == \E q \in Nat : n = H + q * R

InPlace ==
    /\ call = "send" => sock
    /\ sock /\ ~failed =>
         /\ call = "send" /\ op = "handshake" => Len(out) = Offset
         /\ call = "send" /\ op = "request" => Boundary(Len(out) - Offset)
         /\ call \in {"none", "recv"} => Boundary(Len(out))

LEMMA OpLens ==
    /\ OpLen("handshake") = H /\ OpLen("request") = R
    /\ H \in Nat \ {0} /\ R \in Nat \ {0}
BY SessionAssumption DEF OpLen, Parts, H, R

\* What is expected at a position of the handshake, or of the q-th request.
LEMMA ExpectedAt ==
    /\ \A j \in 1..H : Expected(j) = <<"handshake", j>>
    /\ \A q \in Nat, j \in 1..R : Expected(H + q * R + j) = <<"request", j>>
<1>1. ASSUME NEW j \in 1..H PROVE Expected(j) = <<"handshake", j>>
  BY OpLens DEF Expected
<1>2. ASSUME NEW q \in Nat, NEW j \in 1..R
      PROVE  Expected(H + q * R + j) = <<"request", j>>
  <2>1. q * R \in Nat
    BY OpLens
  <2>2. ~(H + q * R + j <= H)
    BY <2>1, OpLens
  <2>3. (H + q * R + j) - H - 1 = q * R + (j - 1)
    BY <2>1, OpLens
  <2>4. (q * R + (j - 1)) % R = j - 1
    <3>1. j - 1 \in 0..(R - 1)
      BY OpLens
    <3> QED
      BY <3>1, OpLens, Remainder
  <2> QED
    BY <2>2, <2>3, <2>4, OpLens DEF Expected
<1> QED
  BY <1>1, <1>2

\* The next unit that the kernel copies is the one expected there.
LEMMA NextUnit ==
    ASSUME IInv, InPlace, KernelCopy, ~failed
    PROVE  <<op, Offset + 1>> = Expected(Len(out) + 1)
<1> USE DEF IInv, Numbers, Counted
<1>1. sock /\ call = "send" /\ op \in {"handshake", "request"}
  BY DEF InPlace, KernelCopy, Sending, Labels, Ops
<1>2. sent + copied < PartLen
  BY DEF KernelCopy
<1>3. CASE op = "handshake"
  <2>1. Offset + 1 \in 1..H
    BY <1>2, <1>3, SessionAssumption DEF Offset, H
  <2> QED
    BY <1>1, <1>3, <2>1, ExpectedAt DEF InPlace
<1>4. CASE op = "request"
  <2>1. Offset \in Nat /\ Offset + 1 \in 1..R
    BY <1>2, <1>4, SessionAssumption DEF Offset, R, Parts
  <2>2. PICK q \in Nat : Len(out) - Offset = H + q * R
    BY <1>1, <1>4 DEF InPlace, Boundary
  <2>3. Len(out) \in Nat
    BY DEF Written
  <2>4. q * R \in Nat
    BY OpLens
  <2>5. Len(out) + 1 = H + q * R + (Offset + 1)
    BY <2>1, <2>2, <2>3, <2>4, OpLens
  <2> QED
    BY <1>4, <2>1, <2>5, ExpectedAt
<1> QED
  BY <1>1, <1>3, <1>4

\* A sound connection gets units from the kernel only, or is a new one.
LEMMA OutSteps ==
    ASSUME IInv, Next, sock', ~failed'
    PROVE  KernelCopy \/ out' = <<>> \/ (out' = out /\ sock /\ ~failed)
<1> USE DEF IInv, Labels, sending, wire, client, vars
<1>1. CASE Handshake \/ KernelCopy \/ SendFails
  BY <1>1 DEF Handshake, SendFails
<1>2. CASE SendMessage \/ Tick \/ SendPartial \/ PartSent \/ SendKilled
  BY <1>2 DEF SendMessage, Tick, SendPartial, PartSent, SendKilled
<1>3. CASE HandshakeCannotConnect \/ CallUnconnected \/ KeepaliveUnconnected
  BY <1>3 DEF HandshakeCannotConnect, CallUnconnected, KeepaliveUnconnected
<1>4. CASE SendKeepalive \/ WaitForMessage \/ RecvData \/ RecvFails \/ RecvSpins
  BY <1>4 DEF SendKeepalive, WaitForMessage, RecvData, RecvFails, RecvSpins
<1>5. CASE RemoteReads \/ RemoteSends \/ RemoteCloses \/ RemoteResets
  BY <1>5 DEF RemoteReads, RemoteSends, RemoteCloses, RemoteResets
<1> QED
  BY <1>1, <1>2, <1>3, <1>4, <1>5 DEF Next

LEMMA FramedStep == IInv /\ InPlace /\ Framed /\ Next => Framed'
<1> SUFFICES ASSUME IInv, InPlace, Framed, Next, sock', ~failed', NEW k \in 1..Len(out')
             PROVE  out'[k] = Expected(k)
  BY DEF Framed, Expected
<1>1. CASE KernelCopy
  <2>1. sock /\ ~failed /\ call = "send"
    BY <1>1 DEF KernelCopy, Sending
  <2>2. out' = Append(out, <<op, (part - 1) * PartLen + sent + copied + 1>>)
    BY <1>1 DEF KernelCopy
  <2>3. out' = Append(out, Expected(Len(out) + 1))
    BY <1>1, <2>1, <2>2, NextUnit DEF Offset
  <2>4. out \in Seq(Ops \X (1..(4 * PartLen)))
    BY DEF IInv, Written
  <2>5. ASSUME NEW S, NEW s \in Seq(S), NEW e, NEW i \in 1..Len(Append(s, e))
        PROVE  Append(s, e)[i] = IF i <= Len(s) THEN s[i] ELSE e
    OBVIOUS
  <2>6. ASSUME NEW S, NEW s \in Seq(S), NEW e
        PROVE  Len(Append(s, e)) = Len(s) + 1 /\ Len(s) \in Nat
    OBVIOUS
  <2>7. k \in 1..Len(Append(out, Expected(Len(out) + 1)))
    BY <2>3
  <2>8. out'[k] = IF k <= Len(out) THEN out[k] ELSE Expected(Len(out) + 1)
    BY <2>3, <2>4, <2>5, <2>7
  <2>9. k <= Len(out) \/ k = Len(out) + 1
    BY <2>4, <2>6, <2>7
  <2>10. CASE k <= Len(out)
    <3>1. k \in 1..Len(out)
      BY <2>4, <2>6, <2>7, <2>10
    <3> QED
      BY <2>1, <2>8, <2>10, <3>1 DEF Framed
  <2>11. CASE k = Len(out) + 1
    BY <2>4, <2>6, <2>8, <2>11
  <2> QED
    BY <2>9, <2>10, <2>11
<1>2. CASE out' = <<>>
  BY <1>2
<1>3. CASE out' = out /\ sock /\ ~failed
  BY <1>3 DEF Framed
<1> QED
  BY <1>1, <1>2, <1>3, OutSteps

\* A whole request more.
LEMMA NextBoundary == \A n \in Nat : Boundary(n) => Boundary(n + R)
<1> SUFFICES ASSUME NEW n \in Nat, NEW q \in Nat, n = H + q * R PROVE Boundary(n + R)
  BY DEF Boundary
<1>1. q * R \in Nat /\ (q + 1) * R = q * R + R
  BY OpLens
<1>2. n + R = H + (q + 1) * R
  BY <1>1, OpLens
<1> QED
  BY <1>2 DEF Boundary

\* A Sock::send that returned is followed by the next part, or it was the last
\* one and the stream ends where an operation does.
LEMMA InPlacePartSent == IInv /\ InPlace /\ PartSent => InPlace'
<1> SUFFICES ASSUME IInv, InPlace, PartSent PROVE InPlace'
  OBVIOUS
<1> USE DEF IInv, Numbers, Counted
<1>1. /\ call = "send" /\ sock /\ sent + copied = PartLen /\ op \in {"handshake", "request"}
      /\ sock' = sock /\ out' = out /\ failed' = failed
  BY DEF PartSent, Sending, InPlace, wire, Labels, Ops
<1>2. Len(out) \in Nat
  BY DEF Written
<1>3. CASE part < Parts(op)
  <2>1. call' = "send" /\ op' = op /\ part' = part + 1 /\ sent' = 0 /\ copied' = 0
    BY <1>3 DEF PartSent, EnterSend
  <2>2. Offset' = Offset
    BY <1>1, <2>1, SessionAssumption DEF Offset
  <2> QED
    BY <1>1, <2>1, <2>2 DEF InPlace
<1>4. CASE ~(part < Parts(op))
  <2>1. call' = "none"
    BY <1>4 DEF PartSent, Leave
  <2>2. part = Parts(op)
    BY <1>1, <1>4 DEF Parts
  <2>3. Offset = OpLen(op)
    BY <1>1, <2>2, SessionAssumption DEF Offset, Parts, OpLen
  <2>4. ASSUME ~failed PROVE Boundary(Len(out))
    <3>1. CASE op = "handshake"
      <4>1. Len(out) = H + 0 * R
        BY <1>1, <2>3, <2>4, <3>1, OpLens DEF InPlace
      <4> QED
        BY <4>1 DEF Boundary
    <3>2. CASE op = "request"
      <4>1. Boundary(Len(out) - R)
        BY <1>1, <2>3, <2>4, <3>2, OpLens DEF InPlace
      <4>2. Len(out) - R \in Nat
        <5>1. PICK q \in Nat : Len(out) - R = H + q * R
          BY <4>1 DEF Boundary
        <5>2. q * R \in Nat
          BY OpLens
        <5> QED
          BY <5>1, <5>2, OpLens
      <4>3. (Len(out) - R) + R = Len(out)
        BY <1>2, OpLens
      <4> QED
        BY <4>1, <4>2, <4>3, NextBoundary
    <3> QED
      BY <1>1, <3>1, <3>2
  <2> QED
    BY <1>1, <2>1, <2>4 DEF InPlace
<1> QED
  BY <1>3, <1>4

LEMMA InPlaceStep == IInv /\ InPlace /\ Next => InPlace'
<1> SUFFICES ASSUME IInv, InPlace, Next PROVE InPlace'
  OBVIOUS
<1>1. Len(out) \in Nat
  BY DEF IInv, Written
<1>2. CASE Handshake
  <2>1. call' = "send" /\ op' = "handshake" /\ sock' = TRUE /\ out' = <<>>
        /\ part' = 1 /\ sent' = 0 /\ copied' = 0
    BY <1>2 DEF Handshake, EnterSend
  <2>2. Offset' = 0
    BY <2>1, SessionAssumption DEF Offset
  <2> QED
    BY <2>1, <2>2 DEF InPlace
<1>3. CASE SendMessage
  <2>1. call' = "send" /\ op' = "request" /\ sock' = sock /\ sock /\ out' = out
        /\ part' = 1 /\ sent' = 0 /\ copied' = 0 /\ failed' = failed /\ call = "none"
    BY <1>3 DEF SendMessage, EnterSend, wire, Ready
  <2>2. Offset' = 0
    BY <2>1, SessionAssumption DEF Offset
  <2>3. Len(out) - 0 = Len(out)
    BY <1>1
  <2> QED
    BY <2>1, <2>2, <2>3 DEF InPlace
<1>4. CASE KernelCopy
  <2>1. call' = "send" /\ call = "send" /\ op' = op /\ sock' = sock /\ failed' = failed
        /\ part' = part /\ sent' = sent /\ copied' = copied + 1
    BY <1>4 DEF KernelCopy, Sending
  <2>2. Offset \in Int /\ Offset' = Offset + 1
    BY <2>1, SessionAssumption DEF Offset, IInv, Numbers
  <2>3. Len(out') = Len(out) + 1
    BY <1>4 DEF KernelCopy, IInv, Written
  <2>4. Len(out') - Offset' = Len(out) - Offset
    BY <1>1, <2>2, <2>3
  <2> QED
    BY <1>1, <2>1, <2>2, <2>3, <2>4 DEF InPlace
<1>5. CASE SendPartial
  <2>1. call' = "send" /\ call = "send" /\ op' = op /\ sock' = sock /\ failed' = failed
        /\ part' = part /\ sent' = sent + copied /\ copied' = 0 /\ out' = out
    BY <1>5 DEF SendPartial, Sending, wire
  <2>2. Offset' = Offset
    BY <2>1, SessionAssumption DEF Offset, IInv, Numbers
  <2> QED
    BY <2>1, <2>2 DEF InPlace
<1>6. CASE PartSent
  BY <1>6, InPlacePartSent
<1>7. CASE Tick
  <2>1. UNCHANGED <<call, op, part, sent, copied, sock, out, failed>>
    BY <1>7 DEF Tick, wire
  <2> QED
    BY <2>1 DEF InPlace, Offset
<1>8. CASE SendKilled \/ SendFails
  BY <1>8 DEF SendKilled, SendFails, Leave, InPlace
<1>9. CASE HandshakeCannotConnect \/ CallUnconnected \/ KeepaliveUnconnected
  BY <1>9 DEF HandshakeCannotConnect, CallUnconnected, KeepaliveUnconnected, sending,
              wire, InPlace, Offset
<1>10. CASE SendKeepalive \/ WaitForMessage \/ RecvData \/ RecvFails
  <2>1. call \in {"none", "recv"} /\ call' \in {"none", "recv"}
        /\ UNCHANGED <<sock, out, failed>>
    BY <1>10 DEF SendKeepalive, WaitForMessage, RecvData, RecvFails, Leave, wire, Ready,
                 Receiving
  <2> QED
    BY <2>1 DEF InPlace
<1>11. CASE RecvSpins
  BY <1>11 DEF RecvSpins, vars, sending, wire, InPlace, Offset
<1>12. CASE RemoteReads \/ RemoteSends \/ RemoteCloses \/ RemoteResets
  BY <1>12 DEF RemoteReads, RemoteSends, RemoteCloses, RemoteResets, client, sending,
               InPlace, Offset
<1> QED
  BY <1>2, <1>3, <1>4, <1>5, <1>6, <1>7, <1>8, <1>9, <1>10, <1>11, <1>12 DEF Next

\* Until an operation throws, the connection carries one handshake and then
\* whole requests in order, for any lengths, buffer and timeout.
THEOREM StreamFramed == Spec => []Framed
<1>1. Init => InPlace /\ Framed
  BY DEF Init, InPlace, Framed
<1>2. IInv /\ InPlace /\ Framed /\ UNCHANGED vars => InPlace' /\ Framed'
  BY DEF vars, sending, wire, InPlace, Framed, Offset, Expected
<1>3. IInv /\ InPlace /\ Framed /\ [Next]_vars => InPlace' /\ Framed'
  BY <1>2, InPlaceStep, FramedStep
<1> QED
  BY <1>1, <1>3, Inductive, PTL DEF Spec
============================================================================
