--------------------------- MODULE TorrentProofs ---------------------------
(* Torrent for any ports, responses and numbers of jobs, pieces and peers. *)
EXTENDS Torrent, DataLemmas, TLAPS

----------------------------------------------------------------------------
(* send_request: the first check that fails decides.                       *)

LEMMA FirstFound ==
    ASSUME NEW s, NEW n \in Nat, DOMAIN s = 1..n, Len(s) = n
    PROVE  IF \A i \in 1..n : s[i] = "ok" THEN FirstNotOk(s) = "ok"
           ELSE \E i \in 1..n : s[i] # "ok" /\ FirstNotOk(s) = s[i]
<1> DEFINE I == {i \in 1..n : s[i] # "ok"}
           k == SelectInSeq(s, LAMBDA o : o # "ok")
<1>1. k = IF I # {} THEN Min(I) ELSE 0
  BY DEF SelectInSeq
<1>2. FirstNotOk(s) = IF k = 0 THEN "ok" ELSE s[k]
  BY DEF FirstNotOk
<1> HIDE DEF k
<1>3. CASE \A i \in 1..n : s[i] = "ok"
  BY <1>1, <1>2, <1>3
<1>4. CASE \E i \in 1..n : s[i] # "ok"
  <2>1. PICK m \in I : \A j \in I : m <= j
    <3>1. I \subseteq Nat /\ I # {}
      BY <1>4
    <3> HIDE DEF I
    <3> QED
      BY <3>1, Least
  <2>2. Min(I) \in I
    BY <2>1 DEF Min
  <2>3. k \in 1..n /\ s[k] # "ok"
    BY <1>1, <2>2
  <2>4. FirstNotOk(s) = s[k]
    BY <1>2, <2>3
  <2> QED
    BY <1>4, <2>3, <2>4
<1> QED
  BY <1>3, <1>4

\* The same of the entries of a peer list.
LEMMA FirstBadFound ==
    ASSUME NEW r \in Responses
    PROVE  /\ FirstBad(r) = 0 <=> \A e \in Range(r.entries) : e.kind = "peer"
           /\ FirstBad(r) # 0 => FirstBad(r) \in 1..Len(r.entries)
<1> DEFINE s == r.entries
           I == {i \in 1..Len(s) : s[i].kind # "peer"}
<1>1. s \in Seq([kind : {"peer", "nodict", "nokey", "badtype"}, port : Ports])
  BY TorrentAssumption
<1>2. Len(s) \in Nat /\ DOMAIN s = 1..Len(s)
  BY <1>1
<1>3. FirstBad(r) = IF I # {} THEN Min(I) ELSE 0
  BY DEF FirstBad, SelectInSeq
<1>4. Range(s) = {s[i] : i \in 1..Len(s)}
  BY <1>2 DEF Range
<1>5. CASE I = {}
  BY <1>3, <1>4, <1>5
<1>6. CASE I # {}
  <2>1. PICK m \in I : \A j \in I : m <= j
    <3>1. I \subseteq Nat
      BY <1>2
    <3> HIDE DEF I
    <3> QED
      BY <1>6, <3>1, Least
  <2>2. Min(I) \in I
    BY <2>1 DEF Min
  <2>3. FirstBad(r) \in I
    BY <1>3, <1>6, <2>2
  <2>4. 0 \notin I
    BY <1>2
  <2> QED
    BY <1>4, <2>3, <2>4
<1> QED
  BY <1>5, <1>6

Outcomes == {"ok", "tracker", "bencode", "bad_optional"}

LEMMA CheckTypes ==
    ASSUME NEW r \in Responses
    PROVE  /\ QueryOutcome(r) \in Outcomes /\ BodyOutcomes(r) \subseteq Outcomes
           /\ FailureOutcome(r) \in Outcomes /\ IntervalOutcome(r) \in Outcomes
           /\ PeersOutcome(r) \in Outcomes
BY TorrentAssumption DEF Outcomes, QueryOutcome, BodyOutcomes, FailureOutcome,
   IntervalOutcome, PeersOutcome, Fields

LEMMA ChecksOk ==
    ASSUME NEW r \in Responses
    PROVE  /\ QueryOutcome(r) = "ok" <=> r.curl
           /\ "ok" \in BodyOutcomes(r) <=> r.body \in {"dict", "truncated"}
           /\ r.body = "dict" => BodyOutcomes(r) = {"ok"}
           /\ FailureOutcome(r) = "ok" <=> r.failure = "absent"
           /\ IntervalOutcome(r) = "ok" <=> r.interval = "int"
           /\ PeersOutcome(r) = "ok" <=>
                \/ r.peers = "compact" /\ ~r.ragged
                \/ r.peers = "list" /\ FirstBad(r) = 0
<1>1. QueryOutcome(r) = "ok" <=> r.curl
  BY DEF QueryOutcome
<1>2. /\ "ok" \in BodyOutcomes(r) <=> r.body \in {"dict", "truncated"}
      /\ r.body = "dict" => BodyOutcomes(r) = {"ok"}
  BY TorrentAssumption DEF BodyOutcomes
<1>3. FailureOutcome(r) = "ok" <=> r.failure = "absent"
  BY TorrentAssumption DEF FailureOutcome, Fields
<1>4. IntervalOutcome(r) = "ok" <=> r.interval = "int"
  BY TorrentAssumption DEF IntervalOutcome, Fields
<1>5. PeersOutcome(r) = "ok" <=>
        \/ r.peers = "compact" /\ ~r.ragged
        \/ r.peers = "list" /\ FirstBad(r) = 0
  BY TorrentAssumption DEF PeersOutcome
<1> QED
  BY <1>1, <1>2, <1>3, <1>4, <1>5

\* send_request returns exactly when the parser does and no field has a fault.
LEMMA RequestOk ==
    ASSUME NEW r \in Responses, NEW body \in BodyOutcomes(r)
    PROVE  /\ SendRequest(r, body) \in Outcomes
           /\ SendRequest(r, body) = "ok" <=> body = "ok" /\ FieldsFine(r)
<1> DEFINE s == <<QueryOutcome(r), body, FailureOutcome(r),
                  IntervalOutcome(r), PeersOutcome(r)>>
<1>1. DOMAIN s = 1..5 /\ Len(s) = 5 /\ 5 \in Nat
  OBVIOUS
<1>2. \A i \in 1..5 : s[i] \in Outcomes
  BY CheckTypes
<1>3. (\A i \in 1..5 : s[i] = "ok") <=>
        /\ QueryOutcome(r) = "ok" /\ body = "ok" /\ FailureOutcome(r) = "ok"
        /\ IntervalOutcome(r) = "ok" /\ PeersOutcome(r) = "ok"
  OBVIOUS
<1>4. SendRequest(r, body) = FirstNotOk(s)
  BY DEF SendRequest
<1>5. "ok" \in Outcomes
  BY DEF Outcomes
<1> HIDE DEF s
<1>6. IF \A i \in 1..5 : s[i] = "ok" THEN FirstNotOk(s) = "ok"
      ELSE \E i \in 1..5 : s[i] # "ok" /\ FirstNotOk(s) = s[i]
  BY <1>1, FirstFound
<1>7. SendRequest(r, body) \in Outcomes
  BY <1>2, <1>4, <1>5, <1>6
<1>8. SendRequest(r, body) = "ok" <=> \A i \in 1..5 : s[i] = "ok"
  BY <1>4, <1>6
<1>9. FieldsFine(r) <=>
        /\ QueryOutcome(r) = "ok" /\ FailureOutcome(r) = "ok"
        /\ IntervalOutcome(r) = "ok" /\ PeersOutcome(r) = "ok"
  BY ChecksOk, FirstBadFound DEF FieldsFine
<1> QED
  BY <1>3, <1>7, <1>8, <1>9

----------------------------------------------------------------------------
(* The loop that merges peers.                                             *)

\* Objects that are not in the list yet are passed over, all of them.
LEMMA MergedKeeps ==
    ASSUME NEW known, NEW fresh, Len(fresh) \in Nat,
           \A i \in 1..Len(fresh) : fresh[i].obj \notin Objects(known)
    PROVE  Merged(known, fresh) = known
<1> DEFINE n == Len(fresh)
           Loops(f) == f = [i \in 0..n |-> IF i = 0 THEN known
                                           ELSE Merge(f[i - 1], fresh[i])]
           after == CHOOSE f : Loops(f)
           g == [i \in 0..n |-> known]
<1>1. Merged(known, fresh) = after[n]
  BY DEF Merged
<1>2. Loops(g)
  <2>1. ASSUME NEW i \in 0..n, i # 0 PROVE Merge(g[i - 1], fresh[i]) = known
    <3>1. i - 1 \in 0..n /\ i \in 1..n
      BY <2>1
    <3> QED
      BY <3>1 DEF Merge
  <2> QED
    BY <2>1
<1>3. Loops(after)
  <2> HIDE DEF Loops, g
  <2> QED
    BY <1>2
<1>4. ASSUME NEW i \in 0..n
      PROVE  after[i] = IF i = 0 THEN known ELSE Merge(after[i - 1], fresh[i])
  <2> HIDE DEF after
  <2> QED
    BY <1>3
<1> DEFINE S == {i \in Nat : i <= n => after[i] = known}
<1> HIDE DEF after
<1>5. 0 \in S
  BY <1>4
<1>6. ASSUME NEW i \in Nat, i \in S PROVE i + 1 \in S
  <2> SUFFICES ASSUME i + 1 <= n PROVE after[i + 1] = known
    OBVIOUS
  <2>1. i + 1 \in 0..n /\ i + 1 \in 1..n /\ (i + 1) - 1 = i /\ i + 1 # 0 /\ i <= n
    OBVIOUS
  <2>2. after[i + 1] = Merge(after[i], fresh[i + 1]) /\ after[i] = known
    BY <1>4, <1>6, <2>1
  <2> QED
    BY <2>1, <2>2 DEF Merge
<1> HIDE DEF S
<1>7. Nat \subseteq S
  BY <1>5, <1>6, Induction
<1> QED
  BY <1>1, <1>7 DEF S

----------------------------------------------------------------------------
(* The state.                                                              *)
Addrs == 0..(PortWord - 1)
Endings == {"none", "ok", "tracker", "bencode", "bad_optional",
            "runtime_error", "out_of_range", "peer", "undefined"}
PeerType == [obj : 0..MaxPeers, addr : Addrs]
AllJobs == Jobs(Objects(peers))

\* Objects are numbered as they enter the list, so that a new object is never
\* one that is in it.
Numbered == \A k \in 1..Len(peers) : peers[k].obj \in 0..k

IInv ==
    /\ peers \in Seq(PeerType)
    /\ made \in Seq(AllJobs) /\ queue \in Seq(AllJobs)
    /\ connected \subseteq Objects(peers)
    /\ learned \subseteq Addrs
    /\ response \in Responses \cup {NoResponse}
    /\ outcome \in Endings
    /\ Numbered /\ AnswerSound /\ Len(peers) <= MaxPeers

LEMMA NarrowType == ASSUME NEW port \in Nat PROVE Narrow(port) \in Addrs
BY TorrentAssumption DEF Narrow, Addrs

LEMMA GivenType ==
    ASSUME NEW r \in Responses
    PROVE  /\ Len(Given(r)) \in Nat /\ DOMAIN Given(r) = 1..Len(Given(r))
           /\ Range(Given(r)) \subseteq Addrs
<1>1. r.entries \in Seq([kind : {"peer", "nodict", "nokey", "badtype"}, port : Ports])
  BY TorrentAssumption
<1>2. Len(r.entries) \in Nat /\ \A k \in 1..Len(r.entries) : r.entries[k].port \in Nat
  <2>1. Len(r.entries) \in Nat
    BY <1>1
  <2>2. ASSUME NEW k \in 1..Len(r.entries) PROVE r.entries[k].port \in Nat
    <3>1. r.entries[k] \in [kind : {"peer", "nodict", "nokey", "badtype"}, port : Ports]
      <4>1. ASSUME NEW T, NEW s \in Seq(T), NEW j \in 1..Len(s) PROVE s[j] \in T
        OBVIOUS
      <4> QED
        BY <1>1, <4>1, Zenon
    <3>2. r.entries[k].port \in Ports
      BY <3>1
    <3>3. Ports \subseteq Nat
      BY TorrentAssumption
    <3> QED
      BY <3>2, <3>3
  <2> QED
    BY <2>1, <2>2
<1>3. DOMAIN Given(r) = 1..Len(r.entries) /\ Len(Given(r)) = Len(r.entries)
  BY <1>2 DEF Given
<1>4. \A k \in 1..Len(r.entries) : Given(r)[k] \in Addrs
  BY <1>2, NarrowType DEF Given
<1> QED
  BY <1>2, <1>3, <1>4 DEF Range

\* The peers of an answer are new objects: nothing of them is merged.
LEMMA AnswerMergesNothing ==
    ASSUME IInv, NEW r \in Responses
    PROVE  Merged(peers, [i \in DOMAIN Given(r) |-> Peer(Len(peers) + i, Given(r)[i])]) = peers
<1> DEFINE n == Len(Given(r))
           fresh == [i \in DOMAIN Given(r) |-> Peer(Len(peers) + i, Given(r)[i])]
<1>1. n \in Nat /\ DOMAIN Given(r) = 1..n /\ Len(peers) \in Nat /\ DOMAIN peers = 1..Len(peers)
  BY GivenType DEF IInv
<1>2. Len(fresh) = n
  BY <1>1
<1>3. ASSUME NEW i \in 1..n PROVE fresh[i].obj \notin Objects(peers)
  BY <1>1 DEF IInv, Numbered, Objects, Peer
<1> HIDE DEF n, fresh
<1>4. Merged(peers, fresh) = peers
  BY <1>1, <1>2, <1>3, MergedKeeps
<1> QED
  BY <1>4 DEF fresh

\* A job that is taken leaves the others.
LEMMA RemoveAtType ==
    ASSUME NEW T, NEW s \in Seq(T), NEW k \in DOMAIN s
    PROVE  RemoveAt(s, k) \in Seq(T) /\ s[k] \in T
<1>1. k \in 1..Len(s) /\ Len(s) \in Nat /\ s[k] \in T
  OBVIOUS
<1>2. SubSeq(s, 1, k - 1) \in Seq(T)
  <2>1. k - 1 \in 0..Len(s)
    BY <1>1
  <2> QED
    BY <2>1, SubSeqType
<1>3. SubSeq(s, k + 1, Len(s)) \in Seq(T)
  <2>1. k + 1 \in 1..(Len(s) + 1) /\ Len(s) \in 0..Len(s)
    BY <1>1
  <2> QED
    BY <2>1, WindowType
<1> QED
  BY <1>1, <1>2, <1>3, ConcatType DEF RemoveAt

\* What a client may add is a peer, numbered at most as the next one.
LEMMA AddableType ==
    ASSUME IInv, Len(peers) < MaxPeers, NEW p \in Addable
    PROVE  p \in PeerType /\ p.obj \in 0..(Len(peers) + 1)
<1>1. peers \in Seq(PeerType) /\ DOMAIN peers = 1..Len(peers) /\ Len(peers) \in Nat
      /\ MaxPeers \in Nat /\ Us \in Addrs
  BY TorrentAssumption DEF IInv, Addrs
<1>2. ASSUME NEW port \in Ports, p = Peer(Len(peers) + 1, Narrow(port))
      PROVE  p \in PeerType /\ p.obj \in 0..(Len(peers) + 1)
  <2>1. Narrow(port) \in Addrs
    BY NarrowType, TorrentAssumption
  <2> QED
    BY <1>1, <1>2, <2>1 DEF Peer, PeerType
<1>3. ASSUME NEW k \in 1..Len(peers), p = peers[k]
      PROVE  p \in PeerType /\ p.obj \in 0..(Len(peers) + 1)
  <2>1. p \in PeerType /\ p.obj \in 0..k
    BY <1>1, <1>3 DEF IInv, Numbered
  <2> QED
    BY <1>1, <2>1
<1>4. CASE p = UsPeer
  BY <1>1, <1>4 DEF UsPeer, Peer, PeerType
<1> QED
  BY <1>1, <1>2, <1>3, <1>4 DEF Addable, Range

LEMMA InitOK == Init => IInv
<1> SUFFICES ASSUME Init PROVE IInv
  OBVIOUS
<1>1. peers \in Seq(PeerType) /\ made \in Seq(AllJobs) /\ queue \in Seq(AllJobs)
  BY EmptyType, Zenon DEF Init
<1>2. Len(peers) = 0 /\ Numbered /\ MaxPeers \in Nat
  BY TorrentAssumption DEF Init, Numbered
<1>3. AnswerSound
  BY DEF Init, AnswerSound
<1> QED
  BY <1>1, <1>2, <1>3 DEF Init, IInv, Objects, Endings

\* The steps that leave the peer list as it is.
LEMMA SamePeers ==
    ASSUME IInv, peers' = peers, made' \in Seq(AllJobs), queue' \in Seq(AllJobs),
           connected' \subseteq Objects(peers), learned' \subseteq Addrs,
           response' \in Responses \cup {NoResponse},
           outcome' \in Endings, AnswerSound'
    PROVE  IInv'
BY DEF IInv, AllJobs, Jobs, Objects, Numbered, PeerType

LEMMA StepOK == IInv /\ [Next]_vars => IInv'
<1> SUFFICES ASSUME IInv, [Next]_vars PROVE IInv'
  OBVIOUS
<1>1. peers \in Seq(PeerType) /\ made \in Seq(AllJobs) /\ queue \in Seq(AllJobs)
      /\ DOMAIN peers = 1..Len(peers) /\ Len(peers) \in Nat
  BY DEF IInv
<1>0. ASSUME UNCHANGED <<learned, response, outcome>> PROVE AnswerSound'
  BY <1>0 DEF IInv, AnswerSound
<1>2. ASSUME NEW j \in AllJobs, made' = Append(made, j),
             UNCHANGED <<peers, queue, connected, learned, response, outcome>>
      PROVE  IInv'
  <2>1. made' \in Seq(AllJobs)
    <3>1. ASSUME NEW T, NEW s \in Seq(T), NEW e \in T PROVE Append(s, e) \in Seq(T)
      OBVIOUS
    <3> QED
      BY <1>1, <1>2, <3>1, Zenon
  <2> QED
    BY <1>0, <1>1, <1>2, <2>1, SamePeers DEF IInv
<1>3. ASSUME NEW kind \in Kinds, MakeTrackerJob(kind) PROVE IInv'
  <2>1. TrackerJob(kind) \in AllJobs
    BY DEF AllJobs, Jobs
  <2> QED
    BY <1>2, <1>3, <2>1 DEF MakeTrackerJob
<1>4. ASSUME NEW idx \in 0..NumPieces, MakeDownloadJob(idx) PROVE IInv'
  <2>1. DownloadJob(idx) \in AllJobs
    BY DEF AllJobs, Jobs
  <2> QED
    BY <1>2, <1>4, <2>1 DEF MakeDownloadJob
<1>5. CASE CreateHandshakeJobs
  <2> DEFINE hs == [k \in DOMAIN peers |-> HandshakeJob(peers[k].obj)]
  <2>1. hs \in Seq(AllJobs)
    <3>1. \A k \in 1..Len(peers) : HandshakeJob(peers[k].obj) \in AllJobs
      BY <1>1 DEF AllJobs, Jobs, Objects
    <3> QED
      BY <1>1, <3>1
  <2>2. made' = made \o hs
    BY <1>5 DEF CreateHandshakeJobs
  <2>3. made' \in Seq(AllJobs)
    <3> HIDE DEF hs
    <3> QED
      BY <1>1, <2>1, <2>2, ConcatType
  <2>4. UNCHANGED <<peers, queue, connected, learned, response, outcome>>
    BY <1>5 DEF CreateHandshakeJobs
  <2> QED
    BY <1>0, <1>1, <2>3, <2>4, SamePeers DEF IInv
<1>6. ASSUME NEW k \in DOMAIN made, Enqueue(k) PROVE IInv'
  <2>1. RemoveAt(made, k) \in Seq(AllJobs) /\ made[k] \in AllJobs
    BY <1>1, RemoveAtType
  <2>2. Append(queue, made[k]) \in Seq(AllJobs)
    <3>1. ASSUME NEW T, NEW s \in Seq(T), NEW e \in T PROVE Append(s, e) \in Seq(T)
      OBVIOUS
    <3> QED
      BY <1>1, <2>1, <3>1, Zenon
  <2> QED
    BY <1>0, <1>6, <2>1, <2>2, SamePeers DEF Enqueue, IInv
<1>7. CASE ProcessQueue
  <2>1. AnswerSound'
    BY <1>7 DEF ProcessQueue, AnswerSound
  <2> QED
    BY <1>1, <1>7, <2>1, SamePeers DEF ProcessQueue, IInv, Endings
<1>8. CASE UNCHANGED vars
  BY <1>0, <1>1, <1>8, SamePeers DEF vars, IInv
<1>9. ASSUME NEW p \in Addable, AddPeer(p) PROVE IInv'
  <2>1. p \in PeerType /\ p.obj \in 0..(Len(peers) + 1) /\ Len(peers) < MaxPeers
    BY <1>9, AddableType DEF AddPeer
  <2>2. peers' = Append(peers, p)
        /\ UNCHANGED <<made, queue, connected, learned, response, outcome>>
    BY <1>9 DEF AddPeer
  <2>3. peers' \in Seq(PeerType) /\ Len(peers') = Len(peers) + 1
        /\ DOMAIN peers' = 1..(Len(peers) + 1)
        /\ (\A k \in 1..Len(peers) : peers'[k] = peers[k]) /\ peers'[Len(peers) + 1] = p
    BY <1>1, <2>1, <2>2
  <2>4. Numbered'
    BY <1>1, <2>1, <2>3 DEF IInv, Numbered
  <2>5. Objects(peers) \subseteq Objects(peers')
    BY <1>1, <2>3 DEF Objects
  <2>6. AllJobs \subseteq AllJobs'
    BY <2>5 DEF AllJobs, Jobs
  <2>7. made \in Seq(AllJobs') /\ queue \in Seq(AllJobs')
    <3>1. ASSUME NEW A, NEW B, A \subseteq B, NEW s \in Seq(A) PROVE s \in Seq(B)
      BY <3>1
    <3> QED
      BY <1>1, <2>6, <3>1, Zenon
  <2>8. made' \in Seq(AllJobs') /\ queue' \in Seq(AllJobs')
    BY <2>2, <2>7
  <2>9. AnswerSound' /\ MaxPeers \in Nat
    BY <1>0, <2>2, TorrentAssumption
  <2> QED
    BY <1>1, <2>1, <2>2, <2>3, <2>4, <2>5, <2>8, <2>9 DEF IInv
<1>10. ASSUME NEW k \in DOMAIN made, NEW r \in Responses, NEW body \in BodyOutcomes(r),
              RunStarted(k, r, body)
       PROVE  IInv'
  <2>1. RemoveAt(made, k) \in Seq(AllJobs)
    BY <1>1, RemoveAtType
  <2>2. SendRequest(r, body) \in Outcomes /\ Range(Given(r)) \subseteq Addrs
    BY RequestOk, GivenType
  <2>3. peers' = peers /\ learned' \subseteq Addrs
    BY <1>10, <2>2, AnswerMergesNothing DEF RunStarted, IInv
  <2>4. AnswerSound'
    <3>1. response' = r /\ outcome' = SendRequest(r, body)
          /\ (outcome' = "ok" => learned' = Range(Given(r)))
      BY <1>10 DEF RunStarted
    <3>2. outcome' = "ok" <=> body = "ok" /\ FieldsFine(r)
      BY <3>1, RequestOk
    <3>3. body = "ok" => r.body \in {"dict", "truncated"}
      BY ChecksOk
    <3>4. WellFormed(r) => outcome' = "ok"
      BY <3>2, ChecksOk DEF WellFormed
    <3> QED
      BY <2>2, <3>1, <3>2, <3>3, <3>4 DEF AnswerSound, Outcomes
  <2> QED
    BY <1>1, <1>10, <2>1, <2>2, <2>3, <2>4, SamePeers
    DEF RunStarted, TakeJob, IInv, Outcomes, Endings
<1>11. ASSUME NEW k \in DOMAIN made, NEW r \in Responses, RunLost(k, r) PROVE IInv'
  <2>1. RemoveAt(made, k) \in Seq(AllJobs)
    BY <1>1, RemoveAtType
  <2>2. AnswerSound'
    BY <1>11 DEF RunLost, ReachesID, AnswerSound
  <2> QED
    BY <1>1, <1>11, <2>1, <2>2, SamePeers DEF RunLost, TakeJob, IInv, Endings
<1>12. ASSUME NEW k \in DOMAIN made, RunUnimplemented(k) \/ RunDownload(k) PROVE IInv'
  <2>1. RemoveAt(made, k) \in Seq(AllJobs)
    BY <1>1, RemoveAtType
  <2>2. outcome' \in {"runtime_error", "out_of_range", "bad_optional", "peer"}
    BY <1>12 DEF RunUnimplemented, RunDownload
  <2>3. AnswerSound'
    BY <1>12 DEF RunUnimplemented, RunDownload, AnswerSound
  <2> QED
    BY <1>1, <1>12, <2>1, <2>2, <2>3, SamePeers
    DEF RunUnimplemented, RunDownload, TakeJob, IInv, Endings
<1>13. ASSUME NEW k \in DOMAIN made, RunHandshake(k) PROVE IInv'
  <2>1. RemoveAt(made, k) \in Seq(AllJobs) /\ made[k] \in AllJobs
    BY <1>1, RemoveAtType
  <2>2. made[k].obj \in Objects(peers)
    BY <1>13, <2>1 DEF RunHandshake, AllJobs, Jobs, TrackerJob, HandshakeJob, DownloadJob
  <2>3. connected' \subseteq Objects(peers) /\ outcome' \in {"ok", "peer"}
    BY <1>13, <2>2 DEF RunHandshake, IInv
  <2>4. AnswerSound'
    BY <1>13 DEF RunHandshake, AnswerSound
  <2> QED
    BY <1>1, <1>13, <2>1, <2>3, <2>4, SamePeers DEF RunHandshake, TakeJob, IInv, Endings
<1> QED
  BY <1>3, <1>4, <1>5, <1>6, <1>7, <1>8, <1>9, <1>10, <1>11, <1>12, <1>13 DEF Next

LEMMA Inductive == Spec => []IInv
BY InitOK, StepOK, PTL DEF Spec

\* Type correctness: among others, every job the client or the queue holds is
\* for a peer that is still in the list.
THEOREM TypeCorrect == Spec => []TypeOK
<1>1. IInv => TypeOK
  <2> SUFFICES ASSUME IInv PROVE TypeOK
    OBVIOUS
  <2>1. Range(made) \subseteq AllJobs /\ Range(queue) \subseteq AllJobs
    BY DEF IInv, Range
  <2> QED
    BY <2>1 DEF IInv, TypeOK, PeerType, Addrs, AllJobs, Endings
<1> QED
  BY <1>1, Inductive, PTL

\* What a call that the tracker answered has come to fits the answer, for any
\* responses: it has returned only peers of an answer without a fault, has thrown
\* only for one with a fault, and where neither holds the code has undefined
\* behaviour (a truncated text or a classic peer list).
THEOREM AnswersSound == Spec => []AnswerSound
BY Inductive, PTL DEF IInv

\* Known peers keep their object and their place, and connections are kept.
THEOREM PeersKept == Spec => KnownPeersKept
<1>1. IInv /\ [Next]_vars => [IsPrefix(peers, peers') /\ connected \subseteq connected']_vars
  <2> SUFFICES ASSUME IInv, Next PROVE IsPrefix(peers, peers') /\ connected \subseteq connected'
    OBVIOUS
  <2>1. peers \in Seq(PeerType)
    BY DEF IInv
  <2>2. ASSUME peers' = peers PROVE IsPrefix(peers, peers')
    BY <2>1, <2>2 DEF IsPrefix
  <2>3. ASSUME NEW p \in Addable, AddPeer(p) PROVE IsPrefix(peers, peers')
    <3>1. peers' = Append(peers, p)
      BY <2>3 DEF AddPeer
    <3>2. p \in PeerType
      BY <2>3, AddableType DEF AddPeer
    <3>3. Len(peers) \in Nat /\ Len(peers') = Len(peers) + 1
      BY <2>1, <3>1
    <3>4. SubSeq(peers', 1, Len(peers)) = SubSeq(peers, 1, Len(peers))
      <4>1. 1 \in Nat \ {0} /\ Len(peers) \in 0..Len(peers)
        BY <3>3
      <4> QED
        BY <2>1, <3>1, <3>2, <4>1, SubSeqOfAppend
    <3> QED
      BY <3>3, <3>4 DEF IsPrefix
  <2>4. peers' = peers \/ \E p \in Addable : AddPeer(p)
    BY AnswerMergesNothing DEF Next, MakeTrackerJob, MakeDownloadJob, CreateHandshakeJobs,
       ProcessQueue, Enqueue, RunStarted, RunLost, RunUnimplemented, RunHandshake, RunDownload
  <2>5. connected \subseteq connected'
    BY DEF Next, MakeTrackerJob, MakeDownloadJob, CreateHandshakeJobs, AddPeer,
       ProcessQueue, Enqueue, RunStarted, RunLost, RunUnimplemented, RunHandshake, RunDownload
  <2> QED
    BY <2>2, <2>3, <2>4, <2>5
<1> QED
  BY <1>1, Inductive, PTL DEF Spec, KnownPeersKept
============================================================================
