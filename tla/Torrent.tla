------------------------------ MODULE Torrent ------------------------------
(* The job queue, the jobs that talk to the tracker and to peers, and the  *)
(* list of peers they share.                                               *)
(*                                                                         *)
(* The client is main.cpp or a test: one thread that makes jobs, moves     *)
(* them into a JobQueue, runs the queue, and may call process() of a job   *)
(* it still holds.  Torrent is a plain struct, so a client may also put    *)
(* any peers into m_peers.  A tracker response is a record that keeps what *)
(* send_request looks at; addresses are port numbers of one host.          *)
EXTENDS Naturals, Sequences, SequencesExt

CONSTANTS
    Us,             \* our own port
    Ports,          \* what a tracker may give as a port
    PortWord,       \* 2^16: what static_cast<std::uint16_t> keeps
    Kinds,          \* the tracker::RequestKinds jobs are made for
    Responses,      \* what the tracker may answer
    NumPieces,      \* pieces of the torrent
    MaxJobs,        \* bound: jobs made
    MaxPeers        \* bound: peers a client adds

\* bencode::Object::type and peer entries, as far as send_request tells them
\* apart: "absent" is a missing key.
Fields == {"absent", "str", "int", "other"}

ASSUME TorrentAssumption ==
    /\ PortWord \in Nat \ {0} /\ Ports \subseteq Nat /\ Us \in 0..(PortWord - 1)
    /\ "STARTED" \in Kinds /\ Kinds \subseteq {"STARTED", "COMPLETED", "STOPPED", "UPDATE"}
    /\ NumPieces \in Nat /\ MaxJobs \in Nat /\ MaxPeers \in Nat
    /\ \A r \in Responses :
         /\ r.curl \in BOOLEAN       \* cpr reports no error
         /\ r.body \in {"empty", "garbage", "truncated", "nodict", "dict"}
         /\ r.failure \in Fields /\ r.interval \in Fields
         /\ r.peers \in {"absent", "list", "compact", "other"}
         /\ r.ragged \in BOOLEAN     \* a compact string of no whole number of peers
         /\ r.entries \in Seq([kind : {"peer", "nodict", "nokey", "badtype"}, port : Ports])

VARIABLES
    peers,      \* Torrent::m_peers: which object, and its address
    made,       \* jobs the client holds, in the order it made them
    queue,      \* JobQueue::m_jobs
    connected,  \* the peer objects whose handshake succeeded
    learned,    \* history: addresses the tracker gave when it last answered
    response,   \* history: what the tracker answered the last call
    outcome     \* how the last call ended

vars == <<peers, made, queue, connected, learned, response, outcome>>

\* Two make_shared objects are never the same one: ours is object 0.
Peer(obj, addr) == [obj |-> obj, addr |-> addr]
UsPeer == Peer(0, Us)
Objects(ps) == {ps[k].obj : k \in DOMAIN ps}
Addresses(ps) == {ps[k].addr : k \in DOMAIN ps}

NoResponse == [curl |-> FALSE]
TrackerJob(kind) == [job |-> "tracker", kind |-> kind]
HandshakeJob(obj) == [job |-> "handshake", obj |-> obj]
DownloadJob(idx) == [job |-> "download", idx |-> idx]
Jobs(objs) ==
    {TrackerJob(k) : k \in Kinds} \cup {HandshakeJob(o) : o \in objs}
        \cup {DownloadJob(i) : i \in 0..NumPieces}

TypeOK ==
    /\ peers \in Seq([obj : 0..MaxPeers, addr : 0..(PortWord - 1)])
    /\ Range(made) \cup Range(queue) \subseteq Jobs(Objects(peers))
    /\ connected \subseteq Objects(peers)
    /\ learned \subseteq 0..(PortWord - 1)
    /\ response \in Responses \cup {NoResponse}
    /\ outcome \in {"none", "ok", "tracker", "bencode", "bad_optional",
                    "runtime_error", "out_of_range", "peer", "undefined"}

Init ==
    /\ peers = <<>> /\ made = <<>> /\ queue = <<>>
    /\ connected = {} /\ learned = {}
    /\ response = NoResponse /\ outcome = "none"

----------------------------------------------------------------------------
(* tracker::send_request.                                                  *)

\* bencode_peer_list_to_peers and bep52_peer_str_to_peers: a port keeps its
\* low 16 bits (a compact one has no more).
Narrow(port) == port % PortWord
Given(r) == [k \in 1..Len(r.entries) |-> Narrow(r.entries[k].port)]

\* The first entry of a peer list that is no complete dictionary ends the
\* loop: with an exception of its own, or where an optional is empty.
FirstBad(r) == SelectInSeq(r.entries, LAMBDA e : e.kind # "peer")

PeersOutcome(r) ==
    CASE r.peers \in {"absent", "other"} -> "tracker"
      [] r.peers = "compact" -> IF r.ragged THEN "tracker" ELSE "ok"
      [] r.peers = "list"    -> IF FirstBad(r) = 0 THEN "ok"
                                ELSE IF r.entries[FirstBad(r)].kind = "badtype"
                                     THEN "bad_optional" ELSE "tracker"

\* query_tracker: the HTTP status is only looked at when curl reports an error,
\* and only to word the exception; an error page goes to the parser.
QueryOutcome(r) == IF r.curl THEN "ok" ELSE "tracker"

\* What may come of the text, up to the dictionary: Parser::next returns
\* nothing, throws, or returns something else.  It reads past the end of a
\* truncated text, so that anything may come of it (see also RunLost); the
\* other fields are then those of the dictionary that is made up.
BodyOutcomes(r) ==
    CASE r.body = "dict" -> {"ok"}
      [] r.body = "garbage" -> {"bencode"}
      [] r.body \in {"empty", "nodict"} -> {"tracker"}
      [] r.body = "truncated" -> {"ok", "bencode", "tracker", "bad_optional"}

\* The text of a failure reason is read without looking at its type.
FailureOutcome(r) ==
    CASE r.failure = "absent" -> "ok"
      [] r.failure = "str" -> "tracker"
      [] r.failure \in {"int", "other"} -> "bad_optional"

\* parse_checkin_interval_from_tracker_resp.
IntervalOutcome(r) ==
    CASE r.interval = "int" -> "ok"
      [] r.interval = "absent" -> "tracker"
      [] r.interval \in {"str", "other"} -> "bad_optional"

FirstNotOk(checks) ==
    LET k == SelectInSeq(checks, LAMBDA o : o # "ok")
    IN  IF k = 0 THEN "ok" ELSE checks[k]

\* Slip of SendRequest: the failure reason is not looked for.
SendRequestIgnoresFailure(r, body) ==
    FirstNotOk(<<QueryOutcome(r), body, IntervalOutcome(r), PeersOutcome(r)>>)

\* The checks in their order, the parser having made body of the text; "ok"
\* returns the peers.
SendRequest(r, body) ==
    FirstNotOk(<<QueryOutcome(r), body, FailureOutcome(r),
                 IntervalOutcome(r), PeersOutcome(r)>>)

----------------------------------------------------------------------------
(* Making, queueing and running jobs.                                      *)

\* The process is still there (see RunLost).
Operational == outcome # "undefined"

MakeTrackerJob(kind) ==
    /\ Operational
    /\ Len(made) + Len(queue) < MaxJobs
    /\ made' = Append(made, TrackerJob(kind))
    /\ UNCHANGED <<peers, queue, connected, learned, response, outcome>>

MakeDownloadJob(idx) ==
    /\ Operational
    /\ Len(made) + Len(queue) < MaxJobs
    /\ made' = Append(made, DownloadJob(idx))
    /\ UNCHANGED <<peers, queue, connected, learned, response, outcome>>

\* Torrent::create_handshake_jobs: one job for each peer known at this moment.
CreateHandshakeJobs ==
    /\ Operational
    /\ Len(made) + Len(queue) + Len(peers) <= MaxJobs
    /\ made' = made \o [k \in DOMAIN peers |-> HandshakeJob(peers[k].obj)]
    /\ UNCHANGED <<peers, queue, connected, learned, response, outcome>>

\* JobQueue::enqueue: the job is moved to the back of the queue.
Enqueue(k) ==
    /\ Operational
    /\ queue' = Append(queue, made[k])
    /\ made' = RemoveAt(made, k)
    /\ UNCHANGED <<peers, connected, learned, response, outcome>>

\* JobQueue::process is empty; so is JobQueue::deque.
ProcessQueue ==
    /\ Operational
    /\ outcome' = "ok" /\ response' = NoResponse
    /\ UNCHANGED <<peers, made, queue, connected, learned>>

\* What a client may push_back into the public m_peers: a new object with any
\* address, our own and a known one included, or a pointer it already has.
Addable ==
    {Peer(Len(peers) + 1, Narrow(port)) : port \in Ports} \cup Range(peers) \cup {UsPeer}

AddPeer(p) ==
    /\ Operational
    /\ Len(peers) < MaxPeers
    /\ peers' = Append(peers, p)
    /\ UNCHANGED <<made, queue, connected, learned, response, outcome>>

\* Slip of Merge: the test is turned round, but still compares pointers.
MergePointers(known, p) ==
    IF p.obj \in Objects(known) \/ p.obj = UsPeer.obj THEN known ELSE Append(known, p)

\* Slip of Merge: the new version of a peer takes the place of the old one.
MergeReplaces(known, p) ==
    [k \in DOMAIN known |-> IF known[k].addr = p.addr THEN [known[k] EXCEPT !.obj = p.obj]
                           ELSE known[k]]

\* The loop body of Torrent::start_tracker: std::find and != compare the
\* shared pointers, and a peer that is not found is the one passed over.
Merge(known, p) ==
    IF p.obj \notin Objects(known) THEN known
    ELSE IF p.obj # UsPeer.obj THEN Append(known, p) ELSE known

\* The loop: the peers of the answer, one after another.
Merged(known, fresh) ==
    LET after[i \in 0..Len(fresh)] ==
            IF i = 0 THEN known ELSE Merge(after[i - 1], fresh[i])
    IN  after[Len(fresh)]

\* The client calls process() of a job it holds, and drops it.
TakeJob(k) == Operational /\ made' = RemoveAt(made, k)

\* TrackerInteractionJob::process, STARTED: send_request throws, or the peers
\* it returned become new objects and are merged one after another.
RunStarted(k, r, body) ==
    /\ made[k] = TrackerJob("STARTED") /\ TakeJob(k)
    /\ response' = r
    /\ outcome' = SendRequest(r, body)
    /\ IF SendRequest(r, body) = "ok"
       THEN LET fresh == [i \in DOMAIN Given(r) |-> Peer(Len(peers) + i, Given(r)[i])]
            IN  /\ peers' = Merged(peers, fresh)
                /\ learned' = Range(Given(r))
       ELSE UNCHANGED <<peers, learned>>
    /\ UNCHANGED <<queue, connected>>

\* The first complete entry of a peer list reaches peer::ID(string_view),
\* which copies 20 characters into an empty string.  That is undefined: the
\* build overruns the string by four bytes, and either nothing comes of it
\* (RunStarted) or the process is lost.
ReachesID(r) ==
    /\ r.curl /\ r.body = "dict" /\ r.failure = "absent" /\ r.interval = "int"
    /\ r.peers = "list" /\ r.entries # <<>> /\ r.entries[1].kind = "peer"

\* The process is lost there, or in the parser past the end of the text.
RunLost(k, r) ==
    /\ made[k] = TrackerJob("STARTED") /\ TakeJob(k)
    /\ ReachesID(r) \/ (r.curl /\ r.body = "truncated")
    /\ response' = r /\ outcome' = "undefined"
    /\ UNCHANGED <<peers, queue, connected, learned>>

\* TrackerInteractionJob::process, the other kinds.
RunUnimplemented(k) ==
    /\ made[k].job = "tracker" /\ made[k].kind # "STARTED" /\ TakeJob(k)
    /\ outcome' = "runtime_error" /\ response' = NoResponse
    /\ UNCHANGED <<peers, queue, connected, learned>>

\* PeerHandshakeJob::process: the socket is engaged and the handshake sent;
\* or sending fails with the socket engaged; or connecting fails.
RunHandshake(k) ==
    /\ made[k].job = "handshake" /\ TakeJob(k)
    /\ \/ connected' = connected \cup {made[k].obj} /\ outcome' \in {"ok", "peer"}
       \/ connected' = connected /\ outcome' = "peer"
    /\ response' = NoResponse
    /\ UNCHANGED <<peers, queue, learned>>

\* PieceDownloadJob::process, as far as the peer list goes: no peer or no
\* such piece, a first peer without a socket, or what the exchange with it
\* comes to (PeerSession: an exception of one type or another).
RunDownload(k) ==
    /\ made[k].job = "download" /\ TakeJob(k)
    /\ outcome' \in IF peers = <<>> \/ made[k].idx >= NumPieces THEN {"out_of_range"}
                    ELSE IF peers[1].obj \notin connected THEN {"bad_optional"}
                    ELSE {"peer", "out_of_range"}
    /\ response' = NoResponse
    /\ UNCHANGED <<peers, queue, connected, learned>>

Next ==
    \/ \E kind \in Kinds : MakeTrackerJob(kind)
    \/ \E idx \in 0..NumPieces : MakeDownloadJob(idx)
    \/ CreateHandshakeJobs
    \/ ProcessQueue
    \/ \E p \in Addable : AddPeer(p)
    \/ \E k \in DOMAIN made : Enqueue(k)
    \/ \E k \in DOMAIN made, r \in Responses :
          (\E body \in BodyOutcomes(r) : RunStarted(k, r, body)) \/ RunLost(k, r)
    \/ \E k \in DOMAIN made : RunUnimplemented(k)
    \/ \E k \in DOMAIN made : RunHandshake(k)
    \/ \E k \in DOMAIN made : RunDownload(k)

Spec == Init /\ [][Next]_vars

----------------------------------------------------------------------------
\* A peer that is known stays the same object at the same place whatever a
\* tracker lists later: its connection, the handshake jobs that hold it and the
\* choice of the first peer for a download survive every response
\* (torrent.cpp:109 "If peer is already present, keep the old version").
KnownPeersKept == [][IsPrefix(peers, peers') /\ connected \subseteq connected']_vars

\* What a response must be for its peers to be used.
FieldsFine(r) ==
    /\ r.curl /\ r.failure = "absent" /\ r.interval = "int"
    /\ \/ r.peers = "compact" /\ ~r.ragged
       \/ r.peers = "list" /\ \A e \in Range(r.entries) : e.kind = "peer"

WellFormed(r) == FieldsFine(r) /\ r.body = "dict"

\* tracker.hpp:60 "Returns a vector of peers the tracker gave us if successful.
\* Causes an exception if not", as far as the code keeps it.  A call that the
\* tracker answered has returned only for an answer without a fault, whichever
\* faults it may have, and then with its peers; it has thrown only for one with
\* a fault.  Undefined behaviour is the exception: a truncated text may also
\* be used, and it or a classic peer list may cost the process.
AnswerSound ==
    response # NoResponse =>
        /\ outcome = "ok" =>
              /\ FieldsFine(response) /\ response.body \in {"dict", "truncated"}
              /\ learned = Range(Given(response))
        /\ outcome \in {"tracker", "bencode", "bad_optional"} => ~WellFormed(response)
        /\ outcome = "undefined" =>
              response.curl /\ (response.body = "truncated" \/ response.peers = "list")
        /\ outcome \in {"ok", "tracker", "bencode", "bad_optional", "undefined"}

\* torrent.hpp:41 "This will register the client and download the initial peer
\* list": the peers the tracker gave are known afterwards.
PeersLearned == learned \ {Us} \subseteq Addresses(peers)
============================================================================
