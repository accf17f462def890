---------------------------- MODULE PeerSession ----------------------------
(* One peer::Peer, the smolsocket::Sock it sends and receives through, the *)
(* kernel's two buffers and the remote peer.                               *)
(*                                                                         *)
(* The client calls handshake, send_message, send_keepalive and            *)
(* wait_for_message in any order, one at a time.  A call is split where    *)
(* the outside world can act: at every ::send and ::recv, and at every     *)
(* unit the kernel copies into the send buffer.  An operation writes its   *)
(* parts with one Sock::send each; every part has PartLen units and a unit *)
(* on the wire is <<operation, position in it>>.  Received bytes are only  *)
(* counted: Sock::recv returns a vector it never resized, so the bytes are *)
(* lost and blocking_read_message_from_socket always ends in the exception *)
(* of type_buf.at(0); what it would do after that is not reached.          *)
EXTENDS Naturals, Sequences, SequencesExt

CONSTANTS
    PartLen,    \* units per Sock::send
    Cap,        \* units the kernel's send buffer holds
    TimeoutMillis,  \* what the callers pass as timeout_millis
    MaxOut,     \* bound: units written to one connection
    MaxIn       \* bound: unread units received from the remote peer

ASSUME SessionAssumption ==
    /\ PartLen \in Nat \ {0} /\ Cap \in Nat \ {0}
    /\ TimeoutMillis \in Nat /\ TimeoutMillis >= 1000
    /\ MaxOut \in Nat /\ MaxIn \in Nat

\* enable_timeout: ticks of one second before a blocked ::send gives up.
\* tv_usec is (millis * 1000) % 1000, so fractions of a second are dropped,
\* and less than a second would be no timeout at all.
Timeout == TimeoutMillis \div 1000

Ops == {"handshake", "request"}

\* Peer::handshake sends magic, extensions, infohash and peer ID; Peer::
\* send_message sends the type and the payload of a MessageRequest.
Parts(o) == IF o = "handshake" THEN 4 ELSE 2
OpLen(o) == Parts(o) * PartLen

VARIABLES
    call,       \* where the client is: "none", in "send", in "recv", "killed"
    op,         \* the operation the parts being sent belong to
    part,       \* the Sock::send of that operation that is running
    sent,       \* its local variable: units earlier ::send calls took
    copied,     \* units the running ::send has copied
    elapsed,    \* ticks the running ::send has been blocked
    waited,     \* history: ticks the running Sock::send has been blocked
    armed,      \* SO_SNDTIMEO is set on the socket
    sock,       \* m_sock is engaged
    out,        \* units written to the connection
    failed,     \* history: an operation threw while writing to it
    queue,      \* units in the send buffer the remote peer has not read
    inbox,      \* units in the receive buffer
    remote,     \* "up", "fin" (closed), "reset" (error pending), "broken"
    outcome     \* how the last call ended

sending == <<op, part, sent, copied, elapsed, waited>>
wire    == <<out, failed, queue>>
vars    == <<call, sending, armed, sock, wire, inbox, remote, outcome>>

TypeOK ==
    /\ call \in {"none", "send", "recv", "killed"}
    /\ op \in Ops
    /\ part \in 1..4
    /\ sent \in 0..PartLen /\ copied \in 0..PartLen
    /\ elapsed \in 0..Timeout /\ waited \in 0..(Timeout * PartLen)
    /\ armed \in BOOLEAN /\ sock \in BOOLEAN /\ failed \in BOOLEAN
    /\ out \in Seq(Ops \X (1..(4 * PartLen)))
    /\ queue \in 0..Cap /\ inbox \in 0..MaxIn
    /\ remote \in {"up", "fin", "reset", "broken"}
    /\ outcome \in {"none", "ok", "exception", "out_of_range", "bad_optional"}

Ready == call = "none"

Init ==
    /\ call = "none" /\ op = "handshake" /\ part = 1
    /\ sent = 0 /\ copied = 0 /\ elapsed = 0 /\ waited = 0
    /\ armed = FALSE /\ sock = FALSE
    /\ out = <<>> /\ failed = FALSE /\ queue = 0 /\ inbox = 0
    /\ remote = "up" /\ outcome = "none"

----------------------------------------------------------------------------
\* The option belongs to the socket and outlives the call: each of the ways out
\* of Sock::send and Sock::recv has a disable_timeout of its own.
enable_timeout  == armed' = TRUE
disable_timeout == armed' = FALSE

\* Sock::send is entered for the k-th part of operation o.
EnterSend(o, k) ==
    /\ call' = "send" /\ op' = o /\ part' = k
    /\ sent' = 0 /\ copied' = 0 /\ elapsed' = 0 /\ waited' = 0
    /\ enable_timeout

\* The client's call returns or throws.
Leave(how) ==
    /\ call' = "none" /\ outcome' = how
    /\ UNCHANGED sending

\* Peer::handshake: the connection is made and replaces the one m_sock held,
\* then the first part is sent.
Handshake ==
    /\ Ready
    /\ EnterSend("handshake", 1)
    /\ sock' = TRUE
    /\ out' = <<>> /\ failed' = FALSE /\ queue' = 0 /\ inbox' = 0
    /\ remote' = "up"
    /\ UNCHANGED outcome

\* Peer::handshake: the Sock constructor throws, so emplace is never called
\* and an earlier connection stays in m_sock.
HandshakeCannotConnect ==
    /\ Ready
    /\ outcome' = "exception"
    /\ UNCHANGED <<call, sending, armed, sock, wire, inbox, remote>>

\* Peer::send_message of a MessageRequest.
SendMessage ==
    /\ Ready /\ sock /\ Len(out) + OpLen("request") <= MaxOut
    /\ EnterSend("request", 1)
    /\ UNCHANGED <<sock, wire, inbox, remote, outcome>>

\* m_sock.value() throws in send_message or wait_for_message, and neither
\* converts that exception.
CallUnconnected ==
    /\ Ready /\ ~sock
    /\ outcome' = "bad_optional"
    /\ UNCHANGED <<call, sending, armed, sock, wire, inbox, remote>>

\* Peer::send_keepalive: Sock::send of an empty vector.  The timeout is set
\* and removed, and ::send is never called.
SendKeepalive ==
    /\ Ready /\ sock
    /\ Leave("ok") /\ disable_timeout
    /\ UNCHANGED <<sock, wire, inbox, remote>>

\* send_keepalive reads m_sock with -> and does not look whether it is there:
\* undefined, and what is read as m_sockfd may or may not have a value.
KeepaliveUnconnected ==
    /\ Ready /\ ~sock
    /\ outcome' \in {"ok", "bad_optional"}
    /\ UNCHANGED <<call, sending, armed, sock, wire, inbox, remote>>

\* Peer::wait_for_message: Sock::recv of the type byte.
WaitForMessage ==
    /\ Ready /\ sock
    /\ call' = "recv" /\ enable_timeout
    /\ UNCHANGED <<sending, sock, wire, inbox, remote, outcome>>

----------------------------------------------------------------------------
(* The running ::send.                                                     *)
Sending == call = "send"
Erroneous == remote \in {"reset", "broken"}

\* The kernel copies one unit into the send buffer.
KernelCopy ==
    /\ Sending /\ sent + copied < PartLen /\ queue < Cap /\ ~Erroneous
    /\ copied' = copied + 1
    /\ out' = Append(out, <<op, (part - 1) * PartLen + sent + copied + 1>>)
    /\ queue' = queue + 1
    /\ UNCHANGED <<call, op, part, sent, elapsed, waited, armed, sock, failed,
                   inbox, remote, outcome>>

\* The buffer is full and time passes, which only counts with a timeout.
Tick ==
    /\ Sending /\ sent + copied < PartLen /\ queue = Cap /\ ~Erroneous
    /\ armed /\ elapsed < Timeout
    /\ elapsed' = elapsed + 1
    /\ waited' = waited + 1
    /\ UNCHANGED <<call, op, part, sent, copied, armed, sock, wire, inbox,
                   remote, outcome>>

\* Slip of SendPartial: the count of the first ::send is not added.
SendPartialForgets ==
    /\ Sending /\ copied > 0 /\ sent + copied < PartLen
    /\ elapsed = Timeout \/ Erroneous
    /\ copied' = 0 /\ elapsed' = 0
    /\ UNCHANGED <<call, op, part, sent, waited, armed, sock, wire, inbox,
                   remote, outcome>>

\* The time is up, or the connection fails, after some units were copied:
\* ::send returns their number and the loop calls it again, with a new timer.
SendPartial ==
    /\ Sending /\ copied > 0 /\ sent + copied < PartLen
    /\ elapsed = Timeout \/ Erroneous
    /\ sent' = sent + copied /\ copied' = 0 /\ elapsed' = 0
    /\ UNCHANGED <<call, op, part, waited, armed, sock, wire, inbox, remote,
                   outcome>>

\* Slip of PartSent: the operation returns one part early.
PartSentEarly ==
    /\ Sending /\ sent + copied = PartLen
    /\ IF part < Parts(op) - 1
       THEN EnterSend(op, part + 1) /\ UNCHANGED outcome
       ELSE Leave("ok") /\ disable_timeout
    /\ UNCHANGED <<sock, wire, inbox, remote>>

\* Slip of PartSent: the operation goes on for one part too many.
PartSentLate ==
    /\ Sending /\ sent + copied = PartLen
    /\ IF part <= Parts(op)
       THEN EnterSend(op, part + 1) /\ UNCHANGED outcome
       ELSE Leave("ok") /\ disable_timeout
    /\ UNCHANGED <<sock, wire, inbox, remote>>

\* Sock::send returns: the next part follows, or the operation is done.
PartSent ==
    /\ Sending /\ sent + copied = PartLen
    /\ IF part < Parts(op)
       THEN EnterSend(op, part + 1) /\ UNCHANGED outcome
       ELSE Leave("ok") /\ disable_timeout
    /\ UNCHANGED <<sock, wire, inbox, remote>>

\* Slip of SendFails: a timeout is not treated as a failure.
SendFailsOnErrorOnly ==
    /\ Sending /\ copied = 0 /\ sent < PartLen /\ remote = "reset"
    /\ Leave("exception") /\ disable_timeout
    /\ failed' = TRUE /\ remote' = "broken"
    /\ UNCHANGED <<sock, out, queue, inbox>>

\* ::send returns -1: the time is up before anything was copied, or the
\* pending error is reported.  The operation throws; m_sock stays engaged.
SendFails ==
    /\ Sending /\ copied = 0 /\ sent < PartLen
    /\ elapsed = Timeout \/ remote = "reset"
    /\ Leave("exception") /\ disable_timeout
    /\ failed' = TRUE
    /\ remote' = IF remote = "reset" THEN "broken" ELSE remote
    /\ UNCHANGED <<sock, out, queue, inbox>>

\* ::send on a broken connection without MSG_NOSIGNAL: SIGPIPE ends the
\* process.
SendKilled ==
    /\ Sending /\ copied = 0 /\ sent < PartLen /\ remote = "broken"
    /\ call' = "killed"
    /\ UNCHANGED <<sending, armed, sock, wire, inbox, remote, outcome>>

SendStep == KernelCopy \/ Tick \/ SendPartial \/ PartSent \/ SendFails \/ SendKilled

----------------------------------------------------------------------------
(* The running ::recv: SO_SNDTIMEO does not concern it.                    *)
Receiving == call = "recv"

\* A byte arrives in memory the vector does not own up to; at(0) throws.
RecvData ==
    /\ Receiving /\ inbox > 0
    /\ inbox' = inbox - 1
    /\ Leave("out_of_range") /\ disable_timeout
    /\ UNCHANGED <<sock, wire, remote>>

\* Slip of RecvFails: this way out of Sock::recv forgets the timeout.
RecvFailsArmed ==
    /\ Receiving /\ inbox = 0 /\ remote = "reset"
    /\ Leave("exception") /\ UNCHANGED armed
    /\ remote' = "broken"
    /\ UNCHANGED <<sock, wire, inbox>>

\* ::recv reports a reset connection: Sock::recv throws.
RecvFails ==
    /\ Receiving /\ inbox = 0 /\ remote = "reset"
    /\ Leave("exception") /\ disable_timeout
    /\ remote' = "broken"
    /\ UNCHANGED <<sock, wire, inbox>>

\* End of file: ::recv returns 0 and the loop calls it again.
RecvSpins ==
    /\ Receiving /\ inbox = 0 /\ remote \in {"fin", "broken"}
    /\ UNCHANGED vars

RecvStep == RecvData \/ RecvFails \/ RecvSpins

----------------------------------------------------------------------------
(* The remote peer and the network.                                        *)
client == <<call, sending, armed, sock, out, failed, outcome>>

RemoteReads ==
    /\ sock /\ queue > 0 /\ ~Erroneous
    /\ queue' = queue - 1
    /\ UNCHANGED <<client, inbox, remote>>

RemoteSends ==
    /\ sock /\ remote = "up" /\ inbox < MaxIn
    /\ inbox' = inbox + 1
    /\ UNCHANGED <<client, queue, remote>>

RemoteCloses ==
    /\ sock /\ remote = "up"
    /\ remote' = "fin"
    /\ UNCHANGED <<client, queue, inbox>>

\* A reset that follows a close leaves EPIPE, and no error to read first.
RemoteResets ==
    /\ sock /\ remote \in {"up", "fin"}
    /\ remote' = IF remote = "up" THEN "reset" ELSE "broken"
    /\ UNCHANGED <<client, queue, inbox>>

Next ==
    \/ Handshake \/ HandshakeCannotConnect
    \/ SendMessage \/ SendKeepalive \/ WaitForMessage
    \/ CallUnconnected \/ KeepaliveUnconnected
    \/ KernelCopy \/ Tick \/ SendPartial \/ PartSent \/ SendFails \/ SendKilled
    \/ RecvData \/ RecvFails \/ RecvSpins
    \/ RemoteReads \/ RemoteSends \/ RemoteCloses \/ RemoteResets

\* The thread and the kernel keep running a call that can go on, and a timer
\* that was started runs down.  Nothing is assumed of the remote peer or of
\* the client's wish to make calls.
Fairness == WF_vars(SendStep) /\ WF_vars(RecvStep)

Spec == Init /\ [][Next]_vars
FairSpec == Spec /\ Fairness

----------------------------------------------------------------------------
\* What a peer that speaks the protocol expects at position k of the stream:
\* one handshake, then whole requests.
Expected(k) ==
    LET h == OpLen("handshake")
        r == OpLen("request")
    IN  IF k <= h THEN <<"handshake", k>> ELSE <<"request", ((k - h - 1) % r) + 1>>

\* Until an operation throws, the connection carries one handshake and then
\* requests, no unit of them lost, doubled or out of place, whatever partial
\* counts ::send returned and however long it was blocked.
Framed ==
    sock /\ ~failed => \A k \in 1..Len(out) : out[k] = Expected(k)

\* One unit per ::send is enough to start the timer again, so Sock::send may
\* be blocked for longer than its timeout (smolsocket.hpp:66 promises less);
\* it is never blocked for more than the timeout once for every unit it got
\* through and once more.
SendBlockedBounded == call = "send" => waited <= Timeout * sent + elapsed

\* SO_SNDTIMEO is on the socket exactly while a Sock::send or Sock::recv runs:
\* no ::send is without it, and none of the five ways out of a call, nor an
\* attempt to connect that keeps the old socket, leaves it for a later one.
TimeoutIffInCall == call # "killed" => (armed <=> call \in {"send", "recv"})

\* A call that sends ends, by returning, throwing or SIGPIPE, whether or not
\* the remote peer ever reads (smolsocket.hpp:66).
SendEnds == call = "send" ~> call # "send"

\* smolsocket.hpp:71 "If timeout is set, an exception will be raised if the
\* transfer doesn't complete in time.", of recv: a wait ends.
RecvEnds == call = "recv" ~> call # "recv"

----------------------------------------------------------------------------
(* What a client may rely on is PeerChannel.  An operation takes effect     *)
(* when the kernel copies its last unit, and what it says of the content    *)
(* ends when an operation throws.                                          *)
Ending(s, k) ==
    { o \in Ops : /\ OpLen(o) <= k
                  /\ SubSeq(s, k - OpLen(o) + 1, k)
                       = [i \in 1..OpLen(o) |-> <<o, i>>] }

\* The operations that are in a stream from first unit to last, in order.
Whole(s) == FlattenSeq([k \in 1..Len(s) |-> SetToSeq(Ending(s, k))])

InHand == call = "send" /\ ~failed /\ ~(part = Parts(op) /\ sent + copied = PartLen)

Link == CASE call = "killed" -> "lost"
          [] call # "killed" /\ ~sock -> "none"
          [] call # "killed" /\ sock -> IF failed THEN "failed" ELSE "open"
Current == IF InHand THEN op ELSE "none"
OnWire  == IF Link = "open" THEN Whole(out) ELSE <<>>

Channel == INSTANCE PeerChannel WITH
    link <- Link, current <- Current, written <- OnWire

\* The session implements the channel: every call that returns left exactly
\* its operation behind the earlier ones, and no interleaving of short counts,
\* timeouts, hang-ups and calls shows anything else.
ChannelImplemented == Channel!Spec
============================================================================
