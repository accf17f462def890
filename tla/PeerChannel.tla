---------------------------- MODULE PeerChannel ----------------------------
(* What a client of peer::Peer may rely on when it sends: a connection      *)
(* carries a handshake and then whole messages, one call at a time, and a   *)
(* call that does not put its operation on the wire gives the connection    *)
(* up.  How the bytes are handed to the kernel is not said here;            *)
(* PeerSession does, and implements this module.                            *)
EXTENDS Sequences

VARIABLES
    link,       \* "none", "open", "failed" (a call threw) or "lost" (SIGPIPE)
    current,    \* the operation that is being sent, or "none"
    written     \* operations on the open connection, from first byte to last

cvars == <<link, current, written>>

Init == link = "none" /\ current = "none" /\ written = <<>>

\* Peer::handshake: a new connection replaces an earlier one.
Connect ==
    /\ current = "none" /\ link # "lost"
    /\ link' = "open" /\ current' = "handshake" /\ written' = <<>>

\* Peer::send_message: only after a complete handshake.
Begin ==
    /\ link = "open" /\ current = "none" /\ written # <<>>
    /\ current' = "request"
    /\ UNCHANGED <<link, written>>

\* The call put its operation on the wire, behind the earlier ones.
Deliver ==
    /\ current # "none"
    /\ written' = Append(written, current) /\ current' = "none"
    /\ UNCHANGED link

\* The call throws, or the process ends in it.
GiveUp ==
    /\ current # "none"
    /\ link' \in {"failed", "lost"} /\ current' = "none" /\ written' = <<>>

\* A call on a connection that failed earlier may still end the process.
Lose ==
    /\ link = "failed"
    /\ link' = "lost"
    /\ UNCHANGED <<current, written>>

Next == Connect \/ Begin \/ Deliver \/ GiveUp \/ Lose

Spec == Init /\ [][Next]_cvars
============================================================================
