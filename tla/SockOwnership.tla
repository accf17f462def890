--------------------------- MODULE SockOwnership ---------------------------
(* Who owns which socket descriptor.                                       *)
(*                                                                         *)
(* A peer::Peer holds an std::optional<smolsocket::Sock>, a Sock holds a   *)
(* descriptor, and both are move-only: vectors of peers grow, swap and     *)
(* shrink by moving them.  This module follows the descriptors through     *)
(* every constructor, assignment and destructor of the two classes and     *)
(* through the connection half of Peer::handshake.  The kernel hands out   *)
(* any descriptor that is not open (it hands out the lowest: fewer         *)
(* behaviours), so a descriptor is reused as soon as it is closed.         *)
EXTENDS FiniteSets

CONSTANTS
    Peers,      \* the storage a Peer object may live in
    Fds,        \* file descriptors
    Addrs       \* the ip:port pairs peers are made for

\* What a peer's m_sock may hold instead of a descriptor.
Dead     == "dead"       \* no object lives here
NoSock   == "nosock"     \* std::nullopt
MinusOne == "minusone"   \* a Sock that was moved from: m_sockfd == -1
MovedFrom == "movedfrom" \* m_ip after std::move: an empty string
Nowhere   == "nowhere"   \* the far end of a descriptor that is not connected

Handles == Fds \cup {Dead, NoSock, MinusOne}

ASSUME SentinelsAssumption ==
    /\ {Dead, NoSock, MinusOne} \cap Fds = {}
    /\ {MovedFrom, Nowhere} \cap Addrs = {}

VARIABLES
    handle,     \* what each peer's m_sock holds
    addr,       \* each peer's m_ip and m_port
    open,       \* the descriptors the process has open
    remote      \* the address each open descriptor is connected to

vars == <<handle, addr, open, remote>>

TypeOK ==
    /\ handle \in [Peers -> Handles]
    /\ addr \in [Peers -> Addrs \cup {MovedFrom}]
    /\ open \in SUBSET Fds
    /\ remote \in [Fds -> Addrs \cup {Nowhere}]

Alive(p) == handle[p] # Dead

\* Sock::~Sock(): closes what it holds; -1 and nullopt close nothing.
CloseAll(held) ==
    /\ open' = open \ held
    /\ remote' = [f \in Fds |-> IF f \in held THEN Nowhere ELSE remote[f]]

----------------------------------------------------------------------------
(* Slips: one plausible mistake per property, swapped in for the definition *)
(* it is named after to see that the property notices.                      *)

LeftBehindKeepsFd(h) == h

MoveAssignDropsOld(p, other) ==
    /\ Alive(p) /\ Alive(other) /\ p # other
    /\ handle' = [handle EXCEPT ![p] = handle[other],
                                ![other] = IF @ \in Fds THEN MinusOne ELSE @]
    /\ addr' = [addr EXCEPT ![p] = addr[other], ![other] = MovedFrom]
    /\ UNCHANGED <<open, remote>>

MoveAssignKeepsOtherIp(p, other) ==
    /\ Alive(p) /\ Alive(other) /\ p # other
    /\ handle' = [handle EXCEPT ![p] = handle[other], ![other] = handle[p]]
    /\ addr' = [addr EXCEPT ![p] = addr[other]]
    /\ UNCHANGED <<open, remote>>

MoveAssignClosesOld(p, other) ==
    /\ Alive(p) /\ Alive(other) /\ p # other
    /\ handle' = [handle EXCEPT ![p] = handle[other], ![other] = handle[p]]
    /\ addr' = [addr EXCEPT ![p] = addr[other], ![other] = MovedFrom]
    /\ CloseAll({handle[p]} \cap Fds)

ConstructUnset(p, a) ==
    /\ ~Alive(p)
    /\ handle' = [handle EXCEPT ![p] = addr[p]]
    /\ addr' = [addr EXCEPT ![p] = a]
    /\ UNCHANGED <<open, remote>>

----------------------------------------------------------------------------
Init ==
    /\ handle = [p \in Peers |-> Dead]
    /\ addr = [p \in Peers |-> MovedFrom]
    /\ open = {}
    /\ remote = [f \in Fds |-> Nowhere]

\* Peer::Peer(id, ip, port): no socket yet.
Construct(p, a) ==
    /\ ~Alive(p)
    /\ handle' = [handle EXCEPT ![p] = NoSock]
    /\ addr' = [addr EXCEPT ![p] = a]
    /\ UNCHANGED <<open, remote>>

\* The implicit ~Peer() destroys an engaged m_sock.
Destroy(p) ==
    /\ Alive(p)
    /\ CloseAll({handle[p]} \cap Fds)
    /\ handle' = [handle EXCEPT ![p] = Dead]
    /\ addr' = [addr EXCEPT ![p] = MovedFrom]

\* What Sock::Sock(Sock&&) leaves behind: an engaged optional stays engaged.
LeftBehind(h) == IF h = NoSock THEN NoSock ELSE MinusOne

\* Peer::Peer(Peer&& src) into the free storage p.
MoveConstruct(p, src) ==
    /\ ~Alive(p) /\ Alive(src)
    /\ handle' = [handle EXCEPT ![p] = handle[src], ![src] = LeftBehind(handle[src])]
    /\ addr' = [addr EXCEPT ![p] = addr[src], ![src] = MovedFrom]
    /\ UNCHANGED <<open, remote>>

\* Peer::operator=(Peer&& other): the optionals are swapped, whichever of the
\* two is engaged; Sock's own move operations leave nothing that is closed.
MoveAssign(p, other) ==
    /\ Alive(p) /\ Alive(other) /\ p # other
    /\ handle' = [handle EXCEPT ![p] = handle[other], ![other] = handle[p]]
    /\ addr' = [addr EXCEPT ![p] = addr[other], ![other] = MovedFrom]
    /\ UNCHANGED <<open, remote>>

\* Peer::handshake, Sock::Sock and the kernel connect; emplace then destroys
\* the Sock m_sock held before and the emptied temporary.
ConnectSucceeds(p, f) ==
    /\ Alive(p) /\ addr[p] # MovedFrom
    /\ f \in Fds \ open
    /\ LET old == {handle[p]} \cap Fds IN
         /\ open' = (open \ old) \cup {f}
         /\ remote' = [g \in Fds |-> IF g = f THEN addr[p]
                                     ELSE IF g \in old THEN Nowhere ELSE remote[g]]
    /\ handle' = [handle EXCEPT ![p] = f]
    /\ UNCHANGED addr

\* connect() fails: the constructor throws, no destructor runs for the Sock
\* under construction, its descriptor stays open and m_sock is not touched.
ConnectFails(p, f) ==
    /\ Alive(p) /\ addr[p] # MovedFrom
    /\ f \in Fds \ open
    /\ open' = open \cup {f}
    /\ UNCHANGED <<handle, addr, remote>>

\* getaddrinfo() or socket() fails: nothing was opened, nothing changes.  A
\* moved-from peer always ends here, its address is the empty string.
LookupFails(p) == Alive(p) /\ UNCHANGED vars

Next ==
    \/ \E p \in Peers, a \in Addrs : Construct(p, a)
    \/ \E p \in Peers : Destroy(p)
    \/ \E p, src \in Peers : MoveConstruct(p, src)
    \/ \E p, other \in Peers : MoveAssign(p, other)
    \/ \E p \in Peers, f \in Fds : ConnectSucceeds(p, f)
    \/ \E p \in Peers, f \in Fds : ConnectFails(p, f)
    \/ \E p \in Peers : LookupFails(p)

Spec == Init /\ [][Next]_vars

----------------------------------------------------------------------------
Owners(f) == {p \in Peers : handle[p] = f}

\* No two peers ever hold one descriptor, through any sequence of moves,
\* swaps, reconnections and destructions (smolsocket.hpp:60, peer.hpp:61).
\* Two holders would close it twice, the second time after its reuse.
SingleOwner ==
    \A p, q \in Peers : handle[p] \in Fds /\ handle[p] = handle[q] => p = q

\* A peer never holds a descriptor that was closed under it: its next send()
\* would reach whatever connection reused the number.
OwnedOpen == \A p \in Peers : handle[p] \in Fds => handle[p] \in open

\* A peer that still has its address talks to that address: neither a move
\* nor a swap nor the reuse of a number can put two peers on each other's
\* connections.
TalksToOwnPeer ==
    \A p \in Peers :
        handle[p] \in Fds /\ addr[p] # MovedFrom => remote[handle[p]] = addr[p]

\* A descriptor is closed only in a step of its holder, and then nobody holds
\* it any more: no step of one peer cuts the connection of another.
CloseOnlyOwn ==
    [][\A f \in open \ open' : Owners(f) # {} /\ Owners(f)' = {}]_vars

\* A descriptor some peer once held is never dropped without being closed:
\* it stays open only as long as some peer holds it.
NoLeakOnceOwned ==
    [][\A f \in open \cap open' : Owners(f) # {} => Owners(f)' # {}]_vars

\* smolsocket.hpp:60 "there should only be a single object managing the
\* socket": every open socket has one.  The descriptor of a failed connect()
\* has none.
ExactlyOneManager == \A f \in open : Cardinality(Owners(f)) = 1

============================================================================
