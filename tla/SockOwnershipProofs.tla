----------------------- MODULE SockOwnershipProofs -----------------------
(* SockOwnership for any number of peers, descriptors and addresses.      *)
EXTENDS SockOwnership, TLAPS

\* The three ownership facts need each other: a reused number is harmless
\* because nobody holds a closed one (OwnedOpen), a close is harmless because
\* nobody else holds it (SingleOwner).
IInv == TypeOK /\ SingleOwner /\ OwnedOpen /\ TalksToOwnPeer

\* No peer exists when the program starts.
LEMMA InitOK == Init => IInv
BY SentinelsAssumption
   DEF Init, IInv, TypeOK, SingleOwner, OwnedOpen, TalksToOwnPeer, Handles, Dead

\* Every operation of Peer and Sock keeps the ownership facts.
LEMMA StepOK == IInv /\ [Next]_vars => IInv'
<1> SUFFICES ASSUME IInv, [Next]_vars PROVE IInv'
  OBVIOUS
<1> USE SentinelsAssumption DEF Handles, Alive
<1>1. ASSUME NEW p \in Peers, NEW a \in Addrs, Construct(p, a) PROVE IInv'
  BY <1>1 DEF Construct, IInv, TypeOK, SingleOwner, OwnedOpen, TalksToOwnPeer, NoSock, Dead
<1>2. ASSUME NEW p \in Peers, Destroy(p) PROVE IInv'
  BY <1>2 DEF Destroy, CloseAll, IInv, TypeOK, SingleOwner, OwnedOpen, TalksToOwnPeer
<1>3. ASSUME NEW p \in Peers, NEW src \in Peers, MoveConstruct(p, src) PROVE IInv'
  BY <1>3 DEF MoveConstruct, LeftBehind, IInv, TypeOK, SingleOwner, OwnedOpen, TalksToOwnPeer
<1>4. ASSUME NEW p \in Peers, NEW other \in Peers, MoveAssign(p, other) PROVE IInv'
  BY <1>4 DEF MoveAssign, IInv, TypeOK, SingleOwner, OwnedOpen, TalksToOwnPeer
<1>5. ASSUME NEW p \in Peers, NEW f \in Fds, ConnectSucceeds(p, f) PROVE IInv'
  <2>1. TypeOK'
    BY <1>5 DEF ConnectSucceeds, IInv, TypeOK
  <2>2. SingleOwner'
    BY <1>5 DEF ConnectSucceeds, IInv, TypeOK, SingleOwner, OwnedOpen
  <2>3. OwnedOpen'
    BY <1>5 DEF ConnectSucceeds, IInv, TypeOK, SingleOwner, OwnedOpen
  <2>4. TalksToOwnPeer'
    BY <1>5 DEF ConnectSucceeds, IInv, TypeOK, SingleOwner, OwnedOpen, TalksToOwnPeer
  <2> QED
    BY <2>1, <2>2, <2>3, <2>4 DEF IInv
<1>6. ASSUME NEW p \in Peers, NEW f \in Fds, ConnectFails(p, f) PROVE IInv'
  BY <1>6 DEF ConnectFails, IInv, TypeOK, SingleOwner, OwnedOpen, TalksToOwnPeer
<1>7. ASSUME UNCHANGED vars PROVE IInv'
  BY <1>7 DEF vars, IInv, TypeOK, SingleOwner, OwnedOpen, TalksToOwnPeer
<1> QED
  BY <1>1, <1>2, <1>3, <1>4, <1>5, <1>6, <1>7 DEF Next, LookupFails

\* The inductive invariant holds in every behaviour.
LEMMA Inductive == Spec => []IInv
BY InitOK, StepOK, PTL DEF Spec

\* Type correctness of the ownership model.
THEOREM TypeCorrect == Spec => []TypeOK
BY Inductive, PTL DEF IInv

\* No two Peer objects ever hold one descriptor (smolsocket.hpp:60).
THEOREM OneOwner == Spec => []SingleOwner
BY Inductive, PTL DEF IInv

\* What a Peer holds is open: no use after close.
THEOREM HeldIsOpen == Spec => []OwnedOpen
BY Inductive, PTL DEF IInv

\* A Peer's descriptor is connected to the Peer's own address.
THEOREM OwnConnection == Spec => []TalksToOwnPeer
BY Inductive, PTL DEF IInv

\* A descriptor is closed by its holder alone.
THEOREM ClosedByHolder == Spec => CloseOnlyOwn
<1>1. IInv /\ [Next]_vars
        => [\A f \in open \ open' : Owners(f) # {} /\ Owners(f)' = {}]_vars
  <2> SUFFICES ASSUME IInv, IInv', Next, NEW f \in open \ open'
               PROVE Owners(f) # {} /\ Owners(f)' = {}
    BY StepOK DEF vars
  <2> USE DEF IInv, TypeOK, Owners, Handles
  <2>1. Owners(f)' = {}
    BY DEF OwnedOpen
  <2>2. ASSUME NEW p \in Peers, Destroy(p) PROVE handle[p] = f
    BY <2>2 DEF Destroy, CloseAll
  <2>3. ASSUME NEW p \in Peers, NEW g \in Fds, ConnectSucceeds(p, g) PROVE handle[p] = f
    BY <2>3 DEF ConnectSucceeds
  <2>4. \E p \in Peers : handle[p] = f
    BY <2>2, <2>3 DEF Next, vars, Construct, MoveConstruct, MoveAssign, ConnectFails, LookupFails
  <2> QED
    BY <2>1, <2>4
<1> QED
  BY <1>1, Inductive, PTL DEF Spec, CloseOnlyOwn

\* A descriptor that was ever held is held until it is closed.
THEOREM HeldUntilClosed == Spec => NoLeakOnceOwned
<1>1. IInv /\ [Next]_vars
        => [\A f \in open \cap open' : Owners(f) # {} => Owners(f)' # {}]_vars
  <2> SUFFICES ASSUME IInv, Next,
                      NEW f \in open \cap open', NEW q \in Peers, handle[q] = f
               PROVE \E o \in Peers : handle'[o] = f
    BY DEF Owners
  <2> USE SentinelsAssumption DEF IInv, TypeOK, Handles, Alive
  <2>1. ASSUME NEW p \in Peers, NEW a \in Addrs, Construct(p, a) PROVE handle'[q] = f
    BY <2>1 DEF Construct
  <2>2. ASSUME NEW p \in Peers, Destroy(p) PROVE handle'[q] = f
    BY <2>2 DEF Destroy, CloseAll
  <2>3. ASSUME NEW p \in Peers, NEW src \in Peers, MoveConstruct(p, src)
        PROVE handle'[q] = f \/ handle'[p] = f
    BY <2>3 DEF MoveConstruct, LeftBehind
  <2>4. ASSUME NEW p \in Peers, NEW other \in Peers, MoveAssign(p, other)
        PROVE handle'[q] = f \/ handle'[p] = f \/ handle'[other] = f
    BY <2>4 DEF MoveAssign
  <2>5. ASSUME NEW p \in Peers, NEW g \in Fds, ConnectSucceeds(p, g) PROVE handle'[q] = f
    BY <2>5 DEF ConnectSucceeds
  <2> QED
    BY <2>1, <2>2, <2>3, <2>4, <2>5 DEF Next, vars, ConnectFails, LookupFails
<1> QED
  BY <1>1, Inductive, PTL DEF Spec, NoLeakOnceOwned
============================================================================
