SPECIFICATION Spec
CONSTANTS
    Peers = {p1, p2, p3}
    Fds = {f1, f2, f3}
    Addrs = {a1, a2}
SYMMETRY Symmetry
INVARIANTS
    TypeOK
    SingleOwner
    OwnedOpen
    TalksToOwnPeer
PROPERTIES
    CloseOnlyOwn
    NoLeakOnceOwned
