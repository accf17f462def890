------------------------- MODULE MCSockOwnership -------------------------
EXTENDS SockOwnership, TLC
\* Peers, descriptors and addresses are interchangeable; no run of this
\* module checks a liveness property.
Symmetry ==
    Permutations(Peers) \cup Permutations(Fds) \cup Permutations(Addrs)
============================================================================
