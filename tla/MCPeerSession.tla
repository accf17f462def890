--------------------------- MODULE MCPeerSession ---------------------------
EXTENDS PeerSession
\* No symmetry: the bounds are numbers, and SendEnds is a liveness property.
============================================================================
