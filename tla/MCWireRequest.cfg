SPECIFICATION Spec
CONSTANTS
    LittleEndian = TRUE
    Numbers <- MCNumbers
    Payloads <- MCPayloads
    PieceLen = 2
    PeerStrings <- MCPeerStrings
    MaxMessages = 1
INVARIANTS
    RequestInNetworkOrder
