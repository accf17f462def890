SPECIFICATION Spec
CONSTANTS
    Us = 0
    Ports = {0, 1, 2, 4}
    PortWord = 4
    Kinds = {"STARTED", "STOPPED"}
    Responses <- MCCompactResponses
    NumPieces = 1
    MaxJobs = 2
    MaxPeers = 2
INVARIANTS
    PeersLearned
