CONSTANTS
    Said <- Conversation
    UserItem = {"u1", "u2"}
    Response = {"r1", "r2"}
    Texts <- Replayed
    Declared <- Outputs
    Thread = {1, 2}
    MaxSessions = 2
    MaxMoves = 1
    MaxTalking = 1
SPECIFICATION FairVoice
INVARIANTS SilentWhenInactive PairedByLinks
PROPERTY ConnectingEnds
CHECK_DEADLOCK FALSE
