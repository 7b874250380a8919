CONSTANTS
    MaxDrafts = 2
    MaxChunks = 4
    MaxSessions = 3
    Backlog = 2
    Environment = {"wake"}
    None = None
SPECIFICATION FairSpec
INVARIANTS MicrophoneInv OwnWords ReviewIsComplete
PROPERTY ProcessingEnds
CHECK_DEADLOCK FALSE
