CONSTANTS
    None = None
    Page = {1}
    MaxThreads = 3
    MaxTurns = 5
    MaxCapsules = 1
    GatherRequired = 1
    Environment = {"voice", "reload", "quota"}
SPECIFICATION FairSpec
INVARIANTS ConversationInv OneReplyEach ShownIsStored
PROPERTIES FinishedIsFinal CallsEnd
CHECK_DEADLOCK FALSE
