CONSTANTS
    Slug = {1}
    MaxWords = 2
    MaxMoves <- Bounds
    Overlap = {}
    Plans = {"leaving", "publishing"}
SPECIFICATION FairSpec
INVARIANTS PagesAsShown LeavingKeepsWords
PROPERTY GateShuts
CHECK_DEADLOCK FALSE
