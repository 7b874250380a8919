CONSTANTS
    Request = {1, 2, 3}
    Tenant = {t1, t2, t3}
    Author = t1
    Second = t2
    Third = t3
    LastDay = 1
    Limit = 1
    GlobalLimit = 2
    NoRow = NoRow
    MaxBlocks = 3
    MaxEdits = 1
    MaxWords = 1
    Substantive = 1
    Enough = 1
    MaxReflections = 2
    Environment = {}
    Nothing = Nothing
SPECIFICATION MCSpec
INVARIANTS AllowanceInv MarginInv
PROPERTIES MetadataOfTheseWords
CHECK_DEADLOCK FALSE
