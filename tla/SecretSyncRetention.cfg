SPECIFICATION FairSpec
CONSTANTS
    None = None
    Absent = Absent
    Unreadable = Unreadable
    Malformed = Malformed
    Unusable = Unusable
    k1 = k1
    k2 = k2
    d1 = d1
    d2 = d2
    a1 = a1
    a2 = a2
    Configurations <- TwoRegistries
    Damages = {"garble", "auth", "state"}
    MaxChanges = 1
    MaxTokens = 2
    MaxEdits = 1
    MaxErrors = 0
    MaxRestarts = 1
PROPERTIES
    PullAccessKept
    Delivered
CHECK_DEADLOCK FALSE
