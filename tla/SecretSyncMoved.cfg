SPECIFICATION Spec
CONSTANTS
    None = None
    Absent = Absent
    Unreadable = Unreadable
    Malformed = Malformed
    Unusable = Unusable
    k1 = k1
    k2 = k2
    d1 = d1
    d2 = d2
    a1 = a1
    a2 = a2
    Configurations <- MovedDomain
    Damages = {}
    MaxChanges = 1
    MaxTokens = 2
    MaxEdits = 0
    MaxErrors = 0
    MaxRestarts = 0
INVARIANTS
    OneTokenPerRegistry
CHECK_DEADLOCK FALSE
