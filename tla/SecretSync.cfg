SPECIFICATION Spec
CONSTANTS
    None = None
    Absent = Absent
    Unreadable = Unreadable
    Malformed = Malformed
    Unusable = Unusable
    k1 = k1
    k2 = k2
    d1 = d1
    d2 = d2
    a1 = a1
    a2 = a2
    Configurations <- OneRegistry
    Damages = {"disown", "adopt", "extra", "garble", "auth", "state"}
    MaxChanges = 1
    MaxTokens = 2
    MaxEdits = 2
    MaxErrors = 1
    MaxRestarts = 1
INVARIANTS
    QuietIsConverged
PROPERTIES
    ForeignUntouched
    NoBlindWrite
CHECK_DEADLOCK FALSE
