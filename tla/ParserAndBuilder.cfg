SPECIFICATION Spec
CONSTANTS
    None = None
    Absent = Absent
    Unreadable = Unreadable
    Malformed = Malformed
    Unusable = Unusable
    Blank = Blank
    Wildcard = Wildcard
    Rejected = Rejected
    Unset = Unset
    NotANumber = NotANumber
    r1 = r1
    r2 = r2
    i1 = i1
    n1 = n1
    n2 = n2
    d1 = d1
    d2 = d2
    a1 = a1
    a2 = a2
    t1 = t1
INVARIANTS
    AcceptedIsFaithful
    OrderIrrelevant
    Isolation
    Healed
    SyncedIsCurrent
CHECK_DEADLOCK FALSE
