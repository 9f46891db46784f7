SPECIFICATION Spec
CONSTANTS
    None = None
    s1 = s1
    Managed = "managed"
    ServiceAccounts = {s1}
    ReferenceLists <- ShortLists
    ForeignSecrets = FALSE
    Selections <- AlwaysSelected
    MaxChanges = 0
    MaxSecretChanges = 4
    MaxEdits = 2
    MaxErrors = 1
    MaxMapErrors = 1
    MaxRestarts = 1
    MaxFailures = 1
INVARIANTS
    QuietIsSettled
PROPERTIES
    ReferenceKept
CHECK_DEADLOCK FALSE
