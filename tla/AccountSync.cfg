SPECIFICATION FairSpec
CONSTANTS
    None = None
    s1 = s1
    Managed = "managed"
    ServiceAccounts = {s1}
    ReferenceLists <- Lists
    ForeignSecrets = TRUE
    Selections <- SomeSelections
    MaxChanges = 1
    MaxSecretChanges = 2
    MaxEdits = 1
    MaxErrors = 1
    MaxMapErrors = 0
    MaxRestarts = 1
    MaxFailures = 1
INVARIANTS
    NoLeakedBackoff
    QuietIsSettled
PROPERTIES
    OthersKept
    Injected
CHECK_DEADLOCK FALSE
