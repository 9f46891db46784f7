SPECIFICATION FairSpec
CONSTANTS
    None = None
    w1 = w1
    w2 = w2
    Workers = {w1, w2}
    Items = {1, 2, 3}
    NamespaceCount = 2
    TriggerPercent = 25
    LateAccounts = {"default"}
    Commands <- SomeCommands
    Leftovers = {{}, {1}, {1, 3}}
    MaxRestarts <- OneRestart
INVARIANTS
    RootCause
    NoMissedCompletion
    SuccessIsEarned
    RefreshFollowsAdvance
    NothingLeftBehind
PROPERTIES
    BatchImplemented
    LabellingKeepsReference
    RunReturns
CHECK_DEADLOCK FALSE
