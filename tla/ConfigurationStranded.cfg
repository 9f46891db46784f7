SPECIFICATION FairSpec
CONSTANTS
    None = None
    b1 = b1
    b2 = b2
    n1 = n1
    s1 = s1
    Configurations <- OneConfiguration
    Fallback <- SomeFallback
    Namespaces = {n1}
    ServiceAccounts = {s1}
    Buffer = 1
    MaxEdits = 2
    MaxFaults = 1
    Rejections = TRUE
CHECK_DEADLOCK FALSE
PROPERTY PendingFanoutCompletes
