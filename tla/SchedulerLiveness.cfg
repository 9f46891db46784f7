SPECIFICATION FairSpec
CONSTANTS
    None = None
    k1 = k1
    k2 = k2
    w1 = w1
    w2 = w2
    a = a
    b = b
    Keys = {k1}
    Auths = {a, b}
    Workers = {w1}
    Lifetimes = {1, 3}
    RefreshBefore = 1
    RequestTimeout = 1
    RetryBaseDelay = 1
    RetryMaxDelay = 2
    PublishTime = 1
    MaxChanges = 2
    Reverts = FALSE
PROPERTIES Converges RemovedCredentialLeaves ShutdownTerminates
