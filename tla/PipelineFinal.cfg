SPECIFICATION FairSpec
CONSTANTS
    SuspiciousThreshold = 4000
    MaliciousThreshold = 7000
    r1 = r1
    r2 = r2
    h1 = h1
    Hash = {h1}
    Request = {r1, r2}
    NoTask = NoTask
    NoHash = NoHash
    HashOf <- MCHashOf
    StaticWorker = {s1}
    MlWorker = {m1}
    SandboxSlot = {x1}
    Reader = {}
    MlRisk <- MCRoutedRisk
    Report <- MCReport
    MaxAttempts = 2
    MaxFaults = 1
PROPERTY CompletedIsFinal
CHECK_DEADLOCK FALSE
