SPECIFICATION Spec
CONSTANTS
    SuspiciousThreshold = 4000
    MaliciousThreshold = 7000
    r1 = r1
    r2 = r2
    h1 = h1
    Hash = {h1}
    Request = {r1, r2}
    NoTask = NoTask
    NoHash = NoHash
    HashOf <- MCHashOf
    StaticWorker = {s1}
    MlWorker = {m1, m2}
    SandboxSlot = {x1, x2}
    Reader = {l1}
    MlRisk <- MCMlRisk
    Report <- MCReport
    MaxAttempts = 2
    MaxFaults = 0
SYMMETRY MCSymmetry
INVARIANT VerdictFieldsAgree
CHECK_DEADLOCK FALSE
