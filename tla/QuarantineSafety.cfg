SPECIFICATION Spec
CONSTANTS
    near = near
    far = far
    file = file
    Sample = {a, b}
    Nothing = Nothing
    Torn = Torn
    Path = {near, far}
    Name = {file}
    NameOf <- MCNameOf
    CrossDevice = {far}
    NoPath = NoPath
    MaxFaults = 2
    MaxEdits = 2
INVARIANTS TypeOK SampleSurvives VerifiedCopy FailureKeepsOriginal OkMeansIsolated DuplicatesKeptAlone
PROPERTY NothingDeletedFirst
CHECK_DEADLOCK FALSE
