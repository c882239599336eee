SPECIFICATION Spec
CONSTANTS
    near = near
    far = far
    file = file
    Sample = {a, b}
    Nothing = Nothing
    Torn = Torn
    Path = {near, far}
    Name = {file}
    NameOf <- MCNameOf
    CrossDevice = {far}
    NoPath = NoPath
    MaxFaults = 0
    MaxEdits = 1
INVARIANT DuplicatesKept
CHECK_DEADLOCK FALSE
