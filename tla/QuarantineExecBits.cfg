SPECIFICATION Spec
CONSTANTS
    near = near
    far = far
    file = file
    Sample = {a, b}
    Nothing = Nothing
    Torn = Torn
    Path = {near, far}
    Name = {file}
    NameOf <- MCNameOf
    CrossDevice = {far}
    NoPath = NoPath
    MaxFaults = 1
    MaxEdits = 0
INVARIANT ExecuteBitsStripped
CHECK_DEADLOCK FALSE
