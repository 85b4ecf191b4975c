CONSTANTS
    p1 = p1
    p2 = p2
    w1 = w1
    w2 = w2
    c1 = c1
    c2 = c2
    NoOne = NoOne
    Poster <- Posters
    Worker <- Workers
    Chunk = {c1, c2}
    D1Units = 1
    LarkUnits = 2
    MaxPosts = 2
    MaxRedrives = 1
    MaxFaults = 1
SPECIFICATION Spec
CHECK_DEADLOCK FALSE
INVARIANT PayloadIsKept
