CONSTANTS
    p1 = p1
    p2 = p2
    p3 = p3
    one = one
    two = two
    Panics = {p1, p2, p3}
    Processes = {one, two}
    Pid <- ProcessOf
    Starters = {s1}
    MaxTime = 2
    MaxMishaps = 2
    Missing = missing
    Torn = torn
SPECIFICATION CrashSpec
SYMMETRY ThreadsOfOne
INVARIANTS
    CrashTypeOK
    LatestIsKept
    SurfacedOnce
