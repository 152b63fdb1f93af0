CONSTANTS
    p1 = p1
    p2 = p2
    p3 = p3
    one = one
    two = two
    Panics = {p1, p2, p3}
    Processes = {one, two}
    Pid <- ProcessOf
    Starters = {s1, s2}
    MaxTime = 2
    MaxMishaps = 1
    Missing = missing
    Torn = torn
SPECIFICATION CrashSpec
INVARIANT SurfacedOnce
