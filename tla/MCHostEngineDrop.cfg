CONSTANTS
    BackoffStart = 1
    BackoffMax = 3
    ProbeDownThreshold = 3
    UserOps = {"Host", "Stop", "DropRelay"}
    Tunnels = {t1}
    Threads = {w1, w2}
    None = None
    MaxCommands = 1
    MaxEvents = 1
    IdNeedles <- NoNeedles
    Causes = {"network", "signin", "rejected", "malformed", "garbled", "gone"}

SPECIFICATION Spec
PROPERTY DropIgnoredUnlessUp
