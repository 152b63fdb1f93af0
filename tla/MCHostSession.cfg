CONSTANTS
    BackoffStart = 1
    BackoffMax = 1
    ProbeDownThreshold = 1
    UserOps = {}
    Tunnels = {t1}
    Threads = {w1}
    None = None
    MaxCommands = 1
    MaxEvents = 1
    MaxJobs = 1
    Preflights = {"Ok", "CliMissing", "LoggedOut"}
    Services = {"absent", "ported"}
    IdNeedles <- NoNeedles
    Causes = {"network", "gone"}
SPECIFICATION SessionSpec
INVARIANTS
    SessionTypeOK
    HostedIsWanted
    UndisturbedAgrees
PROPERTY
    PrunedWasGone
