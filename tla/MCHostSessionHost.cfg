CONSTANTS
    BackoffStart = 1
    BackoffMax = 1
    ProbeDownThreshold = 1
    UserOps = {}
    Tunnels = {t1}
    Threads = {w1, w2}
    None = None
    MaxCommands = 1
    MaxEvents = 1
    MaxJobs = 1
    Preflights = {"Ok", "LoggedOut"}
    Services = {"absent", "ported"}
    IdNeedles <- NoNeedles
    Causes = {"gone"}
SPECIFICATION SessionSpec
INVARIANT HostingIsConfirmed
