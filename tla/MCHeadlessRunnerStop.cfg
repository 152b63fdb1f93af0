CONSTANTS
    BackoffStart = 1
    BackoffMax = 1
    ProbeDownThreshold = 1
    UserOps = {"Host"}
    Tunnels = {t1, t2}
    Threads = {w1, w2}
    None = None
    MaxCommands = 0
    MaxEvents = 1
    IdNeedles <- NoNeedles
    Causes = {"network"}
    Ids <- FirstTunnel
    MaxWaiting = 1
SPECIFICATION RunnerSpec
PROPERTY StopLineStopsAll
CHECK_DEADLOCK FALSE
