CONSTANTS
    BackoffStart = 1
    BackoffMax = 1
    ProbeDownThreshold = 1
    UserOps = {"Host"}
    Tunnels = {t1}
    Threads = {w1, w2}
    None = None
    MaxCommands = 0
    MaxEvents = 1
    IdNeedles <- NoNeedles
    Causes = {"network"}
    Ids <- FirstTunnel
    MaxWaiting = 1
SPECIFICATION FairRunnerSpec
INVARIANTS
    RunnerTypeOK
    QuitStopsIds
PROPERTIES
    StraysEnd
    StopIsServed
    QuitEnds
CHECK_DEADLOCK FALSE
