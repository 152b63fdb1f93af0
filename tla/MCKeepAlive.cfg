CONSTANTS
    BackoffStart = 2
    BackoffMax = 60
    ProbeDownThreshold = 3
    MaxBumps = 25
SPECIFICATION Spec
INVARIANTS
    TypeOK
    WatchdogExact
    BackoffIsExponential
PROPERTIES
    RetriesAreSpaced
\* The policy has no next outcome once host_group has returned, or at the bound.
CHECK_DEADLOCK FALSE
