CONSTANTS
    BackoffStart = 2
    BackoffMax = 2
    ProbeDownThreshold = 1
    Tunnels = {t1}
    IdNeedles <- NoNeedles
    Causes = {"network", "signin", "gone"}
    RemintAfter = 5
    TokenLife = 6
    MaxAge = 7
    Windows = {6, 12}
    RenewEvery = 3
    Misses = 3
SPECIFICATION LifetimeSpec
INVARIANT NeverWidenedAtAll
