CONSTANTS
    BackoffStart = 2
    BackoffMax = 60
    ProbeDownThreshold = 3
    Tunnels = {t1}
    IdNeedles <- NoNeedles
    Causes = {"network", "signin", "rejected", "malformed", "garbled", "gone"}
    RemintAfter = 5
    TokenLife = 6
    MaxAge = 12
SPECIFICATION Spec
INVARIANT RemintedBeforeExpiry
CHECK_DEADLOCK FALSE
