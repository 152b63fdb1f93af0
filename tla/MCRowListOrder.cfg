CONSTANTS
    Tunnels = {t1}
    Ports = {1, 2}
    Jobs = {j1, j2}
    Failing = FALSE
SPECIFICATION Spec
INVARIANT CaughtUp
