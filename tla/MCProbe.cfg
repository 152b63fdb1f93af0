CONSTANTS
    Ports = {p1, p2}
    Intervals = {1, 3}
    FastInterval = 2
    HttpInterval = 3
    MaxCommands = 1
    MaxEvents = 1
SPECIFICATION FairSpec
INVARIANTS
    ProbeTypeOK
    TroubleIsRecheckedSoon
PROPERTY OutageIsShown
