CONSTANTS
    Ports = {p1}
    Intervals = {1, 3}
    FastInterval = 2
    HttpInterval = 4
    MaxCommands = 1
    MaxEvents = 1
SPECIFICATION Spec
INVARIANT BadgesClear
