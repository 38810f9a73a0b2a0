\* Two daemons, one exchange: a statement of the source that fails.
SPECIFICATION Spec
CONSTANTS
    Daemon = {a, b}
    Byte = {x, y}
    Segment = 1
    Copies = 1
    MaxLen = 2
    MaxTime = 3
    MaxEvents = 1
CHECK_DEADLOCK FALSE
PROPERTY
    MissingMatches
