\* Two daemons, a file of up to two segments each, one of everything that goes wrong.
SPECIFICATION FairSpec
CONSTANTS
    Daemon = {a, b}
    Byte = {x, y}
    Segment = 1
    Copies = 1
    MaxLen = 2
    MaxTime = 3
    MaxEvents = 3
CHECK_DEADLOCK FALSE
INVARIANTS
    TypeOK
    WriteWasAsked
    NewestKept
PROPERTIES
    Settles
