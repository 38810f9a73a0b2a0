\* Two announcements, connections set up in order: liveness.
SPECIFICATION FairSpec
CONSTANTS
    Node = {a, b}
    Self = self
    Blank = blank
    Sub = sub
    Interfaces = 2
    MaxBoots = 1
    Idle = FALSE
    Reorder = FALSE
CHECK_DEADLOCK FALSE
INVARIANTS
    PairKept
PROPERTIES
    StaysRegistered
    StaysLinked
