\* Restarts, timeouts, connections set up in any order.
SPECIFICATION Spec
CONSTANTS
    Node = {a, b}
    Self = self
    Blank = blank
    Sub = sub
    Interfaces = 1
    MaxBoots = 2
    Idle = TRUE
    Reorder = TRUE
SYMMETRY Symmetry
CHECK_DEADLOCK FALSE
INVARIANTS
    TypeOK
    ChatterBounded
    InitNeverUnknown
