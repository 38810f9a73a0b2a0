\* Three daemons: a statement of the source that fails.
SPECIFICATION Spec
CONSTANTS
    Node = {a, b, c}
    Self = self
    Blank = blank
    Sub = sub
    Interfaces = 1
    MaxBoots = 1
    Idle = FALSE
    Reorder = FALSE
SYMMETRY Symmetry
CHECK_DEADLOCK FALSE
PROPERTY
    DupsAreDuplicates
