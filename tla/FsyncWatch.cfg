\* Removals, renames, files, long names.
SPECIFICATION Spec
CONSTANTS
    Dir = {r, a, b, c}
    Root = r
    Name = {n1, n2}
    Long = {n2}
    Removes = TRUE
    Moves = TRUE
    Files = TRUE
    MaxChanges = 4
SYMMETRY Symmetry
CHECK_DEADLOCK FALSE
INVARIANTS
    TypeOK
    WatchHasEntity
    PathsLead
