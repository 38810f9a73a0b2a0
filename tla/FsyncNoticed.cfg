\* New directories only, short names: liveness.
SPECIFICATION FairSpec
CONSTANTS
    Dir = {r, a, b, c}
    Root = r
    Name = {n1, n2}
    Long = {}
    Removes = FALSE
    Moves = FALSE
    Files = FALSE
    MaxChanges = 3

CHECK_DEADLOCK FALSE
PROPERTY
    NoticedIsWatched
