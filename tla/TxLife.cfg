SPECIFICATION FairSpec
CONSTANTS
    Daemon = {d1, d2}
    Name = {n}
    Data = {x}
    Currency = {shc, gmc}
    Coin = {shc}
    Span = 1
    MaxTime = 2
    MaxMade = 6
    MaxSends = 3
    MaxRestarts = 1
INVARIANTS
    TypeOK
    RefusedForCause
    EvalsVerifiable
    ClockHeadsHome
PROPERTIES
    ClockSynced
CHECK_DEADLOCK FALSE
