\* Two daemons, two connections, three frames of two units, one fault.
SPECIFICATION FairSpec
CONSTANTS
    Daemon = {a, b}
    Self = self
    Blank = blank
    NetLen = 1
    TxLen = 1
    LongLen = 2
    Copies = 2
    MaxSends = 3
    MaxFaults = 1
CHECK_DEADLOCK FALSE
INVARIANTS
    TypeOK
    HonestHeard
PROPERTIES
    ImplementsChannel
    AnswerReturns
    NothingStuck
