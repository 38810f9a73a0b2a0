\* A peer and the own peer, two hours, every kind of transaction, failures and restarts.
SPECIFICATION Spec
CONSTANTS
    Peer = {p}
    Self = self
    Zero = zero
    Inits = {ini}
    Files = {f1, f2}
    File = file
    Plain = {ev}
    Controls = {sub}
    MaxHour = 2
    MaxCount = 3
SYMMETRY Symmetry
CHECK_DEADLOCK FALSE
INVARIANTS
    TypeOK
    LedgerOrder
    LedgerComplete
    
PROPERTIES
    LedgerGrows
    StoreKept
    ImplementsLog
