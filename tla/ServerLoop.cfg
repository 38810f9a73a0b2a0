\* One turn after another of the main loop: two hosts, three clients.
SPECIFICATION Spec
CONSTANTS
    Host = {h1, h2}
    Port = {listen, eph}
    ListenPort = listen
    App = {app}
    Self = self
    Blank = blank
    MaxFd = 3
    MaxClients = 3
    MaxConnections = 0
    MaxSeq = 2
SYMMETRY Symmetry
CHECK_DEADLOCK FALSE
INVARIANTS
    TypeOK
    DescriptorNotForeign
    LiveRequests
    UniqueRegistration
    ReadinessBelongs
    ConnectionsBounded
PROPERTIES
    DeregisteredForNewer
