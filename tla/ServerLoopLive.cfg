\* One turn after another of the main loop: liveness, one host, two clients.
SPECIFICATION FairSpec
CONSTANTS
    Host = {h1}
    Port = {listen, eph}
    ListenPort = listen
    App = {app}
    Self = self
    Blank = blank
    MaxFd = 2
    MaxClients = 2
    MaxConnections = 1
    MaxSeq = 2
CHECK_DEADLOCK FALSE
PROPERTIES
    ClosedIsFreed
    ShutdownCompletes
