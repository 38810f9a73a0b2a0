----------------------------- MODULE ServerLoop -----------------------------
(***************************************************************************)
(* The main loop of the share daemon (sharedaemon_server.c, cycle_main),   *)
(* its table of clients and the process's table of descriptors.            *)
(*                                                                         *)
(* The daemon is single threaded.  One turn of the loop passes through the *)
(* phases "queue" (one IPC message), "bcast" (one UDP announcement),       *)
(* "poll" (descriptor sets and select), "accept", "read", "write" (the     *)
(* three parts of cycle_socket), "verify" (cycle_socket_verify, one client *)
(* per step) and "request" (one frame per network client; the http        *)
(* requests that follow touch neither the list nor a descriptor).  The     *)
(* network is the nondeterminism of the system calls' results.             *)
(***************************************************************************)
EXTENDS ClientTable, FiniteSets

CONSTANTS
    Host,            \* remote hosts
    Port,            \* ports of remote endpoints
    ListenPort,      \* the port daemons listen on
    App,             \* public keys of local IPC applications
    Self,            \* the private key of the daemon's own peer
    Blank,           \* the key of a zeroed peer
    MaxFd,           \* bound: descriptors 1..MaxFd are available for clients
    MaxClients,      \* bound: clients allocated in a behaviour
    MaxConnections,  \* MAX_CLIENT_CONNECTIONS
    MaxSeq           \* bound: the greatest INIT sequence number received

ASSUME ConstantsAssumption ==
    /\ MaxFd \in Nat /\ MaxClients \in Nat
    /\ MaxConnections \in Nat /\ MaxSeq \in Nat
    /\ ListenPort \in Port
    /\ Self \notin (Host \X Port) \union App
    /\ Blank \notin (Host \X Port) \union App
    /\ Self # Blank

Remote == Host \X Port
Key    == Remote \union App \union {Self, Blank}
Fd     == 1..MaxFd
Id     == 1..MaxClients
Phase  == {"queue", "bcast", "poll", "accept", "read", "write", "verify",
           "request", "dead"}
Listener == {"net", "http"}

VARIABLES
    tbl,     \* the client list, a table of ClientTable
    last,    \* number of clients allocated so far
    sock,    \* sock[f]: the client whose connection descriptor f is, or 0
    pc,      \* the phase of the loop
    todo,    \* clients the pass of this phase has still to visit
    lst,     \* listening sockets found ready by select
    rd, wr,  \* client descriptors found readable and writable by select
    polled   \* the clients whose descriptors were in the sets (history)

vars == <<tbl, last, sock, pc, todo, lst, rd, wr, polled>>

sets == <<lst, rd, wr, polled>>

TypeOK ==
    /\ tbl \in [DOMAIN tbl -> Client(Key, 0..MaxFd, 0..MaxSeq + 1)]
    /\ last \in 0..MaxClients
    /\ DOMAIN tbl \subseteq 1..last
    /\ sock \in [Fd -> 0..last]
    /\ pc \in Phase
    /\ todo \subseteq DOMAIN tbl
    /\ lst \subseteq Listener
    /\ rd \subseteq Fd /\ wr \subseteq Fd
    /\ polled \subseteq 1..last

Init ==
    /\ tbl = [i \in {} |-> 0]
    /\ last = 0
    /\ sock = [f \in Fd |-> 0]
    /\ pc = "queue"
    /\ todo = {}
    /\ lst = {} /\ rd = {} /\ wr = {} /\ polled = {}

-----------------------------------------------------------------------------
\* Helpers

\* The descriptor is not in use: socket() and accept() return the lowest.
IsLowestFree(f) == sock[f] = 0 /\ \A g \in 1..f-1 : sock[g] # 0

\* Clients with an open socket, as the loops over the list select them.
Connected(t) == {i \in DOMAIN t : IsSocket(t[i]) /\ t[i].fd # 0}

\* Mutant of Count: only registered clients are counted.
CountRegistered(h) ==
    Cardinality({i \in Connected(tbl) :
                    tbl[i].reg /\ tbl[i].key \in {h} \X Port})

\* sharedaemon_client_count: sockets whose peer address is the host's.  A
\* client that took over the daemon's own peer in the handshake, and every
\* http client, has another address.
Count(h) ==
    Cardinality({i \in Connected(tbl) : tbl[i].key \in {h} \X Port})

\* close(): the client forgets its descriptor and the kernel frees it.
Closed(c) == [c EXCEPT !.fd = 0]

Goto(p) == pc' = p

-----------------------------------------------------------------------------
\* cycle_msg_queue_in: at most one message.  TX_APP with a matching key makes
\* the application an IPC client, unless it is one already; other messages do
\* not touch the list or a socket.
IpcRegister(a) ==
    /\ pc = "queue"
    /\ last < MaxClients
    /\ Find(tbl, a) = {}
    /\ tbl' = Push(tbl, last + 1, IpcClient(a))
    /\ last' = last + 1
    /\ Goto("bcast")
    /\ UNCHANGED <<sock, todo, sets>>

IpcOther ==
    /\ pc = "queue"
    /\ Goto("bcast")
    /\ UNCHANGED <<tbl, last, sock, todo, sets>>

-----------------------------------------------------------------------------
\* sharedaemon_bcast_recv and netclient_conn: a daemon on host h announced
\* itself; an asynchronous connection to it is opened and added to the list,
\* whether or not one to the same peer exists already.  The probe connection
\* of peer_add is never opened: peer_verify looks the key up first and finds
\* at least the client just registered ("op already in progress").
Connect(h) ==
    /\ pc = "bcast"
    /\ last < MaxClients
    /\ \E f \in Fd :
        /\ IsLowestFree(f)
        /\ tbl' = Push(tbl, last + 1, OutgoingClient(<<h, ListenPort>>, f))
        /\ sock' = [sock EXCEPT ![f] = last + 1]
    /\ last' = last + 1
    /\ Goto("poll")
    /\ UNCHANGED <<todo, sets>>

\* tx_init fails (scrypt) for the app transaction (registered = FALSE) or for
\* the init transaction (TRUE): netclient_conn closes the descriptor, but the
\* client stays on the list and keeps the number.
ConnectInitFails(h, registered) ==
    /\ pc = "bcast"
    /\ last < MaxClients
    /\ \E f \in Fd :
        /\ IsLowestFree(f)
        /\ tbl' = Push(tbl, last + 1,
                       [OutgoingClient(<<h, ListenPort>>, f)
                            EXCEPT !.reg = registered])
    /\ last' = last + 1
    /\ Goto("poll")
    /\ UNCHANGED <<sock, todo, sets>>

\* No announcement, or the connection was refused at once.
NoBroadcast ==
    /\ pc = "bcast"
    /\ Goto("poll")
    /\ UNCHANGED <<tbl, last, sock, todo, sets>>

-----------------------------------------------------------------------------
\* Mutant of BadDescriptor: the failure of select goes unnoticed.
BadDescriptorIgnored == FALSE

\* cycle_main fills the sets from the list and calls select (shnet_verify).
\* A number that is not open fails the call (EBADF); like a timeout, that
\* skips cycle_socket.
BadDescriptor == \E i \in Connected(tbl) : sock[tbl[i].fd] = 0

Poll ==
    /\ pc = "poll"
    /\ lst' \in SUBSET Listener
    /\ rd' \in SUBSET {tbl[i].fd : i \in Connected(tbl)}
    /\ wr' \in SUBSET {tbl[i].fd : i \in Connected(tbl)}
    /\ lst' # {} \/ rd' # {} \/ wr' # {}
    /\ ~ BadDescriptor
    /\ polled' = Connected(tbl)
    /\ Goto("accept")
    /\ UNCHANGED <<tbl, last, sock, todo>>

PollNothing ==
    /\ pc = "poll"
    /\ todo' = DOMAIN tbl
    /\ Goto("verify")
    /\ UNCHANGED <<tbl, last, sock, sets>>

-----------------------------------------------------------------------------
\* cycle_socket, first part: the daemon's port, then the http port.
Accept(c) ==
    /\ last < MaxClients
    /\ \E f \in Fd :
        /\ IsLowestFree(f)
        /\ tbl' = Push(tbl, last + 1, [c EXCEPT !.fd = f])
        /\ sock' = [sock EXCEPT ![f] = last + 1]
    /\ last' = last + 1

\* Mutant of AcceptNet: connections are accepted after the read loop, too.
AcceptNetLate(h, p) ==
    /\ pc \in {"accept", "write"}
    /\ Count(h) <= MaxConnections
    /\ Accept(AcceptedClient(<<h, p>>, 0))
    /\ lst' = lst \ {"net"}
    /\ UNCHANGED <<pc, todo, rd, wr, polled>>

\* A connection from host h, port p: refused when the host has more than
\* MaxConnections sockets, otherwise a client that awaits its handshake.
\* (That tx_init may fail for its app transaction changes nothing here.)
AcceptNet(h, p) ==
    /\ pc = "accept"
    /\ "net" \in lst
    /\ Count(h) <= MaxConnections
    /\ Accept(AcceptedClient(<<h, p>>, 0))
    /\ lst' = lst \ {"net"}
    /\ UNCHANGED <<pc, todo, rd, wr, polled>>

AcceptHttp(h) ==
    /\ pc = "accept"
    /\ lst = {"http"}
    /\ Count(h) <= MaxConnections
    /\ Accept(HttpClient(Blank, 0))
    /\ lst' = {}
    /\ UNCHANGED <<pc, todo, rd, wr, polled>>

\* accept() failed, or the connection was over the limit and closed.
AcceptNothing ==
    /\ pc = "accept"
    /\ lst # {}
    /\ lst' = IF "net" \in lst THEN lst \ {"net"} ELSE {}
    /\ UNCHANGED <<tbl, last, sock, pc, todo, rd, wr, polled>>

AcceptDone ==
    /\ pc = "accept"
    /\ lst = {}
    /\ Goto("read")
    /\ UNCHANGED <<tbl, last, sock, todo, sets>>

\* The clients of the list a ready set names, and what is left when the
\* sockets of the clients S are closed ("mark for removal").
Ready(set) == {i \in Connected(tbl) : tbl[i].fd \in set}

CloseAll(S) ==
    /\ tbl' = [i \in DOMAIN tbl |-> IF i \in S THEN Closed(tbl[i]) ELSE tbl[i]]
    /\ sock' = [f \in Fd |-> IF \E i \in S : tbl[i].fd = f THEN 0 ELSE sock[f]]

\* Second part: read every readable client; end of file or an error closes it.
Read ==
    /\ pc = "read"
    /\ \E gone \in SUBSET Ready(rd) : CloseAll(gone)
    /\ rd' = {}
    /\ Goto("write")
    /\ UNCHANGED <<last, todo, lst, wr, polled>>

\* Third part: write to every writable client with pending output; anything
\* but progress closes it.  Then the verification pass starts.
Write ==
    /\ pc = "write"
    /\ \E gone \in SUBSET Ready(wr) : CloseAll(gone)
    /\ wr' = {} /\ polled' = {}
    /\ todo' = DOMAIN tbl
    /\ Goto("verify")
    /\ UNCHANGED <<last, lst, rd>>

-----------------------------------------------------------------------------
\* cycle_socket_verify visits the clients from the newest to the oldest.
Visit(phase, i) ==
    /\ pc = phase
    /\ i \in First(todo)
    /\ todo' = todo \ {i}
    /\ UNCHANGED <<last, pc, sets>>

VerifySkip(i) ==
    /\ Visit("verify", i)
    /\ i \notin Connected(tbl)
    /\ UNCHANGED <<tbl, sock>>

\* select on the descriptor alone fails (always so when it is not open), or
\* reports an exceptional condition: the socket is shut down and closed.
VerifyError(i) ==
    /\ Visit("verify", i)
    /\ i \in Connected(tbl)
    /\ tbl' = [tbl EXCEPT ![i] = [Closed(@) EXCEPT !.shut = TRUE]]
    /\ sock' = [sock EXCEPT ![tbl[i].fd] = 0]

\* A client already marked for shutdown is closed once it can be written to.
VerifyShutdown(i, writable) ==
    /\ Visit("verify", i)
    /\ i \in Connected(tbl)
    /\ sock[tbl[i].fd] # 0
    /\ tbl[i].shut
    /\ IF writable
       THEN CloseAll({i})
       ELSE UNCHANGED <<tbl, sock>>

\* Closed for idleness: no data within a second of birth, or for ten minutes.
VerifyIdle(i) ==
    /\ Visit("verify", i)
    /\ i \in Connected(tbl)
    /\ sock[tbl[i].fd] # 0
    /\ ~ tbl[i].shut
    /\ CloseAll({i})

\* Mutants of Duplicates: only the next client is compared; the scan starts
\* at the head of the list instead of behind the client.
DuplicatesAdjacent(i) ==
    {j \in DOMAIN tbl : /\ j = i - 1
                        /\ tbl[j].kind = "net" /\ tbl[j].reg
                        /\ tbl[j].key = tbl[i].key}

DuplicatesFromHead(i) ==
    {j \in DOMAIN tbl : /\ tbl[j].kind = "net" /\ tbl[j].reg
                        /\ tbl[j].key = tbl[i].key}

\* Older registered network clients with the key of client i are duplicates.
Duplicates(i) ==
    {j \in DOMAIN tbl : /\ j < i
                        /\ tbl[j].kind = "net" /\ tbl[j].reg
                        /\ tbl[j].key = tbl[i].key}

VerifyDups(i) ==
    /\ Visit("verify", i)
    /\ i \in Connected(tbl)
    /\ sock[tbl[i].fd] # 0
    /\ ~ tbl[i].shut
    /\ tbl' = [j \in DOMAIN tbl |->
                 IF j \in Duplicates(i)
                 THEN [tbl[j] EXCEPT !.shut = TRUE, !.reg = FALSE]
                 ELSE tbl[j]]
    /\ UNCHANGED sock

\* Mutants of Removed and Sweep: only some of the closed clients are freed;
\* the next pass still visits the freed ones.
RemovedShutdownOnly ==
    {i \in DOMAIN tbl : tbl[i].kind = "net" /\ tbl[i].fd = 0 /\ tbl[i].shut}

RemovedRegisteredOnly ==
    {i \in DOMAIN tbl : tbl[i].kind = "net" /\ tbl[i].fd = 0 /\ tbl[i].reg}

\* The last loop of cycle_socket_verify frees network clients without a
\* descriptor.  It passes over http clients.
Removed == {i \in DOMAIN tbl : tbl[i].kind = "net" /\ tbl[i].fd = 0}

SweepKeepsVisits ==
    /\ pc = "verify"
    /\ todo = {}
    /\ tbl' = [i \in DOMAIN tbl \ Removed |-> tbl[i]]
    /\ todo' = DOMAIN tbl
    /\ Goto("request")
    /\ UNCHANGED <<last, sock, sets>>

Sweep ==
    /\ pc = "verify"
    /\ todo = {}
    /\ tbl' = [i \in DOMAIN tbl \ Removed |-> tbl[i]]
    /\ todo' = DOMAIN tbl \ Removed
    /\ Goto("request")
    /\ UNCHANGED <<last, sock, sets>>

-----------------------------------------------------------------------------
\* cycle_client_request: at most one frame per network client.  Frames that
\* are incomplete, damaged, barred by AUTH or of another operation change
\* buffers and stores but not the table.
RequestOther(i) ==
    /\ Visit("request", i)
    /\ UNCHANGED <<tbl, sock>>

\* An INIT frame with sequence number seq, answered or not.
RequestRegisters(i, seq) ==
    /\ Visit("request", i)
    /\ tbl[i].kind = "net"
    /\ InitRegisters(tbl, i, seq)
    /\ \E t \in FindUnregistered(tbl, tbl[i].key) :
          tbl' = [tbl EXCEPT ![t] = Registered(@, Self)]
    /\ UNCHANGED sock

RequestAdvances(i, seq) ==
    /\ Visit("request", i)
    /\ tbl[i].kind = "net"
    /\ \E t \in DOMAIN tbl :
          /\ InitAdvances(tbl, i, seq, t)
          /\ tbl' = [tbl EXCEPT ![t] = Advanced(@, seq, Self)]
    /\ UNCHANGED sock

\* Sequence 2 from an unregistered client: a null pointer is dereferenced.
RequestCrashes(i) ==
    /\ pc = "request"
    /\ i \in First(todo)
    /\ tbl[i].kind = "net"
    /\ InitCrashes(tbl, i, 1)
    /\ Goto("dead")
    /\ UNCHANGED <<tbl, last, sock, todo, sets>>

RequestDone ==
    /\ pc = "request"
    /\ todo = {}
    /\ Goto("queue")
    /\ UNCHANGED <<tbl, last, sock, todo, sets>>

-----------------------------------------------------------------------------
QueueStep == IpcOther \/ \E a \in App : IpcRegister(a)

BcastStep ==
    \/ NoBroadcast
    \/ \E h \in Host : Connect(h) \/ \E r \in BOOLEAN : ConnectInitFails(h, r)

SocketStep ==
    \/ Poll \/ PollNothing
    \/ \E h \in Host :
          AcceptHttp(h) \/ \E p \in Port \ {ListenPort} : AcceptNet(h, p)
    \/ AcceptNothing \/ AcceptDone
    \/ Read \/ Write

VerifyStep ==
    \/ \E i \in todo :
          \/ VerifySkip(i) \/ VerifyError(i) \/ VerifyIdle(i) \/ VerifyDups(i)
          \/ \E w \in BOOLEAN : VerifyShutdown(i, w)
    \/ Sweep

RequestStep ==
    \/ \E i \in todo :
          \/ RequestOther(i) \/ RequestCrashes(i)
          \/ \E s \in 0..MaxSeq : RequestRegisters(i, s) \/ RequestAdvances(i, s)
    \/ RequestDone

Next == QueueStep \/ BcastStep \/ SocketStep \/ VerifyStep \/ RequestStep

Spec == Init /\ [][Next]_vars

\* The loop never blocks: every wait has a timeout.  Nothing is assumed of the
\* peers: a socket may stay unreadable and unwritable for ever.
FairSpec == Spec /\ WF_vars(Next)
=============================================================================
