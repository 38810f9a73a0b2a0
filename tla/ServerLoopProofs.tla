-------------------------- MODULE ServerLoopProofs --------------------------
(***************************************************************************)
(* Proofs about the main loop, for every set of hosts, ports and           *)
(* applications and every bound.                                           *)
(***************************************************************************)
EXTENDS ServerLoopProps, FiniteSetTheorems, TLAPS

Cli == Client(Key, 0..MaxFd, 0..MaxSeq + 1)

\* Pushing a client that has a type keeps the table's.
LEMMA PushType ==
    ASSUME TypeOK, last < MaxClients, NEW c \in Cli
    PROVE  /\ Push(tbl, last + 1, c) \in [DOMAIN tbl \union {last + 1} -> Cli]
           /\ DOMAIN Push(tbl, last + 1, c) = DOMAIN tbl \union {last + 1}
           /\ DOMAIN Push(tbl, last + 1, c) \subseteq 1..(last + 1)
           /\ last + 1 \in 0..MaxClients
BY ConstantsAssumption DEF TypeOK, Push, Cli

\* The records the daemon creates are clients.
LEMMA NewClientTypes ==
    /\ \A key \in Key, f \in 0..MaxFd, r \in BOOLEAN :
          /\ OutgoingClient(key, f) \in Cli
          /\ [OutgoingClient(key, f) EXCEPT !.reg = r] \in Cli
          /\ [AcceptedClient(key, 0) EXCEPT !.fd = f] \in Cli
          /\ [HttpClient(key, 0) EXCEPT !.fd = f] \in Cli
          /\ IpcClient(key) \in Cli
<1> SUFFICES ASSUME NEW key \in Key, NEW f \in 0..MaxFd, NEW r \in BOOLEAN
             PROVE  /\ OutgoingClient(key, f) \in Cli
                    /\ [OutgoingClient(key, f) EXCEPT !.reg = r] \in Cli
                    /\ [AcceptedClient(key, 0) EXCEPT !.fd = f] \in Cli
                    /\ [HttpClient(key, 0) EXCEPT !.fd = f] \in Cli
                    /\ IpcClient(key) \in Cli
    OBVIOUS
<1>0. 0 \in 0..MaxFd /\ 0 \in 0..MaxSeq + 1
    BY ConstantsAssumption
<1>1. OutgoingClient(key, f) \in Cli /\ OutgoingClient(key, 0) \in Cli
    BY <1>0 DEF OutgoingClient, Client, Cli, Kind
<1>2. [OutgoingClient(key, f) EXCEPT !.reg = r] \in Cli
    BY <1>1 DEF Client, Cli
<1>3. [AcceptedClient(key, 0) EXCEPT !.fd = f] \in Cli
    BY <1>1 DEF AcceptedClient, Client, Cli
<1>4. [HttpClient(key, 0) EXCEPT !.fd = f] \in Cli
    BY <1>1 DEF HttpClient, Client, Cli, Kind
<1>5. IpcClient(key) \in Cli
    BY <1>1 DEF IpcClient, Client, Cli, Kind
<1> QED
    BY <1>1, <1>2, <1>3, <1>4, <1>5

\* Closing, registering and advancing a client keep its type.
LEMMA ChangedClientTypes ==
    ASSUME NEW c \in Cli
    PROVE  /\ Closed(c) \in Cli
           /\ [Closed(c) EXCEPT !.shut = TRUE] \in Cli
           /\ [c EXCEPT !.shut = TRUE, !.reg = FALSE] \in Cli
           /\ Registered(c, Self) \in Cli
           /\ \A s \in 0..MaxSeq : Advanced(c, s, Self) \in Cli
<1>0. 0 \in 0..MaxFd
    BY ConstantsAssumption
<1>1. Closed(c) \in Cli /\ [Closed(c) EXCEPT !.shut = TRUE] \in Cli
    <2>1. Closed(c) \in Cli
        BY <1>0 DEF Closed, Client, Cli
    <2> QED
        BY <2>1 DEF Client, Cli
<1>2. [c EXCEPT !.shut = TRUE, !.reg = FALSE] \in Cli
    BY DEF Client, Cli
<1>3. Self \in Key
    BY DEF Key
<1>4. Registered(c, Self) \in Cli
    BY <1>3 DEF Registered, Client, Cli
<1>5. ASSUME NEW s \in 0..MaxSeq PROVE Advanced(c, s, Self) \in Cli
    <2>1. s + 1 \in 0..MaxSeq + 1
        BY ConstantsAssumption
    <2> QED
        BY <1>3, <2>1 DEF Advanced, Client, Cli
<1> QED
    BY <1>1, <1>2, <1>4, <1>5

\* A step that changes the client records but neither adds nor removes one
\* keeps the table's type if it gives every client a typed record.
LEMMA UpdateType ==
    ASSUME TypeOK,
           DOMAIN tbl' = DOMAIN tbl,
           tbl' = [i \in DOMAIN tbl |-> tbl'[i]],
           \A i \in DOMAIN tbl : tbl'[i] \in Cli
    PROVE  tbl' \in [DOMAIN tbl' -> Cli]
OBVIOUS

\* Closing sockets keeps the types of the table and of the descriptors.
LEMMA CloseAllType ==
    ASSUME TypeOK, NEW S \in SUBSET DOMAIN tbl, CloseAll(S)
    PROVE  /\ DOMAIN tbl' = DOMAIN tbl
           /\ tbl' \in [DOMAIN tbl' -> Cli]
           /\ sock' \in [Fd -> 0..last]
<1>1. tbl \in [DOMAIN tbl -> Cli] /\ sock \in [Fd -> 0..last]
    BY DEF TypeOK, Cli
<1>2. DOMAIN tbl' = DOMAIN tbl
    BY DEF CloseAll
<1>3. \A i \in DOMAIN tbl : tbl'[i] \in Cli
    BY <1>1, ChangedClientTypes DEF CloseAll
<1>4. tbl' = [i \in DOMAIN tbl |-> tbl'[i]]
    BY DEF CloseAll
<1>5. 0 \in 0..last
    BY DEF TypeOK
<1>6. sock' \in [Fd -> 0..last]
    BY <1>1, <1>5 DEF CloseAll
<1> QED
    BY <1>2, <1>3, <1>4, <1>6, UpdateType

\* A step that pushes a typed client and gives it descriptor f.
LEMMA PushStepType ==
    ASSUME TypeOK, last < MaxClients, NEW c \in Cli, NEW f \in Fd,
           tbl' = Push(tbl, last + 1, c), last' = last + 1,
           \/ sock' = sock
           \/ sock' = [sock EXCEPT ![f] = last + 1]
    PROVE  /\ tbl' \in [DOMAIN tbl' -> Cli]
           /\ last' \in 0..MaxClients
           /\ DOMAIN tbl' \subseteq 1..last'
           /\ sock' \in [Fd -> 0..last']
           /\ DOMAIN tbl \subseteq DOMAIN tbl'
           /\ 1..last \subseteq 1..last'
<1>1. last \in Nat /\ sock \in [Fd -> 0..last]
    BY ConstantsAssumption DEF TypeOK
<1>2. sock' \in [Fd -> 0..last']
    BY <1>1
<1> QED
    BY <1>1, <1>2, PushType

\* The same for IPC clients, which have no descriptor.
LEMMA PushIpcType ==
    ASSUME TypeOK, last < MaxClients, NEW c \in Cli,
           tbl' = Push(tbl, last + 1, c), last' = last + 1, sock' = sock
    PROVE  /\ tbl' \in [DOMAIN tbl' -> Cli]
           /\ last' \in 0..MaxClients
           /\ DOMAIN tbl' \subseteq 1..last'
           /\ sock' \in [Fd -> 0..last']
           /\ DOMAIN tbl \subseteq DOMAIN tbl'
           /\ 1..last \subseteq 1..last'
<1>1. last \in Nat /\ sock \in [Fd -> 0..last]
    BY ConstantsAssumption DEF TypeOK
<1>2. sock' \in [Fd -> 0..last']
    BY <1>1
<1> QED
    BY <1>1, <1>2, PushType

-----------------------------------------------------------------------------
\* Every step of the loop keeps the types.
LEMMA TypeQueue ==
    ASSUME TypeOK, QueueStep PROVE TypeOK'
<1>1. CASE IpcOther
    BY <1>1 DEF TypeOK, IpcOther, Goto, sets, Phase
<1>2. ASSUME NEW a \in App, IpcRegister(a) PROVE TypeOK'
    <2>1. IpcClient(a) \in Cli
        <3>1. 0 \in 0..MaxFd /\ a \in Key
            BY ConstantsAssumption DEF Key
        <3> QED
            BY <3>1, NewClientTypes
    <2>2. /\ tbl' = Push(tbl, last + 1, IpcClient(a))
          /\ last' = last + 1 /\ last < MaxClients /\ pc' = "bcast"
          /\ UNCHANGED <<sock, todo, lst, rd, wr, polled>>
        BY <1>2 DEF IpcRegister, Goto, sets
    <2>3. /\ tbl' \in [DOMAIN tbl' -> Cli]
          /\ last' \in 0..MaxClients
          /\ DOMAIN tbl' \subseteq 1..last'
          /\ sock' \in [Fd -> 0..last']
          /\ DOMAIN tbl \subseteq DOMAIN tbl'
          /\ 1..last \subseteq 1..last'
        BY <2>1, <2>2, PushIpcType
    <2> QED
        BY <2>2, <2>3 DEF TypeOK, Phase, Cli
<1> QED
    BY <1>1, <1>2 DEF QueueStep

LEMMA TypeBcast ==
    ASSUME TypeOK, BcastStep PROVE TypeOK'
<1>1. CASE NoBroadcast
    BY <1>1 DEF TypeOK, NoBroadcast, Goto, sets, Phase
<1>2. ASSUME NEW h \in Host,
             Connect(h) \/ \E r \in BOOLEAN : ConnectInitFails(h, r)
      PROVE  TypeOK'
    <2>1. <<h, ListenPort>> \in Key
        BY ConstantsAssumption DEF Key, Remote
    <2>2. PICK f \in Fd, c \in Cli :
              /\ tbl' = Push(tbl, last + 1, c)
              /\ sock' = sock \/ sock' = [sock EXCEPT ![f] = last + 1]
        <3>1. \A f \in Fd : f \in 0..MaxFd
            BY ConstantsAssumption DEF Fd
        <3>2. CASE Connect(h)
            BY <2>1, <3>1, <3>2, NewClientTypes DEF Connect
        <3>3. ASSUME NEW r \in BOOLEAN, ConnectInitFails(h, r)
              PROVE  \E f \in Fd, c \in Cli :
                        /\ tbl' = Push(tbl, last + 1, c)
                        /\ sock' = sock \/ sock' = [sock EXCEPT ![f] = last + 1]
            BY <2>1, <3>1, <3>3, NewClientTypes DEF ConnectInitFails
        <3> QED
            BY <1>2, <3>2, <3>3
    <2>3. /\ last' = last + 1 /\ last < MaxClients /\ pc' = "poll"
          /\ UNCHANGED <<todo, lst, rd, wr, polled>>
        BY <1>2 DEF Connect, ConnectInitFails, Goto, sets
    <2>4. /\ tbl' \in [DOMAIN tbl' -> Cli]
          /\ last' \in 0..MaxClients
          /\ DOMAIN tbl' \subseteq 1..last'
          /\ sock' \in [Fd -> 0..last']
          /\ DOMAIN tbl \subseteq DOMAIN tbl'
          /\ 1..last \subseteq 1..last'
        BY <2>2, <2>3, PushStepType
    <2> QED
        BY <2>3, <2>4 DEF TypeOK, Phase, Cli
<1> QED
    BY <1>1, <1>2 DEF BcastStep

LEMMA TypeAccept ==
    ASSUME TypeOK, NEW c \in Cli, Accept(c),
           \A f \in Fd : [c EXCEPT !.fd = f] \in Cli,
           lst' \subseteq Listener,
           UNCHANGED <<pc, todo, rd, wr, polled>>
    PROVE  TypeOK'
<1>1. PICK f \in Fd : /\ tbl' = Push(tbl, last + 1, [c EXCEPT !.fd = f])
                      /\ sock' = [sock EXCEPT ![f] = last + 1]
    BY DEF Accept
<1>2. last < MaxClients /\ last' = last + 1
    BY DEF Accept
<1>3. /\ tbl' \in [DOMAIN tbl' -> Cli]
      /\ last' \in 0..MaxClients
      /\ DOMAIN tbl' \subseteq 1..last'
      /\ sock' \in [Fd -> 0..last']
      /\ DOMAIN tbl \subseteq DOMAIN tbl'
      /\ 1..last \subseteq 1..last'
    BY <1>1, <1>2, PushStepType
<1> QED
    BY <1>3 DEF TypeOK, Cli

\* A pass over the list that closes some of the clients.
LEMMA ReadyInList == \A set : Ready(set) \subseteq DOMAIN tbl
BY DEF Ready, Connected

LEMMA TypeSocket ==
    ASSUME TypeOK, SocketStep PROVE TypeOK'
<1>0. /\ \A f \in Fd : f \in 0..MaxFd
      /\ 0 \in 0..MaxFd
      /\ \A i \in Connected(tbl) : i \in 1..last /\ tbl[i].fd \in Fd
    <2>1. \A i \in Connected(tbl) :
             i \in 1..last /\ tbl[i].fd \in 0..MaxFd /\ tbl[i].fd # 0
        BY DEF TypeOK, Client, Connected
    <2> QED
        BY <2>1, ConstantsAssumption DEF Fd
<1>1. CASE Poll
    <2>1. lst' \subseteq Listener /\ rd' \subseteq Fd /\ wr' \subseteq Fd
        BY <1>0, <1>1 DEF Poll
    <2> QED
        BY <1>0, <1>1, <2>1 DEF Poll, TypeOK, Goto, Phase
<1>2. CASE PollNothing
    BY <1>2 DEF PollNothing, TypeOK, Goto, Phase, sets
<1>3. ASSUME NEW h \in Host, AcceptHttp(h) PROVE TypeOK'
    <2>1. /\ HttpClient(Blank, 0) \in Cli
          /\ \A f \in Fd : [HttpClient(Blank, 0) EXCEPT !.fd = f] \in Cli
        <3>1. Blank \in Key
            BY DEF Key
        <3>2. HttpClient(Blank, 0) \in Cli
            <4>1. OutgoingClient(Blank, 0) \in Cli
                BY <1>0, <3>1, NewClientTypes
            <4> QED
                BY <4>1 DEF HttpClient, Client, Cli, Kind
        <3> QED
            BY <1>0, <3>1, <3>2, NewClientTypes
    <2> QED
        BY <1>3, <2>1, TypeAccept DEF AcceptHttp
<1>4. ASSUME NEW h \in Host, NEW p \in Port \ {ListenPort}, AcceptNet(h, p)
      PROVE  TypeOK'
    <2>1. /\ AcceptedClient(<<h, p>>, 0) \in Cli
          /\ \A f \in Fd : [AcceptedClient(<<h, p>>, 0) EXCEPT !.fd = f] \in Cli
        <3>1. <<h, p>> \in Key
            BY DEF Key, Remote
        <3>2. AcceptedClient(<<h, p>>, 0) \in Cli
            <4>1. OutgoingClient(<<h, p>>, 0) \in Cli
                BY <1>0, <3>1, NewClientTypes
            <4> QED
                BY <4>1 DEF AcceptedClient, Client, Cli
        <3> QED
            BY <1>0, <3>1, <3>2, NewClientTypes
    <2>2. lst' \subseteq Listener
        BY <1>4 DEF AcceptNet, TypeOK
    <2> QED
        BY <1>4, <2>1, <2>2, TypeAccept DEF AcceptNet
<1>5. CASE AcceptNothing
    BY <1>5 DEF AcceptNothing, TypeOK
<1>6. CASE AcceptDone
    BY <1>6 DEF AcceptDone, TypeOK, Goto, Phase, sets
<1>7. CASE Read
    <2>1. PICK gone \in SUBSET DOMAIN tbl : CloseAll(gone)
        BY <1>7, ReadyInList DEF Read
    <2>2. /\ DOMAIN tbl' = DOMAIN tbl
          /\ tbl' \in [DOMAIN tbl' -> Cli]
          /\ sock' \in [Fd -> 0..last]
        BY <2>1, CloseAllType
    <2> QED
        BY <1>7, <2>2 DEF Read, TypeOK, Goto, Phase, Cli
<1>8. CASE Write
    <2>1. PICK gone \in SUBSET DOMAIN tbl : CloseAll(gone)
        BY <1>8, ReadyInList DEF Write
    <2>2. /\ DOMAIN tbl' = DOMAIN tbl
          /\ tbl' \in [DOMAIN tbl' -> Cli]
          /\ sock' \in [Fd -> 0..last]
        BY <2>1, CloseAllType
    <2> QED
        BY <1>8, <2>2 DEF Write, TypeOK, Goto, Phase, Cli
<1> QED
    BY <1>1, <1>2, <1>3, <1>4, <1>5, <1>6, <1>7, <1>8 DEF SocketStep

LEMMA TypeVerify ==
    ASSUME TypeOK, VerifyStep PROVE TypeOK'
<1>0. tbl \in [DOMAIN tbl -> Cli] /\ sock \in [Fd -> 0..last] /\ 0 \in 0..last
    BY DEF TypeOK, Cli
<1>1. ASSUME NEW i \in todo, UNCHANGED <<tbl, sock>>, Visit("verify", i)
      PROVE  TypeOK'
    BY <1>1 DEF TypeOK, Visit, sets
<1>2. ASSUME NEW i \in todo, CloseAll({i}), Visit("verify", i)
      PROVE  TypeOK'
    <2>1. {i} \in SUBSET DOMAIN tbl
        BY DEF TypeOK
    <2>2. /\ DOMAIN tbl' = DOMAIN tbl
          /\ tbl' \in [DOMAIN tbl' -> Cli]
          /\ sock' \in [Fd -> 0..last]
        BY <1>2, <2>1, CloseAllType
    <2> QED
        BY <1>2, <2>2 DEF TypeOK, Visit, sets, Cli
<1>3. ASSUME NEW i \in todo, VerifyError(i) PROVE TypeOK'
    <2>1. [Closed(tbl[i]) EXCEPT !.shut = TRUE] \in Cli
        BY <1>0, ChangedClientTypes DEF TypeOK
    <2>2. tbl' \in [DOMAIN tbl -> Cli] /\ DOMAIN tbl' = DOMAIN tbl
        BY <1>0, <1>3, <2>1 DEF VerifyError
    <2>3. sock' \in [Fd -> 0..last]
        BY <1>0, <1>3 DEF VerifyError
    <2> QED
        BY <1>3, <2>2, <2>3 DEF VerifyError, Visit, TypeOK, sets, Cli
<1>4. ASSUME NEW i \in todo, VerifyDups(i) PROVE TypeOK'
    <2>1. DOMAIN tbl' = DOMAIN tbl
        BY <1>4 DEF VerifyDups
    <2>2. \A j \in DOMAIN tbl : tbl'[j] \in Cli
        BY <1>0, <1>4, ChangedClientTypes DEF VerifyDups
    <2>3. tbl' = [j \in DOMAIN tbl |-> tbl'[j]]
        BY <1>4 DEF VerifyDups
    <2> QED
        BY <1>4, <2>1, <2>2, <2>3, UpdateType
           DEF VerifyDups, Visit, TypeOK, sets, Cli
<1>5. CASE Sweep
    <2>1. tbl' \in [DOMAIN tbl' -> Cli] /\ DOMAIN tbl' = DOMAIN tbl \ Removed
        BY <1>0, <1>5 DEF Sweep
    <2> QED
        BY <1>5, <2>1 DEF Sweep, TypeOK, sets, Goto, Phase, Cli
<1> QED
    BY <1>1, <1>2, <1>3, <1>4, <1>5
       DEF VerifyStep, VerifySkip, VerifyIdle, VerifyShutdown

LEMMA TypeRequest ==
    ASSUME TypeOK, RequestStep PROVE TypeOK'
<1>0. tbl \in [DOMAIN tbl -> Cli]
    BY DEF TypeOK, Cli
<1>1. ASSUME NEW i \in todo, RequestOther(i) PROVE TypeOK'
    BY <1>1 DEF TypeOK, RequestOther, Visit, sets
<1>2. ASSUME NEW i \in todo, RequestCrashes(i) PROVE TypeOK'
    BY <1>2 DEF TypeOK, RequestCrashes, Goto, Phase, sets
<1>3. ASSUME NEW i \in todo, NEW s \in 0..MaxSeq, RequestRegisters(i, s)
      PROVE  TypeOK'
    <2>1. PICK t \in DOMAIN tbl : tbl' = [tbl EXCEPT ![t] = Registered(@, Self)]
        BY <1>3 DEF RequestRegisters, FindUnregistered, First
    <2>2. Registered(tbl[t], Self) \in Cli
        BY <1>0, ChangedClientTypes
    <2>3. tbl' \in [DOMAIN tbl -> Cli] /\ DOMAIN tbl' = DOMAIN tbl
        BY <1>0, <2>1, <2>2
    <2> QED
        BY <1>3, <2>3 DEF RequestRegisters, Visit, TypeOK, sets, Cli
<1>4. ASSUME NEW i \in todo, NEW s \in 0..MaxSeq, RequestAdvances(i, s)
      PROVE  TypeOK'
    <2>1. PICK t \in DOMAIN tbl : tbl' = [tbl EXCEPT ![t] = Advanced(@, s, Self)]
        BY <1>4 DEF RequestAdvances
    <2>2. Advanced(tbl[t], s, Self) \in Cli
        BY <1>0, ChangedClientTypes
    <2>3. tbl' \in [DOMAIN tbl -> Cli] /\ DOMAIN tbl' = DOMAIN tbl
        BY <1>0, <2>1, <2>2
    <2> QED
        BY <1>4, <2>3 DEF RequestAdvances, Visit, TypeOK, sets, Cli
<1>5. CASE RequestDone
    BY <1>5 DEF RequestDone, TypeOK, Goto, Phase, sets
<1> QED
    BY <1>1, <1>2, <1>3, <1>4, <1>5 DEF RequestStep

LEMMA TypeStep ==
    ASSUME TypeOK, [Next]_vars PROVE TypeOK'
<1>1. CASE UNCHANGED vars
    BY <1>1 DEF TypeOK, vars
<1> QED
    BY <1>1, TypeQueue, TypeBcast, TypeSocket, TypeVerify, TypeRequest DEF Next

\* The loop keeps every variable within its type: in particular the clients
\* still to be visited are on the list, and every descriptor in a ready set
\* is one that a client may own.
THEOREM TypeCorrect == Spec => []TypeOK
<1>1. Init => TypeOK
    BY ConstantsAssumption DEF Init, TypeOK, Phase, Fd
<1>2. TypeOK /\ [Next]_vars => TypeOK'
    BY TypeStep
<1> QED
    BY <1>1, <1>2, PTL DEF Spec

-----------------------------------------------------------------------------
\* The inductive invariant behind the two safety theorems.  A descriptor the
\* kernel hands out is free; DescriptorsOwned says that outside the window
\* from a failed connection to the next verification pass a number a client
\* keeps is not free, so it is never handed out a second time.
IInv == TypeOK /\ DescriptorNotForeign /\ DescriptorsOwned /\ LiveRequests

Owned == \A i \in Connected(tbl) : sock[tbl[i].fd] = i

LEMMA ConnectedFd ==
    ASSUME TypeOK, NEW i \in Connected(tbl)
    PROVE  i \in DOMAIN tbl /\ i \in 1..last /\ i # 0 /\ tbl[i].fd \in Fd
<1>1. i \in 1..last /\ tbl[i].fd \in 0..MaxFd /\ tbl[i].fd # 0
    BY DEF TypeOK, Client, Connected
<1> QED
    BY <1>1, ConstantsAssumption DEF Fd, Connected, TypeOK

\* Closing sockets that their clients own disturbs no other client.
LEMMA CloseAllOthers ==
    ASSUME TypeOK, DescriptorNotForeign, NEW S \in SUBSET Connected(tbl),
           \A i \in S : sock[tbl[i].fd] # 0,
           CloseAll(S)
    PROVE  /\ DOMAIN tbl' = DOMAIN tbl
           /\ \A j \in Connected(tbl') :
                 /\ j \in Connected(tbl) \ S
                 /\ tbl'[j] = tbl[j]
                 /\ sock'[tbl'[j].fd] = sock[tbl[j].fd]
<1>1. DOMAIN tbl' = DOMAIN tbl
    BY DEF CloseAll
<1>2. ASSUME NEW j \in Connected(tbl')
      PROVE  /\ j \in Connected(tbl) \ S
             /\ tbl'[j] = tbl[j]
    <2>1. j \in DOMAIN tbl /\ IsSocket(tbl'[j]) /\ tbl'[j].fd # 0
        BY <1>1, <1>2 DEF Connected
    <2>2. j \notin S
        <3> SUFFICES ASSUME j \in S PROVE FALSE
            OBVIOUS
        <3>1. tbl'[j] = [tbl[j] EXCEPT !.fd = 0]
            BY <2>1 DEF CloseAll, Closed
        <3>2. tbl[j] \in Client(Key, 0..MaxFd, 0..MaxSeq + 1)
            BY <2>1 DEF TypeOK
        <3>3. tbl'[j].fd = 0
            BY <3>1, <3>2 DEF Client
        <3> QED
            BY <2>1, <3>3
    <2>3. tbl'[j] = tbl[j]
        BY <2>1, <2>2 DEF CloseAll
    <2> QED
        BY <2>1, <2>2, <2>3 DEF Connected
<1>3. ASSUME NEW j \in Connected(tbl')
      PROVE  sock'[tbl'[j].fd] = sock[tbl[j].fd]
    <2>1. j \in Connected(tbl) \ S /\ tbl'[j] = tbl[j]
        BY <1>2, <1>3
    <2>2. tbl[j].fd \in Fd /\ j # 0
        BY <2>1, ConnectedFd
    <2>3. ASSUME NEW i \in S, tbl[i].fd = tbl[j].fd PROVE FALSE
        <3>1. sock[tbl[i].fd] \in {0, i} /\ sock[tbl[j].fd] \in {0, j}
            BY <2>1 DEF DescriptorNotForeign
        <3> QED
            BY <2>1, <2>3, <3>1
    <2> QED
        BY <2>1, <2>2, <2>3 DEF CloseAll
<1> QED
    BY <1>1, <1>2, <1>3

\* A new connection gets a number no client has.
LEMMA PushOwned ==
    ASSUME TypeOK, Owned, NEW c, NEW f \in Fd, IsLowestFree(f), c.fd = f,
           tbl' = Push(tbl, last + 1, c),
           sock' = [sock EXCEPT ![f] = last + 1]
    PROVE  Owned'
<1> SUFFICES ASSUME NEW i \in Connected(tbl')
             PROVE  sock'[tbl'[i].fd] = i
    BY DEF Owned
<1>0. sock \in [Fd -> 0..last] /\ last \in Nat /\ DOMAIN tbl \subseteq 1..last
    BY ConstantsAssumption DEF TypeOK
<1>1. CASE i = last + 1
    BY <1>0, <1>1 DEF Push, Connected
<1>2. CASE i # last + 1
    <2>1. i \in Connected(tbl) /\ tbl'[i] = tbl[i]
        BY <1>0, <1>2 DEF Connected, Push
    <2>2. sock[tbl[i].fd] = i /\ i # 0 /\ tbl[i].fd \in Fd
        BY <2>1, ConnectedFd DEF Owned
    <2>3. tbl[i].fd # f
        BY <2>2 DEF IsLowestFree
    <2> QED
        BY <1>0, <2>1, <2>2, <2>3
<1> QED
    BY <1>1, <1>2

\* A client that takes a free number without owning it makes no other client
\* lose its own.
LEMMA PushStale ==
    ASSUME TypeOK, Owned, NEW c, NEW f \in Fd, IsLowestFree(f), c.fd = f,
           tbl' = Push(tbl, last + 1, c), sock' = sock
    PROVE  DescriptorNotForeign'
<1> SUFFICES ASSUME NEW i \in Connected(tbl')
             PROVE  sock'[tbl'[i].fd] \in {0, i}
    BY DEF DescriptorNotForeign
<1>0. last \in Nat /\ DOMAIN tbl \subseteq 1..last
    BY ConstantsAssumption DEF TypeOK
<1>1. CASE i = last + 1
    BY <1>0, <1>1 DEF Push, Connected, IsLowestFree
<1>2. CASE i # last + 1
    <2>1. i \in Connected(tbl) /\ tbl'[i] = tbl[i]
        BY <1>0, <1>2 DEF Connected, Push
    <2> QED
        BY <2>1 DEF Owned
<1> QED
    BY <1>1, <1>2

Safe == DescriptorNotForeign /\ DescriptorsOwned /\ LiveRequests

\* Every step preserves the three parts.
LEMMA SafeQueue ==
    ASSUME IInv, QueueStep PROVE Safe'
<1>0. Owned /\ TypeOK /\ pc = "queue"
    BY DEF IInv, DescriptorsOwned, Owned, QueueStep, IpcOther, IpcRegister
<1>1. pc' = "bcast" /\ sock' = sock
    BY DEF QueueStep, IpcOther, IpcRegister, Goto
<1>2. Owned'
    <2>1. CASE tbl' = tbl
        BY <1>0, <1>1, <2>1 DEF Owned, Connected
    <2>2. ASSUME NEW a \in App, tbl' = Push(tbl, last + 1, IpcClient(a))
          PROVE  Owned'
        <3> SUFFICES ASSUME NEW i \in Connected(tbl')
                     PROVE  sock'[tbl'[i].fd] = i
            BY DEF Owned
        <3>1. i # last + 1
            BY <2>2 DEF Connected, Push, IpcClient, OutgoingClient
        <3>2. i \in Connected(tbl) /\ tbl'[i] = tbl[i]
            BY <2>2, <3>1 DEF Connected, Push
        <3> QED
            BY <1>0, <1>1, <3>2 DEF Owned
    <2> QED
        BY <2>1, <2>2 DEF QueueStep, IpcOther, IpcRegister
<1> QED
    BY <1>1, <1>2
       DEF Owned, Safe, DescriptorNotForeign, DescriptorsOwned, LiveRequests

LEMMA SafeBcast ==
    ASSUME IInv, BcastStep PROVE Safe'
<1>0. Owned /\ TypeOK /\ pc = "bcast"
    BY DEF IInv, DescriptorsOwned, Owned, BcastStep, NoBroadcast, Connect,
           ConnectInitFails
<1>1. pc' = "poll"
    BY DEF BcastStep, NoBroadcast, Connect, ConnectInitFails, Goto
<1>2. DescriptorNotForeign'
    <2>1. CASE NoBroadcast
        BY <1>0, <2>1 DEF Owned, Connected, NoBroadcast, DescriptorNotForeign
    <2>2. ASSUME NEW h \in Host, Connect(h) PROVE DescriptorNotForeign'
        <3>1. PICK f \in Fd :
                  /\ IsLowestFree(f)
                  /\ tbl' = Push(tbl, last + 1,
                                 OutgoingClient(<<h, ListenPort>>, f))
                  /\ sock' = [sock EXCEPT ![f] = last + 1]
            BY <2>2 DEF Connect
        <3>2. OutgoingClient(<<h, ListenPort>>, f).fd = f
            BY DEF OutgoingClient
        <3>3. Owned'
            BY <1>0, <3>1, <3>2, PushOwned
        <3> QED
            BY <3>3 DEF Owned, DescriptorNotForeign
    <2>3. ASSUME NEW h \in Host, NEW r \in BOOLEAN, ConnectInitFails(h, r)
          PROVE  DescriptorNotForeign'
        <3>1. PICK f \in Fd :
                  /\ IsLowestFree(f)
                  /\ tbl' = Push(tbl, last + 1,
                                 [OutgoingClient(<<h, ListenPort>>, f)
                                      EXCEPT !.reg = r])
                  /\ sock' = sock
            BY <2>3 DEF ConnectInitFails
        <3>2. [OutgoingClient(<<h, ListenPort>>, f) EXCEPT !.reg = r].fd = f
            BY DEF OutgoingClient
        <3> QED
            BY <1>0, <3>1, <3>2, PushStale
    <2> QED
        BY <2>1, <2>2, <2>3 DEF BcastStep
<1> QED
    BY <1>1, <1>2 DEF Safe, DescriptorsOwned, LiveRequests

LEMMA SafeAccept ==
    ASSUME TypeOK, Owned, NEW c, Accept(c),
           \A f \in Fd : [c EXCEPT !.fd = f].fd = f
    PROVE  Owned'
<1>1. PICK f \in Fd : /\ IsLowestFree(f)
                      /\ tbl' = Push(tbl, last + 1, [c EXCEPT !.fd = f])
                      /\ sock' = [sock EXCEPT ![f] = last + 1]
    BY DEF Accept
<1> QED
    BY <1>1, PushOwned

LEMMA SafeClose ==
    ASSUME TypeOK, Owned, NEW S \in SUBSET Connected(tbl), CloseAll(S)
    PROVE  Owned'
<1>1. \A i \in S : sock[tbl[i].fd] # 0
    BY ConnectedFd DEF Owned
<1>2. DescriptorNotForeign
    BY DEF Owned, DescriptorNotForeign
<1> QED
    BY <1>1, <1>2, CloseAllOthers DEF Owned

LEMMA SafeSocket ==
    ASSUME IInv, SocketStep PROVE Safe'
<1>0. TypeOK /\ DescriptorNotForeign /\ (pc \notin {"poll", "verify"} => Owned)
    BY DEF IInv, DescriptorsOwned, Owned
<1>1. ASSUME Owned', pc' # "request" PROVE Safe'
    BY <1>1 DEF Owned, Safe, DescriptorNotForeign, DescriptorsOwned,
                LiveRequests
<1>2. CASE Poll
    <2>1. Owned'
        BY <1>0, <1>2 DEF Poll, BadDescriptor, Owned, DescriptorNotForeign,
                          Connected
    <2> QED
        BY <1>1, <1>2, <2>1 DEF Poll, Goto
<1>3. CASE PollNothing
    <2>1. DescriptorNotForeign'
        BY <1>0, <1>3 DEF PollNothing, DescriptorNotForeign, Connected
    <2>2. Connected(tbl') \ todo' = {}
        BY <1>3 DEF PollNothing, Connected
    <2> QED
        BY <1>3, <2>1, <2>2
           DEF PollNothing, Goto, Safe, DescriptorsOwned, LiveRequests
<1>4. ASSUME NEW h \in Host, AcceptHttp(h) PROVE Safe'
    <2>1. \A f \in Fd : [HttpClient(Blank, 0) EXCEPT !.fd = f].fd = f
        BY DEF HttpClient, OutgoingClient
    <2>2. Owned'
        BY <1>0, <1>4, <2>1, SafeAccept DEF AcceptHttp
    <2> QED
        BY <1>1, <1>4, <2>2 DEF AcceptHttp
<1>5. ASSUME NEW h \in Host, NEW p \in Port \ {ListenPort}, AcceptNet(h, p)
      PROVE  Safe'
    <2>1. \A f \in Fd : [AcceptedClient(<<h, p>>, 0) EXCEPT !.fd = f].fd = f
        BY DEF AcceptedClient, OutgoingClient
    <2>2. Owned'
        BY <1>0, <1>5, <2>1, SafeAccept DEF AcceptNet
    <2> QED
        BY <1>1, <1>5, <2>2 DEF AcceptNet
<1>6. CASE AcceptNothing \/ AcceptDone
    <2>1. Owned /\ UNCHANGED <<tbl, sock>> /\ pc' # "request"
        BY <1>0, <1>6 DEF AcceptNothing, AcceptDone, Goto
    <2>2. Owned'
        BY <2>1 DEF Owned, Connected
    <2> QED
        BY <1>1, <2>1, <2>2
<1>7. CASE Read \/ Write
    <2>1. Owned /\ pc' # "request"
        BY <1>0, <1>7 DEF Read, Write, Goto
    <2>2. PICK S \in SUBSET Connected(tbl) : CloseAll(S)
        BY <1>7 DEF Read, Write, Ready
    <2>3. Owned'
        BY <1>0, <2>1, <2>2, SafeClose
    <2> QED
        BY <1>1, <2>1, <2>3
<1> QED
    BY <1>2, <1>3, <1>4, <1>5, <1>6, <1>7 DEF SocketStep

LEMMA SafeVerify ==
    ASSUME IInv, VerifyStep PROVE Safe'
<1>0. /\ TypeOK /\ DescriptorNotForeign /\ pc = "verify"
      /\ \A i \in Connected(tbl) \ todo : sock[tbl[i].fd] = i
    BY DEF IInv, DescriptorsOwned, VerifyStep, Visit, VerifySkip, VerifyError,
           VerifyIdle, VerifyDups, VerifyShutdown, Sweep
<1>1. ASSUME pc' = "verify", DescriptorNotForeign',
             \A j \in Connected(tbl') \ todo' : sock'[tbl'[j].fd] = j
      PROVE  Safe'
    BY <1>1 DEF Safe, DescriptorsOwned, LiveRequests
<1>2. ASSUME NEW i \in todo, Visit("verify", i), UNCHANGED <<tbl, sock>>,
             i \in Connected(tbl) => sock[tbl[i].fd] # 0
      PROVE  Safe'
    <2>1. i \in Connected(tbl) => sock[tbl[i].fd] = i
        BY <1>0, <1>2 DEF DescriptorNotForeign
    <2>2. DescriptorNotForeign'
        BY <1>0, <1>2 DEF DescriptorNotForeign, Connected
    <2>3. \A j \in Connected(tbl') \ todo' : sock'[tbl'[j].fd] = j
        BY <1>0, <1>2, <2>1 DEF Visit, Connected
    <2> QED
        BY <1>0, <1>1, <1>2, <2>2, <2>3 DEF Visit
<1>3. ASSUME NEW i \in todo, Visit("verify", i), i \in Connected(tbl),
             sock[tbl[i].fd] # 0, CloseAll({i})
      PROVE  Safe'
    <2>1. /\ {i} \in SUBSET Connected(tbl)
          /\ \A k \in {i} : sock[tbl[k].fd] # 0
        BY <1>3
    <2>2. \A j \in Connected(tbl') :
              /\ j \in Connected(tbl) \ {i}
              /\ tbl'[j] = tbl[j]
              /\ sock'[tbl'[j].fd] = sock[tbl[j].fd]
        BY <1>0, <1>3, <2>1, CloseAllOthers
    <2>3. DescriptorNotForeign'
        BY <1>0, <2>2 DEF DescriptorNotForeign
    <2>4. \A j \in Connected(tbl') \ todo' : sock'[tbl'[j].fd] = j
        BY <1>0, <1>3, <2>2 DEF Visit
    <2> QED
        BY <1>0, <1>1, <1>3, <2>3, <2>4 DEF Visit
<1>4. ASSUME NEW i \in todo, VerifyError(i) PROVE Safe'
    <2>1. \A j \in Connected(tbl') :
              /\ j \in Connected(tbl) \ {i}
              /\ tbl'[j] = tbl[j]
        <3>1. tbl[i] \in Client(Key, 0..MaxFd, 0..MaxSeq + 1)
            BY <1>0, <1>4 DEF TypeOK
        <3>2. [Closed(tbl[i]) EXCEPT !.shut = TRUE].fd = 0
            BY <3>1 DEF Closed, Client
        <3>3. i \in DOMAIN tbl
            BY <1>0 DEF TypeOK
        <3>4. tbl'[i].fd = 0
            BY <1>4, <3>2, <3>3 DEF VerifyError
        <3>5. \A j \in DOMAIN tbl \ {i} : tbl'[j] = tbl[j]
            BY <1>4 DEF VerifyError
        <3>6. DOMAIN tbl' = DOMAIN tbl
            BY <1>4 DEF VerifyError
        <3> QED
            BY <3>4, <3>5, <3>6 DEF Connected
    <2>2. ASSUME NEW j \in Connected(tbl') PROVE sock'[tbl'[j].fd] \in {0, j}
        <3>1. tbl[j].fd \in Fd /\ tbl[i].fd \in Fd
            BY <1>0, <1>4, <2>1, ConnectedFd DEF VerifyError
        <3>2. sock[tbl[j].fd] \in {0, j}
            BY <1>0, <2>1 DEF DescriptorNotForeign
        <3> QED
            BY <1>0, <1>4, <2>1, <3>1, <3>2 DEF VerifyError, TypeOK
    <2>3. DescriptorNotForeign'
        BY <2>2 DEF DescriptorNotForeign
    <2>4. ASSUME NEW j \in Connected(tbl') \ todo' PROVE sock'[tbl'[j].fd] = j
        <3>1. j \in Connected(tbl) \ todo /\ j # i /\ tbl'[j] = tbl[j]
            BY <1>4, <2>1 DEF VerifyError, Visit
        <3>2. sock[tbl[j].fd] = j /\ sock[tbl[i].fd] \in {0, i}
            BY <1>0, <1>4, <3>1 DEF DescriptorNotForeign, VerifyError
        <3>3. j # 0 /\ tbl[j].fd \in Fd
            BY <1>0, <3>1, ConnectedFd
        <3>4. tbl[j].fd # tbl[i].fd
            BY <3>1, <3>2, <3>3
        <3> QED
            BY <1>0, <1>4, <3>1, <3>2, <3>3, <3>4 DEF VerifyError, TypeOK
    <2> QED
        BY <1>0, <1>1, <1>4, <2>3, <2>4 DEF VerifyError, Visit
<1>5. ASSUME NEW i \in todo, VerifyDups(i) PROVE Safe'
    <2>1. /\ Visit("verify", i) /\ i \in Connected(tbl)
          /\ sock[tbl[i].fd] # 0 /\ sock' = sock
        BY <1>5 DEF VerifyDups
    <2>2. DOMAIN tbl' = DOMAIN tbl
        BY <1>5 DEF VerifyDups
    <2>3. \A j \in DOMAIN tbl :
              tbl'[j].fd = tbl[j].fd /\ tbl'[j].kind = tbl[j].kind
        <3> SUFFICES ASSUME NEW j \in DOMAIN tbl
                     PROVE  /\ tbl'[j].fd = tbl[j].fd
                            /\ tbl'[j].kind = tbl[j].kind
            OBVIOUS
        <3>1. tbl[j] \in Client(Key, 0..MaxFd, 0..MaxSeq + 1)
            BY <1>0 DEF TypeOK
        <3> QED
            BY <1>5, <3>1 DEF VerifyDups, Client
    <2>4. Connected(tbl') = Connected(tbl)
        BY <2>2, <2>3 DEF Connected, IsSocket
    <2>5. \A j \in Connected(tbl) : j \in DOMAIN tbl
        BY DEF Connected
    <2>6. DescriptorNotForeign'
        BY <1>0, <2>1, <2>3, <2>4, <2>5 DEF DescriptorNotForeign
    <2>7. \A j \in Connected(tbl') \ todo' : sock'[tbl'[j].fd] = j
        BY <1>0, <2>1, <2>3, <2>4, <2>5 DEF Visit, DescriptorNotForeign
    <2> QED
        BY <1>0, <1>1, <2>1, <2>6, <2>7 DEF Visit
<1>6. CASE Sweep
    <2>1. \A i \in DOMAIN tbl' : i \in DOMAIN tbl \ Removed /\ tbl'[i] = tbl[i]
        BY <1>6 DEF Sweep
    <2>2. sock' = sock /\ pc' = "request" /\ todo = {}
        BY <1>6 DEF Sweep, Goto
    <2>3. \A i \in Connected(tbl') : sock'[tbl'[i].fd] = i
        BY <1>0, <2>1, <2>2 DEF Connected
    <2>4. \A i \in DOMAIN tbl' :
              tbl'[i].kind = "net" => i \in Connected(tbl')
        BY <2>1 DEF Removed, Connected, IsSocket
    <2>5. LiveRequests'
        BY <2>3, <2>4 DEF LiveRequests, Connected
    <2> QED
        BY <2>2, <2>3, <2>5 DEF Safe, DescriptorNotForeign, DescriptorsOwned
<1>7. ASSUME NEW i \in todo, VerifySkip(i) PROVE Safe'
    BY <1>2, <1>7 DEF VerifySkip
<1>8. ASSUME NEW i \in todo, VerifyIdle(i) PROVE Safe'
    BY <1>3, <1>8 DEF VerifyIdle
<1>9. ASSUME NEW i \in todo, NEW w \in BOOLEAN, VerifyShutdown(i, w) PROVE Safe'
    BY <1>2, <1>3, <1>9 DEF VerifyShutdown
<1> QED
    BY <1>4, <1>5, <1>6, <1>7, <1>8, <1>9 DEF VerifyStep

\* Processing a frame changes neither kinds nor descriptors.
LEMMA SafeRequest ==
    ASSUME IInv, RequestStep PROVE Safe'
<1>0. TypeOK /\ Owned /\ LiveRequests /\ pc = "request" /\ sock' = sock
    BY DEF IInv, DescriptorsOwned, Owned, RequestStep, RequestOther, Visit,
           RequestCrashes, RequestRegisters, RequestAdvances, RequestDone
<1>1. pc' \in {"request", "dead", "queue"}
    BY <1>0 DEF RequestStep, RequestOther, Visit, RequestCrashes, Goto,
                RequestRegisters, RequestAdvances, RequestDone
<1>2. /\ DOMAIN tbl' = DOMAIN tbl
      /\ \A j \in DOMAIN tbl :
            tbl'[j].fd = tbl[j].fd /\ tbl'[j].kind = tbl[j].kind
    <2>0. \A j \in DOMAIN tbl :
              tbl[j] \in Client(Key, 0..MaxFd, 0..MaxSeq + 1)
        BY <1>0 DEF TypeOK
    <2>1. CASE tbl' = tbl
        BY <2>1
    <2>2. ASSUME NEW i \in todo, NEW q \in 0..MaxSeq, RequestRegisters(i, q)
          PROVE  <1>2!1 /\ <1>2!2
        <3>1. PICK t \in DOMAIN tbl :
                  tbl' = [tbl EXCEPT ![t] = Registered(@, Self)]
            BY <2>2 DEF RequestRegisters, FindUnregistered, First
        <3>2. /\ Registered(tbl[t], Self).fd = tbl[t].fd
              /\ Registered(tbl[t], Self).kind = tbl[t].kind
            BY <2>0 DEF Registered, Client
        <3> QED
            BY <3>1, <3>2
    <2>3. ASSUME NEW i \in todo, NEW q \in 0..MaxSeq, RequestAdvances(i, q)
          PROVE  <1>2!1 /\ <1>2!2
        <3>1. PICK t \in DOMAIN tbl :
                  tbl' = [tbl EXCEPT ![t] = Advanced(@, q, Self)]
            BY <2>3 DEF RequestAdvances
        <3>2. /\ Advanced(tbl[t], q, Self).fd = tbl[t].fd
              /\ Advanced(tbl[t], q, Self).kind = tbl[t].kind
            BY <2>0 DEF Advanced, Client
        <3> QED
            BY <3>1, <3>2
    <2> QED
        BY <2>1, <2>2, <2>3
           DEF RequestStep, RequestOther, RequestCrashes, RequestDone
<1>3. Owned'
    BY <1>0, <1>2 DEF Owned, Connected, IsSocket
<1>4. LiveRequests'
    BY <1>0, <1>2 DEF LiveRequests
<1> QED
    BY <1>1, <1>3, <1>4
       DEF Owned, Safe, DescriptorNotForeign, DescriptorsOwned

LEMMA IInvStep ==
    ASSUME IInv, [Next]_vars PROVE IInv'
<1>1. CASE UNCHANGED vars
    BY <1>1 DEF vars, IInv, TypeOK, DescriptorNotForeign, DescriptorsOwned,
                LiveRequests, Connected
<1>2. CASE Next
    <2>1. TypeOK'
        BY <1>2, TypeStep DEF IInv
    <2>2. Safe'
        BY <1>2, SafeQueue, SafeBcast, SafeSocket, SafeVerify, SafeRequest
           DEF Next
    <2> QED
        BY <2>1, <2>2 DEF IInv, Safe
<1> QED
    BY <1>1, <1>2

LEMMA IInvInit == Init => IInv
<1> SUFFICES ASSUME Init PROVE IInv
    OBVIOUS
<1>1. TypeOK
    BY ConstantsAssumption DEF Init, TypeOK, Phase, Fd
<1>2. DOMAIN tbl = {} /\ pc = "queue"
    BY DEF Init
<1>3. Connected(tbl) = {}
    BY <1>2 DEF Connected
<1> QED
    BY <1>1, <1>2, <1>3
       DEF IInv, DescriptorNotForeign, DescriptorsOwned, LiveRequests

\* A number a client keeps never becomes the descriptor of another client's
\* connection, for any number of hosts, clients and descriptors.
THEOREM DescriptorsNeverForeign == Spec => []DescriptorNotForeign
<1>1. IInv => DescriptorNotForeign
    BY DEF IInv
<1> QED
    BY IInvInit, IInvStep, <1>1, PTL DEF Spec

\* cycle_client_request only ever serves clients whose connection is open.
THEOREM RequestsAreLive == Spec => []LiveRequests
<1>1. IInv => LiveRequests
    BY DEF IInv
<1> QED
    BY IInvInit, IInvStep, <1>1, PTL DEF Spec

-----------------------------------------------------------------------------
\* What a step does to a client that stays on the list: it may lose its
\* descriptor, its bar and its own key, and its registration to a duplicate.
Kept(i) ==
    /\ tbl'[i].kind = tbl[i].kind
    /\ tbl'[i].fd \in {0, tbl[i].fd}
    /\ tbl'[i].key \in {Self, tbl[i].key}
    /\ tbl'[i].auth => tbl[i].auth
    /\ tbl[i].reg => tbl'[i].reg \/ \E k \in todo : VerifyDups(k)

LEMMA PushKeeps ==
    ASSUME TypeOK, NEW c, tbl' = Push(tbl, last + 1, c)
    PROVE  /\ last + 1 \notin DOMAIN tbl
           /\ DOMAIN tbl' = DOMAIN tbl \union {last + 1}
           /\ tbl'[last + 1] = c
           /\ \A i \in DOMAIN tbl : tbl'[i] = tbl[i]
<1>1. last \in Nat /\ DOMAIN tbl \subseteq 1..last
    BY ConstantsAssumption DEF TypeOK
<1> QED
    BY <1>1 DEF Push

LEMMA CloseKeepsClients ==
    ASSUME TypeOK, NEW S, CloseAll(S), NEW i \in DOMAIN tbl
    PROVE  /\ DOMAIN tbl' = DOMAIN tbl
           /\ Kept(i)
           /\ tbl'[i].key = tbl[i].key
           /\ tbl'[i].reg = tbl[i].reg
           /\ tbl'[i].shut = tbl[i].shut
           /\ i \in S => tbl'[i].fd = 0
<1>1. tbl[i] \in Client(Key, 0..MaxFd, 0..MaxSeq + 1)
    BY DEF TypeOK
<1>2. tbl'[i] = [tbl[i] EXCEPT !.fd = 0] \/ (tbl'[i] = tbl[i] /\ i \notin S)
    BY DEF CloseAll, Closed
<1>3. DOMAIN tbl' = DOMAIN tbl
    BY DEF CloseAll
<1> QED
    BY <1>1, <1>2, <1>3 DEF Kept, Client

LEMMA VerifyKeeps ==
    ASSUME TypeOK, VerifyStep, NEW i \in DOMAIN tbl, i \in DOMAIN tbl'
    PROVE  Kept(i)
<1>0. tbl[i] \in Client(Key, 0..MaxFd, 0..MaxSeq + 1)
    BY DEF TypeOK
<1>1. CASE tbl' = tbl
    BY <1>1 DEF Kept
<1>2. ASSUME NEW S, CloseAll(S) PROVE Kept(i)
    BY <1>2, CloseKeepsClients
<1>3. ASSUME NEW k \in todo, VerifyError(k) PROVE Kept(i)
    <2>1. \/ tbl'[i] = tbl[i]
          \/ tbl'[i] = [[tbl[i] EXCEPT !.fd = 0] EXCEPT !.shut = TRUE]
        BY <1>3 DEF VerifyError, Closed
    <2> QED
        BY <1>0, <2>1 DEF Kept, Client
<1>4. ASSUME NEW k \in todo, VerifyDups(k) PROVE Kept(i)
    <2>1. \/ tbl'[i] = tbl[i]
          \/ tbl'[i] = [tbl[i] EXCEPT !.shut = TRUE, !.reg = FALSE]
        BY <1>4 DEF VerifyDups
    <2> QED
        BY <1>0, <1>4, <2>1 DEF Kept, Client
<1>5. CASE Sweep
    BY <1>5 DEF Sweep, Kept
<1> QED
    BY <1>1, <1>2, <1>3, <1>4, <1>5
       DEF VerifyStep, VerifySkip, VerifyShutdown, VerifyIdle

LEMMA RequestKeeps ==
    ASSUME TypeOK, RequestStep, NEW i \in DOMAIN tbl
    PROVE  DOMAIN tbl' = DOMAIN tbl /\ Kept(i)
<1>0. tbl[i] \in Client(Key, 0..MaxFd, 0..MaxSeq + 1)
    BY DEF TypeOK
<1>1. CASE tbl' = tbl
    BY <1>1 DEF Kept
<1>2. ASSUME NEW k \in todo, NEW s \in 0..MaxSeq, RequestRegisters(k, s)
      PROVE  DOMAIN tbl' = DOMAIN tbl /\ Kept(i)
    <2>1. PICK t \in DOMAIN tbl : tbl' = [tbl EXCEPT ![t] = Registered(@, Self)]
        BY <1>2 DEF RequestRegisters, FindUnregistered, First
    <2>2. tbl'[i] = tbl[i] \/ tbl'[i] = Registered(tbl[i], Self)
        BY <2>1
    <2> QED
        BY <1>0, <2>1, <2>2 DEF Kept, Registered, Client
<1>3. ASSUME NEW k \in todo, NEW s \in 0..MaxSeq, RequestAdvances(k, s)
      PROVE  DOMAIN tbl' = DOMAIN tbl /\ Kept(i)
    <2>1. PICK t \in DOMAIN tbl : tbl' = [tbl EXCEPT ![t] = Advanced(@, s, Self)]
        BY <1>3 DEF RequestAdvances
    <2>2. tbl'[i] = tbl[i] \/ tbl'[i] = Advanced(tbl[i], s, Self)
        BY <2>1
    <2>3. LET a == Advanced(tbl[i], s, Self)
          IN  /\ a.kind = tbl[i].kind /\ a.fd = tbl[i].fd
              /\ a.key \in {Self, tbl[i].key}
              /\ a.auth => tbl[i].auth
              /\ tbl[i].reg => a.reg
        BY <1>0 DEF Advanced, Client
    <2> QED
        BY <2>1, <2>2, <2>3 DEF Kept
<1> QED
    BY <1>1, <1>2, <1>3 DEF RequestStep, RequestOther, RequestCrashes, RequestDone

\* Clients that appear, and who of them is barred.
LEMMA StepKeeps ==
    ASSUME TypeOK, [Next]_vars
    PROVE  /\ \A i \in DOMAIN tbl \intersect DOMAIN tbl' : Kept(i)
           /\ \A i \in DOMAIN tbl' \ DOMAIN tbl :
                 /\ i = last + 1
                 /\ tbl'[i].auth =>
                       \E h \in Host, p \in Port :
                          AcceptNet(h, p) /\ tbl'[i].key = <<h, p>>
<1>1. CASE tbl' = tbl
    BY <1>1 DEF Kept
<1>2. ASSUME NEW c, tbl' = Push(tbl, last + 1, c),
             c.auth => \E h \in Host, p \in Port :
                          AcceptNet(h, p) /\ c.key = <<h, p>>
      PROVE  /\ \A i \in DOMAIN tbl \intersect DOMAIN tbl' : Kept(i)
             /\ \A i \in DOMAIN tbl' \ DOMAIN tbl :
                   /\ i = last + 1
                   /\ tbl'[i].auth =>
                         \E h \in Host, p \in Port :
                            AcceptNet(h, p) /\ tbl'[i].key = <<h, p>>
    BY <1>2, PushKeeps DEF Kept
<1>3. CASE QueueStep
    <2>1. ASSUME NEW a \in App PROVE ~ IpcClient(a).auth
        BY DEF IpcClient, OutgoingClient
    <2> QED
        BY <1>1, <1>2, <1>3, <2>1 DEF QueueStep, IpcOther, IpcRegister
<1>4. CASE BcastStep
    <2>1. ASSUME NEW k, NEW f, NEW r
          PROVE  /\ ~ OutgoingClient(k, f).auth
                 /\ ~ [OutgoingClient(k, f) EXCEPT !.reg = r].auth
        BY DEF OutgoingClient
    <2> QED
        BY <1>1, <1>2, <1>4, <2>1
           DEF BcastStep, NoBroadcast, Connect, ConnectInitFails
<1>5. CASE SocketStep
    <2>1. CASE Poll \/ PollNothing \/ AcceptNothing \/ AcceptDone
        BY <1>1, <2>1 DEF Poll, PollNothing, AcceptNothing, AcceptDone
    <2>2. CASE Read \/ Write
        <3>1. PICK S : CloseAll(S)
            BY <2>2 DEF Read, Write
        <3>2. DOMAIN tbl' = DOMAIN tbl
            BY <3>1 DEF CloseAll
        <3> QED
            BY <3>1, <3>2, CloseKeepsClients
    <2>3. ASSUME NEW h \in Host, AcceptHttp(h)
          PROVE  \E c : tbl' = Push(tbl, last + 1, c) /\ ~ c.auth
        <3>1. PICK f : tbl' = Push(tbl, last + 1, [HttpClient(Blank, 0) EXCEPT !.fd = f])
            BY <2>3 DEF AcceptHttp, Accept
        <3>2. ~ [HttpClient(Blank, 0) EXCEPT !.fd = f].auth
            BY DEF HttpClient, OutgoingClient
        <3> QED
            BY <3>1, <3>2
    <2>4. ASSUME NEW h \in Host, NEW p \in Port \ {ListenPort}, AcceptNet(h, p)
          PROVE  \E c : tbl' = Push(tbl, last + 1, c) /\ c.key = <<h, p>>
        <3>1. PICK f : tbl' = Push(tbl, last + 1,
                                   [AcceptedClient(<<h, p>>, 0) EXCEPT !.fd = f])
            BY <2>4 DEF AcceptNet, Accept
        <3>2. [AcceptedClient(<<h, p>>, 0) EXCEPT !.fd = f].key = <<h, p>>
            BY DEF AcceptedClient, OutgoingClient
        <3> QED
            BY <3>1, <3>2
    <2> QED
        BY <1>2, <1>5, <2>1, <2>2, <2>3, <2>4 DEF SocketStep
<1>6. CASE VerifyStep
    <2>1. DOMAIN tbl' \subseteq DOMAIN tbl
        BY <1>6 DEF VerifyStep, VerifySkip, VerifyError, VerifyShutdown,
                    VerifyIdle, VerifyDups, Sweep, CloseAll
    <2> QED
        BY <1>6, <2>1, VerifyKeeps
<1>7. CASE RequestStep
    <2>1. DOMAIN tbl' = DOMAIN tbl
        BY <1>7 DEF RequestStep, RequestOther, RequestCrashes, RequestDone,
                    RequestRegisters, RequestAdvances
    <2> QED
        BY <1>7, <2>1, RequestKeeps
<1>8. CASE UNCHANGED vars
    BY <1>1, <1>8 DEF vars
<1> QED
    BY <1>3, <1>4, <1>5, <1>6, <1>7, <1>8 DEF Next

\* A client loses its registration only in favour of a newer live connection
\* with the same key, for any number of clients.
THEOREM NewerTakesOver == Spec => DeregisteredForNewer
<1>1. ASSUME TypeOK, [Next]_vars,
             NEW i \in DOMAIN tbl \intersect DOMAIN tbl', tbl[i].reg, ~ tbl'[i].reg
      PROVE  \E j \in Connected(tbl') :
                j > i /\ tbl'[j].key = tbl[i].key /\ ~ tbl'[j].shut
    <2>1. PICK k \in todo : VerifyDups(k)
        BY <1>1, StepKeeps DEF Kept
    <2>2. /\ k \in DOMAIN tbl /\ k \in Nat /\ k \in Connected(tbl)
          /\ ~ tbl[k].shut
        <3>1. k \in Connected(tbl) /\ ~ tbl[k].shut
            BY <2>1 DEF VerifyDups
        <3>2. k \in DOMAIN tbl /\ DOMAIN tbl \subseteq 1..last
            BY <1>1, <3>1 DEF TypeOK, Connected
        <3> QED
            BY <3>1, <3>2
    <2>3. i \in Duplicates(k)
        BY <1>1, <2>1 DEF VerifyDups
    <2>4. k \notin Duplicates(k)
        BY <2>2 DEF Duplicates
    <2>5. k \in DOMAIN tbl' /\ tbl'[k] = tbl[k]
        BY <2>1, <2>2, <2>4 DEF VerifyDups
    <2>6. k \in Connected(tbl') /\ i < k /\ tbl[i].key = tbl[k].key
        BY <2>2, <2>3, <2>5 DEF Duplicates, Connected
    <2>7. i \in Nat
        BY <1>1 DEF TypeOK
    <2> QED
        BY <2>2, <2>5, <2>6, <2>7
<1>2. TypeOK /\ [Next]_vars =>
        [\A i \in DOMAIN tbl \intersect DOMAIN tbl' :
            tbl[i].reg /\ ~ tbl'[i].reg =>
               \E j \in Connected(tbl') :
                  j > i /\ tbl'[j].key = tbl[i].key /\ ~ tbl'[j].shut]_vars
    BY <1>1
<1> QED
    BY <1>2, TypeCorrect, PTL DEF Spec, DeregisteredForNewer

-----------------------------------------------------------------------------
\* What makes ReadinessBelongs inductive: while sockets are accepted, every
\* number in a set is in use, so that none is handed out again.
ReadyPolled ==
    /\ pc \in {"accept", "read", "write"} => Ready(rd \union wr) \subseteq polled
    /\ pc = "accept" => \A f \in rd \union wr : sock[f] # 0

LEMMA PushReady ==
    ASSUME TypeOK, ReadyPolled, pc = "accept", NEW c, Accept(c),
           \A f \in Fd : [c EXCEPT !.fd = f].fd = f,
           UNCHANGED <<pc, rd, wr, polled>>
    PROVE  ReadyPolled'
<1>1. PICK f \in Fd : /\ IsLowestFree(f)
                      /\ tbl' = Push(tbl, last + 1, [c EXCEPT !.fd = f])
                      /\ sock' = [sock EXCEPT ![f] = last + 1]
    BY DEF Accept
<1>2. f \notin rd \union wr
    BY <1>1 DEF ReadyPolled, IsLowestFree
<1>3. \A g \in rd \union wr : sock'[g] # 0
    BY <1>1, <1>2 DEF ReadyPolled
<1>4. ASSUME NEW i \in Ready(rd \union wr)' PROVE i \in polled
    <2>1. i \in Connected(tbl') /\ tbl'[i].fd \in rd \union wr
        BY <1>4 DEF Ready
    <2>2. i # last + 1
        <3>1. tbl'[last + 1] = [c EXCEPT !.fd = f]
            BY <1>1, PushKeeps
        <3>2. tbl'[last + 1].fd = f
            BY <3>1
        <3> QED
            BY <1>2, <2>1, <3>2
    <2>3. i \in DOMAIN tbl /\ tbl'[i] = tbl[i]
        BY <1>1, <2>1, <2>2, PushKeeps DEF Connected
    <2> QED
        BY <2>1, <2>3 DEF Ready, Connected, ReadyPolled
<1> QED
    BY <1>3, <1>4 DEF ReadyPolled

LEMMA ReadyStep ==
    ASSUME IInv, ReadyPolled, [Next]_vars PROVE ReadyPolled'
<1>0. TypeOK
    BY DEF IInv
<1>1. CASE UNCHANGED vars
    BY <1>1 DEF vars, ReadyPolled, Ready, Connected
<1>2. ASSUME pc' \notin {"accept", "read", "write"} PROVE ReadyPolled'
    BY <1>2 DEF ReadyPolled
<1>3. CASE QueueStep \/ BcastStep
    BY <1>2, <1>3 DEF QueueStep, IpcOther, IpcRegister, BcastStep, NoBroadcast,
                      Connect, ConnectInitFails, Goto
<1>4. CASE VerifyStep \/ RequestStep
    <2>1. CASE VerifyStep
        BY <1>2, <2>1 DEF VerifyStep, VerifySkip, VerifyError, VerifyShutdown,
                          VerifyIdle, VerifyDups, Visit, Sweep, Goto
    <2>2. CASE RequestStep
        BY <1>2, <2>2 DEF RequestStep, RequestOther, RequestCrashes, RequestDone,
                          RequestRegisters, RequestAdvances, Visit, Goto
    <2> QED
        BY <1>4, <2>1, <2>2
<1>5. CASE SocketStep
    <2>1. CASE Poll
        <3>1. ~ BadDescriptor /\ polled' = Connected(tbl) /\ UNCHANGED <<tbl, sock>>
            BY <2>1 DEF Poll
        <3>2. \A f \in rd' \union wr' : sock'[f] # 0
            BY <2>1, <3>1 DEF Poll, BadDescriptor
        <3>3. Ready(rd \union wr)' \subseteq polled'
            BY <3>1 DEF Ready, Connected
        <3> QED
            BY <3>2, <3>3 DEF ReadyPolled
    <2>2. CASE PollNothing
        BY <1>2, <2>2 DEF PollNothing, Goto
    <2>3. ASSUME NEW h \in Host, AcceptHttp(h) PROVE ReadyPolled'
        <3>1. \A f \in Fd : [HttpClient(Blank, 0) EXCEPT !.fd = f].fd = f
            BY DEF HttpClient, OutgoingClient
        <3> QED
            BY <1>0, <2>3, <3>1, PushReady DEF AcceptHttp
    <2>4. ASSUME NEW h \in Host, NEW p \in Port \ {ListenPort}, AcceptNet(h, p)
          PROVE  ReadyPolled'
        <3>1. \A f \in Fd : [AcceptedClient(<<h, p>>, 0) EXCEPT !.fd = f].fd = f
            BY DEF AcceptedClient, OutgoingClient
        <3> QED
            BY <1>0, <2>4, <3>1, PushReady DEF AcceptNet
    <2>5. CASE AcceptNothing
        BY <2>5 DEF AcceptNothing, ReadyPolled, Ready, Connected
    <2>6. CASE AcceptDone
        BY <2>6 DEF AcceptDone, sets, Goto, ReadyPolled, Ready, Connected
    <2>7. CASE Read
        <3>1. PICK S \in SUBSET Connected(tbl) : CloseAll(S)
            BY <2>7 DEF Read, Ready
        <3>2. \A i \in S : sock[tbl[i].fd] # 0
            BY <1>0, <2>7, ConnectedFd DEF Read, IInv, DescriptorsOwned
        <3>3. \A i \in Connected(tbl') : i \in Connected(tbl) /\ tbl'[i] = tbl[i]
            BY <1>0, <3>1, <3>2, CloseAllOthers DEF IInv
        <3>4. /\ pc = "read" /\ pc' = "write" /\ rd' \union wr' \subseteq rd \union wr
              /\ polled' = polled
            BY <2>7 DEF Read, Goto
        <3>5. Ready(rd \union wr)' \subseteq Ready(rd \union wr)
            BY <3>3, <3>4 DEF Ready
        <3> QED
            BY <3>4, <3>5 DEF ReadyPolled
    <2>8. CASE Write
        BY <1>2, <2>8 DEF Write, Goto
    <2> QED
        BY <1>5, <2>1, <2>2, <2>3, <2>4, <2>5, <2>6, <2>7, <2>8 DEF SocketStep
<1> QED
    BY <1>1, <1>3, <1>4, <1>5 DEF Next

\* A readiness bit is only ever applied to a client that was polled for it.
THEOREM ReadinessOfPolled == Spec => []ReadinessBelongs
<1>1. Init => ReadyPolled
    BY DEF Init, ReadyPolled
<1>2. ReadyPolled => ReadinessBelongs
    BY DEF ReadyPolled, ReadinessBelongs
<1>3. IInv /\ ReadyPolled /\ [Next]_vars => ReadyPolled'
    BY ReadyStep
<1>4. IInv /\ [Next]_vars => IInv'
    BY IInvStep
<1> QED
    BY IInvInit, <1>1, <1>2, <1>3, <1>4, PTL DEF Spec

-----------------------------------------------------------------------------
\* What makes UniqueRegistration inductive: clients are visited from the
\* newest on, and one that was visited and will stay, has no duplicate any
\* more unless it is being shut down.
Alone(i) == tbl[i].fd = 0 \/ tbl[i].shut \/ Duplicates(i) = {}

VisitedAlone ==
    /\ pc = "verify" =>
          \A i \in DOMAIN tbl \ todo : tbl[i].kind = "net" => Alone(i)
    /\ UniqueRegistration

\* A visit leaves the keys of all and the clients before that were alone.
LEMMA VisitKeepsAlone ==
    ASSUME TypeOK, DOMAIN tbl' = DOMAIN tbl, NEW i \in DOMAIN tbl, Alone(i),
           \A j \in DOMAIN tbl :
              /\ tbl'[j].kind = tbl[j].kind
              /\ tbl'[j].key = tbl[j].key
              /\ tbl[j].fd = 0 => tbl'[j].fd = 0
              /\ tbl'[j].reg => tbl[j].reg
              /\ tbl[j].shut => tbl'[j].shut
    PROVE  Alone(i)'
<1>1. Duplicates(i)' \subseteq Duplicates(i)
    BY DEF Duplicates
<1> QED
    BY <1>1 DEF Alone

LEMMA AloneVerify ==
    ASSUME TypeOK, VisitedAlone, VerifyStep PROVE VisitedAlone'
<1>0. /\ pc = "verify"
      /\ \A j \in DOMAIN tbl : tbl[j] \in Client(Key, 0..MaxFd, 0..MaxSeq + 1)
    BY DEF TypeOK, VerifyStep, VerifySkip, VerifyError, VerifyShutdown, VerifyIdle,
           VerifyDups, Visit, Sweep
<1>1. ASSUME NEW i \in todo, Visit("verify", i), DOMAIN tbl' = DOMAIN tbl,
             \A j \in DOMAIN tbl :
                /\ tbl'[j].kind = tbl[j].kind
                /\ tbl'[j].key = tbl[j].key
                /\ tbl[j].fd = 0 => tbl'[j].fd = 0
                /\ tbl'[j].reg => tbl[j].reg
                /\ tbl[j].shut => tbl'[j].shut,
             tbl[i].kind = "net" => Alone(i)'
      PROVE  VisitedAlone'
    <2>1. pc' = "verify" /\ todo' = todo \ {i}
        BY <1>0, <1>1 DEF Visit
    <2>2. ASSUME NEW j \in DOMAIN tbl \ todo, tbl[j].kind = "net" PROVE Alone(j)'
        BY <1>0, <1>1, <2>2, VisitKeepsAlone DEF VisitedAlone
    <2> QED
        BY <1>1, <2>1, <2>2 DEF VisitedAlone, UniqueRegistration
<1>2. ASSUME NEW i \in todo, VerifySkip(i) PROVE VisitedAlone'
    <2>1. i \notin Connected(tbl) /\ tbl' = tbl /\ i \in DOMAIN tbl
        BY <1>2 DEF VerifySkip, TypeOK
    <2>2. tbl[i].kind = "net" => Alone(i)'
        BY <2>1 DEF Connected, IsSocket, Alone
    <2> QED
        BY <1>1, <1>2, <2>1, <2>2 DEF VerifySkip
<1>3. ASSUME NEW i \in todo, VerifyError(i) PROVE VisitedAlone'
    <2>1. \A j \in DOMAIN tbl :
             \/ tbl'[j] = tbl[j] /\ i # j
             \/ tbl'[j] = [[tbl[j] EXCEPT !.fd = 0] EXCEPT !.shut = TRUE]
        BY <1>3 DEF VerifyError, Closed
    <2>2. \A j \in DOMAIN tbl :
             /\ tbl'[j].kind = tbl[j].kind
             /\ tbl'[j].key = tbl[j].key
             /\ tbl[j].fd = 0 => tbl'[j].fd = 0
             /\ tbl'[j].reg => tbl[j].reg
             /\ tbl[j].shut => tbl'[j].shut
             /\ i = j => tbl'[j].fd = 0
        <3>1. SUFFICES ASSUME NEW j \in DOMAIN tbl
              PROVE  /\ tbl'[j].kind = tbl[j].kind
                     /\ tbl'[j].key = tbl[j].key
                     /\ tbl[j].fd = 0 => tbl'[j].fd = 0
                     /\ tbl'[j].reg => tbl[j].reg
                     /\ tbl[j].shut => tbl'[j].shut
                     /\ i = j => tbl'[j].fd = 0
            OBVIOUS
        <3>2. CASE tbl'[j] = tbl[j] /\ i # j
            BY ONLY <3>2
        <3>3. CASE tbl'[j] = [[tbl[j] EXCEPT !.fd = 0] EXCEPT !.shut = TRUE]
            <4>1. tbl[j] \in Client(Key, 0..MaxFd, 0..MaxSeq + 1)
                BY <1>0
            <4> QED
                BY ONLY <3>3, <4>1 DEF Client
        <3> QED
            BY <2>1, <3>2, <3>3
    <2>3. Alone(i)'
        BY <2>2 DEF Alone, TypeOK
    <2> QED
        BY <1>1, <1>3, <2>2, <2>3 DEF VerifyError
<1>4. ASSUME NEW i \in todo, Visit("verify", i), CloseAll({i})
      PROVE  VisitedAlone'
    <2>1. /\ DOMAIN tbl' = DOMAIN tbl /\ i \in DOMAIN tbl
          /\ \A j \in DOMAIN tbl :
                /\ tbl'[j].kind = tbl[j].kind
                /\ tbl'[j].key = tbl[j].key
                /\ tbl[j].fd = 0 => tbl'[j].fd = 0
                /\ tbl'[j].reg => tbl[j].reg
                /\ tbl[j].shut => tbl'[j].shut
                /\ i = j => tbl'[j].fd = 0
        BY <1>4, CloseKeepsClients DEF Kept, TypeOK
    <2>2. Alone(i)'
        BY <2>1 DEF Alone
    <2> QED
        BY <1>1, <1>4, <2>1, <2>2
<1>5. ASSUME NEW i \in todo, NEW w \in BOOLEAN, VerifyShutdown(i, w)
      PROVE  VisitedAlone'
    <2>1. CASE w
        BY <1>4, <1>5, <2>1 DEF VerifyShutdown
    <2>2. CASE ~ w
        <3>1. tbl' = tbl /\ tbl[i].shut
            BY <1>5, <2>2 DEF VerifyShutdown
        <3> QED
            BY <1>1, <1>5, <3>1 DEF VerifyShutdown, Alone
    <2> QED
        BY <2>1, <2>2
<1>6. ASSUME NEW i \in todo, VerifyIdle(i) PROVE VisitedAlone'
    BY <1>4, <1>6 DEF VerifyIdle
<1>7. ASSUME NEW i \in todo, VerifyDups(i) PROVE VisitedAlone'
    <2>1. \A j \in DOMAIN tbl :
             \/ tbl'[j] = tbl[j] /\ j \notin Duplicates(i)
             \/ tbl'[j] = [tbl[j] EXCEPT !.shut = TRUE, !.reg = FALSE]
        BY <1>7 DEF VerifyDups
    <2>2. \A j \in DOMAIN tbl :
             /\ tbl'[j].kind = tbl[j].kind
             /\ tbl'[j].key = tbl[j].key
             /\ tbl[j].fd = 0 => tbl'[j].fd = 0
             /\ tbl'[j].reg => tbl[j].reg
             /\ tbl[j].shut => tbl'[j].shut
             /\ j \in Duplicates(i) => ~ tbl'[j].reg
        BY <1>0, <2>1 DEF Client
    <2>3. DOMAIN tbl' = DOMAIN tbl /\ i \in DOMAIN tbl
        BY <1>7 DEF VerifyDups, TypeOK
    <2>4. Duplicates(i)' = {}
        BY <2>2, <2>3 DEF Duplicates
    <2> QED
        BY <1>1, <1>7, <2>2, <2>3, <2>4 DEF VerifyDups, Alone
<1>8. CASE Sweep
    <2>1. /\ pc' = "request" /\ todo = {}
          /\ DOMAIN tbl' = DOMAIN tbl \ Removed
          /\ \A j \in DOMAIN tbl' : tbl'[j] = tbl[j]
        BY <1>8 DEF Sweep, Goto
    <2>2. ASSUME NEW i \in DOMAIN tbl', NEW j \in DOMAIN tbl', i < j,
                 tbl'[i].kind = "net", tbl'[j].kind = "net",
                 tbl'[i].reg, tbl'[j].reg, tbl'[i].key = tbl'[j].key
          PROVE  tbl'[j].shut
        <3>1. Alone(j) /\ tbl[j].fd # 0
            BY <1>0, <2>1, <2>2 DEF VisitedAlone, Removed
        <3>2. i \in Duplicates(j)
            BY <2>1, <2>2 DEF Duplicates
        <3> QED
            BY <2>1, <3>1, <3>2 DEF Alone
    <2> QED
        BY <2>1, <2>2 DEF VisitedAlone, UniqueRegistration
<1> QED
    BY <1>2, <1>3, <1>5, <1>6, <1>7, <1>8 DEF VerifyStep

LEMMA AloneStep ==
    ASSUME TypeOK, VisitedAlone, [Next]_vars PROVE VisitedAlone'
<1>1. CASE UNCHANGED vars
    BY <1>1 DEF vars, VisitedAlone, UniqueRegistration, Alone, Duplicates
<1>2. ASSUME pc' \notin {"verify", "request"} PROVE VisitedAlone'
    BY <1>2 DEF VisitedAlone, UniqueRegistration
<1>3. ASSUME pc' = "verify", todo' = DOMAIN tbl' PROVE VisitedAlone'
    BY <1>3 DEF VisitedAlone, UniqueRegistration
<1>4. CASE QueueStep \/ BcastStep
    BY <1>2, <1>4 DEF QueueStep, IpcOther, IpcRegister, BcastStep, NoBroadcast,
                      Connect, ConnectInitFails, Goto
<1>5. CASE SocketStep
    <2>1. CASE PollNothing \/ Write
        BY <1>3, <2>1 DEF PollNothing, Write, CloseAll, Goto
    <2> QED
        BY <1>2, <1>5, <2>1 DEF SocketStep, Poll, AcceptHttp, AcceptNet, AcceptNothing,
                                AcceptDone, Read, Goto
<1>6. CASE VerifyStep
    BY <1>6, AloneVerify
<1>7. CASE RequestStep
    <2>1. ASSUME NEW i \in todo, Visit("request", i), DOMAIN tbl' = DOMAIN tbl
          PROVE  VisitedAlone'
        <3>1. i \in DOMAIN tbl' /\ i \notin todo' /\ pc' = "request"
            BY <2>1 DEF Visit, TypeOK
        <3> QED
            BY <3>1 DEF VisitedAlone, UniqueRegistration
    <2> QED
        BY <1>2, <1>7, <2>1 DEF RequestStep, RequestOther, RequestCrashes, RequestDone,
                                RequestRegisters, RequestAdvances, Goto
<1> QED
    BY <1>1, <1>4, <1>5, <1>6, <1>7 DEF Next

\* After the duplicate check at most one of the registered clients with one
\* key is not being shut down, for any number of clients and of keys.
THEOREM OneRegistered == Spec => []UniqueRegistration
<1>1. Init => VisitedAlone
    BY DEF Init, VisitedAlone, UniqueRegistration
<1>2. VisitedAlone => UniqueRegistration
    BY DEF VisitedAlone
<1>3. TypeOK /\ VisitedAlone /\ [Next]_vars => VisitedAlone'
    BY AloneStep
<1> QED
    BY TypeCorrect, <1>1, <1>2, <1>3, PTL DEF Spec

-----------------------------------------------------------------------------
\* The clients of a host that are barred, and all that Count counts.
Barred(h)  == {i \in Connected(tbl) : tbl[i].auth /\ tbl[i].key \in {h} \X Port}
Counted(h) == {i \in Connected(tbl) : tbl[i].key \in {h} \X Port}

\* What the limit of cycle_socket is a limit of: clients it still counts.
HostLimit == \A h \in Host : Cardinality(Barred(h)) <= MaxConnections + 1

LEMMA FiniteTable == ASSUME TypeOK PROVE IsFiniteSet(DOMAIN tbl)
<1>1. last \in Nat /\ DOMAIN tbl \subseteq 1..last
    BY ConstantsAssumption DEF TypeOK
<1>2. IsFiniteSet(1..last)
    BY <1>1, FS_Interval
<1> QED
    BY <1>1, <1>2, FS_Subset

LEMMA LimitStep ==
    ASSUME TypeOK, HostLimit, [Next]_vars PROVE HostLimit'
<1> SUFFICES ASSUME NEW h \in Host
             PROVE  Cardinality(Barred(h)') <= MaxConnections + 1
    BY DEF HostLimit, Barred
<1>0. /\ MaxConnections \in Nat
      /\ \A k \in Host, p \in Port : Self # <<k, p>>
    BY ConstantsAssumption
<1>1. IsFiniteSet(Counted(h)) /\ IsFiniteSet(Barred(h)) /\ Barred(h) \subseteq Counted(h)
    <2>1. Counted(h) \subseteq DOMAIN tbl /\ Barred(h) \subseteq Counted(h)
        BY DEF Counted, Barred, Connected
    <2> QED
        BY <2>1, FiniteTable, FS_Subset
<1>2. ASSUME NEW i \in Barred(h)', i \in DOMAIN tbl PROVE i \in Barred(h)
    <2>1. /\ i \in DOMAIN tbl' /\ IsSocket(tbl'[i]) /\ tbl'[i].fd # 0
          /\ tbl'[i].auth /\ tbl'[i].key \in {h} \X Port
        BY <1>2 DEF Barred, Connected
    <2>2. Kept(i)
        BY <1>2, <2>1, StepKeeps
    <2>3. tbl'[i].key # Self
        BY <1>0, <2>1
    <2> QED
        BY <1>2, <2>1, <2>2, <2>3 DEF Kept, Barred, Connected, IsSocket
<1>3. CASE Barred(h)' \subseteq Barred(h)
    <2>1. Cardinality(Barred(h)') <= Cardinality(Barred(h))
        BY <1>1, <1>3, FS_Subset
    <2>2. Cardinality(Barred(h)) <= MaxConnections + 1
        BY DEF HostLimit, Barred
    <2>3. IsFiniteSet(Barred(h)')
        BY <1>1, <1>3, FS_Subset
    <2> QED
        BY <1>0, <1>1, <2>1, <2>2, <2>3, FS_CardinalityType
<1>4. ASSUME NEW i \in Barred(h)', i \notin Barred(h)
      PROVE  Cardinality(Barred(h)') <= MaxConnections + 1
    <2>1. i \in DOMAIN tbl' \ DOMAIN tbl
        BY <1>2, <1>4 DEF Barred, Connected
    <2>2. tbl'[i].auth /\ tbl'[i].key \in {h} \X Port
        BY <1>4 DEF Barred
    <2>3. PICK k \in Host, p \in Port : AcceptNet(k, p) /\ tbl'[i].key = <<k, p>>
        BY <2>1, <2>2, StepKeeps
    <2>4. k = h
        BY <2>2, <2>3
    <2>5. Cardinality(Counted(h)) <= MaxConnections
        BY <2>3, <2>4 DEF AcceptNet, Count, Counted
    <2>6. Barred(h)' \subseteq Counted(h) \union {last + 1}
        <3> SUFFICES ASSUME NEW j \in Barred(h)', j \notin DOMAIN tbl
                     PROVE  j = last + 1
            BY <1>1, <1>2
        <3>1. j \in DOMAIN tbl' \ DOMAIN tbl
            BY DEF Barred, Connected
        <3> QED
            BY <3>1, StepKeeps
    <2>7. /\ IsFiniteSet(Counted(h) \union {last + 1})
          /\ Cardinality(Counted(h) \union {last + 1}) <= Cardinality(Counted(h)) + 1
        <3>1. Cardinality(Counted(h)) \in Nat
            BY <1>1, FS_CardinalityType
        <3>2. /\ IsFiniteSet(Counted(h) \union {last + 1})
              /\ \/ Cardinality(Counted(h) \union {last + 1}) = Cardinality(Counted(h))
                 \/ Cardinality(Counted(h) \union {last + 1}) = Cardinality(Counted(h)) + 1
            BY <1>1, FS_AddElement
        <3> QED
            BY <3>1, <3>2
    <2>8. /\ IsFiniteSet(Barred(h)')
          /\ Cardinality(Barred(h)') <= Cardinality(Counted(h) \union {last + 1})
        BY <2>6, <2>7, FS_Subset
    <2> QED
        BY <1>0, <1>1, <2>5, <2>7, <2>8, FS_CardinalityType
<1> QED
    BY <1>3, <1>4

LEMMA LimitInit == Init => HostLimit
<1> SUFFICES ASSUME Init, NEW h \in Host
             PROVE  Cardinality(Barred(h)) <= MaxConnections + 1
    BY DEF HostLimit
<1>1. Barred(h) = {}
    BY DEF Init, Barred, Connected
<1> QED
    BY <1>1, FS_EmptySet, ConstantsAssumption

-----------------------------------------------------------------------------
\* The stages of a connection: as long as it has the address of a host that
\* opened it, it is barred and not registered; with the daemon's own key it is
\* registered, unless it lost that to a duplicate.
Opened == Host \X (Port \ {ListenPort})

Stage(c) ==
    c.kind = "net" => /\ c.key \in Opened => c.auth /\ ~ c.reg
                      /\ c.key = Self => c.reg \/ c.shut

Staged == \A i \in DOMAIN tbl : Stage(tbl[i])

\* The daemon's own key is no address.
LEMMA OwnNotOpened == Self \notin Opened
BY ConstantsAssumption DEF Opened

\* What the steps do to a client keeps its stage.
LEMMA StageKept ==
    ASSUME NEW c \in Client(Key, 0..MaxFd, 0..MaxSeq + 1), Stage(c)
    PROVE  /\ Stage(Closed(c))
           /\ Stage([Closed(c) EXCEPT !.shut = TRUE])
           /\ Stage([c EXCEPT !.shut = TRUE, !.reg = FALSE])
           /\ Stage(Registered(c, Self))
           /\ c.reg => \A s \in Nat : Stage(Advanced(c, s, Self))
<1>1. Stage(Closed(c)) /\ Stage([Closed(c) EXCEPT !.shut = TRUE])
    BY DEF Stage, Closed, Client
<1>2. Stage([c EXCEPT !.shut = TRUE, !.reg = FALSE])
    BY DEF Stage, Client
<1>3. Stage(Registered(c, Self))
    BY OwnNotOpened DEF Stage, Registered, Client
<1>4. ASSUME c.reg, NEW s \in Nat PROVE Stage(Advanced(c, s, Self))
    <2> DEFINE a == Advanced(c, s, Self)
    <2>1. a.kind = c.kind /\ a.reg /\ a.key \in {Self, c.key}
        BY <1>4 DEF Advanced, Client
    <2>2. c.kind = "net" => c.key \notin Opened
        BY <1>4 DEF Stage
    <2> QED
        BY <2>1, <2>2, OwnNotOpened DEF Stage
<1> QED
    BY <1>1, <1>2, <1>3, <1>4

\* So does adding one.
LEMMA StagePushed ==
    ASSUME TypeOK, Staged, NEW c, Stage(c), tbl' = Push(tbl, last + 1, c)
    PROVE  Staged'
BY PushKeeps DEF Staged

LEMMA StageNew ==
    /\ \A a \in App : Stage(IpcClient(a))
    /\ \A h \in Host, f \in Fd, r \in BOOLEAN :
          /\ Stage(OutgoingClient(<<h, ListenPort>>, f))
          /\ Stage([OutgoingClient(<<h, ListenPort>>, f) EXCEPT !.reg = r])
          /\ Stage([HttpClient(Blank, 0) EXCEPT !.fd = f])
          /\ \A p \in Port \ {ListenPort} :
                Stage([AcceptedClient(<<h, p>>, 0) EXCEPT !.fd = f])
<1>1. ASSUME NEW h \in Host
      PROVE  /\ <<h, ListenPort>> \notin Opened /\ <<h, ListenPort>> # Self
             /\ \A p \in Port \ {ListenPort} : <<h, p>> # Self
    BY ConstantsAssumption DEF Opened
<1> QED
    BY <1>1 DEF Stage, IpcClient, HttpClient, AcceptedClient, OutgoingClient

LEMMA StagedStep ==
    ASSUME TypeOK, Staged, [Next]_vars PROVE Staged'
<1>0. \A i \in DOMAIN tbl : tbl[i] \in Client(Key, 0..MaxFd, 0..MaxSeq + 1)
    BY DEF TypeOK
<1>1. CASE tbl' = tbl
    BY <1>1 DEF Staged
<1>2. ASSUME DOMAIN tbl' \subseteq DOMAIN tbl,
             \A i \in DOMAIN tbl' : tbl'[i] = tbl[i] \/ Stage(tbl'[i])
      PROVE  Staged'
    BY <1>2 DEF Staged
<1>3. CASE QueueStep
    BY <1>1, <1>3, StageNew, StagePushed DEF QueueStep, IpcOther, IpcRegister
<1>4. CASE BcastStep
    BY <1>1, <1>4, StageNew, StagePushed
       DEF BcastStep, NoBroadcast, Connect, ConnectInitFails
<1>5. ASSUME NEW S, CloseAll(S) PROVE Staged'
    <2>1. /\ DOMAIN tbl' = DOMAIN tbl
          /\ \A i \in DOMAIN tbl : tbl'[i] \in {tbl[i], Closed(tbl[i])}
        BY <1>5 DEF CloseAll
    <2> QED
        BY <1>0, <1>2, <2>1, StageKept DEF Staged
<1>6. CASE SocketStep
    <2>1. ASSUME NEW h \in Host, AcceptHttp(h) PROVE Staged'
        <3>1. PICK f \in Fd : tbl' = Push(tbl, last + 1, [HttpClient(Blank, 0) EXCEPT !.fd = f])
            BY <2>1 DEF AcceptHttp, Accept
        <3> QED
            BY <3>1, StageNew, StagePushed
    <2>2. ASSUME NEW h \in Host, NEW p \in Port \ {ListenPort}, AcceptNet(h, p)
          PROVE  Staged'
        <3>1. PICK f \in Fd : tbl' = Push(tbl, last + 1,
                                          [AcceptedClient(<<h, p>>, 0) EXCEPT !.fd = f])
            BY <2>2 DEF AcceptNet, Accept
        <3> QED
            BY <3>1, StageNew, StagePushed
    <2> QED
        BY <1>1, <1>5, <1>6, <2>1, <2>2
           DEF SocketStep, Poll, PollNothing, AcceptNothing, AcceptDone, Read, Write
<1>7. CASE VerifyStep
    <2>1. ASSUME NEW k \in todo, VerifyError(k) PROVE Staged'
        <3>1. /\ DOMAIN tbl' = DOMAIN tbl
              /\ \A i \in DOMAIN tbl :
                    tbl'[i] \in {tbl[i], [Closed(tbl[i]) EXCEPT !.shut = TRUE]}
            BY <2>1 DEF VerifyError
        <3> QED
            BY <1>0, <1>2, <3>1, StageKept DEF Staged
    <2>2. ASSUME NEW k \in todo, VerifyDups(k) PROVE Staged'
        <3>1. /\ DOMAIN tbl' = DOMAIN tbl
              /\ \A i \in DOMAIN tbl :
                    tbl'[i] \in {tbl[i], [tbl[i] EXCEPT !.shut = TRUE, !.reg = FALSE]}
            BY <2>2 DEF VerifyDups
        <3> QED
            BY <1>0, <1>2, <3>1, StageKept DEF Staged
    <2>3. CASE Sweep
        BY <1>2, <2>3 DEF Sweep
    <2> QED
        BY <1>1, <1>5, <1>7, <2>1, <2>2, <2>3
           DEF VerifyStep, VerifySkip, VerifyShutdown, VerifyIdle
<1>8. CASE RequestStep
    <2>1. ASSUME NEW k \in todo, NEW s \in 0..MaxSeq, RequestRegisters(k, s)
          PROVE  Staged'
        <3>1. PICK t \in DOMAIN tbl : tbl' = [tbl EXCEPT ![t] = Registered(@, Self)]
            BY <2>1 DEF RequestRegisters, FindUnregistered, First
        <3> QED
            BY <1>0, <1>2, <3>1, StageKept DEF Staged
    <2>2. ASSUME NEW k \in todo, NEW s \in 0..MaxSeq, RequestAdvances(k, s)
          PROVE  Staged'
        <3>1. PICK t \in DOMAIN tbl :
                 /\ tbl' = [tbl EXCEPT ![t] = Advanced(@, s, Self)]
                 /\ tbl[t].reg \/ tbl[t].kind = "msg"
            BY <2>2 DEF RequestAdvances, InitAdvances, Find, First, Matching
        <3>2. s \in Nat
            BY ConstantsAssumption
        <3>3. CASE tbl[t].reg
            BY <1>0, <1>2, <3>1, <3>2, <3>3, StageKept DEF Staged
        <3>4. CASE tbl[t].kind = "msg"
            <4>1. Advanced(tbl[t], s, Self).kind = "msg"
                BY <1>0, <3>4 DEF Advanced, Client
            <4>2. Stage(Advanced(tbl[t], s, Self))
                BY <4>1 DEF Stage
            <4> QED
                BY <1>2, <3>1, <4>2
        <3> QED
            BY <3>1, <3>3, <3>4
    <2> QED
        BY <1>1, <1>8, <2>1, <2>2 DEF RequestStep, RequestOther, RequestCrashes, RequestDone
<1>9. CASE UNCHANGED vars
    BY <1>1, <1>9 DEF vars
<1> QED
    BY <1>3, <1>4, <1>6, <1>7, <1>8, <1>9 DEF Next

\* What the stages, the limit and the duplicate check say together.
LEMMA BoundedByParts ==
    ASSUME TypeOK, Staged, HostLimit, LiveRequests, UniqueRegistration
    PROVE  ConnectionsBounded
<1> DEFINE Left(h) == {i \in DOMAIN tbl :
                           /\ tbl[i].kind = "net" /\ ~ tbl[i].shut
                           /\ tbl[i].key \in ({h} \X (Port \ {ListenPort})) \union {Self}}
<1> SUFFICES ASSUME pc = "request", todo = DOMAIN tbl, NEW h \in Host
             PROVE  Cardinality(Left(h)) <= MaxConnections + 2
    BY DEF ConnectionsBounded
<1>1. ASSUME NEW i \in Left(h) PROVE i \in Barred(h) \/ (tbl[i].key = Self /\ tbl[i].reg)
    <2>1. CASE tbl[i].key = Self
        BY <2>1 DEF Staged, Stage
    <2>2. CASE tbl[i].key \in {h} \X (Port \ {ListenPort})
        <3>1. tbl[i].auth /\ tbl[i].fd # 0
            BY <2>2 DEF Staged, Stage, Opened, LiveRequests
        <3> QED
            BY <2>2, <3>1 DEF Barred, Connected, IsSocket
    <2> QED
        BY <2>1, <2>2
<1>2. ASSUME NEW i \in Left(h), NEW j \in Left(h),
             tbl[i].key = Self, tbl[i].reg, tbl[j].key = Self, tbl[j].reg
      PROVE  i = j
    <2>1. i \in Nat /\ j \in Nat
        BY ConstantsAssumption DEF TypeOK
    <2>2. ~ (i < j) /\ ~ (j < i)
        BY <1>2 DEF UniqueRegistration
    <2> QED
        BY <2>1, <2>2
<1>3. \E x : Left(h) \subseteq Barred(h) \union {x}
    <2>1. CASE Left(h) \subseteq Barred(h)
        BY <2>1
    <2>2. ASSUME NEW x \in Left(h), x \notin Barred(h) PROVE Left(h) \subseteq Barred(h) \union {x}
        BY <1>1, <1>2, <2>2
    <2> QED
        BY <2>1, <2>2
<1>4. PICK x : Left(h) \subseteq Barred(h) \union {x}
    BY <1>3
<1>5. IsFiniteSet(Barred(h))
    BY FiniteTable, FS_Subset DEF Barred, Connected
<1>6. /\ Cardinality(Barred(h)) \in Nat
      /\ IsFiniteSet(Barred(h) \union {x})
      /\ \/ Cardinality(Barred(h) \union {x}) = Cardinality(Barred(h))
         \/ Cardinality(Barred(h) \union {x}) = Cardinality(Barred(h)) + 1
    BY <1>5, FS_AddElement, FS_CardinalityType
<1>7. /\ Cardinality(Left(h)) \in Nat
      /\ Cardinality(Left(h)) <= Cardinality(Barred(h) \union {x})
    BY <1>4, <1>6, FS_Subset, FS_CardinalityType
<1>8. Cardinality(Barred(h)) <= MaxConnections + 1 /\ MaxConnections \in Nat
    BY ConstantsAssumption DEF HostLimit
<1> HIDE DEF Left
<1> QED
    BY ONLY <1>6, <1>7, <1>8

\* The connections a host has opened, barred or not, are bounded after the
\* duplicate check, whatever the limit is and however many hosts connect.
THEOREM ConnectionsLimited == Spec => []ConnectionsBounded
<1>1. Init => HostLimit /\ Staged
    BY LimitInit DEF Init, Staged
<1>2. TypeOK /\ HostLimit /\ Staged /\ [Next]_vars => HostLimit' /\ Staged'
    BY LimitStep, StagedStep
<1>3. TypeOK /\ Staged /\ HostLimit /\ LiveRequests /\ UniqueRegistration => ConnectionsBounded
    BY BoundedByParts
<1> QED
    BY TypeCorrect, RequestsAreLive, OneRegistered, <1>1, <1>2, <1>3, PTL DEF Spec
=============================================================================
