----------------------------- MODULE Handshake -----------------------------
(***************************************************************************)
(* Several share daemons that find each other by UDP announcements, open   *)
(* TCP connections and run the TX_INIT handshake over them.                *)
(*                                                                         *)
(* Every daemon runs the loop of module ServerLoop; here the phases that   *)
(* matter between daemons remain: "bcast" (sharedaemon_bcast_recv),        *)
(* "socket" (cycle_socket: accept, end of file, output), "verify"          *)
(* (cycle_socket_verify) and "request" (cycle_client_request, one frame    *)
(* per client, newest client first).  A client's fd is 1 (open) or 0.      *)
(* An end of a connection is <<n, i>>, client i of daemon n; a connection  *)
(* that was not accepted yet has the far end <<m, 0>>.                     *)
(***************************************************************************)
EXTENDS ClientTable, Sequences

CONSTANTS
    Node,         \* daemons
    Self,         \* the key of a daemon's own peer, as that daemon sees it
    Blank,        \* the key of a zeroed peer
    Sub,          \* a subscription frame (inittx_subscribe)
    Interfaces,   \* non-loopback interfaces of a host: announcements per boot
    MaxBoots,     \* bound: boots per daemon
    Idle,         \* whether idle connections may time out
    Reorder       \* whether connections to a host may be set up out of order

ASSUME HandshakeAssumption ==
    /\ Interfaces \in Nat /\ MaxBoots \in Nat
    /\ Idle \in BOOLEAN /\ Reorder \in BOOLEAN
    /\ Self # Blank
    /\ Self \notin Node \X Nat /\ Blank \notin Node \X Nat
    /\ Sub \notin 0..8

VARIABLES
    up,      \* up[n]: daemon n runs
    boots,   \* boots[n]: how often it was started
    ann,     \* ann[n][m]: announcements of m waiting at n
    tbl,     \* tbl[n]: the client list of n
    last,    \* last[n]: clients allocated by n
    conn,    \* conn[n][i]: the end of a connection client i of n has
    pend,    \* pend[n]: the connections n has still to accept
    pc,      \* pc[n]: the phase of n's loop
    todo     \* todo[n]: clients the request pass has still to visit

vars == <<up, boots, ann, tbl, last, conn, pend, pc, todo>>

Ends  == UNION {{<<n, i>> : i \in 0..last[n]} : n \in Node}
Frame == 0..8 \union {Sub}
Key   == Ends \union {Self}

\* est: the connection is established; out: cli->buff_out; wire: what was
\* written and the far end has not processed.
Conn == [far : Ends, est : BOOLEAN, out : Seq(Frame), wire : Seq(Frame)]

TypeOK ==
    /\ up \in [Node -> BOOLEAN]
    /\ boots \in [Node -> 0..MaxBoots]
    /\ ann \in [Node -> [Node -> 0..Interfaces * MaxBoots]]
    /\ last \in [Node -> Nat]
    /\ \A n \in Node :
        /\ DOMAIN tbl[n] \subseteq 1..last[n]
        /\ \A i \in DOMAIN tbl[n] : tbl[n][i] \in Client(Key, {0, 1}, 0..9)
        /\ conn[n] \in [1..last[n] -> Conn]
        /\ pend[n] \in Seq(Ends)
        /\ todo[n] \subseteq DOMAIN tbl[n]
    /\ pc \in [Node -> {"bcast", "socket", "verify", "request", "dead"}]

None == [i \in {} |-> 0]

Init ==
    /\ up = [n \in Node |-> FALSE]
    /\ boots = [n \in Node |-> 0]
    /\ ann = [n \in Node |-> [m \in Node |-> 0]]
    /\ tbl = [n \in Node |-> None]
    /\ last = [n \in Node |-> 0]
    /\ conn = [n \in Node |-> None]
    /\ pend = [n \in Node |-> <<>>]
    /\ pc = [n \in Node |-> "bcast"]
    /\ todo = [n \in Node |-> {}]

-----------------------------------------------------------------------------
\* main: a starting daemon announces itself once on every interface; running
\* daemons have their socket bound and receive it, unless it is lost.
Boot(n) ==
    /\ ~ up[n]
    /\ boots[n] < MaxBoots
    /\ up' = [up EXCEPT ![n] = TRUE]
    /\ boots' = [boots EXCEPT ![n] = @ + 1]
    /\ pc' = [pc EXCEPT ![n] = "bcast"]
    /\ \E got \in [{m \in Node \ {n} : up[m]} -> 0..Interfaces] :
          ann' = [m \in Node |-> IF m \in DOMAIN got
                                 THEN [ann[m] EXCEPT ![n] = @ + got[m]]
                                 ELSE ann[m]]
    /\ UNCHANGED <<tbl, last, conn, pend, todo>>

\* The ends of n are gone: what was under way to them is dropped.  What is
\* queued for a connection that is not established yet stays in buff_out.
Forget(n, S) ==
    conn' = [m \in Node |-> [i \in DOMAIN conn[m] |->
               IF m = n /\ i \in S
               THEN [conn[m][i] EXCEPT !.out = <<>>]
               ELSE IF conn[m][i].est /\ conn[m][i].far \in {<<n, j>> : j \in S}
               THEN [conn[m][i] EXCEPT !.out = <<>>, !.wire = <<>>]
               ELSE conn[m][i]]]

\* The process is killed.
Crash(n) ==
    /\ up[n]
    /\ boots[n] < MaxBoots
    /\ up' = [up EXCEPT ![n] = FALSE]
    /\ tbl' = [tbl EXCEPT ![n] = None]
    /\ ann' = [ann EXCEPT ![n] = [m \in Node |-> 0]]
    /\ pend' = [pend EXCEPT ![n] = <<>>]
    /\ todo' = [todo EXCEPT ![n] = {}]
    /\ pc' = [pc EXCEPT ![n] = "bcast"]
    /\ Forget(n, DOMAIN tbl[n] \union {0})
    /\ UNCHANGED <<boots, last>>

-----------------------------------------------------------------------------
Phase(n, p, q) ==
    /\ up[n]
    /\ pc[n] = p
    /\ pc' = [pc EXCEPT ![n] = q]

\* The ends of n (as given) with frame f queued for the clients of table t
\* that broadcast_raw picks for the sink.
Sent(ends, t, sink, f) ==
    LET to == NetRecipients(t, sink, Blank)
    IN  [i \in DOMAIN ends |->
            IF i \in to THEN [ends[i] EXCEPT !.out = Append(@, f)] ELSE ends[i]]

NewEnd(far, est) == [far |-> far, est |-> est, out |-> <<>>, wire |-> <<>>]

\* netclient_conn: a connection to the announced daemon, and the first INIT
\* frame, sunk to the address just connected to.
Connect(n, m) ==
    /\ Phase(n, "bcast", "socket")
    /\ ann[n][m] > 0
    /\ LET i == last[n] + 1
           t == Push(tbl[n], i, OutgoingClient(<<m, 0>>, 1))
           e == Push(conn[n], i, NewEnd(<<m, 0>>, FALSE))
       IN  /\ tbl' = [tbl EXCEPT ![n] = t]
           /\ last' = [last EXCEPT ![n] = i]
           /\ conn' = [conn EXCEPT ![n] = Sent(e, t, <<m, 0>>, 0)]
    /\ ann' = [ann EXCEPT ![n][m] = @ - 1]
    /\ UNCHANGED <<up, boots, pend, todo>>

NoBroadcast(n) ==
    /\ Phase(n, "bcast", "socket")
    /\ \A m \in Node : ann[n][m] = 0
    /\ UNCHANGED <<up, boots, ann, tbl, last, conn, pend, todo>>

\* The kernel of m completes the connection of end <<n, i>>.
Establish(n, i) ==
    LET m == conn[n][i].far[1]
    IN  /\ i \in DOMAIN tbl[n]
        /\ up[m]
        /\ ~ conn[n][i].est
        /\ Reorder \/ \A j \in 1..i-1 :
              (j \in DOMAIN tbl[n] /\ conn[n][j].far[1] = m) => conn[n][j].est
        /\ conn' = [conn EXCEPT ![n][i].est = TRUE]
        /\ pend' = [pend EXCEPT ![m] = Append(@, <<n, i>>)]
        /\ UNCHANGED <<up, boots, ann, tbl, last, pc, todo>>

-----------------------------------------------------------------------------
\* The other end of the connection is closed: reads return the end of file.
Gone(n, i) ==
    LET m == conn[n][i].far[1]
        j == conn[n][i].far[2]
    IN  \/ ~ up[m]
        \/ j # 0 /\ j \notin DOMAIN tbl[m]
        \/ j = 0 /\ conn[n][i].est
                 /\ \A k \in DOMAIN pend[m] : pend[m][k] # <<n, i>>

\* cycle_socket, output: what is queued for established connections is written.
Flushed(ends, gone) ==
    [i \in DOMAIN ends |->
        IF ends[i].est /\ i \in gone
        THEN [ends[i] EXCEPT !.out = <<>>]
        ELSE IF ends[i].est
        THEN [ends[i] EXCEPT !.wire = @ \o ends[i].out, !.out = <<>>]
        ELSE ends[i]]

CloseEof(t, eof) ==
    [i \in DOMAIN t |-> IF i \in eof THEN [t[i] EXCEPT !.fd = 0] ELSE t[i]]

\* cycle_socket without a connection to accept; eof are the clients it closes.
Socket(n) ==
    /\ Phase(n, "socket", "verify")
    /\ pend[n] = <<>>
    /\ LET gone == {i \in DOMAIN tbl[n] : Gone(n, i)}
       IN  /\ \E eof \in SUBSET gone :
                 tbl' = [tbl EXCEPT ![n] = CloseEof(@, eof)]
           /\ conn' = [conn EXCEPT ![n] = Flushed(@, gone)]
    /\ UNCHANGED <<up, boots, ann, last, pend, todo>>

\* cycle_socket that first accepts the oldest connection of the backlog.  The
\* new client has the address of the far end, which no other client has.
Accept(n) ==
    /\ Phase(n, "socket", "verify")
    /\ pend[n] # <<>>
    /\ LET far  == Head(pend[n])
           j    == last[n] + 1
           gone == {i \in DOMAIN tbl[n] : Gone(n, i)}
           t    == Push(tbl[n], j, AcceptedClient(far, 1))
           e    == Push(Flushed(conn[n], gone), j, NewEnd(far, TRUE))
       IN  /\ \E eof \in SUBSET gone :
                 tbl' = [tbl EXCEPT ![n] = CloseEof(t, eof)]
           /\ last' = [last EXCEPT ![n] = j]
           /\ conn' = [conn EXCEPT ![n] = e, ![far[1]][far[2]].far = <<n, j>>]
    /\ pend' = [pend EXCEPT ![n] = Tail(@)]
    /\ UNCHANGED <<up, boots, ann, todo>>

-----------------------------------------------------------------------------
\* Mutant of Marked: the scan starts at the head of the list, so that a newer
\* client is a duplicate, too.
MarkedAll(t, late) ==
    {i \in DOMAIN t :
        /\ t[i].reg
        /\ \E j \in DOMAIN t \ late :
              /\ j # i /\ t[j].key = t[i].key
              /\ t[j].fd # 0 /\ ~ t[j].shut}

\* cycle_socket_verify.  A client marked for shutdown (before, or by a newer
\* client with its key) is closed as soon as it is writable, which is when it
\* is established; late are the clients that timed out.
Marked(t, late) ==
    {i \in DOMAIN t :
        /\ t[i].reg
        /\ \E j \in DOMAIN t \ late :
              /\ j > i /\ t[j].key = t[i].key
              /\ t[j].fd # 0 /\ ~ t[j].shut}

Verify(n) ==
    /\ Phase(n, "verify", "request")
    /\ \E late \in IF Idle THEN SUBSET DOMAIN tbl[n] ELSE {{}} :
        LET t      == tbl[n]
            dup    == Marked(t, late)
            closed == {i \in DOMAIN t :
                          \/ t[i].fd = 0
                          \/ i \in late
                          \/ (t[i].shut \/ i \in dup) /\ conn[n][i].est}
            kept   == DOMAIN t \ closed
        IN  /\ tbl' = [tbl EXCEPT ![n] =
                         [i \in kept |->
                            IF i \in dup
                            THEN [t[i] EXCEPT !.shut = TRUE, !.reg = FALSE]
                            ELSE t[i]]]
            /\ todo' = [todo EXCEPT ![n] = kept]
            /\ Forget(n, closed)
    /\ UNCHANGED <<up, boots, ann, last, pend>>

-----------------------------------------------------------------------------
\* cycle_client_request on client i, the next of the pass.
Visit(n, i) ==
    /\ up[n]
    /\ pc[n] = "request"
    /\ i \in First(todo[n])
    /\ todo' = [todo EXCEPT ![n] = @ \ {i}]
    /\ UNCHANGED <<up, boots, ann, last, pend, pc>>

\* No complete frame has arrived.
Skip(n, i) ==
    /\ Visit(n, i)
    /\ UNCHANGED <<tbl, conn>>

\* What is on the wire for client i, and all ends once its head is taken.
Inbox(n, i) ==
    LET far == conn[n][i].far
    IN  IF far[2] = 0 THEN <<>> ELSE conn[far[1]][far[2]].wire

Taken(n, i) ==
    LET far == conn[n][i].far
    IN  [conn EXCEPT ![far[1]][far[2]].wire = Tail(@)]

\* A subscription changes the listener set of one client only; it is refused
\* while the client awaits its handshake.
TakeSub(n, i) ==
    /\ Visit(n, i)
    /\ Inbox(n, i) # <<>>
    /\ Head(Inbox(n, i)) = Sub
    /\ conn' = Taken(n, i)
    /\ UNCHANGED tbl

IsInit(n, i) == Inbox(n, i) # <<>> /\ Head(Inbox(n, i)) # Sub

\* txop_init_recv registers an unknown sender and answers.  The answer is
\* sunk to the key of the client, which the registration may have replaced.
TakeRegister(n, i) ==
    /\ Visit(n, i)
    /\ IsInit(n, i)
    /\ InitRegisters(tbl[n], i, Head(Inbox(n, i)))
    /\ \E t \in FindUnregistered(tbl[n], tbl[n][i].key) :
          LET new == [tbl[n] EXCEPT ![t] = Registered(@, Self)]
          IN  /\ tbl' = [tbl EXCEPT ![n] = new]
              /\ conn' = [Taken(n, i) EXCEPT
                            ![n] = Sent(@, new, new[i].key, 1)]

\* txop_init_recv accepts a number: subscriptions go out at 5 and 6.
TakeAdvance(n, i) ==
    /\ Visit(n, i)
    /\ IsInit(n, i)
    /\ LET s == Head(Inbox(n, i))
       IN  \E t \in DOMAIN tbl[n] :
             /\ InitAdvances(tbl[n], i, s, t)
             /\ LET new == [tbl[n] EXCEPT ![t] = Advanced(@, s, Self)]
                    e1  == IF s \in {4, 5}
                           THEN Sent(Taken(n, i)[n], new, new[t].key, Sub)
                           ELSE Taken(n, i)[n]
                    e2  == IF InitReplies(s)
                           THEN Sent(e1, new, new[i].key, s + 1)
                           ELSE e1
                IN  /\ tbl' = [tbl EXCEPT ![n] = new]
                    /\ conn' = [Taken(n, i) EXCEPT ![n] = e2]

\* A frame that changes no client: a number that was seen, one above 2 from a
\* sender nobody knows, or number 2 from such a sender, on which the process
\* dies by a null pointer.
TakeNothing(n, i) ==
    /\ up[n]
    /\ pc[n] = "request"
    /\ i \in First(todo[n])
    /\ IsInit(n, i)
    /\ LET s == Head(Inbox(n, i))
       IN  /\ ~ InitRegisters(tbl[n], i, s)
           /\ \A t \in DOMAIN tbl[n] : ~ InitAdvances(tbl[n], i, s, t)
           /\ pc' = [pc EXCEPT ![n] = IF InitCrashes(tbl[n], i, s)
                                      THEN "dead" ELSE @]
    /\ todo' = [todo EXCEPT ![n] = @ \ {i}]
    /\ conn' = Taken(n, i)
    /\ UNCHANGED <<up, boots, ann, tbl, last, pend>>

RequestDone(n) ==
    /\ todo[n] = {}
    /\ Phase(n, "request", "bcast")
    /\ UNCHANGED <<up, boots, ann, tbl, last, conn, pend, todo>>

Take(n, i) ==
    TakeSub(n, i) \/ TakeRegister(n, i) \/ TakeAdvance(n, i)
        \/ TakeNothing(n, i)

-----------------------------------------------------------------------------
\* What the loop of daemon n does next.
Loop(n) ==
    \/ NoBroadcast(n) \/ \E m \in Node \ {n} : Connect(n, m)
    \/ Socket(n) \/ Accept(n) \/ Verify(n)
    \/ \E i \in todo[n] : Skip(n, i) \/ Take(n, i)
    \/ RequestDone(n)

Next ==
    \E n \in Node :
        \/ Boot(n) \/ Crash(n) \/ Loop(n)
        \/ \E i \in 1..last[n] : Establish(n, i)

Spec == Init /\ [][Next]_vars
=============================================================================
