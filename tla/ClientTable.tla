---------------------------- MODULE ClientTable ----------------------------
(***************************************************************************)
(* The table of clients of the share daemon: the linked list               *)
(* sharedaemon_client_list of shd_t records (sharedaemon_client.c/.h).     *)
(*                                                                         *)
(* New clients are pushed at the head of the list and are only ever        *)
(* unlinked, so the list is always ordered from the newest to the oldest   *)
(* client.  A table is therefore a function whose domain is a set of       *)
(* allocation numbers; "the first client of the list that ..." is the one  *)
(* with the greatest number.                                               *)
(***************************************************************************)
EXTENDS Naturals

\* Client kinds: the SHD_CLIENT_MSG, SHD_CLIENT_NET and SHD_CLIENT_HTTP bits,
\* of which every shd_t has exactly one.
Kind == {"msg", "net", "http"}

\* A shd_t.  key is the private key of cli->peer (for an IPC client, the
\* msg_key it registered with); reg, auth and shut are the REGISTER, AUTH and
\* SHUTDOWN flags; fd is cli.net.fd (0: closed or none); seq is ini_seq.
Client(Key, Fd, Seq_) ==
    [kind : Kind, key : Key, reg : BOOLEAN, auth : BOOLEAN, shut : BOOLEAN,
     fd : Fd, seq : Seq_]

\* Mutant of OutgoingClient: the verification in app_init is inverted.
OutgoingUnregistered(key, fd) ==
    [kind |-> "net", key |-> key, reg |-> FALSE, auth |-> FALSE,
     shut |-> FALSE, fd |-> fd, seq |-> 0]

\* netclient_add with flags 0 (outgoing): app_init registers the client.
OutgoingClient(key, fd) ==
    [kind |-> "net", key |-> key, reg |-> TRUE, auth |-> FALSE,
     shut |-> FALSE, fd |-> fd, seq |-> 0]

\* netclient_add with SHD_CLIENT_AUTH (accepted): not registered yet.
AcceptedClient(key, fd) ==
    [OutgoingClient(key, fd) EXCEPT !.reg = FALSE, !.auth = TRUE]

\* httpclient_add: cli->peer stays zeroed, which is the key "blank" here.
HttpClient(blank, fd) ==
    [OutgoingClient(blank, fd) EXCEPT !.kind = "http", !.reg = FALSE]

\* msgclient_init: app_init also sets REGISTER on an IPC client.
IpcClient(key) == [OutgoingClient(key, 0) EXCEPT !.kind = "msg"]

\* The list with client n pushed at its head.
Push(tbl, n, c) ==
    [i \in DOMAIN tbl \union {n} |-> IF i = n THEN c ELSE tbl[i]]

\* The first client of the list among S: a set that is empty or a singleton.
First(S) == {i \in S : \A j \in S : j <= i}

IsSocket(c) == c.kind \in {"net", "http"}

\* sharedaemon_client_find: a registered network client whose peer has the
\* key, or an IPC client whose msg_key it is; the first of the list.
Matching(tbl, key) ==
    {i \in DOMAIN tbl :
        /\ tbl[i].key = key
        /\ \/ tbl[i].kind = "net" /\ tbl[i].reg
           \/ tbl[i].kind = "msg"}

Find(tbl, key) == First(Matching(tbl, key))

\* The first network client with the key, registered or not: what
\* txop_init_recv looks for at sequence 1.
FindUnregistered(tbl, key) ==
    First({i \in DOMAIN tbl : tbl[i].kind = "net" /\ tbl[i].key = key})

\* The network clients broadcast_raw queues a frame for.  A sink that no
\* network client has is treated like no sink at all: everybody gets it.
NetRecipients(tbl, sink, blank) ==
    LET net    == {i \in DOMAIN tbl : tbl[i].kind = "net"}
        sunk   == {i \in net : tbl[i].key = sink}
    IN  IF sink = blank \/ sunk = {} THEN net ELSE sunk

(***************************************************************************)
(* txop_init_recv on a frame that arrived on client c with sequence number *)
(* seq.  The handler increments the number, overwrites ini_peer with the   *)
(* daemon's own peer, and looks the sender up by the key of c.             *)
(***************************************************************************)

\* Sequence 1 (an incremented 0) from a sender that is not registered: the
\* first network client with that key is registered, under the key "self".
InitRegisters(tbl, c, seq) ==
    seq = 0 /\ Find(tbl, tbl[c].key) = {}

\* Mutant of InitAdvances: no test for duplicate numbers.
InitAdvancesAgain(tbl, c, seq, t) == t \in Find(tbl, tbl[c].key)

\* The lookup found client t and the number is greater than the last one t
\* recorded; a smaller one is a duplicate and ignored.
InitAdvances(tbl, c, seq, t) ==
    t \in Find(tbl, tbl[c].key) /\ seq + 1 > tbl[t].seq

\* The switch dereferences the client at sequence 2 without a test, and the
\* test before it only guards larger numbers.
InitCrashes(tbl, c, seq) ==
    seq = 1 /\ Find(tbl, tbl[c].key) = {}

\* The client after its registration at sequence 1 (ini_seq is not recorded:
\* the lookup had found nobody when it could have been).
Registered(t, self) == [t EXCEPT !.reg = TRUE, !.key = self]

\* Mutant of Advanced: the bar is lifted at sequence 4 only.
AdvancedLate(t, seq, self) ==
    [t EXCEPT !.seq  = seq + 1,
              !.reg  = @ \/ seq = 1,
              !.key  = IF seq = 1 THEN self ELSE @,
              !.auth = @ /\ seq # 3]

\* The client after an accepted number: ini_seq is recorded first, then the
\* switch registers (2) or lifts the authorization bar (3, 4).
Advanced(t, seq, self) ==
    [t EXCEPT !.seq  = seq + 1,
              !.reg  = @ \/ seq = 1,
              !.key  = IF seq = 1 THEN self ELSE @,
              !.auth = @ /\ seq \notin {2, 3}]

\* Mutant of InitReplies: the end of the sequence is answered, too.
InitRepliesPast(seq) == seq \in 1..8

\* Which accepted numbers are answered: sequence 1 from a client that is
\* registered already is refused, and the handshake ends after 8.
InitReplies(seq) == seq \in 1..7
=============================================================================
