--------------------------- MODULE HandshakeProps ---------------------------
(* What the handshake between share daemons guarantees when connections are *)
(* duplicated, reordered, timed out and lost, and what it does not.         *)
EXTENDS Handshake, FiniteSets

\* No daemon receives sequence 2 for a client it does not know, the number
\* txop_init_recv dereferences a null pointer at: the initiator of a
\* connection stays known while answers can reach it.
InitNeverUnknown == \A n \in Node : pc[n] # "dead"

\* How often frame r is in a sequence.
CopiesIn(s, r) == Cardinality({k \in DOMAIN s : s[k] = r})

\* How often frame r is under way from client i of n.
Copies(n, i, r) == CopiesIn(conn[n][i].wire, r) + CopiesIn(conn[n][i].out, r)

\* The frames that are.
UnderWay(n, i) ==
    {conn[n][i].wire[k] : k \in DOMAIN conn[n][i].wire}
        \union {conn[n][i].out[k] : k \in DOMAIN conn[n][i].out}

\* The clients of n that got as far as sending number r: they recorded it (for
\* 1, which is sent without being recorded, they took the daemon's own key), or
\* they are gone.
Passed(n, r) ==
    {t \in 1..last[n] :
        t \in DOMAIN tbl[n] => IF r = 1 THEN tbl[n][t].key = Self
                               ELSE tbl[n][t].seq >= r}

\* An answer is sunk to a key, which after the handshake is the same for all
\* connections, so answers fan out.  The test for duplicate numbers
\* (init.c:301) stops them from multiplying: a number is under way on a
\* connection at most once for each client of the sender that passed it, and a
\* subscription once for each that passed 5 and once for each that passed 6.
ChatterBounded ==
    \A n \in Node : \A i \in DOMAIN conn[n] : \A r \in UnderWay(n, i) :
        Copies(n, i, r) <=
            IF r = Sub THEN Cardinality(Passed(n, 5)) + Cardinality(Passed(n, 6))
            ELSE Cardinality(Passed(n, r))

\* Each of two daemons resolves duplicate connections by itself, by the order
\* of its own list.  Connections that are set up in order are never closed on
\* both sides until none is left.
PairKept ==
    \A n, m \in Node :
        (n # m /\ up[n] /\ up[m] /\ (last[n] > 0 \/ last[m] > 0)) =>
            \E x \in {<<n, m>>, <<m, n>>} : \E i \in DOMAIN tbl[x[1]] :
                /\ conn[x[1]][i].far[1] = x[2]
                /\ ~ tbl[x[1]][i].shut
                /\ ~ Gone(x[1], i)

Open(c) == c.fd # 0 /\ c.reg /\ ~ c.shut

\* A connection of n and m that both have registered.
Registers(n, m) ==
    \E i \in DOMAIN tbl[n], j \in DOMAIN tbl[m] :
        /\ conn[n][i].far = <<m, j>> /\ conn[m][j].far = <<n, i>>
        /\ Open(tbl[n][i]) /\ Open(tbl[m][j])

\* ... and on which neither refuses transactions any more.
Linked(n, m) ==
    \E i \in DOMAIN tbl[n], j \in DOMAIN tbl[m] :
        /\ conn[n][i].far = <<m, j>> /\ conn[m][j].far = <<n, i>>
        /\ Open(tbl[n][i]) /\ ~ tbl[n][i].auth
        /\ Open(tbl[m][j]) /\ ~ tbl[m][j].auth

\* An announcement leads to a connection that both sides register and keep.
StaysRegistered ==
    \A n, m \in Node : (n # m /\ ann[n][m] > 0) ~> []Registers(n, m)

\* The only announcement so far, to n of m: no connection was made before.
Alone(n, m) ==
    ann[n][m] = 1 /\ \A o \in Node : last[o] = 0

\* A single announcement leads to a connection with the handshake complete.
StaysLinked ==
    \A n, m \in Node : (n # m /\ Alone(n, m)) ~> []Linked(n, m)

\* The loop turns, connections are set up, and no frame on the wire is passed
\* over for ever.
FairSpec ==
    /\ Spec
    /\ \A n \in Node :
        /\ WF_vars(Loop(n))
        /\ \A i \in 1..Interfaces :
              /\ WF_vars(i \in 1..last[n] /\ Establish(n, i))
              /\ SF_vars(i \in todo[n] /\ Take(n, i))

-----------------------------------------------------------------------------
\* "check for dups" (sharedaemon_server.c:971): an open connection is closed
\* for a newer one to the same daemon.  All handshaken connections have the
\* daemon's own key, so one is closed for a connection to anybody.
DupsAreDuplicates ==
    [][\A n \in Node : \A i \in DOMAIN tbl[n] :
          (/\ Verify(n)
           /\ tbl[n][i].fd # 0 /\ tbl[n][i].reg
           /\ i \notin DOMAIN tbl'[n]) =>
             \E j \in DOMAIN tbl[n] :
                j > i /\ conn[n][j].far[1] = conn[n][i].far[1]]_vars
=============================================================================
