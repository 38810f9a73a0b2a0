-------------------------- MODULE HandshakeProofs --------------------------
(***************************************************************************)
(* Proofs about the TX_INIT handshake, for every set of daemons and every  *)
(* bound: the types, that no daemon dies by the null pointer that          *)
(* txop_init_recv dereferences at number 2 for an unknown sender, and that *)
(* answers do not multiply; and for two daemons that they keep a           *)
(* connection, however many duplicates of it they make and drop.           *)
(***************************************************************************)
EXTENDS HandshakeProps, Integers, SequenceTheorems, FiniteSetTheorems, TLAPS

\* A nonempty set of clients has a first one.
LEMMA FirstThere ==
    ASSUME NEW N \in Nat, NEW S \in SUBSET (1..N), S # {}
    PROVE  First(S) # {}
<1> DEFINE Above(y) == {j \in S : y <= j}
           T        == {Above(y) : y \in S}
<1>1. T # {} /\ T \subseteq FiniteSubsetsOf(1..N)
  <2>1. \A y \in S : Above(y) \in SUBSET (1..N)
    OBVIOUS
  <2>2. \A U \in SUBSET (1..N) : IsFiniteSet(U)
    BY FS_Interval, FS_Subset, 1 \in Int, N \in Int
  <2> QED BY <2>1, <2>2 DEF FiniteSubsetsOf
<1> HIDE DEF T
<1>2. PICK U \in T : \A V \in T : ~ (<<V, U>> \in StrictSubsetOrdering(1..N))
  BY <1>1, FS_StrictSubsetOrderingWellFounded, WFMin
<1>3. PICK y \in S : U = Above(y)
  BY DEF T
<1>4. ASSUME NEW j \in S, ~ (j <= y)
      PROVE  FALSE
  <2>1. Above(j) \in T /\ Above(j) \in SUBSET (1..N) /\ U \in SUBSET (1..N)
    BY <1>3 DEF T
  <2>2. y \in Int /\ j \in Int /\ \A k \in S : k \in Int
    OBVIOUS
  <2>3. y <= y /\ ~ (j <= y) /\ \A k \in S : j <= k => y <= k
    BY <1>4, <2>2
  <2>4. y \in U /\ y \notin Above(j) /\ Above(j) \subseteq U
    BY <1>3, <2>3
  <2> QED BY <1>2, <2>1, <2>4 DEF StrictSubsetOrdering
<1> QED BY <1>4 DEF First

-----------------------------------------------------------------------------
(* Types.                                                                   *)

TableTyped(n) ==
    /\ DOMAIN tbl[n] \subseteq 1..last[n]
    /\ \A i \in DOMAIN tbl[n] : tbl[n][i] \in Client(Key, {0, 1}, 0..9)
    /\ todo[n] \subseteq DOMAIN tbl[n]

EndsTyped(n) == conn[n] \in [1..last[n] -> Conn]

PendTyped(n) == pend[n] \in Seq(Ends)

\* What the type invariant needs to be inductive: a daemon was not announced
\* more often than it was started.
TypeInv ==
    /\ TypeOK
    /\ DOMAIN tbl = Node /\ DOMAIN conn = Node
    /\ DOMAIN pend = Node /\ DOMAIN todo = Node
    /\ \A m, n \in Node : ann[m][n] <= Interfaces * boots[n]

LEMMA NodeTyped ==
    ASSUME TypeInv, NEW n \in Node
    PROVE  TableTyped(n) /\ EndsTyped(n) /\ PendTyped(n)
BY DEF TypeInv, TypeOK, TableTyped, EndsTyped, PendTyped

\* An end names a daemon and a client it allocated, or 0.
LEMMA EndIs ==
    ASSUME NEW e \in Ends
    PROVE  /\ e[1] \in Node /\ e[2] \in 0..last[e[1]]
           /\ e = <<e[1], e[2]>>
BY DEF Ends

LEMMA EndIn ==
    ASSUME NEW n \in Node, NEW i \in 0..last[n]
    PROVE  <<n, i>> \in Ends
BY DEF Ends

\* The end of client i of daemon n, and the one at its far side.
LEMMA FarIs ==
    ASSUME TypeInv, NEW n \in Node, NEW i \in 1..last[n]
    PROVE  LET far == conn[n][i].far
           IN  /\ conn[n][i] \in Conn /\ far \in Ends
               /\ far = <<far[1], far[2]>> /\ far[1] \in Node
               /\ far[2] \in 0..last[far[1]] /\ last[far[1]] \in Nat
               /\ far[2] # 0 => /\ far[2] \in 1..last[far[1]]
                                /\ conn[far[1]][far[2]] \in Conn
<1>1. conn[n][i] \in Conn /\ conn[n][i].far \in Ends
  BY NodeTyped DEF EndsTyped, Conn
<1>2. \A m \in Node : last[m] \in Nat
  BY DEF TypeInv, TypeOK
<1>3. \A m \in Node : \A j \in 1..last[m] : conn[m][j] \in Conn
  BY NodeTyped DEF EndsTyped
<1>4. /\ conn[n][i].far[1] \in Node
      /\ conn[n][i].far[2] \in 0..last[conn[n][i].far[1]]
      /\ conn[n][i].far = <<conn[n][i].far[1], conn[n][i].far[2]>>
  BY <1>1, EndIs
<1>5. conn[n][i].far[2] # 0 =>
        conn[n][i].far[2] \in 1..last[conn[n][i].far[1]]
  BY <1>2, <1>4
<1> QED BY <1>1, <1>2, <1>3, <1>4, <1>5

\* No number of a client is ever taken back.
LEMMA EndsGrow ==
    ASSUME \A n \in Node : /\ last[n] \in Nat /\ last'[n] \in Nat
                            /\ last[n] <= last'[n]
    PROVE  /\ Ends \subseteq Ends' /\ Conn \subseteq Conn' /\ Key \subseteq Key'
           /\ Client(Key, {0, 1}, 0..9) \subseteq Client(Key', {0, 1}, 0..9)
<1>1. ASSUME NEW e \in Ends
      PROVE  e \in Ends'
  <2>1. e[1] \in Node /\ e[2] \in 0..last[e[1]] /\ e = <<e[1], e[2]>>
    BY EndIs
  <2>2. e[2] \in 0..last'[e[1]]
    BY <2>1
  <2> QED BY <2>1, <2>2 DEF Ends
<1>2. Ends \subseteq Ends' /\ Key \subseteq Key'
  BY <1>1 DEF Key
<1> QED BY <1>2 DEF Conn, Client

-----------------------------------------------------------------------------
(* What the operators do.                                                   *)

LEMMA SentTyped ==
    ASSUME NEW N, NEW ends \in [1..N -> Conn], NEW t, NEW sink, NEW f \in Frame
    PROVE  Sent(ends, t, sink, f) \in [1..N -> Conn]
<1>1. \A i \in 1..N : Append(ends[i].out, f) \in Seq(Frame)
  BY DEF Conn
<1>2. \A i \in 1..N : [ends[i] EXCEPT !.out = Append(@, f)] \in Conn
  BY <1>1 DEF Conn
<1> QED BY <1>2 DEF Sent

\* The ends of all daemons, once those of n in S are gone.
LEMMA ForgetIs ==
    ASSUME TypeInv, NEW n \in Node, NEW S, Forget(n, S)
    PROVE  /\ DOMAIN conn' = Node
           /\ \A m \in Node : DOMAIN conn'[m] = 1..last[m]
           /\ \A m \in Node : \A i \in 1..last[m] :
                 conn'[m][i] =
                    IF m = n /\ i \in S THEN [conn[m][i] EXCEPT !.out = <<>>]
                    ELSE IF conn[m][i].est
                              /\ conn[m][i].far \in {<<n, j>> : j \in S}
                    THEN [conn[m][i] EXCEPT !.out = <<>>, !.wire = <<>>]
                    ELSE conn[m][i]
<1>1. \A m \in Node : DOMAIN conn[m] = 1..last[m]
  BY NodeTyped DEF EndsTyped
<1> QED BY <1>1 DEF Forget

LEMMA ForgetTyped ==
    ASSUME TypeInv, NEW n \in Node, NEW S, Forget(n, S)
    PROVE  \A m \in Node : conn'[m] \in [1..last[m] -> Conn]
<1>1. ASSUME NEW m \in Node, NEW i \in 1..last[m]
      PROVE  conn'[m][i] \in Conn
  <2>1. conn[m][i] \in Conn /\ <<>> \in Seq(Frame)
    BY FarIs
  <2>2. /\ [conn[m][i] EXCEPT !.out = <<>>] \in Conn
        /\ [conn[m][i] EXCEPT !.out = <<>>, !.wire = <<>>] \in Conn
    BY <2>1 DEF Conn
  <2> QED BY <2>1, <2>2, ForgetIs
<1>2. \A m \in Node : conn'[m] = [i \in 1..last[m] |-> conn'[m][i]]
  <2>1. \A m \in Node : DOMAIN conn[m] = 1..last[m]
    BY NodeTyped DEF EndsTyped
  <2> QED BY <2>1 DEF Forget
<1> QED BY <1>1, <1>2

LEMMA FlushedTyped ==
    ASSUME NEW N, NEW ends \in [1..N -> Conn], NEW gone
    PROVE  Flushed(ends, gone) \in [1..N -> Conn]
<1>1. ASSUME NEW i \in 1..N
      PROVE  /\ [ends[i] EXCEPT !.out = <<>>] \in Conn
             /\ [ends[i] EXCEPT !.wire = @ \o ends[i].out, !.out = <<>>] \in Conn
  <2>1. ends[i].wire \o ends[i].out \in Seq(Frame) /\ <<>> \in Seq(Frame)
    BY DEF Conn
  <2> QED BY <2>1 DEF Conn
<1> QED BY <1>1 DEF Flushed

\* Where there is something to read there is a far end.
LEMMA InboxIs ==
    ASSUME TypeInv, NEW n \in Node, NEW i \in 1..last[n], Inbox(n, i) # <<>>
    PROVE  LET far == conn[n][i].far
           IN  /\ far[1] \in Node /\ far[2] \in 1..last[far[1]]
               /\ far = <<far[1], far[2]>> /\ conn[far[1]][far[2]] \in Conn
               /\ Inbox(n, i) = conn[far[1]][far[2]].wire
               /\ Inbox(n, i) \in Seq(Frame) /\ Head(Inbox(n, i)) \in Frame
<1>1. conn[n][i].far[2] # 0
  BY DEF Inbox
<1>2. Inbox(n, i) \in Seq(Frame)
  BY <1>1, FarIs DEF Inbox, Conn
<1>3. Head(Inbox(n, i)) \in Frame
  BY <1>2
<1> QED BY <1>1, <1>2, <1>3, FarIs DEF Inbox

\* Taking a frame changes the wire of one end.
LEMMA TakenIs ==
    ASSUME TypeInv, NEW n \in Node, NEW i \in 1..last[n], Inbox(n, i) # <<>>
    PROVE  LET m == conn[n][i].far[1]
               j == conn[n][i].far[2]
           IN  /\ DOMAIN Taken(n, i) = Node
               /\ \A k \in Node : Taken(n, i)[k] \in [1..last[k] -> Conn]
               /\ \A k \in Node : \A l \in 1..last[k] :
                     Taken(n, i)[k][l] =
                        IF k = m /\ l = j
                        THEN [conn[k][l] EXCEPT !.wire = Tail(@)]
                        ELSE conn[k][l]
<1> DEFINE m == conn[n][i].far[1]
           j == conn[n][i].far[2]
<1>1. /\ m \in Node /\ j \in 1..last[m] /\ DOMAIN conn = Node
      /\ \A k \in Node : conn[k] \in [1..last[k] -> Conn]
      /\ Taken(n, i) = [conn EXCEPT ![m][j].wire = Tail(@)]
  BY InboxIs, NodeTyped DEF EndsTyped, TypeInv, Taken
<1>2. conn[m][j] \in Conn /\ Tail(conn[m][j].wire) \in Seq(Frame)
  <2>1. Inbox(n, i) = conn[m][j].wire /\ Inbox(n, i) \in Seq(Frame)
    BY InboxIs
  <2>2. Tail(conn[m][j].wire) \in Seq(Frame)
    <3>1. \A w \in Seq(Frame) : w # <<>> => Tail(w) \in Seq(Frame)
      OBVIOUS
    <3> QED BY <2>1, <3>1
  <2>3. conn[m][j] \in Conn
    BY <1>1
  <2> QED BY <2>2, <2>3
<1> HIDE DEF m, j
<1>3. [conn[m][j] EXCEPT !.wire = Tail(@)] \in Conn
  BY <1>2 DEF Conn
<1>4. \A k \in Node : \A l \in 1..last[k] :
         Taken(n, i)[k][l] = IF k = m /\ l = j
                             THEN [conn[k][l] EXCEPT !.wire = Tail(@)]
                             ELSE conn[k][l]
  <2> DEFINE new == [conn[m][j] EXCEPT !.wire = Tail(@)]
  <2>1. Taken(n, i) = [conn EXCEPT ![m] = [conn[m] EXCEPT ![j] = new]]
    BY <1>1
  <2>2. Taken(n, i)[m] = [conn[m] EXCEPT ![j] = new]
    BY <1>1, <2>1
  <2>3. \A k \in Node \ {m} : Taken(n, i)[k] = conn[k]
    BY <1>1, <2>1
  <2>4. \A l \in 1..last[m] :
           Taken(n, i)[m][l] = IF l = j THEN new ELSE conn[m][l]
    BY <1>1, <2>2
  <2> QED BY <2>3, <2>4
<1>5. \A k \in Node : Taken(n, i)[k] \in [1..last[k] -> Conn]
  BY <1>1, <1>3
<1> QED BY <1>1, <1>4, <1>5 DEF m, j

-----------------------------------------------------------------------------
(* Every step keeps the types.                                              *)

Growing == \A n \in Node : last'[n] \in Nat /\ last[n] <= last'[n]

LEMMA Grown ==
    ASSUME TypeInv, Growing
    PROVE  /\ Ends \subseteq Ends' /\ Conn \subseteq Conn' /\ Key \subseteq Key'
           /\ Client(Key, {0, 1}, 0..9) \subseteq Client(Key', {0, 1}, 0..9)
BY EndsGrow DEF Growing, TypeInv, TypeOK

LEMMA NotGrown ==
    ASSUME TypeInv, last' = last
    PROVE  /\ Growing
           /\ Ends' = Ends /\ Conn' = Conn /\ Key' = Key
<1>1. Ends' = Ends
  BY DEF Ends
<1>2. \A n \in Node : last[n] \in Nat
  BY DEF TypeInv, TypeOK
<1>3. \A n \in Node : last[n] <= last[n]
  BY <1>2
<1> QED BY <1>1, <1>2, <1>3 DEF Growing, Conn, Key

LEMMA TableStays ==
    ASSUME TypeInv, Growing, NEW k \in Node,
           tbl'[k] = tbl[k], todo'[k] \subseteq todo[k]
    PROVE  TableTyped(k)'
<1>1. 1..last[k] \subseteq 1..last'[k]
  BY DEF Growing, TypeInv, TypeOK
<1> QED BY <1>1, NodeTyped, Grown DEF TableTyped

LEMMA EndsStay ==
    ASSUME TypeInv, Growing, NEW k \in Node,
           conn'[k] = conn[k], last'[k] = last[k]
    PROVE  EndsTyped(k)'
BY NodeTyped, Grown DEF EndsTyped

LEMMA PendStays ==
    ASSUME TypeInv, Growing, NEW k \in Node, pend'[k] = pend[k]
    PROVE  PendTyped(k)'
<1>1. pend[k] \in Seq(Ends) /\ Ends \subseteq Ends'
  BY NodeTyped, Grown DEF PendTyped
<1>2. pend[k] \in Seq(Ends')
  BY <1>1
<1> QED BY <1>2 DEF PendTyped

LEMMA TypeFrom ==
    ASSUME up' \in [Node -> BOOLEAN],
           boots' \in [Node -> 0..MaxBoots],
           ann' \in [Node -> [Node -> 0..Interfaces * MaxBoots]],
           last' \in [Node -> Nat],
           pc' \in [Node -> {"bcast", "socket", "verify", "request", "dead"}],
           \A n \in Node : TableTyped(n)' /\ EndsTyped(n)' /\ PendTyped(n)',
           DOMAIN tbl' = Node, DOMAIN conn' = Node,
           DOMAIN pend' = Node, DOMAIN todo' = Node,
           \A m, n \in Node : ann'[m][n] <= Interfaces * boots'[n]
    PROVE  TypeInv'
BY DEF TypeInv, TypeOK, TableTyped, EndsTyped, PendTyped

\* What an action that boots nobody and receives no announcement keeps.
Still == UNCHANGED <<up, boots, ann>>

LEMMA TypeFromStill ==
    ASSUME TypeInv, Still,
           last' \in [Node -> Nat],
           pc' \in [Node -> {"bcast", "socket", "verify", "request", "dead"}],
           \A n \in Node : TableTyped(n)' /\ EndsTyped(n)' /\ PendTyped(n)',
           DOMAIN tbl' = Node, DOMAIN conn' = Node,
           DOMAIN pend' = Node, DOMAIN todo' = Node
    PROVE  TypeInv'
<1>1. /\ up' \in [Node -> BOOLEAN] /\ boots' \in [Node -> 0..MaxBoots]
      /\ ann' \in [Node -> [Node -> 0..Interfaces * MaxBoots]]
      /\ \A m, n \in Node : ann'[m][n] <= Interfaces * boots'[n]
  BY DEF TypeInv, TypeOK, Still
<1> QED BY <1>1, TypeFrom

LEMMA BootTyped ==
    ASSUME TypeInv, NEW n \in Node, Boot(n)
    PROVE  TypeInv'
<1>1. PICK got \in [{m \in Node \ {n} : up[m]} -> 0..Interfaces] :
          ann' = [m \in Node |-> IF m \in DOMAIN got
                                 THEN [ann[m] EXCEPT ![n] = @ + got[m]]
                                 ELSE ann[m]]
  BY DEF Boot
<1>2. /\ up \in [Node -> BOOLEAN] /\ boots \in [Node -> 0..MaxBoots]
      /\ ann \in [Node -> [Node -> 0..Interfaces * MaxBoots]]
      /\ last' = last /\ last' \in [Node -> Nat]
      /\ pc' \in [Node -> {"bcast", "socket", "verify", "request", "dead"}]
      /\ boots[n] < MaxBoots /\ boots' = [boots EXCEPT ![n] = @ + 1]
      /\ up' = [up EXCEPT ![n] = TRUE]
      /\ Interfaces \in Nat /\ MaxBoots \in Nat
  BY HandshakeAssumption DEF TypeInv, TypeOK, Boot
<1>3. up' \in [Node -> BOOLEAN] /\ boots' \in [Node -> 0..MaxBoots]
  BY <1>2
<1>4. ASSUME NEW m \in Node, NEW k \in Node
      PROVE  /\ ann'[m][k] \in 0..Interfaces * MaxBoots
             /\ ann'[m][k] <= Interfaces * boots'[k]
  <2>1. /\ ann[m][k] <= Interfaces * boots[k]
        /\ ann[m][k] \in 0..Interfaces * MaxBoots
    BY <1>2 DEF TypeInv
  <2>2. CASE k = n /\ m \in DOMAIN got
    <3>1. ann'[m][k] = ann[m][n] + got[m] /\ got[m] \in 0..Interfaces
      BY <1>1, <1>2, <2>2
    <3>2. boots'[k] = boots[n] + 1 /\ boots[n] \in Nat /\ boots[n] + 1 <= MaxBoots
      BY <1>2, <2>2
    <3>3. \A a, b, c \in Nat : b + 1 <= c =>
             /\ a * (b + 1) = a * b + a
             /\ a * (b + 1) <= a * c
             /\ a * b \in Nat /\ a * c \in Nat
      OBVIOUS
    <3>4. /\ Interfaces * (boots[n] + 1) = Interfaces * boots[n] + Interfaces
          /\ Interfaces * (boots[n] + 1) <= Interfaces * MaxBoots
          /\ Interfaces * boots[n] \in Nat /\ Interfaces * MaxBoots \in Nat
      BY <1>2, <3>2, <3>3
    <3>5. \A a, g, i, b, x : (/\ a \in Nat /\ g \in 0..i /\ i \in Nat
                              /\ b \in Nat /\ x \in Nat /\ a <= b /\ b + i <= x)
            => a + g \in 0..x /\ a + g <= b + i
      OBVIOUS
    <3>6. ann[m][n] \in Nat /\ ann[m][n] <= Interfaces * boots[n]
      BY <2>1, <2>2
    <3>7. /\ ann[m][n] + got[m] \in 0..Interfaces * MaxBoots
          /\ ann[m][n] + got[m] <= Interfaces * boots[n] + Interfaces
      BY <1>2, <3>1, <3>4, <3>5, <3>6
    <3> QED BY <3>1, <3>2, <3>4, <3>7
  <2>3. CASE ~ (k = n /\ m \in DOMAIN got)
    <3>1. ann'[m][k] = ann[m][k]
      BY <1>1, <1>2, <2>3
    <3>2. boots'[k] \in Nat /\ boots[k] \in Nat /\ boots[k] <= boots'[k]
      BY <1>2
    <3>3. \A a, b, c \in Nat :
             b <= c => a * b <= a * c /\ a * b \in Nat /\ a * c \in Nat
      OBVIOUS
    <3>4. /\ Interfaces * boots[k] <= Interfaces * boots'[k]
          /\ Interfaces * boots[k] \in Nat /\ Interfaces * boots'[k] \in Nat
      BY <1>2, <3>2, <3>3
    <3>5. ann[m][k] \in Nat
      BY <2>1
    <3>6. \A a, b, c \in Nat : a <= b /\ b <= c => a <= c
      OBVIOUS
    <3>7. ann[m][k] <= Interfaces * boots'[k]
      BY <2>1, <3>4, <3>5, <3>6
    <3> QED BY <2>1, <3>1, <3>7
  <2> QED BY <2>2, <2>3
<1>5. ann' \in [Node -> [Node -> 0..Interfaces * MaxBoots]]
  <2>1. \A m \in Node : /\ DOMAIN ann'[m] = Node
                        /\ ann'[m] = [k \in Node |-> ann'[m][k]]
    BY <1>1, <1>2
  <2>2. \A m \in Node : ann'[m] \in [Node -> 0..Interfaces * MaxBoots]
    BY <1>4, <2>1
  <2> HIDE <1>4
  <2> QED BY <1>1, <2>2
<1>6. \A k \in Node : TableTyped(k)' /\ EndsTyped(k)' /\ PendTyped(k)'
  BY <1>2, NotGrown, TableStays, EndsStay, PendStays DEF Boot
<1>7. /\ DOMAIN tbl' = Node /\ DOMAIN conn' = Node
      /\ DOMAIN pend' = Node /\ DOMAIN todo' = Node
  BY DEF Boot, TypeInv
<1> QED BY <1>2, <1>3, <1>4, <1>5, <1>6, <1>7, TypeFrom

\* The steps that leave the tables and the ends of all daemons alone.
LEMMA QuietTyped ==
    ASSUME TypeInv, Still, UNCHANGED <<tbl, last, conn>>,
           pend' = pend \/ (DOMAIN pend' = Node /\ \A k \in Node : PendTyped(k)'),
           pc' \in [Node -> {"bcast", "socket", "verify", "request", "dead"}],
           DOMAIN todo' = Node, \A k \in Node : todo'[k] \subseteq todo[k]
    PROVE  TypeInv'
<1>1. \A k \in Node : TableTyped(k)' /\ EndsTyped(k)'
  BY NotGrown, TableStays, EndsStay
<1>2. \A k \in Node : PendTyped(k)'
  BY NotGrown, PendStays
<1> QED BY <1>1, <1>2, TypeFromStill DEF TypeInv, TypeOK

LEMMA PhaseTyped ==
    ASSUME TypeInv, NEW n \in Node, NEW p,
           NEW q \in {"bcast", "socket", "verify", "request", "dead"},
           Phase(n, p, q)
    PROVE  pc' \in [Node -> {"bcast", "socket", "verify", "request", "dead"}]
BY DEF Phase, TypeInv, TypeOK

LEMMA WaitTyped ==
    ASSUME TypeInv, NEW n \in Node
    PROVE  /\ NoBroadcast(n) => TypeInv'
           /\ RequestDone(n) => TypeInv'
           /\ \A i : Skip(n, i) => TypeInv'
<1>1. ASSUME NoBroadcast(n) PROVE TypeInv'
  BY <1>1, PhaseTyped, QuietTyped DEF NoBroadcast, Still, TypeInv, Phase
<1>2. ASSUME RequestDone(n) PROVE TypeInv'
  BY <1>2, PhaseTyped, QuietTyped DEF RequestDone, Still, TypeInv, Phase
<1>3. ASSUME NEW i, Skip(n, i) PROVE TypeInv'
  BY <1>3, QuietTyped DEF Skip, Visit, Still, TypeInv, TypeOK
<1> QED BY <1>1, <1>2, <1>3

LEMMA EstablishTyped ==
    ASSUME TypeInv, NEW n \in Node, NEW i \in 1..last[n], Establish(n, i)
    PROVE  TypeInv'
<1>0. PICK m : m = conn[n][i].far[1]
  OBVIOUS
<1>1. /\ m \in Node /\ <<n, i>> \in Ends /\ conn[n][i] \in Conn
      /\ DOMAIN conn = Node /\ conn[n] \in [1..last[n] -> Conn]
      /\ DOMAIN pend = Node /\ pend[m] \in Seq(Ends)
  <2>1. i \in 0..last[n]
    BY DEF TypeInv, TypeOK
  <2> QED BY <1>0, <2>1, FarIs, EndIn, NodeTyped
          DEF TypeInv, EndsTyped, PendTyped
<1>2. /\ conn' = [conn EXCEPT ![n][i].est = TRUE]
      /\ pend' = [pend EXCEPT ![m] = Append(@, <<n, i>>)]
      /\ Still /\ UNCHANGED <<tbl, last, pc, todo>>
  BY <1>0 DEF Establish, Still
<1>3. [conn[n][i] EXCEPT !.est = TRUE] \in Conn
  BY <1>1 DEF Conn
<1>4. /\ \A k \in Node \ {n} : conn'[k] = conn[k]
      /\ conn'[n] \in [1..last[n] -> Conn]
      /\ DOMAIN conn' = Node
  BY <1>1, <1>2, <1>3
<1>5. \A k \in Node : EndsTyped(k)'
  <2>1. EndsTyped(n)'
    BY <1>2, <1>4, NotGrown DEF EndsTyped
  <2> QED BY <1>2, <1>4, <2>1, NotGrown, EndsStay
<1>6. \A k \in Node : PendTyped(k)'
  <2>1. Append(pend[m], <<n, i>>) \in Seq(Ends)
    BY <1>1
  <2>2. PendTyped(m)'
    BY <1>1, <1>2, <2>1, NotGrown DEF PendTyped
  <2>3. \A k \in Node \ {m} : pend'[k] = pend[k]
    BY <1>2
  <2> QED BY <1>2, <2>2, <2>3, NotGrown, PendStays
<1>7. \A k \in Node : TableTyped(k)'
  BY <1>2, NotGrown, TableStays
<1> QED BY <1>2, <1>4, <1>5, <1>6, <1>7, TypeFromStill DEF TypeInv, TypeOK

\* A table that lost clients, or some of whose clients changed.
LEMMA TableFrom ==
    ASSUME TypeInv, last' = last, NEW n \in Node,
           DOMAIN tbl'[n] \subseteq DOMAIN tbl[n],
           \A i \in DOMAIN tbl'[n] : tbl'[n][i] \in Client(Key, {0, 1}, 0..9),
           todo'[n] \subseteq DOMAIN tbl'[n]
    PROVE  TableTyped(n)'
BY NodeTyped, NotGrown DEF TableTyped

LEMMA ClientIs ==
    ASSUME TypeInv, NEW n \in Node, NEW i \in DOMAIN tbl[n]
    PROVE  /\ tbl[n][i] \in Client(Key, {0, 1}, 0..9)
           /\ i \in 1..last[n] /\ last[n] \in Nat
BY NodeTyped DEF TableTyped, TypeInv, TypeOK

LEMMA CrashTyped ==
    ASSUME TypeInv, NEW n \in Node, Crash(n)
    PROVE  TypeInv'
<1>1. /\ last' = last /\ boots' = boots
      /\ up' \in [Node -> BOOLEAN] /\ boots' \in [Node -> 0..MaxBoots]
      /\ last' \in [Node -> Nat]
      /\ pc' \in [Node -> {"bcast", "socket", "verify", "request", "dead"}]
  BY DEF Crash, TypeInv, TypeOK
<1>2. /\ ann' \in [Node -> [Node -> 0..Interfaces * MaxBoots]]
      /\ \A m, k \in Node : ann'[m][k] <= Interfaces * boots'[k]
  <2>1. \A a, b \in Nat : a * b \in Nat /\ 0 <= a * b
    OBVIOUS
  <2>2. /\ ann \in [Node -> [Node -> 0..Interfaces * MaxBoots]]
        /\ ann' = [ann EXCEPT ![n] = [m \in Node |-> 0]]
        /\ \A m, k \in Node : ann[m][k] <= Interfaces * boots[k]
        /\ \A k \in Node : boots[k] \in Nat
    BY HandshakeAssumption DEF Crash, TypeInv, TypeOK
  <2>3. /\ 0 \in 0..Interfaces * MaxBoots
        /\ \A k \in Node : 0 <= Interfaces * boots[k]
    BY <2>1, <2>2, HandshakeAssumption
  <2>4. [m \in Node |-> 0] \in [Node -> 0..Interfaces * MaxBoots]
    BY <2>3
  <2>5. \A m, k \in Node : ann'[m][k] = IF m = n THEN 0 ELSE ann[m][k]
    BY <2>2
  <2> QED BY <1>1, <2>2, <2>3, <2>4, <2>5
<1>3. \A k \in Node : EndsTyped(k)'
  BY <1>1, ForgetTyped, NotGrown DEF Crash, EndsTyped
<1>4. \A k \in Node : PendTyped(k)'
  <2>1. pend' = [pend EXCEPT ![n] = <<>>] /\ DOMAIN pend = Node
    BY DEF Crash, TypeInv
  <2>2. PendTyped(n)'
    BY <2>1 DEF PendTyped
  <2> QED BY <1>1, <2>1, <2>2, NotGrown, PendStays
<1>5. \A k \in Node : TableTyped(k)'
  <2>1. /\ tbl' = [tbl EXCEPT ![n] = None] /\ DOMAIN tbl = Node
        /\ todo' = [todo EXCEPT ![n] = {}] /\ DOMAIN todo = Node
    BY DEF Crash, TypeInv
  <2>2. TableTyped(n)'
    BY <1>1, <2>1, TableFrom DEF None
  <2> QED BY <1>1, <2>1, <2>2, NotGrown, TableStays
<1>6. /\ DOMAIN tbl' = Node /\ DOMAIN conn' = Node
      /\ DOMAIN pend' = Node /\ DOMAIN todo' = Node
  BY ForgetIs DEF Crash, TypeInv
<1> QED BY <1>1, <1>2, <1>3, <1>4, <1>5, <1>6, TypeFrom

LEMMA PushDomain ==
    ASSUME NEW t, NEW i, NEW c
    PROVE  DOMAIN Push(t, i, c) = DOMAIN t \union {i}
BY DEF Push

LEMMA PushNew ==
    ASSUME NEW t, NEW i, NEW c
    PROVE  Push(t, i, c)[i] = c
BY DEF Push

LEMMA PushOld ==
    ASSUME NEW t, NEW i, NEW c, NEW k \in DOMAIN t, k # i
    PROVE  Push(t, i, c)[k] = t[k]
BY DEF Push

LEMMA PushTyped ==
    ASSUME NEW N \in Nat, NEW S, NEW f \in [1..N -> S], NEW c \in S
    PROVE  Push(f, N + 1, c) \in [1..(N + 1) -> S]
<1>1. 1..(N + 1) = (1..N) \union {N + 1}
  OBVIOUS
<1>2. DOMAIN f = 1..N /\ \A i \in 1..N : f[i] \in S /\ i # N + 1
  OBVIOUS
<1>3. Push(f, N + 1, c) =
        [i \in 1..(N + 1) |-> IF i = N + 1 THEN c ELSE f[i]]
  BY <1>1, <1>2 DEF Push
<1>4. \A i \in 1..(N + 1) : (IF i = N + 1 THEN c ELSE f[i]) \in S
  BY <1>1, <1>2
<1> QED BY <1>3, <1>4

\* n allocates one more client.
LEMMA OneMore ==
    ASSUME TypeInv, NEW n \in Node, last' = [last EXCEPT ![n] = @ + 1]
    PROVE  /\ Growing /\ last' \in [Node -> Nat]
           /\ last'[n] = last[n] + 1 /\ last[n] \in Nat
           /\ last[n] + 1 \in 1..last'[n] /\ last[n] + 1 \notin 1..last[n]
           /\ 1..last'[n] = (1..last[n]) \union {last[n] + 1}
           /\ \A k \in Node \ {n} : last'[k] = last[k]
<1>1. last \in [Node -> Nat]
  BY DEF TypeInv, TypeOK
<1>2. last'[n] = last[n] + 1 /\ \A k \in Node \ {n} : last'[k] = last[k]
  BY <1>1
<1>3. \A k \in Node : last'[k] \in Nat /\ last[k] <= last'[k]
  BY <1>1, <1>2
<1>4. /\ last[n] + 1 \in 1..(last[n] + 1) /\ last[n] + 1 \notin 1..last[n]
      /\ 1..(last[n] + 1) = (1..last[n]) \union {last[n] + 1}
  BY <1>1
<1>5. last' \in [Node -> Nat]
  BY <1>1
<1> QED BY <1>1, <1>2, <1>3, <1>4, <1>5 DEF Growing

\* The table of n with a new client.
LEMMA PushedTyped ==
    ASSUME TypeInv, NEW n \in Node, last' = [last EXCEPT ![n] = @ + 1],
           NEW c \in Client(Key', {0, 1}, 0..9)
    PROVE  LET t == Push(tbl[n], last[n] + 1, c)
           IN  /\ DOMAIN t \subseteq 1..last'[n]
               /\ \A i \in DOMAIN t : t[i] \in Client(Key', {0, 1}, 0..9)
               /\ todo[n] \subseteq DOMAIN t
<1>1. /\ DOMAIN tbl[n] \subseteq 1..last[n]
      /\ \A i \in DOMAIN tbl[n] : tbl[n][i] \in Client(Key', {0, 1}, 0..9)
      /\ todo[n] \subseteq DOMAIN tbl[n]
  BY NodeTyped, OneMore, Grown DEF TableTyped
<1>2. PICK j : j = last[n] + 1
  OBVIOUS
<1> DEFINE t == Push(tbl[n], j, c)
<1>3. DOMAIN t = DOMAIN tbl[n] \union {j}
  BY PushDomain
<1>4. \A i \in DOMAIN tbl[n] : i # j
  BY <1>2, <1>1, OneMore
<1>5. \A i \in DOMAIN tbl[n] : t[i] = tbl[n][i]
  BY <1>4, PushOld
<1>6. t[j] = c
  BY PushNew
<1> HIDE DEF t
<1>7. \A i \in DOMAIN t : t[i] \in Client(Key', {0, 1}, 0..9)
  BY <1>1, <1>3, <1>4, <1>6, <1>5
<1>8. DOMAIN t \subseteq 1..last'[n]
  BY <1>2, <1>1, <1>3, OneMore
<1> QED BY <1>2, <1>1, <1>3, <1>7, <1>8 DEF t

LEMMA OutgoingTyped ==
    ASSUME NEW K, NEW key \in K
    PROVE  /\ OutgoingClient(key, 1) \in Client(K, {0, 1}, 0..9)
           /\ AcceptedClient(key, 1) \in Client(K, {0, 1}, 0..9)
<1>1. OutgoingClient(key, 1) \in Client(K, {0, 1}, 0..9)
  BY DEF OutgoingClient, Client, Kind
<1>2. \A c \in Client(K, {0, 1}, 0..9) :
         [c EXCEPT !.reg = FALSE, !.auth = TRUE] \in Client(K, {0, 1}, 0..9)
  BY DEF Client
<1> QED BY <1>1, <1>2 DEF AcceptedClient

LEMMA ConnectIs ==
    ASSUME TypeInv, NEW n \in Node, NEW m \in Node, Connect(n, m)
    PROVE  LET i == last[n] + 1
               t == Push(tbl[n], i, OutgoingClient(<<m, 0>>, 1))
               e == Push(conn[n], i, NewEnd(<<m, 0>>, FALSE))
           IN  /\ tbl' = [tbl EXCEPT ![n] = t]
               /\ last' = [last EXCEPT ![n] = @ + 1]
               /\ conn' = [conn EXCEPT ![n] = Sent(e, t, <<m, 0>>, 0)]
BY DEF Connect, TypeInv, TypeOK

LEMMA ConnectTyped ==
    ASSUME TypeInv, NEW n \in Node, NEW m \in Node, Connect(n, m)
    PROVE  TypeInv'
<1> DEFINE i == last[n] + 1
           t == Push(tbl[n], i, OutgoingClient(<<m, 0>>, 1))
           e == Push(conn[n], i, NewEnd(<<m, 0>>, FALSE))
<1>1. /\ tbl' = [tbl EXCEPT ![n] = t]
      /\ last' = [last EXCEPT ![n] = @ + 1]
      /\ conn' = [conn EXCEPT ![n] = Sent(e, t, <<m, 0>>, 0)]
  BY ConnectIs
<1>2. /\ last' \in [Node -> Nat] /\ Growing /\ up' = up /\ boots' = boots
      /\ pend' = pend /\ todo' = todo
      /\ \A k \in Node \ {n} : last'[k] = last[k]
      /\ last[n] \in Nat /\ last'[n] = last[n] + 1
  BY <1>1, OneMore DEF Connect
<1>3. <<m, 0>> \in Ends' /\ <<m, 0>> \in Key'
  <2>1. 0 \in 0..last'[m]
    BY <1>2
  <2> QED BY <2>1 DEF Ends, Key
<1>4. /\ DOMAIN t \subseteq 1..last'[n]
      /\ \A k \in DOMAIN t : t[k] \in Client(Key', {0, 1}, 0..9)
      /\ todo[n] \subseteq DOMAIN t
  BY <1>1, <1>3, OutgoingTyped, PushedTyped
<1>5. Sent(e, t, <<m, 0>>, 0) \in [1..last'[n] -> Conn']
  <2>1. conn[n] \in [1..last[n] -> Conn']
    BY <1>2, NodeTyped, Grown DEF EndsTyped
  <2>2. NewEnd(<<m, 0>>, FALSE) \in Conn'
    <3>1. <<>> \in Seq(Frame)
      OBVIOUS
    <3> QED BY <1>3, <3>1 DEF NewEnd, Conn
  <2>3. e \in [1..(last[n] + 1) -> Conn']
    BY <1>2, <2>1, <2>2, PushTyped
  <2>4. \A k \in 1..last'[n] : [e[k] EXCEPT !.out = Append(@, 0)] \in Conn'
    <3>1. \A k \in 1..last'[n] : e[k] \in Conn'
      BY <1>2, <2>3
    <3>2. 0 \in Frame
      BY DEF Frame
    <3>3. \A c \in Conn' : Append(c.out, 0) \in Seq(Frame)
      BY <3>2 DEF Conn
    <3> HIDE DEF e
    <3> QED BY <3>1, <3>3 DEF Conn
  <2> HIDE DEF e, t
  <2> QED BY <1>2, <2>3, <2>4 DEF Sent
<1> HIDE DEF t, e, i
<1>6. \A k \in Node : TableTyped(k)'
  <2>1. TableTyped(n)'
    BY <1>1, <1>2, <1>4 DEF TypeInv, TableTyped
  <2>2. \A k \in Node \ {n} : tbl'[k] = tbl[k]
    BY <1>1
  <2> QED BY <1>2, <2>1, <2>2, TableStays
<1>7. \A k \in Node : EndsTyped(k)'
  <2>1. EndsTyped(n)'
    BY <1>1, <1>5 DEF TypeInv, EndsTyped
  <2>2. \A k \in Node \ {n} : conn'[k] = conn[k]
    BY <1>1
  <2> QED BY <1>2, <2>1, <2>2, EndsStay
<1>8. \A k \in Node : PendTyped(k)'
  BY <1>2, PendStays
<1>9. /\ DOMAIN tbl' = Node /\ DOMAIN conn' = Node
      /\ DOMAIN pend' = Node /\ DOMAIN todo' = Node
  BY <1>1, <1>2 DEF TypeInv
<1>10. pc' \in [Node -> {"bcast", "socket", "verify", "request", "dead"}]
  BY PhaseTyped DEF Connect
<1>11. /\ ann' \in [Node -> [Node -> 0..Interfaces * MaxBoots]]
       /\ \A k, l \in Node : ann'[k][l] <= Interfaces * boots'[l]
       /\ up' \in [Node -> BOOLEAN] /\ boots' \in [Node -> 0..MaxBoots]
  <2>1. /\ ann \in [Node -> [Node -> 0..Interfaces * MaxBoots]]
        /\ ann[n][m] > 0 /\ ann' = [ann EXCEPT ![n][m] = @ - 1]
        /\ \A k, l \in Node : ann[k][l] <= Interfaces * boots[l]
        /\ \A l \in Node : boots[l] \in Nat
    BY DEF Connect, TypeInv, TypeOK
  <2>2. /\ ann[n][m] \in 0..Interfaces * MaxBoots
        /\ ann[n][m] - 1 \in 0..Interfaces * MaxBoots
    <3>1. \A a, b \in Nat : a * b \in Nat
      OBVIOUS
    <3>2. \A x \in Nat : \A a \in 0..x : a > 0 => a - 1 \in 0..x
      OBVIOUS
    <3>3. Interfaces * MaxBoots \in Nat
      BY <3>1, HandshakeAssumption
    <3>4. ann[n][m] \in 0..Interfaces * MaxBoots
      BY <2>1
    <3> QED BY <2>1, <3>2, <3>3, <3>4
  <2>3. \A k, l \in Node : ann'[k][l] = IF k = n /\ l = m THEN ann[n][m] - 1
                                        ELSE ann[k][l]
    BY <2>1
  <2>4. ann' \in [Node -> [Node -> 0..Interfaces * MaxBoots]]
    BY <2>1, <2>2
  <2>5. Interfaces * boots[m] \in Int /\ ann[n][m] \in Int
    <3>1. \A a, b \in Nat : a * b \in Int
      OBVIOUS
    <3> QED BY <2>1, <2>2, <3>1, HandshakeAssumption
  <2>6. ann[n][m] - 1 <= Interfaces * boots[m]
    BY <2>1, <2>5
  <2>7. \A k, l \in Node : ann'[k][l] <= Interfaces * boots[l]
    BY <2>1, <2>3, <2>6
  <2> QED BY <1>2, <2>4, <2>7 DEF TypeInv, TypeOK
<1> QED BY <1>2, <1>6, <1>7, <1>8, <1>9, <1>10, <1>11, TypeFrom

LEMMA CloseEofTyped ==
    ASSUME NEW t, NEW eof, NEW K,
           \A i \in DOMAIN t : t[i] \in Client(K, {0, 1}, 0..9)
    PROVE  /\ DOMAIN CloseEof(t, eof) = DOMAIN t
           /\ \A i \in DOMAIN t :
                 CloseEof(t, eof)[i] \in Client(K, {0, 1}, 0..9)
<1>1. \A c \in Client(K, {0, 1}, 0..9) :
         [c EXCEPT !.fd = 0] \in Client(K, {0, 1}, 0..9)
  BY DEF Client
<1> QED BY <1>1 DEF CloseEof

SocketGone(n) == {i \in DOMAIN tbl[n] : Gone(n, i)}

LEMMA SocketTyped ==
    ASSUME TypeInv, NEW n \in Node, Socket(n)
    PROVE  TypeInv'
<1>1. PICK eof : tbl' = [tbl EXCEPT ![n] = CloseEof(@, eof)]
  BY DEF Socket
<1>2. /\ conn' = [conn EXCEPT ![n] = Flushed(@, SocketGone(n))]
      /\ Still /\ UNCHANGED <<last, pend, todo>>
  BY DEF Socket, SocketGone, Still
<1>3. /\ DOMAIN tbl = Node /\ DOMAIN conn = Node
      /\ DOMAIN pend = Node /\ DOMAIN todo = Node /\ last \in [Node -> Nat]
  BY DEF TypeInv, TypeOK
<1>4. \A k \in Node : TableTyped(k)'
  <2>1. tbl'[n] = CloseEof(tbl[n], eof)
    BY <1>1, <1>3
  <2>2. TableTyped(n)'
    BY <1>2, <2>1, NodeTyped, CloseEofTyped, TableFrom DEF TableTyped
  <2>3. \A k \in Node \ {n} : tbl'[k] = tbl[k]
    BY <1>1
  <2> QED BY <1>2, <2>2, <2>3, NotGrown, TableStays
<1>5. \A k \in Node : EndsTyped(k)'
  <2>1. conn'[n] = Flushed(conn[n], SocketGone(n))
    BY <1>2, <1>3
  <2>2. EndsTyped(n)'
    BY <1>2, <2>1, NodeTyped, FlushedTyped, NotGrown DEF EndsTyped
  <2>3. \A k \in Node \ {n} : conn'[k] = conn[k]
    BY <1>2
  <2> QED BY <1>2, <2>2, <2>3, NotGrown, EndsStay
<1>6. \A k \in Node : PendTyped(k)'
  BY <1>2, NotGrown, PendStays
<1>7. pc' \in [Node -> {"bcast", "socket", "verify", "request", "dead"}]
  BY PhaseTyped DEF Socket
<1>8. DOMAIN tbl' = Node /\ DOMAIN conn' = Node
  BY <1>1, <1>2, <1>3
<1> QED BY <1>2, <1>3, <1>4, <1>5, <1>6, <1>7, <1>8, TypeFromStill

\* What Accept does, taken apart.
LEMMA AcceptIs ==
    ASSUME TypeInv, NEW n \in Node, Accept(n)
    PROVE  LET far == Head(pend[n])
               j   == last[n] + 1
               e   == Push(Flushed(conn[n], SocketGone(n)), j, NewEnd(far, TRUE))
           IN  /\ \E eof : tbl' = [tbl EXCEPT ![n] =
                      CloseEof(Push(tbl[n], j, AcceptedClient(far, 1)), eof)]
               /\ last' = [last EXCEPT ![n] = @ + 1]
               /\ conn' = [conn EXCEPT ![n] = e, ![far[1]][far[2]].far = <<n, j>>]
               /\ pend' = [pend EXCEPT ![n] = Tail(@)]
               /\ pend[n] # <<>> /\ Still /\ todo' = todo
BY DEF Accept, SocketGone, Still, TypeInv, TypeOK

LEMMA HeadOfPend ==
    ASSUME TypeInv, NEW n \in Node, pend[n] # <<>>
    PROVE  /\ Head(pend[n]) \in Ends /\ Tail(pend[n]) \in Seq(Ends)
           /\ Len(pend[n]) \in Nat /\ 1 \in DOMAIN pend[n]
           /\ Head(pend[n]) = pend[n][1]
           /\ DOMAIN Tail(pend[n]) = 1..Len(pend[n]) - 1
           /\ \A k \in 1..Len(pend[n]) - 1 :
                 Tail(pend[n])[k] = pend[n][k + 1]
           /\ DOMAIN pend[n] = 1..Len(pend[n])
<1>1. pend[n] \in Seq(Ends)
  BY NodeTyped DEF PendTyped
<1> QED BY <1>1

\* The end that is accepted learns its far end.
LEMMA RepointTyped ==
    ASSUME NEW f, DOMAIN f = Node, NEW C, NEW F,
           C = [far : F, est : BOOLEAN, out : Seq(Frame), wire : Seq(Frame)],
           NEW k \in Node, NEW N \in Nat, f[k] \in [1..N -> C],
           NEW a \in Node, NEW b, NEW x \in F
    PROVE  [f EXCEPT ![a][b].far = x][k] \in [1..N -> C]
<1> DEFINE g == [f EXCEPT ![a] = [f[a] EXCEPT ![b] = [f[a][b] EXCEPT !.far = x]]]
<1>1. [f EXCEPT ![a][b].far = x] = g
  OBVIOUS
<1>2. CASE k # a
  BY <1>1, <1>2
<1>3. CASE k = a
  <2>1. g[k] = [f[a] EXCEPT ![b] = [f[a][b] EXCEPT !.far = x]]
    BY <1>3
  <2>2. \A c \in C : [c EXCEPT !.far = x] \in C
    OBVIOUS
  <2>3. [f[a] EXCEPT ![b] = [f[a][b] EXCEPT !.far = x]] \in [1..N -> C]
    BY <1>3, <2>2
  <2> QED BY <1>1, <2>1, <2>3
<1> QED BY <1>2, <1>3

LEMMA AcceptTyped ==
    ASSUME TypeInv, NEW n \in Node, Accept(n)
    PROVE  TypeInv'
<1>1. PICK far, j : far = Head(pend[n]) /\ j = last[n] + 1
  OBVIOUS
<1>2. PICK eof : tbl' = [tbl EXCEPT ![n] =
                      CloseEof(Push(tbl[n], j, AcceptedClient(far, 1)), eof)]
  BY <1>1, AcceptIs
<1> DEFINE e == Push(Flushed(conn[n], SocketGone(n)), j, NewEnd(far, TRUE))
<1>3. /\ last' = [last EXCEPT ![n] = @ + 1]
      /\ conn' = [conn EXCEPT ![n] = e, ![far[1]][far[2]].far = <<n, j>>]
      /\ pend' = [pend EXCEPT ![n] = Tail(@)]
      /\ pend[n] # <<>> /\ Still /\ todo' = todo
  BY <1>1, AcceptIs
<1>4. /\ DOMAIN tbl = Node /\ DOMAIN conn = Node
      /\ DOMAIN pend = Node /\ DOMAIN todo = Node
  BY DEF TypeInv
<1>5. /\ last' \in [Node -> Nat] /\ Growing
      /\ last'[n] = j /\ last[n] \in Nat
      /\ \A k \in Node \ {n} : last'[k] = last[k]
  BY <1>1, <1>3, OneMore
<1>6. far \in Ends /\ far \in Ends' /\ far \in Key' /\ far[1] \in Node
  <2>1. far \in Ends
    BY <1>1, <1>3, HeadOfPend
  <2> QED BY <1>5, <2>1, Grown, EndIs DEF Key
<1>7. <<n, j>> \in Ends'
  <2>1. j \in 0..last'[n]
    BY <1>1, <1>5
  <2> QED BY <2>1 DEF Ends
<1>8. \A k \in Node : TableTyped(k)'
  <2> DEFINE t == Push(tbl[n], j, AcceptedClient(far, 1))
  <2>1. /\ DOMAIN t \subseteq 1..last'[n]
        /\ \A i \in DOMAIN t : t[i] \in Client(Key', {0, 1}, 0..9)
        /\ todo[n] \subseteq DOMAIN t
    BY <1>1, <1>3, <1>6, OutgoingTyped, PushedTyped
  <2>2. tbl'[n] = CloseEof(t, eof)
    BY <1>2, <1>4
  <2> HIDE DEF t
  <2>3. /\ DOMAIN tbl'[n] \subseteq 1..last'[n]
        /\ todo'[n] \subseteq DOMAIN tbl'[n]
        /\ \A i \in DOMAIN tbl'[n] : tbl'[n][i] \in Client(Key', {0, 1}, 0..9)
    BY <1>3, <2>1, <2>2, CloseEofTyped
  <2>4. TableTyped(n)'
    BY <2>3 DEF TableTyped
  <2>5. \A k \in Node \ {n} : tbl'[k] = tbl[k]
    BY <1>2
  <2> QED BY <1>3, <1>5, <2>4, <2>5, TableStays
<1>9. /\ DOMAIN conn' = Node
      /\ \A k \in Node : conn'[k] \in [1..last'[k] -> Conn']
  <2>1. e \in [1..j -> Conn']
    <3>1. Flushed(conn[n], SocketGone(n)) \in [1..last[n] -> Conn']
      BY <1>5, NodeTyped, FlushedTyped, Grown DEF EndsTyped
    <3>2. NewEnd(far, TRUE) \in Conn'
      <4>1. <<>> \in Seq(Frame)
        OBVIOUS
      <4> QED BY <1>6, <4>1 DEF NewEnd, Conn
    <3> QED BY <1>1, <1>5, <3>1, <3>2, PushTyped
  <2> HIDE DEF e
  <2> DEFINE f == [conn EXCEPT ![n] = e]
  <2>2. DOMAIN f = Node /\ conn' = [f EXCEPT ![far[1]][far[2]].far = <<n, j>>]
    BY <1>3, <1>4
  <2>3. \A k \in Node : f[k] \in [1..last'[k] -> Conn']
    BY <1>4, <1>5, <2>1, NodeTyped, Grown DEF EndsTyped
  <2> HIDE DEF f
  <2>4. PICK C, F : C = Conn' /\ F = Ends'
    OBVIOUS
  <2>5. C = [far : F, est : BOOLEAN, out : Seq(Frame), wire : Seq(Frame)]
    BY <2>4 DEF Conn
  <2>6. \A k \in Node : last'[k] \in Nat
    BY <1>5
  <2>7. <<n, j>> \in F /\ \A k \in Node : f[k] \in [1..last'[k] -> C]
    BY <1>7, <2>4, <2>3
  <2>8. ASSUME NEW k \in Node
        PROVE  [f EXCEPT ![far[1]][far[2]].far = <<n, j>>][k]
                  \in [1..last'[k] -> C]
    BY <1>6, <2>2, <2>5, <2>6, <2>7, RepointTyped
  <2>9. \A k \in Node :
           [f EXCEPT ![far[1]][far[2]].far = <<n, j>>][k]
              \in [1..last'[k] -> Conn']
    BY <2>4, <2>8
  <2> QED BY <2>2, <2>9
<1> HIDE DEF e
<1>10. \A k \in Node : EndsTyped(k)'
  BY <1>9 DEF EndsTyped
<1>11. \A k \in Node : PendTyped(k)'
  <2>1. Tail(pend[n]) \in Seq(Ends)
    BY <1>3, HeadOfPend
  <2>2. Tail(pend[n]) \in Seq(Ends')
    BY <1>5, <2>1, Grown
  <2>3. PendTyped(n)'
    BY <1>3, <1>4, <2>2 DEF PendTyped
  <2>4. \A k \in Node \ {n} : pend'[k] = pend[k]
    BY <1>3
  <2> QED BY <1>5, <2>3, <2>4, PendStays
<1>12. pc' \in [Node -> {"bcast", "socket", "verify", "request", "dead"}]
  BY PhaseTyped DEF Accept
<1>13. DOMAIN tbl' = Node /\ DOMAIN pend' = Node /\ DOMAIN todo' = Node
  BY <1>2, <1>3, <1>4
<1> QED BY <1>3, <1>5, <1>8, <1>9, <1>10, <1>11, <1>12, <1>13, TypeFromStill

\* What Verify keeps of the table of n, and what it closes.
Dups(n, late) == Marked(tbl[n], late)

Closed(n, late) ==
    {i \in DOMAIN tbl[n] :
        \/ tbl[n][i].fd = 0
        \/ i \in late
        \/ (tbl[n][i].shut \/ i \in Dups(n, late)) /\ conn[n][i].est}

LEMMA VerifyIs ==
    ASSUME TypeInv, NEW n \in Node, Verify(n)
    PROVE  /\ \E late :
                LET kept == DOMAIN tbl[n] \ Closed(n, late)
                IN  /\ tbl' = [tbl EXCEPT ![n] =
                          [i \in kept |->
                             IF i \in Dups(n, late)
                             THEN [tbl[n][i] EXCEPT !.shut = TRUE, !.reg = FALSE]
                             ELSE tbl[n][i]]]
                    /\ todo' = [todo EXCEPT ![n] = kept]
                    /\ Forget(n, Closed(n, late))
           /\ Still /\ UNCHANGED <<last, pend>>
BY DEF Verify, Closed, Dups, Still

LEMMA VerifyTyped ==
    ASSUME TypeInv, NEW n \in Node, Verify(n)
    PROVE  TypeInv'
<1>0. PICK late :
         LET kept == DOMAIN tbl[n] \ Closed(n, late)
         IN  /\ tbl' = [tbl EXCEPT ![n] =
                   [i \in kept |->
                      IF i \in Dups(n, late)
                      THEN [tbl[n][i] EXCEPT !.shut = TRUE, !.reg = FALSE]
                      ELSE tbl[n][i]]]
             /\ todo' = [todo EXCEPT ![n] = kept]
             /\ Forget(n, Closed(n, late))
  BY VerifyIs
<1> DEFINE kept == DOMAIN tbl[n] \ Closed(n, late)
<1>1. Still /\ UNCHANGED <<last, pend>>
  BY VerifyIs
<1>2. /\ DOMAIN tbl = Node /\ DOMAIN todo = Node /\ DOMAIN pend = Node
      /\ last \in [Node -> Nat]
  BY DEF TypeInv, TypeOK
<1>3. /\ DOMAIN tbl' = Node /\ DOMAIN todo' = Node
      /\ DOMAIN tbl'[n] = kept /\ todo'[n] = kept
      /\ \A i \in kept : tbl'[n][i] = IF i \in Dups(n, late)
                      THEN [tbl[n][i] EXCEPT !.shut = TRUE, !.reg = FALSE]
                      ELSE tbl[n][i]
      /\ \A k \in Node \ {n} : tbl'[k] = tbl[k] /\ todo'[k] = todo[k]
  BY <1>0, <1>2
<1>4. \A k \in Node : TableTyped(k)'
  <2>1. \A c \in Client(Key, {0, 1}, 0..9) :
           [c EXCEPT !.shut = TRUE, !.reg = FALSE] \in Client(Key, {0, 1}, 0..9)
    BY DEF Client
  <2>2. kept \subseteq DOMAIN tbl[n]
    OBVIOUS
  <2>3. \A i \in DOMAIN tbl[n] : tbl[n][i] \in Client(Key, {0, 1}, 0..9)
    BY ClientIs
  <2> HIDE DEF kept
  <2>4. \A i \in kept : tbl'[n][i] \in Client(Key, {0, 1}, 0..9)
    BY <1>3, <2>1, <2>2, <2>3
  <2>5. TableTyped(n)'
    BY <1>1, <1>3, <2>2, <2>4, TableFrom
  <2> QED BY <1>1, <1>3, <2>5, NotGrown, TableStays
<1>5. \A k \in Node : EndsTyped(k)'
  <2>1. Forget(n, Closed(n, late))
    BY <1>0
  <2>2. \A k \in Node : conn'[k] \in [1..last[k] -> Conn]
    BY <2>1, ForgetTyped
  <2> QED BY <1>1, <2>2, NotGrown DEF EndsTyped
<1>6. \A k \in Node : PendTyped(k)'
  BY <1>1, NotGrown, PendStays
<1>7. DOMAIN conn' = Node /\ DOMAIN pend' = Node
  <2>1. Forget(n, Closed(n, late))
    BY <1>0
  <2> QED BY <1>1, <1>2, <2>1, ForgetIs
<1>8. pc' \in [Node -> {"bcast", "socket", "verify", "request", "dead"}]
  BY PhaseTyped DEF Verify
<1> QED BY <1>1, <1>2, <1>3, <1>4, <1>5, <1>6, <1>7, <1>8, TypeFromStill

\* A frame taken: client t of n changes, if any, and answers are queued at n.
LEMMA TakeTypedFrom ==
    ASSUME TypeInv, NEW n \in Node, NEW i, Still, UNCHANGED <<last, pend>>,
           todo' = [todo EXCEPT ![n] = @ \ {i}],
           pc' \in [Node -> {"bcast", "socket", "verify", "request", "dead"}],
           NEW t, NEW c,
           \/ tbl' = tbl
           \/ /\ t \in DOMAIN tbl[n] /\ c \in Client(Key, {0, 1}, 0..9)
              /\ tbl' = [tbl EXCEPT ![n] = [tbl[n] EXCEPT ![t] = c]],
           NEW con, NEW e, DOMAIN con = Node,
           \A k \in Node : con[k] \in [1..last[k] -> Conn],
           \/ conn' = con
           \/ e \in [1..last[n] -> Conn] /\ conn' = [con EXCEPT ![n] = e]
    PROVE  TypeInv'
<1>1. /\ DOMAIN tbl = Node /\ DOMAIN todo = Node /\ DOMAIN pend = Node
      /\ last \in [Node -> Nat] /\ last' = last
  BY DEF TypeInv, TypeOK
<1>2. \A k \in Node : todo'[k] \subseteq todo[k]
  BY <1>1
<1>3. \A k \in Node : TableTyped(k)'
  <2>1. CASE tbl' = tbl
    BY <1>1, <1>2, <2>1, NotGrown, TableStays
  <2>2. CASE /\ t \in DOMAIN tbl[n] /\ c \in Client(Key, {0, 1}, 0..9)
             /\ tbl' = [tbl EXCEPT ![n] = [tbl[n] EXCEPT ![t] = c]]
    <3>1. tbl'[n] = [tbl[n] EXCEPT ![t] = c]
      BY <1>1, <2>2
    <3>2. /\ DOMAIN tbl'[n] = DOMAIN tbl[n]
          /\ \A k \in DOMAIN tbl[n] :
                tbl'[n][k] = IF k = t THEN c ELSE tbl[n][k]
      BY <3>1
    <3>3. todo'[n] \subseteq DOMAIN tbl[n]
      BY <1>2, NodeTyped DEF TableTyped
    <3>4. TableTyped(n)'
      BY <1>1, <2>2, <3>2, <3>3, ClientIs, TableFrom
    <3>5. \A k \in Node \ {n} : tbl'[k] = tbl[k]
      BY <2>2
    <3> QED BY <1>1, <1>2, <3>4, <3>5, NotGrown, TableStays
  <2> QED BY <2>1, <2>2
<1>4. \A k \in Node : EndsTyped(k)'
  <2>1. \A k \in Node : conn'[k] \in [1..last[k] -> Conn]
    OBVIOUS
  <2> QED BY <1>1, <2>1, NotGrown DEF EndsTyped
<1>5. \A k \in Node : PendTyped(k)'
  BY <1>1, NotGrown, PendStays
<1>6. /\ DOMAIN tbl' = Node /\ DOMAIN conn' = Node
      /\ DOMAIN pend' = Node /\ DOMAIN todo' = Node
  BY <1>1
<1> QED BY <1>1, <1>3, <1>4, <1>5, <1>6, TypeFromStill

\* The client the request pass visits.
LEMMA Visited ==
    ASSUME TypeInv, NEW n \in Node, NEW i \in First(todo[n])
    PROVE  i \in todo[n] /\ i \in DOMAIN tbl[n] /\ i \in 1..last[n]
BY NodeTyped DEF TableTyped, First

LEMMA VisitIs ==
    ASSUME TypeInv, NEW n \in Node, NEW i, Visit(n, i)
    PROVE  /\ Still /\ UNCHANGED <<last, pend>> /\ pc' = pc /\ pc[n] = "request"
           /\ todo' = [todo EXCEPT ![n] = @ \ {i}] /\ i \in First(todo[n])
           /\ pc' \in [Node -> {"bcast", "socket", "verify", "request", "dead"}]
BY DEF Visit, Still, TypeInv, TypeOK

LEMMA TakeSubTyped ==
    ASSUME TypeInv, NEW n \in Node, NEW i, TakeSub(n, i)
    PROVE  TypeInv'
<1>1. Visit(n, i) /\ Inbox(n, i) # <<>> /\ conn' = Taken(n, i) /\ tbl' = tbl
  BY DEF TakeSub
<1>2. i \in 1..last[n]
  BY <1>1, VisitIs, Visited
<1>3. /\ DOMAIN Taken(n, i) = Node
      /\ \A k \in Node : Taken(n, i)[k] \in [1..last[k] -> Conn]
  BY <1>1, <1>2, TakenIs
<1> QED BY <1>1, <1>3, VisitIs, TakeTypedFrom

LEMMA TakeNothingIs ==
    ASSUME TypeInv, NEW n \in Node, NEW i, TakeNothing(n, i)
    PROVE  /\ Still /\ UNCHANGED <<last, pend, tbl>> /\ pc[n] = "request"
           /\ todo' = [todo EXCEPT ![n] = @ \ {i}] /\ i \in First(todo[n])
           /\ Inbox(n, i) # <<>> /\ conn' = Taken(n, i)
           /\ pc' \in [Node -> {"bcast", "socket", "verify", "request", "dead"}]
<1>1. pc' \in [Node -> {"bcast", "socket", "verify", "request", "dead"}]
  BY DEF TakeNothing, TypeInv, TypeOK
<1> QED BY <1>1 DEF TakeNothing, Still, IsInit

LEMMA TakeNothingTyped ==
    ASSUME TypeInv, NEW n \in Node, NEW i, TakeNothing(n, i)
    PROVE  TypeInv'
<1>1. i \in 1..last[n]
  BY TakeNothingIs, Visited
<1>2. /\ DOMAIN Taken(n, i) = Node
      /\ \A k \in Node : Taken(n, i)[k] \in [1..last[k] -> Conn]
  BY <1>1, TakeNothingIs, TakenIs
<1> QED BY <1>2, TakeNothingIs, TakeTypedFrom

\* What TakeRegister does: t is the client it registers.
RegisterStep(n, i, t) ==
    LET new == [tbl[n] EXCEPT ![t] = Registered(@, Self)]
    IN  /\ t \in FindUnregistered(tbl[n], tbl[n][i].key)
        /\ tbl' = [tbl EXCEPT ![n] = new]
        /\ conn' = [Taken(n, i) EXCEPT
                      ![n] = Sent(Taken(n, i)[n], new, new[i].key, 1)]

LEMMA TakeRegisterIs ==
    ASSUME TypeInv, NEW n \in Node, NEW i, TakeRegister(n, i)
    PROVE  /\ Visit(n, i) /\ IsInit(n, i)
           /\ InitRegisters(tbl[n], i, Head(Inbox(n, i)))
           /\ \E t \in DOMAIN tbl[n] : RegisterStep(n, i, t)
<1>1. Visit(n, i) /\ IsInit(n, i)
  BY DEF TakeRegister
<1>2. PICK t : RegisterStep(n, i, t)
  <2>1. i \in 1..last[n]
    BY <1>1, VisitIs, Visited
  <2>2. DOMAIN Taken(n, i) = Node /\ DOMAIN tbl = Node
    BY <1>1, <2>1, TakenIs DEF IsInit, TypeInv
  <2> QED BY <2>2 DEF TakeRegister, RegisterStep
<1>3. t \in DOMAIN tbl[n]
  BY <1>2 DEF RegisterStep, FindUnregistered, First
<1> QED BY <1>1, <1>2, <1>3 DEF TakeRegister

LEMMA TakeRegisterTyped ==
    ASSUME TypeInv, NEW n \in Node, NEW i, TakeRegister(n, i)
    PROVE  TypeInv'
<1>1. Visit(n, i) /\ Inbox(n, i) # <<>> /\ i \in 1..last[n]
  BY TakeRegisterIs, VisitIs, Visited DEF IsInit
<1>2. PICK t \in DOMAIN tbl[n] : RegisterStep(n, i, t)
  BY TakeRegisterIs
<1>3. PICK new, e : /\ new = [tbl[n] EXCEPT ![t] = Registered(@, Self)]
                    /\ e = Sent(Taken(n, i)[n], new, new[i].key, 1)
  OBVIOUS
<1>4. /\ tbl' = [tbl EXCEPT ![n] =
                   [tbl[n] EXCEPT ![t] = Registered(tbl[n][t], Self)]]
      /\ conn' = [Taken(n, i) EXCEPT ![n] = e]
  BY <1>2, <1>3 DEF RegisterStep
<1>5. /\ DOMAIN Taken(n, i) = Node
      /\ \A k \in Node : Taken(n, i)[k] \in [1..last[k] -> Conn]
  BY <1>1, TakenIs
<1>6. e \in [1..last[n] -> Conn]
  <2>1. 1 \in Frame
    BY DEF Frame
  <2> QED BY <1>3, <1>5, <2>1, SentTyped
<1>7. Registered(tbl[n][t], Self) \in Client(Key, {0, 1}, 0..9)
  <2>1. Self \in Key
    BY DEF Key
  <2>2. tbl[n][t] \in Client(Key, {0, 1}, 0..9)
    BY ClientIs
  <2> QED BY <2>1, <2>2 DEF Registered, Client
<1> QED BY <1>1, <1>4, <1>5, <1>6, <1>7, VisitIs, TakeTypedFrom

\* What TakeAdvance does: t is the client that advances by frame s.
AdvanceStep(n, i, t, s) ==
    LET new == [tbl[n] EXCEPT ![t] = Advanced(@, s, Self)]
        e1  == IF s \in {4, 5}
               THEN Sent(Taken(n, i)[n], new, new[t].key, Sub)
               ELSE Taken(n, i)[n]
        e2  == IF InitReplies(s) THEN Sent(e1, new, new[i].key, s + 1) ELSE e1
    IN  /\ InitAdvances(tbl[n], i, s, t)
        /\ tbl' = [tbl EXCEPT ![n] = new]
        /\ conn' = [Taken(n, i) EXCEPT ![n] = e2]

LEMMA TakeAdvanceIs ==
    ASSUME TypeInv, NEW n \in Node, NEW i, TakeAdvance(n, i)
    PROVE  /\ Visit(n, i) /\ IsInit(n, i)
           /\ \E t \in DOMAIN tbl[n] : AdvanceStep(n, i, t, Head(Inbox(n, i)))
BY DEF TakeAdvance, AdvanceStep

\* The numbers of the handshake.
LEMMA NumberIs ==
    ASSUME TypeInv, NEW n \in Node, NEW i \in 1..last[n], IsInit(n, i)
    PROVE  Head(Inbox(n, i)) \in 0..8
BY InboxIs DEF IsInit, Frame

LEMMA TakeAdvanceTyped ==
    ASSUME TypeInv, NEW n \in Node, NEW i, TakeAdvance(n, i)
    PROVE  TypeInv'
<1>1. Visit(n, i) /\ IsInit(n, i) /\ Inbox(n, i) # <<>> /\ i \in 1..last[n]
  BY TakeAdvanceIs, VisitIs, Visited DEF IsInit
<1>2. PICK s : s = Head(Inbox(n, i))
  OBVIOUS
<1>3. PICK t \in DOMAIN tbl[n] : AdvanceStep(n, i, t, s)
  BY <1>2, TakeAdvanceIs
<1>4. PICK new : new = [tbl[n] EXCEPT ![t] = Advanced(@, s, Self)]
  OBVIOUS
<1>5. PICK e1 : e1 = IF s \in {4, 5}
                      THEN Sent(Taken(n, i)[n], new, new[t].key, Sub)
                      ELSE Taken(n, i)[n]
  OBVIOUS
<1>6. PICK e2 : e2 = IF InitReplies(s)
                      THEN Sent(e1, new, new[i].key, s + 1) ELSE e1
  OBVIOUS
<1>7. /\ tbl' = [tbl EXCEPT ![n] =
                   [tbl[n] EXCEPT ![t] = Advanced(tbl[n][t], s, Self)]]
      /\ conn' = [Taken(n, i) EXCEPT ![n] = e2]
  BY <1>3, <1>4, <1>5, <1>6 DEF AdvanceStep
<1>8. /\ DOMAIN Taken(n, i) = Node
      /\ \A k \in Node : Taken(n, i)[k] \in [1..last[k] -> Conn]
  BY <1>1, TakenIs
<1>9. e1 \in [1..last[n] -> Conn]
  <2>1. Sub \in Frame
    BY DEF Frame
  <2> QED BY <1>5, <1>8, <2>1, SentTyped
<1>10. e2 \in [1..last[n] -> Conn]
  <2>1. InitReplies(s) => s + 1 \in Frame
    BY DEF InitReplies, Frame
  <2> QED BY <1>6, <1>9, <2>1, SentTyped
<1>11. Advanced(tbl[n][t], s, Self) \in Client(Key, {0, 1}, 0..9)
  <2>1. Self \in Key
    BY DEF Key
  <2>2. s + 1 \in 0..9
    BY <1>1, <1>2, NumberIs
  <2>3. tbl[n][t] \in Client(Key, {0, 1}, 0..9)
    BY ClientIs
  <2> QED BY <2>1, <2>2, <2>3 DEF Advanced, Client
<1> QED BY <1>1, <1>7, <1>8, <1>10, <1>11, VisitIs, TakeTypedFrom

-----------------------------------------------------------------------------
\* What the daemons do that is not the start or the end of a process.
LEMMA LoopTyped ==
    ASSUME TypeInv, NEW n \in Node, Loop(n)
    PROVE  TypeInv'
BY WaitTyped, ConnectTyped, SocketTyped, AcceptTyped, VerifyTyped,
   TakeSubTyped, TakeRegisterTyped, TakeAdvanceTyped, TakeNothingTyped
   DEF Loop, Take

LEMMA TypeInit == Init => TypeInv
<1> SUFFICES ASSUME Init PROVE TypeInv
  OBVIOUS
<1>1. \A a, b \in Nat : a * b \in Nat /\ 0 \in 0..a * b
  OBVIOUS
<1>2. 0 \in 0..Interfaces * MaxBoots /\ 0 <= Interfaces * 0 /\ 0 \in 0..MaxBoots
  BY <1>1, HandshakeAssumption
<1>3. /\ up \in [Node -> BOOLEAN] /\ boots \in [Node -> 0..MaxBoots]
      /\ last \in [Node -> Nat]
      /\ ann \in [Node -> [Node -> 0..Interfaces * MaxBoots]]
      /\ pc \in [Node -> {"bcast", "socket", "verify", "request", "dead"}]
  BY <1>2 DEF Init
<1>4. ASSUME NEW n \in Node
      PROVE  /\ DOMAIN tbl[n] \subseteq 1..last[n]
             /\ \A i \in DOMAIN tbl[n] : tbl[n][i] \in Client(Key, {0, 1}, 0..9)
             /\ conn[n] \in [1..last[n] -> Conn]
             /\ pend[n] \in Seq(Ends)
             /\ todo[n] \subseteq DOMAIN tbl[n]
  <2>1. 1..0 = {} /\ last[n] = 0 /\ pend[n] = <<>> /\ todo[n] = {}
    BY DEF Init
  <2>2. tbl[n] = None /\ conn[n] = None /\ DOMAIN None = {}
    BY DEF Init, None
  <2>3. None \in [{} -> Conn]
    BY DEF None
  <2> QED BY <2>1, <2>2, <2>3
<1>5. /\ DOMAIN tbl = Node /\ DOMAIN conn = Node
      /\ DOMAIN pend = Node /\ DOMAIN todo = Node
      /\ \A m, n \in Node : ann[m][n] <= Interfaces * boots[n]
  BY <1>2 DEF Init
<1> QED BY <1>3, <1>4, <1>5 DEF TypeInv, TypeOK

LEMMA TypeStep == TypeInv /\ [Next]_vars => TypeInv'
<1> SUFFICES ASSUME TypeInv, [Next]_vars PROVE TypeInv'
  OBVIOUS
<1>1. CASE UNCHANGED vars
  BY <1>1, QuietTyped DEF vars, Still, TypeInv, TypeOK
<1>2. ASSUME NEW n \in Node, Boot(n) \/ Crash(n) \/ Loop(n)
      PROVE  TypeInv'
  BY <1>2, BootTyped, CrashTyped, LoopTyped
<1>3. ASSUME NEW n \in Node, NEW i \in 1..last[n], Establish(n, i)
      PROVE  TypeInv'
  BY <1>3, EstablishTyped
<1> QED BY <1>1, <1>2, <1>3 DEF Next

\* The state of daemons, tables, ends and backlogs keeps its types: what a
\* handler looks up (the far end of a client, the clients still to visit) is
\* an end or a client some daemon allocated.
THEOREM HandshakeTypeCorrect == Spec => []TypeOK
<1>1. TypeInv => TypeOK
  BY DEF TypeInv
<1> QED BY <1>1, TypeInit, TypeStep, PTL DEF Spec

-----------------------------------------------------------------------------
(* No daemon meets the null pointer.                                        *)
(*                                                                          *)
(* Number 2 is harmless for a client that is registered.  A client that is  *)
(* not is either a newcomer, an accepted connection whose first frame is    *)
(* still to be processed, or one marked for shutdown, and nothing arrives   *)
(* for that one.  So the invariant says of every end that was not accepted  *)
(* yet, and of the far end of every newcomer, that the first frame that     *)
(* will ever arrive is a 0.                                                  *)

\* The connection of end <<n, i>> is in the backlog of its far end.
Waits(n, i) ==
    \E k \in DOMAIN pend[conn[n][i].far[1]] :
        pend[conn[n][i].far[1]][k] = <<n, i>>

\* The next frame of <<n, i>> that is processed is a 0, and as long as the
\* client is there, there is such a frame.
Front(n, i) ==
    /\ conn[n][i].wire # <<>> => Head(conn[n][i].wire) = 0
    /\ (conn[n][i].wire = <<>> /\ conn[n][i].out # <<>>) =>
            Head(conn[n][i].out) = 0
    /\ i \in DOMAIN tbl[n] => (conn[n][i].wire # <<>> \/ conn[n][i].out # <<>>)

\* Ends that have a far end have each other; the others are still in front.
EndInv(n, i) ==
    LET m == conn[n][i].far[1]
        j == conn[n][i].far[2]
    IN  /\ m # n
        /\ j # 0 => (conn[n][i].est /\ conn[m][j].far = <<n, i>>)
        /\ ~ conn[n][i].est => conn[n][i].wire = <<>>
        /\ (j = 0 /\ (~ conn[n][i].est \/ Waits(n, i))) => Front(n, i)

\* A backlog holds established connections without a far end, each once.
PendInv(m) ==
    \A k \in DOMAIN pend[m] :
        /\ pend[m][k][2] # 0
        /\ conn[pend[m][k][1]][pend[m][k][2]].far = <<m, 0>>
        /\ conn[pend[m][k][1]][pend[m][k][2]].est
        /\ \A l \in DOMAIN pend[m] : pend[m][l] = pend[m][k] => l = k

\* Nothing was or will be sent through <<n, i>> as things are.
Silent(n, i) == conn[n][i].out = <<>> /\ conn[n][i].wire = <<>>

Newcomer(n, i) == ~ tbl[n][i].reg /\ ~ tbl[n][i].shut

\* The keys a client can have once it was registered.
Named == {Self} \union (Node \X {0})

\* A newcomer has the address of its far end as its key, was sent nothing, and
\* is yet to receive its first frame; what is marked for shutdown neither sent
\* nor receives anything, whatever becomes of its far end.
CliInv(n, i) ==
    LET m == conn[n][i].far[1]
        j == conn[n][i].far[2]
    IN  /\ tbl[n][i].kind = "net"
        /\ (tbl[n][i].reg \/ tbl[n][i].shut) => tbl[n][i].key \in Named
        /\ tbl[n][i].reg => ~ tbl[n][i].shut
        /\ Newcomer(n, i) => /\ tbl[n][i].key = conn[n][i].far /\ j # 0
                             /\ Silent(n, i) /\ Front(m, j)
        /\ (tbl[n][i].shut /\ pc[n] # "verify") =>
              /\ conn[n][i].wire = <<>>
              /\ j # 0 => /\ Silent(m, j)
                          /\ j \in DOMAIN tbl[m] => Newcomer(m, j)

\* A daemon that is down has no clients and no backlog.
DownInv(n) == ~ up[n] => DOMAIN tbl[n] = {} /\ pend[n] = <<>>

KnownInv ==
    /\ TypeInv
    /\ \A n \in Node :
          /\ pc[n] # "dead"
          /\ DownInv(n)
          /\ PendInv(n)
          /\ \A i \in 1..last[n] : EndInv(n, i)
          /\ \A i \in DOMAIN tbl[n] : CliInv(n, i)

\* What may happen to the frames of an end whose first frame is a 0: nothing,
\* one more is queued, the queue is written, or it is dropped with the client.
Moves(n, i) ==
    \/ /\ conn'[n][i].out = conn[n][i].out
       /\ conn'[n][i].wire = conn[n][i].wire
    \/ /\ i \in DOMAIN tbl[n]
       /\ conn'[n][i].wire = conn[n][i].wire
       /\ conn'[n][i].out # <<>>
       /\ conn[n][i].out # <<>> =>
            Head(conn'[n][i].out) = Head(conn[n][i].out)
    \/ /\ conn'[n][i].wire = conn[n][i].wire \o conn[n][i].out
       /\ conn'[n][i].out = <<>>
    \/ /\ conn'[n][i].wire = conn[n][i].wire
       /\ conn'[n][i].out = <<>>
       /\ i \notin DOMAIN tbl'[n]

LEMMA HeadOfBoth ==
    ASSUME NEW S, NEW s \in Seq(S), NEW t \in Seq(S)
    PROVE  /\ s # <<>> => Head(s \o t) = Head(s) /\ s \o t # <<>>
           /\ s = <<>> => s \o t = t
<1>1. CASE s = <<>>
  BY <1>1
<1>2. CASE s # <<>>
  <2>1. /\ Len(s) \in Nat /\ Len(s) > 0
        /\ Len(s \o t) = Len(s) + Len(t) /\ Len(t) \in Nat
    BY <1>2
  <2>2. (s \o t)[1] = s[1]
    BY <2>1
  <2>3. s \o t # <<>>
    BY <2>1
  <2> QED BY <1>2, <2>2, <2>3
<1> QED BY <1>1, <1>2

LEMMA FrontKept ==
    ASSUME TypeInv, NEW n \in Node, NEW i \in 1..last[n],
           Front(n, i), Moves(n, i), i \in DOMAIN tbl'[n] => i \in DOMAIN tbl[n]
    PROVE  Front(n, i)'
<1> DEFINE w == conn[n][i].wire
           o == conn[n][i].out
<1>1. w \in Seq(Frame) /\ o \in Seq(Frame)
  BY FarIs DEF Conn
<1>2. /\ w # <<>> => Head(w \o o) = Head(w) /\ w \o o # <<>>
      /\ w = <<>> => w \o o = o
  BY <1>1, HeadOfBoth
<1>3. CASE conn'[n][i].wire = w \o o /\ conn'[n][i].out = <<>>
  BY <1>1, <1>2, <1>3 DEF Front
<1>4. CASE conn'[n][i].out = o /\ conn'[n][i].wire = w
  BY <1>4 DEF Front
<1>5. CASE /\ i \in DOMAIN tbl[n] /\ conn'[n][i].wire = w
           /\ conn'[n][i].out # <<>>
           /\ o # <<>> => Head(conn'[n][i].out) = Head(o)
  BY <1>5 DEF Front
<1>6. CASE /\ conn'[n][i].wire = w /\ conn'[n][i].out = <<>>
           /\ i \notin DOMAIN tbl'[n]
  BY <1>6 DEF Front
<1> QED BY <1>3, <1>4, <1>5, <1>6 DEF Moves

LEMMA EndKept ==
    ASSUME TypeInv, NEW n \in Node, NEW i \in 1..last[n],
           NEW m, NEW j, conn[n][i].far = <<m, j>>, EndInv(n, i),
           conn'[n][i].far = <<m, j>>, conn'[n][i].est = conn[n][i].est,
           j # 0 => conn'[m][j].far = conn[m][j].far,
           ~ conn[n][i].est => conn'[n][i].wire \in {conn[n][i].wire, <<>>},
           (j = 0 /\ (~ conn[n][i].est \/ Waits(n, i)')) =>
                (~ conn[n][i].est \/ Waits(n, i)) /\ Moves(n, i),
           i \in DOMAIN tbl'[n] => i \in DOMAIN tbl[n]
    PROVE  EndInv(n, i)'
<1>1. (j = 0 /\ (~ conn[n][i].est \/ Waits(n, i)')) => Front(n, i)'
  BY FrontKept DEF EndInv
<1> QED BY <1>1 DEF EndInv

\* An entry of a backlog is an end.
LEMMA EntryIs ==
    ASSUME TypeInv, NEW m \in Node, NEW k \in DOMAIN pend[m]
    PROVE  /\ pend[m][k][1] \in Node
           /\ pend[m][k] = <<pend[m][k][1], pend[m][k][2]>>
           /\ pend[m][k][2] # 0 => pend[m][k][2] \in 1..last[pend[m][k][1]]
<1>1. pend[m][k] \in Ends
  BY NodeTyped DEF PendTyped
<1>2. \A n \in Node : last[n] \in Nat
  BY DEF TypeInv, TypeOK
<1> QED BY <1>1, <1>2, EndIs

LEMMA PendKept ==
    ASSUME TypeInv, NEW m \in Node, PendInv(m), pend'[m] = pend[m],
           \A a \in Node : \A b \in 1..last[a] :
              (conn[a][b].far = <<m, 0>> /\ conn[a][b].est) =>
                 conn'[a][b].far = conn[a][b].far /\ conn'[a][b].est
    PROVE  PendInv(m)'
<1>1. ASSUME NEW k \in DOMAIN pend[m]
      PROVE  /\ conn'[pend[m][k][1]][pend[m][k][2]].far = <<m, 0>>
             /\ conn'[pend[m][k][1]][pend[m][k][2]].est
  <2>1. PICK a, b : a = pend[m][k][1] /\ b = pend[m][k][2]
    OBVIOUS
  <2>2. /\ a \in Node /\ b \in 1..last[a]
        /\ conn[a][b].far = <<m, 0>> /\ conn[a][b].est
    BY <2>1, EntryIs DEF PendInv
  <2> QED BY <2>1, <2>2
<1>2. \A k \in DOMAIN pend[m] :
         pend[m][k][2] # 0
            /\ \A l \in DOMAIN pend[m] : pend[m][l] = pend[m][k] => l = k
  BY DEF PendInv
<1>3. PICK p : p = pend[m] /\ p = pend'[m]
  OBVIOUS
<1>4. \A k \in DOMAIN p :
         /\ p[k][2] # 0
         /\ conn'[p[k][1]][p[k][2]].far = <<m, 0>>
         /\ conn'[p[k][1]][p[k][2]].est
         /\ \A l \in DOMAIN p : p[l] = p[k] => l = k
  BY <1>1, <1>2, <1>3
<1> QED BY ONLY <1>3, <1>4 DEF PendInv

LEMMA CliKept ==
    ASSUME TypeInv, NEW n \in Node, NEW i \in DOMAIN tbl[n],
           NEW m, NEW j, conn[n][i].far = <<m, j>>, CliInv(n, i),
           conn'[n][i].far = <<m, j>>,
           /\ tbl'[n][i].kind = tbl[n][i].kind
           /\ tbl'[n][i].key = tbl[n][i].key
           /\ tbl'[n][i].reg = tbl[n][i].reg
           /\ tbl'[n][i].shut = tbl[n][i].shut,
           (Newcomer(n, i) /\ Silent(n, i) /\ Front(m, j)) =>
                Silent(n, i)' /\ Front(m, j)',
           tbl[n][i].shut =>
              \/ pc'[n] = "verify"
              \/ /\ pc[n] # "verify"
                 /\ conn[n][i].wire = <<>> => conn'[n][i].wire = <<>>
                 /\ (/\ j # 0 /\ conn[n][i].wire = <<>> /\ Silent(m, j)
                     /\ j \in DOMAIN tbl[m] => Newcomer(m, j)) =>
                       /\ Silent(m, j)'
                       /\ j \in DOMAIN tbl'[m] => Newcomer(m, j)'
    PROVE  CliInv(n, i)'
<1>1. Newcomer(n, i)' <=> Newcomer(n, i)
  BY DEF Newcomer
<1>2. Newcomer(n, i) => /\ tbl'[n][i].key = <<m, j>> /\ j # 0
                        /\ Silent(n, i)' /\ Front(m, j)'
  BY DEF CliInv
<1>3. (tbl[n][i].shut /\ pc'[n] # "verify") =>
          /\ conn'[n][i].wire = <<>>
          /\ j # 0 => /\ Silent(m, j)'
                      /\ j \in DOMAIN tbl'[m] => Newcomer(m, j)'
  BY DEF CliInv
<1>4. conn'[n][i].far[1] = m /\ conn'[n][i].far[2] = j
  OBVIOUS
<1> QED BY <1>1, <1>2, <1>3, <1>4 DEF CliInv

\* The parts of the invariant, for the ends and clients of one daemon.
LEMMA Known ==
    ASSUME KnownInv, NEW n \in Node
    PROVE  /\ TypeInv /\ pc[n] # "dead" /\ DownInv(n) /\ PendInv(n)
           /\ \A i \in 1..last[n] : EndInv(n, i)
           /\ \A i \in DOMAIN tbl[n] : CliInv(n, i) /\ i \in 1..last[n]
BY ClientIs DEF KnownInv

\* The far end of an end is one of another daemon; two ends have each other,
\* unless the connection was not accepted yet.
LEMMA Paired ==
    ASSUME KnownInv, NEW n \in Node, NEW i \in 1..last[n],
           NEW m, NEW j, conn[n][i].far = <<m, j>>
    PROVE  m \in Node /\ m # n /\ i # 0 /\ (j # 0 => j \in 1..last[m])
<1>1. m \in Node /\ (j # 0 => j \in 1..last[m])
  BY FarIs, Known
<1>2. EndInv(n, i) /\ i # 0
  <2>1. last[n] \in Nat
    BY DEF KnownInv, TypeInv, TypeOK
  <2> QED BY <2>1, Known
<1>3. conn[n][i].far[1] = m
  OBVIOUS
<1> QED BY <1>1, <1>2, <1>3 DEF EndInv

LEMMA FarEnd ==
    ASSUME KnownInv, NEW n \in Node, NEW i \in 1..last[n],
           NEW m, NEW j, conn[n][i].far = <<m, j>>, j # 0
    PROVE  /\ m \in Node /\ m # n /\ j \in 1..last[m] /\ i # 0
           /\ conn[m][j].far = <<n, i>>
           /\ conn[n][i].est /\ conn[m][j].est
<1>1. m \in Node /\ m # n /\ j \in 1..last[m] /\ i # 0
  BY Paired
<1>2. EndInv(n, i) /\ EndInv(m, j)
  BY <1>1, Known
<1>3. conn[n][i].far[1] = m /\ conn[n][i].far[2] = j
  OBVIOUS
<1>4. conn[n][i].est /\ conn[m][j].far = <<n, i>>
  BY <1>2, <1>3 DEF EndInv
<1>5. conn[m][j].far[1] = n /\ conn[m][j].far[2] = i
  BY <1>4
<1>6. conn[m][j].est
  BY <1>1, <1>2, <1>5 DEF EndInv
<1> QED BY <1>1, <1>4, <1>6

LEMMA FarBack ==
    ASSUME KnownInv, NEW n \in Node, NEW i \in 1..last[n],
           NEW m, NEW j, conn[n][i].far = <<m, j>>, j # 0
    PROVE  conn[m][j].far = <<n, i>>
BY FarEnd

LEMMA FarMade ==
    ASSUME KnownInv, NEW n \in Node, NEW i \in 1..last[n],
           NEW m, NEW j, conn[n][i].far = <<m, j>>, j # 0
    PROVE  conn[n][i].est /\ conn[m][j].est
BY FarEnd

\* The steps that touch no client, no frame and no backlog.
LEMMA QuietKnown ==
    ASSUME KnownInv, TypeInv', UNCHANGED <<tbl, last, conn, pend>>,
           \A k \in Node :
              /\ pc'[k] # "dead" /\ (up[k] => up'[k])
              /\ pc'[k] = pc[k] \/ pc[k] # "verify" \/ DOMAIN tbl[k] = {}
    PROVE  KnownInv'
<1>1. ASSUME NEW k \in Node
      PROVE  DownInv(k)' /\ PendInv(k)'
  BY Known DEF DownInv, PendInv
<1>2. ASSUME NEW k \in Node, NEW i \in 1..last[k]
      PROVE  EndInv(k, i)'
  <2>1. (Waits(k, i)' <=> Waits(k, i)) /\ (Front(k, i)' <=> Front(k, i))
    BY DEF Waits, Front
  <2>2. EndInv(k, i)
    BY Known
  <2> QED BY <2>1, <2>2 DEF EndInv
<1>3. ASSUME NEW k \in Node, NEW i \in DOMAIN tbl[k]
      PROVE  CliInv(k, i)'
  <2>1. CliInv(k, i) /\ (pc'[k] # "verify" => pc[k] # "verify")
    BY Known
  <2> QED BY <2>1 DEF CliInv, Newcomer, Silent, Front
<1> QED BY <1>1, <1>2, <1>3 DEF KnownInv

LEMMA PhaseIs ==
    ASSUME TypeInv, NEW n \in Node, NEW p, NEW q, Phase(n, p, q)
    PROVE  /\ up[n] /\ pc[n] = p /\ pc'[n] = q
           /\ \A k \in Node \ {n} : pc'[k] = pc[k]
BY DEF Phase, TypeInv, TypeOK

LEMMA WaitKnown ==
    ASSUME KnownInv, TypeInv', NEW n \in Node
    PROVE  /\ Boot(n) => KnownInv'
           /\ NoBroadcast(n) => KnownInv'
           /\ RequestDone(n) => KnownInv'
           /\ \A i : Skip(n, i) => KnownInv'
<1>0. /\ TypeInv /\ \A k \in Node : pc[k] # "dead"
  BY Known
<1>1. ASSUME Boot(n) PROVE KnownInv'
  <2>1. /\ UNCHANGED <<tbl, last, conn, pend>> /\ ~ up[n]
        /\ up' = [up EXCEPT ![n] = TRUE] /\ pc' = [pc EXCEPT ![n] = "bcast"]
    BY <1>1 DEF Boot
  <2>2. DOMAIN tbl[n] = {}
    BY <2>1, Known DEF DownInv
  <2>3. \A k \in Node :
           /\ pc'[k] # "dead" /\ (up[k] => up'[k])
           /\ pc'[k] = pc[k] \/ pc[k] # "verify" \/ DOMAIN tbl[k] = {}
    BY <1>0, <2>1, <2>2 DEF TypeInv, TypeOK
  <2> QED BY <2>1, <2>3, QuietKnown
<1>2. ASSUME NoBroadcast(n) PROVE KnownInv'
  <2>1. UNCHANGED <<tbl, last, conn, pend, up>> /\ Phase(n, "bcast", "socket")
    BY <1>2 DEF NoBroadcast
  <2> QED BY <1>0, <2>1, PhaseIs, QuietKnown
<1>3. ASSUME RequestDone(n) PROVE KnownInv'
  <2>1. UNCHANGED <<tbl, last, conn, pend, up>> /\ Phase(n, "request", "bcast")
    BY <1>3 DEF RequestDone
  <2> QED BY <1>0, <2>1, PhaseIs, QuietKnown
<1>4. ASSUME NEW i, Skip(n, i) PROVE KnownInv'
  <2>1. UNCHANGED <<tbl, last, conn, pend, up, pc>>
    BY <1>4 DEF Skip, Visit
  <2> QED BY <1>0, <2>1, QuietKnown
<1> QED BY <1>1, <1>2, <1>3, <1>4

-----------------------------------------------------------------------------
(* The backlogs.                                                            *)

LEMMA EntryKnown ==
    ASSUME KnownInv, NEW m \in Node, NEW k \in DOMAIN pend[m],
           NEW x, NEW y, pend[m][k] = <<x, y>>
    PROVE  /\ x \in Node /\ y \in 1..last[x] /\ y # 0
           /\ conn[x][y].far = <<m, 0>> /\ conn[x][y].est
<1>1. x = pend[m][k][1] /\ y = pend[m][k][2]
  OBVIOUS
<1>2. x \in Node /\ (y # 0 => y \in 1..last[x])
  BY <1>1, EntryIs, Known
<1>3. PendInv(m)
  BY Known
<1>4. y # 0 /\ conn[x][y].far = <<m, 0>> /\ conn[x][y].est
  BY <1>1, <1>3 DEF PendInv
<1> QED BY <1>2, <1>4

LEMMA EntryOnce ==
    ASSUME KnownInv, NEW m \in Node, NEW k \in DOMAIN pend[m],
           NEW l \in DOMAIN pend[m], pend[m][l] = pend[m][k]
    PROVE  l = k
BY Known DEF PendInv

LEMMA EntryPair ==
    ASSUME KnownInv, NEW m \in Node, NEW k \in DOMAIN pend[m]
    PROVE  \E x, y : pend[m][k] = <<x, y>>
BY EntryIs, Known

LEMMA BacklogFrom ==
    ASSUME NEW m, NEW p, p = pend'[m],
           \A k \in DOMAIN p : \E x, y :
              /\ p[k] = <<x, y>> /\ y # 0
              /\ conn'[x][y].far = <<m, 0>> /\ conn'[x][y].est
              /\ \A l \in DOMAIN p : p[l] = <<x, y>> => l = k
    PROVE  PendInv(m)'
<1>1. ASSUME NEW k \in DOMAIN p
      PROVE  /\ p[k][2] # 0
             /\ conn'[p[k][1]][p[k][2]].far = <<m, 0>>
             /\ conn'[p[k][1]][p[k][2]].est
             /\ \A l \in DOMAIN p : p[l] = p[k] => l = k
  <2>1. PICK x, y : /\ p[k] = <<x, y>> /\ y # 0
                    /\ conn'[x][y].far = <<m, 0>> /\ conn'[x][y].est
                    /\ \A l \in DOMAIN p : p[l] = <<x, y>> => l = k
    OBVIOUS
  <2>2. p[k][1] = x /\ p[k][2] = y
    BY <2>1
  <2> QED BY <2>1, <2>2
<1> QED BY <1>1 DEF PendInv

\* What it takes for a connection to be in a backlog.
LEMMA WaitsIs ==
    ASSUME NEW n, NEW i, NEW m, NEW j, conn[n][i].far = <<m, j>>
    PROVE  Waits(n, i) <=> \E k \in DOMAIN pend[m] : pend[m][k] = <<n, i>>
<1>1. conn[n][i].far[1] = m
  OBVIOUS
<1> QED BY <1>1 DEF Waits

LEMMA WaitsNext ==
    ASSUME NEW n, NEW i, NEW m, NEW j, conn'[n][i].far = <<m, j>>
    PROVE  Waits(n, i)' <=> \E k \in DOMAIN pend'[m] : pend'[m][k] = <<n, i>>
<1>1. conn'[n][i].far[1] = m
  OBVIOUS
<1> QED BY <1>1 DEF Waits

LEMMA EstablishKnown ==
    ASSUME KnownInv, TypeInv', NEW n \in Node, NEW i \in 1..last[n],
           Establish(n, i)
    PROVE  KnownInv'
<1>0. PICK m, j : conn[n][i].far = <<m, j>>
  BY FarIs, Known
<1>1. /\ m \in Node /\ m # n /\ up[m] /\ ~ conn[n][i].est /\ j = 0 /\ i # 0
      /\ conn' = [conn EXCEPT ![n][i].est = TRUE]
      /\ pend' = [pend EXCEPT ![m] = Append(@, <<n, i>>)]
      /\ UNCHANGED <<tbl, last, up, pc>>
  <2>1. conn[n][i].far[1] = m
    BY <1>0
  <2> QED BY <1>0, <2>1, Paired, FarEnd DEF Establish
<1>2. TypeInv /\ DOMAIN pend = Node
  BY Known DEF TypeInv
<1>3. \A k \in Node : \A l \in 1..last[k] :
         /\ conn'[k][l].far = conn[k][l].far
         /\ conn'[k][l].out = conn[k][l].out
         /\ conn'[k][l].wire = conn[k][l].wire
         /\ (k = n /\ l = i) => conn'[k][l].est
         /\ ~ (k = n /\ l = i) => conn'[k][l].est = conn[k][l].est
  <2>1. /\ DOMAIN conn = Node
        /\ \A k \in Node : \A l \in 1..last[k] : conn[k][l] \in Conn
        /\ \A k \in Node : DOMAIN conn[k] = 1..last[k]
    BY <1>2, NodeTyped DEF TypeInv, EndsTyped
  <2>2. ASSUME NEW k \in Node, NEW l \in 1..last[k]
        PROVE  conn'[k][l] = IF k = n /\ l = i
                             THEN [conn[n][i] EXCEPT !.est = TRUE] ELSE conn[k][l]
    BY <1>1, <2>1
  <2> QED BY <2>1, <2>2 DEF Conn
<1>4. pend[m] \in Seq(Ends)
  BY <1>1, <1>2, NodeTyped DEF PendTyped
<1>5. /\ Len(pend[m]) \in Nat /\ DOMAIN pend[m] = 1..Len(pend[m])
      /\ DOMAIN pend'[m] = 1..Len(pend[m]) + 1
      /\ pend'[m][Len(pend[m]) + 1] = <<n, i>>
      /\ \A k \in 1..Len(pend[m]) : pend'[m][k] = pend[m][k]
      /\ \A k \in Node \ {m} : pend'[k] = pend[k]
  <2>1. pend'[m] = Append(pend[m], <<n, i>>)
    BY <1>1, <1>2
  <2>2. \A k \in Node \ {m} : pend'[k] = pend[k]
    BY <1>1
  <2> QED BY <1>4, <2>1, <2>2
<1>6. \A k \in DOMAIN pend[m] : pend[m][k] # <<n, i>>
  <2>1. \A k \in DOMAIN pend[m] : conn[pend[m][k][1]][pend[m][k][2]].est
    BY <1>1, Known DEF PendInv
  <2> QED BY <1>1, <2>1
<1>7. ASSUME NEW k \in Node PROVE PendInv(k)'
  <2>1. CASE k # m
    BY <1>2, <1>3, <1>5, <2>1, Known, PendKept
  <2>2. CASE k = m
    <3> DEFINE p == pend'[m]
    <3>1. ASSUME NEW a \in DOMAIN p
          PROVE  \E x, y :
                    /\ p[a] = <<x, y>> /\ y # 0
                    /\ conn'[x][y].far = <<m, 0>> /\ conn'[x][y].est
                    /\ \A l \in DOMAIN p : p[l] = <<x, y>> => l = a
      <4>1. CASE a \in DOMAIN pend[m]
        <5>1. PICK x, y : pend[m][a] = <<x, y>>
          BY <1>1, <4>1, EntryPair
        <5>2. /\ x \in Node /\ y \in 1..last[x] /\ y # 0
              /\ conn[x][y].far = <<m, 0>> /\ conn[x][y].est
          BY <1>1, <4>1, <5>1, EntryKnown
        <5>3. conn'[x][y].far = <<m, 0>> /\ conn'[x][y].est
          BY <1>3, <5>2
        <5>4. p[a] = <<x, y>> /\ <<x, y>> # <<n, i>>
          BY <1>5, <1>6, <4>1, <5>1
        <5>5. ASSUME NEW l \in DOMAIN p, p[l] = <<x, y>>
              PROVE  l = a
          <6>1. l # Len(pend[m]) + 1
            BY <1>5, <5>4, <5>5
          <6>2. l \in DOMAIN pend[m] /\ pend[m][l] = <<x, y>>
            BY <1>5, <5>5, <6>1
          <6> QED BY <1>1, <4>1, <5>1, <6>2, EntryOnce
        <5> QED BY <5>2, <5>3, <5>4, <5>5
      <4>2. CASE a = Len(pend[m]) + 1
        <5>1. p[a] = <<n, i>> /\ conn'[n][i].far = <<m, 0>> /\ conn'[n][i].est
          BY <1>0, <1>1, <1>3, <1>5, <4>2
        <5>2. \A l \in DOMAIN p : p[l] = <<n, i>> => l = a
          BY <1>5, <1>6, <4>2
        <5> HIDE DEF p
        <5> QED BY <1>1, <5>1, <5>2
      <4> QED BY <1>5, <4>1, <4>2
    <3> QED BY <2>2, <3>1, BacklogFrom
  <2> QED BY <2>1, <2>2
<1>8. ASSUME NEW k \in Node, NEW l \in 1..last[k] PROVE EndInv(k, l)'
  <2>0. PICK a, b : conn[k][l].far = <<a, b>>
    BY <1>2, FarIs
  <2>1. CASE k = n /\ l = i
    <3>1. Front(n, i) /\ EndInv(n, i)
      BY <1>0, <1>1, Known DEF EndInv
    <3>2. Front(n, i)'
      BY <1>1, <1>3, <3>1 DEF Front
    <3>3. /\ conn'[n][i].far[1] = m /\ conn'[n][i].far[2] = 0
          /\ conn'[n][i].est /\ m # n
      <4>1. conn'[n][i].far = <<m, 0>>
        BY <1>0, <1>1, <1>3
      <4>2. conn'[n][i].est /\ m # n
        BY <1>1, <1>3
      <4> QED BY <4>1, <4>2
    <3> QED BY <2>1, <3>2, <3>3 DEF EndInv
  <2>2. CASE ~ (k = n /\ l = i)
    <3>1. Waits(k, l)' => Waits(k, l)
      <4>1. conn'[k][l].far = <<a, b>> /\ a \in Node /\ <<k, l>> # <<n, i>>
        BY <1>3, <2>0, <2>2, Paired
      <4>2. \A q \in DOMAIN pend'[a] : pend'[a][q] = <<k, l>> =>
               q \in DOMAIN pend[a] /\ pend[a][q] = <<k, l>>
        <5>1. CASE a = m
          <6>1. \A q \in DOMAIN pend'[m] :
                   q \in DOMAIN pend[m] \/ pend'[m][q] = <<n, i>>
            BY <1>5
          <6>2. \A q \in DOMAIN pend[m] : pend'[m][q] = pend[m][q]
            BY <1>5
          <6> QED BY <4>1, <5>1, <6>1, <6>2
        <5>2. CASE a # m
          <6>1. pend'[a] = pend[a]
            BY <1>5, <4>1, <5>2
          <6> QED BY <6>1
        <5> QED BY <5>1, <5>2
      <4>3. Waits(k, l)' => \E q \in DOMAIN pend[a] : pend[a][q] = <<k, l>>
        <5>1. conn'[k][l].far = <<a, b>>
          BY <4>1
        <5>2. Waits(k, l)' => \E q \in DOMAIN pend'[a] : pend'[a][q] = <<k, l>>
          BY ONLY <5>1, WaitsNext
        <5> QED BY <4>2, <5>2
      <4> QED BY <2>0, <4>3, WaitsIs
    <3>2. Moves(k, l) /\ EndInv(k, l)
      BY <1>3, Known DEF Moves
    <3>3. b # 0 => conn'[a][b].far = conn[a][b].far
      BY <1>3, <2>0, Paired
    <3>4. /\ conn'[k][l].far = <<a, b>> /\ conn'[k][l].est = conn[k][l].est
          /\ conn'[k][l].wire = conn[k][l].wire /\ tbl' = tbl
      BY <1>1, <1>3, <2>0, <2>2
    <3> QED BY <1>2, <2>0, <3>1, <3>2, <3>3, <3>4, EndKept
  <2> QED BY <2>1, <2>2
<1>9. ASSUME NEW k \in Node, NEW l \in DOMAIN tbl[k] PROVE CliInv(k, l)'
  <2>0. l \in 1..last[k] /\ CliInv(k, l)
    BY Known
  <2>1. PICK a, b : conn[k][l].far = <<a, b>>
    BY <1>2, <2>0, FarIs
  <2>2. a \in Node /\ (b # 0 => b \in 1..last[a])
    BY <2>0, <2>1, Paired
  <2>3. CASE b # 0
    <3>1. /\ Silent(k, l)' <=> Silent(k, l)
          /\ Silent(a, b)' <=> Silent(a, b)
          /\ Front(a, b)' <=> Front(a, b)
          /\ Newcomer(a, b)' <=> Newcomer(a, b)
      BY <1>1, <1>3, <2>0, <2>2, <2>3 DEF Silent, Front, Newcomer
    <3> QED BY <1>1, <1>2, <1>3, <2>0, <2>1, <3>1, CliKept
  <2>4. CASE b = 0
    <3>1. ~ Newcomer(k, l)
      BY <2>0, <2>1, <2>4 DEF CliInv
    <3> QED BY <1>1, <1>2, <1>3, <2>0, <2>1, <2>4, <3>1, CliKept
  <2> QED BY <2>3, <2>4
<1>10. ASSUME NEW k \in Node PROVE pc'[k] # "dead" /\ DownInv(k)'
  <2>1. k # m => pend'[k] = pend[k]
    BY <1>5
  <2> QED BY <1>1, <2>1, Known DEF DownInv
<1> QED BY <1>1, <1>7, <1>8, <1>9, <1>10 DEF KnownInv

-----------------------------------------------------------------------------
(* A daemon dies.                                                           *)

\* Nothing but the frames of an end is lost.
LEMMA ForgetAt ==
    ASSUME TypeInv, NEW n \in Node, NEW S, Forget(n, S),
           NEW k \in Node, NEW l \in 1..last[k]
    PROVE  conn'[k][l] =
              IF k = n /\ l \in S THEN [conn[k][l] EXCEPT !.out = <<>>]
              ELSE IF conn[k][l].est /\ conn[k][l].far \in {<<n, j>> : j \in S}
              THEN [conn[k][l] EXCEPT !.out = <<>>, !.wire = <<>>]
              ELSE conn[k][l]
<1>1. DOMAIN conn[k] = 1..last[k]
  BY NodeTyped DEF EndsTyped
<1> QED BY <1>1 DEF Forget

LEMMA ForgetKeeps ==
    ASSUME TypeInv, NEW n \in Node, NEW S, Forget(n, S),
           NEW k \in Node, NEW l \in 1..last[k]
    PROVE  /\ conn'[k][l].far = conn[k][l].far
           /\ conn'[k][l].est = conn[k][l].est
           /\ conn'[k][l].out \in {conn[k][l].out, <<>>}
           /\ conn'[k][l].wire \in {conn[k][l].wire, <<>>}
<1>1. conn[k][l] \in Conn
  BY FarIs
<1>2. \A c \in Conn :
         /\ [c EXCEPT !.out = <<>>].far = c.far
         /\ [c EXCEPT !.out = <<>>].est = c.est
         /\ [c EXCEPT !.out = <<>>].out = <<>>
         /\ [c EXCEPT !.out = <<>>].wire = c.wire
         /\ [c EXCEPT !.out = <<>>, !.wire = <<>>].far = c.far
         /\ [c EXCEPT !.out = <<>>, !.wire = <<>>].est = c.est
         /\ [c EXCEPT !.out = <<>>, !.wire = <<>>].out = <<>>
         /\ [c EXCEPT !.out = <<>>, !.wire = <<>>].wire = <<>>
  BY DEF Conn
<1>3. \/ conn'[k][l] = [conn[k][l] EXCEPT !.out = <<>>]
      \/ conn'[k][l] = [conn[k][l] EXCEPT !.out = <<>>, !.wire = <<>>]
      \/ conn'[k][l] = conn[k][l]
  BY ForgetAt
<1> QED BY <1>1, <1>2, <1>3

\* The ends of n in S are cut; what leads to an end of n in S is lost, if the
\* connection is established; everything else stays.
LEMMA ForgetCuts ==
    ASSUME TypeInv, NEW n \in Node, NEW S, Forget(n, S),
           NEW l \in 1..last[n], l \in S
    PROVE  conn'[n][l].out = <<>> /\ conn'[n][l].wire = conn[n][l].wire
<1>1. conn[n][l] \in Conn
  BY FarIs
<1>2. conn'[n][l] = [conn[n][l] EXCEPT !.out = <<>>]
  BY ForgetAt
<1> QED BY <1>1, <1>2 DEF Conn

LEMMA ForgetSame ==
    ASSUME TypeInv, NEW n \in Node, NEW S, Forget(n, S),
           NEW k \in Node, NEW l \in 1..last[k], ~ (k = n /\ l \in S),
           NEW a, NEW b, conn[k][l].far = <<a, b>>,
           ~ (a = n /\ b \in S /\ conn[k][l].est)
    PROVE  conn'[k][l] = conn[k][l]
<1>1. ~ (conn[k][l].est /\ conn[k][l].far \in {<<n, j>> : j \in S})
  OBVIOUS
<1>2. DOMAIN conn[k] = 1..last[k]
  BY NodeTyped DEF EndsTyped
<1>3. PICK P : P = (k = n /\ l \in S)
  OBVIOUS
<1>4. PICK Q : Q = (conn[k][l].est /\ conn[k][l].far \in {<<n, j>> : j \in S})
  OBVIOUS
<1>5. conn'[k][l] =
        IF P THEN [conn[k][l] EXCEPT !.out = <<>>]
        ELSE IF Q THEN [conn[k][l] EXCEPT !.out = <<>>, !.wire = <<>>]
        ELSE conn[k][l]
  BY <1>2, <1>3, <1>4 DEF Forget
<1>6. ~ P /\ ~ Q
  BY <1>1, <1>3, <1>4
<1> QED BY <1>5, <1>6

LEMMA CrashKnown ==
    ASSUME KnownInv, TypeInv', NEW n \in Node, Crash(n)
    PROVE  KnownInv'
<1> DEFINE S == DOMAIN tbl[n] \union {0}
<1>1. /\ TypeInv /\ Forget(n, S) /\ last' = last
      /\ \A k \in Node \ {n} :
            /\ tbl'[k] = tbl[k] /\ pend'[k] = pend[k]
            /\ pc'[k] = pc[k] /\ up'[k] = up[k]
      /\ DOMAIN tbl'[n] = {} /\ pend'[n] = <<>> /\ pc'[n] = "bcast"
  <2>1. TypeInv
    BY Known
  <2> QED BY <2>1 DEF Crash, TypeInv, TypeOK, None
<1> HIDE DEF S
<1>2. ASSUME NEW k \in Node
      PROVE  PendInv(k)'
  <2>1. CASE k = n
    <3>1. PICK p : p = <<>>
      OBVIOUS
    <3>2. DOMAIN p = {}
      BY <3>1
    <3>3. p = pend'[k]
      BY <1>1, <2>1, <3>1
    <3> QED BY <3>2, <3>3, BacklogFrom
  <2>2. CASE k # n
    BY <1>1, <2>2, ForgetKeeps, Known, PendKept
  <2> QED BY <2>1, <2>2
<1>3. ASSUME NEW k \in Node, NEW l \in 1..last[k]
      PROVE  EndInv(k, l)'
  <2>1. PICK a, b : conn[k][l].far = <<a, b>>
    BY <1>1, FarIs
  <2>2. a \in Node /\ a # k /\ l # 0 /\ (b # 0 => b \in 1..last[a])
    BY <2>1, Paired
  <2>3. /\ conn'[k][l].far = <<a, b>> /\ conn'[k][l].est = conn[k][l].est
        /\ b # 0 => conn'[a][b].far = conn[a][b].far
        /\ conn'[k][l].wire \in {conn[k][l].wire, <<>>}
    BY <1>1, <2>1, <2>2, ForgetKeeps
  <2>4. l \in DOMAIN tbl'[k] => l \in DOMAIN tbl[k]
    BY <1>1
  <2>5. ASSUME b = 0, ~ conn[k][l].est \/ Waits(k, l)'
        PROVE  (~ conn[k][l].est \/ Waits(k, l)) /\ Moves(k, l)
    <3>1. CASE a = n
      <4>1. ~ Waits(k, l)'
        <5>1. DOMAIN pend'[a] = {}
          BY <1>1, <3>1
        <5> QED BY <2>3, <5>1, WaitsNext
      <4>2. conn'[k][l].out = conn[k][l].out /\ conn'[k][l].wire = conn[k][l].wire
        <5>1. conn'[k][l] = conn[k][l]
          BY <1>1, <2>1, <2>2, <2>5, <3>1, <4>1, ForgetSame
        <5> QED BY <5>1
      <4> QED BY <2>5, <4>1, <4>2 DEF Moves
    <3>2. CASE a # n
      <4>1. pend'[a] = pend[a]
        BY <1>1, <2>2, <3>2
      <4>2. Waits(k, l)' => Waits(k, l)
        <5>1. conn'[k][l].far = <<a, b>>
          BY <2>3
        <5>2. Waits(k, l)' => \E q \in DOMAIN pend[a] : pend[a][q] = <<k, l>>
          BY ONLY <4>1, <5>1, WaitsNext
        <5> QED BY <2>1, <5>2, WaitsIs
      <4>3. CASE k = n /\ l \in S
        <5>1. l \notin DOMAIN tbl'[k]
          BY <1>1, <4>3
        <5>2. conn'[k][l].out = <<>> /\ conn'[k][l].wire = conn[k][l].wire
          BY <1>1, <4>3, ForgetCuts
        <5> QED BY <2>5, <4>2, <5>1, <5>2 DEF Moves
      <4>4. CASE ~ (k = n /\ l \in S)
        <5>1. conn'[k][l] = conn[k][l]
          BY <1>1, <2>1, <2>2, <3>2, <4>4, ForgetSame
        <5> QED BY <2>5, <4>2, <5>1 DEF Moves
      <4> QED BY <2>5, <4>2, <4>3, <4>4
    <3> QED BY <3>1, <3>2
  <2>6. EndInv(k, l)
    BY Known
  <2> QED BY <1>1, <2>1, <2>3, <2>4, <2>5, <2>6, EndKept
<1>4. ASSUME NEW k \in Node, NEW l \in DOMAIN tbl'[k]
      PROVE  CliInv(k, l)'
  <2>0. /\ k # n /\ l \in DOMAIN tbl[k] /\ tbl'[k] = tbl[k] /\ pc'[k] = pc[k]
        /\ l \in 1..last[k] /\ CliInv(k, l)
    BY <1>1, Known
  <2>1. PICK a, b : conn[k][l].far = <<a, b>>
    BY <1>1, <2>0, FarIs
  <2>2. a \in Node /\ a # k /\ (b # 0 => b \in 1..last[a])
    BY <2>0, <2>1, Paired
  <2>3. /\ conn'[k][l].far = <<a, b>>
        /\ conn'[k][l].out \in {conn[k][l].out, <<>>}
        /\ conn'[k][l].wire \in {conn[k][l].wire, <<>>}
        /\ b # 0 => /\ conn'[a][b].out \in {conn[a][b].out, <<>>}
                    /\ conn'[a][b].wire \in {conn[a][b].wire, <<>>}
    BY <1>1, <2>0, <2>1, <2>2, ForgetKeeps
  <2>4. ASSUME Newcomer(k, l), Silent(k, l), Front(a, b)
        PROVE  Silent(k, l)' /\ Front(a, b)'
    <3>1. b \in 1..last[a] /\ conn[a][b].far = <<k, l>>
      <4>1. b # 0
        BY <2>0, <2>1, <2>4 DEF CliInv
      <4>2. conn[a][b].far = <<k, l>>
        BY <2>0, <2>1, <4>1, FarBack
      <4> QED BY <2>2, <4>1, <4>2
    <3>2. Moves(a, b)
      <4>1. CASE a = n /\ b \in S
        <5>1. b \notin DOMAIN tbl'[a]
          BY <1>1, <4>1
        <5>2. conn'[a][b].out = <<>> /\ conn'[a][b].wire = conn[a][b].wire
          BY <1>1, <3>1, <4>1, ForgetCuts
        <5> QED BY <5>1, <5>2 DEF Moves
      <4>2. CASE ~ (a = n /\ b \in S)
        <5>1. conn'[a][b] = conn[a][b]
          BY <1>1, <2>0, <2>2, <3>1, <4>2, ForgetSame
        <5> QED BY <5>1 DEF Moves
      <4> QED BY <4>1, <4>2
    <3>3. b \in DOMAIN tbl'[a] => b \in DOMAIN tbl[a]
      BY <1>1, <2>2
    <3>4. Front(a, b)'
      BY <1>1, <2>2, <2>4, <3>1, <3>2, <3>3, FrontKept
    <3> QED BY <2>3, <2>4, <3>4 DEF Silent
  <2>5. ASSUME b # 0, Silent(a, b), b \in DOMAIN tbl[a] => Newcomer(a, b)
        PROVE  Silent(a, b)' /\ (b \in DOMAIN tbl'[a] => Newcomer(a, b)')
    <3>1. Silent(a, b)'
      BY <2>3, <2>5 DEF Silent
    <3>2. b \in DOMAIN tbl'[a] => b \in DOMAIN tbl[a] /\ tbl'[a] = tbl[a]
      BY <1>1, <2>2
    <3> QED BY <2>5, <3>1, <3>2 DEF Newcomer
  <2> QED BY <1>1, <2>0, <2>1, <2>3, <2>4, <2>5, CliKept
<1>5. ASSUME NEW k \in Node PROVE pc'[k] # "dead" /\ DownInv(k)'
  BY <1>1, Known DEF DownInv
<1> QED BY <1>1, <1>2, <1>3, <1>4, <1>5 DEF KnownInv

-----------------------------------------------------------------------------
(* A daemon closes and marks clients.                                       *)

\* A client marked for shutdown whose connection was never accepted.
LEMMA MarkedInv ==
    ASSUME NEW n, NEW i, NEW m, conn'[n][i].far = <<m, 0>>,
           tbl'[n][i].kind = "net", tbl'[n][i].key \in Named,
           ~ tbl'[n][i].reg, tbl'[n][i].shut, conn'[n][i].wire = <<>>
    PROVE  CliInv(n, i)'
<1>1. conn'[n][i].far[2] = 0
  OBVIOUS
<1> QED BY <1>1 DEF CliInv, Newcomer

\* Verify once more: S is closed, D is marked now.
LEMMA VerifyParts ==
    ASSUME TypeInv, NEW n \in Node, Verify(n)
    PROVE  \E S, D :
              /\ Forget(n, S) /\ S \subseteq DOMAIN tbl[n]
              /\ DOMAIN tbl'[n] = DOMAIN tbl[n] \ S
              /\ \A i \in DOMAIN tbl'[n] :
                    /\ i \in D => /\ tbl[n][i].reg /\ ~ conn[n][i].est
                                  /\ tbl'[n][i] = [tbl[n][i] EXCEPT !.shut = TRUE,
                                                                    !.reg = FALSE]
                    /\ i \notin D => tbl'[n][i] = tbl[n][i]
                    /\ tbl[n][i].shut => ~ conn[n][i].est
              /\ \A k \in Node \ {n} : tbl'[k] = tbl[k]
<1>1. PICK late :
         LET kept == DOMAIN tbl[n] \ Closed(n, late)
         IN  /\ tbl' = [tbl EXCEPT ![n] =
                   [i \in kept |->
                      IF i \in Dups(n, late)
                      THEN [tbl[n][i] EXCEPT !.shut = TRUE, !.reg = FALSE]
                      ELSE tbl[n][i]]]
             /\ todo' = [todo EXCEPT ![n] = kept]
             /\ Forget(n, Closed(n, late))
  BY VerifyIs
<1>2. PICK S, D : S = Closed(n, late) /\ D = Dups(n, late)
  OBVIOUS
<1>3. /\ Forget(n, S)
      /\ tbl' = [tbl EXCEPT ![n] = [i \in DOMAIN tbl[n] \ S |->
                      IF i \in D
                      THEN [tbl[n][i] EXCEPT !.shut = TRUE, !.reg = FALSE]
                      ELSE tbl[n][i]]]
  BY <1>1, <1>2
<1>4. /\ DOMAIN tbl'[n] = DOMAIN tbl[n] \ S
      /\ \A i \in DOMAIN tbl[n] \ S :
            tbl'[n][i] = IF i \in D
                         THEN [tbl[n][i] EXCEPT !.shut = TRUE, !.reg = FALSE]
                         ELSE tbl[n][i]
  BY <1>3 DEF TypeInv
<1>5. \A i \in D : tbl[n][i].reg
  BY <1>2 DEF Dups, Marked
<1>6. /\ S \subseteq DOMAIN tbl[n]
      /\ \A i \in DOMAIN tbl[n] \ S :
            /\ i \in D => ~ conn[n][i].est
            /\ tbl[n][i].shut => ~ conn[n][i].est
  BY <1>2 DEF Closed
<1>7. \A k \in Node \ {n} : tbl'[k] = tbl[k]
  BY <1>3 DEF TypeInv
<1>8. \A i \in DOMAIN tbl'[n] :
         /\ i \in D => /\ tbl[n][i].reg /\ ~ conn[n][i].est
                       /\ tbl'[n][i] = [tbl[n][i] EXCEPT !.shut = TRUE,
                                                         !.reg = FALSE]
         /\ i \notin D => tbl'[n][i] = tbl[n][i]
         /\ tbl[n][i].shut => ~ conn[n][i].est
  BY <1>5, <1>6, <1>4
<1>9. /\ Forget(n, S) /\ S \subseteq DOMAIN tbl[n]
      /\ DOMAIN tbl'[n] = DOMAIN tbl[n] \ S
  BY <1>3, <1>6, <1>4
<1> QED BY <1>7, <1>8, <1>9

LEMMA VerifyKnown ==
    ASSUME KnownInv, TypeInv', NEW n \in Node, Verify(n)
    PROVE  KnownInv'
<1>1. TypeInv
  BY Known
<1>2. PICK S, D :
         /\ Forget(n, S) /\ S \subseteq DOMAIN tbl[n]
         /\ DOMAIN tbl'[n] = DOMAIN tbl[n] \ S
         /\ \A i \in DOMAIN tbl'[n] :
               /\ i \in D => /\ tbl[n][i].reg /\ ~ conn[n][i].est
                             /\ tbl'[n][i] = [tbl[n][i] EXCEPT !.shut = TRUE,
                                                               !.reg = FALSE]
               /\ i \notin D => tbl'[n][i] = tbl[n][i]
               /\ tbl[n][i].shut => ~ conn[n][i].est
         /\ \A k \in Node \ {n} : tbl'[k] = tbl[k]
  BY <1>1, VerifyParts
<1>3. Forget(n, S)
  BY <1>2
<1>4. /\ last' = last /\ pend' = pend /\ up' = up
      /\ \A k \in Node \ {n} : tbl'[k] = tbl[k] /\ pc'[k] = pc[k]
      /\ up[n] /\ pc[n] = "verify" /\ pc'[n] = "request"
      /\ S \subseteq 1..last[n] /\ 0 \notin S
  <2>1. S \subseteq 1..last[n] /\ last[n] \in Nat
    BY <1>1, <1>2, NodeTyped DEF TableTyped, TypeInv, TypeOK
  <2>2. Phase(n, "verify", "request") /\ UNCHANGED <<up, last, pend>>
    BY DEF Verify
  <2>3. \A k \in Node \ {n} : tbl'[k] = tbl[k]
    BY <1>2
  <2> QED BY <1>1, <2>1, <2>2, <2>3, PhaseIs
<1>5. ASSUME NEW k \in Node
      PROVE  PendInv(k)' /\ pc'[k] # "dead" /\ DownInv(k)'
  <2>1. PendInv(k)'
    BY <1>1, <1>4, <1>3, ForgetKeeps, Known, PendKept
  <2> QED BY <1>4, <2>1, Known DEF DownInv
<1>6. ASSUME NEW k \in Node, NEW l \in 1..last[k]
      PROVE  EndInv(k, l)'
  <2>1. PICK a, b : conn[k][l].far = <<a, b>>
    BY <1>1, FarIs
  <2>2. a \in Node /\ a # k /\ l # 0 /\ (b # 0 => b \in 1..last[a])
    BY <2>1, Paired
  <2>3. /\ conn'[k][l].far = <<a, b>> /\ conn'[k][l].est = conn[k][l].est
        /\ b # 0 => conn'[a][b].far = conn[a][b].far
        /\ conn'[k][l].wire \in {conn[k][l].wire, <<>>}
    BY <1>1, <1>2, <2>1, <2>2, ForgetKeeps
  <2>4. l \in DOMAIN tbl'[k] => l \in DOMAIN tbl[k]
    BY <1>2, <1>4
  <2>5. ASSUME b = 0, ~ conn[k][l].est \/ Waits(k, l)'
        PROVE  (~ conn[k][l].est \/ Waits(k, l)) /\ Moves(k, l)
    <3>1. Waits(k, l)' => Waits(k, l)
      <4>1. conn'[k][l].far = <<a, b>>
        BY <2>3
      <4>2. Waits(k, l)' => \E q \in DOMAIN pend[a] : pend[a][q] = <<k, l>>
        BY <1>4, <4>1, WaitsNext
      <4> QED BY <2>1, <4>2, WaitsIs
    <3>2. CASE k = n /\ l \in S
      <4>1. l \notin DOMAIN tbl'[k]
        BY <1>2, <3>2
      <4>2. conn'[k][l].out = <<>> /\ conn'[k][l].wire = conn[k][l].wire
        BY <1>1, <1>4, <1>3, <3>2, ForgetCuts
      <4> QED BY <2>5, <3>1, <4>1, <4>2 DEF Moves
    <3>3. CASE ~ (k = n /\ l \in S)
      <4>1. conn'[k][l] = conn[k][l]
        BY <1>1, <1>3, <1>4, <2>1, <2>2, <2>5, <3>3, ForgetSame
      <4> QED BY <2>5, <3>1, <4>1 DEF Moves
    <3> QED BY <3>2, <3>3
  <2>6. EndInv(k, l)
    BY Known
  <2> QED BY <1>1, <2>1, <2>3, <2>4, <2>5, <2>6, EndKept
<1>7. ASSUME NEW k \in Node, NEW l \in DOMAIN tbl'[k]
      PROVE  CliInv(k, l)'
  <2>1. l \in DOMAIN tbl[k] /\ l \in 1..last[k] /\ CliInv(k, l) /\ EndInv(k, l)
    BY <1>2, <1>4, Known
  <2>2. PICK a, b : conn[k][l].far = <<a, b>>
    BY <1>1, <2>1, FarIs
  <2>3. a \in Node /\ a # k /\ (b # 0 => b \in 1..last[a])
    BY <2>1, <2>2, Paired
  <2>4. /\ conn'[k][l].far = <<a, b>>
        /\ conn'[k][l].out \in {conn[k][l].out, <<>>}
        /\ conn'[k][l].wire \in {conn[k][l].wire, <<>>}
        /\ b # 0 => /\ conn'[a][b].out \in {conn[a][b].out, <<>>}
                    /\ conn'[a][b].wire \in {conn[a][b].wire, <<>>}
    BY <1>1, <1>2, <2>1, <2>2, <2>3, ForgetKeeps
  <2>5. ASSUME Newcomer(k, l), Silent(k, l), Front(a, b)
        PROVE  Silent(k, l)' /\ Front(a, b)'
    <3>1. b \in 1..last[a] /\ conn[a][b].far = <<k, l>>
      <4>1. b # 0
        BY <2>1, <2>2, <2>5 DEF CliInv
      <4>2. conn[a][b].far = <<k, l>>
        BY ONLY KnownInv, k \in Node, <2>1, <2>2, <4>1, FarBack
      <4> QED BY <2>3, <4>1, <4>2
    <3>2. Moves(a, b)
      <4>1. CASE a = n /\ b \in S
        <5>1. b \notin DOMAIN tbl'[a]
          BY <1>2, <4>1
        <5>2. conn'[a][b].out = <<>> /\ conn'[a][b].wire = conn[a][b].wire
          BY <1>1, <1>3, <3>1, <4>1, ForgetCuts
        <5> QED BY <5>1, <5>2 DEF Moves
      <4>2. CASE ~ (a = n /\ b \in S)
        <5>1. ~ (k = n /\ l \in S)
          BY <1>2
        <5>2. conn'[a][b] = conn[a][b]
          BY <1>1, <1>3, <2>3, <3>1, <4>2, <5>1, ForgetSame
        <5> QED BY <5>2 DEF Moves
      <4> QED BY <4>1, <4>2
    <3>3. b \in DOMAIN tbl'[a] => b \in DOMAIN tbl[a]
      BY <1>2, <1>4, <2>3
    <3>4. Front(a, b)'
      BY <1>1, <2>3, <2>5, <3>1, <3>2, <3>3, FrontKept
    <3> QED BY <2>4, <2>5, <3>4 DEF Silent
  <2>6. ASSUME k = n, ~ conn[n][l].est, tbl'[n][l].shut, ~ tbl'[n][l].reg,
               tbl'[n][l].kind = tbl[n][l].kind, tbl'[n][l].key = tbl[n][l].key,
               tbl[n][l].reg \/ tbl[n][l].shut
        PROVE  CliInv(k, l)'
    <3>1. b = 0
      BY <2>1, <2>2, <2>6, FarMade
    <3>2. conn[k][l].wire = <<>>
      BY <2>1, <2>6 DEF EndInv
    <3>3. conn'[k][l].wire = <<>>
      BY <2>4, <3>2
    <3>4. tbl'[k][l].kind = "net" /\ tbl'[k][l].key \in Named
      BY <2>1, <2>6 DEF CliInv
    <3> QED BY <2>4, <2>6, <3>1, <3>3, <3>4, MarkedInv
  <2>7. CASE k = n /\ l \in D
    <3>1. /\ tbl[n][l].reg /\ ~ conn[n][l].est
          /\ tbl'[n][l] = [tbl[n][l] EXCEPT !.shut = TRUE, !.reg = FALSE]
      BY <1>2, <2>7
    <3>2. tbl[n][l] \in Client(Key, {0, 1}, 0..9)
      BY <1>1, <2>1, <2>7, ClientIs
    <3>3. /\ tbl'[n][l].shut /\ ~ tbl'[n][l].reg
          /\ tbl'[n][l].kind = tbl[n][l].kind /\ tbl'[n][l].key = tbl[n][l].key
      BY <3>1, <3>2 DEF Client
    <3> QED BY <2>6, <2>7, <3>1, <3>3
  <2>8. CASE k = n /\ l \notin D
    <3>1. /\ tbl'[k][l] = tbl[k][l]
          /\ tbl[k][l].shut => ~ conn[k][l].est
      BY <1>2, <2>8
    <3>2. CASE tbl[k][l].shut
      BY <2>1, <2>6, <2>8, <3>1, <3>2 DEF CliInv
    <3>3. CASE ~ tbl[k][l].shut
      BY <1>1, <2>1, <2>2, <2>4, <2>5, <3>1, <3>3, CliKept
    <3> QED BY <3>2, <3>3
  <2>9. CASE k # n
    <3>1. tbl'[k] = tbl[k] /\ pc'[k] = pc[k]
      BY <1>4, <2>9
    <3>2. ASSUME b # 0, Silent(a, b), b \in DOMAIN tbl[a] => Newcomer(a, b)
          PROVE  Silent(a, b)' /\ (b \in DOMAIN tbl'[a] => Newcomer(a, b)')
      <4>1. Silent(a, b)'
        BY <2>4, <3>2 DEF Silent
      <4>2. CASE a = n
        BY <1>2, <3>2, <4>1, <4>2 DEF Newcomer
      <4>3. CASE a # n
        <5>1. tbl'[a] = tbl[a]
          BY <1>4, <2>3, <4>3
        <5> QED BY <3>2, <4>1, <5>1 DEF Newcomer
      <4> QED BY <4>2, <4>3
    <3> QED BY <1>1, <2>1, <2>2, <2>4, <2>5, <3>1, <3>2, CliKept
  <2> QED BY <2>7, <2>8, <2>9
<1> QED BY <1>4, <1>5, <1>6, <1>7 DEF KnownInv

-----------------------------------------------------------------------------
(* A daemon connects.                                                       *)

\* A frame sunk to a key that a client has goes to the clients with that key.
LEMMA Recipients ==
    ASSUME NEW t, NEW sink, sink # Blank, NEW i \in DOMAIN t,
           t[i].kind = "net", t[i].key = sink
    PROVE  /\ i \in NetRecipients(t, sink, Blank)
           /\ \A l \in NetRecipients(t, sink, Blank) :
                 l \in DOMAIN t /\ t[l].key = sink
BY DEF NetRecipients

\* No answer is sunk to the key of a newcomer.
LEMMA NewcomerKey ==
    ASSUME KnownInv, NEW n \in Node, NEW i \in DOMAIN tbl[n], Newcomer(n, i)
    PROVE  /\ tbl[n][i].key = conn[n][i].far
           /\ tbl[n][i].key \notin Named
           /\ conn[n][i].far[2] # 0 /\ Silent(n, i)
           /\ Front(conn[n][i].far[1], conn[n][i].far[2])
<1>1. CliInv(n, i) /\ i \in 1..last[n] /\ TypeInv
  BY Known
<1>2. /\ tbl[n][i].key = conn[n][i].far /\ conn[n][i].far[2] # 0
      /\ Silent(n, i) /\ Front(conn[n][i].far[1], conn[n][i].far[2])
  BY <1>1 DEF CliInv
<1>3. PICK m, j : conn[n][i].far = <<m, j>>
  BY <1>1, FarIs
<1>4. m \in Node /\ j # 0 /\ j \in 1..last[m] /\ last[m] \in Nat
  <2>1. j # 0
    BY <1>2, <1>3
  <2> QED BY <1>1, <1>3, <2>1, Paired DEF TypeInv, TypeOK
<1>5. <<m, j>> \in Node \X Nat
  BY <1>4
<1>6. <<m, j>> # Self /\ <<m, j>> \notin Node \X {0}
  BY <1>4, <1>5, HandshakeAssumption
<1> QED BY <1>2, <1>3, <1>6 DEF Named

LEMMA NamedIs == Blank \notin Named
<1>1. Named \subseteq {Self} \union (Node \X Nat)
  BY DEF Named
<1> QED BY <1>1, HandshakeAssumption

\* What a frame at the end of a queue means for its head.
LEMMA AppendKeeps ==
    ASSUME NEW S, NEW s \in Seq(S), NEW f \in S
    PROVE  /\ Append(s, f) # <<>>
           /\ s # <<>> => Head(Append(s, f)) = Head(s)
           /\ s = <<>> => Head(Append(s, f)) = f
<1>1. Len(Append(s, f)) = Len(s) + 1 /\ Len(s) \in Nat
  OBVIOUS
<1>2. Append(s, f) # <<>>
  BY <1>1
<1>3. CASE s = <<>>
  BY <1>2, <1>3
<1>4. CASE s # <<>>
  <2>1. Len(s) > 0
    BY <1>4
  <2>2. Append(s, f)[1] = s[1]
    BY <2>1
  <2> QED BY <1>2, <1>4, <2>2
<1> QED BY <1>3, <1>4

\* The frames of <<n, l>>: as they were, or with one more in the queue.
Queued(n, l) ==
    /\ conn'[n][l].far = conn[n][l].far
    /\ conn'[n][l].est = conn[n][l].est
    /\ conn'[n][l].wire = conn[n][l].wire
    /\ \/ conn'[n][l].out = conn[n][l].out
       \/ /\ l \in DOMAIN tbl[n] /\ ~ Newcomer(n, l)
          /\ conn'[n][l].out # <<>>
          /\ conn[n][l].out # <<>> =>
               Head(conn'[n][l].out) = Head(conn[n][l].out)

\* What Connect(n, m) does to ends and clients; i is the new client.
Connected(n, m, i) ==
    /\ \A k \in Node \ {n} : conn'[k] = conn[k] /\ tbl'[k] = tbl[k]
    /\ \A l \in 1..last[n] : Queued(n, l)
    /\ conn'[n][i].far = <<m, 0>> /\ ~ conn'[n][i].est
    /\ conn'[n][i].out = <<0>> /\ conn'[n][i].wire = <<>>
    /\ DOMAIN tbl'[n] = DOMAIN tbl[n] \union {i}
    /\ \A l \in DOMAIN tbl[n] : tbl'[n][l] = tbl[n][l]
    /\ tbl'[n][i] = OutgoingClient(<<m, 0>>, 1)

LEMMA ConnectParts ==
    ASSUME KnownInv, NEW n \in Node, NEW m \in Node, Connect(n, m),
           NEW i, i = last[n] + 1
    PROVE  Connected(n, m, i)
<1>1. TypeInv /\ DOMAIN tbl = Node /\ DOMAIN conn = Node /\ last[n] \in Nat
  BY Known DEF TypeInv, TypeOK
<1>2. PICK c : c = OutgoingClient(<<m, 0>>, 1)
  OBVIOUS
<1>3. PICK d : d = NewEnd(<<m, 0>>, FALSE)
  OBVIOUS
<1>4. PICK t : t = Push(tbl[n], i, c)
  OBVIOUS
<1>5. PICK e : e = Push(conn[n], i, d)
  OBVIOUS
<1>6. PICK R : R = NetRecipients(t, <<m, 0>>, Blank)
  OBVIOUS
<1>7. /\ tbl' = [tbl EXCEPT ![n] = t]
      /\ conn' = [conn EXCEPT ![n] = Sent(e, t, <<m, 0>>, 0)]
  BY <1>1, <1>2, <1>3, <1>4, <1>5, ConnectIs
<1>8. i \notin 1..last[n] /\ DOMAIN tbl[n] \subseteq 1..last[n]
      /\ DOMAIN conn[n] = 1..last[n]
  BY <1>1, NodeTyped DEF TableTyped, EndsTyped
<1>9. /\ DOMAIN t = DOMAIN tbl[n] \union {i}
      /\ t[i] = OutgoingClient(<<m, 0>>, 1)
      /\ \A l \in DOMAIN tbl[n] : t[l] = tbl[n][l]
  <2>1. \A l \in DOMAIN tbl[n] : l # i
    BY <1>8
  <2>2. \A l \in DOMAIN tbl[n] : t[l] = tbl[n][l]
    BY <1>4, <2>1, PushOld
  <2>3. DOMAIN t = DOMAIN tbl[n] \union {i}
    BY <1>4, PushDomain
  <2>4. t[i] = c
    BY <1>4, PushNew
  <2> QED BY <1>2, <2>2, <2>3, <2>4
<1>10. /\ DOMAIN e = 1..last[n] \union {i}
       /\ e[i] = [far |-> <<m, 0>>, est |-> FALSE, out |-> <<>>, wire |-> <<>>]
       /\ \A l \in 1..last[n] : e[l] = conn[n][l]
  <2>1. \A l \in 1..last[n] : l # i
    BY <1>8
  <2>2. \A l \in 1..last[n] : e[l] = conn[n][l]
    <3>1. \A l \in DOMAIN conn[n] : l # i => e[l] = conn[n][l]
      BY <1>5, PushOld
    <3> QED BY <1>8, <2>1, <3>1
  <2>3. e[i] = d
    BY <1>5, PushNew
  <2>4. DOMAIN e = 1..last[n] \union {i}
    BY <1>5, <1>8, PushDomain
  <2> QED BY <1>3, <2>2, <2>3, <2>4 DEF NewEnd
<1>11. i \in R /\ \A l \in R : l \in DOMAIN t /\ t[l].key = <<m, 0>>
  <2>1. <<m, 0>> # Blank
    <3>1. <<m, 0>> \in Named
      BY DEF Named
    <3> QED BY <3>1, NamedIs
  <2>2. i \in DOMAIN t /\ t[i].kind = "net" /\ t[i].key = <<m, 0>>
    BY <1>9 DEF OutgoingClient
  <2> QED BY <1>6, <2>1, <2>2, Recipients
<1>12. \A l \in DOMAIN e :
         conn'[n][l] = IF l \in R THEN [e[l] EXCEPT !.out = Append(@, 0)]
                       ELSE e[l]
  <2>1. conn'[n] = Sent(e, t, <<m, 0>>, 0)
    BY <1>1, <1>7
  <2>2. ASSUME NEW l \in DOMAIN e
        PROVE  Sent(e, t, <<m, 0>>, 0)[l] =
                  IF l \in NetRecipients(t, <<m, 0>>, Blank)
                  THEN [e[l] EXCEPT !.out = Append(@, 0)] ELSE e[l]
    BY DEF Sent
  <2> QED BY <1>6, <2>1, <2>2
<1>13. /\ conn'[n][i].far = <<m, 0>> /\ ~ conn'[n][i].est
       /\ conn'[n][i].out = <<0>> /\ conn'[n][i].wire = <<>>
  <2>1. conn'[n][i] = [e[i] EXCEPT !.out = Append(@, 0)]
    BY <1>10, <1>11, <1>12
  <2>2. Append(<<>>, 0) = <<0>>
    OBVIOUS
  <2> QED BY <1>10, <2>1, <2>2
<1>14. ASSUME NEW l \in 1..last[n]
       PROVE  Queued(n, l)
  <2>1. conn[n][l] \in Conn /\ 0 \in Frame
    BY <1>1, FarIs DEF Frame
  <2>2. CASE l \in R
    <3>1. conn'[n][l] = [conn[n][l] EXCEPT !.out = Append(@, 0)]
      BY <1>10, <1>12, <2>2
    <3>2. conn[n][l].out \in Seq(Frame)
      BY <2>1 DEF Conn
    <3>3. /\ Append(conn[n][l].out, 0) # <<>>
          /\ conn[n][l].out # <<>> =>
               Head(Append(conn[n][l].out, 0)) = Head(conn[n][l].out)
      BY <2>1, <3>2, AppendKeeps
    <3>4. /\ conn'[n][l].far = conn[n][l].far
          /\ conn'[n][l].est = conn[n][l].est
          /\ conn'[n][l].wire = conn[n][l].wire
          /\ conn'[n][l].out = Append(conn[n][l].out, 0)
      BY <2>1, <3>1 DEF Conn
    <3>5. l \in DOMAIN tbl[n] /\ tbl[n][l].key \in Named
      BY <1>8, <1>9, <1>11, <2>2 DEF Named
    <3>6. ~ Newcomer(n, l)
      BY <3>5, NewcomerKey
    <3> QED BY <3>3, <3>4, <3>5, <3>6 DEF Queued
  <2>3. CASE l \notin R
    <3>1. conn'[n][l] = conn[n][l]
      BY <1>10, <1>12, <2>3
    <3> QED BY <3>1 DEF Queued
  <2> QED BY <2>2, <2>3
<1>15. /\ tbl'[n] = t
       /\ \A k \in Node \ {n} : conn'[k] = conn[k] /\ tbl'[k] = tbl[k]
  BY <1>1, <1>7
<1> QED BY <1>9, <1>13, <1>14, <1>15 DEF Connected

LEMMA QueuedMoves ==
    ASSUME NEW n, NEW l, Queued(n, l)
    PROVE  /\ Moves(n, l)
           /\ Newcomer(n, l) =>
                /\ conn'[n][l].out = conn[n][l].out
                /\ conn'[n][l].wire = conn[n][l].wire
BY DEF Queued, Moves

LEMMA ConnectKnown ==
    ASSUME KnownInv, TypeInv', NEW n \in Node, NEW m \in Node \ {n}, Connect(n, m)
    PROVE  KnownInv'
<1>0. TypeInv /\ last[n] \in Nat
  BY Known DEF TypeInv, TypeOK
<1>1. PICK i : i = last[n] + 1
  OBVIOUS
<1>2. /\ \A k \in Node \ {n} : conn'[k] = conn[k] /\ tbl'[k] = tbl[k]
      /\ \A l \in 1..last[n] : Queued(n, l)
      /\ conn'[n][i].far = <<m, 0>> /\ ~ conn'[n][i].est
      /\ conn'[n][i].out = <<0>> /\ conn'[n][i].wire = <<>>
      /\ DOMAIN tbl'[n] = DOMAIN tbl[n] \union {i}
      /\ \A l \in DOMAIN tbl[n] : tbl'[n][l] = tbl[n][l]
      /\ tbl'[n][i] = OutgoingClient(<<m, 0>>, 1)
  <2>1. Connected(n, m, i)
    BY <1>1, ConnectParts
  <2> QED BY <2>1 DEF Connected
<1>3. /\ pend' = pend /\ up' = up /\ up[n]
      /\ pc[n] = "bcast" /\ pc'[n] = "socket"
      /\ \A k \in Node \ {n} : pc'[k] = pc[k]
  BY <1>0, PhaseIs DEF Connect
<1>4. /\ \A k \in Node \ {n} : last'[k] = last[k]
      /\ 1..last'[n] = (1..last[n]) \union {i} /\ i \notin 1..last[n] /\ i # 0
      /\ DOMAIN tbl[n] \subseteq 1..last[n]
  <2>1. last' = [last EXCEPT ![n] = @ + 1]
    BY <1>0, ConnectIs
  <2>2. /\ \A k \in Node \ {n} : last'[k] = last[k]
        /\ 1..last'[n] = (1..last[n]) \union {i} /\ i \notin 1..last[n]
    BY <1>0, <1>1, <2>1, OneMore
  <2>3. i # 0
    BY <1>0, <1>1
  <2>4. DOMAIN tbl[n] \subseteq 1..last[n]
    BY <1>0, NodeTyped DEF TableTyped
  <2> QED BY <2>2, <2>3, <2>4
\* Ends that were there.
<1>5. ASSUME NEW k \in Node, NEW l \in 1..last[k]
      PROVE  /\ conn'[k][l].far = conn[k][l].far
             /\ conn'[k][l].est = conn[k][l].est
             /\ conn'[k][l].wire = conn[k][l].wire
             /\ Moves(k, l)
             /\ l \in DOMAIN tbl'[k] => l \in DOMAIN tbl[k]
             /\ Newcomer(k, l) => conn'[k][l].out = conn[k][l].out
             /\ l \notin DOMAIN tbl[k] => conn'[k][l].out = conn[k][l].out
  <2>1. CASE k = n
    <3>1. Queued(n, l)
      BY <1>2, <2>1
    <3>2. Moves(n, l) /\ (Newcomer(n, l) => conn'[n][l].out = conn[n][l].out)
      BY <3>1, QueuedMoves
    <3>3. l # i
      BY <1>4, <2>1
    <3> QED BY <1>2, <2>1, <3>1, <3>2, <3>3 DEF Queued
  <2>2. CASE k # n
    <3>1. conn'[k] = conn[k] /\ tbl'[k] = tbl[k]
      BY <1>2, <2>2
    <3> QED BY <3>1 DEF Moves
  <2> QED BY <2>1, <2>2
<1>6. ASSUME NEW k \in Node
      PROVE  PendInv(k)' /\ pc'[k] # "dead" /\ DownInv(k)'
  <2>1. PendInv(k)'
    BY <1>0, <1>3, <1>5, Known, PendKept
  <2> QED BY <1>2, <1>3, <2>1, Known DEF DownInv
<1>7. ASSUME NEW k \in Node, NEW l \in 1..last'[k]
      PROVE  EndInv(k, l)'
  <2>1. CASE l \in 1..last[k]
    <3>1. PICK a, b : conn[k][l].far = <<a, b>>
      BY <1>0, <2>1, FarIs
    <3>2. a \in Node /\ a # k /\ (b # 0 => b \in 1..last[a])
      BY <2>1, <3>1, Paired
    <3>3. b # 0 => conn'[a][b].far = conn[a][b].far
      BY <1>5, <3>2
    <3>4. conn'[k][l].far = <<a, b>>
      BY <1>5, <2>1, <3>1
    <3>5. Waits(k, l)' => Waits(k, l)
      <4>1. Waits(k, l)' => \E q \in DOMAIN pend[a] : pend[a][q] = <<k, l>>
        BY <1>3, <3>4, WaitsNext
      <4> QED BY <3>1, <4>1, WaitsIs
    <3>6. EndInv(k, l)
      BY <2>1, Known
    <3>7. /\ conn'[k][l].est = conn[k][l].est
          /\ conn'[k][l].wire = conn[k][l].wire
          /\ Moves(k, l) /\ (l \in DOMAIN tbl'[k] => l \in DOMAIN tbl[k])
      BY <1>5, <2>1
    <3> QED BY <1>0, <2>1, <3>1, <3>3, <3>4, <3>5, <3>6, <3>7, EndKept
  <2>2. CASE l \notin 1..last[k]
    <3>1. k = n /\ l = i
      BY <1>4, <2>2
    <3>2. conn'[k][l].far[1] = m /\ conn'[k][l].far[2] = 0
      BY <1>2, <3>1
    <3>3. Head(<<0>>) = 0 /\ <<0>> # <<>>
      OBVIOUS
    <3>4. Front(k, l)'
      BY <1>2, <3>1, <3>3 DEF Front
    <3> QED BY <1>2, <3>1, <3>2, <3>4 DEF EndInv
  <2> QED BY <2>1, <2>2
<1>8. ASSUME NEW k \in Node, NEW l \in DOMAIN tbl'[k]
      PROVE  CliInv(k, l)'
  <2>1. CASE l \in DOMAIN tbl[k]
    <3>0. l \in 1..last[k] /\ CliInv(k, l)
      BY <2>1, Known
    <3>1. PICK a, b : conn[k][l].far = <<a, b>>
      BY <1>0, <3>0, FarIs
    <3>2. a \in Node /\ a # k /\ (b # 0 => b \in 1..last[a])
      BY <3>0, <3>1, Paired
    <3>3. tbl'[k][l] = tbl[k][l] /\ conn'[k][l].far = <<a, b>>
          /\ conn'[k][l].wire = conn[k][l].wire
          /\ (Newcomer(k, l) => conn'[k][l].out = conn[k][l].out)
      BY <1>2, <1>5, <2>1, <3>0, <3>1
    <3>4. ASSUME Newcomer(k, l), Silent(k, l), Front(a, b)
          PROVE  Silent(k, l)' /\ Front(a, b)'
      <4>1. b \in 1..last[a]
        BY <3>0, <3>1, <3>2, <3>4 DEF CliInv
      <4>2. Front(a, b)'
        BY <1>0, <1>5, <3>2, <3>4, <4>1, FrontKept
      <4> QED BY <3>3, <3>4, <4>2 DEF Silent
    <3>5. ASSUME b # 0, Silent(a, b), b \in DOMAIN tbl[a] => Newcomer(a, b)
          PROVE  Silent(a, b)' /\ (b \in DOMAIN tbl'[a] => Newcomer(a, b)')
      <4>1. conn'[a][b].out = conn[a][b].out /\ conn'[a][b].wire = conn[a][b].wire
        BY <1>5, <3>2, <3>5
      <4>2. ASSUME b \in DOMAIN tbl'[a]
            PROVE  Newcomer(a, b)'
        <5>1. b \in DOMAIN tbl[a] /\ Newcomer(a, b)
          BY <1>5, <3>2, <3>5, <4>2
        <5>2. tbl'[a][b] = tbl[a][b]
          BY <1>2, <3>2, <5>1
        <5> QED BY <5>1, <5>2 DEF Newcomer
      <4> QED BY <3>5, <4>1, <4>2 DEF Silent
    <3>6. pc'[k] # "verify" => pc[k] # "verify"
      BY <1>3
    <3> QED BY <1>0, <2>1, <3>0, <3>1, <3>3, <3>4, <3>5, <3>6, CliKept
  <2>2. CASE l \notin DOMAIN tbl[k]
    <3>1. k = n /\ l = i
      BY <1>2, <2>2
    <3>2. /\ tbl'[k][l].kind = "net" /\ tbl'[k][l].key = <<m, 0>>
          /\ tbl'[k][l].reg /\ ~ tbl'[k][l].shut
      BY <1>2, <3>1 DEF OutgoingClient
    <3>3. <<m, 0>> \in Named
      BY DEF Named
    <3> QED BY <3>2, <3>3 DEF CliInv, Newcomer
  <2> QED BY <2>1, <2>2
<1> QED BY <1>6, <1>7, <1>8 DEF KnownInv

-----------------------------------------------------------------------------
(* A daemon writes what it has queued.                                      *)

LEMMA FlushAt ==
    ASSUME TypeInv, NEW n \in Node, NEW l \in 1..last[n], NEW v,
           v = Flushed(conn[n], SocketGone(n))[l]
    PROVE  /\ v.far = conn[n][l].far /\ v.est = conn[n][l].est
           /\ ~ conn[n][l].est => v = conn[n][l]
           /\ Silent(n, l) => v.out = <<>> /\ v.wire = <<>>
           /\ l \notin SocketGone(n) =>
                \/ v = conn[n][l]
                \/ /\ v.wire = conn[n][l].wire \o conn[n][l].out
                   /\ v.out = <<>>
<1>1. conn[n][l] \in Conn /\ DOMAIN conn[n] = 1..last[n]
  BY FarIs, NodeTyped DEF EndsTyped
<1>2. v = IF conn[n][l].est /\ l \in SocketGone(n)
          THEN [conn[n][l] EXCEPT !.out = <<>>]
          ELSE IF conn[n][l].est
          THEN [conn[n][l] EXCEPT !.wire = @ \o conn[n][l].out, !.out = <<>>]
          ELSE conn[n][l]
  BY <1>1 DEF Flushed
<1>3. CASE ~ conn[n][l].est
  <2>1. v = conn[n][l]
    BY <1>2, <1>3
  <2> QED BY <1>3, <2>1 DEF Silent
<1>4. CASE conn[n][l].est /\ l \in SocketGone(n)
  <2>1. v = [conn[n][l] EXCEPT !.out = <<>>]
    BY <1>2, <1>4
  <2>2. /\ v.far = conn[n][l].far /\ v.est = conn[n][l].est
        /\ v.wire = conn[n][l].wire /\ v.out = <<>>
    BY <1>1, <2>1 DEF Conn
  <2> QED BY <1>4, <2>2 DEF Silent
<1>5. CASE conn[n][l].est /\ l \notin SocketGone(n)
  <2>1. v = [conn[n][l] EXCEPT !.wire = @ \o conn[n][l].out, !.out = <<>>]
    BY <1>2, <1>5
  <2>2. /\ v.far = conn[n][l].far /\ v.est = conn[n][l].est
        /\ v.wire = conn[n][l].wire \o conn[n][l].out /\ v.out = <<>>
    BY <1>1, <2>1 DEF Conn
  <2>3. Silent(n, l) => v.wire = <<>>
    <3>1. <<>> \o <<>> = <<>>
      OBVIOUS
    <3> QED BY <2>2, <3>1 DEF Silent
  <2> QED BY <1>5, <2>2, <2>3
<1> QED BY <1>3, <1>4, <1>5

\* The far end of a connection that was not accepted yet, or of a client that
\* is there, is not gone.
LEMMA NotGone ==
    ASSUME KnownInv, NEW n \in Node, NEW l \in 1..last[n],
           NEW a, NEW b, conn[n][l].far = <<a, b>>,
           \/ b = 0 /\ Waits(n, l)
           \/ b # 0 /\ b \in DOMAIN tbl[a]
    PROVE  l \notin SocketGone(n)
<1>1. conn[n][l].far[1] = a /\ conn[n][l].far[2] = b /\ a \in Node
  BY Paired
<1>2. DownInv(a)
  BY <1>1, Known
<1>3. up[a]
  <2>1. CASE b = 0 /\ Waits(n, l)
    <3>1. PICK k \in DOMAIN pend[a] : pend[a][k] = <<n, l>>
      BY <2>1, WaitsIs
    <3>2. DOMAIN <<>> = {}
      OBVIOUS
    <3> QED BY <1>2, <3>1, <3>2 DEF DownInv
  <2>2. CASE b # 0 /\ b \in DOMAIN tbl[a]
    BY <1>2, <2>2 DEF DownInv
  <2> QED BY <2>1, <2>2
<1>4. Waits(n, l) => ~ \A k \in DOMAIN pend[a] : pend[a][k] # <<n, l>>
  BY WaitsIs
<1>5. ~ Gone(n, l)
  BY <1>1, <1>3, <1>4 DEF Gone
<1> QED BY <1>5 DEF SocketGone

LEMMA FlushMoves ==
    ASSUME KnownInv, NEW n \in Node, NEW l \in 1..last[n],
           conn'[n][l].out = Flushed(conn[n], SocketGone(n))[l].out,
           conn'[n][l].wire = Flushed(conn[n], SocketGone(n))[l].wire,
           NEW a, NEW b, conn[n][l].far = <<a, b>>,
           \/ b = 0 /\ (~ conn[n][l].est \/ Waits(n, l))
           \/ b # 0 /\ b \in DOMAIN tbl[a]
    PROVE  Moves(n, l)
<1>1. PICK v : v = Flushed(conn[n], SocketGone(n))[l]
  OBVIOUS
<1>2. conn'[n][l].out = v.out /\ conn'[n][l].wire = v.wire
  BY <1>1
<1>3. CASE ~ conn[n][l].est
  <2>1. v = conn[n][l]
    BY <1>1, <1>3, Known, FlushAt
  <2> QED BY <1>2, <2>1 DEF Moves
<1>4. CASE conn[n][l].est
  <2>1. l \notin SocketGone(n)
    BY <1>4, NotGone
  <2>2. \/ v = conn[n][l]
        \/ /\ v.wire = conn[n][l].wire \o conn[n][l].out
           /\ v.out = <<>>
    <3>1. TypeInv
      BY Known
    <3> QED BY ONLY <3>1, n \in Node, l \in 1..last[n], <1>1, <2>1, FlushAt
  <2> QED BY <1>2, <2>2 DEF Moves
<1> QED BY <1>3, <1>4

\* What the output of n does to the ends of all daemons; x, y is the end that
\* n accepts, if it does.
Flushing(n, x, y) ==
    /\ \A l \in 1..last[n] :
          conn'[n][l] = Flushed(conn[n], SocketGone(n))[l]
    /\ \A k \in Node \ {n} : \A l \in 1..last[k] :
          /\ (k # x \/ l # y) => conn'[k][l] = conn[k][l]
          /\ conn'[k][l].est = conn[k][l].est
          /\ conn'[k][l].out = conn[k][l].out
          /\ conn'[k][l].wire = conn[k][l].wire

LEMMA FlushKeeps ==
    ASSUME KnownInv, NEW n \in Node, NEW x, NEW y, Flushing(n, x, y),
           NEW k \in Node, NEW l \in 1..last[k]
    PROVE  /\ (k # x \/ l # y \/ k = n) => conn'[k][l].far = conn[k][l].far
           /\ conn'[k][l].est = conn[k][l].est
           /\ ~ conn[k][l].est => conn'[k][l].wire = conn[k][l].wire
           /\ Silent(k, l) => Silent(k, l)'
           /\ k # n => conn'[k][l].wire = conn[k][l].wire
<1>0. TypeInv
  BY Known
<1>1. CASE k = n
  <2>1. PICK v : v = Flushed(conn[n], SocketGone(n))[l]
    OBVIOUS
  <2>2. conn'[n][l] = v
    BY <1>1, <2>1 DEF Flushing
  <2>3. /\ v.far = conn[n][l].far /\ v.est = conn[n][l].est
        /\ ~ conn[n][l].est => v = conn[n][l]
        /\ Silent(n, l) => v.out = <<>> /\ v.wire = <<>>
    <3>1. l \in 1..last[n]
      BY <1>1
    <3>2. /\ v.far = conn[n][l].far /\ v.est = conn[n][l].est
          /\ ~ conn[n][l].est => v = conn[n][l]
          /\ Silent(n, l) => v.out = <<>> /\ v.wire = <<>>
      BY ONLY <1>0, n \in Node, <2>1, <3>1, FlushAt
    <3> QED BY ONLY <3>2
  <2> QED BY <1>1, <2>2, <2>3 DEF Silent
<1>2. CASE k # n
  BY <1>2 DEF Flushing, Silent
<1> QED BY <1>1, <1>2

LEMMA FlushingMoves ==
    ASSUME KnownInv, NEW n \in Node, NEW x, NEW y, Flushing(n, x, y),
           NEW k \in Node, NEW l \in 1..last[k],
           NEW a, NEW b, conn[k][l].far = <<a, b>>,
           \/ b = 0 /\ (~ conn[k][l].est \/ Waits(k, l))
           \/ b # 0 /\ b \in DOMAIN tbl[a]
    PROVE  Moves(k, l)
<1>1. CASE k = n
  <2>1. conn'[n][l] = Flushed(conn[n], SocketGone(n))[l]
    BY <1>1 DEF Flushing
  <2> QED BY <1>1, <2>1, FlushMoves
<1>2. CASE k # n
  BY <1>2 DEF Flushing, Moves
<1> QED BY <1>1, <1>2

\* The tables, but for a new client of n, and the phases.
Serving(n) ==
    /\ pc'[n] = "verify" /\ \A k \in Node \ {n} : pc'[k] = pc[k]
    /\ \A k \in Node : \A l \in 1..last[k] :
          l \in DOMAIN tbl'[k] => l \in DOMAIN tbl[k]
    /\ \A k \in Node : \A l \in DOMAIN tbl[k] :
          /\ tbl'[k][l].kind = tbl[k][l].kind /\ tbl'[k][l].key = tbl[k][l].key
          /\ tbl'[k][l].reg = tbl[k][l].reg /\ tbl'[k][l].shut = tbl[k][l].shut

LEMMA FlushClient ==
    ASSUME KnownInv, NEW n \in Node, NEW x, NEW y, Flushing(n, x, y), Serving(n),
           NEW k \in Node, NEW l \in DOMAIN tbl[k], k # x \/ l # y \/ k = n
    PROVE  CliInv(k, l)'
<1>0. TypeInv /\ l \in 1..last[k] /\ CliInv(k, l)
  BY Known
<1>1. PICK a, b : conn[k][l].far = <<a, b>>
  BY <1>0, FarIs
<1>2. a \in Node /\ a # k /\ l # 0 /\ (b # 0 => b \in 1..last[a])
  BY <1>0, <1>1, Paired
<1>3. /\ conn'[k][l].far = <<a, b>>
      /\ Silent(k, l) => Silent(k, l)'
      /\ k # n => conn'[k][l].wire = conn[k][l].wire
  BY <1>0, <1>1, FlushKeeps
<1>4. /\ tbl'[k][l].kind = tbl[k][l].kind /\ tbl'[k][l].key = tbl[k][l].key
      /\ tbl'[k][l].reg = tbl[k][l].reg /\ tbl'[k][l].shut = tbl[k][l].shut
  BY DEF Serving
<1>5. ASSUME Newcomer(k, l), Silent(k, l), Front(a, b)
      PROVE  Silent(k, l)' /\ Front(a, b)'
  <2>1. b # 0
    BY <1>0, <1>1, <1>5 DEF CliInv
  <2>2. b \in 1..last[a] /\ conn[a][b].far = <<k, l>>
    <3>1. conn[a][b].far = <<k, l>>
      <4>1. l \in 1..last[k]
        BY <1>0
      <4> QED BY ONLY KnownInv, k \in Node, <1>1, <2>1, <4>1, FarBack
    <3> QED BY <1>2, <2>1, <3>1
  <2>3. Moves(a, b)
    BY <1>2, <2>2, FlushingMoves
  <2>4. b \in DOMAIN tbl'[a] => b \in DOMAIN tbl[a]
    BY <1>2, <2>2 DEF Serving
  <2> QED BY <1>0, <1>2, <1>3, <1>5, <2>2, <2>3, <2>4, FrontKept
<1>6. ASSUME b # 0, Silent(a, b), b \in DOMAIN tbl[a] => Newcomer(a, b)
      PROVE  Silent(a, b)' /\ (b \in DOMAIN tbl'[a] => Newcomer(a, b)')
  <2>1. Silent(a, b)'
    BY <1>2, <1>6, FlushKeeps
  <2>2. ASSUME b \in DOMAIN tbl'[a]
        PROVE  Newcomer(a, b)'
    <3>1. b \in DOMAIN tbl[a] /\ Newcomer(a, b)
      BY <1>2, <1>6, <2>2 DEF Serving
    <3>2. tbl'[a][b].reg = tbl[a][b].reg /\ tbl'[a][b].shut = tbl[a][b].shut
      BY <1>2, <3>1 DEF Serving
    <3> QED BY <3>1, <3>2 DEF Newcomer
  <2> QED BY <2>1, <2>2
<1>7. pc'[k] = "verify" \/ (k # n /\ pc'[k] = pc[k])
  BY DEF Serving
<1> QED BY <1>0, <1>1, <1>3, <1>4, <1>5, <1>6, <1>7, CliKept

LEMMA FlushEnd ==
    ASSUME KnownInv, NEW n \in Node, NEW x, NEW y, Flushing(n, x, y), Serving(n),
           y = 0 \/ conn[x][y].far = <<n, 0>>,
           \A a \in Node : \A q \in DOMAIN pend'[a] :
              \E p \in DOMAIN pend[a] : pend[a][p] = pend'[a][q],
           NEW k \in Node, NEW l \in 1..last[k], k # x \/ l # y \/ k = n
    PROVE  EndInv(k, l)'
<1>0. TypeInv /\ EndInv(k, l)
  BY Known
<1>1. PICK a, b : conn[k][l].far = <<a, b>>
  BY <1>0, FarIs
<1>2. a \in Node /\ a # k /\ l # 0 /\ (b # 0 => b \in 1..last[a])
  BY <1>1, Paired
<1>3. /\ conn'[k][l].far = <<a, b>> /\ conn'[k][l].est = conn[k][l].est
      /\ ~ conn[k][l].est => conn'[k][l].wire = conn[k][l].wire
  BY <1>1, FlushKeeps
<1>4. b # 0 => conn'[a][b].far = conn[a][b].far
  <2>1. SUFFICES ASSUME b # 0 PROVE conn'[a][b].far = conn[a][b].far
    OBVIOUS
  <2>2. b \in 1..last[a] /\ conn[a][b].far = <<k, l>>
    <3>1. conn[a][b].far = <<k, l>>
      BY ONLY KnownInv, k \in Node, l \in 1..last[k], <1>1, <2>1, FarBack
    <3> QED BY <1>2, <2>1, <3>1
  <2>3. <<k, l>> # <<n, 0>>
    BY <1>2
  <2>4. a # x \/ b # y
    BY <2>1, <2>2, <2>3
  <2> QED BY <1>2, <2>2, <2>4, FlushKeeps
<1>5. Waits(k, l)' => Waits(k, l)
  <2>1. Waits(k, l)' => \E q \in DOMAIN pend'[a] : pend'[a][q] = <<k, l>>
    <3>1. conn'[k][l].far = <<a, b>>
      BY <1>3
    <3> QED BY ONLY <3>1, WaitsNext
  <2>2. Waits(k, l)' => \E p \in DOMAIN pend[a] : pend[a][p] = <<k, l>>
    BY <1>2, <2>1
  <2> QED BY <1>1, <2>2, WaitsIs
<1>6. (b = 0 /\ (~ conn[k][l].est \/ Waits(k, l)')) =>
         (~ conn[k][l].est \/ Waits(k, l)) /\ Moves(k, l)
  BY <1>1, <1>5, FlushingMoves
<1>7. l \in DOMAIN tbl'[k] => l \in DOMAIN tbl[k]
  BY DEF Serving
<1> QED BY <1>0, <1>1, <1>3, <1>4, <1>6, <1>7, EndKept

LEMMA CloseEofKeeps ==
    ASSUME NEW t, NEW eof, NEW K,
           \A i \in DOMAIN t : t[i] \in Client(K, {0, 1}, 0..9),
           NEW u, u = CloseEof(t, eof)
    PROVE  /\ DOMAIN u = DOMAIN t
           /\ \A i \in DOMAIN t :
                 /\ u[i].kind = t[i].kind /\ u[i].key = t[i].key
                 /\ u[i].reg = t[i].reg /\ u[i].shut = t[i].shut
<1>1. \A c \in Client(K, {0, 1}, 0..9) :
         LET d == [c EXCEPT !.fd = 0]
         IN  d.kind = c.kind /\ d.key = c.key /\ d.reg = c.reg /\ d.shut = c.shut
  BY DEF Client
<1> QED BY <1>1 DEF CloseEof

LEMMA SocketKnown ==
    ASSUME KnownInv, TypeInv', NEW n \in Node, Socket(n)
    PROVE  KnownInv'
<1>0. TypeInv /\ DOMAIN tbl = Node /\ DOMAIN conn = Node
  BY Known DEF TypeInv
<1>1. PICK eof : tbl' = [tbl EXCEPT ![n] = CloseEof(tbl[n], eof)]
  BY DEF Socket
<1>2. /\ conn' = [conn EXCEPT ![n] = Flushed(conn[n], SocketGone(n))]
      /\ UNCHANGED <<up, last, pend>>
  BY DEF Socket, SocketGone
<1>3. pc'[n] = "verify" /\ \A k \in Node \ {n} : pc'[k] = pc[k]
  BY <1>0, PhaseIs DEF Socket
<1>4. Flushing(n, n, 0)
  <2>1. conn'[n] = Flushed(conn[n], SocketGone(n))
    BY <1>0, <1>2
  <2>2. \A k \in Node \ {n} : conn'[k] = conn[k]
    BY <1>2
  <2> QED BY <2>1, <2>2 DEF Flushing
<1>5. /\ \A k \in Node : DOMAIN tbl'[k] = DOMAIN tbl[k]
      /\ Serving(n)
  <2>1. tbl'[n] = CloseEof(tbl[n], eof)
    BY <1>0, <1>1
  <2>2. \A i \in DOMAIN tbl[n] : tbl[n][i] \in Client(Key, {0, 1}, 0..9)
    BY <1>0, ClientIs
  <2>3. /\ DOMAIN tbl'[n] = DOMAIN tbl[n]
        /\ \A i \in DOMAIN tbl[n] :
              /\ tbl'[n][i].kind = tbl[n][i].kind
              /\ tbl'[n][i].key = tbl[n][i].key
              /\ tbl'[n][i].reg = tbl[n][i].reg
              /\ tbl'[n][i].shut = tbl[n][i].shut
    BY <2>1, <2>2, CloseEofKeeps
  <2>4. \A k \in Node \ {n} : tbl'[k] = tbl[k]
    BY <1>1
  <2> QED BY <1>3, <2>3, <2>4 DEF Serving
<1>6. ASSUME NEW k \in Node
      PROVE  PendInv(k)' /\ pc'[k] # "dead" /\ DownInv(k)'
  <2>1. \A a \in Node : \A b \in 1..last[a] :
           conn'[a][b].far = conn[a][b].far /\ conn'[a][b].est = conn[a][b].est
    <3>1. ASSUME NEW a \in Node, NEW b \in 1..last[a]
          PROVE  /\ conn'[a][b].far = conn[a][b].far
                 /\ conn'[a][b].est = conn[a][b].est
      <4>1. a # n \/ b # 0 \/ a = n
        OBVIOUS
      <4> QED BY <1>4, <4>1, FlushKeeps
    <3> QED BY <3>1
  <2>2. PendInv(k)'
    BY <1>0, <1>2, <2>1, Known, PendKept
  <2> QED BY <1>2, <1>3, <1>5, <2>2, Known DEF DownInv
<1>7. ASSUME NEW k \in Node, NEW l \in 1..last[k]
      PROVE  EndInv(k, l)'
  <2>1. \A a \in Node : \A q \in DOMAIN pend'[a] :
           \E p \in DOMAIN pend[a] : pend[a][p] = pend'[a][q]
    BY <1>2
  <2>2. k # n \/ l # 0 \/ k = n
    OBVIOUS
  <2> QED BY <1>4, <1>5, <2>1, <2>2, FlushEnd
<1>8. ASSUME NEW k \in Node, NEW l \in DOMAIN tbl[k]
      PROVE  CliInv(k, l)'
  <2>1. k # n \/ l # 0 \/ k = n
    OBVIOUS
  <2> QED BY <1>4, <1>5, <2>1, FlushClient
<1> QED BY <1>2, <1>5, <1>6, <1>7, <1>8 DEF KnownInv

-----------------------------------------------------------------------------
(* A daemon accepts a connection.                                           *)

\* What Accept(n) does to tables, backlogs and phases; <<x, y>> is the end it
\* accepts and j its new client.
Listed(n, x, y, j) ==
    /\ Serving(n) /\ up' = up
    /\ \A k \in Node \ {n} : /\ DOMAIN tbl'[k] = DOMAIN tbl[k]
                             /\ pend'[k] = pend[k] /\ last'[k] = last[k]
    /\ DOMAIN tbl'[n] = DOMAIN tbl[n] \union {j}
    /\ tbl'[n][j].kind = "net" /\ tbl'[n][j].key = <<x, y>>
    /\ ~ tbl'[n][j].reg /\ ~ tbl'[n][j].shut
    /\ pend'[n] = Tail(pend[n])
    /\ 1..last'[n] = (1..last[n]) \union {j}
    /\ j \notin 1..last[n] /\ j # 0

LEMMA AcceptTables ==
    ASSUME KnownInv, NEW n \in Node, Accept(n),
           NEW x, NEW y, Head(pend[n]) = <<x, y>>, NEW j, j = last[n] + 1
    PROVE  Listed(n, x, y, j)
<1>0. /\ TypeInv /\ DOMAIN tbl = Node /\ DOMAIN pend = Node
      /\ last[n] \in Nat
  BY Known DEF TypeInv, TypeOK
<1>1. PICK c : c = AcceptedClient(<<x, y>>, 1)
  OBVIOUS
<1>2. PICK t : t = Push(tbl[n], j, c)
  OBVIOUS
<1>3. PICK eof : tbl' = [tbl EXCEPT ![n] = CloseEof(t, eof)]
  <2>1. PICK eof : tbl' = [tbl EXCEPT ![n] =
             CloseEof(Push(tbl[n], j, AcceptedClient(Head(pend[n]), 1)), eof)]
    BY <1>0, AcceptIs
  <2>2. t = Push(tbl[n], j, AcceptedClient(Head(pend[n]), 1))
    BY <1>1, <1>2
  <2> QED BY <2>1, <2>2
<1>4. /\ last' = [last EXCEPT ![n] = @ + 1] /\ up' = up
      /\ pend' = [pend EXCEPT ![n] = Tail(@)] /\ pend[n] # <<>>
  BY <1>0, AcceptIs DEF Still
<1>5. pc'[n] = "verify" /\ \A k \in Node \ {n} : pc'[k] = pc[k]
  BY <1>0, PhaseIs DEF Accept
<1>6. /\ \A k \in Node \ {n} : last'[k] = last[k]
      /\ 1..last'[n] = (1..last[n]) \union {j} /\ j \notin 1..last[n] /\ j # 0
      /\ DOMAIN tbl[n] \subseteq 1..last[n]
  <2>1. /\ \A k \in Node \ {n} : last'[k] = last[k]
        /\ 1..last'[n] = (1..last[n]) \union {j} /\ j \notin 1..last[n]
    BY <1>0, <1>4, OneMore
  <2>2. DOMAIN tbl[n] \subseteq 1..last[n]
    BY <1>0, NodeTyped DEF TableTyped
  <2> QED BY <1>0, <2>1, <2>2
<1>7. \A i \in DOMAIN tbl[n] : i # j
  BY <1>6
<1>8. /\ DOMAIN t = DOMAIN tbl[n] \union {j} /\ t[j] = c
      /\ \A l \in DOMAIN tbl[n] : t[l] = tbl[n][l]
  <2>1. DOMAIN t = DOMAIN tbl[n] \union {j}
    BY <1>2, PushDomain
  <2>2. t[j] = c
    BY <1>2, PushNew
  <2>3. \A l \in DOMAIN tbl[n] : t[l] = tbl[n][l]
    BY <1>2, <1>7, PushOld
  <2> QED BY <2>1, <2>2, <2>3
<1>9. PICK K : K = Key \union {<<x, y>>}
  OBVIOUS
<1>10. /\ c \in Client(K, {0, 1}, 0..9) /\ c.kind = "net" /\ c.key = <<x, y>>
       /\ ~ c.reg /\ ~ c.shut
  <2>1. c = [kind |-> "net", key |-> <<x, y>>, reg |-> FALSE, auth |-> TRUE,
             shut |-> FALSE, fd |-> 1, seq |-> 0]
    BY <1>1 DEF AcceptedClient, OutgoingClient
  <2>2. <<x, y>> \in K
    BY <1>9
  <2> QED BY <2>1, <2>2 DEF Client, Kind
<1>11. \A i \in DOMAIN t : t[i] \in Client(K, {0, 1}, 0..9)
  <2>1. \A i \in DOMAIN tbl[n] : tbl[n][i] \in Client(Key, {0, 1}, 0..9)
    BY <1>0, ClientIs
  <2>2. \A i \in DOMAIN tbl[n] : tbl[n][i] \in Client(K, {0, 1}, 0..9)
    BY <1>9, <2>1 DEF Client
  <2> QED BY <1>8, <1>10, <2>2
<1>12. /\ DOMAIN tbl'[n] = DOMAIN t
       /\ \A i \in DOMAIN t :
             /\ tbl'[n][i].kind = t[i].kind /\ tbl'[n][i].key = t[i].key
             /\ tbl'[n][i].reg = t[i].reg /\ tbl'[n][i].shut = t[i].shut
  <2>1. tbl'[n] = CloseEof(t, eof)
    BY <1>0, <1>3
  <2> QED BY <1>11, <2>1, CloseEofKeeps
<1>13. \A k \in Node \ {n} : tbl'[k] = tbl[k]
  BY <1>3
<1>14. Serving(n)
  <2>1. \A k \in Node : \A l \in 1..last[k] :
           l \in DOMAIN tbl'[k] => l \in DOMAIN tbl[k]
    BY <1>6, <1>8, <1>12, <1>13
  <2>2. \A k \in Node : \A l \in DOMAIN tbl[k] :
          /\ tbl'[k][l].kind = tbl[k][l].kind /\ tbl'[k][l].key = tbl[k][l].key
          /\ tbl'[k][l].reg = tbl[k][l].reg /\ tbl'[k][l].shut = tbl[k][l].shut
    BY <1>8, <1>12, <1>13
  <2> QED BY <1>5, <2>1, <2>2 DEF Serving
<1>15. /\ tbl'[n][j].kind = "net" /\ tbl'[n][j].key = <<x, y>>
       /\ ~ tbl'[n][j].reg /\ ~ tbl'[n][j].shut
  BY <1>8, <1>10, <1>12
<1>16. pend'[n] = Tail(pend[n]) /\ \A k \in Node \ {n} : pend'[k] = pend[k]
  BY <1>0, <1>4
<1>17. DOMAIN tbl'[n] = DOMAIN tbl[n] \union {j}
  BY <1>8, <1>12
<1> QED BY <1>4, <1>6, <1>13, <1>14, <1>15, <1>16, <1>17 DEF Listed

\* ... and to the ends of connections.
Joined(n, x, y, j) ==
    /\ Flushing(n, x, y)
    /\ conn'[n][j] = NewEnd(<<x, y>>, TRUE)
    /\ conn'[x][y].far = <<n, j>>

LEMMA AcceptEnds ==
    ASSUME KnownInv, NEW n \in Node, Accept(n),
           NEW x \in Node, NEW y \in 1..last[x], x # n,
           Head(pend[n]) = <<x, y>>, NEW j, j = last[n] + 1
    PROVE  Joined(n, x, y, j)
<1>0. /\ TypeInv /\ DOMAIN conn = Node /\ last[n] \in Nat
      /\ \A k \in Node : DOMAIN conn[k] = 1..last[k]
  BY Known, NodeTyped DEF TypeInv, TypeOK, EndsTyped
<1>1. PICK d : d = NewEnd(<<x, y>>, TRUE)
  OBVIOUS
<1>2. PICK f : f = Flushed(conn[n], SocketGone(n))
  OBVIOUS
<1>3. PICK e : e = Push(f, j, d)
  OBVIOUS
<1>4. conn' = [conn EXCEPT ![n] = e, ![x][y].far = <<n, j>>]
  <2>1. LET far == Head(pend[n])
        IN  conn' = [conn EXCEPT ![n] = Push(Flushed(conn[n], SocketGone(n)),
                                             j, NewEnd(far, TRUE)),
                                 ![far[1]][far[2]].far = <<n, j>>]
    BY <1>0, AcceptIs
  <2>2. <<x, y>>[1] = x /\ <<x, y>>[2] = y
    OBVIOUS
  <2> QED BY <1>1, <1>2, <1>3, <2>1, <2>2
<1>5. /\ conn'[n] = e
      /\ \A k \in Node \ {n, x} : conn'[k] = conn[k]
      /\ \A l \in 1..last[x] : l # y => conn'[x][l] = conn[x][l]
      /\ conn'[x][y] = [conn[x][y] EXCEPT !.far = <<n, j>>]
  BY <1>0, <1>4
<1>6. DOMAIN f = 1..last[n] /\ \A l \in 1..last[n] : l # j
  <2>1. DOMAIN f = DOMAIN conn[n]
    BY <1>2 DEF Flushed
  <2> QED BY <1>0, <2>1
<1>7. e[j] = d /\ \A l \in 1..last[n] : e[l] = f[l]
  <2>1. e[j] = d
    BY <1>3, PushNew
  <2>2. \A l \in DOMAIN f : l # j => e[l] = f[l]
    BY <1>3, PushOld
  <2> QED BY <1>6, <2>1, <2>2
<1>8. /\ conn'[x][y].far = <<n, j>> /\ conn'[x][y].est = conn[x][y].est
      /\ conn'[x][y].out = conn[x][y].out /\ conn'[x][y].wire = conn[x][y].wire
  <2>1. conn[x][y] \in Conn
    BY <1>0, FarIs
  <2> QED BY <1>5, <2>1 DEF Conn
<1>9. Flushing(n, x, y)
  <2>1. \A l \in 1..last[n] : conn'[n][l] = Flushed(conn[n], SocketGone(n))[l]
    BY <1>2, <1>5, <1>7
  <2>2. ASSUME NEW k \in Node \ {n}, NEW l \in 1..last[k]
        PROVE  /\ (k # x \/ l # y) => conn'[k][l] = conn[k][l]
               /\ conn'[k][l].est = conn[k][l].est
               /\ conn'[k][l].out = conn[k][l].out
               /\ conn'[k][l].wire = conn[k][l].wire
    <3>1. CASE k = x /\ l = y
      BY <1>8, <3>1
    <3>2. CASE k # x \/ l # y
      <4>1. conn'[k][l] = conn[k][l]
        BY <1>5, <3>2
      <4> QED BY <4>1
    <3> QED BY <3>1, <3>2
  <2> QED BY <2>1, <2>2 DEF Flushing
<1> QED BY <1>1, <1>5, <1>7, <1>8, <1>9 DEF Joined

LEMMA AcceptKnown ==
    ASSUME KnownInv, TypeInv', NEW n \in Node, Accept(n)
    PROVE  KnownInv'
<1>1. TypeInv /\ last[n] \in Nat
  BY Known DEF TypeInv, TypeOK
<1>2. pend[n] # <<>>
  BY <1>1, AcceptIs
<1>3. /\ 1 \in DOMAIN pend[n] /\ Head(pend[n]) = pend[n][1]
      /\ Len(pend[n]) \in Nat /\ DOMAIN pend[n] = 1..Len(pend[n])
      /\ DOMAIN Tail(pend[n]) = 1..Len(pend[n]) - 1
      /\ \A k \in 1..Len(pend[n]) - 1 : Tail(pend[n])[k] = pend[n][k + 1]
  BY <1>1, <1>2, HeadOfPend
<1>4. PICK x, y : pend[n][1] = <<x, y>>
  BY <1>3, EntryPair
<1>5. /\ x \in Node /\ y \in 1..last[x] /\ y # 0
      /\ conn[x][y].far = <<n, 0>> /\ conn[x][y].est
  BY <1>3, <1>4, EntryKnown
<1>6. x # n
  BY <1>5, Paired
<1>7. PICK j : j = last[n] + 1
  OBVIOUS
<1>8. Head(pend[n]) = <<x, y>>
  BY <1>3, <1>4
<1>9. /\ Serving(n) /\ up' = up
      /\ \A k \in Node \ {n} : /\ DOMAIN tbl'[k] = DOMAIN tbl[k]
                               /\ pend'[k] = pend[k] /\ last'[k] = last[k]
      /\ DOMAIN tbl'[n] = DOMAIN tbl[n] \union {j}
      /\ tbl'[n][j].kind = "net" /\ tbl'[n][j].key = <<x, y>>
      /\ ~ tbl'[n][j].reg /\ ~ tbl'[n][j].shut
      /\ pend'[n] = Tail(pend[n])
      /\ 1..last'[n] = (1..last[n]) \union {j}
      /\ j \notin 1..last[n] /\ j # 0
  <2>1. Listed(n, x, y, j)
    BY <1>7, <1>8, AcceptTables
  <2> QED BY <2>1 DEF Listed
<1>10. /\ Flushing(n, x, y) /\ conn'[n][j] = NewEnd(<<x, y>>, TRUE)
       /\ conn'[x][y].far = <<n, j>>
  <2>1. Joined(n, x, y, j)
    BY <1>5, <1>6, <1>7, <1>8, AcceptEnds
  <2> QED BY <2>1 DEF Joined
<1>11. /\ conn'[n][j].far = <<x, y>> /\ conn'[n][j].est /\ Silent(n, j)'
  BY <1>10 DEF NewEnd, Silent
<1>12. /\ conn'[x][y].est /\ conn'[x][y].out = conn[x][y].out
       /\ conn'[x][y].wire = conn[x][y].wire
  BY <1>5, <1>6, <1>10 DEF Flushing
<1>13. \A a \in Node : \A b \in 1..last[a] : (a # x \/ b # y) =>
          conn'[a][b].far = conn[a][b].far /\ conn'[a][b].est = conn[a][b].est
  BY <1>10, FlushKeeps
<1>14. ASSUME NEW k \in Node
       PROVE  PendInv(k)' /\ pc'[k] # "dead" /\ DownInv(k)'
  <2>1. CASE k # n
    <3>1. ASSUME NEW a \in Node, NEW b \in 1..last[a],
                 conn[a][b].far = <<k, 0>>, conn[a][b].est
          PROVE  conn'[a][b].far = conn[a][b].far /\ conn'[a][b].est
      <4>1. a # x \/ b # y
        BY <1>5, <2>1, <3>1
      <4> QED BY <1>13, <3>1, <4>1
    <3>2. PendInv(k)'
      BY <1>1, <1>9, <2>1, <3>1, Known, PendKept
    <3> QED BY <1>9, <2>1, <3>2, Known DEF DownInv, Serving
  <2>2. CASE k = n
    <3>1. /\ DOMAIN pend'[n] = 1..Len(pend[n]) - 1
          /\ \A q \in DOMAIN pend'[n] :
                /\ pend'[n][q] = pend[n][q + 1] /\ q + 1 # 1
                /\ q + 1 \in DOMAIN pend[n]
      BY <1>3, <1>9
    <3>2. ASSUME NEW q \in DOMAIN pend'[n]
          PROVE  \E a, b : /\ pend'[n][q] = <<a, b>> /\ b # 0
                           /\ conn'[a][b].far = <<n, 0>> /\ conn'[a][b].est
                           /\ \A l \in DOMAIN pend'[n] :
                                 pend'[n][l] = <<a, b>> => l = q
      <4>1. PICK a, b : pend[n][q + 1] = <<a, b>>
        BY <3>1, EntryPair
      <4>2. /\ a \in Node /\ b \in 1..last[a] /\ b # 0
            /\ conn[a][b].far = <<n, 0>> /\ conn[a][b].est
        BY <3>1, <4>1, EntryKnown
      <4>3. a # x \/ b # y
        <5>1. pend[n][q + 1] # pend[n][1]
          BY <1>3, <3>1, EntryOnce
        <5> QED BY <1>4, <4>1, <5>1
      <4>4. conn'[a][b].far = <<n, 0>> /\ conn'[a][b].est
        BY <1>13, <4>2, <4>3
      <4>5. ASSUME NEW l \in DOMAIN pend'[n], pend'[n][l] = <<a, b>>
            PROVE  l = q
        <5>1. l + 1 = q + 1
          BY <3>1, <4>1, <4>5, EntryOnce
        <5> QED BY <3>1, <5>1
      <4>6. pend'[n][q] = <<a, b>>
        BY <3>1, <4>1
      <4> QED BY <4>2, <4>4, <4>5, <4>6
    <3>3. PendInv(n)'
      BY <3>2, BacklogFrom
    <3>4. up[n]
      BY <1>1, PhaseIs DEF Accept
    <3> QED BY <1>9, <2>2, <3>3, <3>4 DEF DownInv, Serving
  <2> QED BY <2>1, <2>2
<1>15. ASSUME NEW k \in Node, NEW l \in 1..last'[k]
       PROVE  EndInv(k, l)'
  <2>1. CASE k = n /\ l = j
    <3>1. conn'[n][j].far[1] = x /\ conn'[n][j].far[2] = y
      BY <1>11
    <3> QED BY <1>5, <1>6, <1>10, <1>11, <2>1, <3>1 DEF EndInv
  <2>2. CASE k = x /\ l = y
    <3>1. conn'[x][y].far[1] = n /\ conn'[x][y].far[2] = j
      BY <1>10
    <3> QED BY <1>6, <1>9, <1>11, <1>12, <2>2, <3>1 DEF EndInv
  <2>3. CASE ~ (k = n /\ l = j) /\ ~ (k = x /\ l = y)
    <3>1. l \in 1..last[k]
      BY <1>9, <2>3
    <3>2. \A a \in Node : \A q \in DOMAIN pend'[a] :
             \E p \in DOMAIN pend[a] : pend[a][p] = pend'[a][q]
      <4>1. ASSUME NEW q \in DOMAIN pend'[n]
            PROVE  \E p \in DOMAIN pend[n] : pend[n][p] = pend'[n][q]
        <5>1. q + 1 \in DOMAIN pend[n] /\ pend'[n][q] = pend[n][q + 1]
          BY <1>3, <1>9
        <5> QED BY <5>1
      <4> QED BY <1>9, <4>1
    <3> QED BY <1>5, <1>9, <1>10, <2>3, <3>1, <3>2, FlushEnd
  <2> QED BY <2>1, <2>2, <2>3
<1>16. ASSUME NEW k \in Node, NEW l \in DOMAIN tbl'[k]
       PROVE  CliInv(k, l)'
  <2>1. CASE k = n /\ l = j
    <3>1. conn'[n][j].far[1] = x /\ conn'[n][j].far[2] = y
      BY <1>11
    <3>2. Front(x, y)'
      <4>1. Waits(x, y)
        BY <1>3, <1>4, <1>5, WaitsIs
      <4>2. EndInv(x, y) /\ conn[x][y].far[2] = 0
        BY <1>5, Known
      <4>3. Front(x, y)
        BY <4>1, <4>2 DEF EndInv
      <4>4. DOMAIN tbl'[x] = DOMAIN tbl[x]
        BY <1>5, <1>6, <1>9
      <4> QED BY <1>12, <4>3, <4>4 DEF Front
    <3> QED BY <1>5, <1>9, <1>11, <2>1, <3>1, <3>2 DEF CliInv, Newcomer
  <2>2. CASE k = x /\ l = y
    <3>1. y \in DOMAIN tbl[x]
      BY <1>6, <1>9, <2>2
    <3>2. CliInv(x, y) /\ conn[x][y].far[2] = 0
      BY <1>5, <3>1, Known
    <3>3. ~ Newcomer(x, y)
      BY <3>2 DEF CliInv
    <3>4. /\ tbl'[x][y].kind = tbl[x][y].kind /\ tbl'[x][y].key = tbl[x][y].key
          /\ tbl'[x][y].reg = tbl[x][y].reg /\ tbl'[x][y].shut = tbl[x][y].shut
          /\ pc'[x] = pc[x]
      BY <1>5, <1>6, <1>9, <3>1 DEF Serving
    <3>5. conn'[x][y].far[1] = n /\ conn'[x][y].far[2] = j
      BY <1>10
    <3>6. Newcomer(n, j)'
      BY <1>9 DEF Newcomer
    <3>7. ~ Newcomer(x, y)'
      BY <3>3, <3>4 DEF Newcomer
    <3> QED BY <1>11, <1>12, <2>2, <3>2, <3>4, <3>5, <3>6, <3>7 DEF CliInv
  <2>3. CASE ~ (k = n /\ l = j) /\ ~ (k = x /\ l = y)
    <3>1. l \in DOMAIN tbl[k]
      BY <1>9, <2>3
    <3> QED BY <1>9, <1>10, <2>3, <3>1, FlushClient
  <2> QED BY <2>1, <2>2, <2>3
<1> QED BY <1>14, <1>15, <1>16 DEF KnownInv

-----------------------------------------------------------------------------
(* A daemon processes a frame.                                              *)

\* What happens when client i of n takes a frame of its far end <<m, j>>: the
\* clients that change are registered afterwards, i among them if it was a
\* newcomer, and no other newcomer is sent anything.
Takes(n, i, m, j) ==
    /\ UNCHANGED <<up, last, pend, pc>>
    /\ \A k \in Node \ {n} : tbl'[k] = tbl[k]
    /\ DOMAIN tbl'[n] = DOMAIN tbl[n]
    /\ \A l \in DOMAIN tbl[n] :
          \/ tbl'[n][l] = tbl[n][l] /\ (l = i => ~ Newcomer(n, l))
          \/ /\ tbl'[n][l].kind = tbl[n][l].kind /\ tbl'[n][l].key \in Named
             /\ tbl'[n][l].reg /\ ~ tbl'[n][l].shut
             /\ l = i \/ tbl[n][l].reg
    /\ \A k \in Node : \A l \in 1..last[k] :
          /\ conn'[k][l].far = conn[k][l].far
          /\ conn'[k][l].est = conn[k][l].est
          /\ (k # m \/ l # j) => conn'[k][l].wire = conn[k][l].wire
          /\ k # n => conn'[k][l].out = conn[k][l].out
    /\ \A l \in 1..last[n] :
          \/ conn'[n][l].out = conn[n][l].out
          \/ /\ l \in DOMAIN tbl[n] /\ (l = i \/ ~ Newcomer(n, l))
             /\ conn'[n][l].out # <<>>
             /\ conn[n][l].out # <<>> =>
                  Head(conn'[n][l].out) = Head(conn[n][l].out)

\* The far end of another end is another one.
LEMMA TakesMoves ==
    ASSUME KnownInv, NEW n \in Node, NEW i, NEW m, NEW j, Takes(n, i, m, j),
           NEW k \in Node, NEW l \in 1..last[k], k # m \/ l # j
    PROVE  Moves(k, l)
<1>1. /\ conn'[k][l].wire = conn[k][l].wire
      /\ k # n => conn'[k][l].out = conn[k][l].out
  BY DEF Takes
<1>2. CASE k # n
  BY <1>1, <1>2 DEF Moves
<1>3. CASE k = n
  <2>1. \/ conn'[n][l].out = conn[n][l].out
        \/ /\ l \in DOMAIN tbl[n]
           /\ conn'[n][l].out # <<>>
           /\ conn[n][l].out # <<>> =>
                Head(conn'[n][l].out) = Head(conn[n][l].out)
    BY <1>3 DEF Takes
  <2> QED BY <1>1, <1>3, <2>1 DEF Moves
<1> QED BY <1>2, <1>3

LEMMA TakesTables ==
    ASSUME NEW n \in Node, NEW i, NEW m, NEW j, Takes(n, i, m, j),
           NEW k \in Node
    PROVE  /\ DOMAIN tbl'[k] = DOMAIN tbl[k]
           /\ \A l \in DOMAIN tbl[k] :
                 Newcomer(k, l)' <=> (Newcomer(k, l) /\ ~ (k = n /\ l = i))
<1>1. CASE k # n
  BY <1>1 DEF Takes, Newcomer
<1>2. CASE k = n
  BY <1>2 DEF Takes, Newcomer
<1> QED BY <1>1, <1>2

LEMMA TakesEnd ==
    ASSUME KnownInv, NEW n \in Node, NEW i \in DOMAIN tbl[n],
           NEW m, NEW j, conn[n][i].far = <<m, j>>, j # 0, Takes(n, i, m, j),
           NEW k \in Node, NEW l \in 1..last[k]
    PROVE  EndInv(k, l)'
<1>0. TypeInv /\ EndInv(k, l) /\ i \in 1..last[n]
  BY Known
<1>1. PICK a, b : conn[k][l].far = <<a, b>>
  BY <1>0, FarIs
<1>2. a \in Node /\ (b # 0 => b \in 1..last[a])
  BY <1>1, Paired
<1>3. conn[m][j].far = <<n, i>> /\ conn[m][j].est /\ i # 0
  <2>1. conn[m][j].far = <<n, i>>
    BY <1>0, FarBack
  <2>2. conn[m][j].est
    BY <1>0, FarMade
  <2>3. i # 0
    BY <1>0, Paired
  <2> QED BY <2>1, <2>2, <2>3
<1>4. /\ conn'[k][l].far = <<a, b>> /\ conn'[k][l].est = conn[k][l].est
      /\ (k # m \/ l # j) => conn'[k][l].wire = conn[k][l].wire
  BY <1>1 DEF Takes
<1>5. b # 0 => conn'[a][b].far = conn[a][b].far
  BY <1>2 DEF Takes
<1>6. ~ conn[k][l].est => conn'[k][l].wire = conn[k][l].wire
  BY <1>3, <1>4
<1>7. b = 0 => k # m \/ l # j
  BY <1>1, <1>3
<1>8. Waits(k, l)' => Waits(k, l)
  <2>1. pend' = pend
    BY DEF Takes
  <2>2. Waits(k, l)' => \E q \in DOMAIN pend[a] : pend[a][q] = <<k, l>>
    BY <1>4, <2>1, WaitsNext
  <2> QED BY <1>1, <2>2, WaitsIs
<1>9. (b = 0 /\ (~ conn[k][l].est \/ Waits(k, l)')) =>
         (~ conn[k][l].est \/ Waits(k, l)) /\ Moves(k, l)
  BY <1>7, <1>8, TakesMoves
<1>10. l \in DOMAIN tbl'[k] => l \in DOMAIN tbl[k]
  BY TakesTables
<1> QED BY <1>0, <1>1, <1>4, <1>5, <1>6, <1>9, <1>10, EndKept

LEMMA TakesClient ==
    ASSUME KnownInv, NEW n \in Node, NEW i \in DOMAIN tbl[n],
           NEW m, NEW j, conn[n][i].far = <<m, j>>, j # 0,
           conn[m][j].wire # <<>>, pc[n] = "request", Takes(n, i, m, j),
           NEW k \in Node, NEW l \in DOMAIN tbl[k]
    PROVE  CliInv(k, l)'
<1>0. TypeInv /\ CliInv(k, l) /\ l \in 1..last[k] /\ i \in 1..last[n]
  BY Known
<1>1. PICK a, b : conn[k][l].far = <<a, b>>
  BY <1>0, FarIs
<1>2. a \in Node /\ (b # 0 => b \in 1..last[a])
  BY <1>0, <1>1, Paired
<1>3. conn[m][j].far = <<n, i>> /\ m \in Node /\ m # n /\ j \in 1..last[m]
  <2>1. conn[m][j].far = <<n, i>>
    <3>1. i \in 1..last[n]
      BY <1>0
    <3>2. conn[n][i].far = <<m, j>> /\ j # 0
      OBVIOUS
    <3> QED BY ONLY KnownInv, n \in Node, <3>1, <3>2, FarBack
  <2>2. m \in Node /\ m # n /\ j \in 1..last[m]
    BY <1>0, Paired
  <2> QED BY <2>1, <2>2
<1>4. b # 0 => conn[a][b].far = <<k, l>>
  <2>1. SUFFICES ASSUME b # 0 PROVE conn[a][b].far = <<k, l>>
    OBVIOUS
  <2>2. l \in 1..last[k]
    BY <1>0
  <2> QED BY ONLY KnownInv, k \in Node, <1>1, <2>1, <2>2, FarBack
<1>5. conn'[k][l].far[1] = a /\ conn'[k][l].far[2] = b
  <2>1. conn'[k][l].far = <<a, b>>
    BY <1>0, <1>1 DEF Takes
  <2> QED BY <2>1
<1>6. conn[k][l].far[1] = a /\ conn[k][l].far[2] = b
  BY <1>1
<1>7. ASSUME Newcomer(k, l)'
      PROVE  /\ tbl'[k][l].key = conn'[k][l].far /\ b # 0
             /\ Silent(k, l)' /\ Front(a, b)'
  <2>1. Newcomer(k, l) /\ ~ (k = n /\ l = i)
    BY <1>7, TakesTables
  <2>2. /\ tbl[k][l].key = conn[k][l].far /\ b # 0
        /\ Silent(k, l) /\ Front(a, b)
    BY <1>0, <1>6, <2>1 DEF CliInv
  <2>3. tbl'[k][l].key = tbl[k][l].key /\ conn'[k][l].far = conn[k][l].far
    BY <1>0, <2>1 DEF Takes, Newcomer
  <2>4. k # m \/ l # j
    BY <2>2 DEF Silent
  <2>5. conn'[k][l].wire = <<>> /\ conn'[k][l].out = <<>>
    BY <1>0, <2>1, <2>2, <2>4 DEF Takes, Silent
  <2>6. a # m \/ b # j
    BY <1>3, <1>4, <2>1, <2>2
  <2>7. Moves(a, b)
    BY <1>2, <2>2, <2>6, TakesMoves
  <2>8. b \in DOMAIN tbl'[a] => b \in DOMAIN tbl[a]
    BY <1>2, TakesTables
  <2>9. Front(a, b)'
    BY <1>0, <1>2, <2>2, <2>7, <2>8, FrontKept
  <2> QED BY <2>2, <2>3, <2>5, <2>9 DEF Silent
<1>8. ASSUME tbl'[k][l].shut, pc'[k] # "verify"
      PROVE  /\ conn'[k][l].wire = <<>>
             /\ b # 0 => /\ Silent(a, b)'
                         /\ b \in DOMAIN tbl'[a] => Newcomer(a, b)'
  <2>1. tbl[k][l].shut /\ pc[k] # "verify"
    BY <1>8 DEF Takes
  <2>2. /\ conn[k][l].wire = <<>>
        /\ b # 0 => /\ Silent(a, b)
                    /\ b \in DOMAIN tbl[a] => Newcomer(a, b)
    BY <1>0, <1>6, <2>1 DEF CliInv
  <2>3. k # m \/ l # j
    BY <2>2
  <2>4. conn'[k][l].wire = <<>>
    BY <1>0, <2>2, <2>3 DEF Takes
  <2>5. ASSUME b # 0
        PROVE  /\ Silent(a, b)'
               /\ b \in DOMAIN tbl'[a] => Newcomer(a, b)'
    <3>1. (a # m \/ b # j) /\ (a # n \/ b # i)
      BY <1>3, <1>4, <2>2, <2>3, <2>5 DEF Silent
    <3>2. conn'[a][b].wire = <<>> /\ conn'[a][b].out = <<>>
      BY <1>2, <2>2, <2>5, <3>1 DEF Takes, Silent
    <3>3. b \in DOMAIN tbl'[a] => Newcomer(a, b)'
      BY <1>2, <2>2, <2>5, <3>1, TakesTables
    <3> QED BY <3>2, <3>3 DEF Silent
  <2> QED BY <2>4, <2>5
<1>9. /\ tbl'[k][l].kind = "net"
      /\ (tbl'[k][l].reg \/ tbl'[k][l].shut) => tbl'[k][l].key \in Named
      /\ tbl'[k][l].reg => ~ tbl'[k][l].shut
  <2>1. \/ tbl'[k][l] = tbl[k][l]
        \/ /\ tbl'[k][l].kind = tbl[k][l].kind /\ tbl'[k][l].key \in Named
           /\ tbl'[k][l].reg /\ ~ tbl'[k][l].shut
    BY DEF Takes
  <2> QED BY <1>0, <2>1 DEF CliInv
<1> QED BY <1>5, <1>7, <1>8, <1>9 DEF CliInv

LEMMA TakesKnown ==
    ASSUME KnownInv, TypeInv', NEW n \in Node, NEW i \in DOMAIN tbl[n],
           NEW m, NEW j, conn[n][i].far = <<m, j>>, j # 0,
           conn[m][j].wire # <<>>, pc[n] = "request", Takes(n, i, m, j)
    PROVE  KnownInv'
<1>1. /\ UNCHANGED <<up, last, pend, pc>>
      /\ \A k \in Node : DOMAIN tbl'[k] = DOMAIN tbl[k]
  <2>1. UNCHANGED <<up, last, pend, pc>>
    BY DEF Takes
  <2> QED BY <2>1, TakesTables
<1>2. ASSUME NEW k \in Node
      PROVE  PendInv(k)' /\ pc'[k] # "dead" /\ DownInv(k)'
  <2>1. \A a \in Node : \A b \in 1..last[a] :
           conn'[a][b].far = conn[a][b].far /\ conn'[a][b].est = conn[a][b].est
    BY DEF Takes
  <2>2. PendInv(k)'
    BY <1>1, <2>1, Known, PendKept
  <2> QED BY <1>1, <2>2, Known DEF DownInv
<1>3. ASSUME NEW k \in Node, NEW l \in 1..last[k]
      PROVE  EndInv(k, l)'
  BY TakesEnd
<1>4. ASSUME NEW k \in Node, NEW l \in DOMAIN tbl[k]
      PROVE  CliInv(k, l)'
  BY TakesClient
<1> QED BY <1>1, <1>2, <1>3, <1>4 DEF KnownInv

\* The far end of a client that has something to read; the client is not
\* marked for shutdown, and the first frame a newcomer reads is a 0.
LEMMA Reader ==
    ASSUME KnownInv, NEW n \in Node, NEW i \in DOMAIN tbl[n],
           pc[n] = "request", Inbox(n, i) # <<>>,
           NEW m, NEW j, conn[n][i].far = <<m, j>>
    PROVE  /\ j # 0 /\ m \in Node /\ m # n /\ j \in 1..last[m]
           /\ conn[m][j].wire = Inbox(n, i)
           /\ ~ tbl[n][i].shut
           /\ Newcomer(n, i) => Head(Inbox(n, i)) = 0
<1>1. conn[n][i].far[1] = m /\ conn[n][i].far[2] = j
  OBVIOUS
<1>2. CliInv(n, i) /\ i \in 1..last[n]
  BY Known
<1>3. j # 0 /\ conn[m][j].wire = Inbox(n, i)
  BY <1>1 DEF Inbox
<1>4. m \in Node /\ m # n /\ j \in 1..last[m]
  BY <1>2, <1>3, Paired
<1>5. ~ tbl[n][i].shut
  BY <1>1, <1>2, <1>3 DEF CliInv, Silent
<1>6. Newcomer(n, i) => Head(Inbox(n, i)) = 0
  BY <1>1, <1>2, <1>3 DEF CliInv, Front
<1> QED BY <1>3, <1>4, <1>5, <1>6

\* A registered client is found under its key.
LEMMA FoundReg ==
    ASSUME KnownInv, NEW n \in Node, NEW i \in DOMAIN tbl[n], tbl[n][i].reg
    PROVE  Find(tbl[n], tbl[n][i].key) # {}
<1>1. CliInv(n, i) /\ last[n] \in Nat /\ DOMAIN tbl[n] \subseteq 1..last[n]
  BY Known, NodeTyped DEF TableTyped, TypeInv, TypeOK
<1>2. i \in Matching(tbl[n], tbl[n][i].key)
  BY <1>1 DEF Matching, CliInv
<1>3. Matching(tbl[n], tbl[n][i].key) \in SUBSET (1..last[n])
  BY <1>1 DEF Matching
<1> QED BY <1>1, <1>2, <1>3, FirstThere DEF Find

\* What is found is registered, and has a name.
LEMMA FoundIs ==
    ASSUME KnownInv, NEW n \in Node, NEW key, NEW t \in Find(tbl[n], key)
    PROVE  /\ t \in DOMAIN tbl[n] /\ tbl[n][t].key = key
           /\ tbl[n][t].reg /\ ~ tbl[n][t].shut /\ key \in Named
<1>1. /\ t \in DOMAIN tbl[n] /\ tbl[n][t].key = key
      /\ (tbl[n][t].kind = "net" /\ tbl[n][t].reg) \/ tbl[n][t].kind = "msg"
  BY DEF Find, First, Matching
<1>2. CliInv(n, t)
  BY <1>1, Known
<1> QED BY <1>1, <1>2 DEF CliInv

\* So newcomers are not found, and registered clients always are.
LEMMA Unknown ==
    ASSUME KnownInv, NEW n \in Node, NEW i \in DOMAIN tbl[n],
           ~ tbl[n][i].shut
    PROVE  Newcomer(n, i) <=> Find(tbl[n], tbl[n][i].key) = {}
<1>1. ASSUME Newcomer(n, i), NEW t \in Find(tbl[n], tbl[n][i].key)
      PROVE  FALSE
  <2>1. tbl[n][i].key \in Named
    BY FoundIs
  <2> QED BY <1>1, <2>1, NewcomerKey
<1>2. ASSUME ~ Newcomer(n, i)
      PROVE  Find(tbl[n], tbl[n][i].key) # {}
  BY <1>2, FoundReg DEF Newcomer
<1> QED BY <1>1, <1>2

\* Taking a frame.
LEMMA TakenAt ==
    ASSUME KnownInv, NEW n \in Node, NEW i \in 1..last[n], Inbox(n, i) # <<>>,
           NEW m, NEW j, conn[n][i].far = <<m, j>>,
           NEW k \in Node, NEW l \in 1..last[k],
           NEW c, c = Taken(n, i)[k][l]
    PROVE  /\ c.far = conn[k][l].far /\ c.est = conn[k][l].est
           /\ c.out = conn[k][l].out
           /\ (k # m \/ l # j) => c.wire = conn[k][l].wire
           /\ (k = m /\ l = j) => c.wire = Tail(conn[k][l].wire)
<1>0. TypeInv /\ conn[n][i].far[1] = m /\ conn[n][i].far[2] = j
  BY Known
<1>1. c = IF k = m /\ l = j
          THEN [conn[k][l] EXCEPT !.wire = Tail(@)] ELSE conn[k][l]
  <2>1. DOMAIN conn = Node /\ \A a \in Node : DOMAIN conn[a] = 1..last[a]
    BY <1>0, NodeTyped DEF TypeInv, EndsTyped
  <2>2. Taken(n, i) = [conn EXCEPT ![m][j].wire = Tail(@)]
    BY <1>0 DEF Taken
  <2>3. CASE k = m
    <3>1. Taken(n, i)[m] = [conn[m] EXCEPT ![j].wire = Tail(@)]
      BY <2>1, <2>2, <2>3
    <3> QED BY <2>1, <2>3, <3>1
  <2>4. CASE k # m
    BY <2>1, <2>2, <2>4
  <2> QED BY <2>3, <2>4
<1>2. conn[k][l] \in Conn
  BY <1>0, FarIs
<1> QED BY <1>1, <1>2 DEF Conn

\* From ends e to ends f some clients in D are sent more.
Sending(e, f, D) ==
    /\ DOMAIN f = DOMAIN e
    /\ \A l \in DOMAIN e :
          /\ f[l].far = e[l].far /\ f[l].est = e[l].est /\ f[l].wire = e[l].wire
          /\ \/ f[l].out = e[l].out
             \/ /\ l \in D /\ f[l].out # <<>>
                /\ e[l].out # <<>> => Head(f[l].out) = Head(e[l].out)

LEMMA SendingNothing ==
    ASSUME NEW e, NEW D
    PROVE  Sending(e, e, D)
BY DEF Sending

LEMMA SendingTwice ==
    ASSUME NEW e, NEW f, NEW g, NEW D, Sending(e, f, D), Sending(f, g, D)
    PROVE  Sending(e, g, D)
BY DEF Sending

LEMMA SentSends ==
    ASSUME NEW N, NEW e \in [1..N -> Conn], NEW t, NEW sink, NEW f \in Frame,
           NEW D, NetRecipients(t, sink, Blank) \subseteq D
    PROVE  Sending(e, Sent(e, t, sink, f), D)
<1>1. PICK g : g = Sent(e, t, sink, f)
  OBVIOUS
<1>2. DOMAIN g = DOMAIN e
  BY <1>1 DEF Sent
<1>3. ASSUME NEW l \in DOMAIN e
      PROVE  /\ g[l].far = e[l].far /\ g[l].est = e[l].est
             /\ g[l].wire = e[l].wire
             /\ \/ g[l].out = e[l].out
                \/ /\ l \in D /\ g[l].out # <<>>
                   /\ e[l].out # <<>> => Head(g[l].out) = Head(e[l].out)
  <2>1. g[l] = IF l \in NetRecipients(t, sink, Blank)
               THEN [e[l] EXCEPT !.out = Append(@, f)] ELSE e[l]
    BY <1>1 DEF Sent
  <2>2. CASE l \in NetRecipients(t, sink, Blank)
    <3>1. g[l] = [e[l] EXCEPT !.out = Append(@, f)]
      BY <2>1, <2>2
    <3>2. e[l] \in Conn
      OBVIOUS
    <3>3. /\ g[l].far = e[l].far /\ g[l].est = e[l].est
          /\ g[l].wire = e[l].wire /\ g[l].out = Append(e[l].out, f)
      BY <3>1, <3>2 DEF Conn
    <3>4. e[l].out \in Seq(Frame)
      BY <3>2 DEF Conn
    <3>5. /\ Append(e[l].out, f) # <<>>
          /\ e[l].out # <<>> => Head(Append(e[l].out, f)) = Head(e[l].out)
      BY <3>4, AppendKeeps
    <3> QED BY <2>2, <3>3, <3>5
  <2>3. CASE l \notin NetRecipients(t, sink, Blank)
    BY <2>1, <2>3
  <2> QED BY <2>2, <2>3
<1> QED BY <1>1, <1>2, <1>3 DEF Sending

\* The clients of n that may be sent something while i is served.
Served(n, i) == {l \in DOMAIN tbl[n] : l = i \/ ~ Newcomer(n, l)}

LEMMA TakesFrom ==
    ASSUME KnownInv, NEW n \in Node, NEW i \in DOMAIN tbl[n],
           pc[n] = "request", Inbox(n, i) # <<>>,
           NEW m, NEW j, conn[n][i].far = <<m, j>>,
           UNCHANGED <<up, last, pend, pc>>,
           \A k \in Node \ {n} : tbl'[k] = tbl[k],
           DOMAIN tbl'[n] = DOMAIN tbl[n],
           \A l \in DOMAIN tbl[n] :
              \/ tbl'[n][l] = tbl[n][l] /\ (l = i => ~ Newcomer(n, l))
              \/ /\ tbl'[n][l].kind = tbl[n][l].kind /\ tbl'[n][l].key \in Named
                 /\ tbl'[n][l].reg /\ ~ tbl'[n][l].shut
                 /\ l = i \/ tbl[n][l].reg,
           NEW e, Sending(Taken(n, i)[n], e, Served(n, i)),
           conn'[n] = e, \A k \in Node \ {n} : conn'[k] = Taken(n, i)[k]
    PROVE  Takes(n, i, m, j)
<1>0. TypeInv /\ i \in 1..last[n] /\ m # n
  BY Known, Reader
<1>1. /\ DOMAIN Taken(n, i) = Node
      /\ \A k \in Node : DOMAIN Taken(n, i)[k] = 1..last[k]
  BY <1>0, TakenIs
<1>2. ASSUME NEW k \in Node, NEW l \in 1..last[k]
      PROVE  /\ conn'[k][l].far = conn[k][l].far
             /\ conn'[k][l].est = conn[k][l].est
             /\ (k # m \/ l # j) => conn'[k][l].wire = conn[k][l].wire
             /\ k # n => conn'[k][l].out = conn[k][l].out
             /\ k = n => \/ conn'[n][l].out = conn[n][l].out
                         \/ /\ l \in Served(n, i) /\ conn'[n][l].out # <<>>
                            /\ conn[n][l].out # <<>> =>
                                 Head(conn'[n][l].out) = Head(conn[n][l].out)
  <2>1. PICK c : c = Taken(n, i)[k][l]
    OBVIOUS
  <2>2. /\ c.far = conn[k][l].far /\ c.est = conn[k][l].est
        /\ c.out = conn[k][l].out
        /\ (k # m \/ l # j) => c.wire = conn[k][l].wire
    BY <1>0, <2>1, TakenAt
  <2>3. CASE k # n
    BY <2>1, <2>2, <2>3
  <2>4. CASE k = n
    <3>1. conn'[n][l] = e[l] /\ c = Taken(n, i)[n][l]
      BY <2>1, <2>4
    <3>2. l \in DOMAIN Taken(n, i)[n]
      BY <1>1, <2>4
    <3>3. /\ e[l].far = c.far /\ e[l].est = c.est /\ e[l].wire = c.wire
          /\ \/ e[l].out = c.out
             \/ /\ l \in Served(n, i) /\ e[l].out # <<>>
                /\ c.out # <<>> => Head(e[l].out) = Head(c.out)
      BY <3>1, <3>2 DEF Sending
    <3> QED BY <2>2, <2>4, <3>1, <3>3
  <2> QED BY <2>3, <2>4
<1>3. \A l \in 1..last[n] :
         \/ conn'[n][l].out = conn[n][l].out
         \/ /\ l \in DOMAIN tbl[n] /\ (l = i \/ ~ Newcomer(n, l))
            /\ conn'[n][l].out # <<>>
            /\ conn[n][l].out # <<>> =>
                 Head(conn'[n][l].out) = Head(conn[n][l].out)
  BY <1>2 DEF Served
<1> QED BY <1>2, <1>3 DEF Takes

\* A frame that changes no client.
LEMMA TakesIdle ==
    ASSUME KnownInv, NEW n \in Node, NEW i \in DOMAIN tbl[n],
           pc[n] = "request", Inbox(n, i) # <<>>, ~ Newcomer(n, i),
           UNCHANGED <<up, last, pend, pc, tbl>>, conn' = Taken(n, i),
           NEW m, NEW j, conn[n][i].far = <<m, j>>
    PROVE  Takes(n, i, m, j)
<1>1. Sending(Taken(n, i)[n], Taken(n, i)[n], Served(n, i))
  BY SendingNothing
<1> QED BY <1>1, TakesFrom

LEMMA TakeSubKnown ==
    ASSUME KnownInv, TypeInv', NEW n \in Node, NEW i, TakeSub(n, i)
    PROVE  KnownInv'
<1>1. Visit(n, i) /\ TypeInv
  BY Known DEF TakeSub
<1>2. /\ i \in DOMAIN tbl[n] /\ i \in 1..last[n] /\ pc[n] = "request"
      /\ UNCHANGED <<up, last, pend, pc>>
  BY <1>1, VisitIs, Visited DEF Still
<1>3. /\ Inbox(n, i) # <<>> /\ Head(Inbox(n, i)) = Sub
      /\ conn' = Taken(n, i) /\ tbl' = tbl
  BY DEF TakeSub
<1>4. PICK m, j : conn[n][i].far = <<m, j>>
  BY <1>1, <1>2, FarIs
<1>5. /\ j # 0 /\ conn[m][j].wire = Inbox(n, i)
      /\ Newcomer(n, i) => Head(Inbox(n, i)) = 0
  BY <1>2, <1>3, <1>4, Reader
<1>6. ~ Newcomer(n, i)
  <2>1. Sub # 0
    BY HandshakeAssumption
  <2> QED BY <1>3, <1>5, <2>1
<1>7. Takes(n, i, m, j)
  BY <1>2, <1>3, <1>4, <1>6, TakesIdle
<1> QED BY <1>2, <1>3, <1>4, <1>5, <1>7, TakesKnown

\* The null pointer is not met: number 2 comes from a client that is found.
LEMMA TakeNothingKnown ==
    ASSUME KnownInv, TypeInv', NEW n \in Node, NEW i, TakeNothing(n, i)
    PROVE  KnownInv'
<1>0. TypeInv
  BY Known
<1>1. /\ UNCHANGED <<up, last, pend, tbl>> /\ pc[n] = "request"
      /\ i \in First(todo[n]) /\ Inbox(n, i) # <<>> /\ conn' = Taken(n, i)
  BY <1>0, TakeNothingIs DEF Still
<1>2. i \in DOMAIN tbl[n] /\ i \in 1..last[n]
  BY <1>0, <1>1, Visited
<1>3. PICK m, j : conn[n][i].far = <<m, j>>
  BY <1>0, <1>2, FarIs
<1>4. /\ j # 0 /\ conn[m][j].wire = Inbox(n, i) /\ ~ tbl[n][i].shut
      /\ Newcomer(n, i) => Head(Inbox(n, i)) = 0
  BY <1>1, <1>2, <1>3, Reader
<1>5. /\ ~ InitRegisters(tbl[n], i, Head(Inbox(n, i)))
      /\ pc' = [pc EXCEPT ![n] = IF InitCrashes(tbl[n], i, Head(Inbox(n, i)))
                                 THEN "dead" ELSE @]
  BY DEF TakeNothing
<1>6. Newcomer(n, i) <=> Find(tbl[n], tbl[n][i].key) = {}
  BY <1>2, <1>4, Unknown
<1>7. ~ Newcomer(n, i)
  BY <1>4, <1>5, <1>6 DEF InitRegisters
<1>8. ~ InitCrashes(tbl[n], i, Head(Inbox(n, i)))
  BY <1>6, <1>7 DEF InitCrashes
<1>9. pc' = pc
  BY <1>0, <1>5, <1>8 DEF TypeInv, TypeOK
<1>10. Takes(n, i, m, j)
  BY <1>1, <1>2, <1>3, <1>7, <1>9, TakesIdle
<1> QED BY <1>1, <1>2, <1>3, <1>4, <1>10, TakesKnown

\* Answers go to clients that are registered afterwards.
LEMMA Answered ==
    ASSUME KnownInv, NEW n \in Node, NEW i, NEW new, NEW sink \in Named,
           DOMAIN new = DOMAIN tbl[n],
           \A l \in DOMAIN new :
              l = i \/ new[l] = tbl[n][l] \/ ~ Newcomer(n, l),
           NEW a \in DOMAIN new, new[a].kind = "net", new[a].key = sink
    PROVE  NetRecipients(new, sink, Blank) \subseteq Served(n, i)
<1>1. sink # Blank
  BY NamedIs
<1>2. \A l \in NetRecipients(new, sink, Blank) :
         l \in DOMAIN new /\ new[l].key = sink
  BY <1>1, Recipients
<1>3. ASSUME NEW l \in DOMAIN new, new[l].key = sink
      PROVE  l \in Served(n, i)
  <2>1. CASE l = i \/ ~ Newcomer(n, l)
    BY <2>1 DEF Served
  <2>2. CASE new[l] = tbl[n][l] /\ Newcomer(n, l)
    <3>1. tbl[n][l].key \notin Named
      BY <2>2, NewcomerKey
    <3> QED BY <1>3, <2>2, <3>1
  <2> QED BY <2>1, <2>2
<1> QED BY <1>2, <1>3

\* A newcomer is the only client with its key.
LEMMA NewcomerAlone ==
    ASSUME KnownInv, NEW n \in Node, NEW i \in DOMAIN tbl[n], Newcomer(n, i),
           NEW t \in DOMAIN tbl[n], tbl[n][t].key = tbl[n][i].key
    PROVE  t = i
<1>0. TypeInv /\ t \in 1..last[n] /\ i \in 1..last[n]
  BY Known
<1>1. PICK m, j : conn[n][i].far = <<m, j>>
  BY <1>0, FarIs
<1>2. tbl[n][i].key = <<m, j>> /\ tbl[n][i].key \notin Named /\ j # 0
  <2>1. conn[n][i].far[2] = j
    BY <1>1
  <2> QED BY <1>1, <2>1, NewcomerKey
<1>3. Newcomer(n, t)
  <2>1. CliInv(n, t)
    BY Known
  <2> QED BY <1>2, <2>1 DEF CliInv, Newcomer
<1>4. conn[n][t].far = <<m, j>>
  BY <1>2, <1>3, NewcomerKey
<1>5. conn[m][j].far = <<n, i>>
  <2>1. i \in 1..last[n] /\ j # 0
    BY <1>0, <1>2
  <2> QED BY ONLY KnownInv, n \in Node, <1>1, <2>1, FarBack
<1>6. conn[m][j].far = <<n, t>>
  <2>1. t \in 1..last[n] /\ j # 0
    BY <1>0, <1>2
  <2> QED BY ONLY KnownInv, n \in Node, <1>4, <2>1, FarBack
<1> QED BY <1>5, <1>6

LEMMA TakeRegisterKnown ==
    ASSUME KnownInv, TypeInv', NEW n \in Node, NEW i, TakeRegister(n, i)
    PROVE  KnownInv'
<1>0. TypeInv /\ DOMAIN tbl = Node
  BY Known DEF TypeInv
<1>1. /\ Visit(n, i) /\ Inbox(n, i) # <<>>
      /\ Find(tbl[n], tbl[n][i].key) = {}
  BY <1>0, TakeRegisterIs DEF IsInit, InitRegisters
<1>2. /\ i \in DOMAIN tbl[n] /\ i \in 1..last[n] /\ pc[n] = "request"
      /\ UNCHANGED <<up, last, pend, pc>>
  BY <1>0, <1>1, VisitIs, Visited DEF Still
<1>3. PICK t \in DOMAIN tbl[n] : RegisterStep(n, i, t)
  BY <1>0, TakeRegisterIs
<1>4. PICK m, j : conn[n][i].far = <<m, j>>
  BY <1>0, <1>2, FarIs
<1>5. j # 0 /\ conn[m][j].wire = Inbox(n, i) /\ ~ tbl[n][i].shut
  BY <1>1, <1>2, <1>4, Reader
<1>6. Newcomer(n, i)
  BY <1>1, <1>2, <1>5, Unknown
<1>7. t = i
  <2>1. tbl[n][t].key = tbl[n][i].key
    BY <1>3 DEF RegisterStep, FindUnregistered, First
  <2> QED BY <1>2, <1>6, <2>1, NewcomerAlone
<1>8. PICK c : c = Registered(tbl[n][i], Self)
  OBVIOUS
<1>9. c.kind = "net" /\ c.reg /\ ~ c.shut /\ c.key = Self
  <2>1. tbl[n][i] \in Client(Key, {0, 1}, 0..9) /\ CliInv(n, i)
    BY <1>0, <1>2, ClientIs, Known
  <2> QED BY <1>5, <1>8, <2>1 DEF Registered, Client, CliInv
<1>10. PICK new : new = [tbl[n] EXCEPT ![i] = c]
  OBVIOUS
<1>11. PICK e : e = Sent(Taken(n, i)[n], new, new[i].key, 1)
  OBVIOUS
<1>12. /\ tbl' = [tbl EXCEPT ![n] = new]
       /\ conn' = [Taken(n, i) EXCEPT ![n] = e]
  BY <1>3, <1>7, <1>8, <1>10, <1>11 DEF RegisterStep
<1>13. /\ DOMAIN Taken(n, i) = Node
       /\ Taken(n, i)[n] \in [1..last[n] -> Conn]
  BY <1>0, <1>1, <1>2, TakenIs
<1>14. /\ DOMAIN new = DOMAIN tbl[n] /\ new[i] = c
       /\ \A l \in DOMAIN tbl[n] : l # i => new[l] = tbl[n][l]
  BY <1>2, <1>10
<1>15. /\ tbl'[n] = new /\ conn'[n] = e
       /\ \A k \in Node \ {n} : tbl'[k] = tbl[k] /\ conn'[k] = Taken(n, i)[k]
  BY <1>0, <1>12, <1>13
<1>16. Sending(Taken(n, i)[n], e, Served(n, i))
  <2>1. Self \in Named /\ 1 \in Frame
    BY DEF Named, Frame
  <2>2. NetRecipients(new, new[i].key, Blank) \subseteq Served(n, i)
    BY <1>2, <1>9, <1>14, <2>1, Answered
  <2> QED BY <1>11, <1>13, <2>1, <2>2, SentSends
<1>17. \A l \in DOMAIN tbl[n] :
          \/ tbl'[n][l] = tbl[n][l] /\ (l = i => ~ Newcomer(n, l))
          \/ /\ tbl'[n][l].kind = tbl[n][l].kind /\ tbl'[n][l].key \in Named
             /\ tbl'[n][l].reg /\ ~ tbl'[n][l].shut
             /\ l = i \/ tbl[n][l].reg
  <2>1. CliInv(n, i) /\ Self \in Named
    BY <1>2, Known DEF Named
  <2> QED BY <1>9, <1>14, <1>15, <2>1 DEF CliInv
<1>18. Takes(n, i, m, j)
  BY <1>1, <1>2, <1>4, <1>14, <1>15, <1>16, <1>17, TakesFrom
<1> QED BY <1>1, <1>2, <1>4, <1>5, <1>18, TakesKnown

LEMMA TakeAdvanceKnown ==
    ASSUME KnownInv, TypeInv', NEW n \in Node, NEW i, TakeAdvance(n, i)
    PROVE  KnownInv'
<1>0. TypeInv /\ DOMAIN tbl = Node
  BY Known DEF TypeInv
<1>1. Visit(n, i) /\ Inbox(n, i) # <<>> /\ IsInit(n, i)
  BY <1>0, TakeAdvanceIs DEF IsInit
<1>2. /\ i \in DOMAIN tbl[n] /\ i \in 1..last[n] /\ pc[n] = "request"
      /\ UNCHANGED <<up, last, pend, pc>>
  BY <1>0, <1>1, VisitIs, Visited DEF Still
<1>3. PICK s : s = Head(Inbox(n, i))
  OBVIOUS
<1>4. PICK t \in DOMAIN tbl[n] : AdvanceStep(n, i, t, s)
  BY <1>0, <1>3, TakeAdvanceIs
<1>5. PICK m, j : conn[n][i].far = <<m, j>>
  BY <1>0, <1>2, FarIs
<1>6. j # 0 /\ conn[m][j].wire = Inbox(n, i) /\ ~ tbl[n][i].shut
  BY <1>1, <1>2, <1>5, Reader
<1>7. t \in Find(tbl[n], tbl[n][i].key)
  BY <1>4 DEF AdvanceStep, InitAdvances
<1>8. /\ tbl[n][t].key = tbl[n][i].key /\ tbl[n][t].key \in Named
      /\ tbl[n][t].reg /\ ~ tbl[n][t].shut
  <2>1. PICK key : key = tbl[n][i].key
    OBVIOUS
  <2>2. /\ tbl[n][t].key = key /\ key \in Named
        /\ tbl[n][t].reg /\ ~ tbl[n][t].shut
    BY <1>7, <2>1, FoundIs
  <2> QED BY <2>1, <2>2
<1>9. ~ Newcomer(n, i)
  BY <1>2, <1>6, <1>7, Unknown
<1>10. PICK c : c = Advanced(tbl[n][t], s, Self)
  OBVIOUS
<1>11. c.kind = "net" /\ c.reg /\ ~ c.shut /\ c.key \in Named
  <2>1. tbl[n][t] \in Client(Key, {0, 1}, 0..9) /\ CliInv(n, t)
    BY <1>0, ClientIs, Known
  <2>2. Self \in Named
    BY DEF Named
  <2>3. /\ c.kind = tbl[n][t].kind /\ c.shut = tbl[n][t].shut
        /\ c.reg = (tbl[n][t].reg \/ s = 1)
        /\ c.key = IF s = 1 THEN Self ELSE tbl[n][t].key
    BY <1>10, <2>1 DEF Advanced, Client
  <2> QED BY <1>8, <2>1, <2>2, <2>3 DEF CliInv
<1>12. PICK new : new = [tbl[n] EXCEPT ![t] = c]
  OBVIOUS
<1>13. PICK e1 : e1 = IF s \in {4, 5}
                      THEN Sent(Taken(n, i)[n], new, new[t].key, Sub)
                      ELSE Taken(n, i)[n]
  OBVIOUS
<1>14. PICK e2 : e2 = IF InitReplies(s)
                      THEN Sent(e1, new, new[i].key, s + 1) ELSE e1
  OBVIOUS
<1>15. /\ tbl' = [tbl EXCEPT ![n] = new]
       /\ conn' = [Taken(n, i) EXCEPT ![n] = e2]
  BY <1>4, <1>10, <1>12, <1>13, <1>14 DEF AdvanceStep
<1>16. /\ DOMAIN Taken(n, i) = Node
       /\ Taken(n, i)[n] \in [1..last[n] -> Conn]
  BY <1>0, <1>1, <1>2, TakenIs
<1>17. /\ DOMAIN new = DOMAIN tbl[n] /\ new[t] = c
       /\ \A l \in DOMAIN tbl[n] : l # t => new[l] = tbl[n][l]
  BY <1>12
<1>18. /\ tbl'[n] = new /\ conn'[n] = e2
       /\ \A k \in Node \ {n} : tbl'[k] = tbl[k] /\ conn'[k] = Taken(n, i)[k]
  BY <1>0, <1>15, <1>16
<1>19. \A l \in DOMAIN new :
          l = i \/ new[l] = tbl[n][l] \/ ~ Newcomer(n, l)
  BY <1>8, <1>17 DEF Newcomer
<1>20. /\ new[i].kind = "net" /\ new[i].key \in Named
  <2>1. CliInv(n, i)
    BY <1>2, Known
  <2> QED BY <1>2, <1>8, <1>11, <1>17, <2>1 DEF CliInv
<1>21. Sending(Taken(n, i)[n], e1, Served(n, i)) /\ e1 \in [1..last[n] -> Conn]
  <2>1. CASE s \in {4, 5}
    <3>1. e1 = Sent(Taken(n, i)[n], new, new[t].key, Sub) /\ Sub \in Frame
      BY <1>13, <2>1 DEF Frame
    <3>2. NetRecipients(new, new[t].key, Blank) \subseteq Served(n, i)
      BY <1>11, <1>17, <1>19, Answered
    <3> QED BY <1>16, <3>1, <3>2, SentSends, SentTyped
  <2>2. CASE s \notin {4, 5}
    BY <1>13, <1>16, <2>2, SendingNothing
  <2> QED BY <2>1, <2>2
<1>22. Sending(Taken(n, i)[n], e2, Served(n, i))
  <2>1. CASE InitReplies(s)
    <3>1. e2 = Sent(e1, new, new[i].key, s + 1) /\ s + 1 \in Frame
      BY <1>14, <2>1 DEF Frame, InitReplies
    <3>2. NetRecipients(new, new[i].key, Blank) \subseteq Served(n, i)
      BY <1>2, <1>17, <1>19, <1>20, Answered
    <3>3. Sending(e1, e2, Served(n, i))
      BY <1>21, <3>1, <3>2, SentSends
    <3> QED BY <1>21, <3>3, SendingTwice
  <2>2. CASE ~ InitReplies(s)
    BY <1>14, <1>21, <2>2
  <2> QED BY <2>1, <2>2
<1>23. \A l \in DOMAIN tbl[n] :
          \/ tbl'[n][l] = tbl[n][l] /\ (l = i => ~ Newcomer(n, l))
          \/ /\ tbl'[n][l].kind = tbl[n][l].kind /\ tbl'[n][l].key \in Named
             /\ tbl'[n][l].reg /\ ~ tbl'[n][l].shut
             /\ l = i \/ tbl[n][l].reg
  <2>1. CliInv(n, t)
    BY Known
  <2> QED BY <1>8, <1>9, <1>11, <1>17, <1>18, <2>1 DEF CliInv
<1>24. Takes(n, i, m, j)
  BY <1>1, <1>2, <1>5, <1>17, <1>18, <1>22, <1>23, TakesFrom
<1> QED BY <1>1, <1>2, <1>5, <1>6, <1>24, TakesKnown

-----------------------------------------------------------------------------
LEMMA KnownInit == Init => KnownInv
<1> SUFFICES ASSUME Init PROVE KnownInv
  OBVIOUS
<1>1. TypeInv
  BY TypeInit
<1>2. ASSUME NEW n \in Node
      PROVE  /\ pc[n] = "bcast" /\ pend[n] = <<>>
             /\ DOMAIN tbl[n] = {} /\ 1..last[n] = {}
  BY <1>2 DEF Init, None
<1>3. ASSUME NEW n \in Node
      PROVE  DownInv(n) /\ PendInv(n)
  <2>1. DOMAIN pend[n] = {}
    <3>1. DOMAIN <<>> = {}
      OBVIOUS
    <3> QED BY <1>2, <3>1
  <2> QED BY <1>2, <2>1 DEF DownInv, PendInv
<1> QED BY <1>1, <1>2, <1>3 DEF KnownInv

LEMMA KnownStep == KnownInv /\ [Next]_vars => KnownInv'
<1> SUFFICES ASSUME KnownInv, [Next]_vars PROVE KnownInv'
  OBVIOUS
<1>0. TypeInv /\ TypeInv'
  BY TypeStep DEF KnownInv
<1>1. CASE UNCHANGED vars
  <2>1. UNCHANGED <<tbl, last, conn, pend, up, pc>>
    BY <1>1 DEF vars
  <2>2. \A k \in Node : pc[k] # "dead"
    BY Known
  <2> QED BY <1>0, <2>1, <2>2, QuietKnown
<1>2. ASSUME NEW n \in Node, Boot(n) \/ Crash(n)
      PROVE  KnownInv'
  BY <1>0, <1>2, WaitKnown, CrashKnown
<1>3. ASSUME NEW n \in Node, Loop(n)
      PROVE  KnownInv'
  <2>1. ASSUME NEW i, Take(n, i)
        PROVE  KnownInv'
    BY <1>0, <2>1, TakeSubKnown, TakeRegisterKnown, TakeAdvanceKnown,
       TakeNothingKnown DEF Take
  <2>2. ASSUME NEW m \in Node \ {n}, Connect(n, m)
        PROVE  KnownInv'
    BY <1>0, <2>2, ConnectKnown
  <2> QED BY <1>0, <1>3, <2>1, <2>2, WaitKnown, SocketKnown, AcceptKnown,
             VerifyKnown DEF Loop
<1>4. ASSUME NEW n \in Node, NEW i \in 1..last[n], Establish(n, i)
      PROVE  KnownInv'
  BY <1>0, <1>4, EstablishKnown
<1> QED BY <1>1, <1>2, <1>3, <1>4 DEF Next

\* No daemon dies by number 2 of the handshake, for which txop_init_recv
\* (init.c:312) writes to the client without a test, however many daemons
\* there are and whatever is lost or reordered: a client nobody registered
\* reads a 0 first, and nothing reaches one dropped as a duplicate.
THEOREM NullNeverReached == Spec => []InitNeverUnknown
<1>1. KnownInv => InitNeverUnknown
  BY DEF KnownInv, InitNeverUnknown
<1> QED BY <1>1, KnownInit, KnownStep, PTL DEF Spec

-----------------------------------------------------------------------------
(* One daemon of two hears the other.                                       *)
(*                                                                          *)
(* A daemon announces itself when it starts, to those that run.  So of two  *)
(* daemons only the one that was first has announcements to act on, and all *)
(* connections of the two that exist at a time are opened by one of them,   *)
(* unless a daemon was started again in between.                            *)

\* Of two daemons, at most one has announcements of the other to act on.
OneHears ==
    \A n, m \in Node : n # m => ann[n][m] = 0 \/ ann[m][n] = 0

\* ... and a daemon that does not run has none.
HearsInv ==
    /\ TypeInv
    /\ OneHears
    /\ \A n, m \in Node : ~ up[n] => ann[n][m] = 0

LEMMA HearsStep == HearsInv /\ [Next]_vars => HearsInv'
<1> SUFFICES ASSUME HearsInv, [Next]_vars PROVE HearsInv'
  OBVIOUS
<1>0. TypeInv /\ TypeInv'
  BY TypeStep DEF HearsInv
<1>t. /\ up \in [Node -> BOOLEAN] /\ ann \in [Node -> [Node -> Nat]]
  BY <1>0 DEF TypeInv, TypeOK
<1>1. ASSUME up' = up, \A n, m \in Node : ann[n][m] = 0 => ann'[n][m] = 0
      PROVE  HearsInv'
  BY <1>0, <1>1 DEF HearsInv, OneHears
<1>2. ASSUME NEW k \in Node, Boot(k)
      PROVE  HearsInv'
  <2>1. /\ ~ up[k] /\ up' = [up EXCEPT ![k] = TRUE]
    BY <1>2 DEF Boot
  <2>2. \A n, m \in Node :
           ann'[n][m] = ann[n][m] \/ (m = k /\ n # k /\ up[n])
    <3>1. PICK got \in [{m \in Node \ {k} : up[m]} -> 0..Interfaces] :
             ann' = [m \in Node |-> IF m \in DOMAIN got
                                    THEN [ann[m] EXCEPT ![k] = @ + got[m]]
                                    ELSE ann[m]]
      BY <1>2 DEF Boot
    <3> QED BY <1>t, <3>1
  <2>3. \A m \in Node : ann[k][m] = 0
    BY <2>1 DEF HearsInv
  <2>4. OneHears'
    <3>1. ASSUME NEW n \in Node, NEW m \in Node, n # m
          PROVE  ann'[n][m] = 0 \/ ann'[m][n] = 0
      <4>1. CASE n # k /\ m # k
        BY <2>2, <3>1, <4>1 DEF HearsInv, OneHears
      <4>2. CASE n = k
        BY <2>2, <2>3, <3>1, <4>2
      <4>3. CASE m = k
        BY <2>2, <2>3, <3>1, <4>3
      <4> QED BY <4>1, <4>2, <4>3
    <3> QED BY <3>1 DEF OneHears
  <2>5. \A n, m \in Node : ~ up'[n] => ann'[n][m] = 0
    BY <1>t, <2>1, <2>2 DEF HearsInv
  <2> QED BY <1>0, <2>4, <2>5 DEF HearsInv
<1>3. ASSUME NEW k \in Node, Crash(k)
      PROVE  HearsInv'
  <2>1. /\ up' = [up EXCEPT ![k] = FALSE]
        /\ ann' = [ann EXCEPT ![k] = [m \in Node |-> 0]]
    BY <1>3 DEF Crash
  <2> QED BY <1>0, <1>t, <2>1 DEF HearsInv, OneHears
<1>4. ASSUME NEW k \in Node, NEW o \in Node, Connect(k, o)
      PROVE  HearsInv'
  <2>1. /\ ann[k][o] > 0 /\ up' = up /\ ann' = [ann EXCEPT ![k][o] = @ - 1]
    BY <1>4 DEF Connect
  <2>2. \A n, m \in Node : ann[n][m] = 0 => ann'[n][m] = 0
    BY <1>t, <2>1
  <2> QED BY <1>1, <2>1, <2>2
<1>5. ASSUME UNCHANGED <<up, ann>>
      PROVE  HearsInv'
  BY <1>1, <1>5
<1>6. ASSUME NEW k \in Node, Loop(k)
      PROVE  HearsInv'
  <2>1. CASE \E o \in Node \ {k} : Connect(k, o)
    BY <1>4, <2>1
  <2>2. CASE ~ (\E o \in Node \ {k} : Connect(k, o))
    <3>1. UNCHANGED <<up, ann>>
      BY <1>6, <2>2 DEF Loop, NoBroadcast, Socket, Accept, Verify, Skip, Take,
         TakeSub, TakeRegister, TakeAdvance, TakeNothing, Visit, RequestDone
    <3> QED BY <1>5, <3>1
  <2> QED BY <2>1, <2>2
<1>7. CASE UNCHANGED vars
  BY <1>5, <1>7 DEF vars
<1>8. ASSUME NEW k \in Node, NEW i \in 1..last[k], Establish(k, i)
      PROVE  HearsInv'
  BY <1>5, <1>8 DEF Establish
<1> QED BY <1>2, <1>3, <1>6, <1>7, <1>8 DEF Next

\* Announcements do not cross: a daemon announces itself once, when it starts
\* (sharedaemon_bcast_send, sharedaemon.c:228), and those that ran already hear
\* it.  So of two daemons only one has the other to connect to at any time.
THEOREM OneSideHears == Spec => []OneHears
<1>1. Init => HearsInv
  <2> SUFFICES ASSUME Init PROVE HearsInv
    OBVIOUS
  <2>1. \A n, m \in Node : ann[n][m] = 0
    BY DEF Init
  <2> QED BY <2>1, TypeInit DEF HearsInv, OneHears
<1>2. HearsInv => OneHears
  BY DEF HearsInv
<1> QED BY <1>1, <1>2, HearsStep, PTL DEF Spec

-----------------------------------------------------------------------------
(* Two daemons keep a connection.                                           *)
(*                                                                          *)
(* Both close a connection for a newer one with the same key.  Daemon a,    *)
(* which was started first, opens them all; b accepts them in the order a   *)
(* opened them.  So the clients of a and of b have the same numbers, and    *)
(* both prefer the same connection, the newest: it is the newest client of  *)
(* each, and nothing but a newer client marks or closes a client whose far  *)
(* end is there.                                                            *)

\* Client i of n is open and not marked for shutdown.
Holds(n, i) ==
    /\ i \in DOMAIN tbl[n]
    /\ tbl[n][i].fd # 0
    /\ ~ tbl[n][i].shut

\* a was started first: b does not know of it and opens no connection.
Opens(a, b) ==
    /\ up[b] => up[a]
    /\ ann[b][a] = 0
    /\ pend[a] = <<>>
    /\ ~ up[b] => ann[a][b] = 0 /\ last[a] = 0

\* The connections of a are set up, wait at b and are accepted in order, and
\* none is closed before it is set up.
InOrder(a, b) ==
    LET made == last[b] + Len(pend[b])
    IN  /\ made <= last[a]
        /\ \A k \in DOMAIN pend[b] : pend[b][k] = <<a, last[b] + k>>
        /\ \A i \in 1..last[a] :
              /\ conn[a][i].far = IF i <= last[b] THEN <<b, i>> ELSE <<b, 0>>
              /\ conn[a][i].est <=> i <= made
              /\ ~ conn[a][i].est => i \in DOMAIN tbl[a] /\ tbl[a][i].fd # 0
        /\ \A i \in 1..last[b] : conn[b][i].far = <<a, i>>

\* The newest connection is open at a, and at b once it was accepted.
NewestHeld(a, b) ==
    /\ last[a] # 0 => Holds(a, last[a])
    /\ (last[a] # 0 /\ last[b] = last[a]) => Holds(b, last[b])

\* All that is said of two daemons, of which a was started first.
Couple(a, b) ==
    /\ a # b /\ Node = {a, b}
    /\ Opens(a, b) /\ InOrder(a, b) /\ NewestHeld(a, b)

\* The inductive invariant.  A daemon that runs has used its only start, so it
\* is not killed and started again.
PairInv ==
    /\ KnownInv
    /\ \A n \in Node : up[n] => boots[n] # 0
    /\ \E a, b \in Node : Couple(a, b)

\* A connection that neither end has closed is not gone.
LEMMA NewestThere ==
    ASSUME KnownInv, NEW a \in Node, NEW b \in Node, Couple(a, b), last[a] # 0
    PROVE  /\ up[a] /\ up[b]
           /\ ~ Gone(a, last[a])
           /\ last[b] = last[a] => ~ Gone(b, last[b])
<1>0. /\ TypeInv /\ last[a] \in Nat /\ last[b] \in Nat
      /\ last[a] \in 1..last[a]
  BY Known DEF TypeInv, TypeOK
<1>1. up[a] /\ up[b]
  <2>1. up[b]
    BY DEF Couple, Opens
  <2> QED BY <2>1 DEF Couple, Opens
<1>2. CASE last[b] = last[a]
  <2>1. conn[a][last[a]].far = <<b, last[b]>> /\ conn[b][last[b]].far = <<a, last[a]>>
    <3>1. /\ last[b] \in 1..last[b] /\ last[a] <= last[b]
          /\ conn[a][last[a]].far = IF last[a] <= last[b]
                                    THEN <<b, last[a]>> ELSE <<b, 0>>
      BY <1>0, <1>2 DEF Couple, InOrder
    <3>2. conn[b][last[b]].far = <<a, last[b]>>
      BY <3>1 DEF Couple, InOrder
    <3> QED BY <1>2, <3>1, <3>2
  <2>2. last[a] \in DOMAIN tbl[a] /\ last[b] \in DOMAIN tbl[b]
    BY <1>2 DEF Couple, NewestHeld, Holds
  <2> QED BY <1>0, <1>1, <1>2, <2>1, <2>2 DEF Gone
<1>3. CASE last[b] # last[a]
  <2>0. /\ pend[b] \in Seq(Ends) /\ DOMAIN pend[b] = 1..Len(pend[b])
        /\ Len(pend[b]) \in Nat
    BY <1>0, NodeTyped DEF PendTyped
  <2>1. last[b] + Len(pend[b]) <= last[a]
    BY DEF Couple, InOrder
  <2>2. ~ (last[a] <= last[b])
    BY <1>0, <1>3, <2>0, <2>1
  <2>3. /\ conn[a][last[a]].far = <<b, 0>>
        /\ conn[a][last[a]].est <=> last[a] <= last[b] + Len(pend[b])
    BY <1>0, <2>2 DEF Couple, InOrder
  <2>4. ASSUME conn[a][last[a]].est
        PROVE  \E k \in DOMAIN pend[b] : pend[b][k] = <<a, last[a]>>
    <3>1. PICK k \in Nat : last[a] = last[b] + k
      <4>1. \A x, y \in Nat : ~ (x <= y) => x - y \in Nat /\ x = y + (x - y)
        OBVIOUS
      <4> QED BY <1>0, <2>2, <4>1
    <3>2. k \in DOMAIN pend[b]
      BY <1>0, <2>0, <2>1, <2>2, <2>3, <2>4, <3>1
    <3> QED BY <3>1, <3>2 DEF Couple, InOrder
  <2> QED BY <1>1, <1>3, <2>3, <2>4 DEF Gone
<1> QED BY <1>1, <1>2, <1>3

\* The newest client of the daemon that opens is the one PairKept asks for.
LEMMA PairKeeps ==
    ASSUME PairInv
    PROVE  PairKept
<1> SUFFICES ASSUME NEW n \in Node, NEW m \in Node, n # m, up[n], up[m],
                    last[n] # 0 \/ last[m] # 0
             PROVE  \E x \in {<<n, m>>, <<m, n>>} :
                       \E i \in DOMAIN tbl[x[1]] :
                          /\ conn[x[1]][i].far[1] = x[2]
                          /\ ~ tbl[x[1]][i].shut
                          /\ ~ Gone(x[1], i)
  <2>1. \A k \in Node : last[k] \in Nat
    BY DEF PairInv, KnownInv, TypeInv, TypeOK
  <2> QED BY <2>1 DEF PairKept
<1>1. KnownInv
  BY DEF PairInv
<1>2. PICK a, b \in Node : Couple(a, b)
  BY DEF PairInv
<1>3. /\ TypeInv /\ last[a] \in Nat /\ last[b] \in Nat /\ Len(pend[b]) \in Nat
  <2>1. TypeInv /\ last[a] \in Nat /\ last[b] \in Nat
    BY <1>1, Known DEF TypeInv, TypeOK
  <2>2. pend[b] \in Seq(Ends)
    BY <2>1, NodeTyped DEF PendTyped
  <2> QED BY <2>1, <2>2
<1>4. <<a, b>> \in {<<n, m>>, <<m, n>>}
  <2>1. Node = {a, b}
    BY <1>2 DEF Couple
  <2>2. n \in {a, b} /\ m \in {a, b} /\ n # m
    BY <2>1
  <2> QED BY ONLY <2>2
<1>5. last[a] # 0
  <2>1. last[b] + Len(pend[b]) <= last[a]
    BY <1>2 DEF Couple, InOrder
  <2>2. last[a] # 0 \/ last[b] # 0
    <3>1. n \in {a, b} /\ m \in {a, b}
      BY <1>4
    <3> QED BY <3>1
  <2> QED BY ONLY <1>3, <2>1, <2>2
<1>6. last[a] \in DOMAIN tbl[a] /\ ~ tbl[a][last[a]].shut
  BY <1>2, <1>5 DEF Couple, NewestHeld, Holds
<1>7. ~ Gone(a, last[a])
  BY <1>1, <1>2, <1>5, NewestThere
<1>8. conn[a][last[a]].far[1] = b
  <2>1. conn[a][last[a]].far \in {<<b, last[a]>>, <<b, 0>>}
    <3>1. last[a] \in 1..last[a]
      BY <1>3, <1>5
    <3> QED BY <1>2, <3>1 DEF Couple, InOrder
  <2> QED BY <2>1
<1>9. PICK x : x = <<a, b>>
  OBVIOUS
<1>10. x[1] = a /\ x[2] = b /\ x \in {<<n, m>>, <<m, n>>}
  BY <1>4, <1>9
<1> QED BY <1>6, <1>7, <1>8, <1>10

\* No end gets another far end or is set up.
EndsKept ==
    \A k \in Node : \A l \in 1..last[k] :
       conn'[k][l].far = conn[k][l].far /\ conn'[k][l].est = conn[k][l].est

\* Most steps: no connection is made, set up or accepted, and no client closed
\* that must not be.
LEMMA CoupleStays ==
    ASSUME KnownInv, NEW a \in Node, NEW b \in Node, Couple(a, b),
           UNCHANGED <<up, ann, last, pend>>, EndsKept,
           \A i \in DOMAIN tbl[a] : ~ conn[a][i].est =>
              i \in DOMAIN tbl'[a] /\ tbl'[a][i].fd = tbl[a][i].fd,
           \A k \in Node : (last[k] # 0 /\ Holds(k, last[k])
                              /\ (k = b => last[b] = last[a])) =>
              /\ last[k] \in DOMAIN tbl'[k]
              /\ tbl'[k][last[k]].fd # 0 /\ ~ tbl'[k][last[k]].shut
    PROVE  Couple(a, b)'
<1>1. Opens(a, b)'
  BY DEF Couple, Opens
<1>2. InOrder(a, b)'
  <2>1. DOMAIN pend'[b] = DOMAIN pend[b] /\ Len(pend'[b]) = Len(pend[b])
    OBVIOUS
  <2>2. ASSUME NEW i \in 1..last[a]
        PROVE  /\ conn'[a][i].far = IF i <= last[b] THEN <<b, i>> ELSE <<b, 0>>
               /\ conn'[a][i].est <=> i <= last[b] + Len(pend[b])
               /\ ~ conn'[a][i].est => i \in DOMAIN tbl'[a] /\ tbl'[a][i].fd # 0
    BY DEF Couple, InOrder, EndsKept
  <2>3. \A i \in 1..last[b] : conn'[b][i].far = <<a, i>>
    BY DEF Couple, InOrder, EndsKept
  <2>4. /\ last[b] + Len(pend[b]) <= last[a]
        /\ \A k \in DOMAIN pend[b] : pend[b][k] = <<a, last[b] + k>>
    BY DEF Couple, InOrder
  <2> QED BY <2>1, <2>2, <2>3, <2>4 DEF InOrder
<1>3. NewestHeld(a, b)'
  <2>1. last'[a] = last[a] /\ last'[b] = last[b]
    OBVIOUS
  <2>2. last[a] # 0 => /\ last[a] \in DOMAIN tbl'[a]
                       /\ tbl'[a][last[a]].fd # 0 /\ ~ tbl'[a][last[a]].shut
    BY DEF Couple, NewestHeld
  <2>3. (last[a] # 0 /\ last[b] = last[a]) =>
            /\ last[b] \in DOMAIN tbl'[b]
            /\ tbl'[b][last[b]].fd # 0 /\ ~ tbl'[b][last[b]].shut
    BY DEF Couple, NewestHeld
  <2> QED BY <2>1, <2>2, <2>3 DEF NewestHeld, Holds
<1> QED BY <1>1, <1>2, <1>3 DEF Couple

\* The steps that leave the clients alone.
LEMMA QuietCouple ==
    ASSUME KnownInv, NEW a \in Node, NEW b \in Node, Couple(a, b),
           UNCHANGED <<up, ann, last, pend, tbl, conn>>
    PROVE  Couple(a, b)'
<1>1. EndsKept
  BY DEF EndsKept
<1>2. \A i \in DOMAIN tbl[a] : ~ conn[a][i].est =>
              i \in DOMAIN tbl'[a] /\ tbl'[a][i].fd = tbl[a][i].fd
  OBVIOUS
<1>3. \A k \in Node : Holds(k, last[k]) =>
              /\ last[k] \in DOMAIN tbl'[k]
              /\ tbl'[k][last[k]].fd # 0 /\ ~ tbl'[k][last[k]].shut
  BY DEF Holds
<1> QED BY <1>1, <1>2, <1>3, CoupleStays

\* Clients that are not ready to be closed.
LEMMA UnmadeThere ==
    ASSUME KnownInv, NEW a \in Node, NEW b \in Node, Couple(a, b),
           NEW i \in DOMAIN tbl[a], ~ conn[a][i].est
    PROVE  ~ Gone(a, i)
<1>0. TypeInv /\ last[a] \in Nat /\ i \in 1..last[a]
  BY Known DEF TypeInv, TypeOK
<1>1. up[b]
  <2>1. last[a] # 0
    BY <1>0
  <2> QED BY <2>1, NewestThere
<1>2. PICK m, j : conn[a][i].far = <<m, j>>
  BY <1>0, FarIs
<1>3. j = 0
  BY <1>0, <1>2, FarMade
<1>4. m = b
  <2>1. conn[a][i].far \in {<<b, i>>, <<b, 0>>}
    BY <1>0 DEF Couple, InOrder
  <2> QED BY <1>2, <2>1
<1> QED BY <1>1, <1>2, <1>3, <1>4 DEF Gone

\* Only a client whose far end is gone is closed on the end of its connection.
LEMMA SocketCouple ==
    ASSUME KnownInv, NEW a \in Node, NEW b \in Node, Couple(a, b),
           NEW n \in Node, Socket(n)
    PROVE  Couple(a, b)'
<1>0. TypeInv /\ DOMAIN tbl = Node /\ DOMAIN conn = Node
  BY Known DEF TypeInv
<1>1. PICK eof \in SUBSET SocketGone(n) :
         tbl' = [tbl EXCEPT ![n] = CloseEof(tbl[n], eof)]
  BY DEF Socket, SocketGone
<1>2. /\ conn' = [conn EXCEPT ![n] = Flushed(conn[n], SocketGone(n))]
      /\ UNCHANGED <<up, ann, last, pend>>
  BY DEF Socket, SocketGone
<1>3. EndsKept
  <2>1. Flushing(n, n, 0)
    <3>1. conn'[n] = Flushed(conn[n], SocketGone(n))
      BY <1>0, <1>2
    <3>2. \A k \in Node \ {n} : conn'[k] = conn[k]
      BY <1>2
    <3> QED BY <3>1, <3>2 DEF Flushing
  <2>2. ASSUME NEW k \in Node, NEW l \in 1..last[k]
        PROVE  /\ conn'[k][l].far = conn[k][l].far
               /\ conn'[k][l].est = conn[k][l].est
    <3>1. k # n \/ l # 0 \/ k = n
      OBVIOUS
    <3> QED BY <2>1, <3>1, FlushKeeps
  <2> QED BY <2>2 DEF EndsKept
<1>4. ASSUME NEW k \in Node, NEW i \in DOMAIN tbl[k], ~ Gone(k, i)
      PROVE  i \in DOMAIN tbl'[k] /\ tbl'[k][i] = tbl[k][i]
  <2>1. CASE k = n
    <3>1. tbl'[n] = CloseEof(tbl[n], eof)
      BY <1>0, <1>1
    <3>2. i \notin eof
      BY <1>1, <1>4, <2>1 DEF SocketGone
    <3> QED BY <2>1, <3>1, <3>2 DEF CloseEof
  <2>2. CASE k # n
    BY <1>0, <1>1, <2>2
  <2> QED BY <2>1, <2>2
<1>5. \A i \in DOMAIN tbl[a] : ~ conn[a][i].est =>
         i \in DOMAIN tbl'[a] /\ tbl'[a][i].fd = tbl[a][i].fd
  BY <1>4, UnmadeThere
<1>6. ASSUME NEW k \in Node, last[k] # 0, Holds(k, last[k]),
             k = b => last[b] = last[a]
      PROVE  /\ last[k] \in DOMAIN tbl'[k]
             /\ tbl'[k][last[k]].fd # 0 /\ ~ tbl'[k][last[k]].shut
  <2>1. k = a \/ k = b
    BY DEF Couple
  <2>2. ~ Gone(k, last[k])
    BY <1>6, <2>1, NewestThere
  <2> QED BY <1>4, <1>6, <2>2 DEF Holds
<1> QED BY <1>2, <1>3, <1>5, <1>6, CoupleStays

\* A duplicate is closed for a newer client only, and the newest is none.
LEMMA VerifyCouple ==
    ASSUME KnownInv, ~ Idle, NEW a \in Node, NEW b \in Node, Couple(a, b),
           NEW n \in Node, Verify(n)
    PROVE  Couple(a, b)'
<1>0. TypeInv /\ DOMAIN tbl = Node
  BY Known DEF TypeInv
<1>1. PICK D, S :
         /\ D = Marked(tbl[n], {})
         /\ S = {i \in DOMAIN tbl[n] :
                   \/ tbl[n][i].fd = 0
                   \/ (tbl[n][i].shut \/ i \in D) /\ conn[n][i].est}
  OBVIOUS
<1>2. /\ tbl' = [tbl EXCEPT ![n] = [i \in DOMAIN tbl[n] \ S |->
                   IF i \in D
                   THEN [tbl[n][i] EXCEPT !.shut = TRUE, !.reg = FALSE]
                   ELSE tbl[n][i]]]
      /\ Forget(n, S) /\ UNCHANGED <<up, ann, last, pend>>
  BY <1>1 DEF Verify
<1>3. /\ DOMAIN tbl'[n] = DOMAIN tbl[n] \ S
      /\ \A i \in DOMAIN tbl[n] \ S :
            tbl'[n][i] = IF i \in D
                         THEN [tbl[n][i] EXCEPT !.shut = TRUE, !.reg = FALSE]
                         ELSE tbl[n][i]
      /\ \A k \in Node \ {n} : tbl'[k] = tbl[k]
  BY <1>0, <1>2
<1>4. EndsKept
  BY <1>0, <1>2, ForgetKeeps DEF EndsKept
<1>5. ASSUME NEW i \in DOMAIN tbl[a], ~ conn[a][i].est
      PROVE  i \in DOMAIN tbl'[a] /\ tbl'[a][i].fd = tbl[a][i].fd
  <2>1. tbl[a][i].fd # 0
    <3>1. i \in 1..last[a]
      BY Known
    <3> QED BY <1>5, <3>1 DEF Couple, InOrder
  <2>2. tbl[a][i] \in Client(Key, {0, 1}, 0..9)
    BY <1>0, ClientIs
  <2>3. CASE a = n
    BY <1>1, <1>3, <1>5, <2>1, <2>2, <2>3 DEF Client
  <2>4. CASE a # n
    BY <1>3, <2>4
  <2> QED BY <2>3, <2>4
<1>6. ASSUME NEW k \in Node, Holds(k, last[k])
      PROVE  /\ last[k] \in DOMAIN tbl'[k]
             /\ tbl'[k][last[k]].fd # 0 /\ ~ tbl'[k][last[k]].shut
  <2>1. CASE k = n
    <3>1. last[n] \in DOMAIN tbl[n] /\ tbl[n][last[n]].fd # 0
          /\ ~ tbl[n][last[n]].shut
      BY <1>6, <2>1 DEF Holds
    <3>2. last[n] \notin D
      <4>1. last[n] \in Nat /\ \A j \in DOMAIN tbl[n] : j \in 1..last[n]
        BY <1>0, Known DEF TypeInv, TypeOK
      <4>2. \A j \in DOMAIN tbl[n] : ~ (j > last[n])
        BY <4>1
      <4> QED BY <1>1, <4>2 DEF Marked
    <3>3. last[n] \notin S
      BY <1>1, <3>1, <3>2
    <3> QED BY <1>3, <2>1, <3>1, <3>2, <3>3
  <2>2. CASE k # n
    BY <1>3, <1>6, <2>2 DEF Holds
  <2> QED BY <2>1, <2>2
<1> QED BY <1>2, <1>4, <1>5, <1>6, CoupleStays

\* Ends e and f have the same connections.
SameLinks(e, f) ==
    /\ DOMAIN f = DOMAIN e
    /\ \A l \in DOMAIN e : f[l].far = e[l].far /\ f[l].est = e[l].est

\* Sending changes no connection.
LEMMA SentLinks ==
    ASSUME NEW N, NEW e \in [1..N -> Conn], NEW t, NEW sink, NEW f
    PROVE  SameLinks(e, Sent(e, t, sink, f))
<1>1. PICK g : g = Sent(e, t, sink, f)
  OBVIOUS
<1>2. DOMAIN g = DOMAIN e
  BY <1>1 DEF Sent
<1>3. \A l \in DOMAIN e : g[l].far = e[l].far /\ g[l].est = e[l].est
  BY <1>1 DEF Sent, Conn
<1> QED BY <1>1, <1>2, <1>3 DEF SameLinks

\* A frame that is taken changes no connection.
LEMMA TakeKeepsEnds ==
    ASSUME KnownInv, NEW n \in Node, NEW i \in 1..last[n], Inbox(n, i) # <<>>,
           NEW e, SameLinks(Taken(n, i)[n], e),
           conn'[n] = e, \A k \in Node \ {n} : conn'[k] = Taken(n, i)[k]
    PROVE  EndsKept
<1>0. TypeInv
  BY Known
<1>1. PICK m, j : conn[n][i].far = <<m, j>>
  BY <1>0, FarIs
<1>2. /\ DOMAIN Taken(n, i) = Node
      /\ \A k \in Node : Taken(n, i)[k] \in [1..last[k] -> Conn]
  BY <1>0, TakenIs
<1>3. ASSUME NEW k \in Node, NEW l \in 1..last[k]
      PROVE  /\ conn'[k][l].far = conn[k][l].far
             /\ conn'[k][l].est = conn[k][l].est
  <2>1. /\ Taken(n, i)[k][l].far = conn[k][l].far
        /\ Taken(n, i)[k][l].est = conn[k][l].est
    BY <1>1, TakenAt
  <2>2. CASE k = n
    <3>1. l \in DOMAIN Taken(n, i)[n]
      BY <1>2, <2>2
    <3> QED BY <2>1, <2>2, <3>1 DEF SameLinks
  <2>3. CASE k # n
    BY <1>2, <2>1, <2>3
  <2> QED BY <2>2, <2>3
<1> QED BY <1>3 DEF EndsKept

\* The handshake marks and closes nobody.
LEMMA TakeCouple ==
    ASSUME KnownInv, NEW a \in Node, NEW b \in Node, Couple(a, b),
           NEW n \in Node, NEW i, Take(n, i)
    PROVE  Couple(a, b)'
<1>0. TypeInv /\ DOMAIN tbl = Node
  BY Known DEF TypeInv
<1> DEFINE Stays(t) == /\ DOMAIN tbl'[n] = DOMAIN tbl[n]
                       /\ \A k \in Node \ {n} : tbl'[k] = tbl[k]
                       /\ \A l \in DOMAIN tbl[n] :
                             /\ tbl'[n][l].fd = tbl[n][l].fd
                             /\ tbl'[n][l].shut = tbl[n][l].shut
<1>1. /\ UNCHANGED <<up, ann, last, pend>>
      /\ i \in DOMAIN tbl[n] /\ i \in 1..last[n] /\ Inbox(n, i) # <<>>
  <2>1. CASE TakeNothing(n, i)
    BY <1>0, <2>1, TakeNothingIs, Visited DEF Still
  <2>2. CASE ~ TakeNothing(n, i)
    <3>1. Visit(n, i) /\ Inbox(n, i) # <<>>
      BY <2>2 DEF Take, TakeSub, TakeRegister, TakeAdvance, IsInit
    <3> QED BY <1>0, <3>1, VisitIs, Visited DEF Still
  <2> QED BY <2>1, <2>2
<1>2. /\ DOMAIN Taken(n, i) = Node
      /\ Taken(n, i)[n] \in [1..last[n] -> Conn]
  BY <1>0, <1>1, TakenIs
<1>3. EndsKept /\ Stays(n)
  <2>1. CASE TakeSub(n, i) \/ TakeNothing(n, i)
    <3>1. conn' = Taken(n, i) /\ tbl' = tbl
      BY <2>1 DEF TakeSub, TakeNothing
    <3>2. SameLinks(Taken(n, i)[n], Taken(n, i)[n])
      BY DEF SameLinks
    <3> QED BY <1>1, <3>1, <3>2, TakeKeepsEnds
  <2>2. CASE TakeRegister(n, i)
    <3>1. PICK t \in DOMAIN tbl[n] : RegisterStep(n, i, t)
      BY <1>0, <2>2, TakeRegisterIs
    <3>2. PICK c : c = Registered(tbl[n][t], Self)
      OBVIOUS
    <3>3. PICK new : new = [tbl[n] EXCEPT ![t] = c]
      OBVIOUS
    <3>4. PICK e : e = Sent(Taken(n, i)[n], new, new[i].key, 1)
      OBVIOUS
    <3>5. tbl' = [tbl EXCEPT ![n] = new] /\ conn' = [Taken(n, i) EXCEPT ![n] = e]
      BY <3>1, <3>2, <3>3, <3>4 DEF RegisterStep
    <3>6. c.fd = tbl[n][t].fd /\ c.shut = tbl[n][t].shut
      BY <1>0, <3>2, ClientIs DEF Registered, Client
    <3>7. Stays(n)
      BY <1>0, <3>3, <3>5, <3>6
    <3>8. SameLinks(Taken(n, i)[n], e)
      BY <1>2, <3>4, SentLinks
    <3>9. conn'[n] = e /\ \A k \in Node \ {n} : conn'[k] = Taken(n, i)[k]
      BY <1>2, <3>5
    <3> QED BY <1>1, <3>7, <3>8, <3>9, TakeKeepsEnds
  <2>3. CASE TakeAdvance(n, i)
    <3>1. PICK s : s = Head(Inbox(n, i))
      OBVIOUS
    <3>2. PICK t \in DOMAIN tbl[n] : AdvanceStep(n, i, t, s)
      BY <1>0, <2>3, <3>1, TakeAdvanceIs
    <3>3. PICK c : c = Advanced(tbl[n][t], s, Self)
      OBVIOUS
    <3>4. PICK new : new = [tbl[n] EXCEPT ![t] = c]
      OBVIOUS
    <3>5. PICK e1 : e1 = IF s \in {4, 5}
                         THEN Sent(Taken(n, i)[n], new, new[t].key, Sub)
                         ELSE Taken(n, i)[n]
      OBVIOUS
    <3>6. PICK e : e = IF InitReplies(s)
                       THEN Sent(e1, new, new[i].key, s + 1) ELSE e1
      OBVIOUS
    <3>7. tbl' = [tbl EXCEPT ![n] = new] /\ conn' = [Taken(n, i) EXCEPT ![n] = e]
      BY <3>2, <3>3, <3>4, <3>5, <3>6 DEF AdvanceStep
    <3>8. c.fd = tbl[n][t].fd /\ c.shut = tbl[n][t].shut
      BY <1>0, <3>3, ClientIs DEF Advanced, Client
    <3>9. Stays(n)
      BY <1>0, <3>4, <3>7, <3>8
    <3>10. SameLinks(Taken(n, i)[n], e1) /\ e1 \in [1..last[n] -> Conn]
      <4>1. CASE s \in {4, 5}
        <5>1. e1 = Sent(Taken(n, i)[n], new, new[t].key, Sub) /\ Sub \in Frame
          BY <3>5, <4>1 DEF Frame
        <5> QED BY <1>2, <5>1, SentLinks, SentTyped
      <4>2. CASE s \notin {4, 5}
        BY <1>2, <3>5, <4>2 DEF SameLinks
      <4> QED BY <4>1, <4>2
    <3>11. SameLinks(e1, e)
      <4>1. CASE InitReplies(s)
        BY <3>6, <3>10, <4>1, SentLinks
      <4>2. CASE ~ InitReplies(s)
        BY <3>6, <4>2 DEF SameLinks
      <4> QED BY <4>1, <4>2
    <3>12. SameLinks(Taken(n, i)[n], e)
      BY <3>10, <3>11 DEF SameLinks
    <3>13. conn'[n] = e /\ \A k \in Node \ {n} : conn'[k] = Taken(n, i)[k]
      BY <1>2, <3>7
    <3> QED BY <1>1, <3>9, <3>12, <3>13, TakeKeepsEnds
  <2> QED BY <2>1, <2>2, <2>3 DEF Take
<1>4. \A i_1 \in DOMAIN tbl[a] : ~ conn[a][i_1].est =>
         i_1 \in DOMAIN tbl'[a] /\ tbl'[a][i_1].fd = tbl[a][i_1].fd
  BY <1>3
<1>5. \A k \in Node : Holds(k, last[k]) =>
              /\ last[k] \in DOMAIN tbl'[k]
              /\ tbl'[k][last[k]].fd # 0 /\ ~ tbl'[k][last[k]].shut
  BY <1>3 DEF Holds
<1> QED BY <1>1, <1>3, <1>4, <1>5, CoupleStays

\* A connection is set up after all older ones.
LEMMA EstablishCouple ==
    ASSUME KnownInv, ~ Reorder, NEW a \in Node, NEW b \in Node, Couple(a, b),
           NEW n \in Node, NEW i \in 1..last[n], Establish(n, i)
    PROVE  Couple(a, b)'
<1>0. /\ TypeInv /\ DOMAIN conn = Node /\ DOMAIN pend = Node
      /\ last[a] \in Nat /\ last[b] \in Nat
      /\ DOMAIN conn[a] = 1..last[a] /\ pend[b] \in Seq(Ends)
  BY Known, NodeTyped DEF TypeInv, TypeOK, EndsTyped, PendTyped
<1>1. n = a
  <2>1. ASSUME n = b
        PROVE  FALSE
    <3>1. conn[b][i].far = <<a, i>> \/ ~ (i \in 1..last[b])
      BY DEF Couple, InOrder
    <3>2. conn[b][i].far = <<a, i>> /\ i # 0
      BY <1>0, <2>1, <3>1
    <3>3. conn[b][i].est
      BY <2>1, <3>2, FarMade
    <3> QED BY <2>1, <3>3 DEF Establish
  <2> QED BY <2>1 DEF Couple
<1>2. i \in 1..last[a] /\ ~ conn[a][i].est
  BY <1>1 DEF Establish
<1>3. conn[a][i].far[1] = b
  <2>1. conn[a][i].far \in {<<b, i>>, <<b, 0>>}
    BY <1>2 DEF Couple, InOrder
  <2> QED BY <2>1
<1>4. PICK L : L = Len(pend[b])
  OBVIOUS
<1>5. L \in Nat /\ last[b] + L <= last[a] /\ DOMAIN pend[b] = 1..L
      /\ (conn[a][i].est <=> i <= last[b] + L)
  <2>1. L \in Nat /\ DOMAIN pend[b] = 1..L
    BY <1>0, <1>4
  <2>2. last[b] + L <= last[a] /\ (conn[a][i].est <=> i <= last[b] + L)
    BY <1>2, <1>4 DEF Couple, InOrder
  <2> QED BY <2>1, <2>2
<1>6. \A j \in 1..i-1 : conn[a][j].est
  <2>1. ASSUME NEW j \in 1..i-1, ~ conn[a][j].est
        PROVE  FALSE
    <3>1. j \in 1..last[a]
      BY <1>0, <1>2
    <3>2. j \in DOMAIN tbl[a] /\ conn[a][j].far \in {<<b, j>>, <<b, 0>>}
      BY <2>1, <3>1 DEF Couple, InOrder
    <3>3. conn[a][j].far[1] = b
      BY <3>2
    <3> QED BY <1>1, <1>3, <2>1, <3>2, <3>3 DEF Establish
  <2> QED BY <2>1
<1>7. i = last[b] + L + 1
  <2>1. ~ (i <= last[b] + L)
    BY <1>2, <1>5
  <2>2. ASSUME i - 1 > last[b] + L
        PROVE  FALSE
    <3>1. i - 1 \in 1..i-1 /\ i - 1 \in 1..last[a] /\ ~ (i - 1 <= last[b] + L)
      BY <1>0, <1>2, <1>5, <2>2
    <3>2. ~ conn[a][i - 1].est
      BY <1>4, <3>1 DEF Couple, InOrder
    <3> QED BY <1>6, <3>1, <3>2
  <2> QED BY <1>0, <1>2, <1>5, <2>1, <2>2
<1>8. /\ conn' = [conn EXCEPT ![a][i].est = TRUE]
      /\ pend' = [pend EXCEPT ![b] = Append(@, <<a, i>>)]
      /\ UNCHANGED <<up, ann, tbl, last>>
  BY <1>1, <1>3 DEF Establish
<1>9. /\ pend'[a] = pend[a] /\ pend'[b] = Append(pend[b], <<a, i>>)
  BY <1>0, <1>8 DEF Couple
<1>10. /\ Len(pend'[b]) = L + 1 /\ DOMAIN pend'[b] = 1..(L + 1)
       /\ \A k \in 1..L : pend'[b][k] = pend[b][k]
       /\ pend'[b][L + 1] = <<a, i>>
  <2>1. pend[b] \in Seq(Ends \union {<<a, i>>})
    BY <1>0
  <2> HIDE DEF Couple
  <2> QED BY ONLY <1>4, <1>9, <2>1
<1>11. /\ \A l \in 1..last[a] : /\ conn'[a][l].far = conn[a][l].far
                                /\ conn'[a][l].est <=> (conn[a][l].est \/ l = i)
       /\ conn'[b] = conn[b]
  <2>1. conn'[a] = [conn[a] EXCEPT ![i].est = TRUE] /\ conn'[b] = conn[b]
    BY <1>0, <1>8 DEF Couple
  <2>2. conn[a][i] \in Conn
    BY <1>0, <1>2, FarIs
  <2>3. \A l \in 1..last[a] : l # i => conn'[a][l] = conn[a][l]
    BY <1>0, <2>1
  <2>4. conn'[a][i] = [conn[a][i] EXCEPT !.est = TRUE]
    BY <1>0, <1>2, <2>1
  <2>5. conn'[a][i].far = conn[a][i].far /\ conn'[a][i].est
    BY <2>2, <2>4 DEF Conn
  <2> QED BY <2>1, <2>3, <2>5
<1>12. Opens(a, b)'
  BY <1>8, <1>9 DEF Couple, Opens
<1>13. InOrder(a, b)'
  <2>1. last'[b] + Len(pend'[b]) <= last'[a]
    BY <1>0, <1>2, <1>5, <1>7, <1>8, <1>10
  <2>2. \A k \in DOMAIN pend'[b] : pend'[b][k] = <<a, last'[b] + k>>
    <3>1. \A k \in 1..L : pend[b][k] = <<a, last[b] + k>>
      BY <1>4, <1>5 DEF Couple, InOrder
    <3>2. i = last[b] + (L + 1)
      BY <1>0, <1>5, <1>7
    <3>3. \A k \in 1..(L + 1) : k \in 1..L \/ k = L + 1
      BY <1>5
    <3> QED BY <1>8, <1>10, <3>1, <3>2, <3>3
  <2>3. ASSUME NEW l \in 1..last[a]
        PROVE  /\ conn'[a][l].far = IF l <= last[b] THEN <<b, l>> ELSE <<b, 0>>
               /\ conn'[a][l].est <=> l <= last[b] + (L + 1)
               /\ ~ conn'[a][l].est => l \in DOMAIN tbl[a] /\ tbl[a][l].fd # 0
    <3>1. /\ conn[a][l].far = IF l <= last[b] THEN <<b, l>> ELSE <<b, 0>>
          /\ conn[a][l].est <=> l <= last[b] + L
          /\ ~ conn[a][l].est => l \in DOMAIN tbl[a] /\ tbl[a][l].fd # 0
      BY <1>4 DEF Couple, InOrder
    <3>2. (l <= last[b] + L \/ l = i) <=> l <= last[b] + (L + 1)
      BY <1>0, <1>5, <1>7
    <3> QED BY <1>11, <3>1, <3>2
  <2>4. \A l \in 1..last[b] : conn'[b][l].far = <<a, l>>
    BY <1>11 DEF Couple, InOrder
  <2> QED BY <1>8, <1>10, <2>1, <2>2, <2>3, <2>4 DEF InOrder
<1>14. NewestHeld(a, b)'
  BY <1>8 DEF Couple, NewestHeld, Holds
<1> QED BY <1>12, <1>13, <1>14 DEF Couple

\* Only b accepts, and it accepts the oldest connection that waits.
LEMMA AcceptCouple ==
    ASSUME KnownInv, NEW a \in Node, NEW b \in Node, Couple(a, b),
           NEW n \in Node, Accept(n)
    PROVE  Couple(a, b)'
<1>0. /\ TypeInv /\ DOMAIN pend = Node /\ DOMAIN tbl = Node
      /\ last[a] \in Nat /\ last[b] \in Nat /\ pend[b] \in Seq(Ends)
  BY Known, NodeTyped DEF TypeInv, TypeOK, PendTyped
<1>1. n = b /\ n # a /\ pend[n] # <<>>
  BY DEF Couple, Opens, Accept
<1>2. PICK L : L = Len(pend[b])
  OBVIOUS
<1>3. PICK j : j = last[b] + 1
  OBVIOUS
<1>4. /\ L \in Nat /\ L # 0 /\ DOMAIN pend[b] = 1..L
      /\ last[b] + L <= last[a] /\ j \in 1..last[a] /\ j \notin 1..last[b]
  <2>1. L \in Nat /\ L # 0 /\ DOMAIN pend[b] = 1..L
    BY <1>0, <1>1, <1>2
  <2>2. last[b] + L <= last[a]
    BY <1>2 DEF Couple, InOrder
  <2> QED BY <1>0, <1>3, <2>1, <2>2
<1>5. Head(pend[n]) = <<a, j>>
  <2>1. Head(pend[n]) = pend[b][1] /\ 1 \in DOMAIN pend[b]
    BY <1>0, <1>1, HeadOfPend
  <2>2. pend[b][1] = <<a, last[b] + 1>>
    BY <2>1 DEF Couple, InOrder
  <2> QED BY <1>3, <2>1, <2>2
<1>6. Listed(n, a, j, j)
  BY <1>1, <1>3, <1>5, AcceptTables
<1>7. Joined(n, a, j, j)
  <2>1. a # n /\ j = last[n] + 1
    BY <1>1, <1>3
  <2> QED BY ONLY KnownInv, n \in Node, a \in Node, Accept(n), <1>4, <1>5,
             <2>1, AcceptEnds
<1>8. /\ UNCHANGED <<up, ann>> /\ last'[a] = last[a] /\ last'[b] = j
      /\ pend'[a] = pend[a]
  <2>1. last' = [last EXCEPT ![n] = @ + 1] /\ UNCHANGED <<up, ann>>
    BY <1>0, AcceptIs DEF Still
  <2>2. last'[n] = last[n] + 1 /\ last'[a] = last[a]
    BY <1>0, <1>1, <2>1, OneMore
  <2>3. pend'[a] = pend[a]
    BY <1>1, <1>6 DEF Listed
  <2> QED BY <1>1, <1>3, <2>1, <2>2, <2>3
<1>9. /\ Len(pend'[b]) = L - 1 /\ DOMAIN pend'[b] = 1..(L - 1)
      /\ \A k \in 1..(L - 1) : pend'[b][k] = <<a, last[b] + (k + 1)>>
  <2>1. pend'[b] = Tail(pend[b])
    BY <1>1, <1>6 DEF Listed
  <2>2. /\ DOMAIN Tail(pend[b]) = 1..(L - 1) /\ Tail(pend[b]) \in Seq(Ends)
        /\ \A k \in 1..(L - 1) : Tail(pend[b])[k] = pend[b][k + 1]
    BY <1>0, <1>1, <1>2, HeadOfPend
  <2>3. Len(Tail(pend[b])) = L - 1
    BY <1>0, <1>1, <1>2
  <2>4. \A k \in 1..(L - 1) : k + 1 \in DOMAIN pend[b]
    BY <1>4
  <2>5. \A k \in 1..(L - 1) : pend[b][k + 1] = <<a, last[b] + (k + 1)>>
    BY <2>4 DEF Couple, InOrder
  <2> QED BY <2>1, <2>2, <2>3, <2>5
<1>10. /\ \A l \in 1..last[a] : /\ l # j => conn'[a][l].far = conn[a][l].far
                                /\ conn'[a][l].est = conn[a][l].est
       /\ conn'[a][j].far = <<b, j>>
       /\ \A l \in 1..last[b] : conn'[b][l].far = conn[b][l].far
       /\ conn'[b][j].far = <<a, j>>
  <2>1. Flushing(n, a, j) /\ conn'[a][j].far = <<b, j>>
    BY <1>1, <1>7 DEF Joined
  <2>2. ASSUME NEW l \in 1..last[a]
        PROVE  /\ l # j => conn'[a][l].far = conn[a][l].far
               /\ conn'[a][l].est = conn[a][l].est
    BY ONLY KnownInv, n \in Node, a \in Node, l \in 1..last[a], <2>1, FlushKeeps
  <2>3. ASSUME NEW l \in 1..last[b]
        PROVE  conn'[b][l].far = conn[b][l].far
    <3>1. b # a
      BY <1>1
    <3> QED BY ONLY KnownInv, n \in Node, b \in Node, l \in 1..last[b], <3>1,
               <2>1, FlushKeeps
  <2>4. conn'[b][j].far = <<a, j>>
    BY <1>1, <1>7 DEF Joined, NewEnd
  <2> QED BY <2>1, <2>2, <2>3, <2>4
<1>11. tbl'[a] = tbl[a]
  <2>1. \E eof : tbl' = [tbl EXCEPT ![n] =
           CloseEof(Push(tbl[n], last[n] + 1, AcceptedClient(Head(pend[n]), 1)),
                    eof)]
    BY <1>0, AcceptIs
  <2> QED BY <1>1, <2>1
<1>12. Holds(b, j)'
  <2>1. j \in DOMAIN tbl'[b] /\ ~ tbl'[b][j].shut
    BY <1>1, <1>6 DEF Listed
  <2>2. tbl'[b][j].fd # 0
    <3>1. PICK t : t = Push(tbl[n], j, AcceptedClient(<<a, j>>, 1))
      OBVIOUS
    <3>2. PICK eof \in SUBSET SocketGone(n) : tbl' = [tbl EXCEPT ![n] = CloseEof(t, eof)]
      BY <1>1, <1>3, <1>5, <3>1 DEF Accept, SocketGone
    <3>3. tbl'[b] = CloseEof(t, eof)
      BY <1>0, <1>1, <3>2
    <3>4. j \notin eof
      <4>1. \A l \in DOMAIN tbl[b] : l \in 1..last[b]
        BY Known
      <4> QED BY <1>1, <1>4, <3>2, <4>1 DEF SocketGone
    <3>5. j \in DOMAIN t /\ t[j] = AcceptedClient(<<a, j>>, 1)
      <4>1. DOMAIN t = DOMAIN tbl[n] \union {j}
        BY <3>1, PushDomain
      <4>2. t[j] = AcceptedClient(<<a, j>>, 1)
        BY <3>1, PushNew
      <4> QED BY <4>1, <4>2
    <3>6. tbl'[b][j] = AcceptedClient(<<a, j>>, 1)
      BY <3>3, <3>4, <3>5 DEF CloseEof
    <3> QED BY <3>6 DEF AcceptedClient, OutgoingClient
  <2>3. PICK c : c = j
    OBVIOUS
  <2> QED BY <2>1, <2>2 DEF Holds
<1>13. Opens(a, b)'
  BY <1>8 DEF Couple, Opens
<1>14. InOrder(a, b)'
  <2>1. last'[b] + Len(pend'[b]) <= last'[a]
    BY <1>0, <1>3, <1>4, <1>8, <1>9
  <2>2. \A k \in DOMAIN pend'[b] : pend'[b][k] = <<a, last'[b] + k>>
    <3>1. \A k \in 1..(L - 1) : last[b] + (k + 1) = j + k
      BY <1>0, <1>3, <1>4
    <3> QED BY <1>8, <1>9, <3>1
  <2>3. ASSUME NEW l \in 1..last[a]
        PROVE  /\ conn'[a][l].far = IF l <= j THEN <<b, l>> ELSE <<b, 0>>
               /\ conn'[a][l].est <=> l <= j + (L - 1)
               /\ ~ conn'[a][l].est => l \in DOMAIN tbl[a] /\ tbl[a][l].fd # 0
    <3>1. /\ conn[a][l].far = IF l <= last[b] THEN <<b, l>> ELSE <<b, 0>>
          /\ conn[a][l].est <=> l <= last[b] + L
          /\ ~ conn[a][l].est => l \in DOMAIN tbl[a] /\ tbl[a][l].fd # 0
      BY <1>2 DEF Couple, InOrder
    <3>2. /\ l <= last[b] + L <=> l <= j + (L - 1)
          /\ l <= j <=> (l <= last[b] \/ l = j)
          /\ ~ (j <= last[b])
      BY <1>0, <1>3, <1>4
    <3>3. CASE l = j
      BY <1>10, <3>1, <3>2, <3>3
    <3>4. CASE l # j
      BY <1>10, <3>1, <3>2, <3>4
    <3> QED BY <3>3, <3>4
  <2>4. \A l \in 1..j : conn'[b][l].far = <<a, l>>
    <3>1. \A l \in 1..j : l \in 1..last[b] \/ l = j
      BY <1>0, <1>3
    <3>2. \A l \in 1..last[b] : conn[b][l].far = <<a, l>>
      BY DEF Couple, InOrder
    <3> QED BY <1>10, <3>1, <3>2
  <2> QED BY <1>8, <1>9, <1>11, <2>1, <2>2, <2>3, <2>4 DEF InOrder
<1>15. NewestHeld(a, b)'
  <2>1. last[a] # 0 => Holds(a, last[a])'
    BY <1>8, <1>11 DEF Couple, NewestHeld, Holds
  <2>2. Holds(b, last[b])'
    BY <1>8, <1>12 DEF Holds
  <2> QED BY <1>8, <2>1, <2>2 DEF NewestHeld, Holds
<1> QED BY <1>13, <1>14, <1>15 DEF Couple

\* Only a connects, and the connection is its newest client.
LEMMA ConnectCouple ==
    ASSUME KnownInv, NEW a \in Node, NEW b \in Node, Couple(a, b),
           NEW n \in Node, NEW m \in Node \ {n}, Connect(n, m)
    PROVE  Couple(a, b)'
<1>0. /\ TypeInv /\ DOMAIN ann = Node /\ DOMAIN ann[n] = Node
      /\ last[a] \in Nat /\ last[b] \in Nat
  BY Known DEF TypeInv, TypeOK
<1>1. n = a /\ m = b /\ a # b
  <2>1. ann[n][m] # 0
    <3>1. ann[n][m] > 0
      BY DEF Connect
    <3> QED BY <3>1
  <2>2. ann[b][a] = 0 /\ a # b /\ Node = {a, b}
    BY DEF Couple, Opens
  <2> QED BY <2>1, <2>2
<1>2. /\ UNCHANGED <<up, pend>> /\ ann' = [ann EXCEPT ![a][b] = @ - 1]
      /\ last' = [last EXCEPT ![a] = @ + 1]
  BY <1>0, <1>1, ConnectIs DEF Connect
<1>3. /\ last'[b] = last[b] /\ last'[a] = last[a] + 1
      /\ last[a] + 1 \notin 1..last[a]
      /\ 1..last'[a] = (1..last[a]) \union {last[a] + 1}
  BY <1>0, <1>1, <1>2, OneMore
<1>4. PICK i : i = last[a] + 1
  OBVIOUS
<1>5. Connected(a, b, i)
  BY <1>1, <1>4, ConnectParts
<1>6. /\ tbl'[b] = tbl[b] /\ conn'[b] = conn[b]
      /\ \A l \in 1..last[a] : /\ conn'[a][l].far = conn[a][l].far
                               /\ conn'[a][l].est = conn[a][l].est
      /\ conn'[a][i].far = <<b, 0>> /\ ~ conn'[a][i].est
      /\ DOMAIN tbl'[a] = DOMAIN tbl[a] \union {i}
      /\ \A l \in DOMAIN tbl[a] : tbl'[a][l] = tbl[a][l]
      /\ tbl'[a][i].fd # 0 /\ ~ tbl'[a][i].shut
  BY <1>1, <1>5 DEF Connected, Queued, OutgoingClient
<1>7. up[b]
  <2>1. ann[a][b] > 0
    BY <1>1 DEF Connect
  <2>2. ann[a][b] # 0
    BY <2>1
  <2> QED BY <2>2 DEF Couple, Opens
<1>8. Opens(a, b)'
  <2>1. ann'[b] = ann[b]
    BY <1>0, <1>1, <1>2
  <2> QED BY <1>2, <1>7, <2>1 DEF Couple, Opens
<1>9. PICK L : L = Len(pend[b])
  OBVIOUS
<1>10. L \in Nat /\ last[b] + L <= last[a] /\ i \in Nat
  <2>1. L \in Nat
    BY <1>0, <1>9, NodeTyped DEF PendTyped
  <2>2. last[b] + L <= last[a]
    BY <1>9 DEF Couple, InOrder
  <2> QED BY <1>0, <1>4, <2>1, <2>2
<1>11. InOrder(a, b)'
  <2>1. last'[b] + L <= last'[a] /\ ~ (i <= last[b]) /\ ~ (i <= last[b] + L)
    BY <1>0, <1>3, <1>4, <1>10
  <2>2. ASSUME NEW l \in 1..last'[a]
        PROVE  /\ conn'[a][l].far = IF l <= last[b] THEN <<b, l>> ELSE <<b, 0>>
               /\ conn'[a][l].est <=> l <= last[b] + L
               /\ ~ conn'[a][l].est => l \in DOMAIN tbl'[a] /\ tbl'[a][l].fd # 0
    <3>1. CASE l = i
      BY <1>6, <2>1, <3>1
    <3>2. CASE l \in 1..last[a]
      <4>1. /\ conn[a][l].far = IF l <= last[b] THEN <<b, l>> ELSE <<b, 0>>
            /\ conn[a][l].est <=> l <= last[b] + L
            /\ ~ conn[a][l].est => l \in DOMAIN tbl[a] /\ tbl[a][l].fd # 0
        BY <1>9, <3>2 DEF Couple, InOrder
      <4> QED BY <1>6, <3>2, <4>1
    <3> QED BY <1>3, <1>4, <3>1, <3>2
  <2>3. \A l \in 1..last[b] : conn'[b][l].far = <<a, l>>
    BY <1>6 DEF Couple, InOrder
  <2>4. pend'[b] = pend[b] /\ \A k \in DOMAIN pend[b] : pend[b][k] = <<a, last[b] + k>>
    BY <1>2 DEF Couple, InOrder
  <2> QED BY <1>3, <1>9, <2>1, <2>2, <2>3, <2>4 DEF InOrder
<1>12. NewestHeld(a, b)'
  <2>1. last'[b] # last'[a]
    BY <1>0, <1>3, <1>10
  <2>2. Holds(a, last[a])'
    BY <1>3, <1>4, <1>6 DEF Holds
  <2> QED BY <2>1, <2>2 DEF NewestHeld, Holds
<1> QED BY <1>8, <1>11, <1>12 DEF Couple

\* A daemon that starts while the other one does not run is the first one.
LEMMA BootCouple ==
    ASSUME KnownInv, NEW a \in Node, NEW b \in Node, Couple(a, b),
           NEW n \in Node, Boot(n)
    PROVE  Couple(a, b)' \/ Couple(b, a)'
<1>0. /\ TypeInv /\ DOMAIN up = Node
      /\ last[a] \in Nat /\ last[b] \in Nat /\ pend[b] \in Seq(Ends)
  BY Known, NodeTyped DEF TypeInv, TypeOK, PendTyped
<1>1. PICK got \in [{m \in Node \ {n} : up[m]} -> 0..Interfaces] :
          ann' = [m \in Node |-> IF m \in DOMAIN got
                                 THEN [ann[m] EXCEPT ![n] = @ + got[m]]
                                 ELSE ann[m]]
  BY DEF Boot
<1>2. /\ ~ up[n] /\ up' = [up EXCEPT ![n] = TRUE]
      /\ UNCHANGED <<tbl, last, conn, pend>>
  BY DEF Boot
<1>3. InOrder(a, b)' /\ NewestHeld(a, b)'
  BY <1>2 DEF Couple, InOrder, NewestHeld, Holds
<1>4. \A m \in Node : ~ up[m] => ann'[m] = ann[m]
  BY <1>1
<1>5. a # b /\ Node = {a, b}
  BY DEF Couple
<1>6. CASE n = a
  <2>1. ~ up[b] /\ ann'[a] = ann[a] /\ ann'[b] = ann[b]
    BY <1>2, <1>4, <1>6 DEF Couple, Opens
  <2>2. Opens(a, b)'
    BY <1>0, <1>2, <1>6, <2>1 DEF Couple, Opens
  <2> QED BY <1>3, <1>5, <2>2 DEF Couple
<1>7. CASE n = b /\ up[a]
  <2>1. ann'[b] = ann[b] /\ up'[a] /\ up'[b]
    BY <1>0, <1>2, <1>4, <1>5, <1>7
  <2>2. Opens(a, b)'
    BY <1>2, <2>1 DEF Couple, Opens
  <2> QED BY <1>3, <1>5, <2>2 DEF Couple
<1>8. CASE n = b /\ ~ up[a]
  <2>1. /\ ann'[a] = ann[a] /\ ann'[b] = ann[b] /\ up'[b]
        /\ ann[a][b] = 0 /\ ann[b][a] = 0 /\ last[a] = 0
    BY <1>0, <1>2, <1>4, <1>8 DEF Couple, Opens
  <2>2. last[b] = 0 /\ pend[b] = <<>> /\ pend[a] = <<>>
    <3>1. PICK L : L = Len(pend[b])
      OBVIOUS
    <3>2. L \in Nat /\ last[b] + L <= last[a]
      <4>1. L \in Nat
        BY <1>0, <3>1
      <4>2. last[b] + L <= last[a]
        BY <3>1 DEF Couple, InOrder
      <4> QED BY <4>1, <4>2
    <3>3. last[b] = 0 /\ L = 0
      BY <1>0, <2>1, <3>2
    <3>4. \A q \in Seq(Ends) : Len(q) = 0 => q = <<>>
      OBVIOUS
    <3>5. pend[b] = <<>>
      BY <1>0, <3>1, <3>3, <3>4
    <3> QED BY <3>3, <3>5 DEF Couple, Opens
  <2>3. Opens(b, a)'
    BY <1>2, <2>1, <2>2 DEF Opens
  <2>4. InOrder(b, a)'
    <3>1. Len(<<>>) = 0 /\ DOMAIN <<>> = {} /\ 1..0 = {} /\ 0 + 0 <= 0
      OBVIOUS
    <3> QED BY <1>2, <2>1, <2>2, <3>1 DEF InOrder
  <2>5. NewestHeld(b, a)'
    BY <1>2, <2>2 DEF NewestHeld
  <2> QED BY <1>5, <2>3, <2>4, <2>5 DEF Couple
<1> QED BY <1>5, <1>6, <1>7, <1>8

\* Two daemons, each started at most once, whose connections are set up in
\* order and do not time out: what a run needs for PairKept to be claimed.  Any
\* of them dropped, PairKept fails: a third daemon's connection has the same
\* key, and connections that overtake each other are preferred differently.
SettledPair ==
    /\ \E a, b : a # b /\ Node = {a, b}
    /\ MaxBoots <= 1 /\ ~ Idle /\ ~ Reorder

LEMMA PairInit == SettledPair /\ Init => PairInv
<1> SUFFICES ASSUME SettledPair, Init PROVE PairInv
  OBVIOUS
<1>1. KnownInv
  BY KnownInit
<1>2. PICK a, b : a # b /\ Node = {a, b}
  BY DEF SettledPair
<1>3. \A n \in Node : ~ up[n] /\ last[n] = 0 /\ pend[n] = <<>>
  BY DEF Init
<1>4. \A n, m \in Node : ann[n][m] = 0
  BY DEF Init
<1>5. Opens(a, b)
  BY <1>2, <1>3, <1>4 DEF Opens
<1>6. InOrder(a, b)
  <2>1. Len(<<>>) = 0 /\ DOMAIN <<>> = {} /\ 1..0 = {} /\ 0 + 0 <= 0
    OBVIOUS
  <2> QED BY <1>2, <1>3, <2>1 DEF InOrder
<1>7. NewestHeld(a, b)
  BY <1>2, <1>3 DEF NewestHeld
<1> QED BY <1>1, <1>2, <1>3, <1>5, <1>6, <1>7 DEF PairInv, Couple

LEMMA PairStep == SettledPair /\ PairInv /\ [Next]_vars => PairInv'
<1> SUFFICES ASSUME SettledPair, PairInv, [Next]_vars PROVE PairInv'
  OBVIOUS
<1>0. /\ KnownInv /\ KnownInv' /\ ~ Idle /\ ~ Reorder
      /\ \A n \in Node : up[n] => boots[n] # 0
  BY KnownStep DEF PairInv, SettledPair
<1>1. PICK a, b \in Node : Couple(a, b)
  BY DEF PairInv
<1>2. ASSUME NEW n \in Node, Crash(n)
      PROVE  FALSE
  <2>1. boots[n] < MaxBoots /\ boots[n] # 0 /\ boots[n] \in Nat
    BY <1>0, <1>2, Known DEF Crash, TypeInv, TypeOK
  <2> QED BY <2>1, HandshakeAssumption DEF SettledPair
<1>3. \A n \in Node : up'[n] => boots'[n] # 0
  <2>1. CASE up' = up /\ boots' = boots
    BY <1>0, <2>1
  <2>2. ASSUME NEW n \in Node, Boot(n)
        PROVE  \A k \in Node : up'[k] => boots'[k] # 0
    <3>1. DOMAIN up = Node /\ DOMAIN boots = Node /\ boots[n] \in Nat
      BY <1>0, Known DEF TypeInv, TypeOK
    <3>2. /\ boots' = [boots EXCEPT ![n] = @ + 1]
          /\ up' = [up EXCEPT ![n] = TRUE]
      BY <2>2 DEF Boot
    <3>3. boots[n] + 1 # 0
      BY <3>1
    <3> QED BY <1>0, <3>1, <3>2, <3>3
  <2>3. ASSUME NEW n \in Node, Loop(n)
        PROVE  up' = up /\ boots' = boots
    BY <2>3 DEF Loop, NoBroadcast, Connect, Socket, Accept, Verify, Skip, Take,
       TakeSub, TakeRegister, TakeAdvance, TakeNothing, Visit, RequestDone
  <2>4. ASSUME NEW n \in Node, NEW i, Establish(n, i)
        PROVE  up' = up /\ boots' = boots
    BY <2>4 DEF Establish
  <2> QED BY <1>2, <2>1, <2>2, <2>3, <2>4 DEF Next, vars
<1>4. Couple(a, b)' \/ Couple(b, a)'
  <2>1. CASE UNCHANGED vars
    BY <1>0, <1>1, <2>1, QuietCouple DEF vars
  <2>2. ASSUME NEW n \in Node, Boot(n)
        PROVE  Couple(a, b)' \/ Couple(b, a)'
    BY <1>0, <1>1, <2>2, BootCouple
  <2>3. ASSUME NEW n \in Node, Loop(n)
        PROVE  Couple(a, b)'
    <3>1. CASE NoBroadcast(n) \/ RequestDone(n) \/ \E i \in todo[n] : Skip(n, i)
      <4>1. UNCHANGED <<up, ann, last, pend, tbl, conn>>
        BY <3>1 DEF NoBroadcast, RequestDone, Skip, Visit
      <4> QED BY <1>0, <1>1, <4>1, QuietCouple
    <3>2. CASE \E m \in Node \ {n} : Connect(n, m)
      BY <1>0, <1>1, <3>2, ConnectCouple
    <3>3. CASE Socket(n) \/ Accept(n) \/ Verify(n)
      BY <1>0, <1>1, <3>3, SocketCouple, AcceptCouple, VerifyCouple
    <3>4. CASE \E i \in todo[n] : Take(n, i)
      BY <1>0, <1>1, <3>4, TakeCouple
    <3> QED BY <2>3, <3>1, <3>2, <3>3, <3>4 DEF Loop
  <2>4. ASSUME NEW n \in Node, NEW i \in 1..last[n], Establish(n, i)
        PROVE  Couple(a, b)'
    BY <1>0, <1>1, <2>4, EstablishCouple
  <2> QED BY <1>2, <2>1, <2>2, <2>3, <2>4 DEF Next
<1> QED BY <1>0, <1>3, <1>4 DEF PairInv

\* However many announcements two daemons exchange, they stay connected: the
\* loop of cycle_socket_verify over all pairs of clients ("check for dups",
\* sharedaemon_server.c:971), run by each on its own list, never has one close
\* the connection the other keeps.
THEOREM PairStaysConnected ==
    ASSUME SettledPair
    PROVE  Spec => []PairKept
<1>1. Init => PairInv
  BY PairInit
<1>2. PairInv /\ [Next]_vars => PairInv'
  BY PairStep
<1> QED BY <1>1, <1>2, PairKeeps, PTL DEF Spec

\* The newest client of each of two daemons that allocated equally many, which
\* is when every connection was accepted, is the same connection, open at both.
SameKept ==
    \A n, m \in Node :
        (n # m /\ last[n] = last[m] /\ last[n] # 0) =>
            /\ conn[n][last[n]].far = <<m, last[m]>>
            /\ Holds(n, last[n])

\* Two daemons drop the same duplicates: what "check for dups" leaves at one is
\* what it leaves at the other.
THEOREM PairKeepsTheSame ==
    ASSUME SettledPair
    PROVE  Spec => []SameKept
<1>1. Init => PairInv
  BY PairInit
<1>2. PairInv /\ [Next]_vars => PairInv'
  BY PairStep
<1>3. ASSUME PairInv
      PROVE  SameKept
  <2> SUFFICES ASSUME NEW n \in Node, NEW m \in Node, n # m,
                      last[n] = last[m], last[n] # 0
               PROVE  /\ conn[n][last[n]].far = <<m, last[m]>>
                      /\ Holds(n, last[n])
    BY DEF SameKept
  <2>1. PICK a, b \in Node : Couple(a, b)
    BY <1>3 DEF PairInv
  <2>2. (n = a /\ m = b) \/ (n = b /\ m = a)
    <3>1. n \in {a, b} /\ m \in {a, b}
      BY <2>1 DEF Couple
    <3> QED BY <3>1
  <2>3. last[n] \in 1..last[n] /\ last[m] \in 1..last[m] /\ last[n] <= last[m]
    <3>1. last[n] \in Nat
      BY <1>3, Known DEF PairInv, TypeInv, TypeOK
    <3> QED BY <3>1
  <2>4. CASE n = a /\ m = b
    <3>1. conn[a][last[a]].far = IF last[a] <= last[b]
                                 THEN <<b, last[a]>> ELSE <<b, 0>>
      BY <2>1, <2>3, <2>4 DEF Couple, InOrder
    <3> QED BY <2>1, <2>3, <2>4, <3>1 DEF Couple, NewestHeld
  <2>5. CASE n = b /\ m = a
    BY <2>1, <2>3, <2>5 DEF Couple, InOrder, NewestHeld
  <2> QED BY <2>2, <2>4, <2>5
<1> QED BY <1>1, <1>2, <1>3, PTL DEF Spec

-----------------------------------------------------------------------------
(* Answers that fan out do not multiply.                                    *)
(*                                                                          *)
(* An answer is sunk to a key that all handshaken connections of the daemon *)
(* have, so it is queued for each of them, once.  What bounds this is the   *)
(* test for duplicate numbers: a client that sends number r has recorded it *)
(* (number 1: it took the key Self), and no client does so twice.  So       *)
(* number r is under way on a connection at most once for every client that *)
(* passed r, and every step that sends r adds to the set of those clients.  *)

\* Adding a number to all of a set of numbers keeps its size.
LEMMA Shifted ==
    ASSUME NEW A \in SUBSET Nat, IsFiniteSet(A), NEW d \in Nat,
           NEW B, B = {k + d : k \in A}
    PROVE  IsFiniteSet(B) /\ Cardinality(B) = Cardinality(A)
<1> DEFINE f == [k \in A |-> k + d]
<1>1. f \in [A -> B]
  OBVIOUS
<1>2. \A x, y \in A : f[x] = f[y] => x = y
  OBVIOUS
<1>3. \A z \in B : \E x \in A : f[x] = z
  OBVIOUS
<1>4. f \in Bijection(A, B)
  BY <1>1, <1>2, <1>3 DEF Bijection, Injection, Surjection, IsInjective
<1>5. ExistsBijection(A, B)
  BY <1>4 DEF ExistsBijection
<1> QED BY <1>5, FS_Bijection

\* Where frame r is in a sequence.
Spots(s, r) == {k \in DOMAIN s : s[k] = r}

\* CopiesIn counts these.
LEMMA SpotsIs ==
    ASSUME NEW S, NEW s \in Seq(S), NEW r
    PROVE  /\ Spots(s, r) \in SUBSET (1..Len(s)) /\ IsFiniteSet(Spots(s, r))
           /\ CopiesIn(s, r) = Cardinality(Spots(s, r)) /\ CopiesIn(s, r) \in Nat
<1>1. Len(s) \in Nat /\ Spots(s, r) \in SUBSET (1..Len(s))
  BY DEF Spots
<1>2. IsFiniteSet(1..Len(s))
  BY <1>1, FS_Interval
<1>3. IsFiniteSet(Spots(s, r))
  BY <1>1, <1>2, FS_Subset
<1>4. CopiesIn(s, r) = Cardinality(Spots(s, r))
  BY DEF CopiesIn, Spots
<1> QED BY <1>1, <1>3, <1>4, FS_CardinalityType

\* How often a frame is in sequences that are built from others.
LEMMA CopiesEmpty ==
    ASSUME NEW r
    PROVE  CopiesIn(<<>>, r) = 0
<1>1. Spots(<<>>, r) = {} /\ CopiesIn(<<>>, r) = Cardinality(Spots(<<>>, r))
  BY DEF Spots, CopiesIn
<1> QED BY <1>1, FS_EmptySet

LEMMA CopiesConcat ==
    ASSUME NEW S, NEW s \in Seq(S), NEW t \in Seq(S), NEW r
    PROVE  CopiesIn(s \o t, r) = CopiesIn(s, r) + CopiesIn(t, r)
<1>1. PICK u : u = s \o t
  OBVIOUS
<1>2. /\ u \in Seq(S) /\ Len(s) \in Nat /\ Len(t) \in Nat
      /\ DOMAIN s = 1..Len(s) /\ DOMAIN t = 1..Len(t)
      /\ Len(u) = Len(s) + Len(t) /\ DOMAIN u = 1..(Len(s) + Len(t))
  BY <1>1
<1>3. \A i \in 1..(Len(s) + Len(t)) :
         u[i] = IF i <= Len(s) THEN s[i] ELSE t[i - Len(s)]
  BY <1>1, ConcatProperties
<1>4. PICK B : B = {k + Len(s) : k \in Spots(t, r)}
  OBVIOUS
<1>5. Spots(t, r) \in SUBSET Nat /\ IsFiniteSet(Spots(t, r))
  BY SpotsIs
<1>6. IsFiniteSet(B) /\ Cardinality(B) = Cardinality(Spots(t, r))
  <2>1. PICK A, d : A = Spots(t, r) /\ d = Len(s)
    OBVIOUS
  <2>2. A \in SUBSET Nat /\ IsFiniteSet(A) /\ d \in Nat
    BY <1>2, <1>5, <2>1
  <2>3. B = {k + d : k \in A}
    BY <1>4, <2>1
  <2>4. IsFiniteSet(B) /\ Cardinality(B) = Cardinality(A)
    BY ONLY <2>2, <2>3, Shifted
  <2> QED BY <2>1, <2>4
<1>7. Spots(u, r) = Spots(s, r) \union B
  <2>1. ASSUME NEW k \in Spots(u, r)
        PROVE  k \in Spots(s, r) \union B
    <3>1. k \in 1..(Len(s) + Len(t)) /\ u[k] = r
      BY <1>2 DEF Spots
    <3>2. CASE k <= Len(s)
      BY <1>2, <1>3, <3>1, <3>2 DEF Spots
    <3>3. CASE ~ (k <= Len(s))
      <4>1. k - Len(s) \in 1..Len(t) /\ k = (k - Len(s)) + Len(s)
        BY <1>2, <3>1, <3>3
      <4>2. k - Len(s) \in Spots(t, r)
        BY <1>2, <1>3, <3>1, <3>3, <4>1 DEF Spots
      <4> QED BY <1>4, <4>1, <4>2
    <3> QED BY <3>2, <3>3
  <2>2. ASSUME NEW k \in Spots(s, r)
        PROVE  k \in Spots(u, r)
    <3>1. k \in 1..Len(s) /\ s[k] = r
      BY <1>2 DEF Spots
    <3>2. k \in 1..(Len(s) + Len(t)) /\ k <= Len(s)
      BY <1>2, <3>1
    <3> QED BY <1>2, <1>3, <3>1, <3>2 DEF Spots
  <2>3. ASSUME NEW k \in Spots(t, r)
        PROVE  k + Len(s) \in Spots(u, r)
    <3>1. k \in 1..Len(t) /\ t[k] = r
      BY <1>2 DEF Spots
    <3>2. /\ k + Len(s) \in 1..(Len(s) + Len(t)) /\ ~ (k + Len(s) <= Len(s))
          /\ (k + Len(s)) - Len(s) = k
      BY <1>2, <3>1
    <3>3. u[k + Len(s)] = r
      BY <1>3, <3>1, <3>2
    <3> QED BY <1>2, <3>2, <3>3 DEF Spots
  <2> QED BY <1>4, <2>1, <2>2, <2>3
<1>8. Spots(s, r) \cap B = {}
  <2>1. \A k \in Spots(s, r) : k \in 1..Len(s)
    BY <1>2 DEF Spots
  <2>2. \A k \in B : ~ (k <= Len(s))
    BY <1>2, <1>4 DEF Spots
  <2> QED BY <1>2, <2>1, <2>2
<1>9. Cardinality(Spots(u, r)) =
        Cardinality(Spots(s, r)) + Cardinality(B) - Cardinality({})
  BY <1>6, <1>7, <1>8, SpotsIs, FS_Union
<1>10. /\ CopiesIn(u, r) = Cardinality(Spots(u, r))
       /\ CopiesIn(s, r) = Cardinality(Spots(s, r)) /\ CopiesIn(s, r) \in Nat
       /\ CopiesIn(t, r) = Cardinality(Spots(t, r)) /\ CopiesIn(t, r) \in Nat
  BY <1>2, SpotsIs
<1> QED BY <1>1, <1>6, <1>9, <1>10, FS_EmptySet

LEMMA CopiesAppend ==
    ASSUME NEW S, NEW s \in Seq(S), NEW f \in S, NEW r
    PROVE  CopiesIn(Append(s, f), r)
              = CopiesIn(s, r) + (IF r = f THEN 1 ELSE 0)
<1>1. <<f>> \in Seq(S) /\ Append(s, f) = s \o <<f>>
  OBVIOUS
<1>2. CopiesIn(<<f>>, r) = IF r = f THEN 1 ELSE 0
  <2>1. Spots(<<f>>, r) = IF r = f THEN {1} ELSE {}
    <3>1. DOMAIN <<f>> = {1} /\ <<f>>[1] = f
      OBVIOUS
    <3> QED BY <3>1 DEF Spots
  <2>2. CopiesIn(<<f>>, r) = Cardinality(Spots(<<f>>, r))
    BY <1>1, SpotsIs
  <2> QED BY <2>1, <2>2, FS_EmptySet, FS_Singleton
<1>3. CopiesIn(s \o <<f>>, r) = CopiesIn(s, r) + CopiesIn(<<f>>, r)
  BY <1>1, CopiesConcat
<1> QED BY <1>1, <1>2, <1>3

LEMMA CopiesTail ==
    ASSUME NEW S, NEW s \in Seq(S), s # <<>>, NEW r
    PROVE  CopiesIn(Tail(s), r) <= CopiesIn(s, r)
<1>1. PICK h, t : h = <<Head(s)>> /\ t = Tail(s)
  OBVIOUS
<1>2. h \in Seq(S) /\ t \in Seq(S) /\ s = h \o t
  BY <1>1
<1>3. CopiesIn(h \o t, r) = CopiesIn(h, r) + CopiesIn(t, r)
  BY <1>2, CopiesConcat
<1>4. CopiesIn(h, r) \in Nat /\ CopiesIn(t, r) \in Nat
  BY <1>2, SpotsIs
<1>5. PICK a, b, c : a = CopiesIn(s, r) /\ b = CopiesIn(h, r) /\ c = CopiesIn(t, r)
  OBVIOUS
<1>6. a = b + c /\ b \in Nat /\ c \in Nat
  BY <1>2, <1>3, <1>4, <1>5
<1>7. c <= a
  BY ONLY <1>6
<1> QED BY <1>1, <1>5, <1>7

\* End d has at most the frames of end c, and one more of each in F.
Gains(c, d, F) ==
    \A r \in Frame :
       CopiesIn(d.wire, r) + CopiesIn(d.out, r)
          <= CopiesIn(c.wire, r) + CopiesIn(c.out, r)
                + (IF r \in F THEN 1 ELSE 0)

LEMMA CopiesNat ==
    ASSUME NEW c, c.wire \in Seq(Frame), c.out \in Seq(Frame), NEW r
    PROVE  CopiesIn(c.wire, r) \in Nat /\ CopiesIn(c.out, r) \in Nat
BY SpotsIs

\* An end that keeps its frames gains nothing.
LEMMA GainsNothing ==
    ASSUME NEW c, c.wire \in Seq(Frame), c.out \in Seq(Frame),
           NEW d, d.wire = c.wire, d.out = c.out
    PROVE  Gains(c, d, {})
<1>1. ASSUME NEW r \in Frame
      PROVE  CopiesIn(d.wire, r) + CopiesIn(d.out, r)
                <= CopiesIn(c.wire, r) + CopiesIn(c.out, r) + 0
  <2>1. PICK x, y : x = CopiesIn(c.wire, r) /\ y = CopiesIn(c.out, r)
    OBVIOUS
  <2>2. x \in Nat /\ y \in Nat
    BY <2>1, CopiesNat
  <2>3. x + y <= x + y + 0
    BY ONLY <2>2
  <2> QED BY <2>1, <2>3
<1> QED BY <1>1 DEF Gains

\* Two steps that add different frames.
LEMMA GainsTwice ==
    ASSUME NEW c, c.wire \in Seq(Frame), c.out \in Seq(Frame),
           NEW d, d.wire \in Seq(Frame), d.out \in Seq(Frame),
           NEW e, e.wire \in Seq(Frame), e.out \in Seq(Frame),
           NEW F, NEW G, F \cap G = {}, Gains(c, d, F), Gains(d, e, G)
    PROVE  Gains(c, e, F \union G)
<1>1. ASSUME NEW r \in Frame
      PROVE  CopiesIn(e.wire, r) + CopiesIn(e.out, r)
                <= CopiesIn(c.wire, r) + CopiesIn(c.out, r)
                      + (IF r \in F \union G THEN 1 ELSE 0)
  <2>1. PICK c1, c2, d1, d2, e1, e2 :
           /\ c1 = CopiesIn(c.wire, r) /\ c2 = CopiesIn(c.out, r)
           /\ d1 = CopiesIn(d.wire, r) /\ d2 = CopiesIn(d.out, r)
           /\ e1 = CopiesIn(e.wire, r) /\ e2 = CopiesIn(e.out, r)
    OBVIOUS
  <2>2. PICK x, y : x = (IF r \in F THEN 1 ELSE 0) /\ y = (IF r \in G THEN 1 ELSE 0)
    OBVIOUS
  <2>3. d1 + d2 <= c1 + c2 + x /\ e1 + e2 <= d1 + d2 + y
    BY <2>1, <2>2 DEF Gains
  <2>4. /\ c1 \in Nat /\ c2 \in Nat /\ d1 \in Nat /\ d2 \in Nat
        /\ e1 \in Nat /\ e2 \in Nat /\ x \in Nat /\ y \in Nat
    BY <2>1, <2>2, CopiesNat
  <2>5. x + y = IF r \in F \union G THEN 1 ELSE 0
    <3>1. ~ (r \in F /\ r \in G)
      OBVIOUS
    <3> QED BY ONLY <2>2, <3>1
  <2>6. e1 + e2 <= c1 + c2 + (x + y)
    BY ONLY <2>3, <2>4
  <2> QED BY <2>1, <2>5, <2>6
<1> QED BY <1>1 DEF Gains

\* What becomes of an end: a queue is written or dropped, a frame is taken.
LEMMA GainsWritten ==
    ASSUME NEW c, c.wire \in Seq(Frame), c.out \in Seq(Frame),
           NEW d, d.out = <<>>, d.wire = c.wire \o c.out
    PROVE  Gains(c, d, {})
<1>1. ASSUME NEW r \in Frame
      PROVE  CopiesIn(d.wire, r) + CopiesIn(d.out, r)
                <= CopiesIn(c.wire, r) + CopiesIn(c.out, r) + 0
  <2>1. PICK x, y, z, w : /\ x = CopiesIn(c.wire, r) /\ y = CopiesIn(c.out, r)
                          /\ z = CopiesIn(c.wire \o c.out, r)
                          /\ w = CopiesIn(<<>>, r)
    OBVIOUS
  <2>2. x \in Nat /\ y \in Nat
    BY <2>1, CopiesNat
  <2>3. z = x + y
    BY <2>1, CopiesConcat
  <2>4. w = 0
    BY <2>1, CopiesEmpty
  <2>5. z + w <= x + y + 0
    BY ONLY <2>2, <2>3, <2>4
  <2> QED BY <2>1, <2>5
<1> QED BY <1>1 DEF Gains

LEMMA GainsDropped ==
    ASSUME NEW c, c.wire \in Seq(Frame), c.out \in Seq(Frame),
           NEW d, d.out \in {c.out, <<>>}, d.wire \in {c.wire, <<>>}
    PROVE  Gains(c, d, {})
<1>1. ASSUME NEW r \in Frame
      PROVE  CopiesIn(d.wire, r) + CopiesIn(d.out, r)
                <= CopiesIn(c.wire, r) + CopiesIn(c.out, r) + 0
  <2>1. PICK x, y, z, w : /\ x = CopiesIn(c.wire, r) /\ y = CopiesIn(c.out, r)
                          /\ z = CopiesIn(d.wire, r) /\ w = CopiesIn(d.out, r)
    OBVIOUS
  <2>2. x \in Nat /\ y \in Nat
    BY <2>1, CopiesNat
  <2>3. CopiesIn(<<>>, r) = 0
    BY CopiesEmpty
  <2>4. z \in {x, 0} /\ w \in {y, 0}
    BY <2>1, <2>3
  <2>5. z + w <= x + y + 0
    BY ONLY <2>2, <2>4
  <2> QED BY <2>1, <2>5
<1> QED BY <1>1 DEF Gains

LEMMA GainsTaken ==
    ASSUME NEW c, c.wire \in Seq(Frame), c.out \in Seq(Frame), c.wire # <<>>,
           NEW d, d.out = c.out, d.wire = Tail(c.wire)
    PROVE  Gains(c, d, {})
<1>1. ASSUME NEW r \in Frame
      PROVE  CopiesIn(d.wire, r) + CopiesIn(d.out, r)
                <= CopiesIn(c.wire, r) + CopiesIn(c.out, r) + 0
  <2>1. PICK x, y, z : /\ x = CopiesIn(c.wire, r) /\ y = CopiesIn(c.out, r)
                       /\ z = CopiesIn(Tail(c.wire), r)
    OBVIOUS
  <2>2. x \in Nat /\ y \in Nat
    BY <2>1, CopiesNat
  <2>3. z \in Nat
    <3>1. Tail(c.wire) \in Seq(Frame)
      BY HeadTailProperties
    <3> QED BY <2>1, <3>1, SpotsIs
  <2>4. z <= x
    BY <2>1, CopiesTail
  <2>5. z + y <= x + y + 0
    BY ONLY <2>2, <2>3, <2>4
  <2> QED BY <2>1, <2>5
<1> QED BY <1>1 DEF Gains

LEMMA GainsQueued ==
    ASSUME NEW c, c.wire \in Seq(Frame), c.out \in Seq(Frame),
           NEW f \in Frame,
           NEW d, d.wire = c.wire, d.out \in {c.out, Append(c.out, f)}
    PROVE  Gains(c, d, {f})
<1>1. ASSUME NEW r \in Frame
      PROVE  CopiesIn(d.wire, r) + CopiesIn(d.out, r)
                <= CopiesIn(c.wire, r) + CopiesIn(c.out, r)
                     + (IF r \in {f} THEN 1 ELSE 0)
  <2>1. PICK x, y, z, w : /\ x = CopiesIn(c.wire, r) /\ y = CopiesIn(c.out, r)
                          /\ z = CopiesIn(d.out, r)
                          /\ w = IF r = f THEN 1 ELSE 0
    OBVIOUS
  <2>2. x \in Nat /\ y \in Nat /\ w \in Nat
    BY <2>1, CopiesNat
  <2>3. CopiesIn(Append(c.out, f), r) = y + w
    BY <2>1, CopiesAppend
  <2>4. z \in {y, y + w}
    BY <2>1, <2>3
  <2>5. x + z <= x + y + w
    BY ONLY <2>2, <2>4
  <2>6. w = IF r \in {f} THEN 1 ELSE 0
    BY <2>1
  <2> QED BY <2>1, <2>5, <2>6
<1> QED BY <1>1 DEF Gains

\* How many clients of n passed number r.
Quota(n, r) == Cardinality(Passed(n, r))

\* The bound, for the connections of one daemon.
Bounded(n) ==
    \A i \in 1..last[n] :
        /\ \A r \in 0..8 : Copies(n, i, r) <= Quota(n, r)
        /\ Copies(n, i, Sub) <= Quota(n, 5) + Quota(n, 6)

\* ChatterBounded, daemon by daemon and for frames that are not under way, too.
LEMMA BoundedIs ==
    ASSUME TypeInv, \A n \in Node : Bounded(n)
    PROVE  ChatterBounded
<1> SUFFICES ASSUME NEW n \in Node, NEW i \in DOMAIN conn[n],
                    NEW r \in UnderWay(n, i)
             PROVE  Copies(n, i, r) <= IF r = Sub THEN Quota(n, 5) + Quota(n, 6)
                                       ELSE Quota(n, r)
  BY DEF ChatterBounded, Quota
<1>1. i \in 1..last[n]
  BY NodeTyped DEF EndsTyped
<1>2. r \in Frame
  <2>1. conn[n][i].wire \in Seq(Frame) /\ conn[n][i].out \in Seq(Frame)
    BY <1>1, FarIs DEF Conn
  <2> QED BY <2>1 DEF UnderWay
<1> QED BY <1>1, <1>2 DEF Bounded, Frame

LEMMA PassedIs ==
    ASSUME TypeInv, NEW n \in Node, NEW r
    PROVE  IsFiniteSet(Passed(n, r)) /\ Quota(n, r) \in Nat
<1>1. last[n] \in Nat
  BY DEF TypeInv, TypeOK
<1>2. IsFiniteSet(1..last[n]) /\ Passed(n, r) \in SUBSET (1..last[n])
  BY <1>1, FS_Interval DEF Passed
<1> QED BY <1>2, FS_Subset, FS_CardinalityType DEF Quota

\* The clients that are there, and stay, only advance.
Matures ==
    \A k \in Node : \A t \in DOMAIN tbl'[k] :
       t \in 1..last[k] =>
          /\ t \in DOMAIN tbl[k]
          /\ tbl[k][t].seq <= tbl'[k][t].seq
          /\ tbl[k][t].key = Self => tbl'[k][t].key = Self

\* Who passed a number has passed it for ever.
LEMMA PassedStays ==
    ASSUME TypeInv, TypeInv', Growing, Matures, NEW n \in Node, NEW r \in 0..8
    PROVE  Passed(n, r) \subseteq Passed(n, r)'
<1>1. 1..last[n] \subseteq 1..last'[n]
  BY DEF Growing, TypeInv, TypeOK
<1>2. ASSUME NEW t \in Passed(n, r), t \in DOMAIN tbl'[n]
      PROVE  IF r = 1 THEN tbl'[n][t].key = Self ELSE tbl'[n][t].seq >= r
  <2>1. /\ t \in 1..last[n]
        /\ t \in DOMAIN tbl[n] => IF r = 1 THEN tbl[n][t].key = Self
                                  ELSE tbl[n][t].seq >= r
    BY DEF Passed
  <2>2. /\ t \in DOMAIN tbl[n] /\ tbl[n][t].seq <= tbl'[n][t].seq
        /\ tbl[n][t].key = Self => tbl'[n][t].key = Self
    BY <1>2, <2>1 DEF Matures
  <2>3. PICK x, y : x = tbl[n][t].seq /\ y = tbl'[n][t].seq
    OBVIOUS
  <2>4. x \in Nat /\ y \in Nat
    <3>1. tbl[n][t].seq \in 0..9
      BY <2>2, ClientIs DEF Client
    <3>2. tbl'[n][t].seq \in 0..9
      <4>1. tbl'[n][t] \in Client(Key', {0, 1}, 0..9)
        BY <1>2 DEF TypeInv, TypeOK
      <4> QED BY <4>1 DEF Client
    <3> QED BY <2>3, <3>1, <3>2
  <2>5. x <= y /\ (r # 1 => x >= r)
    BY <2>1, <2>2, <2>3
  <2>6. r # 1 => y >= r
    BY ONLY <2>4, <2>5, r \in 0..8
  <2> QED BY <2>1, <2>2, <2>3, <2>6
<1>3. \A t \in Passed(n, r) : t \in 1..last'[n]
  BY <1>1 DEF Passed
<1> QED BY <1>2, <1>3 DEF Passed

\* ... so that one more client that passes it makes room for one more frame.
LEMMA QuotaStays ==
    ASSUME TypeInv, TypeInv', Growing, Matures, NEW n \in Node, NEW r \in 0..8
    PROVE  /\ Quota(n, r) \in Nat /\ Quota(n, r)' \in Nat
           /\ Quota(n, r) <= Quota(n, r)'
           /\ (\E x : x \in Passed(n, r)' /\ x \notin Passed(n, r)) =>
                Quota(n, r) + 1 <= Quota(n, r)'
<1>1. PICK P, Q : P = Passed(n, r) /\ Q = Passed(n, r)'
  OBVIOUS
<1>2. P \subseteq Q
  BY <1>1, PassedStays
<1>3. /\ IsFiniteSet(P) /\ Quota(n, r) = Cardinality(P) /\ Quota(n, r) \in Nat
  BY <1>1, PassedIs DEF Quota
<1>4. IsFiniteSet(Q)
  <2>1. last'[n] \in Nat
    BY DEF TypeInv, TypeOK
  <2>2. IsFiniteSet(1..last'[n]) /\ Q \in SUBSET (1..last'[n])
    BY <1>1, <2>1, FS_Interval DEF Passed
  <2> QED BY <2>2, FS_Subset
<1>5. Quota(n, r)' = Cardinality(Q)
  BY <1>1 DEF Quota
<1>6. PICK p, q : p = Cardinality(P) /\ q = Cardinality(Q)
  OBVIOUS
<1>7. p <= q /\ q \in Nat /\ p \in Nat /\ (p = q => P = Q)
  BY <1>2, <1>3, <1>4, <1>6, FS_Subset, FS_CardinalityType
<1>8. (\E x : x \in Q /\ x \notin P) => p + 1 <= q
  <2>1. (\E x : x \in Q /\ x \notin P) => p # q
    BY <1>7
  <2> QED BY ONLY <1>7, <2>1
<1> QED BY <1>1, <1>3, <1>5, <1>6, <1>7, <1>8

\* What a step of the handshake must be like: frames in F are sent once to a
\* client, and a client has passed each of them only now.
LEMMA BoundedFrom ==
    ASSUME TypeInv, TypeInv', Growing, Matures, NEW n \in Node, Bounded(n),
           NEW F,
           \A l \in 1..last'[n] :
              IF l \in 1..last[n] THEN Gains(conn[n][l], conn'[n][l], F)
              ELSE Gains(NewEnd(<<n, 0>>, FALSE), conn'[n][l], F),
           \A r \in 0..8 : r \in F =>
              \E x : x \in Passed(n, r)' /\ x \notin Passed(n, r),
           Sub \in F => \E q \in {5, 6} :
              \E x : x \in Passed(n, q)' /\ x \notin Passed(n, q)
    PROVE  Bounded(n)'
<1>1. \A r \in 0..8 :
         /\ Quota(n, r) \in Nat /\ Quota(n, r)' \in Nat
         /\ Quota(n, r) + (IF r \in F THEN 1 ELSE 0) <= Quota(n, r)'
  <2>1. ASSUME NEW r \in 0..8
        PROVE  /\ Quota(n, r) \in Nat /\ Quota(n, r)' \in Nat
               /\ Quota(n, r) + (IF r \in F THEN 1 ELSE 0) <= Quota(n, r)'
    <3>1. PICK p, q : p = Quota(n, r) /\ q = Quota(n, r)'
      OBVIOUS
    <3>2. p \in Nat /\ q \in Nat /\ p <= q /\ (r \in F => p + 1 <= q)
      BY <3>1, QuotaStays
    <3>3. p + (IF r \in F THEN 1 ELSE 0) <= q
      BY ONLY <3>2
    <3> QED BY <3>1, <3>2, <3>3
  <2> QED BY <2>1
<1>2. Quota(n, 5) + Quota(n, 6) + (IF Sub \in F THEN 1 ELSE 0)
        <= Quota(n, 5)' + Quota(n, 6)'
  <2>1. PICK p, q, x, y : /\ p = Quota(n, 5) /\ q = Quota(n, 5)'
                          /\ x = Quota(n, 6) /\ y = Quota(n, 6)'
    OBVIOUS
  <2>2. 5 \in 0..8 /\ 6 \in 0..8
    OBVIOUS
  <2>3. p \in Nat /\ q \in Nat /\ p <= q /\ x \in Nat /\ y \in Nat /\ x <= y
    BY <2>1, <2>2, QuotaStays
  <2>4. Sub \in F => p + 1 <= q \/ x + 1 <= y
    BY <2>1, <2>2, QuotaStays
  <2>5. p + x + (IF Sub \in F THEN 1 ELSE 0) <= q + y
    BY ONLY <2>3, <2>4
  <2> QED BY <2>1, <2>5
<1>3. ASSUME NEW l \in 1..last'[n], NEW r \in Frame, NEW B, B \in Nat,
             l \in 1..last[n] => Copies(n, l, r) <= B
      PROVE  /\ Copies(n, l, r)' <= B + (IF r \in F THEN 1 ELSE 0)
             /\ Copies(n, l, r)' \in Nat
  <2>0. PICK x, y, z : /\ x = CopiesIn(conn'[n][l].wire, r)
                       /\ y = CopiesIn(conn'[n][l].out, r)
                       /\ z = IF r \in F THEN 1 ELSE 0
    OBVIOUS
  <2>1. x \in Nat /\ y \in Nat /\ z \in Nat
    <3>1. conn'[n][l] \in Conn'
      BY DEF TypeInv, TypeOK
    <3>2. conn'[n][l].wire \in Seq(Frame) /\ conn'[n][l].out \in Seq(Frame)
      BY <3>1 DEF Conn, Frame
    <3> QED BY <2>0, <3>2, CopiesNat
  <2>2. CASE l \in 1..last[n]
    <3>1. PICK c, d : c = CopiesIn(conn[n][l].wire, r) /\ d = CopiesIn(conn[n][l].out, r)
      OBVIOUS
    <3>2. c \in Nat /\ d \in Nat
      <4>1. conn[n][l] \in Conn
        BY <2>2, FarIs
      <4> QED BY <3>1, <4>1, CopiesNat DEF Conn
    <3>3. x + y <= c + d + z
      BY <2>0, <2>2, <3>1 DEF Gains
    <3>4. c + d <= B
      BY <1>3, <2>2, <3>1 DEF Copies
    <3>5. x + y <= B + z
      BY ONLY <1>3, <2>1, <3>2, <3>3, <3>4
    <3>6. x + y \in Nat
      BY <2>1
    <3> QED BY <2>0, <3>5, <3>6 DEF Copies
  <2>3. CASE l \notin 1..last[n]
    <3>1. CopiesIn(<<>>, r) = 0
      BY CopiesEmpty
    <3>2. x + y <= 0 + 0 + z
      BY <2>0, <2>3, <3>1 DEF Gains, NewEnd
    <3>3. x + y <= B + z
      BY ONLY <1>3, <2>1, <3>2
    <3>4. x + y \in Nat
      BY <2>1
    <3> QED BY <2>0, <3>3, <3>4 DEF Copies
  <2> QED BY <2>2, <2>3
<1>4. \A r \in 0..8 : r \in Frame /\ Sub \in Frame
  BY DEF Frame
<1>5. ASSUME NEW l \in 1..last'[n], NEW r \in 0..8
      PROVE  Copies(n, l, r)' <= Quota(n, r)'
  <2>1. PICK p, q, c, z : /\ p = Quota(n, r) /\ q = Quota(n, r)'
                          /\ c = Copies(n, l, r)'
                          /\ z = IF r \in F THEN 1 ELSE 0
    OBVIOUS
  <2>2. p \in Nat /\ q \in Nat /\ p + z <= q
    BY <1>1, <2>1
  <2>3. c <= p + z /\ c \in Nat
    <3>1. l \in 1..last[n] => Copies(n, l, r) <= p
      BY <2>1 DEF Bounded
    <3> QED BY <1>3, <1>4, <2>1, <2>2, <3>1
  <2>4. z \in Nat
    BY <2>1
  <2>5. c <= q
    BY ONLY <2>2, <2>3, <2>4
  <2> QED BY <2>1, <2>5
<1>6. ASSUME NEW l \in 1..last'[n]
      PROVE  Copies(n, l, Sub)' <= Quota(n, 5)' + Quota(n, 6)'
  <2>1. PICK p, q, c, z : /\ p = Quota(n, 5) + Quota(n, 6)
                          /\ q = Quota(n, 5)' + Quota(n, 6)'
                          /\ c = Copies(n, l, Sub)'
                          /\ z = IF Sub \in F THEN 1 ELSE 0
    OBVIOUS
  <2>2. p \in Nat /\ q \in Nat /\ p + z <= q
    <3>1. /\ Quota(n, 5) \in Nat /\ Quota(n, 6) \in Nat
          /\ Quota(n, 5)' \in Nat /\ Quota(n, 6)' \in Nat
      BY <1>1
    <3>2. p \in Nat /\ q \in Nat
      BY <2>1, <3>1
    <3> QED BY <1>2, <2>1, <3>2
  <2>3. c <= p + z /\ c \in Nat
    <3>1. l \in 1..last[n] => Copies(n, l, Sub) <= p
      BY <2>1 DEF Bounded
    <3> QED BY <1>3, <1>4, <2>1, <2>2, <3>1
  <2>4. z \in Nat
    BY <2>1
  <2>5. c <= q
    BY ONLY <2>2, <2>3, <2>4
  <2> QED BY <2>1, <2>5
<1> QED BY <1>5, <1>6 DEF Bounded

\* Steps that send nothing.
LEMMA BoundedStays ==
    ASSUME TypeInv, TypeInv', last' = last, Matures,
           \A k \in Node : \A l \in 1..last[k] :
              Gains(conn[k][l], conn'[k][l], {}),
           NEW n \in Node, Bounded(n)
    PROVE  Bounded(n)'
<1>1. Growing
  BY NotGrown
<1>2. \A l \in 1..last'[n] :
         IF l \in 1..last[n] THEN Gains(conn[n][l], conn'[n][l], {})
         ELSE Gains(NewEnd(<<n, 0>>, FALSE), conn'[n][l], {})
  OBVIOUS
<1> QED BY <1>1, <1>2, BoundedFrom

\* Clients that stay as they are mature.
LEMMA MaturesSame ==
    ASSUME TypeInv,
           \A k \in Node : \A t \in DOMAIN tbl'[k] :
              t \in 1..last[k] =>
                 /\ t \in DOMAIN tbl[k]
                 /\ tbl'[k][t].seq = tbl[k][t].seq
                 /\ tbl'[k][t].key = tbl[k][t].key
    PROVE  Matures
<1>1. \A k \in Node : \A t \in DOMAIN tbl[k] : tbl[k][t].seq \in 0..9
  BY ClientIs DEF Client
<1> QED BY <1>1 DEF Matures

LEMMA EndTyped ==
    ASSUME TypeInv, NEW n \in Node, NEW i \in 1..last[n]
    PROVE  conn[n][i].wire \in Seq(Frame) /\ conn[n][i].out \in Seq(Frame)
BY FarIs DEF Conn

\* Steps that change no client and no connection.
LEMMA QuietBounded ==
    ASSUME TypeInv, TypeInv', UNCHANGED <<tbl, last, conn>>,
           NEW n \in Node, Bounded(n)
    PROVE  Bounded(n)'
<1>1. Matures
  <2>1. \A k \in Node : \A t \in DOMAIN tbl'[k] : t \in DOMAIN tbl[k]
    OBVIOUS
  <2> QED BY <2>1, MaturesSame
<1>2. \A k \in Node : \A l \in 1..last[k] : Gains(conn[k][l], conn'[k][l], {})
  BY EndTyped, GainsNothing
<1> QED BY <1>1, <1>2, BoundedStays

\* A daemon that dies, or that closes clients, drops what was under way.
LEMMA CrashBounded ==
    ASSUME TypeInv, TypeInv', NEW m \in Node, Crash(m) \/ Verify(m),
           NEW n \in Node, Bounded(n)
    PROVE  Bounded(n)'
<1>1. PICK S : Forget(m, S)
  BY VerifyParts DEF Crash
<1>2. last' = last
  BY VerifyIs DEF Crash
<1>3. Matures
  <2>1. CASE Crash(m)
    <3>1. DOMAIN tbl'[m] = {} /\ \A k \in Node \ {m} : tbl'[k] = tbl[k]
      BY <2>1 DEF Crash, None, TypeInv
    <3> QED BY <3>1, MaturesSame
  <2>2. CASE Verify(m)
    <3>1. PICK T, D :
             /\ Forget(m, T) /\ T \subseteq DOMAIN tbl[m]
             /\ DOMAIN tbl'[m] = DOMAIN tbl[m] \ T
             /\ \A i \in DOMAIN tbl'[m] :
                   /\ i \in D => /\ tbl[m][i].reg /\ ~ conn[m][i].est
                                 /\ tbl'[m][i] = [tbl[m][i] EXCEPT !.shut = TRUE,
                                                                   !.reg = FALSE]
                   /\ i \notin D => tbl'[m][i] = tbl[m][i]
                   /\ tbl[m][i].shut => ~ conn[m][i].est
             /\ \A k \in Node \ {m} : tbl'[k] = tbl[k]
      BY <2>2, VerifyParts
    <3>2. \A i \in DOMAIN tbl'[m] : /\ i \in DOMAIN tbl[m]
                                    /\ tbl'[m][i].seq = tbl[m][i].seq
                                    /\ tbl'[m][i].key = tbl[m][i].key
      <4>1. ASSUME NEW i \in DOMAIN tbl'[m]
            PROVE  /\ i \in DOMAIN tbl[m]
                   /\ tbl'[m][i].seq = tbl[m][i].seq
                   /\ tbl'[m][i].key = tbl[m][i].key
        <5>1. i \in DOMAIN tbl[m] /\ tbl[m][i] \in Client(Key, {0, 1}, 0..9)
          BY <3>1, ClientIs
        <5>2. \/ tbl'[m][i] = [tbl[m][i] EXCEPT !.shut = TRUE, !.reg = FALSE]
              \/ tbl'[m][i] = tbl[m][i]
          BY <3>1
        <5> QED BY <5>1, <5>2 DEF Client
      <4> QED BY <4>1
    <3>3. \A k \in Node : \A t \in DOMAIN tbl'[k] :
             /\ t \in DOMAIN tbl[k]
             /\ tbl'[k][t].seq = tbl[k][t].seq /\ tbl'[k][t].key = tbl[k][t].key
      BY <3>1, <3>2
    <3> QED BY <3>3, MaturesSame
  <2> QED BY <2>1, <2>2
<1>4. \A k \in Node : \A l \in 1..last[k] : Gains(conn[k][l], conn'[k][l], {})
  BY <1>1, ForgetKeeps, EndTyped, GainsDropped
<1> QED BY <1>2, <1>3, <1>4, BoundedStays

\* Setting a connection up sends nothing.
LEMMA EstablishBounded ==
    ASSUME TypeInv, TypeInv', NEW m \in Node, NEW i \in 1..last[m],
           Establish(m, i), NEW n \in Node, Bounded(n)
    PROVE  Bounded(n)'
<1>1. /\ conn' = [conn EXCEPT ![m][i].est = TRUE]
      /\ UNCHANGED <<tbl, last>>
  BY DEF Establish
<1>2. Matures
  <2>1. \A k \in Node : \A t \in DOMAIN tbl'[k] : t \in DOMAIN tbl[k]
    BY <1>1
  <2> QED BY <1>1, <2>1, MaturesSame
<1>3. ASSUME NEW k \in Node, NEW l \in 1..last[k]
      PROVE  Gains(conn[k][l], conn'[k][l], {})
  <2>1. DOMAIN conn = Node /\ \A a \in Node : DOMAIN conn[a] = 1..last[a]
    BY NodeTyped DEF TypeInv, EndsTyped
  <2>2. conn'[k][l] \in {conn[k][l], [conn[k][l] EXCEPT !.est = TRUE]}
    <3>1. CASE k = m
      <4>1. conn'[m] = [conn[m] EXCEPT ![i].est = TRUE]
        BY <1>1, <2>1
      <4> QED BY <2>1, <3>1, <4>1
    <3>2. CASE k # m
      BY <1>1, <2>1, <3>2
    <3> QED BY <3>1, <3>2
  <2>3. conn[k][l] \in Conn
    BY FarIs
  <2>4. conn'[k][l].wire = conn[k][l].wire /\ conn'[k][l].out = conn[k][l].out
    BY <2>2, <2>3 DEF Conn
  <2> QED BY <2>4, EndTyped, GainsNothing
<1> QED BY <1>1, <1>2, <1>3, BoundedStays

\* What is written was queued.
LEMMA FlushGains ==
    ASSUME KnownInv, NEW m \in Node, NEW x, NEW y, Flushing(m, x, y),
           NEW k \in Node, NEW l \in 1..last[k]
    PROVE  Gains(conn[k][l], conn'[k][l], {})
<1>0. TypeInv
  BY Known
<1>1. CASE k = m
  <2>1. PICK c : c = conn[m][l]
    OBVIOUS
  <2>2. c \in Conn /\ l \in DOMAIN conn[m]
    BY <1>0, <1>1, <2>1, FarIs, NodeTyped DEF EndsTyped
  <2>3. conn'[m][l] \in {[c EXCEPT !.out = <<>>], c,
                         [c EXCEPT !.wire = @ \o c.out, !.out = <<>>]}
    BY <1>1, <2>1, <2>2 DEF Flushing, Flushed
  <2>4. PICK d : d = conn'[m][l]
    OBVIOUS
  <2>5. c.wire \in Seq(Frame) /\ c.out \in Seq(Frame)
    BY <2>2 DEF Conn
  <2>6. CASE d \in {[c EXCEPT !.out = <<>>], c}
    <3>1. d.out \in {c.out, <<>>} /\ d.wire \in {c.wire, <<>>}
      BY <2>2, <2>6 DEF Conn
    <3> QED BY <1>1, <2>1, <2>4, <2>5, <3>1, GainsDropped
  <2>7. CASE d = [c EXCEPT !.wire = @ \o c.out, !.out = <<>>]
    <3>1. d.out = <<>> /\ d.wire = c.wire \o c.out
      BY <2>2, <2>7 DEF Conn
    <3> QED BY <1>1, <2>1, <2>4, <2>5, <3>1, GainsWritten
  <2> QED BY <2>3, <2>4, <2>6, <2>7
<1>2. CASE k # m
  <2>1. conn'[k][l].out = conn[k][l].out /\ conn'[k][l].wire = conn[k][l].wire
    BY <1>2 DEF Flushing
  <2> QED BY <1>0, <2>1, EndTyped, GainsNothing
<1> QED BY <1>1, <1>2

\* Closing a client on the end of its connection keeps its number and its key.
LEMMA CloseEofMatures ==
    ASSUME NEW t, NEW eof, NEW K,
           \A i \in DOMAIN t : t[i] \in Client(K, {0, 1}, 0..9),
           NEW u, u = CloseEof(t, eof)
    PROVE  /\ DOMAIN u = DOMAIN t
           /\ \A i \in DOMAIN t : u[i].seq = t[i].seq /\ u[i].key = t[i].key
<1>1. DOMAIN u = DOMAIN t
  BY DEF CloseEof
<1>2. ASSUME NEW i \in DOMAIN t
      PROVE  u[i].seq = t[i].seq /\ u[i].key = t[i].key
  <2>1. u[i] \in {t[i], [t[i] EXCEPT !.fd = 0]}
    BY DEF CloseEof
  <2> QED BY <2>1 DEF Client
<1> QED BY <1>1, <1>2

\* Writing what is queued sends nothing new.
LEMMA SocketBounded ==
    ASSUME KnownInv, TypeInv', NEW m \in Node, Socket(m),
           NEW n \in Node, Bounded(n)
    PROVE  Bounded(n)'
<1>0. TypeInv /\ DOMAIN tbl = Node /\ DOMAIN conn = Node
  BY Known DEF TypeInv
<1>1. PICK eof : tbl' = [tbl EXCEPT ![m] = CloseEof(tbl[m], eof)]
  BY DEF Socket
<1>2. /\ conn' = [conn EXCEPT ![m] = Flushed(conn[m], SocketGone(m))]
      /\ last' = last
  BY DEF Socket, SocketGone
<1>3. Matures
  <2>1. tbl'[m] = CloseEof(tbl[m], eof) /\ \A k \in Node \ {m} : tbl'[k] = tbl[k]
    BY <1>0, <1>1
  <2>2. \A i \in DOMAIN tbl[m] : tbl[m][i] \in Client(Key, {0, 1}, 0..9)
    BY <1>0, ClientIs
  <2>3. /\ DOMAIN tbl'[m] = DOMAIN tbl[m]
        /\ \A i \in DOMAIN tbl[m] : /\ tbl'[m][i].seq = tbl[m][i].seq
                                    /\ tbl'[m][i].key = tbl[m][i].key
    BY <2>1, <2>2, CloseEofMatures
  <2>4. \A k \in Node : \A t \in DOMAIN tbl'[k] :
           /\ t \in DOMAIN tbl[k]
           /\ tbl'[k][t].seq = tbl[k][t].seq /\ tbl'[k][t].key = tbl[k][t].key
    BY <2>1, <2>3
  <2> QED BY <1>0, <2>4, MaturesSame
<1>4. \A k \in Node : \A l \in 1..last[k] : Gains(conn[k][l], conn'[k][l], {})
  <2>1. conn'[m] = Flushed(conn[m], SocketGone(m))
    BY <1>0, <1>2
  <2>2. \A k \in Node \ {m} : conn'[k] = conn[k]
    BY <1>2
  <2>3. Flushing(m, m, 0)
    BY <2>1, <2>2 DEF Flushing
  <2> QED BY <2>3, FlushGains
<1> QED BY <1>0, <1>2, <1>3, <1>4, BoundedStays

\* A client that was just accepted was sent nothing.
LEMMA AcceptBounded ==
    ASSUME KnownInv, TypeInv', NEW m \in Node, Accept(m),
           NEW n \in Node, Bounded(n)
    PROVE  Bounded(n)'
<1>0. TypeInv /\ DOMAIN tbl = Node
  BY Known DEF TypeInv
<1>1. pend[m] # <<>> /\ last' = [last EXCEPT ![m] = @ + 1]
  BY <1>0, AcceptIs
<1>2. PICK x, y : Head(pend[m]) = <<x, y>>
  BY <1>0, <1>1, HeadOfPend, EndIs
<1>3. x \in Node /\ x # m /\ y \in 1..last[x]
  <2>1. 1 \in DOMAIN pend[m] /\ pend[m][1] = <<x, y>>
    BY <1>0, <1>1, <1>2, HeadOfPend
  <2>2. x \in Node /\ y \in 1..last[x] /\ conn[x][y].far = <<m, 0>>
    BY <2>1, EntryKnown
  <2> QED BY <2>2, Paired
<1>4. PICK j : j = last[m] + 1
  OBVIOUS
<1>5. /\ Growing /\ 1..last'[m] = (1..last[m]) \union {j} /\ j \notin 1..last[m]
      /\ \A k \in Node \ {m} : last'[k] = last[k]
  BY <1>0, <1>1, <1>4, OneMore
<1>6. Joined(m, x, y, j)
  BY ONLY KnownInv, m \in Node, Accept(m), <1>2, <1>3, <1>4, AcceptEnds
<1>7. \A k \in Node : \A l \in 1..last[k] : Gains(conn[k][l], conn'[k][l], {})
  BY <1>6, FlushGains DEF Joined
<1>8. Matures
  <2>1. PICK c : c = AcceptedClient(<<x, y>>, 1)
    OBVIOUS
  <2>2. PICK t : t = Push(tbl[m], j, c)
    OBVIOUS
  <2>3. PICK eof : tbl' = [tbl EXCEPT ![m] = CloseEof(t, eof)]
    <3>1. PICK eof : tbl' = [tbl EXCEPT ![m] =
             CloseEof(Push(tbl[m], last[m] + 1, AcceptedClient(Head(pend[m]), 1)),
                      eof)]
      BY <1>0, AcceptIs
    <3>2. t = Push(tbl[m], last[m] + 1, AcceptedClient(Head(pend[m]), 1))
      BY <1>2, <1>4, <2>1, <2>2
    <3> QED BY <3>1, <3>2
  <2>4. PICK K : K = Key \union {<<x, y>>}
    OBVIOUS
  <2>5. c \in Client(K, {0, 1}, 0..9)
    <3>1. <<x, y>> \in K
      BY <2>4
    <3> QED BY <2>1, <3>1, OutgoingTyped
  <2>6. /\ DOMAIN t = DOMAIN tbl[m] \union {j} /\ t[j] = c
        /\ \A l \in DOMAIN tbl[m] : l # j => t[l] = tbl[m][l]
    <3>1. DOMAIN t = DOMAIN tbl[m] \union {j}
      BY <2>2, PushDomain
    <3>2. t[j] = c
      BY <2>2, PushNew
    <3>3. \A l \in DOMAIN tbl[m] : l # j => t[l] = tbl[m][l]
      BY <2>2, PushOld
    <3> QED BY <3>1, <3>2, <3>3
  <2>7. \A l \in DOMAIN t : t[l] \in Client(K, {0, 1}, 0..9)
    <3>1. \A l \in DOMAIN tbl[m] : tbl[m][l] \in Client(Key, {0, 1}, 0..9)
      BY <1>0, ClientIs
    <3>2. \A l \in DOMAIN tbl[m] : tbl[m][l] \in Client(K, {0, 1}, 0..9)
      BY <2>4, <3>1 DEF Client
    <3> QED BY <2>5, <2>6, <3>2
  <2>8. /\ DOMAIN tbl'[m] = DOMAIN t
        /\ \A l \in DOMAIN t : /\ tbl'[m][l].seq = t[l].seq
                               /\ tbl'[m][l].key = t[l].key
    <3>1. tbl'[m] = CloseEof(t, eof)
      BY <1>0, <2>3
    <3> QED BY <2>7, <3>1, CloseEofMatures
  <2>9. \A k \in Node \ {m} : tbl'[k] = tbl[k]
    BY <1>0, <2>3
  <2>10. \A k \in Node : \A l \in DOMAIN tbl'[k] : l \in 1..last[k] =>
            /\ l \in DOMAIN tbl[k]
            /\ tbl'[k][l].seq = tbl[k][l].seq /\ tbl'[k][l].key = tbl[k][l].key
    BY <1>5, <2>6, <2>8, <2>9
  <2> QED BY <1>0, <2>10, MaturesSame
<1>9. ASSUME NEW l \in 1..last'[n]
      PROVE  IF l \in 1..last[n] THEN Gains(conn[n][l], conn'[n][l], {})
             ELSE Gains(NewEnd(<<n, 0>>, FALSE), conn'[n][l], {})
  <2>1. CASE l \in 1..last[n]
    BY <1>7, <2>1
  <2>2. CASE l \notin 1..last[n]
    <3>1. n = m /\ l = j
      BY <1>5, <2>2
    <3>2. PICK c, d : c = NewEnd(<<n, 0>>, FALSE) /\ d = conn'[n][l]
      OBVIOUS
    <3>3. d = NewEnd(<<x, y>>, TRUE)
      BY <1>6, <3>1, <3>2 DEF Joined
    <3>4. c.out = <<>> /\ c.wire = <<>> /\ d.out = <<>> /\ d.wire = <<>>
      BY <3>2, <3>3 DEF NewEnd
    <3>5. Gains(c, d, {})
      <4>1. c.wire \in Seq(Frame) /\ c.out \in Seq(Frame)
        BY <3>4
      <4> QED BY <3>4, <4>1, GainsNothing
    <3> QED BY <2>2, <3>2, <3>5
  <2> QED BY <2>1, <2>2
<1> QED BY <1>0, <1>5, <1>8, <1>9, BoundedFrom

\* Taking a frame only removes one.
LEMMA TakenGains ==
    ASSUME KnownInv, NEW n \in Node, NEW i \in 1..last[n], Inbox(n, i) # <<>>,
           NEW k \in Node, NEW l \in 1..last[k]
    PROVE  Gains(conn[k][l], Taken(n, i)[k][l], {})
<1>0. TypeInv
  BY Known
<1>1. PICK m, j : conn[n][i].far = <<m, j>>
  BY <1>0, FarIs
<1>2. PICK c, d : c = conn[k][l] /\ d = Taken(n, i)[k][l]
  OBVIOUS
<1>3. /\ d.out = c.out
      /\ (k # m \/ l # j) => d.wire = c.wire
      /\ (k = m /\ l = j) => d.wire = Tail(c.wire)
  BY <1>1, <1>2, TakenAt
<1>4. c.wire \in Seq(Frame) /\ c.out \in Seq(Frame)
  BY <1>0, <1>2, EndTyped
<1>5. CASE k = m /\ l = j
  <2>1. c.wire # <<>>
    BY <1>1, <1>2, <1>5 DEF Inbox
  <2>2. Gains(c, d, {})
    BY <1>3, <1>4, <1>5, <2>1, GainsTaken
  <2> QED BY <1>2, <2>2
<1>6. CASE k # m \/ l # j
  <2>1. Gains(c, d, {})
    BY <1>3, <1>4, <1>6, GainsNothing
  <2> QED BY <1>2, <2>1
<1> QED BY <1>5, <1>6

\* A frame that is sent is queued at most once for a client.
LEMMA SentGains ==
    ASSUME NEW L, NEW e \in [L -> Conn], NEW t, NEW sink, NEW f \in Frame,
           NEW l \in L
    PROVE  Gains(e[l], Sent(e, t, sink, f)[l], {f})
<1>1. PICK c, d : c = e[l] /\ d = Sent(e, t, sink, f)[l]
  OBVIOUS
<1>2. c \in Conn /\ d \in {c, [c EXCEPT !.out = Append(@, f)]}
  BY <1>1 DEF Sent
<1>3. /\ c.wire \in Seq(Frame) /\ c.out \in Seq(Frame)
      /\ d.wire = c.wire /\ d.out \in {c.out, Append(c.out, f)}
  BY <1>2 DEF Conn
<1> QED BY <1>1, <1>3, GainsQueued

\* Frames that are not answered.
LEMMA IdleBounded ==
    ASSUME KnownInv, TypeInv', NEW m \in Node, NEW i,
           TakeSub(m, i) \/ TakeNothing(m, i), NEW n \in Node, Bounded(n)
    PROVE  Bounded(n)'
<1>0. TypeInv
  BY Known
<1>1. /\ Inbox(m, i) # <<>> /\ conn' = Taken(m, i) /\ tbl' = tbl
      /\ last' = last /\ i \in 1..last[m]
  <2>1. CASE TakeSub(m, i)
    BY <1>0, <2>1, VisitIs, Visited DEF TakeSub
  <2>2. CASE TakeNothing(m, i)
    BY <1>0, <2>2, TakeNothingIs, Visited
  <2> QED BY <2>1, <2>2
<1>2. Matures
  <2>1. \A k \in Node : \A t \in DOMAIN tbl'[k] : t \in DOMAIN tbl[k]
    BY <1>1
  <2> QED BY <1>0, <1>1, <2>1, MaturesSame
<1>3. \A k \in Node : \A l \in 1..last[k] : Gains(conn[k][l], conn'[k][l], {})
  BY <1>1, TakenGains
<1> QED BY <1>0, <1>1, <1>2, <1>3, BoundedStays

\* A step that takes a frame from client i and sends those in F.
LEMMA SendBounded ==
    ASSUME KnownInv, TypeInv', NEW m \in Node, NEW i \in 1..last[m],
           Inbox(m, i) # <<>>, last' = last, Matures,
           \A k \in Node \ {m} : conn'[k] = Taken(m, i)[k],
           NEW F,
           \A l \in 1..last[m] : Gains(Taken(m, i)[m][l], conn'[m][l], F),
           \A r \in 0..8 : r \in F =>
              \E x : x \in Passed(m, r)' /\ x \notin Passed(m, r),
           Sub \in F => \E q \in {5, 6} :
              \E x : x \in Passed(m, q)' /\ x \notin Passed(m, q),
           NEW n \in Node, Bounded(n)
    PROVE  Bounded(n)'
<1>0. TypeInv /\ Growing
  BY Known, NotGrown
<1>1. CASE n = m
  <2>1. ASSUME NEW l \in 1..last[m]
        PROVE  Gains(conn[m][l], conn'[m][l], F)
    <3>1. PICK c, d, e : c = conn[m][l] /\ d = Taken(m, i)[m][l] /\ e = conn'[m][l]
      OBVIOUS
    <3>2. Gains(c, d, {}) /\ Gains(d, e, F)
      BY <3>1, TakenGains
    <3>3. c.wire \in Seq(Frame) /\ c.out \in Seq(Frame)
      BY <1>0, <3>1, EndTyped
    <3>4. d.wire \in Seq(Frame) /\ d.out \in Seq(Frame)
      <4>1. Taken(m, i)[m] \in [1..last[m] -> Conn]
        BY <1>0, TakenIs
      <4>2. d \in Conn
        BY <3>1, <4>1
      <4> QED BY <4>2 DEF Conn
    <3>5. e.wire \in Seq(Frame) /\ e.out \in Seq(Frame)
      <4>1. conn'[m][l] \in Conn'
        BY DEF TypeInv, TypeOK
      <4> QED BY <3>1, <4>1 DEF Conn, Frame
    <3>6. Gains(c, e, {} \union F)
      BY ONLY <3>2, <3>3, <3>4, <3>5, GainsTwice
    <3>7. {} \union F = F
      OBVIOUS
    <3> QED BY <3>1, <3>6, <3>7
  <2>2. \A l \in 1..last'[m] :
           IF l \in 1..last[m] THEN Gains(conn[m][l], conn'[m][l], F)
           ELSE Gains(NewEnd(<<m, 0>>, FALSE), conn'[m][l], F)
    BY <2>1
  <2> QED BY <1>0, <1>1, <2>2, BoundedFrom
<1>2. CASE n # m
  <2>1. \A l \in 1..last[n] : Gains(conn[n][l], conn'[n][l], {})
    BY <1>2, TakenGains
  <2>2. \A l \in 1..last'[n] :
           IF l \in 1..last[n] THEN Gains(conn[n][l], conn'[n][l], {})
           ELSE Gains(NewEnd(<<n, 0>>, FALSE), conn'[n][l], {})
    BY <2>1
  <2> QED BY <1>0, <2>2, BoundedFrom
<1> QED BY <1>1, <1>2

\* A newcomer is registered under the key Self, which it had not, and 1 is sent.
LEMMA RegisterBounded ==
    ASSUME KnownInv, TypeInv', NEW m \in Node, NEW i, TakeRegister(m, i),
           NEW n \in Node, Bounded(n)
    PROVE  Bounded(n)'
<1>0. TypeInv /\ DOMAIN tbl = Node
  BY Known DEF TypeInv
<1>1. /\ Visit(m, i) /\ Inbox(m, i) # <<>>
      /\ Find(tbl[m], tbl[m][i].key) = {}
  BY <1>0, TakeRegisterIs DEF IsInit, InitRegisters
<1>2. /\ i \in DOMAIN tbl[m] /\ i \in 1..last[m] /\ last' = last
      /\ pc[m] = "request"
  BY <1>0, <1>1, VisitIs, Visited
<1>3. PICK t \in DOMAIN tbl[m] : RegisterStep(m, i, t)
  BY <1>0, TakeRegisterIs
<1>4. Newcomer(m, i)
  <2>1. PICK a, b : conn[m][i].far = <<a, b>>
    BY <1>0, <1>2, FarIs
  <2>2. ~ tbl[m][i].shut
    BY <1>1, <1>2, <2>1, Reader
  <2> QED BY <1>1, <1>2, <2>2, Unknown
<1>5. t = i
  <2>1. tbl[m][t].key = tbl[m][i].key
    BY <1>3 DEF RegisterStep, FindUnregistered, First
  <2> QED BY <1>2, <1>4, <2>1, NewcomerAlone
<1>6. PICK c, new, e :
         /\ c = Registered(tbl[m][i], Self)
         /\ new = [tbl[m] EXCEPT ![i] = c]
         /\ e = Sent(Taken(m, i)[m], new, new[i].key, 1)
  OBVIOUS
<1>7. /\ tbl' = [tbl EXCEPT ![m] = new]
      /\ conn' = [Taken(m, i) EXCEPT ![m] = e]
  BY <1>3, <1>5, <1>6 DEF RegisterStep
<1>8. /\ DOMAIN Taken(m, i) = Node
      /\ Taken(m, i)[m] \in [1..last[m] -> Conn]
  BY <1>0, <1>1, <1>2, TakenIs
<1>9. /\ tbl'[m] = new /\ conn'[m] = e
      /\ \A k \in Node \ {m} : tbl'[k] = tbl[k] /\ conn'[k] = Taken(m, i)[k]
  BY <1>0, <1>7, <1>8
<1>10. /\ DOMAIN new = DOMAIN tbl[m] /\ new[i] = c
       /\ \A l \in DOMAIN tbl[m] : l # i => new[l] = tbl[m][l]
  BY <1>2, <1>6
<1>11. c.key = Self /\ c.seq = tbl[m][i].seq /\ tbl[m][i].seq \in 0..9
  <2>1. tbl[m][i] \in Client(Key, {0, 1}, 0..9)
    BY <1>0, <1>2, ClientIs
  <2> QED BY <1>6, <2>1 DEF Registered, Client
<1>12. tbl[m][i].key # Self
  <2>1. Self \in Named
    BY DEF Named
  <2> QED BY <1>2, <1>4, <2>1, NewcomerKey
<1>13. Matures
  <2>1. \A k \in Node : \A l \in DOMAIN tbl[k] : tbl[k][l].seq <= tbl[k][l].seq
    BY <1>0, ClientIs DEF Client
  <2> QED BY <1>9, <1>10, <1>11, <2>1 DEF Matures
<1>14. i \in Passed(m, 1)' /\ i \notin Passed(m, 1)
  BY <1>2, <1>9, <1>10, <1>11, <1>12 DEF Passed
<1>15. ASSUME NEW l \in 1..last[m]
       PROVE  Gains(Taken(m, i)[m][l], conn'[m][l], {1})
  <2>1. 1 \in Frame
    BY DEF Frame
  <2>2. Gains(Taken(m, i)[m][l], Sent(Taken(m, i)[m], new, new[i].key, 1)[l], {1})
    BY <1>8, <2>1, SentGains
  <2> QED BY <1>6, <1>9, <2>2
<1>16. Sub # 1
  BY HandshakeAssumption
<1>17. \A r \in 0..8 : r \in {1} =>
          \E x : x \in Passed(m, r)' /\ x \notin Passed(m, r)
  BY <1>14
<1> QED BY <1>1, <1>2, <1>9, <1>13, <1>15, <1>16, <1>17, SendBounded

\* Number s is accepted once by a client: it records s + 1, which is sent, and
\* a subscription with 5 and 6.
LEMMA AdvanceBounded ==
    ASSUME KnownInv, TypeInv', NEW m \in Node, NEW i, TakeAdvance(m, i),
           NEW n \in Node, Bounded(n)
    PROVE  Bounded(n)'
<1>0. TypeInv /\ DOMAIN tbl = Node
  BY Known DEF TypeInv
<1>1. Visit(m, i) /\ Inbox(m, i) # <<>> /\ IsInit(m, i)
  BY <1>0, TakeAdvanceIs DEF IsInit
<1>2. i \in DOMAIN tbl[m] /\ i \in 1..last[m] /\ last' = last
  BY <1>0, <1>1, VisitIs, Visited
<1>3. PICK s : s = Head(Inbox(m, i))
  OBVIOUS
<1>4. PICK t \in DOMAIN tbl[m] : AdvanceStep(m, i, t, s)
  BY <1>0, <1>3, TakeAdvanceIs
<1>5. s \in 0..8
  BY <1>0, <1>1, <1>2, <1>3, NumberIs
<1>6. PICK c, new : /\ c = Advanced(tbl[m][t], s, Self)
                    /\ new = [tbl[m] EXCEPT ![t] = c]
  OBVIOUS
<1>7. PICK e0, e1, e2 :
         /\ e0 = Taken(m, i)[m]
         /\ e1 = IF s \in {4, 5} THEN Sent(e0, new, new[t].key, Sub) ELSE e0
         /\ e2 = IF InitReplies(s) THEN Sent(e1, new, new[i].key, s + 1) ELSE e1
  OBVIOUS
<1>8. /\ tbl' = [tbl EXCEPT ![m] = new]
      /\ conn' = [Taken(m, i) EXCEPT ![m] = e2]
      /\ InitAdvances(tbl[m], i, s, t)
  BY <1>4, <1>6, <1>7 DEF AdvanceStep
<1>9. DOMAIN Taken(m, i) = Node /\ e0 \in [1..last[m] -> Conn]
  BY <1>0, <1>1, <1>2, <1>7, TakenIs
<1>10. /\ tbl'[m] = new /\ conn'[m] = e2
       /\ \A k \in Node \ {m} : tbl'[k] = tbl[k] /\ conn'[k] = Taken(m, i)[k]
  BY <1>0, <1>8, <1>9
<1>11. /\ DOMAIN new = DOMAIN tbl[m] /\ new[t] = c
       /\ \A l \in DOMAIN tbl[m] : l # t => new[l] = tbl[m][l]
  BY <1>6
<1>12. /\ c.seq = s + 1 /\ tbl[m][t].seq \in 0..9 /\ s + 1 > tbl[m][t].seq
       /\ tbl[m][t].key = Self => c.key = Self
  <2>1. tbl[m][t] \in Client(Key, {0, 1}, 0..9)
    BY <1>0, ClientIs
  <2>2. tbl[m][t].seq \in 0..9 /\ s + 1 > tbl[m][t].seq
    BY <1>8, <2>1 DEF Client, InitAdvances
  <2>3. c.seq = s + 1 /\ c.key = IF s = 1 THEN Self ELSE tbl[m][t].key
    BY <1>6, <2>1 DEF Advanced, Client
  <2> QED BY <2>2, <2>3
<1>13. Matures
  <2>1. \A k \in Node : \A l \in DOMAIN tbl[k] : tbl[k][l].seq <= tbl[k][l].seq
    BY <1>0, ClientIs DEF Client
  <2>2. PICK x, y : x = tbl[m][t].seq /\ y = c.seq
    OBVIOUS
  <2>3. x <= y
    <3>1. x \in 0..9 /\ y = s + 1 /\ s + 1 > x
      BY <1>12, <2>2
    <3> QED BY ONLY <1>5, <3>1
  <2> QED BY <1>10, <1>11, <1>12, <2>1, <2>2, <2>3 DEF Matures
<1>14. s \in 1..7 => t \in Passed(m, s + 1)' /\ t \notin Passed(m, s + 1)
  <2> SUFFICES ASSUME s \in 1..7
               PROVE  t \in Passed(m, s + 1)' /\ t \notin Passed(m, s + 1)
    OBVIOUS
  <2>1. s + 1 # 1 /\ s + 1 >= s + 1
    OBVIOUS
  <2>2. t \in 1..last[m] /\ t \in 1..last'[m]
    BY <1>0, <1>2, ClientIs
  <2>3. ~ (tbl[m][t].seq >= s + 1)
    <3>1. PICK x : x = tbl[m][t].seq
      OBVIOUS
    <3>2. ~ (x >= s + 1)
      BY <1>12, <3>1
    <3> QED BY <3>1, <3>2
  <2>4. t \notin Passed(m, s + 1)
    BY <2>1, <2>3 DEF Passed
  <2>5. t \in DOMAIN tbl'[m] => tbl'[m][t].seq = s + 1
    BY <1>10, <1>11, <1>12
  <2> QED BY <2>1, <2>2, <2>4, <2>5 DEF Passed
<1>15. PICK A, B : /\ A = (IF s \in {4, 5} THEN {Sub} ELSE {})
                   /\ B = (IF InitReplies(s) THEN {s + 1} ELSE {})
  OBVIOUS
<1>16. A \cap B = {}
  BY <1>5, <1>15, HandshakeAssumption DEF InitReplies
<1>17. e1 \in [1..last[m] -> Conn] /\ e2 \in [1..last[m] -> Conn]
  <2>1. Sub \in Frame /\ (InitReplies(s) => s + 1 \in Frame)
    BY DEF Frame, InitReplies
  <2>2. e1 \in [1..last[m] -> Conn]
    BY <1>7, <1>9, <2>1, SentTyped
  <2> QED BY <1>7, <2>1, <2>2, SentTyped
<1>18. ASSUME NEW l \in 1..last[m]
       PROVE  Gains(e0[l], e2[l], A \union B)
  <2>1. /\ e0[l].wire \in Seq(Frame) /\ e0[l].out \in Seq(Frame)
        /\ e1[l].wire \in Seq(Frame) /\ e1[l].out \in Seq(Frame)
        /\ e2[l].wire \in Seq(Frame) /\ e2[l].out \in Seq(Frame)
    BY <1>9, <1>17 DEF Conn
  <2>2. Gains(e0[l], e1[l], A)
    <3>1. CASE s \in {4, 5}
      <4>1. Sub \in Frame
        BY DEF Frame
      <4>2. Gains(e0[l], Sent(e0, new, new[t].key, Sub)[l], {Sub})
        BY <1>9, <4>1, SentGains
      <4> QED BY <1>7, <1>15, <3>1, <4>2
    <3>2. CASE s \notin {4, 5}
      <4>1. e1 = e0 /\ A = {}
        BY <1>7, <1>15, <3>2
      <4> QED BY <2>1, <4>1, GainsNothing
    <3> QED BY <3>1, <3>2
  <2>3. Gains(e1[l], e2[l], B)
    <3>1. CASE InitReplies(s)
      <4>1. s + 1 \in Frame
        BY <3>1 DEF Frame, InitReplies
      <4>2. Gains(e1[l], Sent(e1, new, new[i].key, s + 1)[l], {s + 1})
        BY <1>17, <4>1, SentGains
      <4> QED BY <1>7, <1>15, <3>1, <4>2
    <3>2. CASE ~ InitReplies(s)
      <4>1. e2 = e1 /\ B = {}
        BY <1>7, <1>15, <3>2
      <4> QED BY <2>1, <4>1, GainsNothing
    <3> QED BY <3>1, <3>2
  <2>4. PICK a, b, d : a = e0[l] /\ b = e1[l] /\ d = e2[l]
    OBVIOUS
  <2>5. Gains(a, d, A \union B)
    <3>1. /\ a.wire \in Seq(Frame) /\ a.out \in Seq(Frame)
          /\ b.wire \in Seq(Frame) /\ b.out \in Seq(Frame)
          /\ d.wire \in Seq(Frame) /\ d.out \in Seq(Frame)
          /\ Gains(a, b, A) /\ Gains(b, d, B)
      BY <2>1, <2>2, <2>3, <2>4
    <3> QED BY ONLY <1>16, <3>1, GainsTwice
  <2> QED BY <2>4, <2>5
<1>19. PICK F : F = A \union B
  OBVIOUS
<1>20. \A l \in 1..last[m] : Gains(Taken(m, i)[m][l], conn'[m][l], F)
  BY <1>7, <1>10, <1>18, <1>19
<1>21. \A r \in 0..8 : r \in F =>
          \E x : x \in Passed(m, r)' /\ x \notin Passed(m, r)
  <2>1. \A r \in 0..8 : r \in F => r = s + 1 /\ s \in 1..7
    BY <1>15, <1>19, HandshakeAssumption DEF InitReplies
  <2> QED BY <1>14, <2>1
<1>22. Sub \in F => \E q \in {5, 6} :
          \E x : x \in Passed(m, q)' /\ x \notin Passed(m, q)
  <2>1. Sub \in F => s + 1 \in {5, 6} /\ s \in 1..7
    BY <1>15, <1>19, HandshakeAssumption DEF InitReplies
  <2> QED BY <1>14, <2>1
<1> QED BY <1>1, <1>2, <1>10, <1>13, <1>20, <1>21, <1>22, SendBounded

\* Number 0 is sunk to the address connected to: the new client is sent it, and
\* older clients with that address may be.
LEMMA ConnectBounded ==
    ASSUME KnownInv, TypeInv', NEW m \in Node, NEW o \in Node, Connect(m, o),
           NEW n \in Node, Bounded(n)
    PROVE  Bounded(n)'
<1>0. TypeInv /\ DOMAIN tbl = Node /\ DOMAIN conn = Node
  BY Known DEF TypeInv
<1>1. PICK i : i = last[m] + 1
  OBVIOUS
<1>2. PICK c, d : c = OutgoingClient(<<o, 0>>, 1) /\ d = NewEnd(<<o, 0>>, FALSE)
  OBVIOUS
<1>3. PICK t, e : t = Push(tbl[m], i, c) /\ e = Push(conn[m], i, d)
  OBVIOUS
<1>4. /\ tbl' = [tbl EXCEPT ![m] = t]
      /\ last' = [last EXCEPT ![m] = @ + 1]
      /\ conn' = [conn EXCEPT ![m] = Sent(e, t, <<o, 0>>, 0)]
  BY <1>0, <1>1, <1>2, <1>3, ConnectIs
<1>5. /\ Growing /\ 1..last'[m] = (1..last[m]) \union {i} /\ i \notin 1..last[m]
      /\ \A k \in Node \ {m} : last'[k] = last[k]
  BY <1>0, <1>1, <1>4, OneMore
<1>6. /\ tbl'[m] = t /\ conn'[m] = Sent(e, t, <<o, 0>>, 0)
      /\ \A k \in Node \ {m} : tbl'[k] = tbl[k] /\ conn'[k] = conn[k]
  BY <1>0, <1>4
<1>7. /\ DOMAIN t = DOMAIN tbl[m] \union {i}
      /\ \A l \in DOMAIN tbl[m] : l # i => t[l] = tbl[m][l]
  <2>1. DOMAIN t = DOMAIN tbl[m] \union {i}
    BY <1>3, PushDomain
  <2>2. \A l \in DOMAIN tbl[m] : l # i => t[l] = tbl[m][l]
    BY <1>3, PushOld
  <2> QED BY <2>1, <2>2
<1>8. /\ DOMAIN e = (1..last[m]) \union {i} /\ e[i] = d
      /\ \A l \in 1..last[m] : e[l] = conn[m][l]
  <2>1. DOMAIN conn[m] = 1..last[m]
    BY <1>0, NodeTyped DEF EndsTyped
  <2>2. DOMAIN e = DOMAIN conn[m] \union {i}
    BY <1>3, PushDomain
  <2>3. e[i] = d
    BY <1>3, PushNew
  <2>4. \A l \in DOMAIN conn[m] : l # i => e[l] = conn[m][l]
    BY <1>3, PushOld
  <2> QED BY <1>5, <2>1, <2>2, <2>3, <2>4
<1>9. Matures
  <2>1. \A k \in Node : \A l \in DOMAIN tbl'[k] : l \in 1..last[k] =>
           l \in DOMAIN tbl[k] /\ tbl'[k][l] = tbl[k][l]
    BY <1>5, <1>6, <1>7
  <2> QED BY <1>0, <2>1, MaturesSame
<1>10. ASSUME NEW l \in 1..last'[m]
       PROVE  IF l \in 1..last[m] THEN Gains(conn[m][l], conn'[m][l], {0})
              ELSE Gains(NewEnd(<<m, 0>>, FALSE), conn'[m][l], {0})
  <2>1. PICK a, b : a = e[l] /\ b = conn'[m][l]
    OBVIOUS
  <2>2. l \in DOMAIN e /\ b \in {a, [a EXCEPT !.out = Append(@, 0)]}
    BY <1>5, <1>6, <1>8, <2>1 DEF Sent
  <2>3. 0 \in Frame
    BY DEF Frame
  <2>4. CASE l \in 1..last[m]
    <3>1. a = conn[m][l] /\ a \in Conn
      BY <1>0, <1>8, <2>1, <2>4, FarIs
    <3>2. /\ a.wire \in Seq(Frame) /\ a.out \in Seq(Frame)
          /\ b.wire = a.wire /\ b.out \in {a.out, Append(a.out, 0)}
      BY <2>2, <3>1 DEF Conn
    <3>3. Gains(a, b, {0})
      BY <2>3, <3>2, GainsQueued
    <3> QED BY <2>1, <2>4, <3>1, <3>3
  <2>5. CASE l \notin 1..last[m]
    <3>1. a = d
      BY <1>5, <1>8, <2>1, <2>5
    <3>2. PICK z : z = NewEnd(<<m, 0>>, FALSE)
      OBVIOUS
    <3>3. /\ z.wire \in Seq(Frame) /\ z.out \in Seq(Frame)
          /\ b.wire = z.wire /\ b.out \in {z.out, Append(z.out, 0)}
      BY <1>2, <2>2, <3>1, <3>2 DEF NewEnd
    <3>4. Gains(z, b, {0})
      BY <2>3, <3>3, GainsQueued
    <3> QED BY <2>1, <2>5, <3>2, <3>4
  <2> QED BY <2>4, <2>5
<1>11. i \in Passed(m, 0)' /\ i \notin Passed(m, 0)
  <2>1. ASSUME i \in DOMAIN tbl'[m]
        PROVE  tbl'[m][i].seq >= 0
    <3>1. tbl'[m][i] \in Client(Key', {0, 1}, 0..9)
      BY <2>1 DEF TypeInv, TypeOK
    <3>2. tbl'[m][i].seq \in 0..9
      BY <3>1 DEF Client
    <3> QED BY <3>2
  <2> QED BY <1>5, <2>1 DEF Passed
<1>12. CASE n = m
  <2>1. \A r \in 0..8 : r \in {0} =>
           \E x : x \in Passed(m, r)' /\ x \notin Passed(m, r)
    BY <1>11
  <2>2. Sub \notin {0}
    BY HandshakeAssumption
  <2> QED BY <1>0, <1>5, <1>9, <1>10, <1>12, <2>1, <2>2, BoundedFrom
<1>13. CASE n # m
  <2>1. \A l \in 1..last[n] : conn'[n][l] = conn[n][l]
    BY <1>6, <1>13
  <2>2. \A l \in 1..last[n] : Gains(conn[n][l], conn'[n][l], {})
    BY <1>0, <2>1, EndTyped, GainsNothing
  <2>3. \A l \in 1..last'[n] :
           IF l \in 1..last[n] THEN Gains(conn[n][l], conn'[n][l], {})
           ELSE Gains(NewEnd(<<n, 0>>, FALSE), conn'[n][l], {})
    BY <1>5, <1>13, <2>2
  <2> QED BY <1>0, <1>5, <1>9, <2>3, BoundedFrom
<1> QED BY <1>12, <1>13

\* The inductive invariant: KnownInv is needed to know that the client that is
\* registered at number 1 is the one the number arrived on.
ChatterInv == KnownInv /\ \A n \in Node : Bounded(n)

LEMMA ChatterInit == Init => ChatterInv
<1> SUFFICES ASSUME Init PROVE ChatterInv
  OBVIOUS
<1>1. \A n \in Node : last[n] = 0
  BY DEF Init
<1> QED BY <1>1, KnownInit DEF ChatterInv, Bounded

LEMMA ChatterStep == ChatterInv /\ [Next]_vars => ChatterInv'
<1> SUFFICES ASSUME ChatterInv, [Next]_vars, NEW k \in Node PROVE Bounded(k)'
  BY KnownStep DEF ChatterInv
<1>0. KnownInv /\ TypeInv /\ TypeInv' /\ Bounded(k)
  BY TypeStep DEF ChatterInv, KnownInv
<1>1. CASE UNCHANGED vars
  BY <1>0, <1>1, QuietBounded DEF vars
<1>2. ASSUME NEW n \in Node, Boot(n) \/ Crash(n)
      PROVE  Bounded(k)'
  BY <1>0, <1>2, QuietBounded, CrashBounded DEF Boot
<1>3. ASSUME NEW n \in Node, Loop(n)
      PROVE  Bounded(k)'
  <2>1. CASE NoBroadcast(n) \/ RequestDone(n)
    BY <1>0, <2>1, QuietBounded DEF NoBroadcast, RequestDone
  <2>2. ASSUME NEW m \in Node \ {n}, Connect(n, m)
        PROVE  Bounded(k)'
    BY <1>0, <2>2, ConnectBounded
  <2>3. ASSUME NEW i, Skip(n, i)
        PROVE  Bounded(k)'
    BY <1>0, <2>3, QuietBounded DEF Skip, Visit
  <2>4. ASSUME NEW i, Take(n, i)
        PROVE  Bounded(k)'
    BY <1>0, <2>4, IdleBounded, RegisterBounded, AdvanceBounded DEF Take
  <2> QED BY <1>0, <1>3, <2>1, <2>2, <2>3, <2>4, SocketBounded, AcceptBounded,
             CrashBounded DEF Loop
<1>4. ASSUME NEW n \in Node, NEW i \in 1..last[n], Establish(n, i)
      PROVE  Bounded(k)'
  BY <1>0, <1>4, EstablishBounded
<1> QED BY <1>1, <1>2, <1>3, <1>4 DEF Next

\* On every connection, whatever is duplicated, lost, killed or timed out, the
\* numbers of the handshake under way are few: txop_init_recv drops a number
\* that the client it finds has recorded (init.c:301), and that stops answers,
\* which are sunk to a key all handshaken connections share, from multiplying.
THEOREM ChatterStaysBounded == Spec => []ChatterBounded
<1>1. ChatterInv => ChatterBounded
  BY Known, BoundedIs DEF ChatterInv, KnownInv
<1> QED BY <1>1, ChatterInit, ChatterStep, PTL DEF Spec
=============================================================================
