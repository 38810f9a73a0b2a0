--------------------------- MODULE TxLedgerProofs ---------------------------
(***************************************************************************)
(* The store and the ledgers of a daemon, for any peers, transactions and  *)
(* number of hours: types, order and completeness of the ledgers, and that *)
(* they only grow.                                                         *)
(***************************************************************************)
EXTENDS TxLedgerProps, SequenceTheorems, TLAPS

\* The head and the rest of what is not empty.
LEMMA NonEmpty ==
    ASSUME NEW S, NEW s \in Seq(S), s # <<>>
    PROVE  /\ Len(s) \in Nat \ {0}
           /\ Head(s) = s[1] /\ Head(s) \in S
           /\ Tail(s) \in Seq(S) /\ Len(Tail(s)) = Len(s) - 1
           /\ \A i \in 1..Len(s) - 1 : Tail(s)[i] = s[i + 1]
BY HeadTailProperties, EmptySeq

\* A function that is extended keeps its type, and has the new value.
LEMMA PutType ==
    ASSUME NEW D, NEW f, f \in [DOMAIN f -> D], NEW a, NEW x \in D
    PROVE  /\ DOMAIN Put(f, a, x) = DOMAIN f \union {a}
           /\ Put(f, a, x) \in [DOMAIN Put(f, a, x) -> D]
           /\ Put(f, a, x)[a] = x
           /\ \A b \in DOMAIN f : b # a => Put(f, a, x)[b] = f[b]
BY DEF Put

\* Adding a pending entry to a ledger keeps its type and its earlier entries.
LEMMA AppendedType ==
    ASSUME NEW l \in Ledger, NEW e \in Pending
    PROVE  /\ Appended(l, e) \in Ledger
           /\ Appended(l, e).key = l.key
           /\ Appended(l, e).stamp = l.stamp
           /\ Len(Appended(l, e).txs) = Len(l.txs) + 1
           /\ DOMAIN Appended(l, e).txs = 1..Len(l.txs) + 1
           /\ DOMAIN l.txs = 1..Len(l.txs)
           /\ \A i \in DOMAIN l.txs : Appended(l, e).txs[i] = l.txs[i]
           /\ Appended(l, e).txs[Len(l.txs) + 1].n = e.n
           /\ Appended(l, e).txs[Len(l.txs) + 1].tx = e.tx
<1> DEFINE x == [tx |-> e.tx, n |-> e.n]
<1>1. x \in Entry
  BY DEF Pending, Entry
<1>2. l.txs \in Seq(Entry)
  BY DEF Ledger
<1>3. /\ Append(l.txs, x) \in Seq(Entry)
      /\ Len(Append(l.txs, x)) = Len(l.txs) + 1
      /\ \A i \in 1..Len(l.txs) : Append(l.txs, x)[i] = l.txs[i]
      /\ Append(l.txs, x)[Len(l.txs) + 1] = x
  BY <1>1, <1>2
<1>4. /\ DOMAIN l.txs = 1..Len(l.txs)
      /\ DOMAIN Append(l.txs, x) = 1..Len(l.txs) + 1
  BY <1>2, <1>3
<1>5. Appended(l, e) = [l EXCEPT !.txs = Append(l.txs, x)]
  BY DEF Appended
<1> HIDE DEF x
<1>6. /\ Appended(l, e) \in Ledger
      /\ Appended(l, e).txs = Append(l.txs, x)
      /\ Appended(l, e).key = l.key
      /\ Appended(l, e).stamp = l.stamp
  BY <1>3, <1>5 DEF Ledger
<1>7. x.n = e.n /\ x.tx = e.tx
  BY DEF x
<1> QED
  BY <1>3, <1>4, <1>6, <1>7

\* Finding the place of a ledger in the chain changes nothing else of it.
LEMMA ArchivedType ==
    ASSUME NEW l \in Ledger,
           archive \in [DOMAIN archive -> [stamp : 0..MaxHour, seq : Nat]]
    PROVE  /\ Archived(l) \in Ledger
           /\ Archived(l).key = l.key /\ Archived(l).stamp = l.stamp
           /\ Archived(l).txs = l.txs
<1>1. CASE l.key \notin DOMAIN archive
  BY <1>1 DEF Archived
<1>2. CASE l.key \in DOMAIN archive
  <2> DEFINE s == archive[l.key].stamp
             q == archive[l.key].seq + 1
  <2>1. s \in 0..MaxHour /\ q \in Nat
    BY <1>2
  <2>2. Archived(l) = [[l EXCEPT !.parent = s] EXCEPT !.seq = q]
    BY <1>2 DEF Archived, Ledger
  <2> HIDE DEF s, q
  <2> QED
    BY <2>1, <2>2 DEF Ledger
<1> QED
  BY <1>1, <1>2

\* A new ledger has no entries.
LEMMA NewLedgerType ==
    ASSUME NEW k \in Key
    PROVE  /\ NewLedger(k) \in Ledger
           /\ NewLedger(k).key = k
           /\ NewLedger(k).stamp = 0
           /\ NewLedger(k).txs = <<>>
BY LedgerAssumption DEF NewLedger, Ledger

\* A step that ends with the entries new to be added: they are numbered in
\* their order, and what a received transaction gives rise to is its own entry,
\* made after the store was looked up or written.
Queues(new, rcv) ==
    /\ pc \in {"idle", "handle"}
    /\ Queue(new, rcv)
    /\ UNCHANGED <<now, store, archive, files, led, lost>>
    /\ new \in Seq(Pending)
    /\ \A i \in 1..Len(new) : new[i].n = count + i
    /\ rcv \subseteq count + 1..count + Len(new)
    /\ \A i \in 1..Len(new) :
          new[i].n \in rcv => /\ pc = "handle" /\ new[i].tx = Head(cur).tx
                             /\ Stored(Head(cur).tx)

LEMMA QueueSteps ==
    ASSUME TypeOK,
           Handle \/ (\E r \in Files : HandleAnswers(r)) \/ (\E t \in Tx : Send(t))
    PROVE  \E new, rcv : Queues(new, rcv)
<1>0. count \in Nat
  BY DEF TypeOK
<1>1. ASSUME NEW k \in Key, NEW t \in Tx, NEW i \in 1..2
      PROVE  /\ Made(k, t, i) \in Pending
             /\ Made(k, t, i).n = count + i /\ Made(k, t, i).tx = t
  BY <1>0 DEF Made, Pending
<1>2. pc = "handle" => Head(cur) \in [from : Key, tx : Tx]
  BY NonEmpty DEF TypeOK
<1>3. CASE Handle
  <2> DEFINE e == Made(Head(cur).from, Head(cur).tx, 1)
  <2>1. /\ pc = "handle" /\ UNCHANGED <<now, store, archive, files, led, lost>>
        /\ e \in Pending /\ e.n = count + 1 /\ e.tx = Head(cur).tx
    BY <1>1, <1>2, <1>3 DEF Handle
  <2>2. /\ Recorded(Head(cur).tx) => Queue(<<e>>, {count + 1})
        /\ ~ Recorded(Head(cur).tx) => Queue(<<>>, {})
    BY <1>3 DEF Handle
  <2> HIDE DEF e
  <2>3. CASE Recorded(Head(cur).tx)
    <3>1. Queues(<<e>>, {count + 1})
      BY <1>0, <2>1, <2>2, <2>3 DEF Queues, Recorded
    <3> QED
      BY <3>1
  <2>4. CASE ~ Recorded(Head(cur).tx)
    <3>1. Queues(<<>>, {})
      BY <1>0, <2>1, <2>2, <2>4 DEF Queues
    <3> QED
      BY <3>1
  <2> QED
    BY <2>3, <2>4
<1>4. ASSUME NEW r \in Files, HandleAnswers(r)
      PROVE  \E new, rcv : Queues(new, rcv)
  <2> DEFINE a == Made(Self, r, 1)
             b == Made(Head(cur).from, Head(cur).tx, 2)
  <2>1. /\ pc = "handle" /\ UNCHANGED <<now, store, archive, files, led, lost>>
        /\ Queue(<<a, b>>, {count + 2}) /\ Head(cur).tx \in Files
    BY <1>4 DEF HandleAnswers
  <2>2. /\ a \in Pending /\ a.n = count + 1
        /\ b \in Pending /\ b.n = count + 2 /\ b.tx = Head(cur).tx
    BY <1>1, <1>2, <2>1 DEF Key, Tx
  <2>3. Stored(Head(cur).tx)
    BY <2>1, LedgerAssumption DEF Stored
  <2> HIDE DEF a, b
  <2>4. Queues(<<a, b>>, {count + 2})
    BY <1>0, <2>1, <2>2, <2>3 DEF Queues
  <2> QED
    BY <2>4
<1>5. ASSUME NEW t \in Tx, Send(t)
      PROVE  \E new, rcv : Queues(new, rcv)
  <2> DEFINE e == Made(Self, t, 1)
  <2>1. /\ pc = "idle" /\ UNCHANGED <<now, store, archive, files, led, lost>>
        /\ Queue(<<e>>, {}) /\ e \in Pending /\ e.n = count + 1
    BY <1>1, <1>5 DEF Send, Key
  <2> HIDE DEF e
  <2>2. Queues(<<e>>, {})
    BY <1>0, <2>1 DEF Queues
  <2> QED
    BY <2>2
<1> QED
  BY <1>3, <1>4, <1>5

-----------------------------------------------------------------------------
\* The initial values have their types.
LEMMA LedgerTypeInit == Init => TypeOK
<1> USE LedgerAssumption
<1> SUFFICES ASSUME Init PROVE TypeOK
  OBVIOUS
<1>1. NewLedger(Self) \in Ledger
  BY NewLedgerType DEF Key
<1> QED
  BY <1>1 DEF Init, TypeOK, Hour, Key

\* A step keeps the types.
LEMMA LedgerTypeStep == TypeOK /\ [Next]_vars => TypeOK'
<1> USE LedgerAssumption
<1> SUFFICES ASSUME TypeOK, [Next]_vars PROVE TypeOK'
  OBVIOUS
<1> DEFINE StoreOK   == store \in [DOMAIN store -> Tx]
           ArchiveOK == archive \in [DOMAIN archive -> [stamp : 0..MaxHour, seq : Nat]]
           FilesOK   == DOMAIN files \subseteq Key \X (0..MaxHour)
                        /\ files \in [DOMAIN files -> Ledger]
           CurOK     == cur \in Seq([from : Key, tx : Tx])
                        /\ (pc \in {"save", "handle"} => cur # <<>>)
           AddsOK    == adds \in Seq(Pending)
                        /\ (pc \in {"open", "stamp", "add", "write"} => adds # <<>>)
           RestOK    == now \in Hour /\ count \in Nat /\ rcvd \subseteq 1..count
                        /\ lost \subseteq {"read", "write", "crash"}
           PcOK      == pc \in {"idle", "save", "handle", "open", "stamp", "add", "write"}
           LedOK     == led \in Ledger
<1>0. TypeOK <=> (StoreOK /\ ArchiveOK /\ FilesOK /\ CurOK /\ AddsOK
                    /\ RestOK /\ PcOK /\ LedOK)
  BY DEF TypeOK
<1>00. TypeOK' <=> (StoreOK /\ ArchiveOK /\ FilesOK /\ CurOK /\ AddsOK
                    /\ RestOK /\ PcOK /\ LedOK)'
  BY DEF TypeOK
<1> SUFFICES (StoreOK /\ ArchiveOK /\ FilesOK /\ CurOK /\ AddsOK
                    /\ RestOK /\ PcOK /\ LedOK)'
  BY <1>00
<1>a. NewLedger(Self) \in Ledger
  BY NewLedgerType DEF Key
<1>1. ASSUME NEW p \in Key, NEW t \in Tx, Begin(p, t) \/ BeginUnread(p, t)
      PROVE  (StoreOK /\ ArchiveOK /\ FilesOK /\ CurOK /\ AddsOK
                    /\ RestOK /\ PcOK /\ LedOK)'
  <2>1. /\ UNCHANGED <<now, store, archive, files, adds, led, count, rcvd>>
        /\ cur' = <<[from |-> p, tx |-> t]>>
        /\ pc' \in {"save", "handle"}
        /\ lost' \in {lost, lost \union {"read"}}
    BY <1>1 DEF Begin, BeginUnread
  <2>2. cur' \in Seq([from : Key, tx : Tx]) /\ cur' # <<>>
    BY <2>1
  <2> QED
    BY <1>0, <2>1, <2>2
<1>2. CASE Save
  <2>1. Head(cur) \in [from : Key, tx : Tx]
    BY <1>0, <1>2, NonEmpty DEF Save
  <2>2. Head(cur).tx \in Tx
    BY <2>1
  <2>3. StoreOK'
    <3>1. CASE store' = store
      BY <1>0, <3>1
    <3>2. CASE store' = Put(store, StoreKey(Head(cur).tx), Head(cur).tx)
      <4>1. store \in [DOMAIN store -> Tx]
        BY <1>0
      <4> QED
        BY <2>2, <3>2, <4>1 DEF Put
    <3>3. \/ store' = store
          \/ store' = Put(store, StoreKey(Head(cur).tx), Head(cur).tx)
      BY <1>2 DEF Save
    <3> HIDE DEF StoreOK
    <3> QED
      BY <3>1, <3>2, <3>3
  <2>4. /\ UNCHANGED <<now, archive, files, cur, adds, led, count, rcvd>>
        /\ pc = "save" /\ pc' = "handle"
        /\ lost' \in {lost, lost \union {"write"}}
    BY <1>2 DEF Save
  <2> QED
    BY <1>0, <2>3, <2>4
<1>3. CASE HandleRefused
  BY <1>0, <1>3 DEF HandleRefused
<1>4. CASE Handle \/ (\E r \in Files : HandleAnswers(r)) \/ (\E t \in Tx : Send(t))
  <2>1. PICK new, rcv : Queues(new, rcv)
    BY <1>4, QueueSteps
  <2>2. /\ UNCHANGED <<now, store, archive, files, led, lost>>
        /\ adds' = new /\ cur' = <<>> /\ new \in Seq(Pending)
        /\ pc' \in {"idle", "open"} /\ (pc' = "open" => adds' # <<>>)
        /\ count' = count + Len(new) /\ Len(new) \in Nat
        /\ rcvd' = rcvd \union rcv /\ rcv \subseteq count + 1..count + Len(new)
    BY <2>1, LenProperties DEF Queues, Queue
  <2>3. cur' \in Seq([from : Key, tx : Tx])
    BY <2>2
  <2>4. rcvd' \subseteq 1..count'
    BY <1>0, <2>2
  <2>5. count' \in Nat
    BY <1>0, <2>2
  <2> QED
    BY <1>0, <2>2, <2>3, <2>4, <2>5
<1>5. CASE Open
  <2>0. Head(adds) \in Pending
    BY <1>0, <1>5, NonEmpty DEF Open
  <2>1. Head(adds).key \in Key
    BY <2>0 DEF Pending
  <2>2. NewLedger(Head(adds).key) \in Ledger
    BY <2>1, NewLedgerType
  <2>3. LedOK'
    BY <1>0, <1>5, <2>2 DEF Open
  <2>4. /\ UNCHANGED <<now, store, archive, files, cur, adds, count, rcvd, lost>>
        /\ pc = "open" /\ pc' \in {"add", "stamp"}
    BY <1>5 DEF Open
  <2> QED
    BY <1>0, <2>3, <2>4
<1>6. CASE OpenUnread
  <2>0. Head(adds) \in Pending
    BY <1>0, <1>6, NonEmpty DEF OpenUnread
  <2>1. Head(adds).key \in Key
    BY <2>0 DEF Pending
  <2>2. NewLedger(Head(adds).key) \in Ledger
    BY <2>1, NewLedgerType
  <2>3. /\ UNCHANGED <<now, store, archive, files, cur, adds, count, rcvd>>
        /\ pc = "open" /\ pc' = "stamp" /\ led' = NewLedger(Head(adds).key)
        /\ lost' = lost \union {"read"}
    BY <1>6 DEF OpenUnread
  <2> QED
    BY <1>0, <2>2, <2>3
<1>7. CASE Stamp
  <2>1. led' \in Ledger
    <3>1. now \in 0..MaxHour
      BY <1>0 DEF Hour
    <3>2. led' = [led EXCEPT !.stamp = now]
      BY <1>7 DEF Stamp
    <3> QED
      BY <1>0, <3>1, <3>2 DEF Ledger
  <2>2. /\ UNCHANGED <<now, store, archive, files, cur, adds, count, rcvd, lost>>
        /\ pc = "stamp" /\ pc' = "add"
    BY <1>7 DEF Stamp
  <2> QED
    BY <1>0, <2>1, <2>2
<1>8. CASE Add
  <2>1. Head(adds) \in Pending
    BY <1>0, <1>8, NonEmpty DEF Add
  <2>2. Archived(led) \in Ledger
    BY <1>0, ArchivedType
  <2>3. \A l \in Ledger : Appended(l, Head(adds)) \in Ledger
    BY <2>1, AppendedType
  <2>4. \A l \in Ledger : [stamp |-> l.stamp, seq |-> l.seq] \in [stamp : 0..MaxHour, seq : Nat]
    BY DEF Ledger
  <2>5. PICK l \in Ledger :
           /\ led' = Appended(l, Head(adds))
           /\ \/ archive' = archive
              \/ archive' = Put(archive, Zero, [stamp |-> l.stamp, seq |-> l.seq])
    <3> DEFINE known == /\ led.key \in DOMAIN archive
                        /\ archive[led.key].stamp = led.stamp
    <3>1. CASE known
      BY <1>0, <1>8, <3>1 DEF Add
    <3>2. CASE ~ known
      BY <1>8, <2>2, <3>2 DEF Add
    <3> QED
      BY <3>1, <3>2
  <2>6. led' \in Ledger
    BY <2>3, <2>5
  <2>7. ArchiveOK'
    <3>1. CASE archive' = archive
      BY <1>0, <3>1
    <3>2. CASE archive' = Put(archive, Zero, [stamp |-> l.stamp, seq |-> l.seq])
      <4> DEFINE S == [stamp : 0..MaxHour, seq : Nat]
                 r == [stamp |-> l.stamp, seq |-> l.seq]
      <4>1. archive \in [DOMAIN archive -> S]
        BY <1>0
      <4>2. r \in S
        BY <2>4
      <4>3. archive' = Put(archive, Zero, r)
        BY <3>2
      <4> HIDE DEF S, r
      <4>4. archive' \in [DOMAIN archive' -> S]
        BY <4>1, <4>2, <4>3 DEF Put
      <4> QED
        BY <4>4 DEF S
    <3> QED
      BY <2>5, <3>1, <3>2
  <2>8. /\ UNCHANGED <<now, store, files, cur, adds, count, rcvd, lost>>
        /\ pc = "add" /\ pc' = "write"
    BY <1>8 DEF Add
  <2> QED
    BY <1>0, <2>6, <2>7, <2>8
<1>9. CASE Write
  <2>1. FilesOK'
    <3>1. CASE UNCHANGED files
      BY <1>0, <3>1
    <3>2. CASE files' = Put(files, <<led.key, led.stamp>>, led)
      <4>1. <<led.key, led.stamp>> \in Key \X (0..MaxHour)
        BY <1>0 DEF Ledger
      <4>2. files \in [DOMAIN files -> Ledger] /\ led \in Ledger
        BY <1>0
      <4>3. DOMAIN files' = DOMAIN files \union {<<led.key, led.stamp>>}
        BY <3>2 DEF Put
      <4>4. files' \in [DOMAIN files' -> Ledger]
        BY <3>2, <4>2 DEF Put
      <4>5. DOMAIN files' \subseteq Key \X (0..MaxHour)
        BY <1>0, <4>1, <4>3
      <4> QED
        BY <4>4, <4>5
    <3>3. \/ UNCHANGED files
          \/ files' = Put(files, <<led.key, led.stamp>>, led)
      BY <1>9 DEF Write
    <3> HIDE DEF FilesOK
    <3> QED
      BY <3>1, <3>2, <3>3
  <2>2. Tail(adds) \in Seq(Pending)
    BY <1>0, <1>9, NonEmpty DEF Write
  <2>3. /\ UNCHANGED <<now, store, archive, cur, count, rcvd>>
        /\ pc = "write" /\ pc' \in {"idle", "open"}
        /\ adds' = Tail(adds) /\ (pc' = "open" => Tail(adds) # <<>>)
        /\ lost' \in {lost, lost \union {"write"}}
        /\ led' = NewLedger(Self)
    BY <1>9 DEF Write
  <2> QED
    BY <1>0, <1>a, <2>1, <2>2, <2>3
<1>10. CASE Tick
  BY <1>0, <1>10 DEF Tick, Hour
<1>11. CASE Crash
  BY <1>0, <1>11, <1>a DEF Crash
<1>12. CASE UNCHANGED vars
  BY <1>0, <1>12 DEF vars
<1> QED
  BY <1>1, <1>2, <1>3, <1>4, <1>5, <1>6, <1>7, <1>8, <1>9,
     <1>10, <1>11, <1>12 DEF Next

\* The variables keep their types, whatever fails.
THEOREM LedgerTypeCorrect == Spec => []TypeOK
BY LedgerTypeInit, LedgerTypeStep, PTL DEF Spec

-----------------------------------------------------------------------------
(* The inductive invariant.  LedgerOrder is not inductive: what the next     *)
(* write puts on disk depends on the ledger in memory and on the entries     *)
(* that are still to be added.                                               *)

\* The number of the last entry that is no longer pending.
Done == count - Len(adds)

\* A ledger on disk is filed under its own key and stamp, is not of an hour
\* to come, and has no entry that is still pending.
FilesFiled ==
    \A f \in DOMAIN files :
        /\ files[f].key = f[1] /\ files[f].stamp = f[2] /\ f[2] <= now
        /\ \A i \in DOMAIN Txs(f) : Txs(f)[i].n <= Done

\* Entries are pending after the handler only, in the order of their numbers.
AddsNumbered ==
    /\ pc \in {"idle", "save", "handle"} => adds = <<>>
    /\ \A i \in 1..Len(adds) : adds[i].n = Done + i

\* The ledger in memory is that of the next entry; new, as long as it has no
\* stamp; later than the others of its key, and above their entries; and
\* unless reading failed it goes on from what its file has.
LedNew ==
    /\ led.key = Head(adds).key
    /\ led.txs = <<>>
    /\ "read" \notin lost => <<led.key, now>> \notin DOMAIN files

LedLatest ==
    /\ led.key = Head(adds).key
    /\ led.stamp \in 1..now
    /\ \A f \in DOMAIN files : f[1] = led.key => f[2] <= led.stamp

LedAbove ==
    /\ \A i, j \in DOMAIN led.txs : i < j => led.txs[i].n < led.txs[j].n
    /\ \A f \in DOMAIN files :
          f[1] = led.key /\ f[2] < led.stamp =>
              \A i \in DOMAIN Txs(f), j \in DOMAIN led.txs : Txs(f)[i].n < led.txs[j].n

LedGoesOn ==
    "read" \notin lost /\ <<led.key, led.stamp>> \in DOMAIN files =>
        LET old == Txs(<<led.key, led.stamp>>)
        IN  \A i \in DOMAIN old : i \in DOMAIN led.txs /\ led.txs[i] = old[i]

LedEnds ==
    /\ pc = "add" => \A j \in DOMAIN led.txs : led.txs[j].n <= Done
    /\ pc = "write" => /\ \A j \in DOMAIN led.txs : led.txs[j].n <= Done + 1
                       /\ \E j \in DOMAIN led.txs : led.txs[j].n = Done + 1

LedOpened ==
    /\ pc = "stamp" => LedNew
    /\ pc \in {"add", "write"} => LedLatest /\ LedAbove /\ LedGoesOn /\ LedEnds

LedgerInv == TypeOK /\ FilesFiled /\ AddsNumbered /\ LedOpened /\ LedgerOrder /\ LedgerComplete

\* The same for the store: what is to be saved is not in the store, and what
\* is handled, and what was received and is pending or in the ledger in memory,
\* is.
StoreAhead ==
    /\ pc = "save" /\ "read" \notin lost => StoreKey(Head(cur).tx) \notin DOMAIN store
    /\ "write" \notin lost =>
          /\ pc = "handle" /\ Stored(Head(cur).tx) => StoreKey(Head(cur).tx) \in DOMAIN store
          /\ \A i \in 1..Len(adds) :
                adds[i].n \in rcvd => StoreKey(adds[i].tx) \in DOMAIN store
          /\ pc \in {"add", "write"} =>
                \A i \in DOMAIN led.txs :
                   led.txs[i].n \in rcvd => StoreKey(led.txs[i].tx) \in DOMAIN store

StoreInv == LedgerInv /\ StoreAhead /\ LedgerInStore
-----------------------------------------------------------------------------
\* Hours, positions and entry numbers are integers.
LEMMA LedgerNumbers ==
    ASSUME TypeOK
    PROVE  /\ Done \in Int /\ Len(adds) \in Nat /\ now \in Int
           /\ \A f \in DOMAIN files :
                 /\ f[2] \in Int
                 /\ \A i \in DOMAIN Txs(f) : i \in Int /\ Txs(f)[i].n \in Int
           /\ \A j \in DOMAIN led.txs : j \in Int /\ led.txs[j].n \in Int
           /\ led.stamp \in Int
<1>1. /\ count \in Nat /\ Len(adds) \in Nat /\ now \in Int
  BY LenProperties DEF TypeOK, Hour
<1>2. ASSUME NEW l \in Ledger, NEW i \in DOMAIN l.txs
      PROVE  i \in Int /\ l.txs[i].n \in Int
  <2>1. l.txs \in Seq(Entry)
    BY <1>2 DEF Ledger
  <2>2. i \in 1..Len(l.txs) /\ Len(l.txs) \in Nat /\ l.txs[i] \in Entry
    BY <2>1, <1>2, LenProperties, ElementOfSeq
  <2> QED
    BY <2>2 DEF Entry
<1>3. led \in Ledger /\ led.stamp \in Int
  BY LedgerAssumption DEF TypeOK, Ledger
<1>4. \A f \in DOMAIN files : files[f] \in Ledger
  BY DEF TypeOK
<1>5. \A f \in DOMAIN files : f[2] \in Int
  <2>1. DOMAIN files \subseteq Key \X (0..MaxHour)
    BY DEF TypeOK
  <2> QED
    BY <2>1
<1> QED
  BY <1>1, <1>2, <1>3, <1>4, <1>5 DEF Done, Txs

\* Steps that touch neither the files nor the ledger nor what is pending.
LEMMA QuietStep ==
    ASSUME LedgerInv,
           UNCHANGED <<now, files, adds, led, count>>, lost \subseteq lost',
           \/ pc' = pc
           \/ pc \in {"idle", "save", "handle"} /\ pc' \in {"idle", "save", "handle"}
    PROVE  FilesFiled' /\ AddsNumbered' /\ LedOpened' /\ LedgerOrder' /\ LedgerComplete'
<1>1. FilesFiled'
  BY DEF LedgerInv, FilesFiled, Txs, Done
<1>2. AddsNumbered'
  BY DEF LedgerInv, AddsNumbered, Done
<1>3. LedOpened'
  <2>1. CASE pc' = pc
    <3>1. LedNew => LedNew'
      BY DEF LedNew
    <3>2. LedLatest /\ LedAbove /\ LedGoesOn /\ LedEnds
             => LedLatest' /\ LedAbove' /\ LedGoesOn' /\ LedEnds'
      BY <2>1 DEF LedLatest, LedAbove, LedGoesOn, LedEnds, Txs, Done
    <3> QED
      BY <2>1, <3>1, <3>2 DEF LedgerInv, LedOpened
  <2>2. CASE pc' \in {"idle", "save", "handle"}
    BY <2>2 DEF LedOpened
  <2> QED
    BY <2>1, <2>2
<1>4. LedgerOrder'
  BY DEF LedgerInv, LedgerOrder, Txs
<1>5. LedgerComplete'
  BY DEF LedgerInv, LedgerComplete, Txs
<1> QED
  BY <1>1, <1>2, <1>3, <1>4, <1>5

\* The handler is done.
LEMMA QueueStep ==
    ASSUME LedgerInv, NEW new, NEW rcv, Queues(new, rcv)
    PROVE  FilesFiled' /\ AddsNumbered' /\ LedOpened' /\ LedgerOrder' /\ LedgerComplete'
<1>0. /\ pc \in {"idle", "handle"} /\ new \in Seq(Pending)
      /\ \A i \in 1..Len(new) : new[i].n = count + i
      /\ Queue(new, rcv) /\ UNCHANGED <<now, files, led, lost>>
  BY DEF Queues
<1>1. adds = <<>> /\ count \in Nat
  BY <1>0 DEF LedgerInv, AddsNumbered, TypeOK
<1>2. Len(adds) = 0 /\ Len(new) \in Nat
  BY <1>0, <1>1, LenProperties
<1>3. /\ adds' = new /\ pc' \in {"idle", "open"} /\ (pc' = "idle" => new = <<>>)
      /\ count' = count + Len(new)
  BY <1>0 DEF Queue
<1>4. Done' = count /\ Done = count
  BY <1>1, <1>2, <1>3 DEF Done
<1>5. FilesFiled'
  BY <1>0, <1>4 DEF LedgerInv, FilesFiled, Txs
<1>6. AddsNumbered'
  BY <1>0, <1>3, <1>4 DEF AddsNumbered
<1>7. LedOpened'
  BY <1>3 DEF LedOpened
<1>8. LedgerOrder'
  BY <1>0 DEF LedgerInv, LedgerOrder, Txs
<1>9. LedgerComplete'
  BY <1>0, <1>4 DEF LedgerInv, LedgerComplete, Txs, Done
<1> QED
  BY <1>5, <1>6, <1>7, <1>8, <1>9

\* The ledger in memory is taken from its file or begun.
LEMMA OpenStep ==
    ASSUME LedgerInv, Open \/ OpenUnread
    PROVE  FilesFiled' /\ AddsNumbered' /\ LedOpened' /\ LedgerOrder' /\ LedgerComplete'
<1> DEFINE k == Head(adds).key
<1>1. /\ UNCHANGED <<now, files, adds, count>> /\ lost \subseteq lost'
      /\ pc = "open" /\ pc' \in {"stamp", "add"}
      /\ pc' = "stamp" => /\ led' = NewLedger(k)
                          /\ "read" \notin lost' => <<k, now>> \notin DOMAIN files
      /\ pc' = "add" => led' = files[<<k, now>>] /\ <<k, now>> \in DOMAIN files
  BY DEF Open, OpenUnread
<1>2. k \in Key
  <2>1. adds \in Seq(Pending) /\ adds # <<>>
    BY <1>1 DEF LedgerInv, TypeOK
  <2>2. Head(adds) \in Pending
    BY <2>1, NonEmpty
  <2> QED
    BY <2>2 DEF Pending
<1>3. FilesFiled' /\ AddsNumbered' /\ LedgerOrder' /\ LedgerComplete'
  <2>1. FilesFiled'
    BY <1>1 DEF LedgerInv, FilesFiled, Txs, Done
  <2>2. AddsNumbered'
    BY <1>1 DEF LedgerInv, AddsNumbered, Done
  <2>3. LedgerOrder'
    BY <1>1 DEF LedgerInv, LedgerOrder, Txs
  <2>4. LedgerComplete'
    BY <1>1 DEF LedgerInv, LedgerComplete, Txs
  <2> QED
    BY <2>1, <2>2, <2>3, <2>4
<1>4. CASE pc' = "stamp"
  <2>1. led'.key = k /\ led'.txs = <<>>
    BY <1>1, <1>2, <1>4, NewLedgerType
  <2>2. LedNew'
    BY <1>1, <1>4, <2>1 DEF LedNew
  <2> QED
    BY <1>3, <1>4, <2>2 DEF LedOpened
<1>5. CASE pc' = "add"
  <2> DEFINE f == <<k, now>>
  <2>1. /\ f \in DOMAIN files /\ led' = files[f]
        /\ files[f].key = k /\ files[f].stamp = now
        /\ \A i \in DOMAIN Txs(f) : Txs(f)[i].n <= Done
    <3>1. f \in DOMAIN files /\ led' = files[f] /\ f[1] = k /\ f[2] = now
      BY <1>1, <1>5
    <3> HIDE DEF f
    <3> QED
      BY <3>1 DEF LedgerInv, FilesFiled
  <2>2. led'.key = k /\ led'.stamp = now /\ led'.txs = Txs(f)
    BY <2>1 DEF Txs
  <2>2a. now \in 1..MaxHour
    BY DEF LedgerInv, TypeOK, Hour
  <2>3. LedLatest'
    <3>1. \A g \in DOMAIN files : g[2] <= now
      BY DEF LedgerInv, FilesFiled
    <3>2. now \in 1..now
      BY <2>2a
    <3> QED
      BY <1>1, <2>2, <3>1, <3>2 DEF LedLatest
  <2>4. LedAbove'
    <3>1. f[1] = k /\ f[2] = now
      OBVIOUS
    <3> HIDE DEF f
    <3>2. \A i, j \in DOMAIN Txs(f) : i < j => Txs(f)[i].n < Txs(f)[j].n
      BY <2>1 DEF LedgerInv, LedgerOrder
    <3>3. \A g \in DOMAIN files :
             g[1] = k /\ g[2] < now =>
                 \A i \in DOMAIN Txs(g), j \in DOMAIN Txs(f) : Txs(g)[i].n < Txs(f)[j].n
      BY <2>1, <3>1 DEF LedgerInv, LedgerOrder
    <3> QED
      BY <1>1, <2>2, <3>2, <3>3 DEF LedAbove, Txs
  <2>5. LedGoesOn'
    <3> HIDE DEF k
    <3> QED
      BY <1>1, <2>2 DEF LedGoesOn, Txs
  <2>6. LedEnds'
    <3>1. Done' = Done
      BY <1>1 DEF Done
    <3> QED
      BY <1>5, <2>1, <2>2, <3>1 DEF LedEnds
  <2> QED
    BY <1>3, <1>5, <2>3, <2>4, <2>5, <2>6 DEF LedOpened
<1> QED
  BY <1>1, <1>4, <1>5

\* A new ledger gets its stamp.
LEMMA StampStep ==
    ASSUME LedgerInv, Stamp
    PROVE  FilesFiled' /\ AddsNumbered' /\ LedOpened' /\ LedgerOrder' /\ LedgerComplete'
<1>1. /\ UNCHANGED <<now, files, adds, count, lost>>
      /\ pc = "stamp" /\ pc' = "add"
      /\ led' = [led EXCEPT !.stamp = now]
  BY DEF Stamp
<1>2. led'.key = led.key /\ led'.stamp = now /\ led'.txs = led.txs
  <2>1. led \in Ledger
    BY DEF LedgerInv, TypeOK
  <2> QED
    BY <1>1, <2>1 DEF Ledger
<1>3. /\ led.key = Head(adds).key /\ led.txs = <<>>
      /\ "read" \notin lost => <<led.key, now>> \notin DOMAIN files
  BY <1>1 DEF LedgerInv, LedOpened, LedNew
<1>4. FilesFiled' /\ AddsNumbered' /\ LedgerOrder' /\ LedgerComplete'
  <2>1. FilesFiled'
    BY <1>1 DEF LedgerInv, FilesFiled, Txs, Done
  <2>2. AddsNumbered'
    BY <1>1 DEF LedgerInv, AddsNumbered, Done
  <2>3. LedgerOrder'
    BY <1>1 DEF LedgerInv, LedgerOrder, Txs
  <2>4. LedgerComplete'
    BY <1>1 DEF LedgerInv, LedgerComplete, Txs
  <2> QED
    BY <2>1, <2>2, <2>3, <2>4
<1>5. LedLatest'
  <2>1. \A g \in DOMAIN files : g[2] <= now
    BY DEF LedgerInv, FilesFiled
  <2>2. now \in 1..now
    BY DEF LedgerInv, TypeOK, Hour
  <2> QED
    BY <1>1, <1>2, <1>3, <2>1, <2>2 DEF LedLatest
<1>6. LedAbove' /\ LedEnds'
  <2>1. DOMAIN led'.txs = {}
    BY <1>2, <1>3
  <2> QED
    BY <1>1, <2>1 DEF LedAbove, LedEnds
<1>7. LedGoesOn'
  BY <1>1, <1>2, <1>3 DEF LedGoesOn
<1> QED
  BY <1>1, <1>4, <1>5, <1>6, <1>7 DEF LedOpened

\* The entry is added to the ledger in memory.
LEMMA AddStep ==
    ASSUME LedgerInv, Add
    PROVE  FilesFiled' /\ AddsNumbered' /\ LedOpened' /\ LedgerOrder' /\ LedgerComplete'
<1>1. /\ UNCHANGED <<now, files, adds, count, lost>>
      /\ pc = "add" /\ pc' = "write"
  BY DEF Add
<1>2. led \in Ledger /\ Head(adds) \in Pending /\ Head(adds) = adds[1] /\ 1 \in 1..Len(adds)
  <2>1. led \in Ledger /\ adds \in Seq(Pending) /\ adds # <<>>
    BY <1>1 DEF LedgerInv, TypeOK
  <2> QED
    BY <2>1, NonEmpty
<1>3. Head(adds).n = Done + 1
  BY <1>2 DEF LedgerInv, AddsNumbered
<1>4. PICK l \in Ledger :
         /\ l.key = led.key /\ l.stamp = led.stamp /\ l.txs = led.txs
         /\ led' = Appended(l, Head(adds))
  <2> DEFINE known == /\ led.key \in DOMAIN archive
                      /\ archive[led.key].stamp = led.stamp
  <2>1. /\ Archived(led) \in Ledger
        /\ Archived(led).key = led.key /\ Archived(led).stamp = led.stamp
        /\ Archived(led).txs = led.txs
    BY <1>2, ArchivedType DEF LedgerInv, TypeOK
  <2>2. CASE known
    BY <1>2, <2>2 DEF Add
  <2>3. CASE ~ known
    BY <2>1, <2>3 DEF Add
  <2> QED
    BY <2>2, <2>3
<1> DEFINE m == Len(led.txs) + 1
<1>5. /\ led'.key = led.key /\ led'.stamp = led.stamp
      /\ DOMAIN led'.txs = 1..m /\ DOMAIN led.txs = 1..m - 1
      /\ \A i \in DOMAIN led.txs : led'.txs[i] = led.txs[i]
      /\ led'.txs[m].n = Done + 1
      /\ m \in Nat \ {0}
  <2>1. Len(led.txs) \in Nat
    BY <1>2, LenProperties DEF Ledger
  <2>2. m - 1 = Len(led.txs) /\ m \in Nat \ {0}
    BY <2>1
  <2>3. /\ led'.key = l.key /\ led'.stamp = l.stamp
        /\ DOMAIN led'.txs = 1..m
        /\ DOMAIN l.txs = 1..Len(l.txs)
        /\ \A i \in DOMAIN l.txs : led'.txs[i] = l.txs[i]
        /\ led'.txs[m].n = Head(adds).n
    BY <1>2, <1>4, AppendedType
  <2> QED
    BY <1>3, <1>4, <2>2, <2>3
<1> HIDE DEF m
<1>6. /\ LedLatest /\ LedAbove /\ LedGoesOn
      /\ \A j \in DOMAIN led.txs : led.txs[j].n <= Done
  BY <1>1 DEF LedgerInv, LedOpened, LedEnds
<1>7. FilesFiled' /\ AddsNumbered' /\ LedgerOrder' /\ LedgerComplete'
  <2>1. FilesFiled'
    BY <1>1 DEF LedgerInv, FilesFiled, Txs, Done
  <2>2. AddsNumbered'
    BY <1>1 DEF LedgerInv, AddsNumbered, Done
  <2>3. LedgerOrder'
    BY <1>1 DEF LedgerInv, LedgerOrder, Txs
  <2>4. LedgerComplete'
    BY <1>1 DEF LedgerInv, LedgerComplete, Txs
  <2> QED
    BY <2>1, <2>2, <2>3, <2>4
<1>8. LedLatest'
  BY <1>1, <1>5, <1>6 DEF LedLatest
<1>9. Done' = Done
  BY <1>1 DEF Done
<1>10. /\ Done \in Int
       /\ \A j \in DOMAIN led.txs : led.txs[j].n \in Int
       /\ \A f \in DOMAIN files : \A i \in DOMAIN Txs(f) : Txs(f)[i].n \in Int
  BY LedgerNumbers DEF LedgerInv
<1>11. /\ \A j \in 1..m - 1 : led'.txs[j].n = led.txs[j].n /\ led.txs[j].n < Done + 1
       /\ \A j \in 1..m : j = m \/ j \in 1..m - 1
  BY <1>5, <1>6, <1>10
<1>12. LedAbove'
  <2>1. ASSUME NEW i \in 1..m, NEW j \in 1..m, i < j
        PROVE  led'.txs[i].n < led'.txs[j].n
    <3>1. i \in 1..m - 1
      BY <1>5, <2>1
    <3>2. CASE j = m
      BY <1>5, <1>11, <3>1, <3>2
    <3>3. CASE j \in 1..m - 1
      BY <1>5, <1>6, <1>11, <2>1, <3>1, <3>3 DEF LedAbove
    <3> QED
      BY <1>11, <3>2, <3>3
  <2>2. ASSUME NEW f \in DOMAIN files, f[1] = led.key, f[2] < led.stamp,
               NEW i \in DOMAIN Txs(f), NEW j \in 1..m
        PROVE  Txs(f)[i].n < led'.txs[j].n
    <3>1. CASE j = m
      <4>1. Txs(f)[i].n <= Done
        BY DEF LedgerInv, FilesFiled
      <4> QED
        BY <1>5, <1>10, <3>1, <4>1
    <3>2. CASE j \in 1..m - 1
      BY <1>5, <1>6, <1>11, <2>2, <3>2 DEF LedAbove
    <3> QED
      BY <1>11, <3>1, <3>2
  <2> QED
    BY <1>1, <1>5, <2>1, <2>2 DEF LedAbove, Txs
<1>13. LedGoesOn'
  <2> SUFFICES ASSUME "read" \notin lost, <<led.key, led.stamp>> \in DOMAIN files,
                      NEW i \in DOMAIN Txs(<<led.key, led.stamp>>)
               PROVE  /\ i \in DOMAIN led'.txs
                      /\ led'.txs[i] = Txs(<<led.key, led.stamp>>)[i]
    BY <1>1, <1>5 DEF LedGoesOn, Txs
  <2>1. i \in DOMAIN led.txs /\ led.txs[i] = Txs(<<led.key, led.stamp>>)[i]
    BY <1>6 DEF LedGoesOn
  <2>2. i \in 1..m
    BY <1>5, <2>1
  <2> QED
    BY <1>5, <2>1, <2>2
<1>14. LedEnds'
  <2>1. \A j \in 1..m : led'.txs[j].n <= Done + 1
    BY <1>5, <1>10, <1>11
  <2>2. m \in 1..m
    BY <1>5
  <2> QED
    BY <1>1, <1>5, <1>9, <2>1, <2>2 DEF LedEnds
<1> QED
  BY <1>1, <1>7, <1>8, <1>12, <1>13, <1>14 DEF LedOpened

\* The ledger in memory goes to its file, unless the write fails.
LEMMA WriteStep ==
    ASSUME LedgerInv, Write
    PROVE  FilesFiled' /\ AddsNumbered' /\ LedOpened' /\ LedgerOrder' /\ LedgerComplete'
<1> DEFINE f == <<led.key, led.stamp>>
<1>1. /\ UNCHANGED <<now, count>> /\ pc = "write"
      /\ adds' = Tail(adds) /\ pc' \in {"idle", "open"}
      /\ pc' = "idle" => adds' = <<>>
      /\ \/ files' = files /\ lost' # {}
         \/ files' = Put(files, f, led) /\ lost' = lost
  BY DEF Write
<1>2. /\ adds \in Seq(Pending) /\ Len(adds) \in Nat \ {0}
      /\ Len(adds') = Len(adds) - 1
      /\ \A i \in 1..Len(adds) - 1 : adds'[i] = adds[i + 1]
  <2>1. adds \in Seq(Pending) /\ adds # <<>>
    BY <1>1 DEF LedgerInv, TypeOK
  <2> QED
    BY <1>1, <2>1, NonEmpty
<1>3. /\ Done \in Int /\ led.stamp \in Int
      /\ \A g \in DOMAIN files : g[2] \in Int /\ \A i \in DOMAIN Txs(g) : Txs(g)[i].n \in Int
      /\ \A j \in DOMAIN led.txs : led.txs[j].n \in Int
  BY LedgerNumbers DEF LedgerInv
<1>4. Done' = Done + 1
  <2>1. count \in Nat
    BY DEF LedgerInv, TypeOK
  <2> QED
    BY <1>1, <1>2, <2>1 DEF Done
<1>5. /\ LedLatest /\ LedAbove /\ LedGoesOn
      /\ \A j \in DOMAIN led.txs : led.txs[j].n <= Done + 1
      /\ \E j \in DOMAIN led.txs : led.txs[j].n = Done + 1
  BY <1>1 DEF LedgerInv, LedOpened, LedEnds
<1>6. AddsNumbered'
  <2>1. \A i \in 1..Len(adds) : adds[i].n = Done + i
    BY DEF LedgerInv, AddsNumbered
  <2>2. ASSUME NEW i \in 1..Len(adds) - 1
        PROVE  adds'[i].n = Done + 1 + i
    <3>1. i + 1 \in 1..Len(adds) /\ adds'[i] = adds[i + 1]
      BY <1>2
    <3> QED
      BY <1>3, <2>1, <3>1
  <2> QED
    BY <1>1, <1>2, <1>4, <2>2 DEF AddsNumbered
<1>7. LedOpened'
  BY <1>1 DEF LedOpened
<1>8. \A g \in DOMAIN files :
         /\ files[g].key = g[1] /\ files[g].stamp = g[2] /\ g[2] <= now
         /\ \A i \in DOMAIN Txs(g) : Txs(g)[i].n <= Done
  BY DEF LedgerInv, FilesFiled
<1>9. CASE files' = files /\ lost' # {}
  <2>1. FilesFiled'
    BY <1>1, <1>3, <1>4, <1>8, <1>9 DEF FilesFiled, Txs
  <2>2. LedgerOrder'
    BY <1>9 DEF LedgerInv, LedgerOrder, Txs
  <2>3. LedgerComplete'
    BY <1>9 DEF LedgerComplete
  <2> QED
    BY <1>6, <1>7, <2>1, <2>2, <2>3
<1>10. CASE files' = Put(files, f, led) /\ lost' = lost
  <2>0. f[1] = led.key /\ f[2] = led.stamp
    OBVIOUS
  <2> HIDE DEF f
  <2>1. /\ DOMAIN files' = DOMAIN files \union {f}
        /\ files'[f] = led
        /\ \A g \in DOMAIN files : g # f => files'[g] = files[g]
    BY <1>10 DEF Put
  <2>2. FilesFiled'
    <3> SUFFICES ASSUME NEW g \in DOMAIN files'
                 PROVE  /\ files'[g].key = g[1] /\ files'[g].stamp = g[2] /\ g[2] <= now
                        /\ \A i \in DOMAIN files'[g].txs : files'[g].txs[i].n <= Done + 1
      BY <1>1, <1>4 DEF FilesFiled, Txs
    <3>1. CASE g = f
      <4>1. led.stamp <= now
        BY <1>3, <1>5 DEF LedLatest
      <4> QED
        BY <1>5, <2>0, <2>1, <3>1, <4>1
    <3>2. CASE g # f
      <4>1. g \in DOMAIN files /\ files'[g] = files[g]
        BY <2>1, <3>2
      <4> QED
        BY <1>3, <1>8, <4>1 DEF Txs
    <3> QED
      BY <3>1, <3>2
  <2>3. LedgerOrder'
    <3> SUFFICES ASSUME NEW g \in DOMAIN files', NEW h \in DOMAIN files', g[1] = h[1],
                        NEW i \in DOMAIN files'[g].txs, NEW j \in DOMAIN files'[h].txs,
                        g[2] < h[2] \/ (g = h /\ i < j)
                 PROVE  files'[g].txs[i].n < files'[h].txs[j].n
      BY DEF LedgerOrder, Txs
    <3>1. CASE g # f /\ h # f
      BY <2>1, <3>1 DEF LedgerInv, LedgerOrder, Txs
    <3>2. CASE g = f /\ h = f
      BY <1>3, <1>5, <2>0, <2>1, <3>2 DEF LedAbove
    <3>3. CASE g # f /\ h = f
      <4>1. g \in DOMAIN files /\ files'[g] = files[g] /\ files'[h] = led
        BY <2>1, <3>3
      <4>2. g[2] < led.stamp /\ g[1] = led.key
        BY <2>0, <3>3
      <4> QED
        BY <1>5, <4>1, <4>2 DEF LedAbove, Txs
    <3>4. CASE g = f /\ h # f
      <4>1. h \in DOMAIN files /\ h[1] = led.key /\ led.stamp < h[2]
        BY <2>0, <2>1, <3>4
      <4>2. h[2] <= led.stamp
        BY <1>5, <4>1 DEF LedLatest
      <4> QED
        BY <1>3, <4>1, <4>2
    <3> QED
      BY <3>1, <3>2, <3>3, <3>4
  <2>4. LedgerComplete'
    <3> SUFFICES ASSUME lost = {}, NEW n \in 1..Done + 1
                 PROVE  \E g \in DOMAIN files' :
                           \E i \in DOMAIN files'[g].txs : files'[g].txs[i].n = n
      <4>1. count' - Len(adds') = Done + 1
        BY <1>4 DEF Done
      <4> QED
        BY <1>10, <4>1 DEF LedgerComplete, Txs
    <3>1. CASE n = Done + 1
      BY <1>5, <2>1, <3>1
    <3>2. CASE n \in 1..Done
      <4>1. PICK g \in DOMAIN files : \E i \in DOMAIN Txs(g) : Txs(g)[i].n = n
        BY <3>2 DEF LedgerInv, LedgerComplete, Done
      <4>2. PICK i \in DOMAIN Txs(g) : Txs(g)[i].n = n
        BY <4>1
      <4>3. CASE g # f
        BY <2>1, <4>2, <4>3 DEF Txs
      <4>4. CASE g = f
        <5>1. i \in DOMAIN led.txs /\ led.txs[i] = Txs(g)[i]
          BY <1>5, <4>4 DEF LedGoesOn, f
        <5> QED
          BY <2>1, <4>2, <4>4, <5>1
      <4> QED
        BY <4>3, <4>4
    <3> QED
      BY <1>3, <3>1, <3>2
  <2> QED
    BY <1>6, <1>7, <2>2, <2>3, <2>4
<1> QED
  BY <1>1, <1>9, <1>10

\* The invariant holds at the start, with no ledger on disk.
LEMMA LedgerInvInit == Init => LedgerInv
<1> SUFFICES ASSUME Init PROVE LedgerInv
  OBVIOUS
<1>1. TypeOK
  BY LedgerTypeInit
<1>2. /\ files = [g \in {} |-> 0] /\ DOMAIN files = {}
      /\ adds = <<>> /\ Len(adds) = 0 /\ count = 0 /\ pc = "idle"
  BY DEF Init
<1>3. 1..Done = {} /\ 1..Len(adds) = {}
  BY <1>2 DEF Done
<1>4. FilesFiled /\ AddsNumbered /\ LedOpened /\ LedgerOrder
  BY <1>2, <1>3 DEF FilesFiled, AddsNumbered, LedOpened, LedgerOrder
<1>5. LedgerComplete
  BY <1>3 DEF LedgerComplete, Done
<1> QED
  BY <1>1, <1>4, <1>5 DEF LedgerInv

\* Every step keeps the invariant.
LEMMA LedgerInvStep == LedgerInv /\ [Next]_vars => LedgerInv'
<1> SUFFICES ASSUME LedgerInv, [Next]_vars PROVE LedgerInv'
  OBVIOUS
<1> DEFINE G == FilesFiled /\ AddsNumbered /\ LedOpened /\ LedgerOrder /\ LedgerComplete
<1>0. TypeOK'
  BY LedgerTypeStep DEF LedgerInv
<1> SUFFICES G'
  BY <1>0 DEF LedgerInv
<1>1. ASSUME NEW p \in Key, NEW t \in Tx, Begin(p, t) \/ BeginUnread(p, t)
      PROVE  G'
  <2>1. /\ UNCHANGED <<now, files, adds, led, count>> /\ lost \subseteq lost'
        /\ pc = "idle" /\ pc' \in {"save", "handle"}
    BY <1>1 DEF Begin, BeginUnread
  <2> QED
    BY <2>1, QuietStep
<1>2. CASE Save \/ HandleRefused
  <2>1. /\ UNCHANGED <<now, files, adds, led, count>> /\ lost \subseteq lost'
        /\ pc \in {"save", "handle"} /\ pc' \in {"idle", "handle"}
    BY <1>2 DEF Save, HandleRefused
  <2> QED
    BY <2>1, QuietStep
<1>3. CASE Handle \/ (\E r \in Files : HandleAnswers(r)) \/ (\E t \in Tx : Send(t))
  <2>1. PICK new, rcv : Queues(new, rcv)
    BY <1>3, QueueSteps DEF LedgerInv
  <2> QED
    BY <2>1, QueueStep
<1>4. CASE Open \/ OpenUnread
  BY <1>4, OpenStep
<1>5. CASE Stamp
  BY <1>5, StampStep
<1>6. CASE Add
  BY <1>6, AddStep
<1>7. CASE Write
  BY <1>7, WriteStep
<1>8. CASE Tick
  <2>1. /\ UNCHANGED <<files, adds, led, count, lost, pc>>
        /\ now' = now + 1 /\ now \in Nat
    BY <1>8 DEF Tick, LedgerInv, TypeOK, Hour
  <2>2. \A g \in DOMAIN files : g[2] \in Int /\ g[2] <= now
    BY LedgerNumbers DEF LedgerInv, FilesFiled
  <2>3. FilesFiled'
    BY <2>1, <2>2 DEF LedgerInv, FilesFiled, Txs, Done
  <2>4. AddsNumbered'
    BY <2>1 DEF LedgerInv, AddsNumbered, Done
  <2>5. LedgerOrder'
    BY <2>1 DEF LedgerInv, LedgerOrder, Txs
  <2>6. LedgerComplete'
    BY <2>1 DEF LedgerInv, LedgerComplete, Txs
  <2>7. LedOpened'
    <3>1. LedNew => LedNew'
      <4>1. <<led.key, now + 1>> \notin DOMAIN files
        BY <2>1, <2>2
      <4> QED
        BY <2>1, <4>1 DEF LedNew
    <3>2. LedLatest /\ LedAbove /\ LedGoesOn /\ LedEnds
             => LedLatest' /\ LedAbove' /\ LedGoesOn' /\ LedEnds'
      <4>1. LedLatest => LedLatest'
        BY <2>1 DEF LedLatest
      <4> QED
        BY <2>1, <4>1 DEF LedAbove, LedGoesOn, LedEnds, Txs, Done
    <3> QED
      BY <2>1, <3>1, <3>2 DEF LedgerInv, LedOpened
  <2> QED
    BY <2>3, <2>4, <2>5, <2>6, <2>7
<1>9. CASE Crash
  <2>1. /\ UNCHANGED <<now, files, count>> /\ adds' = <<>> /\ pc' = "idle"
        /\ lost' # {}
    BY <1>9 DEF Crash
  <2>2. Done' = count /\ Done <= count /\ Done \in Int /\ count \in Int
    BY <2>1, LedgerNumbers DEF Done, LedgerInv, TypeOK
  <2>3. FilesFiled'
    <3>1. \A g \in DOMAIN files : \A i \in DOMAIN Txs(g) : Txs(g)[i].n \in Int
      BY LedgerNumbers DEF LedgerInv
    <3> QED
      BY <2>1, <2>2, <3>1 DEF LedgerInv, FilesFiled, Txs
  <2>4. AddsNumbered'
    BY <2>1 DEF AddsNumbered
  <2>5. LedgerOrder'
    BY <2>1 DEF LedgerInv, LedgerOrder, Txs
  <2>6. LedgerComplete' /\ LedOpened'
    BY <2>1 DEF LedgerComplete, LedOpened
  <2> QED
    BY <2>3, <2>4, <2>5, <2>6
<1>10. CASE UNCHANGED vars
  BY <1>10, QuietStep DEF vars
<1> QED
  BY <1>1, <1>2, <1>3, <1>4, <1>5, <1>6, <1>7, <1>8, <1>9,
     <1>10 DEF Next

\* However the turn of the hour, failures and restarts fall, the ledgers of a
\* key read hour by hour have its entries in the order they were accepted,
\* each once.
THEOREM LedgerOrdered == Spec => []LedgerOrder
<1>1. LedgerInv => LedgerOrder
  BY DEF LedgerInv
<1> QED
  BY <1>1, LedgerInvInit, LedgerInvStep, PTL DEF Spec

\* If nothing fails, what was accepted and is no longer pending is recorded.
THEOREM LedgerCompleted == Spec => []LedgerComplete
<1>1. LedgerInv => LedgerComplete
  BY DEF LedgerInv
<1> QED
  BY <1>1, LedgerInvInit, LedgerInvStep, PTL DEF Spec

\* A ledger on disk grows: what a write replaces it with begins with it.
THEOREM LedgerGrown == Spec => LedgerGrows
<1> DEFINE Grows ==
      \A f \in DOMAIN files :
          "read" \notin lost =>
             /\ f \in DOMAIN files'
             /\ \A i \in DOMAIN Txs(f) :
                   i \in DOMAIN files'[f].txs /\ files'[f].txs[i] = Txs(f)[i]
<1>1. LedgerInv /\ [Next]_vars => [Grows]_vars
  <2> SUFFICES ASSUME LedgerInv, [Next]_vars PROVE Grows
    OBVIOUS
  <2>1. CASE files' = files
    BY <2>1 DEF Txs
  <2>2. CASE Write
    <3> DEFINE g == <<led.key, led.stamp>>
    <3>1. pc = "write" /\ (files' = files \/ files' = Put(files, g, led))
      BY <2>2 DEF Write
    <3>2. CASE files' = Put(files, g, led)
      <4>1. /\ DOMAIN files' = DOMAIN files \union {g}
            /\ files'[g] = led
            /\ \A f \in DOMAIN files : f # g => files'[f] = files[f]
        BY <3>2 DEF Put
      <4>2. "read" \notin lost /\ g \in DOMAIN files =>
               \A i \in DOMAIN Txs(g) : i \in DOMAIN led.txs /\ led.txs[i] = Txs(g)[i]
        BY <3>1 DEF LedgerInv, LedOpened, LedGoesOn
      <4> HIDE DEF g
      <4> QED
        BY <4>1, <4>2 DEF Txs
    <3> QED
      BY <2>1, <3>1, <3>2
  <2>3. Write \/ files' = files
    BY DEF Next, vars, Begin, BeginUnread, Save, HandleRefused, Handle, HandleAnswers,
           Send, Open, OpenUnread, Stamp, Add, Tick, Crash
  <2> QED
    BY <2>1, <2>2, <2>3
<1> QED
  BY <1>1, LedgerInvInit, LedgerInvStep, PTL DEF Spec, LedgerGrows

-----------------------------------------------------------------------------
\* The store and the ledgers start empty.
LEMMA StoreInvInit == Init => StoreInv
<1> SUFFICES ASSUME Init PROVE StoreInv
  OBVIOUS
<1>1. LedgerInv
  BY LedgerInvInit
<1>2. /\ DOMAIN files = {} /\ pc = "idle" /\ adds = <<>> /\ Len(adds) = 0
  BY DEF Init
<1>3. 1..Len(adds) = {}
  BY <1>2
<1> QED
  BY <1>1, <1>2, <1>3 DEF StoreInv, StoreAhead, LedgerInStore

\* Until a write fails, the store only grows.
LEMMA StoreStep ==
    ASSUME [Next]_vars
    PROVE  /\ lost \subseteq lost'
           /\ "write" \notin lost' => DOMAIN store \subseteq DOMAIN store'
<1>1. CASE Save
  BY <1>1 DEF Save, Put
<1>2. Save \/ (store' = store /\ lost \subseteq lost')
  BY DEF Next, vars, Begin, BeginUnread, HandleRefused, Handle, HandleAnswers,
         Send, Open, OpenUnread, Stamp, Add, Write, Tick, Crash
<1>3. CASE store' = store /\ lost \subseteq lost'
  BY <1>3
<1> QED
  BY <1>1, <1>2, <1>3

\* Every step keeps the invariant of the store.
LEMMA StoreInvStep == StoreInv /\ [Next]_vars => StoreInv'
<1> SUFFICES ASSUME StoreInv, [Next]_vars PROVE StoreInv'
  OBVIOUS
<1> DEFINE InStore(t) == StoreKey(t) \in DOMAIN store
           A == pc = "save" /\ "read" \notin lost => ~ InStore(Head(cur).tx)
           B == pc = "handle" /\ Stored(Head(cur).tx) => InStore(Head(cur).tx)
           C == \A i \in 1..Len(adds) : adds[i].n \in rcvd => InStore(adds[i].tx)
           D == pc \in {"add", "write"} =>
                   \A i \in DOMAIN led.txs :
                      led.txs[i].n \in rcvd => InStore(led.txs[i].tx)
           E == \A f \in DOMAIN files : \A i \in DOMAIN files[f].txs :
                   files[f].txs[i].n \in rcvd => InStore(files[f].txs[i].tx)
<1>a. A /\ ("write" \notin lost => B /\ C /\ D /\ E)
  BY DEF StoreInv, StoreAhead, LedgerInStore, Txs
<1>b. LedgerInv /\ LedgerInv'
  BY LedgerInvStep DEF StoreInv
<1>c. /\ "write" \notin lost' => "write" \notin lost
      /\ \A t : "write" \notin lost' /\ InStore(t) => InStore(t)'
  BY StoreStep
<1> SUFFICES A' /\ ("write" \notin lost' => B' /\ C' /\ D' /\ E')
  BY <1>b DEF StoreInv, StoreAhead, LedgerInStore, Txs
<1> HIDE DEF InStore
<1>1. ASSUME NEW p \in Key, NEW t \in Tx, Begin(p, t) \/ BeginUnread(p, t)
      PROVE  A' /\ ("write" \notin lost' => B' /\ C' /\ D' /\ E')
  <2>1. /\ UNCHANGED <<store, files, adds, led, rcvd>> /\ Head(cur').tx = t
        /\ pc' = "save" /\ "read" \notin lost' => StoreKey(t) \notin DOMAIN store
        /\ pc' = "handle" /\ Stored(t) => StoreKey(t) \in DOMAIN store
        /\ pc' \in {"save", "handle"}
    BY <1>1 DEF Begin, BeginUnread
  <2>2. InStore(t)' <=> StoreKey(t) \in DOMAIN store
    BY <2>1 DEF InStore
  <2> QED
    BY <1>a, <1>c, <2>1, <2>2
<1>2. CASE Save
  <2>1. /\ UNCHANGED <<files, adds, led, cur, rcvd>> /\ pc' = "handle"
        /\ "write" \notin lost' => StoreKey(Head(cur).tx) \in DOMAIN store'
    BY <1>2 DEF Save, Put
  <2> QED
    BY <1>a, <1>c, <2>1 DEF InStore
<1>3. CASE HandleRefused
  <2>1. UNCHANGED <<files, adds, led, rcvd>> /\ pc' = "idle"
    BY <1>3 DEF HandleRefused
  <2> QED
    BY <1>a, <1>c, <2>1
<1>4. CASE Handle \/ (\E r \in Files : HandleAnswers(r)) \/ (\E t \in Tx : Send(t))
  <2>1. PICK new, rcv : Queues(new, rcv)
    BY <1>4, <1>b, QueueSteps DEF LedgerInv
  <2>2. /\ UNCHANGED <<store, files, led, lost>>
        /\ adds' = new /\ pc' \in {"idle", "open"} /\ rcvd' = rcvd \union rcv
        /\ rcv \subseteq count + 1..count + Len(new)
        /\ \A i \in 1..Len(new) : new[i].n = count + i
        /\ \A i \in 1..Len(new) :
              new[i].n \in rcv => /\ pc = "handle" /\ new[i].tx = Head(cur).tx
                                 /\ Stored(Head(cur).tx)
        /\ new \in Seq(Pending)
    BY <2>1 DEF Queues, Queue
  <2>3. /\ count \in Nat /\ Len(new) \in Nat /\ Done = count /\ rcvd \subseteq 1..count
    <3>1. adds = <<>> /\ count \in Nat /\ rcvd \subseteq 1..count
      BY <1>b, <2>1 DEF Queues, LedgerInv, AddsNumbered, TypeOK
    <3>2. Len(adds) = 0
      BY <3>1
    <3> QED
      BY <2>2, <3>1, <3>2, LenProperties DEF Done
  <2>4. \A t : InStore(t)' <=> InStore(t)
    BY <2>2 DEF InStore
  <2>5. ASSUME "write" \notin lost'
        PROVE  C'
    <3> SUFFICES ASSUME NEW i \in 1..Len(new), new[i].n \in rcvd \union rcv
                 PROVE  InStore(new[i].tx)
      BY <2>2, <2>4
    <3>1. new[i].n = count + i /\ i \in Int /\ i >= 1
      BY <2>2, <2>3
    <3>2. new[i].n \notin rcvd
      BY <2>3, <3>1
    <3>3. pc = "handle" /\ new[i].tx = Head(cur).tx /\ Stored(Head(cur).tx)
      BY <2>2, <3>2
    <3> QED
      BY <1>a, <2>2, <2>5, <3>3
  <2>6. ASSUME "write" \notin lost'
        PROVE  E'
    <3> SUFFICES ASSUME NEW f \in DOMAIN files, NEW i \in DOMAIN files[f].txs,
                        files[f].txs[i].n \in rcvd \union rcv
                 PROVE  InStore(files[f].txs[i].tx)
      BY <2>2, <2>4
    <3>1. files[f].txs[i].n <= count /\ files[f].txs[i].n \in Int
      BY <1>b, <2>3, LedgerNumbers DEF LedgerInv, FilesFiled, Txs
    <3>2. files[f].txs[i].n \notin rcv
      BY <2>2, <2>3, <3>1
    <3> QED
      BY <1>a, <2>2, <2>6, <3>2
  <2> QED
    BY <2>2, <2>5, <2>6
<1>5. CASE Open \/ OpenUnread
  <2> DEFINE f == <<Head(adds).key, now>>
  <2>1. /\ UNCHANGED <<files, adds, rcvd>> /\ pc' \in {"stamp", "add"}
        /\ pc' = "add" => led' = files[f] /\ f \in DOMAIN files
    BY <1>5 DEF Open, OpenUnread
  <2> HIDE DEF f
  <2> QED
    BY <1>a, <1>c, <2>1
<1>6. CASE Stamp
  <2>1. /\ UNCHANGED <<files, adds, rcvd>> /\ pc = "stamp" /\ pc' = "add"
        /\ led' = [led EXCEPT !.stamp = now]
    BY <1>6 DEF Stamp
  <2>2. DOMAIN led'.txs = {}
    <3>1. led \in Ledger /\ led.txs = <<>>
      BY <1>b, <2>1 DEF LedgerInv, TypeOK, LedOpened, LedNew
    <3>2. led'.txs = <<>>
      BY <2>1, <3>1 DEF Ledger
    <3> QED
      BY <3>2
  <2> QED
    BY <1>a, <1>c, <2>1, <2>2
<1>7. CASE Add
  <2>1. /\ UNCHANGED <<files, adds, store, lost, rcvd>> /\ pc = "add" /\ pc' = "write"
    BY <1>7 DEF Add
  <2>2. /\ led \in Ledger /\ Head(adds) \in Pending
        /\ Head(adds) = adds[1] /\ 1 \in 1..Len(adds)
    <3>1. led \in Ledger /\ adds \in Seq(Pending) /\ adds # <<>>
      BY <1>b, <2>1 DEF LedgerInv, TypeOK
    <3> QED
      BY <3>1, NonEmpty
  <2>4. PICK l \in Ledger :
           /\ l.txs = led.txs
           /\ led' = Appended(l, Head(adds))
    <3> DEFINE known == /\ led.key \in DOMAIN archive
                        /\ archive[led.key].stamp = led.stamp
    <3>1. Archived(led) \in Ledger /\ Archived(led).txs = led.txs
      BY <1>b, <2>2, ArchivedType DEF LedgerInv, TypeOK
    <3>2. CASE known
      BY <2>2, <3>2, <1>7 DEF Add
    <3>3. CASE ~ known
      BY <3>1, <3>3, <1>7 DEF Add
    <3> QED
      BY <3>2, <3>3
  <2>5. /\ DOMAIN led'.txs = 1..Len(led.txs) + 1 /\ DOMAIN led.txs = 1..Len(led.txs)
        /\ \A i \in DOMAIN led.txs : led'.txs[i] = led.txs[i]
        /\ led'.txs[Len(led.txs) + 1].tx = Head(adds).tx
        /\ led'.txs[Len(led.txs) + 1].n = Head(adds).n
        /\ Len(led.txs) \in Nat
    <3>1. /\ DOMAIN led'.txs = 1..Len(l.txs) + 1 /\ DOMAIN l.txs = 1..Len(l.txs)
          /\ \A i \in DOMAIN l.txs : led'.txs[i] = l.txs[i]
          /\ led'.txs[Len(l.txs) + 1].tx = Head(adds).tx
          /\ led'.txs[Len(l.txs) + 1].n = Head(adds).n
      BY <2>2, <2>4, AppendedType
    <3>2. Len(led.txs) \in Nat
      BY <2>2, LenProperties DEF Ledger
    <3> QED
      BY <2>4, <3>1, <3>2
  <2>6. \A t : InStore(t)' <=> InStore(t)
    BY <2>1 DEF InStore
  <2>7. ASSUME "write" \notin lost, NEW i \in DOMAIN led'.txs, led'.txs[i].n \in rcvd
        PROVE  InStore(led'.txs[i].tx)
    <3>1. CASE i = Len(led.txs) + 1
      <4>1. InStore(Head(adds).tx)
        BY <1>a, <2>2, <2>5, <2>7, <3>1
      <4> QED
        BY <2>5, <3>1, <4>1
    <3>2. CASE i \in DOMAIN led.txs
      BY <1>a, <2>1, <2>5, <2>7, <3>2
    <3> QED
      BY <2>5, <2>7, <3>1, <3>2
  <2> QED
    BY <1>a, <2>1, <2>5, <2>6, <2>7
<1>8. CASE Write
  <2> DEFINE f == <<led.key, led.stamp>>
  <2>1. /\ UNCHANGED <<store, rcvd>> /\ pc = "write" /\ adds' = Tail(adds)
        /\ pc' \in {"idle", "open"}
        /\ files' = files \/ files' = Put(files, f, led)
    BY <1>8 DEF Write
  <2>2. /\ Len(adds') = Len(adds) - 1 /\ Len(adds) \in Nat \ {0}
        /\ \A i \in 1..Len(adds) - 1 : adds'[i] = adds[i + 1]
    <3>1. adds \in Seq(Pending) /\ adds # <<>>
      BY <1>b, <2>1 DEF LedgerInv, TypeOK
    <3> QED
      BY <2>1, <3>1, NonEmpty
  <2>3. \A t : InStore(t)' <=> InStore(t)
    BY <2>1 DEF InStore
  <2>4. ASSUME "write" \notin lost'
        PROVE  C'
    <3> SUFFICES ASSUME NEW i \in 1..Len(adds'), adds'[i].n \in rcvd
                 PROVE  InStore(adds[i].tx)'
      BY <2>1
    <3>1. i + 1 \in 1..Len(adds) /\ adds'[i] = adds[i + 1]
      BY <2>2
    <3> QED
      BY <1>a, <1>c, <2>3, <2>4, <3>1
  <2>5. ASSUME "write" \notin lost'
        PROVE  E'
    <3>1. CASE files' = files
      BY <1>a, <1>c, <2>1, <2>3, <2>5, <3>1
    <3>2. CASE files' = Put(files, f, led)
      <4>1. /\ DOMAIN files' = DOMAIN files \union {f}
            /\ files'[f] = led
            /\ \A g \in DOMAIN files : g # f => files'[g] = files[g]
        BY <3>2 DEF Put
      <4> HIDE DEF f
      <4> QED
        BY <1>a, <1>c, <2>1, <2>3, <2>5, <4>1
    <3> QED
      BY <2>1, <3>1, <3>2
  <2> QED
    BY <2>1, <2>4, <2>5
<1>9. CASE Tick
  <2>1. UNCHANGED <<files, adds, led, pc, cur, store, lost, rcvd>>
    BY <1>9 DEF Tick
  <2> QED
    BY <1>a, <2>1 DEF InStore
<1>10. CASE Crash
  <2>1. UNCHANGED <<files, store, rcvd>> /\ adds' = <<>> /\ pc' = "idle"
    BY <1>10 DEF Crash
  <2> QED
    BY <1>a, <1>c, <2>1
<1>11. CASE UNCHANGED vars
  <2>1. UNCHANGED <<files, adds, led, pc, cur, store, lost, rcvd>>
    BY <1>11 DEF vars
  <2> QED
    BY <1>a, <2>1 DEF InStore
<1> QED
  BY <1>1, <1>2, <1>3, <1>4, <1>5, <1>6, <1>7, <1>8, <1>9,
     <1>10, <1>11 DEF Next

\* Unless a write failed, a received transaction that is in a ledger, of
\* whatever key, is in the store.
THEOREM LedgerStored == Spec => []LedgerInStore
<1>1. StoreInv => LedgerInStore
  BY DEF StoreInv
<1> QED
  BY <1>1, StoreInvInit, StoreInvStep, PTL DEF Spec

\* The store never replaces a transaction, unless reading it failed.
THEOREM StoreKeeps == Spec => StoreKept
<1> DEFINE Kept ==
      \A k \in DOMAIN store :
          "read" \notin lost => k \in DOMAIN store' /\ store'[k] = store[k]
<1>1. StoreInv /\ [Next]_vars => [Kept]_vars
  <2> SUFFICES ASSUME StoreInv, [Next]_vars PROVE Kept
    OBVIOUS
  <2>1. CASE store' = store
    BY <2>1
  <2>2. CASE Save
    <3>1. "read" \notin lost => StoreKey(Head(cur).tx) \notin DOMAIN store
      BY <2>2 DEF Save, StoreInv, StoreAhead
    <3>2. \/ store' = store
          \/ store' = Put(store, StoreKey(Head(cur).tx), Head(cur).tx)
      BY <2>2 DEF Save
    <3> QED
      BY <3>1, <3>2 DEF Put
  <2>3. Save \/ store' = store
    BY DEF Next, vars, Begin, BeginUnread, HandleRefused, Handle, HandleAnswers,
           Send, Open, OpenUnread, Stamp, Add, Write, Tick, Crash
  <2> QED
    BY <2>1, <2>2, <2>3
<1> QED
  BY <1>1, StoreInvInit, StoreInvStep, PTL DEF Spec, StoreKept
=============================================================================
