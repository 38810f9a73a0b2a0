--------------------------- MODULE TxLedgerRefines ---------------------------
(***************************************************************************)
(* The hourly files of TxLedger implement KeyLog, one log for every key,   *)
(* for any peers, transactions and number of hours.                        *)
(***************************************************************************)
EXTENDS TxLedgerProofs

FileSet(f) == {Txs(f)[i] : i \in DOMAIN Txs(f)}
LedSet     == {led.txs[i] : i \in DOMAIN led.txs}
LedFile    == <<led.key, led.stamp>>
Turn       == [tx |-> Head(adds).tx, n |-> Head(adds).n]
LogMap     == [k \in Key |-> LogOf(k)]

\* The ledger in memory has all that its file has or nothing of it, and then
\* the entry whose turn it is.
LedWhole ==
    /\ pc = "add" =>
          \/ led.txs = <<>>
          \/ LedFile \in DOMAIN files /\ led.txs = Txs(LedFile)
    /\ pc = "write" =>
          \/ LedSet = {Turn}
          \/ LedFile \in DOMAIN files /\ LedSet = FileSet(LedFile) \union {Turn}

RefInv == LedgerInv /\ LedWhole

-----------------------------------------------------------------------------
\* Adding the entry to a ledger adds it to its set.
LEMMA AddWhole ==
    ASSUME RefInv, Add
    PROVE  LedWhole'
<1>1. /\ pc = "add" /\ pc' = "write" /\ UNCHANGED <<files, adds>>
      /\ led \in Ledger /\ adds \in Seq(Pending) /\ adds # <<>>
      /\ archive \in [DOMAIN archive -> [stamp : 0..MaxHour, seq : Nat]]
  BY DEF Add, RefInv, LedgerInv, TypeOK
<1>2. Head(adds) \in Pending
  BY <1>1, NonEmpty
<1>3. PICK l \in Ledger : /\ l.key = led.key /\ l.stamp = led.stamp /\ l.txs = led.txs
                          /\ led' = Appended(l, Head(adds))
  BY <1>1, ArchivedType DEF Add
<1>4. /\ led'.key = led.key /\ led'.stamp = led.stamp
      /\ DOMAIN led'.txs = 1..Len(led.txs) + 1
      /\ DOMAIN led.txs = 1..Len(led.txs)
      /\ \A i \in DOMAIN led.txs : led'.txs[i] = led.txs[i]
  BY <1>2, <1>3, AppendedType
<1>5. led'.txs = Append(led.txs, Turn)
  BY <1>3 DEF Appended, Ledger, Turn
<1>6. led.txs \in Seq(Entry)
  BY <1>1 DEF Ledger
<1>7. Len(led.txs) \in Nat /\ led'.txs[Len(led.txs) + 1] = Turn
  BY <1>5, <1>6
<1>8. LedSet' = LedSet \union {Turn}
  BY <1>4, <1>7 DEF LedSet
<1>9. LedFile' = LedFile /\ Turn' = Turn /\ \A f : FileSet(f)' = FileSet(f)
  BY <1>1, <1>4 DEF LedFile, Turn, FileSet, Txs
<1>10. CASE led.txs = <<>>
  <2>1. LedSet = {}
    BY <1>10 DEF LedSet
  <2> QED
    BY <1>1, <1>8, <1>9, <2>1 DEF LedWhole
<1>11. CASE LedFile \in DOMAIN files /\ led.txs = Txs(LedFile)
  <2>1. LedSet = FileSet(LedFile)
    BY <1>11 DEF LedSet, FileSet
  <2> QED
    BY <1>1, <1>8, <1>9, <1>11, <2>1 DEF LedWhole
<1> QED
  BY <1>1, <1>10, <1>11 DEF RefInv, LedWhole

LEMMA RefInvInit == Init => RefInv
<1>1. Init => LedWhole
  BY DEF Init, LedWhole
<1> QED
  BY <1>1, LedgerInvInit DEF RefInv

LEMMA RefInvStep == RefInv /\ [Next]_vars => RefInv'
<1> SUFFICES ASSUME RefInv, [Next]_vars PROVE RefInv'
  OBVIOUS
<1>1. LedgerInv'
  BY LedgerInvStep DEF RefInv
<1>2. CASE pc' \notin {"add", "write"}
  <2>1. LedWhole'
    BY <1>2 DEF LedWhole
  <2> QED
    BY <1>1, <2>1 DEF RefInv
<1>3. CASE Open /\ pc' = "add"
  <2>1. PICK f \in DOMAIN files : led' = files[f] /\ files' = files
    BY <1>3 DEF Open
  <2>2. files[f].key = f[1] /\ files[f].stamp = f[2]
    BY DEF RefInv, LedgerInv, FilesFiled
  <2>3. f = <<f[1], f[2]>>
    BY DEF RefInv, LedgerInv, TypeOK
  <2>4. LedFile' = f
    BY <2>1, <2>2, <2>3 DEF LedFile
  <2>5. LedFile' \in DOMAIN files' /\ led'.txs = Txs(LedFile)'
    BY <2>1, <2>4 DEF Txs
  <2>6. LedWhole'
    BY <1>3, <2>5 DEF LedWhole
  <2> QED
    BY <1>1, <2>6 DEF RefInv
<1>4. CASE Stamp
  <2>1. led'.txs = <<>> /\ pc' = "add"
    <3>1. led.txs = <<>> /\ led \in Ledger
      BY <1>4 DEF Stamp, RefInv, LedgerInv, LedOpened, LedNew, TypeOK
    <3>2. led' = [led EXCEPT !.stamp = now] /\ pc' = "add"
      BY <1>4 DEF Stamp
    <3> QED
      BY <3>1, <3>2 DEF Ledger
  <2>2. LedWhole'
    BY <2>1 DEF LedWhole
  <2> QED
    BY <1>1, <2>2 DEF RefInv
<1>5. CASE Add
  BY <1>1, <1>5, AddWhole DEF RefInv
<1>6. CASE UNCHANGED <<files, pc, adds, led>>
  <2>0. /\ LedFile' = LedFile /\ LedSet' = LedSet /\ Turn' = Turn
        /\ FileSet(LedFile)' = FileSet(LedFile) /\ Txs(LedFile)' = Txs(LedFile)
    BY <1>6 DEF LedFile, LedSet, FileSet, Turn, Txs
  <2>1. LedWhole'
    BY <1>6, <2>0 DEF RefInv, LedWhole
  <2> QED
    BY <1>1, <2>1 DEF RefInv
<1>7. \/ pc' \notin {"add", "write"}
      \/ Open /\ pc' = "add"
      \/ Stamp \/ Add
      \/ UNCHANGED <<files, pc, adds, led>>
  <2>1. ASSUME NEW p \in Key, NEW t \in Tx, Begin(p, t) \/ BeginUnread(p, t)
        PROVE  pc' \notin {"add", "write"}
    BY <2>1 DEF Begin, BeginUnread
  <2>2. CASE Handle \/ (\E t \in Tx : Send(t)) \/ (\E r \in Files : HandleAnswers(r))
    BY <2>2 DEF Handle, Send, HandleAnswers, Queue
  <2>3. CASE Save \/ HandleRefused \/ OpenUnread \/ Write \/ Crash
    BY <2>3 DEF Save, HandleRefused, OpenUnread, Write, Crash
  <2>4. CASE Open
    BY <2>4 DEF Open
  <2>5. CASE Tick \/ UNCHANGED vars
    BY <2>5 DEF Tick, vars
  <2> QED
    BY <2>1, <2>2, <2>3, <2>4, <2>5 DEF Next
<1> QED
  BY <1>2, <1>3, <1>4, <1>5, <1>6, <1>7

-----------------------------------------------------------------------------
\* The logs are the same as long as the files are.
LEMMA SameLogs ==
    ASSUME UNCHANGED files
    PROVE  LogMap' = LogMap
<1>1. \A g : Txs(g)' = Txs(g)
  BY DEF Txs
<1>2. \A k : LogOf(k)' = LogOf(k)
  BY <1>1 DEF LogOf
<1> QED
  BY <1>2 DEF LogMap

\* A step that leaves the files and what is pending alone, and adds at most
\* one kind of failure, is a failure of the log or a stutter.
LEMMA QuietMaps ==
    ASSUME UNCHANGED <<files, adds, count>>,
           lost' \in {lost, lost \union {"read"}, lost \union {"write"}}
    PROVE  [Log!Next]_(Log!vars)
<1>1. LogMap' = LogMap
  BY SameLogs
<1>2. CASE lost' = lost
  BY <1>1, <1>2 DEF Log!vars, LogMap
<1>3. CASE lost' \in {lost \union {"read"}, lost \union {"write"}}
  BY <1>1, <1>3 DEF Log!Next, Log!Fail, LogMap
<1> QED
  BY <1>2, <1>3

\* The entries of a handler are accepted together.
LEMMA QueueMaps ==
    ASSUME RefInv, NEW new, NEW rcv, Queues(new, rcv)
    PROVE  [Log!Next]_(Log!vars)
<1>0. /\ pc \in {"idle", "handle"} /\ new \in Seq(Pending)
      /\ \A i \in 1..Len(new) : new[i].n = count + i
      /\ Queue(new, rcv) /\ UNCHANGED <<files, lost>>
  BY DEF Queues
<1>1. LogMap' = LogMap
  BY <1>0, SameLogs
<1>2. adds = <<>> /\ count' = count + Len(new) /\ adds' = new
  BY <1>0 DEF RefInv, LedgerInv, AddsNumbered, Queue
<1>3. adds' \in Seq([key : Key, tx : Tx, n : Nat])
  BY <1>0, <1>2 DEF Pending
<1> QED
  BY <1>0, <1>1, <1>2, <1>3 DEF Log!Next, Log!Accept, LogMap

\* What a write leaves of the log of its key.
LEMMA WriteLog ==
    ASSUME RefInv, pc = "write", NEW k, k = led.key,
           files' = Put(files, LedFile, led)
    PROVE  \E keep \in SUBSET LogOf(k) :
              /\ keep = LogOf(k) \/ "read" \in lost
              /\ Log!Before(keep, LogOf(k) \ keep)
              /\ Log!Before(keep, {Turn})
              /\ LogOf(k)' = keep \union {Turn}
<1> DEFINE others == UNION {FileSet(g) : g \in {h \in DOMAIN files : h[1] = k /\ h # LedFile}}
           own == IF LedFile \in DOMAIN files THEN FileSet(LedFile) ELSE {}
           keep == IF LedSet = {Turn} THEN others ELSE others \union own
<1>1. LedFile[1] = k /\ LedFile[2] = led.stamp
  BY DEF LedFile
<1>2. LogOf(k) = others \union own
  BY <1>1 DEF LogOf, FileSet
<1>3. /\ DOMAIN files' = DOMAIN files \union {LedFile}
      /\ files'[LedFile] = led
      /\ \A g \in DOMAIN files : g # LedFile => files'[g] = files[g]
  BY DEF Put
<1>4. LogOf(k)' = others \union LedSet
  <2> DEFINE S(g) == {files'[g].txs[i] : i \in DOMAIN files'[g].txs}
             D == {h \in DOMAIN files' : h[1] = k}
  <2>1. LogOf(k)' = UNION {S(g) : g \in D}
    BY DEF LogOf, Txs
  <2>2. S(LedFile) = LedSet /\ LedFile \in D
    BY <1>1, <1>3 DEF LedSet
  <2>3. \A g \in DOMAIN files : g # LedFile => S(g) = FileSet(g)
    BY <1>3 DEF FileSet, Txs
  <2>4. D = {h \in DOMAIN files : h[1] = k /\ h # LedFile} \union {LedFile}
    BY <1>1, <1>3
  <2> HIDE DEF S, D
  <2>5. UNION {S(g) : g \in D} = others \union LedSet
    BY <2>2, <2>3, <2>4
  <2> QED
    BY <2>1, <2>5
<1>5. /\ TypeOK /\ FilesFiled /\ LedgerOrder
      /\ LedLatest /\ LedGoesOn /\ AddsNumbered
  BY DEF RefInv, LedgerInv, LedOpened
<1>6. Turn.n = Done + 1 /\ Done \in Int
  <2>1. adds \in Seq(Pending) /\ adds # <<>>
    BY <1>5 DEF TypeOK
  <2>2. Len(adds) \in Nat \ {0} /\ Head(adds) = adds[1]
    BY <2>1, NonEmpty
  <2>3. adds[1].n = Done + 1
    BY <1>5, <2>2 DEF AddsNumbered
  <2> QED
    BY <1>5, <2>2, <2>3, LedgerNumbers DEF Turn
<1>7. \A g \in DOMAIN files : \A a \in FileSet(g) : a.n <= Done /\ a.n \in Int
  BY <1>5, LedgerNumbers DEF FilesFiled, FileSet
<1>8. \A a \in LogOf(k) : a.n <= Done /\ a.n \in Int
  BY <1>2, <1>7
<1>9. LedSet = {Turn} \/ (LedFile \in DOMAIN files /\ LedSet = own \union {Turn})
  BY DEF RefInv, LedWhole
<1>10. LogOf(k)' = keep \union {Turn} /\ keep \in SUBSET LogOf(k)
  BY <1>2, <1>4, <1>9
<1>11. keep = LogOf(k) \/ "read" \in lost
  <2> SUFFICES ASSUME "read" \notin lost, LedSet = {Turn}, LedFile \in DOMAIN files,
                      NEW a \in FileSet(LedFile)
               PROVE  FALSE
    BY <1>2
  <2>1. a \in LedSet
    BY <1>5 DEF LedGoesOn, LedFile, FileSet, LedSet
  <2>2. a.n = Done + 1
    BY <1>6, <2>1
  <2> QED
    BY <1>6, <1>7, <2>2
<1>12. Log!Before(keep, {Turn})
  <2>1. \A a \in keep : a.n < Turn.n
    BY <1>6, <1>8, <1>10
  <2> QED
    BY <2>1 DEF Log!Before
<1>13. \A a \in others, b \in own : a.n < b.n
  <2> SUFFICES ASSUME NEW g \in DOMAIN files, g[1] = k, g # LedFile,
                      LedFile \in DOMAIN files,
                      NEW a \in FileSet(g), NEW b \in FileSet(LedFile)
               PROVE  a.n < b.n
    OBVIOUS
  <2>1. g[2] <= LedFile[2]
    BY <1>1, <1>5 DEF LedLatest
  <2>2. g[2] # LedFile[2]
    <3>1. g = <<g[1], g[2]>> /\ LedFile = <<LedFile[1], LedFile[2]>>
      BY <1>5 DEF TypeOK, LedFile
    <3> QED
      BY <1>1, <3>1
  <2>3. g[2] \in Int /\ LedFile[2] \in Int
    BY <1>5, LedgerNumbers
  <2>4. PICK i \in DOMAIN Txs(g), j \in DOMAIN Txs(LedFile) :
           a = Txs(g)[i] /\ b = Txs(LedFile)[j]
    BY DEF FileSet
  <2>5. g[2] < LedFile[2]
    BY <2>1, <2>2, <2>3
  <2> QED
    BY <1>1, <1>5, <2>4, <2>5 DEF LedgerOrder
<1>14. Log!Before(keep, LogOf(k) \ keep)
  BY <1>2, <1>13 DEF Log!Before
<1> QED
  BY <1>10, <1>11, <1>12, <1>14

\* A write records the entry whose turn it is, or loses it.
LEMMA WriteMaps ==
    ASSUME RefInv, Write
    PROVE  [Log!Next]_(Log!vars)
<1> PICK k : k = led.key
  OBVIOUS
<1>1. /\ pc = "write" /\ adds' = Tail(adds) /\ count' = count
      /\ \/ files' = Put(files, LedFile, led) /\ lost' = lost
         \/ files' = files /\ lost' = lost \union {"write"}
  BY DEF Write, LedFile
<1>2. adds # <<>> /\ led \in Ledger /\ k = Head(adds).key
  BY <1>1 DEF RefInv, LedgerInv, TypeOK, LedOpened, LedLatest
<1>3. CASE files' = files /\ lost' = lost \union {"write"}
  <2>1. LogMap' = LogMap
    BY <1>3, SameLogs
  <2> QED
    BY <1>1, <1>2, <1>3, <2>1 DEF Log!Next, Log!Drop, LogMap
<1>4. CASE files' = Put(files, LedFile, led) /\ lost' = lost
  <2>1. k \in Key
    BY <1>2 DEF Ledger
  <2>2. PICK keep \in SUBSET LogOf(k) :
              /\ keep = LogOf(k) \/ "read" \in lost
              /\ Log!Before(keep, LogOf(k) \ keep)
              /\ Log!Before(keep, {Turn})
              /\ LogOf(k)' = keep \union {Turn}
    BY <1>1, <1>4, WriteLog
  <2>3. \A j \in Key : j # k => LogOf(j)' = LogOf(j)
    <3> SUFFICES ASSUME NEW j \in Key, j # k PROVE LogOf(j)' = LogOf(j)
      OBVIOUS
    <3>1. LedFile[1] = k
      BY DEF LedFile
    <3>2. /\ DOMAIN files' = DOMAIN files \union {LedFile}
          /\ \A g \in DOMAIN files : g # LedFile => files'[g] = files[g]
      BY <1>4 DEF Put
    <3>3. \A g \in DOMAIN files : g[1] = j => Txs(g)' = Txs(g)
      BY <3>1, <3>2 DEF Txs
    <3>4. {g \in DOMAIN files' : g[1] = j} = {g \in DOMAIN files : g[1] = j}
      BY <3>1, <3>2
    <3> QED
      BY <3>3, <3>4 DEF LogOf
  <2>4. LogMap' = [LogMap EXCEPT ![k] = keep \union {Turn}]
    BY <2>1, <2>2, <2>3 DEF LogMap
  <2>5. LogMap[k] = LogOf(k)
    BY <2>1 DEF LogMap
  <2>6. Log!Record
    <3>1. /\ keep \in SUBSET LogMap[k]
          /\ keep = LogMap[k] \/ "read" \in lost
          /\ Log!Before(keep, LogMap[k] \ keep)
          /\ Log!Before(keep, {Turn})
          /\ LogMap' = [LogMap EXCEPT ![k] = keep \union {Turn}]
      BY <2>2, <2>4, <2>5
    <3>2. /\ adds # <<>> /\ k = Head(adds).key /\ adds' = Tail(adds)
          /\ UNCHANGED <<count, lost>>
      BY <1>1, <1>2, <1>4
    <3> QED
      BY <3>1, <3>2 DEF Log!Record, LogMap, Turn
  <2> QED
    BY <2>6 DEF Log!Next
<1> QED
  BY <1>1, <1>3, <1>4

-----------------------------------------------------------------------------
\* Every step of the daemon is a step of the log or changes nothing of it.
LEMMA StepMaps == RefInv /\ [Next]_vars => [Log!Next]_(Log!vars)
<1> SUFFICES ASSUME RefInv, [Next]_vars PROVE [Log!Next]_(Log!vars)
  OBVIOUS
<1>1. ASSUME NEW p \in Key, NEW t \in Tx, Begin(p, t) \/ BeginUnread(p, t)
      PROVE  [Log!Next]_(Log!vars)
  <2>1. /\ UNCHANGED <<files, adds, count>>
        /\ lost' \in {lost, lost \union {"read"}, lost \union {"write"}}
    BY <1>1 DEF Begin, BeginUnread
  <2> QED
    BY <2>1, QuietMaps
<1>2. CASE Save \/ HandleRefused \/ Open \/ OpenUnread \/ Stamp \/ Add \/ Tick
           \/ UNCHANGED vars
  <2>1. /\ UNCHANGED <<files, adds, count>>
        /\ lost' \in {lost, lost \union {"read"}, lost \union {"write"}}
    BY <1>2 DEF Save, HandleRefused, Open, OpenUnread, Stamp, Add, Tick, vars
  <2> QED
    BY <2>1, QuietMaps
<1>3. CASE Handle \/ (\E r \in Files : HandleAnswers(r)) \/ (\E t \in Tx : Send(t))
  <2>1. PICK new, rcv : Queues(new, rcv)
    BY <1>3, QueueSteps DEF RefInv, LedgerInv
  <2> QED
    BY <2>1, QueueMaps
<1>4. CASE Crash
  <2>1. /\ UNCHANGED <<files, count>> /\ adds' = <<>>
        /\ lost' = lost \union {"crash"}
    BY <1>4 DEF Crash
  <2>2. LogMap' = LogMap
    BY <2>1, SameLogs
  <2> QED
    BY <2>1, <2>2 DEF Log!Next, Log!Crash, LogMap
<1> QED
  BY <1>1, <1>2, <1>3, <1>4, WriteMaps DEF Next

\* The hourly files, loaded, begun, written and lost as ledger.c does it, are
\* one log for every key: each entry is recorded in its turn or lost to a
\* failure, and no entry ever leaves, unless reading a file failed.
THEOREM LedgerIsLog == Spec => ImplementsLog
<1>1. Init => Log!Init
  <2> SUFFICES ASSUME Init PROVE Log!Init
    OBVIOUS
  <2>1. DOMAIN files = {} /\ adds = <<>> /\ count = 0 /\ lost = {}
    BY DEF Init
  <2>2. \A k : LogOf(k) = {}
    BY <2>1 DEF LogOf
  <2> QED
    BY <2>1, <2>2 DEF Log!Init
<1> QED
  BY <1>1, RefInvInit, RefInvStep, StepMaps, PTL DEF Spec, ImplementsLog, Log!Spec
=============================================================================
