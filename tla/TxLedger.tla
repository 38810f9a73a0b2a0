------------------------------ MODULE TxLedger ------------------------------
(***************************************************************************)
(* What a daemon does with a transaction it receives (tx_recv) or sends    *)
(* (tx_send): the transaction store and the hourly ledgers (bits.c,        *)
(* ledger.c, sharedaemon_store.c).                                         *)
(*                                                                         *)
(* Both are files, so that what was written survives the process.  One     *)
(* transaction is processed at a time, in the steps between two accesses   *)
(* of a file or two readings of the clock: "idle", "save" (tx_save),       *)
(* "handle" (op_recv), and for every ledger entry that results "open",     *)
(* "stamp" (both ledger_load), "add" (ledger_tx_add) and "write"           *)
(* (ledger_close).  The clock goes on, the process may die, and the file   *)
(* system may fail in between; the code ignores all such failures.         *)
(***************************************************************************)
EXTENDS Integers, Sequences

CONSTANTS
    Peer,      \* private keys made of the addresses of peers
    Self,      \* the private key of the daemon's own peer
    Zero,      \* a zeroed key
    Inits,     \* transactions of TX_INIT
    Files,     \* transactions of TX_FILE, all on one file
    File,      \* the ino_name of that file
    Plain,     \* transactions of another stored operation, as TX_EVENT
    Controls,  \* transactions of an operation that is not stored
    MaxHour,   \* bound: the last hour
    MaxCount   \* bound: ledger entries made

ASSUME LedgerAssumption ==
    /\ MaxHour \in Nat \ {0} /\ MaxCount \in Nat
    /\ Self \notin Peer
    /\ Zero \notin Peer \union {Self}
    /\ File \notin Inits \union Plain
    /\ Controls \intersect (Inits \union Files \union Plain) = {}
    /\ Inits \intersect (Files \union Plain) = {}
    /\ Files \intersect Plain = {}

Tx   == Inits \union Files \union Plain \union Controls
Hour == 1..MaxHour
Key  == Peer \union {Self}

VARIABLES
    now,      \* the hour of the clock
    store,    \* /sys/net/tx/default: name to transaction
    archive,  \* /sys/net/tx/ledger: name to stamp and seq of a ledger
    files,    \* /sys/net/ledger: a ledger for a key and an hour
    pc,
    cur,      \* the transaction being received and from whom, if any
    adds,     \* entries still to be added to a ledger
    led,      \* the ledger that is open
    count,    \* ledger entries made so far (history)
    rcvd,     \* which of them are of received transactions (history)
    lost      \* failures so far: "read", "write", "crash" (history)

vars == <<now, store, archive, files, pc, cur, adds, led, count, rcvd, lost>>

\* n is no part of a tx_t: it numbers the entries in the order their
\* transactions were accepted.
Entry   == [tx : Tx, n : Nat]
Pending == [key : Key, tx : Tx, n : Nat]

\* stamp: the hour of the tx_stamp of ledger_tx, which also determines its
\* hash; parent: the stamp parent_hash stands for.  They are 0 until they are
\* assigned.  Time of closure and signature are left out.
Ledger == [key : Key, stamp : 0..MaxHour, parent : 0..MaxHour, seq : Nat,
           txs : Seq(Entry)]

NewLedger(k) ==
    [key |-> k, stamp |-> 0, parent |-> 0, seq |-> 0, txs |-> <<>>]

TypeOK ==
    /\ now \in Hour
    /\ store \in [DOMAIN store -> Tx]
    /\ archive \in [DOMAIN archive -> [stamp : 0..MaxHour, seq : Nat]]
    /\ DOMAIN files \subseteq Key \X (0..MaxHour)
    /\ files \in [DOMAIN files -> Ledger]
    /\ pc \in {"idle", "save", "handle", "open", "stamp", "add", "write"}
    /\ cur \in Seq([from : Key, tx : Tx])
    /\ pc \in {"save", "handle"} => cur # <<>>
    /\ adds \in Seq(Pending)
    /\ pc \in {"open", "stamp", "add", "write"} => adds # <<>>
    /\ led \in Ledger
    /\ count \in Nat
    /\ rcvd \subseteq 1..count
    /\ lost \subseteq {"read", "write", "crash"}

Init ==
    /\ now = 1
    /\ store = [k \in {} |-> 0]
    /\ archive = [k \in {} |-> 0]
    /\ files = [f \in {} |-> 0]
    /\ pc = "idle"
    /\ cur = <<>>
    /\ adds = <<>>
    /\ led = NewLedger(Self)
    /\ count = 0
    /\ rcvd = {}
    /\ lost = {}

-----------------------------------------------------------------------------
\* is_tx_stored.
Stored(t) == t \notin Controls

\* get_tx_key: a file is stored by its name, others by their own key.
StoreKey(t) == IF t \in Files THEN File ELSE t

\* ledger_tx_add does not record TX_INIT; tx_recv and tx_send do not call it
\* for operations that are not stored.
Recorded(t) == Stored(t) /\ t \notin Inits

\* f with x assigned to a.
Put(f, a, x) == [b \in DOMAIN f \union {a} |-> IF b = a THEN x ELSE f[b]]

-----------------------------------------------------------------------------
\* Mutants of Begin: the transaction is saved whatever the store has; it goes
\* straight to its handler.
BeginSaves(p, t) ==
    /\ pc = "idle"
    /\ count < MaxCount
    /\ cur' = <<[from |-> p, tx |-> t]>>
    /\ pc' = IF Stored(t) THEN "save" ELSE "handle"
    /\ UNCHANGED <<now, store, archive, files, adds, led, count, rcvd, lost>>

BeginHandles(p, t) ==
    /\ pc = "idle"
    /\ count < MaxCount
    /\ cur' = <<[from |-> p, tx |-> t]>>
    /\ pc' = "handle"
    /\ UNCHANGED <<now, store, archive, files, adds, led, count, rcvd, lost>>

\* tx_recv, up to tx_load, of a transaction on a connection whose peer has the
\* key p.  A registered connection has the daemon's own peer (RequestRegisters
\* of ServerLoop, init.c:295): its transactions are recorded as the daemon's
\* own.  An outgoing connection has the key of its address until the handshake
\* comes to sequence 2, and what is broadcast to it in the meantime is received.
\* What is in the store already is not written again.
\* A transaction with TXF_WARD goes no further than its ward, since the
\* reference that lifts it is never stored: it changes nothing.
Begin(p, t) ==
    /\ pc = "idle"
    /\ count < MaxCount
    /\ cur' = <<[from |-> p, tx |-> t]>>
    /\ pc' = IF Stored(t) /\ StoreKey(t) \notin DOMAIN store
             THEN "save" ELSE "handle"
    /\ UNCHANGED <<now, store, archive, files, adds, led, count, rcvd, lost>>

\* Reading the store fails, which is taken for absence.
BeginUnread(p, t) ==
    /\ pc = "idle"
    /\ count < MaxCount
    /\ Stored(t) /\ StoreKey(t) \in DOMAIN store
    /\ cur' = <<[from |-> p, tx |-> t]>>
    /\ pc' = "save"
    /\ lost' = lost \union {"read"}
    /\ UNCHANGED <<now, store, archive, files, adds, led, count, rcvd>>

\* tx_save.  pstore_save drops the error of pstore_write.
Save ==
    /\ pc = "save"
    /\ \/ store' = Put(store, StoreKey(Head(cur).tx), Head(cur).tx) /\ UNCHANGED lost
       \/ lost' = lost \union {"write"} /\ UNCHANGED store
    /\ pc' = "handle"
    /\ UNCHANGED <<now, archive, files, cur, adds, led, count, rcvd>>

\* op_recv refuses the transaction; it is in the store, but in no ledger.
HandleRefused ==
    /\ pc = "handle"
    /\ pc' = "idle"
    /\ cur' = <<>>
    /\ UNCHANGED <<now, store, archive, files, adds, led, count, rcvd, lost>>

\* The i-th entry a step gives rise to.
Made(k, t, i) == [key |-> k, tx |-> t, n |-> count + i]

\* Mutant of Queue: a ledger is opened although there is nothing to add.
QueueOpens(new, rcv) ==
    /\ adds' = new
    /\ count' = count + Len(new)
    /\ rcvd' = rcvd \union rcv
    /\ pc' = "open"
    /\ cur' = <<>>

\* The handler is done; the entries new are to be added, of which those with
\* the numbers rcv are of received transactions.
Queue(new, rcv) ==
    /\ adds' = new
    /\ count' = count + Len(new)
    /\ rcvd' = rcvd \union rcv
    /\ pc' = IF new = <<>> THEN "idle" ELSE "open"
    /\ cur' = <<>>

Handle ==
    /\ pc = "handle"
    /\ IF Recorded(Head(cur).tx)
       THEN Queue(<<Made(Head(cur).from, Head(cur).tx, 1)>>, {count + 1})
       ELSE Queue(<<>>, {})
    /\ UNCHANGED <<now, store, archive, files, led, lost>>

\* txop_file_recv answers by a tx_send of its own, before it returns: the
\* answer is first in the ledger of the own peer, which is also that of the
\* transaction when its connection has finished the handshake.
HandleAnswers(r) ==
    /\ pc = "handle"
    /\ Head(cur).tx \in Files
    /\ Queue(<<Made(Self, r, 1), Made(Head(cur).from, Head(cur).tx, 2)>>, {count + 2})
    /\ UNCHANGED <<now, store, archive, files, led, lost>>

\* tx_send of something else than an answer; nothing is put in the store.
Send(t) ==
    /\ pc = "idle"
    /\ count < MaxCount
    /\ Recorded(t)
    /\ Queue(<<Made(Self, t, 1)>>, {})
    /\ UNCHANGED <<now, store, archive, files, led, lost>>

-----------------------------------------------------------------------------
\* Mutant of Open: a ledger is begun although there is one.
OpenAnew ==
    /\ pc = "open"
    /\ led' = NewLedger(Head(adds).key)
    /\ pc' = "stamp"
    /\ UNCHANGED <<now, store, archive, files, cur, adds, count, rcvd, lost>>

\* ledger_load: the ledger of the key for the hour read before the call.
Open ==
    /\ pc = "open"
    /\ LET f == <<Head(adds).key, now>>
       IN  IF f \in DOMAIN files
           THEN led' = files[f] /\ pc' = "add"
           ELSE led' = NewLedger(Head(adds).key) /\ pc' = "stamp"
    /\ UNCHANGED <<now, store, archive, files, cur, adds, count, rcvd, lost>>

\* Reading the ledger fails, which is taken for absence.
OpenUnread ==
    /\ pc = "open"
    /\ <<Head(adds).key, now>> \in DOMAIN files
    /\ led' = NewLedger(Head(adds).key)
    /\ pc' = "stamp"
    /\ lost' = lost \union {"read"}
    /\ UNCHANGED <<now, store, archive, files, cur, adds, count, rcvd>>

\* A new ledger gets its stamp from a reading of the clock of its own.
Stamp ==
    /\ pc = "stamp"
    /\ led' = [led EXCEPT !.stamp = now]
    /\ pc' = "add"
    /\ UNCHANGED <<now, store, archive, files, cur, adds, count, rcvd, lost>>

\* The place of the ledger in the chain.
Archived(l) ==
    IF l.key \in DOMAIN archive
    THEN [l EXCEPT !.parent = archive[l.key].stamp,
                   !.seq = archive[l.key].seq + 1]
    ELSE l

\* Mutant of Appended: the entry is put in front.
Prepended(l, e) == [l EXCEPT !.txs = <<[tx |-> e.tx, n |-> e.n]>> \o @]

\* Mutant of Appended: the last entry is overwritten.
Overwritten(l, e) ==
    [l EXCEPT !.txs = Append(SubSeq(@, 1, Len(@) - 1), [tx |-> e.tx, n |-> e.n])]

Appended(l, e) == [l EXCEPT !.txs = Append(@, [tx |-> e.tx, n |-> e.n])]

\* ledger_tx_add: unless the archive has it, the ledger is closed and
\* archived; either way the entry is added.  The archive is read under the
\* key of the ledger and written under the tx_key of ledger_tx, which
\* nothing assigns.
Add ==
    /\ pc = "add"
    /\ LET known == /\ led.key \in DOMAIN archive
                    /\ archive[led.key].stamp = led.stamp
           l == IF known THEN led ELSE Archived(led)
       IN  /\ led' = Appended(l, Head(adds))
           /\ archive' = IF known THEN archive ELSE Put(archive, Zero, [stamp |-> l.stamp, seq |-> l.seq])
    /\ pc' = "write"
    /\ UNCHANGED <<now, store, files, cur, adds, count, rcvd, lost>>

\* Mutant of Write: the ledger goes to the file of the current hour.
WriteNow ==
    /\ pc = "write"
    /\ \/ files' = Put(files, <<led.key, now>>, led) /\ UNCHANGED lost
       \/ lost' = lost \union {"write"} /\ UNCHANGED files
    /\ adds' = Tail(adds)
    /\ pc' = IF Tail(adds) = <<>> THEN "idle" ELSE "open"
    /\ led' = NewLedger(Self)
    /\ UNCHANGED <<now, store, archive, cur, count, rcvd>>

\* ledger_close and ledger_save, to the file of the ledger's own stamp;
\* ledger_save returns success whatever shfs_write did.
Write ==
    /\ pc = "write"
    /\ \/ files' = Put(files, <<led.key, led.stamp>>, led) /\ UNCHANGED lost
       \/ lost' = lost \union {"write"} /\ UNCHANGED files
    /\ adds' = Tail(adds)
    /\ pc' = IF Tail(adds) = <<>> THEN "idle" ELSE "open"
    /\ led' = NewLedger(Self)
    /\ UNCHANGED <<now, store, archive, cur, count, rcvd>>

-----------------------------------------------------------------------------
Tick ==
    /\ now < MaxHour
    /\ now' = now + 1
    /\ UNCHANGED <<store, archive, files, pc, cur, adds, led, count, rcvd, lost>>

\* The process dies and is started again.
Crash ==
    /\ pc # "idle"
    /\ pc' = "idle"
    /\ cur' = <<>>
    /\ adds' = <<>>
    /\ led' = NewLedger(Self)
    /\ lost' = lost \union {"crash"}
    /\ UNCHANGED <<now, store, archive, files, count, rcvd>>

Next ==
    \/ \E p \in Key, t \in Tx : Begin(p, t) \/ BeginUnread(p, t)
    \/ Save \/ HandleRefused \/ Handle
    \/ \E t \in Tx : Send(t)
    \/ \E r \in Files : HandleAnswers(r)
    \/ Open \/ OpenUnread \/ Stamp \/ Add \/ Write
    \/ Tick \/ Crash

Spec == Init /\ [][Next]_vars
=============================================================================
