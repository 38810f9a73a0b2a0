--------------------------- MODULE TxLedgerProps ---------------------------
(* What the store and the ledgers of a daemon guarantee over failures,      *)
(* restarts and the turn of the hour.                                       *)
EXTENDS TxLedger

Txs(f) == files[f].txs

\* The ledgers of a key, read hour by hour (as the loop of init.c:131 is meant
\* to), have its transactions in the order they were accepted, each entry
\* once, although the hour may turn between any two steps, and writes and
\* reads may fail.
LedgerOrder ==
    \A f, g \in DOMAIN files :
        f[1] = g[1] =>
            \A i \in DOMAIN Txs(f), j \in DOMAIN Txs(g) :
                (f[2] < g[2] \/ (f = g /\ i < j)) => Txs(f)[i].n < Txs(g)[j].n

\* As long as nothing fails, every transaction that was accepted or sent and
\* is no longer being processed has an entry in some ledger.
LedgerComplete ==
    lost = {} =>
        \A n \in 1..count - Len(adds) :
            \E f \in DOMAIN files : \E i \in DOMAIN Txs(f) : Txs(f)[i].n = n

\* A received transaction that is in a ledger is in the store, unless a write
\* failed: a ledger has no more than its header (sizeof(tx_t)), and the rest of
\* it is in the store alone.  That is so in every ledger, also in the daemon's
\* own, where it stands among transactions that were sent and never stored, and
\* over restarts between the steps that save, handle and record it.
LedgerInStore ==
    "write" \notin lost =>
        \A f \in DOMAIN files : \A i \in DOMAIN Txs(f) :
            Txs(f)[i].n \in rcvd => StoreKey(Txs(f)[i].tx) \in DOMAIN store

\* A ledger on disk only grows: entries stay where they are, unless reading
\* has failed and the ledger was begun anew.
LedgerGrows ==
    [][\A f \in DOMAIN files :
          "read" \notin lost =>
             /\ f \in DOMAIN files'
             /\ \A i \in DOMAIN Txs(f) :
                   i \in DOMAIN files'[f].txs /\ files'[f].txs[i] = Txs(f)[i]]_vars

\* What is in the store is never replaced by another transaction, unless
\* reading has failed: the first transaction on a file is the one that stays.
StoreKept ==
    [][\A k \in DOMAIN store :
          "read" \notin lost => k \in DOMAIN store' /\ store'[k] = store[k]]_vars

-----------------------------------------------------------------------------
\* What the ledgers of a key have, whatever the hour.
LogOf(k) ==
    UNION {{Txs(f)[i] : i \in DOMAIN Txs(f)} : f \in {g \in DOMAIN files : g[1] = k}}

Log == INSTANCE KeyLog WITH log <- [k \in Key |-> LogOf(k)], pend <- adds

\* The hourly files of a key together are one log: every entry that is made is
\* recorded in its turn, exactly when its file is written, or lost to a
\* failure; files that are read, begun anew or replaced never lose an entry of
\* a log, unless reading failed, and then only entries at its end.
ImplementsLog == Log!Spec
=============================================================================
