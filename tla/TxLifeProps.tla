---------------------------- MODULE TxLifeProps -----------------------------
(* What daemons may expect of the transactions they make for each other.    *)
EXTENDS TxLife

\* What a daemon makes is confirmed by every daemon it gets to, whatever is
\* turned round, stamped and signed on the way, and whenever it gets there:
\* only if it is too late for it, or too early by the clock there, or the
\* context it was made under is not the one kept there, is it refused, or a
\* wallet for its currency, which its maker is not asked about.
RefusedForCause ==
    \A r \in refused :
        \/ r.tx.op = "context" /\ r.at > r.tx.body.expire
        \/ r.tx.op = "session" /\ r.at > r.tx.rest.expire
        \/ r.tx.op = "wallet" /\ r.at < r.tx.rest.last
        \/ r.tx.op = "wallet" /\ r.tx.body.cur \notin Coin
        \/ r.tx.op = "eval" /\ ~ \E c \in r.held :
                                    c.body.name = r.tx.body.name /\ SignedUnder(r.tx, c)

\* The chain of transactions is complete for good: an evaluation that was
\* accepted from a peer can be verified with what the daemon has stored then
\* and ever after, contexts of the same name and restarts notwithstanding.
EvalsVerifiable ==
    \A d \in Daemon : \A e \in ledger[d] :
        e[1] # d /\ e[2].op = "eval" =>
            \E c \in Loaded(d, "context", e[2].body.name) : SignedUnder(e[2], c)

\* A clock goes out once and comes home once: without a time of receipt it is
\* on the way from the daemon that made it, with one on the way to it.
ClockHeadsHome ==
    \A l \in Line : \A i \in 1..Len(chan[l]) :
        chan[l][i].op = "clock" =>
            chan[l][i].peer = IF chan[l][i].rest.recv = Undefined THEN l[1] ELSE l[2]

\* Whoever asks a peer for its clock gets an answer, unless a daemon is
\* started again.
ClockSynced ==
    \A l \in Line :
        (\E i \in 1..Len(chan[l]) :
            chan[l][i].op = "clock" /\ chan[l][i].rest.recv = Undefined)
        ~> (l \in synced \/ count.restarts > 0)

\* Each turn of the main loop takes a frame of every client that has one.
FairSpec == Spec /\ \A l \in Line : WF_vars(Deliver(l))
=============================================================================
