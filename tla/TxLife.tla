------------------------------- MODULE TxLife -------------------------------
(* A transaction from the daemon that makes it to those that accept it:     *)
(* tx_init, tx_send, sched_tx_payload, tx_wrap, tx_confirm and tx_recv of   *)
(* bits/bits.c with the handlers of the operations they call.  The frames,  *)
(* the handshake and the ledger's files are other modules' subject; here    *)
(* connected daemons have a queue each way, and a hash is the value hashed. *)
EXTENDS Integers, Sequences, FiniteSets

CONSTANTS
    Daemon,
    Name,       \* names of contexts
    Data,       \* what a context holds, a trust refers to, a wallet is opened with
    Currency,   \* what wallets are for
    Coin,       \* COIN_USDE, COIN_EMC2, COIN_SHC: those a wallet is confirmed for
    Span,       \* how long a context or a session lasts
    MaxTime,    \* bound: clocks
    MaxMade,    \* bound: transactions made, by weight
    MaxSends,   \* bound: calls of tx_send by others than the handlers
    MaxRestarts \* bound: daemons started again

ASSUME TxLifeAssumption ==
    /\ Span \in Nat /\ MaxTime \in Nat \ {0}
    /\ MaxMade \in Nat /\ MaxSends \in Nat /\ MaxRestarts \in Nat

Time == 0..MaxTime + Span
Undefined == 0 \* SHTIME_UNDEFINED
Line == {l \in Daemon \X Daemon : l[1] # l[2]}
Back(l) == <<l[2], l[1]>>

-----------------------------------------------------------------------------
\* The operations; "event" stands for those without a condition of their own.
Op == {"context", "eval", "trust", "wallet", "session", "subscribe", "clock", "event"}

\* Of those, is_tx_stored.
StoredOp == {"context", "eval", "trust", "wallet", "event"}

\* Those with an op_wrap; the key of the last two covers fields it turns round.
WrapOp == {"context", "wallet", "subscribe"}

\* shkey_cert: a signature is all that it is made of, and so is a key.
Cert(key, who, stamp) == <<key, who, stamp>>

\* Mutant of Covered: an operation has no op_keylen, its op_size is taken.
CoveredAll(t) ==
    [op |-> t.op, stamp |-> t.stamp, peer |-> t.peer, body |-> t.body, rest |-> t.rest,
     turned |-> t.turned /\ t.op \in {"wallet", "subscribe"}]

\* txop_t.op_keylen: what the key of a transaction covers, and what comes after
\* it: signatures, the end of a session, stamps of a clock and of a wallet.
Covered(t) ==
    [op |-> t.op, stamp |-> t.stamp, peer |-> t.peer, body |-> t.body,
     turned |-> t.turned /\ t.op \in {"wallet", "subscribe"}]

\* tx_wrap, done twice, changes nothing.
Turned(t) == IF t.op \in WrapOp THEN [t EXCEPT !.turned = ~ @] ELSE t

\* get_tx_key: contexts go by their name.
StoreKey(t) == IF t.op = "context" THEN t.body.name ELSE t.key

VARIABLES
    clock,   \* shtime of each host
    made,    \* transactions each daemon has in hand
    chan,    \* frames on the way from l[1] to l[2]
    store,   \* files of sharedaemon_store.c: the transactions saved
    ledger,  \* what the ledgers hold: <<whom it is from, transaction>>
    synced,  \* <<d, e>>: the client e of d has its clock_stamp
    refused, \* what tx_confirm refused, when and with what stored (history)
    count    \* of transactions made, sends and restarts

vars == <<clock, made, chan, store, ledger, synced, refused, count>>

\* The fields of an operation that the key covers, and the others.
Body(op) ==
    CASE op = "context" -> [name : Name, data : Data, expire : Time]
      [] op = "eval"    -> [name : Name]
      [] op = "trust"   -> [data : Data]
      [] op = "wallet"  -> [cur : Currency, access : Data, birth : Time]
      [] op = "session" -> [uid : Daemon]
      [] op = "clock"   -> [to : Daemon]
      [] OTHER          -> [of : Daemon]

ContextSig == Data \X Daemon \X Time

Rest(op) ==
    CASE op = "context" -> [sig : ContextSig]
      [] op = "eval"    -> [sig : ContextSig \X {"ref"} \X Time]
      [] op = "trust"   -> [sig : ContextSig]
      [] op = "wallet"  -> [last : Time, sig : {"hex"} \X Data]
      [] op = "session" -> [expire : Time]
      [] op = "clock"   -> [send : Time, recv : Time]
      [] OTHER          -> [last : Time]

TxOf(op) ==
    [op : {op}, stamp : Time, peer : Daemon, body : Body(op), rest : Rest(op), turned : BOOLEAN,
     key : [op : {op}, stamp : Time, peer : Daemon, body : Body(op), turned : BOOLEAN]]

Tx == UNION {TxOf(op) : op \in Op}

TypeOK ==
    /\ clock \in [Daemon -> 1..MaxTime]
    /\ made \in [Daemon -> SUBSET Tx]
    /\ chan \in [Line -> Seq(Tx)]
    /\ store \in [Daemon -> SUBSET Tx]
    /\ ledger \in [Daemon -> SUBSET (Daemon \X Tx)]
    /\ synced \subseteq Line
    /\ refused \subseteq [by : Daemon, at : Time, tx : Tx, held : SUBSET Tx]
    /\ count \in [made : 0..MaxMade, sends : 0..MaxSends, restarts : 0..MaxRestarts]

Init ==
    /\ clock = [d \in Daemon |-> 1]
    /\ made = [d \in Daemon |-> {}]
    /\ chan = [l \in Line |-> <<>>]
    /\ store = [d \in Daemon |-> {}]
    /\ ledger = [d \in Daemon |-> {}]
    /\ synced = {}
    /\ refused = {}
    /\ count = [made |-> 0, sends |-> 0, restarts |-> 0]

Tick(d) ==
    /\ clock[d] < MaxTime
    /\ clock' = [clock EXCEPT ![d] = @ + 1]
    /\ UNCHANGED <<made, chan, store, ledger, synced, refused, count>>

-----------------------------------------------------------------------------
\* Mutant of Stamped: the stamp is that of the call, as in the version that is
\* not compiled.
StampedNow(signed, now) == now

\* local_transid_generate keeps the stamp that tx_sign has put in.
Stamped(signed, now) == IF signed = Undefined THEN now ELSE signed

\* Bound: contexts and evaluations of them count less, for there to be more of
\* them where there are no others.
Weight(op) == IF op \in {"context", "eval"} THEN 2 ELSE 3

\* tx_init of d: the handler has read the clock before, and has put in the
\* stamp it signed for, if any; the key is that of the result.
Make(d, op, signed, body, rest) ==
    LET t == [op |-> op, stamp |-> Stamped(signed, clock'[d]), peer |-> d,
              body |-> body, rest |-> rest, turned |-> FALSE]
    IN  /\ count.made + Weight(op) <= MaxMade
        /\ count' = [count EXCEPT !.made = @ + Weight(op)]
        /\ made' = [made EXCEPT ![d] = @ \union
                       {[op |-> op, stamp |-> t.stamp, peer |-> d, body |-> body,
                         rest |-> rest, turned |-> FALSE, key |-> Covered(t)]}]
        /\ UNCHANGED <<chan, store, ledger, synced, refused>>

\* Time may pass between two calls of shtime.
Passing(d) ==
    /\ clock' \in {clock, [clock EXCEPT ![d] = @ + 1]}
    /\ clock'[d] <= MaxTime

\* inittx_context, with txop_context_init: the issuer signs the data.
MakeContext(d) ==
    \E n \in Name, x \in Data, left \in 0..Span :
        /\ Passing(d)
        /\ Make(d, "context", clock[d],
                [name |-> n, data |-> x, expire |-> clock[d] + left],
                [sig |-> Cert(x, d, clock[d])])

\* inittx_eval, with txeval_context_sign: under a context d has issued or has.
MakeEval(d) ==
    \E c \in made[d] \union store[d] :
        /\ c.op = "context"
        /\ Passing(d)
        /\ Make(d, "eval", clock[d], [name |-> c.body.name],
                [sig |-> Cert(c.rest.sig, "ref", clock[d])])

\* inittx_trust, with txop_trust_init.
MakeTrust(d) ==
    \E x \in Data :
        /\ Passing(d)
        /\ Make(d, "trust", clock[d], [data |-> x], [sig |-> Cert(x, d, clock[d])])

\* shkey_hexgen: the signature of a wallet is made of its access key.
Hexgen(access) == <<"hex", access>>

\* inittx_wallet, with txop_wallet_init: nothing is asked of the currency.
MakeWallet(d) ==
    \E cur \in Currency, access \in Data :
        /\ Passing(d)
        /\ Make(d, "wallet", Undefined,
                [cur |-> cur, access |-> access, birth |-> clock[d]],
                [last |-> clock'[d], sig |-> Hexgen(access)])

\* Mutant of SessionEnd: the span is added to what has it already.
SessionEndLate(given, now) == IF given = Undefined THEN now + Span ELSE given + Span

\* A session without an end is given one.
SessionEnd(given, now) == IF given = Undefined THEN now + Span ELSE given

\* inittx_session, with txop_session_init; alloc_session_peer gives an end.
MakeSession(d) ==
    \E given \in {Undefined, clock[d] + Span} :
        /\ Passing(d)
        /\ Make(d, "session", Undefined, [uid |-> d], [expire |-> SessionEnd(given, clock[d])])

\* inittx_clock, with txop_clock_init, for a client d has.
MakeClock(d, e) ==
    /\ Passing(d)
    /\ Make(d, "clock", Undefined, [to |-> e], [send |-> clock[d], recv |-> Undefined])

\* inittx_subscribe, inittx_event and others without a handler of weight.
MakeOther(d) ==
    \E op \in {"subscribe", "event"} :
        /\ Passing(d)
        /\ Make(d, op, Undefined, [of |-> d], [last |-> Undefined])

-----------------------------------------------------------------------------
\* sched_tx_payload.
OnWire(t) == Turned(t)

\* is_tx_stored, in tx_send and tx_recv.
Ledgered(d, peer, t) ==
    [ledger EXCEPT ![d] = IF t.op \in StoredOp THEN @ \union {<<peer, t>>} ELSE @]

\* tx_send with no peer, to all that are connected.  Contexts are only sent so
\* (txop_context_send).
Broadcast(d) ==
    \E t \in made[d] :
        /\ t.op # "clock"
        /\ count.sends < MaxSends
        /\ count' = [count EXCEPT !.sends = @ + 1]
        /\ ledger' = Ledgered(d, d, t)
        /\ chan' = [l \in Line |-> IF l[1] = d THEN Append(chan[l], OnWire(t)) ELSE chan[l]]
        /\ UNCHANGED <<clock, made, store, synced, refused>>

\* tx_send to a peer; a clock is sent to the peer it was made for.
SendTo(l) ==
    \E t \in made[l[1]] :
        /\ t.op # "context"
        /\ t.op = "clock" => t.body.to = l[2]
        /\ count.sends < MaxSends
        /\ count' = [count EXCEPT !.sends = @ + 1]
        /\ ledger' = Ledgered(l[1], l[1], t)
        /\ chan' = [chan EXCEPT ![l] = Append(@, OnWire(t))]
        /\ UNCHANGED <<clock, made, store, synced, refused>>

-----------------------------------------------------------------------------
\* tx_load: the transaction saved under a key, if there is one.
Loaded(d, op, key) == {s \in store[d] : s.op = op /\ StoreKey(s) = key}

\* txeval_context_confirm: the signature is one for this context.
SignedUnder(t, c) == t.rest.sig = Cert(c.rest.sig, "ref", t.stamp)

\* tx_sign_confirm: what is signed is the data, by the peer, for the stamp.
SignConfirm(t) == t.rest.sig = Cert(t.body.data, t.peer, t.stamp)

\* txop_context_confirm
ContextConfirm(d, t) == clock[d] <= t.body.expire /\ SignConfirm(t)

\* txop_eval_confirm: without the context the chain is incomplete.
EvalConfirm(d, t) == \E c \in Loaded(d, "context", t.body.name) : SignedUnder(t, c)

\* txop_wallet_confirm: the currency, the three times, the signature.
WalletConfirm(d, t) ==
    /\ t.body.cur \in Coin
    /\ t.body.birth <= clock[d] /\ t.rest.last <= clock[d]
    /\ t.body.birth <= t.rest.last
    /\ t.rest.sig = Hexgen(t.body.access)

\* txop_session_confirm
SessionConfirm(d, t) == clock[d] <= t.rest.expire

\* txop_clock_confirm
ClockConfirm(t) == t.rest.send # Undefined

\* op_conf, by the clock and the files of d.
Conf(d, t) ==
    CASE t.op = "context" -> ContextConfirm(d, t)
      [] t.op = "eval"    -> EvalConfirm(d, t)
      [] t.op = "trust"   -> SignConfirm(t)
      [] t.op = "wallet"  -> WalletConfirm(d, t)
      [] t.op = "session" -> SessionConfirm(d, t)
      [] t.op = "clock"   -> ClockConfirm(t)
      [] OTHER            -> TRUE

\* tx_confirm: the key, over the fields in this host's order, and op_conf.
Confirmed(d, t) == t.key = Covered(t) /\ Conf(d, t)

\* Mutant of Saved: the files are written over.
SavedOver(d, t) ==
    IF t.op \in StoredOp THEN (store[d] \ Loaded(d, t.op, StoreKey(t))) \union {t}
                         ELSE store[d]

\* tx_load and tx_save in tx_recv: the first one saved under a key stays.
Saved(d, t) ==
    IF t.op \in StoredOp /\ Loaded(d, t.op, StoreKey(t)) = {}
    THEN store[d] \union {t} ELSE store[d]

\* cycle_client_request, on the first frame from l[1] to d = l[2].
Received(l) == Turned(Head(chan[l]))

\* Refused: the frame is dropped, the sender hears nothing.
Refuse(l) ==
    LET t == Received(l)
    IN  /\ chan[l] # <<>> /\ ~ Confirmed(l[2], t)
        /\ chan' = [chan EXCEPT ![l] = Tail(@)]
        /\ refused' = refused \union
              {[by |-> l[2], at |-> clock[l[2]], tx |-> t,
                held |-> {c \in store[l[2]] : c.op = "context"}]}
        /\ UNCHANGED <<clock, made, store, ledger, synced, count>>

\* tx_recv of all operations but the clock's.
Accept(l) ==
    LET t == Received(l)
    IN  /\ chan[l] # <<>> /\ Confirmed(l[2], t)
        /\ t.op # "clock"
        /\ chan' = [chan EXCEPT ![l] = Tail(@)]
        /\ store' = [store EXCEPT ![l[2]] = Saved(l[2], t)]
        /\ ledger' = Ledgered(l[2], l[1], t)
        /\ UNCHANGED <<clock, made, synced, refused, count>>

\* Mutant of Answer: the time of receipt is not put in.
AnswerBlank(d, t) == t

\* txop_clock_recv: the time of receipt is put in the transaction received.
Answer(d, t) == [t EXCEPT !.rest.recv = clock[d]]

\* ... which is sent back to where it came from;
ClockAsked(l) ==
    LET t == Received(l)
        rest == [chan EXCEPT ![l] = Tail(@)]
    IN  /\ chan[l] # <<>> /\ Confirmed(l[2], t)
        /\ t.op = "clock" /\ t.rest.recv = Undefined
        /\ chan' = [rest EXCEPT ![Back(l)] = Append(@, OnWire(Answer(l[2], t)))]
        /\ UNCHANGED <<clock, made, store, ledger, synced, refused, count>>

\* ... and ends there (txclock_recv_sync).
ClockAnswered(l) ==
    LET t == Received(l)
    IN  /\ chan[l] # <<>> /\ Confirmed(l[2], t)
        /\ t.op = "clock" /\ t.rest.recv # Undefined
        /\ chan' = [chan EXCEPT ![l] = Tail(@)]
        /\ synced' = synced \union {Back(l)}
        /\ UNCHANGED <<clock, made, store, ledger, refused, count>>

Deliver(l) == Refuse(l) \/ Accept(l) \/ ClockAsked(l) \/ ClockAnswered(l)

\* A daemon is started again: files and ledgers stay.
Restart(d) ==
    /\ count.restarts < MaxRestarts
    /\ count' = [count EXCEPT !.restarts = @ + 1]
    /\ made' = [made EXCEPT ![d] = {}]
    /\ chan' = [l \in Line |-> IF d \in {l[1], l[2]} THEN <<>> ELSE chan[l]]
    /\ synced' = {l \in synced : d \notin {l[1], l[2]}}
    /\ UNCHANGED <<clock, store, ledger, refused>>

Next ==
    \/ \E d \in Daemon :
          \/ Tick(d) \/ Restart(d) \/ Broadcast(d)
          \/ MakeContext(d) \/ MakeEval(d) \/ MakeTrust(d) \/ MakeWallet(d)
          \/ MakeSession(d) \/ MakeOther(d)
    \/ \E l \in Line : MakeClock(l[1], l[2]) \/ SendTo(l) \/ Deliver(l)

Spec == Init /\ [][Next]_vars
=============================================================================
