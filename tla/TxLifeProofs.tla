---------------------------- MODULE TxLifeProofs ----------------------------
(* Proofs about TxLife, for any daemons, names and bounds.                  *)
EXTENDS TxLifeProps, TLAPS

-----------------------------------------------------------------------------
(* Types.                                                                   *)

\* A transaction is one of its operation.
LEMMA TxTyped ==
    ASSUME NEW t \in Tx
    PROVE  t.op \in Op /\ t \in TxOf(t.op)
<1>1. PICK op \in Op : t \in TxOf(op)
  BY DEF Tx
<1>2. t.op = op
  BY <1>1 DEF TxOf
<1> QED BY <1>1, <1>2

LEMMA TxMember ==
    ASSUME NEW op \in Op, NEW t \in TxOf(op)
    PROVE  t \in Tx
BY DEF Tx

\* Turning the fields of a transaction round keeps it one.
LEMMA TurnedType ==
    ASSUME NEW t \in Tx
    PROVE  /\ Turned(t) \in Tx
           /\ Turned(t).op = t.op /\ Turned(t).peer = t.peer
           /\ Turned(t).rest = t.rest /\ Turned(t).body = t.body
<1>1. t.op \in Op /\ t \in TxOf(t.op)
  BY TxTyped
<1>2. [t EXCEPT !.turned = ~ @] \in TxOf(t.op)
  BY <1>1 DEF TxOf
<1>3. [t EXCEPT !.turned = ~ @] \in Tx
  BY <1>1, <1>2, TxMember
<1> QED BY <1>1, <1>3 DEF Turned, TxOf

\* What tx_init makes is a transaction, if what it is made of is of the kind.
LEMMA MakeType ==
    ASSUME TypeOK, NEW d \in Daemon, NEW op \in Op, NEW signed \in Time,
           NEW body \in Body(op), NEW rest \in Rest(op),
           clock' \in [Daemon -> 1..MaxTime], Make(d, op, signed, body, rest)
    PROVE  TypeOK'
<1> USE TxLifeAssumption
<1> DEFINE stamp == Stamped(signed, clock'[d])
           t == [op |-> op, stamp |-> stamp, peer |-> d, body |-> body,
                 rest |-> rest, turned |-> FALSE]
           new == [op |-> op, stamp |-> stamp, peer |-> d, body |-> body,
                   rest |-> rest, turned |-> FALSE, key |-> Covered(t)]
<1>1. stamp \in Time
  BY DEF Stamped, Time
<1>2. Covered(t) \in [op : {op}, stamp : Time, peer : Daemon, body : Body(op), turned : BOOLEAN]
  BY <1>1 DEF Covered
<1>3. new \in Tx
  <2>1. new \in TxOf(op)
    BY <1>1, <1>2 DEF TxOf
  <2> QED BY <2>1, TxMember
<1>4. made' = [made EXCEPT ![d] = @ \union {new}]
  BY <1>1 DEF Make
<1>5. made' \in [Daemon -> SUBSET Tx]
  BY <1>3, <1>4 DEF TypeOK
<1>6. count' \in [made : 0..MaxMade, sends : 0..MaxSends, restarts : 0..MaxRestarts]
  <2>1. /\ count.made + Weight(op) <= MaxMade
        /\ count' = [count EXCEPT !.made = @ + Weight(op)]
    BY DEF Make
  <2>2. Weight(op) \in Nat
    BY DEF Weight
  <2>3. count \in [made : 0..MaxMade, sends : 0..MaxSends, restarts : 0..MaxRestarts]
    BY DEF TypeOK
  <2>4. count.made + Weight(op) \in 0..MaxMade
    BY <2>1, <2>2, <2>3
  <2> QED BY <2>1, <2>3, <2>4
<1>7. UNCHANGED <<chan, store, ledger, synced, refused>>
  BY DEF Make
<1> QED BY <1>5, <1>6, <1>7 DEF TypeOK

\* Time that passes within an action stays within its bound.
LEMMA PassingType ==
    ASSUME TypeOK, NEW d \in Daemon, Passing(d)
    PROVE  /\ clock' \in [Daemon -> 1..MaxTime]
           /\ clock[d] \in Time /\ clock[d] # Undefined
           /\ clock'[d] \in Time
<1>1. clock \in [Daemon -> 1..MaxTime]
  BY DEF TypeOK
<1>2. clock[d] \in 1..MaxTime
  BY <1>1
<1>3. clock' \in [Daemon -> 1..MaxTime]
  <2>1. CASE clock' = clock
    BY <1>1, <2>1
  <2>2. CASE clock' = [clock EXCEPT ![d] = @ + 1]
    <3>1. clock[d] + 1 \in 1..MaxTime
      BY <1>1, <1>2, <2>2, TxLifeAssumption DEF Passing
    <3> QED BY <1>1, <2>2, <3>1
  <2> QED BY <2>1, <2>2 DEF Passing
<1>4. clock'[d] \in 1..MaxTime
  BY <1>3
<1> QED BY <1>2, <1>3, <1>4, TxLifeAssumption DEF Time, Undefined

\* The transactions of made, in the queues and in the stores are ones.
LEMMA HeldType ==
    ASSUME TypeOK
    PROVE  /\ \A d \in Daemon : \A t \in made[d] \union store[d] : t \in Tx
           /\ \A l \in Line : chan[l] # <<>> => Received(l) \in Tx
<1>1. ASSUME NEW l \in Line, chan[l] # <<>>
      PROVE  Received(l) \in Tx
  <2>1. chan[l] \in Seq(Tx)
    BY DEF TypeOK
  <2>2. Head(chan[l]) \in Tx
    BY <2>1, <1>1
  <2> QED BY <2>2, TurnedType DEF Received
<1> QED BY <1>1 DEF TypeOK

\* What it takes to send: turned round, a transaction stays one.
LEMMA AppendType ==
    ASSUME NEW q \in Seq(Tx), NEW t \in Tx
    PROVE  Append(q, OnWire(t)) \in Seq(Tx)
BY TurnedType DEF OnWire

\* Each ledger gets at most a transaction more.
LEMMA LedgeredType ==
    ASSUME TypeOK, NEW d \in Daemon, NEW p \in Daemon, NEW t \in Tx
    PROVE  Ledgered(d, p, t) \in [Daemon -> SUBSET (Daemon \X Tx)]
BY DEF Ledgered, TypeOK

\* The first frame of a queue is taken.
LEMMA TailType ==
    ASSUME TypeOK, NEW l \in Line, chan[l] # <<>>
    PROVE  /\ [chan EXCEPT ![l] = Tail(@)] \in [Line -> Seq(Tx)]
           /\ Received(l) \in Tx
           /\ l[1] \in Daemon /\ l[2] \in Daemon
<1>1. chan[l] \in Seq(Tx)
  BY DEF TypeOK
<1>2. Tail(chan[l]) \in Seq(Tx)
  BY <1>1
<1> QED BY <1>2, HeldType DEF TypeOK, Line

\* Making a transaction of any operation keeps the types.
LEMMA MakesType ==
    ASSUME TypeOK, NEW d \in Daemon,
           \/ MakeContext(d) \/ MakeEval(d) \/ MakeTrust(d) \/ MakeWallet(d)
           \/ MakeSession(d) \/ MakeOther(d) \/ \E e \in Daemon : MakeClock(d, e)
    PROVE  TypeOK'
<1> USE TxLifeAssumption
<1>1. CASE MakeContext(d)
  <2>1. PICK n \in Name, x \in Data, left \in 0..Span :
           /\ Passing(d)
           /\ Make(d, "context", clock[d],
                   [name |-> n, data |-> x, expire |-> clock[d] + left],
                   [sig |-> Cert(x, d, clock[d])])
    BY <1>1 DEF MakeContext
  <2>2. clock[d] \in Time /\ clock[d] + left \in Time
    BY <2>1 DEF TypeOK, Time
  <2>3. Cert(x, d, clock[d]) \in ContextSig
    BY <2>2 DEF Cert, ContextSig
  <2>4. [name |-> n, data |-> x, expire |-> clock[d] + left] \in Body("context")
    BY <2>2 DEF Body
  <2>5. [sig |-> Cert(x, d, clock[d])] \in Rest("context")
    BY <2>3 DEF Rest
  <2> QED BY <2>1, <2>2, <2>4, <2>5, PassingType, MakeType DEF Op
<1>2. CASE MakeEval(d)
  <2>1. PICK c \in made[d] \union store[d] :
           /\ c.op = "context"
           /\ Passing(d)
           /\ Make(d, "eval", clock[d], [name |-> c.body.name],
                   [sig |-> Cert(c.rest.sig, "ref", clock[d])])
    BY <1>2 DEF MakeEval
  <2>2. c \in TxOf("context")
    BY <2>1, HeldType, TxTyped
  <2>3. c.body \in Body("context") /\ c.rest \in Rest("context")
    BY <2>2 DEF TxOf
  <2>4. c.body.name \in Name /\ c.rest.sig \in ContextSig
    BY <2>3 DEF Body, Rest
  <2>5. [name |-> c.body.name] \in Body("eval")
    BY <2>4 DEF Body
  <2>6. clock[d] \in Time
    BY <2>1, PassingType
  <2>7. [sig |-> Cert(c.rest.sig, "ref", clock[d])] \in Rest("eval")
    BY <2>4, <2>6 DEF Rest, Cert
  <2> QED BY <2>1, <2>5, <2>6, <2>7, PassingType, MakeType DEF Op
<1>3. CASE MakeTrust(d)
  <2>1. PICK x \in Data :
           /\ Passing(d)
           /\ Make(d, "trust", clock[d], [data |-> x], [sig |-> Cert(x, d, clock[d])])
    BY <1>3 DEF MakeTrust
  <2>2. [data |-> x] \in Body("trust") /\ [sig |-> Cert(x, d, clock[d])] \in Rest("trust")
    BY <2>1, PassingType DEF Body, Rest, Cert, ContextSig
  <2> QED BY <2>1, <2>2, PassingType, MakeType DEF Op
<1>4. CASE MakeWallet(d)
  <2>1. PICK cur \in Currency, access \in Data :
           /\ Passing(d)
           /\ Make(d, "wallet", Undefined,
                   [cur |-> cur, access |-> access, birth |-> clock[d]],
                   [last |-> clock'[d], sig |-> Hexgen(access)])
    BY <1>4 DEF MakeWallet
  <2>2. clock[d] \in Time /\ clock'[d] \in Time /\ Undefined \in Time
    BY <2>1, PassingType DEF Undefined, Time
  <2>3. [cur |-> cur, access |-> access, birth |-> clock[d]] \in Body("wallet")
    BY <2>2 DEF Body
  <2>4. [last |-> clock'[d], sig |-> Hexgen(access)] \in Rest("wallet")
    BY <2>2 DEF Rest, Hexgen
  <2> QED BY <2>1, <2>2, <2>3, <2>4, PassingType, MakeType DEF Op
<1>5. CASE MakeSession(d)
  <2>1. PICK given \in {Undefined, clock[d] + Span} :
           /\ Passing(d)
           /\ Make(d, "session", Undefined, [uid |-> d], [expire |-> SessionEnd(given, clock[d])])
    BY <1>5 DEF MakeSession
  <2>2. clock[d] \in 1..MaxTime
    BY DEF TypeOK
  <2>3. SessionEnd(given, clock[d]) \in Time /\ Undefined \in Time
    BY <2>1, <2>2 DEF SessionEnd, Time, Undefined
  <2>4. [uid |-> d] \in Body("session") /\ [expire |-> SessionEnd(given, clock[d])] \in Rest("session")
    BY <2>3 DEF Body, Rest
  <2> QED BY <2>1, <2>3, <2>4, PassingType, MakeType DEF Op
<1>6. CASE MakeOther(d)
  <2>1. PICK op \in {"subscribe", "event"} :
           /\ Passing(d)
           /\ Make(d, op, Undefined, [of |-> d], [last |-> Undefined])
    BY <1>6 DEF MakeOther
  <2>2. Undefined \in Time /\ op \in Op
    BY DEF Undefined, Time, Op
  <2>3. [of |-> d] \in Body(op) /\ [last |-> Undefined] \in Rest(op)
    BY <2>2 DEF Body, Rest
  <2> QED BY <2>1, <2>2, <2>3, PassingType, MakeType
<1>7. ASSUME NEW e \in Daemon, MakeClock(d, e)
      PROVE  TypeOK'
  <2>1. Undefined \in Time /\ clock[d] \in Time
    BY <1>7, PassingType DEF MakeClock, Undefined, Time
  <2>2. [to |-> e] \in Body("clock") /\ [send |-> clock[d], recv |-> Undefined] \in Rest("clock")
    BY <2>1 DEF Body, Rest
  <2> QED BY <1>7, <2>1, <2>2, PassingType, MakeType DEF MakeClock, Op
<1> QED BY <1>1, <1>2, <1>3, <1>4, <1>5, <1>6, <1>7
\* Sending a transaction that a daemon has in hand keeps the types.
LEMMA SendsType ==
    ASSUME TypeOK, \/ \E d \in Daemon : Broadcast(d)
                   \/ \E l \in Line : SendTo(l)
    PROVE  TypeOK'
<1> USE TxLifeAssumption
<1>1. ASSUME NEW d \in Daemon, Broadcast(d)
      PROVE  TypeOK'
  <2>1. PICK t \in made[d] :
           /\ count.sends < MaxSends
           /\ count' = [count EXCEPT !.sends = @ + 1]
           /\ ledger' = Ledgered(d, d, t)
           /\ chan' = [l \in Line |-> IF l[1] = d THEN Append(chan[l], OnWire(t)) ELSE chan[l]]
           /\ UNCHANGED <<clock, made, store, synced, refused>>
    BY <1>1 DEF Broadcast
  <2>2. t \in Tx
    BY <2>1, HeldType
  <2>3. ASSUME NEW l \in Line
        PROVE  (IF l[1] = d THEN Append(chan[l], OnWire(t)) ELSE chan[l]) \in Seq(Tx)
    <3>1. chan[l] \in Seq(Tx)
      BY DEF TypeOK
    <3> QED BY <2>2, <3>1, AppendType
  <2>4. chan' \in [Line -> Seq(Tx)]
    BY <2>1, <2>3
  <2>5. ledger' \in [Daemon -> SUBSET (Daemon \X Tx)]
    BY <2>1, <2>2, LedgeredType
  <2>6. count' \in [made : 0..MaxMade, sends : 0..MaxSends, restarts : 0..MaxRestarts]
    <3>1. count \in [made : 0..MaxMade, sends : 0..MaxSends, restarts : 0..MaxRestarts]
      BY DEF TypeOK
    <3>2. count.sends + 1 \in 0..MaxSends
      BY <2>1, <3>1
    <3> QED BY <2>1, <3>1, <3>2
  <2> QED BY <2>1, <2>4, <2>5, <2>6 DEF TypeOK
<1>2. ASSUME NEW l \in Line, SendTo(l)
      PROVE  TypeOK'
  <2>1. l[1] \in Daemon
    BY DEF Line
  <2>2. PICK t \in made[l[1]] :
           /\ count.sends < MaxSends
           /\ count' = [count EXCEPT !.sends = @ + 1]
           /\ ledger' = Ledgered(l[1], l[1], t)
           /\ chan' = [chan EXCEPT ![l] = Append(@, OnWire(t))]
           /\ UNCHANGED <<clock, made, store, synced, refused>>
    BY <1>2 DEF SendTo
  <2>3. t \in Tx
    BY <2>1, <2>2, HeldType
  <2>4. chan[l] \in Seq(Tx)
    BY DEF TypeOK
  <2>5. Append(chan[l], OnWire(t)) \in Seq(Tx)
    BY <2>3, <2>4, AppendType
  <2>6. chan' \in [Line -> Seq(Tx)]
    BY <2>2, <2>5 DEF TypeOK
  <2>7. ledger' \in [Daemon -> SUBSET (Daemon \X Tx)]
    BY <2>1, <2>2, <2>3, LedgeredType
  <2>8. count' \in [made : 0..MaxMade, sends : 0..MaxSends, restarts : 0..MaxRestarts]
    <3>1. count \in [made : 0..MaxMade, sends : 0..MaxSends, restarts : 0..MaxRestarts]
      BY DEF TypeOK
    <3>2. count.sends + 1 \in 0..MaxSends
      BY <2>2, <3>1
    <3> QED BY <2>2, <3>1, <3>2
  <2> QED BY <2>2, <2>6, <2>7, <2>8 DEF TypeOK
<1> QED BY <1>1, <1>2

\* The time of receipt makes a clock a clock.
LEMMA AnswerType ==
    ASSUME TypeOK, NEW d \in Daemon, NEW t \in Tx, t.op = "clock"
    PROVE  /\ Answer(d, t) \in Tx
           /\ Answer(d, t).op = "clock" /\ Answer(d, t).peer = t.peer
           /\ Answer(d, t).rest.recv # Undefined
<1>1. t \in TxOf("clock")
  BY TxTyped
<1>2. t.rest \in [send : Time, recv : Time]
  BY <1>1 DEF TxOf, Rest
<1>3. clock[d] \in Time /\ clock[d] # Undefined
  BY TxLifeAssumption DEF TypeOK, Time, Undefined
<1>4. [t.rest EXCEPT !.recv = clock[d]] \in [send : Time, recv : Time]
  BY <1>2, <1>3
<1>5. Answer(d, t) = [t EXCEPT !.rest = [t.rest EXCEPT !.recv = clock[d]]]
  BY DEF Answer
<1>6. Answer(d, t) \in TxOf("clock")
  BY <1>1, <1>4, <1>5 DEF TxOf, Rest
<1>7. Answer(d, t).op = t.op /\ Answer(d, t).peer = t.peer
  BY <1>1, <1>5 DEF TxOf
<1>8. Answer(d, t).rest.recv = clock[d]
  BY <1>1, <1>2, <1>5 DEF TxOf
<1> QED BY <1>3, <1>6, <1>7, <1>8, TxMember DEF Op

\* Receiving a frame keeps the types.
LEMMA DeliverType ==
    ASSUME TypeOK, NEW l \in Line, Deliver(l)
    PROVE  TypeOK'
<1> DEFINE t == Received(l)
           rest == [chan EXCEPT ![l] = Tail(@)]
<1>1. chan[l] # <<>>
  BY DEF Deliver, Refuse, Accept, ClockAsked, ClockAnswered
<1>2. /\ rest \in [Line -> Seq(Tx)]
      /\ t \in Tx
      /\ l[1] \in Daemon /\ l[2] \in Daemon
  BY <1>1, TailType
<1>3. CASE Refuse(l)
  <2>1. /\ chan' = rest
        /\ refused' = refused \union
              {[by |-> l[2], at |-> clock[l[2]], tx |-> t,
                held |-> {c \in store[l[2]] : c.op = "context"}]}
        /\ UNCHANGED <<clock, made, store, ledger, synced, count>>
    BY <1>3 DEF Refuse
  <2>2. clock[l[2]] \in Time
    BY <1>2, TxLifeAssumption DEF TypeOK, Time
  <2>3. {c \in store[l[2]] : c.op = "context"} \in SUBSET Tx
    BY <1>2 DEF TypeOK
  <2>4. refused' \subseteq [by : Daemon, at : Time, tx : Tx, held : SUBSET Tx]
    BY <1>2, <2>1, <2>2, <2>3 DEF TypeOK
  <2> QED BY <1>2, <2>1, <2>4 DEF TypeOK
<1>4. CASE Accept(l)
  <2>1. /\ chan' = rest
        /\ store' = [store EXCEPT ![l[2]] = Saved(l[2], t)]
        /\ ledger' = Ledgered(l[2], l[1], t)
        /\ UNCHANGED <<clock, made, synced, refused, count>>
    BY <1>4 DEF Accept
  <2>2. Saved(l[2], t) \in SUBSET Tx
    BY <1>2 DEF Saved, TypeOK
  <2>3. store' \in [Daemon -> SUBSET Tx]
    BY <2>1, <2>2 DEF TypeOK
  <2>4. ledger' \in [Daemon -> SUBSET (Daemon \X Tx)]
    BY <1>2, <2>1, LedgeredType
  <2> QED BY <1>2, <2>1, <2>3, <2>4 DEF TypeOK
<1>5. CASE ClockAsked(l)
  <2>1. /\ t.op = "clock"
        /\ chan' = [rest EXCEPT ![Back(l)] = Append(@, OnWire(Answer(l[2], t)))]
        /\ UNCHANGED <<clock, made, store, ledger, synced, refused, count>>
    BY <1>5 DEF ClockAsked
  <2>3. Back(l) \in Line
    BY DEF Line, Back
  <2>4. rest[Back(l)] \in Seq(Tx)
    BY <1>2, <2>3
  <2>5. Append(rest[Back(l)], OnWire(Answer(l[2], t))) \in Seq(Tx)
    BY <1>2, <2>1, <2>4, AnswerType, AppendType
  <2> HIDE DEF rest
  <2>6. chan' \in [Line -> Seq(Tx)]
    BY <1>2, <2>1, <2>5
  <2> QED BY <2>1, <2>6 DEF TypeOK
<1>6. CASE ClockAnswered(l)
  <2>1. /\ chan' = rest
        /\ synced' = synced \union {Back(l)}
        /\ UNCHANGED <<clock, made, store, ledger, refused, count>>
    BY <1>6 DEF ClockAnswered
  <2>2. Back(l) \in Line
    BY DEF Line, Back
  <2> QED BY <1>2, <2>1, <2>2 DEF TypeOK
<1> QED BY <1>3, <1>4, <1>5, <1>6 DEF Deliver

\* A start keeps the types.
LEMMA RestartType ==
    ASSUME TypeOK, NEW d \in Daemon, Restart(d)
    PROVE  TypeOK'
<1>1. made' \in [Daemon -> SUBSET Tx]
  BY DEF TypeOK, Restart
<1>2. <<>> \in Seq(Tx)
  OBVIOUS
<1>3. chan' \in [Line -> Seq(Tx)]
  BY <1>2 DEF TypeOK, Restart
<1>4. count' \in [made : 0..MaxMade, sends : 0..MaxSends, restarts : 0..MaxRestarts]
  <2>1. count \in [made : 0..MaxMade, sends : 0..MaxSends, restarts : 0..MaxRestarts]
    BY DEF TypeOK
  <2> QED BY <2>1, TxLifeAssumption DEF Restart
<1> QED BY <1>1, <1>3, <1>4 DEF TypeOK, Restart

\* Every step keeps the types.
LEMMA StepType ==
    ASSUME TypeOK, [Next]_vars
    PROVE  TypeOK'
<1>1. CASE \E d \in Daemon : Tick(d)
  BY <1>1, TxLifeAssumption DEF TypeOK, Tick
<1>2. CASE \E d \in Daemon : Restart(d)
  BY <1>2, RestartType
<1>3. CASE \E d \in Daemon : Broadcast(d)
  BY <1>3, SendsType
<1>4. CASE \E l \in Line : SendTo(l)
  BY <1>4, SendsType
<1>5. CASE \E d \in Daemon : \/ MakeContext(d) \/ MakeEval(d) \/ MakeTrust(d) \/ MakeWallet(d)
                              \/ MakeSession(d) \/ MakeOther(d)
  BY <1>5, MakesType
<1>6. CASE \E l \in Line : MakeClock(l[1], l[2])
  BY <1>6, MakesType DEF Line
<1>7. CASE \E l \in Line : Deliver(l)
  BY <1>7, DeliverType
<1>8. CASE UNCHANGED vars
  BY <1>8 DEF TypeOK, vars
<1> QED BY <1>1, <1>2, <1>3, <1>4, <1>5, <1>6, <1>7, <1>8 DEF Next

LEMMA InitType == Init => TypeOK
<1> SUFFICES ASSUME Init PROVE TypeOK
  OBVIOUS
<1>1. <<>> \in Seq(Tx)
  OBVIOUS
<1>2. 1 \in 1..MaxTime
  BY TxLifeAssumption
<1>3. count \in [made : 0..MaxMade, sends : 0..MaxSends, restarts : 0..MaxRestarts]
  BY TxLifeAssumption DEF Init
<1> QED BY <1>1, <1>2, <1>3 DEF Init, TypeOK

\* Clocks, queues, files and ledgers hold what they should, whatever is made,
\* sent and received in whichever order.
THEOREM TxLifeTypeCorrect == Spec => []TypeOK
BY InitType, StepType, PTL DEF Spec

-----------------------------------------------------------------------------
(* Evaluations stay verifiable: what is in the ledger of a peer was         *)
(* confirmed against a file, and files are never written over.              *)

\* Making transactions changes no file and no ledger, nor what is on the way.
LEMMA MakesKeep ==
    ASSUME NEW d \in Daemon,
           \/ MakeContext(d) \/ MakeEval(d) \/ MakeTrust(d) \/ MakeWallet(d)
           \/ MakeSession(d) \/ MakeOther(d) \/ \E e \in Daemon : MakeClock(d, e)
    PROVE  UNCHANGED <<store, ledger, chan>>
<1>1. ASSUME NEW op, NEW signed, NEW body, NEW rest, Make(d, op, signed, body, rest)
      PROVE  UNCHANGED <<store, ledger, chan>>
  BY <1>1 DEF Make
<1> HIDE DEF Make
<1>2. \E op, signed, body, rest : Make(d, op, signed, body, rest)
  <2>1. CASE MakeContext(d)
    BY <2>1 DEF MakeContext
  <2>2. CASE MakeEval(d)
    BY <2>2 DEF MakeEval
  <2>3. CASE MakeTrust(d)
    BY <2>3 DEF MakeTrust
  <2>4. CASE MakeWallet(d)
    BY <2>4 DEF MakeWallet
  <2>5. CASE MakeSession(d)
    BY <2>5 DEF MakeSession
  <2>6. CASE MakeOther(d)
    BY <2>6 DEF MakeOther
  <2>7. CASE \E e \in Daemon : MakeClock(d, e)
    BY <2>7 DEF MakeClock
  <2> QED BY <2>1, <2>2, <2>3, <2>4, <2>5, <2>6, <2>7
<1> QED BY <1>1, <1>2

\* Files and ledgers change with what is sent and received only.
LEMMA StepKinds ==
    ASSUME [Next]_vars
    PROVE  \/ UNCHANGED <<store, ledger>>
           \/ UNCHANGED store /\ \E a \in Daemon : \E t \in made[a] : ledger' = Ledgered(a, a, t)
           \/ \E l \in Line : Accept(l)
<1>1. CASE \E d \in Daemon : Tick(d) \/ Restart(d)
  BY <1>1 DEF Tick, Restart
<1>2. CASE \E d \in Daemon : Broadcast(d)
  BY <1>2 DEF Broadcast
<1>3. CASE \E l \in Line : SendTo(l)
  BY <1>3 DEF SendTo, Line
<1>4. CASE \E d \in Daemon : \/ MakeContext(d) \/ MakeEval(d) \/ MakeTrust(d) \/ MakeWallet(d)
                              \/ MakeSession(d) \/ MakeOther(d)
  BY <1>4, MakesKeep
<1>5. CASE \E l \in Line : MakeClock(l[1], l[2])
  BY <1>5, MakesKeep DEF Line
<1>6. CASE \E l \in Line : Deliver(l)
  BY <1>6 DEF Deliver, Refuse, ClockAsked, ClockAnswered
<1>7. CASE UNCHANGED vars
  BY <1>7 DEF vars
<1> QED BY <1>1, <1>2, <1>3, <1>4, <1>5, <1>6, <1>7 DEF Next

\* Files stay.
LEMMA StoreKept ==
    ASSUME TypeOK, [Next]_vars, NEW d \in Daemon
    PROVE  store[d] \subseteq store'[d]
<1>1. CASE \E l \in Line : Accept(l)
  <2>1. PICK l \in Line : store' = [store EXCEPT ![l[2]] = Saved(l[2], Received(l))]
    BY <1>1 DEF Accept
  <2> QED BY <2>1 DEF Saved, TypeOK
<1>2. CASE UNCHANGED store
  BY <1>2
<1> QED BY <1>1, <1>2, StepKinds

\* What comes to a ledger of a peer in a step was received, and confirmed.
LEMMA LedgerNew ==
    ASSUME TypeOK, [Next]_vars, NEW d \in Daemon, NEW e \in ledger'[d], e \notin ledger[d], e[1] # d
    PROVE  Conf(d, e[2])
<1>1. CASE \E l \in Line : Accept(l)
  <2>1. PICK l \in Line : Accept(l)
    BY <1>1
  <2>2. /\ Confirmed(l[2], Received(l))
        /\ ledger' = Ledgered(l[2], l[1], Received(l))
    BY <2>1 DEF Accept
  <2>3. d = l[2] /\ e = <<l[1], Received(l)>>
    BY <2>2 DEF Ledgered, TypeOK
  <2> QED BY <2>2, <2>3 DEF Confirmed
<1>2. CASE \E a \in Daemon : \E t \in made[a] : ledger' = Ledgered(a, a, t)
  BY <1>2 DEF Ledgered, TypeOK
<1> QED BY <1>1, <1>2, StepKinds

\* A step keeps evaluations verifiable.
LEMMA StepVerifiable ==
    ASSUME TypeOK, EvalsVerifiable, [Next]_vars
    PROVE  EvalsVerifiable'
<1> SUFFICES ASSUME NEW d \in Daemon, NEW e \in ledger'[d], e[1] # d, e[2].op = "eval"
             PROVE  \E c \in Loaded(d, "context", e[2].body.name)' : SignedUnder(e[2], c)
  BY DEF EvalsVerifiable
<1>1. PICK c \in Loaded(d, "context", e[2].body.name) : SignedUnder(e[2], c)
  <2>1. CASE e \in ledger[d]
    BY <2>1 DEF EvalsVerifiable
  <2>2. CASE e \notin ledger[d]
    <3>1. Conf(d, e[2])
      BY <2>2, LedgerNew
    <3> QED BY <3>1 DEF Conf, EvalConfirm
  <2> QED BY <2>1, <2>2
<1>2. c \in Loaded(d, "context", e[2].body.name)'
  BY StoreKept DEF Loaded
<1> QED BY <1>1, <1>2

\* An evaluation that was accepted from a peer can be verified with what the
\* daemon has stored, ever after.
THEOREM EvalsStayVerifiable == Spec => []EvalsVerifiable
<1>1. Init => EvalsVerifiable
  BY DEF Init, EvalsVerifiable
<1>2. TypeOK /\ EvalsVerifiable /\ [Next]_vars => EvalsVerifiable'
  BY StepVerifiable
<1> QED BY <1>1, <1>2, TxLifeTypeCorrect, PTL DEF Spec

-----------------------------------------------------------------------------
(* Clocks go out and come home: what a daemon has in hand is its own, and   *)
(* its clocks have not been anywhere.                                       *)

Heads(l, t) ==
    t.op = "clock" => t.peer = IF t.rest.recv = Undefined THEN l[1] ELSE l[2]

Own ==
    \A d \in Daemon : \A t \in made[d] :
        t.peer = d /\ (t.op = "clock" => t.rest.recv = Undefined)

\* A transaction that is made is one of its daemon.
LEMMA StepOwn ==
    ASSUME TypeOK, Own, [Next]_vars
    PROVE  Own'
<1>1. ASSUME NEW d \in Daemon, NEW op, NEW signed, NEW body, NEW rest,
             Make(d, op, signed, body, rest), op = "clock" => rest.recv = Undefined
      PROVE  Own'
  <2>1. PICK stamp, key : made' = [made EXCEPT ![d] = @ \union
               {[op |-> op, stamp |-> stamp, peer |-> d, body |-> body,
                 rest |-> rest, turned |-> FALSE, key |-> key]}]
    BY <1>1 DEF Make
  <2> QED BY <1>1, <2>1 DEF Own, TypeOK
<1>2. ASSUME made' = made
      PROVE  Own'
  BY <1>2 DEF Own
<1> HIDE DEF Make, Own
<1>3. ASSUME NEW d \in Daemon,
             \/ MakeContext(d) \/ MakeEval(d) \/ MakeTrust(d) \/ MakeWallet(d)
             \/ MakeSession(d) \/ MakeOther(d)
      PROVE  Own'
  <2>1. CASE MakeContext(d)
    BY <1>1, <2>1 DEF MakeContext
  <2>2. CASE MakeEval(d)
    BY <1>1, <2>2 DEF MakeEval
  <2>3. CASE MakeTrust(d)
    BY <1>1, <2>3 DEF MakeTrust
  <2>4. CASE MakeWallet(d)
    BY <1>1, <2>4 DEF MakeWallet
  <2>5. CASE MakeSession(d)
    BY <1>1, <2>5 DEF MakeSession
  <2>6. CASE MakeOther(d)
    BY <1>1, <2>6 DEF MakeOther
  <2> QED BY <1>3, <2>1, <2>2, <2>3, <2>4, <2>5, <2>6
<1>4. ASSUME NEW d \in Daemon, NEW e, MakeClock(d, e)
      PROVE  Own'
  <2>1. Make(d, "clock", Undefined, [to |-> e], [send |-> clock[d], recv |-> Undefined])
    BY <1>4 DEF MakeClock
  <2>2. [send |-> clock[d], recv |-> Undefined].recv = Undefined
    OBVIOUS
  <2> QED BY <1>1, <2>1, <2>2
<1>5. ASSUME NEW d \in Daemon, Restart(d)
      PROVE  Own'
  BY <1>5 DEF Restart, Own, TypeOK
<1>6. CASE \E d \in Daemon : Tick(d) \/ Broadcast(d)
  BY <1>2, <1>6 DEF Tick, Broadcast
<1>7. CASE \E l \in Line : SendTo(l) \/ Deliver(l)
  BY <1>2, <1>7 DEF SendTo, Deliver, Refuse, Accept, ClockAsked, ClockAnswered
<1>8. CASE UNCHANGED vars
  BY <1>2, <1>8 DEF vars
<1> QED BY <1>3, <1>4, <1>5, <1>6, <1>7, <1>8 DEF Next, Line

\* One more frame at the end of a queue.
LEMMA AppendHeads ==
    ASSUME NEW l \in Line, NEW q \in Seq(Tx), NEW t \in Tx, Heads(l, t),
           \A i \in 1..Len(q) : Heads(l, q[i])
    PROVE  \A i \in 1..Len(Append(q, OnWire(t))) : Heads(l, Append(q, OnWire(t))[i])
<1> DEFINE u == OnWire(t)
<1>1. u \in Tx /\ Heads(l, u)
  BY TurnedType DEF OnWire, Heads
<1> HIDE DEF u
<1> SUFFICES ASSUME NEW i \in 1..Len(Append(q, u))
             PROVE  Heads(l, Append(q, u)[i])
  BY DEF u
<1>2. CASE i = Len(q) + 1
  BY <1>1, <1>2
<1>3. CASE i # Len(q) + 1
  <2>1. i \in 1..Len(q) /\ Append(q, u)[i] = q[i]
    BY <1>1, <1>3
  <2> QED BY <2>1
<1> QED BY <1>2, <1>3

\* One frame less at the front.
LEMMA TailHeads ==
    ASSUME NEW l \in Line, NEW q \in Seq(Tx), q # <<>>,
           \A i \in 1..Len(q) : Heads(l, q[i])
    PROVE  \A i \in 1..Len(Tail(q)) : Heads(l, Tail(q)[i])
<1> SUFFICES ASSUME NEW i \in 1..Len(Tail(q))
             PROVE  Heads(l, Tail(q)[i])
  OBVIOUS
<1>1. i + 1 \in 1..Len(q) /\ Tail(q)[i] = q[i + 1]
  OBVIOUS
<1> QED BY <1>1

AllHeads(ch) == \A l \in Line : \A i \in 1..Len(ch[l]) : Heads(l, ch[l][i])

LEMMA HeadsIs == ClockHeadsHome <=> AllHeads(chan)
BY DEF ClockHeadsHome, AllHeads, Heads

\* A frame that is received: the one in front, and the others.
LEMMA ReceivedHeads ==
    ASSUME TypeOK, AllHeads(chan), NEW l \in Line, chan[l] # <<>>
    PROVE  /\ Heads(l, Received(l))
           /\ AllHeads([chan EXCEPT ![l] = Tail(@)])
<1>1. chan[l] \in Seq(Tx)
  BY DEF TypeOK
<1>2. 1 \in 1..Len(chan[l]) /\ Head(chan[l]) = chan[l][1] /\ Head(chan[l]) \in Tx
  BY <1>1
<1>3. Heads(l, Received(l))
  <2>1. Heads(l, Head(chan[l]))
    BY <1>2 DEF AllHeads
  <2> QED BY <1>2, <2>1, TurnedType DEF Received, Heads
<1>4. \A i \in 1..Len(Tail(chan[l])) : Heads(l, Tail(chan[l])[i])
  <2>1. \A i \in 1..Len(chan[l]) : Heads(l, chan[l][i])
    BY DEF AllHeads
  <2> QED BY <1>1, <2>1, TailHeads
<1>5. ASSUME NEW m \in Line, NEW i \in 1..Len([chan EXCEPT ![l] = Tail(@)][m])
      PROVE  Heads(m, [chan EXCEPT ![l] = Tail(@)][m][i])
  <2>1. CASE m = l
    BY <1>4, <1>5, <2>1 DEF TypeOK
  <2>2. CASE m # l
    BY <1>5, <2>2 DEF TypeOK, AllHeads
  <2> QED BY <2>1, <2>2
<1> QED BY <1>3, <1>5 DEF AllHeads

\* A queue is longer by a frame that heads where it should.
LEMMA SentHeads ==
    ASSUME NEW ch \in [Line -> Seq(Tx)], AllHeads(ch), NEW l \in Line, NEW t \in Tx, Heads(l, t)
    PROVE  AllHeads([ch EXCEPT ![l] = Append(@, OnWire(t))])
<1> DEFINE new == [ch EXCEPT ![l] = Append(@, OnWire(t))]
<1>1. ASSUME NEW m \in Line
      PROVE  \A i \in 1..Len(new[m]) : Heads(m, new[m][i])
  <2>1. CASE m = l
    <3>1. new[m] = Append(ch[l], OnWire(t))
      BY <2>1
    <3>2. \A i \in 1..Len(ch[l]) : Heads(l, ch[l][i])
      BY DEF AllHeads
    <3>3. \A i \in 1..Len(Append(ch[l], OnWire(t))) : Heads(l, Append(ch[l], OnWire(t))[i])
      BY <3>2, AppendHeads
    <3> QED BY <2>1, <3>1, <3>3
  <2>2. CASE m # l
    <3>1. new[m] = ch[m]
      BY <2>2
    <3> QED BY <3>1 DEF AllHeads
  <2> QED BY <2>1, <2>2
<1> QED BY <1>1 DEF AllHeads

\* A step keeps clocks on their way.
LEMMA StepHeads ==
    ASSUME TypeOK, Own, AllHeads(chan), [Next]_vars
    PROVE  AllHeads(chan')
<1>1. ASSUME NEW d \in Daemon, Broadcast(d)
      PROVE  AllHeads(chan')
  <2>1. PICK t \in made[d] :
           /\ t.op # "clock"
           /\ chan' = [l \in Line |-> IF l[1] = d THEN Append(chan[l], OnWire(t)) ELSE chan[l]]
    BY <1>1 DEF Broadcast
  <2>2. t \in Tx
    BY <2>1, HeldType
  <2>3. ASSUME NEW l \in Line
        PROVE  \A i \in 1..Len(chan'[l]) : Heads(l, chan'[l][i])
    <3>1. /\ chan[l] \in Seq(Tx)
          /\ Heads(l, t)
          /\ \A i \in 1..Len(chan[l]) : Heads(l, chan[l][i])
      BY <2>1 DEF TypeOK, AllHeads, Heads
    <3>2. \A i \in 1..Len(Append(chan[l], OnWire(t))) : Heads(l, Append(chan[l], OnWire(t))[i])
      BY <2>2, <3>1, AppendHeads
    <3>3. chan'[l] = Append(chan[l], OnWire(t)) \/ chan'[l] = chan[l]
      BY <2>1
    <3> QED BY <3>1, <3>2, <3>3
  <2> QED BY <2>3 DEF AllHeads
<1>2. ASSUME NEW l \in Line, SendTo(l)
      PROVE  AllHeads(chan')
  <2>1. PICK t \in made[l[1]] : chan' = [chan EXCEPT ![l] = Append(@, OnWire(t))]
    BY <1>2 DEF SendTo
  <2>2. l[1] \in Daemon
    BY DEF Line
  <2>3. t \in Tx /\ Heads(l, t)
    BY <2>1, <2>2, HeldType DEF Own, Heads
  <2>4. chan \in [Line -> Seq(Tx)]
    BY DEF TypeOK
  <2> QED BY <2>1, <2>3, <2>4, SentHeads
<1>3. ASSUME NEW l \in Line, Refuse(l) \/ Accept(l) \/ ClockAnswered(l)
      PROVE  AllHeads(chan')
  <2>1. chan[l] # <<>> /\ chan' = [chan EXCEPT ![l] = Tail(@)]
    BY <1>3 DEF Refuse, Accept, ClockAnswered
  <2> QED BY <2>1, ReceivedHeads
<1>4. ASSUME NEW l \in Line, ClockAsked(l)
      PROVE  AllHeads(chan')
  <2> DEFINE t == Received(l)
             rest == [chan EXCEPT ![l] = Tail(@)]
             new == Answer(l[2], t)
  <2>1. /\ chan[l] # <<>>
        /\ t.op = "clock" /\ t.rest.recv = Undefined
        /\ chan' = [rest EXCEPT ![Back(l)] = Append(@, OnWire(new))]
    BY <1>4 DEF ClockAsked
  <2>2. /\ rest \in [Line -> Seq(Tx)]
        /\ t \in Tx
        /\ l[2] \in Daemon
    BY <2>1, TailType
  <2>3. Heads(l, t) /\ AllHeads(rest)
    BY <2>1, ReceivedHeads
  <2>4. t.peer = l[1]
    BY <2>1, <2>3 DEF Heads
  <2>5. new \in Tx /\ new.peer = l[1] /\ new.rest.recv # Undefined
    BY <2>1, <2>2, <2>4, AnswerType
  <2>6. Back(l) \in Line /\ Back(l)[2] = l[1]
    BY DEF Back, Line
  <2>7. Heads(Back(l), new)
    BY <2>5, <2>6 DEF Heads
  <2> HIDE DEF rest, new
  <2> QED BY <2>1, <2>2, <2>3, <2>5, <2>6, <2>7, SentHeads
<1>5. ASSUME NEW d \in Daemon, Restart(d)
      PROVE  AllHeads(chan')
  <2>1. chan' = [l \in Line |-> IF d \in {l[1], l[2]} THEN <<>> ELSE chan[l]]
    BY <1>5 DEF Restart
  <2> QED BY <2>1 DEF AllHeads
<1>6. ASSUME chan' = chan
      PROVE  AllHeads(chan')
  BY <1>6 DEF AllHeads
<1>7. CASE \E d \in Daemon : \/ MakeContext(d) \/ MakeEval(d) \/ MakeTrust(d) \/ MakeWallet(d)
                              \/ MakeSession(d) \/ MakeOther(d)
  BY <1>6, <1>7, MakesKeep
<1>8. CASE \E l \in Line : MakeClock(l[1], l[2])
  BY <1>6, <1>8, MakesKeep DEF Line
<1>9. CASE \E d \in Daemon : Tick(d)
  BY <1>6, <1>9 DEF Tick
<1>10. CASE UNCHANGED vars
  BY <1>6, <1>10 DEF vars
<1> QED BY <1>1, <1>2, <1>3, <1>4, <1>5, <1>7, <1>8, <1>9, <1>10 DEF Next, Deliver

\* A clock goes out once and comes home once, whatever else is on the way and
\* whoever is started again.
THEOREM ClocksHeadHome == Spec => []ClockHeadsHome
<1>1. Init => Own /\ ClockHeadsHome
  BY DEF Init, Own, ClockHeadsHome
<1>2. TypeOK /\ Own /\ ClockHeadsHome /\ [Next]_vars => Own' /\ ClockHeadsHome'
  <2>1. ASSUME TypeOK, Own, ClockHeadsHome, [Next]_vars
        PROVE  ClockHeadsHome'
    <3>1. AllHeads(chan')
      BY <2>1, StepHeads, HeadsIs
    <3> QED BY <3>1 DEF ClockHeadsHome, AllHeads, Heads
  <2> QED BY <2>1, StepOwn
<1> QED BY <1>1, <1>2, TxLifeTypeCorrect, PTL DEF Spec

-----------------------------------------------------------------------------
(* What is made is good: its key is the one of its fields, its signature is *)
(* for its stamp; and it is as good when it is received.                    *)

Good(t) ==
    /\ t.key = Covered(t)
    /\ t.op \in {"context", "trust"} => t.rest.sig = Cert(t.body.data, t.peer, t.stamp)
    /\ t.op = "wallet" => t.body.birth <= t.rest.last /\ t.rest.sig = Hexgen(t.body.access)
    /\ t.op = "clock" => t.rest.send # Undefined

AllGood(ch) == \A l \in Line : \A i \in 1..Len(ch[l]) : Good(Turned(ch[l][i]))

MadeGood == \A d \in Daemon : \A t \in made[d] : Good(t)

\* Turned round twice, a transaction is the same.
LEMMA TurnedTwice ==
    ASSUME NEW t \in Tx
    PROVE  Turned(OnWire(t)) = t
<1>1. t.op \in Op /\ t \in TxOf(t.op)
  BY TxTyped
<1>2. t.turned \in BOOLEAN
  BY <1>1 DEF TxOf
<1>3. [[t EXCEPT !.turned = ~ @] EXCEPT !.turned = ~ @] = t
  BY <1>1, <1>2 DEF TxOf
<1>4. [t EXCEPT !.turned = ~ @].op = t.op
  BY <1>1 DEF TxOf
<1> QED BY <1>3, <1>4 DEF Turned, OnWire

\* What tx_init makes has the key of its fields.
LEMMA MakeKey ==
    ASSUME NEW d \in Daemon, NEW op, NEW signed, NEW body, NEW rest,
           TypeOK, Make(d, op, signed, body, rest)
    PROVE  \E t : /\ made' = [made EXCEPT ![d] = @ \union {t}]
                  /\ t.key = Covered(t)
                  /\ t.op = op /\ t.body = body /\ t.rest = rest /\ t.peer = d
                  /\ t.stamp = Stamped(signed, clock'[d])
<1> DEFINE stamp == Stamped(signed, clock'[d])
           t == [op |-> op, stamp |-> stamp, peer |-> d, body |-> body,
                 rest |-> rest, turned |-> FALSE]
           new == [op |-> op, stamp |-> stamp, peer |-> d, body |-> body,
                   rest |-> rest, turned |-> FALSE, key |-> Covered(t)]
<1>1. made' = [made EXCEPT ![d] = @ \union {new}]
  BY DEF Make
<1>2. Covered(new) = Covered(t)
  BY DEF Covered
<1>3. new.key = Covered(new)
  BY <1>2
<1>4. /\ new.op = op /\ new.body = body /\ new.rest = rest /\ new.peer = d
      /\ new.stamp = Stamped(signed, clock'[d])
  OBVIOUS
<1> HIDE DEF new
<1> QED BY <1>1, <1>3, <1>4

\* What is made is good.
LEMMA MakesGood ==
    ASSUME TypeOK, MadeGood, NEW d \in Daemon,
           \/ MakeContext(d) \/ MakeEval(d) \/ MakeTrust(d) \/ MakeWallet(d)
           \/ MakeSession(d) \/ MakeOther(d) \/ \E e \in Daemon : MakeClock(d, e)
    PROVE  MadeGood'
<1>1. ASSUME NEW t, made' = [made EXCEPT ![d] = @ \union {t}], Good(t)
      PROVE  MadeGood'
  BY <1>1 DEF MadeGood, TypeOK
<1>2. CASE MakeContext(d)
  <2>1. PICK n \in Name, x \in Data, left \in 0..Span :
           /\ Passing(d)
           /\ Make(d, "context", clock[d],
                   [name |-> n, data |-> x, expire |-> clock[d] + left],
                   [sig |-> Cert(x, d, clock[d])])
    BY <1>2 DEF MakeContext
  <2>2. PICK t : /\ made' = [made EXCEPT ![d] = @ \union {t}]
                 /\ t.key = Covered(t)
                 /\ t.op = "context" /\ t.peer = d
                 /\ t.body = [name |-> n, data |-> x, expire |-> clock[d] + left]
                 /\ t.rest = [sig |-> Cert(x, d, clock[d])]
                 /\ t.stamp = Stamped(clock[d], clock'[d])
    BY <2>1, MakeKey
  <2>3. t.stamp = clock[d]
    BY <2>1, <2>2, PassingType DEF Stamped
  <2>4. t.rest.sig = Cert(x, d, clock[d]) /\ t.body.data = x
    BY <2>2
  <2>5. Good(t)
    BY <2>2, <2>3, <2>4 DEF Good
  <2> QED BY <1>1, <2>2, <2>5
<1>3. CASE MakeEval(d)
  <2>1. PICK body, rest : Make(d, "eval", clock[d], body, rest)
    BY <1>3 DEF MakeEval
  <2>2. PICK t : /\ made' = [made EXCEPT ![d] = @ \union {t}]
                 /\ t.key = Covered(t) /\ t.op = "eval"
    BY <2>1, MakeKey
  <2> QED BY <1>1, <2>2 DEF Good
<1>4. CASE MakeTrust(d)
  <2>1. PICK x \in Data :
           /\ Passing(d)
           /\ Make(d, "trust", clock[d], [data |-> x], [sig |-> Cert(x, d, clock[d])])
    BY <1>4 DEF MakeTrust
  <2>2. PICK t : /\ made' = [made EXCEPT ![d] = @ \union {t}]
                 /\ t.key = Covered(t)
                 /\ t.op = "trust" /\ t.peer = d /\ t.body = [data |-> x]
                 /\ t.rest = [sig |-> Cert(x, d, clock[d])]
                 /\ t.stamp = Stamped(clock[d], clock'[d])
    BY <2>1, MakeKey
  <2>3. t.stamp = clock[d]
    BY <2>1, <2>2, PassingType DEF Stamped
  <2>4. t.rest.sig = Cert(x, d, clock[d]) /\ t.body.data = x
    BY <2>2
  <2>5. Good(t)
    BY <2>2, <2>3, <2>4 DEF Good
  <2> QED BY <1>1, <2>2, <2>5
<1>5. CASE MakeWallet(d)
  <2>1. PICK cur \in Currency, access \in Data :
           /\ Passing(d)
           /\ Make(d, "wallet", Undefined,
                   [cur |-> cur, access |-> access, birth |-> clock[d]],
                   [last |-> clock'[d], sig |-> Hexgen(access)])
    BY <1>5 DEF MakeWallet
  <2>2. PICK t : /\ made' = [made EXCEPT ![d] = @ \union {t}]
                 /\ t.key = Covered(t)
                 /\ t.op = "wallet"
                 /\ t.body = [cur |-> cur, access |-> access, birth |-> clock[d]]
                 /\ t.rest = [last |-> clock'[d], sig |-> Hexgen(access)]
    BY <2>1, MakeKey
  <2>3. clock[d] \in Int /\ clock[d] <= clock'[d]
    BY <2>1 DEF Passing, TypeOK
  <2>4. /\ t.body.birth = clock[d] /\ t.body.access = access
        /\ t.rest.last = clock'[d] /\ t.rest.sig = Hexgen(access)
    BY <2>2
  <2>5. Good(t)
    BY <2>2, <2>3, <2>4 DEF Good
  <2> QED BY <1>1, <2>2, <2>5
<1>6. CASE MakeSession(d)
  <2>1. PICK body, rest : Make(d, "session", Undefined, body, rest)
    BY <1>6 DEF MakeSession
  <2>2. PICK t : /\ made' = [made EXCEPT ![d] = @ \union {t}]
                 /\ t.key = Covered(t) /\ t.op = "session"
    BY <2>1, MakeKey
  <2> QED BY <1>1, <2>2 DEF Good
<1>7. CASE MakeOther(d)
  <2>1. PICK op \in {"subscribe", "event"} :
                \E body, rest : Make(d, op, Undefined, body, rest)
    BY <1>7 DEF MakeOther
  <2>2. PICK body, rest : Make(d, op, Undefined, body, rest)
    BY <2>1
  <2>3. PICK t : /\ made' = [made EXCEPT ![d] = @ \union {t}]
                 /\ t.key = Covered(t) /\ t.op = op
    BY <2>2, MakeKey
  <2> QED BY <1>1, <2>1, <2>3 DEF Good
<1>8. ASSUME NEW e \in Daemon, MakeClock(d, e)
      PROVE  MadeGood'
  <2>1. PICK t : /\ made' = [made EXCEPT ![d] = @ \union {t}]
                 /\ t.key = Covered(t)
                 /\ t.op = "clock"
                 /\ t.rest = [send |-> clock[d], recv |-> Undefined]
    BY <1>8, MakeKey DEF MakeClock
  <2>2. clock[d] # Undefined
    BY <1>8, PassingType DEF MakeClock
  <2>3. t.rest.send = clock[d]
    BY <2>1
  <2>4. Good(t)
    BY <2>1, <2>2, <2>3 DEF Good
  <2> QED BY <1>1, <2>1, <2>4
<1> QED BY <1>2, <1>3, <1>4, <1>5, <1>6, <1>7, <1>8

\* One more good frame at the end of a queue.
LEMMA AppendGood ==
    ASSUME NEW q \in Seq(Tx), NEW t \in Tx, Good(t),
           \A i \in 1..Len(q) : Good(Turned(q[i]))
    PROVE  \A i \in 1..Len(Append(q, OnWire(t))) : Good(Turned(Append(q, OnWire(t))[i]))
<1> DEFINE u == OnWire(t)
<1>1. u \in Tx /\ Turned(u) = t
  BY TurnedType, TurnedTwice DEF OnWire
<1> HIDE DEF u
<1> SUFFICES ASSUME NEW i \in 1..Len(Append(q, u))
             PROVE  Good(Turned(Append(q, u)[i]))
  BY DEF u
<1>2. CASE i = Len(q) + 1
  BY <1>1, <1>2
<1>3. CASE i # Len(q) + 1
  <2>1. i \in 1..Len(q) /\ Append(q, u)[i] = q[i]
    BY <1>1, <1>3
  <2> QED BY <2>1
<1> QED BY <1>2, <1>3

\* A frame that is received is good, and the others stay.
LEMMA ReceivedGood ==
    ASSUME TypeOK, AllGood(chan), NEW l \in Line, chan[l] # <<>>
    PROVE  /\ Good(Received(l))
           /\ AllGood([chan EXCEPT ![l] = Tail(@)])
<1>1. chan[l] \in Seq(Tx)
  BY DEF TypeOK
<1>2. 1 \in 1..Len(chan[l]) /\ Head(chan[l]) = chan[l][1]
  BY <1>1
<1>3. Good(Received(l))
  BY <1>2 DEF Received, AllGood
<1>4. ASSUME NEW i \in 1..Len(Tail(chan[l]))
      PROVE  Good(Turned(Tail(chan[l])[i]))
  <2>1. i + 1 \in 1..Len(chan[l]) /\ Tail(chan[l])[i] = chan[l][i + 1]
    BY <1>1
  <2> QED BY <2>1 DEF AllGood
<1>5. ASSUME NEW m \in Line, NEW i \in 1..Len([chan EXCEPT ![l] = Tail(@)][m])
      PROVE  Good(Turned([chan EXCEPT ![l] = Tail(@)][m][i]))
  <2>1. CASE m = l
    <3>1. [chan EXCEPT ![l] = Tail(@)][m] = Tail(chan[l])
      BY <2>1 DEF TypeOK
    <3> QED BY <1>4, <1>5, <3>1
  <2>2. CASE m # l
    <3>1. [chan EXCEPT ![l] = Tail(@)][m] = chan[m]
      BY <2>2 DEF TypeOK
    <3> QED BY <1>5, <3>1 DEF AllGood
  <2> QED BY <2>1, <2>2
<1> QED BY <1>3, <1>5 DEF AllGood

\* A queue is longer by a good frame.
LEMMA SentGood ==
    ASSUME NEW ch \in [Line -> Seq(Tx)], AllGood(ch), NEW l \in Line, NEW t \in Tx, Good(t)
    PROVE  AllGood([ch EXCEPT ![l] = Append(@, OnWire(t))])
<1> DEFINE new == [ch EXCEPT ![l] = Append(@, OnWire(t))]
<1>1. ASSUME NEW m \in Line
      PROVE  \A i \in 1..Len(new[m]) : Good(Turned(new[m][i]))
  <2>1. CASE m = l
    <3>1. new[m] = Append(ch[l], OnWire(t))
      BY <2>1
    <3>2. \A i \in 1..Len(ch[l]) : Good(Turned(ch[l][i]))
      BY DEF AllGood
    <3>3. \A i \in 1..Len(Append(ch[l], OnWire(t))) : Good(Turned(Append(ch[l], OnWire(t))[i]))
      BY <3>2, AppendGood
    <3> QED BY <3>1, <3>3
  <2>2. CASE m # l
    <3>1. new[m] = ch[m]
      BY <2>2
    <3> QED BY <3>1 DEF AllGood
  <2> QED BY <2>1, <2>2
<1> QED BY <1>1 DEF AllGood

\* A clock with its time of receipt is as good as before: the key covers
\* neither.
LEMMA AnswerGood ==
    ASSUME TypeOK, NEW d \in Daemon, NEW t \in Tx, t.op = "clock", Good(t)
    PROVE  Good(Answer(d, t))
<1>1. t \in TxOf("clock")
  BY TxTyped
<1>2. t.rest \in [send : Time, recv : Time]
  BY <1>1 DEF TxOf, Rest
<1>3. Answer(d, t) = [t EXCEPT !.rest = [t.rest EXCEPT !.recv = clock[d]]]
  BY DEF Answer
<1>4. /\ Answer(d, t).key = t.key
      /\ Answer(d, t).op = "clock"
      /\ Answer(d, t).rest.send = t.rest.send
  BY <1>1, <1>2, <1>3 DEF TxOf
<1>5. Covered(Answer(d, t)) = Covered(t)
  BY <1>1, <1>3 DEF TxOf, Covered
<1> QED BY <1>4, <1>5 DEF Good

\* A step keeps frames good.
LEMMA StepGood ==
    ASSUME TypeOK, MadeGood, AllGood(chan), [Next]_vars
    PROVE  AllGood(chan')
<1>1. ASSUME NEW d \in Daemon, Broadcast(d)
      PROVE  AllGood(chan')
  <2>1. PICK t \in made[d] :
           chan' = [l \in Line |-> IF l[1] = d THEN Append(chan[l], OnWire(t)) ELSE chan[l]]
    BY <1>1 DEF Broadcast
  <2>2. t \in Tx /\ Good(t)
    BY <2>1, HeldType DEF MadeGood
  <2>3. ASSUME NEW l \in Line
        PROVE  \A i \in 1..Len(chan'[l]) : Good(Turned(chan'[l][i]))
    <3>1. /\ chan[l] \in Seq(Tx)
          /\ \A i \in 1..Len(chan[l]) : Good(Turned(chan[l][i]))
      BY DEF TypeOK, AllGood
    <3>2. \A i \in 1..Len(Append(chan[l], OnWire(t))) : Good(Turned(Append(chan[l], OnWire(t))[i]))
      BY <2>2, <3>1, AppendGood
    <3>3. chan'[l] = Append(chan[l], OnWire(t)) \/ chan'[l] = chan[l]
      BY <2>1
    <3> QED BY <3>1, <3>2, <3>3
  <2> QED BY <2>3 DEF AllGood
<1>2. ASSUME NEW l \in Line, SendTo(l)
      PROVE  AllGood(chan')
  <2>1. PICK t \in made[l[1]] : chan' = [chan EXCEPT ![l] = Append(@, OnWire(t))]
    BY <1>2 DEF SendTo
  <2>2. l[1] \in Daemon
    BY DEF Line
  <2>3. t \in Tx /\ Good(t)
    BY <2>1, <2>2, HeldType DEF MadeGood
  <2>4. chan \in [Line -> Seq(Tx)]
    BY DEF TypeOK
  <2> QED BY <2>1, <2>3, <2>4, SentGood
<1>3. ASSUME NEW l \in Line, Refuse(l) \/ Accept(l) \/ ClockAnswered(l)
      PROVE  AllGood(chan')
  <2>1. chan[l] # <<>> /\ chan' = [chan EXCEPT ![l] = Tail(@)]
    BY <1>3 DEF Refuse, Accept, ClockAnswered
  <2> QED BY <2>1, ReceivedGood
<1>4. ASSUME NEW l \in Line, ClockAsked(l)
      PROVE  AllGood(chan')
  <2> DEFINE t == Received(l)
             rest == [chan EXCEPT ![l] = Tail(@)]
             new == Answer(l[2], t)
  <2>1. /\ chan[l] # <<>>
        /\ t.op = "clock"
        /\ chan' = [rest EXCEPT ![Back(l)] = Append(@, OnWire(new))]
    BY <1>4 DEF ClockAsked
  <2>2. /\ rest \in [Line -> Seq(Tx)]
        /\ t \in Tx
        /\ l[2] \in Daemon
    BY <2>1, TailType
  <2>3. Good(t) /\ AllGood(rest)
    BY <2>1, ReceivedGood
  <2>4. new \in Tx /\ Good(new)
    BY <2>1, <2>2, <2>3, AnswerType, AnswerGood
  <2>5. Back(l) \in Line
    BY DEF Back, Line
  <2> HIDE DEF rest, new
  <2> QED BY <2>1, <2>2, <2>3, <2>4, <2>5, SentGood
<1>5. ASSUME NEW d \in Daemon, Restart(d)
      PROVE  AllGood(chan')
  <2>1. chan' = [l \in Line |-> IF d \in {l[1], l[2]} THEN <<>> ELSE chan[l]]
    BY <1>5 DEF Restart
  <2> QED BY <2>1 DEF AllGood
<1>6. ASSUME chan' = chan
      PROVE  AllGood(chan')
  BY <1>6 DEF AllGood
<1>7. CASE \E d \in Daemon : \/ MakeContext(d) \/ MakeEval(d) \/ MakeTrust(d) \/ MakeWallet(d)
                              \/ MakeSession(d) \/ MakeOther(d)
  BY <1>6, <1>7, MakesKeep
<1>8. CASE \E l \in Line : MakeClock(l[1], l[2])
  BY <1>6, <1>8, MakesKeep DEF Line
<1>9. CASE \E d \in Daemon : Tick(d)
  BY <1>6, <1>9 DEF Tick
<1>10. CASE UNCHANGED vars
  BY <1>6, <1>10 DEF vars
<1> QED BY <1>1, <1>2, <1>3, <1>4, <1>5, <1>7, <1>8, <1>9, <1>10 DEF Next, Deliver

\* A step keeps what daemons have in hand good.
LEMMA StepMadeGood ==
    ASSUME TypeOK, MadeGood, [Next]_vars
    PROVE  MadeGood'
<1>1. CASE \E d \in Daemon : \/ MakeContext(d) \/ MakeEval(d) \/ MakeTrust(d) \/ MakeWallet(d)
                              \/ MakeSession(d) \/ MakeOther(d)
  BY <1>1, MakesGood
<1>2. CASE \E l \in Line : MakeClock(l[1], l[2])
  BY <1>2, MakesGood DEF Line
<1>3. ASSUME NEW d \in Daemon, Restart(d)
      PROVE  MadeGood'
  BY <1>3 DEF Restart, MadeGood, TypeOK
<1>4. ASSUME made' = made
      PROVE  MadeGood'
  BY <1>4 DEF MadeGood
<1>5. CASE \E d \in Daemon : Tick(d) \/ Broadcast(d)
  BY <1>4, <1>5 DEF Tick, Broadcast
<1>6. CASE \E l \in Line : SendTo(l) \/ Deliver(l)
  BY <1>4, <1>6 DEF SendTo, Deliver, Refuse, Accept, ClockAsked, ClockAnswered
<1>7. CASE UNCHANGED vars
  BY <1>4, <1>7 DEF vars
<1> QED BY <1>1, <1>2, <1>3, <1>5, <1>6, <1>7 DEF Next

\* What may be the matter with a good transaction.
Cause(r) ==
    \/ r.tx.op = "context" /\ r.at > r.tx.body.expire
    \/ r.tx.op = "session" /\ r.at > r.tx.rest.expire
    \/ r.tx.op = "wallet" /\ r.at < r.tx.rest.last
    \/ r.tx.op = "wallet" /\ r.tx.body.cur \notin Coin
    \/ r.tx.op = "eval" /\ ~ \E c \in r.held :
                                c.body.name = r.tx.body.name /\ SignedUnder(r.tx, c)

\* A good transaction is refused for a cause only.
LEMMA RefuseCause ==
    ASSUME TypeOK, NEW d \in Daemon, NEW t \in Tx, Good(t), ~ Confirmed(d, t)
    PROVE  Cause([by |-> d, at |-> clock[d], tx |-> t,
                  held |-> {c \in store[d] : c.op = "context"}])
<1>1. ~ Conf(d, t)
  BY DEF Confirmed, Good
<1>2. t.op \in Op /\ t \in TxOf(t.op)
  BY TxTyped
<1>3. clock[d] \in Int
  BY DEF TypeOK
<1>4. CASE t.op = "context"
  <2>1. t.body \in [name : Name, data : Data, expire : Time]
    BY <1>2, <1>4 DEF TxOf, Body
  <2>2. t.body.expire \in Int
    BY <2>1, TxLifeAssumption DEF Time
  <2>3. ~ (clock[d] <= t.body.expire)
    BY <1>1, <1>4 DEF Conf, ContextConfirm, SignConfirm, Good
  <2> QED BY <1>3, <1>4, <2>2, <2>3 DEF Cause
<1>5. CASE t.op = "session"
  <2>1. t.rest \in [expire : Time]
    BY <1>2, <1>5 DEF TxOf, Rest
  <2>2. t.rest.expire \in Int
    BY <2>1, TxLifeAssumption DEF Time
  <2>3. ~ (clock[d] <= t.rest.expire)
    BY <1>1, <1>5 DEF Conf, SessionConfirm
  <2> QED BY <1>3, <1>5, <2>2, <2>3 DEF Cause
<1>6. CASE t.op = "wallet"
  <2>1. /\ t.body \in [cur : Currency, access : Data, birth : Time]
        /\ t.rest \in [last : Time, sig : {"hex"} \X Data]
    BY <1>2, <1>6 DEF TxOf, Body, Rest
  <2>2. t.body.birth \in Int /\ t.rest.last \in Int
    BY <2>1, TxLifeAssumption DEF Time
  <2>3. ~ WalletConfirm(d, t)
    BY <1>1, <1>6 DEF Conf
  <2>4. t.body.birth <= t.rest.last /\ t.rest.sig = Hexgen(t.body.access)
    BY <1>6 DEF Good
  <2>5. t.body.cur \in Coin => ~ (t.rest.last <= clock[d])
    BY <1>3, <2>2, <2>3, <2>4 DEF WalletConfirm
  <2> QED BY <1>3, <1>6, <2>2, <2>5 DEF Cause
<1>7. CASE t.op = "eval"
  <2>1. ~ \E c \in Loaded(d, "context", t.body.name) : SignedUnder(t, c)
    BY <1>1, <1>7 DEF Conf, EvalConfirm
  <2>2. ASSUME NEW c \in store[d], c.op = "context", c.body.name = t.body.name
        PROVE  c \in Loaded(d, "context", t.body.name)
    BY <2>2 DEF Loaded, StoreKey
  <2> QED BY <1>7, <2>1, <2>2 DEF Cause
<1>8. t.op \notin {"trust", "clock", "subscribe", "event"}
  BY <1>1 DEF Conf, SignConfirm, ClockConfirm, Good
<1> QED BY <1>2, <1>4, <1>5, <1>6, <1>7, <1>8 DEF Op

LEMMA CauseIs == RefusedForCause <=> \A r \in refused : Cause(r)
BY DEF RefusedForCause, Cause

\* Whatever is refused in a step is refused for a cause.
LEMMA StepCause ==
    ASSUME TypeOK, AllGood(chan), RefusedForCause, [Next]_vars
    PROVE  \A r \in refused' : Cause(r)
<1>1. ASSUME NEW l \in Line, Refuse(l)
      PROVE  \A r \in refused' : Cause(r)
  <2>1. /\ chan[l] # <<>> /\ ~ Confirmed(l[2], Received(l))
        /\ refused' = refused \union
              {[by |-> l[2], at |-> clock[l[2]], tx |-> Received(l),
                held |-> {c \in store[l[2]] : c.op = "context"}]}
    BY <1>1 DEF Refuse
  <2>2. l[2] \in Daemon /\ Received(l) \in Tx /\ Good(Received(l))
    BY <2>1, TailType, ReceivedGood
  <2>3. Cause([by |-> l[2], at |-> clock[l[2]], tx |-> Received(l),
               held |-> {c \in store[l[2]] : c.op = "context"}])
    BY <2>1, <2>2, RefuseCause
  <2> QED BY <2>1, <2>3, CauseIs
<1>2. CASE UNCHANGED refused
  BY <1>2, CauseIs
<1>3. ASSUME NEW d \in Daemon,
             \/ MakeContext(d) \/ MakeEval(d) \/ MakeTrust(d) \/ MakeWallet(d)
             \/ MakeSession(d) \/ MakeOther(d) \/ \E e \in Daemon : MakeClock(d, e)
      PROVE  UNCHANGED refused
  BY <1>3 DEF MakeContext, MakeEval, MakeTrust, MakeWallet, MakeSession, MakeOther, MakeClock, Make
<1>4. CASE \E d \in Daemon : \/ MakeContext(d) \/ MakeEval(d) \/ MakeTrust(d) \/ MakeWallet(d)
                              \/ MakeSession(d) \/ MakeOther(d)
  BY <1>2, <1>3, <1>4
<1>5. CASE \E l \in Line : MakeClock(l[1], l[2])
  BY <1>2, <1>3, <1>5 DEF Line
<1>6. CASE \E d \in Daemon : Tick(d) \/ Broadcast(d) \/ Restart(d)
  BY <1>2, <1>6 DEF Tick, Broadcast, Restart
<1>7. CASE \E l \in Line : SendTo(l) \/ Accept(l) \/ ClockAsked(l) \/ ClockAnswered(l)
  BY <1>2, <1>7 DEF SendTo, Accept, ClockAsked, ClockAnswered
<1>8. CASE UNCHANGED vars
  BY <1>2, <1>8 DEF vars
<1> QED BY <1>1, <1>4, <1>5, <1>6, <1>7, <1>8 DEF Next, Deliver

\* What a daemon makes is refused by no other without a cause.
THEOREM HonestConfirmed == Spec => []RefusedForCause
<1>1. Init => MadeGood /\ AllGood(chan) /\ RefusedForCause
  BY DEF Init, MadeGood, AllGood, RefusedForCause
<1>2. TypeOK /\ MadeGood /\ AllGood(chan) /\ RefusedForCause /\ [Next]_vars
        => MadeGood' /\ AllGood(chan)' /\ RefusedForCause'
  <2>1. ASSUME TypeOK, MadeGood, AllGood(chan), RefusedForCause, [Next]_vars
        PROVE  AllGood(chan)' /\ RefusedForCause'
    <3>1. AllGood(chan')
      BY <2>1, StepGood
    <3>2. AllGood(chan)'
      BY <3>1 DEF AllGood
    <3>3. \A r \in refused' : Cause(r)
      BY <2>1, StepCause
    <3>4. RefusedForCause'
      BY <3>3 DEF RefusedForCause, Cause
    <3> QED BY <3>2, <3>4
  <2> QED BY <2>1, StepMadeGood
<1> QED BY <1>1, <1>2, TxLifeTypeCorrect, PTL DEF Spec
=============================================================================
