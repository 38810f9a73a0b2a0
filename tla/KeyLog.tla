------------------------------- MODULE KeyLog -------------------------------
(***************************************************************************)
(* What the ledgers of a daemon promise: a log for every key.  What is     *)
(* accepted is numbered, and waits in the order of its numbers.  The first *)
(* that waits is recorded in the log of its key, after everything that log *)
(* has, or lost to a failure.  Nothing leaves a log again, unless reading  *)
(* it failed: then a later part of it may be gone when the next entry is   *)
(* recorded.                                                               *)
(***************************************************************************)
EXTENDS Integers, Sequences

CONSTANTS
    Key,   \* whose transactions they are
    Tx     \* transactions

VARIABLES
    log,    \* for every key, what is recorded; its order is that of n
    pend,   \* what was accepted and is neither recorded nor lost
    count,  \* how much was accepted
    lost    \* which kinds of failure have happened

vars == <<log, pend, count, lost>>

Init ==
    /\ log = [k \in Key |-> {}]
    /\ pend = <<>>
    /\ count = 0
    /\ lost = {}

Accept ==
    /\ pend = <<>>
    /\ pend' \in Seq([key : Key, tx : Tx, n : Nat])
    /\ \A i \in 1..Len(pend') : pend'[i].n = count + i
    /\ count' = count + Len(pend')
    /\ UNCHANGED <<log, lost>>

\* Everything in S comes before everything in T.
Before(S, T) == \A a \in S, b \in T : a.n < b.n

\* The head of what waits is recorded, keeping everything, or as much of the
\* beginning of the log as a failed read has left.
Record ==
    /\ pend # <<>>
    /\ LET k == Head(pend).key
           e == [tx |-> Head(pend).tx, n |-> Head(pend).n]
       IN  \E keep \in SUBSET log[k] :
              /\ keep = log[k] \/ "read" \in lost
              /\ Before(keep, log[k] \ keep)
              /\ Before(keep, {e})
              /\ log' = [log EXCEPT ![k] = keep \union {e}]
    /\ pend' = Tail(pend)
    /\ UNCHANGED <<count, lost>>

\* The head of what waits is lost, and the next one has its turn.
Drop ==
    /\ pend # <<>>
    /\ pend' = Tail(pend)
    /\ lost' = lost \union {"write"}
    /\ UNCHANGED <<log, count>>

\* Everything that waits is lost.
Crash ==
    /\ pend' = <<>>
    /\ lost' = lost \union {"crash"}
    /\ UNCHANGED <<log, count>>

\* A failure that loses nothing by itself.
Fail ==
    /\ lost' \in {lost \union {"read"}, lost \union {"write"}}
    /\ UNCHANGED <<log, pend, count>>

Next == Accept \/ Record \/ Drop \/ Crash \/ Fail

Spec == Init /\ [][Next]_vars
=============================================================================
