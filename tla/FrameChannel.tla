---------------------------- MODULE FrameChannel ----------------------------
(***************************************************************************)
(* What a connection between daemons promises: the frames sent on a line   *)
(* are taken from it one by one, whole, each once and in their order.      *)
(* Frames are lost only when the connection is cut, the last ones first,   *)
(* or, the first ones first, after something was sent that is no frame;    *)
(* then they may also be taken for a part of the one before them.          *)
(***************************************************************************)
EXTENDS Integers, Sequences

CONSTANTS Line, Frame

VARIABLES
    queue,   \* frames sent and not yet taken
    taken,   \* frames taken (history)
    strange  \* lines on which something was sent that is no frame

chan == <<queue, taken, strange>>

Init ==
    /\ queue = [l \in Line |-> <<>>]
    /\ taken = [l \in Line |-> <<>>]
    /\ strange = {}

\* f is put on some of the queues q, or on none.
With(q, f) ==
    {p \in [Line -> Seq(Frame)] : \A l \in Line : p[l] = q[l] \/ p[l] = Append(q[l], f)}

\* The same of the two frames f and g together.
WithTwo(q, f, g) ==
    {p \in [Line -> Seq(Frame)] :
        \A l \in Line : p[l] = q[l] \/ p[l] = Append(Append(q[l], f), g)}

Send ==
    /\ UNCHANGED <<taken, strange>>
    /\ \E f \in Frame : queue' \in With(queue, f)

\* The first frame is taken, and may be answered by one or two.
Take(l) ==
    /\ queue[l] # <<>>
    /\ taken' = [taken EXCEPT ![l] = Append(@, Head(queue[l]))]
    /\ \E n \in 1..Len(queue[l]) :
          /\ n = 1 \/ l \in strange
          /\ LET rest == [queue EXCEPT ![l] = SubSeq(@, n + 1, Len(@))]
             IN  \E f \in Frame :
                   \/ queue' \in With(rest, f)
                   \/ \E g \in Frame : queue' \in WithTwo(rest, f, g)
    /\ UNCHANGED strange

Strange(l) ==
    /\ strange' = strange \union {l}
    /\ \E f \in Frame : queue' \in {queue, [queue EXCEPT ![l] = Append(@, f)]}
    /\ UNCHANGED taken

LoseFirst(l) ==
    /\ l \in strange
    /\ \E n \in 0..Len(queue[l]) :
          queue' = [queue EXCEPT ![l] = SubSeq(@, n + 1, Len(@))]
    /\ UNCHANGED <<taken, strange>>

Cut(l, k) ==
    /\ \E m \in 0..Len(queue[l]), n \in 0..Len(queue[k]) :
          queue' = [queue EXCEPT ![l] = SubSeq(@, 1, m), ![k] = SubSeq(@, 1, n)]
    /\ UNCHANGED <<taken, strange>>

Next ==
    \/ Send
    \/ \E l \in Line : Take(l) \/ Strange(l) \/ LoseFirst(l)
    \/ \E l, k \in Line : l # k /\ Cut(l, k)

Spec == Init /\ [][Next]_chan
=============================================================================
