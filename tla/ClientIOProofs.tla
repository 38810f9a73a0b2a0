--------------------------- MODULE ClientIOProofs ---------------------------
(***************************************************************************)
(* ClientIO keeps its types, no frame between daemons is thrown away, and  *)
(* a connection is a channel of frames (FrameChannel), for any number of   *)
(* daemons, connections and frames of any length.                          *)
(*                                                                         *)
(* A receiver knows where a frame begins only from where the last one      *)
(* ended.  The invariant is therefore about the whole stream of a line,    *)
(* from the input buffer at one end to the output buffer at the other: it  *)
(* begins with a frame, and behind each begin of a frame the next one is a *)
(* frame's length away, as far as the stream goes.  While the sender is    *)
(* there the stream also ends with a frame: one may be appended.           *)
(***************************************************************************)
EXTENDS ClientIOProps, SequenceTheorems, TLAPS

Stream(l) == (in[l] \o wire[l]) \o out[l]

Honest == {"init", "other"}

\* s is made of frames of daemons, the last one of which may be cut.
Whole(s) ==
    /\ Len(s) > 0 => s[1].at = 1
    /\ \A i \in 1..Len(s) : s[i].frame.kind \in Honest
    /\ \A i \in 1..Len(s) : (s[i].at = 1 /\ i + Size <= Len(s)) => s[i + Size].at = 1

\* The last frame of s is complete.
Full(s) == \A i \in 1..Len(s) : s[i].at = 1 => i + Size - 1 <= Len(s)

InStep(l) ==
    Back(l) \in open => /\ Whole(Stream(l))
                        /\ l \in open => Full(Stream(l))

\* Nothing is known of a connection before it is made.
Fresh(l) ==
    l[3] > made => /\ l \notin open
                   /\ out[l] = <<>> /\ wire[l] = <<>> /\ in[l] = <<>>

IInv ==
    /\ TypeOK
    /\ \A l \in Line : Fresh(l)
    /\ \A l \in Line : l \notin odd => InStep(l)

-----------------------------------------------------------------------------
(* Lines, sequences and frames.                                            *)

\* The other direction of a connection.
LEMMA BackIsLine ==
    ASSUME NEW l \in Line
    PROVE  Back(l) \in Line /\ Back(Back(l)) = l /\ Back(l) # l /\ Back(l)[3] = l[3]
BY DEF Line, Back

\* A sequence is what was taken from its beginning, and the rest.
LEMMA Split ==
    ASSUME NEW S, NEW s \in Seq(S), NEW n \in 1..Len(s)
    PROVE  /\ SubSeq(s, 1, n) \in Seq(S)
           /\ SubSeq(s, n + 1, Len(s)) \in Seq(S)
           /\ SubSeq(s, 1, n) \o SubSeq(s, n + 1, Len(s)) = s
<1>1. Len(s) \in Nat /\ \A i \in 1..Len(s) : s[i] \in S
  BY LenProperties, ElementOfSeq
<1>2. SubSeq(s, 1, n) \in Seq(S)
  BY <1>1, SubSeqProperties
<1>3. SubSeq(s, n + 1, Len(s)) \in Seq(S)
  BY <1>1, SubSeqProperties
<1>4. 1 \in 1..Len(s) + 1 /\ n \in 1 - 1..Len(s) /\ Len(s) \in n..Len(s)
  BY <1>1
<1>5. SubSeq(s, 1, n) \o SubSeq(s, n + 1, Len(s)) = SubSeq(s, 1, Len(s))
  BY <1>4, ConcatAdjacentSubSeq
<1> QED BY <1>2, <1>3, <1>5, SubSeqFull

\* The rest of a sequence whose first n elements are taken.
LEMMA Rest ==
    ASSUME NEW S, NEW s \in Seq(S), NEW n \in Nat, n <= Len(s)
    PROVE  /\ SubSeq(s, n + 1, Len(s)) \in Seq(S)
           /\ Len(SubSeq(s, n + 1, Len(s))) = Len(s) - n
           /\ \A i \in 1..Len(s) - n : SubSeq(s, n + 1, Len(s))[i] = s[n + i]
<1>1. Len(s) \in Nat /\ \A i \in 1..Len(s) : s[i] \in S
  BY LenProperties, ElementOfSeq
<1>2. n + 1 \in Int /\ Len(s) \in Int /\ \A i \in n + 1..Len(s) : s[i] \in S
  BY <1>1
<1> DEFINE r == SubSeq(s, n + 1, Len(s))
<1>3. /\ r \in Seq(S)
      /\ Len(r) = IF n + 1 <= Len(s) THEN Len(s) - (n + 1) + 1 ELSE 0
      /\ \A i \in 1..Len(s) - (n + 1) + 1 : r[i] = s[n + 1 + i - 1]
  BY <1>2, SubSeqProperties
<1> HIDE DEF r
<1>4. Len(r) = Len(s) - n
  BY <1>1, <1>3
<1>5. \A i \in 1..Len(s) - n : r[i] = s[n + i]
  BY <1>1, <1>3
<1> QED BY <1>3, <1>4, <1>5 DEF r

\* What is taken in two steps may be taken in one.
LEMMA RestOfRest ==
    ASSUME NEW S, NEW s \in Seq(S), NEW n \in Nat, n <= Len(s),
           NEW r, r = SubSeq(s, n + 1, Len(s)), NEW m \in Nat, m <= Len(r)
    PROVE  SubSeq(r, m + 1, Len(r)) = SubSeq(s, n + m + 1, Len(s))
<1>1. r \in Seq(S) /\ Len(r) = Len(s) - n /\ \A i \in 1..Len(s) - n : r[i] = s[n + i]
  BY Rest
<1>2. Len(s) \in Nat /\ n + m \in Nat /\ n + m <= Len(s)
  BY <1>1, LenProperties
<1> DEFINE u == SubSeq(r, m + 1, Len(r))
           v == SubSeq(s, n + m + 1, Len(s))
<1>3. u \in Seq(S) /\ Len(u) = Len(r) - m /\ \A i \in 1..Len(r) - m : u[i] = r[m + i]
  BY <1>1, Rest
<1>4. /\ v \in Seq(S) /\ Len(v) = Len(s) - (n + m)
      /\ \A i \in 1..Len(s) - (n + m) : v[i] = s[(n + m) + i]
  BY <1>2, Rest
<1> HIDE DEF u, v
<1>5. Len(u) = Len(v)
  BY <1>1, <1>2, <1>3, <1>4
<1>6. ASSUME NEW i \in 1..Len(u)
      PROVE  u[i] = v[i]
  <2>1. u[i] = r[m + i] /\ m + i \in 1..Len(s) - n
    BY <1>1, <1>2, <1>3
  <2>2. r[m + i] = s[n + (m + i)] /\ n + (m + i) = (n + m) + i
    BY <1>1, <1>2, <1>3, <2>1
  <2>3. v[i] = s[(n + m) + i]
    BY <1>4, <1>5
  <2> QED BY <2>1, <2>2, <2>3
<1> QED BY <1>3, <1>4, <1>5, <1>6, SeqEqual DEF u, v

\* Where the parts of a stream are joined does not matter.
LEMMA Joined ==
    ASSUME NEW s \in Seq(Unit), NEW t \in Seq(Unit), NEW u \in Seq(Unit)
    PROVE  (s \o t) \o u = s \o (t \o u)
BY ConcatAssociative

\* The same as one fact about three sequences.
Associate(s, t, u) == (s \o t) \o u = s \o (t \o u)

LEMMA JoinedIs ==
    ASSUME NEW s \in Seq(Unit), NEW t \in Seq(Unit), NEW u \in Seq(Unit)
    PROVE  Associate(s, t, u)
BY Joined DEF Associate

\* What is taken from the first of two sequences is taken from both.
LEMMA RestOfConcat ==
    ASSUME NEW S, NEW s \in Seq(S), NEW t \in Seq(S), NEW n \in Nat, n <= Len(s)
    PROVE  SubSeq(s, n + 1, Len(s)) \o t = SubSeq(s \o t, n + 1, Len(s \o t))
<1> DEFINE r == SubSeq(s, n + 1, Len(s))
           u == s \o t
           v == SubSeq(u, n + 1, Len(u))
<1>1. r \in Seq(S) /\ Len(r) = Len(s) - n /\ \A i \in 1..Len(s) - n : r[i] = s[n + i]
  BY Rest
<1>2. /\ u \in Seq(S) /\ Len(u) = Len(s) + Len(t)
      /\ \A i \in 1..Len(s) + Len(t) : u[i] = IF i <= Len(s) THEN s[i] ELSE t[i - Len(s)]
  BY ConcatProperties
<1>3. Len(s) \in Nat /\ Len(t) \in Nat
  BY LenProperties
<1>4. n <= Len(u)
  BY <1>2, <1>3
<1>5. v \in Seq(S) /\ Len(v) = Len(u) - n /\ \A i \in 1..Len(u) - n : v[i] = u[n + i]
  BY <1>2, <1>4, Rest
<1>6. /\ r \o t \in Seq(S) /\ Len(r \o t) = Len(r) + Len(t)
      /\ \A i \in 1..Len(r) + Len(t) : (r \o t)[i] = IF i <= Len(r) THEN r[i] ELSE t[i - Len(r)]
  BY <1>1, ConcatProperties
<1> HIDE DEF r, u, v
<1>7. Len(r \o t) = Len(v)
  BY <1>1, <1>2, <1>3, <1>5, <1>6
<1>8. ASSUME NEW i \in 1..Len(r \o t)
      PROVE  (r \o t)[i] = v[i]
  <2>1. i \in 1..Len(r) + Len(t) /\ i \in 1..Len(u) - n
    BY <1>5, <1>6, <1>7
  <2>2. n + i \in 1..Len(s) + Len(t) /\ v[i] = u[n + i]
    BY <1>2, <1>3, <1>5, <2>1
  <2>3. CASE i <= Len(r)
    <3>1. (r \o t)[i] = r[i] /\ r[i] = s[n + i]
      BY <1>1, <1>6, <2>1, <2>3
    <3>2. u[n + i] = s[n + i]
      BY <1>1, <1>2, <1>3, <2>2, <2>3
    <3> QED BY ONLY <2>2, <3>1, <3>2
  <2>4. CASE ~ (i <= Len(r))
    <3>1. (r \o t)[i] = t[i - Len(r)]
      BY <1>6, <2>1, <2>4
    <3>2. u[n + i] = t[n + i - Len(s)] /\ n + i - Len(s) = i - Len(r)
      BY <1>1, <1>2, <1>3, <2>1, <2>2, <2>4
    <3> QED BY ONLY <2>2, <3>1, <3>2
  <2> QED BY <2>3, <2>4
<1>9. r \o t = v
  BY <1>5, <1>6, <1>7, <1>8, SeqEqual
<1> QED BY <1>9 DEF r, u, v

\* sched_tx_payload makes a frame of the units of its frame, in their order.
LEMMA WrappedType ==
    ASSUME NEW f \in Frame
    PROVE  /\ Wrapped(f) \in Seq(Unit) /\ Len(Wrapped(f)) = Size /\ Size \in Nat \ {0}
           /\ \A i \in 1..Size : Wrapped(f)[i].frame = f /\ Wrapped(f)[i].at = i
<1>1. NetLen + TxLen \in Nat \ {0}
  BY ClientIOAssumption
<1>2. \A i \in 1..NetLen + TxLen : [frame |-> f, at |-> i] \in Unit
  BY DEF Unit
<1>3. Wrapped(f) \in [1..NetLen + TxLen -> Unit]
  BY <1>2 DEF Wrapped
<1>4. Wrapped(f) \in Seq(Unit) /\ Len(Wrapped(f)) = NetLen + TxLen
  BY <1>1, <1>3
<1>5. \A i \in 1..NetLen + TxLen : Wrapped(f)[i].frame = f /\ Wrapped(f)[i].at = i
  BY DEF Wrapped
<1> QED BY <1>1, <1>4, <1>5 DEF Size

\* A frame may be appended to a stream that ends with one.
LEMMA WholeAppend ==
    ASSUME NEW s \in Seq(Unit), NEW f \in Frame, f.kind \in Honest, Whole(s), Full(s)
    PROVE  Whole(s \o Wrapped(f)) /\ Full(s \o Wrapped(f))
<1> DEFINE w == Wrapped(f)
           u == s \o w
<1>1. /\ w \in Seq(Unit) /\ Len(w) = Size /\ Size \in Nat \ {0}
      /\ \A i \in 1..Size : w[i].frame = f /\ w[i].at = i
  BY WrappedType
<1>2. /\ u \in Seq(Unit) /\ Len(u) = Len(s) + Size
      /\ \A i \in 1..Len(s) + Size : u[i] = IF i <= Len(s) THEN s[i] ELSE w[i - Len(s)]
  BY <1>1, ConcatProperties
<1>3. Len(s) \in Nat
  BY LenProperties
<1> HIDE DEF w, u
<1>4. \A i \in 1..Len(s) : u[i] = s[i]
  BY <1>1, <1>2, <1>3
<1>5. \A i \in Len(s) + 1..Len(u) : u[i].frame = f /\ u[i].at = i - Len(s)
  <2> SUFFICES ASSUME NEW i \in Len(s) + 1..Len(u)
               PROVE  u[i].frame = f /\ u[i].at = i - Len(s)
    OBVIOUS
  <2>1. i - Len(s) \in 1..Size /\ i \in 1..Len(s) + Size /\ ~ i <= Len(s)
    BY <1>1, <1>2, <1>3
  <2>2. u[i] = w[i - Len(s)]
    BY <2>1, <1>2
  <2> QED BY <2>1, <2>2, <1>1
<1>6. Len(u) > 0 => u[1].at = 1
  <2>1. CASE Len(s) > 0
    <3>1. s[1].at = 1 /\ 1 \in 1..Len(s)
      BY <2>1, <1>3 DEF Whole
    <3> QED BY <3>1, <1>4
  <2>2. CASE Len(s) = 0
    <3>1. 1 \in Len(s) + 1..Len(u)
      BY <2>2, <1>1, <1>2
    <3>2. u[1].at = 1 - Len(s)
      BY <3>1, <1>5
    <3> QED BY <3>2, <2>2
  <2> QED BY <2>1, <2>2, <1>3
<1>7. \A i \in 1..Len(u) : u[i].frame.kind \in Honest
  <2> SUFFICES ASSUME NEW i \in 1..Len(u)
               PROVE  u[i].frame.kind \in Honest
    OBVIOUS
  <2>1. CASE i \in 1..Len(s)
    BY <2>1, <1>4 DEF Whole
  <2>2. CASE i \in Len(s) + 1..Len(u)
    BY <2>2, <1>5
  <2> QED BY <2>1, <2>2, <1>2, <1>3
<1>8. ASSUME NEW i \in 1..Len(u), u[i].at = 1
      PROVE  /\ i + Size <= Len(u) => u[i + Size].at = 1
             /\ i + Size - 1 <= Len(u)
  <2>1. CASE i \in 1..Len(s)
    <3>1. s[i].at = 1
      BY <2>1, <1>4, <1>8
    <3>2. i + Size - 1 <= Len(s)
      BY <2>1, <3>1 DEF Full
    <3>3. CASE i + Size <= Len(s)
      <4>1. s[i + Size].at = 1 /\ i + Size \in 1..Len(s)
        BY <2>1, <3>1, <3>3, <1>1, <1>3 DEF Whole
      <4> QED BY <4>1, <3>2, <1>1, <1>2, <1>3, <1>4
    <3>4. CASE i + Size = Len(s) + 1
      <4>1. i + Size \in Len(s) + 1..Len(u)
        BY <3>4, <1>1, <1>2, <1>3
      <4>2. u[i + Size].at = (i + Size) - Len(s)
        BY <4>1, <1>5
      <4> QED BY <4>2, <3>2, <3>4, <1>1, <1>2, <1>3
    <3> QED BY <3>2, <3>3, <3>4, <2>1, <1>1, <1>3
  <2>2. CASE i \in Len(s) + 1..Len(u)
    <3>1. 1 = i - Len(s)
      BY <2>2, <1>5, <1>8
    <3> QED BY <3>1, <2>2, <1>1, <1>2, <1>3
  <2> QED BY <2>1, <2>2, <1>2, <1>3
<1>9. Whole(u) /\ Full(u)
  BY <1>6, <1>7, <1>8 DEF Whole, Full
<1> QED BY <1>9 DEF u, w

\* What is left of a stream, when a frame is taken from its beginning.
LEMMA WholeRest ==
    ASSUME NEW s \in Seq(Unit), Whole(s), Size <= Len(s)
    PROVE  /\ Whole(SubSeq(s, Size + 1, Len(s)))
           /\ Full(s) => Full(SubSeq(s, Size + 1, Len(s)))
<1> DEFINE r == SubSeq(s, Size + 1, Len(s))
<1>1. Size \in Nat \ {0} /\ Len(s) \in Nat
  BY ClientIOAssumption, LenProperties DEF Size
<1>2. Len(r) = Len(s) - Size /\ \A i \in 1..Len(s) - Size : r[i] = s[Size + i]
  BY <1>1, Rest
<1> HIDE DEF r
<1>3. Len(r) > 0 => r[1].at = 1
  <2> SUFFICES ASSUME Len(r) > 0 PROVE r[1].at = 1
    OBVIOUS
  <2>1. 1 \in 1..Len(s) /\ 1 + Size <= Len(s) /\ 1 \in 1..Len(s) - Size
    BY <1>1, <1>2
  <2>2. s[1].at = 1
    BY <2>1, <1>1 DEF Whole
  <2>3. s[1 + Size].at = 1
    BY <2>1, <2>2 DEF Whole
  <2>4. r[1] = s[Size + 1] /\ Size + 1 = 1 + Size
    BY <2>1, <1>1, <1>2
  <2> QED BY <2>3, <2>4
<1>4. ASSUME NEW i \in 1..Len(r)
      PROVE  /\ r[i] = s[Size + i] /\ Size + i \in 1..Len(s)
             /\ i + Size <= Len(r) =>
                  r[i + Size] = s[(Size + i) + Size] /\ (Size + i) + Size <= Len(s)
  <2>1. r[i] = s[Size + i] /\ Size + i \in 1..Len(s)
    BY <1>1, <1>2
  <2>2. ASSUME i + Size <= Len(r)
        PROVE  r[i + Size] = s[(Size + i) + Size] /\ (Size + i) + Size <= Len(s)
    <3>1. i + Size \in 1..Len(s) - Size
      BY <2>2, <1>1, <1>2
    <3>2. r[i + Size] = s[Size + (i + Size)]
      BY <3>1, <1>2
    <3>3. Size + (i + Size) = (Size + i) + Size /\ (Size + i) + Size <= Len(s)
      BY <2>2, <1>1, <1>2
    <3> QED BY <3>2, <3>3
  <2> QED BY <2>1, <2>2
<1>5. \A i \in 1..Len(r) : r[i].frame.kind \in Honest
  BY <1>4 DEF Whole
<1>6. \A i \in 1..Len(r) : (r[i].at = 1 /\ i + Size <= Len(r)) => r[i + Size].at = 1
  BY <1>4 DEF Whole
<1>7. ASSUME Full(s), NEW i \in 1..Len(r), r[i].at = 1
      PROVE  i + Size - 1 <= Len(r)
  <2>1. (Size + i) + Size - 1 <= Len(s)
    BY <1>4, <1>7 DEF Full
  <2> QED BY <2>1, <1>1, <1>2
<1>8. Whole(r) /\ (Full(s) => Full(r))
  BY <1>3, <1>5, <1>6, <1>7 DEF Whole, Full
<1> QED BY <1>8 DEF r

\* The beginning of a stream is one.
LEMMA WholePrefix ==
    ASSUME NEW s \in Seq(Unit), NEW t \in Seq(Unit), Whole(s \o t)
    PROVE  Whole(s)
<1> DEFINE u == s \o t
<1>1. /\ Len(u) = Len(s) + Len(t)
      /\ \A i \in 1..Len(s) + Len(t) : u[i] = IF i <= Len(s) THEN s[i] ELSE t[i - Len(s)]
  BY ConcatProperties
<1>2. Len(s) \in Nat /\ Len(t) \in Nat /\ Size \in Nat
  BY LenProperties, ClientIOAssumption DEF Size
<1>3. Whole(u)
  OBVIOUS
<1> HIDE DEF u
<1>4. \A i \in 1..Len(s) : i \in 1..Len(u) /\ u[i] = s[i]
  BY <1>1, <1>2
<1>5. Len(s) > 0 => s[1].at = 1
  <2> SUFFICES ASSUME Len(s) > 0 PROVE s[1].at = 1
    OBVIOUS
  <2>1. 1 \in 1..Len(s) /\ Len(u) > 0
    BY <1>1, <1>2
  <2> QED BY <2>1, <1>3, <1>4 DEF Whole
<1>6. \A i \in 1..Len(s) : s[i].frame.kind \in Honest
  BY <1>3, <1>4 DEF Whole
<1>7. ASSUME NEW i \in 1..Len(s), s[i].at = 1, i + Size <= Len(s)
      PROVE  s[i + Size].at = 1
  <2>1. i + Size \in 1..Len(s) /\ i + Size <= Len(u)
    BY <1>1, <1>2, <1>7
  <2>2. u[i + Size].at = 1
    BY <2>1, <1>3, <1>4, <1>7 DEF Whole
  <2> QED BY <2>1, <2>2, <1>4
<1> QED BY <1>5, <1>6, <1>7 DEF Whole

\* Before anything is sent.
LEMMA WholeEmpty == Whole(<<>>) /\ Full(<<>>)
BY DEF Whole, Full

-----------------------------------------------------------------------------
(* Types.                                                                  *)

\* What Put does to the buffers, for whomever the frame is.
LEMMA PutStep ==
    ASSUME NEW d, NEW kind \in Honest, NEW sink, NEW up, NEW key,
           out \in [Line -> Seq(Unit)], sent \in 0..MaxSends,
           Put(d, kind, sink, up, key)
    PROVE  /\ sent' \in 0..MaxSends
           /\ out' \in [Line -> Seq(Unit)]
           /\ \E f \in Frame :
                 /\ f.kind \in Honest
                 /\ \A l \in Line : \/ out'[l] = out[l]
                                    \/ l \in up /\ out'[l] = out[l] \o Wrapped(f)
<1> DEFINE f == New(1, kind)
           T == Targets(d, sink, up, key)
<1>1. sent + 1 <= MaxSends /\ sent' = sent + 1
  BY DEF Put, PutUnits
<1>2. out' = [l \in Line |-> IF l \in T THEN out[l] \o Wrapped(f) ELSE out[l]]
  BY DEF Put, PutUnits
<1>3. MaxSends \in Nat /\ sent' \in 0..MaxSends /\ sent + 1 \in 1..MaxSends
  BY <1>1, ClientIOAssumption
<1>4. f \in Frame /\ f.kind \in Honest
  BY <1>3 DEF New, Frame, Honest
<1>5. T \subseteq up
  BY DEF Targets
<1> HIDE DEF f, T
<1>6. Wrapped(f) \in Seq(Unit)
  BY <1>4, WrappedType
<1>7. \A l \in Line : out[l] \in Seq(Unit) /\ out[l] \o Wrapped(f) \in Seq(Unit)
  <2> TAKE l \in Line
  <2>1. out[l] \in Seq(Unit)
    OBVIOUS
  <2> QED BY <2>1, <1>6, ConcatProperties
<1>8. out' \in [Line -> Seq(Unit)]
  BY <1>2, <1>7
<1>9. \A l \in Line : \/ out'[l] = out[l]
                      \/ l \in up /\ out'[l] = out[l] \o Wrapped(f)
  BY <1>2, <1>5
<1> QED BY <1>3, <1>4, <1>8, <1>9

\* An answer o gets: f, or f and g.
Sends(o, f, g, two) ==
    IF two THEN (o \o Wrapped(f)) \o Wrapped(g) ELSE o \o Wrapped(f)

\* What PutTwo does, the same way.
LEMMA PutTwoStep ==
    ASSUME NEW d, NEW kind1 \in Honest, NEW kind2 \in Honest, NEW sink, NEW up, NEW key,
           out \in [Line -> Seq(Unit)], sent \in 0..MaxSends,
           PutTwo(d, kind1, kind2, sink, up, key)
    PROVE  /\ sent' \in 0..MaxSends
           /\ out' \in [Line -> Seq(Unit)]
           /\ \E f \in Frame, g \in Frame :
                 /\ f.kind \in Honest /\ g.kind \in Honest
                 /\ \A l \in Line : \/ out'[l] = out[l]
                                    \/ l \in up /\ out'[l] = Sends(out[l], f, g, TRUE)
<1> DEFINE f == New(1, kind1)
           g == New(2, kind2)
           T == Targets(d, sink, up, key)
<1>1. sent + 2 <= MaxSends /\ sent' = sent + 2
  BY DEF PutTwo, PutUnits
<1>2. out' = [l \in Line |->
                 IF l \in T THEN out[l] \o (Wrapped(f) \o Wrapped(g)) ELSE out[l]]
  BY DEF PutTwo, PutUnits
<1>3. /\ MaxSends \in Nat /\ sent' \in 0..MaxSends
      /\ sent + 1 \in 1..MaxSends /\ sent + 2 \in 1..MaxSends
  BY <1>1, ClientIOAssumption
<1>4. f \in Frame /\ f.kind \in Honest /\ g \in Frame /\ g.kind \in Honest
  BY <1>3 DEF New, Frame, Honest
<1>5. T \subseteq up
  BY DEF Targets
<1> HIDE DEF f, g, T
<1>6. /\ Wrapped(f) \in Seq(Unit) /\ Wrapped(g) \in Seq(Unit)
      /\ Wrapped(f) \o Wrapped(g) \in Seq(Unit)
  BY <1>4, WrappedType, ConcatProperties
<1>7. ASSUME NEW l \in Line
      PROVE  /\ out[l] \in Seq(Unit) /\ out[l] \o (Wrapped(f) \o Wrapped(g)) \in Seq(Unit)
             /\ out[l] \o (Wrapped(f) \o Wrapped(g)) = Sends(out[l], f, g, TRUE)
  <2>1. out[l] \in Seq(Unit)
    OBVIOUS
  <2>2. out[l] \o (Wrapped(f) \o Wrapped(g)) \in Seq(Unit)
    BY <2>1, <1>6, ConcatProperties
  <2>3. out[l] \o (Wrapped(f) \o Wrapped(g)) = (out[l] \o Wrapped(f)) \o Wrapped(g)
    BY <2>1, <1>6, Joined
  <2> QED BY <2>1, <2>2, <2>3 DEF Sends
<1>8. out' \in [Line -> Seq(Unit)]
  BY <1>2, <1>7
<1>9. \A l \in Line : \/ out'[l] = out[l]
                      \/ l \in up /\ out'[l] = Sends(out[l], f, g, TRUE)
  BY <1>2, <1>5, <1>7
<1> QED BY <1>3, <1>4, <1>8, <1>9

\* The same of the frames that are nobody's.
LEMMA StrayStep ==
    ASSUME TypeOK, NEW l \in Line, Stray(l)
    PROVE  /\ sent' \in 0..MaxSends /\ faults' \in 0..MaxFaults
           /\ out' \in [Line -> Seq(Unit)]
           /\ l \in open /\ odd' = odd \union {l}
           /\ \A k \in Line \ {l} : out'[k] = out[k]
           /\ \E f \in Frame : out'[l] = out[l] \o Wrapped(f)
           /\ UNCHANGED <<made, open, peer, auth, wire, in, got>>
<1>1. /\ l \in open /\ odd' = odd \union {l}
      /\ UNCHANGED <<made, open, peer, auth, wire, in, got>>
      /\ sent < MaxSends /\ sent' = sent + 1
      /\ faults < MaxFaults /\ faults' = faults + 1
  BY DEF Stray
<1>2. sent' \in 0..MaxSends /\ faults' \in 0..MaxFaults /\ sent + 1 \in 1..MaxSends
  BY <1>1, ClientIOAssumption DEF TypeOK
<1>3. PICK k \in Strange : out' = [out EXCEPT ![l] = @ \o Wrapped(New(1, k))]
  BY DEF Stray
<1> DEFINE f == New(1, k)
<1>4. f \in Frame
  BY <1>2 DEF New, Frame
<1> HIDE DEF f
<1>5. out \in [Line -> Seq(Unit)] /\ out[l] \in Seq(Unit) /\ Wrapped(f) \in Seq(Unit)
  BY <1>4, WrappedType DEF TypeOK
<1>6. out[l] \o Wrapped(f) \in Seq(Unit)
  BY <1>5, ConcatProperties
<1>7. out' = [out EXCEPT ![l] = out[l] \o Wrapped(f)]
  BY <1>3 DEF f
<1>8. /\ out' \in [Line -> Seq(Unit)] /\ \A j \in Line \ {l} : out'[j] = out[j]
      /\ out'[l] = out[l] \o Wrapped(f)
  BY <1>5, <1>6, <1>7
<1> QED BY <1>1, <1>2, <1>4, <1>8

\* Writing moves the beginning of the output buffer to the socket.
LEMMA WriteStep ==
    ASSUME TypeOK, NEW l \in Line, Write(l)
    PROVE  /\ l \in open /\ out[l] # <<>>
           /\ UNCHANGED <<made, open, peer, auth, in, got, odd, sent, faults>>
           /\ wire' \in [Line -> Seq(Unit)] /\ out' \in [Line -> Seq(Unit)]
           /\ wire'[l] \o out'[l] = wire[l] \o out[l]
           /\ \A k \in Line \ {l} : wire'[k] = wire[k] /\ out'[k] = out[k]
<1>1. /\ l \in open /\ out[l] # <<>>
      /\ UNCHANGED <<made, open, peer, auth, in, got, odd, sent, faults>>
  BY DEF Write
<1>2. PICK n \in 1..Len(out[l]) :
          /\ wire' = [wire EXCEPT ![l] = @ \o SubSeq(out[l], 1, n)]
          /\ out' = [out EXCEPT ![l] = SubSeq(@, n + 1, Len(@))]
  BY DEF Write
<1> DEFINE begin == SubSeq(out[l], 1, n)
           rest == SubSeq(out[l], n + 1, Len(out[l]))
<1>3. /\ wire \in [Line -> Seq(Unit)] /\ out \in [Line -> Seq(Unit)]
      /\ wire[l] \in Seq(Unit) /\ out[l] \in Seq(Unit)
  BY DEF TypeOK
<1>4. begin \in Seq(Unit) /\ rest \in Seq(Unit) /\ begin \o rest = out[l]
  BY <1>3, Split
<1>5. wire' = [wire EXCEPT ![l] = wire[l] \o begin] /\ out' = [out EXCEPT ![l] = rest]
  BY <1>2
<1> HIDE DEF begin, rest
<1>6. wire[l] \o begin \in Seq(Unit)
  BY <1>3, <1>4, ConcatProperties
<1>7. /\ wire' \in [Line -> Seq(Unit)] /\ out' \in [Line -> Seq(Unit)]
      /\ wire'[l] = wire[l] \o begin /\ out'[l] = rest
      /\ \A k \in Line \ {l} : wire'[k] = wire[k] /\ out'[k] = out[k]
  BY <1>3, <1>4, <1>5, <1>6
<1>8. (wire[l] \o begin) \o rest = wire[l] \o (begin \o rest)
  BY <1>3, <1>4, Joined
<1>9. wire'[l] \o out'[l] = wire[l] \o out[l]
  BY <1>4, <1>7, <1>8
<1> QED BY <1>1, <1>7, <1>9

\* Reading moves the beginning of what the socket holds to the input buffer.
LEMMA ReadStep ==
    ASSUME TypeOK, NEW l \in Line, Read(l)
    PROVE  /\ Back(l) \in open /\ wire[l] # <<>>
           /\ UNCHANGED <<made, open, peer, auth, out, got, odd, sent, faults>>
           /\ wire' \in [Line -> Seq(Unit)] /\ in' \in [Line -> Seq(Unit)]
           /\ in'[l] \o wire'[l] = in[l] \o wire[l]
           /\ \A k \in Line \ {l} : wire'[k] = wire[k] /\ in'[k] = in[k]
<1>1. /\ Back(l) \in open /\ wire[l] # <<>>
      /\ UNCHANGED <<made, open, peer, auth, out, got, odd, sent, faults>>
  BY DEF Read
<1>2. PICK n \in 1..Len(wire[l]) :
          /\ in' = [in EXCEPT ![l] = @ \o SubSeq(wire[l], 1, n)]
          /\ wire' = [wire EXCEPT ![l] = SubSeq(@, n + 1, Len(@))]
  BY DEF Read
<1> DEFINE begin == SubSeq(wire[l], 1, n)
           rest == SubSeq(wire[l], n + 1, Len(wire[l]))
<1>3. /\ wire \in [Line -> Seq(Unit)] /\ in \in [Line -> Seq(Unit)]
      /\ wire[l] \in Seq(Unit) /\ in[l] \in Seq(Unit)
  BY DEF TypeOK
<1>4. begin \in Seq(Unit) /\ rest \in Seq(Unit) /\ begin \o rest = wire[l]
  BY <1>3, Split
<1>5. in' = [in EXCEPT ![l] = in[l] \o begin] /\ wire' = [wire EXCEPT ![l] = rest]
  BY <1>2
<1> HIDE DEF begin, rest
<1>6. in[l] \o begin \in Seq(Unit)
  BY <1>3, <1>4, ConcatProperties
<1>7. /\ wire' \in [Line -> Seq(Unit)] /\ in' \in [Line -> Seq(Unit)]
      /\ in'[l] = in[l] \o begin /\ wire'[l] = rest
      /\ \A k \in Line \ {l} : wire'[k] = wire[k] /\ in'[k] = in[k]
  BY <1>3, <1>4, <1>5, <1>6
<1>8. (in[l] \o begin) \o rest = in[l] \o (begin \o rest)
  BY <1>3, <1>4, Joined
<1>9. in'[l] \o wire'[l] = in[l] \o wire[l]
  BY <1>4, <1>7, <1>8
<1> QED BY <1>1, <1>7, <1>9

\* A frame that is taken is the beginning of the input buffer.
LEMMA TakenStep ==
    ASSUME TypeOK, NEW l \in Line, Taken(l)
    PROVE  /\ Back(l) \in open /\ in[l] # <<>> /\ Size <= Len(in[l])
           /\ in[l][1].at = 1
           /\ Claimed(First(l)) \in Nat
           /\ Size <= Claimed(First(l)) /\ Claimed(First(l)) <= Len(in[l])
           /\ First(l).kind \in Honest => Claimed(First(l)) = Size
           /\ got' = [got EXCEPT ![l] = Append(got[l], in[l][1].frame)]
           /\ in'[l] = SubSeq(in[l], Claimed(First(l)) + 1, Len(in[l]))
           /\ in' \in [Line -> Seq(Unit)] /\ got' \in [Line -> Seq(Frame)]
           /\ \A k \in Line \ {l} : in'[k] = in[k]
           /\ UNCHANGED <<made, open, wire, odd, faults>>
<1> DEFINE n == Claimed(First(l))
<1>1. /\ Back(l) \in open /\ n <= Len(in[l])
      /\ in' = [in EXCEPT ![l] = SubSeq(in[l], n + 1, Len(in[l]))]
      /\ got' = [got EXCEPT ![l] = Append(got[l], in[l][1].frame)]
      /\ UNCHANGED <<made, open, wire, odd, faults>>
  <2>1. n \in Nat
    BY ClientIOAssumption DEF Claimed
  <2>2. in[l] \in Seq(Unit)
    BY DEF TypeOK
  <2> QED BY <2>1, <2>2, LenProperties DEF Taken, HasHeader, Trimmed, First, Complete
<1>2. /\ Size \in Nat \ {0} /\ n \in Nat /\ Size <= n
      /\ First(l).kind \in Honest => n = Size
  BY ClientIOAssumption DEF Size, Claimed, Long, Honest
<1> HIDE DEF n
<1>3. /\ in \in [Line -> Seq(Unit)] /\ in[l] \in Seq(Unit)
      /\ got \in [Line -> Seq(Frame)] /\ got[l] \in Seq(Frame)
  BY DEF TypeOK
<1>4. Size <= Len(in[l])
  BY <1>1, <1>2, <1>3, LenProperties
<1>5. SubSeq(in[l], n + 1, Len(in[l])) \in Seq(Unit)
  BY <1>1, <1>2, <1>3, Rest
<1>6. Len(in[l]) \in Nat
  BY <1>3, LenProperties
<1>7. 1 \in 1..Len(in[l])
  BY <1>2, <1>4, <1>6
<1>8. in[l][1] \in Unit
  BY <1>3, <1>7, ElementOfSeq
<1>9. in[l][1].frame \in Frame
  BY <1>8 DEF Unit
<1>10. Append(got[l], in[l][1].frame) \in Seq(Frame)
  BY <1>3, <1>9, AppendProperties
<1>11. in[l] # <<>>
  BY <1>2, <1>4, <1>6
<1>12. in' \in [Line -> Seq(Unit)] /\ got' \in [Line -> Seq(Frame)]
  BY <1>1, <1>3, <1>5, <1>10
<1>13. in'[l] = SubSeq(in[l], n + 1, Len(in[l])) /\ \A k \in Line \ {l} : in'[k] = in[k]
  BY <1>1, <1>3
<1>14. in[l][1].at = 1
  BY DEF Taken, Bad
<1> QED BY <1>1, <1>2, <1>4, <1>11, <1>12, <1>13, <1>14 DEF n

\* A request leaves every other line's input alone, and what it appends is a
\* frame, or two.
LEMMA RequestStep ==
    ASSUME TypeOK, NEW l \in Line, RequestSilent(l) \/ RequestAnswered(l) \/ RequestInit(l)
    PROVE  /\ Taken(l)
           /\ peer' \in [Line -> Key] /\ auth' \subseteq Line
           /\ sent' \in 0..MaxSends /\ out' \in [Line -> Seq(Unit)]
           /\ \A k \in Line : out'[k] = out[k] \/ k \in open
           /\ \/ out' = out
              \/ \E f \in Frame, g \in Frame, two \in BOOLEAN :
                    /\ f.kind \in Honest /\ g.kind \in Honest
                    /\ \A k \in Line : \/ out'[k] = out[k]
                                       \/ k \in open /\ out'[k] = Sends(out[k], f, g, two)
<1>1. /\ out \in [Line -> Seq(Unit)] /\ "init" \in Honest /\ "other" \in Honest
      /\ peer \in [Line -> Key] /\ auth \subseteq Line /\ sent \in 0..MaxSends
  BY DEF TypeOK, Honest
<1> DEFINE Framed ==
      /\ sent' \in 0..MaxSends /\ out' \in [Line -> Seq(Unit)]
      /\ \E f \in Frame, g \in Frame, two \in BOOLEAN :
            /\ f.kind \in Honest /\ g.kind \in Honest
            /\ \A k \in Line : \/ out'[k] = out[k]
                               \/ k \in open /\ out'[k] = Sends(out[k], f, g, two)
<1>o. ASSUME NEW kind \in Honest, NEW sink, NEW key, Put(l[2], kind, sink, open, key)
      PROVE  Framed
  <2>1. /\ sent' \in 0..MaxSends /\ out' \in [Line -> Seq(Unit)]
        /\ \E f \in Frame :
              /\ f.kind \in Honest
              /\ \A k \in Line : \/ out'[k] = out[k]
                                 \/ k \in open /\ out'[k] = out[k] \o Wrapped(f)
    BY <1>1, <1>o, PutStep
  <2>2. \A o, f : o \o Wrapped(f) = Sends(o, f, f, FALSE)
    BY DEF Sends
  <2> QED BY <2>1, <2>2
<1>2. CASE RequestSilent(l)
  BY <1>1, <1>2 DEF RequestSilent
<1>3. CASE RequestAnswered(l)
  <2>1. Taken(l) /\ peer' = peer /\ auth' = auth
    BY <1>3 DEF RequestAnswered
  <2>2. Put(l[2], "other", peer[Back(l)], open, peer)
    BY <1>3 DEF RequestAnswered
  <2>3. Framed
    BY <1>1, <2>2, <1>o
  <2> QED BY <1>1, <2>1, <2>3
<1>4. CASE RequestInit(l)
  <2>1. Taken(l)
    BY <1>4 DEF RequestInit
  <2>2. peer' \in [Line -> Key] /\ auth' \subseteq Line
    <3>1. CASE UNCHANGED <<peer, auth>>
      BY <1>1, <3>1
    <3>2. CASE \E m \in open : \/ (peer' = [peer EXCEPT ![m] = Self] /\ UNCHANGED auth)
                               \/ (auth' = auth \ {m} /\ UNCHANGED peer)
      BY <1>1, <3>2 DEF Key
    <3> QED BY <1>4, <3>1, <3>2 DEF RequestInit
  <2>3. \/ Put(l[2], "init", peer'[Back(l)], open, peer')
        \/ Put(l[2], "init", peer[Back(l)], open, peer)
        \/ PutTwo(l[2], "other", "init", peer[Back(l)], open, peer)
    BY <1>4 DEF RequestInit
  <2>4. ASSUME PutTwo(l[2], "other", "init", peer[Back(l)], open, peer)
        PROVE  Framed
    <3>1. sent' \in 0..MaxSends /\ out' \in [Line -> Seq(Unit)]
      BY <1>1, <2>4, PutTwoStep
    <3>2. PICK f \in Frame, g \in Frame :
                /\ f.kind \in Honest /\ g.kind \in Honest
                /\ \A k \in Line : \/ out'[k] = out[k]
                                   \/ k \in open /\ out'[k] = Sends(out[k], f, g, TRUE)
      BY <1>1, <2>4, PutTwoStep
    <3>3. \E two \in BOOLEAN :
             \A k \in Line : \/ out'[k] = out[k]
                             \/ k \in open /\ out'[k] = Sends(out[k], f, g, two)
      BY <3>2, Zenon
    <3> QED BY <3>1, <3>2, <3>3
  <2>5. Framed
    <3> HIDE DEF Framed
    <3>1. \A sink, key : Put(l[2], "init", sink, open, key) => Framed
      BY <1>1, <1>o
    <3> QED BY <2>3, <2>4, <3>1
  <2> QED BY <2>1, <2>2, <2>5
<1> QED BY <1>2, <1>3, <1>4

\* Whoever is sent a broadcast is there.
LEMMA BroadcastStep ==
    ASSUME TypeOK, NEW d, Broadcast(d)
    PROVE  /\ UNCHANGED <<made, open, peer, auth, wire, in, got, odd, faults>>
           /\ sent' \in 0..MaxSends /\ out' \in [Line -> Seq(Unit)]
           /\ \E f \in Frame :
                 /\ f.kind \in Honest
                 /\ \A k \in Line : \/ out'[k] = out[k]
                                    \/ k \in open /\ out'[k] = out[k] \o Wrapped(f)
<1>1. /\ out \in [Line -> Seq(Unit)] /\ "other" \in Honest /\ sent \in 0..MaxSends
  BY DEF TypeOK, Honest
<1>2. Put(d, "other", Blank, open, peer)
  BY DEF Broadcast
<1>3. UNCHANGED <<made, open, peer, auth, wire, in, got, odd, faults>>
  BY DEF Broadcast
<1> QED BY <1>1, <1>2, <1>3, PutStep

\* A connection is two lines there were not before, and an INIT on lines there
\* are.
LEMMA ConnectStep ==
    ASSUME TypeOK, NEW d \in Daemon, NEW e \in Daemon, d # e, Connect(d, e)
    PROVE  /\ UNCHANGED <<wire, in, got, odd, faults>>
           /\ made' = made + 1 /\ made' \in 0..Copies
           /\ open \subseteq open' /\ open' \subseteq Line
           /\ \A k \in open' \ open : k[3] = made' /\ Back(k) \in open'
           /\ peer' \in [Line -> Key] /\ auth' \subseteq Line
           /\ sent' \in 0..MaxSends /\ out' \in [Line -> Seq(Unit)]
           /\ \E f \in Frame :
                 /\ f.kind \in Honest
                 /\ \A k \in Line : \/ out'[k] = out[k]
                                    \/ k \in open' /\ out'[k] = out[k] \o Wrapped(f)
<1> DEFINE l == <<d, e, made + 1>>
           key == [peer EXCEPT ![l] = <<e, 0>>, ![Back(l)] = <<d, made + 1>>]
<1>1. /\ made < Copies /\ made' = made + 1 /\ open' = open \union {l, Back(l)}
      /\ peer' = key /\ auth' = auth \union {Back(l)}
      /\ UNCHANGED <<wire, in, got, odd, faults>>
      /\ Put(d, "init", <<e, 0>>, open', key)
  BY DEF Connect
<1>2. made \in 0..Copies /\ Copies \in Nat
  BY ClientIOAssumption DEF TypeOK
<1>3. made' \in 0..Copies /\ made + 1 \in 1..Copies
  BY <1>1, <1>2
<1>4. l \in Line /\ l[3] = made + 1
  BY <1>3 DEF Line
<1>5. Back(l) \in Line /\ Back(Back(l)) = l /\ Back(l)[3] = made + 1
  BY <1>4, BackIsLine
<1>6. <<e, 0>> \in Key /\ <<d, made + 1>> \in Key
  BY <1>2, <1>3 DEF Key
<1> HIDE DEF l
<1>7. key \in [Line -> Key]
  BY <1>6 DEF TypeOK
<1>8. open' \subseteq Line /\ auth' \subseteq Line /\ open \subseteq open'
  BY <1>1, <1>4, <1>5 DEF TypeOK
<1>9. \A k \in open' \ open : k[3] = made' /\ Back(k) \in open'
  BY <1>1, <1>4, <1>5
<1>10. /\ out \in [Line -> Seq(Unit)] /\ "init" \in Honest /\ sent \in 0..MaxSends
  BY DEF TypeOK, Honest
<1> HIDE DEF key
<1>11. /\ sent' \in 0..MaxSends /\ out' \in [Line -> Seq(Unit)]
       /\ \E f \in Frame :
             /\ f.kind \in Honest
             /\ \A k \in Line : \/ out'[k] = out[k]
                                \/ k \in open' /\ out'[k] = out[k] \o Wrapped(f)
  BY <1>1, <1>10, PutStep
<1> QED BY <1>1, <1>3, <1>7, <1>8, <1>9, <1>11

\* Closing an end clears what it was sent and what it would have sent.
LEMMA CloseStep ==
    ASSUME TypeOK, NEW l \in Line, Close(l)
    PROVE  /\ l \in open /\ open' = open \ {l} /\ auth' \subseteq Line
           /\ faults' \in 0..MaxFaults
           /\ out' \in [Line -> Seq(Unit)] /\ in' \in [Line -> Seq(Unit)]
           /\ wire' \in [Line -> Seq(Unit)]
           /\ out'[l] = <<>> /\ in'[Back(l)] = <<>>
           /\ \A k \in Line \ {l} : out'[k] = out[k]
           /\ \A k \in Line \ {Back(l)} : in'[k] = in[k]
           /\ \A k \in Line : wire'[k] \in {wire[k], <<>>}
           /\ \A k \in Line \ {l, Back(l)} : wire'[k] = wire[k]
           /\ UNCHANGED <<made, peer, got, odd, sent>>
<1>1. /\ l \in open /\ open' = open \ {l} /\ auth' = auth \ {l}
      /\ out' = [out EXCEPT ![l] = <<>>] /\ in' = [in EXCEPT ![Back(l)] = <<>>]
      /\ UNCHANGED <<made, peer, got, odd, sent>>
  BY DEF Close
<1>2. faults' = faults \/ (faults < MaxFaults /\ faults' = faults + 1)
  BY DEF Close
<1>3. PICK lost \in BOOLEAN :
          wire' = [wire EXCEPT ![Back(l)] = <<>>, ![l] = IF lost THEN <<>> ELSE @]
  BY DEF Close
<1>4. faults' \in 0..MaxFaults
  BY <1>2, ClientIOAssumption DEF TypeOK
<1>5. /\ out \in [Line -> Seq(Unit)] /\ in \in [Line -> Seq(Unit)]
      /\ wire \in [Line -> Seq(Unit)] /\ <<>> \in Seq(Unit)
  BY DEF TypeOK
<1>6. Back(l) \in Line /\ Back(l) # l
  BY BackIsLine
<1>7. /\ out' \in [Line -> Seq(Unit)] /\ in' \in [Line -> Seq(Unit)]
      /\ out'[l] = <<>> /\ in'[Back(l)] = <<>>
      /\ \A k \in Line \ {l} : out'[k] = out[k]
      /\ \A k \in Line \ {Back(l)} : in'[k] = in[k]
  BY <1>1, <1>5, <1>6
<1>8. /\ wire' \in [Line -> Seq(Unit)]
      /\ \A k \in Line : wire'[k] \in {wire[k], <<>>}
      /\ \A k \in Line \ {l, Back(l)} : wire'[k] = wire[k]
  <2>1. CASE lost
    BY <2>1, <1>3, <1>5, <1>6
  <2>2. CASE ~ lost
    BY <2>2, <1>3, <1>5, <1>6
  <2> QED BY <2>1, <2>2
<1>9. auth' \subseteq Line
  BY <1>1 DEF TypeOK
<1> QED BY <1>1, <1>4, <1>7, <1>8, <1>9

\* A frame that is refused takes the input buffer with it.
LEMMA BadStep ==
    ASSUME TypeOK, NEW l \in Line, RequestBad(l)
    PROVE  /\ HasHeader(l) /\ Bad(l)
           /\ in' \in [Line -> Seq(Unit)] /\ in'[l] = <<>>
           /\ \A k \in Line \ {l} : in'[k] = in[k]
           /\ UNCHANGED <<made, open, peer, auth, out, wire, got, odd, sent, faults>>
<1>1. /\ HasHeader(l) /\ Bad(l) /\ in' = [in EXCEPT ![l] = <<>>]
      /\ UNCHANGED <<made, open, peer, auth, out, wire, got, odd, sent, faults>>
  BY DEF RequestBad
<1>2. in \in [Line -> Seq(Unit)] /\ <<>> \in Seq(Unit)
  BY DEF TypeOK
<1> QED BY <1>1, <1>2

-----------------------------------------------------------------------------
(* The steps keep the invariant.  Each lemma has one part per action.      *)

\* A stream stays in step when its sender, who is there, appends a frame.
LEMMA SentInStep ==
    ASSUME NEW b \in Seq(Unit), NEW o \in Seq(Unit), NEW p,
           NEW f \in Frame, f.kind \in Honest, NEW l, NEW up,
           Whole(b \o o), l \in up => Full(b \o o),
           p = o \/ (l \in up /\ p = o \o Wrapped(f))
    PROVE  Whole(b \o p) /\ (l \in up => Full(b \o p))
<1>1. CASE p = o
  BY <1>1
<1>2. CASE l \in up /\ p = o \o Wrapped(f)
  <2>1. Wrapped(f) \in Seq(Unit) /\ b \o o \in Seq(Unit)
    BY WrappedType, ConcatProperties
  <2>2. (b \o o) \o Wrapped(f) = b \o p
    BY <1>2, <2>1, Joined
  <2>3. Whole((b \o o) \o Wrapped(f)) /\ Full((b \o o) \o Wrapped(f))
    BY <1>2, <2>1, WholeAppend
  <2> QED BY <2>2, <2>3
<1> QED BY <1>1, <1>2

\* The same of one frame or two.
LEMMA AnswerInStep ==
    ASSUME NEW b \in Seq(Unit), NEW o \in Seq(Unit), NEW p, NEW two \in BOOLEAN,
           NEW f \in Frame, f.kind \in Honest, NEW g \in Frame, g.kind \in Honest,
           NEW l, NEW up, Whole(b \o o), l \in up => Full(b \o o),
           p = o \/ (l \in up /\ p = Sends(o, f, g, two))
    PROVE  Whole(b \o p) /\ (l \in up => Full(b \o p))
<1>1. CASE p = o \/ ~ two
  BY <1>1, SentInStep DEF Sends
<1>2. CASE p # o /\ two
  <2> DEFINE q == o \o Wrapped(f)
  <2>1. q \in Seq(Unit)
    BY WrappedType, ConcatProperties
  <2>2. l \in up /\ p = q \o Wrapped(g)
    BY <1>2 DEF Sends
  <2>3. Whole(b \o q) /\ (l \in up => Full(b \o q))
    BY <2>2, SentInStep
  <2> HIDE DEF q
  <2> QED BY <2>1, <2>2, <2>3, SentInStep
<1> QED BY <1>1, <1>2

\* What a request leaves is in step.
LEMMA TakenInStep ==
    ASSUME NEW i \in Seq(Unit), NEW w \in Seq(Unit), NEW o \in Seq(Unit),
           Size <= Len(i), Whole((i \o w) \o o)
    PROVE  LET r == SubSeq(i, Size + 1, Len(i))
           IN  /\ r \in Seq(Unit)
               /\ Whole((r \o w) \o o)
               /\ Full((i \o w) \o o) => Full((r \o w) \o o)
<1> DEFINE r == SubSeq(i, Size + 1, Len(i))
           s == (i \o w) \o o
<1>1. Size \in Nat /\ Len(i) \in Nat /\ Len(w) \in Nat /\ Len(o) \in Nat
  BY LenProperties, ClientIOAssumption DEF Size
<1>2. r \in Seq(Unit)
  BY <1>1, Rest
<1>3. /\ i \o w \in Seq(Unit) /\ Len(i \o w) = Len(i) + Len(w)
  BY ConcatProperties
<1>4. s \in Seq(Unit) /\ Len(s) = Len(i) + Len(w) + Len(o)
  BY <1>1, <1>3, ConcatProperties
<1>5. Size <= Len(i \o w) /\ Size <= Len(s)
  BY <1>1, <1>3, <1>4
<1>6. r \o w = SubSeq(i \o w, Size + 1, Len(i \o w))
  BY <1>1, RestOfConcat
<1>7. SubSeq(i \o w, Size + 1, Len(i \o w)) \o o = SubSeq(s, Size + 1, Len(s))
  BY <1>1, <1>3, <1>5, RestOfConcat
<1>8. (r \o w) \o o = SubSeq(s, Size + 1, Len(s))
  BY <1>6, <1>7
<1> HIDE DEF s, r
<1>9. Whole(s)
  BY DEF s
<1>10. /\ Whole(SubSeq(s, Size + 1, Len(s)))
       /\ Full(s) => Full(SubSeq(s, Size + 1, Len(s)))
  BY <1>4, <1>5, <1>9, WholeRest
<1>11. Whole((r \o w) \o o) /\ (Full(s) => Full((r \o w) \o o))
  BY <1>8, <1>10
<1> QED BY <1>2, <1>11 DEF r, s

\* A header at the beginning of a stream in step is a daemon's, and no refused
\* one.
LEMMA Heard ==
    ASSUME TypeOK, NEW l \in Line, InStep(l), HasHeader(l)
    PROVE  First(l).kind \in Honest /\ ~ Bad(l)
<1> DEFINE s == (in[l] \o wire[l]) \o out[l]
<1>1. Back(l) \in open /\ Len(in[l]) >= NetLen /\ NetLen \in Nat \ {0}
  BY ClientIOAssumption DEF HasHeader
<1>2. in[l] \in Seq(Unit) /\ wire[l] \in Seq(Unit) /\ out[l] \in Seq(Unit)
  BY DEF TypeOK
<1>3. in[l] \o wire[l] \in Seq(Unit)
  BY <1>2, ConcatProperties
<1>4. Whole(s)
  BY <1>1 DEF InStep, Stream
<1>5. Whole(in[l] \o wire[l])
  BY <1>2, <1>3, <1>4, WholePrefix
<1>6. Whole(in[l])
  BY <1>2, <1>5, WholePrefix
<1>7. Len(in[l]) \in Nat
  BY <1>2, LenProperties
<1>8. Len(in[l]) > 0 /\ 1 \in 1..Len(in[l])
  BY <1>1, <1>7
<1>9. in[l][1].at = 1 /\ in[l][1].frame.kind \in Honest
  BY <1>6, <1>8 DEF Whole
<1> QED BY <1>9 DEF Bad, First, Honest

\* Every step keeps the types.
LEMMA TypeStep ==
    ASSUME TypeOK, [Next]_vars
    PROVE  TypeOK'
<1>0. /\ \A l \in Line : Back(l) \in Line /\ Back(Back(l)) = l /\ Back(l) # l
      /\ <<>> \in Seq(Unit)
  BY BackIsLine
<1>1. ASSUME NEW d \in Daemon, NEW e \in Daemon, d # e, Connect(d, e)
      PROVE  TypeOK'
  <2>1. /\ UNCHANGED <<wire, in, got, odd, faults>>
        /\ made' \in 0..Copies
        /\ open \subseteq open' /\ open' \subseteq Line
        /\ peer' \in [Line -> Key] /\ auth' \subseteq Line
        /\ sent' \in 0..MaxSends /\ out' \in [Line -> Seq(Unit)]
        /\ \A k \in Line : out'[k] = out[k] \/ k \in open'
    BY <1>1, ConnectStep
  <2> QED BY <2>1 DEF TypeOK
<1>2. ASSUME NEW d \in Daemon, Broadcast(d)
      PROVE  TypeOK'
  <2>1. /\ UNCHANGED <<made, open, peer, auth, wire, in, got, odd, faults>>
        /\ sent' \in 0..MaxSends /\ out' \in [Line -> Seq(Unit)]
        /\ \A k \in Line : out'[k] = out[k] \/ k \in open
    BY <1>2, BroadcastStep
  <2> QED BY <2>1 DEF TypeOK
<1>3. ASSUME NEW l \in Line, Stray(l)
      PROVE  TypeOK'
  <2>1. /\ UNCHANGED <<made, open, peer, auth, wire, in, got>>
        /\ sent' \in 0..MaxSends /\ faults' \in 0..MaxFaults
        /\ out' \in [Line -> Seq(Unit)] /\ odd' = odd \union {l} /\ l \in open
        /\ \A k \in Line \ {l} : out'[k] = out[k]
    BY <1>3, StrayStep
  <2> QED BY <2>1 DEF TypeOK
<1>4. ASSUME NEW l \in Line, Write(l)
      PROVE  TypeOK'
  <2>1. /\ UNCHANGED <<made, open, peer, auth, in, got, odd, sent, faults>>
        /\ wire' \in [Line -> Seq(Unit)] /\ out' \in [Line -> Seq(Unit)]
        /\ l \in open /\ \A k \in Line \ {l} : out'[k] = out[k]
    BY <1>4, WriteStep
  <2> QED BY <2>1 DEF TypeOK
<1>5. ASSUME NEW l \in Line, Read(l)
      PROVE  TypeOK'
  <2>1. /\ UNCHANGED <<made, open, peer, auth, out, got, odd, sent, faults>>
        /\ wire' \in [Line -> Seq(Unit)] /\ in' \in [Line -> Seq(Unit)]
        /\ Back(l) \in open /\ \A k \in Line \ {l} : in'[k] = in[k]
    BY <1>5, ReadStep
  <2> QED BY <2>1 DEF TypeOK
<1>6. ASSUME NEW l \in Line, RequestBad(l)
      PROVE  TypeOK'
  <2>1. /\ in' \in [Line -> Seq(Unit)] /\ in'[l] = <<>>
        /\ \A k \in Line \ {l} : in'[k] = in[k]
        /\ UNCHANGED <<made, open, peer, auth, out, wire, got, odd, sent, faults>>
    BY <1>6, BadStep
  <2> QED BY <2>1 DEF TypeOK
<1>7. ASSUME NEW l \in Line, RequestSilent(l) \/ RequestAnswered(l) \/ RequestInit(l)
      PROVE  TypeOK'
  <2>1. /\ Taken(l) /\ peer' \in [Line -> Key] /\ auth' \subseteq Line
        /\ sent' \in 0..MaxSends /\ out' \in [Line -> Seq(Unit)]
        /\ \A k \in Line : out'[k] = out[k] \/ k \in open
    BY <1>7, RequestStep
  <2>2. /\ Back(l) \in open
        /\ in' \in [Line -> Seq(Unit)] /\ got' \in [Line -> Seq(Frame)]
        /\ \A k \in Line \ {l} : in'[k] = in[k]
        /\ UNCHANGED <<made, open, wire, odd, faults>>
    BY <2>1, TakenStep
  <2> QED BY <2>1, <2>2 DEF TypeOK
<1>8. ASSUME NEW l \in Line, Close(l)
      PROVE  TypeOK'
  <2>1. /\ l \in open /\ open' = open \ {l} /\ auth' \subseteq Line
        /\ faults' \in 0..MaxFaults
        /\ out' \in [Line -> Seq(Unit)] /\ in' \in [Line -> Seq(Unit)]
        /\ wire' \in [Line -> Seq(Unit)]
        /\ out'[l] = <<>> /\ in'[Back(l)] = <<>>
        /\ \A k \in Line \ {l} : out'[k] = out[k]
        /\ \A k \in Line \ {Back(l)} : in'[k] = in[k]
        /\ UNCHANGED <<made, peer, got, odd, sent>>
    BY <1>8, CloseStep
  <2>2. ASSUME NEW k \in Line
        PROVE  /\ k \notin open' => out'[k] = <<>>
               /\ Back(k) \notin open' => in'[k] = <<>>
    <3>1. k \notin open => out[k] = <<>>
      BY DEF TypeOK
    <3>2. Back(k) \notin open => in[k] = <<>>
      BY DEF TypeOK
    <3>3. Back(k) = l => k = Back(l)
      BY <1>0
    <3> QED BY <2>1, <3>1, <3>2, <3>3
  <2> QED BY <2>1, <2>2 DEF TypeOK
<1>9. CASE UNCHANGED vars
  BY <1>9 DEF vars, TypeOK
<1> QED BY <1>1, <1>2, <1>3, <1>4, <1>5, <1>6, <1>7, <1>8, <1>9 DEF Next, Request

\* Nothing happens on a connection before it is made.
LEMMA FreshStep ==
    ASSUME TypeOK, \A l \in Line : Fresh(l), [Next]_vars, NEW k \in Line
    PROVE  Fresh(k)'
<1>0. /\ made \in Nat /\ k[3] \in Nat /\ Back(k) \in Line /\ Back(Back(k)) = k
      /\ Back(k)[3] = k[3]
  BY BackIsLine, ClientIOAssumption DEF TypeOK, Line
<1>f. k[3] > made => /\ k \notin open /\ Back(k) \notin open
                     /\ out[k] = <<>> /\ wire[k] = <<>> /\ in[k] = <<>>
  BY <1>0 DEF Fresh
<1>1. ASSUME NEW d \in Daemon, NEW e \in Daemon, d # e, Connect(d, e)
      PROVE  Fresh(k)'
  <2>1. /\ UNCHANGED <<wire, in>> /\ made' = made + 1
        /\ \A j \in open' \ open : j[3] = made'
        /\ \A j \in Line : out'[j] = out[j] \/ j \in open'
    BY <1>1, ConnectStep
  <2>2. k[3] > made' => k[3] > made /\ k[3] # made'
    BY <2>1, <1>0
  <2>3. k[3] > made' => k \notin open'
    BY <2>1, <2>2, <1>f
  <2> QED BY <2>1, <2>2, <2>3, <1>f DEF Fresh
<1>2. ASSUME NEW d \in Daemon, Broadcast(d)
      PROVE  Fresh(k)'
  <2>1. /\ UNCHANGED <<made, open, wire, in>>
        /\ \A j \in Line : out'[j] = out[j] \/ j \in open
    BY <1>2, BroadcastStep
  <2> QED BY <2>1, <1>f DEF Fresh
<1>3. ASSUME NEW l \in Line, Stray(l)
      PROVE  Fresh(k)'
  <2>1. /\ UNCHANGED <<made, open, wire, in>> /\ l \in open
        /\ \A j \in Line \ {l} : out'[j] = out[j]
    BY <1>3, StrayStep
  <2> QED BY <2>1, <1>f DEF Fresh
<1>4. ASSUME NEW l \in Line, Write(l)
      PROVE  Fresh(k)'
  <2>1. /\ UNCHANGED <<made, open, in>> /\ l \in open
        /\ \A j \in Line \ {l} : wire'[j] = wire[j] /\ out'[j] = out[j]
    BY <1>4, WriteStep
  <2> QED BY <2>1, <1>f DEF Fresh
<1>5. ASSUME NEW l \in Line, Read(l)
      PROVE  Fresh(k)'
  <2>1. /\ UNCHANGED <<made, open, out>> /\ Back(l) \in open
        /\ \A j \in Line \ {l} : wire'[j] = wire[j] /\ in'[j] = in[j]
    BY <1>5, ReadStep
  <2> QED BY <2>1, <1>f DEF Fresh
<1>6. ASSUME NEW l \in Line, RequestBad(l)
      PROVE  Fresh(k)'
  <2>1. /\ in'[l] = <<>> /\ UNCHANGED <<made, open, out, wire>>
        /\ \A j \in Line \ {l} : in'[j] = in[j]
    BY <1>6, BadStep
  <2> QED BY <2>1, <1>f DEF Fresh
<1>7. ASSUME NEW l \in Line, RequestSilent(l) \/ RequestAnswered(l) \/ RequestInit(l)
      PROVE  Fresh(k)'
  <2>1. Taken(l) /\ \A j \in Line : out'[j] = out[j] \/ j \in open
    BY <1>7, RequestStep
  <2>2. /\ Back(l) \in open /\ UNCHANGED <<made, open, wire>>
        /\ \A j \in Line \ {l} : in'[j] = in[j]
    BY <2>1, TakenStep
  <2> QED BY <2>1, <2>2, <1>f DEF Fresh
<1>8. ASSUME NEW l \in Line, Close(l)
      PROVE  Fresh(k)'
  <2>1. /\ open' = open \ {l} /\ UNCHANGED made
        /\ out'[l] = <<>> /\ in'[Back(l)] = <<>>
        /\ \A j \in Line \ {l} : out'[j] = out[j]
        /\ \A j \in Line \ {Back(l)} : in'[j] = in[j]
        /\ \A j \in Line : wire'[j] \in {wire[j], <<>>}
    BY <1>8, CloseStep
  <2>2. out'[k] \in {out[k], <<>>} /\ in'[k] \in {in[k], <<>>} /\ wire'[k] \in {wire[k], <<>>}
    BY <2>1
  <2>3. k \in open' => k \in open
    BY <2>1
  <2> QED BY <2>1, <2>2, <2>3, <1>f DEF Fresh
<1>9. CASE UNCHANGED vars
  BY <1>9, <1>f DEF vars, Fresh
<1> QED BY <1>1, <1>2, <1>3, <1>4, <1>5, <1>6, <1>7, <1>8, <1>9 DEF Next, Request

\* Streams stay in step, however they are written, read and taken apart.
LEMMA InStepStep ==
    ASSUME IInv, [Next]_vars, NEW k \in Line, k \notin odd'
    PROVE  InStep(k)'
<1>t. TypeOK /\ \A l \in Line : Fresh(l)
  BY DEF IInv
<1>0. /\ in[k] \in Seq(Unit) /\ wire[k] \in Seq(Unit) /\ out[k] \in Seq(Unit)
      /\ in[k] \o wire[k] \in Seq(Unit)
      /\ Back(k) \in Line /\ Back(Back(k)) = k /\ Back(k) # k /\ Back(k)[3] = k[3]
      /\ made \in Nat /\ k[3] \in Nat
  <2>1. in[k] \in Seq(Unit) /\ wire[k] \in Seq(Unit) /\ out[k] \in Seq(Unit)
    BY <1>t DEF TypeOK
  <2>2. in[k] \o wire[k] \in Seq(Unit)
    BY <2>1, ConcatProperties
  <2>3. Back(k) \in Line /\ Back(Back(k)) = k /\ Back(k) # k /\ Back(k)[3] = k[3]
    BY BackIsLine
  <2>4. made \in Nat /\ k[3] \in Nat
    BY <1>t, ClientIOAssumption DEF TypeOK, Line
  <2> QED BY <2>1, <2>2, <2>3, <2>4
<1>i. ASSUME k \notin odd, Back(k) \in open
      PROVE  /\ Whole((in[k] \o wire[k]) \o out[k])
             /\ k \in open => Full((in[k] \o wire[k]) \o out[k])
  BY <1>i DEF IInv, InStep, Stream
<1>n. ASSUME /\ Back(k) \in open'
             /\ Whole((in'[k] \o wire'[k]) \o out'[k])
             /\ k \in open' => Full((in'[k] \o wire'[k]) \o out'[k])
      PROVE  InStep(k)'
  BY <1>n DEF InStep, Stream
<1>c. ASSUME Back(k) \notin open'
      PROVE  InStep(k)'
  BY <1>c DEF InStep
<1>1. ASSUME NEW d \in Daemon, NEW e \in Daemon, d # e, Connect(d, e)
      PROVE  InStep(k)'
  <2>1. /\ UNCHANGED <<wire, in, odd>> /\ made' = made + 1
        /\ open \subseteq open'
        /\ \A j \in open' \ open : j[3] = made' /\ Back(j) \in open'
        /\ \E f \in Frame :
              /\ f.kind \in Honest
              /\ \A j \in Line : \/ out'[j] = out[j]
                                 \/ j \in open' /\ out'[j] = out[j] \o Wrapped(f)
    BY <1>1, <1>t, ConnectStep
  <2>2. PICK f \in Frame :
              /\ f.kind \in Honest
              /\ \/ out'[k] = out[k]
                 \/ k \in open' /\ out'[k] = out[k] \o Wrapped(f)
    BY <2>1
  <2>3. SUFFICES ASSUME Back(k) \in open'
                 PROVE  InStep(k)'
    BY <1>c
  <2>4. CASE Back(k) \in open
    <3>1. k \in open' => k \in open
      <4>1. k \in open' /\ k \notin open => k[3] = made'
        BY <2>1
      <4>2. k[3] = made' => k[3] > made /\ Back(k)[3] > made
        BY <2>1, <1>0
      <4>3. Back(k)[3] > made => Back(k) \notin open
        BY <1>0, <1>t DEF Fresh
      <4> QED BY <4>1, <4>2, <4>3, <2>4
    <3>2. /\ Whole((in[k] \o wire[k]) \o out[k])
          /\ k \in open' => Full((in[k] \o wire[k]) \o out[k])
      BY <3>1, <2>1, <2>4, <1>i
    <3>3. /\ Whole((in[k] \o wire[k]) \o out'[k])
          /\ k \in open' => Full((in[k] \o wire[k]) \o out'[k])
      BY <3>2, <2>2, <1>0, SentInStep
    <3> QED BY <3>3, <2>1, <2>3, <1>n
  <2>5. CASE Back(k) \notin open
    <3>1. Back(k)[3] = made'
      BY <2>1, <2>3, <2>5
    <3>2. k[3] > made
      BY <3>1, <2>1, <1>0
    <3>3. in[k] = <<>> /\ wire[k] = <<>> /\ out[k] = <<>>
      BY <3>2, <1>t DEF Fresh
    <3>4. <<>> \o <<>> = <<>> /\ <<>> \in Seq(Unit)
      BY ConcatEmptySeq
    <3>5. (in[k] \o wire[k]) \o out[k] = <<>>
      BY <3>3, <3>4
    <3>6. Whole((in[k] \o wire[k]) \o out[k]) /\ Full((in[k] \o wire[k]) \o out[k])
      BY <3>5, WholeEmpty
    <3>7. /\ Whole((in[k] \o wire[k]) \o out'[k])
          /\ k \in open' => Full((in[k] \o wire[k]) \o out'[k])
      BY <3>6, <2>2, <1>0, SentInStep
    <3> QED BY <3>7, <2>1, <2>3, <1>n
  <2> QED BY <2>4, <2>5
<1>2. ASSUME NEW d \in Daemon, Broadcast(d)
      PROVE  InStep(k)'
  <2>1. /\ UNCHANGED <<open, wire, in, odd>>
        /\ \E f \in Frame :
              /\ f.kind \in Honest
              /\ \A j \in Line : \/ out'[j] = out[j]
                                 \/ j \in open /\ out'[j] = out[j] \o Wrapped(f)
    BY <1>2, <1>t, BroadcastStep
  <2>2. PICK f \in Frame :
              /\ f.kind \in Honest
              /\ \/ out'[k] = out[k]
                 \/ k \in open /\ out'[k] = out[k] \o Wrapped(f)
    BY <2>1
  <2>3. SUFFICES ASSUME Back(k) \in open
                 PROVE  InStep(k)'
    BY <2>1, <1>c
  <2>4. /\ Whole((in[k] \o wire[k]) \o out'[k])
        /\ k \in open => Full((in[k] \o wire[k]) \o out'[k])
    BY <2>1, <2>2, <2>3, <1>0, <1>i, SentInStep
  <2> QED BY <2>1, <2>3, <2>4, <1>n
<1>3. ASSUME NEW l \in Line, Stray(l)
      PROVE  InStep(k)'
  <2>1. /\ UNCHANGED <<open, wire, in>> /\ odd' = odd \union {l}
        /\ \A j \in Line \ {l} : out'[j] = out[j]
    BY <1>3, <1>t, StrayStep
  <2>2. k # l /\ k \notin odd
    BY <2>1
  <2> QED BY <2>1, <2>2, <1>i, <1>n, <1>c
<1>4. ASSUME NEW l \in Line, Write(l)
      PROVE  InStep(k)'
  <2>1. /\ UNCHANGED <<open, in, odd>>
        /\ wire' \in [Line -> Seq(Unit)] /\ out' \in [Line -> Seq(Unit)]
        /\ wire'[l] \o out'[l] = wire[l] \o out[l]
        /\ \A j \in Line \ {l} : wire'[j] = wire[j] /\ out'[j] = out[j]
    BY <1>4, <1>t, WriteStep
  <2>2. wire'[k] \in Seq(Unit) /\ out'[k] \in Seq(Unit)
    BY <2>1
  <2>3. wire'[k] \o out'[k] = wire[k] \o out[k]
    BY <2>1
  <2>4. in[k] \in Seq(Unit) /\ wire[k] \in Seq(Unit) /\ out[k] \in Seq(Unit)
    BY <1>0
  <2>5. (in[k] \o wire'[k]) \o out'[k] = (in[k] \o wire[k]) \o out[k]
    <3> DEFINE v == wire'[k]
               p == out'[k]
               i == in[k]
               w == wire[k]
               o == out[k]
    <3> HIDE DEF v, p, i, w, o
    <3>1. v \in Seq(Unit) /\ p \in Seq(Unit) /\ v \o p = w \o o
      BY <2>2, <2>3 DEF v, p, w, o
    <3>2. i \in Seq(Unit) /\ w \in Seq(Unit) /\ o \in Seq(Unit)
      BY <2>4 DEF i, w, o
    <3>3. Associate(i, v, p) /\ Associate(i, w, o)
      BY ONLY <3>1, <3>2, JoinedIs
    <3>5. (i \o v) \o p = (i \o w) \o o
      BY ONLY <3>1, <3>3 DEF Associate
    <3> QED BY <3>5 DEF v, p, i, w, o
  <2>6. (in'[k] \o wire'[k]) \o out'[k] = (in[k] \o wire[k]) \o out[k]
    BY <2>1, <2>5
  <2> QED BY <2>1, <2>6, <1>i, <1>n, <1>c
<1>5. ASSUME NEW l \in Line, Read(l)
      PROVE  InStep(k)'
  <2>1. /\ UNCHANGED <<open, out, odd>>
        /\ in'[l] \o wire'[l] = in[l] \o wire[l]
        /\ \A j \in Line \ {l} : wire'[j] = wire[j] /\ in'[j] = in[j]
    BY <1>5, <1>t, ReadStep
  <2>2. in'[k] \o wire'[k] = in[k] \o wire[k] /\ out'[k] = out[k]
    BY <2>1
  <2>3. (in'[k] \o wire'[k]) \o out'[k] = (in[k] \o wire[k]) \o out[k]
    BY <2>2
  <2> QED BY <2>1, <2>3, <1>i, <1>n, <1>c
<1>6. ASSUME NEW l \in Line, RequestBad(l)
      PROVE  InStep(k)'
  <2>1. /\ HasHeader(l) /\ Bad(l) /\ UNCHANGED <<open, out, wire, odd>>
        /\ \A j \in Line \ {l} : in'[j] = in[j]
    BY <1>6, <1>t, BadStep
  <2>2. SUFFICES ASSUME Back(k) \in open
                 PROVE  InStep(k)'
    BY <2>1, <1>c
  <2>3. CASE k = l
    <3>1. k \notin odd
      BY <2>1
    <3>2. InStep(k)
      BY <3>1 DEF IInv
    <3>3. HasHeader(k) => ~ Bad(k)
      BY <3>2, <1>t, Heard
    <3> QED BY <3>3, <2>1, <2>3
  <2>4. CASE k # l
    BY <2>1, <2>2, <2>4, <1>i, <1>n
  <2> QED BY <2>3, <2>4
<1>7. ASSUME NEW l \in Line, RequestSilent(l) \/ RequestAnswered(l) \/ RequestInit(l)
      PROVE  InStep(k)'
  <2>1. /\ Taken(l)
        /\ \/ out' = out
           \/ \E f \in Frame, g \in Frame, two \in BOOLEAN :
                 /\ f.kind \in Honest /\ g.kind \in Honest
                 /\ \A j \in Line : \/ out'[j] = out[j]
                                    \/ j \in open /\ out'[j] = Sends(out[j], f, g, two)
    BY <1>7, <1>t, RequestStep
  <2>2. /\ Size <= Len(in[l])
        /\ First(l).kind \in Honest => in'[l] = SubSeq(in[l], Size + 1, Len(in[l]))
        /\ in' \in [Line -> Seq(Unit)]
        /\ \A j \in Line \ {l} : in'[j] = in[j]
        /\ UNCHANGED <<open, wire, odd>>
    BY <2>1, <1>t, TakenStep
  <2>3. SUFFICES ASSUME Back(k) \in open
                 PROVE  InStep(k)'
    BY <2>2, <1>c
  <2>4. /\ Whole((in[k] \o wire[k]) \o out[k])
        /\ k \in open => Full((in[k] \o wire[k]) \o out[k])
    BY <2>2, <2>3, <1>i
  <2>5. /\ in'[k] \in Seq(Unit)
        /\ Whole((in'[k] \o wire[k]) \o out[k])
        /\ k \in open => Full((in'[k] \o wire[k]) \o out[k])
    <3>1. CASE k = l
      <4>1. InStep(k) /\ HasHeader(k)
        BY <3>1, <2>1, <2>2 DEF IInv, Taken
      <4>2. First(k).kind \in Honest
        BY <4>1, <1>t, Heard
      <4>3. in'[k] = SubSeq(in[k], Size + 1, Len(in[k])) /\ Size <= Len(in[k])
        BY <3>1, <4>2, <2>2
      <4> QED BY <4>3, <2>4, <1>0, TakenInStep
    <3>2. CASE k # l
      BY <3>2, <2>2, <2>4, <1>0
    <3> QED BY <3>1, <3>2
  <2>6. in'[k] \o wire[k] \in Seq(Unit)
    BY <2>5, <1>0, ConcatProperties
  <2>7. CASE out' = out
    <3>1. in'[k] \o wire'[k] = in'[k] \o wire[k] /\ out'[k] = out[k]
      BY <2>2, <2>7
    <3> QED BY <3>1, <2>2, <2>3, <2>5, <1>n
  <2>8. CASE out' # out
    <3>1. PICK f \in Frame, g \in Frame, two \in BOOLEAN :
                /\ f.kind \in Honest /\ g.kind \in Honest
                /\ \/ out'[k] = out[k]
                   \/ k \in open /\ out'[k] = Sends(out[k], f, g, two)
      BY <2>1, <2>8
    <3>2. /\ Whole((in'[k] \o wire[k]) \o out'[k])
          /\ k \in open => Full((in'[k] \o wire[k]) \o out'[k])
      BY <3>1, <2>5, <2>6, <1>0, AnswerInStep
    <3> QED BY <3>2, <2>2, <2>3, <1>n
  <2> QED BY <2>7, <2>8
<1>8. ASSUME NEW l \in Line, Close(l)
      PROVE  InStep(k)'
  <2>1. /\ open' = open \ {l} /\ UNCHANGED odd
        /\ out'[l] = <<>> /\ in'[Back(l)] = <<>>
        /\ \A j \in Line \ {l} : out'[j] = out[j]
        /\ \A j \in Line \ {Back(l)} : in'[j] = in[j]
        /\ \A j \in Line : wire'[j] \in {wire[j], <<>>}
        /\ \A j \in Line \ {l, Back(l)} : wire'[j] = wire[j]
    BY <1>8, <1>t, CloseStep
  <2>2. SUFFICES ASSUME Back(k) \in open'
                 PROVE  InStep(k)'
    BY <1>c
  <2>3. Back(k) \in open /\ Back(k) # l /\ k # Back(l)
    BY <2>1, <2>2, <1>0, BackIsLine
  <2>4. /\ Whole((in[k] \o wire[k]) \o out[k])
        /\ k \in open => Full((in[k] \o wire[k]) \o out[k])
    BY <2>1, <2>3, <1>i
  <2>5. CASE k = l
    <3>1. k \notin open' /\ out'[k] = <<>> /\ in'[k] = in[k] /\ wire'[k] \in {wire[k], <<>>}
      BY <2>1, <2>3, <2>5
    <3>2. Whole(in[k] \o wire[k])
      BY <2>4, <1>0, WholePrefix
    <3>3. Whole(in[k])
      BY <3>2, <1>0, WholePrefix
    <3>4. /\ in[k] \o <<>> = in[k] /\ (in[k] \o wire[k]) \o <<>> = in[k] \o wire[k]
      BY <1>0, ConcatEmptySeq
    <3>5. CASE wire'[k] = wire[k]
      <4>1. (in'[k] \o wire'[k]) \o out'[k] = in[k] \o wire[k]
        BY <3>1, <3>4, <3>5
      <4> QED BY <4>1, <3>1, <3>2, <2>2, <1>n
    <3>6. CASE wire'[k] = <<>>
      <4>1. (in'[k] \o wire'[k]) \o out'[k] = in[k]
        BY <3>1, <3>4, <3>6
      <4> QED BY <4>1, <3>1, <3>3, <2>2, <1>n
    <3> QED BY <3>1, <3>5, <3>6
  <2>6. CASE k # l
    <3>1. /\ in'[k] \o wire'[k] = in[k] \o wire[k] /\ out'[k] = out[k]
          /\ k \in open' => k \in open
      BY <2>1, <2>3, <2>6
    <3> QED BY <3>1, <2>2, <2>4, <1>n
  <2> QED BY <2>5, <2>6
<1>9. CASE UNCHANGED vars
  <2>1. UNCHANGED <<open, in, wire, out, odd>>
    BY <1>9 DEF vars
  <2>2. (in'[k] \o wire'[k]) \o out'[k] = (in[k] \o wire[k]) \o out[k]
    BY <2>1
  <2> QED BY <2>1, <2>2, <1>i, <1>n, <1>c
<1> QED BY <1>1, <1>2, <1>3, <1>4, <1>5, <1>6, <1>7, <1>8, <1>9 DEF Next, Request

-----------------------------------------------------------------------------
(* The theorems.                                                           *)

LEMMA Inductive == IInv /\ [Next]_vars => IInv'
<1> SUFFICES ASSUME IInv, [Next]_vars PROVE IInv'
  OBVIOUS
<1>1. TypeOK /\ \A l \in Line : Fresh(l)
  BY DEF IInv
<1>2. TypeOK'
  BY <1>1, TypeStep
<1>3. \A l \in Line : Fresh(l)'
  BY <1>1, FreshStep
<1>4. \A l \in Line : l \notin odd' => InStep(l)'
  BY InStepStep
<1> QED BY <1>2, <1>3, <1>4 DEF IInv

LEMMA Initially == Init => IInv
<1> SUFFICES ASSUME Init PROVE IInv
  OBVIOUS
<1>1. TypeOK
  <2>1. \A l \in Line : <<l[2], 0>> \in Key
    BY ClientIOAssumption DEF Line, Key
  <2>2. <<>> \in Seq(Unit) /\ <<>> \in Seq(Frame)
    BY EmptySeq
  <2> QED BY <2>1, <2>2, ClientIOAssumption DEF Init, TypeOK
<1>2. \A l \in Line : Fresh(l)
  BY DEF Init, Fresh
<1>3. \A l \in Line : InStep(l)
  BY DEF Init, InStep
<1> QED BY <1>1, <1>2, <1>3 DEF IInv

\* The two main loops, in any order, with any faults.
LEMMA IInvHolds == Spec => []IInv
BY Initially, Inductive, PTL DEF Spec

\* Types: buffers hold units of frames, keys are of peers, what a closed end
\* had buffered is gone (sharedaemon_client_free).
THEOREM ClientIOTypeCorrect == Spec => []TypeOK
<1>1. IInv => TypeOK
  BY DEF IInv
<1> QED BY <1>1, IInvHolds, PTL

\* cycle_client_request refuses nothing on a line on which only frames of
\* daemons were sent.
THEOREM NoFrameRefused == Spec => []HonestHeard
<1>1. IInv => HonestHeard
  <2> SUFFICES ASSUME IInv, NEW l \in Line, l \notin odd, HasHeader(l)
               PROVE  ~ Bad(l)
    BY DEF HonestHeard
  <2> QED BY Heard DEF IInv
<1> QED BY <1>1, IInvHolds, PTL

-----------------------------------------------------------------------------
\* Whoever has the key a frame is for, gets it.
LEMMA PutUnitsReaches ==
    ASSUME TypeOK, NEW d, NEW n, NEW u \in Seq(Unit), Len(u) > 0, NEW sink, NEW up, NEW key,
           PutUnits(d, n, u, sink, up, key),
           NEW l \in Line, l \in up, l[1] = d, key[l] = sink
    PROVE  Len(out'[l]) > Len(out[l])
<1>1. l \in Targets(d, sink, up, key)
  BY DEF Targets
<1>2. out'[l] = out[l] \o u
  BY <1>1 DEF PutUnits
<1>3. out[l] \in Seq(Unit)
  BY DEF TypeOK
<1>4. Len(out[l] \o u) = Len(out[l]) + Len(u) /\ Len(out[l]) \in Nat /\ Len(u) \in Nat
  BY <1>3, ConcatProperties, LenProperties
<1> QED BY <1>2, <1>4

LEMMA PutReaches ==
    ASSUME TypeOK, NEW d, NEW kind \in Honest, NEW sink, NEW up, NEW key,
           Put(d, kind, sink, up, key),
           NEW l \in Line, l \in up, l[1] = d, key[l] = sink
    PROVE  Len(out'[l]) > Len(out[l])
<1> DEFINE w == Wrapped(New(1, kind))
<1>1. PutUnits(d, 1, w, sink, up, key)
  BY DEF Put
<1>2. sent + 1 \in 1..MaxSends
  BY <1>1, ClientIOAssumption DEF PutUnits, TypeOK
<1>3. New(1, kind) \in Frame
  BY <1>2 DEF New, Frame, Honest
<1>4. w \in Seq(Unit) /\ Len(w) > 0
  BY <1>3, WrappedType
<1> HIDE DEF w
<1> QED BY <1>1, <1>4, PutUnitsReaches

LEMMA PutTwoReaches ==
    ASSUME TypeOK, NEW d, NEW kind1 \in Honest, NEW kind2 \in Honest,
           NEW sink, NEW up, NEW key, PutTwo(d, kind1, kind2, sink, up, key),
           NEW l \in Line, l \in up, l[1] = d, key[l] = sink
    PROVE  Len(out'[l]) > Len(out[l])
<1> DEFINE v == Wrapped(New(1, kind1))
           w == Wrapped(New(2, kind2))
<1>1. PutUnits(d, 2, v \o w, sink, up, key)
  BY DEF PutTwo
<1>2. sent + 1 \in 1..MaxSends /\ sent + 2 \in 1..MaxSends
  BY <1>1, ClientIOAssumption DEF PutUnits, TypeOK
<1>3. New(1, kind1) \in Frame /\ New(2, kind2) \in Frame
  BY <1>2 DEF New, Frame, Honest
<1>4. v \in Seq(Unit) /\ w \in Seq(Unit) /\ Len(v) > 0 /\ Len(v) \in Nat /\ Len(w) \in Nat
  BY <1>3, WrappedType
<1> HIDE DEF v, w
<1>5. v \o w \in Seq(Unit) /\ Len(v \o w) > 0
  BY <1>4, ConcatProperties
<1> QED BY <1>1, <1>5, PutUnitsReaches

\* An answer goes back to where its request came from, for any number of
\* connections that share the key it is sunk to.
THEOREM AnswersReturn == Spec => AnswerReturns
<1>1. ASSUME TypeOK, [Next]_vars, NEW l \in Line, got'[l] # got[l], sent' # sent
      PROVE  Len(out'[Back(l)]) > Len(out[Back(l)])
  <2>1. \E k \in Line : RequestAnswered(k) \/ RequestInit(k)
    BY <1>1 DEF Next, vars, Connect, Broadcast, Stray, Write, Read, Close,
                Request, RequestBad, RequestSilent
  <2>2. PICK k \in Line : RequestAnswered(k) \/ RequestInit(k)
    BY <2>1
  <2>3. k = l
    BY <1>1, <2>2 DEF RequestAnswered, RequestInit, Taken, TypeOK
  <2>4. /\ Back(l) \in Line /\ Back(l) \in open /\ Back(l)[1] = l[2]
    BY <2>2, <2>3, BackIsLine DEF RequestAnswered, RequestInit, Taken, HasHeader, Back
  <2>5. CASE RequestAnswered(l)
    <3>1. Put(l[2], "other", peer[Back(l)], open, peer)
      BY <2>5 DEF RequestAnswered
    <3> QED BY <1>1, <2>4, <3>1, PutReaches DEF Honest
  <2>6. CASE RequestInit(l)
    <3>1. CASE Put(l[2], "init", peer'[Back(l)], open, peer')
      BY <1>1, <2>4, <3>1, PutReaches DEF Honest
    <3>2. CASE Put(l[2], "init", peer[Back(l)], open, peer)
      BY <1>1, <2>4, <3>2, PutReaches DEF Honest
    <3>3. CASE PutTwo(l[2], "other", "init", peer[Back(l)], open, peer)
      BY <1>1, <2>4, <3>3, PutTwoReaches DEF Honest
    <3> QED BY <2>6, <3>1, <3>2, <3>3 DEF RequestInit
  <2> QED BY <2>2, <2>3, <2>5, <2>6
<1>2. TypeOK /\ [Next]_vars =>
        [\A l \in Line :
            (got'[l] # got[l] /\ sent' # sent) => Len(out'[Back(l)]) > Len(out[Back(l)])]_vars
  BY <1>1
<1> QED BY <1>2, ClientIOTypeCorrect, PTL DEF Spec, AnswerReturns
-----------------------------------------------------------------------------
(* A connection is a channel of frames (FrameChannel).  On every line, also *)
(* on those on which strange frames were sent, a frame begins every Size    *)
(* units.  Begun reads the frames off the first of these places; what a     *)
(* step takes from a stream at its beginning or its end, or appends to it,  *)
(* is the same for the frames.                                              *)

Multiple == {q * Size : q \in Int}

\* A unit is as far behind the first one as the numbers of both say.
Aligned(s) == \A i \in 1..Len(s) : s[i].at - s[1].at - (i - 1) \in Multiple

\* The last frame is complete.
Ended(s) == s # <<>> => Len(s) + s[1].at - 1 \in Multiple

LEMMA SizeNat == Size \in Nat \ {0}
BY ClientIOAssumption DEF Size

LEMMA Multiples ==
    /\ 0 \in Multiple /\ Size \in Multiple /\ Multiple \subseteq Int
    /\ \A x, y \in Multiple : x + y \in Multiple /\ x - y \in Multiple
<1>1. 0 = 0 * Size /\ Size = 1 * Size
  BY SizeNat
<1>2. ASSUME NEW q \in Int
      PROVE  q * Size \in Int
  BY SizeNat
<1>3. ASSUME NEW q \in Int, NEW r \in Int
      PROVE  /\ q * Size + r * Size = (q + r) * Size /\ q + r \in Int
             /\ q * Size - r * Size = (q - r) * Size /\ q - r \in Int
  BY SizeNat
<1>4. ASSUME NEW x \in Multiple, NEW y \in Multiple
      PROVE  x + y \in Multiple /\ x - y \in Multiple
  <2>1. PICK q \in Int : x = q * Size
    BY DEF Multiple
  <2>2. PICK r \in Int : y = r * Size
    BY DEF Multiple
  <2>3. x + y = (q + r) * Size /\ q + r \in Int
    BY <1>3, <2>1, <2>2
  <2>4. x - y = (q - r) * Size /\ q - r \in Int
    BY <1>3, <2>1, <2>2
  <2> QED
    BY <2>3, <2>4 DEF Multiple
<1>5. Multiple \subseteq Int
  BY <1>2 DEF Multiple
<1>6. 0 \in Multiple /\ Size \in Multiple
  <2>1. 0 \in Int /\ 1 \in Int
    OBVIOUS
  <2> QED
    BY <1>1, <2>1 DEF Multiple
<1> QED
  BY <1>4, <1>5, <1>6

\* Multiples are Size apart.
LEMMA Apart ==
    ASSUME NEW x \in Multiple
    PROVE  /\ x > 0 - Size => x >= 0
           /\ x >= 0 => \E q \in Nat : x = q * Size
<1>1. PICK q \in Int : x = q * Size
  BY DEF Multiple
<1>2. q >= 0 => x >= 0
  BY <1>1, SizeNat
<1>3. q <= -1 => x <= 0 - Size
  BY <1>1, SizeNat
<1>4. x >= 0 => q >= 0
  BY <1>1, <1>3, SizeNat
<1> QED
  BY <1>1, <1>2, <1>3, <1>4, SizeNat

\* How many there are.
LEMMA Quotient ==
    ASSUME NEW x \in Int, NEW q \in Int
    PROVE  /\ x \div Size \in Int
           /\ q <= x \div Size <=> q * Size <= x
           /\ (x + q * Size) \div Size = (x \div Size) + q
           /\ (x \in 0..Size - 1) => x \div Size = 0
<1>1. /\ x \div Size \in Int /\ x % Size \in 0..Size - 1
      /\ x = Size * (x \div Size) + (x % Size)
  BY SizeNat
<1>2. q <= x \div Size <=> q * Size <= x
  BY <1>1, SizeNat
<1>3. (x + q * Size) \div Size = (x \div Size) + q
  BY SizeNat
<1>4. (x \in 0..Size - 1) => x \div Size = 0
  BY SizeNat
<1> QED
  BY <1>1, <1>2, <1>3, <1>4

Count(s) == (Len(s) + Size - 1 - Lead(s)) \div Size

\* Where the k-th frame begins.
Place(s, k) == Lead(s) + (k - 1) * Size + 1

LEMMA UnitAt ==
    ASSUME NEW s \in Seq(Unit), NEW i \in 1..Len(s)
    PROVE  s[i] \in Unit /\ s[i].at \in 1..Size /\ s[i].frame \in Frame
<1>1. s[i] \in Unit
  BY ElementOfSeq
<1> QED
  BY <1>1 DEF Unit, Size

LEMMA LeadType ==
    ASSUME NEW s \in Seq(Unit)
    PROVE  /\ Lead(s) \in 0..Size - 1 /\ Len(s) \in Nat
           /\ s = <<>> => Lead(s) = 0
           /\ s # <<>> => Lead(s) + s[1].at - 1 \in Multiple /\ 1 \in 1..Len(s)
<1>1. Len(s) \in Nat /\ (s # <<>> => 1 \in 1..Len(s))
  BY LenProperties, EmptySeq
<1>2. CASE s = <<>>
  BY <1>1, <1>2, SizeNat DEF Lead
<1>3. CASE s # <<>>
  <2>1. s[1].at \in 1..Size
    BY <1>1, <1>3, UnitAt
  <2>2. CASE s[1].at = 1
    BY <1>1, <1>3, <2>2, Multiples, SizeNat DEF Lead
  <2>3. CASE s[1].at # 1
    <3>1. Lead(s) = Size + 1 - s[1].at
      BY <1>3, <2>3 DEF Lead
    <3>2. Lead(s) + s[1].at - 1 = Size /\ Lead(s) \in 0..Size - 1
      BY <2>1, <2>3, <3>1, SizeNat
    <3> QED
      BY <1>1, <1>3, <3>2, Multiples
  <2> QED
    BY <2>2, <2>3
<1> QED
  BY <1>2, <1>3

\* The frames are as many as places in the sequence.
LEMMA Places ==
    ASSUME NEW s \in Seq(Unit)
    PROVE  /\ Count(s) \in Nat
           /\ \A k \in Nat \ {0} : k <= Count(s) <=> Place(s, k) <= Len(s)
           /\ \A k \in 1..Count(s) : Place(s, k) \in 1..Len(s)
           /\ \A k \in Int : Place(s, k) \in Int
           /\ s = <<>> => Count(s) = 0
<1> DEFINE x == Len(s) + Size - 1 - Lead(s)
<1>1. Lead(s) \in 0..Size - 1 /\ Len(s) \in Nat /\ x \in Nat /\ (s = <<>> => x \in 0..Size - 1)
  <2>1. s = <<>> => Len(s) = 0
    BY EmptySeq
  <2> QED
    BY <2>1, LeadType, SizeNat
<1>2. Count(s) = x \div Size
  BY DEF Count
<1> HIDE DEF x
<1>3. Count(s) \in Int /\ \A k \in Int : k <= Count(s) <=> k * Size <= x
  <2>1. x \in Int
    BY <1>1
  <2>2. x \div Size \in Int
    BY <2>1, SizeNat
  <2>3. ASSUME NEW k \in Int
        PROVE  k <= x \div Size <=> k * Size <= x
    BY <2>1, Quotient
  <2> QED
    BY <1>2, <2>2, <2>3
<1>4. Count(s) >= 0
  <2>1. 0 * Size <= x
    BY <1>1, SizeNat
  <2> QED
    BY <1>3, <2>1
<1>5. ASSUME NEW k \in Int
      PROVE  /\ Place(s, k) \in Int
             /\ k * Size <= x <=> Place(s, k) <= Len(s)
             /\ k >= 1 => Place(s, k) >= 1
  <2>1. k * Size \in Int /\ (k - 1) * Size = k * Size - Size
    BY SizeNat
  <2>2. k >= 1 => (k - 1) * Size >= 0
    BY SizeNat
  <2> QED
    BY <1>1, <2>1, <2>2, SizeNat DEF x, Place
<1>6. s = <<>> => Count(s) = 0
  BY <1>1, <1>2, Quotient
<1>7. ASSUME NEW k \in Nat \ {0}
      PROVE  k <= Count(s) <=> Place(s, k) <= Len(s)
  BY <1>3, <1>5
<1>8. ASSUME NEW k \in 1..Count(s)
      PROVE  Place(s, k) \in 1..Len(s)
  <2>1. k \in Nat \ {0} /\ k <= Count(s)
    BY <1>3
  <2> QED
    BY <1>1, <1>5, <1>7, <2>1
<1> QED
  BY <1>3, <1>4, <1>5, <1>6, <1>7, <1>8

LEMMA BegunIs ==
    ASSUME NEW s \in Seq(Unit)
    PROVE  /\ Begun(s) \in Seq(Frame) /\ Len(Begun(s)) = Count(s)
           /\ \A k \in 1..Count(s) : Begun(s)[k] = s[Place(s, k)].frame
<1>1. Begun(s) = [k \in 1..Count(s) |-> s[Place(s, k)].frame]
  BY DEF Begun, Count, Place
<1>2. /\ Count(s) \in Nat
      /\ \A k \in 1..Count(s) : Place(s, k) \in 1..Len(s)
  BY Places
<1>3. \A k \in 1..Count(s) : s[Place(s, k)].frame \in Frame
  BY <1>2, UnitAt
<1>4. Begun(s) \in [1..Count(s) -> Frame]
  BY <1>1, <1>3
<1> QED
  BY <1>1, <1>2, <1>4

\* Begun leaves no frame out: a unit is at one of these places if, and only
\* if, it is the first of its frame.
LEMMA BegunIsAll ==
    ASSUME NEW s \in Seq(Unit), Aligned(s), NEW i \in 1..Len(s)
    PROVE  s[i].at = 1 <=> \E k \in 1..Count(s) : i = Place(s, k)
<1>1. /\ Lead(s) \in 0..Size - 1 /\ Len(s) \in Nat /\ i \in 1..Len(s)
      /\ Lead(s) + s[1].at - 1 \in Multiple /\ 1 \in 1..Len(s)
  BY LeadType, EmptySeq
<1>2. s[i].at \in 1..Size /\ s[1].at \in 1..Size
  BY <1>1, UnitAt
<1>3. s[i].at - s[1].at - (i - 1) \in Multiple
  BY DEF Aligned
<1>4. (Lead(s) + s[1].at - 1) + (s[i].at - s[1].at - (i - 1)) \in Multiple
  BY <1>1, <1>3, Multiples
<1>5. Lead(s) + s[i].at - i \in Multiple
  <2>1. /\ Lead(s) \in Int /\ s[i].at \in Int /\ s[1].at \in Int /\ i \in Int
    BY <1>1, <1>2, SizeNat
  <2>2. (Lead(s) + s[1].at - 1) + (s[i].at - s[1].at - (i - 1)) = Lead(s) + s[i].at - i
    BY <2>1
  <2> QED
    BY <1>4, <2>2
<1>6. ASSUME s[i].at = 1
      PROVE  \E k \in 1..Count(s) : i = Place(s, k)
  <2>1. 0 - (Lead(s) + 1 - i) \in Multiple
    BY <1>5, <1>6, Multiples
  <2>2. 0 - (Lead(s) + 1 - i) = i - 1 - Lead(s)
    BY <1>1
  <2>3. PICK q \in Nat : i - 1 - Lead(s) = q * Size
    <3>1. i - 1 - Lead(s) > 0 - Size
      BY <1>1, SizeNat
    <3> QED
      BY <2>1, <2>2, <3>1, Apart
  <2>4. q * Size \in Int /\ ((q + 1) - 1) * Size = q * Size /\ q + 1 \in Nat \ {0}
    BY SizeNat
  <2>5. i = Place(s, q + 1)
    BY <1>1, <2>3, <2>4 DEF Place
  <2> QED
    BY <1>1, <2>4, <2>5, Places
<1>7. ASSUME NEW k \in 1..Count(s), i = Place(s, k)
      PROVE  s[i].at = 1
  <2>1. Count(s) \in Nat
    BY Places
  <2>2. (k - 1) * Size \in Multiple
    BY <2>1 DEF Multiple
  <2>3. i = Lead(s) + (k - 1) * Size + 1
    BY <1>7 DEF Place
  <2>4. (Lead(s) + s[i].at - i) + (k - 1) * Size \in Multiple
    BY <1>5, <2>2, Multiples
  <2>5. (Lead(s) + s[i].at - i) + (k - 1) * Size = s[i].at - 1
    <3>1. (k - 1) * Size \in Int
      BY <2>2, Multiples
    <3>2. Lead(s) \in Int /\ s[i].at \in Int
      BY <1>1, <1>2, SizeNat
    <3> QED
      BY <2>3, <3>1, <3>2
  <2>6. s[i].at - 1 \in Multiple /\ (0 - (s[i].at - 1)) \in Multiple
    BY <2>4, <2>5, Multiples
  <2>7. 0 - (s[i].at - 1) > 0 - Size
    BY <1>2, SizeNat
  <2> QED
    BY <1>2, <2>6, <2>7, Apart
<1> QED
  BY <1>6, <1>7

\* What is left of a stream, when what was taken of it ends where the frame
\* with number m ends, or within the next one: the frames behind number m.
LEMMA BegunShift ==
    ASSUME NEW s \in Seq(Unit), NEW n \in Nat, n <= Len(s), NEW m \in Nat,
           n + Lead(SubSeq(s, n + 1, Len(s))) - Lead(s) = m * Size
    PROVE  /\ m <= Len(Begun(s))
           /\ Begun(SubSeq(s, n + 1, Len(s))) = SubSeq(Begun(s), m + 1, Len(Begun(s)))
<1> DEFINE r == SubSeq(s, n + 1, Len(s))
<1>1. /\ r \in Seq(Unit) /\ Len(r) = Len(s) - n /\ Len(s) \in Nat
      /\ \A i \in 1..Len(s) - n : r[i] = s[n + i]
  BY Rest, LenProperties
<1>2. n + Lead(r) - Lead(s) = m * Size
  OBVIOUS
<1> HIDE DEF r
<1>3. Lead(s) \in 0..Size - 1 /\ Lead(r) \in 0..Size - 1
  BY <1>1, LeadType
<1>4. Count(s) \in Nat /\ Count(r) \in Nat
  BY <1>1, Places
<1>5. Count(s) = Count(r) + m
  <2> DEFINE x == Len(r) + Size - 1 - Lead(r)
  <2>1. x \in Int /\ Len(s) + Size - 1 - Lead(s) = x + m * Size
    <3>1. m * Size \in Int
      BY SizeNat
    <3> QED
      BY <1>1, <1>2, <1>3, <3>1, SizeNat
  <2>2. Count(r) = x \div Size /\ Count(s) = (x + m * Size) \div Size
    BY <2>1 DEF Count
  <2> HIDE DEF x
  <2> QED
    BY <2>1, <2>2, Quotient
<1>6. ASSUME NEW k \in 1..Count(r)
      PROVE  Begun(r)[k] = Begun(s)[m + k]
  <2>1. k \in Int /\ Place(r, k) \in 1..Len(r) /\ m + k \in 1..Count(s)
    <3>1. Place(r, k) \in 1..Len(r)
      BY <1>1, Places
    <3>2. k \in Int /\ m + k \in 1..Count(s)
      BY <1>4, <1>5
    <3> QED
      BY <3>1, <3>2
  <2>2. n + Place(r, k) = Place(s, m + k)
    <3>1. (m + k - 1) * Size = m * Size + (k - 1) * Size
      BY <2>1, SizeNat
    <3>2. m * Size \in Int /\ (k - 1) * Size \in Int /\ Lead(s) \in Int /\ Lead(r) \in Int
      BY <1>3, <2>1, SizeNat
    <3>3. n + (Lead(r) + (k - 1) * Size + 1) = Lead(s) + (m + k - 1) * Size + 1
      <4>1. PICK a \in Int, b \in Int, c \in Int, d \in Int :
               /\ a = m * Size /\ b = (k - 1) * Size
               /\ c = Lead(s) /\ d = Lead(r)
        BY ONLY <3>2
      <4>2. n + d - c = a
        BY ONLY <1>2, <4>1
      <4>3. n + (d + b + 1) = c + (a + b) + 1
        BY ONLY n \in Nat, a \in Int, b \in Int, c \in Int, d \in Int, <4>2
      <4> QED
        BY ONLY <3>1, <4>1, <4>3
    <3> QED
      BY <3>3 DEF Place
  <2>3. r[Place(r, k)] = s[Place(s, m + k)]
    BY <1>1, <2>1, <2>2
  <2> QED
    BY <1>1, <2>1, <2>3, BegunIs
<1> DEFINE b == Begun(s)
           c == SubSeq(b, m + 1, Len(b))
<1>7. b \in Seq(Frame) /\ Len(b) = Count(s) /\ Begun(r) \in Seq(Frame) /\ Len(Begun(r)) = Count(r)
  BY <1>1, BegunIs
<1> HIDE DEF b
<1>8. /\ c \in Seq(Frame) /\ Len(c) = Len(b) - m
      /\ \A i \in 1..Len(b) - m : c[i] = b[m + i]
  BY <1>4, <1>5, <1>7, Rest
<1> HIDE DEF c
<1>9. Begun(r) = c
  <2>1. Len(Begun(r)) = Len(c)
    BY <1>4, <1>5, <1>7, <1>8
  <2>2. \A i \in 1..Len(Begun(r)) : Begun(r)[i] = c[i]
    <3>1. ASSUME NEW i \in 1..Len(Begun(r))
          PROVE  Begun(r)[i] = c[i]
      <4>1. i \in 1..Count(r) /\ i \in 1..Len(b) - m
        BY <1>4, <1>5, <1>7
      <4>2. Begun(r)[i] = b[m + i]
        BY <1>6, <4>1 DEF b
      <4> QED
        BY <1>8, <4>1, <4>2
    <3> QED
      BY <3>1
  <2> QED
    BY <1>7, <1>8, <2>1, <2>2, SeqEqual
<1> QED
  BY <1>4, <1>5, <1>7, <1>9 DEF b, c, r

LEMMA BegunEmpty == Aligned(<<>>) /\ Ended(<<>>) /\ Begun(<<>>) = <<>>
<1>1. <<>> \in Seq(Unit) /\ Len(<<>>) = 0
  BY EmptySeq
<1>2. Begun(<<>>) \in Seq(Frame) /\ Len(Begun(<<>>)) = 0
  <2>1. Count(<<>>) = 0
    BY <1>1, Places
  <2> QED
    BY <1>1, <2>1, BegunIs
<1>3. Begun(<<>>) = <<>>
  BY <1>2, EmptySeq
<1> QED
  BY <1>1, <1>3 DEF Aligned, Ended

\* However much is taken of a stream, the last frames are left.
LEMMA BegunRest ==
    ASSUME NEW s \in Seq(Unit), Aligned(s), NEW n \in Nat, n <= Len(s)
    PROVE  /\ Aligned(SubSeq(s, n + 1, Len(s)))
           /\ Ended(s) => Ended(SubSeq(s, n + 1, Len(s)))
           /\ \E m \in 0..Len(Begun(s)) :
                 Begun(SubSeq(s, n + 1, Len(s))) = SubSeq(Begun(s), m + 1, Len(Begun(s)))
<1> DEFINE r == SubSeq(s, n + 1, Len(s))
<1>1. /\ r \in Seq(Unit) /\ Len(r) = Len(s) - n /\ Len(s) \in Nat
      /\ \A i \in 1..Len(s) - n : r[i] = s[n + i]
  BY Rest, LenProperties
<1> HIDE DEF r
<1>2. CASE r = <<>>
  <2>2. Aligned(r) /\ Ended(r)
    BY <1>2, BegunEmpty
  <2>4. Begun(r) = <<>>
    BY <1>2, BegunEmpty
  <2>5. Begun(s) \in Seq(Frame) /\ Len(Begun(s)) \in Nat
    BY BegunIs, Places
  <2>6. SubSeq(Begun(s), Len(Begun(s)) + 1, Len(Begun(s))) = <<>>
    BY <2>5, SubSeqEmpty
  <2>7. Len(Begun(s)) \in 0..Len(Begun(s))
    BY <2>5
  <2> QED
    BY <2>2, <2>4, <2>6, <2>7 DEF r
<1>3. CASE r # <<>>
  <2>1. 1 \in 1..Len(r) /\ r[1] = s[n + 1] /\ n + 1 \in 1..Len(s) /\ 1 \in 1..Len(s)
    BY <1>1, <1>3, EmptySeq
  <2>10. s # <<>>
    BY <2>1, EmptySeq
  <2>2. s[1].at \in Int /\ r[1].at \in Int
    BY <1>1, <2>1, UnitAt, SizeNat
  <2>3. r[1].at - s[1].at - n \in Multiple
    <3>1. s[n + 1].at - s[1].at - ((n + 1) - 1) \in Multiple
      BY <2>1 DEF Aligned
    <3> QED
      BY <2>1, <3>1
  <2>4. Aligned(r)
    <3>1. SUFFICES ASSUME NEW i \in 1..Len(r)
                   PROVE  r[i].at - r[1].at - (i - 1) \in Multiple
      BY DEF Aligned
    <3>2. n + i \in 1..Len(s) /\ r[i] = s[n + i] /\ r[i].at \in Int
      BY <1>1, UnitAt, SizeNat
    <3>3. r[i].at - s[1].at - ((n + i) - 1) \in Multiple
      BY <3>2 DEF Aligned
    <3>4. (r[i].at - s[1].at - ((n + i) - 1)) - (r[1].at - s[1].at - n) \in Multiple
      BY <2>3, <3>3, Multiples
    <3>5. (r[i].at - s[1].at - ((n + i) - 1)) - (r[1].at - s[1].at - n)
            = r[i].at - r[1].at - (i - 1)
      <4>1. PICK a \in Int, b \in Int, c \in Int :
               a = r[i].at /\ b = s[1].at /\ c = r[1].at
        BY <2>2, <3>2
      <4>2. i \in Int
        OBVIOUS
      <4>3. (a - b - ((n + i) - 1)) - (c - b - n) = a - c - (i - 1)
        BY ONLY a \in Int, b \in Int, c \in Int, n \in Nat, <4>2
      <4> QED
        BY ONLY <4>1, <4>3
    <3> QED
      BY <3>4, <3>5
  <2>5. Ended(s) => Ended(r)
    <3>1. SUFFICES ASSUME Ended(s) PROVE Len(r) + r[1].at - 1 \in Multiple
      BY <1>3 DEF Ended
    <3>2. s # <<>>
      BY <2>1, EmptySeq
    <3>3. Len(s) + s[1].at - 1 \in Multiple
      BY <3>1, <3>2 DEF Ended
    <3>4. (Len(s) + s[1].at - 1) + (r[1].at - s[1].at - n) \in Multiple
      BY <2>3, <3>3, Multiples
    <3>5. (Len(s) + s[1].at - 1) + (r[1].at - s[1].at - n) = Len(r) + r[1].at - 1
      BY <1>1, <2>2
    <3> QED
      BY <3>4, <3>5
  <2>6. PICK m \in Nat : n + Lead(r) - Lead(s) = m * Size
    <3>1. /\ Lead(s) \in 0..Size - 1 /\ Lead(s) + s[1].at - 1 \in Multiple
          /\ Lead(r) \in 0..Size - 1 /\ Lead(r) + r[1].at - 1 \in Multiple
      BY <1>1, <1>3, <2>10, LeadType
    <3>2. (Lead(r) + r[1].at - 1) - (r[1].at - s[1].at - n) \in Multiple
      BY <2>3, <3>1, Multiples
    <3>6. Lead(s) \in Int /\ Lead(r) \in Int
      BY <3>1, SizeNat
    <3>3. ((Lead(r) + r[1].at - 1) - (r[1].at - s[1].at - n)) - (Lead(s) + s[1].at - 1) \in Multiple
      BY <3>1, <3>2, Multiples
    <3>4. ((Lead(r) + r[1].at - 1) - (r[1].at - s[1].at - n)) - (Lead(s) + s[1].at - 1)
            = n + Lead(r) - Lead(s)
      <4>1. ASSUME NEW a \in Int, NEW b \in Int, NEW c \in Int, NEW d \in Int
            PROVE  ((c + a - 1) - (a - b - n)) - (d + b - 1) = n + c - d
        BY ONLY n \in Nat
      <4>2. PICK a \in Int, b \in Int : a = r[1].at /\ b = s[1].at
        BY <2>2
      <4>3. PICK c \in Int, d \in Int : c = Lead(r) /\ d = Lead(s)
        BY <3>6
      <4>4. ((c + a - 1) - (a - b - n)) - (d + b - 1) = n + c - d
        BY <4>1
      <4> QED
        BY ONLY <4>2, <4>3, <4>4
    <3>5. n + Lead(r) - Lead(s) > 0 - Size
      BY <3>1, SizeNat
    <3> QED
      BY <3>3, <3>4, <3>5, Apart
  <2>7. m <= Len(Begun(s)) /\ Begun(r) = SubSeq(Begun(s), m + 1, Len(Begun(s)))
    BY <2>6, BegunShift DEF r
  <2>8. Len(Begun(s)) \in Nat
    BY BegunIs, Places
  <2>9. m \in 0..Len(Begun(s))
    BY <2>7, <2>8
  <2> QED
    BY <2>4, <2>5, <2>7, <2>9 DEF r
<1> QED
  BY <1>2, <1>3 DEF r

\* A whole frame at the beginning of a stream, and what is left without it.
LEMMA BegunFirst ==
    ASSUME NEW s \in Seq(Unit), Aligned(s), Size <= Len(s), s[1].at = 1
    PROVE  /\ Begun(s) # <<>> /\ Head(Begun(s)) = s[1].frame
           /\ Begun(SubSeq(s, Size + 1, Len(s))) = Tail(Begun(s))
<1> DEFINE r == SubSeq(s, Size + 1, Len(s))
<1>1. /\ r \in Seq(Unit) /\ Len(r) = Len(s) - Size /\ Len(s) \in Nat
      /\ \A i \in 1..Len(s) - Size : r[i] = s[Size + i]
  BY Rest, LenProperties, SizeNat
<1> HIDE DEF r
<1>2. Lead(s) = 0
  BY DEF Lead
<1>3. Lead(r) = 0
  <2>1. CASE r = <<>>
    BY <2>1 DEF Lead
  <2>2. CASE r # <<>>
    <3>1. 1 \in 1..Len(r) /\ Size + 1 \in 1..Len(s) /\ r[1] = s[Size + 1]
      BY <1>1, <2>2, EmptySeq, SizeNat
    <3>2. r[1].at \in 1..Size
      BY <1>1, <3>1, UnitAt
    <3>3. r[1].at - 1 - ((Size + 1) - 1) \in Multiple
      BY <3>1 DEF Aligned
    <3>4. (r[1].at - 1 - ((Size + 1) - 1)) + Size \in Multiple
      BY <3>3, Multiples
    <3>8. r[1].at \in Int /\ Size \in Int
      BY <3>2, SizeNat
    <3>5. (r[1].at - 1 - ((Size + 1) - 1)) + Size = r[1].at - 1
      BY <3>8
    <3>6. 0 - (r[1].at - 1) \in Multiple
      BY <3>4, <3>5, Multiples
    <3>9. 0 - (r[1].at - 1) > 0 - Size
      BY <3>2, <3>8
    <3>10. 0 - (r[1].at - 1) >= 0
      BY <3>6, <3>9, Apart
    <3>7. r[1].at = 1
      BY <3>2, <3>8, <3>10
    <3> QED
      BY <3>7 DEF Lead
  <2> QED
    BY <2>1, <2>2
<1>4. Size + Lead(r) - Lead(s) = 1 * Size
  BY <1>2, <1>3, SizeNat
<1>5. 1 <= Len(Begun(s)) /\ Begun(r) = SubSeq(Begun(s), 1 + 1, Len(Begun(s)))
  BY <1>4, BegunShift, SizeNat DEF r
<1>6. Begun(s) \in Seq(Frame) /\ Len(Begun(s)) = Count(s) /\ Count(s) \in Nat
  BY BegunIs, Places
<1>7. Begun(s) # <<>>
  BY <1>5, <1>6, EmptySeq
<1>8. Tail(Begun(s)) = SubSeq(Begun(s), 2, Len(Begun(s)))
  BY <1>6, <1>7, TailIsSubSeq
<1>9. Begun(s)[1] = s[1].frame
  <2>1. 1 \in 1..Count(s)
    BY <1>5, <1>6
  <2>2. Place(s, 1) = 1
    BY <1>2, SizeNat DEF Place
  <2> QED
    BY <2>1, <2>2, BegunIs
<1>10. Head(Begun(s)) = Begun(s)[1]
  <2>1. Head(SubSeq(Begun(s), 1, Len(Begun(s)))) = Begun(s)[1]
    <3>1. 1 \in 1..Len(Begun(s)) /\ Len(Begun(s)) \in 1..Len(Begun(s))
      BY <1>5, <1>6
    <3> QED
      BY <1>6, <3>1, HeadTailOfSubSeq
  <2> QED
    BY <1>6, <2>1, SubSeqFull
<1>11. Begun(r) = Tail(Begun(s))
  BY <1>5, <1>8
<1> QED
  BY <1>7, <1>9, <1>10, <1>11 DEF r

\* What is lost at the end of a stream are the last frames.
LEMMA BegunPrefix ==
    ASSUME NEW t \in Seq(Unit), NEW v \in Seq(Unit), Aligned(t \o v)
    PROVE  /\ Aligned(t)
           /\ \E m \in 0..Len(Begun(t \o v)) : Begun(t) = SubSeq(Begun(t \o v), 1, m)
<1> DEFINE s == t \o v
<1>1. /\ s \in Seq(Unit) /\ Len(t) \in Nat /\ Len(v) \in Nat /\ Len(s) = Len(t) + Len(v)
      /\ \A i \in 1..Len(t) : s[i] = t[i] /\ i \in 1..Len(s)
  BY ConcatProperties, LenProperties
<1>2. Aligned(s)
  OBVIOUS
<1> HIDE DEF s
<1>3. Aligned(t)
  <2>1. ASSUME NEW i \in 1..Len(t)
        PROVE  t[i].at - t[1].at - (i - 1) \in Multiple
    <3>1. 1 \in 1..Len(t)
      BY <1>1
    <3>2. s[i] = t[i] /\ s[1] = t[1] /\ i \in 1..Len(s)
      BY <1>1, <3>1
    <3> QED
      BY <1>2, <3>2 DEF Aligned
  <2> QED
    BY <2>1 DEF Aligned
<1>4. /\ Begun(s) \in Seq(Frame) /\ Len(Begun(s)) = Count(s) /\ Count(s) \in Nat
      /\ Begun(t) \in Seq(Frame) /\ Len(Begun(t)) = Count(t) /\ Count(t) \in Nat
  BY <1>1, BegunIs, Places
<1>5. CASE t = <<>>
  <2>1. Count(t) = 0
    BY <1>5, Places
  <2>2. Begun(t) = <<>>
    BY <1>4, <2>1, EmptySeq
  <2>3. SubSeq(Begun(s), 1, 0) = <<>>
    BY SubSeqEmpty
  <2>4. 0 \in 0..Len(Begun(s))
    BY <1>4
  <2> QED
    BY <1>3, <2>2, <2>3, <2>4 DEF s
<1>6. CASE t # <<>>
  <2>1. 1 \in 1..Len(t) /\ s[1] = t[1] /\ s # <<>>
    <3>1. 1 \in 1..Len(t)
      BY <1>1, <1>6, EmptySeq
    <3> QED
      BY <1>1, <3>1, EmptySeq
  <2>2. Lead(s) = Lead(t)
    BY <1>6, <2>1 DEF Lead
  <2>3. \A k \in Int : Place(s, k) = Place(t, k)
    BY <2>2 DEF Place
  <2>4. ASSUME NEW k \in 1..Count(t)
        PROVE  k \in 1..Count(s) /\ s[Place(s, k)] = t[Place(t, k)]
    <3>1. k \in Nat \ {0} /\ Place(t, k) \in 1..Len(t)
      BY <1>4, Places
    <3>2. Place(s, k) = Place(t, k)
      BY <2>3, <3>1
    <3>3. Place(s, k) <= Len(s) /\ s[Place(s, k)] = t[Place(t, k)]
      BY <1>1, <3>1, <3>2
    <3>4. k <= Count(s)
      BY <1>1, <3>1, <3>3, Places
    <3> QED
      BY <1>4, <3>1, <3>3, <3>4
  <2>5. Count(t) <= Count(s)
    <3>1. Count(t) # 0 => Count(t) \in 1..Count(t)
      BY <1>4
    <3> QED
      BY <1>4, <2>4, <3>1
  <2> DEFINE b == Begun(s)
             c == SubSeq(b, 1, Count(t))
  <2>6. b \in Seq(Frame) /\ Len(b) = Count(s)
    BY <1>4
  <2>7. \A k \in 1..Count(t) : Begun(t)[k] = b[k]
    BY <1>1, <2>4, BegunIs
  <2> HIDE DEF b
  <2>8. /\ c \in Seq(Frame) /\ Len(c) = Count(t)
        /\ \A i \in 1..Count(t) : c[i] = b[i]
    <3>1. \A i \in 1..Count(t) : b[i] \in Frame
      BY <1>4, <2>5, <2>6, ElementOfSeq
    <3>2. /\ c \in Seq(Frame)
          /\ Len(c) = IF 1 <= Count(t) THEN Count(t) - 1 + 1 ELSE 0
          /\ \A i \in 1..Count(t) - 1 + 1 : c[i] = b[1 + i - 1]
      BY <1>4, <3>1, SubSeqProperties
    <3> QED
      BY <1>4, <3>2
  <2> HIDE DEF c
  <2>9. Begun(t) = c
    <3>1. Len(Begun(t)) = Len(c) /\ \A i \in 1..Len(Begun(t)) : Begun(t)[i] = c[i]
      BY <1>4, <2>7, <2>8
    <3> QED
      BY <1>4, <2>8, <3>1, SeqEqual
  <2>10. Count(t) \in 0..Len(Begun(s))
    BY <1>4, <2>5
  <2> QED
    BY <1>3, <2>9, <2>10 DEF b, c, s
<1> QED
  BY <1>5, <1>6

\* A frame that is sent is the last one.
LEMMA BegunAppend ==
    ASSUME NEW s \in Seq(Unit), NEW f \in Frame, Aligned(s), Ended(s)
    PROVE  /\ Aligned(s \o Wrapped(f)) /\ Ended(s \o Wrapped(f))
           /\ Begun(s \o Wrapped(f)) = Append(Begun(s), f)
<1> DEFINE w == Wrapped(f)
           u == s \o w
<1>1. /\ w \in Seq(Unit) /\ Len(w) = Size
      /\ \A i \in 1..Size : w[i].frame = f /\ w[i].at = i
  BY WrappedType
<1> HIDE DEF w
<1>2. /\ u \in Seq(Unit) /\ Len(s) \in Nat /\ Len(u) = Len(s) + Size
      /\ \A i \in 1..Len(s) : u[i] = s[i]
      /\ \A i \in 1..Size : u[Len(s) + i] = w[i]
  <2>1. /\ u \in Seq(Unit) /\ Len(s) \in Nat /\ Len(u) = Len(s) + Size
        /\ \A i \in 1..Len(s) + Size : u[i] = IF i <= Len(s) THEN s[i] ELSE w[i - Len(s)]
    BY <1>1, ConcatProperties, LenProperties
  <2> HIDE DEF u
  <2>2. ASSUME NEW i \in 1..Len(s)
        PROVE  u[i] = s[i]
    BY <2>1, SizeNat
  <2>3. ASSUME NEW i \in 1..Size
        PROVE  u[Len(s) + i] = w[i]
    <3>1. Len(s) + i \in 1..Len(s) + Size /\ ~ (Len(s) + i <= Len(s)) /\ (Len(s) + i) - Len(s) = i
      BY <2>1, SizeNat
    <3> QED
      BY <2>1, <3>1
  <2> QED
    BY <2>1, <2>2, <2>3
<1> HIDE DEF u
<1>3. u # <<>>
  BY <1>2, EmptySeq, SizeNat
<1>4. Lead(s) \in 0..Size - 1 /\ 1 \in 1..Size
  BY LeadType, SizeNat
<1>5. /\ Lead(u) = Lead(s) /\ Len(s) - Lead(s) \in Multiple
      /\ Len(s) + u[1].at - 1 \in Multiple /\ u[1].at \in Int
      /\ s # <<>> => u[1] = s[1]
  <2>1. CASE s = <<>>
    <3>1. Len(s) = 0 /\ Lead(s) = 0
      BY <2>1, LeadType, EmptySeq
    <3>2. u[Len(s) + 1] = w[1]
      BY <1>2, <1>4
    <3>3. u[1].at = 1
      BY <1>1, <1>4, <3>1, <3>2
    <3>4. Lead(u) = 0
      BY <3>3 DEF Lead
    <3> QED
      BY <2>1, <3>1, <3>3, <3>4, Multiples
  <2>2. CASE s # <<>>
    <3>1. 1 \in 1..Len(s) /\ u[1] = s[1]
      BY <1>2, <2>2, LeadType
    <3>2. Lead(u) = Lead(s)
      BY <1>3, <2>2, <3>1 DEF Lead
    <3>3. Lead(s) + s[1].at - 1 \in Multiple /\ Len(s) + s[1].at - 1 \in Multiple /\ s[1].at \in Int
      BY <2>2, <3>1, LeadType, UnitAt, SizeNat DEF Ended
    <3>4. (Len(s) + s[1].at - 1) - (Lead(s) + s[1].at - 1) \in Multiple
      BY <3>3, Multiples
    <3>5. (Len(s) + s[1].at - 1) - (Lead(s) + s[1].at - 1) = Len(s) - Lead(s)
      BY <1>2, <1>4, <3>3, SizeNat
    <3> QED
      BY <3>1, <3>2, <3>3, <3>4, <3>5
  <2> QED
    BY <2>1, <2>2
<1>6. Aligned(u)
  <2>1. ASSUME NEW i \in 1..Len(u)
        PROVE  u[i].at - u[1].at - (i - 1) \in Multiple
    <3>1. CASE i <= Len(s)
      <4>1. i \in 1..Len(s) /\ s # <<>> /\ u[i] = s[i]
        BY <1>2, <3>1, EmptySeq
      <4> QED
        BY <1>5, <4>1 DEF Aligned
    <3>2. CASE i > Len(s)
      <4>1. PICK j \in 1..Size : i = Len(s) + j
        <5>1. i - Len(s) \in 1..Size /\ i = Len(s) + (i - Len(s))
          BY <1>2, <3>2, SizeNat
        <5> QED
          BY <5>1
      <4>2. u[i].at = j
        BY <1>1, <1>2, <4>1
      <4>3. 0 - (Len(s) + u[1].at - 1) \in Multiple
        BY <1>5, Multiples
      <4>4. 0 - (Len(s) + u[1].at - 1) = u[i].at - u[1].at - (i - 1)
        BY <1>2, <1>5, <4>1, <4>2, SizeNat
      <4> QED
        BY <4>3, <4>4
    <3> QED
      BY <1>2, <3>1, <3>2
  <2> QED
    BY <2>1 DEF Aligned
<1>7. Ended(u)
  <2>1. (Len(s) + u[1].at - 1) + Size \in Multiple
    BY <1>5, Multiples
  <2>2. (Len(s) + u[1].at - 1) + Size = Len(u) + u[1].at - 1
    BY <1>2, <1>5, SizeNat
  <2> QED
    BY <2>1, <2>2 DEF Ended
<1>8. PICK q \in Nat : Len(s) - Lead(s) = q * Size
  <2>1. Len(s) - Lead(s) > 0 - Size
    BY <1>2, <1>4, SizeNat
  <2> QED
    BY <1>5, <2>1, Apart
<1>9. Count(s) = q /\ Count(u) = q + 1
  <2>1. q * Size \in Int /\ (q + 1) * Size = q * Size + Size
    BY SizeNat
  <2>2. /\ Len(s) + Size - 1 - Lead(s) = (Size - 1) + q * Size
        /\ Len(u) + Size - 1 - Lead(u) = (Size - 1) + (q + 1) * Size
    <3>1. Lead(s) \in Int /\ Lead(u) = Lead(s) /\ Size \in Int
      BY <1>4, <1>5, SizeNat
    <3> QED
      BY <1>2, <1>8, <2>1, <3>1
  <2>3. Size - 1 \in 0..Size - 1 /\ Size - 1 \in Int
    BY SizeNat
  <2>4. (Size - 1) \div Size = 0
    BY <2>3, Quotient
  <2>5. ((Size - 1) + q * Size) \div Size = 0 + q /\ ((Size - 1) + (q + 1) * Size) \div Size = 0 + (q + 1)
    <3>1. q \in Int /\ q + 1 \in Int
      OBVIOUS
    <3>2. ((Size - 1) + q * Size) \div Size = ((Size - 1) \div Size) + q
      BY <2>3, <3>1, Quotient
    <3>3. ((Size - 1) + (q + 1) * Size) \div Size = ((Size - 1) \div Size) + (q + 1)
      BY <2>3, <3>1, Quotient
    <3> QED
      BY <2>4, <3>2, <3>3
  <2> QED
    BY <2>2, <2>5 DEF Count
<1>10. /\ Begun(s) \in Seq(Frame) /\ Len(Begun(s)) = q
       /\ Begun(u) \in Seq(Frame) /\ Len(Begun(u)) = q + 1
  BY <1>2, <1>9, BegunIs
<1>11. ASSUME NEW k \in 1..q
       PROVE  Begun(u)[k] = Begun(s)[k]
  <2>1. Place(u, k) = Place(s, k) /\ Place(s, k) \in 1..Len(s) /\ k \in 1..Count(u)
    <3>1. Place(u, k) = Place(s, k)
      BY <1>5 DEF Place
    <3>2. k \in 1..Count(s) /\ k \in 1..Count(u)
      BY <1>9
    <3> QED
      BY <3>1, <3>2, Places
  <2>2. u[Place(u, k)] = s[Place(s, k)]
    BY <1>2, <2>1
  <2> QED
    BY <1>2, <1>9, <2>1, <2>2, BegunIs
<1>12. Begun(u)[q + 1] = f
  <2>1. Place(u, q + 1) = Len(s) + 1
    <3>1. ((q + 1) - 1) * Size = q * Size /\ q * Size \in Int
      BY SizeNat
    <3> QED
      BY <1>2, <1>4, <1>5, <1>8, <3>1, SizeNat DEF Place
  <2>2. u[Len(s) + 1].frame = f
    BY <1>1, <1>2, <1>4
  <2>3. q + 1 \in 1..Count(u)
    BY <1>9
  <2> QED
    BY <1>2, <2>1, <2>2, <2>3, BegunIs
<1>13. Begun(u) = Append(Begun(s), f)
  <2> DEFINE a == Append(Begun(s), f)
  <2>1. /\ a \in Seq(Frame) /\ Len(a) = q + 1
        /\ \A i \in 1..q : a[i] = Begun(s)[i]
        /\ a[q + 1] = f
    BY <1>10, AppendProperties
  <2> HIDE DEF a
  <2>2. \A i \in 1..q + 1 : Begun(u)[i] = a[i]
    BY <1>11, <1>12, <2>1
  <2>3. Begun(u) = a
    BY <1>10, <2>1, <2>2, SeqEqual
  <2> QED
    BY <2>3 DEF a
<1> QED
  BY <1>6, <1>7, <1>13 DEF u, w

-----------------------------------------------------------------------------
(* The steps.                                                              *)

\* What is under way on k, to an end that is there.
Flow(k) == IF Back(k) \in open THEN Stream(k) ELSE <<>>

InFrames(k) ==
    /\ Aligned(Flow(k))
    /\ k \in open => Ended(Flow(k))

FrameInv ==
    /\ IInv
    /\ \A k \in Line : InFrames(k)

QueueMap == [k \in Line |-> UnderWay(k)]

LEMMA FlowType ==
    ASSUME TypeOK, NEW k \in Line
    PROVE  /\ Flow(k) \in Seq(Unit) /\ UnderWay(k) = Begun(Flow(k))
           /\ UnderWay(k) \in Seq(Frame)
<1>1. in[k] \in Seq(Unit) /\ wire[k] \in Seq(Unit) /\ out[k] \in Seq(Unit)
  BY DEF TypeOK
<1>2. in[k] \o wire[k] \in Seq(Unit)
  BY <1>1, ConcatProperties
<1>3. Stream(k) \in Seq(Unit)
  BY <1>1, <1>2, ConcatProperties DEF Stream
<1>4. Flow(k) \in Seq(Unit)
  BY <1>3, EmptySeq DEF Flow
<1>5. UnderWay(k) = Begun(Flow(k))
  BY BegunEmpty DEF UnderWay, Flow, Stream
<1> QED
  BY <1>4, <1>5, BegunIs

\* A line whose flow is u, or u with one more frame.
LEMMA Flows ==
    ASSUME TypeOK', NEW k \in Line, NEW u \in Seq(Unit), NEW f \in Frame,
           Aligned(u), k \in open' => Ended(u),
           Flow(k)' = u \/ (k \in open' /\ Flow(k)' = u \o Wrapped(f))
    PROVE  InFrames(k)' /\ UnderWay(k)' \in {Begun(u), Append(Begun(u), f)}
<1>1. UnderWay(k)' = Begun(Flow(k)')
  BY BegunEmpty DEF UnderWay, Flow, Stream
<1>2. InFrames(k)' <=> Aligned(Flow(k)') /\ (k \in open' => Ended(Flow(k)'))
  BY DEF InFrames
<1>3. CASE Flow(k)' = u
  <2>1. Begun(Flow(k)') = Begun(u) /\ Aligned(Flow(k)') /\ (k \in open' => Ended(Flow(k)'))
    BY <1>3
  <2> QED
    BY <1>1, <1>2, <2>1
<1>4. CASE k \in open' /\ Flow(k)' = u \o Wrapped(f)
  <2>1. Aligned(u \o Wrapped(f)) /\ Ended(u \o Wrapped(f)) /\ Begun(u \o Wrapped(f)) = Append(Begun(u), f)
    BY <1>4, BegunAppend
  <2>2. Begun(Flow(k)') = Append(Begun(u), f) /\ Aligned(Flow(k)') /\ Ended(Flow(k)')
    BY <1>4, <2>1
  <2> QED
    BY <1>1, <1>2, <2>2
<1> QED
  BY <1>3, <1>4

\* The same by what happens to the output buffer: u is what is under way
\* before.
LEMMA SentFlow ==
    ASSUME TypeOK, TypeOK', NEW k \in Line, NEW f \in Frame, NEW u \in Seq(Unit),
           Back(k) \in open' => u = (in'[k] \o wire'[k]) \o out[k],
           Back(k) \notin open' => u = <<>>,
           Aligned(u), k \in open' => Ended(u),
           out'[k] = out[k] \/ (k \in open' /\ out'[k] = out[k] \o Wrapped(f))
    PROVE  InFrames(k)' /\ UnderWay(k)' \in {Begun(u), Append(Begun(u), f)}
<1> DEFINE b == in'[k] \o wire'[k]
<1>1. /\ in'[k] \in Seq(Unit) /\ wire'[k] \in Seq(Unit) /\ out[k] \in Seq(Unit)
      /\ Wrapped(f) \in Seq(Unit)
  BY WrappedType DEF TypeOK
<1>2. b \in Seq(Unit)
  BY <1>1, ConcatProperties
<1>3. (b \o out[k]) \o Wrapped(f) = b \o (out[k] \o Wrapped(f))
  BY <1>1, <1>2, Joined
<1>4. CASE Back(k) \notin open'
  <2>1. Flow(k)' = u
    BY <1>4 DEF Flow
  <2> QED
    BY <2>1, Flows
<1>5. CASE Back(k) \in open'
  <2>1. Flow(k)' = b \o out'[k] /\ u = b \o out[k]
    BY <1>5 DEF Flow, Stream
  <2>2. Flow(k)' = u \/ (k \in open' /\ Flow(k)' = u \o Wrapped(f))
    BY <1>3, <2>1
  <2> QED
    BY <2>2, Flows
<1> QED
  BY <1>4, <1>5

\* The same of one frame or two.
Adds(q, f, g, two) == IF two THEN Append(Append(q, f), g) ELSE Append(q, f)

LEMMA AnswerFlow ==
    ASSUME TypeOK, TypeOK', NEW k \in Line, NEW f \in Frame, NEW g \in Frame,
           NEW two \in BOOLEAN, NEW u \in Seq(Unit),
           Back(k) \in open' => u = (in'[k] \o wire'[k]) \o out[k],
           Back(k) \notin open' => u = <<>>,
           Aligned(u), k \in open' => Ended(u),
           out'[k] = out[k] \/ (k \in open' /\ out'[k] = Sends(out[k], f, g, two))
    PROVE  InFrames(k)' /\ UnderWay(k)' \in {Begun(u), Adds(Begun(u), f, g, two)}
<1>1. UnderWay(k)' = Begun(Flow(k)')
  BY BegunEmpty DEF UnderWay, Flow, Stream
<1>2. InFrames(k)' <=> Aligned(Flow(k)') /\ (k \in open' => Ended(Flow(k)'))
  BY DEF InFrames
<1>3. CASE ~ two
  BY <1>3, SentFlow DEF Sends, Adds
<1>4. CASE out'[k] = out[k] \/ Back(k) \notin open'
  <2>1. Flow(k)' = u
    BY <1>4 DEF Flow, Stream
  <2> QED
    BY <1>1, <1>2, <2>1
<1>5. CASE two /\ Back(k) \in open' /\ k \in open' /\ out'[k] = Sends(out[k], f, g, two)
  <2> DEFINE b == in'[k] \o wire'[k]
             o == out[k]
             v == u \o Wrapped(f)
  <2>1. /\ in'[k] \in Seq(Unit) /\ wire'[k] \in Seq(Unit) /\ o \in Seq(Unit)
        /\ Wrapped(f) \in Seq(Unit) /\ Wrapped(g) \in Seq(Unit)
    BY WrappedType DEF TypeOK
  <2>2. b \in Seq(Unit) /\ o \o Wrapped(f) \in Seq(Unit) /\ v \in Seq(Unit)
    BY <2>1, ConcatProperties
  <2>3. Flow(k)' = b \o ((o \o Wrapped(f)) \o Wrapped(g)) /\ u = b \o o
    BY <1>5 DEF Flow, Stream, Sends
  <2> HIDE DEF b, o
  <2>4. /\ Associate(b, o \o Wrapped(f), Wrapped(g))
        /\ Associate(b, o, Wrapped(f))
    BY <2>1, <2>2, JoinedIs
  <2>5. Flow(k)' = v \o Wrapped(g)
    BY <2>3, <2>4 DEF Associate
  <2>6. Aligned(v) /\ Ended(v) /\ Begun(v) = Append(Begun(u), f)
    BY <1>5, BegunAppend
  <2> HIDE DEF v
  <2>7. /\ Aligned(v \o Wrapped(g)) /\ Ended(v \o Wrapped(g))
        /\ Begun(v \o Wrapped(g)) = Append(Begun(v), g)
    BY <2>2, <2>6, BegunAppend
  <2>8. Adds(Begun(u), f, g, two) = Append(Begun(v), g)
    BY <1>5, <2>6 DEF Adds
  <2> QED
    BY <1>1, <1>2, <2>5, <2>7, <2>8
<1> QED
  BY <1>3, <1>4, <1>5

\* A frame on none or some of the lines is one that the channel sends.
LEMMA SendMaps ==
    ASSUME TypeOK, TypeOK', NEW f \in Frame, UNCHANGED <<got, odd>>,
           \A k \in Line : UnderWay(k)' \in {UnderWay(k), Append(UnderWay(k), f)}
    PROVE  Channel!Next
<1>1. \A k \in Line : UnderWay(k) \in Seq(Frame)
  BY FlowType
<1>2. \A k \in Line : UnderWay(k)' \in Seq(Frame)
  BY <1>1, AppendProperties
<1>3. QueueMap' \in [Line -> Seq(Frame)]
  BY <1>2 DEF QueueMap
<1>4. \A k \in Line : QueueMap'[k] \in {QueueMap[k], Append(QueueMap[k], f)}
  BY DEF QueueMap
<1>5. QueueMap' \in Channel!With(QueueMap, f)
  BY <1>3, <1>4 DEF Channel!With
<1>6. Channel!Send
  BY <1>5 DEF Channel!Send, QueueMap
<1> QED
  BY <1>6 DEF Channel!Next

LEMMA BroadcastMaps ==
    ASSUME FrameInv, TypeOK', NEW d \in Daemon, Broadcast(d)
    PROVE  (\A k \in Line : InFrames(k)') /\ Channel!Next
<1>1. TypeOK /\ \A k \in Line : InFrames(k)
  BY DEF FrameInv, IInv
<1>2. UNCHANGED <<open, wire, in, got, odd>>
  BY <1>1, BroadcastStep
<1>3. PICK f \in Frame :
         \A k \in Line : \/ out'[k] = out[k]
                         \/ k \in open /\ out'[k] = out[k] \o Wrapped(f)
  BY <1>1, BroadcastStep
<1>4. ASSUME NEW k \in Line
      PROVE  InFrames(k)' /\ UnderWay(k)' \in {UnderWay(k), Append(UnderWay(k), f)}
  <2>1. PICK u \in Seq(Unit) : u = Flow(k) /\ UnderWay(k) = Begun(u)
    BY <1>1, FlowType
  <2>2. Aligned(u) /\ (k \in open' => Ended(u))
    BY <1>1, <1>2, <2>1 DEF InFrames
  <2>3. /\ Back(k) \in open' => u = (in'[k] \o wire'[k]) \o out[k]
        /\ Back(k) \notin open' => u = <<>>
    BY <1>2, <2>1 DEF Flow, Stream
  <2>4. InFrames(k)' /\ UnderWay(k)' \in {Begun(u), Append(Begun(u), f)}
    BY <1>1, <1>2, <1>3, <2>2, <2>3, SentFlow
  <2> QED
    BY <2>1, <2>4
<1> QED
  BY <1>1, <1>2, <1>4, SendMaps

\* What a new connection begins with is the INIT of the one who made it.
LEMMA ConnectMaps ==
    ASSUME FrameInv, TypeOK', NEW d \in Daemon, NEW e \in Daemon, d # e, Connect(d, e)
    PROVE  (\A k \in Line : InFrames(k)') /\ Channel!Next
<1>1. TypeOK /\ \A k \in Line : InFrames(k) /\ Fresh(k)
  BY DEF FrameInv, IInv
<1>2. /\ UNCHANGED <<wire, in, got, odd>> /\ made' = made + 1 /\ made \in Nat
      /\ open \subseteq open' /\ \A k \in open' \ open : k[3] = made' /\ Back(k) \in open'
  BY <1>1, ConnectStep, ClientIOAssumption DEF TypeOK
<1>3. PICK f \in Frame :
         \A k \in Line : \/ out'[k] = out[k]
                         \/ k \in open' /\ out'[k] = out[k] \o Wrapped(f)
  BY <1>1, ConnectStep
<1>4. ASSUME NEW k \in Line, k[3] = made'
      PROVE  /\ k \notin open /\ Back(k) \notin open
             /\ out[k] = <<>> /\ wire[k] = <<>> /\ in[k] = <<>>
  <2>1. Back(k) \in Line /\ Back(k)[3] = k[3] /\ k[3] > made
    BY <1>2, <1>4, BackIsLine
  <2> QED
    BY <1>1, <2>1 DEF Fresh
<1>5. ASSUME NEW k \in Line
      PROVE  InFrames(k)' /\ UnderWay(k)' \in {UnderWay(k), Append(UnderWay(k), f)}
  <2>1. PICK u \in Seq(Unit) : u = Flow(k) /\ UnderWay(k) = Begun(u)
    BY <1>1, FlowType
  <2>2. Aligned(u) /\ (k \in open => Ended(u))
    BY <1>1, <2>1 DEF InFrames
  <2>3. Back(k) \in Line /\ Back(Back(k)) = k /\ Back(k)[3] = k[3]
    BY BackIsLine
  <2>4. /\ Back(k) \in open' => u = (in'[k] \o wire'[k]) \o out[k]
        /\ Back(k) \notin open' => u = <<>>
        /\ k \in open' => Ended(u)
    <3>1. CASE k \in open' \ open \/ Back(k) \in open' \ open
      <4>1. k[3] = made'
        BY <1>2, <2>3, <3>1
      <4>2. u = <<>> /\ out[k] = <<>> /\ wire[k] = <<>> /\ in[k] = <<>>
        BY <1>4, <2>1, <4>1 DEF Flow
      <4>3. (<<>> \o <<>>) \o <<>> = <<>>
        BY EmptySeq, ConcatEmptySeq
      <4>4. Back(k) \in open' => u = (in'[k] \o wire'[k]) \o out[k]
        BY <1>2, <4>2, <4>3
      <4> QED
        BY <4>2, <4>4, BegunEmpty
    <3>2. CASE ~ (k \in open' \ open) /\ ~ (Back(k) \in open' \ open)
      <4>1. (k \in open' <=> k \in open) /\ (Back(k) \in open' <=> Back(k) \in open)
        BY <1>2, <3>2
      <4> QED
        BY <1>2, <2>1, <2>2, <4>1 DEF Flow, Stream
    <3> QED
      BY <3>1, <3>2
  <2>5. InFrames(k)' /\ UnderWay(k)' \in {Begun(u), Append(Begun(u), f)}
    BY <1>1, <1>3, <2>2, <2>4, SentFlow
  <2> QED
    BY <2>1, <2>5
<1> QED
  BY <1>1, <1>2, <1>5, SendMaps

LEMMA StrayMaps ==
    ASSUME FrameInv, TypeOK', NEW l \in Line, Stray(l)
    PROVE  (\A k \in Line : InFrames(k)') /\ Channel!Next
<1>1. TypeOK /\ \A k \in Line : InFrames(k)
  BY DEF FrameInv, IInv
<1>2. /\ UNCHANGED <<open, wire, in, got>> /\ l \in open /\ odd' = odd \union {l}
      /\ \A k \in Line \ {l} : out'[k] = out[k]
  BY <1>1, StrayStep
<1>3. PICK f \in Frame : out'[l] = out[l] \o Wrapped(f)
  BY <1>1, StrayStep
<1>4. ASSUME NEW k \in Line
      PROVE  /\ InFrames(k)' /\ UnderWay(k)' \in {UnderWay(k), Append(UnderWay(k), f)}
             /\ k # l => UnderWay(k)' = UnderWay(k)
  <2>1. PICK u \in Seq(Unit) : u = Flow(k) /\ UnderWay(k) = Begun(u)
    BY <1>1, FlowType
  <2>2. Aligned(u) /\ (k \in open' => Ended(u))
    BY <1>1, <1>2, <2>1 DEF InFrames
  <2>3. /\ Back(k) \in open' => u = (in'[k] \o wire'[k]) \o out[k]
        /\ Back(k) \notin open' => u = <<>>
    BY <1>2, <2>1 DEF Flow, Stream
  <2>4. out'[k] = out[k] \/ (k \in open' /\ out'[k] = out[k] \o Wrapped(f))
    BY <1>2, <1>3
  <2>5. InFrames(k)' /\ UnderWay(k)' \in {Begun(u), Append(Begun(u), f)}
    BY <1>1, <2>2, <2>3, <2>4, SentFlow
  <2>6. k # l => UnderWay(k)' = UnderWay(k)
    BY <1>2 DEF UnderWay
  <2> QED
    BY <2>1, <2>5, <2>6
<1>5. QueueMap' \in {QueueMap, [QueueMap EXCEPT ![l] = Append(@, f)]}
  BY <1>4 DEF QueueMap
<1>6. Channel!Strange(l)
  BY <1>2, <1>5 DEF Channel!Strange, QueueMap
<1> QED
  BY <1>4, <1>6 DEF Channel!Next

\* A step that moves units along their stream.
LEMMA MoveMaps ==
    ASSUME FrameInv, UNCHANGED <<open, got, odd>>, \A k \in Line : Stream(k)' = Stream(k)
    PROVE  (\A k \in Line : InFrames(k)') /\ UNCHANGED Channel!chan
<1>1. \A k \in Line : InFrames(k)
  BY DEF FrameInv
<1>2. ASSUME NEW k \in Line
      PROVE  Flow(k)' = Flow(k)
  BY DEF Flow
<1>3. ASSUME NEW k \in Line
      PROVE  UnderWay(k)' = UnderWay(k)
  BY <1>2 DEF UnderWay, Stream
<1>4. QueueMap' = QueueMap
  BY <1>3 DEF QueueMap
<1>5. UNCHANGED Channel!chan
  BY <1>4 DEF Channel!chan, QueueMap
<1>6. ASSUME NEW k \in Line
      PROVE  InFrames(k)'
  BY <1>1, <1>2 DEF InFrames
<1> QED
  BY <1>5, <1>6

LEMMA WriteMaps ==
    ASSUME FrameInv, NEW l \in Line, Write(l)
    PROVE  (\A k \in Line : InFrames(k)') /\ UNCHANGED Channel!chan
<1>1. TypeOK
  BY DEF FrameInv, IInv
<1>2. /\ UNCHANGED <<open, in, got, odd>>
      /\ wire' \in [Line -> Seq(Unit)] /\ out' \in [Line -> Seq(Unit)]
      /\ wire'[l] \o out'[l] = wire[l] \o out[l]
      /\ \A k \in Line \ {l} : wire'[k] = wire[k] /\ out'[k] = out[k]
  BY <1>1, WriteStep
<1>3. /\ in[l] \in Seq(Unit) /\ wire[l] \in Seq(Unit) /\ out[l] \in Seq(Unit)
      /\ wire'[l] \in Seq(Unit) /\ out'[l] \in Seq(Unit)
  BY <1>1, <1>2 DEF TypeOK
<1>4. Associate(in[l], wire[l], out[l]) /\ Associate(in[l], wire'[l], out'[l])
  BY ONLY <1>3, JoinedIs
<1>5. (in'[l] \o wire'[l]) \o out'[l] = (in[l] \o wire[l]) \o out[l]
  BY ONLY <1>2, <1>4 DEF Associate
<1>6. ASSUME NEW k \in Line
      PROVE  Stream(k)' = Stream(k)
  BY <1>2, <1>5 DEF Stream
<1> QED
  BY <1>2, <1>6, MoveMaps

LEMMA ReadMaps ==
    ASSUME FrameInv, NEW l \in Line, Read(l)
    PROVE  (\A k \in Line : InFrames(k)') /\ UNCHANGED Channel!chan
<1>1. TypeOK
  BY DEF FrameInv, IInv
<1>2. /\ UNCHANGED <<open, out, got, odd>>
      /\ in'[l] \o wire'[l] = in[l] \o wire[l]
      /\ \A k \in Line \ {l} : wire'[k] = wire[k] /\ in'[k] = in[k]
  BY <1>1, ReadStep
<1>3. ASSUME NEW k \in Line
      PROVE  Stream(k)' = Stream(k)
  BY <1>2 DEF Stream
<1> QED
  BY <1>2, <1>3, MoveMaps

\* What is taken from the input buffer is taken from the stream.
LEMMA StreamBegins ==
    ASSUME NEW i \in Seq(Unit), NEW w \in Seq(Unit), NEW o \in Seq(Unit),
           NEW n \in Nat, n <= Len(i)
    PROVE  /\ i \o w \in Seq(Unit) /\ n <= Len(i \o w)
           /\ (i \o w) \o o \in Seq(Unit) /\ n <= Len((i \o w) \o o)
           /\ SubSeq((i \o w) \o o, n + 1, Len((i \o w) \o o)) \in Seq(Unit)
           /\ \A j \in 1..Len(i) : ((i \o w) \o o)[j] = i[j]
<1> DEFINE s == (i \o w) \o o
<1>1. Len(i) \in Nat /\ Len(w) \in Nat /\ Len(o) \in Nat
  BY LenProperties
<1>2. /\ i \o w \in Seq(Unit) /\ Len(i \o w) = Len(i) + Len(w)
      /\ \A j \in 1..Len(i) : (i \o w)[j] = i[j]
  BY <1>1, ConcatProperties
<1>3. /\ s \in Seq(Unit) /\ Len(s) = Len(i) + Len(w) + Len(o)
      /\ \A j \in 1..Len(i) : s[j] = (i \o w)[j]
  BY <1>1, <1>2, ConcatProperties
<1> HIDE DEF s
<1>4. n <= Len(i \o w) /\ n <= Len(s)
  BY <1>1, <1>2, <1>3
<1>5. SubSeq(s, n + 1, Len(s)) \in Seq(Unit)
  BY <1>3, <1>4, Rest
<1> QED
  BY <1>2, <1>3, <1>4, <1>5 DEF s

RestOf(i, w, o, n) ==
    SubSeq((i \o w) \o o, n + 1, Len((i \o w) \o o))
        = (SubSeq(i, n + 1, Len(i)) \o w) \o o

LEMMA StreamRest ==
    ASSUME NEW i \in Seq(Unit), NEW w \in Seq(Unit), NEW o \in Seq(Unit),
           NEW n \in Nat, n <= Len(i)
    PROVE  RestOf(i, w, o, n)
<1>1. i \o w \in Seq(Unit) /\ n <= Len(i \o w)
  BY StreamBegins
<1>2. SubSeq(i, n + 1, Len(i)) \o w = SubSeq(i \o w, n + 1, Len(i \o w))
  BY RestOfConcat
<1>3. SubSeq(i \o w, n + 1, Len(i \o w)) \o o
        = SubSeq((i \o w) \o o, n + 1, Len((i \o w) \o o))
  BY <1>1, RestOfConcat
<1> QED
  BY ONLY <1>2, <1>3 DEF RestOf

\* What is thrown away are the first frames, and only of a line on which
\* something else was sent (Heard).
LEMMA BadMaps ==
    ASSUME FrameInv, NEW l \in Line, RequestBad(l)
    PROVE  (\A k \in Line : InFrames(k)') /\ Channel!Next
<1>1. TypeOK /\ \A k \in Line : InFrames(k) /\ (k \notin odd => InStep(k))
  BY DEF FrameInv, IInv
<1>2. /\ HasHeader(l) /\ Bad(l) /\ in'[l] = <<>>
      /\ \A k \in Line \ {l} : in'[k] = in[k]
      /\ UNCHANGED <<open, out, wire, got, odd>>
  BY <1>1, BadStep
<1>3. l \in odd /\ Back(l) \in open
  BY <1>1, <1>2, Heard DEF HasHeader
<1>4. in[l] \in Seq(Unit) /\ wire[l] \in Seq(Unit) /\ out[l] \in Seq(Unit)
  BY <1>1 DEF TypeOK
<1>5. PICK n \in Nat : n = Len(in[l])
  BY <1>4, LenProperties
<1>6. PICK s \in Seq(Unit) : s = Flow(l) /\ UnderWay(l) = Begun(s)
  BY <1>1, FlowType
<1>7. s = (in[l] \o wire[l]) \o out[l]
  BY <1>3, <1>6 DEF Flow, Stream
<1>8. n <= Len(s) /\ Flow(l)' = SubSeq(s, n + 1, Len(s))
  <2>1. n + 1 \in Int /\ n \in Int /\ n < n + 1
    OBVIOUS
  <2>2. SubSeq(in[l], n + 1, Len(in[l])) = <<>>
    BY <1>5, <2>1, SubSeqEmpty
  <2>3. n <= Len(s) /\ (<<>> \o wire[l]) \o out[l] = SubSeq(s, n + 1, Len(s))
    <3>1. n <= Len(in[l])
      BY <1>5
    <3>2. /\ n <= Len(s)
          /\ (SubSeq(in[l], n + 1, Len(in[l])) \o wire[l]) \o out[l] = SubSeq(s, n + 1, Len(s))
      <4>1. PICK i \in Seq(Unit), w \in Seq(Unit), o \in Seq(Unit) :
               i = in[l] /\ w = wire[l] /\ o = out[l]
        BY <1>4
      <4>2. n <= Len(i)
        BY <3>1, <4>1
      <4>5. s = (i \o w) \o o
        BY <1>7, <4>1
      <4>3. n <= Len((i \o w) \o o)
        BY <4>2, StreamBegins
      <4>4. SubSeq((i \o w) \o o, n + 1, Len((i \o w) \o o))
              = (SubSeq(i, n + 1, Len(i)) \o w) \o o
        <5>1. RestOf(i, w, o, n)
          BY ONLY i \in Seq(Unit), w \in Seq(Unit), o \in Seq(Unit),
             n \in Nat, <4>2, StreamRest
        <5> QED BY ONLY <5>1 DEF RestOf
      <4> QED
        BY <4>1, <4>3, <4>4, <4>5
    <3> QED
      BY <2>2, <3>2
  <2> QED
    BY <1>2, <1>3, <2>3 DEF Flow, Stream
<1>9. Aligned(s) /\ (l \in open => Ended(s))
  BY <1>1, <1>6 DEF InFrames
<1>10. InFrames(l)'
  <2>1. /\ Aligned(SubSeq(s, n + 1, Len(s)))
        /\ l \in open => Ended(SubSeq(s, n + 1, Len(s)))
    BY <1>8, <1>9, BegunRest
  <2> QED
    BY <1>2, <1>8, <2>1 DEF InFrames
<1>11. PICK m \in 0..Len(Begun(s)) :
         Begun(SubSeq(s, n + 1, Len(s))) = SubSeq(Begun(s), m + 1, Len(Begun(s)))
  BY <1>8, <1>9, BegunRest
<1>12. UnderWay(l)' = SubSeq(UnderWay(l), m + 1, Len(UnderWay(l)))
  <2>1. UnderWay(l)' = Begun(Flow(l)')
    BY BegunEmpty DEF UnderWay, Flow, Stream
  <2> QED
    BY <1>6, <1>8, <1>11, <2>1
<1>13. ASSUME NEW k \in Line, k # l
       PROVE  InFrames(k)' /\ UnderWay(k)' = UnderWay(k)
  <2>1. Flow(k)' = Flow(k)
    BY <1>2, <1>13 DEF Flow, Stream
  <2> QED
    BY <1>1, <1>2, <1>13, <2>1 DEF InFrames, UnderWay
<1>14. QueueMap' = [QueueMap EXCEPT ![l] = SubSeq(@, m + 1, Len(@))]
  BY <1>12, <1>13 DEF QueueMap
<1>15. m \in 0..Len(QueueMap[l])
  BY <1>6 DEF QueueMap
<1>16. Channel!LoseFirst(l)
  BY <1>2, <1>3, <1>14, <1>15 DEF Channel!LoseFirst, QueueMap
<1> QED
  BY <1>10, <1>13, <1>16 DEF Channel!Next

\* What a header claims, is a frame or more.
LEMMA BegunClaimed ==
    ASSUME NEW s \in Seq(Unit), Aligned(s), NEW n \in Nat, Size <= n, n <= Len(s), s[1].at = 1
    PROVE  /\ Begun(s) # <<>> /\ Head(Begun(s)) = s[1].frame
           /\ \E m \in 1..Len(Begun(s)) :
                 /\ Begun(SubSeq(s, n + 1, Len(s))) = SubSeq(Begun(s), m + 1, Len(Begun(s)))
                 /\ m = 1 \/ n > Size
<1> DEFINE r == SubSeq(s, Size + 1, Len(s))
           p == n - Size
<1>1. Size \in Nat /\ Len(s) \in Nat /\ p \in Nat
  BY SizeNat, LenProperties
<1>2. r \in Seq(Unit) /\ Len(r) = Len(s) - Size /\ \A i \in 1..Len(r) : r[i] = s[Size + i]
  BY <1>1, Rest
<1>3. Begun(s) # <<>> /\ Head(Begun(s)) = s[1].frame /\ Begun(r) = Tail(Begun(s))
  BY <1>1, BegunFirst
<1>4. Begun(s) \in Seq(Frame) /\ Len(Begun(s)) \in Nat \ {0}
  BY <1>3, BegunIs, LenProperties, EmptySeq
<1>5. PICK b \in Seq(Frame), c \in Seq(Frame) : b = Begun(s) /\ c = Begun(r)
  BY <1>3, <1>4, HeadTailProperties
<1>6. c = SubSeq(b, 1 + 1, Len(b)) /\ Len(c) = Len(b) - 1 /\ Len(b) \in Nat \ {0}
  <2>1. b # <<>> /\ c = Tail(b) /\ Len(b) \in Nat \ {0}
    BY <1>3, <1>4, <1>5
  <2>2. Tail(b) = SubSeq(b, 2, Len(b)) /\ Len(Tail(b)) = Len(b) - 1
    BY <2>1, TailIsSubSeq, HeadTailProperties
  <2> QED
    BY <2>1, <2>2
<1>7. CASE n = Size
  BY <1>1, <1>3, <1>4, <1>5, <1>6, <1>7
<1>8. CASE n > Size
  <2>1. Aligned(r)
    <3>1. PICK k \in Nat : k = Size /\ k <= Len(s)
      BY <1>1
    <3>2. Aligned(SubSeq(s, k + 1, Len(s)))
      BY <3>1, BegunRest
    <3> QED
      BY <3>1, <3>2
  <2>2. PICK t \in Seq(Unit) : t = r /\ t = SubSeq(s, Size + 1, Len(s))
    BY <1>2
  <2>c. c = Begun(t)
    BY <1>5, <2>2
  <2> HIDE DEF r
  <2>3. p <= Len(t)
    BY <1>1, <1>2, <2>2
  <2>4. PICK m \in 0..Len(Begun(t)) :
           Begun(SubSeq(t, p + 1, Len(t))) = SubSeq(Begun(t), m + 1, Len(Begun(t)))
    BY <1>1, <2>1, <2>2, <2>3, BegunRest
  <2>5. SubSeq(t, p + 1, Len(t)) = SubSeq(s, n + 1, Len(s))
    <3>1. SubSeq(t, p + 1, Len(t)) = SubSeq(s, Size + p + 1, Len(s))
      BY <1>1, <2>2, <2>3, RestOfRest
    <3>2. Size + p + 1 = n + 1
      BY <1>1
    <3> QED
      BY <3>1, <3>2
  <2>6. SubSeq(c, m + 1, Len(c)) = SubSeq(b, 1 + m + 1, Len(b))
    <3>1. m \in Nat /\ m <= Len(c) /\ 1 <= Len(b)
      BY <1>6, <2>c, <2>4
    <3> QED
      BY <1>6, <3>1, RestOfRest
  <2>7. m + 1 \in 1..Len(b) /\ 1 + m + 1 = (m + 1) + 1
    BY <1>6, <2>c, <2>4
  <2>8. Begun(SubSeq(s, n + 1, Len(s))) = SubSeq(Begun(s), (m + 1) + 1, Len(Begun(s)))
    BY <1>5, <2>c, <2>4, <2>5, <2>6, <2>7
  <2> QED
    BY <1>3, <1>5, <1>8, <2>7, <2>8
<1> QED
  BY <1>1, <1>7, <1>8

\* A request takes the first frame, whole, and what its header claims of those
\* behind it; its answer is sent like any frame, or two.
LEMMA TakenMaps ==
    ASSUME FrameInv, TypeOK', NEW l \in Line,
           RequestSilent(l) \/ RequestAnswered(l) \/ RequestInit(l)
    PROVE  (\A k \in Line : InFrames(k)') /\ Channel!Next
<1>1. TypeOK /\ \A k \in Line : InFrames(k) /\ (k \notin odd => InStep(k))
  BY DEF FrameInv, IInv
<1>2. Taken(l)
  BY <1>1, RequestStep
<1>n. PICK n \in Nat : n = Claimed(First(l))
  BY <1>1, <1>2, TakenStep
<1>3. /\ Back(l) \in open /\ in[l] # <<>> /\ n <= Len(in[l]) /\ in[l][1].at = 1
      /\ got' = [got EXCEPT ![l] = Append(got[l], in[l][1].frame)]
      /\ in'[l] = SubSeq(in[l], n + 1, Len(in[l]))
      /\ \A k \in Line \ {l} : in'[k] = in[k]
      /\ UNCHANGED <<open, wire, odd>>
  BY <1>1, <1>2, <1>n, TakenStep
<1>o. Size <= n /\ (l \notin odd => n = Size)
  <2>1. Size <= n /\ (First(l).kind \in Honest => n = Size)
    BY <1>1, <1>2, <1>n, TakenStep
  <2>2. HasHeader(l)
    BY <1>2 DEF Taken
  <2> QED
    BY <1>1, <2>1, <2>2, Heard
<1>4. in[l] \in Seq(Unit) /\ wire[l] \in Seq(Unit) /\ out[l] \in Seq(Unit)
  BY <1>1 DEF TypeOK
<1>5. 1 \in 1..Len(in[l])
  BY <1>3, <1>4, EmptySeq
<1>6. PICK s \in Seq(Unit) : s = Flow(l) /\ UnderWay(l) = Begun(s)
  BY <1>1, FlowType
<1>7. s = (in[l] \o wire[l]) \o out[l]
  BY <1>3, <1>6 DEF Flow, Stream
<1>8. Aligned(s) /\ (l \in open => Ended(s))
  BY <1>1, <1>6 DEF InFrames
<1>9. /\ n <= Len(s) /\ s[1] = in[l][1]
      /\ (SubSeq(in[l], n + 1, Len(in[l])) \o wire[l]) \o out[l] = SubSeq(s, n + 1, Len(s))
      /\ SubSeq(s, n + 1, Len(s)) \in Seq(Unit)
  <2>1. /\ n <= Len(s) /\ \A j \in 1..Len(in[l]) : s[j] = in[l][j]
        /\ (SubSeq(in[l], n + 1, Len(in[l])) \o wire[l]) \o out[l] = SubSeq(s, n + 1, Len(s))
        /\ SubSeq(s, n + 1, Len(s)) \in Seq(Unit)
    <3>1. PICK i \in Seq(Unit), w \in Seq(Unit), o \in Seq(Unit) :
             i = in[l] /\ w = wire[l] /\ o = out[l]
      BY <1>4
    <3>2. n <= Len(i)
      BY <1>3, <3>1
    <3>3. s = (i \o w) \o o
      BY <1>7, <3>1
    <3>4. n <= Len((i \o w) \o o)
      BY <3>2, StreamBegins
    <3>5. \A j \in 1..Len(i) : ((i \o w) \o o)[j] = i[j]
      BY <3>2, StreamBegins
    <3>6. SubSeq((i \o w) \o o, n + 1, Len((i \o w) \o o))
            = (SubSeq(i, n + 1, Len(i)) \o w) \o o
      <4>1. RestOf(i, w, o, n)
        BY ONLY i \in Seq(Unit), w \in Seq(Unit), o \in Seq(Unit),
           n \in Nat, <3>2, StreamRest
      <4> QED BY ONLY <4>1 DEF RestOf
    <3>7. SubSeq((i \o w) \o o, n + 1, Len((i \o w) \o o)) \in Seq(Unit)
      BY <3>2, StreamBegins, Zenon
    <3> QED
      BY <3>1, <3>3, <3>4, <3>5, <3>6, <3>7
  <2> QED
    BY <1>5, <2>1
<1>10. PICK r \in Seq(Unit) : r = SubSeq(s, n + 1, Len(s))
  BY <1>9
<1>11. r = (in'[l] \o wire'[l]) \o out[l]
  BY <1>3, <1>9, <1>10
<1>12. Aligned(r) /\ (l \in open' => Ended(r))
  BY <1>3, <1>8, <1>9, <1>10, BegunRest
<1>13. /\ Begun(s) # <<>> /\ Head(Begun(s)) = in[l][1].frame
       /\ \E m \in 1..Len(Begun(s)) :
             /\ Begun(r) = SubSeq(Begun(s), m + 1, Len(Begun(s)))
             /\ m = 1 \/ l \in odd
  <2>1. Size <= n /\ n <= Len(s) /\ s[1].at = 1 /\ s[1] = in[l][1]
    BY <1>3, <1>9, <1>o
  <2>2. /\ Begun(s) # <<>> /\ Head(Begun(s)) = s[1].frame
        /\ \E m \in 1..Len(Begun(s)) :
              /\ Begun(SubSeq(s, n + 1, Len(s))) = SubSeq(Begun(s), m + 1, Len(Begun(s)))
              /\ m = 1 \/ n > Size
    BY <1>8, <2>1, BegunClaimed
  <2>3. n > Size => l \in odd
    BY <1>o, SizeNat
  <2> QED
    BY <1>10, <2>1, <2>2, <2>3
<1>14. in[l][1].frame \in Frame
  BY <1>4, <1>5, UnitAt
<1>15. PICK f \in Frame, g \in Frame, two \in BOOLEAN :
         \A k \in Line : \/ out'[k] = out[k]
                         \/ k \in open /\ out'[k] = Sends(out[k], f, g, two)
  BY <1>1, <1>14, RequestStep
<1>16. InFrames(l)' /\ UnderWay(l)' \in {Begun(r), Adds(Begun(r), f, g, two)}
  BY <1>1, <1>3, <1>11, <1>12, <1>15, AnswerFlow
<1>17. ASSUME NEW k \in Line, k # l
       PROVE  InFrames(k)' /\ UnderWay(k)' \in {UnderWay(k), Adds(UnderWay(k), f, g, two)}
  <2>1. PICK u \in Seq(Unit) : u = Flow(k) /\ UnderWay(k) = Begun(u)
    BY <1>1, FlowType
  <2>2. Aligned(u) /\ (k \in open' => Ended(u))
    BY <1>1, <1>3, <2>1 DEF InFrames
  <2>3. /\ Back(k) \in open' => u = (in'[k] \o wire'[k]) \o out[k]
        /\ Back(k) \notin open' => u = <<>>
    BY <1>3, <1>17, <2>1 DEF Flow, Stream
  <2>4. InFrames(k)' /\ UnderWay(k)' \in {Begun(u), Adds(Begun(u), f, g, two)}
    BY <1>1, <1>3, <1>15, <2>2, <2>3, AnswerFlow
  <2> QED
    BY <2>1, <2>4
<1>p. PICK m \in 1..Len(Begun(s)) :
         Begun(r) = SubSeq(Begun(s), m + 1, Len(Begun(s))) /\ (m = 1 \/ l \in odd)
  BY <1>13
<1>18. PICK q \in [Line -> Seq(Frame)] :
          q = [QueueMap EXCEPT ![l] = SubSeq(@, m + 1, Len(@))]
  <2>1. \A k \in Line : UnderWay(k) \in Seq(Frame)
    BY <1>1, FlowType
  <2>2. QueueMap \in [Line -> Seq(Frame)] /\ QueueMap[l] = Begun(s)
    BY <1>6, <2>1 DEF QueueMap
  <2>3. SubSeq(Begun(s), m + 1, Len(Begun(s))) \in Seq(Frame)
    BY <1>p, BegunIs
  <2> QED
    BY <2>2, <2>3
<1>19. QueueMap[l] = Begun(s) /\ q[l] = Begun(r) /\ \A k \in Line \ {l} : q[k] = UnderWay(k)
  BY <1>6, <1>p, <1>18 DEF QueueMap
<1>20. \/ QueueMap' \in Channel!With(q, f)
       \/ QueueMap' \in Channel!WithTwo(q, f, g)
  <2>1. \A k \in Line : UnderWay(k)' \in {q[k], Adds(q[k], f, g, two)}
    BY <1>16, <1>17, <1>19
  <2>2. ASSUME NEW k \in Line
        PROVE  UnderWay(k)' \in Seq(Frame)
    <3>1. q[k] \in Seq(Frame)
      BY <1>18
    <3>2. Append(q[k], f) \in Seq(Frame)
      BY <3>1, AppendProperties
    <3>3. Append(Append(q[k], f), g) \in Seq(Frame)
      BY <3>2, AppendProperties
    <3> QED
      BY <2>1, <3>1, <3>2, <3>3 DEF Adds
  <2>3. QueueMap' = [k \in Line |-> UnderWay(k)']
    BY DEF QueueMap
  <2>4. CASE two
    <3>1. \A k \in Line : UnderWay(k)' \in {q[k], Append(Append(q[k], f), g)}
      BY <2>1, <2>4 DEF Adds
    <3> QED
      BY <2>2, <2>3, <3>1 DEF Channel!WithTwo
  <2>5. CASE ~ two
    <3>1. \A k \in Line : UnderWay(k)' \in {q[k], Append(q[k], f)}
      BY <2>1, <2>5 DEF Adds
    <3> QED
      BY <2>2, <2>3, <3>1 DEF Channel!With
  <2> QED
    BY <2>4, <2>5
<1>21. /\ QueueMap[l] # <<>> /\ m \in 1..Len(QueueMap[l])
       /\ got' = [got EXCEPT ![l] = Append(@, Head(QueueMap[l]))]
       /\ LET rest == [QueueMap EXCEPT ![l] = SubSeq(@, m + 1, Len(@))]
          IN  QueueMap' \in Channel!With(rest, f) \/ QueueMap' \in Channel!WithTwo(rest, f, g)
  BY <1>3, <1>13, <1>18, <1>19, <1>20
<1>22. Channel!Take(l)
  BY <1>3, <1>p, <1>21 DEF Channel!Take, QueueMap
<1> QED
  BY <1>16, <1>17, <1>22 DEF Channel!Next

\* The end of l that is closed gets no more, and the other end not all.
LEMMA CloseMaps ==
    ASSUME FrameInv, TypeOK', NEW l \in Line, Close(l)
    PROVE  (\A k \in Line : InFrames(k)') /\ Channel!Next
<1>1. TypeOK /\ \A k \in Line : InFrames(k)
  BY DEF FrameInv, IInv
<1>2. /\ l \in open /\ open' = open \ {l} /\ out'[l] = <<>> /\ in'[Back(l)] = <<>>
      /\ \A k \in Line \ {l} : out'[k] = out[k]
      /\ \A k \in Line \ {Back(l)} : in'[k] = in[k]
      /\ \A k \in Line : wire'[k] \in {wire[k], <<>>}
      /\ \A k \in Line \ {l, Back(l)} : wire'[k] = wire[k]
      /\ UNCHANGED <<got, odd>>
  BY <1>1, CloseStep
<1>3. Back(l) \in Line /\ Back(Back(l)) = l /\ Back(l) # l
  BY BackIsLine
<1>4. ASSUME NEW k \in Line, k # l, k # Back(l)
      PROVE  InFrames(k)' /\ UnderWay(k)' = UnderWay(k)
  <2>1. Back(Back(k)) = k
    BY BackIsLine
  <2>2. Back(k) # l
    BY <1>4, <2>1
  <2>3. Flow(k)' = Flow(k)
    BY <1>2, <1>4, <2>2 DEF Flow, Stream
  <2>4. UnderWay(k)' = UnderWay(k)
    BY <1>2, <1>4, <2>2 DEF UnderWay
  <2>5. k \in open' <=> k \in open
    BY <1>2, <1>4
  <2> QED
    BY <1>1, <2>3, <2>4, <2>5 DEF InFrames
<1>5. InFrames(Back(l))' /\ UnderWay(Back(l))' = <<>>
  <2>1. Flow(Back(l))' = <<>> /\ UnderWay(Back(l))' = <<>>
    BY <1>2, <1>3 DEF Flow, UnderWay
  <2> QED
    BY <2>1, BegunEmpty DEF InFrames
<1>6. PICK s \in Seq(Unit) : s = Flow(l) /\ UnderWay(l) = Begun(s)
  BY <1>1, FlowType
<1>7. Aligned(s)
  BY <1>1, <1>6 DEF InFrames
<1>8. in[l] \in Seq(Unit) /\ wire[l] \in Seq(Unit) /\ out[l] \in Seq(Unit) /\ <<>> \in Seq(Unit)
  BY <1>1 DEF TypeOK
<1>9. \E t, v \in Seq(Unit) : Flow(l)' = t /\ s = t \o v
  <2>1. CASE Back(l) \notin open
    <3>1. s = <<>> /\ Flow(l)' = <<>>
      BY <1>2, <1>6, <2>1 DEF Flow
    <3> QED
      BY <1>8, <3>1, ConcatEmptySeq
  <2>2. CASE Back(l) \in open
    <3>1. s = (in[l] \o wire[l]) \o out[l]
      BY <1>6, <2>2 DEF Flow, Stream
    <3>2. Flow(l)' = (in[l] \o wire'[l]) \o <<>>
      BY <1>2, <1>3, <2>2 DEF Flow, Stream
    <3>3. in[l] \o wire[l] \in Seq(Unit) /\ wire[l] \o out[l] \in Seq(Unit)
      BY <1>8, ConcatProperties
    <3>4. CASE wire'[l] = wire[l]
      <4>1. Flow(l)' = in[l] \o wire[l]
        BY <3>2, <3>3, <3>4, ConcatEmptySeq
      <4> QED
        BY <1>8, <3>1, <3>3, <4>1
    <3>5. CASE wire'[l] = <<>>
      <4>1. in[l] \o <<>> = in[l]
        BY <1>8, ConcatEmptySeq
      <4>2. Flow(l)' = in[l]
        BY <3>2, <3>5, <4>1
      <4>4. Associate(in[l], wire[l], out[l])
        BY ONLY <1>8, JoinedIs
      <4>3. (in[l] \o wire[l]) \o out[l] = in[l] \o (wire[l] \o out[l])
        BY ONLY <4>4 DEF Associate
      <4> QED
        BY <1>8, <3>1, <3>3, <4>2, <4>3
    <3> QED
      BY <1>2, <3>4, <3>5
  <2> QED
    BY <2>1, <2>2
<1>10. PICK t, v \in Seq(Unit) : Flow(l)' = t /\ s = t \o v
  BY <1>9
<1>11. /\ Aligned(t)
       /\ \E m \in 0..Len(Begun(s)) : Begun(t) = SubSeq(Begun(s), 1, m)
  BY <1>7, <1>10, BegunPrefix
<1>12. PICK m \in 0..Len(Begun(s)) : Begun(t) = SubSeq(Begun(s), 1, m)
  BY <1>11
<1>13. InFrames(l)' /\ UnderWay(l)' = SubSeq(UnderWay(l), 1, m)
  <2>1. UnderWay(l)' = Begun(Flow(l)')
    BY BegunEmpty DEF UnderWay, Flow, Stream
  <2>2. l \notin open'
    BY <1>2
  <2> QED
    BY <1>6, <1>10, <1>11, <1>12, <2>1, <2>2 DEF InFrames
<1>14. UnderWay(Back(l))' = SubSeq(UnderWay(Back(l)), 1, 0)
  BY <1>5, SubSeqEmpty
<1>15. /\ QueueMap' = [QueueMap EXCEPT ![l] = SubSeq(@, 1, m), ![Back(l)] = SubSeq(@, 1, 0)]
       /\ m \in 0..Len(QueueMap[l]) /\ 0 \in 0..Len(QueueMap[Back(l)])
  <2>1. \A k \in Line : UnderWay(k) \in Seq(Frame)
    BY <1>1, FlowType
  <2>2. Len(UnderWay(Back(l))) \in Nat
    BY <1>3, <2>1, LenProperties
  <2>3. m \in 0..Len(QueueMap[l]) /\ 0 \in 0..Len(QueueMap[Back(l)])
    BY <1>3, <1>6, <2>2 DEF QueueMap
  <2>4. QueueMap' = [QueueMap EXCEPT ![l] = SubSeq(@, 1, m), ![Back(l)] = SubSeq(@, 1, 0)]
    BY <1>3, <1>4, <1>13, <1>14 DEF QueueMap
  <2> QED
    BY <2>3, <2>4
<1>16. Channel!Cut(l, Back(l))
  BY <1>2, <1>15 DEF Channel!Cut, QueueMap
<1>17. \A k \in Line : InFrames(k)'
  BY <1>4, <1>5, <1>13
<1>18. Channel!Next
  BY <1>3, <1>16 DEF Channel!Next
<1> QED
  BY <1>17, <1>18

\* Every step keeps the frames and is one of the channel, or changes nothing
\* of it.
LEMMA FrameStep ==
    ASSUME FrameInv, [Next]_vars
    PROVE  FrameInv' /\ [Channel!Next]_(Channel!chan)
<1>1. IInv /\ IInv' /\ TypeOK'
  BY Inductive DEF FrameInv, IInv
<1> SUFFICES (\A k \in Line : InFrames(k)') /\ [Channel!Next]_(Channel!chan)
  BY <1>1 DEF FrameInv
<1>2. ASSUME NEW d \in Daemon, NEW e \in Daemon, d # e, Connect(d, e)
      PROVE  (\A k \in Line : InFrames(k)') /\ Channel!Next
  BY <1>1, <1>2, ConnectMaps
<1>3. ASSUME NEW d \in Daemon, Broadcast(d)
      PROVE  (\A k \in Line : InFrames(k)') /\ Channel!Next
  BY <1>1, <1>3, BroadcastMaps
<1>4. ASSUME NEW l \in Line, Stray(l)
      PROVE  (\A k \in Line : InFrames(k)') /\ Channel!Next
  BY <1>1, <1>4, StrayMaps
<1>5. ASSUME NEW l \in Line, Write(l)
      PROVE  (\A k \in Line : InFrames(k)') /\ UNCHANGED Channel!chan
  BY <1>5, WriteMaps
<1>6. ASSUME NEW l \in Line, Read(l)
      PROVE  (\A k \in Line : InFrames(k)') /\ UNCHANGED Channel!chan
  BY <1>6, ReadMaps
<1>7. ASSUME NEW l \in Line, Request(l)
      PROVE  (\A k \in Line : InFrames(k)') /\ Channel!Next
  BY <1>1, <1>7, BadMaps, TakenMaps DEF Request
<1>8. ASSUME NEW l \in Line, Close(l)
      PROVE  (\A k \in Line : InFrames(k)') /\ Channel!Next
  BY <1>1, <1>8, CloseMaps
<1>9. CASE UNCHANGED vars
  <2>1. UNCHANGED <<open, got, odd>> /\ \A k \in Line : Stream(k)' = Stream(k)
    BY <1>9 DEF vars, Stream
  <2> QED
    BY <2>1, MoveMaps
<1> QED
  BY <1>2, <1>3, <1>4, <1>5, <1>6, <1>7, <1>8, <1>9 DEF Next

\* Buffers, sockets and cycle_client_request together are a channel of frames,
\* for any number of daemons, connections and frames, of any length, wherever
\* writing and reading stop, and whatever else is sent: frames are taken
\* whole, each once and in their order, and lost only at an end that is
\* closed, or behind something that is no frame of a daemon.
THEOREM FramesAreChannel == Spec => ImplementsChannel
<1>1. Init => FrameInv /\ Channel!Init
  <2> SUFFICES ASSUME Init PROVE FrameInv /\ Channel!Init
    OBVIOUS
  <2>1. open = {} /\ got = [l \in Line |-> <<>>] /\ odd = {}
    BY DEF Init
  <2>2. \A k \in Line : Flow(k) = <<>> /\ UnderWay(k) = <<>>
    BY <2>1 DEF Flow, UnderWay
  <2>3. FrameInv
    BY <2>2, Initially, BegunEmpty DEF FrameInv, InFrames
  <2>4. Channel!Init
    BY <2>1, <2>2 DEF Channel!Init
  <2> QED
    BY <2>3, <2>4
<1>2. FrameInv /\ [Next]_vars => FrameInv' /\ [Channel!Next]_(Channel!chan)
  BY FrameStep
<1> QED
  BY <1>1, <1>2, PTL DEF Spec, ImplementsChannel, Channel!Spec
=============================================================================
