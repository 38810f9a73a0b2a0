--------------------------- MODULE FileSyncProofs ---------------------------
(***************************************************************************)
(* The exchange of TX_FILE, for any file contents, number of connections   *)
(* and events: types; and, for two daemons, that nobody is sent contents   *)
(* who did not ask, and that the newest file is kept.                      *)
(***************************************************************************)
EXTENDS FileSyncProps, SequenceTheorems, TLAPS

\* The contents of files are sequences of bounded length.
LEMMA DataSeq ==
    ASSUME NEW x \in Data
    PROVE  x \in Seq(Byte) /\ Len(x) \in 0..MaxLen
<1>1. PICK n \in 0..MaxLen : x \in [1..n -> Byte]
  BY DEF Data
<1>2. n \in Nat
  BY FileSyncAssumption
<1>3. x \in Seq(Byte) /\ Len(x) = n
  BY <1>1, <1>2
<1> QED
  BY <1>3

LEMMA DataOf ==
    ASSUME NEW x \in Seq(Byte), Len(x) <= MaxLen
    PROVE  x \in Data
<1>1. Len(x) \in Nat /\ x \in [1..Len(x) -> Byte]
  BY LenProperties
<1>2. Len(x) \in 0..MaxLen
  BY <1>1, FileSyncAssumption
<1> QED
  BY <1>1, <1>2 DEF Data

\* A segment of a file is as long as it should be.
LEMMA SegmentData ==
    ASSUME NEW x \in Data, NEW i \in Nat, NEW j \in Nat, i <= j, j <= Len(x)
    PROVE  SubSeq(x, i + 1, j) \in Data /\ Len(SubSeq(x, i + 1, j)) = j - i
<1>1. x \in Seq(Byte) /\ Len(x) \in 0..MaxLen
  BY DataSeq
<1>2. /\ SubSeq(x, i + 1, j) \in Seq(Byte)
      /\ Len(SubSeq(x, i + 1, j)) = IF i + 1 <= j THEN j - (i + 1) + 1 ELSE 0
  <2>1. \A k \in i + 1..j : x[k] \in Byte
    BY <1>1, ElementOfSeq
  <2> QED
    BY <1>1, <2>1, SubSeqProperties
<1>3. Len(SubSeq(x, i + 1, j)) = j - i
  BY <1>2
<1> QED
  <2>1. Len(SubSeq(x, i + 1, j)) <= MaxLen
    BY <1>1, <1>3, FileSyncAssumption
  <2> QED
    BY <1>2, <1>3, <2>1, DataOf

\* What is written over has the length of the longer one.
LEMMA OverlaidData ==
    ASSUME NEW x \in Data, NEW y \in Data
    PROVE  Overlaid(x, y) \in Data
<1>1. /\ x \in Seq(Byte) /\ Len(x) \in 0..MaxLen
      /\ y \in Seq(Byte) /\ Len(y) \in 0..MaxLen
  BY DataSeq
<1> DEFINE rest == SubSeq(x, Len(y) + 1, Len(x))
<1>2. CASE Len(y) <= Len(x)
  <2>1. rest \in Data /\ Len(rest) = Len(x) - Len(y)
    BY <1>1, <1>2, SegmentData
  <2>2. rest \in Seq(Byte)
    BY <2>1, DataSeq
  <2> HIDE DEF rest
  <2>3. y \o rest \in Seq(Byte) /\ Len(y \o rest) = Len(x)
    BY <1>1, <2>1, <2>2, ConcatProperties
  <2>4. y \o rest \in Data
    <3>1. Len(y \o rest) <= MaxLen
      BY <1>1, <2>3, FileSyncAssumption
    <3> QED
      BY <2>3, <3>1, DataOf
  <2> QED
    BY <2>4 DEF Overlaid, rest
<1>3. CASE Len(y) > Len(x)
  <2>1. rest = <<>>
    BY <1>1, <1>3
  <2>2. y \o rest = y
    BY <1>1, <2>1, ConcatEmptySeq
  <2> QED
    BY <2>2 DEF Overlaid
<1> QED
  BY <1>1, <1>2, <1>3

\* A transaction on a file.
LEMMA AboutType ==
    ASSUME NEW f \in File, NEW op \in {"CHECKSUM", "SYNC", "READ", "WRITE"},
           NEW x \in Data, NEW i \in 0..MaxLen, NEW n \in 0..MaxLen
    PROVE  About(f, op, x, i, n) \in Message /\ About(f, op, x, i, n).op = op
BY DEF About, Message, File

LEMMA EmptyData == <<>> \in Data /\ 0 \in 0..MaxLen
<1>1. <<>> \in Seq(Byte) /\ Len(<<>>) = 0
  BY EmptySeq
<1>2. Len(<<>>) <= MaxLen /\ 0 \in 0..MaxLen
  BY <1>1, FileSyncAssumption
<1>3. \A x : x = <<>> => x \in Data
  BY <1>1, <1>2, DataOf
<1> QED
  BY <1>2, <1>3

\* What is answered, and to what: a WRITE to a READ only, and a READ to
\* something else only.
LEMMA AnswerType ==
    ASSUME NEW f \in File, NEW m \in Message
    PROVE  /\ Answers(f, m) \subseteq Message
           /\ \A r \in Answers(f, m) : r.op = "WRITE" => m.op = "READ"
<1> USE FileSyncAssumption
<1>1. /\ f.data \in Data /\ Len(f.data) \in 0..MaxLen
      /\ m.data \in Data /\ Len(m.data) \in 0..MaxLen
      /\ m.of \in 0..MaxLen /\ m.len \in 0..MaxLen
      /\ m.op \in {"CHECKSUM", "SYNC", "READ", "WRITE"}
  BY DataSeq DEF File, Message
<1>2. ASSUME NEW r \in Wanted(f, m)
      PROVE  r \in Message /\ r.op = "READ"
  <2>1. CASE Len(m.data) > Len(f.data)
    <3>1. r = About(f, "READ", <<>>, Len(f.data), Len(m.data) - Len(f.data))
      BY <1>2, <2>1 DEF Wanted
    <3>2. Len(m.data) - Len(f.data) \in 0..MaxLen
      BY <1>1, <2>1
    <3> DEFINE none == <<>>
    <3>3. none \in Data
      BY EmptyData
    <3> HIDE DEF none
    <3>4. About(f, "READ", none, Len(f.data), Len(m.data) - Len(f.data)) \in Message
      BY <1>1, <3>2, <3>3, AboutType
    <3> QED
      BY <3>1, <3>4 DEF About, none
  <2>2. CASE ~ (Len(m.data) > Len(f.data))
    <3>1. /\ r = About(f, "READ", <<>>, Segment, Len(f.data) - Segment)
          /\ Len(f.data) > Segment
      BY <1>2, <2>2 DEF Wanted
    <3>2. Segment \in 0..MaxLen /\ Len(f.data) - Segment \in 0..MaxLen
      BY <1>1, <3>1
    <3> DEFINE none == <<>>
    <3>3. none \in Data
      BY EmptyData
    <3> HIDE DEF none
    <3>4. About(f, "READ", none, Segment, Len(f.data) - Segment) \in Message
      BY <3>2, <3>3, AboutType
    <3> QED
      BY <3>1, <3>4 DEF About, none
  <2> QED
    BY <2>1, <2>2
<1>3. ASSUME NEW r \in Compared(f, m)
      PROVE  r \in Message /\ r.op # "WRITE"
  <2>1. r = About(f, "SYNC", f.data, 0, 0) \/ r \in Wanted(f, m)
    BY <1>3 DEF Compared
  <2> QED
    <3>1. About(f, "SYNC", f.data, 0, 0) \in Message
      BY <1>1, AboutType, EmptyData
    <3>2. About(f, "SYNC", f.data, 0, 0).op = "SYNC"
      BY DEF About
    <3> QED
      BY <1>2, <2>1, <3>1, <3>2
<1>4. ASSUME NEW r \in Segments(f, m)
      PROVE  r \in Message
  <2> DEFINE n == Min(m.len, Len(f.data) - m.of)
  <2>1. n > 0 /\ r = About(f, "WRITE", SubSeq(f.data, m.of + 1, m.of + n), m.of, n)
    BY <1>4 DEF Segments
  <2>2. n <= m.len /\ n <= Len(f.data) - m.of /\ n \in Int
    BY <1>1 DEF Min
  <2> HIDE DEF n
  <2>3. n \in 0..MaxLen /\ m.of \in Nat /\ m.of + n \in Nat /\ m.of + n <= Len(f.data)
    BY <1>1, <2>1, <2>2
  <2>4. SubSeq(f.data, m.of + 1, m.of + n) \in Data
    BY <1>1, <2>1, <2>2, <2>3, SegmentData
  <2> QED
    BY <1>1, <2>1, <2>3, <2>4, AboutType
<1> QED
  BY <1>1, <1>3, <1>4 DEF Answers

\* Sending appends at most one of the messages to a wire, of the sender.
LEMMA SentType ==
    ASSUME NEW d, NEW ms \in SUBSET Message, NEW w \in [Line -> Seq(Message)]
    PROVE  /\ Sent(d, ms, w) \in [Line -> Seq(Message)]
           /\ \A l \in Line :
                 \/ Sent(d, ms, w)[l] = w[l]
                 \/ /\ l \in open /\ l[1] = d
                    /\ \E m \in ms : Sent(d, ms, w)[l] = Append(w[l], m)
<1>1. ms # {} => (CHOOSE m \in ms : TRUE) \in ms
  OBVIOUS
<1> DEFINE c == CHOOSE m \in ms : TRUE
<1> HIDE DEF c
<1>2. Sent(d, ms, w) = [l \in Line |-> IF l \in open /\ l[1] = d /\ ms # {}
                                       THEN Append(w[l], c) ELSE w[l]]
  BY DEF Sent, c
<1>3. \A l \in Line : ms # {} => Append(w[l], c) \in Seq(Message)
  BY <1>1 DEF c
<1> QED
  BY <1>1, <1>2, <1>3 DEF c

\* A frame that is taken: what is left of its wire.
LEMMA TakenType ==
    ASSUME NEW w \in [Line -> Seq(Message)], NEW l \in Line, w[l] # <<>>
    PROVE  /\ Head(w[l]) \in Message
           /\ [w EXCEPT ![l] = Tail(@)] \in [Line -> Seq(Message)]
           /\ \A k \in Line : \A i \in DOMAIN [w EXCEPT ![l] = Tail(@)][k] :
                 \E j \in DOMAIN w[k] : [w EXCEPT ![l] = Tail(@)][k][i] = w[k][j]
           /\ \E j \in DOMAIN w[l] : Head(w[l]) = w[l][j]
<1>1. w[l] \in Seq(Message)
  OBVIOUS
<1>2. /\ Head(w[l]) \in Message /\ Tail(w[l]) \in Seq(Message)
      /\ Len(w[l]) \in Nat \ {0} /\ Len(Tail(w[l])) = Len(w[l]) - 1
      /\ Head(w[l]) = w[l][1]
      /\ \A i \in 1..Len(Tail(w[l])) : Tail(w[l])[i] = w[l][i + 1]
  BY <1>1, HeadTailProperties, EmptySeq
<1>3. DOMAIN w[l] = 1..Len(w[l]) /\ DOMAIN Tail(w[l]) = 1..Len(Tail(w[l]))
  BY <1>1, <1>2, LenProperties
<1>4. \A i \in DOMAIN Tail(w[l]) : \E j \in DOMAIN w[l] : Tail(w[l])[i] = w[l][j]
  BY <1>2, <1>3
<1>5. 1 \in DOMAIN w[l]
  BY <1>2, <1>3
<1> HIDE <1>3
<1> QED
  BY <1>1, <1>2, <1>4, <1>5

-----------------------------------------------------------------------------
\* The wires of closed connections are empty, those of others hold messages.
WireOK ==
    /\ wire \in [Line -> Seq(Message)]
    /\ open \subseteq Line
    /\ \A l \in Line : (l \in open <=> Back(l) \in open) /\ (l \notin open => wire[l] = <<>>)

FileOK ==
    /\ file \in [Daemon -> File]
    /\ \A d \in Daemon : ~ file[d].there => file[d].data = <<>>
    /\ now \in Time

RestOK == asked \subseteq Daemon /\ newest \in Seq([at : Daemon, data : Data])

LEMMA TypeParts == TypeOK <=> WireOK /\ FileOK /\ RestOK
BY DEF TypeOK, WireOK, FileOK, RestOK

LEMMA BackType == \A l \in Line : Back(l) \in Line /\ Back(Back(l)) = l /\ Back(l)[1] = l[2]
BY DEF Line, Back

\* Sending on open connections keeps the wires.
LEMMA SendStep ==
    ASSUME WireOK, NEW d, NEW ms \in SUBSET Message,
           NEW w \in [Line -> Seq(Message)], \A l \in Line : l \notin open => w[l] = <<>>,
           wire' = Sent(d, ms, w), open' = open
    PROVE  WireOK'
<1>1. /\ wire' \in [Line -> Seq(Message)]
      /\ \A l \in Line : l \notin open => wire'[l] = w[l]
  BY SentType
<1> QED
  BY <1>1 DEF WireOK

\* Taking a frame keeps the wires.
LEMMA TakeStep ==
    ASSUME WireOK, NEW l \in Line, wire[l] # <<>>
    PROVE  /\ [wire EXCEPT ![l] = Tail(@)] \in [Line -> Seq(Message)]
           /\ \A k \in Line : k \notin open => [wire EXCEPT ![l] = Tail(@)][k] = <<>>
           /\ l \in open /\ Head(wire[l]) \in Message
BY TakenType DEF WireOK

\* A file that is written to is a file.
LEMMA WrittenType ==
    ASSUME NEW f \in File, NEW m \in Message, NEW n \in 0..Len(m.data),
           NEW p \in BOOLEAN, NEW t \in Time
    PROVE  Written(f, m.data, n, p, t) \in File /\ Written(f, m.data, n, p, t).there
<1>1. m.data \in Data /\ f.data \in Data
  BY DEF Message, File
<1>2. Len(m.data) \in 0..MaxLen
  BY <1>1, DataSeq
<1>3. SubSeq(m.data, 1, n) \in Data
  <2>1. n \in Nat /\ n <= Len(m.data)
    BY <1>2
  <2>2. \A i \in Nat : i <= n => SubSeq(m.data, i + 1, n) \in Data
    BY <1>1, <2>1, SegmentData
  <2>3. SubSeq(m.data, 0 + 1, n) \in Data
    BY <2>1, <2>2
  <2> QED
    BY <2>3
<1>4. Overlaid(f.data, SubSeq(m.data, 1, n)) \in Data
  BY <1>1, <1>3, OverlaidData
<1> DEFINE x == Overlaid(f.data, SubSeq(m.data, 1, n))
           b == n = Len(m.data)
           g == IF f.there THEN f
                ELSE [f EXCEPT !.there = TRUE, !.ctime = t, !.plain = p]
<1>5. g \in File /\ g.there /\ g.data = f.data
  BY DEF File
<1>6. b \in BOOLEAN
  OBVIOUS
<1>7. Written(f, m.data, n, p, t) = [g EXCEPT !.data = x, !.mtime = t, !.sync = b]
  BY <1>5 DEF Written
<1> HIDE DEF x, b, g
<1>8. x \in Data
  BY <1>4 DEF x
<1> QED
  BY <1>5, <1>6, <1>7, <1>8 DEF File

\* The variables keep their types.
LEMMA FileSyncTypeInit == Init => TypeOK
<1> USE FileSyncAssumption
<1> SUFFICES ASSUME Init PROVE TypeOK
  OBVIOUS
<1>1. <<>> \in Data
  BY EmptyData
<1>2. \A s \in BOOLEAN : Missing(s) \in File /\ Missing(s).data = <<>>
  BY <1>1 DEF Missing, File, Time
<1>3. \A p \in BOOLEAN : \A f \in [there : {TRUE}, sync : BOOLEAN, plain : {p},
                                   ctime : {1}, mtime : 1..2, data : Data] :
         f \in File /\ f.there
  <2>1. 1 \in Time /\ \A t \in 1..2 : t \in Time
    BY DEF Time
  <2> QED
    BY <2>1 DEF File
<1>4. FileOK
  <2>1. PICK p \in BOOLEAN :
          file \in [Daemon ->
             {Missing(s) : s \in BOOLEAN} \union
             [there : {TRUE}, sync : BOOLEAN, plain : {p}, ctime : {1},
              mtime : 1..2, data : Data]]
    BY DEF Init
  <2>2. \A d \in Daemon : file[d] \in File /\ (~ file[d].there => file[d].data = <<>>)
    <3> SUFFICES ASSUME NEW d \in Daemon
                 PROVE  file[d] \in File /\ (~ file[d].there => file[d].data = <<>>)
      OBVIOUS
    <3> DEFINE S == [there : {TRUE}, sync : BOOLEAN, plain : {p}, ctime : {1},
                     mtime : 1..2, data : Data]
    <3>1. file[d] \in {Missing(s) : s \in BOOLEAN} \/ file[d] \in S
      BY <2>1
    <3>2. CASE file[d] \in S
      BY <1>3, <3>2
    <3> HIDE DEF S
    <3>3. CASE file[d] \in {Missing(s) : s \in BOOLEAN}
      BY <1>2, <3>3
    <3> QED
      BY <3>1, <3>2, <3>3
  <2>3. now \in Time
    BY DEF Init, Time
  <2> QED
    BY <2>1, <2>2, <2>3 DEF FileOK
<1>5. WireOK
  BY BackType DEF Init, WireOK, Line, Back
<1>6. RestOK
  BY DEF Init, RestOK
<1> QED
  BY <1>4, <1>5, <1>6, TypeParts

LEMMA FileSyncTypeStep == TypeOK /\ [Next]_vars => TypeOK'
<1> USE FileSyncAssumption
<1> SUFFICES ASSUME WireOK, FileOK, RestOK, [Next]_vars
             PROVE  WireOK' /\ FileOK' /\ RestOK'
  <2>1. TypeOK' <=> WireOK' /\ FileOK' /\ RestOK'
    BY DEF TypeOK, WireOK, FileOK, RestOK
  <2> QED
    BY <2>1, TypeParts
<1> DEFINE Newest == [at : Daemon, data : Data]
<1>d. /\ newest' = <<>> => newest' \in Seq(Newest)
      /\ newest' = newest => newest' \in Seq(Newest)
  <2>1. <<>> \in Seq(Newest)
    OBVIOUS
  <2>2. newest \in Seq(Newest)
    BY DEF RestOK
  <2> HIDE DEF Newest
  <2> QED
    BY <2>1, <2>2
<1>1. ASSUME NEW d \in Daemon, Notify(d)
      PROVE  WireOK' /\ FileOK' /\ RestOK'
  <2> DEFINE m == About(file[d], "CHECKSUM", file[d].data, 0, 0)
  <2>1. file[d] \in File /\ file[d].data \in Data
    BY DEF FileOK, File
  <2>2. m \in Message
    BY <2>1, AboutType, EmptyData
  <2>3. wire' = Sent(d, {m}, wire) /\ UNCHANGED <<file, open, now, asked>>
    BY <1>1 DEF Notify
  <2> HIDE DEF m
  <2>4. WireOK'
    <3>1. {m} \in SUBSET Message
      BY <2>2
    <3> QED
      BY <2>3, <3>1, SendStep DEF WireOK
  <2>5. newest' \in Seq([at : Daemon, data : Data])
    <3> DEFINE N == {e \in Daemon : \A o \in Daemon \ {e} : file[e].mtime > file[o].mtime}
               x == CHOOSE e \in N : TRUE
    <3>1. \/ newest' = <<>>
          \/ N # {} /\ newest' = <<[at |-> x, data |-> file[x].data]>>
      BY <1>1 DEF Notify, Disturb
    <3>2. N # {} => x \in Daemon
      <4>1. N # {} => x \in N
        OBVIOUS
      <4> QED
        BY <4>1
    <3> HIDE DEF N, x
    <3> DEFINE r == [at |-> x, data |-> file[x].data]
    <3>3. N # {} => r \in Newest
      BY <3>2 DEF FileOK, File
    <3>4. \/ newest' = <<>>
          \/ N # {} /\ newest' = <<r>>
      BY <3>1
    <3> HIDE DEF Newest, r
    <3>5. newest' \in Seq(Newest)
      <4>1. CASE newest' = <<>>
        BY <1>d, <4>1
      <4>2. CASE N # {} /\ newest' = <<r>>
        BY <3>3, <4>2
      <4> QED
        BY <3>4, <4>1, <4>2
    <3> QED
      BY <3>5 DEF Newest
  <2>6. FileOK' /\ RestOK'
    BY <2>3, <2>5 DEF FileOK, RestOK
  <2> QED
    BY <2>4, <2>6
<1>2. ASSUME NEW l \in Line, Answer(l)
      PROVE  WireOK' /\ FileOK' /\ RestOK'
  <2> DEFINE d == l[2]
             m == Head(wire[l])
             ms == IF Confirmed(file[d], m) THEN Answers(file[d], m) ELSE {}
  <2>1. /\ wire[l] # <<>> /\ UNCHANGED <<file, open, now, newest>>
        /\ wire' = Sent(d, ms, [wire EXCEPT ![l] = Tail(@)])
        /\ asked' \in {asked, asked \union {d}}
    BY <1>2 DEF Answer
  <2>2. d \in Daemon
    BY DEF Line
  <2>3. m \in Message /\ file[d] \in File
    BY <2>1, <2>2, TakeStep DEF FileOK
  <2>4. ms \in SUBSET Message
    BY <2>3, AnswerType
  <2> HIDE DEF d, m, ms
  <2>5. WireOK'
    BY <2>1, <2>4, TakeStep, SendStep
  <2>6. FileOK' /\ RestOK'
    BY <2>1, <2>2 DEF FileOK, RestOK
  <2> QED
    BY <2>5, <2>6
<1>3. ASSUME NEW l \in Line, wire[l] # <<>>, wire' = [wire EXCEPT ![l] = Tail(@)],
             open' = open
      PROVE  WireOK'
  BY <1>3, TakeStep DEF WireOK
<1>4. ASSUME NEW l \in Line, Write(l) \/ WriteFails(l)
      PROVE  WireOK' /\ FileOK' /\ RestOK'
  <2> DEFINE d == l[2]
             m == Head(wire[l])
  <2>1. /\ wire[l] # <<>> /\ wire' = [wire EXCEPT ![l] = Tail(@)]
        /\ UNCHANGED <<open, asked, newest>>
    BY <1>4 DEF Write, WriteFails
  <2>2. d \in Daemon
    BY DEF Line
  <2>3. m \in Message /\ file[d] \in File
    BY <2>1, <2>2, TakeStep DEF FileOK
  <2>4. Len(m.data) \in 0..MaxLen
    BY <2>3, DataSeq DEF Message
  <2>5. \/ UNCHANGED <<file, now>>
        \/ \E n \in 0..Len(m.data), p \in BOOLEAN, t \in Time :
              now' = t /\ file' = [file EXCEPT ![d] = Written(@, m.data, n, p, t)]
    <3>1. CASE Write(l)
      <4>1. Len(m.data) \in 0..Len(m.data)
        BY <2>4
      <4> QED
        BY <3>1, <4>1 DEF Write, Clock
    <3>2. CASE WriteFails(l)
      <4>1. \A n \in 0..Len(m.data) - 1 : n \in 0..Len(m.data)
        BY <2>4
      <4> QED
        BY <3>2, <4>1 DEF WriteFails, Clock
    <3> QED
      BY <1>4, <3>1, <3>2
  <2> HIDE DEF d, m
  <2>6. FileOK'
    <3>1. CASE UNCHANGED <<file, now>>
      BY <3>1 DEF FileOK
    <3>2. ASSUME NEW n \in 0..Len(m.data), NEW p \in BOOLEAN, NEW t \in Time,
                 now' = t, file' = [file EXCEPT ![d] = Written(@, m.data, n, p, t)]
          PROVE  FileOK'
      <4> DEFINE w == Written(file[d], m.data, n, p, t)
      <4>1. w \in File /\ w.there
        BY <2>3, WrittenType
      <4>2. file' = [file EXCEPT ![d] = w]
        BY <3>2
      <4> HIDE DEF w
      <4> QED
        BY <2>2, <3>2, <4>1, <4>2 DEF FileOK
    <3> QED
      BY <2>5, <3>1, <3>2
  <2> QED
    BY <1>3, <2>1, <2>6 DEF RestOK
<1>5. ASSUME NEW l \in Line, AnswerFails(l)
      PROVE  WireOK' /\ FileOK' /\ RestOK'
  <2>1. /\ wire[l] # <<>> /\ wire' = [wire EXCEPT ![l] = Tail(@)]
        /\ UNCHANGED <<file, open, now, asked, newest>>
    BY <1>5 DEF AnswerFails
  <2> QED
    BY <1>3, <2>1 DEF FileOK, RestOK
<1>6. ASSUME NEW d \in Daemon, Edit(d)
      PROVE  WireOK' /\ FileOK' /\ RestOK'
  <2>1. PICK x \in Data, p \in BOOLEAN, t \in Time :
          /\ now' = t
          /\ file' = [file EXCEPT ![d] =
                IF @.there THEN [@ EXCEPT !.data = x, !.mtime = t]
                ELSE [there |-> TRUE, sync |-> @.sync, plain |-> p, ctime |-> t,
                      mtime |-> t, data |-> x]]
    BY <1>6 DEF Edit, Clock
  <2> DEFINE f == IF file[d].there THEN [file[d] EXCEPT !.data = x, !.mtime = t]
                  ELSE [there |-> TRUE, sync |-> file[d].sync, plain |-> p, ctime |-> t,
                        mtime |-> t, data |-> x]
  <2>2. f \in File /\ f.there
    BY DEF FileOK, File
  <2>3. file' = [file EXCEPT ![d] = f]
    BY <2>1
  <2> HIDE DEF f
  <2>4. FileOK'
    BY <2>1, <2>2, <2>3 DEF FileOK
  <2>5. UNCHANGED <<wire, open, asked>> /\ newest' = <<>>
    BY <1>6 DEF Edit, Disturb
  <2> QED
    BY <1>d, <2>4, <2>5 DEF WireOK, RestOK
<1>7. ASSUME NEW d \in Daemon, Mark(d)
      PROVE  WireOK' /\ FileOK' /\ RestOK'
  <2>1. /\ file' = [file EXCEPT ![d].sync = ~ @] /\ newest' = <<>>
        /\ UNCHANGED <<wire, open, now, asked>>
    BY <1>7 DEF Mark, Disturb
  <2>2. FileOK'
    BY <2>1 DEF FileOK, File
  <2> QED
    BY <1>d, <2>1, <2>2 DEF WireOK, RestOK
<1>8. ASSUME NEW l \in Line, Connect(l)
      PROVE  WireOK' /\ FileOK' /\ RestOK'
  <2>1. /\ open' = open \union {l, Back(l)} /\ newest' = <<>>
        /\ UNCHANGED <<file, wire, now, asked>>
    BY <1>8 DEF Connect, Disturb
  <2>2. WireOK'
    BY <2>1, BackType DEF WireOK
  <2> QED
    BY <1>d, <2>1, <2>2 DEF FileOK, RestOK
<1>9. ASSUME NEW l \in Line, Close(l)
      PROVE  WireOK' /\ FileOK' /\ RestOK'
  <2>1. /\ open' = open \ {l, Back(l)}
        /\ wire' = [wire EXCEPT ![l] = <<>>, ![Back(l)] = <<>>]
        /\ UNCHANGED <<file, now, asked, newest>>
    BY <1>9 DEF Close
  <2>2. <<>> \in Seq(Message)
    OBVIOUS
  <2>3. \A k \in Line : wire'[k] = IF k \in {l, Back(l)} THEN <<>> ELSE wire[k]
    BY <2>1, BackType DEF WireOK
  <2>4. wire' \in [Line -> Seq(Message)]
    BY <2>1, <2>2 DEF WireOK
  <2>5. WireOK'
    BY <2>1, <2>3, <2>4, BackType DEF WireOK
  <2> QED
    BY <2>1, <2>5 DEF FileOK, RestOK
<1>10. CASE UNCHANGED vars
  BY <1>10 DEF vars, WireOK, FileOK, RestOK
<1> QED
  BY <1>1, <1>2, <1>4, <1>5, <1>6, <1>7, <1>8, <1>9, <1>10 DEF Next, Receive

\* The files, the connections and what is under way keep their types: no
\* answer is about more of a file than there is, and nothing is under way on
\* a closed connection.
THEOREM FileSyncTypeCorrect == Spec => []TypeOK
BY FileSyncTypeInit, FileSyncTypeStep, PTL DEF Spec

-----------------------------------------------------------------------------
\* There are no three daemons.  With a third one, answers go to it, too.
Pairwise == \A d, e, f \in Daemon : d = e \/ e = f \/ d = f

\* Whoever sends a READ, or is sent a WRITE, has asked.
Asked ==
    \A l \in Line : \A i \in DOMAIN wire[l] :
        /\ wire[l][i].op = "READ" => l[1] \in asked
        /\ wire[l][i].op = "WRITE" => l[2] \in asked

\* Nothing new is under way.
LEMMA FewerAsked ==
    ASSUME Asked, asked' = asked,
           \A l \in Line : \A i \in DOMAIN wire'[l] :
              \E j \in DOMAIN wire[l] : wire'[l][i] = wire[l][j]
    PROVE  Asked'
BY DEF Asked

\* What is sent on a wire is at its end.
LEMMA SentFrom ==
    ASSUME NEW d, NEW ms \in SUBSET Message, NEW w \in [Line -> Seq(Message)],
           NEW new, new = Sent(d, ms, w), NEW l \in Line, NEW i \in DOMAIN new[l]
    PROVE  \/ i \in DOMAIN w[l] /\ new[l][i] = w[l][i]
           \/ l[1] = d /\ new[l][i] \in ms
<1>1. CASE new[l] = w[l]
  BY <1>1
<1>2. ASSUME NEW m \in ms, l[1] = d, new[l] = Append(w[l], m)
      PROVE  \/ i \in DOMAIN w[l] /\ new[l][i] = w[l][i]
             \/ l[1] = d /\ new[l][i] \in ms
  <2>1. w[l] \in Seq(Message) /\ m \in Message
    OBVIOUS
  <2>2. /\ DOMAIN w[l] = 1..Len(w[l]) /\ Len(w[l]) \in Nat
        /\ DOMAIN Append(w[l], m) = 1..Len(w[l]) + 1
        /\ \A j \in 1..Len(w[l]) : Append(w[l], m)[j] = w[l][j]
        /\ Append(w[l], m)[Len(w[l]) + 1] = m
    BY <2>1
  <2>3. i \in 1..Len(w[l]) \/ i = Len(w[l]) + 1
    BY <1>2, <2>2
  <2> QED
    BY <1>2, <2>2, <2>3
<1>3. \/ new[l] = w[l]
      \/ l[1] = d /\ \E m \in ms : new[l] = Append(w[l], m)
  <2>1. new[l] = IF l \in open /\ l[1] = d /\ ms # {}
                 THEN Append(w[l], CHOOSE m \in ms : TRUE) ELSE w[l]
    BY DEF Sent
  <2>2. ms # {} => (CHOOSE m \in ms : TRUE) \in ms
    OBVIOUS
  <2> QED
    BY <2>1, <2>2
<1> QED
  BY <1>1, <1>2, <1>3

LEMMA AskedStep ==
    ASSUME Pairwise, TypeOK, Asked, [Next]_vars
    PROVE  Asked'
<1>0. WireOK /\ FileOK
  BY TypeParts
<1>w. wire \in [Line -> Seq(Message)]
  BY <1>0 DEF WireOK
<1>1. ASSUME NEW d \in Daemon, Notify(d)
      PROVE  Asked'
  <2> DEFINE m == About(file[d], "CHECKSUM", file[d].data, 0, 0)
  <2>1. m \in Message /\ m.op = "CHECKSUM"
    <3>1. file[d] \in File /\ file[d].data \in Data
      BY <1>0 DEF FileOK, File
    <3> QED
      BY <3>1, AboutType, EmptyData
  <2>2. wire' = Sent(d, {m}, wire) /\ asked' = asked
    BY <1>1 DEF Notify
  <2> HIDE DEF m
  <2>3. {m} \in SUBSET Message
    BY <2>1
  <2> SUFFICES ASSUME NEW l \in Line, NEW i \in DOMAIN wire'[l]
               PROVE  /\ wire'[l][i].op = "READ" => l[1] \in asked'
                      /\ wire'[l][i].op = "WRITE" => l[2] \in asked'
    BY DEF Asked
  <2>4. \/ i \in DOMAIN wire[l] /\ wire'[l][i] = wire[l][i]
        \/ wire'[l][i] = m
    BY <1>w, <2>2, <2>3, SentFrom
  <2> QED
    BY <2>1, <2>2, <2>4 DEF Asked
<1>2. ASSUME NEW l \in Line, Answer(l)
      PROVE  Asked'
  <2> DEFINE d == l[2]
             m == Head(wire[l])
             ms == IF Confirmed(file[d], m) THEN Answers(file[d], m) ELSE {}
             w == [wire EXCEPT ![l] = Tail(@)]
  <2>1. /\ wire[l] # <<>> /\ wire' = Sent(d, ms, w)
        /\ asked' = IF \E r \in ms : r.op = "READ" THEN asked \union {d} ELSE asked
    BY <1>2 DEF Answer
  <2>2. d \in Daemon /\ l[1] \in Daemon /\ l[1] # d
    BY DEF Line
  <2>3. m \in Message /\ file[d] \in File /\ w \in [Line -> Seq(Message)]
    BY <1>0, <2>1, <2>2, TakeStep DEF FileOK
  <2>4. /\ ms \in SUBSET Message
        /\ \A r \in ms : r.op = "WRITE" => m.op = "READ"
    BY <2>3, AnswerType
  <2>5. \A k \in Line : \A i \in DOMAIN w[k] : \E j \in DOMAIN wire[k] : w[k][i] = wire[k][j]
    BY <1>w, <2>1, TakenType
  <2>6. m.op = "READ" => l[1] \in asked
    BY <1>w, <2>1, TakenType DEF Asked
  <2> HIDE DEF d, m, ms, w
  <2> SUFFICES ASSUME NEW k \in Line, NEW i \in DOMAIN wire'[k]
               PROVE  /\ wire'[k][i].op = "READ" => k[1] \in asked'
                      /\ wire'[k][i].op = "WRITE" => k[2] \in asked'
    BY DEF Asked
  <2>7. \/ i \in DOMAIN w[k] /\ wire'[k][i] = w[k][i]
        \/ k[1] = d /\ wire'[k][i] \in ms
    BY <2>1, <2>3, <2>4, SentFrom
  <2>8. CASE i \in DOMAIN w[k] /\ wire'[k][i] = w[k][i]
    BY <2>1, <2>5, <2>8 DEF Asked
  <2>9. CASE k[1] = d /\ wire'[k][i] \in ms
    <3>1. k[2] = l[1]
      <4>1. k[1] \in Daemon /\ k[2] \in Daemon /\ k[1] # k[2]
        BY DEF Line
      <4> QED
        BY <2>2, <2>9, <4>1 DEF Pairwise
    <3> QED
      BY <2>1, <2>4, <2>6, <2>9, <3>1
  <2> QED
    BY <2>7, <2>8, <2>9
<1>3. ASSUME NEW l \in Line, Write(l) \/ WriteFails(l) \/ AnswerFails(l)
      PROVE  Asked'
  <2>1. /\ wire[l] # <<>> /\ wire' = [wire EXCEPT ![l] = Tail(@)]
        /\ asked' = asked
    BY <1>3 DEF Write, WriteFails, AnswerFails
  <2>2. \A k \in Line : \A i \in DOMAIN wire'[k] :
           \E j \in DOMAIN wire[k] : wire'[k][i] = wire[k][j]
    BY <1>w, <2>1, TakenType
  <2> QED
    BY <2>1, <2>2, FewerAsked
<1>4. ASSUME NEW l \in Line, Close(l)
      PROVE  Asked'
  <2>1. /\ wire' = [wire EXCEPT ![l] = <<>>, ![Back(l)] = <<>>] /\ asked' = asked
    BY <1>4 DEF Close
  <2>2. \A k \in Line : wire'[k] = <<>> \/ wire'[k] = wire[k]
    BY <1>w, <2>1
  <2>3. \A k \in Line : \A i \in DOMAIN wire'[k] :
           \E j \in DOMAIN wire[k] : wire'[k][i] = wire[k][j]
    BY <2>2
  <2> QED
    BY <2>1, <2>3, FewerAsked
<1>5. CASE UNCHANGED <<wire, asked>>
  BY <1>5 DEF Asked
<1>6. ASSUME NEW d \in Daemon, Edit(d) \/ Mark(d)
      PROVE  UNCHANGED <<wire, asked>>
  BY <1>6 DEF Edit, Mark
<1>7. ASSUME NEW l \in Line, Connect(l)
      PROVE  UNCHANGED <<wire, asked>>
  BY <1>7 DEF Connect
<1> QED
  BY <1>1, <1>2, <1>3, <1>4, <1>5, <1>6, <1>7 DEF Next, Receive, vars

\* Of two daemons, only one that asked for contents is ever sent any, whatever
\* is lost, copied, changed or refused.
THEOREM AskedFirst ==
    ASSUME Pairwise
    PROVE  Spec => []WriteWasAsked
<1>1. Init => TypeOK /\ Asked
  <2>1. Init => Asked
    BY DEF Init, Asked
  <2> QED
    BY <2>1, FileSyncTypeInit
<1>2. TypeOK /\ Asked /\ [Next]_vars => (TypeOK /\ Asked)'
  BY FileSyncTypeStep, AskedStep
<1>3. Asked => WriteWasAsked
  BY DEF Asked, WriteWasAsked
<1> QED
  BY <1>1, <1>2, <1>3, PTL DEF Spec

-----------------------------------------------------------------------------
(* The newest file of two is kept: one message is under way at a time, and  *)
(* none of those that may be makes the newer daemon ask for contents.       *)

\* What may be under way to d as long as a checksum is at work and e has the
\* newest file.  A checksum is of the file as it still is.
Expected(m, d, e) ==
    IF d = e THEN \/ m.op = "READ"
                  \/ m.op = "CHECKSUM" /\ m.mtime < file[e].mtime
             ELSE \/ m.op \in {"SYNC", "WRITE"}
                  \/ m.op = "CHECKSUM" /\ m.mtime > file[d].mtime

\* At most one message is under way, and it is an expected one.
OneExpected(e) ==
    /\ \A l \in open : l[3] = 1
    /\ \A l, k \in Line : wire[l] # <<>> /\ wire[k] # <<>> => l = k
    /\ \A l \in Line :
          wire[l] = <<>> \/ \E m \in Message : (wire[l] = <<m>> /\ Expected(m, l[2], e))

Leads(n) == n.at \in Daemon /\ file[n.at].data = n.data /\ OneExpected(n.at)

NewestInv == newest = <<>> \/ \E n : newest = <<n>> /\ Leads(n)

\* Over empty wires and one connection, what is sent is one message.
LEMMA OneSent ==
    ASSUME Pairwise, \A l \in open : l[3] = 1,
           NEW d \in Daemon, NEW ms,
           NEW w, \A l \in Line : w[l] = <<>>
    PROVE  /\ \A l, k \in Line :
                 Sent(d, ms, w)[l] # <<>> /\ Sent(d, ms, w)[k] # <<>> => l = k
           /\ \A l \in Line :
                 \/ Sent(d, ms, w)[l] = <<>>
                 \/ l[1] = d /\ \E m \in ms : Sent(d, ms, w)[l] = <<m>>
<1>1. ASSUME NEW l \in Line, Sent(d, ms, w)[l] # <<>>
      PROVE  l \in open /\ l[1] = d /\ \E m \in ms : Sent(d, ms, w)[l] = <<m>>
  <2>1. /\ l \in open /\ l[1] = d /\ ms # {}
        /\ Sent(d, ms, w)[l] = Append(w[l], CHOOSE m \in ms : TRUE)
    BY <1>1 DEF Sent
  <2>2. (CHOOSE m \in ms : TRUE) \in ms
    BY <2>1
  <2>3. \A m \in ms : Append(<<>>, m) = <<m>>
    OBVIOUS
  <2> QED
    BY <2>1, <2>2, <2>3
<1>2. ASSUME NEW l \in Line, NEW k \in Line,
             Sent(d, ms, w)[l] # <<>>, Sent(d, ms, w)[k] # <<>>
      PROVE  l = k
  <2>1. l[1] = d /\ k[1] = d /\ l[3] = 1 /\ k[3] = 1
    BY <1>1, <1>2
  <2>2. /\ l = <<l[1], l[2], l[3]>> /\ l[2] \in Daemon /\ l[1] # l[2]
        /\ k = <<k[1], k[2], k[3]>> /\ k[2] \in Daemon /\ k[1] # k[2]
    BY DEF Line
  <2>3. l[2] = k[2]
    BY <2>1, <2>2 DEF Pairwise
  <2> QED
    BY <2>1, <2>2, <2>3
<1> QED
  BY <1>1, <1>2

\* The notification that finds the wires idle and a newest file.
LEMMA NotifyNewest ==
    ASSUME Pairwise, TypeOK, NEW d \in Daemon, Notify(d)
    PROVE  NewestInv'
<1>0. /\ wire \in [Line -> Seq(Message)] /\ open \subseteq Line
      /\ \A o \in Daemon : file[o] \in File /\ file[o].data \in Data /\ file[o].mtime \in Int
  BY TypeParts DEF WireOK, FileOK, File, Time
<1> DEFINE N == {e \in Daemon : \A o \in Daemon \ {e} : file[e].mtime > file[o].mtime}
<1>1. PICK m : m = About(file[d], "CHECKSUM", file[d].data, 0, 0)
  OBVIOUS
<1>2. m \in Message /\ m.op = "CHECKSUM" /\ m.mtime = file[d].mtime
  <2>1. m \in Message /\ m.op = "CHECKSUM"
    BY <1>0, <1>1, AboutType, EmptyData
  <2> QED
    BY <1>1, <2>1 DEF About
<1>3. wire' = Sent(d, {m}, wire) /\ UNCHANGED <<file, open>>
  BY <1>1 DEF Notify
<1>4. CASE Idle /\ N # {} /\ (\A l \in open : l[3] = 1)
  <2>1. PICK c : c = CHOOSE e \in N : TRUE
    OBVIOUS
  <2>2. newest' = <<[at |-> c, data |-> file[c].data]>>
    BY <1>4, <2>1 DEF Notify
  <2>3. c \in Daemon /\ \A o \in Daemon \ {c} : file[c].mtime > file[o].mtime
    <3>1. c \in N
      BY <1>4, <2>1
    <3> QED
      BY <3>1
  <2> HIDE DEF N
  <2>4. {m} \in SUBSET Message /\ \A l \in Line : wire[l] = <<>>
    BY <1>2, <1>4 DEF Idle
  <2>5. /\ \A l, k \in Line : wire'[l] # <<>> /\ wire'[k] # <<>> => l = k
        /\ \A l \in Line :
              wire'[l] = <<>> \/ (l[1] = d /\ \E x \in {m} : wire'[l] = <<x>>)
    <3>1. PICK ms, w : ms = {m} /\ w = wire
      OBVIOUS
    <3> DEFINE new == Sent(d, ms, w)
    <3>2. \A l \in Line : w[l] = <<>>
      BY <2>4, <3>1
    <3>3. /\ \A l, k \in Line : new[l] # <<>> /\ new[k] # <<>> => l = k
          /\ \A l \in Line : new[l] = <<>> \/ (l[1] = d /\ \E x \in ms : new[l] = <<x>>)
      BY <1>4, <3>2, OneSent
    <3> QED
      BY <1>3, <3>1, <3>3, Zenon
  <2>6. ASSUME NEW l \in Line, l[1] = d
        PROVE  Expected(m, l[2], c)'
    <3>1. l[2] \in Daemon /\ l[2] # d
      BY <2>6 DEF Line
    <3>2. CASE d = c
      BY <1>0, <1>2, <1>3, <2>3, <3>1, <3>2 DEF Expected
    <3>3. CASE d # c
      <4>1. l[2] = c
        BY <2>3, <3>1, <3>3 DEF Pairwise
      <4> QED
        BY <1>0, <1>2, <1>3, <2>3, <3>3, <4>1 DEF Expected
    <3> QED
      BY <3>2, <3>3
  <2>7. OneExpected(c)'
    BY <1>2, <1>3, <1>4, <2>5, <2>6 DEF OneExpected
  <2>8. PICK n : n = [at |-> c, data |-> file[c].data]
    OBVIOUS
  <2>9. Leads(n)'
    BY <1>3, <2>3, <2>7, <2>8 DEF Leads
  <2> QED
    BY <2>2, <2>8, <2>9 DEF NewestInv
<1>5. CASE ~ (Idle /\ N # {} /\ (\A l \in open : l[3] = 1))
  BY <1>5 DEF Notify, Disturb, NewestInv
<1> QED
  BY <1>4, <1>5

\* An expected message is answered by what is expected on the way back.
LEMMA ExpectedAnswer ==
    ASSUME Pairwise, TypeOK, NEW e \in Daemon, NEW d \in Daemon, NEW o \in Daemon, d # o,
           NEW m \in Message, Expected(m, d, e), NEW r \in Answers(file[d], m)
    PROVE  Expected(r, o, e)
<1>1. d = e \/ o = e
  BY DEF Pairwise
<1>2. /\ file[d].mtime \in Int /\ m.mtime \in Int
      /\ m.op \in {"CHECKSUM", "SYNC", "READ", "WRITE"}
  BY TypeParts DEF FileOK, File, Message, Time
<1>3. CASE m.op = "READ"
  <2>1. r.op = "WRITE"
    BY <1>3 DEF Answers, Segments, About
  <2> QED
    BY <1>1, <1>3, <2>1 DEF Expected
<1>4. CASE m.op = "WRITE"
  BY <1>4 DEF Answers
<1>5. CASE m.op \in {"CHECKSUM", "SYNC"}
  <2>1. r \in Compared(file[d], m)
    BY <1>5 DEF Answers
  <2>2. CASE LocalNewer(file[d], m)
    <3>1. r.op = "SYNC"
      BY <2>1, <2>2 DEF Compared, About
    <3>2. d = e
      BY <1>2, <2>2 DEF LocalNewer, Expected
    <3> QED
      BY <3>1, <3>2 DEF Expected
  <2>3. CASE ~ LocalNewer(file[d], m)
    <3>1. r \in Wanted(file[d], m)
      BY <2>1, <2>3 DEF Compared
    <3>2. r.op = "READ"
      <4>1. \A x, i, j : About(file[d], "READ", x, i, j).op = "READ"
        BY DEF About
      <4> QED
        BY <3>1, <4>1 DEF Wanted
    <3>3. d # e
      BY <1>2, <1>5, <2>3 DEF LocalNewer, Expected
    <3> QED
      BY <1>1, <3>2, <3>3 DEF Expected
  <2> QED
    BY <2>2, <2>3
<1> QED
  BY <1>2, <1>3, <1>4, <1>5

\* Taking the only message leaves none.
LEMMA OnlyTaken ==
    ASSUME TypeOK, NEW e, OneExpected(e), NEW l \in Line, wire[l] # <<>>
    PROVE  /\ Head(wire[l]) \in Message /\ Expected(Head(wire[l]), l[2], e)
           /\ [wire EXCEPT ![l] = Tail(@)] \in [Line -> Seq(Message)]
           /\ \A k \in Line : [wire EXCEPT ![l] = Tail(@)][k] = <<>>
<1>1. PICK m \in Message : wire[l] = <<m>> /\ Expected(m, l[2], e)
  BY DEF OneExpected
<1>2. Head(<<m>>) = m /\ Tail(<<m>>) = <<>>
  OBVIOUS
<1>3. \A k \in Line : k # l => wire[k] = <<>>
  BY DEF OneExpected
<1>4. wire \in [Line -> Seq(Message)] /\ <<>> \in Seq(Message)
  BY TypeParts DEF WireOK
<1> QED
  BY <1>1, <1>2, <1>3, <1>4

LEMMA AnswerNewest ==
    ASSUME Pairwise, TypeOK, NEW n, Leads(n), NEW l \in Line, Answer(l)
    PROVE  Leads(n)'
<1>0. n.at \in Daemon /\ file[n.at].data = n.data /\ OneExpected(n.at)
  BY DEF Leads
<1>1. /\ wire[l] # <<>> /\ UNCHANGED <<file, open>>
      /\ l[2] \in Daemon /\ l[1] \in Daemon /\ l[1] # l[2]
  BY DEF Answer, Line
<1>2. PICK m, w, ms :
          /\ m = Head(wire[l]) /\ w = [wire EXCEPT ![l] = Tail(@)]
          /\ ms = IF Confirmed(file[l[2]], m) THEN Answers(file[l[2]], m) ELSE {}
  OBVIOUS
<1>3. wire' = Sent(l[2], ms, w)
  BY <1>2 DEF Answer
<1>4. m \in Message /\ Expected(m, l[2], n.at) /\ \A k \in Line : w[k] = <<>>
  BY <1>0, <1>1, <1>2, OnlyTaken
<1>5. ms \in SUBSET Message /\ ms \subseteq Answers(file[l[2]], m)
  BY <1>1, <1>2, <1>4, AnswerType, TypeParts DEF FileOK
<1>6. \A k \in open : k[3] = 1
  BY <1>0 DEF OneExpected
<1>7. /\ \A k, j \in Line : wire'[k] # <<>> /\ wire'[j] # <<>> => k = j
      /\ \A k \in Line :
            wire'[k] = <<>> \/ (k[1] = l[2] /\ \E r \in ms : wire'[k] = <<r>>)
  <2> DEFINE new == Sent(l[2], ms, w)
  <2>1. /\ \A k, j \in Line : new[k] # <<>> /\ new[j] # <<>> => k = j
        /\ \A k \in Line :
              new[k] = <<>> \/ (k[1] = l[2] /\ \E r \in ms : new[k] = <<r>>)
    BY <1>1, <1>4, <1>5, <1>6, OneSent
  <2> QED
    BY <1>3, <2>1, Zenon
<1>8. ASSUME NEW k \in Line, k[1] = l[2], NEW r \in ms
      PROVE  Expected(r, k[2], n.at)'
  <2>1. k[2] \in Daemon /\ k[2] # l[2]
    BY <1>8 DEF Line
  <2>2. Expected(r, k[2], n.at)
    BY <1>0, <1>1, <1>4, <1>5, <1>8, <2>1, ExpectedAnswer
  <2> QED
    BY <1>1, <2>2 DEF Expected
<1>9. OneExpected(n.at)'
  BY <1>1, <1>5, <1>6, <1>7, <1>8 DEF OneExpected
<1> QED
  BY <1>0, <1>1, <1>9 DEF Leads

\* A write is to the other file, and ends the exchange.
LEMMA TakenNewest ==
    ASSUME TypeOK, NEW n, Leads(n), NEW l \in Line,
           Write(l) \/ WriteFails(l) \/ AnswerFails(l)
    PROVE  Leads(n)'
<1>0. n.at \in Daemon /\ file[n.at].data = n.data /\ OneExpected(n.at)
  BY DEF Leads
<1>1. wire[l] # <<>> /\ wire' = [wire EXCEPT ![l] = Tail(@)] /\ open' = open
  BY DEF Write, WriteFails, AnswerFails
<1>2. Expected(Head(wire[l]), l[2], n.at) /\ \A k \in Line : wire'[k] = <<>>
  BY <1>0, <1>1, OnlyTaken
<1>3. file'[n.at] = file[n.at]
  <2>1. CASE file' = file
    BY <2>1
  <2>2. CASE Head(wire[l]).op = "WRITE"
    <3>1. l[2] # n.at
      BY <1>2, <2>2 DEF Expected
    <3>2. file' = file \/ \E f : file' = [file EXCEPT ![l[2]] = f]
      BY DEF Write, WriteFails, AnswerFails
    <3>3. file \in [Daemon -> File]
      BY TypeParts DEF FileOK
    <3> QED
      BY <1>0, <3>1, <3>2, <3>3
  <2> QED
    BY <2>1, <2>2 DEF Write, WriteFails, AnswerFails
<1>4. OneExpected(n.at)'
  BY <1>0, <1>1, <1>2 DEF OneExpected
<1> QED
  BY <1>0, <1>3, <1>4 DEF Leads

LEMMA CloseNewest ==
    ASSUME TypeOK, NEW n, Leads(n), NEW l \in Line, Close(l)
    PROVE  Leads(n)'
<1>0. n.at \in Daemon /\ file[n.at].data = n.data /\ OneExpected(n.at)
  BY DEF Leads
<1>1. /\ wire' = [wire EXCEPT ![l] = <<>>, ![Back(l)] = <<>>] /\ file' = file
      /\ open' \subseteq open
  BY DEF Close
<1>2. \A k \in Line : wire'[k] = <<>> \/ wire'[k] = wire[k]
  BY <1>1, TypeParts DEF WireOK
<1>3. \A m, d : Expected(m, d, n.at)' <=> Expected(m, d, n.at)
  BY <1>1 DEF Expected
<1>4. OneExpected(n.at)'
  BY <1>0, <1>1, <1>2, <1>3 DEF OneExpected
<1> QED
  BY <1>0, <1>1, <1>4 DEF Leads

LEMMA NewestStep ==
    ASSUME Pairwise, TypeOK, NewestInv, [Next]_vars
    PROVE  NewestInv'
<1>1. ASSUME newest' = newest, NEW n, newest = <<n>>, Leads(n)'
      PROVE  NewestInv'
  BY <1>1 DEF NewestInv
<1>2. ASSUME newest' = <<>>
      PROVE  NewestInv'
  BY <1>2 DEF NewestInv
<1>3. CASE UNCHANGED vars
  BY <1>3 DEF vars, NewestInv, Leads, OneExpected, Expected
<1>4. ASSUME NEW d \in Daemon, Notify(d) \/ Edit(d) \/ Mark(d)
      PROVE  NewestInv'
  BY <1>2, <1>4, NotifyNewest DEF Edit, Mark, Disturb
<1>5. ASSUME NEW l \in Line, Connect(l)
      PROVE  NewestInv'
  BY <1>2, <1>5 DEF Connect, Disturb
<1>6. ASSUME NEW l \in Line,
             Answer(l) \/ Write(l) \/ WriteFails(l) \/ AnswerFails(l) \/ Close(l)
      PROVE  NewestInv'
  <2>1. newest' = newest
    BY <1>6 DEF Answer, Write, WriteFails, AnswerFails, Close
  <2>2. CASE newest = <<>>
    BY <1>2, <2>1, <2>2
  <2>3. CASE newest # <<>>
    <3>1. PICK n : newest = <<n>> /\ Leads(n)
      BY <2>3 DEF NewestInv
    <3>2. Leads(n)'
      BY <1>6, <3>1, AnswerNewest, TakenNewest, CloseNewest
    <3> QED
      BY <1>1, <2>1, <3>1, <3>2
  <2> QED
    BY <2>2, <2>3
<1> QED
  BY <1>3, <1>4, <1>5, <1>6 DEF Next, Receive

\* Of two daemons, the one that has the newest file keeps it as it is, for any
\* contents and any losses, while one checksum is at work.
THEOREM NewestStays ==
    ASSUME Pairwise
    PROVE  Spec => []NewestKept
<1>1. Init => TypeOK /\ NewestInv
  BY FileSyncTypeInit DEF Init, NewestInv
<1>2. TypeOK /\ NewestInv /\ [Next]_vars => (TypeOK /\ NewestInv)'
  BY FileSyncTypeStep, NewestStep
<1>3. NewestInv => NewestKept
  <2> SUFFICES ASSUME NewestInv, NEW i \in DOMAIN newest
               PROVE  file[newest[i].at].data = newest[i].data
    BY DEF NewestKept
  <2>1. PICK n : newest = <<n>> /\ Leads(n)
    BY DEF NewestInv
  <2>2. i = 1 /\ newest[1] = n
    BY <2>1
  <2> QED
    BY <2>1, <2>2 DEF Leads
<1> QED
  BY <1>1, <1>2, <1>3, PTL DEF Spec
=============================================================================
