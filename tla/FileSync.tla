------------------------------ MODULE FileSync ------------------------------
(***************************************************************************)
(* The transactions of TX_FILE on one file, which several daemons have, or *)
(* have not (bits/file.c).                                                 *)
(*                                                                         *)
(* An application tells its daemon of a file, the daemon sends everyone    *)
(* its checksum.  A daemon whose file differs answers by a SYNC when its   *)
(* own is newer, by a READ of what it lacks otherwise; a READ is answered  *)
(* by a WRITE.  Answers are sunk to the key of the peer they are for, and  *)
(* after the handshake that is the same for all connections (Handshake):   *)
(* like a CHECKSUM, they go to every connection.                           *)
(***************************************************************************)
EXTENDS Integers, Sequences

CONSTANTS
    Daemon,
    Byte,      \* what files consist of
    Segment,   \* SEG_CHECKSUM_SIZE
    Copies,    \* bound: connections between two daemons
    MaxLen,    \* bound: length of a file
    MaxTime,   \* bound: the last tick of the clock
    MaxEvents  \* bound: notifications, changes by users, failures, new
               \* connections

ASSUME FileSyncAssumption ==
    /\ Segment \in Nat \ {0} /\ Copies \in Nat \ {0}
    /\ MaxLen \in Nat /\ MaxTime \in Nat \ {0, 1}
    /\ MaxEvents \in Nat

VARIABLES
    file,   \* the file of each daemon
    wire,   \* what is under way from one to another on a connection
    open,   \* connections, each of two daemons
    now,    \* the time of the last change
    asked,  \* who has ever sent a READ (history)
    newest, \* the newest file when only one notification is at work, if any (history)
    events

vars == <<file, wire, open, now, asked, newest, events>>

Min(i, j) == IF i < j THEN i ELSE j

Time == 0..MaxTime
Data == UNION {[1..n -> Byte] : n \in 0..MaxLen}

\* sync: SHATTR_SYNC of the file, or of its directory as long as the file is
\* missing; plain: its format is SHINODE_FILE.  The checksum stands for data.
File == [there : BOOLEAN, sync : BOOLEAN, plain : BOOLEAN, ctime : Time,
         mtime : Time, data : Data]

Missing(s) == [there |-> FALSE, sync |-> s, plain |-> FALSE, ctime |-> 0,
               mtime |-> 0, data |-> <<>>]

\* data: for READ nothing, for WRITE the segment, of length len, else what the
\* checksum stands for.
Message == [op : {"CHECKSUM", "SYNC", "READ", "WRITE"}, ctime : Time,
            mtime : Time, data : Data, of : 0..MaxLen, len : 0..MaxLen]

\* A direction of a connection.
Line == {l \in Daemon \X Daemon \X (1..Copies) : l[1] # l[2]}
Back(l) == <<l[2], l[1], l[3]>>

TypeOK ==
    /\ file \in [Daemon -> File]
    /\ wire \in [Line -> Seq(Message)]
    /\ open \subseteq Line
    /\ \A l \in Line : (l \in open <=> Back(l) \in open) /\ (l \notin open => wire[l] = <<>>)
    /\ \A d \in Daemon : ~ file[d].there => file[d].data = <<>>
    /\ now \in Time
    /\ asked \subseteq Daemon
    /\ newest \in Seq([at : Daemon, data : Data])

Idle == \A l \in Line : wire[l] = <<>>

\* Copies of one file, with its format and time of creation, but not always
\* its contents; or none.
Init ==
    /\ now = 2
    /\ \E p \in BOOLEAN :
          file \in [Daemon ->
             {Missing(s) : s \in BOOLEAN} \union
             [there : {TRUE}, sync : BOOLEAN, plain : {p}, ctime : {1},
              mtime : 1..2, data : Data]]
    /\ open = {l \in Line : l[3] = 1}
    /\ wire = [l \in Line |-> <<>>]
    /\ asked = {}
    /\ newest = <<>>
    /\ events = 0

-----------------------------------------------------------------------------
\* set_tx_inode, for a transaction of d on its file.
About(f, op, data, of, len) ==
    [op |-> op, ctime |-> f.ctime, mtime |-> f.mtime, data |-> data,
     of |-> of, len |-> len]

\* txfile_sync_verify, by txop_file_confirm, on what is received.
Confirmed(f, m) ==
    /\ f.there \/ f.sync
    /\ ~ (f.plain /\ f.sync /\ f.ctime # m.ctime)

\* remote_file_notification: the file is synchronized, and the same file.
Synchronized(f, m) ==
    f.sync /\ (f.there => f.ctime = m.ctime)

\* Mutant of LocalNewer: the file is newer unless it is older, and the
\* operation makes no difference.
LocalNotOlder(f, m) == f.mtime >= m.mtime

\* Mutant of LocalNewer: the other way round.
LocalOlder(f, m) == m.op = "CHECKSUM" /\ f.mtime < m.mtime

LocalNewer(f, m) == m.op = "CHECKSUM" /\ f.mtime > m.mtime

\* txfile_notify_segments and txfile_send_read: what is missing, or else all
\* but the first segment.
Wanted(f, m) ==
    LET size == Len(f.data)
    IN  IF Len(m.data) > size
        THEN {About(f, "READ", <<>>, size, Len(m.data) - size)}
        ELSE IF size > Segment
             THEN {About(f, "READ", <<>>, Segment, size - Segment)}
             ELSE {}

\* Mutant of Compared: the contents are sent at once.
ComparedWrites(f, m) ==
    IF ~ Synchronized(f, m) \/ f.data = m.data THEN {}
    ELSE IF LocalNewer(f, m) THEN {About(f, "WRITE", f.data, 0, Len(f.data))}
    ELSE Wanted(f, m)

\* remote_file_notification, for CHECKSUM and SYNC.
Compared(f, m) ==
    IF ~ Synchronized(f, m) \/ f.data = m.data THEN {}
    ELSE IF LocalNewer(f, m) THEN {About(f, "SYNC", f.data, 0, 0)}
    ELSE Wanted(f, m)

\* txfile_send_write, for READ.
Segments(f, m) ==
    LET n == Min(m.len, Len(f.data) - m.of)
    IN  IF f.there /\ n > 0
        THEN {About(f, "WRITE", SubSeq(f.data, m.of + 1, m.of + n), m.of, n)}
        ELSE {}

\* The answer to m, if there is one.
Answers(f, m) ==
    CASE m.op \in {"CHECKSUM", "SYNC"} -> Compared(f, m)
      [] m.op = "READ" -> Segments(f, m)
      [] m.op = "WRITE" -> {}

\* broadcast_raw and the handshake: everything goes to every connection of d.
Sent(d, ms, w) ==
    [l \in Line |-> IF l \in open /\ l[1] = d /\ ms # {}
                    THEN Append(w[l], CHOOSE m \in ms : TRUE) ELSE w[l]]

\* The notification at work meets another one, a change, or a copy of itself.
Disturb == newest' = <<>>

-----------------------------------------------------------------------------
\* proc_msg, TX_FILE: the checksum goes to everyone (inittx_file, tx_send).
Notify(d) ==
    /\ events < MaxEvents
    /\ file[d].there \/ file[d].sync
    /\ wire' = Sent(d, {About(file[d], "CHECKSUM", file[d].data, 0, 0)}, wire)
    /\ LET N == {e \in Daemon : \A o \in Daemon \ {e} : file[e].mtime > file[o].mtime}
       IN  IF Idle /\ N # {} /\ (\A l \in open : l[3] = 1)
           THEN newest' = <<[at |-> CHOOSE e \in N : TRUE,
                             data |-> file[CHOOSE e \in N : TRUE].data]>>
           ELSE Disturb
    /\ events' = events + 1
    /\ UNCHANGED <<file, open, now, asked>>

\* A CHECKSUM, SYNC or READ is refused, needs no answer, or is answered.
Answer(l) ==
    /\ wire[l] # <<>> /\ Head(wire[l]).op # "WRITE"
    /\ LET d == l[2]
           m == Head(wire[l])
           ms == IF Confirmed(file[d], m) THEN Answers(file[d], m) ELSE {}
       IN  /\ wire' = Sent(d, ms, [wire EXCEPT ![l] = Tail(@)])
           /\ asked' = IF \E r \in ms : r.op = "READ" THEN asked \union {d} ELSE asked
    /\ UNCHANGED <<file, open, now, newest, events>>

\* Reading the file fails: there is no answer.
AnswerFails(l) ==
    /\ wire[l] # <<>> /\ Head(wire[l]).op # "WRITE"
    /\ events < MaxEvents
    /\ wire' = [wire EXCEPT ![l] = Tail(@)]
    /\ events' = events + 1
    /\ UNCHANGED <<file, open, now, asked, newest>>

\* The segment seg is written over the beginning of data, wherever it is from.
Overlaid(data, seg) == seg \o SubSeq(data, Len(seg) + 1, Len(data))

\* f after the first n bytes of the segment were written at time t; a missing
\* file is established.
Written(f, seg, n, p, t) ==
    LET g == IF f.there THEN f
             ELSE [f EXCEPT !.there = TRUE, !.ctime = t, !.plain = p]
    IN  [g EXCEPT !.data = Overlaid(@, SubSeq(seg, 1, n)), !.mtime = t,
                  !.sync = n = Len(seg)]

\* A clock that has not stood still since it was last read.
Clock(t) == t \in now..MaxTime /\ now' = t

\* txfile_recv_write.  The attribute SYNC is cleared for the time of the
\* write and set after it, without another look at it or the checksum.
Write(l) ==
    /\ wire[l] # <<>> /\ Head(wire[l]).op = "WRITE"
    /\ LET d == l[2]
           m == Head(wire[l])
       IN  \/ /\ Confirmed(file[d], m)
              /\ \E p \in BOOLEAN, t \in Time :
                    /\ Clock(t)
                    /\ file' = [file EXCEPT ![d] = Written(@, m.data, Len(m.data), p, t)]
           \/ ~ Confirmed(file[d], m) /\ UNCHANGED <<file, now>>
    /\ wire' = [wire EXCEPT ![l] = Tail(@)]
    /\ UNCHANGED <<open, asked, newest, events>>

\* The write ends early, or the daemon does: SYNC stays cleared.
WriteFails(l) ==
    /\ wire[l] # <<>> /\ Head(wire[l]).op = "WRITE"
    /\ events < MaxEvents
    /\ LET d == l[2]
           m == Head(wire[l])
       IN  /\ Confirmed(file[d], m)
           /\ \E n \in 0..Len(m.data) - 1, p \in BOOLEAN, t \in Time :
                 /\ Clock(t)
                 /\ file' = [file EXCEPT ![d] = Written(@, m.data, n, p, t)]
    /\ wire' = [wire EXCEPT ![l] = Tail(@)]
    /\ events' = events + 1
    /\ UNCHANGED <<open, asked, newest>>

-----------------------------------------------------------------------------
\* A user puts something else into the file, or creates it.
Edit(d) ==
    /\ events < MaxEvents
    /\ \E x \in Data, p \in BOOLEAN, t \in Time :
          /\ Clock(t)
          /\ x # file[d].data
          /\ file' = [file EXCEPT ![d] =
                IF @.there THEN [@ EXCEPT !.data = x, !.mtime = t]
                ELSE [there |-> TRUE, sync |-> @.sync, plain |-> p, ctime |-> t,
                      mtime |-> t, data |-> x]]
    /\ events' = events + 1
    /\ Disturb
    /\ UNCHANGED <<wire, open, asked>>

\* A user marks the file, or its directory, to be synchronized or not to be.
Mark(d) ==
    /\ events < MaxEvents
    /\ file' = [file EXCEPT ![d].sync = ~ @]
    /\ events' = events + 1
    /\ Disturb
    /\ UNCHANGED <<wire, open, now, asked>>

\* A connection is made, beside those there are.
Connect(l) ==
    /\ l \notin open
    /\ events < MaxEvents
    /\ events' = events + 1
    /\ open' = open \union {l, Back(l)}
    /\ Disturb
    /\ UNCHANGED <<file, wire, now, asked>>

\* Mutant of Close: what is under way is kept.
CloseKeeps(l) ==
    /\ l \in open
    /\ events < MaxEvents
    /\ open' = open \ {l, Back(l)}
    /\ events' = events + 1
    /\ UNCHANGED <<file, wire, now, asked, newest>>

\* A connection closes: what is under way on it is lost.
Close(l) ==
    /\ l \in open
    /\ events < MaxEvents
    /\ open' = open \ {l, Back(l)}
    /\ wire' = [wire EXCEPT ![l] = <<>>, ![Back(l)] = <<>>]
    /\ events' = events + 1
    /\ UNCHANGED <<file, now, asked, newest>>

Receive(l) == Answer(l) \/ Write(l)

Next ==
    \/ \E d \in Daemon : Notify(d) \/ Edit(d) \/ Mark(d)
    \/ \E l \in Line : Receive(l) \/ AnswerFails(l) \/ WriteFails(l) \/ Connect(l) \/ Close(l)

Spec == Init /\ [][Next]_vars
=============================================================================
