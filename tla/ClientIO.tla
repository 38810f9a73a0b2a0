------------------------------ MODULE ClientIO ------------------------------
(***************************************************************************)
(* The way of a transaction from one daemon to another: it is put into a   *)
(* frame and on the output buffers of the connections it is for            *)
(* (sched_tx_payload, broadcast_raw), written and read in pieces of any    *)
(* length (cycle_socket), and taken from the input buffer one frame at a   *)
(* turn (cycle_client_request).                                            *)
(*                                                                         *)
(* A buffer is a sequence of units, numbered within their frame: a unit is *)
(* as much of the stream as is never split.  The first NetLen units of a   *)
(* frame are its tx_net_t.                                                 *)
(***************************************************************************)
EXTENDS Integers, Sequences

CONSTANTS
    Daemon,
    Self,     \* the key all peers have after the handshake
    Blank,    \* the sink of a broadcast
    NetLen,   \* units of tx_net_t
    TxLen,    \* units of a transaction
    LongLen,  \* units of one according to a header that claims too many
    Copies,   \* bound: connections
    MaxSends, \* bound: frames
    MaxFaults \* bound: what is sent and no frame, sockets closed first

ASSUME ClientIOAssumption ==
    /\ NetLen \in Nat \ {0} /\ TxLen \in Nat \ {0}
    /\ LongLen \in Nat /\ LongLen > TxLen
    /\ Copies \in Nat /\ MaxSends \in Nat /\ MaxFaults \in Nat
    /\ \A d \in Daemon, n \in 0..Copies : <<d, n>> \notin {Self, Blank}
    /\ Self # Blank

\* A direction of a connection: from the client list of l[1] to the one of l[2].
Line == {l \in Daemon \X Daemon \X (1..Copies) : l[1] # l[2]}
Back(l) == <<l[2], l[1], l[3]>>

\* shpeer_kpriv of a client's peer: before the handshake it is made of the
\* remote address; 0 is the port daemons listen on.
Key == (Daemon \X (0..Copies)) \union {Self}

\* What a program that is none of these daemons may send, under a tx_net_t with
\* their magic: tx_size is that of no transaction, or more than is sent; the
\* checksum, which is that of a tx_t only, is wrong; or both.  If it is not, the
\* operation is none.
Long == {"long", "longcrc"}
Strange == {"size", "crc"} \union Long

\* INIT, another operation, or none.
Frame == [id : 1..MaxSends, kind : {"init", "other"} \union Strange]
Unit == [frame : Frame, at : 1..NetLen + TxLen]

VARIABLES
    open,  \* lines l that have a client with a socket in the list of l[1]
    peer,  \* the key of that client
    auth,  \* ... that awaits its handshake, SHD_CLIENT_AUTH
    out,   \* ... its buff_out
    wire,  \* what the sockets hold of it
    in,    \* buff_in of the client at the other end
    got,   \* frames taken from buff_in (history)
    odd,   \* lines on which something else was sent (history)
    made,  \* number of connections made
    sent,  \* number of frames sent
    faults

vars == <<made, open, peer, auth, out, wire, in, got, odd, sent, faults>>

TypeOK ==
    /\ open \subseteq Line /\ auth \subseteq Line /\ odd \subseteq Line
    /\ peer \in [Line -> Key]
    /\ out \in [Line -> Seq(Unit)]
    /\ wire \in [Line -> Seq(Unit)]
    /\ in \in [Line -> Seq(Unit)]
    /\ got \in [Line -> Seq(Frame)]
    /\ made \in 0..Copies
    /\ sent \in 0..MaxSends /\ faults \in 0..MaxFaults
    /\ \A l \in Line :
          /\ l \notin open => out[l] = <<>>
          /\ Back(l) \notin open => in[l] = <<>>

Init ==
    /\ open = {} /\ auth = {} /\ odd = {}
    /\ peer = [l \in Line |-> <<l[2], 0>>]
    /\ out = [l \in Line |-> <<>>]
    /\ wire = [l \in Line |-> <<>>]
    /\ in = [l \in Line |-> <<>>]
    /\ got = [l \in Line |-> <<>>]
    /\ made = 0 /\ sent = 0 /\ faults = 0

-----------------------------------------------------------------------------
\* sched_tx_payload: header and transaction, in one piece.
Wrapped(f) == [i \in 1..NetLen + TxLen |-> [frame |-> f, at |-> i]]

\* Mutant of Targets: broadcasts to the originating user are suppressed.
TargetsOthers(d, sink, up, key) ==
    LET all == {l \in up : l[1] = d}
        hop == sink = Blank \/ \E l \in all : key[l] = sink
    IN  {l \in all : hop => (sink = Blank \/ key[l] # sink)}

\* broadcast_raw: everyone, when the sink is blank or nobody has its key.
Targets(d, sink, up, key) ==
    LET all == {l \in up : l[1] = d}
        hop == sink = Blank \/ \E l \in all : key[l] = sink
    IN  {l \in all : hop => (sink = Blank \/ key[l] = sink)}

\* n frames of d, which are the units u, are put on the buffers of those they
\* are for.
PutUnits(d, n, u, sink, up, key) ==
    /\ sent + n <= MaxSends
    /\ sent' = sent + n
    /\ out' = [l \in Line |->
                 IF l \in Targets(d, sink, up, key) THEN out[l] \o u ELSE out[l]]

\* The i-th frame that is made from here on.
New(i, kind) == [id |-> sent + i, kind |-> kind]

Put(d, kind, sink, up, key) == PutUnits(d, 1, Wrapped(New(1, kind)), sink, up, key)

\* Two frames for the same ones, in one turn.
PutTwo(d, kind1, kind2, sink, up, key) ==
    PutUnits(d, 2, Wrapped(New(1, kind1)) \o Wrapped(New(2, kind2)), sink, up, key)

-----------------------------------------------------------------------------
\* sharedaemon_netclient_conn at d, netclient_init at e: the client of d is
\* sent an INIT, under the key of the address the client has; at e the port is
\* another one than daemons listen on.
Connect(d, e) ==
    LET l == <<d, e, made + 1>>
        key == [peer EXCEPT ![l] = <<e, 0>>, ![Back(l)] = <<d, made + 1>>]
    IN  /\ made < Copies
        /\ made' = made + 1
        /\ open' = open \union {l, Back(l)}
        /\ peer' = key
        /\ auth' = auth \union {Back(l)}
        /\ Put(d, "init", <<e, 0>>, open', key)
        /\ UNCHANGED <<wire, in, got, odd, faults>>

\* tx_send without a peer: from IPC, from a device.
Broadcast(d) ==
    /\ \E l \in open : l[1] = d
    /\ Put(d, "other", Blank, open, peer)
    /\ UNCHANGED <<made, open, peer, auth, wire, in, got, odd, faults>>

\* The program at the other end is none of these daemons, or another version.
\* What has no magic it can have, too: what is left of a frame that was cut.
Stray(l) ==
    /\ l \in open
    /\ faults < MaxFaults /\ faults' = faults + 1
    /\ sent < MaxSends
    /\ sent' = sent + 1
    /\ odd' = odd \union {l}
    /\ \E k \in Strange : out' = [out EXCEPT ![l] = @ \o Wrapped(New(1, k))]
    /\ UNCHANGED <<made, open, peer, auth, wire, in, got>>

\* Mutant of Write: what was written is not taken from the buffer.
WriteAgain(l) ==
    /\ l \in open /\ out[l] # <<>>
    /\ \E n \in 1..Len(out[l]) :
          /\ wire' = [wire EXCEPT ![l] = @ \o SubSeq(out[l], 1, n)]
          /\ out' = [out EXCEPT ![l] = IF n = Len(@) THEN <<>> ELSE SubSeq(@, n, Len(@))]
    /\ UNCHANGED <<made, open, peer, auth, in, got, odd, sent, faults>>

\* cycle_socket: a writable socket takes as much as it can.
Write(l) ==
    /\ l \in open /\ out[l] # <<>>
    /\ \E n \in 1..Len(out[l]) :
          /\ wire' = [wire EXCEPT ![l] = @ \o SubSeq(out[l], 1, n)]
          /\ out' = [out EXCEPT ![l] = SubSeq(@, n + 1, Len(@))]
    /\ UNCHANGED <<made, open, peer, auth, in, got, odd, sent, faults>>

\* cycle_socket: a readable socket gives what has arrived.
Read(l) ==
    /\ Back(l) \in open /\ wire[l] # <<>>
    /\ \E n \in 1..Len(wire[l]) :
          /\ in' = [in EXCEPT ![l] = @ \o SubSeq(wire[l], 1, n)]
          /\ wire' = [wire EXCEPT ![l] = SubSeq(@, n + 1, Len(@))]
    /\ UNCHANGED <<made, open, peer, auth, out, got, odd, sent, faults>>

-----------------------------------------------------------------------------
\* cycle_client_request, on what d = l[2] has received on l.
HasHeader(l) == Back(l) \in open /\ Len(in[l]) >= NetLen

First(l) == in[l][1].frame

\* Units of a frame, by the tx_size of its header.
Claimed(f) == NetLen + (IF f.kind \in Long THEN LongLen ELSE TxLen)

\* Nothing is pending.
Complete(l) == Len(in[l]) >= Claimed(First(l))

\* The magic number is missing, the size too small, or, once nothing is
\* pending, the checksum wrong.  A size that is too large is not refused.
Bad(l) ==
    \/ in[l][1].at # 1
    \/ First(l).kind = "size"
    \/ First(l).kind \in {"crc", "longcrc"} /\ Complete(l)

\* Mutant of RequestBad: the frame is refused and left where it is.
RequestBadStays(l) == FALSE

\* All that was received is thrown away.
RequestBad(l) ==
    /\ HasHeader(l) /\ Bad(l)
    /\ in' = [in EXCEPT ![l] = <<>>]
    /\ UNCHANGED <<made, open, peer, auth, out, wire, got, odd, sent, faults>>

\* Mutant of Trimmed: the header is left.
TrimmedShort(s) == SubSeq(s, Claimed(s[1].frame) - NetLen + 1, Len(s))

\* shbuf_trim at the end of cycle_client_request: all that the header claims.
Trimmed(s) == SubSeq(s, Claimed(s[1].frame) + 1, Len(s))

Taken(l) ==
    /\ HasHeader(l) /\ ~ Bad(l) /\ Complete(l)
    /\ in' = [in EXCEPT ![l] = Trimmed(@)]
    /\ got' = [got EXCEPT ![l] = Append(@, First(l))]
    /\ UNCHANGED <<made, open, wire, odd, faults>>

\* An operation there is not, barred by AUTH, or refused by its handler; or
\* one that needs no answer.
RequestSilent(l) ==
    /\ Taken(l)
    /\ UNCHANGED <<made, peer, auth, out, sent>>

\* Handled, with an answer to the key of the peer (tx_send, sched_tx_sink).
RequestAnswered(l) ==
    /\ Taken(l)
    /\ First(l).kind = "other" /\ Back(l) \notin auth
    /\ Put(l[2], "other", peer[Back(l)], open, peer)
    /\ UNCHANGED <<made, peer, auth>>

\* txop_init_recv.  The client m it finds by the key of the peer, which may be
\* another one with that key, is given a peer with the daemon's own key
\* (sequences 1 and 2), or AUTH is lifted (3 and 4).  The answer goes to the key
\* the peer has by then; before it goes a subscription (5 and 6) or the notice of
\* an application (7 and 8), of one at most.
RequestInit(l) ==
    /\ Taken(l)
    /\ First(l).kind = "init"
    /\ \/ /\ \E m \in open :
                /\ m[1] = l[2] /\ peer[m] = peer[Back(l)]
                /\ \/ peer' = [peer EXCEPT ![m] = Self] /\ UNCHANGED auth
                   \/ auth' = auth \ {m} /\ UNCHANGED peer
          /\ Put(l[2], "init", peer'[Back(l)], open, peer')
       \/ /\ UNCHANGED <<peer, auth>>
          /\ \/ Put(l[2], "init", peer[Back(l)], open, peer)
             \/ PutTwo(l[2], "other", "init", peer[Back(l)], open, peer)

Request(l) == RequestBad(l) \/ RequestSilent(l) \/ RequestAnswered(l) \/ RequestInit(l)

-----------------------------------------------------------------------------
\* Mutant of Close: what was received is kept.
CloseKeeps(l) ==
    /\ l \in open
    /\ IF Back(l) \in open THEN faults < MaxFaults /\ faults' = faults + 1 ELSE UNCHANGED faults
    /\ open' = open \ {l}
    /\ auth' = auth \ {l}
    /\ out' = [out EXCEPT ![l] = <<>>]
    /\ wire' = [wire EXCEPT ![Back(l)] = <<>>]
    /\ UNCHANGED <<made, peer, in, got, odd, sent>>

\* The socket of l[1] is closed: by an error, idleness, as a duplicate, or
\* after the other end.  Its client is freed before the next request.  What
\* has been written may still arrive.
Close(l) ==
    /\ l \in open
    /\ IF Back(l) \in open
       THEN faults < MaxFaults /\ faults' = faults + 1
       ELSE UNCHANGED faults
    /\ open' = open \ {l}
    /\ auth' = auth \ {l}
    /\ out' = [out EXCEPT ![l] = <<>>]
    /\ in' = [in EXCEPT ![Back(l)] = <<>>]
    /\ \E lost \in BOOLEAN :
          wire' = [wire EXCEPT ![Back(l)] = <<>>, ![l] = IF lost THEN <<>> ELSE @]
    /\ UNCHANGED <<made, peer, got, odd, sent>>

Next ==
    \/ \E d, e \in Daemon : d # e /\ Connect(d, e)
    \/ \E d \in Daemon : Broadcast(d)
    \/ \E l \in Line : Stray(l) \/ Write(l) \/ Read(l) \/ Request(l) \/ Close(l)

Spec == Init /\ [][Next]_vars
=============================================================================
