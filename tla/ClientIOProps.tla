--------------------------- MODULE ClientIOProps ---------------------------
(* What frames between daemons are promised, however they are split.        *)
EXTENDS ClientIO

Size == NetLen + TxLen

\* What s begins with of a frame that began before.
Lead(s) == IF s = <<>> \/ s[1].at = 1 THEN 0 ELSE Size + 1 - s[1].at

\* The frames that begin in s: behind that one, one in Size units.
Begun(s) ==
    [k \in 1..(Len(s) + Size - 1 - Lead(s)) \div Size |->
        s[Lead(s) + (k - 1) * Size + 1].frame]

\* The frames under way on l, to an end that is there.
UnderWay(l) == IF Back(l) \in open THEN Begun(in[l] \o wire[l] \o out[l]) ELSE <<>>

Channel == INSTANCE FrameChannel WITH
    queue <- [l \in Line |-> UnderWay(l)],
    taken <- got,
    strange <- odd

\* Buffers, sockets and the framing of cycle_client_request together are a
\* channel of frames: whole, each once, in order, and lost only at an end.
ImplementsChannel == Channel!Spec

\* As long as a daemon sends nothing but frames, none of what it sends is
\* thrown away as anything else, wherever reading and writing have stopped.
HonestHeard == \A l \in Line \ odd : HasHeader(l) => ~ Bad(l)

\* A frame that is made of a request goes back to where the request came from,
\* whatever key the peer has by then, and whoever else has it, too.
AnswerReturns ==
    [][\A l \in Line :
          (got'[l] # got[l] /\ sent' # sent) => Len(out'[Back(l)]) > Len(out[Back(l)])]_vars

\* A header that claims more than has come behind it.
Waits(l) ==
    HasHeader(l) /\ in[l][1].at = 1 /\ First(l).kind \in Long /\ ~ Complete(l)

\* No frame waits forever on a connection that stays, whatever was sent before
\* it and wherever writing and reading stop: what has no magic, the size of no
\* transaction or a wrong checksum does not block those behind it.  There is
\* one exception: "data is pending" for good behind a header whose tx_size is
\* more than all that follows, since every frame that does follow renews the
\* idle time.
NothingStuck ==
    \A l \in Line : []<>(UnderWay(l) = <<>>) \/ <>[]Waits(l)

\* The main loop writes and reads every socket that is ready, and takes a
\* frame of every client at each turn.  What waits for an end that is closed
\* is dropped with the client.
FairSpec ==
    /\ Spec
    /\ \A l \in Line :
          /\ WF_vars(Write(l)) /\ WF_vars(Read(l)) /\ WF_vars(Request(l))
          /\ WF_vars(Close(l) /\ Back(l) \notin open)
=============================================================================
