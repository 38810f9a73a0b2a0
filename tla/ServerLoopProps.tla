-------------------------- MODULE ServerLoopProps --------------------------
(* What the main loop of the share daemon guarantees, whatever the network  *)
(* and applications do.                                                     *)
EXTENDS ServerLoop

\* A descriptor number kept by a client is never the descriptor of another
\* client's connection.  netclient_conn (sharedaemon_client.c) closes the
\* descriptor of a client it leaves on the list, so a number may be closed;
\* it must not be reused before cycle_socket_verify has dropped it.
DescriptorNotForeign ==
    \A i \in Connected(tbl) : sock[tbl[i].fd] \in {0, i}

\* What makes DescriptorNotForeign inductive: between the verification pass
\* and the next select every number is owned, so a descriptor the kernel
\* hands out is on no client; during the pass the visited clients are sound.
DescriptorsOwned ==
    /\ pc \notin {"poll", "verify"} =>
          \A i \in Connected(tbl) : sock[tbl[i].fd] = i
    /\ pc = "verify" =>
          \A i \in Connected(tbl) \ todo : sock[tbl[i].fd] = i

\* When frames are processed, every network client on the list owns an open
\* socket: cycle_client_request, which does not look at the descriptor, never
\* serves a client whose connection is gone.
LiveRequests ==
    pc = "request" =>
        \A i \in DOMAIN tbl :
            tbl[i].kind = "net" => tbl[i].fd # 0 /\ sock[tbl[i].fd] = i

\* After the duplicate check two registered network clients with one key are
\* left only when the newer is itself being shut down; otherwise the lookups
\* of the handlers would silently pick one of two live connections.
UniqueRegistration ==
    (pc = "request" /\ todo = DOMAIN tbl) =>
        \A i, j \in DOMAIN tbl :
            (/\ i < j
             /\ tbl[i].kind = "net" /\ tbl[j].kind = "net"
             /\ tbl[i].reg /\ tbl[j].reg
             /\ tbl[i].key = tbl[j].key) => tbl[j].shut

\* The readiness bits select returned are only applied to clients whose
\* descriptors were in the sets: a socket accepted in the same turn never
\* inherits the bit of a number that was closed and reused.
ReadinessBelongs ==
    pc \in {"read", "write"} => Ready(rd \union wr) \subseteq polled

\* The connections a host has opened are bounded after the duplicate check,
\* whatever their stage.  The limit of cycle_socket counts a client only while
\* its key is an address of the host (and its ">" lets one more in); one that
\* passed the first step of the handshake has the daemon's own key, for which
\* the duplicate check is the limit: one is kept, whoever opened it, except for
\* those that are being shut down, which stay as long as their peers like.
ConnectionsBounded ==
    (pc = "request" /\ todo = DOMAIN tbl) =>
        \A h \in Host :
            Cardinality({i \in DOMAIN tbl :
                            /\ tbl[i].kind = "net" /\ ~ tbl[i].shut
                            /\ tbl[i].key \in ({h} \X (Port \ {ListenPort})) \union {Self}})
                <= MaxConnections + 2

\* A client loses its registration only in favour of a newer client with the
\* same key, whose socket is open and stays so in that step.
DeregisteredForNewer ==
    [][\A i \in DOMAIN tbl \intersect DOMAIN tbl' :
          tbl[i].reg /\ ~ tbl'[i].reg =>
             \E j \in Connected(tbl') :
                j > i /\ tbl'[j].key = tbl[i].key /\ ~ tbl'[j].shut]_vars

\* A network client whose socket was closed is removed from the list.
ClosedIsFreed ==
    \A i \in Id :
        (i \in DOMAIN tbl /\ tbl[i].kind = "net" /\ tbl[i].fd = 0)
            ~> (i \notin DOMAIN tbl \/ pc = "dead")

\* A network client marked for shutdown is removed from the list, or it is the
\* peer that keeps it: pass after pass its socket is found unwritable.  The
\* loop has no timeout for such a client (cycle_socket_verify goes past both),
\* but it does not lose sight of it either, and frees it once it is closed.
ShutdownCompletes ==
    \A i \in Id :
        <>[](i \in DOMAIN tbl /\ tbl[i].kind = "net" /\ tbl[i].shut)
            => <>(pc = "dead") \/ []<><<VerifyShutdown(i, FALSE)>>_vars
=============================================================================
