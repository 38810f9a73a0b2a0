--------------------------- MODULE FileSyncProps ---------------------------
(* What the exchange of TX_FILE between daemons guarantees, and what it     *)
(* does not.                                                                *)
EXTENDS FileSync

\* A READ that is under way is from a daemon that asked, and of two daemons
\* only one that asked for contents is ever sent any, over copies of
\* messages, closed connections and changes of the attribute.
WriteWasAsked ==
    \A l \in Line : \A i \in DOMAIN wire[l] :
        wire[l][i].op = "WRITE" => l[2] \in asked

\* While the checksum of a file is at work, once and alone, the newest file of
\* all is left as it is, whoever sent the checksum: a newer file answers an
\* older one by SYNC, and only the older one asks for contents.
NewestKept ==
    \A i \in DOMAIN newest : file[newest[i].at].data = newest[i].data

\* Answers to answers come to an end: checksums, requests and contents do not
\* go back and forth for ever, whatever changes meanwhile.
Settles == []<>Idle

\* Each daemon takes the frames of each connection, one after the other.
FairSpec == Spec /\ \A l \in Line : WF_vars(Receive(l))

-----------------------------------------------------------------------------
Prefix(s, t) == Len(s) <= Len(t) /\ \A i \in DOMAIN s : s[i] = t[i]

\* "start with what we are missing, and then see if checksum matches."
\* (bits/file.c:490): what is sent of a file goes behind what its receiver has.
MissingMatches ==
    [][\A l \in Line :
          (/\ Write(l)
           /\ Len(file[l[2]].data) = Head(wire[l]).of
           /\ file'[l[2]] # file[l[2]]) =>
             Prefix(file[l[2]].data, file'[l[2]].data)]_vars
=============================================================================
