-------------------------- MODULE FsyncWatchProps --------------------------
(* What the directory monitor keeps up while the tree changes under it.     *)
EXTENDS FsyncWatch

\* Every watch of the kernel belongs to an active entity with its number, so
\* that no event of a live watch ends a poll as "unknown event wd".
WatchHasEntity ==
    \A w \in DOMAIN watch :
        \E k \in DOMAIN ents : ents[k].active /\ ents[k].id = w

Leads(p) == \E i \in Dir : i \in Resolve(p)

\* "An absolute path to the inode being watched" (fsync.h:91).
PathOfWatched(k) ==
    (ents[k].active /\ ents[k].id \in DOMAIN watch) =>
        watch[ents[k].id] \in Resolve(ents[k].path)

\* As long as no directory is renamed, the path of every monitored entity
\* leads to the directory its watch is on, whatever is removed and made anew.
PathsLead == ~ moved => \A k \in DOMAIN ents : PathOfWatched(k)

\* The kernel has told about directory i, and its entry is still to be taken
\* up by the poll.
Noticed(i) ==
    \E e \in {queue[k] : k \in DOMAIN queue} \union {batch[k] : k \in DOMAIN batch} :
        /\ e.kind = "create"
        /\ e.wd \in DOMAIN watch
        /\ at[i] = <<watch[e.wd], e.name>>

\* A directory made while its parent is watched is watched in the end,
\* although events queue up during the scan and during a poll, and may come
\* for directories that the scan has found itself.
NoticedIsWatched ==
    \A i \in Dir : (i \in DOMAIN at /\ Noticed(i)) ~> (Watched(i) # {})

FairSpec == Spec /\ WF_vars(Daemon)
=============================================================================
