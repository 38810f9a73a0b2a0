---------------------------- MODULE FsyncWatch -----------------------------
(***************************************************************************)
(* The directory monitor of share-fsync-daemon: sync.c and sync_linux.c    *)
(* over an inotify descriptor, with the users of the file system running   *)
(* at the same time.                                                       *)
(*                                                                         *)
(* A directory is an inode; a path is the sequence of names from the       *)
(* monitored root, <<>>.  Of files only their creation matters: relaying   *)
(* it is unfinished, and no file is looked at otherwise.  The daemon first *)
(* scans the tree ("stat", "watch", "read": the steps of _linux_sync_scan  *)
(* on one path), then reads events in batches ("idle", "batch").  When the *)
(* scan fails, sync_init frees everything and the monitor stays "off".     *)
(***************************************************************************)
EXTENDS Integers, SequencesExt

CONSTANTS
    Dir,        \* directory inodes, the monitored root among them
    Root,
    Name,       \* names
    Long,       \* names of more than 12 characters
    Removes,    \* whether directories are removed
    Moves,      \* whether directories are renamed
    Files,      \* whether files are created
    MaxChanges  \* bound: changes of the file system

ASSUME FsyncAssumption ==
    /\ IsFiniteSet(Dir) /\ Root \in Dir /\ Long \subseteq Name
    /\ Removes \in BOOLEAN /\ Moves \in BOOLEAN /\ Files \in BOOLEAN
    /\ MaxChanges \in Nat

VARIABLES
    at,       \* the tree: <<parent, name>> of every other directory there is
    used,     \* inodes that were allocated (they are not used again)
    changes,  \* changes so far
    moved,    \* whether a directory was renamed (history)
    watch,    \* the kernel's watches: watch descriptor to inode
    lastwd,   \* watch descriptors are handed out in sequence
    queue,    \* events the kernel has queued
    ents,     \* sync->ent_list, the oldest entity first
    pc,       \* what the daemon does
    todo,     \* the scan: paths to visit, the next one first
    batch     \* the poll: events read and not processed

tree == <<at, used, changes, moved>>
vars == <<at, used, changes, moved, watch, lastwd, queue, ents, pc, todo, batch>>

Path  == Seq(Name)
Event == [wd : Nat, kind : {"create", "delete", "from", "to", "file"},
          name : Name]
Ent   == [id : Nat, path : Path, active : BOOLEAN]
Live  == DOMAIN at \union {Root}

TypeOK ==
    /\ used \in SUBSET Dir /\ Root \in used
    /\ DOMAIN at \subseteq used \ {Root}
    /\ at \in [DOMAIN at -> used \X Name]
    /\ changes \in 0..MaxChanges
    /\ moved \in BOOLEAN
    /\ lastwd \in Nat
    /\ DOMAIN watch \subseteq 1..lastwd
    /\ watch \in [DOMAIN watch -> Live]
    /\ queue \in Seq(Event) /\ batch \in Seq(Event)
    /\ ents \in Seq(Ent) /\ todo \in Seq(Path)
    /\ pc \in {"stat", "watch", "read", "idle", "batch", "off", "dead"}
    /\ pc \in {"watch", "read"} => todo # <<>>

Init ==
    /\ at = [i \in {} |-> <<Root, CHOOSE n \in Name : TRUE>>]
    /\ used = {Root}
    /\ changes = 0
    /\ moved = FALSE
    /\ watch = [w \in {} |-> Root]
    /\ lastwd = 0
    /\ queue = <<>>
    /\ ents = <<>>
    /\ pc = "watch"
    /\ todo = <<<<>>>>
    /\ batch = <<>>

-----------------------------------------------------------------------------
\* The directories on the way to path p, each in the one before it.
Chains(p) ==
    {c \in [DOMAIN p -> DOMAIN at] :
        \A k \in DOMAIN p : at[c[k]] = <<IF k = 1 THEN Root ELSE c[k - 1], p[k]>>}

\* The directory at path p: a set that is empty or a singleton.
Resolve(p) == {IF p = <<>> THEN Root ELSE c[Len(p)] : c \in Chains(p)}

Children(i) == {j \in DOMAIN at : at[j][1] = i}

\* Directory i is j or lies below it.
Below(i, j) ==
    LET up[k \in Nat] ==
            IF k = 0 THEN {i}
            ELSE {at[x][1] : x \in up[k - 1] \ {Root}}
    IN  \E k \in 0..MaxChanges : j \in up[k]

\* The watch of directory i, if it has one.
Watched(i) == {w \in DOMAIN watch : watch[w] = i}

\* What a watched directory p tells about its entry n.
Told(p, kind, n) ==
    IF Watched(p) = {} THEN <<>>
    ELSE <<[wd |-> CHOOSE w \in Watched(p) : TRUE, kind |-> kind, name |-> n]>>

Change ==
    /\ changes < MaxChanges
    /\ changes' = changes + 1
    /\ UNCHANGED <<lastwd, ents, pc, todo, batch>>

Free(p, n) == \A j \in Children(p) : at[j][2] # n

Mkdir(i, p, n) ==
    /\ Change
    /\ i \notin used /\ p \in Live /\ Free(p, n)
    /\ used' = used \union {i}
    /\ at' = [j \in DOMAIN at \union {i} |-> IF j = i THEN <<p, n>> ELSE at[j]]
    /\ queue' = queue \o Told(p, "create", n)
    /\ UNCHANGED <<moved, watch>>

\* The kernel drops the watch of a removed directory.
Rmdir(i) ==
    /\ Removes /\ Change
    /\ i \in DOMAIN at /\ Children(i) = {}
    /\ at' = [j \in DOMAIN at \ {i} |-> at[j]]
    /\ watch' = [w \in {v \in DOMAIN watch : watch[v] # i} |-> watch[w]]
    /\ queue' = queue \o Told(at[i][1], "delete", at[i][2])
    /\ UNCHANGED <<used, moved>>

Rename(i, p, n) ==
    /\ Moves /\ Change
    /\ i \in DOMAIN at /\ p \in Live /\ Free(p, n) /\ ~ Below(p, i)
    /\ at' = [at EXCEPT ![i] = <<p, n>>]
    /\ queue' = queue \o Told(at[i][1], "from", at[i][2]) \o Told(p, "to", n)
    /\ moved' = TRUE
    /\ UNCHANGED <<used, watch>>

\* A file is created (files are not part of the tree).
Create(p, n) ==
    /\ Files /\ Change
    /\ p \in Live /\ Free(p, n)
    /\ Watched(p) # {}
    /\ queue' = queue \o Told(p, "file", n)
    /\ UNCHANGED <<at, used, moved, watch>>

Users ==
    \/ \E i \in Dir, p \in Dir, n \in Name : Mkdir(i, p, n) \/ Rename(i, p, n)
    \/ \E p \in Dir, n \in Name : Create(p, n)
    \/ \E i \in Dir : Rmdir(i)

-----------------------------------------------------------------------------
\* Mutant of NewEntity: one entity per path.
NewEntityOnce(p, wd) ==
    IF \E k \in DOMAIN ents : ents[k].path = p THEN ents
    ELSE Append(ents, [id |-> wd, path |-> p, active |-> TRUE])

\* Mutant of NewEntity: an entity that is not active is used again, with its
\* old path.
NewEntityReused(p, wd) ==
    IF \E k \in DOMAIN ents : ~ ents[k].active
    THEN LET k == CHOOSE k \in DOMAIN ents : ~ ents[k].active
         IN  [ents EXCEPT ![k].id = wd, ![k].active = TRUE]
    ELSE Append(ents, [id |-> wd, path |-> p, active |-> TRUE])

\* sync_ent_init.
NewEntity(p, wd) == Append(ents, [id |-> wd, path |-> p, active |-> TRUE])

\* sync_watch on path p, where directory i is: inotify_add_watch keeps the
\* watch an inode has.
Watch(p, i) ==
    IF Watched(i) # {}
    THEN /\ \E w \in Watched(i) : ents' = NewEntity(p, w)
         /\ UNCHANGED <<watch, lastwd>>
    ELSE /\ lastwd' = lastwd + 1
         /\ watch' = [w \in DOMAIN watch \union {lastwd + 1} |->
                        IF w = lastwd + 1 THEN i ELSE watch[w]]
         /\ ents' = NewEntity(p, lastwd + 1)

\* sync_term after a failed scan.
Off ==
    /\ pc' = "off"
    /\ watch' = [w \in {} |-> Root]
    /\ ents' = <<>>
    /\ todo' = <<>>
    /\ queue' = <<>>
    /\ UNCHANGED <<lastwd, batch>>

\* A directory that readdir returned is skipped when it is gone.
ScanStat ==
    /\ pc = "stat"
    /\ todo # <<>>
    /\ IF Resolve(Head(todo)) = {}
       THEN todo' = Tail(todo) /\ UNCHANGED pc
       ELSE pc' = "watch" /\ UNCHANGED todo
    /\ UNCHANGED <<tree, watch, lastwd, queue, ents, batch>>

ScanWatch ==
    /\ pc = "watch"
    /\ \E i \in Live : i \in Resolve(Head(todo)) /\ Watch(Head(todo), i)
    /\ pc' = "read"
    /\ UNCHANGED <<tree, queue, todo, batch>>

\* The directory went away after the stat.  sync_watch returns a variable it
\* never set: no error, or an error, on which a DIR pointer that was never set
\* is closed.
ScanWatchFails ==
    /\ pc = "watch"
    /\ Resolve(Head(todo)) = {}
    /\ \/ pc' = "read" /\ UNCHANGED <<watch, lastwd, queue, ents, todo, batch>>
       \/ pc' = "dead" /\ UNCHANGED <<watch, lastwd, queue, ents, todo, batch>>
       \/ Off
    /\ UNCHANGED tree

ScanRead ==
    /\ pc = "read"
    /\ \E i \in Live :
          /\ i \in Resolve(Head(todo))
          /\ \E names \in SetToSeqs({at[j][2] : j \in Children(i)}) :
                todo' = [k \in DOMAIN names |-> Append(Head(todo), names[k])]
                           \o Tail(todo)
    /\ pc' = "stat"
    /\ UNCHANGED <<tree, watch, lastwd, queue, ents, batch>>

ScanReadFails ==
    /\ pc = "read"
    /\ Resolve(Head(todo)) = {}
    /\ Off
    /\ UNCHANGED tree

ScanDone ==
    /\ pc = "stat"
    /\ todo = <<>>
    /\ pc' = "idle"
    /\ UNCHANGED <<tree, watch, lastwd, queue, ents, todo, batch>>

-----------------------------------------------------------------------------
\* linux_sync_poll: everything queued fits into the buffer of one read.
Read ==
    /\ pc = "idle"
    /\ queue # <<>>
    /\ pc' = "batch"
    /\ batch' = queue
    /\ queue' = <<>>
    /\ UNCHANGED <<tree, watch, lastwd, ents, todo>>

\* Mutant of Swallows: no name fits into the slot that is parsed as an event.
SwallowsAll(e) == TRUE

\* The loop advances by the size of an event without its name.  The name is
\* parsed as an event of its own: it is ignored when the bytes where its len
\* would be are zero, and ends the loop with an unknown watch otherwise.
Swallows(e) == e.name \in Long

\* What is left of the batch after event e.
After(e) == IF Swallows(e) THEN <<>> ELSE Tail(batch)

\* sync_ent_id, sync_ent_path: the newest entity.
Newest(S) == {k \in S : \A m \in S : m <= k}
EntId(wd) == Newest({k \in DOMAIN ents : ents[k].active /\ ents[k].id = wd})
EntPath(p) == Newest({k \in DOMAIN ents : ents[k].path = p})

\* Mutant of Unwatched: the kernel's watch is left alone.
UnwatchedNothing(k) == watch

\* linux_sync_remove: the watch of entity k is dropped.
Unwatched(k) == [w \in DOMAIN watch \ {ents[k].id} |-> watch[w]]

\* sync_remove.
SyncRemove(k) ==
    /\ watch' = Unwatched(k)
    /\ ents' = [ents EXCEPT ![k].id = 0, ![k].active = FALSE]
    /\ UNCHANGED lastwd

\* The next event of the batch.
Upcoming == IF batch = <<>> THEN {} ELSE {Head(batch)}

\* linux_sync_poll_event on the next event, of the watch of entity k.
Process(e, k) ==
    /\ pc = "batch"
    /\ k \in EntId(e.wd)
    /\ batch' = After(e)
    /\ UNCHANGED <<tree, queue, todo>>

\* The path ent->path/name of an event.
Named(e, k) == Append(ents[k].path, e.name)

\* Mutant of OnNew: the result of inotify_add_watch is not tested.
OnNewUnchecked(e, k) ==
    /\ e.kind \in {"create", "to"}
    /\ Process(e, k)
    /\ UNCHANGED pc
    /\ IF Resolve(Named(e, k)) = {}
       THEN ents' = NewEntity(Named(e, k), -1) /\ UNCHANGED <<watch, lastwd>>
       ELSE \E i \in Live : i \in Resolve(Named(e, k)) /\ Watch(Named(e, k), i)

\* IN_CREATE and IN_MOVED_TO: the new directory is watched, what is in it is
\* not looked at.
OnNew(e, k) ==
    /\ e.kind \in {"create", "to"}
    /\ Process(e, k)
    /\ UNCHANGED pc
    /\ IF Resolve(Named(e, k)) = {}
       THEN UNCHANGED <<watch, lastwd, ents>>
       ELSE \E i \in Live : i \in Resolve(Named(e, k)) /\ Watch(Named(e, k), i)

\* IN_DELETE: ent is the entity of the directory the event came from.
OnDelete(e, k) ==
    /\ e.kind = "delete"
    /\ Process(e, k)
    /\ UNCHANGED pc
    /\ SyncRemove(k)

\* IN_MOVED_FROM.
OnMovedFrom(e, k) ==
    /\ e.kind = "from"
    /\ Process(e, k)
    /\ UNCHANGED pc
    /\ IF EntPath(Named(e, k)) = {}
       THEN UNCHANGED <<watch, lastwd, ents>>
       ELSE \E m \in EntPath(Named(e, k)) : SyncRemove(m)

\* IN_CREATE of a file: the entity is looked up by a path that was never set.
\* When it is one that an earlier event left there, sync_relay_update finds no
\* entity on the other side and copies to a null pointer.
OnFile(e, k) ==
    /\ e.kind = "file"
    /\ Process(e, k)
    /\ pc' \in {"batch", "dead"}
    /\ UNCHANGED <<watch, lastwd, ents>>

\* An event of no entity ends the loop, and the rest of the batch is lost.
OnUnknown ==
    /\ pc = "batch"
    /\ \E e \in Upcoming : EntId(e.wd) = {}
    /\ batch' = <<>>
    /\ UNCHANGED <<tree, watch, lastwd, queue, ents, pc, todo>>

BatchDone ==
    /\ pc = "batch"
    /\ batch = <<>>
    /\ pc' = "idle"
    /\ UNCHANGED <<tree, watch, lastwd, queue, ents, todo, batch>>

OnEvent(e, k) == OnNew(e, k) \/ OnDelete(e, k) \/ OnMovedFrom(e, k) \/ OnFile(e, k)

Daemon ==
    \/ ScanStat \/ ScanWatch \/ ScanWatchFails \/ ScanRead \/ ScanReadFails
    \/ ScanDone \/ Read \/ OnUnknown \/ BatchDone
    \/ \E e \in Upcoming, k \in DOMAIN ents : OnEvent(e, k)

Next == Users \/ Daemon

Spec == Init /\ [][Next]_vars
=============================================================================
