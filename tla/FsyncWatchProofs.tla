-------------------------- MODULE FsyncWatchProofs --------------------------
(***************************************************************************)
(* Proofs about the directory monitor, for every set of directories and    *)
(* names and every number of changes.                                      *)
(***************************************************************************)
EXTENDS FsyncWatchProps, FiniteSetTheorems, TLAPS

\* What a watched directory tells is a sequence of events.
LEMMA ToldType ==
    ASSUME TypeOK, NEW p, NEW n \in Name,
           NEW kind \in {"create", "delete", "from", "to", "file"}
    PROVE  Told(p, kind, n) \in Seq(Event)
<1>1. CASE Watched(p) = {}
    BY <1>1 DEF Told
<1>2. CASE Watched(p) # {}
    <2> DEFINE w == CHOOSE v \in Watched(p) : TRUE
    <2>1. w \in Watched(p)
        BY <1>2
    <2>2. w \in Nat
        BY <2>1 DEF Watched, TypeOK
    <2> HIDE DEF w
    <2>3. [wd |-> w, kind |-> kind, name |-> n] \in Event
        BY <2>2 DEF Event
    <2> QED
        BY <1>2, <2>3 DEF Told, w
<1> QED
    BY <1>1, <1>2

LEMMA TypeMkdir ==
    ASSUME TypeOK, NEW i \in Dir, NEW p \in Dir, NEW n \in Name, Mkdir(i, p, n)
    PROVE  TypeOK'
<1>1. queue' \in Seq(Event)
    BY ToldType DEF Mkdir, TypeOK
<1>2. /\ used' \in SUBSET Dir /\ Root \in used'
      /\ DOMAIN at' \subseteq used' \ {Root}
      /\ at' \in [DOMAIN at' -> used' \X Name]
      /\ Live \subseteq Live'
    BY DEF Mkdir, TypeOK, Live
<1>3. watch' \in [DOMAIN watch' -> Live']
    BY <1>2 DEF Mkdir, TypeOK
<1> QED
    BY <1>1, <1>2, <1>3, FsyncAssumption DEF Mkdir, Change, TypeOK

LEMMA TypeRmdir ==
    ASSUME TypeOK, NEW i \in Dir, Rmdir(i)
    PROVE  TypeOK'
<1>1. at[i][1] \in used /\ at[i][2] \in Name
    BY DEF Rmdir, TypeOK
<1>2. queue' \in Seq(Event)
    BY <1>1, ToldType DEF Rmdir, TypeOK
<1>3. at' \in [DOMAIN at' -> used' \X Name] /\ DOMAIN at' \subseteq used' \ {Root}
    BY DEF Rmdir, TypeOK
<1>4. watch' \in [DOMAIN watch' -> Live'] /\ DOMAIN watch' \subseteq 1..lastwd
    BY DEF Rmdir, TypeOK, Live
<1> QED
    BY <1>2, <1>3, <1>4, FsyncAssumption DEF Rmdir, Change, TypeOK

LEMMA TypeRename ==
    ASSUME TypeOK, NEW i \in Dir, NEW p \in Dir, NEW n \in Name, Rename(i, p, n)
    PROVE  TypeOK'
<1>1. at[i][1] \in used /\ at[i][2] \in Name /\ p \in used
    BY DEF Rename, TypeOK, Live
<1>2. /\ Told(at[i][1], "from", at[i][2]) \in Seq(Event)
      /\ Told(p, "to", n) \in Seq(Event)
    BY <1>1, ToldType
<1>3. queue' \in Seq(Event)
    BY <1>2 DEF Rename, TypeOK
<1>4. /\ DOMAIN at' = DOMAIN at
      /\ at' \in [DOMAIN at' -> used' \X Name]
    BY <1>1 DEF Rename, TypeOK
<1> QED
    BY <1>3, <1>4, FsyncAssumption DEF Rename, Change, TypeOK, Live

LEMMA TypeCreate ==
    ASSUME TypeOK, NEW p \in Dir, NEW n \in Name, Create(p, n)
    PROVE  TypeOK'
<1>1. queue' \in Seq(Event)
    BY ToldType DEF Create, TypeOK
<1> QED
    BY <1>1, FsyncAssumption DEF Create, Change, TypeOK, Live

\* The types of what sync_watch changes.
LEMMA WatchType ==
    ASSUME TypeOK, NEW p \in Path, NEW i \in Live, Watch(p, i)
    PROVE  /\ lastwd' \in Nat
           /\ DOMAIN watch' \subseteq 1..lastwd'
           /\ watch' \in [DOMAIN watch' -> Live]
           /\ ents' \in Seq(Ent)
<1>1. CASE Watched(i) # {}
    <2>1. PICK w \in Watched(i) : ents' = NewEntity(p, w)
        BY <1>1 DEF Watch
    <2>2. [id |-> w, path |-> p, active |-> TRUE] \in Ent
        BY <2>1 DEF Watched, TypeOK, Ent
    <2> QED
        BY <1>1, <2>1, <2>2 DEF Watch, NewEntity, TypeOK
<1>2. CASE Watched(i) = {}
    <2>1. [id |-> lastwd + 1, path |-> p, active |-> TRUE] \in Ent
        BY DEF TypeOK, Ent
    <2>2. ents' = Append(ents, [id |-> lastwd + 1, path |-> p, active |-> TRUE])
        BY <1>2 DEF Watch, NewEntity
    <2>3. ents' \in Seq(Ent)
        BY <2>1, <2>2 DEF TypeOK
    <2> QED
        BY <1>2, <2>3 DEF Watch, TypeOK
<1> QED
    BY <1>1, <1>2

LEMMA RemoveType ==
    ASSUME TypeOK, NEW k \in DOMAIN ents, SyncRemove(k)
    PROVE  /\ lastwd' \in Nat
           /\ DOMAIN watch' \subseteq 1..lastwd'
           /\ watch' \in [DOMAIN watch' -> Live]
           /\ ents' \in Seq(Ent)
<1>1. k \in 1..Len(ents) /\ ents[k] \in Ent
    BY DEF TypeOK
<1>2. [ents[k] EXCEPT !.id = 0, !.active = FALSE] \in Ent
    BY <1>1 DEF Ent
<1>3. ents' = [ents EXCEPT ![k] = [ents[k] EXCEPT !.id = 0, !.active = FALSE]]
    BY <1>1 DEF SyncRemove, TypeOK, Ent
<1>4. ents' \in Seq(Ent)
    BY <1>1, <1>2, <1>3 DEF TypeOK
<1> QED
    BY <1>4 DEF SyncRemove, Unwatched, TypeOK

LEMMA LiveStays ==
    ASSUME UNCHANGED tree PROVE Live' = Live /\ at' = at
BY DEF tree, Live

LEMMA OffType ==
    ASSUME TypeOK, Off, UNCHANGED tree PROVE TypeOK'
BY LiveStays DEF Off, TypeOK, tree

LEMMA TypeScanWatch ==
    ASSUME TypeOK, ScanWatch PROVE TypeOK'
<1>1. Head(todo) \in Path
    BY DEF ScanWatch, TypeOK
<1>2. PICK i \in Live : Watch(Head(todo), i)
    BY DEF ScanWatch
<1>3. /\ lastwd' \in Nat
      /\ DOMAIN watch' \subseteq 1..lastwd'
      /\ watch' \in [DOMAIN watch' -> Live]
      /\ ents' \in Seq(Ent)
    BY <1>1, <1>2, WatchType
<1> QED
    BY <1>3, LiveStays DEF ScanWatch, TypeOK, tree

LEMMA TypeScanWatchFails ==
    ASSUME TypeOK, ScanWatchFails PROVE TypeOK'
<1>1. CASE Off
    BY <1>1, OffType DEF ScanWatchFails
<1>2. CASE /\ pc' \in {"read", "dead"}
           /\ UNCHANGED <<watch, lastwd, queue, ents, todo, batch>>
    BY <1>2, LiveStays DEF ScanWatchFails, TypeOK, tree
<1> QED
    BY <1>1, <1>2 DEF ScanWatchFails

\* There are finitely many names in a directory.
LEMMA NamesFinite ==
    ASSUME TypeOK, NEW i
    PROVE  Cardinality({at[j][2] : j \in Children(i)}) \in Nat
<1> DEFINE T == {at[j][2] : j \in Children(i)}
           f == [j \in Children(i) |-> at[j][2]]
<1>1. Children(i) \in SUBSET Dir
    BY DEF Children, TypeOK
<1>2. IsFiniteSet(Children(i))
    BY <1>1, FS_Subset, FsyncAssumption
<1>3. f \in Surjection(Children(i), T)
    BY DEF Surjection
<1> HIDE DEF T, f
<1>5. IsFiniteSet(T)
    BY <1>2, <1>3, FS_Surjection
<1>6. Cardinality(T) \in Nat
    BY <1>5, FS_CardinalityType
<1> QED
    BY <1>6 DEF T

LEMMA TypeScanRead ==
    ASSUME TypeOK, ScanRead PROVE TypeOK'
<1>1. PICK i \in Live :
         \E names \in SetToSeqs({at[j][2] : j \in Children(i)}) :
             todo' = [k \in DOMAIN names |-> Append(Head(todo), names[k])]
                        \o Tail(todo)
    BY DEF ScanRead
<1> DEFINE T == {at[j][2] : j \in Children(i)}
<1>2. PICK names \in [1..Cardinality(T) -> T] :
         todo' = [k \in DOMAIN names |-> Append(Head(todo), names[k])]
                    \o Tail(todo)
    BY <1>1 DEF SetToSeqs
<1>3. Cardinality(T) \in Nat
    BY NamesFinite
<1>4. T \subseteq Name
    BY DEF Children, TypeOK
<1>5. Head(todo) \in Path /\ Tail(todo) \in Seq(Path)
    BY DEF ScanRead, TypeOK
<1> HIDE DEF T
<1>6. \A k \in 1..Cardinality(T) : Append(Head(todo), names[k]) \in Path
    <2>1. \A k \in 1..Cardinality(T) : names[k] \in Name
        BY <1>2, <1>4
    <2>2. \A h \in Seq(Name), x \in Name : Append(h, x) \in Seq(Name)
        OBVIOUS
    <2> QED
        BY ONLY <1>5, <2>1, <2>2 DEF Path
<1>7. DOMAIN names = 1..Cardinality(T)
    BY <1>2
<1> DEFINE kids == [k \in DOMAIN names |-> Append(Head(todo), names[k])]
<1>8. kids \in Seq(Path)
    <2>1. kids \in [1..Cardinality(T) -> Path]
        BY <1>6, <1>7
    <2> HIDE DEF kids
    <2> QED
        BY <1>3, <2>1
<1>9. todo' \in Seq(Path)
    <2>1. todo' = kids \o Tail(todo)
        BY <1>2
    <2> HIDE DEF kids
    <2> QED
        BY <1>5, <1>8, <2>1
<1> QED
    BY <1>9, LiveStays DEF ScanRead, TypeOK, tree

LEMMA TypeScan ==
    ASSUME TypeOK,
           \/ ScanStat \/ ScanWatch \/ ScanWatchFails
           \/ ScanRead \/ ScanReadFails \/ ScanDone
    PROVE  TypeOK'
<1>1. CASE ScanStat
    <2>0. todo # <<>> /\ Tail(todo) \in Seq(Path)
        BY <1>1 DEF ScanStat, TypeOK
    <2>1. /\ todo' \in Seq(Path) /\ pc' \in {"stat", "watch"}
          /\ pc' = "watch" => todo' # <<>>
        <3>1. CASE Resolve(Head(todo)) = {}
            BY <1>1, <2>0, <3>1 DEF ScanStat
        <3>2. CASE Resolve(Head(todo)) # {}
            BY <1>1, <2>0, <3>2 DEF ScanStat, TypeOK
        <3> QED
            BY <3>1, <3>2
    <2> QED
        BY <1>1, <2>1, LiveStays DEF ScanStat, TypeOK, tree
<1>2. CASE ScanReadFails
    BY <1>2, OffType DEF ScanReadFails
<1>3. CASE ScanDone
    BY <1>3, LiveStays DEF ScanDone, TypeOK, tree
<1> QED
    BY <1>1, <1>2, <1>3, TypeScanWatch, TypeScanWatchFails, TypeScanRead

\* What the next event of a batch is, and what is left after it.
LEMMA EventType ==
    ASSUME TypeOK, NEW e \in Upcoming
    PROVE  /\ e \in Event
           /\ After(e) \in Seq(Event)
BY DEF Upcoming, TypeOK, After

LEMMA NamedType ==
    ASSUME TypeOK, NEW e \in Event, NEW k \in DOMAIN ents
    PROVE  Named(e, k) \in Path
<1>1. ents[k].path \in Path /\ e.name \in Name
    <2>1. k \in 1..Len(ents) /\ ents[k] \in Ent
        BY DEF TypeOK
    <2> QED
        BY <2>1 DEF Ent, Event
<1> QED
    BY <1>1 DEF Named, Path

LEMMA TypeEvent ==
    ASSUME TypeOK, NEW e \in Upcoming, NEW k \in DOMAIN ents, OnEvent(e, k)
    PROVE  TypeOK'
<1>0. e \in Event /\ After(e) \in Seq(Event) /\ Named(e, k) \in Path
    BY EventType, NamedType
<1>1. /\ lastwd' \in Nat
      /\ DOMAIN watch' \subseteq 1..lastwd'
      /\ watch' \in [DOMAIN watch' -> Live]
      /\ ents' \in Seq(Ent)
    <2>1. CASE UNCHANGED <<watch, lastwd, ents>>
        BY <2>1 DEF TypeOK
    <2>2. CASE \E i \in Live : Watch(Named(e, k), i)
        BY <2>2, <1>0, WatchType
    <2>3. CASE \E m \in DOMAIN ents : SyncRemove(m)
        BY <2>3, RemoveType
    <2>4. CASE OnMovedFrom(e, k)
        BY <2>4, <2>1, <2>3 DEF OnMovedFrom, EntPath, Newest
    <2> QED
        BY <2>1, <2>2, <2>3, <2>4 DEF OnEvent, OnNew, OnDelete, OnFile
<1>2. /\ UNCHANGED <<tree, queue, todo>>
      /\ batch' = After(e)
      /\ pc = "batch" /\ pc' \in {"batch", "dead"}
    BY DEF OnEvent, OnNew, OnDelete, OnMovedFrom, OnFile, Process
<1> QED
    BY <1>0, <1>1, <1>2, LiveStays DEF TypeOK, tree

LEMMA TypePoll ==
    ASSUME TypeOK, Read \/ OnUnknown \/ BatchDone PROVE TypeOK'
<1>1. CASE Read
    BY <1>1, LiveStays DEF Read, TypeOK, tree
<1>2. CASE OnUnknown
    BY <1>2, LiveStays DEF OnUnknown, TypeOK, tree
<1>3. CASE BatchDone
    BY <1>3, LiveStays DEF BatchDone, TypeOK, tree
<1> QED
    BY <1>1, <1>2, <1>3

LEMMA TypeStep ==
    ASSUME TypeOK, [Next]_vars PROVE TypeOK'
<1>1. CASE UNCHANGED vars
    BY <1>1 DEF vars, tree, TypeOK, Live
<1>2. CASE Users
    BY <1>2, TypeMkdir, TypeRmdir, TypeRename, TypeCreate DEF Users
<1>3. CASE Daemon
    BY <1>3, TypeScan, TypeEvent, TypePoll DEF Daemon
<1> QED
    BY <1>1, <1>2, <1>3 DEF Next

LEMMA TypeInit == Init => TypeOK
<1> SUFFICES ASSUME Init PROVE TypeOK
    OBVIOUS
<1>1. todo \in Seq(Path) /\ todo # <<>>
    BY DEF Init, Path
<1>2. /\ used \in SUBSET Dir /\ Root \in used
      /\ DOMAIN at = {} /\ at \in [DOMAIN at -> used \X Name]
      /\ DOMAIN watch = {} /\ watch \in [DOMAIN watch -> Live]
    BY FsyncAssumption DEF Init
<1>3. /\ ents \in Seq(Ent) /\ queue \in Seq(Event) /\ batch \in Seq(Event)
      /\ changes \in 0..MaxChanges /\ lastwd \in Nat
    BY FsyncAssumption DEF Init
<1>4. moved \in BOOLEAN /\ pc = "watch"
    BY DEF Init
<1> QED
    BY <1>1, <1>2, <1>3, <1>4 DEF TypeOK

\* Every variable of the monitor keeps its type, for all trees and changes:
\* watches are on directories there are, and a path is at hand when the scan
\* takes one.
THEOREM FsyncTypeCorrect == Spec => []TypeOK
BY TypeInit, TypeStep, PTL DEF Spec

-----------------------------------------------------------------------------
\* A new entity leaves the others where they are.
LEMMA NewEntityKeeps ==
    ASSUME TypeOK, NEW p, NEW w, ents' = NewEntity(p, w)
    PROVE  /\ DOMAIN ents' = 1..(Len(ents) + 1)
           /\ \A k \in DOMAIN ents : k \in DOMAIN ents' /\ ents'[k] = ents[k]
           /\ ents'[Len(ents) + 1] = [id |-> w, path |-> p, active |-> TRUE]
BY DEF NewEntity, TypeOK

LEMMA WatchKeeps ==
    ASSUME TypeOK, WatchHasEntity, NEW p, NEW i \in Live, Watch(p, i)
    PROVE  WatchHasEntity'
<1>1. CASE Watched(i) # {}
    <2>1. PICK w \in Watched(i) : ents' = NewEntity(p, w)
        BY <1>1 DEF Watch
    <2>2. UNCHANGED watch
        BY <1>1 DEF Watch
    <2>3. \A k \in DOMAIN ents : k \in DOMAIN ents' /\ ents'[k] = ents[k]
        BY <2>1, NewEntityKeeps
    <2> QED
        BY <2>2, <2>3 DEF WatchHasEntity
<1>2. CASE Watched(i) = {}
    <2>1. /\ ents' = NewEntity(p, lastwd + 1)
          /\ DOMAIN watch' = DOMAIN watch \union {lastwd + 1}
        BY <1>2 DEF Watch
    <2>2. /\ Len(ents) + 1 \in DOMAIN ents'
          /\ ents'[Len(ents) + 1].active /\ ents'[Len(ents) + 1].id = lastwd + 1
        <3>1. /\ DOMAIN ents' = 1..(Len(ents) + 1)
              /\ ents'[Len(ents) + 1] =
                    [id |-> lastwd + 1, path |-> p, active |-> TRUE]
            BY <2>1, NewEntityKeeps
        <3>2. Len(ents) \in Nat
            BY DEF TypeOK
        <3> QED
            BY <3>1, <3>2
    <2>3. \A k \in DOMAIN ents : k \in DOMAIN ents' /\ ents'[k] = ents[k]
        BY <2>1, NewEntityKeeps
    <2>4. ASSUME NEW w \in DOMAIN watch'
          PROVE  \E k \in DOMAIN ents' : ents'[k].active /\ ents'[k].id = w
        <3>1. CASE w = lastwd + 1
            BY <2>2, <3>1
        <3>2. CASE w \in DOMAIN watch
            BY <2>3, <3>2 DEF WatchHasEntity
        <3> QED
            BY <2>1, <3>1, <3>2
    <2> QED
        BY <2>4 DEF WatchHasEntity
<1> QED
    BY <1>1, <1>2

\* The entity that is given up is the only one to lose its number, and its
\* watch is dropped.
LEMMA RemoveKeeps ==
    ASSUME TypeOK, WatchHasEntity, NEW m \in DOMAIN ents, SyncRemove(m)
    PROVE  WatchHasEntity'
<1>1. /\ DOMAIN watch' = DOMAIN watch \ {ents[m].id}
      /\ DOMAIN ents' = DOMAIN ents
      /\ \A k \in DOMAIN ents : k # m => ents'[k] = ents[k]
    BY DEF SyncRemove, Unwatched, TypeOK
<1>2. ASSUME NEW w \in DOMAIN watch'
      PROVE  \E k \in DOMAIN ents' : ents'[k].active /\ ents'[k].id = w
    <2>1. PICK k \in DOMAIN ents : ents[k].active /\ ents[k].id = w
        BY <1>1 DEF WatchHasEntity
    <2>2. k # m
        BY <1>1, <2>1
    <2> QED
        BY <1>1, <2>1, <2>2
<1> QED
    BY <1>2 DEF WatchHasEntity

LEMMA EntityEvent ==
    ASSUME TypeOK, WatchHasEntity,
           NEW e \in Upcoming, NEW k \in DOMAIN ents, OnEvent(e, k)
    PROVE  WatchHasEntity'
<1>1. CASE UNCHANGED <<watch, lastwd, ents>>
    BY <1>1 DEF WatchHasEntity
<1>2. CASE \E i \in Live : Watch(Named(e, k), i)
    BY <1>2, WatchKeeps
<1>3. CASE \E m \in DOMAIN ents : SyncRemove(m)
    BY <1>3, RemoveKeeps
<1>4. CASE OnMovedFrom(e, k)
    BY <1>4, <1>1, <1>3 DEF OnMovedFrom, EntPath, Newest
<1> QED
    BY <1>1, <1>2, <1>3, <1>4 DEF OnEvent, OnNew, OnDelete, OnFile

LEMMA EntityScan ==
    ASSUME TypeOK, WatchHasEntity, ScanWatch \/ ScanWatchFails \/ ScanReadFails
    PROVE  WatchHasEntity'
<1>1. CASE ScanWatch
    <2>1. PICK i \in Live : Watch(Head(todo), i)
        BY <1>1 DEF ScanWatch
    <2> QED
        BY <2>1, WatchKeeps
<1>2. CASE Off
    BY <1>2 DEF Off, WatchHasEntity
<1>3. CASE UNCHANGED <<watch, lastwd, queue, ents, todo, batch>>
    BY <1>3 DEF WatchHasEntity
<1> QED
    BY <1>1, <1>2, <1>3 DEF ScanWatchFails, ScanReadFails

LEMMA EntityUsers ==
    ASSUME TypeOK, WatchHasEntity, Users PROVE WatchHasEntity'
<1>1. UNCHANGED ents
    BY DEF Users, Mkdir, Rmdir, Rename, Create, Change
<1>2. DOMAIN watch' \subseteq DOMAIN watch
    BY DEF Users, Mkdir, Rmdir, Rename, Create
<1> QED
    BY <1>1, <1>2 DEF WatchHasEntity

LEMMA EntityStep ==
    ASSUME TypeOK, WatchHasEntity, [Next]_vars PROVE WatchHasEntity'
<1>1. CASE UNCHANGED <<watch, ents>>
    BY <1>1 DEF WatchHasEntity
<1>2. CASE Daemon
    BY <1>1, <1>2, EntityScan, EntityEvent
       DEF Daemon, ScanStat, ScanRead, ScanDone, Read, OnUnknown, BatchDone
<1> QED
    BY <1>1, <1>2, EntityUsers DEF Next, vars

\* An event of a live watch is always of an entity, however directories are
\* made, removed and renamed during the scan and between polls: polls are cut
\* short by events of dropped watches only.
THEOREM WatchesHaveEntities == Spec => []WatchHasEntity
<1>1. Init => WatchHasEntity
    BY DEF Init, WatchHasEntity
<1>2. TypeOK /\ WatchHasEntity /\ [Next]_vars => WatchHasEntity'
    BY EntityStep
<1> QED
    BY <1>1, <1>2, FsyncTypeCorrect, PTL DEF Spec

-----------------------------------------------------------------------------
(* Until a directory is renamed, paths keep leading to the directories they *)
(* were watched under.  A removed directory has nothing below it, so that   *)
(* it is on the way to no other one; a made one is on the way to none yet.  *)
(* The numbers of entities have been handed out already: an entity whose    *)
(* watch is gone is not given the next one by chance.                       *)

NumbersGiven == \A k \in DOMAIN ents : ents[k].active => ents[k].id \in 1..lastwd

PathInv == NumbersGiven /\ PathsLead

\* A chain stays one when none of its directories is moved or removed.
LEMMA ResolveKept ==
    ASSUME NEW p \in Path, NEW i \in Resolve(p),
           \A c \in Chains(p) : (p # <<>> => i = c[Len(p)]) =>
               \A k \in DOMAIN p : c[k] \in DOMAIN at' /\ at'[c[k]] = at[c[k]]
    PROVE  i \in Resolve(p)'
<1>1. PICK c \in Chains(p) : i = IF p = <<>> THEN Root ELSE c[Len(p)]
  BY DEF Resolve
<1>2. /\ c \in [DOMAIN p -> DOMAIN at]
      /\ \A k \in DOMAIN p : at[c[k]] = <<IF k = 1 THEN Root ELSE c[k - 1], p[k]>>
  BY DEF Chains
<1>3. \A k \in DOMAIN p : c[k] \in DOMAIN at' /\ at'[c[k]] = at[c[k]]
  BY <1>1
<1>4. c \in Chains(p)'
  BY <1>2, <1>3 DEF Chains
<1> QED
  BY <1>1, <1>4 DEF Resolve

\* Making a directory leaves every way as it is.
LEMMA ResolveMade ==
    ASSUME TypeOK, NEW j \in Dir, NEW q \in Dir, NEW n \in Name, Mkdir(j, q, n),
           NEW p \in Path, NEW i \in Resolve(p)
    PROVE  i \in Resolve(p)'
<1>1. \A x \in DOMAIN at : x \in DOMAIN at' /\ at'[x] = at[x]
  BY DEF Mkdir, TypeOK
<1>2. \A c \in Chains(p) : \A k \in DOMAIN p : c[k] \in DOMAIN at
  BY DEF Chains
<1> QED
  BY <1>1, <1>2, ResolveKept

\* Removing a directory leaves the ways to others as they are.
LEMMA ResolveRemoved ==
    ASSUME TypeOK, NEW j \in Dir, Rmdir(j),
           NEW p \in Path, NEW i \in Resolve(p), i # j
    PROVE  i \in Resolve(p)'
<1>1. \A x \in DOMAIN at \ {j} : x \in DOMAIN at' /\ at'[x] = at[x]
  BY DEF Rmdir
<1>2. \A x \in DOMAIN at : at[x][1] # j
  BY DEF Rmdir, Children
<1>3. ASSUME NEW c \in Chains(p), p # <<>> => i = c[Len(p)], NEW k \in DOMAIN p
      PROVE  c[k] \in DOMAIN at \ {j}
  <2>1. DOMAIN p = 1..Len(p) /\ Len(p) \in Nat /\ k \in 1..Len(p) /\ p # <<>>
    BY <1>3 DEF Path
  <2>2. /\ c[k] \in DOMAIN at
        /\ \A m \in DOMAIN p : /\ c[m] \in DOMAIN at
                               /\ at[c[m]] = <<IF m = 1 THEN Root ELSE c[m - 1], p[m]>>
    BY <1>3 DEF Chains
  <2>3. CASE k = Len(p)
    BY <1>3, <2>1, <2>2, <2>3
  <2>4. CASE k # Len(p)
    <3>1. k + 1 \in DOMAIN p /\ k + 1 # 1 /\ (k + 1) - 1 = k
      BY <2>1, <2>4
    <3>2. at[c[k + 1]][1] = c[k]
      BY <2>2, <3>1
    <3> QED
      BY <1>2, <2>2, <3>1, <3>2
  <2> QED
    BY <2>3, <2>4
<1> QED
  BY <1>1, <1>3, ResolveKept

\* Nothing moves: every way is kept.
LEMMA ResolveSame ==
    ASSUME at' = at, NEW p
    PROVE  Resolve(p)' = Resolve(p)
BY DEF Resolve, Chains

\* A new watch is the one of the new entity alone.
LEMMA WatchLeads ==
    ASSUME TypeOK, PathInv, UNCHANGED tree,
           NEW p \in Path, NEW i \in Live, i \in Resolve(p), Watch(p, i)
    PROVE  PathInv'
<1>0. \A q : Resolve(q)' = Resolve(q)
  BY ResolveSame DEF tree
<1>1. PICK w \in 1..lastwd' :
          /\ ents' = NewEntity(p, w) /\ w \in DOMAIN watch' /\ watch'[w] = i
          /\ lastwd' \in {lastwd, lastwd + 1}
          /\ \A v \in 1..lastwd : v \in DOMAIN watch' =>
                 v \in DOMAIN watch /\ watch'[v] = watch[v]
  <2>1. CASE Watched(i) # {}
    <3>1. PICK w \in Watched(i) : ents' = NewEntity(p, w)
      BY <2>1 DEF Watch
    <3> QED
      BY <2>1, <3>1 DEF Watch, Watched, TypeOK
  <2>2. CASE Watched(i) = {}
    <3>1. lastwd + 1 \in 1..lastwd' /\ \A v \in 1..lastwd : v # lastwd + 1
      BY <2>2 DEF Watch, TypeOK
    <3> QED
      BY <2>2, <3>1 DEF Watch
  <2> QED
    BY <2>1, <2>2
<1>2. /\ DOMAIN ents' = 1..(Len(ents) + 1) /\ DOMAIN ents = 1..Len(ents)
      /\ Len(ents) \in Nat /\ lastwd \in Nat
      /\ \A k \in DOMAIN ents : ents'[k] = ents[k]
      /\ ents'[Len(ents) + 1] = [id |-> w, path |-> p, active |-> TRUE]
  BY <1>1, NewEntityKeeps DEF TypeOK
<1>3. ASSUME NEW k \in DOMAIN ents'
      PROVE  /\ ents'[k].active => ents'[k].id \in 1..lastwd'
             /\ ~ moved => PathOfWatched(k)'
  <2>1. CASE k \in DOMAIN ents
    <3>1. ents'[k] = ents[k] /\ (ents[k].active => ents[k].id \in 1..lastwd)
      BY <1>2, <2>1 DEF PathInv, NumbersGiven
    <3>2. ~ moved => PathOfWatched(k)
      BY <2>1 DEF PathInv, PathsLead
    <3> QED
      BY <1>0, <1>1, <1>2, <3>1, <3>2 DEF PathOfWatched
  <2>2. CASE k = Len(ents) + 1
    BY <1>0, <1>1, <1>2, <2>2 DEF PathOfWatched
  <2> QED
    BY <1>2, <2>1, <2>2
<1> QED
  BY <1>3 DEF PathInv, NumbersGiven, PathsLead, tree

\* The entity that is given up has no watch any more.
LEMMA RemoveLeads ==
    ASSUME TypeOK, PathInv, UNCHANGED tree, NEW m \in DOMAIN ents, SyncRemove(m)
    PROVE  PathInv'
<1>0. \A q : Resolve(q)' = Resolve(q)
  BY ResolveSame DEF tree
<1>1. /\ \A w \in DOMAIN watch' : w \in DOMAIN watch /\ watch'[w] = watch[w]
      /\ DOMAIN ents' = DOMAIN ents /\ lastwd' = lastwd /\ moved' = moved
      /\ \A k \in DOMAIN ents : k # m => ents'[k] = ents[k]
  BY DEF SyncRemove, Unwatched, TypeOK, tree
<1>2. ~ ents'[m].active
  <2>1. m \in 1..Len(ents) /\ ents[m] \in Ent
    BY DEF TypeOK
  <2>2. ents'[m] = [ents[m] EXCEPT !.id = 0, !.active = FALSE]
    BY <2>1 DEF SyncRemove, Ent
  <2> QED
    BY <2>1, <2>2 DEF Ent
<1>3. ASSUME NEW k \in DOMAIN ents'
      PROVE  /\ ents'[k].active => ents'[k].id \in 1..lastwd'
             /\ ~ moved => PathOfWatched(k)'
  BY <1>0, <1>1, <1>2 DEF PathInv, NumbersGiven, PathsLead, PathOfWatched
<1> QED
  BY <1>1, <1>3 DEF PathInv, NumbersGiven, PathsLead

LEMMA LeadsUsers ==
    ASSUME TypeOK, PathInv, Users PROVE PathInv'
<1>1. UNCHANGED <<ents, lastwd>>
  BY DEF Users, Mkdir, Rmdir, Rename, Create, Change
<1>2. NumbersGiven'
  BY <1>1 DEF PathInv, NumbersGiven
<1>4. ASSUME NEW k \in DOMAIN ents, PathOfWatched(k),
             \/ \E i \in Dir, p \in Dir, n \in Name : Mkdir(i, p, n)
             \/ \E p \in Dir, n \in Name : Create(p, n)
             \/ \E i \in Dir : Rmdir(i)
      PROVE  PathOfWatched(k)'
  <2>0. PICK q \in Path : q = ents[k].path
    <3>1. k \in 1..Len(ents) /\ ents[k] \in Ent
      BY DEF TypeOK
    <3> QED
      BY <3>1 DEF Ent
  <2>1. ASSUME NEW w \in DOMAIN watch', NEW i \in Resolve(q),
               w \in DOMAIN watch, watch[w] = i
        PROVE  watch'[w] = i /\ i \in Resolve(q)'
    <3>1. CASE \E j \in Dir, p \in Dir, n \in Name : Mkdir(j, p, n)
      BY <2>1, <3>1, ResolveMade DEF Mkdir
    <3>2. CASE \E p \in Dir, n \in Name : Create(p, n)
      BY <2>1, <3>2, ResolveSame DEF Create
    <3>3. CASE \E j \in Dir : Rmdir(j)
      <4>1. PICK j \in Dir : Rmdir(j)
        BY <3>3
      <4>2. i # j /\ watch'[w] = i
        BY <2>1, <4>1 DEF Rmdir
      <4> QED
        BY <2>1, <4>1, <4>2, ResolveRemoved
    <3> QED
      BY <1>4, <3>1, <3>2, <3>3
  <2>2. DOMAIN watch' \subseteq DOMAIN watch
    BY <1>4 DEF Mkdir, Create, Rmdir
  <2> QED
    BY <1>1, <1>4, <2>0, <2>1, <2>2 DEF PathOfWatched
<1>5. CASE \E i \in Dir, p \in Dir, n \in Name : Rename(i, p, n)
  BY <1>2, <1>5 DEF Rename, PathInv, PathsLead
<1>6. CASE ~ \E i \in Dir, p \in Dir, n \in Name : Rename(i, p, n)
  <2>1. \/ \E i \in Dir, p \in Dir, n \in Name : Mkdir(i, p, n)
        \/ \E p \in Dir, n \in Name : Create(p, n)
        \/ \E i \in Dir : Rmdir(i)
    BY <1>6 DEF Users
  <2>2. moved' = moved
    BY <2>1 DEF Mkdir, Create, Rmdir
  <2> QED
    BY <1>1, <1>2, <1>4, <2>1, <2>2 DEF PathInv, PathsLead
<1> QED
  BY <1>5, <1>6

LEMMA LeadsDaemon ==
    ASSUME TypeOK, PathInv, Daemon PROVE PathInv'
<1>0. UNCHANGED tree
  BY DEF Daemon, ScanStat, ScanWatch, ScanWatchFails, ScanRead, ScanReadFails,
         ScanDone, Read, OnUnknown, BatchDone, OnEvent, OnNew, OnDelete,
         OnMovedFrom, OnFile, Process
<1>1. CASE UNCHANGED <<watch, lastwd, ents>>
  <2>1. \A q : Resolve(q)' = Resolve(q)
    BY <1>0, ResolveSame DEF tree
  <2> QED
    BY <1>0, <1>1, <2>1 DEF PathInv, NumbersGiven, PathsLead, PathOfWatched, tree
<1>2. CASE Off
  BY <1>2 DEF Off, PathInv, NumbersGiven, PathsLead
<1>3. CASE ScanWatch
  <2>1. Head(todo) \in Path
    BY <1>3 DEF ScanWatch, TypeOK
  <2> QED
    BY <1>0, <1>3, <2>1, WatchLeads DEF ScanWatch
<1>4. ASSUME NEW e \in Upcoming, NEW k \in DOMAIN ents, OnEvent(e, k)
      PROVE  PathInv'
  <2>1. Named(e, k) \in Path
    BY EventType, NamedType
  <2>2. CASE OnNew(e, k)
    BY <1>0, <1>1, <2>1, <2>2, WatchLeads DEF OnNew
  <2>3. CASE \E m \in DOMAIN ents : SyncRemove(m)
    BY <1>0, <2>3, RemoveLeads
  <2>4. CASE OnMovedFrom(e, k)
    BY <1>1, <2>3, <2>4 DEF OnMovedFrom, EntPath, Newest
  <2> QED
    BY <1>1, <1>4, <2>2, <2>3, <2>4 DEF OnEvent, OnDelete, OnFile
<1> QED
  BY <1>1, <1>2, <1>3, <1>4
     DEF Daemon, ScanStat, ScanWatchFails, ScanRead, ScanReadFails, ScanDone,
         Read, OnUnknown, BatchDone

\* The path an entity was made under leads to the directory its watch is on,
\* however deep the tree is and whatever is made and removed during the scan
\* and between polls, until a directory is renamed.
THEOREM PathsKeepLeading == Spec => []PathsLead
<1>1. Init => PathInv
  BY DEF Init, PathInv, NumbersGiven, PathsLead
<1>2. TypeOK /\ PathInv /\ [Next]_vars => PathInv'
  <2>1. CASE UNCHANGED vars
    <3>1. \A q : Resolve(q)' = Resolve(q)
      BY <2>1, ResolveSame DEF vars
    <3> QED
      BY <2>1, <3>1 DEF vars, PathInv, NumbersGiven, PathsLead, PathOfWatched
  <2> QED
    BY <2>1, LeadsUsers, LeadsDaemon DEF Next
<1>3. PathInv => PathsLead
  BY DEF PathInv
<1> QED
  BY <1>1, <1>2, <1>3, FsyncTypeCorrect, PTL DEF Spec
=============================================================================
