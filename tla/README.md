# share-daemon: models, checks and proofs

TLA+ specifications of the share daemon (`src/src/share-daemon`) and of the
directory monitor beside it (`src/src/share-fsync-daemon`), model-checked with
TLC and, for the parts where an inductive invariant was found, proved with
TLAPS for every number of hosts, clients, directories and hours.

Line numbers refer to the files under `src/`. `D/` stands for
`src/src/share-daemon/`, `F/` for `src/src/share-fsync-daemon/`.

## 1. The system

`shared`, the share daemon, is one single-threaded process per host. Daemons
find each other by UDP announcements, connect by TCP and exchange fixed-size
binary transactions; local applications talk to the daemon through a System V
message queue; a web port serves OAuth pages. `share-fsync-daemon` is a second
program that watches directories for changes with inotify.

| Component | State it keeps | Operations | What is hard about it | What makes it correct |
|---|---|---|---|---|
| Main loop (`D/sharedaemon_server.c`, `cycle_main`) | the client list, descriptor sets, buffers | one turn: IPC in and out, announcement, select, accept, read, write, verify, one frame per client | descriptors closed in one part of a turn and reused in the next; readiness read early and used late; clients marked in one turn and removed in another | a client's descriptor is its own; frames are only served to live connections; duplicates are resolved to the newest; closed clients are freed |
| Client table (`D/sharedaemon_client.c`, `sharedaemon_app.c`) | `sharedaemon_client_list` | push, find by key, count by host, free | lookups by a key that the handshake replaces | at most one registered client per key after the check; a limit per host |
| Discovery and peer database (`D/sharedaemon_bcast.c`, `sharedaemon_peer.c`) | the socket, stored peers | announce at start, receive, connect, probe | announcements are lost, several interfaces cause several connections | a connection to every announced daemon |
| Handshake, TX_INIT (`D/bits/init.c`) | `ini_seq`, AUTH and REGISTER of a client | nine numbered messages | several announcements open several connections, and each side drops the duplicates by itself; answers fan out to all connections with one key; restarts in the middle | one connection stays, both sides finish, no null pointer is reached |
| Transaction core and store (`D/bits/bits.c`, `transaction.c`, `schedule.c`, `signature.c`, `D/sharedaemon_store.c`) | files under `/sys/net/tx` | `tx_init`, `tx_sign`, `tx_confirm`, `tx_recv`, `tx_send`, `tx_wrap`, load, save | a crash between store, handler and ledger; errors that are dropped; clocks read twice, and differently at each host; keys over fields that are turned round | what was accepted is stored once and not replaced; what an honest daemon makes is confirmed by the others |
| Ledger (`D/bits/ledger.c`) | a file per key and hour, an archive | load, add, archive, save | the hour turns between two readings of the clock; failing reads and writes | entries in order, complete, never dropped; ledgers of a key form a chain |
| Wards and references (`D/bits/ward.c`, `reference.c`) | stored wards | init, confirm, release | the flag that asks for a ward is set by the ward itself | a warded transaction is held until its ward is released, and not longer |
| File transactions (`D/bits/file.c`) | files and their SYNC attribute | checksum, sync, read, write messages | both sides change a file while segments are under way; answers go to every connection | the newer content is kept, contents go only to who asked, the exchange ends |
| Subscriptions and routing (`D/bits/subscribe.c`, `D/sharedaemon_server.c` 389–794) | `op_flags` per client, socket buffers, IPC output queue | listen, `broadcast_raw`, read and write of buffers, framing, queue in and out | frames arrive in parts; a sink nobody has; keys that change while an answer is made | frames arrive whole, once and in order; an answer goes back to where the request came from |
| Http requests (`D/sharedaemon_server.c` 1090–1383) | the input buffer of a client | parse line by line, respond | requests that arrive in parts | every complete request is answered once |
| OAuth (`D/http/oauth*.c`) | users and sessions with a status | login, second factor, grant, token | steps out of order, expiry | no token without login, factor and grant |
| Devices (`D/sharedaemon_device.c`, `D/dev/`) | the list of devices and their definitions | add, start, poll, shutdown, unlink | devices that vanish | a started device is polled until it is shut down, then freed |
| Small transaction operations (`D/bits/account.c`, `clock.c`, `context.c`, `eval.c`, `session.c`, `trust.c`, `wallet.c` and others) | records in the store and in libshare | init, confirm, receive | signatures and stamps that must agree; expiry; a clock that travels twice | an evaluation can be verified under its context; a clock comes home |
| Directory monitor (`F/sync/`, `F/fsync_cycle.c`) | entities, inotify watches | scan, poll, process an event | the tree changes during the scan and between events | every directory is watched, every watch has an entity whose path is right |

How they interact: everything in the daemon runs inside the turn of the main
loop. The loop calls `tx_confirm` and `tx_recv` on a frame; `tx_recv` writes the
store, calls the operation's handler and writes the ledger; handlers answer by
`tx_send`, which appends to the ledger of the daemon's own peer and then, by
`sched_tx` and `broadcast_raw`, to the output buffers of clients chosen by key.
`txop_init_recv` changes keys and flags of the client table that the duplicate
check of the loop reads. Announcements add clients. Nothing is shared between
the two programs.

`bond.c`, `certificate.c`, `contract.c` and `peer_hash.c` are not in the
Makefile and no part of the program; much other code is under `#if 0`.

## 2. Modules

| Module | What it is |
|---|---|
| `ClientTable` | the client list and the effect of `txop_init_recv` on it, as operators; used by the next two |
| `ServerLoop`, `ServerLoopProps`, `ServerLoopProofs` | one daemon: the loop phase by phase, the descriptor table, an arbitrary network |
| `Handshake`, `HandshakeProps`, `HandshakeProofs` | several daemons, their connections, announcements, restarts |
| `FsyncWatch`, `FsyncWatchProps`, `FsyncWatchProofs` | the directory monitor, inotify, and users that change the tree |
| `TxLedger`, `TxLedgerProps`, `TxLedgerProofs` | receiving and sending a transaction down to the files of the store and the ledger |
| `KeyLog`, `TxLedgerRefines` | what the ledgers promise, a log for every key; the proof that `TxLedger` implements it |
| `FileSync`, `FileSyncProps`, `FileSyncProofs` | the exchange of TX_FILE between daemons that have a file each |
| `ClientIO`, `ClientIOProps`, `ClientIOProofs` | a frame from `sched_tx` over buffers and sockets to `cycle_client_request` |
| `FrameChannel` | what a connection promises, a queue of frames; `ClientIO` implements it |
| `TxLife`, `TxLifeProps`, `TxLifeProofs` | a transaction from the daemon that makes it to those that accept it |
| `MC...` | what TLC needs on top: symmetry sets |

A specification module has the state, the actions and the mutants: definitions
named `Mutant of X`, each a plausible slip in the code that `X` translates,
which no specification uses. Every property was seen to fail with one of them in
the place of the original. The properties are in the `...Props` modules, the
theorems in the `...Proofs` modules.

### ClientTable

Clients are pushed at the head of the list and only ever unlinked, so the list
is ordered from the newest to the oldest. A table is a function from allocation
numbers to records, and "the first client that ..." is the greatest number.
`key` is the private key of `cli->peer`; for an accepted connection that is the
remote address, until sequence 1 or 2 of the handshake replaces it. The handler
overwrites `ini_peer` with the local peer before reading it (init.c:295), so the
key of every registered client becomes the daemon's own: `Registered` and
`Advanced` do what the code does.

### ServerLoop

| State | Code |
|---|---|
| `tbl`, `last` | `sharedaemon_client_list`; how many were allocated |
| `sock` | the kernel's descriptor table: whose connection a number is |
| `pc`, `todo` | where in `cycle_main` the process is; clients a pass has still to visit |
| `lst`, `rd`, `wr` | the sets `select` returned |
| `polled` | history: the clients that were in the sets |

The phases are `queue` (`cycle_msg_queue_in`), `bcast`
(`sharedaemon_bcast_recv`), `poll` (select in `cycle_main`), `accept`, `read`
and `write` (the three parts of `cycle_socket`), `verify`
(`cycle_socket_verify`, a step per client) and `request`
(`cycle_client_request`, a step per client). The results of the system calls are
nondeterministic, except that `accept` and `socket` return the lowest free
number, which is what makes a reused number dangerous. `dead` is the null
pointer at sequence 2.

Left out: the contents of buffers, the outgoing IPC queue and the http requests
(neither touches the list or a descriptor).

The connections of a host pass three stages. `cycle_socket` counts those that
still have an address of the host as their key and are barred (AUTH) before it
accepts one more (829); the test is ">", so that one more than the limit is let
in. The first step of the handshake gives a connection the daemon's own key: it
is not counted any more, although it is still barred, and the duplicate check
leaves one of those. `ConnectionsBounded` is about all of them together, when
the check has passed; those that are being shut down are not in it, as nothing
limits them (see the fairness of `server_loop_live`).

### Handshake

The same loop for several daemons, with the phases that matter between them. A
connection has two ends `<<n, i>>`; `out` is `buff_out`, `wire` what was written
and not yet processed by the far end. `ann` holds announcements. A daemon may be
killed and started again (`Crash`, `Boot`); announcements may be lost;
connections may time out (`Idle`) and be set up in another order than they were
opened (`Reorder`). `Verify` is the whole of `cycle_socket_verify` in one step.
When an end goes away (`Forget`), what is under way to it is lost; what is
queued for a connection that is not established yet stays in `buff_out`, and is
written when the connection has been set up.

### FsyncWatch

Directories are inodes; `at` is the tree. `watch` and `queue` are the kernel's:
an inode has at most one watch, a removed directory loses it, events queue up.
`ents` is `sync->ent_list`. The scan takes a step per system call (`ScanStat`,
`ScanWatch`, `ScanRead`), a poll a step per event. The code advances by
`sizeof(struct inotify_event)` without the name, so that a name is parsed as the
next event: short names are harmless (`Swallows`), names of more than 12
characters end the batch. Two variables that are read before they are set
(sync.c:118, sync_linux.c:97) have every outcome the build can produce.

### TxLedger

| State | Code |
|---|---|
| `store` | `/sys/net/tx/default/<name>` |
| `archive` | `/sys/net/tx/ledger/<name>` |
| `files` | `/sys/net/ledger/<key>/<hour>` |
| `cur`, `pc` | the transactions in `tx_recv` with the key of the connection they came on, and where between two accesses of a file or readings of the clock the process is |
| `adds` | ledger entries that are still to be made, in their order |
| `led` | the `ledger_t` in memory |
| `now`, `count` | the hour; entries so far |
| `rcvd`, `lost` | history: which entries are of received transactions; which kinds of failure have happened |

`ledger_load` reads the clock once for the path (`Open`) and once for the stamp
of a new ledger (`Stamp`), and `ledger_close` saves to the path of the stamp
(`Write`). `ledger_tx_add` looks the archived ledger up by the key of the ledger
and `pstore_save` stores it by `tx_key`, which is zero (`Add`). A handler that
answers (`HandleAnswers`, all of TX_FILE) makes an entry for the own peer
before the one of the transaction it answers. The latter goes to the ledger of
the connection's peer, and a connection that was registered has the daemon's own
(init.c:295 and 336): its transactions, those that are sent and the answers are
in one ledger, that of `Self`. Other ledgers get what is received on an outgoing
connection before number 2 of the handshake, when its key is still the address it
goes to and AUTH is not set, so that broadcasts reach it. `Begin` has any of
these keys. Since sent entries are never stored, `LedgerInStore` tells them
apart by `rcvd`. Reads and writes fail at any time, as
`pstore_read`, `pstore_write`, `shfs_read` and `shfs_write` may, with the results
their callers give it; the process may die between any two steps.

Left out: the hashes and signatures of a ledger, its time of closure, fees
(disabled), and operations stored under prefixes of their own, which behave as
`Plain` does. A transaction with TXF_WARD changes nothing, because its reference
is never stored. `shbuf_cat` may move the buffer `l->net` points into; nothing
reads `l->net` between that and the end of the save but the key and the stamp
for the path, and a wrong path has the outcome of a lost write.

The clock never steps back: that is an assumption of `Tick`, the only one the
model makes of the environment. With a clock that is set back over an hour the
ledger of that hour would receive later entries, and the order would be lost.

### KeyLog

The abstract specification of the ledger: for every key a set of numbered
entries, a queue of entries that were accepted and wait, and the kinds of
failure there were. `ImplementsLog` (in `TxLedgerProps`) is the refinement: the
log of a key is the union of its hourly files, what waits is `adds`. A step of
`TxLedger` that writes a file is `Record`; a write that fails is `Drop`; reading
the clock, loading and archiving are stutters.

### FileSync

| State | Code |
|---|---|
| `file` | the file of each daemon: whether it is there, SHATTR_SYNC, the format, times and contents |
| `wire`, `open` | TX_FILE messages under way on each direction of a connection; the connections |
| `now` | the clock, which does not step back |
| `asked`, `newest` | history: who sent a READ; the newest file while one notification is alone at work |

`Notify` is `inittx_file` with `tx_send` (IPC); `Answer` is
`txop_file_confirm` and `txop_file_recv` for CHECKSUM, SYNC (both
`remote_file_notification`) and READ (`txfile_send_write`); `Write` is
`txfile_recv_write`, which writes the segment at the beginning of a new stream
(`Overlaid`); `AnswerFails` and `WriteFails` are the failing reads and writes,
the latter with the attribute SYNC left cleared. Users edit and mark files,
connections are made and closed. Everything that is sent goes to every
connection, as after the handshake all of them have one key.

### ClientIO and FrameChannel

| State | Code |
|---|---|
| `open`, `peer`, `auth` | the clients with a socket; the key of `cli->peer`; SHD_CLIENT_AUTH |
| `out`, `in` | `buff_out` at one end, `buff_in` at the other |
| `wire` | what the two sockets hold |
| `got`, `odd` | history: frames taken; lines on which something else was sent |

A buffer is a sequence of units, so that reads and writes end anywhere in a
frame. `Put` is `sched_tx_payload` with `broadcast_raw`: the clients with the
key of the sink, or everyone when nobody has it. `RequestBad` throws away all
that was received, `Taken` trims one frame. `RequestInit` changes the client it
finds by the key, which need not be the one the frame came from, leaves open at
which number it does (`Handshake` has that), and has what may go out before the
answer (a subscription at numbers 5 and 6, the notice of an application at 7 and
8: one of them at most); the answer is sunk to the key the peer has afterwards.

What is not a frame of a daemon is `Stray`: something without the magic number,
or a header with it whose `tx_size` is that of no transaction or more than what
follows, or whose checksum is wrong (`Strange`). A size that is too large is never
refused (1036): the loop waits for the rest (`Complete`), and when later frames
have made up the number it takes them for it, if the checksum is right, which
covers a `tx_t` only, and trims all that was claimed (`Trimmed`), or throws
everything away. `NothingStuck` says that there is no other way to block a
connection, and has that wait as its exception. `FrameChannel` is the abstract queue of frames:
`ImplementsChannel` maps it to the frames that begin in what is read, on the wire
and buffered on a line, put together (`Begun`): the first may be lost with
something strange before them or in their midst, and only then; past the rest of a frame that
began before (`Lead`) there is one in `Size` units.

### TxLife

| State | Code |
|---|---|
| `clock` | `shtime` of each host; they differ, and none steps back |
| `made` | transactions in hand after `tx_init` |
| `chan` | frames between daemons, in order (what `ClientIO` provides) |
| `store`, `ledger` | files of `sharedaemon_store.c`; entries of the ledgers, with whom they are from |
| `synced` | clients whose `clock_stamp` is set |
| `refused` | history: what `tx_confirm` refused, when, and with which contexts stored |

A transaction has the fields its key covers (`body`, and `turned`, the byte
order, for operations whose `op_keylen` includes a field that `op_wrap` swaps)
and the fields behind them (`rest`): signatures, stamps. A hash is the value
hashed. `Make` is `tx_init`: the operation's handler has read the clock before
and may have put in the stamp it signed for, which `local_transid_generate`
keeps (`Stamped`); the key is made of the result. `OnWire` and `Received` are
`tx_wrap` at the two ends. `Conf` is `op_conf`, with a definition for each
operation that has conditions: `WalletConfirm` tests the currency, the times and
the signature of a wallet, while `inittx_wallet` takes any currency. `Saved` keeps
the first file under a key. `ClockAsked` changes the received transaction and
sends it back under the key it came with. `Restart` loses what is in memory and
on the way, and keeps the files.

"subscribe" and "event" stand for the operations without a condition of their
own. Files of a user that accounts and identities write through libshare, and
the scrypt hash of a transaction, which nothing in the build checks, are left
out.

## 3. What the runs check

| Run | Instance | Properties | Shows |
|---|---|---|---|
| `server_loop` | 2 hosts, 3 clients, 3 descriptors, `MaxConnections` 0 (16 in the code), INIT numbers to 2 | `TypeOK`, `DescriptorNotForeign`, `LiveRequests`, `UniqueRegistration`, `ReadinessBelongs`, `ConnectionsBounded`, `DeregisteredForNewer` | the loop keeps descriptors and registrations apart, and the connections of a host are bounded in all their stages |
| `server_loop_live` | 1 host, 2 clients, fairness | `ClosedIsFreed`, `ShutdownCompletes` | closed network clients leave the list; one that is being shut down leaves it, too, unless its peer stops reading |
| `handshake_restart` | 2 daemons, 2 boots each, timeouts, any order | `TypeOK`, `ChatterBounded`, `InitNeverUnknown` | no null pointer; answers do not multiply: a number is under way on a connection at most once for each client of the sender that passed it |
| `handshake_pair` | 2 daemons with 2 interfaces, so that 2 connections compete, both opened by the daemon that was up first; fairness | `PairKept`, `StaysRegistered`, `StaysLinked` | the two sides agree which duplicate to drop, one connection stays, and the handshake on it completes |
| `check_for_dups` | 3 daemons | `DupsAreDuplicates` (fails) | a connection to a third daemon is dropped as a duplicate |
| `fsync_watch` | 4 inodes, 2 names, one of them long, 4 changes of any kind | `TypeOK`, `WatchHasEntity`, `PathsLead` | entities and watches stay together |
| `fsync_noticed` | 4 inodes, 3 new directories, fairness | `NoticedIsWatched` | what the kernel tells about gets watched |
| `tx_ledger` | 1 peer, the own peer, 2 transactions on one file, one of each other kind, received under either key, 2 hours, `MaxCount` 3 | `TypeOK`, `LedgerOrder`, `LedgerComplete`, `LedgerInStore`, `LedgerGrows`, `StoreKept`, `ImplementsLog` | order, completeness and agreement of store and ledger over failures; the hourly files are one log for every key |
| `file_sync` | 2 daemons, files of up to 2 segments of 2 byte values, 3 events, fairness | `TypeOK`, `WriteWasAsked`, `NewestKept`, `Settles` | contents go to who asked, the newest file is kept, the exchange ends |
| `file_missing` | the same with 1 event | `MissingMatches` (fails) | the missing end of a file replaces its beginning |
| `client_io` | 2 daemons, 2 connections, 3 frames of 2 units, 1 fault of any kind, among them a header that claims a unit too many, fairness | `TypeOK`, `HonestHeard`, `ImplementsChannel`, `AnswerReturns`, `NothingStuck` | buffers and sockets are a channel of whole frames; answers go back; no frame is stuck but behind a header that claims too much |
| `tx_life` | 2 daemons whose clocks go apart, 2 currencies of which 1 is confirmed, 3 sends, 1 restart, fairness | `TypeOK`, `RefusedForCause`, `EvalsVerifiable`, `ClockHeadsHome`, `ClockSynced` | nothing honest is refused without a cause; evaluations stay verifiable; clocks come home |

### Bounds

- `MaxClients` 3 and `MaxFd` 3: three clients are what a duplicate check needs
  to go wrong (a newer, a middle and an older one), and all three may compete
  for a number that is reused. Clients are never renumbered, so behaviours end
  when the bound is reached; within it every phase repeats often.
- `MaxConnections` 0 in `server_loop`: the limit lets one more in than it says,
  so that three clients suffice for one that is counted, one that is not any
  more, and one that is refused or a duplicate. The theorem has any limit.
- `MaxSeq` 2 in `server_loop`: numbers up to 2 are those that look up, register
  or crash; larger ones only lift AUTH. `Handshake` has all of them.
- `Interfaces`, `MaxBoots`: a daemon that starts is heard on every interface, so
  two interfaces give a pair two connections, the smallest case in which both
  sides choose; they are opened by one side, since only the daemon that ran
  already hears the other. Two boots give a second connection while the first
  may still be open at the daemon that was not killed, in either direction.
- `MaxChanges` 4 with 4 inodes: a directory, one inside it, the removal of the
  outer one's sibling and a new directory under the old name.
- `MaxHour` 2 and `MaxCount` 3: a turn of the hour between any two steps of one
  entry, with entries of one key before and after it, received, sent and answers.
  The theorems have any number of hours. `MaxCount` bounds the
  start of a transaction, so that one with an answer may make a fourth entry.
- `file_sync`: `MaxLen` 2 with `Segment` 1 makes both branches of `Wanted`
  happen (a file that is longer, and one that is as long and differs);
  `MaxTime` 3 allows two changes after the files were copied; `MaxEvents` 3 is a
  notification with a change and a failure, or two notifications that meet.
  `Copies` 1: with copies on a second connection the exchange repeats, and the
  state space is out of reach; the theorem has any number of connections.
- `client_io`: `NetLen` and `TxLen` 1 give every place to split a frame that the
  framing tells apart (inside the header, behind it, inside the transaction,
  between frames), since a read may take any number of units; `Copies` 2 lets a
  key be shared; 3 sends are a request, its answer and one frame behind it.
  `LongLen` 2, a unit more than there is: the header of the next frame makes it
  up, so that the rest of that one is cut off.
- `tx_life`: `MaxMade` 6 by weight, so that three contexts and evaluations, or
  two of the other operations, are in hand: an evaluation, its context and a
  context of the same name. `MaxTime` 2 and `Span` 1: each clock may be ahead,
  and things expire on the way. `MaxSends` 3 sends all of them.

Deadlock is not checked: behaviours end at the bounds, and a process may be dead.
Peers, inodes, files and daemons are symmetric; symmetry is used only in runs
without temporal properties of the liveness kind.

### Fairness

- `ServerLoop`: weak fairness of the loop, which never blocks (select has a
  timeout, everything else is non-blocking). Nothing is assumed of the peers. A
  client that is being shut down is closed when its socket is writable, and the
  verification pass goes past both idle timeouts for it (939-945): a peer that
  stops reading keeps it for ever. `ShutdownCompletes` therefore says that it
  leaves the list or is found unwritable pass after pass.
- `Handshake`: weak fairness of each daemon's loop and of setting connections
  up, strong fairness of taking a frame. A frame that has arrived is there at
  every pass; `Skip` models that it has not arrived, and TCP delivers in the
  end. Liveness is claimed with `Idle = FALSE` and `Reorder = FALSE` only.
- `FsyncWatch`: weak fairness of the daemon; users owe nothing.
- `FileSync` and `TxLife`: weak fairness of taking the first message of each
  line. `cycle_client_request` visits every client in each turn and takes one
  frame of it.
- `ClientIO`: weak fairness of writing, reading and taking a frame on each line,
  for the same reason, and of closing an end whose other end is closed: the loop
  reads the end of the file.

## 4. What is proved

TLAPS checks the following for all values of the constants that satisfy the
named assumptions in the modules (`ConstantsAssumption`, `FsyncAssumption`,
`LedgerAssumption`, `FileSyncAssumption`, `ClientIOAssumption`,
`TxLifeAssumption`, `HandshakeAssumption`: bounds are natural numbers, keys of
different kinds differ, a subscription is no number of the handshake).

`ServerLoopProofs`: `TypeCorrect`, `DescriptorsNeverForeign`, `RequestsAreLive`,
`NewerTakesOver`, `ReadinessOfPolled`, `OneRegistered`, `ConnectionsLimited`, which is
every property of the run `server_loop`.
That a descriptor is never foreign does not follow from itself: `netclient_conn`
leaves a client on the list with a number that is closed, and one step later
`accept` could hand the number out. The invariant is `IInv`: types,
`DescriptorNotForeign`, `LiveRequests` and `DescriptorsOwned`, which says when a
stale number can exist: only from the announcement to the verification pass of
the same turn. In `poll` a stale number makes select fail, so that nothing is
accepted; in `verify` it is dropped when its client is visited, and nobody opens
a descriptor meanwhile. At every other time all numbers are owned, and a number
the kernel hands out is on no client. `ReadinessOfPolled` adds `ReadyPolled`:
while connections are accepted every number in a ready set is in use, so that an
accepted socket has another one. `OneRegistered` adds `VisitedAlone`: a client
the verification pass has visited is closed, being shut down, or has no
duplicate. `NewerTakesOver` needs no more than the types and `StepKeeps`, which
says what any step may do to a client that stays on the list.
`ConnectionsLimited` puts three facts together: the clients that `cycle_socket`
counts are at most one more than its limit (`HostLimit`, by the same `StepKeeps`);
a client that has an address of a host for its key is barred and not registered,
and one with the daemon's own key is registered or was marked by the check
(`Staged`); and after the check one is registered (`OneRegistered`).

`FsyncWatchProofs`: `FsyncTypeCorrect`, `WatchesHaveEntities`. A watch is made
and its entity appended in one step; what has to be shown is that the steps that
deactivate an entity drop the watch with the same number, and that the kernel's
own removals only shrink the watches. `PathsKeepLeading`: the path of a watched
directory leads to it until something is renamed. A path leads somewhere by a
chain of directories (`Chains`), so that no induction over its length is
needed: a chain stays one as long as each directory on it stays where it is, and
a directory that has others below it is not removed. `PathInv` adds that the
numbers of active entities have been handed out already (`NumbersGiven`):
otherwise an entity whose watch is gone might be given the next watch, of
another directory.

`HandshakeProofs`: `HandshakeTypeCorrect`, and `NullNeverReached`, that no daemon
dies by the pointer `txop_init_recv` does not test. The daemon dies when a 2
arrives through a client no lookup by key finds, that is, one whose key is still
the address it connected from. What has to be shown is that such a client reads
a 0 first, which gives it a key. The invariant `KnownInv` says it of both ends:

- what a client that connects sends first is a 0, and it sends nothing else
  before: as long as its connection is not established, or waits in the backlog
  of the other daemon (`Waits`), the first frame on the wire, or else in
  `buff_out`, is a 0 (`Front`, `EndInv`);
- an accepted client that is neither registered nor marked (`Newcomer`) has sent
  nothing (`Silent`), so that nobody had anything to answer, and the other end
  is in front (`CliInv`);
- a client the duplicate check has marked has, outside the pass that marks and
  closes, nothing on the wire, and its far end, if it is there at all, is a
  newcomer that has sent nothing: no frame reaches it any more;
- two ends have each other, a backlog has established connections without a far
  end, each once (`PendInv`), and a daemon that is down has neither clients nor
  a backlog (`DownInv`).

Frames that fan out to every client with one key are the reason why this is said
of all clients of all daemons at once: one step appends to many buffers, of
which none may be a newcomer's. The steps of killing, closing and timing out
only take frames away, and always a whole queue with its client.

`ChatterStaysBounded` is about all of what is under way. A number is sent when a
client that had not passed it does (`Passed`), and then at most once on each
connection, whoever the answer is sunk to. So the invariant is `Bounded`, number
by number: every step queues, for some set of frames, each at most once on a
connection (`Gains`), and for each number in that set a client has newly
passed it (`BoundedFrom`); writing moves frames from one sequence to the other,
taking, closing and killing only remove some. A client never goes back
(`Matures`), and one that is freed counts as having passed everything. It needs
`KnownInv` for number 1, which is answered without being recorded: the client
registered is the newcomer the 0 came through, which changes its key for the
daemon's own and so passes 1 only once. `OneSideHears`: of two daemons at most
one has announcements of the other, since those go to daemons that run already.

`PairStaysConnected` and `PairKeepsTheSame` are about two daemons, each started
at most once, whose connections are set up in the order they were opened and do
not time out (`SettledPair`), with any number of connections between them. These
conditions are what `handshake_pair` assumes, and TLC shows a pair that loses its
last connection with any one of them dropped: a third daemon has the same key,
a later connection that is set up first is the newer one for the one side only,
and a connection may time out or its daemon be killed. The invariant `PairInv`
names the daemon that was first, which opens all connections (`Opens`). Since
its connections wait and are accepted in order, client `i` of one is connected to
client `i` of the other (`InOrder`), so that the newest client of one is that of
the other, and each holds its newest (`NewestHeld`): the duplicate check marks a
client only for a newer one, and the end of a connection is only read where the
other side has closed it. `PairKeepsTheSame` adds what `PairKept` does not ask:
when all connections were accepted, both have kept the same one.

`TxLedgerProofs`: `LedgerTypeCorrect`, `LedgerOrdered`, `LedgerCompleted`,
`LedgerGrown`, `LedgerStored`, `StoreKeeps`, which is every property of the run
`tx_ledger`. `LedgerOrder` is not inductive, since the next write depends on
what is in memory. `LedgerInv` adds: files are under their own key and stamp and
not of an hour to come (`FilesFiled`); pending entries are numbered on from the
last one that is done (`AddsNumbered`); the open ledger is the latest of its key
(`LedLatest`), its entries are above those of earlier files (`LedAbove`), it
begins with what its own file has unless a read failed (`LedGoesOn`), and it
ends with the entry just added (`LedEnds`). With these the second reading of
the clock is harmless: a new ledger is begun only if the current hour has none,
and its stamp is of that hour or a later one, which has none either.
`StoreInv` adds for the store that what was received and is handled, pending or
in the open ledger has been stored (`StoreAhead`). The lemmas on `Put`, `Appended`,
`Archived` and `NewLedger` stand at the beginning; there is one lemma for each
step that changes the ledger, and the others are `QuietStep`.

`TxLedgerRefines`: `LedgerIsLog`, the refinement of `KeyLog`. `LedgerInv` alone
does not say what a write adds to a file; `LedWhole` does: the ledger in memory
has all that its file has, or nothing of it, and then the entry whose turn it is.

`FileSyncProofs`: `FileSyncTypeCorrect` for any number of daemons, and
`AskedFirst` for two of them (`Pairwise`): with three, an answer that goes to
every connection reaches a daemon that did not ask. Its invariant says that
a READ that is under way is from one that asked. `NewestStays`, for two daemons
too, needs `NewestInv`: while one checksum is at work and one file is the newest,
at most one message is under way (`OneExpected`), and to the newer daemon that
is a READ or an older checksum, to the older one a SYNC, a WRITE or a newer
checksum. Each is answered by one that is expected on the way back, and a write
ends the exchange.

`ClientIOProofs`: `ClientIOTypeCorrect` and `NoFrameRefused`, for headers and
transactions of any length. The invariant says that what is read, on the wire
and in the output buffer of a line is, put together, a row of whole frames
of which the first may have lost its beginning to what was taken.
`FramesAreChannel` is the refinement of `FrameChannel`, step by step. It needs
that the units of a line, whose buffers and socket are put together, are those
of successive frames (`Aligned`), and that they end with a whole one (`Ended`):
then reading and writing move the border between buffers and change no frame,
sending appends one or two, and taking removes the first, or as many as a strange
header claims. `BegunIsAll` says that the
mapping hides nothing: every first unit of a frame is at a place `Begun` reads.
`AnswersReturn`
needs only the types: a request is handled and answered in one step, and that
step appends to the buffer of the connection that it came from.

`TxLifeProofs`: `TxLifeTypeCorrect`, `EvalsStayVerifiable`, `ClocksHeadHome`,
`HonestConfirmed`. The last needs that whatever is made or under way is good: it
has the key of what the key covers, and the signature of the stamp it has
(`MadeGood`, `AllGood`); what is left for a refusal are the five causes: an end
of a context or a session that has passed, a wallet that is ahead of the clock or
of another currency, and a context that is missing or another. `ClocksHeadHome` needs that a clock in hand has no time
of receipt and is its maker's (`Own`).

Model-checked only: all liveness, which is out of the prover's reach, and the
properties that fail. Every invariant and every action property of the passing
runs is proved.

## 5. Findings

Two statements of the source fail, each with a run that shows it.

1. `check_for_dups`: the handshake gives every client the daemon's own key
   (init.c:295), so the duplicate check (sharedaemon_server.c:971, "check for
   dups") closes connections to different daemons for each other: a daemon keeps
   only one.
2. `file_missing`: a daemon whose file is shorter asks for "what we are missing"
   (file.c:490), and the answer is written over the beginning of what it has
   (file.c:437), so that the contents match neither file.

### Observations

Met while modelling; the models have what the code does, and no run is about
them.

- The loop that removes closed sockets frees only clients with `SHD_CLIENT_NET`
  (sharedaemon_server.c:984 and 989): an http client whose socket was closed
  stays on the list. `ServerLoop` has it in `Removed`.
- A client that is being shut down has no timeout (939-945): it stays as long as
  its peer keeps the socket unwritable.
- The limit of connections per host counts one only up to the first step of the
  handshake (829, init.c:336); what limits the others is the duplicate check.
- A header whose `tx_size` is more than follows is waited for without an end
  (1036), and the traffic behind it keeps the connection from timing out
  (`NothingStuck` allows for it). Its checksum covers a `tx_t`, so that it may be
  taken when enough has come, with the frames that came.
- All that is received on registered connections is recorded in the ledger of
  the daemon's own peer (init.c:295, bits.c:257), among what it sends.
- A wallet is made for any currency (wallet.c:50), and every receiver refuses all
  but three (wallet.c:112).
- A WRITE is applied whatever has become of the file since it was asked for
  (file.c:425): an edit made in the meantime is lost.
- When the name of an event is longer than 12 characters the rest of the batch is
  lost (sync_linux.c:224), and so it is after an event of a watch that was
  dropped (sync_linux.c:82).
- A directory made in a new directory before the new one is watched is never
  watched (sync_linux.c:92), although sync.h:32 speaks of a hierarchy; and the
  event of a deleted directory carries the watch of its parent, which is dropped
  (sync_linux.c:105, sync.h:42).
- The archived ledger is stored under another name than it is looked up by
  (ledger.c:376 and 386, bits.c:429): `parent_hash` and `ledger_seq`
  (bits.h:293–305) are never assigned.
- The handshake ends at sequence 8 with AUTH lifted at 3 and 4 on whichever
  connection shares the key, so that one of several connections may stay barred.
- The path of an entity goes stale when a directory is renamed (fsync.h:91;
  `PathsLead` is claimed up to the first rename only); the entity of a created
  file is looked up by a path that was never set (sync_linux.c:97);
  `sync_relay_update` may copy to a null pointer (sync.c:262).
- A transaction is warded only if TXF_WARD is set in it, and what sets it is
  `txward_init` (ward.c): none ever is.
- The replay of ledgers to a new peer (`process_init_ledger_notify`) is compiled
  out in `txop_init_recv` and would not end (init.c:118).
- Contexts are stored by their name and never replaced: evaluations under a
  renewed context are refused by a daemon that has the first one
  (`RefusedForCause` allows for it).
- A failed write leaves a file without its SYNC attribute (file.c:449): it is
  not synchronized any more.
- In a frame for an IPC client the operation is looked for one `tx_t` behind the
  beginning (sharedaemon_server.c:754) and the header is taken for the
  transaction (389): no application receives one.
- `SHD_CLIENT_POST` is never cleared (sharedaemon_server.c:1314), so that a GET
  behind a POST on one connection gets no answer; the fields of a request are
  kept for the next one; a multipart field without a value takes the boundary
  line for it (1344–1357).
- `inittx_license` never calls `tx_init`, and `oauth_appdb_load` always returns 0.

## 6. What is not modelled, and why

- Wards and references: unreachable, as said above.
- Http requests: a line parser over one client's buffer. It changes neither the
  client list nor a descriptor, and runs to its end without another actor.
- OAuth sessions: attributes of a browser session, set and tested by one handler
  at a time; their steps are ordered by the user alone.
- Web templates and API calls: formatting of html and json over libshare.
- Devices: a loop over definitions of which none in the source has
  `SHDEV_START`, and whose poll ignores errors. Drivers: hardware protocols.
- Command line, fork, signals: the handler sets the state the loop tests.
- Delivery to applications, see the observations.
- Assets, licenses, metrics, runs and machines: constructors of records and
  empty receive handlers, of which "event" in `TxLife` is the pattern; accounts
  and identities write user files through libshare.
- `F/fsync_user.c` and the rest of share-fsync-daemon: a table that is built
  once from the password file.
- Vendored copies of liboauth, libusb and ntp headers, which are nearly half of
  the lines of the repository's sources.

## 7. Plan

Done: `ServerLoop` with `ClientTable`, `Handshake`, `FsyncWatch`, `TxLedger` with
its refinement of `KeyLog`, `FileSync`, `ClientIO` with its refinement of
`FrameChannel`, `TxLife`. Left, in this order:

1. `HttpRequest`: the line parser, fed in parts, against a definition on whole
   requests, if the observations on it are settled.
2. The composition of `ClientIO` and `Handshake`: the keys that the handshake
   changes, under frames that are split.
