# A formal model of TetherDB

TLA+ modules, TLC configurations and TLAPS proofs for TetherDB: offline-first
clients that keep their data in IndexedDB and sync it two-way, over WebSockets,
with a server that keeps it in memory, in files or in SQLite.

## The system

| Part (`src/src/...`) | State | Operations | What is hard about it | What makes it correct |
|---|---|---|---|---|
| Last-write-wins order, `shared/clock.ts` | none | `shouldOverwrite` | ties, missing client ids | a total order every replica agrees on |
| Permissions, `server/security/filter.ts`, `server/storage/table.ts` | table settings | may an actor create, read, update or delete a record | tombstones, records nobody owns | the same answer wherever it is asked |
| Storage engines, `server/storage/{memory,file,sqlite}.ts` over `storage.ts` | tables, users, partitions of records, a changelog with `minSeq`, `currentSeq` | `applyChanges`, `getChangesSince`, `prune`, create, update and delete tables, create, rename and delete users, `close` | batches refused part-way, compaction, crashes between files, deletions across partitions | a batch takes effect whole or not at all; numbers are unique; a diff is complete or a snapshot is demanded |
| Server sync, `server/sync.ts` | sockets, sessions, a message queue per socket, handlers suspended at their awaits | Auth, Register, Login, Logout, ChangeBatch, broadcast, end of a connection | handlers of different sockets interleave at every await | every session is told what it may see and has not seen |
| Client sync, `client/sync/sync.ts`, `client/sync/connection.ts` | status, socket, push timer, pending batch, message queue | push, the handlers of server messages, reconnecting | acknowledgements, broadcasts, diffs and reconnections cross | nothing queued is lost; what is applied and `lastSyncSeq` agree |
| Client storage and tables, `client/storage/storage.ts`, `client/table.ts` | tables, outbox, metadata in IndexedDB; `clientId` in memory | put, delete, apply remote changes, clear, upgrade the schema | transactions of one page and of several tabs interleave; a page may go away | the record shown is the one that wins |
| Client sign-in and tabs, `client/auth.ts`, `client/client.ts` | session in memory, in IndexedDB and in localStorage | register, log in, log out, restore, tell other tabs | sessions change in several tabs, while requests, batches and refreshed tokens are under way | tabs agree on the user; nothing queued is lost |
| Server lock, `server/shared/lock.ts`, `server/server.ts` | `server.lock` | acquire, read, check, release | two processes between two system calls, crashes, reused process ids | one server per data directory, no command beside it |
| Rate limiter, `server/shared/rate-limiter.ts` | a bounded map of windows and blocks | consume, record a failure, reset, clean up | eviction at capacity | a blocked key stays blocked |
| Accounts and tokens, `server/storage/user.ts`, `server/shared/crypto.ts` | accounts, an index of names, password hashes | create, declare, rename, delete, sign in, check a token | hashing and storage are awaited between looking and acting | a name is one account; tokens go with the password |
| Administration, `server/server.ts`, `server/http/admin.ts`, `server/admin.ts`, `cli/` | settings of tables, in the registry and in handles | declare, create, update tables, put rows, over HTTP or past the server | handles and routes that are stale by the time they are used | no change of settings is lost, private rows stay private |
| Parsing, formatting, migration | none of their own | thin calls of the above | | |

How they interact. `Table.put` writes the record and an outbox entry in one
IndexedDB transaction and sets a timer; the timer makes the sync coordinator push
the oldest 500 entries as a ChangeBatch; the server stamps them with the session's
client id, applies them to its storage engine, acknowledges with a sequence number,
sends back winners that the batch lost to, and broadcasts what it applied to the
other sessions. A client that connects says which sequence number it knows
and gets the changes since, or a snapshot. A server holds the lock of its data
directory while it listens; the storage engines refuse administrative commands of
other processes meanwhile.

## Plan

1. *Done*: the in-memory engine with its permissions, the sync protocol end to end, the
   server lock, the file engine, the sessions of the server; proofs about the changelogs
   of the in-memory engine and about the lock.
2. *Done*: the sqlite engine; the tabs of a client with signing in and the connection
   manager; the client's object stores and upgrades; accounts, tokens and the rate
   limiter; administration of tables.
3. *Done*: proofs about every component: the in-memory engine with its refinement of
   `LWWStore`, the file engine, the sqlite engine, sync, the sessions, the tabs, the client's
   object stores, accounts and administration, the lock.
4. *Done*: that replicas converge, for any number of clients that only put and stay
   connected. Left: the same over reconnections, where only the bounded run
   `SyncCatchesUp` says so, for one record and one writer that keeps its connection.
   The modules have no recursive operators, so that all of them can be proved about.

## Modules

| Module | What it is |
|---|---|
| `LWW` | `shouldOverwrite`, and what the loop of `applyChanges` makes of a batch |
| `LWWStore` | the abstract store: a map of last-write-wins registers, batches that commit or are refused |
| `Permissions` | rules for a record, rules for a table, `assertCanApplyChange`, what a reader may see of a diff or snapshot, the presets |
| `MemoryStorage` | the in-memory engine; implements `LWWStore` |
| `FileStorage` | the file engine: jobs that run side by side, locks, files, crashes |
| `SqliteStorage` | the sqlite engine: two databases, transactions, a server and a command |
| `TetherSync` | clients, sockets and the server's handlers over a last-write-wins store |
| `ServerSessions` | the server's sockets: sessions, users, limits, timers, broadcasts |
| `ClientTabs` | the tabs of an application: signing in, connections, one outbox |
| `ClientStore` | the tabs' IndexedDB: object stores, upgrades, transactions, subscribers |
| `RateLimiter` | the operations of the rate limiter as functions on its map |
| `Accounts` | accounts, passwords, tokens, signing in; uses `RateLimiter` |
| `Administration` | a table whose settings and rows change while a server starts, runs and stops |
| `ServerLock` | servers, commands and the lock file |
| `MemoryStorageProofs`, `SqliteStorageProofs`, `TetherSyncProofs`, `ServerSessionsProofs`, `ClientTabsProofs`, `ClientStoreProofs`, `FileStorageProofs` | the theorems about the module of that name |
| `AdministrationProofs` | the theorems about `Accounts`, about `Administration` and about `ServerLock` |
| `MCMemoryStorage`, `MCFileStorage`, `MCSqliteStorage`, `MCTetherSync`, `MCClientTabs`, `MCClientStore`, `MCServerSessions`, `MCServerLock` | instances for TLC |
| `MCAdministration` | `Accounts` and `Administration` side by side, explored one at a time: they share no state and no lock |

Definitions that carry a slip (`StartUnmoved`, `LeftNone`, `StaleIfForeign`, ...)
stand beside the definition they spoil, and nothing uses them: exchanging one for
the other shows that a property notices.

### MemoryStorage

`records[<<p, t, i>>]` is the record with id `i` in table `t` of partition `p`:
`userStates` and `sharedState` of the code. `changelog[p]`, `minSeq[p]` and
`globalSeq` are the fields of those names. `applyChanges` runs without yielding
from its staging to its commit; `Begin`, `Skip`, `Stage`, `Reject` and `Commit` are
its steps, a change at a time, with `phase` keeping all else out.
`history` remembers all that the logs ever held of the tables there are, to say
what a diff owes. The array of a log is a set, ordered by its sequence numbers.

Left out: payloads, versions and sizes; accounts, but for their deletion; changed
table settings. `currentSeq` of a partition is never read and not modelled.

### FileStorage

A job is a call of a storage operation by one of the `Workers`; `job[w].pc` is where
it waits. Calls to the file system that another job or a crash can be told apart
from are steps: `records` is every `records.json`, `log` and `torn` the `sync.jsonl`
files, `meta`, `accounts` and `tables` the files of the engine's base directory.
`writeFileAtomic` renames, so a file is the old one or the new one; lines being appended
when the process dies are cut off at any point, and the incomplete line swallows the first
line that is appended next (`Legible`, `swallowed`). `queue[l]` is the promise chain
of lock `l` in `withLock`: its head holds it.

`logged`, `swallowed` and `acked` remember all that was written to a log, what of it became part
of an incomplete line, and all that was acknowledged, `buried` the shared records that were deleted with their owner: such a
tombstone has the clock of the deletion, which may be older than a change that another owner of
the record had acknowledged, so `AckedStays` says nothing of them. The loops over a batch
(`Grouped`, `Staged`) are functions of how far they have come. `disturbed` remembers whether a batch was cut off half-way by a crash or
by a refusal in its second partition, whether another job read `meta.json` while one
was going to write it, or whether logs were cut while a diff was under way. What needs none of that
(`SeqsAreUnique`, `DiffIsCompleteInTurn`) is stated for as long as it has not
happened; the rest holds whatever happens.

Left out: accounts other than their deletion, settings, sizes, and a `prune` by another
process, whose locks are its own. Reading the tables and the records of one partition is one
step, under its lock; the table named by a change is looked up in that step as well.

### SqliteStorage

`users` is the database of accounts, `db` the one of tables: the registry, the records,
the changelog with the counter of its row numbers (`autoincrement`), and the two rows of
`meta`. `cache[p]` is `tableInstances` of process `p`, which outlives a table that another
process deletes. node:sqlite is synchronous, so a method is cut only at its awaits and
between statements that commit one by one: `applyChanges` validates (`Validate`), then
runs its transaction (`Transact`), or begins a transaction that the other process keeps out
(`GiveUp`); `deleteUser` commits in `users` (`DeleteAccount`) before it buries the records in
`db` (`Bury`); `prune` deletes rows, then writes the bounds it read before. A process may end
between two steps. `disturbed` says which of these were torn apart, by an end or by the
other process: `DiffIsComplete`, `NoOrphans` and `DeletedLeaveNothing` are stated for as long as
the one that spoils them has not been.

A log is a set of rows ordered by number; rows that a query does not order come in some
order (`InSomeOrder`). The loop over a batch is a function of how far it has come. `given` is
the set of the numbers ever written to the log. Sizes, versions, vacuum, checkpoints and what
sqlite itself does on disk are left out.

### ClientTabs

`page[t]` is `Auth` of a tab, `op[t]` the call of `register`, `login` or `logout` under way,
cut at its awaits (`Begin`, `Clear`, `Ensure`, `Ask`, `Store`), `link[t]` the
`ConnectionManager` with the token and tables of `Sync`; `meta`, `local` and `outbox` are
shared by the tabs, as IndexedDB and localStorage are, and `channel[t]` is the
`BroadcastChannel`. `late[t]` holds messages of a closed connection that the promise chain of
`enqueueIncomingMessage` still handles, beside those of the next one. The server is its
answers. Elected leaders are not in the model: `client.ts:301-325` only reports leadership, and
every tab pushes.

`overlapped` remembers that a change of the session began while another was under way,
`stranded[t]` that the browser went offline under a batch. Left out: records (`TetherSync`),
how long things take, and pings: timers fire and connections end at any time.

### ClientStore

An operation of a tab is the sequence of calls it makes (`Calls`): `ensureTable`, a
reading and a writing transaction. `requests` is the browser's queue of requests to open
the database; an upgrade is served once every other connection is closed, which
`onversionchange` does (`VersionChange`). `job[b][s].behind` says that a call waits behind
an earlier one on `schemaMutex`. `subscribeAll` is a job of its own, `Fetch`, that is asked
for again by every announcement. `excused` and `unexplained` are history variables that
name the races which do let an operation fail or a subscriber miss a change. A table has
one record, that exists or not; a tab runs one operation and one fetch at a time.

### Accounts and RateLimiter

`RateLimiter` has what each operation of the limiter answers and makes of its map, a sequence of
entries in the order of insertion, with eviction and cleanup. `Accounts` cuts the handlers
where they await a hash or the storage: `Create` and `Save`, `Login`, `ReadHash` and `Compared`
or `Mismatched`, `TokenLogin` and `CheckToken`, `MakeToken`. The engines differ in when they
look whether a name is free (`LooksFirst`, `Refuses`), which is where the memory engine can
hand out a name twice; `contested` remembers the names it may have happened to. A token
carries the hash that it was made under; `proof` and `raced` are kept with it to say what
it was earned with. Left out: expiry, limiters by address, the time that hashing takes.

### Administration

One table, its settings in the registry (`stored`) and in the handle the server keeps
(`cached`; the file engine keeps none), and one row in the shared partition and in each user's.
A request is cut between getting the table and changing it. `Route` decides, as
`resolveAdminTarget` does, whether a command asks the server or works on the data, and the
server may have started or stopped since. `strayed` remembers that a change was made to a
handle that was stale, past a server without the lock, or to the server's handle alone, when
the registry could not be written after it (`Breaks`): what `SettingsStand` cannot promise.

A client is shown the table by snapshots (`SnapshotOf`), from the rows of one partition, and by diffs
(`DiffOf`), from the puts in `changelog`: the file engine reads the logs of the partitions a user
may see, the sqlite engine has one log and reads all of it (`LoggedFor`). Both are then cut by the
settings of the moment. `PrivateStays` says of which of these a private row stays out.
Left out: broadcasts, which are cut by the settings that are there when they reach a session; which of
two puts wins; all settings but a preset and a limit; pruning of the log.

### TetherSync

One shared table that everybody may write. The server's storage is abstracted to
the merge of a batch and a log (what `MemoryStorage` refines); each handler of
`server/sync.ts` is cut at its awaits: `RecvAuth`, `ReadSync`, `SendDiff` or
`SendSnapshot`; `RecvBatch`, `Apply`, `ReturnSeq`, `SendAck`, `Reconcile`,
`Broadcast`. A socket is `<<c, n>>`, the n-th connection of client `c`; its
messages are handled in order, and those of other sockets in between. On the
client, `Draft` and `CommitLocal` are the read and the transaction of a put or
delete, `Capture` and `HandleChanges` the two transactions of a remote batch, and
`FireTimer`, `HandleAuthSuccess`, `HandleAck` end in `PushOutbox` as in the code.
`Disconnect` loses what is on its way, `Hangup` is the server learning of it,
`Reload` is the page going away and coming back with a new client id.

Abstractions. A snapshot reads its records in one step, and so does a
reconciliation. Removing acknowledged outbox entries and storing the sequence
number are two transactions and one step: a page that goes away in between only
asks again for what it has. Reading the outbox and sending it is one step. One put
or delete per client is under way at a time. Reconnecting takes the code at least a
second, in which messages already received are handled, so `Connect` waits for
an empty queue; what happens otherwise, and refused batches, are in `ClientTabs`.
Table filters, and connections that close with a code that stops reconnection, are left out. The last connection of a client stays up: the bound on connections is
a bound on how often they fail.

### ServerSessions

The maps of `Sync` by their names: `ips`, `timers`, `clients`, `clientOf`;
`session[n]` is the n-th `ActiveClient` object made, which a handler may still hold
when it is no longer in `clients`. `queue` and `handler` are the promise
chain of a socket; a handler is cut where the code awaits the storage or a password hash.
A message that nothing keeps waiting is handled before any other event (`Settled`), as
promise callbacks run before the next event. The loop of
`broadcastChanges` waits only for tables it has not looked up yet, that is at the first
session it comes to (`LookUp`), and then runs to its end; sessions that join meanwhile
are still ahead of it, as the iterator of a JavaScript Set has it.

Left out: table filters; reconciliation and what is on its way to the client
(`TetherSync`); rate limiters, whose refusal of a connection is a choice in
`Connect` and whose refusal of an attempt is one of the failures of `CheckPassword`. An Auth
of a registered user may fail as well, as an expired token does.

### ServerLock

Every call to the file system is a step, except that `existsSync` is merged with
the call it guards. A file is an inode with the process id read from it, or
`Blank` between its creation and its writing, so that writing to a file
that has been unlinked goes where it goes on disk. A process may be killed before
any call and its id used again. `listen` with port 0 releases and takes the lock
again once the port is known (`AfterRelease`).

`overlapped` is a history variable: it remembers whether a process ever began to
look at the lock, to take it or for a command, while another was at it. Once that
has happened the lock need not be exclusive (below). What the design achieves
until then, for any order of starts, ends and crashes, is checked and proved.

## Runs

Bounds are the constants of the configurations; each is named in its module and
appears in the guard of the action it cuts. Deadlock is not checked for the storage,
sync and session models, which stop when their bounds are used up; it is for the lock.

| Run | Question | Bounds and why they do |
|---|---|---|
| `MemoryStorage` | Are diffs complete, sequence numbers unique, snapshots and diffs in agreement? | one user, the guest, the administrator, a private and a shared table, one id, two timestamps, three sequence numbers, batches of two, a history of one with a slack of one: compaction, pruning with and without effect, refusal of the second change of a batch, a table deleted under a batch and a user deleted all occur |
| | Does the engine implement the abstract store? | the same |
| `FileStorage` | What of a batch survives crashes, refusals and other jobs? Do limits hold, are numbers unique, diffs complete while nothing disturbs them? Do jobs block one another? | two callers, three jobs of any kind, one crash (that may leave an incomplete line for the next job), two partitions, two ids and a limit of one, a history of one: two jobs overlap in every way and a third finds what they left |
| `SqliteStorage` | Are diffs and snapshots right for each reader, deletions complete, numbers never reused, when a command works beside the server and either ends? | one user and the guest, a private and a public table, two ids, two jobs in the server and one in a command, four jobs in all, one end of a process, three numbers, a history and a limit of one, batches of one or two changes: compaction, pruning, refusal, a table or user deleted under a batch by the other process, and what a torn deletion leaves all occur |
| `SyncConverges` | Do replicas agree when nothing is left to do, also when part of a batch loses? | two clients, two ids, two puts of one client and one of the other, two timestamps: ties, losers and overtaking messages occur |
| `SyncCatchesUp` | And over reconnections, with a pruned log? | one client that loses its connection once, one that writes twice |
| `SyncKeepsWrites` | Is a local change ever lost? Does everything get through in the end? | one client, two puts or deletes, a lost connection, a reload, local writes in between the transactions of remote batches; batches of one change, so that pushes follow one another |
| `ClientTabs` | Is a queued change dropped, do tabs disagree, is a batch waited for in vain? | two tabs, two users, three events among two calls, two writes, a page load and a trouble (a lost connection, a refusal, a late answer, going offline), one entry that guests may not push, sign-ins that keep or clear the data: enough for both tabs to push one entry, for a call to meet another, and for messages of a lost connection to arrive under the next |
| `ClientStore` | Which operations fail, do subscribers catch up, does everything end? | two tabs, one with an index on the watched table and one subscribed to it, two tables, one operation in each tab besides fetches, one aborted upgrade or reload for each: each tab's upgrade meets an operation and a fetch of the other |
| `Administration` | Is a name one account, do tokens follow the password, do blocks hold? | three engines, one account at first, two names, two passwords, two callers, four requests, a clock of three and a limiter with room for one name: two registrations, a rename under a registration, a password changed under a sign-in, and eviction occur |
| | Are settings kept, private rows out of snapshots, and out of diffs as far as the code keeps them out? | two engines, two users, two requests under way, three in all, one put by a user, two starts, the two presets and a limit set and cleared |
| `ServerSessions` | Can a user have too many sessions, a session miss a change, a closed socket leave something behind, an open one stay without a session? | two sockets, a guest and a user who registers on the way, a limit of one session, a private and a shared table, four messages of any kind, two of them waiting at most: enough for both sockets to sign in and one of them to send and to sign in anew while the other is under way |
| `ServerLock` | Is the lock exclusive, do commands stay out, until attempts overlap? Do attempts end, even when they overlap? | two processes: a holder, one that closes or dies, and one that looks |

Fairness (`FairSpec`). In `TetherSync`: timers fire, promises resolve, handlers go
on, messages on a connection that stays open arrive, and a client that lost its
connection tries again, as its reconnection timer does. Writing, losing connections,
reloading and pruning are never forced. In `ServerSessions`: promises resolve,
timers fire and a connection that the server ends does end. In `ServerLock`: a process that has
made one call makes the next, since the code is synchronous. In `ClientStore`: the browser serves
requests and completes transactions, tabs run their callbacks; operations, aborts and loads are
never forced.

Type invariants are stated in the modules (`TypeOK`). They are not among the properties of the
runs, and neither is `LimitKept` of `SqliteStorage`, where they are proved (`TypeCorrect`,
`SqliteTypes`, `LimitsAreKept`, `SyncTypes`, `SessionTypes`, `TabsTypes`, and as a part of the
invariants of the others); a line in the configuration checks them.

### What the code does otherwise

`SyncMissesUpdates` states what the README of the repository says and ends in a
counterexample (`PROJECT.json` quotes it): a broadcast that overtakes the first snapshot moves
`lastSyncSeq` past it. More configurations end in one; TLC runs them with the module named.

| Configuration | What happens |
|---|---|
| `SyncResurrects` (`MCTetherSync`, `DeletesHold`) | a local delete is undone by an older change: `client/storage/storage.ts:415` removes the record, where `client/table.ts:229` speaks of a tombstone |
| `SyncKeepsLoser` (`MCTetherSync`, `Converged`) | a loser is not reconciled when its batch applied another change of the record (`server/sync.ts:611`; CHANGELOG.md:18 promises reconciliation) |
| `SyncRaces` (`MCTetherSync`, `RemoteNeverRegresses`) | a remote batch overwrites a newer local write: compared in one transaction, written in another, where `client/storage/storage.ts:611-612` speaks of a single one |
| `ServerSessionsGhosts` (`MCServerSessions`, `CountsActive`) | a handler gives a session to a socket that has closed, and it stays (`server/sync.ts:324`, 880) |
| `ServerLockRaces` (`MCServerLock`, `Exclusive`) | two servers that start together both hold the lock: one removes the file that the other has created and not yet written (`server/shared/lock.ts:140`, 77-81) |
| `FileStorageDiffs` (`MCFileStorage`, `DiffIsComplete`) | a diff reads the bounds of the logs, a batch compacts them, the diff reads them and misses what was cut (`file.ts:252`, `file.ts:412`) |
| `FileStorageSwallows` (`MCFileStorage`, `EveryRecordTold`) | a crash leaves an incomplete line; the next batch appends to it, its first change is shown and acknowledged, and no diff ever has it, since the line cannot be parsed (`file.ts:384`, 266-274, where the comment speaks of the incomplete line only) |
| `AdministrationDiffs` (`MCAdministration`, `DiffsKeepApart`) | with sqlite, a row that a user put in a private table is in every reader's diff once the table is shared: `getRawChangesSince` reads the log of all partitions (`sqlite.ts:331-388`, 731) and `filterAndSanitizeChanges` goes by the settings of the moment (`filter.ts:143-153`). Snapshots, and the file engine's diffs, go by partition and leave it out (README.md:28 speaks of isolating data per user, CHANGELOG.md:10 of partition isolation) |
| `AdministrationSeeds` (`MCAdministration`, `SeedsKeepRows`) | the declared rows of a private table are put over what their authors made of them, at each start: `insertRows` (`table.ts:264`) asks the administrator, who sees the shared partition only, what is "already present" (`table.ts:259`) |

Other things met on the way, which the modules show too:

* A connection that the rate limiter refuses stays in `webSocketToIp`: it never gets
  the listener that would remove it (`Connect`, `sync.ts:107-116`).
* A logout without a session is answered with AuthSuccess (`Handle`, `sync.ts:536`).
* `MemoryStorage` with `MaxHistory = 0`: compaction empties the log without moving
  its start, and `DiffIsComplete` fails. `prune(0)` keeps every entry
  (`Sliced`): `slice(-0)` is `slice(0)`.
* The limit of a table counts its tombstones (`SizeOf`, `AtLimit`: `memory.ts:397`,
  `file.ts:356`), where `shared/types/tables.ts:29` speaks of active records: a
  table limited to one record refuses a put after its only record was deleted.
* In the file engine, a batch refused in its second partition leaves the first one
  written and logged but not counted, and so does a crash before `meta.json` is
  written: the numbers are given out again. `prune` and `deleteUser` write back a
  counter they read before other batches moved it. These are the cases
  of `disturbed`, and why `SeqsAreUnique` is stated for when it is false.
* `deleteUser` stamps its tombstones with the server's clock: they may lose to the
  records they replace.
* A put after a delete takes the wall clock as its timestamp (`Draft`), which may be
  less than the delete's.
* `SyncCatchesUp` with deletes and no pruning: a client that has to take a second
  snapshot keeps showing a record deleted meanwhile, since a snapshot leaves tombstones
  out and the client merges it.
* Two clients with one put each, one of which reloads (`Ranks13x2`, two loads):
  a change pushed after the reload is stamped with the new client id, and a tie is
  broken differently on the two sides.
* A closing server gives up the lock before its storage is closed (`Release`,
  `Closed`).
* A change of settings is lost when two requests of the file engine overlap, since each has a
  handle of its own (`file.ts:107`), and a sqlite server that read them before it had the lock
  (`sqlite.ts:156`) goes by old ones: the cases of `strayed`. Another is an update that fails: the handle has
  the new settings before the registry is written (`table.ts:87-88`), and the server goes by them
  until it is restarted, or stores them with the next update (`Breaks`). `applyChanges`, `prune` and `vacuum`
  do not look at the lock at all: a command that found none before writes past a server.
* A limit of 0 given to a new table refuses every record, given to an existing one it
  removes the limit (`Created`, `Updated`: `table.ts:37-51`, 78).
* Rows that an administrator or a declaration puts are not broadcast: only
  `server/sync.ts:676` does that. Nor are clients told of a deleted table (`memory.ts:108`).
* `prune` of the sqlite engine is no transaction and writes back a counter that it read before
  (`sqlite.ts:605-633`); `deleteUser` that ends between its databases leaves the records, and nothing
  resumes it (`sqlite.ts:813`).
* The memory engine gives a name to two registrations that overlap (`memory.ts:121-137`). A
  password that changes during a sign-in yields a token under the new one. `verifyToken` accepts a
  token of an account that was deleted after it was found. `declareUser` sets the password anew,
  so that the tokens of declared users end at each start (`server.ts:622`).
* A full limiter evicts its oldest key even when that is blocked (`Inserted`); its window is
  fixed, though `rate-limiter.ts:20` calls it sliding.
* Tabs end with different users when changes of the session overlap, a refreshed token may write
  back a session that was replaced (`auth.ts:324`), a tab that is Connected keeps its session when
  told of another user (`connection.ts:83`), an AuthError in one tab signs out all: why `TabsAgree`
  is stated for changes that do not overlap.
* Going offline leaves the batch pending, and nothing is pushed until a later connection
  is lost (`connection.ts:263`): the case of `stranded`. A late AuthSuccess makes a tab
  Connected without a socket (`client/sync/sync.ts:409`).
* An aborted upgrade makes every operation of its tab fail until it is loaded again
  (`client/storage/storage.ts:189`). An ensure whose upgrade another tab overtakes succeeds
  without its table (`Overtaken`). Clearing everything tells no subscriber (`Told`).

The passing sync runs leave out what these show, by their bounds: `Converged`
holds with puts only, over connections that hold or for one record with a single writer
that keeps its own, with local writes and remote batches that do not interleave.
`NothingLost` and `SettlesDown` hold with all of it.

## Proofs

Every theorem is about all runs of a specification, for any value of its constants: any
number of tables, users, clients, tabs, sockets, processes and jobs, and whatever bounds. What
a property says is seldom inductive. Each proof module states the invariant that is, says above it
why it is needed, and proves that every action keeps it, one lemma per action or group of
actions; TLC checked the invariants on the instances of the runs first.

**In-memory engine.** `TypeCorrect`. `SeqsUnique` (`SeqsAreUnique`): a number just drawn is
greater than any in a log, staged changes were drawn during this batch, and nothing is
staged between batches (`SeqsAreDrawn`). `LogsWellKept` and `DiffComplete` (`DiffIsComplete`), provided
that `MaxHistory > 0`: a log is what its partition's history has from `minSeq` on, and a diff is
demanded from a number at or after every `minSeq` in question. Compaction keeps this because the
entries it drops are older than the first it keeps; that there is a first is what
`MaxHistory > 0` gives, and the counterexample with 0 shows that it is needed.
`SnapshotsAgreeWithLogs` (`RecordsReplayHistory`): the last entry of the history for a key is the
record, staged entries are the last of their keys, and the staged overlay says what they say
(`ReplayInv`). `EngineImplementsStore`: every step of the engine is a step of `LWWStore` or a
stutter. The loop of a batch stages a change at a time, so the mapping needs that what is
staged is what the abstract batch makes of the positions passed so far (`LoopInv`).

**File engine.** `LocksAreKept` and `FileTypes`: a job waits for the lock its `pc` says, once, and
holds those that its `pc` has behind it (`Types`, `Locks`). `SomeJobAlwaysMoves` (`SomeJobMoves`): the
locks have an order and a job waits for none before one it holds, so that the job that waits for
the last of them is followed to one that can go on. `LimitIsKept` (`LimitKept`, by
`LimitInv`): the records that a job counted under the lock of a partition are those on disk
when it writes. `LoggedIsFirst` (`LoggedFirst`, by `LoggedInv` and `SwallowInv`): the maps a job is about to write hold
what was in the file or what it has logged; one job at a time appends to a log, so a crash leaves
one incomplete line in it, which swallows one line and is complete then. `AckedIsKept` (`AckedStays`, by `AckInv` and `GoneInv`):
once a line of a batch is logged, what it says or something that beats it is in the record, or in the map that a
job holding the partition is about to write, unless the owner was deleted. `NumbersAreUnique`
(`SeqsAreUnique`, by `SeqInv`): until disturbed, one job at a time has the counter, and the
numbers it gives out are above `meta.json` and all logs. `DiffsAreComplete`
(`DiffIsCompleteInTurn`, by `DiffInv`): what a log lost is below the bounds in `meta.json` or below
those of whoever has the counter, nobody has read some logs while others are cut, and a diff under
way has the lines of the partitions it read.

**Sqlite engine.** `CountersStayBehind` and `SqliteTypes`; `NumbersStayFresh` (`NumbersAreFresh`): a
number given out is above all before it, though rows go, because `autoincrement` never
falls; `DataWellKept` and `SnapshotsAreReplays` (`SnapshotIsReplay`): the log is a part of the history,
each record is the last change of its key, an owner never changes, and what a reader may
not see is the same in the log and in a snapshot; `NothingIsOrphaned` (`NoOrphans`): until a table was
deleted under the feet of the other process, each process knows only tables there are (`CacheInv`);
`DiffsAreComplete` (`DiffIsComplete`): what is gone from the log is below `min_seq`, or between the
two bounds of a prune that is under way (`PruneInv`); `DeletedUsersLeaveNothing`
(`DeletedLeaveNothing`): what a user who is gone still owns was written after the deletion, or
`Bury` is still to come (`GoneInv`); `LimitsAreKept` (`LimitKept`). A transaction runs over a whole batch in one step, so each of these is
proved of its loop by induction: the least number of changes after which it fails would be one
more than a number after which it holds (`LoopRule`, from the well-foundedness of the naturals).

**Sync.** `SyncTypes`; `SyncWellKept` and `NoWriteIsLost` (`NothingLost`). A client takes a batch out
of its outbox when some acknowledgement arrives; nothing in the message says for which batch it
is. So the invariant follows the batch that a client waits for (`OneAnswer`): it is at most once
on its way, in hand or acknowledged on the present socket, and once applied the server's records
are as recent as its changes. `PendingPutsStayShown` (`PendingPutsShow`), when nobody deletes
and no local write is committed between the two transactions of a remote batch; `RemoteStaysAhead`
(`RemoteNeverRegresses`) without such writes. Both hypotheses are those of the
runs, and needed: a delete removes the record that an older put of the outbox should
show, and `SyncRaces` is the race.

`ReplicasConverge` (`Converged`) has those hypotheses and one more, `StayConnected`: each client
has one connection and one page load. `SyncConverges` is an instance; `SyncMissesUpdates` and
`SyncKeepsLoser` show what reconnections and deletes do to it. That nothing is left to do says
little of how it was before, so the invariant (`ConvergesInv`) says of each client and record
what is still to come. Nothing is shown that beats what the server has unless the outbox has
it (`ShownBy`). And either the client shows what the server has, or it will learn of
it (`Knows`): by the answer to its Auth, a message on its way, the broadcast of a handler
that has applied it (`WillBring`), or as the answer to a put of its own that is queued, sent or in
hand (`WillAsk`, `WillAnswer`): a put that was worked out before a remote batch and
committed after it leaves less in the table than there was, and it is the reconciliation
that repairs this. What is told must be no news to the server and in the order of its
numbers (`IsTrue`), and an acknowledgement must mean that the server has got the batch (`Judged`).
Convergence then is that two records as good as each other (`Tops`) are the same.

**Sessions.** `SessionsWellKept`, `SessionTypes`, `LimitIsKept` (`WithinLimit`), `ClosedSocketsLeaveNothing`
(`NothingLeft`): the two maps of sessions agree, and a handler that goes on after an await
goes on with a user it was given. `EveryoneIsTold` (`EveryoneTold`): that a change is in the hands of
some broadcast says nothing of whom the broadcast has still to come to; the invariant says
it (`Informed`, `WillTell`): the loop goes through the sessions in the order in which they were made
and has at most one in hand, so that one that joins is still ahead of it; and a client whose
answer is being prepared knows what it had when it signed in.

**Tabs.** `TabsWellKept`, `TabsTypes`, `NoChangeIsLost` (`NothingLost`): the change is in the outbox or its
batch was accepted, whichever tab sent it. `BatchesAreAnswered` (`BatchAnswered`): a pending
batch is on the wire, answered, or on a socket that will close (`BatchInv`). `TabsAlwaysAgree`
(`TabsAgree`): until changes of the session overlap, only one tab has one under way, and
every other tab has heard of the last, or the news is on its channel (`AgreeInv`).

**Object stores.** `StoreWellKept`, `OnlyRacesFail` (`FailsOnlyInRace`): a table that a job works on is there, or
is ensured before it is needed, unless another tab overtook it. `SubscribersAlwaysCatchUp`
(`SubscribersCatchUp`): a subscriber shows what the store has, or an announcement or a fetch is due
(`CatchUpInv`).

**Accounts and administration.** `AccountsWellKept`, `NamesAreUnique` (`OneNameOneAccount`): a name that was found
free stays free until the account is stored, unless it is contested (`FreeStaysFree`), and the
index is in step (`IndexFollows`). `TokensAreEarned` (`TokensFollowPassword`): a handler that read a hash
has the present one, or `raced` says that it changed (`EarnedNow`), and no hash is made twice
(`HashesAreNew`). `BackoffIsKept` (`BackoffKept`): as long as a name is blocked its entry is in the
limiter's map with that time (`BlocksKept`), because the map has one entry for each key and no more
than it may (`LimiterMaps`), so that it drops its oldest only if the cleanup found nothing.
`TableWellKept`, `SettingsStandAlways` (`SettingsStand`): whoever has a copy got it from
a table that is still there, and a request that works on the shared handle finds it in the
process (`HandlesKept`). `PrivateStaysAlways` (`PrivateStays`): a
row put while the table was private lies, and is logged, in its author's partition (`RowsApart`); in the
one log of sqlite it is the owner that tells it apart, while the table is private.

**Lock.** `LockKept`, `LockExclusive` (`ExclusiveInTurn`), `CommandsKeptOut` (`CommandsStayOut`): unless attempts have
overlapped, the file names the holder, one process at a time is between two calls, only
a process about to write has the file open, and whoever goes on has found no holder (`InTurn`).

Assumptions on constants are the named ASSUMEs of the modules, which TLC evaluates in every
run. They say what the code gives: user ids are drawn by `crypto.randomUUID`, so the shared
partition and the guest are none of them; a value that stands for "none" is no value of the
kind it stands in for; client ids of different clients differ; timestamps are greater than
0; tables, users, ids and workers are finite sets, and the locks of different things have
different names.

What the proofs changed in the models: `AckedStays` of `FileStorage` was false, since a record
deleted with its owner may carry an older clock than an acknowledged change (`buried`), which
the bounds of the run had kept from happening, and the folds of that module became recursive
functions, as did the cleanup and the doubling of `RateLimiter`; the request that creates a table got a handle like
all others, where the code gets none (`Looks` in `Administration`); in `ClientTabs`, a push ends being
stranded, a page load counts as a change of session that may overlap, a sign-in that ends
without a user announces nothing, and a lost connection sets its timer; a batch of `LWWStore`
goes by position, as two equal changes of one batch are two; `given` of `SqliteStorage` is a
set, so that numbers may be skipped by a transaction that fails; `ClientStore` names the order
of its requests.

Model-checked only:

* `Converged` over reconnections, in `SyncCatchesUp`, for one record and one writer: with a
  second record it fails (`SyncMissesUpdates`);
* liveness (`SettlesDown`, `Admitted`, `JobsEnd`, `AttemptsEnd`): the prover has neither fairness nor
  ENABLED.

## Not modelled

Queries over indexes and pagination, which IndexedDB evaluates; `live()`, whose consumer can miss
a change while it is busy (`client/table.ts:317`), table filters of a client; limiters by
address, expiry of tokens, pings; cors, errors and JSON, listing and
maintenance requests, parsing of the command line, migration of the legacy layout, vacuum and
checkpoints; hashing and signing, which are pure; sizes of records and batches. What sqlite
does on disk is taken to be a transaction, what IndexedDB does likewise. The examples and the
tests of the repository are not part of the system.
