--------------------------- MODULE SqliteStorage ---------------------------
(***************************************************************************)
(* The SQLite storage engine (src/server/storage/sqlite.ts): a database    *)
(* of user accounts and one of tables, records and a single changelog.     *)
(*                                                                         *)
(* Two processes may have the databases open: a server and a command of    *)
(* the command line, which found no server when it started.  node:sqlite   *)
(* is synchronous: what a method does between two awaits runs without any  *)
(* other job of its process, but statements of the other process come in   *)
(* between unless a transaction keeps them out.  A transaction is one      *)
(* step; statements that commit one by one are steps of their own.         *)
(***************************************************************************)
EXTENDS LWW, Permissions, Sequences, Functions

CONSTANTS Server, Command,  \* the two processes
          Jobs,             \* Jobs[p] : the jobs process p can be at
          Shared,           \* the partition named "__shared__"
          Ids,              \* record ids
          MaxTs,            \* BOUND on timestamps
          MaxSeq,           \* BOUND on sequence numbers
          Batches,          \* the change batches that may come in
          MaxRestarts,      \* BOUND on processes that end
          MaxJobs,          \* BOUND on jobs
          MaxHistory,       \* options.maxHistoryEntries
          Slack,            \* the 50 entries compaction waits for beyond that
          MaxRecords,       \* maxRecords, of the options or of the table
          KeepCounts        \* arguments an administrator gives to prune

Processes == {Server, Command}

ASSUME SqliteAssumption ==
  /\ Server # Command
  /\ Jobs[Server] \cap Jobs[Command] = {}
  /\ {MaxTs, MaxSeq, MaxRestarts, MaxJobs, MaxHistory, Slack, MaxRecords} \subseteq Nat
  /\ KeepCounts \subseteq Nat
  /\ Shared \notin Users
  /\ IsFiniteSet(Users) /\ IsFiniteSet(Tables) /\ IsFiniteSet(Ids)

VARIABLES users,      \* users.sqlite : the accounts there are
          db,         \* tables.sqlite : what is committed in it
          cache,      \* tableInstances : the tables a process knows of
          open,       \* the processes that have tablesHandle
          job,        \* what each job is at
          restarts,   \* processes that have ended so far
          started,    \* jobs begun so far
          history,    \* HISTORY VARIABLE: every change ever logged of the
                      \* tables and partitions there are
          given,      \* HISTORY VARIABLE: every number ever logged
          goneAt,     \* HISTORY VARIABLE: the last change before u was deleted
          disturbed   \* HISTORY VARIABLE: what two steps were torn apart

vars == <<users, db, cache, open, job, restarts, started, history, given, goneAt,
          disturbed>>

Partitions == Users \cup {Shared}
Keys == Partitions \X Tables \X Ids
Timestamps == 1..MaxTs
Workers == UNION {Jobs[p] : p \in Processes}
ProcessOf(w) == IF w \in Jobs[Server] THEN Server ELSE Command

Absent == [op |-> "none", ts |-> 0, cid |-> 0, owner |-> NoOwner]
Stored == [op : {"none", "put", "delete"}, ts : Nat, cid : Nat, owner : Owners]
Change == [op : {"put", "delete"}, table : Tables, id : Ids, ts : Timestamps, cid : {1}]

ASSUME BatchesAssumption == Batches \subseteq Seq(Change)

\* A row of changelog; the set of rows stands for the table, ordered by seq.
Row == [op : {"put", "delete"}, table : Tables, partition : Partitions, id : Ids,
        ts : Nat, cid : Nat, owner : Owners, seq : Nat]

Idle == [op |-> "idle"]
JobStates ==
  {Idle}
    \cup [op : {"apply", "doomed"}, tables : SUBSET Tables]
    \cup [op : {"prune"}, at : {"read", "deleted"}, cur : Nat, min : Nat, target : Nat]
    \cup [op : {"deleteUser", "bury"}, user : Users]

\* current_seq and min_seq are 0 while meta has no row; autoincrement is what
\* sqlite_sequence holds for the changelog.
Init ==
  /\ users = Users
  /\ db = [tables |-> Tables, records |-> [k \in Keys |-> Absent], log |-> {},
           autoincrement |-> 0, cur |-> 0, min |-> 0]
  /\ cache = [p \in Processes |-> {}]
  /\ open = Processes
  /\ job = [w \in Workers |-> Idle]
  /\ restarts = 0 /\ started = 0
  /\ history = {} /\ given = {} /\ goneAt = [u \in Users |-> 0] /\ disturbed = {}

-----------------------------------------------------------------------------
(* Variants of the definitions below, each with a mistake in it that the   *)
(* properties at the end must be able to tell.                             *)

NextRowReused(s) ==                   \* INTEGER PRIMARY KEY, not AUTOINCREMENT
  CHOOSE n \in {1} \cup {e.seq + 1 : e \in s.log} : \A e \in s.log : e.seq < n
KnownToValidation(p, t) == TRUE       \* not looked up again in the transaction
CompactedLog(s, target) ==            \* cut, but min_seq left where it was
  [s EXCEPT !.log = {e \in s.log : e.seq >= target}]
TombOfOwner(u, now, k, n) ==          \* logged in the partition of the user
  [op |-> "delete", table |-> k[2], partition |-> u, id |-> k[3],
   ts |-> now, cid |-> db.records[k].cid, owner |-> u, seq |-> n]
MadeByInCache(u) ==                   \* only in tables somebody has asked for
  {k \in Keys : /\ k[1] = Shared /\ k[2] \in cache[Server]
                /\ db.records[k].op = "put" /\ db.records[k].owner = u}

-----------------------------------------------------------------------------
(* Processes and jobs                                                      *)

\* A job between two statements of one synchronous piece of code.
Busy(w) == job[w].op \in {"prune", "bury"}

\* Job w may go on: no other job of its process is in the middle of one.
MayRun(w) == \A v \in Jobs[ProcessOf(w)] \ {w} : ~Busy(v)

At(w, op) == job[w].op = op /\ MayRun(w)
Becomes(w, state) == job' = [job EXCEPT ![w] = state] /\ UNCHANGED started
Begins(w, state) ==
  /\ started < MaxJobs
  /\ started' = started + 1
  /\ job' = [job EXCEPT ![w] = state]

\* getTablesDb opens the database again if it was closed.
Reopens(w) == open' = open \cup {ProcessOf(w)}

\* getTableSync: an instance once made is never looked up again.
Known(p, t) == t \in cache[p] \cup db.tables

-----------------------------------------------------------------------------
(* applyChanges                                                            *)

\* Validation of a batch for the tables `named` is over: every one of them
\* was found and is now cached.  Whose batch it is and what changes it holds
\* matters, and is chosen, when its transaction begins.
Validate(w, named) ==
  /\ At(w, "idle")
  /\ \A t \in named : Known(ProcessOf(w), t)
  /\ cache' = [cache EXCEPT ![ProcessOf(w)] = @ \cup named]
  /\ Reopens(w)
  /\ Begins(w, [op |-> "apply", tables |-> named])
  /\ UNCHANGED <<users, db, restarts, history, given, goneAt, disturbed>>

PartitionOf(a, t) == IF IsPrivate(t) /\ a \in Users THEN a ELSE Shared

\* lastInsertRowid of the next row of changelog (AUTOINCREMENT)
NextRow(s) == s.autoincrement + 1

\* SELECT COUNT(*) ... WHERE deleted = 0, inside the transaction
Count(s, p, t) == Cardinality({i \in Ids : s.records[<<p, t, i>>].op = "put"})

\* The checks that throw, on the state s of the transaction.
Refused(s, a, c) ==
  LET p == PartitionOf(a, c.table)
      existing == s.records[<<p, c.table, c.id>>]
  IN  \/ IsPrivate(c.table) /\ a = Anonymous
      \/ ~CanApplyChange(a, c.table, c.op, existing)
      \/ /\ c.op = "put" /\ existing.op # "put"
         /\ Count(s, p, c.table) >= MaxRecords

OwnerAfter(a, c, existing) ==
  IF c.op = "delete" \/ existing.op = "put" THEN existing.owner
  ELSE IF a \in Users THEN a ELSE NoOwner

\* The rows one change writes in state s of the transaction.
Written(s, a, c) ==
  LET k == <<PartitionOf(a, c.table), c.table, c.id>>
      owner == OwnerAfter(a, c, s.records[k])
  IN  [s EXCEPT
        !.records[k] = [op |-> c.op, ts |-> c.ts, cid |-> c.cid, owner |-> owner],
        !.log = @ \cup {[op |-> c.op, table |-> c.table, partition |-> k[1], id |-> c.id,
                         ts |-> c.ts, cid |-> c.cid, owner |-> owner, seq |-> NextRow(s)]},
        !.autoincrement = NextRow(s)]

\* One turn of the loop; `ok` turns false when a change is refused.
Turn(p, a, s, c) ==
  IF ~s.ok \/ ~Known(p, c.table) THEN s
  ELSE IF Refused(s, a, c) THEN [s EXCEPT !.ok = FALSE]
  ELSE IF ShouldOverwrite(c, s.records[<<PartitionOf(a, c.table), c.table, c.id>>])
       THEN Written(s, a, c)
       ELSE s

AfterLoop(p, a, batch) ==
  LET after[i \in 0..Len(batch)] ==
        IF i = 0 THEN [records |-> db.records, log |-> db.log,
                       autoincrement |-> db.autoincrement, ok |-> TRUE]
        ELSE Turn(p, a, after[i - 1], batch[i])
  IN  after[Len(batch)]

AtLeastOne(n) == IF n > 1 THEN n ELSE 1

\* DELETE FROM changelog WHERE seq < target, and the new min_seq
Compacted(s, target) ==
  [s EXCEPT !.log = {e \in s.log : e.seq >= target}, !.min = target]

\* Phase 3: automatic compaction, once there are Slack entries too many.
Compact(s) ==
  LET target == AtLeastOne(s.cur - MaxHistory + 1)
  IN  IF s.cur > 0 /\ target > s.min + Slack THEN Compacted(s, target) ELSE s

\* The database when the loop has ended in s: meta moves only if something
\* was applied, from row number 1 at first.
Finished(s) ==
  LET grown == s.autoincrement > db.autoincrement
  IN  Compact([db EXCEPT !.records = s.records, !.log = s.log,
                         !.autoincrement = s.autoincrement,
                         !.cur = IF grown THEN s.autoincrement ELSE @,
                         !.min = IF grown THEN AtLeastOne(@) ELSE @])

Logs(rows) ==
  /\ history' = history \cup rows
  /\ given' = given \cup {e.seq : e \in rows}

\* The transaction of a batch: all of it, or ROLLBACK.
Transact(w, a, batch) ==
  /\ At(w, "apply")
  /\ job[w].tables = {batch[i].table : i \in DOMAIN batch}
  /\ LET p == ProcessOf(w)
         s == AfterLoop(p, a, batch)
     IN  /\ s.autoincrement <= MaxSeq
         /\ db' = IF s.ok THEN Finished(s) ELSE db
         /\ Logs(IF s.ok THEN s.log \ db.log ELSE {})
         /\ cache' = [cache EXCEPT ![p] = @ \cup (job[w].tables \cap db.tables)]
  /\ Becomes(w, Idle)
  /\ UNCHANGED <<users, open, restarts, goneAt, disturbed>>

\* BEGIN throws: the other process kept the database locked through all the
\* attempts, or the handle was closed while the batch was being validated.
GiveUp(w) ==
  /\ At(w, "doomed") \/ At(w, "apply")
  /\ Becomes(w, Idle)
  /\ UNCHANGED <<users, db, cache, open, restarts, history, given, goneAt, disturbed>>

-----------------------------------------------------------------------------
(* Administration                                                          *)

RaisedTo(cur, keep) == AtLeastOne(cur - keep + 1)

\* prune(keepCount) reads meta, ...
Prune(w, keep) ==
  LET target == RaisedTo(db.cur, keep)
  IN  /\ At(w, "idle")
      /\ db.cur > 0 /\ target > db.min
      /\ Begins(w, [op |-> "prune", at |-> "read", cur |-> db.cur, min |-> db.min,
                    target |-> target])
      /\ Reopens(w)
      /\ UNCHANGED <<users, db, cache, restarts, history, given, goneAt, disturbed>>

\* ... deletes rows of the changelog, ...
PruneRows(w) ==
  /\ job[w].op = "prune" /\ job[w].at = "read"
  /\ db' = [db EXCEPT !.log = {e \in @ : e.seq >= job[w].target}]
  /\ Becomes(w, [job[w] EXCEPT !.at = "deleted"])
  /\ UNCHANGED <<users, cache, open, restarts, history, given, goneAt, disturbed>>

\* ... and writes meta, from what it has read before.
PruneMeta(w) ==
  /\ job[w].op = "prune" /\ job[w].at = "deleted"
  /\ db' = [db EXCEPT !.cur = job[w].cur, !.min = job[w].target]
  /\ disturbed' = disturbed \cup
       (IF db.cur = job[w].cur /\ db.min = job[w].min THEN {} ELSE {"prune"})
  /\ Becomes(w, Idle)
  /\ UNCHANGED <<users, cache, open, restarts, history, given, goneAt>>

CreateTable(w, t) ==
  /\ At(w, "idle") /\ t \notin db.tables
  /\ db' = [db EXCEPT !.tables = @ \cup {t}]
  /\ cache' = [cache EXCEPT ![ProcessOf(w)] = @ \cup {t}]
  /\ Reopens(w)
  /\ Begins(w, Idle)
  /\ UNCHANGED <<users, restarts, history, given, goneAt, disturbed>>

\* deleteTable: one transaction, and this process forgets its instance.
DeleteTable(w, t) ==
  /\ At(w, "idle") /\ t \in db.tables
  /\ db' = [db EXCEPT !.tables = @ \ {t},
                      !.records = [k \in Keys |-> IF k[2] = t THEN Absent ELSE @[k]],
                      !.log = {e \in @ : e.table # t}]
  /\ history' = {e \in history : e.table # t}
  /\ cache' = [cache EXCEPT ![ProcessOf(w)] = @ \ {t}]
  /\ disturbed' = disturbed \cup
       (IF \E p \in Processes \ {ProcessOf(w)} : t \in cache[p] THEN {"table"} ELSE {})
  /\ Reopens(w)
  /\ Begins(w, Idle)
  /\ UNCHANGED <<users, restarts, given, goneAt>>

\* The administration looks the user up first; deleteUser comes later.
FindUser(w, u) ==
  /\ At(w, "idle") /\ u \in users
  /\ Begins(w, [op |-> "deleteUser", user |-> u])
  /\ UNCHANGED <<users, db, cache, open, restarts, history, given, goneAt, disturbed>>

\* The first transaction of deleteUser.  Once the account is gone a second
\* attempt ends here; so does one that finds the tables database closed.
DeleteAccount(w) ==
  /\ At(w, "deleteUser")
  /\ LET u == job[w].user
         found == u \in users
         goesOn == found /\ ProcessOf(w) \in open
     IN  /\ users' = IF found THEN users \ {u} ELSE users
         /\ goneAt' = IF found THEN [goneAt EXCEPT ![u] = db.autoincrement] ELSE goneAt
         /\ Becomes(w, IF goesOn THEN [op |-> "bury", user |-> u] ELSE Idle)
         /\ disturbed' = IF found /\ ~goesOn THEN disturbed \cup {"user"} ELSE disturbed
  /\ UNCHANGED <<db, cache, open, restarts, history, given>>

\* The shared records that u made and that are still there.
MadeBy(u) ==
  {k \in Keys : k[1] = Shared /\ db.records[k].op = "put" /\ db.records[k].owner = u}

\* The row that deleteUser logs for record k of u.
Tomb(u, now, k, n) ==
  [op |-> "delete", table |-> k[2], partition |-> Shared, id |-> k[3],
   ts |-> now, cid |-> db.records[k].cid, owner |-> u, seq |-> n]

\* The rows of a query that does not say in which order it wants them.
InSomeOrder(S) == CHOOSE order \in Bijection(1..Cardinality(S), S) : TRUE

\* The second transaction: tombstones for what u shared, in the order the
\* query returns it, and nothing left of the partition of u.
Bury(w, now) ==
  /\ job[w].op = "bury"
  /\ LET u == job[w].user
         made == InSomeOrder(MadeBy(u))
         last == db.autoincrement + Len(made)
         tombs == {Tomb(u, now, made[i], db.autoincrement + i) : i \in DOMAIN made}
     IN  /\ last <= MaxSeq
         /\ db' = [db EXCEPT
              !.records = [k \in Keys |->
                 IF k[1] = u THEN Absent
                 ELSE IF k \in MadeBy(u) THEN [db.records[k] EXCEPT !.op = "delete", !.ts = now]
                 ELSE db.records[k]],
              !.log = {e \in @ \cup tombs : e.partition # u},
              !.autoincrement = last,
              !.cur = IF last > @ /\ made # << >> THEN last ELSE @,
              !.min = IF last > db.cur /\ made # << >> THEN AtLeastOne(@) ELSE @]
         /\ history' = {e \in history \cup tombs : e.partition # u}
         /\ given' = given \cup {e.seq : e \in tombs}
  /\ Becomes(w, Idle)
  /\ UNCHANGED <<users, cache, open, restarts, goneAt, disturbed>>

-----------------------------------------------------------------------------
(* Processes                                                               *)

\* close(): what waits for its validation holds a handle that is closed.
Close(p) ==
  /\ p \in open /\ \A w \in Jobs[p] : ~Busy(w)
  /\ open' = open \ {p}
  /\ cache' = [cache EXCEPT ![p] = {}]
  /\ job' = [w \in Workers |->
               IF w \in Jobs[p] /\ job[w].op = "apply" THEN [job[w] EXCEPT !.op = "doomed"]
               ELSE job[w]]
  /\ UNCHANGED <<users, db, restarts, started, history, given, goneAt, disturbed>>

\* The process ends, or is killed, between any two steps, and a new one opens
\* the databases.  Open transactions are rolled back.
Restart(p) ==
  /\ restarts < MaxRestarts
  /\ restarts' = restarts + 1
  /\ open' = open \cup {p}
  /\ cache' = [cache EXCEPT ![p] = {}]
  /\ job' = [w \in Workers |-> IF w \in Jobs[p] THEN Idle ELSE job[w]]
  /\ disturbed' = disturbed
       \cup (IF \E w \in Jobs[p] : job[w].op = "bury" THEN {"user"} ELSE {})
       \cup (IF \E w \in Jobs[p] : job[w].op = "prune" /\ job[w].at = "deleted"
             THEN {"prune"} ELSE {})
  /\ UNCHANGED <<users, db, started, history, given, goneAt>>

-----------------------------------------------------------------------------
Next ==
  \/ \E w \in Workers :
       \/ \E named \in (SUBSET Tables) \ {{}} : Validate(w, named)
       \/ \E a \in Actors, batch \in Batches : Transact(w, a, batch)
       \/ GiveUp(w)
       \/ \E keep \in KeepCounts : Prune(w, keep)
       \/ PruneRows(w) \/ PruneMeta(w)
       \/ \E t \in Tables : CreateTable(w, t) \/ DeleteTable(w, t)
       \/ \E u \in Users : FindUser(w, u)
       \/ DeleteAccount(w)
       \/ \E now \in Timestamps : Bury(w, now)
  \/ \E p \in Processes : Close(p) \/ Restart(p)

Spec == Init /\ [][Next]_vars

-----------------------------------------------------------------------------
(* Reading: getRawChangesSince, getChangesSince and snapshots              *)

RawChangesSince(from) == {e \in db.log : e.seq > from}

IsSnapshotRequired(from) ==
  \/ from < db.min /\ db.min > 0
  \/ from > db.cur

Diff(reader, from) == {e \in RawChangesSince(from) : CanReadChange(reader, e)}

Snapshot(reader) ==
  {k \in Keys : /\ db.records[k].op = "put"
                /\ InSnapshot(reader, k[2], IF k[1] = Shared THEN NoOwner ELSE k[1],
                              db.records[k])}

Readers == Users \cup {Anonymous}

-----------------------------------------------------------------------------
(* Properties                                                              *)

\* Every variable has its type, and the counters their order.
TypeOK ==
  /\ users \subseteq Users /\ open \subseteq Processes
  /\ cache \in [Processes -> SUBSET Tables]
  /\ job \in [Workers -> JobStates]
  /\ restarts \in 0..MaxRestarts /\ started \in 0..MaxJobs
  /\ db.tables \subseteq Tables
  /\ db.records \in [Keys -> Stored]
  /\ db.log \subseteq Row /\ history \subseteq Row
  /\ db.autoincrement \in Nat /\ db.cur \in 0..db.autoincrement
  /\ goneAt \in [Users -> Nat]
  /\ disturbed \subseteq {"prune", "table", "user"}

\* A number is never given out again, not even when the rows that had the
\* last ones are gone with their table, their user or by pruning: a client
\* that has seen it would take the new change for one it knows
\* (sqlite.ts:513-514, 989-990).
NumbersAreFresh ==
  [][\A e \in history' \ history :
       (\A n \in given : n < e.seq) /\ \A f \in history' : e.seq = f.seq => e = f]_vars

\* Until a prune is torn apart by the other process or its own end, a client
\* that is not told to take a snapshot is told of everything it may read that
\* has happened since, with any number of batches, deletions and compactions
\* in between (sqlite.ts:331-388, 533-556, 605-633; storage.ts:457-463).
DiffIsComplete ==
  "prune" \notin disturbed /\ (\A w \in Workers : job[w].op = "prune" => job[w].at = "read") =>
    \A reader \in Readers, from \in 0..MaxSeq :
      ~IsSnapshotRequired(from) =>
        {e \in history : e.seq > from /\ CanReadChange(reader, e)} \subseteq Diff(reader, from)

\* The two ways to read agree: whoever follows the log, filtered for him,
\* from its beginning shows what a snapshot gives him, nobody else's private
\* records among it, whatever was refused, buried or left of a deleted user
\* (filter.ts:76-174; sqlite.ts:420-516, 813-888).
SnapshotIsReplay ==
  \A reader \in Readers :
    LET told == {e \in history : CanReadChange(reader, e)}
        last(k) == {e \in told : /\ <<e.partition, e.table, e.id>> = k
                                 /\ \A f \in told : <<f.partition, f.table, f.id>> = k =>
                                                      f.seq <= e.seq}
    IN  Snapshot(reader) = {k \in Keys : \E e \in last(k) : e.op = "put"}

\* No partition of a table has more live records than its limit
\* (sqlite.ts:449-464).
LimitKept ==
  \A p \in Partitions, t \in Tables : Count(db, p, t) <= MaxRecords

\* Unless a deletion stopped between the two databases, what a deleted user
\* had written is gone: every live record of his was written by a session
\* that outlived the account (sqlite.ts:799-889).
DeletedLeaveNothing ==
  "user" \notin disturbed =>
    \A u \in Users \ users :
      \/ \E w \in Workers : job[w] = [op |-> "bury", user |-> u]
      \/ \A k \in Keys :
           db.records[k].op = "put" /\ db.records[k].owner = u =>
             \E e \in history : /\ <<e.partition, e.table, e.id>> = k
                                /\ e.seq > goneAt[u]

\* Until a table is deleted under the feet of the other process, records are
\* only kept for tables there are, though a batch was validated before the
\* deletion of its table (sqlite.ts:400, 424-425, 790).
NoOrphans ==
  "table" \notin disturbed =>
    \A k \in Keys : db.records[k].op # "none" => k[2] \in db.tables

=============================================================================
