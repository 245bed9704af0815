----------------------------- MODULE FileStorage -----------------------------
(***************************************************************************)
(* The file storage engine (src/server/storage/file.ts): JSON files that   *)
(* are read and written whole, a log per partition that lines are appended *)
(* to, and promise chains for locks.                                       *)
(*                                                                         *)
(* Every call to the file system that another job of the process, or a     *)
(* crash, can be told apart from is a step; reading the tables and the     *)
(* records of one partition is a single one.  A job is a call of a storage *)
(* operation by one of the Workers; jobs wait for one another only at the  *)
(* locks.                                                                  *)
(*                                                                         *)
(* Definitions just before the one they are variants of, with a mistake in *)
(* them, serve to test the properties and have no other use.               *)
(***************************************************************************)
EXTENDS LWW, Permissions, SequencesExt

CONSTANTS Workers,      \* so many jobs at a time
          Ids,          \* record ids
          Batches,      \* the change batches that are applied
          Kinds,        \* the kinds of jobs there are
          KeepCounts,   \* arguments an administrator gives to prune
          Clock,        \* what the server's clock may say
          MaxHistory,   \* options.maxHistoryEntries
          Slack,        \* the 50 entries compaction waits for beyond that
          MaxRecords,   \* maxRecords, of the options or of the table
          MaxJobs,      \* BOUND on jobs
          MaxCrashes,   \* BOUND on crashes
          Shared        \* the partition "__shared__"

ASSUME FileAssumption ==
  /\ {MaxHistory, Slack, MaxRecords, MaxJobs, MaxCrashes} \subseteq Nat
  /\ KeepCounts \subseteq Nat /\ Clock \subseteq Nat
  /\ Shared \notin Users
  /\ {"users", "tables", "apply"} \cap (Users \cup {Shared}) = {}  \* names of locks
  /\ IsFiniteSet(Users) /\ IsFiniteSet(Tables) /\ IsFiniteSet(Ids)

Change == [table : Tables, id : Ids, op : {"put", "delete"}, ts : Nat, cid : Nat]
ASSUME BatchesAssumption == Batches \subseteq Seq(Change)

VARIABLES (* Files *)
          tables,       \* tables.json
          accounts,     \* users.json
          records,      \* the records.json of each partition and table
          log,          \* the sync.jsonl of each partition
          torn,         \* torn[p] : does it end in an incomplete line?
          meta,         \* meta.json: currentSeq and minSeq
          (* The process *)
          queue,        \* who holds, and then who waits for, each lock
          job,          \* what each worker is doing
          started,      \* jobs so far
          crashes,      \* crashes so far
          (* HISTORY VARIABLES *)
          logged,       \* logged[p] : all that was ever appended to a log
          swallowed,    \* those of them that are part of a line that was left
                        \* incomplete before, and are never read
          acked,        \* all that was acknowledged
          deleted,      \* tables that have been deleted
          buried,       \* shared records that were deleted with their owner
          disturbed     \* has a batch been cut off half-way, or has a job
                        \* rewritten files that another was at work with?

files == <<tables, accounts, records, log, torn, meta>>
past == <<logged, swallowed, acked, deleted, buried>>
vars == <<files, queue, job, started, crashes, past, disturbed>>

Partitions == Users \cup {Shared}
Keys == Partitions \X Tables \X Ids
PartitionOf(a, t) == IF IsPrivate(t) /\ a \in Users THEN a ELSE Shared

Absent == [op |-> "none", ts |-> 0, cid |-> 0, owner |-> NoOwner]

\* All of the batches of one server exclude one another.
ApplyLockPerUser(a) == IF a \in Users THEN "applyUsers" ELSE "apply"
ApplyLock(a) == "apply"
Locks == {"users", "tables"} \cup {ApplyLock(a) : a \in Actors} \cup Partitions

Idle == [pc |-> "idle", kind |-> "none"]

Init ==
  /\ tables = Tables /\ accounts = Users
  /\ records = [k \in Keys |-> Absent]
  /\ log = [p \in Partitions |-> {}] /\ torn = [p \in Partitions |-> FALSE]
  /\ meta = [seq |-> 0, min |-> 0]
  /\ queue = [l \in Locks |-> << >>] /\ job = [w \in Workers |-> Idle]
  /\ started = 0 /\ crashes = 0
  /\ logged = log /\ swallowed = log /\ acked = {} /\ deleted = {} /\ buried = {}
  /\ disturbed = FALSE

-----------------------------------------------------------------------------
(* withLock: a promise chain for each lock                                 *)

Holds(w, l) == queue[l] # << >> /\ Head(queue[l]) = w

\* Locks are given back, and others asked for.
Switch(w, freed, wanted) ==
  queue' = [l \in Locks |->
              LET rest == IF l \in freed THEN Tail(queue[l]) ELSE queue[l]
              IN  IF l \in wanted THEN Append(rest, w) ELSE rest]

Goto(w, j, pc) == job' = [job EXCEPT ![w] = [j EXCEPT !.pc = pc]]
Finish(w, freed) == job' = [job EXCEPT ![w] = Idle] /\ Switch(w, freed, {})

\* A job goes over partitions one after the other, each under its lock: on to
\* the first of `todo`, to do `step` there, or else to what comes last.
Visit(w, j, freed, todo, step, last) ==
  /\ Goto(w, [j EXCEPT !.todo = todo], IF todo = << >> THEN last ELSE step)
  /\ Switch(w, freed, IF todo = << >> THEN {} ELSE {Head(todo)})

At(w, pc) == job[w].pc = pc
AtPartition(w, pc) == At(w, pc) /\ Holds(w, Head(job[w].todo))

\* __shared__ and the partition of every account
AllPartitions == <<Shared>> \o SetToSeq(accounts)

Begins(w, kind) ==
  /\ kind \in Kinds /\ At(w, "idle") /\ started < MaxJobs
  /\ started' = started + 1

\* w has read meta.json and will write what it makes of it; or is about to
\* remove log entries.
Rewriting(w) ==
  job[w].kind \in {"apply", "prune", "tombs"} /\ ~At(w, "group") /\ ~At(w, "return")
Cutting(w) == At(w, "cut") \/ At(w, "cutMeta")
Disturb(when) == disturbed' = (disturbed \/ when)

-----------------------------------------------------------------------------
(* applyChanges                                                            *)

\* The tables of a batch are there when it is validated.
Apply(w, a, batch) ==
  /\ Begins(w, "apply")
  /\ \A c \in ToSet(batch) : c.table \in tables
  /\ job' = [job EXCEPT ![w] =
       [pc |-> "group", kind |-> "apply", actor |-> a, batch |-> batch,
        meta |-> [seq |-> 0, min |-> 0], todo |-> << >>, maps |-> << >>,
        left |-> {}, lines |-> << >>, applied |-> {}]]
  /\ Switch(w, {}, {ApplyLock(a)})
  /\ UNCHANGED <<files, crashes, past, disturbed>>

\* The partitions of a batch's changes to known tables, in the order in which
\* they first appear.
Listed(a, ps, c) ==
  IF c.table \notin tables \/ PartitionOf(a, c.table) \in ToSet(ps) THEN ps
  ELSE Append(ps, PartitionOf(a, c.table))
Grouped(a, batch) ==
  LET ps[n \in 0..Len(batch)] == IF n = 0 THEN << >> ELSE Listed(a, ps[n - 1], batch[n])
  IN  ps[Len(batch)]

\* readGlobalMeta; the changes are grouped by partition.
Group(w) ==
  LET j == job[w]
      todo == Grouped(j.actor, j.batch)
  IN  /\ At(w, "group") /\ Holds(w, ApplyLock(j.actor))
      /\ IF \E c \in ToSet(j.batch) :
              c.table \in tables /\ IsPrivate(c.table) /\ j.actor = Anonymous
         THEN Finish(w, {ApplyLock(j.actor)})
         ELSE Visit(w, [j EXCEPT !.meta = meta], {}, todo, "stage", "meta")
      /\ Disturb(\E v \in Workers : Rewriting(v) /\ job[v].kind # "apply")
      /\ UNCHANGED <<files, started, crashes, past>>

AboveLimit(map) == Cardinality({i \in Ids : map[i].op # "none"}) > MaxRecords
AtLimit(map) == Cardinality({i \in Ids : map[i].op # "none"}) >= MaxRecords

\* The checks that throw.
Refused(a, c, map) ==
  \/ ~CanApplyChange(a, c.table, c.op, map[c.id])
  \/ c.op = "put" /\ map[c.id].op # "put" /\ AtLimit(map)

\* createAppliedRecords: who owns the record a change leaves.
OwnerAfter(a, c, existing) ==
  IF c.op = "delete" \/ existing.op = "put" THEN existing.owner
  ELSE IF a \in Users THEN a ELSE NoOwner

AlwaysWins(c, existing) == TRUE
Wins(c, existing) == ShouldOverwrite(c, existing)

\* What a change does to the maps, the numbers and the lines of its partition.
Stages(a, p, st, c) ==
  LET existing == st.maps[c.table][c.id]
      owner == OwnerAfter(a, c, existing)
      now == [op |-> c.op, ts |-> c.ts, cid |-> c.cid, owner |-> owner]
  IN  IF ~st.ok \/ PartitionOf(a, c.table) # p \/ c.table \notin tables THEN st
      ELSE IF Refused(a, c, st.maps[c.table]) THEN [st EXCEPT !.ok = FALSE]
      ELSE IF ~Wins(c, existing) THEN [st EXCEPT !.left = @ \cup {c.table}]
      ELSE [st EXCEPT !.left = @ \cup {c.table},
                      !.maps[c.table][c.id] = now,
                      !.meta = [seq |-> @.seq + 1, min |-> IF @.min = 0 THEN 1 ELSE @.min],
                      !.lines = Append(@, [table |-> c.table, id |-> c.id, op |-> c.op,
                                           ts |-> c.ts, cid |-> c.cid, owner |-> owner,
                                           seq |-> st.meta.seq + 1])]

Staged(a, p, batch, numbers) ==
  LET st[n \in 0..Len(batch)] ==
        IF n = 0 THEN [ok |-> TRUE, left |-> {}, meta |-> numbers, lines |-> << >>,
                       maps |-> [t \in Tables |-> [i \in Ids |-> records[<<p, t, i>>]]]]
        ELSE Stages(a, p, st[n - 1], batch[n])
  IN  st[Len(batch)]

\* The steps in a partition: the log is written before the records.
RecordsFirst == [stage |-> "records", append |-> "leave", records |-> "append"]
Then == [stage |-> "append", append |-> "records", records |-> "leave"]

\* withLock gives its lock back when the function throws, too.
KeptOnRefusal(a, p) == {ApplyLock(a)}
FreedOnRefusal(a, p) == {ApplyLock(a), p}

\* The changes for one partition are worked out.  An exception leaves the files
\* of the partitions before as they have been written.
Stage(w) ==
  LET j == job[w]
      p == Head(j.todo)
      st == Staged(j.actor, p, j.batch, j.meta)
  IN  /\ AtPartition(w, "stage")
      /\ IF st.ok
         THEN /\ Goto(w, [j EXCEPT !.maps = st.maps, !.left = st.left, !.meta = st.meta,
                                   !.lines = st.lines], Then.stage)
              /\ UNCHANGED <<queue, disturbed>>
         ELSE /\ Finish(w, FreedOnRefusal(j.actor, p))
              /\ Disturb(j.applied # {})
      /\ UNCHANGED <<files, started, crashes, past>>

\* Lines after an incomplete one: the first of them becomes part of it, and is
\* not read again.
Legible(p, lines) ==
  {lines[i] : i \in {n \in DOMAIN lines : torn[p] => n > 1}}
Swallowed(p, lines) ==
  {lines[i] : i \in {n \in DOMAIN lines : torn[p] /\ n = 1}}

\* appendFile, unless there are no lines
AppendLog(w) ==
  LET j == job[w]
      p == Head(j.todo)
  IN  /\ At(w, "append")
      /\ log' = [log EXCEPT ![p] = @ \cup Legible(p, j.lines)]
      /\ torn' = [torn EXCEPT ![p] = @ /\ j.lines = << >>]
      /\ logged' = [logged EXCEPT ![p] = @ \cup ToSet(j.lines)]
      /\ swallowed' = [swallowed EXCEPT ![p] = @ \cup Swallowed(p, j.lines)]
      /\ Goto(w, j, Then.append)
      /\ UNCHANGED <<tables, accounts, records, meta, queue, started, crashes, acked,
                     deleted, buried, disturbed>>

WriteFile(p, t, map) ==
  records' = [k \in Keys |-> IF k[1] = p /\ k[2] = t THEN map[k[3]] ELSE records[k]]

\* writeFileAtomic, for each table that was read
WriteRecords(w) ==
  LET j == job[w]
  IN  /\ At(w, "records")
      /\ IF j.left = {} THEN Goto(w, j, Then.records) /\ UNCHANGED records
         ELSE \E t \in j.left :
                /\ WriteFile(Head(j.todo), t, j.maps[t])
                /\ Goto(w, [j EXCEPT !.left = @ \ {t}], "records")
      /\ UNCHANGED <<tables, accounts, log, torn, meta, queue, started, crashes, past,
                     disturbed>>

\* On to the next partition, or to the end.
Leave(w) ==
  LET j == job[w]
  IN  /\ At(w, "leave")
      /\ Visit(w, [j EXCEPT !.applied = @ \cup ToSet(j.lines), !.maps = << >>,
                            !.lines = << >>],
               {Head(j.todo)}, Tail(j.todo), "stage", "meta")
      /\ UNCHANGED <<files, started, crashes, past, disturbed>>

\* writeGlobalMeta, and compaction when the log has grown enough.
WriteMeta(w) ==
  LET j == job[w]
      target == j.meta.seq - MaxHistory
      compacts == /\ MaxHistory > 0 /\ target > j.meta.min
                  /\ j.meta.seq - j.meta.min > MaxHistory + Slack
  IN  /\ At(w, "meta")
      /\ meta' = j.meta
      /\ IF compacts
         THEN /\ Visit(w, [j EXCEPT !.meta.min = target], {}, AllPartitions, "cut", "cutMeta")
              /\ Disturb(\E v \in Workers : At(v, "read"))
         ELSE Goto(w, j, "return") /\ UNCHANGED <<queue, disturbed>>
      /\ UNCHANGED <<tables, accounts, records, log, torn, started, crashes, past>>

Return(w) ==
  LET j == job[w]
  IN  /\ At(w, "return")
      /\ Finish(w, IF j.kind = "apply" THEN {ApplyLock(j.actor)} ELSE {})
      /\ acked' = acked \cup
           (IF j.kind = "apply"
            THEN {[key |-> <<PartitionOf(j.actor, e.table), e.table, e.id>>, op |-> e.op,
                   ts |-> e.ts, cid |-> e.cid, owner |-> e.owner] : e \in j.applied}
            ELSE {})
      /\ UNCHANGED <<files, started, crashes, logged, swallowed, deleted, buried, disturbed>>

-----------------------------------------------------------------------------
(* prune, which does not exclude batches                                   *)

Prune(w, keep) ==
  LET target == IF meta.seq < keep THEN 1 ELSE meta.seq - keep + 1
  IN  /\ Begins(w, "prune") /\ meta.seq > 0 /\ target > meta.min
      /\ Visit(w, [pc |-> "cut", kind |-> "prune", todo |-> << >>,
                   meta |-> [meta EXCEPT !.min = target]],
               {}, AllPartitions, "cut", "cutMeta")
      /\ Disturb(\E v \in Workers : Rewriting(v) \/ At(v, "read"))
      /\ UNCHANGED <<files, crashes, past>>

\* prunePartitionSyncFile; a log that loses nothing is not written.
Cut(w) ==
  LET j == job[w]
      p == Head(j.todo)
      kept == {e \in log[p] : e.seq >= j.meta.min}
  IN  /\ AtPartition(w, "cut")
      /\ log' = [log EXCEPT ![p] = kept]
      /\ torn' = [torn EXCEPT ![p] = @ /\ kept = log[p]]
      /\ Visit(w, j, {p}, Tail(j.todo), "cut", "cutMeta")
      /\ UNCHANGED <<tables, accounts, records, meta, started, crashes, past, disturbed>>

CutMeta(w) ==
  /\ At(w, "cutMeta")
  /\ meta' = job[w].meta
  /\ Goto(w, job[w], "return")
  /\ UNCHANGED <<tables, accounts, records, log, torn, queue, started, crashes, past,
                 disturbed>>

-----------------------------------------------------------------------------
(* getRawChangesSince                                                      *)

Diff(w, a, from) ==
  /\ Begins(w, "diff")
  /\ Visit(w, [pc |-> "read", kind |-> "diff", actor |-> a, from |-> from, meta |-> meta,
               todo |-> << >>, got |-> {}],
           {}, IF a \in Users THEN <<Shared, a>> ELSE <<Shared>>, "read", "answer")
  /\ Disturb(\E v \in Workers : Cutting(v))
  /\ UNCHANGED <<files, crashes, past>>

ReadLog(w) ==
  LET j == job[w]
      p == Head(j.todo)
  IN  /\ AtPartition(w, "read")
      /\ Visit(w, [j EXCEPT !.got = @ \cup {e \in log[p] : e.seq > j.from}],
               {p}, Tail(j.todo), "read", "answer")
      /\ UNCHANGED <<files, started, crashes, past, disturbed>>

Answer(w) ==
  /\ At(w, "answer") /\ Finish(w, {})
  /\ UNCHANGED <<files, started, crashes, past, disturbed>>

-----------------------------------------------------------------------------
(* deleteUser                                                              *)

DeleteUser(w, u, now) ==
  /\ Begins(w, "deleteUser")
  /\ job' = [job EXCEPT ![w] = [pc |-> "account", kind |-> "account", user |-> u,
                                now |-> now, todo |-> <<Shared>>]]
  /\ Switch(w, {}, {"users"})
  /\ UNCHANGED <<files, crashes, past, disturbed>>

DropAccount(w) ==
  LET j == job[w]
  IN  /\ At(w, "account") /\ Holds(w, "users")
      /\ accounts' = accounts \ {j.user}
      /\ Visit(w, j, {}, j.todo, "tombs", "tombs")
      /\ UNCHANGED <<tables, records, log, torn, meta, started, crashes, past, disturbed>>

MadeBy(u) ==
  {k \in Keys : k[1] = Shared /\ k[2] \in tables
                /\ records[k].op = "put" /\ records[k].owner = u}

\* The shared records of the user become tombstones, in some order.
Tombs(w) ==
  LET j == job[w]
      made == MadeBy(j.user)
      dead == [k \in made |-> [records[k] EXCEPT !.op = "delete", !.ts = j.now]]
      order == SetToSeq(made)
      map(t) == [i \in Ids |-> IF <<Shared, t, i>> \in made THEN dead[<<Shared, t, i>>]
                               ELSE records[<<Shared, t, i>>]]
  IN  /\ AtPartition(w, "tombs")
      /\ IF made = {}
         THEN /\ Goto(w, j, "rmdir") /\ Switch(w, {Shared}, {})
              /\ UNCHANGED disturbed
         ELSE /\ job' = [job EXCEPT ![w] =
                   [pc |-> "tombRecords", kind |-> "tombs", user |-> j.user, todo |-> j.todo,
                    left |-> {k[2] : k \in made},
                    maps |-> [t \in Tables |-> map(t)],
                    lines |-> [n \in DOMAIN order |->
                      [table |-> order[n][2], id |-> order[n][3], op |-> "delete",
                       ts |-> j.now, cid |-> records[order[n]].cid, owner |-> j.user,
                       seq |-> meta.seq + n]],
                    meta |-> [seq |-> meta.seq + Len(order),
                              min |-> IF meta.min = 0 THEN 1 ELSE meta.min]]]
              /\ Disturb(\E v \in Workers \ {w} : Rewriting(v))
              /\ UNCHANGED queue
      /\ buried' = buried \cup made
      /\ UNCHANGED <<files, started, crashes, logged, swallowed, acked, deleted>>

\* Records first, then the log.
WriteTombs(w) ==
  LET j == job[w]
  IN  /\ At(w, "tombRecords")
      /\ \E t \in j.left :
           /\ WriteFile(Shared, t, j.maps[t])
           /\ Goto(w, [j EXCEPT !.left = @ \ {t}],
                   IF j.left = {t} THEN "tombLog" ELSE "tombRecords")
      /\ UNCHANGED <<tables, accounts, log, torn, meta, queue, started, crashes, past,
                     disturbed>>

LogTombs(w) ==
  LET j == job[w]
  IN  /\ At(w, "tombLog")
      /\ log' = [log EXCEPT ![Shared] = @ \cup Legible(Shared, j.lines)]
      /\ torn' = [torn EXCEPT ![Shared] = FALSE]
      /\ logged' = [logged EXCEPT ![Shared] = @ \cup ToSet(j.lines)]
      /\ swallowed' = [swallowed EXCEPT ![Shared] = @ \cup Swallowed(Shared, j.lines)]
      /\ Goto(w, j, "tombMeta")
      /\ UNCHANGED <<tables, accounts, records, meta, queue, started, crashes, acked,
                     deleted, buried, disturbed>>

CountTombs(w) ==
  LET j == job[w]
  IN  /\ At(w, "tombMeta")
      /\ meta' = j.meta
      /\ job' = [job EXCEPT ![w] = [pc |-> "rmdir", kind |-> "account", user |-> j.user]]
      /\ Switch(w, {Shared}, {})
      /\ UNCHANGED <<tables, accounts, records, log, torn, started, crashes, past, disturbed>>

\* The user's directory goes, whoever is at work in it.
RemoveDir(w) ==
  LET u == job[w].user
  IN  /\ At(w, "rmdir")
      /\ records' = [k \in Keys |-> IF k[1] = u THEN Absent ELSE records[k]]
      /\ log' = [log EXCEPT ![u] = {}] /\ torn' = [torn EXCEPT ![u] = FALSE]
      /\ Finish(w, {"users"})
      /\ UNCHANGED <<tables, accounts, meta, started, crashes, past, disturbed>>

-----------------------------------------------------------------------------
(* Tables                                                                  *)

CreateTable(t) ==
  /\ "createTable" \in Kinds /\ queue["tables"] = << >> /\ t \notin tables
  /\ tables' = tables \cup {t}
  /\ UNCHANGED <<accounts, records, log, torn, meta, queue, job, started, crashes, past,
                 disturbed>>

DeleteTable(w, t) ==
  /\ Begins(w, "deleteTable") /\ t \in tables
  /\ job' = [job EXCEPT ![w] = [pc |-> "drop", kind |-> "drop", table |-> t,
                                todo |-> << >>, dirs |-> <<Shared>> \o SetToSeq(Users)]]
  /\ Switch(w, {}, {"tables"})
  /\ UNCHANGED <<files, crashes, past, disturbed>>

DropTable(w) ==
  LET t == job[w].table
  IN  /\ At(w, "drop") /\ Holds(w, "tables")
      /\ tables' = tables \ {t} /\ deleted' = deleted \cup {t}
      /\ IF t \in tables THEN Goto(w, job[w], "rm") /\ UNCHANGED queue
         ELSE Finish(w, {"tables"})
      /\ UNCHANGED <<accounts, records, log, torn, meta, started, crashes, logged,
                     swallowed, acked, buried, disturbed>>

\* The table's directory goes in every partition, without their locks.
RemoveTable(w) ==
  LET j == job[w]
  IN  /\ At(w, "rm")
      /\ IF j.dirs = << >>
         THEN Visit(w, j, {}, AllPartitions, "purge", "purged") /\ UNCHANGED records
         ELSE /\ WriteFile(Head(j.dirs), j.table, [i \in Ids |-> Absent])
              /\ Goto(w, [j EXCEPT !.dirs = Tail(@)], "rm")
              /\ UNCHANGED queue
      /\ UNCHANGED <<tables, accounts, log, torn, meta, started, crashes, past, disturbed>>

\* purgeTableFromSyncFiles
Purge(w) ==
  LET j == job[w]
      p == Head(j.todo)
      kept == {e \in log[p] : e.table # j.table}
  IN  /\ AtPartition(w, "purge")
      /\ log' = [log EXCEPT ![p] = kept]
      /\ torn' = [torn EXCEPT ![p] = @ /\ kept = log[p]]
      /\ IF Len(j.todo) = 1 THEN Finish(w, {p, "tables"})
         ELSE Visit(w, j, {p}, Tail(j.todo), "purge", "purged")
      /\ UNCHANGED <<tables, accounts, records, meta, started, crashes, past, disturbed>>

-----------------------------------------------------------------------------
\* The process is killed and started again.  Of lines that were just being
\* appended the n-th is missing, or incomplete, and those after it are missing.
\* (A line that lacks only its end is taken for an incomplete one.)
Crash ==
  LET appending == {w \in Workers : (At(w, "append") \/ At(w, "tombLog"))
                                     /\ job[w].lines # << >>}
      at(p) == {w \in appending : Head(job[w].todo) = p}
  IN  /\ crashes < MaxCrashes
      /\ crashes' = crashes + 1
      /\ \E n \in [appending -> UNION {DOMAIN job[w].lines : w \in appending}] :
           /\ \A w \in appending : n[w] \in DOMAIN job[w].lines
           /\ LET whole(w) == SubSeq(job[w].lines, 1, n[w] - 1)
              IN  /\ log' = [p \in Partitions |->
                               log[p] \cup UNION {Legible(p, whole(w)) : w \in at(p)}]
                  /\ logged' = [p \in Partitions |->
                                  logged[p] \cup UNION {ToSet(whole(w)) : w \in at(p)}]
                  /\ swallowed' = [p \in Partitions |->
                        swallowed[p] \cup UNION {Swallowed(p, whole(w)) : w \in at(p)}]
           /\ torn' \in [Partitions -> BOOLEAN]
           /\ \A p \in Partitions : torn'[p] # torn[p] =>
                \E w \in at(p) : torn[p] => n[w] > 1
      /\ queue' = [l \in Locks |-> << >>] /\ job' = [w \in Workers |-> Idle]
      /\ Disturb(\E w \in Workers : Rewriting(w))
      /\ UNCHANGED <<tables, accounts, records, meta, started, acked, deleted, buried>>

Step(w) ==
  \/ Group(w) \/ Stage(w) \/ AppendLog(w) \/ WriteRecords(w) \/ Leave(w)
  \/ WriteMeta(w) \/ Return(w) \/ Cut(w) \/ CutMeta(w)
  \/ ReadLog(w) \/ Answer(w)
  \/ DropAccount(w) \/ Tombs(w) \/ WriteTombs(w) \/ LogTombs(w) \/ CountTombs(w)
  \/ RemoveDir(w)
  \/ DropTable(w) \/ RemoveTable(w) \/ Purge(w)

Start(w) ==
  \/ \E a \in Actors, batch \in Batches : Apply(w, a, batch)
  \/ \E keep \in KeepCounts : Prune(w, keep)
  \/ \E a \in Actors, from \in 1..(meta.seq + 1) : Diff(w, a, from)
  \/ \E u \in accounts, now \in Clock : DeleteUser(w, u, now)
  \/ \E t \in Tables : DeleteTable(w, t)

Next ==
  \/ \E w \in Workers : Start(w) \/ Step(w)
  \/ \E t \in Tables : CreateTable(t)
  \/ Crash

Spec == Init /\ [][Next]_vars

-----------------------------------------------------------------------------
(* Properties                                                              *)

Stored == [op : {"none", "put", "delete"}, ts : Nat, cid : Nat, owner : Owners]

\* Every variable has its type; the counter is never behind the start of the
\* logs by more than pruning everything makes it.
TypeOK ==
  /\ tables \subseteq Tables /\ accounts \subseteq Users
  /\ records \in [Keys -> Stored]
  /\ torn \in [Partitions -> BOOLEAN] /\ DOMAIN log = Partitions
  /\ meta \in [seq : Nat, min : Nat] /\ meta.min <= meta.seq + 1
  /\ \A l \in Locks : queue[l] \in Seq(Workers) /\ IsInjective(queue[l])
  /\ disturbed \in BOOLEAN

\* What was acknowledged is on disk or has lost to something later, whatever
\* crashes, refusals and other jobs there are, unless its table or partition was
\* deleted, or a later owner of the record with it (file.ts:383-404).
AckedStays ==
  \A e \in acked :
    \/ e.key[2] \in deleted \/ e.key[1] \in Users \ accounts \/ e.key \in buried
    \/ records[e.key].op # "none" /\ ShouldOverwrite(records[e.key], e)

\* A table never holds more live records than its limit in a partition
\* (file.ts:351-360).
LimitKept ==
  \A p \in Partitions, t \in Tables :
    Cardinality({i \in Ids : records[<<p, t, i>>].op = "put"}) <= MaxRecords

\* A line tells of the record there is under a key.
Tells(e, k) ==
  /\ e.table = k[2] /\ e.id = k[3]
  /\ records[k] = [op |-> e.op, ts |-> e.ts, cid |-> e.cid, owner |-> e.owner]

\* There was a line diffs could tell of the record with.
DiffsTell(k) == \E e \in logged[k[1]] \ swallowed[k[1]] : Tells(e, k)

\* No record is shown before its line was appended to the log, so that diffs can
\* tell of it (file.ts:383-402); but where a crash left an incomplete line, the
\* next one is appended to that, and its record is one that no diff has
\* (file.ts:266-274, 384).  That is one record at most for each crash and
\* partition.
LoggedFirst ==
  /\ \A k \in Keys : records[k].op = "put" =>
       DiffsTell(k) \/ \E e \in swallowed[k[1]] : Tells(e, k)
  /\ \A p \in Partitions : Cardinality(swallowed[p]) <= crashes

\* There is a line that diffs could tell of each record with.  After a crash
\* there is not.
EveryRecordTold == \A k \in Keys : records[k].op = "put" => DiffsTell(k)

\* Sequence numbers are unique across partitions, whatever was refused or cut
\* from the logs, as long as no batch was cut off half-way and nothing else
\* wrote the counter while one had read it (file.ts:364-405).
SeqsAreUnique ==
  disturbed \/
  \A p, q \in Partitions : \A e \in logged[p], f \in logged[q] :
    e.seq = f.seq => p = q /\ e = f

IsSnapshotRequired(from, m) == (from < m.min /\ m.min > 0) \/ from > m.seq

ToldLate(j) == meta.seq
\* The number up to which a client believes to know everything after a diff.
Told(j) == j.meta.seq

\* A diff has everything after the client's number up to the one it is told.
Complete(j) ==
  IsSnapshotRequired(j.from, j.meta) \/
  \A p \in {Shared} \cup ({j.actor} \cap accounts) : \A e \in logged[p] :
    e.table \notin deleted /\ e.seq > j.from /\ e.seq <= Told(j) => e \in j.got

\* Clients catch up by diffs on reconnect (README.md:26): what a client is not
\* told now it will not ask for again.
DiffIsComplete == \A w \in Workers : At(w, "answer") => Complete(job[w])

\* So it is while batches are applied, as long as logs are not cut in between.
DiffIsCompleteInTurn == disturbed \/ DiffIsComplete

Waits(w) == \E l \in Locks : w \in ToSet(queue[l]) /\ ~Holds(w, l)

\* Jobs never all wait for one another, nor for a lock that a job which has
\* failed did not give back: while there are jobs, one of them can go on
\* (file.ts:479-497).
SomeJobMoves ==
  (\E w \in Workers : ~At(w, "idle")) =>
    \E w \in Workers : ~At(w, "idle") /\ ~Waits(w)

=============================================================================
