--------------------------- MODULE MemoryStorage ---------------------------
(***************************************************************************)
(* The in-memory storage engine (src/server/storage/memory.ts) and the     *)
(* parts of src/server/storage/storage.ts that it shares with the others.  *)
(*                                                                         *)
(* Every record lives in a partition: a user's own for the tables whose    *)
(* records only their owner may read, the shared one for the rest and for  *)
(* all that the administrator and guests write.  A partition has its own   *)
(* changelog; sequence numbers are drawn from one global counter.          *)
(*                                                                         *)
(* JavaScript runs the loop of applyChanges over a batch without yielding. *)
(* The loop is modelled a change at a time so that its effects are stated  *)
(* change by change; `phase` keeps every other operation out meanwhile.    *)
(***************************************************************************)
EXTENDS LWW, Permissions, Sequences

CONSTANTS Ids,          \* record ids
          ClientIds,    \* ranks of client ids
          MaxTs,        \* BOUND on timestamps
          MaxSeq,       \* BOUND on sequence numbers
          MaxBatch,     \* BOUND on changes in a batch
          MaxHistory,   \* options.maxHistoryEntries
          Slack,        \* the 50 entries compaction waits for beyond that
          MaxRecords,   \* maxRecords, of the options or of the table
          KeepCounts,   \* arguments an administrator gives to prune
          Shared        \* the partition named "__shared__"

ASSUME BoundsAssumption ==
  /\ MaxTs > 0
  /\ {MaxTs, MaxSeq, MaxBatch, MaxHistory, Slack, MaxRecords} \subseteq Nat
  /\ ClientIds \subseteq Nat
  /\ KeepCounts \subseteq Nat
  /\ Shared \notin Users
  /\ IsFiniteSet(Users) /\ IsFiniteSet(Tables) /\ IsFiniteSet(Ids)

VARIABLES exists,       \* tables : the tables there are
          accounts,     \* users : the accounts there are
          records,      \* the records of every partition, by key
          changelog,    \* changelog[p] : the entries of a partition's log
          minSeq,       \* minSeq[p] : where that log starts, 0 when unused
          globalSeq,    \* the last sequence number drawn
          phase,        \* "staging" inside applyChanges, "idle" outside
          actor,        \* whose batch is being staged
          changes,      \* that batch
          todo,         \* the changes of the batch not yet looked at
          staged,       \* stagedUserTables and stagedSharedTables
          applied,      \* stagedApplied
          history       \* HISTORY VARIABLE: history[p], all that the log of
                        \* p ever held of the tables there are

staging == <<phase, actor, changes, todo, staged, applied>>
vars == <<exists, accounts, records, changelog, minSeq, globalSeq, staging, history>>

Partitions == Users \cup {Shared}
Keys == Partitions \X Tables \X Ids
Timestamps == 1..MaxTs

Absent == [op |-> "none", ts |-> 0, cid |-> 0, owner |-> NoOwner]
Stored == [op : {"none", "put", "delete"}, ts : Nat, cid : Nat, owner : Owners]
Change == [op : {"put", "delete"}, table : Tables, id : Ids,
           ts : Timestamps, cid : ClientIds]
\* The changelog is an array kept in the order of `seq`, which no two of its
\* entries share: the set of its entries says as much.
Entry == [op : {"put", "delete"}, table : Tables, id : Ids, ts : Nat,
          cid : Nat, owner : Owners, seq : Nat]

\* Which partition holds what `a` writes to, or reads from, table t.
PartitionOf(a, t) == IF IsPrivate(t) /\ a \in Users THEN a ELSE Shared

Init ==
  /\ exists = Tables
  /\ accounts = Users
  /\ records = [k \in Keys |-> Absent]
  /\ changelog = [p \in Partitions |-> {}]
  /\ minSeq = [p \in Partitions |-> 0]
  /\ globalSeq = 0
  /\ phase = "idle" /\ actor = Admin /\ changes = << >> /\ todo = << >>
  /\ staged = records /\ applied = {}
  /\ history = [p \in Partitions |-> {}]

-----------------------------------------------------------------------------
(* Variants of the definitions below, each with a mistake in it that the   *)
(* properties at the end must be able to tell.                             *)

StartUnmoved(kept, start) == start
NextSeqByPartition(p) == Cardinality(changelog[p]) + 1
NotPurged(logs, t) == logs
LeftStaged == staged
OwnerIsActor(c, existing) ==
  IF c.op = "delete" \/ existing.op = "put" THEN existing.owner ELSE actor

-----------------------------------------------------------------------------
(* Changelogs                                                              *)

\* The `keep` entries of log that came last.
Newest(log, keep) ==
  {e \in log : Cardinality({f \in log : f.seq > e.seq}) < keep}

\* changelog[0].seq
FirstSeq(log) == CHOOSE n \in {e.seq : e \in log} : \A e \in log : n <= e.seq

\* Where a log cut down to `kept` starts; emptying it moves nothing.
StartOf(kept, start) == IF kept = {} THEN start ELSE FirstSeq(kept)

\* A log without the entries of table t (the filter of deleteTable).
Purged(logs, t) == [p \in Partitions |-> {e \in logs[p] : e.table # t}]

\* What changelog.slice(-limit) keeps: slice(-0) is slice(0), the whole array.
Sliced(log, limit) == IF limit = 0 THEN log ELSE Newest(log, limit)

-----------------------------------------------------------------------------
(* applyChanges                                                            *)

\* Validation, which may yield, is over and staging starts.  A table that
\* validation saw may have been deleted since; every table of the batch did
\* exist at some time.
Begin(a, batch) ==
  /\ phase = "idle"
  /\ globalSeq + Len(batch) <= MaxSeq
  /\ phase' = "staging" /\ actor' = a /\ changes' = batch /\ todo' = batch
  /\ staged' = records /\ applied' = {}
  /\ UNCHANGED <<exists, accounts, records, changelog, minSeq, globalSeq, history>>

\* ++globalSeq
NextSeq(p) == globalSeq + 1

SizeOf(p, t) == Cardinality({i \in Ids : staged[<<p, t, i>>].op # "none"})

\* The checks that throw: a guest in a private table, a missing permission,
\* a table at its limit.  targetMap.size counts tombstones too.
Refused(c) ==
  LET p == PartitionOf(actor, c.table)
      existing == staged[<<p, c.table, c.id>>]
  IN  \/ IsPrivate(c.table) /\ actor = Anonymous
      \/ ~CanApplyChange(actor, c.table, c.op, existing)
      \/ /\ c.op = "put" /\ existing.op # "put"
         /\ SizeOf(p, c.table) >= MaxRecords

\* createAppliedRecords: who owns the record a change leaves.
OwnerAfter(c, existing) ==
  IF c.op = "delete" \/ existing.op = "put" THEN existing.owner
  ELSE IF actor \in Users THEN actor ELSE NoOwner

\* A change to a table deleted meanwhile, or one that loses to what is there.
Skip ==
  /\ phase = "staging" /\ todo # << >>
  /\ LET c == Head(todo)
         existing == staged[<<PartitionOf(actor, c.table), c.table, c.id>>]
     IN  \/ c.table \notin exists
         \/ ~Refused(c) /\ ~ShouldOverwrite(c, existing)
  /\ todo' = Tail(todo)
  /\ UNCHANGED <<exists, accounts, records, changelog, minSeq, globalSeq, phase, actor,
                 changes, staged, applied, history>>

\* A change that wins: it draws a sequence number and is staged.
Stage ==
  /\ phase = "staging" /\ todo # << >>
  /\ LET c == Head(todo)
         k == <<PartitionOf(actor, c.table), c.table, c.id>>
         owner == OwnerAfter(c, staged[k])
     IN  /\ c.table \in exists /\ ~Refused(c)
         /\ ShouldOverwrite(c, staged[k])
         /\ globalSeq' = globalSeq + 1
         /\ staged' = [staged EXCEPT ![k] =
                         [op |-> c.op, ts |-> c.ts, cid |-> c.cid, owner |-> owner]]
         /\ applied' = applied \cup
              {[op |-> c.op, table |-> c.table, id |-> c.id, ts |-> c.ts,
                cid |-> c.cid, owner |-> owner, seq |-> NextSeq(k[1])]}
  /\ todo' = Tail(todo)
  /\ UNCHANGED <<exists, accounts, records, changelog, minSeq, phase, actor, changes,
                 history>>

\* What a refused batch leaves in the store: what was there before it.
Discarded == records

\* A change is refused: the exception discards what was staged, but not the
\* sequence numbers that were drawn.
Reject ==
  /\ phase = "staging" /\ todo # << >>
  /\ Head(todo).table \in exists /\ Refused(Head(todo))
  /\ phase' = "idle" /\ changes' = << >> /\ todo' = << >> /\ applied' = {}
  /\ records' = Discarded
  /\ UNCHANGED <<exists, accounts, changelog, minSeq, globalSeq, actor, staged,
                 history>>

AppliedIn(p) == {e \in applied : PartitionOf(actor, e.table) = p}

\* partitionState and sharedState, whose logs the batch may grow.
Touched == {Shared} \cup ({actor} \cap Users)
Grown(p) == changelog[p] \cup AppliedIn(p)

\* A log that was never used starts with the first batch there is.
Opened(p) == IF p \in Touched /\ minSeq[p] = 0 /\ globalSeq > 0 THEN 1 ELSE minSeq[p]
Compacts(p) == p \in Touched /\ Cardinality(Grown(p)) > MaxHistory + Slack

\* The batch is committed, and the logs it has grown are compacted.
Commit ==
  /\ phase = "staging" /\ todo = << >>
  /\ changelog' = [p \in Partitions |->
                     IF Compacts(p) THEN Newest(Grown(p), MaxHistory) ELSE Grown(p)]
  /\ minSeq' = [p \in Partitions |->
                  IF Compacts(p) THEN StartOf(Newest(Grown(p), MaxHistory), Opened(p))
                  ELSE Opened(p)]
  /\ records' = staged
  /\ history' = [p \in Partitions |-> history[p] \cup AppliedIn(p)]
  /\ phase' = "idle" /\ changes' = << >> /\ applied' = {}
  /\ UNCHANGED <<exists, accounts, globalSeq, actor, todo, staged>>

-----------------------------------------------------------------------------
(* Administration                                                          *)

\* prune(keepCount)
Prune(limit) ==
  LET cut(p) == Cardinality(changelog[p]) > limit
      kept(p) == Sliced(changelog[p], limit)
  IN  /\ phase = "idle"
      /\ changelog' = [p \in Partitions |->
                         IF cut(p) THEN kept(p) ELSE changelog[p]]
      /\ minSeq' = [p \in Partitions |->
                      IF cut(p) THEN StartOf(kept(p), minSeq[p]) ELSE minSeq[p]]
      /\ UNCHANGED <<exists, accounts, records, globalSeq, staging, history>>

CreateTable(t) ==
  /\ phase = "idle" /\ t \notin exists
  /\ exists' = exists \cup {t}
  /\ UNCHANGED <<accounts, records, changelog, minSeq, globalSeq, staging, history>>

\* deleteTable drops the records and the log entries of the table.
DeleteTable(t) ==
  /\ phase = "idle" /\ t \in exists
  /\ exists' = exists \ {t}
  /\ records' = [k \in Keys |-> IF k[2] = t THEN Absent ELSE records[k]]
  /\ changelog' = Purged(changelog, t)
  /\ history' = Purged(history, t)
  /\ UNCHANGED <<accounts, minSeq, globalSeq, staging>>

\* The shared records that u made and that are still there.
MadeBy(u) ==
  {k \in Keys : k[1] = Shared /\ records[k].op = "put" /\ records[k].owner = u}

\* The orders in which deleteUser's loop may meet them.
Ranks(u) == {rank \in [MadeBy(u) -> 1..Cardinality(MadeBy(u))] :
               \A j, k \in MadeBy(u) : rank[j] = rank[k] => j = k}

\* What the loop adds to the shared log: a tombstone for each of them.
Tombs(u, now, rank) ==
  {[op |-> "delete", table |-> k[2], id |-> k[3], ts |-> now,
    cid |-> records[k].cid, owner |-> u, seq |-> globalSeq + rank[k]] : k \in MadeBy(u)}

\* The logs once the partition of u is dropped.
WithTombs(logs, u, tombs) ==
  [p \in Partitions |-> IF p = u THEN {}
                        ELSE IF p = Shared THEN logs[p] \cup tombs
                        ELSE logs[p]]

\* deleteUser; sessions of the user that are open go on and may write again.
\* The user's partition is dropped and each record the user shared becomes a
\* tombstone stamped by the server's clock.
DeleteUser(u, now) ==
  /\ phase = "idle" /\ u \in accounts
  /\ globalSeq + Cardinality(MadeBy(u)) <= MaxSeq
  /\ accounts' = accounts \ {u}
  /\ \E rank \in Ranks(u) :
       /\ changelog' = WithTombs(changelog, u, Tombs(u, now, rank))
       /\ history' = WithTombs(history, u, Tombs(u, now, rank))
  /\ records' = [k \in Keys |->
                   IF k[1] = u THEN Absent
                   ELSE IF k \in MadeBy(u)
                        THEN [records[k] EXCEPT !.op = "delete", !.ts = now]
                        ELSE records[k]]
  /\ minSeq' = [minSeq EXCEPT ![u] = 0]
  /\ globalSeq' = globalSeq + Cardinality(MadeBy(u))
  /\ UNCHANGED <<exists, staging>>

\* close() forgets everything, the tables included.
Close ==
  /\ phase = "idle"
  /\ exists' = {} /\ accounts' = {}
  /\ records' = [k \in Keys |-> Absent]
  /\ changelog' = [p \in Partitions |-> {}]
  /\ minSeq' = [p \in Partitions |-> 0]
  /\ globalSeq' = 0
  /\ history' = [p \in Partitions |-> {}]
  /\ UNCHANGED staging

-----------------------------------------------------------------------------
Batches == UNION {[1..n -> Change] : n \in 1..MaxBatch}

Next ==
  \/ \E a \in Actors, batch \in Batches : Begin(a, batch)
  \/ Skip \/ Stage \/ Reject \/ Commit
  \/ \E limit \in KeepCounts : Prune(limit)
  \/ \E t \in Tables : CreateTable(t) \/ DeleteTable(t)
  \/ \E u \in Users, now \in Timestamps : DeleteUser(u, now)
  \/ Close

Spec == Init /\ [][Next]_vars

-----------------------------------------------------------------------------
(* Reading the log: getRawChangesSince, isSnapshotRequired                 *)

RawChangesSince(a, from) ==
  UNION {{e \in changelog[p] : e.seq > from} : p \in {Shared} \cup ({a} \cap Users)}

MinSeqFor(a) ==
  IF a \in Users /\ minSeq[a] > minSeq[Shared] THEN minSeq[a] ELSE minSeq[Shared]

IsSnapshotRequired(a, from) ==
  \/ from < MinSeqFor(a) /\ MinSeqFor(a) > 0
  \/ from > globalSeq

-----------------------------------------------------------------------------
(* Properties                                                              *)

\* Every variable has its type.
TypeOK ==
  /\ exists \subseteq Tables /\ accounts \subseteq Users
  /\ records \in [Keys -> Stored] /\ staged \in [Keys -> Stored]
  /\ changelog \in [Partitions -> SUBSET Entry]
  /\ history \in [Partitions -> SUBSET Entry]
  /\ minSeq \in [Partitions -> Nat] /\ globalSeq \in Nat
  /\ phase \in {"idle", "staging"} /\ actor \in Actors
  /\ changes \in Seq(Change) /\ todo \in Seq(Change) /\ applied \subseteq Entry

\* Sequence numbers are unique across the shared and the private partitions,
\* whatever was refused, pruned or compacted in between (memory.ts:402).
SeqsAreUnique ==
  \A p, q \in Partitions : \A e \in history[p], f \in history[q] :
    e.seq = f.seq => p = q /\ e = f

\* The sequence numbers in use were all drawn from the counter; those of the
\* batch being staged are later than any in a log, and its own.
SeqsAreDrawn ==
  /\ \A p \in Partitions : \A e \in history[p] : e.seq \in 1..globalSeq
  /\ \A e \in applied : e.seq \in 1..globalSeq
  /\ \A e, f \in applied : e.seq = f.seq => e = f
  /\ \A e \in applied, p \in Partitions : \A f \in history[p] : f.seq < e.seq
  /\ phase = "idle" => applied = {}

\* The log of a partition holds what the partition's history has from minSeq
\* on: nothing older, and nothing newer is missing.
LogFromMinSeq ==
  /\ IsFiniteSet(applied)
  /\ \A p \in Partitions :
       /\ changelog[p] \subseteq history[p] /\ IsFiniteSet(changelog[p])
       /\ minSeq[p] <= globalSeq
       /\ \A e \in changelog[p] \cup applied : minSeq[p] <= e.seq
       /\ \A e \in history[p] : e \in changelog[p] \/ e.seq < minSeq[p]

\* The strengthening of SeqsAreUnique and DiffIsComplete that every step
\* keeps: where a log starts, which numbers it can hold and which are still
\* to come decide whether cutting it loses a change that a diff owes
\* (memory.ts:420-467, 496-524).
Inductive == TypeOK /\ SeqsAreDrawn /\ SeqsAreUnique /\ LogFromMinSeq

\* getChangesSince is complete: to whoever is not told to take a snapshot it
\* returns every change made since, in each partition it answers for, however
\* the logs were compacted and pruned (memory.ts:296-323, storage.ts:457-463).
DiffIsComplete ==
  \A a \in Actors, from \in 0..MaxSeq :
    ~IsSnapshotRequired(a, from) =>
      \A p \in {Shared} \cup ({a} \cap Users) :
        {e \in history[p] : e.seq > from} \subseteq RawChangesSince(a, from)

\* Snapshots and diffs agree: each stored record is what the last log entry
\* for its id says, and an id without entries has no record.
RecordsReplayHistory ==
  \A k \in Keys :
    LET told == {e \in history[k[1]] : e.table = k[2] /\ e.id = k[3]}
    IN  IF told = {} THEN records[k] = Absent
        ELSE \E e \in told :
               /\ \A f \in told : f.seq <= e.seq
               /\ records[k] = [op |-> e.op, ts |-> e.ts, cid |-> e.cid,
                                owner |-> e.owner]

\* The engine implements the store of last-write-wins registers: a batch shows
\* all at once when it commits, each register moving to the last change that
\* wins it, and a refused batch shows not at all (memory.ts:325-476).
StoreChanges == [key : Keys, op : {"put", "delete"}, ts : Timestamps, cid : ClientIds]
ToStore(c) == [key |-> <<PartitionOf(actor, c.table), c.table, c.id>>,
               op |-> c.op, ts |-> c.ts, cid |-> c.cid]

\* Where in the batch the changes are whose table has not been deleted.
Known == {i \in DOMAIN changes : changes[i].table \in exists}

Store == INSTANCE LWWStore WITH
  Keys <- Keys,
  Batches <- UNION {[places -> StoreChanges] : places \in SUBSET (1..MaxBatch)},
  reg <- [k \in Keys |-> RecordOf(records[k])],
  seq <- globalSeq - Cardinality(applied),
  batch <- [i \in Known |-> ToStore(changes[i])]
ImplementsStore == Store!Spec

=============================================================================
