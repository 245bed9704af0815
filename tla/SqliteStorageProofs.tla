------------------------ MODULE SqliteStorageProofs ------------------------
(***************************************************************************)
(* Theorems about SqliteStorage for any number of jobs, tables, records,   *)
(* batches, restarts and commands beside the server: numbers are fresh,    *)
(* diffs complete, snapshots what the log comes to, limits kept, and what  *)
(* a deleted table or user leaves.                                         *)
(***************************************************************************)
EXTENDS SqliteStorage, FiniteSetTheorems, FunctionTheorems, WellFoundedInduction,
        TLAPS

-----------------------------------------------------------------------------
(* The loop over a batch                                                   *)

\* A non-empty set of natural numbers has a least member.
LEMMA HasLeast ==
  ASSUME NEW S \in SUBSET Nat, S # {}
  PROVE  \E n \in S : \A m \in S : n <= m
<1> DEFINE R == {ss \in Nat \X Nat : ss[1] < ss[2]}
<1>1. IsWellFoundedOn(R, Nat)
  BY NatLessThanWellFounded, Zenon DEF OpToRel
<1>2. PICK n \in S : \A m \in S : ~(<<m, n>> \in R)
  <2> HIDE DEF R
  <2> QED
    BY <1>1, WFMin, Zenon
<1>3. \A m \in S : ~(m < n)
  BY <1>2
<1> QED
  BY <1>3

LoopStates ==
  [records : [Keys -> Stored], log : SUBSET Row, autoincrement : Nat, ok : BOOLEAN]

LoopStart ==
  [records |-> db.records, log |-> db.log, autoincrement |-> db.autoincrement, ok |-> TRUE]

\* The states the loop goes through up to its turn n.
IsRun(p, a, batch, n, g) ==
  /\ g = [i \in 0..n |-> g[i]]
  /\ g[0] = LoopStart
  /\ \A i \in 1..n : g[i] = Turn(p, a, g[i - 1], batch[i])

\* There is a run of every length.
LEMMA RunExists ==
  ASSUME NEW p, NEW a, NEW batch, NEW n \in Nat
  PROVE  \E g : IsRun(p, a, batch, n, g)
<1> DEFINE T == {m \in Nat : ~\E g : IsRun(p, a, batch, m, g)}
<1> SUFFICES ASSUME T # {} PROVE FALSE
  OBVIOUS
<1>1. PICK m \in T : \A i \in T : m <= i
  <2>1. T \in SUBSET Nat
    OBVIOUS
  <2> HIDE DEF T
  <2> QED
    BY <2>1, HasLeast
<1>2. m \in Nat /\ ~\E g : IsRun(p, a, batch, m, g)
  BY <1>1
<1>3. m # 0
  <2> DEFINE g == [i \in 0..0 |-> LoopStart]
  <2>1. g = [i \in 0..0 |-> g[i]] /\ g[0] = LoopStart
    OBVIOUS
  <2>2. IsRun(p, a, batch, 0, g)
    BY <2>1 DEF IsRun
  <2> QED
    BY <2>2, <1>2
<1>4. m - 1 \in Nat /\ m - 1 \notin T
  BY <1>1, <1>2, <1>3
<1>5. PICK h : IsRun(p, a, batch, m - 1, h)
  BY <1>4
<1> DEFINE g == [i \in 0..m |-> IF i = m THEN Turn(p, a, h[m - 1], batch[m]) ELSE h[i]]
<1>6. g = [i \in 0..m |-> g[i]]
  OBVIOUS
<1>7. g[0] = LoopStart
  BY <1>2, <1>3, <1>5 DEF IsRun
<1>8. ASSUME NEW i \in 1..m PROVE g[i] = Turn(p, a, g[i - 1], batch[i])
  <2>1. i - 1 \in 0..m /\ i - 1 # m /\ i \in 0..m
    BY <1>2
  <2>2. g[i - 1] = h[i - 1]
    BY <2>1
  <2>3. CASE i = m
    BY <2>1, <2>2, <2>3
  <2>4. CASE i # m
    <3>1. i \in 1..(m - 1)
      BY <2>4, <1>2
    <3>2. g[i] = h[i]
      BY <2>1, <2>4
    <3> QED
      BY <3>1, <3>2, <2>2, <1>5 DEF IsRun
  <2> QED
    BY <2>3, <2>4
<1>9. IsRun(p, a, batch, m, g)
  <2> HIDE DEF g
  <2> QED
    BY <1>6, <1>7, <1>8 DEF IsRun
<1> QED
  BY <1>9, <1>2

\* What holds at first and from turn to turn holds in the end.
LEMMA LoopRule ==
  ASSUME NEW p, NEW a, NEW batch, Len(batch) \in Nat, NEW S,
         LoopStart \in S,
         \A s \in S : \A i \in 1..Len(batch) : Turn(p, a, s, batch[i]) \in S
  PROVE  AfterLoop(p, a, batch) \in S
<1> DEFINE after[i \in 0..Len(batch)] ==
             IF i = 0 THEN LoopStart ELSE Turn(p, a, after[i - 1], batch[i])
<1>1. PICK g : IsRun(p, a, batch, Len(batch), g)
  BY RunExists
<1>2. g = [i \in 0..Len(batch) |->
             IF i = 0 THEN LoopStart ELSE Turn(p, a, g[i - 1], batch[i])]
  <2>1. ASSUME NEW i \in 0..Len(batch)
        PROVE  g[i] = IF i = 0 THEN LoopStart ELSE Turn(p, a, g[i - 1], batch[i])
    <3>1. CASE i = 0
      BY <1>1, <3>1 DEF IsRun
    <3>2. CASE i # 0
      <4>1. i \in 1..Len(batch)
        BY <3>2
      <4> QED
        BY <4>1, <3>2, <1>1 DEF IsRun
    <3> QED
      BY <3>1, <3>2
  <2> QED
    BY <2>1, <1>1 DEF IsRun
<1>3. after = [i \in 0..Len(batch) |->
                 IF i = 0 THEN LoopStart ELSE Turn(p, a, after[i - 1], batch[i])]
  BY <1>2
<1> HIDE DEF after
<1> DEFINE T == {n \in 0..Len(batch) : after[n] \notin S}
<1>4. T = {}
  <2> SUFFICES ASSUME T # {} PROVE FALSE
    OBVIOUS
  <2>1. PICK m \in T : \A i \in T : m <= i
    <3>1. T \in SUBSET Nat
      OBVIOUS
    <3> HIDE DEF T
    <3> QED
      BY <3>1, HasLeast
  <2>2. m \in 0..Len(batch) /\ after[m] \notin S
    BY <2>1
  <2>3. m # 0
    BY <2>2, <1>3
  <2>4. m - 1 \in 0..Len(batch) /\ m - 1 \notin T /\ m \in 1..Len(batch)
    BY <2>1, <2>2, <2>3
  <2>5. after[m - 1] \in S
    BY <2>4
  <2>6. after[m] = Turn(p, a, after[m - 1], batch[m])
    BY <2>2, <2>3, <1>3
  <2> QED
    BY <2>2, <2>4, <2>5, <2>6
<1>5. after[Len(batch)] \in S
  BY <1>4
<1>6. AfterLoop(p, a, batch) = after[Len(batch)]
  BY DEF AfterLoop, after, LoopStart
<1> QED
  BY <1>5, <1>6

-----------------------------------------------------------------------------
(* Types                                                                   *)

Dbs == [tables : SUBSET Tables, records : [Keys -> Stored], log : SUBSET Row,
        autoincrement : Nat, cur : Nat, min : Nat]

\* No counter is ahead of the numbers given out.
CountersBehind ==
  /\ db.cur <= db.autoincrement
  /\ \A w \in Workers : job[w].op = "prune" => job[w].cur <= db.autoincrement
  /\ \A u \in Users : goneAt[u] <= db.autoincrement

Types ==
  /\ users \subseteq Users /\ open \subseteq Processes
  /\ cache \in [Processes -> SUBSET Tables]
  /\ job \in [Workers -> JobStates]
  /\ restarts \in 0..MaxRestarts /\ started \in 0..MaxJobs
  /\ db \in Dbs
  /\ history \subseteq Row /\ given \subseteq Nat
  /\ goneAt \in [Users -> Nat]
  /\ disturbed \subseteq {"prune", "table", "user"}

\* The constants are what they are taken for.
LEMMA Numbers ==
  /\ MaxTs \in Nat /\ MaxSeq \in Nat /\ MaxRestarts \in Nat /\ MaxJobs \in Nat
  /\ MaxHistory \in Nat /\ Slack \in Nat /\ MaxRecords \in Nat /\ KeepCounts \subseteq Nat
  /\ Timestamps \subseteq Nat
BY SqliteAssumption DEF Timestamps

\* A key is made of a partition, a table and an id.
LEMMA KeyIsTriple ==
  /\ \A q \in Partitions, t \in Tables, i \in Ids :
       /\ <<q, t, i>> \in Keys
       /\ <<q, t, i>>[1] = q /\ <<q, t, i>>[2] = t /\ <<q, t, i>>[3] = i
  /\ \A k \in Keys : /\ k[1] \in Partitions /\ k[2] \in Tables /\ k[3] \in Ids
                     /\ k = <<k[1], k[2], k[3]>>
BY DEF Keys

\* A batch is a sequence of changes.
LEMMA BatchIsSeq ==
  ASSUME NEW batch \in Batches
  PROVE  /\ batch \in Seq(Change) /\ Len(batch) \in Nat
         /\ \A i \in 1..Len(batch) : batch[i] \in Change
BY BatchesAssumption

\* Where a change goes to, and who owns what it leaves.
LEMMA PartitionOfType ==
  \A a \in Actors, t \in Tables : PartitionOf(a, t) \in Partitions
BY DEF PartitionOf, Partitions

LEMMA OwnerAfterType ==
  ASSUME NEW a \in Actors, NEW c \in Change, NEW r \in Stored
  PROVE  OwnerAfter(a, c, r) \in Owners
BY DEF OwnerAfter, Owners, Stored

\* What a change writes is a record and a row.
WrittenRecord(s, a, c) ==
  [op |-> c.op, ts |-> c.ts, cid |-> c.cid,
   owner |-> OwnerAfter(a, c, s.records[<<PartitionOf(a, c.table), c.table, c.id>>])]
WrittenRow(s, a, c) ==
  [op |-> c.op, table |-> c.table, partition |-> PartitionOf(a, c.table), id |-> c.id,
   ts |-> c.ts, cid |-> c.cid,
   owner |-> OwnerAfter(a, c, s.records[<<PartitionOf(a, c.table), c.table, c.id>>]),
   seq |-> s.autoincrement + 1]

\* A turn that applies a change: its effect field by field.
LEMMA WrittenIs ==
  ASSUME NEW s \in LoopStates, NEW a \in Actors, NEW c \in Change
  PROVE  /\ WrittenRecord(s, a, c) \in Stored
         /\ WrittenRow(s, a, c) \in Row
         /\ <<PartitionOf(a, c.table), c.table, c.id>> \in Keys
         /\ Written(s, a, c) \in LoopStates
         /\ Written(s, a, c).log = s.log \cup {WrittenRow(s, a, c)}
         /\ Written(s, a, c).autoincrement = s.autoincrement + 1
         /\ Written(s, a, c).ok = s.ok
         /\ Written(s, a, c).records =
              [s.records EXCEPT ![<<PartitionOf(a, c.table), c.table, c.id>>] =
                                  WrittenRecord(s, a, c)]
<1> DEFINE k == <<PartitionOf(a, c.table), c.table, c.id>>
           owner == OwnerAfter(a, c, s.records[k])
<1>1. /\ c.op \in {"put", "delete"} /\ c.table \in Tables /\ c.id \in Ids
      /\ c.ts \in Nat /\ c.cid \in Nat
  <2>1. /\ c.op \in {"put", "delete"} /\ c.table \in Tables /\ c.id \in Ids
        /\ c.ts \in Timestamps /\ c.cid = 1
    BY DEF Change
  <2>2. c.ts \in Nat
    BY <2>1, Numbers
  <2> QED
    BY <2>1, <2>2
<1>2. k \in Keys /\ PartitionOf(a, c.table) \in Partitions
  BY <1>1, PartitionOfType, KeyIsTriple
<1>3. s.records \in [Keys -> Stored] /\ s.autoincrement \in Nat /\ s.log \subseteq Row
      /\ s.ok \in BOOLEAN
  BY DEF LoopStates
<1>4. owner \in Owners
  BY <1>2, <1>3, OwnerAfterType
<1>5. WrittenRecord(s, a, c) \in Stored
  BY <1>1, <1>4 DEF WrittenRecord, Stored
<1>6. WrittenRow(s, a, c) \in Row
  BY <1>1, <1>2, <1>3, <1>4 DEF WrittenRow, Row
<1>7. Written(s, a, c) =
        [records |-> [s.records EXCEPT ![k] = WrittenRecord(s, a, c)],
         log |-> s.log \cup {WrittenRow(s, a, c)},
         autoincrement |-> s.autoincrement + 1,
         ok |-> s.ok]
  <2>1. s = [records |-> s.records, log |-> s.log, autoincrement |-> s.autoincrement,
             ok |-> s.ok]
    BY DEF LoopStates
  <2>2. k[1] = PartitionOf(a, c.table)
    OBVIOUS
  <2>3. Written(s, a, c) =
          [s EXCEPT !.records[k] = WrittenRecord(s, a, c),
                    !.log = @ \cup {WrittenRow(s, a, c)},
                    !.autoincrement = s.autoincrement + 1]
    BY <2>2 DEF Written, WrittenRecord, WrittenRow, NextRow
  <2> HIDE DEF k
  <2> QED
    BY <2>1, <2>3
<1>8. [s.records EXCEPT ![k] = WrittenRecord(s, a, c)] \in [Keys -> Stored]
  BY <1>3, <1>5
<1>9. Written(s, a, c) \in LoopStates
  BY <1>3, <1>6, <1>7, <1>8 DEF LoopStates
<1>10. /\ Written(s, a, c).log = s.log \cup {WrittenRow(s, a, c)}
       /\ Written(s, a, c).autoincrement = s.autoincrement + 1
       /\ Written(s, a, c).ok = s.ok
       /\ Written(s, a, c).records = [s.records EXCEPT ![k] = WrittenRecord(s, a, c)]
  <2> HIDE DEF k
  <2> QED
    BY <1>7
<1> QED
  BY <1>2, <1>5, <1>6, <1>9, <1>10

LEMMA TurnIs ==
  ASSUME NEW p, NEW s \in LoopStates, NEW a \in Actors, NEW c \in Change
  PROVE  \/ Turn(p, a, s, c) = s
         \/ Turn(p, a, s, c) = [s EXCEPT !.ok = FALSE]
         \/ /\ Turn(p, a, s, c) = Written(s, a, c)
            /\ Known(p, c.table)
            /\ ~Refused(s, a, c)
BY DEF Turn

\* A loop only adds rows and only counts up.
Grown(s) ==
  /\ s \in LoopStates
  /\ db.log \subseteq s.log
  /\ db.autoincrement <= s.autoincrement

LEMMA TurnGrows ==
  ASSUME db \in Dbs, NEW p, NEW s, Grown(s), NEW a \in Actors, NEW c \in Change
  PROVE  Grown(Turn(p, a, s, c))
<1>1. s \in LoopStates /\ s.autoincrement \in Nat /\ db.autoincrement \in Nat
  BY DEF Grown, LoopStates, Dbs
<1>2. CASE Turn(p, a, s, c) = s
  BY <1>2
<1>3. CASE Turn(p, a, s, c) = [s EXCEPT !.ok = FALSE]
  BY <1>1, <1>3 DEF LoopStates, Grown
<1>4. CASE Turn(p, a, s, c) = Written(s, a, c)
  <2>1. /\ Written(s, a, c) \in LoopStates
        /\ Written(s, a, c).log = s.log \cup {WrittenRow(s, a, c)}
        /\ Written(s, a, c).autoincrement = s.autoincrement + 1
    BY <1>1, WrittenIs
  <2> QED
    BY <2>1, <1>1, <1>4 DEF Grown
<1> QED
  BY <1>1, <1>2, <1>3, <1>4, TurnIs

LEMMA LoopGrows ==
  ASSUME db \in Dbs, NEW p, NEW a \in Actors, NEW batch \in Batches
  PROVE  Grown(AfterLoop(p, a, batch))
<1> DEFINE S == {s \in LoopStates : Grown(s)}
<1>1. LoopStart \in S
  <2>1. /\ db.records \in [Keys -> Stored] /\ db.log \in SUBSET Row
        /\ db.autoincrement \in Nat
    BY DEF Dbs
  <2>2. LoopStart \in LoopStates
    BY <2>1 DEF LoopStart, LoopStates
  <2>3. LoopStart.log = db.log /\ LoopStart.autoincrement = db.autoincrement
    BY DEF LoopStart
  <2> QED
    BY <2>1, <2>2, <2>3 DEF Grown
<1>2. ASSUME NEW s \in S, NEW i \in 1..Len(batch)
      PROVE  Turn(p, a, s, batch[i]) \in S
  <2>1. batch[i] \in Change /\ Grown(s)
    BY BatchIsSeq
  <2>2. Grown(Turn(p, a, s, batch[i]))
    BY <2>1, TurnGrows
  <2> QED
    BY <2>2 DEF Grown
<1>3. AfterLoop(p, a, batch) \in S
  <2> HIDE DEF S
  <2> QED
    BY <1>1, <1>2, BatchIsSeq, LoopRule
<1> QED
  BY <1>3

\* A database with all but its tables exchanged.
Exchanged(d, r, l, n, c, m) ==
  [d EXCEPT !.records = r, !.log = l, !.autoincrement = n, !.cur = c, !.min = m]

LEMMA ExchangedIs ==
  ASSUME NEW d \in Dbs, NEW r \in [Keys -> Stored], NEW l \in SUBSET Row, NEW n \in Nat,
         NEW c \in Nat, NEW m \in Nat
  PROVE  /\ Exchanged(d, r, l, n, c, m) \in Dbs
         /\ Exchanged(d, r, l, n, c, m).tables = d.tables
         /\ Exchanged(d, r, l, n, c, m).records = r
         /\ Exchanged(d, r, l, n, c, m).log = l
         /\ Exchanged(d, r, l, n, c, m).autoincrement = n
         /\ Exchanged(d, r, l, n, c, m).cur = c
         /\ Exchanged(d, r, l, n, c, m).min = m
BY DEF Dbs, Exchanged

\* The database after a batch: compaction only drops rows from before the
\* number that it moves the start of the log to.
LEMMA FinishedIs ==
  ASSUME db \in Dbs, NEW s \in LoopStates, db.autoincrement <= s.autoincrement,
         db.cur <= db.autoincrement
  PROVE  /\ Finished(s) \in Dbs
         /\ Finished(s).tables = db.tables
         /\ Finished(s).records = s.records
         /\ Finished(s).autoincrement = s.autoincrement
         /\ Finished(s).log \subseteq s.log
         /\ \A e \in s.log \ Finished(s).log : e.seq < Finished(s).min
         /\ Finished(s).min >= db.min
         /\ Finished(s).cur <= s.autoincrement
<1> DEFINE grown == s.autoincrement > db.autoincrement
           cur == IF grown THEN s.autoincrement ELSE db.cur
           min == IF grown THEN AtLeastOne(db.min) ELSE db.min
           d == Exchanged(db, s.records, s.log, s.autoincrement, cur, min)
           target == AtLeastOne(cur - MaxHistory + 1)
<1>1. /\ db.tables \subseteq Tables /\ db.autoincrement \in Nat /\ db.cur \in Nat
      /\ db.min \in Nat /\ s.records \in [Keys -> Stored] /\ s.log \subseteq Row
      /\ s.autoincrement \in Nat
  BY DEF Dbs, LoopStates
<1>2. cur \in Nat /\ min \in Nat /\ min >= db.min /\ cur <= s.autoincrement
  BY <1>1 DEF AtLeastOne
<1>3. target \in Nat
  BY <1>2, Numbers DEF AtLeastOne
<1>4. Finished(s) = Compact(d)
  BY DEF Finished, Exchanged
<1>5. /\ d \in Dbs
      /\ d.tables = db.tables /\ d.records = s.records /\ d.log = s.log
      /\ d.autoincrement = s.autoincrement /\ d.cur = cur /\ d.min = min
  <2> HIDE DEF cur, min
  <2> QED
    BY <1>1, <1>2, ExchangedIs
<1> HIDE DEF d
<1>6. CASE Compact(d) = d
  <2> HIDE DEF cur, min
  <2> QED
    BY <1>1, <1>2, <1>4, <1>5, <1>6
<1>7. CASE d.cur > 0 /\ target > d.min + Slack
  <2>1. target > min
    BY <1>2, <1>3, <1>5, <1>7, Numbers
  <2>2. Compact(d) = Compacted(d, target)
    BY <1>5, <1>7 DEF Compact
  <2> HIDE DEF target, cur, min
  <2> DEFINE kept == {e \in d.log : e.seq >= target}
             x == Compacted(d, target)
  <2>3. /\ x \in Dbs
        /\ x.tables = d.tables /\ x.records = d.records /\ x.log = kept
        /\ x.autoincrement = d.autoincrement
        /\ x.cur = d.cur /\ x.min = target
    BY <1>3, <1>5 DEF Compacted, Dbs
  <2>4. \A e \in s.log : e.seq \in Nat
    BY <1>1 DEF Row
  <2>5. \A e \in s.log \ kept : e.seq < target
    BY <2>4, <1>3, <1>5
  <2> HIDE DEF x, kept
  <2>6. kept \subseteq s.log
    BY <1>5 DEF kept
  <2> QED
    BY <2>1, <2>2, <2>3, <2>5, <2>6, <1>1, <1>2, <1>3, <1>4, <1>5 DEF x
<1> QED
  BY <1>6, <1>7, <1>5 DEF Compact

\* There are finitely many keys.
LEMMA KeysFinite == IsFiniteSet(Keys)
<1>1. IsFiniteSet(Partitions)
  BY SqliteAssumption, FS_AddElement DEF Partitions
<1>2. IsFiniteSet(Tables \X Ids)
  BY SqliteAssumption, FS_Product
<1>3. IsFiniteSet(Partitions \X (Tables \X Ids))
  BY <1>1, <1>2, FS_Product
<1> DEFINE flat == [q \in Partitions \X (Tables \X Ids) |-> <<q[1], q[2][1], q[2][2]>>]
<1>4. flat \in [Partitions \X (Tables \X Ids) -> Keys]
  BY DEF Keys
<1>5. \A k \in Keys : \E q \in Partitions \X (Tables \X Ids) : flat[q] = k
  <2> SUFFICES ASSUME NEW k \in Keys
               PROVE  \E q \in Partitions \X (Tables \X Ids) : flat[q] = k
    OBVIOUS
  <2>1. PICK p \in Partitions, t \in Tables, i \in Ids : k = <<p, t, i>>
    BY DEF Keys
  <2>2. <<p, <<t, i>>>> \in Partitions \X (Tables \X Ids)
    OBVIOUS
  <2>3. flat[<<p, <<t, i>>>>] = k
    BY <2>1, <2>2
  <2> QED
    BY <2>2, <2>3
<1>6. flat \in Surjection(Partitions \X (Tables \X Ids), Keys)
  BY <1>4, <1>5 DEF Surjection
<1> QED
  BY <1>3, <1>6, FS_Surjection DEF ExistsSurjection

\* The rows of a query come each once, in some order.
LEMMA OrderIs ==
  ASSUME NEW S, IsFiniteSet(S)
  PROVE  /\ InSomeOrder(S) \in [1..Len(InSomeOrder(S)) -> S]
         /\ Len(InSomeOrder(S)) \in Nat
         /\ DOMAIN InSomeOrder(S) = 1..Len(InSomeOrder(S))
         /\ \A i, j \in DOMAIN InSomeOrder(S) :
              InSomeOrder(S)[i] = InSomeOrder(S)[j] => i = j
         /\ \A x \in S : \E i \in DOMAIN InSomeOrder(S) : InSomeOrder(S)[i] = x
<1> DEFINE n == Cardinality(S)
           order == InSomeOrder(S)
<1>1. n \in Nat /\ Bijection(1..n, S) # {}
  BY FS_CardinalityType DEF ExistsBijection
<1>2. order \in Bijection(1..n, S)
  BY <1>1 DEF InSomeOrder
<1> HIDE DEF order, n
<1>3. order \in [1..n -> S]
  BY <1>2 DEF Bijection, Injection
<1>4. Len(order) = n
  BY <1>1, <1>3
<1>5. \A i, j \in 1..n : order[i] = order[j] => i = j
  BY <1>2 DEF Bijection, Injection, IsInjective
<1>6. \A x \in S : \E i \in 1..n : order[i] = x
  BY <1>2 DEF Bijection, Surjection
<1> QED
  BY <1>1, <1>3, <1>4, <1>5, <1>6 DEF order

\* The rows that deleteUser logs.
Tombs(u, now) ==
  {Tomb(u, now, InSomeOrder(MadeBy(u))[i], db.autoincrement + i) :
     i \in DOMAIN InSomeOrder(MadeBy(u))}
TombsEnd(u) == db.autoincrement + Len(InSomeOrder(MadeBy(u)))

LEMMA TombsAre ==
  ASSUME db \in Dbs, NEW u \in Users, NEW now \in Timestamps
  PROVE  /\ Tombs(u, now) \subseteq Row
         /\ TombsEnd(u) \in Nat /\ TombsEnd(u) >= db.autoincrement
         /\ \A e \in Tombs(u, now) :
              /\ e.seq > db.autoincrement /\ e.seq <= TombsEnd(u)
              /\ e.partition = Shared /\ e.owner = u /\ e.op = "delete"
              /\ e.ts = now
              /\ <<e.partition, e.table, e.id>> \in MadeBy(u)
              /\ e.cid = db.records[<<e.partition, e.table, e.id>>].cid
         /\ \A e, f \in Tombs(u, now) :
              /\ e.seq = f.seq => e = f
              /\ <<e.partition, e.table, e.id>> = <<f.partition, f.table, f.id>> => e = f
         /\ \A k \in MadeBy(u) : \E e \in Tombs(u, now) :
              <<e.partition, e.table, e.id>> = k
<1> DEFINE made == MadeBy(u)
           order == InSomeOrder(made)
           n == Len(order)
           tomb(i) == Tomb(u, now, order[i], db.autoincrement + i)
<1>1. IsFiniteSet(made) /\ made \subseteq Keys
  BY KeysFinite, FS_Subset DEF MadeBy
<1>2. /\ order \in [1..n -> made] /\ n \in Nat /\ DOMAIN order = 1..n
      /\ \A i, j \in 1..n : order[i] = order[j] => i = j
      /\ \A k \in made : \E i \in 1..n : order[i] = k
  <2> HIDE DEF made
  <2> QED
    BY <1>1, OrderIs
<1>3. db.autoincrement \in Nat /\ db.records \in [Keys -> Stored]
  BY DEF Dbs
<1>4. now \in Nat
  BY Numbers
<1>5. \A k \in made : /\ k \in Keys /\ k[1] = Shared
                      /\ k[2] \in Tables /\ k[3] \in Ids
                      /\ k = <<Shared, k[2], k[3]>>
  BY KeyIsTriple DEF MadeBy
<1> HIDE DEF order, made, n
<1>6. ASSUME NEW i \in 1..n
      PROVE  /\ tomb(i) \in Row
             /\ tomb(i).seq = db.autoincrement + i
             /\ tomb(i).partition = Shared /\ tomb(i).owner = u /\ tomb(i).op = "delete"
             /\ tomb(i).ts = now
             /\ <<tomb(i).partition, tomb(i).table, tomb(i).id>> = order[i]
             /\ order[i] \in made
             /\ tomb(i).cid = db.records[order[i]].cid
  <2> DEFINE k == order[i]
  <2>1. k \in made
    BY <1>2
  <2>2. db.records[k].cid \in Nat
    BY <2>1, <1>5, <1>3 DEF Stored
  <2>3. Shared \in Partitions /\ u \in Owners
    BY DEF Partitions, Owners
  <2> HIDE DEF k
  <2>4. db.autoincrement + i \in Nat
    BY <1>3
  <2>5. Tomb(u, now, k, db.autoincrement + i) \in Row
    BY <2>1, <2>2, <2>3, <2>4, <1>4, <1>5 DEF Tomb, Row
  <2> QED
    BY <2>1, <2>5, <1>5 DEF Tomb, k
<1>7. Tombs(u, now) = {tomb(i) : i \in 1..n}
  BY <1>2 DEF Tombs, order, made, n
<1>8. TombsEnd(u) = db.autoincrement + n
  BY DEF TombsEnd, order, made, n
<1> HIDE DEF tomb
<1>9. ASSUME NEW e \in Tombs(u, now)
      PROVE  /\ e \in Row
             /\ e.seq > db.autoincrement /\ e.seq <= db.autoincrement + n
             /\ e.partition = Shared /\ e.owner = u /\ e.op = "delete"
             /\ e.ts = now
             /\ <<e.partition, e.table, e.id>> \in made
             /\ e.cid = db.records[<<e.partition, e.table, e.id>>].cid
  <2>1. PICK i \in 1..n : e = tomb(i)
    BY <1>7
  <2>2. i \in Nat /\ i > 0 /\ i <= n
    BY <1>2
  <2>3. e.seq > db.autoincrement /\ e.seq <= db.autoincrement + n
    BY <2>1, <2>2, <1>2, <1>3, <1>6
  <2>4. <<e.partition, e.table, e.id>> = order[i]
    BY <2>1, <1>6
  <2>5. <<e.partition, e.table, e.id>> \in made
    BY <2>4, <1>6
  <2>6. e.cid = db.records[<<e.partition, e.table, e.id>>].cid
    BY <2>4, <2>1, <1>6
  <2>7. /\ e \in Row /\ e.partition = Shared /\ e.owner = u /\ e.op = "delete"
        /\ e.ts = now
    BY <2>1, <1>6
  <2> QED
    BY <2>3, <2>5, <2>6, <2>7
<1>10. ASSUME NEW i \in 1..n, NEW j \in 1..n
       PROVE  /\ tomb(i).seq = tomb(j).seq => i = j
              /\ <<tomb(i).partition, tomb(i).table, tomb(i).id>> =
                 <<tomb(j).partition, tomb(j).table, tomb(j).id>> => i = j
  <2>1. tomb(i).seq = db.autoincrement + i /\ tomb(j).seq = db.autoincrement + j
    BY <1>6
  <2>2. /\ <<tomb(i).partition, tomb(i).table, tomb(i).id>> = order[i]
        /\ <<tomb(j).partition, tomb(j).table, tomb(j).id>> = order[j]
    BY <1>6
  <2> QED
    BY <2>1, <2>2, <1>2, <1>3
<1>11. \A e, f \in Tombs(u, now) :
         /\ e.seq = f.seq => e = f
         /\ <<e.partition, e.table, e.id>> = <<f.partition, f.table, f.id>> => e = f
  BY <1>7, <1>10
<1>12. ASSUME NEW k \in made
       PROVE  \E e \in Tombs(u, now) : <<e.partition, e.table, e.id>> = k
  <2>1. PICK i \in 1..n : order[i] = k
    BY <1>2
  <2>2. tomb(i) \in Tombs(u, now)
    BY <1>7
  <2> QED
    BY <2>1, <2>2, <1>6
<1>13. Tombs(u, now) \subseteq Row
  BY <1>9
<1>14. TombsEnd(u) \in Nat /\ TombsEnd(u) >= db.autoincrement
  BY <1>2, <1>3, <1>8
<1> QED
  BY <1>8, <1>9, <1>11, <1>12, <1>13, <1>14 DEF made

\* The records when u is buried.
Without(u, now) ==
  [k \in Keys |->
     IF k[1] = u THEN Absent
     ELSE IF k \in MadeBy(u) THEN [db.records[k] EXCEPT !.op = "delete", !.ts = now]
     ELSE db.records[k]]

Buried(u, now) ==
  /\ db' \in Dbs
  /\ db'.tables = db.tables
  /\ db'.records = Without(u, now)
  /\ db'.log = {e \in db.log \cup Tombs(u, now) : e.partition # u}
  /\ db'.autoincrement = TombsEnd(u)
  /\ db'.cur <= TombsEnd(u)
  /\ db'.min >= db.min
  /\ history' = {e \in history \cup Tombs(u, now) : e.partition # u}
  /\ given' = given \cup {e.seq : e \in Tombs(u, now)}

LEMMA AbsentIsStored == Absent \in Stored
BY DEF Absent, Stored, Owners

LEMMA WithoutType ==
  ASSUME db \in Dbs, NEW u \in Users, NEW now \in Timestamps
  PROVE  Without(u, now) \in [Keys -> Stored]
<1>1. db.records \in [Keys -> Stored] /\ now \in Nat
  BY Numbers DEF Dbs
<1>2. \A r \in Stored : [r EXCEPT !.op = "delete", !.ts = now] \in Stored
  BY <1>1 DEF Stored
<1> QED
  BY <1>1, <1>2, AbsentIsStored DEF Without

LEMMA BuryIs ==
  ASSUME Types, CountersBehind, NEW w \in Workers, NEW now \in Timestamps, Bury(w, now)
  PROVE  Buried(job[w].user, now) /\ job[w].user \in Users
<1> DEFINE u == job[w].user
           made == InSomeOrder(MadeBy(u))
           cur == IF TombsEnd(u) > db.cur /\ made # << >> THEN TombsEnd(u) ELSE db.cur
           min == IF TombsEnd(u) > db.cur /\ made # << >> THEN AtLeastOne(db.min) ELSE db.min
           log == {e \in db.log \cup Tombs(u, now) : e.partition # u}
<1>1. u \in Users
  <2>1. job[w] \in JobStates /\ job[w].op = "bury"
    BY DEF Types, Bury
  <2>2. job[w] \in [op : {"deleteUser", "bury"}, user : Users]
    BY <2>1 DEF JobStates, Idle
  <2> QED
    BY <2>2
<1>2. /\ db \in Dbs /\ db.cur \in Nat /\ db.min \in Nat /\ db.autoincrement \in Nat
      /\ db.log \in SUBSET Row /\ db.cur <= db.autoincrement
  BY DEF Types, Dbs, CountersBehind
<1> HIDE DEF u
<1>3. /\ Tombs(u, now) \subseteq Row
      /\ TombsEnd(u) \in Nat /\ TombsEnd(u) >= db.autoincrement
  BY <1>1, <1>2, TombsAre
<1>4. Without(u, now) \in [Keys -> Stored]
  BY <1>1, <1>2, WithoutType
<1>5. cur \in Nat /\ min \in Nat /\ min >= db.min /\ cur <= TombsEnd(u)
  BY <1>2, <1>3 DEF AtLeastOne
<1>6. log \in SUBSET Row
  BY <1>2, <1>3
<1>7. db' = Exchanged(db, Without(u, now), log, TombsEnd(u), cur, min)
  BY DEF Bury, Exchanged, Without, Tombs, TombsEnd, u
<1>8. /\ history' = {e \in history \cup Tombs(u, now) : e.partition # u}
      /\ given' = given \cup {e.seq : e \in Tombs(u, now)}
  BY DEF Bury, Tombs, u
<1> HIDE DEF cur, min
<1>9. /\ db' \in Dbs /\ db'.tables = db.tables /\ db'.records = Without(u, now)
      /\ db'.log = log /\ db'.autoincrement = TombsEnd(u) /\ db'.cur = cur /\ db'.min = min
  <2> HIDE DEF log
  <2> QED
    BY <1>2, <1>3, <1>4, <1>5, <1>6, <1>7, ExchangedIs
<1>10. Buried(u, now)
  BY <1>5, <1>8, <1>9 DEF Buried
<1> QED
  BY <1>1, <1>10 DEF u

\* What a batch does that is not refused.
Batched(p, a, batch) ==
  LET s == AfterLoop(p, a, batch)
  IN  /\ s \in LoopStates /\ s.ok
      /\ db' = Finished(s)
      /\ history' = history \cup (s.log \ db.log)
      /\ given' = given \cup {e.seq : e \in s.log \ db.log}

LEMMA TransactIs ==
  ASSUME Types, NEW w \in Workers, NEW a \in Actors, NEW batch \in Batches,
         Transact(w, a, batch)
  PROVE  \/ Batched(ProcessOf(w), a, batch)
         \/ db' = db /\ history' = history /\ given' = given
<1> DEFINE s == AfterLoop(ProcessOf(w), a, batch)
<1>1. s \in LoopStates
  BY LoopGrows DEF Grown, Types
<1> HIDE DEF s
<1>2. CASE s.ok
  <2>1. /\ db' = Finished(s) /\ history' = history \cup (s.log \ db.log)
        /\ given' = given \cup {e.seq : e \in s.log \ db.log}
    BY <1>2 DEF Transact, Logs, s
  <2> QED
    BY <2>1, <1>1, <1>2 DEF Batched, s
<1>3. CASE ~s.ok
  <2>1. db' = db /\ Logs({})
    BY <1>3 DEF Transact, s
  <2> QED
    BY <2>1 DEF Logs
<1> QED
  BY <1>2, <1>3

\* A worker belongs to one of the two processes.
LEMMA ProcessOfType ==
  \A w \in Workers : ProcessOf(w) \in Processes /\ w \in Jobs[ProcessOf(w)]
BY DEF ProcessOf, Processes, Workers

\* What a job is, by what it does.
LEMMA JobIs ==
  ASSUME Types, NEW w \in Workers
  PROVE  /\ job[w].op \in {"apply", "doomed"} =>
              job[w] \in [op : {"apply", "doomed"}, tables : SUBSET Tables]
         /\ job[w].op = "prune" =>
              job[w] \in [op : {"prune"}, at : {"read", "deleted"}, cur : Nat, min : Nat,
                          target : Nat]
         /\ job[w].op \in {"deleteUser", "bury"} =>
              job[w] \in [op : {"deleteUser", "bury"}, user : Users]
<1>1. job[w] \in JobStates
  BY DEF Types
<1> QED
  BY <1>1 DEF JobStates, Idle

LEMMA InitTypes == Init => Types /\ CountersBehind
<1> SUFFICES ASSUME Init PROVE Types /\ CountersBehind
  OBVIOUS
<1>1. db \in Dbs
  <2>1. [k \in Keys |-> Absent] \in [Keys -> Stored]
    BY AbsentIsStored
  <2> QED
    BY <2>1 DEF Init, Dbs
<1>2. job \in [Workers -> JobStates] /\ \A w \in Workers : job[w].op # "prune"
  BY DEF Init, JobStates, Idle
<1>3. MaxRestarts \in Nat /\ MaxJobs \in Nat
  BY Numbers
<1>4. Types
  BY <1>1, <1>2, <1>3 DEF Init, Types
<1>5. db.cur = 0 /\ db.autoincrement = 0 /\ \A u \in Users : goneAt[u] = 0
  BY DEF Init
<1> QED
  BY <1>2, <1>4, <1>5 DEF CountersBehind

\* What of the types a step of one job has to see to.
LEMMA JobTypes ==
  ASSUME Types, NEW w \in Workers, NEW state \in JobStates,
         \/ Becomes(w, state) \/ Begins(w, state)
  PROVE  job' \in [Workers -> JobStates] /\ started' \in 0..MaxJobs
<1>1. job \in [Workers -> JobStates] /\ started \in 0..MaxJobs /\ MaxJobs \in Nat
  BY Numbers DEF Types
<1>2. job' = [job EXCEPT ![w] = state]
  BY DEF Becomes, Begins
<1>3. job' \in [Workers -> JobStates]
  BY <1>1, <1>2
<1>4. CASE Becomes(w, state)
  BY <1>1, <1>3, <1>4 DEF Becomes
<1>5. CASE Begins(w, state)
  BY <1>1, <1>3, <1>5 DEF Begins
<1> QED
  BY <1>4, <1>5

LEMMA BatchTypes ==
  ASSUME Types, CountersBehind, NEW p, NEW a \in Actors, NEW batch \in Batches,
         Batched(p, a, batch)
  PROVE  /\ db' \in Dbs /\ history' \subseteq Row /\ given' \subseteq Nat
         /\ db.autoincrement <= db'.autoincrement
         /\ db'.cur <= db'.autoincrement
<1> DEFINE s == AfterLoop(p, a, batch)
<1>1. s \in LoopStates /\ db.autoincrement <= s.autoincrement
  BY LoopGrows DEF Grown, Types
<1>2. db \in Dbs /\ db.cur <= db.autoincrement /\ history \subseteq Row /\ given \subseteq Nat
  BY DEF Types, CountersBehind
<1> HIDE DEF s
<1>3. /\ db' = Finished(s) /\ history' = history \cup (s.log \ db.log)
      /\ given' = given \cup {e.seq : e \in s.log \ db.log}
  BY DEF Batched, s
<1>4. /\ Finished(s) \in Dbs /\ Finished(s).autoincrement = s.autoincrement
      /\ Finished(s).cur <= s.autoincrement
  BY <1>1, <1>2, FinishedIs
<1>5. s.log \subseteq Row
  BY <1>1 DEF LoopStates
<1>6. {e.seq : e \in s.log \ db.log} \subseteq Nat
  BY <1>5 DEF Row
<1> QED
  BY <1>1, <1>2, <1>3, <1>4, <1>5, <1>6

LEMMA TablesTypes ==
  ASSUME Types, CountersBehind, NEW w \in Workers, NEW t \in Tables,
         \/ CreateTable(w, t) \/ DeleteTable(w, t)
  PROVE  Types'
<1>1. Idle \in JobStates
  BY DEF JobStates
<1>2. Begins(w, Idle) /\ Reopens(w) /\ UNCHANGED <<users, restarts, given, goneAt>>
  BY DEF CreateTable, DeleteTable
<1>3. job' \in [Workers -> JobStates] /\ started' \in 0..MaxJobs
  BY <1>1, <1>2, JobTypes
<1>4. ProcessOf(w) \in Processes
  BY ProcessOfType
<1>5. open' \subseteq Processes
  BY <1>2, <1>4 DEF Reopens, Types
<1>6. cache' \in [Processes -> SUBSET Tables]
  <2>1. CASE CreateTable(w, t)
    BY <2>1 DEF CreateTable, Types
  <2>2. CASE DeleteTable(w, t)
    BY <2>2 DEF DeleteTable, Types
  <2> QED
    BY <2>1, <2>2
<1>7. db' \in Dbs
  <2>1. CASE CreateTable(w, t)
    <3>1. db' = [db EXCEPT !.tables = @ \cup {t}]
      BY <2>1 DEF CreateTable
    <3> QED
      BY <3>1 DEF Types, Dbs
  <2>2. CASE DeleteTable(w, t)
    <3> DEFINE tables == db.tables \ {t}
               records == [k \in Keys |-> IF k[2] = t THEN Absent ELSE db.records[k]]
               log == {e \in db.log : e.table # t}
    <3>1. db \in Dbs /\ db' = [db EXCEPT !.tables = tables, !.records = records, !.log = log]
      BY <2>2 DEF DeleteTable, Types
    <3>2. tables \in SUBSET Tables /\ records \in [Keys -> Stored] /\ log \in SUBSET Row
      BY <3>1, AbsentIsStored DEF Dbs
    <3> HIDE DEF tables, records, log
    <3> QED
      BY <3>1, <3>2 DEF Dbs
  <2> QED
    BY <2>1, <2>2
<1>8. history' \subseteq Row /\ disturbed' \subseteq {"prune", "table", "user"}
  BY DEF CreateTable, DeleteTable, Types
<1> QED
  BY <1>2, <1>3, <1>5, <1>6, <1>7, <1>8 DEF Types

LEMMA PruneTypes ==
  ASSUME Types, CountersBehind, NEW w \in Workers,
         \/ \E keep \in KeepCounts : Prune(w, keep)
         \/ PruneRows(w) \/ PruneMeta(w)
  PROVE  Types'
<1>1. /\ db \in Dbs /\ db.cur \in Nat /\ db.min \in Nat /\ db.log \in SUBSET Row
      /\ ProcessOf(w) \in Processes
  BY ProcessOfType DEF Types, Dbs
<1>2. CASE \E keep \in KeepCounts : Prune(w, keep)
  <2>1. PICK keep \in KeepCounts : Prune(w, keep)
    BY <1>2
  <2> DEFINE target == RaisedTo(db.cur, keep)
             state == [op |-> "prune", at |-> "read", cur |-> db.cur, min |-> db.min,
                       target |-> target]
  <2>2. target \in Nat
    BY <1>1, Numbers DEF RaisedTo, AtLeastOne
  <2>3. Begins(w, state) /\ Reopens(w)
        /\ UNCHANGED <<users, db, cache, restarts, history, given, goneAt, disturbed>>
    BY <2>1 DEF Prune
  <2> HIDE DEF target
  <2>4. state \in JobStates
    BY <1>1, <2>2 DEF JobStates
  <2> HIDE DEF state
  <2>5. job' \in [Workers -> JobStates] /\ started' \in 0..MaxJobs
    BY <2>3, <2>4, JobTypes
  <2>6. open' \subseteq Processes
    BY <2>3, <1>1 DEF Reopens, Types
  <2> QED
    BY <2>3, <2>5, <2>6 DEF Types
<1>3. CASE PruneRows(w)
  <2> DEFINE state == [job[w] EXCEPT !.at = "deleted"]
             log == {e \in db.log : e.seq >= job[w].target}
  <2>1. state \in JobStates
    <3>1. job[w] \in [op : {"prune"}, at : {"read", "deleted"}, cur : Nat, min : Nat,
                      target : Nat]
      BY <1>3, JobIs DEF PruneRows
    <3>2. state \in [op : {"prune"}, at : {"read", "deleted"}, cur : Nat, min : Nat,
                     target : Nat]
      BY <3>1
    <3> HIDE DEF state
    <3> QED
      BY <3>2 DEF JobStates
  <2>2. /\ Becomes(w, state) /\ db' = [db EXCEPT !.log = log]
        /\ UNCHANGED <<users, cache, open, restarts, history, given, goneAt, disturbed>>
    BY <1>3 DEF PruneRows
  <2> HIDE DEF state, log
  <2>3. log \in SUBSET Row
    BY <1>1 DEF log
  <2>4. job' \in [Workers -> JobStates] /\ started' \in 0..MaxJobs
    BY <2>1, <2>2, JobTypes
  <2>5. db' \in Dbs
    BY <1>1, <2>2, <2>3 DEF Dbs
  <2> QED
    BY <2>2, <2>4, <2>5 DEF Types
<1>4. CASE PruneMeta(w)
  <2>1. Idle \in JobStates
    BY DEF JobStates
  <2>2. job[w] \in [op : {"prune"}, at : {"read", "deleted"}, cur : Nat, min : Nat,
                    target : Nat]
    BY <1>4, JobIs DEF PruneMeta
  <2>3. /\ Becomes(w, Idle) /\ db' = [db EXCEPT !.cur = job[w].cur, !.min = job[w].target]
        /\ UNCHANGED <<users, cache, open, restarts, history, given, goneAt>>
        /\ disturbed' \subseteq disturbed \cup {"prune"}
    BY <1>4 DEF PruneMeta
  <2>4. job' \in [Workers -> JobStates] /\ started' \in 0..MaxJobs
    BY <2>1, <2>3, JobTypes
  <2>5. db' \in Dbs
    BY <1>1, <2>2, <2>3 DEF Dbs
  <2> QED
    BY <2>3, <2>4, <2>5 DEF Types
<1> QED
  BY <1>2, <1>3, <1>4

LEMMA UserTypes ==
  ASSUME Types, CountersBehind, NEW w \in Workers,
         \/ \E u \in Users : FindUser(w, u)
         \/ DeleteAccount(w)
         \/ \E now \in Timestamps : Bury(w, now)
  PROVE  Types'
<1>1. Idle \in JobStates
  BY DEF JobStates
<1>2. CASE \E u \in Users : FindUser(w, u)
  <2>1. PICK u \in Users : FindUser(w, u)
    BY <1>2
  <2> DEFINE state == [op |-> "deleteUser", user |-> u]
  <2>2. state \in JobStates
    BY DEF JobStates
  <2>3. /\ Begins(w, state)
        /\ UNCHANGED <<users, db, cache, open, restarts, history, given, goneAt, disturbed>>
    BY <2>1 DEF FindUser
  <2> HIDE DEF state
  <2>4. job' \in [Workers -> JobStates] /\ started' \in 0..MaxJobs
    BY <2>2, <2>3, JobTypes
  <2> QED
    BY <2>3, <2>4 DEF Types
<1>3. CASE DeleteAccount(w)
  <2> DEFINE u == job[w].user
             found == u \in users
             goesOn == found /\ ProcessOf(w) \in open
             state == IF goesOn THEN [op |-> "bury", user |-> u] ELSE Idle
  <2>1. u \in Users
    BY <1>3, JobIs DEF DeleteAccount, At
  <2>2. state \in JobStates
    BY <2>1, <1>1 DEF JobStates
  <2>3. /\ Becomes(w, state) /\ users' \subseteq users
        /\ goneAt' = IF found THEN [goneAt EXCEPT ![u] = db.autoincrement] ELSE goneAt
        /\ disturbed' \subseteq disturbed \cup {"user"}
        /\ UNCHANGED <<db, cache, open, restarts, history, given>>
    BY <1>3 DEF DeleteAccount
  <2>4. goneAt' \in [Users -> Nat]
    <3>1. goneAt \in [Users -> Nat] /\ db.autoincrement \in Nat
      BY DEF Types, Dbs
    <3> QED
      BY <3>1, <2>3
  <2> HIDE DEF state, found, goesOn, u
  <2>5. job' \in [Workers -> JobStates] /\ started' \in 0..MaxJobs
    BY <2>2, <2>3, JobTypes
  <2> QED
    BY <2>3, <2>4, <2>5 DEF Types
<1>4. CASE \E now \in Timestamps : Bury(w, now)
  <2>1. PICK now \in Timestamps : Bury(w, now)
    BY <1>4
  <2>2. Buried(job[w].user, now) /\ job[w].user \in Users
    BY <2>1, BuryIs
  <2>3. Becomes(w, Idle) /\ UNCHANGED <<users, cache, open, restarts, goneAt, disturbed>>
    BY <2>1 DEF Bury
  <2>4. job' \in [Workers -> JobStates] /\ started' \in 0..MaxJobs
    BY <1>1, <2>3, JobTypes
  <2>5. Tombs(job[w].user, now) \subseteq Row
    BY <2>2, TombsAre DEF Types
  <2>6. db' \in Dbs /\ history' \subseteq Row /\ given' \subseteq Nat
    <3>1. {e.seq : e \in Tombs(job[w].user, now)} \subseteq Nat
      BY <2>5 DEF Row
    <3> QED
      BY <3>1, <2>2, <2>5 DEF Buried, Types
  <2> QED
    BY <2>3, <2>4, <2>6 DEF Types
<1> QED
  BY <1>2, <1>3, <1>4

LEMMA ApplyTypes ==
  ASSUME Types, CountersBehind, NEW w \in Workers,
         \/ \E named \in (SUBSET Tables) \ {{}} : Validate(w, named)
         \/ \E a \in Actors, batch \in Batches : Transact(w, a, batch)
         \/ GiveUp(w)
  PROVE  Types'
<1>1. Idle \in JobStates
  BY DEF JobStates
<1>2. ProcessOf(w) \in Processes
  BY ProcessOfType
<1>3. CASE \E named \in (SUBSET Tables) \ {{}} : Validate(w, named)
  <2>1. PICK named \in SUBSET Tables : Validate(w, named)
    BY <1>3
  <2> DEFINE state == [op |-> "apply", tables |-> named]
  <2>2. state \in JobStates
    BY DEF JobStates
  <2>3. /\ Begins(w, state) /\ Reopens(w)
        /\ cache' = [cache EXCEPT ![ProcessOf(w)] = @ \cup named]
        /\ UNCHANGED <<users, db, restarts, history, given, goneAt, disturbed>>
    BY <2>1 DEF Validate
  <2> HIDE DEF state
  <2>4. job' \in [Workers -> JobStates] /\ started' \in 0..MaxJobs
    BY <2>2, <2>3, JobTypes
  <2>5. cache' \in [Processes -> SUBSET Tables] /\ open' \subseteq Processes
    BY <2>3, <1>2 DEF Reopens, Types
  <2> QED
    BY <2>3, <2>4, <2>5 DEF Types
<1>4. CASE \E a \in Actors, batch \in Batches : Transact(w, a, batch)
  <2>1. PICK a \in Actors, batch \in Batches : Transact(w, a, batch)
    BY <1>4
  <2>2. /\ Becomes(w, Idle)
        /\ cache' = [cache EXCEPT ![ProcessOf(w)] = @ \cup (job[w].tables \cap db.tables)]
        /\ UNCHANGED <<users, open, restarts, goneAt, disturbed>>
    BY <2>1 DEF Transact
  <2>3. job' \in [Workers -> JobStates] /\ started' \in 0..MaxJobs
    BY <1>1, <2>2, JobTypes
  <2>4. cache' \in [Processes -> SUBSET Tables]
    BY <2>2, <1>2 DEF Types, Dbs
  <2>5. db' \in Dbs /\ history' \subseteq Row /\ given' \subseteq Nat
    BY <2>1, TransactIs, BatchTypes DEF Types
  <2> QED
    BY <2>2, <2>3, <2>4, <2>5 DEF Types
<1>5. CASE GiveUp(w)
  <2>1. /\ Becomes(w, Idle)
        /\ UNCHANGED <<users, db, cache, open, restarts, history, given, goneAt, disturbed>>
    BY <1>5 DEF GiveUp
  <2>2. job' \in [Workers -> JobStates] /\ started' \in 0..MaxJobs
    BY <1>1, <2>1, JobTypes
  <2> QED
    BY <2>1, <2>2 DEF Types
<1> QED
  BY <1>3, <1>4, <1>5

LEMMA ProcessTypes ==
  ASSUME Types, CountersBehind, NEW p \in Processes, Close(p) \/ Restart(p)
  PROVE  Types'
<1>1. \A w \in Workers : job[w] \in JobStates
  BY DEF Types
<1>2. CASE Close(p)
  <2>1. ASSUME NEW w \in Workers, job[w].op = "apply"
        PROVE  [job[w] EXCEPT !.op = "doomed"] \in JobStates
    <3>1. job[w] \in [op : {"apply", "doomed"}, tables : SUBSET Tables]
      BY <2>1, JobIs
    <3>2. [job[w] EXCEPT !.op = "doomed"] \in [op : {"apply", "doomed"}, tables : SUBSET Tables]
      BY <3>1
    <3> QED
      BY <3>2 DEF JobStates
  <2>2. job' \in [Workers -> JobStates]
    BY <1>1, <1>2, <2>1 DEF Close
  <2> QED
    BY <1>2, <2>2 DEF Close, Types
<1>3. CASE Restart(p)
  <2>1. Idle \in JobStates
    BY DEF JobStates
  <2>2. job' \in [Workers -> JobStates]
    BY <1>1, <1>3, <2>1 DEF Restart
  <2>3. restarts' \in 0..MaxRestarts
    BY <1>3, Numbers DEF Restart, Types
  <2>4. cache' \in [Processes -> SUBSET Tables] /\ open' \subseteq Processes
    BY <1>3 DEF Restart, Types
  <2>5. disturbed' \subseteq {"prune", "table", "user"}
    BY <1>3 DEF Restart, Types
  <2> QED
    BY <1>3, <2>2, <2>3, <2>4, <2>5 DEF Restart, Types
<1> QED
  BY <1>2, <1>3

LEMMA TypesPreserved == Types /\ CountersBehind /\ [Next]_vars => Types'
<1> SUFFICES ASSUME Types, CountersBehind, [Next]_vars PROVE Types'
  OBVIOUS
<1>1. CASE UNCHANGED vars
  BY <1>1 DEF vars, Types
<1>2. CASE Next
  BY <1>2, ApplyTypes, PruneTypes, TablesTypes, UserTypes, ProcessTypes DEF Next
<1> QED
  BY <1>1, <1>2

-----------------------------------------------------------------------------
(* What the steps make of the databases                                    *)

\* Nothing that concerns what is stored or was logged.
Unmoved ==
  /\ db'.records = db.records /\ db'.autoincrement = db.autoincrement
  /\ db'.log \subseteq db.log
  /\ history' = history /\ given' = given

\* A table goes with its records and its rows.
Dropped(t) ==
  /\ db'.records = [k \in Keys |-> IF k[2] = t THEN Absent ELSE db.records[k]]
  /\ db'.log = {e \in db.log : e.table # t}
  /\ db'.autoincrement = db.autoincrement /\ db'.cur = db.cur /\ db'.min = db.min
  /\ history' = {e \in history : e.table # t}
  /\ given' = given

LEMMA DropIs ==
  ASSUME Types, NEW w \in Workers, NEW t \in Tables, DeleteTable(w, t)
  PROVE  Dropped(t) /\ db'.tables = db.tables \ {t}
<1> DEFINE tables == db.tables \ {t}
           records == [k \in Keys |-> IF k[2] = t THEN Absent ELSE db.records[k]]
           log == {e \in db.log : e.table # t}
<1>1. db \in Dbs /\ db' = [db EXCEPT !.tables = tables, !.records = records, !.log = log]
  BY DEF DeleteTable, Types
<1>2. history' = {e \in history : e.table # t} /\ given' = given
  BY DEF DeleteTable
<1> HIDE DEF tables, records, log
<1>3. /\ db'.tables = tables /\ db'.records = records /\ db'.log = log
      /\ db'.autoincrement = db.autoincrement /\ db'.cur = db.cur /\ db'.min = db.min
  BY <1>1 DEF Dbs
<1> QED
  BY <1>2, <1>3 DEF Dropped, tables, records, log

LEMMA StepIs ==
  ASSUME Types, CountersBehind, [Next]_vars
  PROVE  \/ Unmoved
         \/ \E p \in Processes, a \in Actors, batch \in Batches : Batched(p, a, batch)
         \/ \E t \in Tables : Dropped(t)
         \/ \E u \in Users, now \in Timestamps : Buried(u, now)
<1>1. CASE db' = db /\ history' = history /\ given' = given
  BY <1>1 DEF Unmoved
<1>2. CASE UNCHANGED vars
  BY <1>1, <1>2 DEF vars
<1>3. ASSUME NEW w \in Workers,
             \/ \E named \in (SUBSET Tables) \ {{}} : Validate(w, named)
             \/ GiveUp(w)
             \/ \E keep \in KeepCounts : Prune(w, keep)
             \/ \E u \in Users : FindUser(w, u)
             \/ DeleteAccount(w)
      PROVE  db' = db /\ history' = history /\ given' = given
  BY <1>3 DEF Validate, GiveUp, Prune, FindUser, DeleteAccount
<1>4. ASSUME NEW p \in Processes, Close(p) \/ Restart(p)
      PROVE  db' = db /\ history' = history /\ given' = given
  BY <1>4 DEF Close, Restart
<1>5. ASSUME NEW w \in Workers, PruneRows(w) \/ PruneMeta(w) PROVE Unmoved
  <2>1. db \in Dbs /\ history' = history /\ given' = given
    BY <1>5 DEF PruneRows, PruneMeta, Types
  <2>2. CASE PruneRows(w)
    <3>1. db' = [db EXCEPT !.log = {e \in @ : e.seq >= job[w].target}]
      BY <2>2 DEF PruneRows
    <3> QED
      BY <2>1, <3>1 DEF Unmoved, Dbs
  <2>3. CASE PruneMeta(w)
    <3>1. db' = [db EXCEPT !.cur = job[w].cur, !.min = job[w].target]
      BY <2>3 DEF PruneMeta
    <3> QED
      BY <2>1, <3>1 DEF Unmoved, Dbs
  <2> QED
    BY <1>5, <2>2, <2>3
<1>6. ASSUME NEW w \in Workers, NEW t \in Tables, CreateTable(w, t) PROVE Unmoved
  <2>1. /\ db \in Dbs /\ db' = [db EXCEPT !.tables = @ \cup {t}]
        /\ history' = history /\ given' = given
    BY <1>6 DEF CreateTable, Types
  <2> QED
    BY <2>1 DEF Unmoved, Dbs
<1>7. ASSUME NEW w \in Workers, NEW a \in Actors, NEW batch \in Batches, Transact(w, a, batch)
      PROVE  \/ Batched(ProcessOf(w), a, batch) /\ ProcessOf(w) \in Processes
             \/ db' = db /\ history' = history /\ given' = given
  BY <1>7, TransactIs, ProcessOfType
<1>8. CASE Next
  <2>1. CASE \E w \in Workers :
               \/ \E named \in (SUBSET Tables) \ {{}} : Validate(w, named)
               \/ GiveUp(w)
               \/ \E keep \in KeepCounts : Prune(w, keep)
               \/ \E u \in Users : FindUser(w, u)
               \/ DeleteAccount(w)
    BY <1>1, <1>3, <2>1
  <2>2. CASE \E p \in Processes : Close(p) \/ Restart(p)
    BY <1>1, <1>4, <2>2
  <2>3. CASE \E w \in Workers : PruneRows(w) \/ PruneMeta(w)
    BY <1>5, <2>3
  <2>4. CASE \E w \in Workers, t \in Tables : CreateTable(w, t) \/ DeleteTable(w, t)
    BY <1>6, <2>4, DropIs
  <2>5. CASE \E w \in Workers, a \in Actors, batch \in Batches : Transact(w, a, batch)
    BY <1>1, <1>7, <2>5
  <2>6. CASE \E w \in Workers, now \in Timestamps : Bury(w, now)
    BY <2>6, BuryIs
  <2> QED
    BY <1>8, <2>1, <2>2, <2>3, <2>4, <2>5, <2>6 DEF Next
<1> QED
  BY <1>2, <1>8

\* The numbers given out only grow.
LEMMA NumbersGrow ==
  ASSUME Types, CountersBehind, [Next]_vars
  PROVE  db'.autoincrement >= db.autoincrement
<1>1. db \in Dbs /\ db.autoincrement \in Nat
  BY DEF Types, Dbs
<1>2. CASE Unmoved
  BY <1>1, <1>2 DEF Unmoved
<1>3. ASSUME NEW p, NEW a \in Actors, NEW batch \in Batches, Batched(p, a, batch)
      PROVE  db'.autoincrement >= db.autoincrement
  BY <1>3, <1>1, BatchTypes DEF Dbs
<1>4. ASSUME NEW t, Dropped(t) PROVE db'.autoincrement >= db.autoincrement
  BY <1>4, <1>1 DEF Dropped
<1>5. ASSUME NEW u \in Users, NEW now \in Timestamps, Buried(u, now)
      PROVE  db'.autoincrement >= db.autoincrement
  BY <1>5, <1>1, TombsAre DEF Buried
<1> QED
  BY <1>2, <1>3, <1>4, <1>5, StepIs

\* A job that prunes has been at it before, or begins now.
LEMMA PruningJobs ==
  ASSUME Types, [Next]_vars, NEW w \in Workers, job'[w].op = "prune"
  PROVE  \/ /\ job[w].op = "prune"
            /\ job'[w].cur = job[w].cur /\ job'[w].min = job[w].min
            /\ job'[w].target = job[w].target
            /\ \/ job'[w] = job[w]
               \/ PruneRows(w)
         \/ \E keep \in KeepCounts : Prune(w, keep)
<1>1. job \in [Workers -> JobStates]
  BY DEF Types
<1>2. ASSUME job' = job
      PROVE  job'[w] = job[w]
  BY <1>2
<1>3. ASSUME NEW v \in Workers, NEW state, job' = [job EXCEPT ![v] = state],
             state.op # "prune"
      PROVE  job'[w] = job[w]
  BY <1>1, <1>3
<1>4. Idle.op # "prune"
  BY DEF Idle
<1>5. CASE UNCHANGED vars
  BY <1>2, <1>5 DEF vars
<1>6. ASSUME NEW v \in Workers,
             \/ \E named \in (SUBSET Tables) \ {{}} : Validate(v, named)
             \/ \E a \in Actors, batch \in Batches : Transact(v, a, batch)
             \/ GiveUp(v) \/ PruneMeta(v)
             \/ \E t \in Tables : CreateTable(v, t) \/ DeleteTable(v, t)
             \/ \E u \in Users : FindUser(v, u)
             \/ DeleteAccount(v)
             \/ \E now \in Timestamps : Bury(v, now)
      PROVE  job'[w] = job[w]
  <2>1. CASE \E named \in (SUBSET Tables) \ {{}} : Validate(v, named)
    <3>1. PICK named \in SUBSET Tables : job' = [job EXCEPT ![v] = [op |-> "apply", tables |-> named]]
      BY <2>1 DEF Validate, Begins
    <3> QED
      BY <3>1, <1>3
  <2>2. CASE DeleteAccount(v)
    <3>1. \/ job' = [job EXCEPT ![v] = [op |-> "bury", user |-> job[v].user]]
          \/ job' = [job EXCEPT ![v] = Idle]
      BY <2>2 DEF DeleteAccount, Becomes
    <3> QED
      BY <3>1, <1>3, <1>4
  <2>3. CASE \E u \in Users : FindUser(v, u)
    <3>1. PICK u \in Users : job' = [job EXCEPT ![v] = [op |-> "deleteUser", user |-> u]]
      BY <2>3 DEF FindUser, Begins
    <3> QED
      BY <3>1, <1>3
  <2>4. CASE \/ \E a \in Actors, batch \in Batches : Transact(v, a, batch)
             \/ GiveUp(v) \/ PruneMeta(v)
             \/ \E t \in Tables : CreateTable(v, t) \/ DeleteTable(v, t)
             \/ \E now \in Timestamps : Bury(v, now)
    <3>1. job' = [job EXCEPT ![v] = Idle]
      BY <2>4 DEF Transact, GiveUp, PruneMeta, CreateTable, DeleteTable, Bury, Becomes, Begins
    <3> QED
      BY <3>1, <1>3, <1>4
  <2> QED
    BY <1>6, <2>1, <2>2, <2>3, <2>4
<1>7. ASSUME NEW p \in Processes, Close(p) \/ Restart(p)
      PROVE  job'[w] = job[w]
  <2>1. CASE Restart(p)
    BY <2>1, <1>1, <1>4 DEF Restart
  <2>2. CASE Close(p)
    <3>1. job'[w] = IF w \in Jobs[p] /\ job[w].op = "apply" THEN [job[w] EXCEPT !.op = "doomed"]
                    ELSE job[w]
      BY <2>2 DEF Close
    <3>2. CASE w \in Jobs[p] /\ job[w].op = "apply"
      <4>1. job[w] \in [op : {"apply", "doomed"}, tables : SUBSET Tables]
        BY <3>2, JobIs
      <4>2. job'[w].op = "doomed"
        BY <3>1, <3>2, <4>1
      <4> QED
        BY <4>2
    <3> QED
      BY <3>1, <3>2
  <2> QED
    BY <1>7, <2>1, <2>2
<1>8. ASSUME NEW v \in Workers, NEW keep \in KeepCounts, Prune(v, keep)
      PROVE  job'[w] = job[w] \/ Prune(w, keep)
  <2>1. \E state : job' = [job EXCEPT ![v] = state]
    BY <1>8 DEF Prune, Begins
  <2> QED
    BY <2>1, <1>1, <1>8
<1>9. ASSUME NEW v \in Workers, PruneRows(v)
      PROVE  \/ job'[w] = job[w]
             \/ /\ PruneRows(w) /\ job[w].op = "prune"
                /\ job'[w].cur = job[w].cur /\ job'[w].min = job[w].min
                /\ job'[w].target = job[w].target
  <2>1. job' = [job EXCEPT ![v] = [job[v] EXCEPT !.at = "deleted"]] /\ job[v].op = "prune"
    BY <1>9 DEF PruneRows, Becomes
  <2>2. CASE v # w
    BY <2>1, <2>2, <1>1
  <2>3. CASE v = w
    <3>1. job'[w] = [job[w] EXCEPT !.at = "deleted"] /\ job[w].op = "prune"
      BY <2>1, <2>3, <1>1
    <3>2. job[w] \in [op : {"prune"}, at : {"read", "deleted"}, cur : Nat, min : Nat,
                      target : Nat]
      BY <3>1, JobIs
    <3> QED
      BY <3>1, <3>2, <2>3, <1>9
  <2> QED
    BY <2>2, <2>3
<1>10. \/ job'[w] = job[w]
       \/ \E keep \in KeepCounts : Prune(w, keep)
       \/ /\ PruneRows(w) /\ job[w].op = "prune"
          /\ job'[w].cur = job[w].cur /\ job'[w].min = job[w].min
          /\ job'[w].target = job[w].target
  BY <1>5, <1>6, <1>7, <1>8, <1>9 DEF Next
<1> QED
  BY <1>10

LEMMA CountersPreserved == Types /\ CountersBehind /\ [Next]_vars => CountersBehind'
<1> SUFFICES ASSUME Types, CountersBehind, [Next]_vars PROVE CountersBehind'
  OBVIOUS
<1>1. /\ db \in Dbs /\ db' \in Dbs /\ db.autoincrement \in Nat /\ db.cur \in Nat
      /\ db'.autoincrement \in Nat /\ goneAt \in [Users -> Nat]
  BY TypesPreserved DEF Types, Dbs
<1>2. db'.autoincrement >= db.autoincrement
  BY NumbersGrow
<1>3. ASSUME NEW w \in Workers, job'[w].op = "prune"
      PROVE  job'[w].cur <= db'.autoincrement
  <2>1. CASE job[w].op = "prune" /\ job'[w].cur = job[w].cur
    <3>1. job[w].cur \in Nat
      BY <2>1, JobIs
    <3> QED
      BY <2>1, <3>1, <1>1, <1>2 DEF CountersBehind
  <2>2. CASE \E keep \in KeepCounts : Prune(w, keep)
    <3>1. PICK keep \in KeepCounts : Prune(w, keep)
      BY <2>2
    <3>2. job \in [Workers -> JobStates]
      BY DEF Types
    <3>3. job'[w].cur = db.cur
      BY <3>1, <3>2 DEF Prune, Begins
    <3> QED
      BY <3>3, <1>1, <1>2 DEF CountersBehind
  <2> QED
    BY <1>3, <2>1, <2>2, PruningJobs
<1>4. db'.cur <= db'.autoincrement
  <2>1. CASE db'.cur = db.cur
    BY <2>1, <1>1, <1>2 DEF CountersBehind
  <2>2. ASSUME NEW w \in Workers, PruneMeta(w)
        PROVE  db'.cur <= db'.autoincrement
    <3>1. job[w].op = "prune" /\ db' = [db EXCEPT !.cur = job[w].cur, !.min = job[w].target]
      BY <2>2 DEF PruneMeta
    <3>2. job[w].cur <= db.autoincrement /\ job[w].cur \in Nat
      BY <3>1, JobIs DEF CountersBehind
    <3>3. db'.cur = job[w].cur
      BY <3>1, <1>1 DEF Dbs
    <3> QED
      BY <3>2, <3>3, <1>1, <1>2
  <2>3. ASSUME NEW w \in Workers, PruneRows(w) \/ \E t \in Tables : CreateTable(w, t)
        PROVE  db'.cur = db.cur
    BY <2>3, <1>1 DEF PruneRows, CreateTable, Dbs
  <2>4. ASSUME NEW w \in Workers, NEW t \in Tables, DeleteTable(w, t)
        PROVE  db'.cur = db.cur
    BY <2>4, DropIs DEF Dropped
  <2>5. ASSUME NEW w \in Workers, NEW now \in Timestamps, Bury(w, now)
        PROVE  db'.cur <= db'.autoincrement
    BY <2>5, BuryIs DEF Buried
  <2>6. ASSUME NEW w \in Workers, NEW a \in Actors, NEW batch \in Batches, Transact(w, a, batch)
        PROVE  db'.cur <= db'.autoincrement
    <3>1. CASE Batched(ProcessOf(w), a, batch)
      BY <3>1, BatchTypes
    <3>2. CASE db' = db
      BY <3>2, <2>1
    <3> QED
      BY <2>6, <3>1, <3>2, TransactIs
  <2>7. ASSUME NEW w \in Workers,
               \/ \E named \in (SUBSET Tables) \ {{}} : Validate(w, named)
               \/ GiveUp(w)
               \/ \E keep \in KeepCounts : Prune(w, keep)
               \/ \E u \in Users : FindUser(w, u)
               \/ DeleteAccount(w)
        PROVE  db' = db
    BY <2>7 DEF Validate, GiveUp, Prune, FindUser, DeleteAccount
  <2>8. ASSUME NEW p \in Processes, Close(p) \/ Restart(p) PROVE db' = db
    BY <2>8 DEF Close, Restart
  <2>9. CASE UNCHANGED vars
    BY <2>1, <2>9 DEF vars
  <2>10. CASE Next
    BY <2>1, <2>2, <2>3, <2>4, <2>5, <2>6, <2>7, <2>8, <2>10 DEF Next
  <2> QED
    BY <2>9, <2>10
<1>5. ASSUME NEW u \in Users PROVE goneAt'[u] <= db'.autoincrement
  <2>1. goneAt'[u] = goneAt[u] \/ goneAt'[u] = db.autoincrement
    <3>1. CASE goneAt' = goneAt
      BY <3>1
    <3>2. ASSUME NEW w \in Workers, DeleteAccount(w)
          PROVE  goneAt'[u] = goneAt[u] \/ goneAt'[u] = db.autoincrement
      <4>1. \/ goneAt' = [goneAt EXCEPT ![job[w].user] = db.autoincrement]
            \/ goneAt' = goneAt
        BY <3>2 DEF DeleteAccount
      <4> QED
        BY <4>1, <1>1
    <3>3. CASE ~\E w \in Workers : DeleteAccount(w)
      <4>1. goneAt' = goneAt
        BY <3>3 DEF Next, vars, Validate, Transact, GiveUp, Prune, PruneRows, PruneMeta,
                    CreateTable, DeleteTable, FindUser, Bury, Close, Restart
      <4> QED
        BY <4>1
    <3> QED
      BY <3>1, <3>2, <3>3
  <2> QED
    BY <2>1, <1>1, <1>2 DEF CountersBehind
<1> QED
  BY <1>3, <1>4, <1>5 DEF CountersBehind

\* Every variable keeps its type, and no counter is ahead of the numbers that
\* were given out, whatever ends and whatever the other process does.
THEOREM CountersStayBehind == Spec => [](Types /\ CountersBehind)
<1>1. Types /\ CountersBehind /\ [Next]_vars => (Types /\ CountersBehind)'
  BY TypesPreserved, CountersPreserved
<1> QED
  BY InitTypes, <1>1, PTL DEF Spec

\* Every variable has its type.
THEOREM SqliteTypes == Spec => []TypeOK
<1>1. Types /\ CountersBehind => TypeOK
  BY DEF Types, CountersBehind, TypeOK, Dbs
<1> QED
  BY <1>1, CountersStayBehind, PTL

-----------------------------------------------------------------------------
(* What is stored is what was logged last                                  *)

KeyOf(e) == <<e.partition, e.table, e.id>>
Recorded(e) == [op |-> e.op, ts |-> e.ts, cid |-> e.cid, owner |-> e.owner]
RowsOf(hist, k) == {e \in hist : KeyOf(e) = k}

\* Numbers up to n, each of one row.
Numbered(hist, n) ==
  \A e \in hist : e.seq <= n /\ \A f \in hist : e.seq = f.seq => e = f

\* r is what the last of the rows says, or nothing if there is none.
Follows(r, rows) ==
  \/ rows = {} /\ r = Absent
  \/ \E e \in rows : r = Recorded(e) /\ \A f \in rows : f.seq <= e.seq

Replays(recs, hist) == \A k \in Keys : Follows(recs[k], RowsOf(hist, k))

\* The partition of a user has private rows of theirs; private rows that the
\* administrator shared are nobody's.
Apart(hist) ==
  \A e \in hist :
    /\ e.partition \in Users =>
         /\ IsPrivate(e.table)
         /\ e.owner \in {e.partition, NoOwner}
         /\ e.op = "put" => e.owner = e.partition
    /\ e.partition = Shared /\ IsPrivate(e.table) => e.owner = NoOwner

\* What has once been theirs stays theirs.
OwnersStay(recs, hist) ==
  \A e \in hist : e.partition \in Users /\ e.owner = e.partition =>
                    recs[KeyOf(e)].owner = e.partition

Consistent(recs, hist, n) ==
  /\ Numbered(hist, n) /\ Replays(recs, hist) /\ Apart(hist) /\ OwnersStay(recs, hist)

LEMMA RowIs ==
  ASSUME NEW e \in Row
  PROVE  /\ KeyOf(e) \in Keys /\ Recorded(e) \in Stored /\ e.seq \in Nat
         /\ e.partition \in Partitions /\ e.table \in Tables /\ e.id \in Ids
         /\ KeyOf(e)[1] = e.partition /\ KeyOf(e)[2] = e.table /\ KeyOf(e)[3] = e.id
BY KeyIsTriple DEF Row, KeyOf, Recorded, Stored

\* Later rows, one at most for a key.
LEMMA MoreRows ==
  ASSUME NEW hist \in SUBSET Row, NEW more \in SUBSET Row, NEW recs, NEW recs2, NEW n \in Nat,
         Numbered(hist, n), Replays(recs, hist),
         \A e \in more : e.seq > n /\ recs2[KeyOf(e)] = Recorded(e),
         \A e, f \in more : KeyOf(e) = KeyOf(f) => e = f,
         \A k \in Keys : (\A e \in more : KeyOf(e) # k) => recs2[k] = recs[k]
  PROVE  Replays(recs2, hist \cup more)
<1> SUFFICES ASSUME NEW k \in Keys PROVE Follows(recs2[k], RowsOf(hist \cup more, k))
  BY DEF Replays
<1>1. CASE \A e \in more : KeyOf(e) # k
  <2>1. RowsOf(hist \cup more, k) = RowsOf(hist, k)
    BY <1>1 DEF RowsOf
  <2>2. recs2[k] = recs[k]
    BY <1>1
  <2> QED
    BY <2>1, <2>2 DEF Replays
<1>2. ASSUME NEW e \in more, KeyOf(e) = k PROVE Follows(recs2[k], RowsOf(hist \cup more, k))
  <2>1. e \in RowsOf(hist \cup more, k)
    BY <1>2 DEF RowsOf
  <2>2. recs2[k] = Recorded(e)
    BY <1>2
  <2>3. ASSUME NEW f \in RowsOf(hist \cup more, k) PROVE f.seq <= e.seq
    <3>1. f \in hist \/ f \in more
      BY DEF RowsOf
    <3>2. KeyOf(f) = k
      BY DEF RowsOf
    <3>3. e.seq \in Nat /\ f.seq \in Nat /\ e.seq > n
      BY <3>1, RowIs
    <3>4. CASE f \in hist
      <4>1. f.seq <= n
        BY <3>4 DEF Numbered
      <4> QED
        BY <4>1, <3>3
    <3>5. CASE f \in more
      <4>1. f = e
        BY <3>2, <3>5, <1>2
      <4> QED
        BY <4>1, <3>3
    <3> QED
      BY <3>1, <3>4, <3>5
  <2> QED
    BY <2>1, <2>2, <2>3 DEF Follows
<1> QED
  BY <1>1, <1>2

\* Some keys lose their record and all of their rows.
LEMMA FewerRows ==
  ASSUME NEW hist, NEW hist2 \in SUBSET hist, NEW recs, NEW recs2,
         Replays(recs, hist),
         \A k \in Keys : \/ recs2[k] = Absent /\ RowsOf(hist2, k) = {}
                         \/ recs2[k] = recs[k] /\ RowsOf(hist2, k) = RowsOf(hist, k)
  PROVE  Replays(recs2, hist2)
<1> SUFFICES ASSUME NEW k \in Keys PROVE Follows(recs2[k], RowsOf(hist2, k))
  BY DEF Replays
<1>1. CASE recs2[k] = Absent /\ RowsOf(hist2, k) = {}
  BY <1>1 DEF Follows
<1>2. CASE recs2[k] = recs[k] /\ RowsOf(hist2, k) = RowsOf(hist, k)
  BY <1>2 DEF Replays
<1> QED
  BY <1>1, <1>2

\* Whose a record in a partition is.
LEMMA RecordsApart ==
  ASSUME NEW recs, NEW hist \in SUBSET Row, Replays(recs, hist), Apart(hist),
         NEW k \in Keys
  PROVE  /\ k[1] \in Users => recs[k].owner \in {k[1], NoOwner}
         /\ k[1] \in Users /\ recs[k].op = "put" => recs[k].owner = k[1] /\ IsPrivate(k[2])
         /\ k[1] = Shared /\ IsPrivate(k[2]) => recs[k].owner = NoOwner
<1>1. CASE recs[k] = Absent
  BY <1>1 DEF Absent
<1>2. ASSUME NEW e \in RowsOf(hist, k), recs[k] = Recorded(e)
      PROVE  /\ k[1] \in Users => recs[k].owner \in {k[1], NoOwner}
             /\ k[1] \in Users /\ recs[k].op = "put" => recs[k].owner = k[1] /\ IsPrivate(k[2])
             /\ k[1] = Shared /\ IsPrivate(k[2]) => recs[k].owner = NoOwner
  <2>1. e \in hist /\ e \in Row /\ KeyOf(e) = k
    BY DEF RowsOf
  <2>2. e.partition = k[1] /\ e.table = k[2]
    BY <2>1, RowIs
  <2>3. recs[k].owner = e.owner /\ recs[k].op = e.op
    BY <1>2 DEF Recorded
  <2> QED
    BY <2>1, <2>2, <2>3 DEF Apart
<1> QED
  BY <1>1, <1>2 DEF Replays, Follows

\* The row and the record that a change writes belong together.
LEMMA WrittenTogether ==
  ASSUME NEW s \in LoopStates, NEW a \in Actors, NEW c \in Change
  PROVE  LET k == <<PartitionOf(a, c.table), c.table, c.id>>
             row == WrittenRow(s, a, c)
         IN  /\ KeyOf(row) = k /\ Recorded(row) = WrittenRecord(s, a, c)
             /\ row.seq = s.autoincrement + 1 /\ row.op = c.op
             /\ row.owner = OwnerAfter(a, c, s.records[k])
             /\ row.partition = PartitionOf(a, c.table) /\ row.table = c.table
             /\ WrittenRecord(s, a, c).owner = OwnerAfter(a, c, s.records[k])
             /\ WrittenRecord(s, a, c).op = c.op
BY DEF KeyOf, Recorded, WrittenRow, WrittenRecord

LEMMA WriteConsistent ==
  ASSUME NEW hist \in SUBSET Row, NEW s \in LoopStates, NEW a \in Actors, NEW c \in Change,
         Consistent(s.records, hist, s.autoincrement)
  PROVE  Consistent(Written(s, a, c).records, hist \cup {WrittenRow(s, a, c)},
                    Written(s, a, c).autoincrement)
<1> DEFINE k == <<PartitionOf(a, c.table), c.table, c.id>>
           row == WrittenRow(s, a, c)
           old == s.records[k]
           recs == s.records
           recs2 == Written(s, a, c).records
           n == s.autoincrement
<1>1. /\ recs2 = [recs EXCEPT ![k] = WrittenRecord(s, a, c)]
      /\ Written(s, a, c).autoincrement = n + 1
      /\ k \in Keys /\ row \in Row
  BY WrittenIs
<1>2. /\ KeyOf(row) = k /\ Recorded(row) = WrittenRecord(s, a, c)
      /\ row.seq = n + 1 /\ row.op = c.op
      /\ row.owner = OwnerAfter(a, c, old)
      /\ row.partition = PartitionOf(a, c.table) /\ row.table = c.table
      /\ WrittenRecord(s, a, c).owner = OwnerAfter(a, c, old)
  BY WrittenTogether
<1>3. /\ recs \in [Keys -> Stored] /\ n \in Nat
  BY DEF LoopStates
<1>4. /\ Numbered(hist, n) /\ Replays(recs, hist) /\ Apart(hist) /\ OwnersStay(recs, hist)
  BY DEF Consistent
<1>5. k[1] = PartitionOf(a, c.table) /\ k[2] = c.table
  OBVIOUS
<1> HIDE DEF k, row, old, recs, recs2, n
<1>6. recs2[k] = WrittenRecord(s, a, c) /\ \A j \in Keys : j # k => recs2[j] = recs[j]
  BY <1>1, <1>3
<1>7. Numbered(hist \cup {row}, n + 1)
  <2>1. \A e \in hist : e.seq \in Nat /\ e.seq <= n
    BY <1>4, RowIs DEF Numbered
  <2>2. ASSUME NEW e \in hist \cup {row}
        PROVE  e.seq <= n + 1 /\ \A f \in hist \cup {row} : e.seq = f.seq => e = f
    BY <2>1, <1>2, <1>3, <1>4 DEF Numbered
  <2> QED
    BY <2>2 DEF Numbered
<1>8. Replays(recs2, hist \cup {row})
  <2>1. {row} \in SUBSET Row
    BY <1>1
  <2>2. \A e \in {row} : e.seq > n /\ recs2[KeyOf(e)] = Recorded(e)
    BY <1>2, <1>3, <1>6
  <2>3. \A j \in Keys : (\A e \in {row} : KeyOf(e) # j) => recs2[j] = recs[j]
    BY <1>2, <1>6
  <2> QED
    BY <2>1, <2>2, <2>3, <1>3, <1>4, MoreRows
<1>9. /\ k[1] \in Users => old.owner \in {k[1], NoOwner}
      /\ k[1] \in Users /\ old.op = "put" => old.owner = k[1]
      /\ k[1] = Shared /\ IsPrivate(k[2]) => old.owner = NoOwner
  BY <1>1, <1>4, RecordsApart DEF old, recs
<1>10. /\ row.partition \in Users => IsPrivate(row.table) /\ row.partition = a /\ a \in Users
       /\ row.partition = Shared /\ IsPrivate(row.table) => a \notin Users
  BY <1>2, SqliteAssumption DEF PartitionOf
<1>11. Apart(hist \cup {row})
  <2>1. row.partition \in Users => /\ row.owner \in {row.partition, NoOwner}
                                   /\ row.op = "put" => row.owner = row.partition
    <3> SUFFICES ASSUME row.partition \in Users
                 PROVE  /\ row.owner \in {row.partition, NoOwner}
                        /\ row.op = "put" => row.owner = row.partition
      OBVIOUS
    <3>1. a \in Users /\ row.partition = a /\ k[1] = a
      BY <1>2, <1>5, <1>10
    <3>2. CASE c.op = "delete" \/ old.op = "put"
      <4>1. row.owner = old.owner
        BY <3>2, <1>2 DEF OwnerAfter
      <4> QED
        BY <4>1, <3>1, <3>2, <1>2, <1>9
    <3>3. CASE ~(c.op = "delete" \/ old.op = "put")
      <4>1. row.owner = a
        BY <3>1, <3>3, <1>2 DEF OwnerAfter
      <4> QED
        BY <4>1, <3>1
    <3> QED
      BY <3>2, <3>3
  <2>2. row.partition = Shared /\ IsPrivate(row.table) => row.owner = NoOwner
    BY <1>2, <1>5, <1>9, <1>10 DEF OwnerAfter
  <2>3. \A e \in hist \cup {row} :
          /\ e.partition \in Users =>
               /\ IsPrivate(e.table)
               /\ e.owner \in {e.partition, NoOwner}
               /\ e.op = "put" => e.owner = e.partition
          /\ e.partition = Shared /\ IsPrivate(e.table) => e.owner = NoOwner
    BY <2>1, <2>2, <1>4, <1>10 DEF Apart
  <2> QED
    BY <2>3 DEF Apart
<1>12. OwnersStay(recs2, hist \cup {row})
  <2> SUFFICES ASSUME NEW e \in hist \cup {row}, e.partition \in Users, e.owner = e.partition
               PROVE  recs2[KeyOf(e)].owner = e.partition
    BY DEF OwnersStay
  <2>1. e \in Row
    BY <1>1
  <2>2. KeyOf(e) \in Keys /\ KeyOf(e)[1] = e.partition
    BY <2>1, RowIs
  <2>3. CASE e = row
    BY <2>3, <1>2, <1>6
  <2>4. CASE e \in hist /\ KeyOf(e) # k
    BY <2>2, <2>4, <1>4, <1>6 DEF OwnersStay
  <2>5. CASE e \in hist /\ KeyOf(e) = k
    <3>1. old.owner = e.partition
      BY <2>5, <1>4 DEF OwnersStay, old, recs
    <3>2. a = e.partition /\ a \in Users
      BY <2>2, <2>5, <1>2, <1>5, <1>10
    <3>3. OwnerAfter(a, c, old) = e.partition
      BY <3>1, <3>2 DEF OwnerAfter
    <3> QED
      BY <3>3, <2>5, <1>2, <1>6
  <2> QED
    BY <2>3, <2>4, <2>5
<1>13. Consistent(recs2, hist \cup {row}, n + 1)
  BY <1>7, <1>8, <1>11, <1>12 DEF Consistent
<1> QED
  BY <1>1, <1>13 DEF recs2, row, n

\* What a loop has written so far goes together with what was logged before.
Ongoing(s) ==
  /\ Grown(s)
  /\ Consistent(s.records, history \cup s.log, s.autoincrement)
  /\ \A e \in s.log \ db.log : e.seq > db.autoincrement

LEMMA TurnGoesOn ==
  ASSUME Types, NEW p, NEW s, Ongoing(s), NEW a \in Actors, NEW c \in Change
  PROVE  Ongoing(Turn(p, a, s, c))
<1>1. /\ s \in LoopStates /\ s.autoincrement \in Nat /\ s.log \subseteq Row
      /\ db \in Dbs /\ db.autoincrement \in Nat /\ history \subseteq Row
      /\ db.autoincrement <= s.autoincrement
      /\ Consistent(s.records, history \cup s.log, s.autoincrement)
      /\ \A e \in s.log \ db.log : e.seq > db.autoincrement
  BY DEF Ongoing, Grown, LoopStates, Types, Dbs
<1>2. Grown(Turn(p, a, s, c))
  BY <1>1, TurnGrows DEF Ongoing
<1>3. CASE Turn(p, a, s, c) = s
  BY <1>3
<1>4. CASE Turn(p, a, s, c) = [s EXCEPT !.ok = FALSE]
  <2> DEFINE x == [s EXCEPT !.ok = FALSE]
  <2>1. x.records = s.records /\ x.log = s.log /\ x.autoincrement = s.autoincrement
    BY <1>1 DEF LoopStates
  <2> HIDE DEF x
  <2> QED
    BY <2>1, <1>1, <1>2, <1>4 DEF Ongoing, x
<1>5. CASE Turn(p, a, s, c) = Written(s, a, c)
  <2> DEFINE row == WrittenRow(s, a, c)
             x == Written(s, a, c)
  <2>1. /\ row \in Row
        /\ x.log = s.log \cup {row}
        /\ x.autoincrement = s.autoincrement + 1
    BY <1>1, WrittenIs
  <2>2. row.seq = s.autoincrement + 1
    BY <1>1, WrittenTogether
  <2>3. Consistent(x.records, (history \cup s.log) \cup {row}, x.autoincrement)
    BY <1>1, WriteConsistent
  <2> HIDE DEF x, row
  <2>4. history \cup x.log = (history \cup s.log) \cup {row}
    BY <2>1
  <2>5. \A e \in x.log \ db.log : e.seq > db.autoincrement
    BY <2>1, <2>2, <1>1
  <2> QED
    BY <2>3, <2>4, <2>5, <1>2, <1>5 DEF Ongoing, x
<1> QED
  BY <1>1, <1>3, <1>4, <1>5, TurnIs

\* What is stored is what has been logged last, and numbers come in order.
DataInv ==
  /\ db.log \subseteq history
  /\ Consistent(db.records, history, db.autoincrement)
  /\ \A n \in given : n <= db.autoincrement

LEMMA LoopGoesOn ==
  ASSUME Types, DataInv, NEW p, NEW a \in Actors, NEW batch \in Batches
  PROVE  Ongoing(AfterLoop(p, a, batch))
<1> DEFINE S == {s \in LoopStates : Ongoing(s)}
<1>1. db \in Dbs
  BY DEF Types
<1>2. LoopStart \in S
  <2>1. /\ db.records \in [Keys -> Stored] /\ db.log \in SUBSET Row
        /\ db.autoincrement \in Nat
    BY <1>1 DEF Dbs
  <2>2. LoopStart \in LoopStates
    BY <2>1 DEF LoopStart, LoopStates
  <2>3. /\ LoopStart.log = db.log /\ LoopStart.autoincrement = db.autoincrement
        /\ LoopStart.records = db.records
    BY DEF LoopStart
  <2>4. Grown(LoopStart)
    BY <2>1, <2>2, <2>3 DEF Grown
  <2>5. history \cup db.log = history
    BY DEF DataInv
  <2>6. Ongoing(LoopStart)
    BY <2>3, <2>4, <2>5 DEF Ongoing, DataInv
  <2> QED
    BY <2>2, <2>6
<1>3. ASSUME NEW s \in S, NEW i \in 1..Len(batch)
      PROVE  Turn(p, a, s, batch[i]) \in S
  <2>1. batch[i] \in Change /\ Ongoing(s)
    BY BatchIsSeq
  <2>2. Ongoing(Turn(p, a, s, batch[i]))
    BY <2>1, TurnGoesOn
  <2> QED
    BY <2>2 DEF Ongoing, Grown
<1>4. AfterLoop(p, a, batch) \in S
  <2> HIDE DEF S
  <2> QED
    BY <1>2, <1>3, BatchIsSeq, LoopRule
<1> QED
  BY <1>4

\* What a batch makes of the database and of what was ever logged.
LEMMA BatchData ==
  ASSUME Types, CountersBehind, DataInv, NEW p, NEW a \in Actors, NEW batch \in Batches,
         Batched(p, a, batch)
  PROVE  /\ DataInv'
         /\ \A e \in history' \ history : e.seq > db.autoincrement
<1> DEFINE s == AfterLoop(p, a, batch)
<1>1. Ongoing(s)
  BY LoopGoesOn
<1> HIDE DEF s
<1>2. /\ s \in LoopStates /\ db' = Finished(s)
      /\ history' = history \cup (s.log \ db.log)
      /\ given' = given \cup {e.seq : e \in s.log \ db.log}
  BY DEF Batched, s
<1>3. /\ db \in Dbs /\ db.autoincrement \in Nat /\ s.autoincrement \in Nat
      /\ db.autoincrement <= s.autoincrement /\ given \subseteq Nat
      /\ s.log \subseteq Row
  BY <1>1, <1>2 DEF Types, Dbs, LoopStates, Ongoing, Grown
<1>4. /\ db'.records = s.records /\ db'.autoincrement = s.autoincrement
      /\ db'.log \subseteq s.log
  BY <1>2, <1>3, FinishedIs DEF CountersBehind
<1>5. history' = history \cup s.log
  BY <1>2 DEF DataInv
<1>6. Consistent(s.records, history', s.autoincrement)
  BY <1>1, <1>5 DEF Ongoing
<1>7. \A n \in given' : n <= s.autoincrement
  <2>1. \A e \in s.log : e.seq <= s.autoincrement
    BY <1>5, <1>6 DEF Consistent, Numbered
  <2>2. \A n \in given : n <= s.autoincrement
    BY <1>3 DEF DataInv
  <2> QED
    BY <2>1, <2>2, <1>2
<1>8. \A e \in history' \ history : e.seq > db.autoincrement
  BY <1>1, <1>2 DEF Ongoing
<1> QED
  BY <1>4, <1>5, <1>6, <1>7, <1>8 DEF DataInv

LEMMA DropData ==
  ASSUME Types, DataInv, NEW t \in Tables, Dropped(t)
  PROVE  DataInv' /\ history' \subseteq history
<1>1. /\ db \in Dbs /\ db.records \in [Keys -> Stored] /\ history \subseteq Row
  BY DEF Types, Dbs
<1>2. /\ db'.records = [k \in Keys |-> IF k[2] = t THEN Absent ELSE db.records[k]]
      /\ db'.log = {e \in db.log : e.table # t}
      /\ db'.autoincrement = db.autoincrement
      /\ history' = {e \in history : e.table # t} /\ given' = given
  BY DEF Dropped
<1>3. Numbered(history, db.autoincrement) /\ Replays(db.records, history) /\ Apart(history)
      /\ OwnersStay(db.records, history)
  BY DEF DataInv, Consistent
<1>4. ASSUME NEW k \in Keys
      PROVE  \/ db'.records[k] = Absent /\ RowsOf(history', k) = {}
             \/ db'.records[k] = db.records[k] /\ RowsOf(history', k) = RowsOf(history, k)
  <2>1. \A e \in history : KeyOf(e) = k => e.table = k[2]
    BY <1>1, RowIs
  <2>2. CASE k[2] = t
    BY <2>1, <2>2, <1>2 DEF RowsOf
  <2>3. CASE k[2] # t
    BY <2>1, <2>3, <1>2 DEF RowsOf
  <2> QED
    BY <2>2, <2>3
<1>5. history' \subseteq history
  BY <1>2
<1>6. Replays(db'.records, history')
  BY <1>3, <1>4, <1>5, FewerRows
<1>7. Numbered(history', db'.autoincrement)
  BY <1>2, <1>3, <1>5 DEF Numbered
<1>8. Apart(history')
  BY <1>3, <1>5 DEF Apart
<1>9. OwnersStay(db'.records, history')
  <2>1. ASSUME NEW e \in history' PROVE db'.records[KeyOf(e)] = db.records[KeyOf(e)]
    <3>1. e \in Row /\ e.table # t
      BY <1>1, <1>2
    <3>2. KeyOf(e) \in Keys /\ KeyOf(e)[2] # t
      BY <3>1, RowIs
    <3> QED
      BY <3>2, <1>2
  <2> QED
    BY <2>1, <1>3, <1>5 DEF OwnersStay
<1>10. db'.log \subseteq history'
  BY <1>2 DEF DataInv
<1>11. \A n \in given' : n <= db'.autoincrement
  BY <1>2 DEF DataInv
<1> QED
  BY <1>5, <1>6, <1>7, <1>8, <1>9, <1>10, <1>11 DEF DataInv, Consistent

Dead(r, now) == [r EXCEPT !.op = "delete", !.ts = now]

LEMMA SameRecord ==
  ASSUME NEW q \in Stored, NEW r \in Stored,
         q.op = r.op, q.ts = r.ts, q.cid = r.cid, q.owner = r.owner
  PROVE  q = r
BY DEF Stored

LEMMA DeadIs ==
  ASSUME NEW r \in Stored, NEW now \in Nat
  PROVE  /\ Dead(r, now) \in Stored
         /\ Dead(r, now).op = "delete" /\ Dead(r, now).ts = now
         /\ Dead(r, now).cid = r.cid /\ Dead(r, now).owner = r.owner
BY DEF Stored, Dead

\* A tombstone is what becomes of its record.
LEMMA TombsRecorded ==
  ASSUME db \in Dbs, NEW u \in Users, NEW now \in Timestamps, NEW e \in Tombs(u, now)
  PROVE  Dead(db.records[KeyOf(e)], now) = Recorded(e)
<1>1. /\ e.op = "delete" /\ e.ts = now /\ e.owner = u /\ KeyOf(e) \in MadeBy(u)
      /\ e.cid = db.records[KeyOf(e)].cid
  BY TombsAre DEF KeyOf
<1>2. db.records[KeyOf(e)] \in Stored /\ db.records[KeyOf(e)].owner = u
  BY <1>1 DEF MadeBy, Dbs
<1>3. /\ now \in Nat /\ e \in Row
  BY TombsAre, Numbers
<1>4. /\ Recorded(e) \in Stored
      /\ Recorded(e).op = e.op /\ Recorded(e).ts = e.ts
      /\ Recorded(e).cid = e.cid /\ Recorded(e).owner = e.owner
  BY <1>3, RowIs DEF Recorded
<1> QED
  BY <1>1, <1>2, <1>3, <1>4, DeadIs, SameRecord

LEMMA BuryData ==
  ASSUME Types, DataInv, NEW u \in Users, NEW now \in Timestamps, Buried(u, now)
  PROVE  /\ DataInv'
         /\ \A e \in history' \ history : e.seq > db.autoincrement
<1> DEFINE tombs == Tombs(u, now)
           between == [k \in Keys |->
                         IF k \in MadeBy(u) THEN Dead(db.records[k], now)
                         ELSE db.records[k]]
           all == history \cup tombs
           n == db.autoincrement
<1>1. /\ db \in Dbs /\ db.records \in [Keys -> Stored] /\ history \subseteq Row
      /\ n \in Nat /\ given \subseteq Nat /\ MadeBy(u) \subseteq Keys
  BY DEF Types, Dbs, MadeBy
<1>2. /\ db'.records = Without(u, now)
      /\ db'.log = {e \in db.log \cup tombs : e.partition # u}
      /\ db'.autoincrement = TombsEnd(u)
      /\ history' = {e \in all : e.partition # u}
      /\ given' = given \cup {e.seq : e \in tombs}
  BY DEF Buried
<1>3. /\ tombs \subseteq Row
      /\ TombsEnd(u) \in Nat /\ TombsEnd(u) >= n
      /\ \A e \in tombs :
           /\ e.seq > n /\ e.seq <= TombsEnd(u)
           /\ e.partition = Shared /\ e.owner = u /\ e.op = "delete"
           /\ KeyOf(e) \in MadeBy(u)
      /\ \A e, f \in tombs : /\ e.seq = f.seq => e = f
                             /\ KeyOf(e) = KeyOf(f) => e = f
      /\ \A k \in MadeBy(u) : \E e \in tombs : KeyOf(e) = k
  BY <1>1, TombsAre DEF KeyOf
<1>4. Numbered(history, n) /\ Replays(db.records, history) /\ Apart(history)
      /\ OwnersStay(db.records, history)
  BY DEF DataInv, Consistent
<1>5. \A e \in tombs : between[KeyOf(e)] = Recorded(e)
  <2> SUFFICES ASSUME NEW e \in tombs PROVE between[KeyOf(e)] = Recorded(e)
    OBVIOUS
  <2>1. Dead(db.records[KeyOf(e)], now) = Recorded(e)
    BY <1>1, TombsRecorded
  <2>2. KeyOf(e) \in MadeBy(u) /\ KeyOf(e) \in Keys
    BY <1>1, <1>3
  <2> QED
    BY <2>1, <2>2
<1>6. \A k \in Keys : k \notin MadeBy(u) => between[k] = db.records[k]
  OBVIOUS
<1>7. /\ u # Shared
      /\ \A k \in Keys : k \in MadeBy(u) => k[1] = Shared /\ db.records[k].owner = u
  BY SqliteAssumption DEF MadeBy
<1>8. \A k \in Keys : Without(u, now)[k] = IF k[1] = u THEN Absent ELSE between[k]
  BY DEF Without, Dead
<1> HIDE DEF tombs, between, all, n
<1>9. Replays(between, all)
  <2>1. \A k \in Keys : (\A e \in tombs : KeyOf(e) # k) => between[k] = db.records[k]
    BY <1>3, <1>6
  <2> QED
    BY <2>1, <1>1, <1>3, <1>4, <1>5, MoreRows DEF all
<1>10. Numbered(all, TombsEnd(u))
  <2>1. \A e \in history : e.seq \in Nat /\ e.seq <= n
    BY <1>1, <1>4, RowIs DEF Numbered
  <2>2. \A e \in tombs : e.seq \in Nat
    BY <1>3, RowIs
  <2>3. ASSUME NEW e \in all
        PROVE e.seq <= TombsEnd(u) /\ \A f \in all : e.seq = f.seq => e = f
    <3>1. CASE e \in history
      BY <3>1, <2>1, <2>2, <1>1, <1>3, <1>4 DEF Numbered, all
    <3>2. CASE e \in tombs
      BY <3>2, <2>1, <2>2, <1>1, <1>3, <1>4 DEF all
    <3> QED
      BY <3>1, <3>2 DEF all
  <2> QED
    BY <2>3 DEF Numbered
<1>11. Apart(all)
  <2>1. ASSUME NEW e \in tombs PROVE e.partition = Shared /\ ~IsPrivate(e.table)
    <3>1. KeyOf(e) \in Keys /\ KeyOf(e)[1] = Shared /\ KeyOf(e)[2] = e.table
      BY <1>3, RowIs
    <3>2. db.records[KeyOf(e)].owner = u /\ u # NoOwner
      BY <3>1, <1>3, <1>7, ActorsAssumption
    <3>3. ~IsPrivate(e.table)
      BY <3>1, <3>2, <1>1, <1>4, RecordsApart
    <3> QED
      BY <3>3, <1>3
  <2> QED
    BY <2>1, <1>4, SqliteAssumption DEF Apart, all
<1>12. history' \subseteq all
  BY <1>2
<1>13. all \subseteq Row
  BY <1>1, <1>3 DEF all
<1>14. Replays(db'.records, history')
  <2>1. ASSUME NEW k \in Keys
        PROVE  \/ Without(u, now)[k] = Absent /\ RowsOf(history', k) = {}
               \/ Without(u, now)[k] = between[k] /\ RowsOf(history', k) = RowsOf(all, k)
    <3>1. \A e \in all : KeyOf(e) = k => e.partition = k[1]
      BY <1>13, RowIs
    <3>2. CASE k[1] = u
      BY <3>1, <3>2, <1>2, <1>8 DEF RowsOf
    <3>3. CASE k[1] # u
      BY <3>1, <3>3, <1>2, <1>8 DEF RowsOf
    <3> QED
      BY <3>2, <3>3
  <2>2. Replays(Without(u, now), history')
    <3> HIDE DEF KeyOf
    <3> QED
      BY <2>1, <1>9, <1>12, FewerRows
  <2> QED
    BY <2>2, <1>2
<1>15. Numbered(history', db'.autoincrement)
  BY <1>2, <1>10, <1>12 DEF Numbered
<1>16. Apart(history')
  BY <1>11, <1>12 DEF Apart
<1>17. OwnersStay(db'.records, history')
  <2> SUFFICES ASSUME NEW e \in history', e.partition \in Users, e.owner = e.partition
               PROVE  db'.records[KeyOf(e)].owner = e.partition
    BY DEF OwnersStay
  <2>1. e \in Row /\ e \in history /\ e.partition # u /\ e.partition # Shared
    BY <1>2, <1>3, <1>13, SqliteAssumption DEF all
  <2>2. KeyOf(e) \in Keys /\ KeyOf(e)[1] = e.partition
    BY <2>1, RowIs
  <2>3. KeyOf(e) \notin MadeBy(u)
    BY <2>1, <2>2, <1>7
  <2>4. db'.records[KeyOf(e)] = db.records[KeyOf(e)]
    BY <2>1, <2>2, <2>3, <1>2, <1>6, <1>8
  <2> QED
    BY <2>1, <2>4, <1>4 DEF OwnersStay
<1>18. db'.log \subseteq history'
  BY <1>2 DEF DataInv, all
<1>19. \A m \in given' : m <= db'.autoincrement
  <2>1. \A m \in given : m <= TombsEnd(u)
    BY <1>1, <1>3 DEF DataInv, n
  <2> QED
    BY <2>1, <1>2, <1>3
<1>20. \A e \in history' \ history : e.seq > db.autoincrement
  BY <1>2, <1>3 DEF all, n
<1> QED
  BY <1>14, <1>15, <1>16, <1>17, <1>18, <1>19, <1>20 DEF DataInv, Consistent

LEMMA DataPreserved ==
  Types /\ CountersBehind /\ DataInv /\ [Next]_vars =>
    /\ DataInv'
    /\ \A e \in history' \ history : e.seq > db.autoincrement
<1> SUFFICES ASSUME Types, CountersBehind, DataInv, [Next]_vars
             PROVE  DataInv' /\ \A e \in history' \ history : e.seq > db.autoincrement
  OBVIOUS
<1>1. CASE Unmoved
  BY <1>1 DEF Unmoved, DataInv
<1>2. ASSUME NEW t \in Tables, Dropped(t)
      PROVE  DataInv' /\ \A e \in history' \ history : e.seq > db.autoincrement
  BY <1>2, DropData
<1> QED
  BY <1>1, <1>2, BatchData, BuryData, StepIs

LEMMA InitData == Init => DataInv
<1> SUFFICES ASSUME Init PROVE DataInv
  OBVIOUS
<1>1. /\ db.log = {} /\ history = {} /\ given = {} /\ db.autoincrement = 0
      /\ db.records = [k \in Keys |-> Absent]
  BY DEF Init
<1>2. Replays(db.records, {})
  <2>1. \A k \in Keys : db.records[k] = Absent /\ RowsOf({}, k) = {}
    BY <1>1 DEF RowsOf
  <2> QED
    BY <2>1 DEF Replays, Follows
<1>3. Consistent(db.records, {}, 0)
  BY <1>2 DEF Consistent, Numbered, Apart, OwnersStay
<1> QED
  BY <1>1, <1>3 DEF DataInv

\* The database always holds what was logged last of every record.
THEOREM DataWellKept == Spec => [](Types /\ CountersBehind /\ DataInv)
<1>1. Init => Types /\ CountersBehind /\ DataInv
  BY InitTypes, InitData
<1>2. Types /\ CountersBehind /\ DataInv /\ [Next]_vars => (Types /\ CountersBehind /\ DataInv)'
  BY TypesPreserved, CountersPreserved, DataPreserved
<1> QED
  BY <1>1, <1>2, PTL DEF Spec

\* A change is never logged under a number that was given out before, though
\* the rows that had the last numbers may have gone with their table, their
\* user or by pruning.
THEOREM NumbersStayFresh == Spec => NumbersAreFresh
<1> DEFINE Fresh == \A e \in history' \ history :
                      (\A n \in given : n < e.seq) /\ \A f \in history' : e.seq = f.seq => e = f
<1>1. Types /\ CountersBehind /\ DataInv /\ Types' /\ DataInv' /\ [Next]_vars => [Fresh]_vars
  <2> SUFFICES ASSUME Types, CountersBehind, DataInv, Types', DataInv', [Next]_vars,
                      NEW e \in history' \ history
               PROVE  /\ \A n \in given : n < e.seq
                      /\ \A f \in history' : e.seq = f.seq => e = f
    BY Zenon
  <2>1. e.seq > db.autoincrement
    BY DataPreserved
  <2>2. e.seq \in Nat /\ db.autoincrement \in Nat /\ given \subseteq Nat
    BY RowIs DEF Types, Dbs
  <2>3. \A n \in given : n < e.seq
    BY <2>1, <2>2 DEF DataInv
  <2>4. \A f \in history' : e.seq = f.seq => e = f
    BY DEF DataInv, Consistent, Numbered
  <2> QED
    BY <2>3, <2>4
<1> QED
  BY <1>1, DataWellKept, PTL DEF Spec, NumbersAreFresh

-----------------------------------------------------------------------------
(* Snapshots and the log                                                   *)

\* A table is read by all of its rows or, if it is private, by whose they are.
LEMMA ReadIs ==
  ASSUME NEW reader \in Readers, NEW t \in Tables, NEW e, e.table = t
  PROVE  /\ IsPrivate(t) => (CanReadChange(reader, e) <=> reader \in Users /\ e.owner = reader)
         /\ ~IsPrivate(t) => (CanReadChange(reader, e) <=> CanAccess(Settings[t].read, reader))
         /\ ~IsPrivate(t) =>
              \A o : CanAccess(Settings[t].read, reader) =>
                       IsPermissionAllowed(Settings[t].read, reader, o)
<1>1. /\ Settings[t].read \in Levels /\ reader # Admin
      /\ reader \in Users \/ reader = Anonymous
      /\ Anonymous \notin Users
  BY SettingsAssumption, ActorsAssumption DEF Readers
<1>2. ASSUME ~IsPrivate(t), NEW o, CanAccess(Settings[t].read, reader)
      PROVE  IsPermissionAllowed(Settings[t].read, reader, o)
  BY <1>1, <1>2 DEF IsPrivate, CanAccess, IsPermissionAllowed, Levels
<1>3. CASE IsPrivate(t)
  BY <1>1, <1>3 DEF IsPrivate, CanAccess, IsPermissionAllowed, CanReadChange
<1>4. CASE ~IsPrivate(t)
  BY <1>2, <1>4 DEF CanReadChange
<1> QED
  BY <1>2, <1>3, <1>4

\* What of record k a snapshot shows to a reader.
LEMMA ShownIs ==
  ASSUME NEW reader \in Readers, NEW k \in Keys
  PROVE  k \in Snapshot(reader) <=>
           /\ db.records[k].op = "put"
           /\ IF IsPrivate(k[2])
              THEN reader \in Users /\ k[1] = reader /\ db.records[k].owner = reader
              ELSE k[1] = Shared /\ CanAccess(Settings[k[2]].read, reader)
<1>1. /\ reader # Admin /\ (reader \in Users \/ reader = Anonymous)
      /\ Anonymous \notin Users /\ NoOwner \notin Users /\ Shared \notin Users
      /\ k[1] \in Users \/ k[1] = Shared
      /\ k[2] \in Tables
  BY ActorsAssumption, SqliteAssumption, KeyIsTriple DEF Readers, Partitions
<1>2. Settings[k[2]].read \in Levels
  BY <1>1, SettingsAssumption
<1>3. k \in Snapshot(reader) <=>
        /\ db.records[k].op = "put"
        /\ InSnapshot(reader, k[2], IF k[1] = Shared THEN NoOwner ELSE k[1], db.records[k])
  BY DEF Snapshot
<1>4. CASE IsPrivate(k[2])
  BY <1>1, <1>3, <1>4, ActorsAssumption
     DEF Readers, InSnapshot, IsPrivate, CanAccess, IsPermissionAllowed
<1>5. CASE ~IsPrivate(k[2])
  BY <1>1, <1>2, <1>3, <1>5, ActorsAssumption
     DEF Readers, InSnapshot, IsPrivate, CanAccess, IsPermissionAllowed, Levels
<1> QED
  BY <1>4, <1>5

\* Whoever follows the log, filtered for him, from its beginning shows what a
\* snapshot gives him.
THEOREM SnapshotsAreReplays == Spec => []SnapshotIsReplay
<1>1. Types /\ CountersBehind /\ DataInv => SnapshotIsReplay
  <2> SUFFICES ASSUME Types, DataInv, NEW reader \in Readers
               PROVE  LET told == {e \in history : CanReadChange(reader, e)}
                          last(k) == {e \in told : /\ KeyOf(e) = k
                                                   /\ \A f \in told : KeyOf(f) = k => f.seq <= e.seq}
                      IN  Snapshot(reader) = {k \in Keys : \E e \in last(k) : e.op = "put"}
    BY DEF SnapshotIsReplay, KeyOf
  <2> DEFINE told == {e \in history : CanReadChange(reader, e)}
             last(k) == {e \in told : /\ KeyOf(e) = k
                                      /\ \A f \in told : KeyOf(f) = k => f.seq <= e.seq}
  <2>1. /\ history \subseteq Row /\ db.records \in [Keys -> Stored]
        /\ Numbered(history, db.autoincrement) /\ Replays(db.records, history) /\ Apart(history)
        /\ OwnersStay(db.records, history)
    BY DEF Types, Dbs, DataInv, Consistent
  <2>2. ASSUME NEW k \in Keys
        PROVE  k \in Snapshot(reader) <=> \E e \in last(k) : e.op = "put"
    <3>1. k[1] \in Partitions /\ k[2] \in Tables
      BY KeyIsTriple
    <3>2. \A e \in RowsOf(history, k) : /\ e \in history /\ e \in Row /\ KeyOf(e) = k
                                        /\ e.table = k[2] /\ e.partition = k[1]
                                        /\ e.seq \in Nat
      BY <2>1, RowIs DEF RowsOf
    <3>3. Follows(db.records[k], RowsOf(history, k))
      BY <2>1 DEF Replays
    <3>4. \A e : e \in last(k) <=>
                   /\ e \in RowsOf(history, k) /\ CanReadChange(reader, e)
                   /\ \A f \in RowsOf(history, k) : CanReadChange(reader, f) => f.seq <= e.seq
      BY DEF RowsOf
    <3>5. \A e, f \in RowsOf(history, k) : e.seq <= f.seq /\ f.seq <= e.seq => e = f
      BY <3>2, <2>1 DEF Numbered
    <3> HIDE DEF last, told
    <3>6. CASE IsPrivate(k[2])
      <4>1. \A e \in RowsOf(history, k) :
              CanReadChange(reader, e) <=> reader \in Users /\ e.owner = reader
        BY <3>1, <3>2, <3>6, ReadIs
      <4>2. k \in Snapshot(reader) <=>
              /\ db.records[k].op = "put"
              /\ reader \in Users /\ k[1] = reader /\ db.records[k].owner = reader
        BY <3>6, ShownIs
      <4>3. ASSUME k \in Snapshot(reader)
            PROVE  \E e \in last(k) : e.op = "put"
        <5>1. PICK e \in RowsOf(history, k) :
                 db.records[k] = Recorded(e) /\ \A f \in RowsOf(history, k) : f.seq <= e.seq
          BY <4>2, <4>3, <3>3 DEF Follows, Absent
        <5>2. e.op = "put" /\ e.owner = reader
          BY <5>1, <4>2, <4>3 DEF Recorded
        <5> QED
          BY <5>1, <5>2, <4>1, <4>2, <4>3, <3>4
      <4>4. ASSUME NEW e \in last(k), e.op = "put"
            PROVE  k \in Snapshot(reader)
        <5>1. e \in RowsOf(history, k) /\ reader \in Users /\ e.owner = reader
          BY <3>4, <4>1
        <5>2. k[1] \in Users
          <6>1. CASE k[1] = Shared
            BY <6>1, <5>1, <3>2, <3>6, <2>1, ActorsAssumption DEF Apart
          <6> QED
            BY <6>1, <3>1 DEF Partitions
        <5>3. k[1] = reader
          BY <5>1, <5>2, <3>2, <2>1, ActorsAssumption DEF Apart
        <5>4. db.records[k].owner = reader
          BY <5>1, <5>2, <5>3, <3>2, <2>1 DEF OwnersStay
        <5>5. PICK f \in RowsOf(history, k) :
                 db.records[k] = Recorded(f) /\ \A g \in RowsOf(history, k) : g.seq <= f.seq
          BY <5>1, <3>3 DEF Follows
        <5>6. f.owner = reader
          BY <5>4, <5>5 DEF Recorded
        <5>7. e = f
          BY <5>1, <5>5, <5>6, <4>1, <3>4, <3>5
        <5> QED
          BY <5>1, <5>3, <5>4, <5>5, <5>7, <4>2, <4>4 DEF Recorded
      <4> QED
        BY <4>3, <4>4
    <3>7. CASE ~IsPrivate(k[2])
      <4>1. \A e \in RowsOf(history, k) :
              CanReadChange(reader, e) <=> CanAccess(Settings[k[2]].read, reader)
        BY <3>1, <3>2, <3>7, ReadIs
      <4>2. k \in Snapshot(reader) <=>
              /\ db.records[k].op = "put"
              /\ k[1] = Shared /\ CanAccess(Settings[k[2]].read, reader)
        BY <3>7, ShownIs
      <4>3. ASSUME k \in Snapshot(reader)
            PROVE  \E e \in last(k) : e.op = "put"
        <5>1. PICK e \in RowsOf(history, k) :
                 db.records[k] = Recorded(e) /\ \A f \in RowsOf(history, k) : f.seq <= e.seq
          BY <4>2, <4>3, <3>3 DEF Follows, Absent
        <5>2. e.op = "put"
          BY <5>1, <4>2, <4>3 DEF Recorded
        <5> QED
          BY <5>1, <5>2, <4>1, <4>2, <4>3, <3>4
      <4>4. ASSUME NEW e \in last(k), e.op = "put"
            PROVE  k \in Snapshot(reader)
        <5>1. e \in RowsOf(history, k) /\ CanAccess(Settings[k[2]].read, reader)
          BY <3>4, <4>1
        <5>2. k[1] = Shared
          BY <5>1, <3>1, <3>2, <3>7, <2>1 DEF Apart, Partitions
        <5>3. PICK f \in RowsOf(history, k) :
                 db.records[k] = Recorded(f) /\ \A g \in RowsOf(history, k) : g.seq <= f.seq
          BY <5>1, <3>3 DEF Follows
        <5>4. e = f
          BY <5>1, <5>3, <4>1, <3>4, <3>5
        <5> QED
          BY <5>1, <5>2, <5>3, <5>4, <4>2, <4>4 DEF Recorded
      <4> QED
        BY <4>3, <4>4
    <3> QED
      BY <3>6, <3>7
  <2>3. Snapshot(reader) \subseteq Keys
    BY DEF Snapshot
  <2> QED
    BY <2>2, <2>3
<1> QED
  BY <1>1, DataWellKept, PTL

-----------------------------------------------------------------------------
(* Tables that are gone                                                    *)

\* Unless a table was deleted under the feet of the other process, every
\* process knows only tables that there are, and records are only in them.
CacheInv ==
  "table" \notin disturbed =>
    /\ \A p \in Processes : cache[p] \subseteq db.tables
    /\ \A k \in Keys : db.records[k].op # "none" => k[2] \in db.tables

LEMMA LoopKnows ==
  ASSUME Types, NEW p, NEW a \in Actors, NEW batch \in Batches,
         cache[p] \subseteq db.tables,
         \A k \in Keys : db.records[k].op # "none" => k[2] \in db.tables
  PROVE  \A k \in Keys : AfterLoop(p, a, batch).records[k].op # "none" => k[2] \in db.tables
<1> DEFINE Kept(s) == \A k \in Keys : s.records[k].op # "none" => k[2] \in db.tables
           S == {s \in LoopStates : Kept(s)}
<1>1. db \in Dbs
  BY DEF Types
<1>2. LoopStart \in S
  <2>1. /\ db.records \in [Keys -> Stored] /\ db.log \in SUBSET Row
        /\ db.autoincrement \in Nat
    BY <1>1 DEF Dbs
  <2>2. LoopStart \in LoopStates /\ LoopStart.records = db.records
    BY <2>1 DEF LoopStart, LoopStates
  <2> QED
    BY <2>2
<1>3. ASSUME NEW s \in LoopStates, Kept(s), NEW c \in Change
      PROVE  Turn(p, a, s, c) \in LoopStates /\ Kept(Turn(p, a, s, c))
  <2>1. CASE Turn(p, a, s, c) = s
    BY <2>1, <1>3
  <2>2. CASE Turn(p, a, s, c) = [s EXCEPT !.ok = FALSE]
    <3>1. [s EXCEPT !.ok = FALSE] \in LoopStates /\ [s EXCEPT !.ok = FALSE].records = s.records
      BY DEF LoopStates
    <3> QED
      BY <2>2, <3>1, <1>3
  <2>3. CASE Turn(p, a, s, c) = Written(s, a, c) /\ Known(p, c.table)
    <3> DEFINE j == <<PartitionOf(a, c.table), c.table, c.id>>
    <3>1. /\ Written(s, a, c) \in LoopStates /\ j \in Keys
          /\ Written(s, a, c).records = [s.records EXCEPT ![j] = WrittenRecord(s, a, c)]
      BY WrittenIs
    <3>2. j[2] = c.table /\ c.table \in db.tables
      BY <2>3 DEF Known
    <3>3. s.records \in [Keys -> Stored]
      BY DEF LoopStates
    <3> HIDE DEF j
    <3>4. Kept(Written(s, a, c))
      BY <3>1, <3>2, <3>3, <1>3
    <3> QED
      BY <3>1, <3>4, <2>3
  <2> QED
    BY <2>1, <2>2, <2>3, TurnIs
<1>4. ASSUME NEW s \in S, NEW i \in 1..Len(batch)
      PROVE  Turn(p, a, s, batch[i]) \in S
  <2>1. batch[i] \in Change
    BY BatchIsSeq
  <2> HIDE DEF Kept
  <2>2. s \in LoopStates /\ Kept(s)
    OBVIOUS
  <2>3. \A c \in Change : Turn(p, a, s, c) \in LoopStates /\ Kept(Turn(p, a, s, c))
    BY <2>2, <1>3
  <2> QED
    BY <2>1, <2>3
<1>5. AfterLoop(p, a, batch) \in S
  <2> HIDE DEF S
  <2> QED
    BY <1>2, <1>4, BatchIsSeq, LoopRule
<1> QED
  BY <1>5

\* What was once torn apart stays so.
LEMMA DisturbedGrows == [Next]_vars => disturbed \subseteq disturbed'
<1>1. ASSUME NEW w \in Workers,
             \/ \E named \in (SUBSET Tables) \ {{}} : Validate(w, named)
             \/ \E a \in Actors, batch \in Batches : Transact(w, a, batch)
             \/ GiveUp(w)
             \/ \E keep \in KeepCounts : Prune(w, keep)
             \/ PruneRows(w) \/ PruneMeta(w)
             \/ \E t \in Tables : CreateTable(w, t) \/ DeleteTable(w, t)
             \/ \E u \in Users : FindUser(w, u)
             \/ DeleteAccount(w)
             \/ \E now \in Timestamps : Bury(w, now)
      PROVE  disturbed \subseteq disturbed'
  BY <1>1 DEF Validate, Transact, GiveUp, Prune, PruneRows, PruneMeta, CreateTable,
              DeleteTable, FindUser, DeleteAccount, Bury
<1>2. ASSUME NEW p \in Processes, Close(p) \/ Restart(p) PROVE disturbed \subseteq disturbed'
  BY <1>2 DEF Close, Restart
<1> QED
  BY <1>1, <1>2 DEF Next, vars

LEMMA CachePreserved == Types /\ CountersBehind /\ CacheInv /\ [Next]_vars => CacheInv'
<1> SUFFICES ASSUME Types, CountersBehind, CacheInv, [Next]_vars, "table" \notin disturbed'
             PROVE  /\ \A p \in Processes : cache'[p] \subseteq db'.tables
                    /\ \A k \in Keys : db'.records[k].op # "none" => k[2] \in db'.tables
  BY DEF CacheInv
<1>1. /\ \A p \in Processes : cache[p] \subseteq db.tables
      /\ \A k \in Keys : db.records[k].op # "none" => k[2] \in db.tables
  BY DisturbedGrows DEF CacheInv
<1>2. db \in Dbs /\ cache \in [Processes -> SUBSET Tables] /\ db.records \in [Keys -> Stored]
  BY DEF Types, Dbs
<1> DEFINE Goal == /\ \A p \in Processes : cache'[p] \subseteq db'.tables
                   /\ \A k \in Keys : db'.records[k].op # "none" => k[2] \in db'.tables
<1>3. CASE UNCHANGED vars
  BY <1>1, <1>3 DEF vars
<1>4. ASSUME NEW w \in Workers, NEW named \in SUBSET Tables, Validate(w, named) PROVE Goal
  <2>1. /\ db' = db /\ cache' = [cache EXCEPT ![ProcessOf(w)] = @ \cup named]
        /\ \A t \in named : t \in cache[ProcessOf(w)] \cup db.tables
    BY <1>4 DEF Validate, Known
  <2>2. named \subseteq db.tables
    BY <2>1, <1>1, ProcessOfType
  <2> QED
    BY <2>1, <2>2, <1>1, <1>2, ProcessOfType
<1>5. ASSUME NEW w \in Workers, NEW a \in Actors, NEW batch \in Batches, Transact(w, a, batch)
      PROVE  Goal
  <2>1. cache' = [cache EXCEPT ![ProcessOf(w)] = @ \cup (job[w].tables \cap db.tables)]
    BY <1>5 DEF Transact
  <2>2. \A p \in Processes : cache'[p] \subseteq db.tables
    BY <2>1, <1>1, <1>2, ProcessOfType
  <2>3. CASE Batched(ProcessOf(w), a, batch)
    <3> DEFINE s == AfterLoop(ProcessOf(w), a, batch)
    <3>1. \A k \in Keys : s.records[k].op # "none" => k[2] \in db.tables
      BY <1>1, LoopKnows, ProcessOfType
    <3>2. s \in LoopStates /\ db.autoincrement <= s.autoincrement /\ db' = Finished(s)
      BY <2>3, <1>2, LoopGrows DEF Batched, Grown
    <3> HIDE DEF s
    <3>3. db'.tables = db.tables /\ db'.records = s.records
      BY <3>2, <1>2, FinishedIs DEF CountersBehind
    <3> QED
      BY <3>1, <3>3, <2>2
  <2>4. CASE db' = db
    BY <2>2, <2>4, <1>1
  <2> QED
    BY <1>5, <2>3, <2>4, TransactIs
<1>6. ASSUME NEW w \in Workers,
             \/ GiveUp(w)
             \/ \E keep \in KeepCounts : Prune(w, keep)
             \/ \E u \in Users : FindUser(w, u)
             \/ DeleteAccount(w)
      PROVE  Goal
  <2>1. db' = db /\ cache' = cache
    BY <1>6 DEF GiveUp, Prune, FindUser, DeleteAccount
  <2> QED
    BY <2>1, <1>1
<1>7. ASSUME NEW w \in Workers, PruneRows(w) \/ PruneMeta(w) PROVE Goal
  <2>1. db'.tables = db.tables /\ db'.records = db.records /\ cache' = cache
    BY <1>7, <1>2 DEF PruneRows, PruneMeta, Dbs
  <2> QED
    BY <2>1, <1>1
<1>8. ASSUME NEW w \in Workers, NEW t \in Tables, CreateTable(w, t) PROVE Goal
  <2>1. /\ db'.tables = db.tables \cup {t} /\ db'.records = db.records
        /\ cache' = [cache EXCEPT ![ProcessOf(w)] = @ \cup {t}]
    BY <1>8, <1>2 DEF CreateTable, Dbs
  <2> QED
    BY <2>1, <1>1, <1>2, ProcessOfType
<1>9. ASSUME NEW w \in Workers, NEW t \in Tables, DeleteTable(w, t) PROVE Goal
  <2>1. /\ db'.records = [k \in Keys |-> IF k[2] = t THEN Absent ELSE db.records[k]]
        /\ db'.tables = db.tables \ {t}
    BY <1>9, DropIs DEF Dropped
  <2>2. /\ cache' = [cache EXCEPT ![ProcessOf(w)] = @ \ {t}]
        /\ \A p \in Processes \ {ProcessOf(w)} : t \notin cache[p]
    BY <1>9 DEF DeleteTable
  <2>3. Absent.op = "none"
    BY DEF Absent
  <2>4. \A p \in Processes : cache'[p] \subseteq db'.tables
    BY <2>1, <2>2, <1>1, <1>2, ProcessOfType
  <2>5. \A k \in Keys : db'.records[k].op # "none" => k[2] \in db'.tables
    BY <2>1, <2>3, <1>1
  <2> QED
    BY <2>4, <2>5
<1>10. ASSUME NEW w \in Workers, NEW now \in Timestamps, Bury(w, now) PROVE Goal
  <2> DEFINE u == job[w].user
  <2>1. db'.tables = db.tables /\ db'.records = Without(u, now) /\ cache' = cache
    BY <1>10, BuryIs DEF Buried, Bury
  <2>2. ASSUME NEW k \in Keys, Without(u, now)[k].op # "none" PROVE db.records[k].op # "none"
    <3>1. CASE k[1] = u
      BY <3>1, <2>2 DEF Without, Absent
    <3>2. CASE k[1] # u /\ k \in MadeBy(u)
      BY <3>2 DEF MadeBy
    <3>3. CASE k[1] # u /\ k \notin MadeBy(u)
      BY <3>3, <2>2 DEF Without
    <3> QED
      BY <3>1, <3>2, <3>3
  <2> QED
    BY <2>1, <2>2, <1>1
<1>11. ASSUME NEW p \in Processes, Close(p) \/ Restart(p) PROVE Goal
  <2>1. db' = db /\ cache' = [cache EXCEPT ![p] = {}]
    BY <1>11 DEF Close, Restart
  <2> QED
    BY <2>1, <1>1, <1>2
<1>12. CASE Next
  <2> HIDE DEF Goal
  <2>1. Goal
    BY <1>4, <1>5, <1>6, <1>7, <1>8, <1>9, <1>10, <1>11, <1>12 DEF Next
  <2> QED
    BY <2>1 DEF Goal
<1> QED
  BY <1>3, <1>12

\* Unless a table was deleted under the feet of the other process, records are
\* only kept for tables there are.
THEOREM NothingIsOrphaned == Spec => []NoOrphans
<1>1. Init => CacheInv
  BY DEF Init, CacheInv, Absent
<1>2. Types /\ CountersBehind /\ CacheInv /\ [Next]_vars => CacheInv'
  BY CachePreserved
<1>3. CacheInv => NoOrphans
  BY DEF CacheInv, NoOrphans
<1>4. Spec => []CacheInv
  BY <1>1, <1>2, CountersStayBehind, PTL DEF Spec
<1> QED
  BY <1>3, <1>4, PTL

-----------------------------------------------------------------------------
(* Diffs                                                                   *)

\* What may become of a job between two statements of its own.
LEMMA BusyJobs ==
  ASSUME Types, [Next]_vars, NEW w \in Workers, Busy(w)
  PROVE  \/ job'[w] = job[w]
         \/ \E now \in Timestamps : Bury(w, now)
         \/ PruneRows(w) \/ PruneMeta(w)
         \/ \E p \in Processes : Restart(p) /\ w \in Jobs[p]
<1>1. job \in [Workers -> JobStates]
  BY DEF Types
<1>2. job[w].op \in {"prune", "bury"}
  BY DEF Busy
<1>3. CASE UNCHANGED vars
  BY <1>3 DEF vars
<1>4. ASSUME NEW v \in Workers,
             \/ \E named \in (SUBSET Tables) \ {{}} : Validate(v, named)
             \/ \E a \in Actors, batch \in Batches : Transact(v, a, batch)
             \/ GiveUp(v)
             \/ \E keep \in KeepCounts : Prune(v, keep)
             \/ PruneRows(v) \/ PruneMeta(v)
             \/ \E t \in Tables : CreateTable(v, t) \/ DeleteTable(v, t)
             \/ \E u \in Users : FindUser(v, u)
             \/ DeleteAccount(v)
             \/ \E now \in Timestamps : Bury(v, now)
      PROVE  \/ job'[w] = job[w]
             \/ \E now \in Timestamps : Bury(w, now)
             \/ PruneRows(w) \/ PruneMeta(w)
  <2>1. \E state : job' = [job EXCEPT ![v] = state]
    BY <1>4 DEF Validate, Transact, GiveUp, Prune, PruneRows, PruneMeta, CreateTable,
                DeleteTable, FindUser, DeleteAccount, Bury, Becomes, Begins
  <2>2. CASE v # w
    BY <2>1, <2>2, <1>1
  <2>3. ASSUME v = w,
               \/ \E named \in (SUBSET Tables) \ {{}} : Validate(v, named)
               \/ \E a \in Actors, batch \in Batches : Transact(v, a, batch)
               \/ GiveUp(v)
               \/ \E keep \in KeepCounts : Prune(v, keep)
               \/ \E t \in Tables : CreateTable(v, t) \/ DeleteTable(v, t)
               \/ \E u \in Users : FindUser(v, u)
               \/ DeleteAccount(v)
        PROVE  FALSE
    BY <2>3, <1>2 DEF Validate, Transact, GiveUp, Prune, CreateTable, DeleteTable, FindUser,
                      DeleteAccount, At
  <2> QED
    BY <2>2, <2>3, <1>4
<1>5. ASSUME NEW p \in Processes, Close(p) PROVE job'[w] = job[w]
  BY <1>5, <1>1, <1>2 DEF Close
<1>6. ASSUME NEW p \in Processes, Restart(p) PROVE job'[w] = job[w] \/ w \in Jobs[p]
  BY <1>6, <1>1 DEF Restart
<1> QED
  BY <1>3, <1>4, <1>5, <1>6 DEF Next

\* A row has left the changelog only behind its start, or behind what it is
\* about to become.
Covered(e) ==
  \/ e.seq < db.min
  \/ \E w \in Workers : job[w].op = "prune" /\ job[w].at = "deleted" /\ e.seq < job[w].target

PruneInv ==
  /\ \A w \in Workers : job[w].op = "prune" => job[w].min < job[w].target
  /\ "prune" \notin disturbed => \A e \in history \ db.log : Covered(e)

LEMMA TargetsPreserved ==
  ASSUME Types, PruneInv, [Next]_vars, NEW w \in Workers, job'[w].op = "prune"
  PROVE  job'[w].min < job'[w].target
<1>1. CASE \E keep \in KeepCounts : Prune(w, keep)
  <2>1. PICK keep \in KeepCounts : Prune(w, keep)
    BY <1>1
  <2>2. job \in [Workers -> JobStates]
    BY DEF Types
  <2>3. /\ job'[w].min = db.min /\ job'[w].target = RaisedTo(db.cur, keep)
        /\ RaisedTo(db.cur, keep) > db.min
    BY <2>1, <2>2 DEF Prune, Begins
  <2> QED
    BY <2>3
<1>2. CASE /\ job[w].op = "prune"
           /\ job'[w].min = job[w].min /\ job'[w].target = job[w].target
  BY <1>2 DEF PruneInv
<1> QED
  BY <1>1, <1>2, PruningJobs

\* As long as the start of the changelog does not move back, a row is covered
\* for good.
LEMMA CoverStays ==
  ASSUME Types, PruneInv, [Next]_vars, "prune" \notin disturbed',
         NEW e \in Row, Covered(e), db'.min \in Nat, db'.min >= db.min
  PROVE  Covered(e)'
<1>1. db.min \in Nat /\ e.seq \in Nat
  BY RowIs DEF Types, Dbs
<1>2. CASE e.seq < db.min
  BY <1>1, <1>2 DEF Covered
<1>3. ASSUME NEW w \in Workers, job[w].op = "prune", job[w].at = "deleted",
             e.seq < job[w].target
      PROVE  Covered(e)'
  <2>1. CASE job'[w] = job[w]
    BY <2>1, <1>3 DEF Covered
  <2>2. CASE PruneMeta(w)
    <3>1. db'.min = job[w].target
      <4>1. db \in Dbs /\ db' = [db EXCEPT !.cur = job[w].cur, !.min = job[w].target]
        BY <2>2 DEF PruneMeta, Types
      <4> QED
        BY <4>1 DEF Dbs
    <3> QED
      BY <3>1, <1>3 DEF Covered
  <2>3. CASE PruneRows(w)
    BY <2>3, <1>3 DEF PruneRows
  <2>4. CASE \E now \in Timestamps : Bury(w, now)
    BY <2>4, <1>3 DEF Bury
  <2>5. CASE \E p \in Processes : Restart(p) /\ w \in Jobs[p]
    BY <2>5, <1>3 DEF Restart
  <2> QED
    BY <2>1, <2>2, <2>3, <2>4, <2>5, <1>3, BusyJobs DEF Busy
<1> QED
  BY <1>2, <1>3 DEF Covered

\* The start of the changelog moves back only when a prune is torn apart.
LEMMA StartStays ==
  ASSUME Types, CountersBehind, PruneInv, [Next]_vars, "prune" \notin disturbed'
  PROVE  db'.min \in Nat /\ db'.min >= db.min
<1>1. db \in Dbs /\ db.min \in Nat /\ db' \in Dbs /\ db'.min \in Nat
  BY TypesPreserved DEF Types, Dbs
<1>2. CASE db'.min = db.min
  BY <1>1, <1>2
<1>3. ASSUME NEW w \in Workers, PruneMeta(w) PROVE db'.min >= db.min
  <2>1. /\ db' = [db EXCEPT !.cur = job[w].cur, !.min = job[w].target]
        /\ db.min = job[w].min /\ job[w].op = "prune"
    BY <1>3 DEF PruneMeta
  <2>2. job[w].min < job[w].target
    BY <2>1 DEF PruneInv
  <2>3. db'.min = job[w].target
    BY <2>1, <1>1 DEF Dbs
  <2> QED
    BY <2>1, <2>2, <2>3, <1>1
<1>4. ASSUME NEW w \in Workers, NEW a \in Actors, NEW batch \in Batches, Transact(w, a, batch)
      PROVE  db'.min >= db.min
  <2>1. CASE Batched(ProcessOf(w), a, batch)
    <3> DEFINE s == AfterLoop(ProcessOf(w), a, batch)
    <3>1. s \in LoopStates /\ db.autoincrement <= s.autoincrement /\ db' = Finished(s)
      BY <2>1, <1>1, LoopGrows DEF Batched, Grown
    <3> HIDE DEF s
    <3> QED
      BY <3>1, <1>1, FinishedIs DEF CountersBehind
  <2>2. CASE db' = db
    BY <2>2, <1>1
  <2> QED
    BY <1>4, <2>1, <2>2, TransactIs
<1>5. ASSUME NEW w \in Workers, NEW now \in Timestamps, Bury(w, now) PROVE db'.min >= db.min
  BY <1>5, BuryIs DEF Buried
<1>6. ASSUME NEW w \in Workers, NEW t \in Tables, DeleteTable(w, t) PROVE db'.min = db.min
  BY <1>6, DropIs DEF Dropped
<1>7. ASSUME NEW w \in Workers,
             \/ \E named \in (SUBSET Tables) \ {{}} : Validate(w, named)
             \/ GiveUp(w)
             \/ \E keep \in KeepCounts : Prune(w, keep)
             \/ PruneRows(w)
             \/ \E t \in Tables : CreateTable(w, t)
             \/ \E u \in Users : FindUser(w, u)
             \/ DeleteAccount(w)
      PROVE  db'.min = db.min
  BY <1>7, <1>1 DEF Validate, GiveUp, Prune, PruneRows, CreateTable, FindUser, DeleteAccount, Dbs
<1>8. ASSUME NEW p \in Processes, Close(p) \/ Restart(p) PROVE db'.min = db.min
  BY <1>8 DEF Close, Restart
<1>9. CASE UNCHANGED vars
  BY <1>2, <1>9 DEF vars
<1> QED
  BY <1>1, <1>2, <1>3, <1>4, <1>5, <1>6, <1>7, <1>8, <1>9 DEF Next

\* A row that leaves the changelog, though it is of a table and a partition
\* there are, is covered.
LEMMA LeavingCovered ==
  ASSUME Types, CountersBehind, DataInv, PruneInv, [Next]_vars,
         NEW e \in history' \ db'.log, e \notin history \ db.log
  PROVE  Covered(e)'
<1>1. /\ db \in Dbs /\ history \subseteq Row /\ db.log \subseteq history
      /\ job \in [Workers -> JobStates]
  BY DEF Types, DataInv
<1>2. ASSUME NEW p, NEW a \in Actors, NEW batch \in Batches, Batched(p, a, batch)
      PROVE  Covered(e)'
  <2> DEFINE s == AfterLoop(p, a, batch)
  <2>1. /\ s \in LoopStates /\ db.autoincrement <= s.autoincrement /\ db' = Finished(s)
        /\ db.log \subseteq s.log /\ history' = history \cup (s.log \ db.log)
    BY <1>1, <1>2, LoopGrows DEF Batched, Grown
  <2> HIDE DEF s
  <2>2. \A f \in s.log \ db'.log : f.seq < db'.min
    BY <2>1, <1>1, FinishedIs DEF CountersBehind
  <2>3. e \in s.log
    BY <2>1
  <2> QED
    BY <2>2, <2>3 DEF Covered
<1>3. ASSUME NEW t \in Tables, Dropped(t) PROVE FALSE
  BY <1>3 DEF Dropped
<1>4. ASSUME NEW u \in Users, NEW now \in Timestamps, Buried(u, now) PROVE FALSE
  BY <1>4 DEF Buried
<1>5. ASSUME NEW w \in Workers, PruneRows(w) PROVE Covered(e)'
  <2>1. /\ job[w].op = "prune" /\ history' = history
        /\ db' = [db EXCEPT !.log = {f \in @ : f.seq >= job[w].target}]
        /\ job' = [job EXCEPT ![w] = [job[w] EXCEPT !.at = "deleted"]]
    BY <1>5 DEF PruneRows, Becomes
  <2>2. job[w] \in [op : {"prune"}, at : {"read", "deleted"}, cur : Nat, min : Nat, target : Nat]
    BY <2>1, JobIs
  <2>3. job'[w] = [job[w] EXCEPT !.at = "deleted"]
    BY <2>1, <1>1
  <2>4. job'[w].op = "prune" /\ job'[w].at = "deleted" /\ job'[w].target = job[w].target
    BY <2>2, <2>3
  <2>5. db'.log = {f \in db.log : f.seq >= job[w].target}
    BY <2>1, <1>1 DEF Dbs
  <2>6. e.seq \in Nat /\ job[w].target \in Nat /\ e \in db.log
    BY <2>1, <2>2, <1>1, RowIs
  <2>7. e.seq < job[w].target
    BY <2>5, <2>6
  <2> QED
    BY <2>4, <2>7 DEF Covered
<1>6. ASSUME db'.log = db.log /\ history' = history PROVE FALSE
  BY <1>6
<1>7. ASSUME NEW w \in Workers,
             \/ \E named \in (SUBSET Tables) \ {{}} : Validate(w, named)
             \/ GiveUp(w) \/ PruneMeta(w)
             \/ \E keep \in KeepCounts : Prune(w, keep)
             \/ \E t \in Tables : CreateTable(w, t)
             \/ \E u \in Users : FindUser(w, u)
             \/ DeleteAccount(w)
      PROVE  FALSE
  <2>1. db'.log = db.log /\ history' = history
    BY <1>7, <1>1
       DEF Validate, GiveUp, PruneMeta, Prune, CreateTable, FindUser, DeleteAccount, Dbs
  <2> QED
    BY <2>1, <1>6
<1>8. ASSUME NEW p \in Processes, Close(p) \/ Restart(p) PROVE FALSE
  BY <1>6, <1>8 DEF Close, Restart
<1>9. ASSUME NEW w \in Workers, NEW a \in Actors, NEW batch \in Batches, Transact(w, a, batch)
      PROVE  Covered(e)'
  BY <1>2, <1>6, <1>9, TransactIs
<1>10. ASSUME NEW w \in Workers, NEW t \in Tables, DeleteTable(w, t) PROVE FALSE
  BY <1>3, <1>10, DropIs
<1>11. ASSUME NEW w \in Workers, NEW now \in Timestamps, Bury(w, now) PROVE FALSE
  BY <1>4, <1>11, BuryIs
<1>12. CASE UNCHANGED vars
  BY <1>6, <1>12 DEF vars
<1> QED
  BY <1>5, <1>7, <1>8, <1>9, <1>10, <1>11, <1>12 DEF Next

LEMMA PrunePreserved ==
  Types /\ CountersBehind /\ DataInv /\ PruneInv /\ [Next]_vars => PruneInv'
<1> SUFFICES ASSUME Types, CountersBehind, DataInv, PruneInv, [Next]_vars PROVE PruneInv'
  OBVIOUS
<1>1. \A w \in Workers : job'[w].op = "prune" => job'[w].min < job'[w].target
  BY TargetsPreserved
<1>2. ASSUME "prune" \notin disturbed', NEW e \in history' \ db'.log
      PROVE  Covered(e)'
  <2>1. CASE e \in history \ db.log
    <3>1. e \in Row /\ Covered(e)
      BY <1>2, <2>1, DisturbedGrows DEF PruneInv, Types
    <3> QED
      BY <3>1, <1>2, StartStays, CoverStays
  <2>2. CASE e \notin history \ db.log
    BY <2>2, LeavingCovered
  <2> QED
    BY <2>1, <2>2
<1> QED
  BY <1>1, <1>2 DEF PruneInv

LEMMA InitPrune == Init => PruneInv
BY DEF Init, PruneInv, Idle

\* Until a prune is torn apart, a client that is not told to take a snapshot is
\* told of everything it may read that has happened since.
THEOREM DiffsAreComplete == Spec => []DiffIsComplete
<1>1. Types /\ PruneInv => DiffIsComplete
  <2> SUFFICES ASSUME Types, PruneInv, "prune" \notin disturbed,
                      \A w \in Workers : job[w].op = "prune" => job[w].at = "read",
                      NEW reader \in Readers, NEW from \in 0..MaxSeq,
                      ~IsSnapshotRequired(from),
                      NEW e \in history, e.seq > from, CanReadChange(reader, e)
               PROVE  e \in Diff(reader, from)
    BY DEF DiffIsComplete
  <2>1. e.seq \in Nat /\ db.min \in Nat /\ from \in Nat
    BY RowIs, Numbers DEF Types, Dbs
  <2>2. ~(e.seq < db.min)
    BY <2>1 DEF IsSnapshotRequired
  <2>3. e \in db.log
    BY <2>2 DEF PruneInv, Covered
  <2> QED
    BY <2>3 DEF Diff, RawChangesSince
<1>2. Init => Types /\ CountersBehind /\ DataInv /\ PruneInv
  BY InitTypes, InitData, InitPrune
<1>3. Types /\ CountersBehind /\ DataInv /\ PruneInv /\ [Next]_vars =>
        (Types /\ CountersBehind /\ DataInv /\ PruneInv)'
  BY TypesPreserved, CountersPreserved, DataPreserved, PrunePreserved
<1> QED
  BY <1>1, <1>2, <1>3, PTL DEF Spec

-----------------------------------------------------------------------------
(* Users that are gone                                                     *)

\* What a loop has stored anew has a new row.
LEMMA LoopRenews ==
  ASSUME Types, NEW p, NEW a \in Actors, NEW batch \in Batches
  PROVE  \A k \in Keys :
           \/ AfterLoop(p, a, batch).records[k] = db.records[k]
           \/ \E e \in AfterLoop(p, a, batch).log : KeyOf(e) = k /\ e.seq > db.autoincrement
<1> DEFINE New(s) == \A k \in Keys :
                       \/ s.records[k] = db.records[k]
                       \/ \E e \in s.log : KeyOf(e) = k /\ e.seq > db.autoincrement
           S == {s \in LoopStates : Grown(s) /\ New(s)}
<1>1. db \in Dbs
  BY DEF Types
<1>2. LoopStart \in S
  <2>1. /\ db.records \in [Keys -> Stored] /\ db.log \in SUBSET Row
        /\ db.autoincrement \in Nat
    BY <1>1 DEF Dbs
  <2>2. /\ LoopStart \in LoopStates /\ LoopStart.records = db.records
        /\ LoopStart.log = db.log /\ LoopStart.autoincrement = db.autoincrement
    BY <2>1 DEF LoopStart, LoopStates
  <2>3. Grown(LoopStart)
    BY <2>1, <2>2 DEF Grown
  <2> QED
    BY <2>2, <2>3
<1>3. ASSUME NEW s \in LoopStates, Grown(s), New(s), NEW c \in Change
      PROVE  New(Turn(p, a, s, c))
  <2>1. CASE Turn(p, a, s, c) = s
    BY <2>1, <1>3
  <2>2. CASE Turn(p, a, s, c) = [s EXCEPT !.ok = FALSE]
    <3> DEFINE x == [s EXCEPT !.ok = FALSE]
    <3>1. x.records = s.records /\ x.log = s.log
      BY DEF LoopStates
    <3> HIDE DEF x
    <3>2. New(x)
      BY <3>1, <1>3
    <3> QED
      BY <2>2, <3>2 DEF x
  <2>3. CASE Turn(p, a, s, c) = Written(s, a, c)
    <3> DEFINE j == <<PartitionOf(a, c.table), c.table, c.id>>
               row == WrittenRow(s, a, c)
               x == Written(s, a, c)
    <3>1. /\ x.records = [s.records EXCEPT ![j] = WrittenRecord(s, a, c)]
          /\ x.log = s.log \cup {row}
      BY WrittenIs
    <3>2. KeyOf(row) = j /\ row.seq = s.autoincrement + 1
      BY WrittenTogether
    <3>3. row.seq > db.autoincrement
      BY <3>2, <1>1, <1>3 DEF Grown, LoopStates, Dbs
    <3>4. s.records \in [Keys -> Stored]
      BY DEF LoopStates
    <3> HIDE DEF j, row, x
    <3>5. ASSUME NEW k \in Keys
          PROVE  \/ x.records[k] = db.records[k]
                 \/ \E e \in x.log : KeyOf(e) = k /\ e.seq > db.autoincrement
      <4>1. CASE k = j
        BY <4>1, <3>1, <3>2, <3>3
      <4>2. CASE k # j
        <5>1. x.records[k] = s.records[k]
          BY <4>2, <3>1, <3>4
        <5> QED
          BY <5>1, <3>1, <1>3
      <4> QED
        BY <4>1, <4>2
    <3> QED
      BY <3>5, <2>3 DEF x
  <2> QED
    BY <2>1, <2>2, <2>3, TurnIs
<1>4. ASSUME NEW s \in S, NEW i \in 1..Len(batch)
      PROVE  Turn(p, a, s, batch[i]) \in S
  <2>1. batch[i] \in Change
    BY BatchIsSeq
  <2> HIDE DEF New
  <2>2. s \in LoopStates /\ Grown(s) /\ New(s)
    OBVIOUS
  <2>3. \A c \in Change : New(Turn(p, a, s, c)) /\ Grown(Turn(p, a, s, c))
    BY <2>2, <1>1, <1>3, TurnGrows
  <2>4. \A c \in Change : Turn(p, a, s, c) \in LoopStates
    BY <2>3 DEF Grown
  <2> QED
    BY <2>1, <2>3, <2>4
<1>5. AfterLoop(p, a, batch) \in S
  <2> HIDE DEF S
  <2> QED
    BY <1>2, <1>4, BatchIsSeq, LoopRule
<1> QED
  BY <1>5

\* Everything that u owns and that is there was written after u was deleted.
Rewritten(u) ==
  \A k \in Keys : db.records[k].op = "put" /\ db.records[k].owner = u =>
    \E e \in history : KeyOf(e) = k /\ e.seq > goneAt[u]

GoneInv ==
  "user" \notin disturbed =>
    \A u \in Users \ users :
      (\E w \in Workers : job[w] = [op |-> "bury", user |-> u]) \/ Rewritten(u)

LEMMA RewrittenStays ==
  ASSUME Types, CountersBehind, DataInv, [Next]_vars,
         NEW u \in Users, Rewritten(u), goneAt'[u] = goneAt[u]
  PROVE  Rewritten(u)'
<1>1. /\ db \in Dbs /\ db.records \in [Keys -> Stored] /\ history \subseteq Row
      /\ goneAt[u] \in Nat /\ db.autoincrement \in Nat /\ goneAt[u] <= db.autoincrement
  BY DEF Types, Dbs, CountersBehind
<1> SUFFICES ASSUME NEW k \in Keys, db'.records[k].op = "put", db'.records[k].owner = u
             PROVE  \E e \in history' : KeyOf(e) = k /\ e.seq > goneAt[u]
  BY DEF Rewritten
<1>2. ASSUME db'.records[k] = db.records[k]
      PROVE  \E e \in history : KeyOf(e) = k /\ e.seq > goneAt[u]
  BY <1>2 DEF Rewritten
<1>3. \A e \in history : KeyOf(e) = k => e.table = k[2] /\ e.partition = k[1]
  BY <1>1, RowIs
<1>4. CASE Unmoved
  BY <1>2, <1>4 DEF Unmoved
<1>5. ASSUME NEW p, NEW a \in Actors, NEW batch \in Batches, Batched(p, a, batch)
      PROVE  \E e \in history' : KeyOf(e) = k /\ e.seq > goneAt[u]
  <2> DEFINE s == AfterLoop(p, a, batch)
  <2>1. /\ s \in LoopStates /\ db' = Finished(s) /\ history' = history \cup (s.log \ db.log)
        /\ db.autoincrement <= s.autoincrement /\ s.log \subseteq Row
    BY <1>1, <1>5, LoopGrows DEF Batched, Grown, LoopStates
  <2>2. \/ s.records[k] = db.records[k]
        \/ \E e \in s.log : KeyOf(e) = k /\ e.seq > db.autoincrement
    BY LoopRenews
  <2> HIDE DEF s
  <2>3. db'.records = s.records
    BY <2>1, <1>1, FinishedIs DEF CountersBehind
  <2>4. CASE s.records[k] = db.records[k]
    BY <2>1, <2>3, <2>4, <1>2
  <2>5. ASSUME NEW e \in s.log, KeyOf(e) = k, e.seq > db.autoincrement
        PROVE  \E f \in history' : KeyOf(f) = k /\ f.seq > goneAt[u]
    <3>1. e \in history' /\ e.seq \in Nat
      BY <2>1, RowIs DEF DataInv
    <3> QED
      BY <3>1, <2>5, <1>1
  <2> QED
    BY <2>2, <2>4, <2>5
<1>6. ASSUME NEW t, Dropped(t)
      PROVE  \E e \in history' : KeyOf(e) = k /\ e.seq > goneAt[u]
  <2>1. k[2] # t /\ db'.records[k] = db.records[k]
    BY <1>6 DEF Dropped, Absent
  <2> QED
    BY <2>1, <1>2, <1>3, <1>6 DEF Dropped
<1>7. ASSUME NEW v \in Users, NEW now \in Timestamps, Buried(v, now)
      PROVE  \E e \in history' : KeyOf(e) = k /\ e.seq > goneAt[u]
  <2>1. db'.records[k] = Without(v, now)[k]
    BY <1>7 DEF Buried
  <2>2. k[1] # v
    BY <2>1 DEF Without, Absent
  <2>3. k \notin MadeBy(v)
    <3>1. ASSUME k \in MadeBy(v) PROVE FALSE
      <4>1. db'.records[k] = Dead(db.records[k], now)
        BY <2>1, <2>2, <3>1 DEF Without, Dead
      <4>2. Dead(db.records[k], now).op = "delete"
        BY <1>1, DeadIs, Numbers
      <4> QED
        BY <4>1, <4>2
    <3> QED
      BY <3>1
  <2>4. db'.records[k] = db.records[k]
    BY <2>1, <2>2, <2>3 DEF Without
  <2>5. \A e \in history : KeyOf(e) = k => e \in history'
    BY <2>2, <1>3, <1>7 DEF Buried
  <2> QED
    BY <2>4, <2>5, <1>2
<1> QED
  BY <1>4, <1>5, <1>6, <1>7, StepIs

\* Nothing of u is left that is alive.
LEMMA BuriedRewritten ==
  ASSUME Types, DataInv, NEW u \in Users, NEW now \in Timestamps, Buried(u, now)
  PROVE  Rewritten(u)'
<1>1. /\ db.records \in [Keys -> Stored] /\ history \subseteq Row
      /\ Replays(db.records, history) /\ Apart(history)
  BY DEF Types, Dbs, DataInv, Consistent
<1> SUFFICES ASSUME NEW k \in Keys, db'.records[k].op = "put", db'.records[k].owner = u
             PROVE  FALSE
  BY DEF Rewritten
<1>2. db'.records[k] = Without(u, now)[k] /\ k[1] # u
  <2>1. db'.records[k] = Without(u, now)[k]
    BY DEF Buried
  <2>2. k[1] # u
    BY <2>1 DEF Without, Absent
  <2> QED
    BY <2>1, <2>2
<1>3. CASE k \in MadeBy(u)
  <2>1. db'.records[k] = Dead(db.records[k], now)
    BY <1>2, <1>3 DEF Without, Dead
  <2>2. Dead(db.records[k], now).op = "delete"
    BY <1>1, DeadIs, Numbers
  <2> QED
    BY <2>1, <2>2
<1>4. CASE k \notin MadeBy(u)
  <2>1. db.records[k].op = "put" /\ db.records[k].owner = u
    BY <1>2, <1>4 DEF Without
  <2>2. k[1] # Shared
    BY <2>1, <1>4 DEF MadeBy
  <2>3. k[1] \in Users
    BY <2>2, KeyIsTriple DEF Partitions
  <2>4. db.records[k].owner = k[1]
    BY <2>1, <2>3, <1>1, RecordsApart
  <2> QED
    BY <2>1, <2>4, <1>2
<1> QED
  BY <1>3, <1>4

\* An account goes with a job that is to see to what it leaves.
LEMMA AccountsGo ==
  ASSUME Types, [Next]_vars, NEW u \in Users
  PROVE  \/ (u \in users' <=> u \in users) /\ goneAt'[u] = goneAt[u]
         \/ /\ u \in users /\ u \notin users'
            /\ \/ "user" \in disturbed'
               \/ \E w \in Workers : job'[w] = [op |-> "bury", user |-> u]
<1>1. goneAt \in [Users -> Nat] /\ job \in [Workers -> JobStates]
  BY DEF Types
<1>2. ASSUME NEW w \in Workers, DeleteAccount(w)
      PROVE  \/ (u \in users' <=> u \in users) /\ goneAt'[u] = goneAt[u]
             \/ /\ u \in users /\ u \notin users'
                /\ \/ "user" \in disturbed'
                   \/ \E v \in Workers : job'[v] = [op |-> "bury", user |-> u]
  <2>1. CASE job[w].user \in users /\ job[w].user = u
    <3>1. users' = users \ {u} /\ u \in users
      BY <2>1, <1>2 DEF DeleteAccount
    <3>2. CASE ProcessOf(w) \in open
      <4>1. job' = [job EXCEPT ![w] = [op |-> "bury", user |-> u]]
        BY <2>1, <3>2, <1>2 DEF DeleteAccount, Becomes
      <4> QED
        BY <3>1, <4>1, <1>1
    <3>3. CASE ProcessOf(w) \notin open
      BY <3>1, <3>3, <2>1, <1>2 DEF DeleteAccount
    <3> QED
      BY <3>2, <3>3
  <2>2. CASE job[w].user \in users /\ job[w].user # u
    <3>1. /\ users' = users \ {job[w].user}
          /\ goneAt' = [goneAt EXCEPT ![job[w].user] = db.autoincrement]
      BY <2>2, <1>2 DEF DeleteAccount
    <3> QED
      BY <3>1, <2>2, <1>1
  <2>3. CASE job[w].user \notin users
    BY <2>3, <1>2 DEF DeleteAccount
  <2> QED
    BY <2>1, <2>2, <2>3
<1>3. CASE ~\E w \in Workers : DeleteAccount(w)
  <2>1. users' = users /\ goneAt' = goneAt
    BY <1>3 DEF Next, vars, Validate, Transact, GiveUp, Prune, PruneRows, PruneMeta,
                CreateTable, DeleteTable, FindUser, Bury, Close, Restart
  <2> QED
    BY <2>1
<1> QED
  BY <1>2, <1>3

LEMMA GonePreserved ==
  Types /\ CountersBehind /\ DataInv /\ GoneInv /\ [Next]_vars => GoneInv'
<1> SUFFICES ASSUME Types, CountersBehind, DataInv, GoneInv, [Next]_vars,
                    "user" \notin disturbed', NEW u \in Users, u \notin users'
             PROVE  (\E w \in Workers : job'[w] = [op |-> "bury", user |-> u]) \/ Rewritten(u)'
  BY DEF GoneInv
<1>1. CASE u \in users
  BY <1>1, AccountsGo
<1>2. CASE u \notin users
  <2>1. goneAt'[u] = goneAt[u]
    BY <1>2, AccountsGo
  <2>2. ASSUME NEW w \in Workers, job[w] = [op |-> "bury", user |-> u]
        PROVE  job'[w] = job[w] \/ Rewritten(u)'
    <3>1. job[w].op = "bury" /\ job[w].user = u
      BY <2>2
    <3>2. ASSUME NEW now \in Timestamps, Bury(w, now) PROVE Rewritten(u)'
      BY <3>1, <3>2, BuryIs, BuriedRewritten
    <3>3. ~PruneRows(w) /\ ~PruneMeta(w)
      BY <3>1 DEF PruneRows, PruneMeta
    <3>4. ASSUME NEW p \in Processes, Restart(p), w \in Jobs[p] PROVE FALSE
      BY <3>1, <3>4 DEF Restart
    <3> QED
      BY <3>1, <3>2, <3>3, <3>4, BusyJobs DEF Busy
  <2>3. CASE Rewritten(u)
    BY <2>1, <2>3, RewrittenStays
  <2>4. \/ \E w \in Workers : job[w] = [op |-> "bury", user |-> u]
        \/ Rewritten(u)
    BY <1>2, DisturbedGrows DEF GoneInv
  <2> QED
    BY <2>2, <2>3, <2>4
<1> QED
  BY <1>1, <1>2

\* Unless a deletion stopped between the two databases, what a deleted user had
\* written is gone.
THEOREM DeletedUsersLeaveNothing == Spec => []DeletedLeaveNothing
<1>1. Init => GoneInv
  BY DEF Init, GoneInv
<1>2. Init => Types /\ CountersBehind /\ DataInv /\ GoneInv
  BY <1>1, InitTypes, InitData
<1>3. Types /\ CountersBehind /\ DataInv /\ GoneInv /\ [Next]_vars =>
        (Types /\ CountersBehind /\ DataInv /\ GoneInv)'
  BY TypesPreserved, CountersPreserved, DataPreserved, GonePreserved
<1>4. GoneInv => DeletedLeaveNothing
  BY DEF GoneInv, DeletedLeaveNothing, Rewritten, KeyOf
<1> QED
  BY <1>2, <1>3, <1>4, PTL DEF Spec

-----------------------------------------------------------------------------
(* Limits                                                                  *)

Alive(recs, q, t) == {i \in Ids : recs[<<q, t, i>>].op = "put"}
Within(recs) == \A q \in Partitions, t \in Tables : Cardinality(Alive(recs, q, t)) <= MaxRecords

LEMMA AliveFinite ==
  \A recs, q, t : /\ IsFiniteSet(Alive(recs, q, t))
                  /\ Cardinality(Alive(recs, q, t)) \in Nat
<1> SUFFICES ASSUME NEW recs, NEW q, NEW t
             PROVE  /\ IsFiniteSet(Alive(recs, q, t))
                    /\ Cardinality(Alive(recs, q, t)) \in Nat
  OBVIOUS
<1>1. Alive(recs, q, t) \in SUBSET Ids
  BY DEF Alive
<1>2. IsFiniteSet(Alive(recs, q, t))
  BY <1>1, SqliteAssumption, FS_Subset
<1> QED
  BY <1>2, FS_CardinalityType

\* No limit is passed where nothing comes alive.
LEMMA FewerAlive ==
  ASSUME NEW recs, NEW recs2, Within(recs),
         \A k \in Keys : recs2[k].op = "put" => recs[k].op = "put"
  PROVE  Within(recs2)
<1> SUFFICES ASSUME NEW q \in Partitions, NEW t \in Tables
             PROVE  Cardinality(Alive(recs2, q, t)) <= MaxRecords
  BY DEF Within
<1>1. Alive(recs2, q, t) \in SUBSET Alive(recs, q, t)
  BY KeyIsTriple DEF Alive
<1>2. Cardinality(Alive(recs2, q, t)) <= Cardinality(Alive(recs, q, t))
  BY <1>1, AliveFinite, FS_Subset
<1> QED
  BY <1>2, AliveFinite, Numbers DEF Within

\* A change that is not refused leaves every partition within its limit.
LEMMA WriteWithin ==
  ASSUME NEW s \in LoopStates, NEW a \in Actors, NEW c \in Change, Within(s.records),
         ~Refused(s, a, c)
  PROVE  Within(Written(s, a, c).records)
<1> DEFINE p == PartitionOf(a, c.table)
           k == <<p, c.table, c.id>>
           recs == s.records
           recs2 == Written(s, a, c).records
<1>1. /\ recs2 = [recs EXCEPT ![k] = WrittenRecord(s, a, c)]
      /\ k \in Keys /\ recs \in [Keys -> Stored]
      /\ WrittenRecord(s, a, c).op = c.op
  BY WrittenIs, WrittenTogether DEF LoopStates
<1>2. c.op = "put" /\ recs[k].op # "put" => Cardinality(Alive(recs, p, c.table)) < MaxRecords
  <2>1. c.op = "put" /\ recs[k].op # "put" => ~(Count(s, p, c.table) >= MaxRecords)
    BY DEF Refused
  <2>2. Count(s, p, c.table) = Cardinality(Alive(recs, p, c.table))
    BY DEF Count, Alive
  <2> QED
    BY <2>1, <2>2, AliveFinite, Numbers
<1>3. p \in Partitions /\ c.table \in Tables /\ c.id \in Ids
  BY PartitionOfType DEF Change
<1>4. \A q \in Partitions, t \in Tables, i \in Ids :
        recs2[<<q, t, i>>].op = IF q = p /\ t = c.table /\ i = c.id THEN c.op
                                ELSE recs[<<q, t, i>>].op
  <2> SUFFICES ASSUME NEW q \in Partitions, NEW t \in Tables, NEW i \in Ids
               PROVE  recs2[<<q, t, i>>].op =
                        IF q = p /\ t = c.table /\ i = c.id THEN c.op
                        ELSE recs[<<q, t, i>>].op
    OBVIOUS
  <2>1. <<q, t, i>> \in Keys
    BY KeyIsTriple
  <2>2. <<q, t, i>> = k <=> q = p /\ t = c.table /\ i = c.id
    OBVIOUS
  <2> HIDE DEF k, recs, recs2
  <2> QED
    BY <2>1, <2>2, <1>1
<1> SUFFICES ASSUME NEW q \in Partitions, NEW t \in Tables
             PROVE  Cardinality(Alive(recs2, q, t)) <= MaxRecords
  BY DEF Within
<1> HIDE DEF recs, recs2, p
<1>5. CASE q = p /\ t = c.table /\ c.op = "put" /\ recs[k].op # "put"
  <2>1. Alive(recs2, q, t) = Alive(recs, q, t) \cup {c.id}
    BY <1>3, <1>4, <1>5 DEF Alive
  <2>2. c.id \notin Alive(recs, q, t)
    BY <1>5 DEF Alive
  <2>3. Cardinality(Alive(recs2, q, t)) = Cardinality(Alive(recs, q, t)) + 1
    BY <2>1, <2>2, AliveFinite, FS_AddElement
  <2> QED
    BY <2>3, <1>2, <1>5, AliveFinite, Numbers
<1>6. CASE ~(q = p /\ t = c.table /\ c.op = "put" /\ recs[k].op # "put")
  <2>1. Alive(recs2, q, t) \in SUBSET Alive(recs, q, t)
    BY <1>3, <1>4, <1>6 DEF Alive
  <2>2. Cardinality(Alive(recs2, q, t)) <= Cardinality(Alive(recs, q, t))
    BY <2>1, AliveFinite, FS_Subset
  <2>3. Cardinality(Alive(recs, q, t)) <= MaxRecords
    BY DEF Within, recs
  <2> QED
    BY <2>2, <2>3, AliveFinite, Numbers
<1> QED
  BY <1>5, <1>6

LEMMA LoopWithin ==
  ASSUME Types, Within(db.records), NEW p, NEW a \in Actors, NEW batch \in Batches
  PROVE  Within(AfterLoop(p, a, batch).records)
<1> DEFINE S == {s \in LoopStates : Within(s.records)}
<1>1. LoopStart \in S
  <2>1. /\ db.records \in [Keys -> Stored] /\ db.log \in SUBSET Row
        /\ db.autoincrement \in Nat
    BY DEF Types, Dbs
  <2>2. LoopStart \in LoopStates /\ LoopStart.records = db.records
    BY <2>1 DEF LoopStart, LoopStates
  <2> QED
    BY <2>2
<1>2. ASSUME NEW s \in LoopStates, Within(s.records), NEW c \in Change
      PROVE  Turn(p, a, s, c) \in LoopStates /\ Within(Turn(p, a, s, c).records)
  <2>1. CASE Turn(p, a, s, c) = s
    BY <2>1, <1>2
  <2>2. CASE Turn(p, a, s, c) = [s EXCEPT !.ok = FALSE]
    <3> DEFINE x == [s EXCEPT !.ok = FALSE]
    <3>1. x \in LoopStates /\ x.records = s.records
      BY DEF LoopStates
    <3>2. Turn(p, a, s, c) = x
      BY <2>2
    <3> HIDE DEF x
    <3> QED
      BY <3>1, <3>2, <1>2
  <2>3. CASE Turn(p, a, s, c) = Written(s, a, c) /\ ~Refused(s, a, c)
    <3>1. Written(s, a, c) \in LoopStates
      BY WrittenIs
    <3>2. Within(Written(s, a, c).records)
      BY <2>3, <1>2, WriteWithin
    <3> QED
      BY <3>1, <3>2, <2>3
  <2> QED
    BY <2>1, <2>2, <2>3, TurnIs
<1>3. ASSUME NEW s \in S, NEW i \in 1..Len(batch)
      PROVE  Turn(p, a, s, batch[i]) \in S
  <2>1. batch[i] \in Change
    BY BatchIsSeq
  <2> QED
    BY <2>1, <1>2
<1>4. AfterLoop(p, a, batch) \in S
  <2> HIDE DEF S
  <2> QED
    BY <1>1, <1>3, BatchIsSeq, LoopRule
<1> QED
  BY <1>4

LEMMA LimitPreserved ==
  Types /\ CountersBehind /\ Within(db.records) /\ [Next]_vars => Within(db'.records)
<1> SUFFICES ASSUME Types, CountersBehind, Within(db.records), [Next]_vars
             PROVE  Within(db'.records)
  OBVIOUS
<1>1. db \in Dbs /\ db.records \in [Keys -> Stored]
  BY DEF Types, Dbs
<1>2. CASE Unmoved
  BY <1>2 DEF Unmoved
<1>3. ASSUME NEW p, NEW a \in Actors, NEW batch \in Batches, Batched(p, a, batch)
      PROVE  Within(db'.records)
  <2> DEFINE s == AfterLoop(p, a, batch)
  <2>1. s \in LoopStates /\ db' = Finished(s) /\ db.autoincrement <= s.autoincrement
    BY <1>1, <1>3, LoopGrows DEF Batched, Grown
  <2>2. Within(s.records)
    BY LoopWithin
  <2> HIDE DEF s
  <2> QED
    BY <2>1, <2>2, <1>1, FinishedIs DEF CountersBehind
<1>4. ASSUME NEW t, Dropped(t) PROVE Within(db'.records)
  <2>1. \A k \in Keys : db'.records[k].op = "put" => db.records[k].op = "put"
    BY <1>4 DEF Dropped, Absent
  <2> QED
    BY <2>1, FewerAlive
<1>5. ASSUME NEW u \in Users, NEW now \in Timestamps, Buried(u, now)
      PROVE  Within(db'.records)
  <2>1. ASSUME NEW k \in Keys, Without(u, now)[k].op = "put" PROVE db.records[k].op = "put"
    <3>1. k[1] # u
      BY <2>1 DEF Without, Absent
    <3>2. CASE k \in MadeBy(u)
      BY <3>2 DEF MadeBy
    <3>3. CASE k \notin MadeBy(u)
      BY <2>1, <3>1, <3>3 DEF Without
    <3> QED
      BY <3>2, <3>3
  <2> QED
    BY <2>1, <1>5, FewerAlive DEF Buried
<1> QED
  BY <1>2, <1>3, <1>4, <1>5, StepIs

\* No partition of a table ever has more live records than its limit.
THEOREM LimitsAreKept == Spec => []LimitKept
<1>1. Init => Within(db.records)
  <2> SUFFICES ASSUME Init, NEW q \in Partitions, NEW t \in Tables
               PROVE  Cardinality(Alive(db.records, q, t)) <= MaxRecords
    BY DEF Within
  <2>1. Alive(db.records, q, t) = {}
    BY KeyIsTriple DEF Init, Alive, Absent
  <2> QED
    BY <2>1, FS_EmptySet, Numbers
<1>2. Types /\ CountersBehind /\ Within(db.records) /\ [Next]_vars => Within(db.records)'
  BY LimitPreserved
<1>3. Within(db.records) => LimitKept
  BY DEF Within, LimitKept, Count, Alive
<1>4. Spec => []Within(db.records)
  BY <1>1, <1>2, CountersStayBehind, PTL DEF Spec
<1> QED
  BY <1>3, <1>4, PTL

=============================================================================
