------------------------- MODULE MemoryStorageProofs -------------------------
(***************************************************************************)
(* Theorems about MemoryStorage for every value of its constants: its type *)
(* correctness, the uniqueness of the sequence numbers, and the            *)
(* completeness of the diffs that clients catch up with.                   *)
(***************************************************************************)
EXTENDS MemoryStorage, FiniteSetTheorems, FunctionTheorems, NaturalsInduction,
        WellFoundedInduction, TLAPS

-----------------------------------------------------------------------------
(* Keys, partitions and batches                                            *)

\* Timestamps and client ids are natural numbers.
LEMMA StampsAreNat == Timestamps \subseteq Nat /\ ClientIds \subseteq Nat
<1>1. MaxTs \in Nat
  BY BoundsAssumption
<1>2. ClientIds \subseteq Nat
  BY BoundsAssumption
<1> QED
  BY <1>1, <1>2 DEF Timestamps

\* What a log is cut to is a natural number.
LEMMA LimitsAreNat == MaxHistory \in Nat /\ KeepCounts \subseteq Nat
BY BoundsAssumption

\* A key is made of a partition, a table and an id.
LEMMA KeyIsTriple ==
  /\ \A p \in Partitions, t \in Tables, i \in Ids : <<p, t, i>> \in Keys
  /\ \A k \in Keys : k[1] \in Partitions /\ k[2] \in Tables /\ k[3] \in Ids
BY DEF Keys

\* What somebody writes to is in a partition that exists.
LEMMA PartitionOfType ==
  \A a \in Actors, t \in Tables : PartitionOf(a, t) \in Partitions
BY DEF PartitionOf, Partitions

\* There are finitely many keys.
LEMMA KeysFinite == IsFiniteSet(Keys)
<1>1. IsFiniteSet(Partitions)
  BY BoundsAssumption, FS_AddElement DEF Partitions
<1>2. IsFiniteSet(Tables \X Ids)
  BY BoundsAssumption, FS_Product
<1>3. IsFiniteSet(Partitions \X (Tables \X Ids))
  BY <1>1, <1>2, FS_Product
<1> DEFINE flat == [q \in Partitions \X (Tables \X Ids) |-> <<q[1], q[2][1], q[2][2]>>]
<1>4. flat \in [Partitions \X (Tables \X Ids) -> Keys]
  BY DEF Keys
<1>5. \A k \in Keys : \E q \in Partitions \X (Tables \X Ids) : flat[q] = k
  <2> SUFFICES ASSUME NEW k \in Keys
               PROVE  \E q \in Partitions \X (Tables \X Ids) : flat[q] = k
    OBVIOUS
  <2>1. PICK p \in Partitions, t \in Tables, i \in Ids : k = <<p, t, i>>
    BY DEF Keys
  <2>2. <<p, <<t, i>>>> \in Partitions \X (Tables \X Ids)
    OBVIOUS
  <2>3. flat[<<p, <<t, i>>>>] = k
    BY <2>1, <2>2
  <2> QED
    BY <2>2, <2>3
<1>6. flat \in Surjection(Partitions \X (Tables \X Ids), Keys)
  BY <1>4, <1>5 DEF Surjection
<1> QED
  BY <1>3, <1>6, FS_Surjection DEF ExistsSurjection

\* A batch is a sequence of changes.
LEMMA BatchIsSeq == ASSUME NEW batch \in Batches PROVE batch \in Seq(Change)
<1>1. PICK n \in 1..MaxBatch : batch \in [1..n -> Change]
  BY DEF Batches
<1>2. n \in Nat
  BY <1>1, BoundsAssumption
<1> QED
  BY <1>1, <1>2

-----------------------------------------------------------------------------
(* What is left of a log that is cut                                       *)

\* A non-empty set of natural numbers has a least member.
LEMMA HasLeast ==
  ASSUME NEW S \in SUBSET Nat, S # {}
  PROVE  \E n \in S : \A m \in S : n <= m
<1>1. PICK n \in S : \A m \in S : ~(<<m, n>> \in OpToRel(<, Nat))
  BY NatLessThanWellFounded, WFMin, Zenon
<1>2. \A m \in S : ~(m < n)
  <2> SUFFICES ASSUME NEW m \in S, m < n PROVE <<m, n>> \in OpToRel(<, Nat)
    BY <1>1, Zenon
  <2>1. <<m, n>> \in Nat \X Nat
    OBVIOUS
  <2>2. <<m, n>>[1] < <<m, n>>[2]
    OBVIOUS
  <2> QED
    BY <2>1, <2>2, Zenon DEF OpToRel
<1> QED
  BY <1>2

\* FirstSeq is the least sequence number of a log that has entries.
LEMMA FirstSeqIsLeast ==
  ASSUME NEW log \in SUBSET Entry, log # {}
  PROVE  /\ FirstSeq(log) \in Nat
         /\ \E e \in log : e.seq = FirstSeq(log)
         /\ \A e \in log : FirstSeq(log) <= e.seq
<1> DEFINE seqs == {e.seq : e \in log}
<1>1. seqs \in SUBSET Nat /\ seqs # {}
  BY DEF Entry
<1>2. \E n \in seqs : \A m \in seqs : n <= m
  BY <1>1, HasLeast
<1>3. \E n \in seqs : \A e \in log : n <= e.seq
  BY <1>2
<1>4. FirstSeq(log) \in seqs /\ \A e \in log : FirstSeq(log) <= e.seq
  BY <1>3 DEF FirstSeq
<1> QED
  BY <1>1, <1>4

\* A log starts at a natural number, however it is cut.
LEMMA StartOfType ==
  ASSUME NEW log \in SUBSET Entry, NEW start \in Nat
  PROVE  StartOf(log, start) \in Nat
BY FirstSeqIsLeast DEF StartOf

\* What Newest keeps is a suffix of the log...
LEMMA NewestIsSuffix ==
  ASSUME NEW log \in SUBSET Entry, IsFiniteSet(log), NEW keep \in Nat,
         NEW e \in Newest(log, keep), NEW f \in log, e.seq <= f.seq
  PROVE  f \in Newest(log, keep)
<1> DEFINE after(g) == {h \in log : h.seq > g.seq}
<1>1. \A g \in log : g.seq \in Nat
  BY DEF Entry
<1>2. e \in log /\ Cardinality(after(e)) < keep
  BY DEF Newest
<1>3. IsFiniteSet(after(e)) /\ after(f) \in SUBSET after(e)
  BY <1>1, <1>2, FS_Subset
<1>4. /\ Cardinality(after(e)) \in Nat /\ Cardinality(after(f)) \in Nat
      /\ Cardinality(after(f)) <= Cardinality(after(e))
  BY <1>3, FS_Subset, FS_CardinalityType
<1> QED
  BY <1>2, <1>4 DEF Newest

\* ...which is not empty unless the log is, or nothing is to be kept.
LEMMA NewestNotEmpty ==
  ASSUME NEW log \in SUBSET Entry, log # {}, NEW keep \in Nat, keep > 0,
         NEW bound \in Nat, \A e \in log : e.seq <= bound
  PROVE  Newest(log, keep) # {}
<1> DEFINE ages == {bound - e.seq : e \in log}
<1>1. \A e \in log : e.seq \in Nat
  BY DEF Entry
<1>2. ages \in SUBSET Nat /\ ages # {}
  BY <1>1
<1>3. \E n \in ages : \A m \in ages : n <= m
  BY <1>2, HasLeast
<1>4. PICK e \in log : \A m \in ages : bound - e.seq <= m
  BY <1>3
<1>5. \A f \in log : ~(f.seq > e.seq)
  BY <1>1, <1>4
<1>6. {f \in log : f.seq > e.seq} = {}
  BY <1>5
<1>7. Cardinality({f \in log : f.seq > e.seq}) = 0
  BY <1>6, FS_EmptySet
<1> QED
  BY <1>7 DEF Newest

\* A log cut down to its newest entries starts where the kept ones do, and
\* every entry that was cut off is older than that.
LEMMA CutFromStart ==
  ASSUME NEW log \in SUBSET Entry, IsFiniteSet(log), log # {},
         NEW keep \in Nat, keep > 0, NEW start \in Nat, NEW bound \in Nat,
         \A e \in log : start <= e.seq /\ e.seq <= bound
  PROVE  /\ start <= StartOf(Newest(log, keep), start)
         /\ StartOf(Newest(log, keep), start) <= bound
         /\ \A e \in Newest(log, keep) : StartOf(Newest(log, keep), start) <= e.seq
         /\ \A e \in log : e \in Newest(log, keep)
                           \/ e.seq < StartOf(Newest(log, keep), start)
<1> DEFINE kept == Newest(log, keep)
<1>1. kept \in SUBSET log /\ kept \in SUBSET Entry
  BY DEF Newest
<1>2. kept # {}
  BY NewestNotEmpty
<1>3. /\ FirstSeq(kept) \in Nat
      /\ \E e \in kept : e.seq = FirstSeq(kept)
      /\ \A e \in kept : FirstSeq(kept) <= e.seq
  BY <1>1, <1>2, FirstSeqIsLeast
<1>4. PICK first \in kept : first.seq = FirstSeq(kept)
  BY <1>3
<1>5. StartOf(kept, start) = FirstSeq(kept)
  BY <1>2 DEF StartOf
<1>6. start <= FirstSeq(kept) /\ FirstSeq(kept) <= bound
  BY <1>1, <1>4
<1>7. \A f \in log : f \in kept \/ f.seq < FirstSeq(kept)
  <2> SUFFICES ASSUME NEW f \in log, ~(f.seq < FirstSeq(kept)) PROVE f \in kept
    OBVIOUS
  <2>1. f.seq \in Nat /\ first.seq \in Nat
    BY <1>3, <1>4 DEF Entry
  <2>2. first.seq <= f.seq
    BY <1>4, <2>1
  <2> QED
    BY <2>2, <1>4, NewestIsSuffix
<1> QED
  BY <1>3, <1>5, <1>6, <1>7

-----------------------------------------------------------------------------
(* Type correctness                                                        *)

\* The initial state is well typed.
LEMMA InitTypeOK == Init => TypeOK
<1> SUFFICES ASSUME Init PROVE TypeOK
  OBVIOUS
<1>1. Absent \in Stored
  BY DEF Absent, Stored, Owners
<1>2. Admin \in Actors /\ << >> \in Seq(Change)
  BY DEF Actors
<1> QED
  BY <1>1, <1>2 DEF Init, TypeOK

\* The change a step looks at, and the entry that Stage makes of it.
LEMMA StageType == TypeOK /\ Stage => TypeOK'
<1> SUFFICES ASSUME TypeOK, Stage PROVE TypeOK'
  OBVIOUS
<1>1. PICK c \in Change :
        /\ c = Head(todo)
        /\ todo' \in Seq(Change)
  BY DEF TypeOK, Stage
<1>2. PICK k \in Keys : k = <<PartitionOf(actor, c.table), c.table, c.id>>
  BY <1>1, PartitionOfType, KeyIsTriple DEF TypeOK, Change
<1>3. PICK owner \in Owners : owner = OwnerAfter(c, staged[k])
  <2>1. staged[k] \in Stored
    BY <1>2 DEF TypeOK
  <2> QED
    BY <2>1 DEF OwnerAfter, Stored, Owners
<1>4. /\ staged' = [staged EXCEPT ![k] =
                     [op |-> c.op, ts |-> c.ts, cid |-> c.cid, owner |-> owner]]
      /\ applied' = applied \cup
            {[op |-> c.op, table |-> c.table, id |-> c.id, ts |-> c.ts,
              cid |-> c.cid, owner |-> owner, seq |-> globalSeq + 1]}
      /\ globalSeq' = globalSeq + 1
  BY <1>1, <1>2, <1>3 DEF Stage, NextSeq
<1>5. /\ c.ts \in Nat /\ c.cid \in Nat
      /\ c.op \in {"put", "delete"} /\ c.table \in Tables /\ c.id \in Ids
  BY <1>1, StampsAreNat DEF Change
<1>6. staged' \in [Keys -> Stored]
  <2>1. [op |-> c.op, ts |-> c.ts, cid |-> c.cid, owner |-> owner] \in Stored
    BY <1>3, <1>5 DEF Stored
  <2> QED
    BY <1>4, <2>1 DEF TypeOK
<1>7. applied' \subseteq Entry /\ globalSeq' \in Nat
  BY <1>3, <1>4, <1>5 DEF TypeOK, Entry
<1>8. UNCHANGED <<exists, accounts, records, changelog, minSeq, phase, actor, changes,
                history>>
  BY DEF Stage
<1> QED
  BY <1>1, <1>6, <1>7, <1>8 DEF TypeOK

\* Commit keeps the types.
LEMMA CommitType == TypeOK /\ Commit => TypeOK'
<1> SUFFICES ASSUME TypeOK, Commit PROVE TypeOK'
  OBVIOUS
<1>1. \A p \in Partitions :
        Grown(p) \subseteq Entry /\ Newest(Grown(p), MaxHistory) \subseteq Entry
  BY DEF TypeOK, Grown, AppliedIn, Newest
<1>2. changelog' \in [Partitions -> SUBSET Entry]
  BY <1>1 DEF Commit
<1>3. \A p \in Partitions : Opened(p) \in Nat
  BY DEF Opened, TypeOK
<1>4. \A p \in Partitions : StartOf(Newest(Grown(p), MaxHistory), Opened(p)) \in Nat
  BY <1>1, <1>3, StartOfType
<1>5. minSeq' \in [Partitions -> Nat]
  BY <1>3, <1>4 DEF Commit
<1>6. history' \in [Partitions -> SUBSET Entry]
  BY DEF Commit, TypeOK, AppliedIn
<1>7. records' = staged /\ phase' = "idle" /\ applied' = {} /\ changes' = << >>
      /\ UNCHANGED <<exists, accounts, globalSeq, actor, todo, staged>>
  BY DEF Commit
<1> QED
  BY <1>2, <1>5, <1>6, <1>7 DEF TypeOK

\* Prune keeps the types.
LEMMA PruneType == \A limit \in KeepCounts : TypeOK /\ Prune(limit) => TypeOK'
<1> SUFFICES ASSUME NEW limit \in KeepCounts, TypeOK, Prune(limit) PROVE TypeOK'
  OBVIOUS
<1>1. \A p \in Partitions : Sliced(changelog[p], limit) \subseteq Entry
  BY DEF Sliced, Newest, TypeOK
<1>2. changelog' \in [Partitions -> SUBSET Entry]
  BY <1>1 DEF Prune, TypeOK
<1>3. \A p \in Partitions : StartOf(Sliced(changelog[p], limit), minSeq[p]) \in Nat
  BY <1>1, StartOfType DEF TypeOK
<1>4. minSeq' \in [Partitions -> Nat]
  BY <1>3 DEF Prune, TypeOK
<1>5. UNCHANGED <<exists, accounts, records, globalSeq, staging, history>>
  BY DEF Prune
<1> QED
  BY <1>2, <1>4, <1>5 DEF TypeOK, staging

\* A user has made finitely many shared records.
LEMMA MadeByFinite ==
  ASSUME NEW u \in Users
  PROVE  IsFiniteSet(MadeBy(u)) /\ Cardinality(MadeBy(u)) \in Nat
<1>1. MadeBy(u) \in SUBSET Keys
  BY DEF MadeBy
<1> QED
  BY <1>1, KeysFinite, FS_Subset, FS_CardinalityType

\* The tombstones of deleteUser are log entries.
LEMMA TombsType ==
  ASSUME TypeOK, NEW u \in Users, NEW now \in Timestamps, NEW rank \in Ranks(u)
  PROVE  /\ Tombs(u, now, rank) \subseteq Entry
         /\ \A e \in Tombs(u, now, rank) :
              /\ globalSeq < e.seq
              /\ e.seq <= globalSeq + Cardinality(MadeBy(u))
         /\ \A e, f \in Tombs(u, now, rank) : e.seq = f.seq => e = f
         /\ IsFiniteSet(Tombs(u, now, rank))
<1> DEFINE tomb == [k \in MadeBy(u) |->
                      [op |-> "delete", table |-> k[2], id |-> k[3], ts |-> now,
                       cid |-> records[k].cid, owner |-> u, seq |-> globalSeq + rank[k]]]
<1> DEFINE n == Cardinality(MadeBy(u))
<1>1. n \in Nat /\ globalSeq \in Nat /\ now \in Nat
  BY MadeByFinite, StampsAreNat DEF TypeOK
<1>2. \A k \in MadeBy(u) : rank[k] \in 1..n
  BY DEF Ranks
<1>3. \A k \in MadeBy(u) :
        k[2] \in Tables /\ k[3] \in Ids /\ records[k].cid \in Nat
  BY KeyIsTriple DEF MadeBy, TypeOK, Stored
<1>4. u \in Owners
  BY DEF Owners
<1>5. \A k \in MadeBy(u) : tomb[k] \in Entry
  BY <1>1, <1>2, <1>3, <1>4 DEF Entry
<1>6. Tombs(u, now, rank) = {tomb[k] : k \in MadeBy(u)}
  BY DEF Tombs
<1>7. \A k \in MadeBy(u) : tomb[k].seq = globalSeq + rank[k]
  OBVIOUS
<1>8. \A e \in Tombs(u, now, rank) : globalSeq < e.seq /\ e.seq <= globalSeq + n
  BY <1>1, <1>2, <1>6, <1>7
<1>9. ASSUME NEW e \in Tombs(u, now, rank), NEW f \in Tombs(u, now, rank), e.seq = f.seq
      PROVE  e = f
  <2>1. PICK j \in MadeBy(u), k \in MadeBy(u) : e = tomb[j] /\ f = tomb[k]
    BY <1>6
  <2>2. rank[j] = rank[k]
    BY <1>1, <1>2, <1>7, <1>9, <2>1
  <2> QED
    BY <2>1, <2>2 DEF Ranks
<1>10. IsFiniteSet(Tombs(u, now, rank))
  <2>1. tomb \in [MadeBy(u) -> Tombs(u, now, rank)]
    BY <1>6
  <2>2. tomb \in Surjection(MadeBy(u), Tombs(u, now, rank))
    BY <1>6, <2>1 DEF Surjection
  <2> QED
    BY <2>2, MadeByFinite, FS_Surjection DEF ExistsSurjection
<1> QED
  BY <1>5, <1>6, <1>8, <1>9, <1>10

\* DeleteUser keeps the types.
LEMMA DeleteUserType ==
  \A u \in Users, now \in Timestamps : TypeOK /\ DeleteUser(u, now) => TypeOK'
<1> SUFFICES ASSUME NEW u \in Users, NEW now \in Timestamps, TypeOK, DeleteUser(u, now)
             PROVE  TypeOK'
  OBVIOUS
<1>1. PICK rank \in Ranks(u) :
        /\ changelog' = WithTombs(changelog, u, Tombs(u, now, rank))
        /\ history' = WithTombs(history, u, Tombs(u, now, rank))
  BY DEF DeleteUser
<1>2. /\ changelog' \in [Partitions -> SUBSET Entry]
      /\ history' \in [Partitions -> SUBSET Entry]
  BY <1>1, TombsType DEF WithTombs, TypeOK
<1>3. records' \in [Keys -> Stored]
  <2>1. now \in Nat
    BY StampsAreNat
  <2>2. \A k \in Keys : [records[k] EXCEPT !.op = "delete", !.ts = now] \in Stored
    BY <2>1 DEF TypeOK, Stored
  <2>3. Absent \in Stored
    BY DEF Absent, Stored, Owners
  <2>4. \A k \in Keys : records[k] \in Stored
    BY DEF TypeOK
  <2> QED
    BY <2>2, <2>3, <2>4 DEF DeleteUser
<1>4. globalSeq' \in Nat
  <2>1. globalSeq' = globalSeq + Cardinality(MadeBy(u))
    BY DEF DeleteUser
  <2> QED
    BY <2>1, MadeByFinite DEF TypeOK
<1>5. minSeq' \in [Partitions -> Nat] /\ accounts' \subseteq Users
  BY DEF DeleteUser, TypeOK
<1>6. UNCHANGED <<exists, staging>>
  BY DEF DeleteUser
<1> QED
  BY <1>2, <1>3, <1>4, <1>5, <1>6 DEF TypeOK, staging

\* Every step keeps the types.
LEMMA NextTypeOK == TypeOK /\ [Next]_vars => TypeOK'
<1> SUFFICES ASSUME TypeOK, [Next]_vars PROVE TypeOK'
  OBVIOUS
<1>1. ASSUME NEW a \in Actors, NEW batch \in Batches, Begin(a, batch) PROVE TypeOK'
  BY <1>1, BatchIsSeq DEF Begin, TypeOK
<1>2. CASE Skip
  BY <1>2 DEF Skip, TypeOK
<1>3. CASE Stage
  BY <1>3, StageType
<1>4. CASE Reject
  BY <1>4 DEF Reject, Discarded, TypeOK
<1>5. CASE Commit
  BY <1>5, CommitType
<1>6. ASSUME NEW limit \in KeepCounts, Prune(limit) PROVE TypeOK'
  BY <1>6, PruneType
<1>7. ASSUME NEW t \in Tables, CreateTable(t) PROVE TypeOK'
  BY <1>7 DEF CreateTable, TypeOK, staging
<1>8. ASSUME NEW t \in Tables, DeleteTable(t) PROVE TypeOK'
  <2>1. records' \in [Keys -> Stored]
    BY <1>8 DEF DeleteTable, TypeOK, Absent, Stored, Owners
  <2>2. /\ changelog' \in [Partitions -> SUBSET Entry]
        /\ history' \in [Partitions -> SUBSET Entry]
    BY <1>8 DEF DeleteTable, Purged, TypeOK
  <2> QED
    BY <1>8, <2>1, <2>2 DEF DeleteTable, TypeOK, staging
<1>9. ASSUME NEW u \in Users, NEW now \in Timestamps, DeleteUser(u, now) PROVE TypeOK'
  BY <1>9, DeleteUserType
<1>10. CASE Close
  <2>1. records' \in [Keys -> Stored]
    BY <1>10 DEF Close, Absent, Stored, Owners
  <2> QED
    BY <1>10, <2>1 DEF Close, TypeOK, staging
<1>11. CASE UNCHANGED vars
  BY <1>11 DEF vars, staging, TypeOK
<1> QED
  BY <1>1, <1>2, <1>3, <1>4, <1>5, <1>6, <1>7, <1>8, <1>9, <1>10, <1>11 DEF Next

\* Every variable keeps its type, whatever the batches, prunings and deletions.
THEOREM TypeCorrect == Spec => []TypeOK
BY InitTypeOK, NextTypeOK, PTL DEF Spec

-----------------------------------------------------------------------------
(* Sequence numbers                                                        *)

\* The entry that Stage adds to the batch is the only one with its number.
LEMMA StageEntry ==
  ASSUME TypeOK, Stage
  PROVE  /\ globalSeq' = globalSeq + 1
         /\ \E x \in Entry : applied' = applied \cup {x} /\ x.seq = globalSeq + 1
         /\ phase = "staging" /\ UNCHANGED <<changelog, minSeq, history, phase>>
<1>1. applied' \subseteq Entry
  BY StageType DEF TypeOK
<1>2. \E x : applied' = applied \cup {x} /\ x.seq = globalSeq + 1
  <2> DEFINE c == Head(todo)
             k == <<PartitionOf(actor, c.table), c.table, c.id>>
             x == [op |-> c.op, table |-> c.table, id |-> c.id, ts |-> c.ts,
                   cid |-> c.cid, owner |-> OwnerAfter(c, staged[k]),
                   seq |-> globalSeq + 1]
  <2>1. applied' = applied \cup {x}
    BY DEF Stage, NextSeq
  <2>2. x.seq = globalSeq + 1
    OBVIOUS
  <2> QED
    BY <2>1, <2>2
<1> QED
  BY <1>1, <1>2 DEF Stage

\* Every step keeps the sequence numbers unique, and those in use drawn.
LEMMA SeqsPreserved ==
  TypeOK /\ SeqsAreDrawn /\ SeqsAreUnique /\ [Next]_vars
    => SeqsAreDrawn' /\ SeqsAreUnique'
<1> SUFFICES ASSUME TypeOK, SeqsAreDrawn, SeqsAreUnique, [Next]_vars
             PROVE  SeqsAreDrawn' /\ SeqsAreUnique'
  OBVIOUS
<1>0. /\ globalSeq \in Nat
      /\ \A p \in Partitions : \A e \in history[p] : e.seq \in Nat
  BY DEF SeqsAreDrawn, TypeOK
\* Steps that leave the history, or only take from it and from the batch.
<1>a. ASSUME globalSeq' = globalSeq, applied' \subseteq applied,
             phase' = "idle" => applied' = {},
             \A p \in Partitions : history'[p] \subseteq history[p]
      PROVE  SeqsAreDrawn' /\ SeqsAreUnique'
  BY <1>a DEF SeqsAreDrawn, SeqsAreUnique
<1>1. ASSUME NEW a \in Actors, NEW batch \in Batches, Begin(a, batch)
      PROVE  SeqsAreDrawn' /\ SeqsAreUnique'
  BY <1>1, <1>a DEF Begin
<1>2. CASE Skip
  BY <1>2, <1>a DEF Skip
<1>3. CASE Stage
  <2>1. PICK x \in Entry : applied' = applied \cup {x} /\ x.seq = globalSeq + 1
    BY <1>3, StageEntry
  <2>2. globalSeq' = globalSeq + 1 /\ phase' = "staging" /\ history' = history
    BY <1>3, StageEntry
  <2>3. \A e \in applied : e.seq \in 1..globalSeq
    BY DEF SeqsAreDrawn
  <2> QED
    BY <1>0, <2>1, <2>2, <2>3 DEF SeqsAreDrawn, SeqsAreUnique
<1>4. CASE Reject
  BY <1>4, <1>a DEF Reject
<1>5. CASE Commit
  <2>1. /\ globalSeq' = globalSeq /\ applied' = {}
        /\ \A p \in Partitions : history'[p] = history[p] \cup AppliedIn(p)
    BY <1>5 DEF Commit
  <2>2. SeqsAreDrawn'
    BY <2>1 DEF SeqsAreDrawn, AppliedIn
  <2>3. ASSUME NEW p \in Partitions, NEW q \in Partitions,
               NEW e \in history'[p], NEW f \in history'[q], e.seq = f.seq
        PROVE  p = q /\ e = f
    <3>1. CASE e \in history[p] /\ f \in history[q]
      BY <2>3, <3>1 DEF SeqsAreUnique
    <3>2. CASE e \in AppliedIn(p) /\ f \in AppliedIn(q)
      BY <2>3, <3>2 DEF SeqsAreDrawn, AppliedIn
    <3>3. CASE e \in AppliedIn(p) /\ f \in history[q]
      BY <1>0, <2>3, <3>3 DEF SeqsAreDrawn, AppliedIn
    <3>4. CASE e \in history[p] /\ f \in AppliedIn(q)
      BY <1>0, <2>3, <3>4 DEF SeqsAreDrawn, AppliedIn
    <3> QED
      BY <2>1, <3>1, <3>2, <3>3, <3>4
  <2> QED
    BY <2>2, <2>3 DEF SeqsAreUnique
<1>6. ASSUME NEW limit \in KeepCounts, Prune(limit)
      PROVE  SeqsAreDrawn' /\ SeqsAreUnique'
  BY <1>6, <1>a DEF Prune, staging, SeqsAreDrawn
<1>7. ASSUME NEW t \in Tables, CreateTable(t) PROVE SeqsAreDrawn' /\ SeqsAreUnique'
  BY <1>7, <1>a DEF CreateTable, staging, SeqsAreDrawn
<1>8. ASSUME NEW t \in Tables, DeleteTable(t) PROVE SeqsAreDrawn' /\ SeqsAreUnique'
  BY <1>8, <1>a DEF DeleteTable, Purged, staging, SeqsAreDrawn
<1>9. ASSUME NEW u \in Users, NEW now \in Timestamps, DeleteUser(u, now)
      PROVE  SeqsAreDrawn' /\ SeqsAreUnique'
  <2>1. PICK rank \in Ranks(u) :
          history' = WithTombs(history, u, Tombs(u, now, rank))
    BY <1>9 DEF DeleteUser
  <2> DEFINE tombs == Tombs(u, now, rank)
             n == Cardinality(MadeBy(u))
  <2>2. globalSeq' = globalSeq + n /\ n \in Nat
    BY <1>9, MadeByFinite DEF DeleteUser
  <2>3. applied = {} /\ applied' = {}
    BY <1>9 DEF DeleteUser, SeqsAreDrawn, staging
  <2>4. /\ \A e \in tombs : e.seq \in Nat /\ globalSeq < e.seq /\ e.seq <= globalSeq + n
        /\ \A e, f \in tombs : e.seq = f.seq => e = f
    BY TombsType DEF Entry
  <2>5. \A p \in Partitions :
          history'[p] \subseteq history[p] \cup (IF p = Shared THEN tombs ELSE {})
    BY <2>1 DEF WithTombs
  <2> HIDE DEF tombs, n
  <2>6. SeqsAreDrawn'
    BY <1>0, <2>2, <2>3, <2>4, <2>5 DEF SeqsAreDrawn
  <2>7. SeqsAreUnique'
    BY <1>0, <2>4, <2>5 DEF SeqsAreUnique, SeqsAreDrawn
  <2> QED
    BY <2>6, <2>7
<1>10. CASE Close
  BY <1>10 DEF Close, SeqsAreDrawn, SeqsAreUnique, staging
<1>11. CASE UNCHANGED vars
  BY <1>11 DEF vars, staging, SeqsAreDrawn, SeqsAreUnique
<1> QED
  BY <1>1, <1>2, <1>3, <1>4, <1>5, <1>6, <1>7, <1>8, <1>9, <1>10, <1>11 DEF Next

\* Empty logs have no two entries with one number.
LEMMA InitSeqs == Init => SeqsAreDrawn /\ SeqsAreUnique
BY DEF Init, SeqsAreDrawn, SeqsAreUnique

\* No two log entries ever share a sequence number, across all partitions,
\* whichever batches are refused part-way and whichever users are deleted.
THEOREM SeqsUnique == Spec => []SeqsAreUnique
<1>1. Init => TypeOK /\ SeqsAreDrawn /\ SeqsAreUnique
  BY InitTypeOK, InitSeqs
<1>2. TypeOK /\ SeqsAreDrawn /\ SeqsAreUnique /\ [Next]_vars
        => (TypeOK /\ SeqsAreDrawn /\ SeqsAreUnique)'
  BY NextTypeOK, SeqsPreserved
<1> QED
  BY <1>1, <1>2, PTL DEF Spec

-----------------------------------------------------------------------------
(* Completeness of the logs                                                *)

\* Empty logs miss nothing.
LEMMA InitLog == Init => LogFromMinSeq
BY FS_EmptySet DEF Init, LogFromMinSeq

\* Compaction and pruning alike: a log that is cut, to its newest entries and
\* not to none, is complete from its new start on.
LEMMA CutKeepsLog ==
  ASSUME NEW all \in SUBSET Entry, NEW log \in SUBSET Entry, IsFiniteSet(log),
         NEW start \in Nat, NEW bound \in Nat, NEW keep \in Nat, keep > 0,
         Cardinality(log) > 0,
         \A e \in log : start <= e.seq /\ e.seq <= bound,
         \A e \in all : e \in log \/ e.seq < start
  PROVE  /\ Newest(log, keep) \subseteq log /\ IsFiniteSet(Newest(log, keep))
         /\ StartOf(Newest(log, keep), start) <= bound
         /\ \A e \in Newest(log, keep) : StartOf(Newest(log, keep), start) <= e.seq
         /\ \A e \in all : e \in Newest(log, keep)
                           \/ e.seq < StartOf(Newest(log, keep), start)
<1>1. log # {}
  BY FS_EmptySet
<1>2. Newest(log, keep) \in SUBSET log
  BY DEF Newest
<1>3. IsFiniteSet(Newest(log, keep))
  BY <1>2, FS_Subset
<1> DEFINE from == StartOf(Newest(log, keep), start)
<1>4. /\ start <= from /\ from <= bound
      /\ \A e \in Newest(log, keep) : from <= e.seq
      /\ \A e \in log : e \in Newest(log, keep) \/ e.seq < from
  BY <1>1, CutFromStart
<1>5. from \in Nat
  BY <1>2, StartOfType
<1>6. \A e \in all : e.seq \in Nat
  BY DEF Entry
<1>7. \A e \in all : e \in Newest(log, keep) \/ e.seq < from
  BY <1>4, <1>5, <1>6
<1> QED
  BY <1>2, <1>3, <1>4, <1>7

\* Commit, and the compaction at its end, keeps the logs complete from minSeq on.
LEMMA CommitLog ==
  ASSUME MaxHistory > 0, Inductive, Commit
  PROVE  LogFromMinSeq'
<1>0. /\ TypeOK /\ SeqsAreDrawn /\ LogFromMinSeq /\ globalSeq \in Nat
      /\ MaxHistory \in Nat
  BY LimitsAreNat DEF Inductive, TypeOK
<1>1. globalSeq' = globalSeq /\ applied' = {}
  BY DEF Commit
<1> SUFFICES ASSUME NEW p \in Partitions
             PROVE  /\ changelog'[p] \subseteq history'[p] /\ IsFiniteSet(changelog'[p])
                    /\ minSeq'[p] <= globalSeq
                    /\ \A e \in changelog'[p] : minSeq'[p] <= e.seq
                    /\ \A e \in history'[p] : e \in changelog'[p] \/ e.seq < minSeq'[p]
  BY <1>1, FS_EmptySet DEF LogFromMinSeq
<1> DEFINE all == history[p] \cup AppliedIn(p)
<1>2. AppliedIn(p) \in SUBSET applied /\ IsFiniteSet(AppliedIn(p))
  BY <1>0, FS_Subset DEF AppliedIn, LogFromMinSeq
<1>3. /\ all \in SUBSET Entry /\ Grown(p) \in SUBSET all /\ Grown(p) \in SUBSET Entry
      /\ IsFiniteSet(Grown(p))
  <2>1. changelog[p] \in SUBSET history[p] /\ IsFiniteSet(changelog[p])
    BY <1>0 DEF LogFromMinSeq
  <2>2. history[p] \in SUBSET Entry /\ applied \in SUBSET Entry
    BY <1>0 DEF TypeOK
  <2> QED
    BY <1>2, <2>1, <2>2, FS_Union DEF Grown
<1>4. \A e \in all : e.seq \in Nat /\ 1 <= e.seq /\ e.seq <= globalSeq
  BY <1>0, <1>2 DEF SeqsAreDrawn
<1>5. /\ Opened(p) \in Nat /\ Opened(p) <= globalSeq
      /\ \A e \in Grown(p) : Opened(p) <= e.seq
      /\ \A e \in all : e \in Grown(p) \/ e.seq < Opened(p)
  <2>1. minSeq[p] \in Nat /\ minSeq[p] <= globalSeq
    BY <1>0 DEF TypeOK, LogFromMinSeq
  <2>2. \A e \in Grown(p) : minSeq[p] <= e.seq
    BY <1>0, <1>2 DEF Grown, LogFromMinSeq
  <2>3. \A e \in all : e \in Grown(p) \/ e.seq < minSeq[p]
    BY <1>0 DEF Grown, LogFromMinSeq
  <2>4. CASE Opened(p) = minSeq[p]
    BY <2>1, <2>2, <2>3, <2>4
  <2>5. CASE Opened(p) = 1 /\ minSeq[p] = 0 /\ globalSeq > 0
    BY <1>0, <1>3, <1>4, <2>3, <2>5
  <2> QED
    BY <2>4, <2>5 DEF Opened
<1>6. history'[p] = all
  BY DEF Commit
<1>7. CASE ~Compacts(p)
  <2>1. changelog'[p] = Grown(p) /\ minSeq'[p] = Opened(p)
    BY <1>7 DEF Commit
  <2> QED
    BY <1>3, <1>5, <1>6, <2>1
<1>8. CASE Compacts(p)
  <2>1. /\ changelog'[p] = Newest(Grown(p), MaxHistory)
        /\ minSeq'[p] = StartOf(Newest(Grown(p), MaxHistory), Opened(p))
    BY <1>8 DEF Commit
  <2>2. Cardinality(Grown(p)) > 0
    <3>1. MaxHistory + Slack \in Nat
      BY BoundsAssumption
    <3>2. Cardinality(Grown(p)) \in Nat
      BY <1>3, FS_CardinalityType
    <3> QED
      BY <1>8, <3>1, <3>2 DEF Compacts
  <2> HIDE DEF all
  <2>3. /\ Newest(Grown(p), MaxHistory) \subseteq Grown(p)
        /\ IsFiniteSet(Newest(Grown(p), MaxHistory))
        /\ minSeq'[p] <= globalSeq
        /\ \A e \in Newest(Grown(p), MaxHistory) : minSeq'[p] <= e.seq
        /\ \A e \in all : e \in Newest(Grown(p), MaxHistory) \/ e.seq < minSeq'[p]
    <3> DEFINE log == Grown(p)
               start == Opened(p)
    <3>1. /\ all \in SUBSET Entry /\ log \in SUBSET Entry /\ IsFiniteSet(log)
          /\ start \in Nat /\ globalSeq \in Nat /\ MaxHistory \in Nat
          /\ Cardinality(log) > 0
          /\ \A e \in log : start <= e.seq /\ e.seq <= globalSeq
          /\ \A e \in all : e \in log \/ e.seq < start
      BY <1>0, <1>3, <1>4, <1>5, <2>2
    <3> HIDE DEF log, start
    <3>2. /\ Newest(log, MaxHistory) \subseteq log /\ IsFiniteSet(Newest(log, MaxHistory))
          /\ StartOf(Newest(log, MaxHistory), start) <= globalSeq
          /\ \A e \in Newest(log, MaxHistory) :
               StartOf(Newest(log, MaxHistory), start) <= e.seq
          /\ \A e \in all : e \in Newest(log, MaxHistory)
                            \/ e.seq < StartOf(Newest(log, MaxHistory), start)
      BY <3>1, CutKeepsLog
    <3> QED
      BY <2>1, <3>2 DEF log, start
  <2> QED
    BY <1>3, <1>6, <2>1, <2>3
<1> QED
  BY <1>7, <1>8

\* So does Prune...
LEMMA PruneLog ==
  ASSUME Inductive, NEW limit \in KeepCounts, Prune(limit)
  PROVE  LogFromMinSeq'
<1>0. /\ TypeOK /\ SeqsAreDrawn /\ LogFromMinSeq /\ globalSeq \in Nat
      /\ limit \in Nat
  BY LimitsAreNat DEF Inductive, TypeOK
<1>1. applied = {} /\ UNCHANGED <<globalSeq, history, applied>>
  BY <1>0 DEF Prune, staging, SeqsAreDrawn
<1> SUFFICES ASSUME NEW p \in Partitions
             PROVE  /\ changelog'[p] \subseteq history[p] /\ IsFiniteSet(changelog'[p])
                    /\ minSeq'[p] <= globalSeq
                    /\ \A e \in changelog'[p] : minSeq'[p] <= e.seq
                    /\ \A e \in history[p] : e \in changelog'[p] \/ e.seq < minSeq'[p]
  BY <1>1, FS_EmptySet DEF LogFromMinSeq
<1>2. /\ changelog[p] \in SUBSET history[p] /\ IsFiniteSet(changelog[p])
      /\ minSeq[p] \in Nat /\ minSeq[p] <= globalSeq
      /\ \A e \in changelog[p] : minSeq[p] <= e.seq
      /\ \A e \in history[p] : e \in changelog[p] \/ e.seq < minSeq[p]
  BY <1>0 DEF LogFromMinSeq, TypeOK
<1>3. /\ changelog[p] \in SUBSET Entry /\ history[p] \in SUBSET Entry
      /\ \A e \in changelog[p] : minSeq[p] <= e.seq /\ e.seq <= globalSeq
  BY <1>0, <1>2 DEF TypeOK, SeqsAreDrawn
<1>4. CASE Cardinality(changelog[p]) <= limit
  <2>1. ~(Cardinality(changelog[p]) > limit)
    BY <1>0, <1>2, <1>4, FS_CardinalityType
  <2> QED
    BY <1>2, <2>1 DEF Prune
<1>5. CASE Cardinality(changelog[p]) > limit /\ limit = 0
  <2>1. changelog'[p] = changelog[p] /\ minSeq'[p] = StartOf(changelog[p], minSeq[p])
    BY <1>5 DEF Prune, Sliced
  <2>2. changelog[p] # {}
    BY <1>5, FS_EmptySet
  <2>3. /\ FirstSeq(changelog[p]) \in Nat
        /\ \E e \in changelog[p] : e.seq = FirstSeq(changelog[p])
        /\ \A e \in changelog[p] : FirstSeq(changelog[p]) <= e.seq
    BY <1>3, <2>2, FirstSeqIsLeast
  <2>4. minSeq'[p] = FirstSeq(changelog[p])
    BY <2>1, <2>2 DEF StartOf
  <2>5. minSeq[p] <= minSeq'[p] /\ minSeq'[p] <= globalSeq /\ minSeq'[p] \in Nat
    BY <1>3, <2>3, <2>4
  <2>6. \A e \in history[p] : e.seq \in Nat
    BY <1>3 DEF Entry
  <2> QED
    BY <1>2, <2>1, <2>3, <2>4, <2>5, <2>6
<1>6. CASE Cardinality(changelog[p]) > limit /\ limit # 0
  <2>1. /\ changelog'[p] = Newest(changelog[p], limit)
        /\ minSeq'[p] = StartOf(Newest(changelog[p], limit), minSeq[p])
    BY <1>6 DEF Prune, Sliced
  <2>2. Cardinality(changelog[p]) > 0 /\ limit > 0
    BY <1>0, <1>2, <1>6, FS_CardinalityType
  <2> DEFINE log == changelog[p]
             all == history[p]
             start == minSeq[p]
  <2>3. /\ all \in SUBSET Entry /\ log \in SUBSET Entry /\ IsFiniteSet(log)
        /\ start \in Nat /\ globalSeq \in Nat /\ limit \in Nat
        /\ Cardinality(log) > 0
        /\ \A e \in log : start <= e.seq /\ e.seq <= globalSeq
        /\ \A e \in all : e \in log \/ e.seq < start
    BY <1>0, <1>2, <1>3, <2>2
  <2> HIDE DEF log, all, start
  <2>4. /\ Newest(log, limit) \subseteq log /\ IsFiniteSet(Newest(log, limit))
        /\ StartOf(Newest(log, limit), start) <= globalSeq
        /\ \A e \in Newest(log, limit) : StartOf(Newest(log, limit), start) <= e.seq
        /\ \A e \in all : e \in Newest(log, limit)
                          \/ e.seq < StartOf(Newest(log, limit), start)
    BY <2>2, <2>3, CutKeepsLog
  <2> QED
    BY <1>2, <2>1, <2>4 DEF log, all, start
<1> QED
  BY <1>0, <1>2, <1>4, <1>5, <1>6, FS_CardinalityType

\* ...and so does DeleteUser.
LEMMA DeleteUserLog ==
  ASSUME Inductive, NEW u \in Users, NEW now \in Timestamps, DeleteUser(u, now)
  PROVE  LogFromMinSeq'
<1>0. TypeOK /\ SeqsAreDrawn /\ LogFromMinSeq /\ globalSeq \in Nat
  BY DEF Inductive, TypeOK
<1>1. PICK rank \in Ranks(u) :
        /\ changelog' = WithTombs(changelog, u, Tombs(u, now, rank))
        /\ history' = WithTombs(history, u, Tombs(u, now, rank))
  BY DEF DeleteUser
<1> DEFINE tombs == Tombs(u, now, rank)
           n == Cardinality(MadeBy(u))
<1>2. /\ globalSeq' = globalSeq + n /\ n \in Nat
      /\ minSeq' = [minSeq EXCEPT ![u] = 0]
  BY MadeByFinite DEF DeleteUser
<1>3. applied = {} /\ applied' = {}
  BY <1>0 DEF DeleteUser, SeqsAreDrawn, staging
<1>4. IsFiniteSet(tombs) /\ \A e \in tombs : e.seq \in Nat /\ globalSeq < e.seq
  BY <1>0, TombsType DEF Entry
<1> HIDE DEF tombs, n
<1> SUFFICES ASSUME NEW p \in Partitions
             PROVE  /\ changelog'[p] \subseteq history'[p] /\ IsFiniteSet(changelog'[p])
                    /\ minSeq'[p] <= globalSeq'
                    /\ \A e \in changelog'[p] : minSeq'[p] <= e.seq
                    /\ \A e \in history'[p] : e \in changelog'[p] \/ e.seq < minSeq'[p]
  BY <1>3, FS_EmptySet DEF LogFromMinSeq
<1>5. /\ changelog[p] \subseteq history[p] /\ IsFiniteSet(changelog[p])
      /\ minSeq[p] \in Nat /\ minSeq[p] <= globalSeq
      /\ \A e \in changelog[p] : minSeq[p] <= e.seq
      /\ \A e \in history[p] : e \in changelog[p] \/ e.seq < minSeq[p]
  BY <1>0 DEF LogFromMinSeq, TypeOK
<1>6. CASE p = u
  BY <1>0, <1>1, <1>2, <1>6, FS_EmptySet DEF WithTombs, TypeOK
<1>7. CASE p # u /\ p # Shared
  BY <1>0, <1>1, <1>2, <1>5, <1>7 DEF WithTombs, TypeOK
<1>8. CASE p # u /\ p = Shared
  <2>1. /\ changelog'[p] = changelog[p] \cup tombs
        /\ history'[p] = history[p] \cup tombs
    BY <1>1, <1>8 DEF WithTombs, tombs
  <2>2. minSeq'[p] = minSeq[p]
    BY <1>0, <1>2, <1>8 DEF TypeOK
  <2>3. IsFiniteSet(changelog'[p])
    BY <1>4, <1>5, <2>1, FS_Union
  <2> QED
    BY <1>0, <1>2, <1>4, <1>5, <2>1, <2>2, <2>3
<1> QED
  BY <1>6, <1>7, <1>8

\* Staging a change keeps the logs well kept: its number is later than any in them.
LEMMA StageLog ==
  ASSUME Inductive, Stage
  PROVE  LogFromMinSeq'
<1>0. TypeOK /\ SeqsAreDrawn /\ LogFromMinSeq /\ globalSeq \in Nat
  BY DEF Inductive, TypeOK
<1>1. PICK x \in Entry : applied' = applied \cup {x} /\ x.seq = globalSeq + 1
  BY <1>0, StageEntry
<1>2. globalSeq' = globalSeq + 1 /\ UNCHANGED <<changelog, minSeq, history>>
  BY <1>0, StageEntry
<1>3. IsFiniteSet(applied')
  BY <1>0, <1>1, FS_AddElement DEF LogFromMinSeq
<1>4. \A p \in Partitions : minSeq[p] \in Nat /\ minSeq[p] <= globalSeq
  BY <1>0 DEF LogFromMinSeq, TypeOK
<1> QED
  BY <1>0, <1>1, <1>2, <1>3, <1>4 DEF LogFromMinSeq

\* Every step keeps the logs well kept, provided that compaction leaves entries.
LEMMA LogPreserved ==
  ASSUME MaxHistory > 0, Inductive, [Next]_vars
  PROVE  LogFromMinSeq'
<1>0. TypeOK /\ SeqsAreDrawn /\ LogFromMinSeq
  BY DEF Inductive
<1>1. ASSUME NEW a \in Actors, NEW batch \in Batches, Begin(a, batch)
      PROVE  LogFromMinSeq'
  BY <1>0, <1>1, FS_EmptySet DEF Begin, LogFromMinSeq, SeqsAreDrawn
<1>2. CASE Skip
  BY <1>0, <1>2 DEF Skip, LogFromMinSeq
<1>3. CASE Stage
  BY <1>3, StageLog
<1>4. CASE Reject
  BY <1>0, <1>4, FS_EmptySet DEF Reject, LogFromMinSeq
<1>5. CASE Commit
  BY <1>5, CommitLog
<1>6. ASSUME NEW limit \in KeepCounts, Prune(limit) PROVE LogFromMinSeq'
  BY <1>6, PruneLog
<1>7. ASSUME NEW t \in Tables, CreateTable(t) PROVE LogFromMinSeq'
  BY <1>0, <1>7 DEF CreateTable, LogFromMinSeq, staging
<1>8. ASSUME NEW t \in Tables, DeleteTable(t) PROVE LogFromMinSeq'
  <2>1. \A p \in Partitions :
          /\ changelog'[p] = {e \in changelog[p] : e.table # t}
          /\ history'[p] = {e \in history[p] : e.table # t}
    BY <1>8 DEF DeleteTable, Purged
  <2>2. \A p \in Partitions : IsFiniteSet(changelog'[p])
    BY <1>0, <2>1, FS_Subset DEF LogFromMinSeq
  <2>3. UNCHANGED <<applied, minSeq, globalSeq>>
    BY <1>8 DEF DeleteTable, staging
  <2> QED
    BY <1>0, <2>1, <2>2, <2>3 DEF LogFromMinSeq
<1>9. ASSUME NEW u \in Users, NEW now \in Timestamps, DeleteUser(u, now)
      PROVE  LogFromMinSeq'
  BY <1>9, DeleteUserLog
<1>10. CASE Close
  BY <1>0, <1>10, FS_EmptySet DEF Close, LogFromMinSeq, SeqsAreDrawn, staging
<1>11. CASE UNCHANGED vars
  BY <1>0, <1>11 DEF vars, staging, LogFromMinSeq
<1> QED
  BY <1>1, <1>2, <1>3, <1>4, <1>5, <1>6, <1>7, <1>8, <1>9, <1>10, <1>11 DEF Next

\* The inductive invariant holds if compaction keeps at least one entry; with
\* maxHistoryEntries = 0 it may empty a log without moving where it starts.
THEOREM LogsWellKept == MaxHistory > 0 /\ Spec => []Inductive
<1> SUFFICES ASSUME MaxHistory > 0 PROVE Spec => []Inductive
  OBVIOUS
<1>1. Init => Inductive
  BY InitTypeOK, InitSeqs, InitLog DEF Inductive
<1>2. Inductive /\ [Next]_vars => Inductive'
  BY NextTypeOK, SeqsPreserved, LogPreserved DEF Inductive
<1> QED
  BY <1>1, <1>2, PTL DEF Spec

\* A log that holds everything from minSeq on answers completely whoever need
\* not take a snapshot.
LEMMA CompleteFromMinSeq == Inductive => DiffIsComplete
<1> SUFFICES ASSUME Inductive,
                    NEW a \in Actors, NEW from \in 0..MaxSeq,
                    ~IsSnapshotRequired(a, from),
                    NEW p \in {Shared} \cup ({a} \cap Users),
                    NEW e \in history[p], e.seq > from
             PROVE  e \in changelog[p]
  BY DEF DiffIsComplete, RawChangesSince
<1>1. p \in Partitions /\ Shared \in Partitions
  BY DEF Partitions
<1>2. /\ minSeq[p] \in Nat /\ minSeq[Shared] \in Nat /\ e.seq \in Nat
      /\ a \in Users => minSeq[a] \in Nat
  BY <1>1 DEF Inductive, TypeOK, Entry, Partitions
<1>3. minSeq[p] <= MinSeqFor(a)
  <2>1. CASE p = Shared
    BY <1>2, <2>1 DEF MinSeqFor
  <2>2. CASE p = a /\ a \in Users
    BY <1>2, <2>2 DEF MinSeqFor
  <2> QED
    BY <2>1, <2>2
<1>4. MinSeqFor(a) \in Nat
  BY <1>1 DEF MinSeqFor, Inductive, TypeOK, Partitions
<1>5. MinSeqFor(a) <= from
  BY <1>4 DEF IsSnapshotRequired
<1>6. ~(e.seq < minSeq[p])
  BY <1>2, <1>3, <1>4, <1>5
<1> QED
  BY <1>1, <1>6 DEF Inductive, LogFromMinSeq

\* A client that is sent a diff is sent every change since the sequence number
\* it gave, in the shared partition and in its own, however the logs were
\* compacted and pruned.
THEOREM DiffComplete == MaxHistory > 0 /\ Spec => []DiffIsComplete
BY LogsWellKept, CompleteFromMinSeq, PTL

-----------------------------------------------------------------------------
(* The records replay the history                                          *)

\* What a log entry says of a record, and the entries of a log for a key.
Recorded(e) == [op |-> e.op, ts |-> e.ts, cid |-> e.cid, owner |-> e.owner]
ToldOf(log, k) == {e \in log : e.table = k[2] /\ e.id = k[3]}

\* The record r is what the last of its entries says.
Follows(r, told) ==
  IF told = {} THEN r = Absent
  ELSE \E e \in told : (\A f \in told : f.seq <= e.seq) /\ r = Recorded(e)

Replays(stored, logs) == \A k \in Keys : Follows(stored[k], ToldOf(logs[k[1]], k))

\* The logs as they will be if the batch commits as far as it is staged.
StagedHistory == [p \in Partitions |-> history[p] \cup AppliedIn(p)]

\* The records replay the history, and what is staged replays the history the
\* batch will leave.
ReplayInv ==
  /\ Replays(records, history)
  /\ phase = "staging" => Replays(staged, StagedHistory)
\* A record replays the entries it has if it is the last of them...
LEMMA LastIsFollowed ==
  ASSUME NEW told, NEW x \in Entry, told \subseteq Entry, NEW bound \in Nat,
         \A f \in told : f.seq <= bound, bound < x.seq
  PROVE  Follows(Recorded(x), told \cup {x})
<1>1. \A f \in told \cup {x} : f.seq <= x.seq
  BY DEF Entry
<1>2. x \in told \cup {x} /\ told \cup {x} # {}
  OBVIOUS
<1> QED
  BY <1>1, <1>2 DEF Follows

\* ...and one without entries is not there.
LEMMA NothingIsFollowed == Follows(Absent, {})
BY DEF Follows

\* An empty log has entries for no key.
LEMMA ToldOfNothing == \A k : ToldOf({}, k) = {}
BY DEF ToldOf

\* A log with one more entry has it for the key the entry is about.
LEMMA ToldOfMore ==
  ASSUME NEW log, NEW x, NEW k
  PROVE  ToldOf(log \cup {x}, k) =
           IF x.table = k[2] /\ x.id = k[3] THEN ToldOf(log, k) \cup {x}
           ELSE ToldOf(log, k)
BY DEF ToldOf

\* The entries of a key are log entries, with numbers drawn from the counter.
LEMMA ToldIsDrawn ==
  ASSUME TypeOK, SeqsAreDrawn, NEW k \in Keys
  PROVE  /\ ToldOf(history[k[1]], k) \subseteq Entry
         /\ \A e \in ToldOf(history[k[1]], k) : e.seq \in Nat /\ e.seq <= globalSeq
<1>1. k[1] \in Partitions
  BY KeyIsTriple
<1>2. history[k[1]] \subseteq Entry
  BY <1>1 DEF TypeOK
<1>3. \A e \in history[k[1]] : e.seq \in Nat /\ e.seq <= globalSeq
  BY <1>1, <1>2 DEF SeqsAreDrawn, TypeOK, Entry
<1> QED
  BY <1>2, <1>3 DEF ToldOf

\* What the log of a partition would be after the batch is drawn, too.
LEMMA StagedIsDrawn ==
  ASSUME TypeOK, SeqsAreDrawn, NEW p \in Partitions
  PROVE  /\ StagedHistory[p] \subseteq Entry
         /\ \A e \in StagedHistory[p] : e.seq \in Nat /\ e.seq <= globalSeq
<1>1. StagedHistory[p] = history[p] \cup AppliedIn(p)
  BY DEF StagedHistory
<1>2. StagedHistory[p] \subseteq Entry
  BY <1>1 DEF TypeOK, AppliedIn
<1>3. \A e \in StagedHistory[p] : e.seq <= globalSeq
  BY <1>1 DEF SeqsAreDrawn, AppliedIn, TypeOK
<1> QED
  BY <1>2, <1>3 DEF Entry

\* Staging a change for a key leaves what it says in the record of that key,
\* and the records of all others as they are.
LEMMA StageReplays ==
  ASSUME TypeOK, SeqsAreDrawn, ReplayInv, Stage
  PROVE  ReplayInv'
<1> DEFINE c == Head(todo)
           q == PartitionOf(actor, c.table)
           key == <<q, c.table, c.id>>
           owner == OwnerAfter(c, staged[key])
           x == [op |-> c.op, table |-> c.table, id |-> c.id, ts |-> c.ts,
                 cid |-> c.cid, owner |-> owner, seq |-> globalSeq + 1]
<1>1. c \in Change /\ phase = "staging"
  BY DEF TypeOK, Stage
<1>2. c.table \in Tables /\ c.id \in Ids /\ q \in Partitions /\ key \in Keys
  BY <1>1, PartitionOfType, KeyIsTriple DEF TypeOK, Change
<1>3. /\ applied' = applied \cup {x}
      /\ staged' = [staged EXCEPT ![key] =
                     [op |-> c.op, ts |-> c.ts, cid |-> c.cid, owner |-> owner]]
      /\ UNCHANGED <<records, history, actor, phase>>
  BY DEF Stage, NextSeq
<1>4. x \in Entry
  <2>1. applied' \subseteq Entry
    BY StageType DEF TypeOK
  <2> QED
    BY <1>3, <2>1
<1>5. x.table = c.table /\ x.id = c.id /\ x.seq = globalSeq + 1
  OBVIOUS
<1>6. Recorded(x) = [op |-> c.op, ts |-> c.ts, cid |-> c.cid, owner |-> owner]
  BY DEF Recorded
<1>7. staged' = [staged EXCEPT ![key] = Recorded(x)]
  BY <1>3, <1>6
<1> HIDE DEF x, owner
<1>8. \A p \in Partitions :
        StagedHistory'[p] = IF p = q THEN StagedHistory[p] \cup {x} ELSE StagedHistory[p]
  <2> SUFFICES ASSUME NEW p \in Partitions
               PROVE  StagedHistory'[p] =
                        IF p = q THEN StagedHistory[p] \cup {x} ELSE StagedHistory[p]
    OBVIOUS
  <2>1. /\ StagedHistory'[p] = history[p] \cup {e \in applied' : PartitionOf(actor, e.table) = p}
        /\ StagedHistory[p] = history[p] \cup {e \in applied : PartitionOf(actor, e.table) = p}
    BY <1>3 DEF StagedHistory, AppliedIn
  <2> QED
    BY <1>3, <1>5, <2>1
<1>9. Replays(records', history')
  BY <1>3 DEF ReplayInv
<1>10. Replays(staged', StagedHistory')
  <2> SUFFICES ASSUME NEW k \in Keys
               PROVE  Follows(staged'[k], ToldOf(StagedHistory'[k[1]], k))
    BY DEF Replays
  <2>1. k[1] \in Partitions /\ k = <<k[1], k[2], k[3]>>
    BY KeyIsTriple DEF Keys
  <2>2. Follows(staged[k], ToldOf(StagedHistory[k[1]], k))
    BY <1>1 DEF ReplayInv, Replays
  <2>3. CASE k = key
    <3>1. k[1] = q /\ k[2] = c.table /\ k[3] = c.id
      BY <2>3
    <3>2. ToldOf(StagedHistory'[k[1]], k) = ToldOf(StagedHistory[k[1]], k) \cup {x}
      <4>1. StagedHistory'[k[1]] = StagedHistory[k[1]] \cup {x}
        BY <1>2, <1>8, <3>1
      <4>2. x.table = k[2] /\ x.id = k[3]
        BY <1>5, <3>1
      <4>3. ToldOf(StagedHistory[k[1]] \cup {x}, k) = ToldOf(StagedHistory[k[1]], k) \cup {x}
        BY <4>2, ToldOfMore
      <4> QED
        BY <4>1, <4>3
    <3>3. staged'[k] = Recorded(x)
      BY <1>2, <1>7, <2>3 DEF TypeOK
    <3>4. /\ ToldOf(StagedHistory[k[1]], k) \subseteq Entry
          /\ \A f \in ToldOf(StagedHistory[k[1]], k) : f.seq <= globalSeq
      BY <2>1, StagedIsDrawn DEF ToldOf
    <3>5. globalSeq \in Nat /\ globalSeq < x.seq
      BY <1>5 DEF TypeOK
    <3>6. Follows(Recorded(x), ToldOf(StagedHistory[k[1]], k) \cup {x})
      BY <1>4, <3>4, <3>5, LastIsFollowed
    <3> QED
      BY <3>2, <3>3, <3>6
  <2>4. CASE k # key
    <3>1. staged'[k] = staged[k]
      BY <1>7, <2>4 DEF TypeOK
    <3>2. ToldOf(StagedHistory'[k[1]], k) = ToldOf(StagedHistory[k[1]], k)
      <4>1. CASE k[1] # q
        BY <1>8, <2>1, <4>1
      <4>2. CASE k[1] = q
        <5>1. ~(x.table = k[2] /\ x.id = k[3])
          BY <1>5, <2>1, <2>4, <4>2
        <5>2. StagedHistory'[k[1]] = StagedHistory[k[1]] \cup {x}
          BY <1>8, <2>1, <4>2
        <5>3. ToldOf(StagedHistory[k[1]] \cup {x}, k) = ToldOf(StagedHistory[k[1]], k)
          BY <5>1, ToldOfMore
        <5> QED
          BY <5>2, <5>3
      <4> QED
        BY <4>1, <4>2
    <3> QED
      BY <2>2, <3>1, <3>2
  <2> QED
    BY <2>3, <2>4
<1> QED
  BY <1>9, <1>10 DEF ReplayInv

\* A deleted table leaves neither records nor entries.
LEMMA DeleteTableReplays ==
  ASSUME TypeOK, ReplayInv, NEW t \in Tables, DeleteTable(t)
  PROVE  ReplayInv'
<1>1. /\ records' = [k \in Keys |-> IF k[2] = t THEN Absent ELSE records[k]]
      /\ \A p \in Partitions : history'[p] = {e \in history[p] : e.table # t}
      /\ phase' = "idle"
  BY DEF DeleteTable, Purged, staging
<1> SUFFICES ASSUME NEW k \in Keys
             PROVE  Follows(records'[k], ToldOf(history'[k[1]], k))
  BY <1>1 DEF ReplayInv, Replays
<1>2. k[1] \in Partitions
  BY KeyIsTriple
<1>3. history'[k[1]] = {e \in history[k[1]] : e.table # t}
  BY <1>1, <1>2
<1>4. CASE k[2] = t
  <2>1. ToldOf(history'[k[1]], k) = {}
    BY <1>3, <1>4 DEF ToldOf
  <2> QED
    BY <1>1, <1>4, <2>1, NothingIsFollowed
<1>5. CASE k[2] # t
  <2>1. ToldOf(history'[k[1]], k) = ToldOf(history[k[1]], k)
    BY <1>3, <1>5 DEF ToldOf
  <2>2. Follows(records[k], ToldOf(history[k[1]], k))
    BY DEF ReplayInv, Replays
  <2> QED
    BY <1>1, <1>5, <2>1, <2>2
<1> QED
  BY <1>4, <1>5

\* deleteUser drops what was the user's own with its log, and leaves a
\* tombstone, and an entry for it, of whatever the user shared.
LEMMA DeleteUserReplays ==
  ASSUME TypeOK, SeqsAreDrawn, ReplayInv,
         NEW u \in Users, NEW now \in Timestamps, DeleteUser(u, now)
  PROVE  ReplayInv'
<1>1. PICK rank \in Ranks(u) : history' = WithTombs(history, u, Tombs(u, now, rank))
  BY DEF DeleteUser
<1> DEFINE tombs == Tombs(u, now, rank)
           tomb(j) == [op |-> "delete", table |-> j[2], id |-> j[3], ts |-> now,
                       cid |-> records[j].cid, owner |-> u, seq |-> globalSeq + rank[j]]
<1>2. tombs = {tomb(j) : j \in MadeBy(u)}
  BY DEF Tombs
<1>3. tombs \subseteq Entry /\ \A e \in tombs : globalSeq < e.seq
  BY TombsType
<1>4. /\ \A k \in Keys : records'[k] =
           IF k[1] = u THEN Absent
           ELSE IF k \in MadeBy(u)
                THEN [records[k] EXCEPT !.op = "delete", !.ts = now] ELSE records[k]
      /\ phase' = "idle"
  BY DEF DeleteUser, staging
<1>5. u # Shared /\ Shared \in Partitions
  BY BoundsAssumption DEF Partitions
<1>6. history'[Shared] = history[Shared] \cup tombs
  BY <1>1, <1>5 DEF WithTombs
<1> HIDE DEF tombs
<1> SUFFICES ASSUME NEW k \in Keys
             PROVE  Follows(records'[k], ToldOf(history'[k[1]], k))
  BY <1>4 DEF ReplayInv, Replays
<1>7. k[1] \in Partitions /\ k = <<k[1], k[2], k[3]>>
  BY KeyIsTriple DEF Keys
<1>8. Follows(records[k], ToldOf(history[k[1]], k))
  BY DEF ReplayInv, Replays
<1>9. CASE k[1] = u
  <2>1. history'[k[1]] = {}
    BY <1>1, <1>7, <1>9 DEF WithTombs
  <2> QED
    BY <1>4, <1>9, <2>1, ToldOfNothing, NothingIsFollowed
<1>10. CASE k[1] # u /\ k \in MadeBy(u)
  <2>1. /\ k[1] = Shared /\ records[k].owner = u /\ records[k] \in Stored
    BY <1>10 DEF MadeBy, TypeOK
  <2>2. tomb(k) \in tombs
    BY <1>2, <1>10
  <2>3. \A j \in MadeBy(u) : j[2] = k[2] /\ j[3] = k[3] => j = k
    <3> SUFFICES ASSUME NEW j \in MadeBy(u), j[2] = k[2], j[3] = k[3] PROVE j = k
      OBVIOUS
    <3>1. j \in Keys /\ j[1] = Shared
      BY DEF MadeBy
    <3>2. j = <<j[1], j[2], j[3]>>
      BY <3>1 DEF Keys
    <3> QED
      BY <1>7, <2>1, <3>1, <3>2
  <2>4. {e \in tombs : e.table = k[2] /\ e.id = k[3]} = {tomb(k)}
    <3>1. \A j \in MadeBy(u) : tomb(j).table = j[2] /\ tomb(j).id = j[3]
      OBVIOUS
    <3>2. tomb(k).table = k[2] /\ tomb(k).id = k[3]
      OBVIOUS
    <3> HIDE DEF tomb
    <3>3. ASSUME NEW e \in tombs, e.table = k[2], e.id = k[3] PROVE e = tomb(k)
      <4>1. PICK j \in MadeBy(u) : e = tomb(j)
        BY <1>2
      <4>2. j = k
        BY <2>3, <3>1, <3>3, <4>1
      <4> QED
        BY <4>1, <4>2
    <3> QED
      BY <2>2, <3>2, <3>3
  <2>5. ToldOf(history'[k[1]], k) = ToldOf(history[k[1]], k) \cup {tomb(k)}
    <3> HIDE DEF tomb
    <3> QED
      BY <1>6, <2>1, <2>4 DEF ToldOf
  <2>6. records'[k] = Recorded(tomb(k))
    <3>1. records'[k] = [records[k] EXCEPT !.op = "delete", !.ts = now]
      BY <1>4, <1>10
    <3>2. [records[k] EXCEPT !.op = "delete", !.ts = now] =
            [op |-> "delete", ts |-> now, cid |-> records[k].cid, owner |-> u]
      <4>1. [records[k] EXCEPT !.op = "delete", !.ts = now] \in
              [op : {"delete"}, ts : {now}, cid : {records[k].cid}, owner : {u}]
        BY <2>1 DEF Stored
      <4>2. \A op, ts, cid, o : \A r \in [op : {op}, ts : {ts}, cid : {cid}, owner : {o}] :
              r = [op |-> op, ts |-> ts, cid |-> cid, owner |-> o]
        OBVIOUS
      <4> QED
        BY <4>1, <4>2
    <3>3. Recorded(tomb(k)) =
            [op |-> "delete", ts |-> now, cid |-> records[k].cid, owner |-> u]
      BY DEF Recorded
    <3> QED
      BY <3>1, <3>2, <3>3
  <2>7. tomb(k) \in Entry /\ globalSeq < tomb(k).seq /\ globalSeq \in Nat
    BY <1>3, <2>2 DEF TypeOK
  <2> HIDE DEF tomb
  <2>8. /\ ToldOf(history[k[1]], k) \subseteq Entry
        /\ \A f \in ToldOf(history[k[1]], k) : f.seq <= globalSeq
    BY ToldIsDrawn
  <2> QED
    BY <2>5, <2>6, <2>7, <2>8, LastIsFollowed
<1>11. CASE k[1] # u /\ k \notin MadeBy(u)
  <2>1. records'[k] = records[k]
    BY <1>4, <1>11
  <2>2. ToldOf(history'[k[1]], k) = ToldOf(history[k[1]], k)
    <3>1. CASE k[1] # Shared
      BY <1>1, <1>7, <1>11, <3>1 DEF WithTombs
    <3>2. CASE k[1] = Shared
      <4>1. \A j \in MadeBy(u) : ~(j[2] = k[2] /\ j[3] = k[3])
        <5> SUFFICES ASSUME NEW j \in MadeBy(u), j[2] = k[2], j[3] = k[3] PROVE FALSE
          OBVIOUS
        <5>1. j \in Keys /\ j[1] = Shared
          BY DEF MadeBy
        <5>2. j = <<j[1], j[2], j[3]>>
          BY <5>1 DEF Keys
        <5>3. j = k
          BY <1>7, <3>2, <5>1, <5>2
        <5> QED
          BY <1>11, <5>3
      <4>2. \A j \in MadeBy(u) : tomb(j).table = j[2] /\ tomb(j).id = j[3]
        OBVIOUS
      <4> HIDE DEF tomb
      <4>3. \A e \in tombs : ~(e.table = k[2] /\ e.id = k[3])
        BY <1>2, <4>1, <4>2
      <4> QED
        BY <1>6, <3>2, <4>3 DEF ToldOf
    <3> QED
      BY <3>1, <3>2
  <2> QED
    BY <1>8, <2>1, <2>2
<1> QED
  BY <1>9, <1>10, <1>11

\* Every step keeps the records in step with the history.
LEMMA ReplayPreserved ==
  ASSUME TypeOK, SeqsAreDrawn, ReplayInv, [Next]_vars
  PROVE  ReplayInv'
\* Steps that touch neither the records nor the history, outside a batch.
<1>a. ASSUME records' = records, history' = history, phase' = "idle"
      PROVE  ReplayInv'
  BY <1>a DEF ReplayInv
<1>1. ASSUME NEW a \in Actors, NEW batch \in Batches, Begin(a, batch)
      PROVE  ReplayInv'
  <2>1. /\ staged' = records /\ applied' = {} /\ UNCHANGED <<records, history>>
    BY <1>1 DEF Begin
  <2>2. \A p \in Partitions : StagedHistory'[p] = history[p]
    BY <2>1 DEF StagedHistory, AppliedIn
  <2>3. \A k \in Keys : k[1] \in Partitions
    BY KeyIsTriple
  <2>4. Replays(staged', StagedHistory')
    BY <2>1, <2>2, <2>3 DEF Replays, ReplayInv
  <2> QED
    BY <2>1, <2>4 DEF ReplayInv
<1>2. CASE Skip
  <2>1. UNCHANGED <<records, history, staged, applied, actor, phase>>
    BY <1>2 DEF Skip
  <2>2. StagedHistory' = StagedHistory
    BY <2>1 DEF StagedHistory, AppliedIn
  <2> QED
    BY <2>1, <2>2 DEF ReplayInv
<1>3. CASE Stage
  BY <1>3, StageReplays
<1>4. CASE Reject
  BY <1>4, <1>a DEF Reject, Discarded
<1>5. CASE Commit
  <2>1. /\ records' = staged /\ history' = StagedHistory /\ phase = "staging"
        /\ phase' = "idle"
    BY <1>5 DEF Commit, StagedHistory
  <2> QED
    BY <2>1 DEF ReplayInv
<1>6. ASSUME NEW limit \in KeepCounts, Prune(limit) PROVE ReplayInv'
  BY <1>6, <1>a DEF Prune, staging
<1>7. ASSUME NEW t \in Tables, CreateTable(t) PROVE ReplayInv'
  BY <1>7, <1>a DEF CreateTable, staging
<1>8. ASSUME NEW t \in Tables, DeleteTable(t) PROVE ReplayInv'
  BY <1>8, DeleteTableReplays
<1>9. ASSUME NEW u \in Users, NEW now \in Timestamps, DeleteUser(u, now)
      PROVE  ReplayInv'
  BY <1>9, DeleteUserReplays
<1>10. CASE Close
  <2>1. /\ \A k \in Keys : records'[k] = Absent
        /\ \A p \in Partitions : history'[p] = {}
        /\ phase' = "idle"
    BY <1>10 DEF Close, staging
  <2>2. Replays(records', history')
    BY <2>1, KeyIsTriple, ToldOfNothing, NothingIsFollowed DEF Replays
  <2> QED
    BY <2>1, <2>2 DEF ReplayInv
<1>11. CASE UNCHANGED vars
  <2>1. UNCHANGED <<records, history, staged, applied, actor, phase>>
    BY <1>11 DEF vars, staging
  <2>2. StagedHistory' = StagedHistory
    BY <2>1 DEF StagedHistory, AppliedIn
  <2> QED
    BY <2>1, <2>2 DEF ReplayInv
<1> QED
  BY <1>1, <1>2, <1>3, <1>4, <1>5, <1>6, <1>7, <1>8, <1>9, <1>10, <1>11 DEF Next

\* No records replay no history.
LEMMA InitReplays == Init => ReplayInv
<1> SUFFICES ASSUME Init PROVE ReplayInv
  OBVIOUS
<1>1. /\ \A k \in Keys : records[k] = Absent
      /\ \A p \in Partitions : history[p] = {}
      /\ phase = "idle"
  BY DEF Init
<1>2. Replays(records, history)
  BY <1>1, KeyIsTriple, ToldOfNothing, NothingIsFollowed DEF Replays
<1> QED
  BY <1>1, <1>2 DEF ReplayInv

\* What a snapshot sends and what the log tells agree: every stored record is
\* what the last log entry for its key says, and a key without entries has no
\* record, whichever batches were refused part-way, whatever was pruned, and
\* whichever tables and users were deleted.
THEOREM SnapshotsAgreeWithLogs == Spec => []RecordsReplayHistory
<1>1. Init => TypeOK /\ SeqsAreDrawn /\ SeqsAreUnique /\ ReplayInv
  BY InitTypeOK, InitSeqs, InitReplays
<1>2. TypeOK /\ SeqsAreDrawn /\ SeqsAreUnique /\ ReplayInv /\ [Next]_vars
        => (TypeOK /\ SeqsAreDrawn /\ SeqsAreUnique /\ ReplayInv)'
  BY NextTypeOK, SeqsPreserved, ReplayPreserved
<1>3. ReplayInv => RecordsReplayHistory
  BY DEF ReplayInv, Replays, Follows, ToldOf, Recorded, RecordsReplayHistory
<1> QED
  BY <1>1, <1>2, <1>3, PTL DEF Spec
-----------------------------------------------------------------------------
(* The engine implements the store of last-write-wins registers            *)

\* The order on records and changes: one without a record is beaten by all.
Beats(a, b) ==
  b.op = "none" \/ (a.op # "none" /\ (a.ts > b.ts \/ (a.ts = b.ts /\ a.cid >= b.cid)))

\* The registers that records stand for.
RegistersOf(recs) == [k \in Keys |-> RecordOf(recs[k])]

\* Of the changes to key k among the first `looked` of a batch, those that win.
WonIn(recs, want, looked, k) ==
  {i \in AppliedAt(RegistersOf(recs), want) : i <= looked /\ want[i].key = k}

\* What the loop of applyChanges has staged after the first `looked` changes:
\* under each key the last winner, which beats all that was looked at.
Faithful(recs, want, looked, st) ==
  \A k \in Keys :
    /\ Beats(st[k], recs[k])
    /\ \A j \in DOMAIN want : j <= looked /\ want[j].key = k => Beats(st[k], want[j])
    /\ IF WonIn(recs, want, looked, k) = {} THEN RecordOf(st[k]) = RecordOf(recs[k])
       ELSE \E i \in WonIn(recs, want, looked, k) :
              /\ \A j \in WonIn(recs, want, looked, k) : j <= i
              /\ RecordOf(st[k]) = RecordOf(want[i])

\* What the loop compares changes and records by.
IsRanked(r) ==
  r.op \in {"none", "put", "delete"} /\ r.ts \in Nat /\ r.cid \in Nat

\* Beating is a total preorder.
LEMMA BeatsOrder ==
  /\ \A a : IsRanked(a) => Beats(a, a)
  /\ \A a, b, c : /\ IsRanked(a) /\ IsRanked(b) /\ IsRanked(c)
                  /\ Beats(a, b) /\ Beats(b, c)
                  => Beats(a, c)
  /\ \A a, b : IsRanked(a) /\ IsRanked(b) => Beats(a, b) \/ Beats(b, a)
BY DEF Beats, IsRanked

\* A change, which is never "none", overwrites what it beats.
LEMMA OverwritesWhatItBeats ==
  ASSUME NEW c, NEW r, c.op # "none"
  PROVE  ShouldOverwrite(c, r) <=> Beats(c, r)
BY DEF ShouldOverwrite, Beats

\* Of a record, the order sees what RecordOf keeps.
LEMMA BeatsByRecord ==
  ASSUME NEW a, NEW b, RecordOf(a) = RecordOf(b)
  PROVE  /\ \A c : Beats(a, c) <=> Beats(b, c)
         /\ \A c : Beats(c, a) <=> Beats(c, b)
         /\ IsRanked(a) <=> IsRanked(b)
<1>1. RecordOf(a).op = a.op /\ RecordOf(a).ts = a.ts /\ RecordOf(a).cid = a.cid
  BY DEF RecordOf
<1>2. RecordOf(b).op = b.op /\ RecordOf(b).ts = b.ts /\ RecordOf(b).cid = b.cid
  BY DEF RecordOf
<1>3. a.op = b.op /\ a.ts = b.ts /\ a.cid = b.cid
  BY <1>1, <1>2
<1> QED
  BY <1>3 DEF Beats, IsRanked

\* The types of what is compared.
LEMMA StoredIsRanked ==
  ASSUME NEW recs \in [Keys -> Stored]
  PROVE  \A k \in Keys : IsRanked(recs[k]) /\ RegistersOf(recs)[k] = RecordOf(recs[k])
<1>1. \A k \in Keys : recs[k] \in Stored
  OBVIOUS
<1> QED
  BY <1>1 DEF Stored, IsRanked, RegistersOf

\* A change is for a key, and never "none".
LEMMA ChangesAreRanked ==
  ASSUME NEW places, NEW want \in [places -> StoreChanges]
  PROVE  \A i \in places :
           want[i].key \in Keys /\ want[i].op # "none" /\ IsRanked(want[i])
<1>1. \A i \in places : want[i] \in StoreChanges
  OBVIOUS
<1>2. \A c \in StoreChanges : c.key \in Keys /\ c.op # "none" /\ IsRanked(c)
  BY StampsAreNat DEF StoreChanges, IsRanked
<1> QED
  BY <1>1, <1>2

\* The changes that win are those that beat the record and all before them.
LEMMA WinnersBeat ==
  ASSUME NEW recs \in [Keys -> Stored], NEW places, NEW want \in [places -> StoreChanges]
  PROVE  \A i : i \in AppliedAt(RegistersOf(recs), want) <=>
                 /\ i \in places
                 /\ Beats(want[i], recs[want[i].key])
                 /\ \A j \in places : j < i /\ want[j].key = want[i].key
                                        => Beats(want[i], want[j])
<1>1. DOMAIN want = places
  OBVIOUS
<1>2. \A i \in places : /\ want[i].op # "none" /\ want[i].key \in Keys
                        /\ RegistersOf(recs)[want[i].key] = RecordOf(recs[want[i].key])
  BY StoredIsRanked, ChangesAreRanked
<1>3. \A i \in places : \A r : ShouldOverwrite(want[i], r) <=> Beats(want[i], r)
  BY <1>2, OverwritesWhatItBeats
<1>4. \A i \in places : \A r : Beats(want[i], RecordOf(r)) <=> Beats(want[i], r)
  <2>1. \A r : RecordOf(RecordOf(r)) = RecordOf(r)
    BY DEF RecordOf
  <2> QED
    BY <2>1, BeatsByRecord
<1>5. \A i \in places :
        ShouldOverwrite(want[i], RegistersOf(recs)[want[i].key])
          <=> Beats(want[i], recs[want[i].key])
  BY <1>2, <1>3, <1>4
<1> QED
  BY <1>1, <1>3, <1>5 DEF AppliedAt

\* What the loop finds out about the next change, comparing it with what it
\* has staged, is whether the change wins.
LEMMA LoopFindsWinners ==
  ASSUME NEW recs \in [Keys -> Stored], NEW st \in [Keys -> Stored],
         NEW places \in SUBSET Nat, NEW want \in [places -> StoreChanges],
         NEW looked \in Nat, Faithful(recs, want, looked, st),
         looked + 1 \in places
  PROVE  looked + 1 \in AppliedAt(RegistersOf(recs), want)
           <=> ShouldOverwrite(want[looked + 1], st[want[looked + 1].key])
<1> DEFINE i == looked + 1
           c == want[i]
           k == c.key
           A == AppliedAt(RegistersOf(recs), want)
<1>1. /\ k \in Keys /\ IsRanked(c) /\ c.op # "none"
      /\ IsRanked(recs[k]) /\ IsRanked(st[k])
      /\ \A j \in places : IsRanked(want[j])
  <2>1. \A j \in Keys : IsRanked(recs[j]) /\ IsRanked(st[j])
    BY StoredIsRanked
  <2>2. \A j \in places : want[j].key \in Keys /\ want[j].op # "none" /\ IsRanked(want[j])
    BY ChangesAreRanked
  <2> QED
    BY <2>1, <2>2
<1>2. ShouldOverwrite(c, st[k]) <=> Beats(c, st[k])
  BY <1>1, OverwritesWhatItBeats
<1>3. \A m : m \in A <=>
             /\ m \in places
             /\ Beats(want[m], recs[want[m].key])
             /\ \A j \in places : j < m /\ want[j].key = want[m].key
                                    => Beats(want[m], want[j])
  BY WinnersBeat
<1>4. i \in A <=> /\ Beats(c, recs[k])
                  /\ \A j \in places : j < i /\ want[j].key = k => Beats(c, want[j])
  BY <1>3
<1>5. \A j \in places : j < i <=> j <= looked
  OBVIOUS
<1>6. /\ Beats(st[k], recs[k])
      /\ \A j \in places : j <= looked /\ want[j].key = k => Beats(st[k], want[j])
      /\ IF WonIn(recs, want, looked, k) = {} THEN RecordOf(st[k]) = RecordOf(recs[k])
         ELSE \E m \in WonIn(recs, want, looked, k) :
                /\ \A j \in WonIn(recs, want, looked, k) : j <= m
                /\ RecordOf(st[k]) = RecordOf(want[m])
  BY <1>1 DEF Faithful
<1>7. WonIn(recs, want, looked, k) \subseteq
        {j \in places : j <= looked /\ want[j].key = k}
  BY <1>3 DEF WonIn
<1> HIDE DEF c, k, A
<1>8. ASSUME Beats(c, st[k]) PROVE i \in A
  BY <1>1, <1>4, <1>5, <1>6, <1>8, BeatsOrder
<1>9. ASSUME i \in A PROVE Beats(c, st[k])
  <2>1. CASE WonIn(recs, want, looked, k) = {}
    BY <1>4, <1>6, <1>9, <2>1, BeatsByRecord
  <2>2. CASE WonIn(recs, want, looked, k) # {}
    <3>1. PICK m \in WonIn(recs, want, looked, k) : RecordOf(st[k]) = RecordOf(want[m])
      BY <1>6, <2>2
    <3>2. m \in places /\ m <= looked /\ want[m].key = k
      BY <1>7
    <3>3. Beats(c, want[m])
      BY <1>4, <1>5, <1>9, <3>2
    <3> QED
      BY <3>1, <3>3, BeatsByRecord
  <2> QED
    BY <2>1, <2>2
<1> QED
  BY <1>2, <1>8, <1>9 DEF A, c, k
\* The changes that win are changes of the batch.
LEMMA WinnersAreChanges ==
  ASSUME NEW recs, NEW places, NEW want \in [places -> StoreChanges]
  PROVE  /\ AppliedAt(RegistersOf(recs), want) \subseteq places
         /\ \A looked, k : WonIn(recs, want, looked, k) \subseteq
                            {i \in places : i <= looked /\ want[i].key = k}
<1>1. DOMAIN want = places
  OBVIOUS
<1>2. AppliedAt(RegistersOf(recs), want) \subseteq places
  BY <1>1 DEF AppliedAt
<1> QED
  BY <1>2 DEF WonIn

\* One more change looked at adds it to the winners of its key if it wins.
LEMMA WonInMore ==
  ASSUME NEW recs, NEW places \in SUBSET Nat, NEW want \in [places -> StoreChanges],
         NEW looked \in Nat, NEW k
  PROVE  \A j : j \in WonIn(recs, want, looked + 1, k) <=>
                  \/ j \in WonIn(recs, want, looked, k)
                  \/ /\ j = looked + 1 /\ want[j].key = k
                     /\ j \in AppliedAt(RegistersOf(recs), want)
<1>1. AppliedAt(RegistersOf(recs), want) \subseteq Nat
  BY DEF AppliedAt
<1> QED
  BY <1>1 DEF WonIn

\* The loop stages a change that wins...
LEMMA LoopWins ==
  ASSUME NEW recs \in [Keys -> Stored], NEW st \in [Keys -> Stored],
         NEW places \in SUBSET Nat, NEW want \in [places -> StoreChanges],
         NEW looked \in Nat, Faithful(recs, want, looked, st),
         looked + 1 \in places,
         ShouldOverwrite(want[looked + 1], st[want[looked + 1].key]),
         NEW r \in Stored, RecordOf(r) = RecordOf(want[looked + 1])
  PROVE  Faithful(recs, want, looked + 1, [st EXCEPT ![want[looked + 1].key] = r])
<1> DEFINE i == looked + 1
           key == want[i].key
           st2 == [st EXCEPT ![key] = r]
<1>1. i \in AppliedAt(RegistersOf(recs), want)
  BY LoopFindsWinners
<1>2. /\ key \in Keys /\ IsRanked(want[i])
      /\ \A j \in places : IsRanked(want[j])
      /\ want[i].op # "none"
  BY ChangesAreRanked
<1>3. \A k \in Keys : IsRanked(st[k]) /\ IsRanked(recs[k])
  BY StoredIsRanked
<1>4. Beats(want[i], st[key])
  BY <1>2, OverwritesWhatItBeats
<1>5. /\ \A x : Beats(r, x) <=> Beats(want[i], x)
      /\ IsRanked(r)
  BY <1>2, BeatsByRecord
<1>6. st2[key] = r /\ \A k \in Keys : k # key => st2[k] = st[k]
  BY <1>2
<1>7. \A j \in places : j <= i <=> (j <= looked \/ j = i)
  <2> SUFFICES ASSUME NEW j \in places PROVE j <= i <=> (j <= looked \/ j = i)
    OBVIOUS
  <2>1. j \in Nat
    OBVIOUS
  <2> QED
    BY <2>1
<1>8. i \in Nat /\ ~(i <= looked)
  OBVIOUS
<1>9. DOMAIN want = places
  OBVIOUS
<1>10. \A k, j : j \in WonIn(recs, want, i, k) <=>
                  \/ j \in WonIn(recs, want, looked, k)
                  \/ j = i /\ want[j].key = k /\ j \in AppliedAt(RegistersOf(recs), want)
  BY WonInMore
<1>11. \A k, j : j \in WonIn(recs, want, looked, k) => j <= looked /\ j \in Nat
  BY <1>9 DEF WonIn, AppliedAt
<1> HIDE DEF i, key, st2
<1> SUFFICES ASSUME NEW k \in Keys
             PROVE  /\ Beats(st2[k], recs[k])
                    /\ \A j \in places : j <= i /\ want[j].key = k => Beats(st2[k], want[j])
                    /\ IF WonIn(recs, want, i, k) = {}
                       THEN RecordOf(st2[k]) = RecordOf(recs[k])
                       ELSE \E m \in WonIn(recs, want, i, k) :
                              /\ \A j \in WonIn(recs, want, i, k) : j <= m
                              /\ RecordOf(st2[k]) = RecordOf(want[m])
  BY <1>9 DEF Faithful, i, key, st2
<1>12. /\ Beats(st[k], recs[k])
       /\ \A j \in places : j <= looked /\ want[j].key = k => Beats(st[k], want[j])
       /\ IF WonIn(recs, want, looked, k) = {} THEN RecordOf(st[k]) = RecordOf(recs[k])
          ELSE \E m \in WonIn(recs, want, looked, k) :
                 /\ \A j \in WonIn(recs, want, looked, k) : j <= m
                 /\ RecordOf(st[k]) = RecordOf(want[m])
  BY <1>9 DEF Faithful
<1>13. CASE k = key
  <2>1. Beats(want[i], st[k])
    BY <1>4, <1>13
  <2>2. Beats(want[i], recs[k])
    BY <1>2, <1>3, <1>12, <2>1, BeatsOrder
  <2>3. \A j \in places : j <= i /\ want[j].key = k => Beats(want[i], want[j])
    <3> SUFFICES ASSUME NEW j \in places, j <= i, want[j].key = k
                 PROVE  Beats(want[i], want[j])
      OBVIOUS
    <3>1. CASE j = i
      BY <1>2, <3>1, BeatsOrder
    <3>2. CASE j <= looked
      <4>1. Beats(st[k], want[j])
        BY <1>12, <3>2
      <4> QED
        BY <1>2, <1>3, <2>1, <4>1, BeatsOrder
    <3> QED
      BY <1>7, <3>1, <3>2
  <2>4. i \in WonIn(recs, want, i, k)
    BY <1>1, <1>10, <1>13 DEF key
  <2>5. \A j \in WonIn(recs, want, i, k) : j <= i
    BY <1>8, <1>10, <1>11 DEF i
  <2>6. RecordOf(st2[k]) = RecordOf(want[i])
    BY <1>6, <1>13 DEF i
  <2> QED
    BY <1>5, <1>6, <1>13, <2>2, <2>3, <2>4, <2>5, <2>6
<1>14. CASE k # key
  <2>1. \A j : j \in WonIn(recs, want, i, k) <=> j \in WonIn(recs, want, looked, k)
    BY <1>10, <1>14 DEF key
  <2>2. WonIn(recs, want, i, k) = WonIn(recs, want, looked, k)
    BY <2>1
  <2>3. st2[k] = st[k]
    BY <1>6, <1>14
  <2>4. \A j \in places : j <= i /\ want[j].key = k => j <= looked
    BY <1>7, <1>14 DEF key
  <2> QED
    BY <1>12, <2>2, <2>3, <2>4
<1> QED
  BY <1>13, <1>14

\* ...and leaves out one that loses, or whose table was deleted.
LEMMA LoopLoses ==
  ASSUME NEW recs \in [Keys -> Stored], NEW st \in [Keys -> Stored],
         NEW places \in SUBSET Nat, NEW want \in [places -> StoreChanges],
         NEW looked \in Nat, Faithful(recs, want, looked, st),
         looked + 1 \in places =>
           ~ShouldOverwrite(want[looked + 1], st[want[looked + 1].key])
  PROVE  /\ Faithful(recs, want, looked + 1, st)
         /\ looked + 1 \notin AppliedAt(RegistersOf(recs), want)
<1> DEFINE i == looked + 1
<1>1. i \notin AppliedAt(RegistersOf(recs), want)
  <2>1. CASE i \in places
    BY <2>1, LoopFindsWinners
  <2>2. CASE i \notin places
    BY <2>2 DEF AppliedAt
  <2> QED
    BY <2>1, <2>2
<1>2. \A j \in places : /\ want[j].key \in Keys /\ IsRanked(want[j])
                        /\ want[j].op # "none"
  BY ChangesAreRanked
<1>3. \A k \in Keys : IsRanked(st[k])
  BY StoredIsRanked
<1>4. \A j \in places : j <= i <=> (j <= looked \/ j = i)
  <2> SUFFICES ASSUME NEW j \in places PROVE j <= i <=> (j <= looked \/ j = i)
    OBVIOUS
  <2>1. j \in Nat
    OBVIOUS
  <2> QED
    BY <2>1
<1>5. DOMAIN want = places
  OBVIOUS
<1>6. \A k, j : j \in WonIn(recs, want, i, k) <=> j \in WonIn(recs, want, looked, k)
  BY <1>1, WonInMore
<1>7. ASSUME i \in places PROVE Beats(st[want[i].key], want[i])
  <2>1. ~Beats(want[i], st[want[i].key])
    BY <1>2, <1>7, OverwritesWhatItBeats
  <2> QED
    BY <1>2, <1>3, <1>7, <2>1, BeatsOrder
<1> HIDE DEF i
<1> SUFFICES ASSUME NEW k \in Keys
             PROVE  /\ Beats(st[k], recs[k])
                    /\ \A j \in places : j <= i /\ want[j].key = k => Beats(st[k], want[j])
                    /\ IF WonIn(recs, want, i, k) = {}
                       THEN RecordOf(st[k]) = RecordOf(recs[k])
                       ELSE \E m \in WonIn(recs, want, i, k) :
                              /\ \A j \in WonIn(recs, want, i, k) : j <= m
                              /\ RecordOf(st[k]) = RecordOf(want[m])
  BY <1>1, <1>5 DEF Faithful, i
<1>8. /\ Beats(st[k], recs[k])
      /\ \A j \in places : j <= looked /\ want[j].key = k => Beats(st[k], want[j])
      /\ IF WonIn(recs, want, looked, k) = {} THEN RecordOf(st[k]) = RecordOf(recs[k])
         ELSE \E m \in WonIn(recs, want, looked, k) :
                /\ \A j \in WonIn(recs, want, looked, k) : j <= m
                /\ RecordOf(st[k]) = RecordOf(want[m])
  BY <1>5 DEF Faithful
<1>9. WonIn(recs, want, i, k) = WonIn(recs, want, looked, k)
  <2>1. \A j : j \in WonIn(recs, want, i, k) <=> j \in WonIn(recs, want, looked, k)
    BY <1>6
  <2> QED
    BY <2>1
<1>10. \A j \in places : j <= i /\ want[j].key = k => Beats(st[k], want[j])
  BY <1>4, <1>7, <1>8
<1> QED
  BY <1>8, <1>9, <1>10

\* Before the first change nothing is staged but what is stored.
LEMMA LoopStarts ==
  ASSUME NEW recs \in [Keys -> Stored], NEW places \in SUBSET (Nat \ {0}),
         NEW want \in [places -> StoreChanges]
  PROVE  Faithful(recs, want, 0, recs)
<1>1. \A j \in places : ~(j <= 0)
  OBVIOUS
<1>2. \A k \in Keys : WonIn(recs, want, 0, k) = {}
  BY <1>1, WinnersAreChanges
<1>0. DOMAIN want = places
  OBVIOUS
<1>3. \A k \in Keys : Beats(recs[k], recs[k])
  BY StoredIsRanked, BeatsOrder
<1> QED
  BY <1>0, <1>1, <1>2, <1>3 DEF Faithful

\* After the last change what is staged is what the whole batch makes of the
\* registers.
LEMMA LoopEnds ==
  ASSUME NEW recs \in [Keys -> Stored], NEW st \in [Keys -> Stored],
         NEW looked \in Nat, NEW places \in SUBSET (1..looked),
         NEW want \in [places -> StoreChanges], Faithful(recs, want, looked, st)
  PROVE  RegistersOf(st) = Merge(RegistersOf(recs), want)
<1>1. DOMAIN RegistersOf(recs) = Keys
  BY DEF RegistersOf
<1> SUFFICES ASSUME NEW k \in Keys
             PROVE  RegistersOf(st)[k] = Merge(RegistersOf(recs), want)[k]
  BY <1>1 DEF Merge, RegistersOf
<1> DEFINE hits == AppliedTo(RegistersOf(recs), want, k)
           won == WonIn(recs, want, looked, k)
<1>2. hits = won
  <2>1. AppliedAt(RegistersOf(recs), want) \subseteq 1..looked
    BY WinnersAreChanges
  <2>2. \A i : i \in hits <=> i \in won
    BY <2>1 DEF AppliedTo, WonIn
  <2> QED
    BY <2>2
<1>3. Merge(RegistersOf(recs), want)[k] =
        IF hits = {} THEN RegistersOf(recs)[k]
        ELSE RecordOf(want[CHOOSE i \in hits : \A j \in hits : j <= i])
  BY <1>1 DEF Merge
<1>4. RegistersOf(st)[k] = RecordOf(st[k]) /\ RegistersOf(recs)[k] = RecordOf(recs[k])
  BY StoredIsRanked
<1>5. IF won = {} THEN RecordOf(st[k]) = RecordOf(recs[k])
      ELSE \E i \in won : (\A j \in won : j <= i) /\ RecordOf(st[k]) = RecordOf(want[i])
  BY DEF Faithful
<1>6. won \subseteq Nat
  <2>1. won \subseteq places
    BY WinnersAreChanges
  <2>2. \A i \in places : i \in Nat
    OBVIOUS
  <2> HIDE DEF won
  <2> QED
    BY <2>1, <2>2
<1> HIDE DEF hits, won
<1>7. CASE won = {}
  BY <1>2, <1>3, <1>4, <1>5, <1>7
<1>8. CASE won # {}
  <2>1. PICK i \in won : (\A j \in won : j <= i) /\ RecordOf(st[k]) = RecordOf(want[i])
    BY <1>5, <1>8
  <2>2. \A m \in won : (\A j \in won : j <= m) => m = i
    BY <1>6, <2>1
  <2>3. (CHOOSE m \in won : \A j \in won : j <= m) = i
    BY <2>1, <2>2
  <2> QED
    BY <1>2, <1>3, <1>4, <1>8, <2>1, <2>3
<1> QED
  BY <1>7, <1>8
\* How many changes of its batch the loop has looked at, the batch as the
\* abstract store is offered it, and which of the changes looked at have won.
Looked == Len(changes) - Len(todo)
Wanted == [i \in Known |-> ToStore(changes[i])]
WonBy(recs, want, looked) == {i \in AppliedAt(RegistersOf(recs), want) : i <= looked}

\* The loop takes the changes one after the other; what it has staged is what
\* those it has looked at make of the records, and each that won has an entry.
LoopInv ==
  /\ phase = "idle" => changes = << >> /\ todo = << >> /\ applied = {}
  /\ Len(todo) <= Len(changes) /\ Len(changes) <= MaxBatch
  /\ \A n \in 1..Len(todo) : todo[n] = changes[Looked + n]
  /\ IsFiniteSet(applied)
  /\ phase = "staging" =>
       /\ Faithful(records, Wanted, Looked, staged)
       /\ Cardinality(applied) = Cardinality(WonBy(records, Wanted, Looked))

\* The batch offered to the abstract store is one of its batches.
WantedOK ==
  /\ Known \in SUBSET (1..Len(changes)) /\ Known \in SUBSET (Nat \ {0})
  /\ IsFiniteSet(Known)
  /\ Wanted \in [Known -> StoreChanges]

LEMMA WantedType == TypeOK => WantedOK
<1> SUFFICES ASSUME TypeOK PROVE WantedOK
  OBVIOUS
<1>1. changes \in Seq(Change) /\ actor \in Actors
  BY DEF TypeOK
<1>2. Len(changes) \in Nat /\ DOMAIN changes = 1..Len(changes)
  BY <1>1
<1>3. \A i \in 1..Len(changes) : changes[i] \in Change
  BY <1>1
<1>4. Known \subseteq 1..Len(changes)
  BY <1>2 DEF Known
<1>5. \A c \in Change : ToStore(c) \in StoreChanges
  <2> SUFFICES ASSUME NEW c \in Change PROVE ToStore(c) \in StoreChanges
    OBVIOUS
  <2>1. /\ c.table \in Tables /\ c.id \in Ids /\ c.op \in {"put", "delete"}
        /\ c.ts \in Timestamps /\ c.cid \in ClientIds
    BY DEF Change
  <2>2. <<PartitionOf(actor, c.table), c.table, c.id>> \in Keys
    BY <1>1, <2>1, PartitionOfType, KeyIsTriple
  <2> QED
    BY <2>1, <2>2 DEF ToStore, StoreChanges
<1>6. Wanted \in [Known -> StoreChanges]
  BY <1>3, <1>4, <1>5 DEF Wanted
<1>7. \A i \in 1..Len(changes) : i \in Nat \ {0}
  BY <1>2
<1>8. IsFiniteSet(Known)
  <2>1. IsFiniteSet(1..Len(changes))
    BY <1>2, FS_Interval
  <2> QED
    BY <1>4, <2>1, FS_Subset
<1> QED
  BY <1>4, <1>6, <1>7, <1>8 DEF WantedOK

\* The next change of the batch is the first of those still to be looked at.
LEMMA NextChange ==
  ASSUME TypeOK, LoopInv, todo # << >>
  PROVE  /\ Looked \in Nat /\ Head(todo) \in Change
         /\ Looked + 1 \in 1..Len(changes)
         /\ changes[Looked + 1] = Head(todo)
         /\ Looked + 1 \in Known <=> Head(todo).table \in exists
         /\ Looked + 1 \in Known => Wanted[Looked + 1] = ToStore(Head(todo))
<1>1. changes \in Seq(Change) /\ todo \in Seq(Change)
  BY DEF TypeOK
<1>2. /\ Len(changes) \in Nat /\ Len(todo) \in Nat /\ Len(todo) > 0
      /\ Head(todo) = todo[1] /\ Head(todo) \in Change
      /\ DOMAIN changes = 1..Len(changes)
  BY <1>1
<1>3. Len(todo) <= Len(changes)
  BY DEF LoopInv
<1>4. Looked \in Nat /\ Looked + 1 \in 1..Len(changes)
  BY <1>2, <1>3 DEF Looked
<1>5. 1 \in 1..Len(todo)
  BY <1>2
<1>6. changes[Looked + 1] = Head(todo)
  BY <1>2, <1>5 DEF LoopInv
<1>7. Looked + 1 \in Known <=> Head(todo).table \in exists
  BY <1>2, <1>4, <1>6 DEF Known
<1>8. Looked + 1 \in Known => Wanted[Looked + 1] = ToStore(Head(todo))
  BY <1>6 DEF Wanted
<1> QED
  BY <1>2, <1>4, <1>6, <1>7, <1>8

\* What a step of the loop does to the place it is at.
LEMMA LoopGoesOn ==
  ASSUME TypeOK, LoopInv, todo # << >>, todo' = Tail(todo),
         UNCHANGED <<changes, exists, actor, records, phase>>
  PROVE  /\ Looked' = Looked + 1 /\ Wanted' = Wanted
         /\ Len(todo)' <= Len(changes)' /\ Len(changes)' <= MaxBatch
         /\ \A n \in 1..Len(todo') : todo'[n] = changes'[Looked' + n]
<1>1. changes \in Seq(Change) /\ todo \in Seq(Change)
  BY DEF TypeOK
<1>2. /\ Len(changes) \in Nat /\ Len(todo) \in Nat /\ Len(todo) > 0
      /\ Len(todo') = Len(todo) - 1
      /\ \A n \in 1..Len(todo') : todo'[n] = todo[n + 1]
  BY <1>1
<1>3. /\ Len(todo) <= Len(changes) /\ Len(changes) <= MaxBatch
      /\ \A n \in 1..Len(todo) : todo[n] = changes[Looked + n]
  BY DEF LoopInv
<1>4. Looked' = Looked + 1 /\ Looked \in Nat
  BY <1>2, <1>3 DEF Looked
<1>5. Wanted' = Wanted
  BY DEF Wanted, Known, ToStore
<1>6. \A n \in 1..Len(todo') : todo'[n] = changes'[Looked' + n]
  <2> SUFFICES ASSUME NEW n \in 1..Len(todo') PROVE todo'[n] = changes[Looked' + n]
    OBVIOUS
  <2>1. n + 1 \in 1..Len(todo) /\ Looked' + n = Looked + (n + 1)
    BY <1>2, <1>4
  <2> QED
    BY <1>2, <1>3, <2>1
<1> QED
  BY <1>2, <1>3, <1>4, <1>5, <1>6

\* A change more that has been looked at is one more winner, or none.
LEMMA WonByMore ==
  ASSUME NEW recs, NEW places \in SUBSET Nat, IsFiniteSet(places),
         NEW want \in [places -> StoreChanges], NEW looked \in Nat
  PROVE  LET won == WonBy(recs, want, looked)
             more == WonBy(recs, want, looked + 1)
         IN  /\ IsFiniteSet(won) /\ Cardinality(won) \in Nat
             /\ looked + 1 \in AppliedAt(RegistersOf(recs), want)
                  => Cardinality(more) = Cardinality(won) + 1
             /\ looked + 1 \notin AppliedAt(RegistersOf(recs), want)
                  => Cardinality(more) = Cardinality(won)
<1> DEFINE A == AppliedAt(RegistersOf(recs), want)
           won == WonBy(recs, want, looked)
           more == WonBy(recs, want, looked + 1)
<1>1. A \subseteq places
  BY WinnersAreChanges
<1>2. \A i \in A : i \in Nat
  BY <1>1
<1>3. won = {i \in A : i <= looked} /\ more = {i \in A : i <= looked + 1}
  BY DEF WonBy
<1> HIDE DEF A, won, more
<1>4. IsFiniteSet(won)
  BY <1>1, <1>3, FS_Subset
<1>5. looked + 1 \notin won
  BY <1>3
<1>6. CASE looked + 1 \in A
  <2>1. more = won \cup {looked + 1}
    BY <1>2, <1>3, <1>6
  <2> QED
    BY <1>4, <1>5, <1>6, <2>1, FS_AddElement, FS_CardinalityType DEF A, won, more
<1>7. CASE looked + 1 \notin A
  <2>1. more = won
    BY <1>2, <1>3, <1>7
  <2> QED
    BY <1>4, <1>7, <2>1, FS_CardinalityType DEF A, won, more
<1> QED
  BY <1>6, <1>7
\* To the abstract store a change has the timestamp and client id it has.
LEMMA SameChange ==
  ASSUME NEW c, NEW r
  PROVE  /\ ShouldOverwrite(ToStore(c), r) <=> ShouldOverwrite(c, r)
         /\ RecordOf(ToStore(c)) = RecordOf(c)
         /\ ToStore(c).key = <<PartitionOf(actor, c.table), c.table, c.id>>
BY DEF ShouldOverwrite, RecordOf, ToStore

\* A step of the loop over a change that is skipped keeps the invariant.
LEMMA SkipLoop ==
  ASSUME TypeOK, LoopInv, Skip
  PROVE  LoopInv'
<1>1. /\ phase = "staging" /\ todo # << >> /\ todo' = Tail(todo)
      /\ UNCHANGED <<changes, exists, actor, records, phase, staged, applied>>
  BY DEF Skip
<1>2. /\ Looked \in Nat
      /\ Looked + 1 \in Known <=> Head(todo).table \in exists
      /\ Looked + 1 \in Known => Wanted[Looked + 1] = ToStore(Head(todo))
  BY <1>1, NextChange
<1>3. /\ Looked' = Looked + 1 /\ Wanted' = Wanted
      /\ Len(todo)' <= Len(changes)' /\ Len(changes)' <= MaxBatch
      /\ \A n \in 1..Len(todo') : todo'[n] = changes'[Looked' + n]
  BY <1>1, LoopGoesOn
<1>4. /\ Faithful(records, Wanted, Looked, staged) /\ IsFiniteSet(applied)
      /\ Cardinality(applied) = Cardinality(WonBy(records, Wanted, Looked))
  BY <1>1 DEF LoopInv
<1>5. Looked + 1 \in Known =>
        ~ShouldOverwrite(Wanted[Looked + 1], staged[Wanted[Looked + 1].key])
  <2> SUFFICES ASSUME Looked + 1 \in Known
               PROVE  ~ShouldOverwrite(Wanted[Looked + 1], staged[Wanted[Looked + 1].key])
    OBVIOUS
  <2> DEFINE c == Head(todo)
  <2>1. c.table \in exists /\ Wanted[Looked + 1] = ToStore(c)
    BY <1>2
  <2>2. ~ShouldOverwrite(c, staged[<<PartitionOf(actor, c.table), c.table, c.id>>])
    BY <2>1 DEF Skip
  <2> HIDE DEF c
  <2> QED
    BY <2>1, <2>2, SameChange
<1>6. /\ records \in [Keys -> Stored] /\ staged \in [Keys -> Stored]
      /\ Known \in SUBSET Nat /\ IsFiniteSet(Known) /\ Wanted \in [Known -> StoreChanges]
  BY WantedType DEF TypeOK, WantedOK
<1>7. /\ Faithful(records, Wanted, Looked + 1, staged)
      /\ Looked + 1 \notin AppliedAt(RegistersOf(records), Wanted)
  BY <1>2, <1>4, <1>5, <1>6, LoopLoses
<1>8. Cardinality(WonBy(records, Wanted, Looked + 1)) =
        Cardinality(WonBy(records, Wanted, Looked))
  BY <1>2, <1>6, <1>7, WonByMore
<1> QED
  BY <1>1, <1>3, <1>4, <1>7, <1>8 DEF LoopInv

\* So does a step over a change that is staged.
LEMMA StageLoop ==
  ASSUME TypeOK, SeqsAreDrawn, LoopInv, Stage
  PROVE  /\ LoopInv'
         /\ Cardinality(applied') = Cardinality(applied) + 1
         /\ Cardinality(applied) \in Nat
<1> DEFINE c == Head(todo)
           k == <<PartitionOf(actor, c.table), c.table, c.id>>
           owner == OwnerAfter(c, staged[k])
           r == [op |-> c.op, ts |-> c.ts, cid |-> c.cid, owner |-> owner]
           x == [op |-> c.op, table |-> c.table, id |-> c.id, ts |-> c.ts,
                 cid |-> c.cid, owner |-> owner, seq |-> globalSeq + 1]
<1>1. /\ phase = "staging" /\ todo # << >> /\ todo' = Tail(todo)
      /\ UNCHANGED <<changes, exists, actor, records, phase>>
      /\ applied' = applied \cup {x} /\ staged' = [staged EXCEPT ![k] = r]
      /\ c.table \in exists /\ ShouldOverwrite(c, staged[k])
  BY DEF Stage, NextSeq
<1>2. /\ Looked \in Nat
      /\ Looked + 1 \in Known
      /\ Wanted[Looked + 1] = ToStore(c)
  BY <1>1, NextChange
<1>3. /\ Looked' = Looked + 1 /\ Wanted' = Wanted
      /\ Len(todo)' <= Len(changes)' /\ Len(changes)' <= MaxBatch
      /\ \A n \in 1..Len(todo') : todo'[n] = changes'[Looked' + n]
  BY <1>1, LoopGoesOn
<1>4. /\ Faithful(records, Wanted, Looked, staged) /\ IsFiniteSet(applied)
      /\ Cardinality(applied) = Cardinality(WonBy(records, Wanted, Looked))
  BY <1>1 DEF LoopInv
<1>5. /\ records \in [Keys -> Stored] /\ staged \in [Keys -> Stored]
      /\ Known \in SUBSET Nat /\ IsFiniteSet(Known) /\ Wanted \in [Known -> StoreChanges]
  BY WantedType DEF TypeOK, WantedOK
<1>6. Wanted[Looked + 1].key = k
  BY <1>2, SameChange
<1>7. k \in Keys
  BY <1>2, <1>5, <1>6, ChangesAreRanked
<1>8. r \in Stored
  <2>1. staged' \in [Keys -> Stored]
    BY StageType DEF TypeOK
  <2>2. staged'[k] = r
    BY <1>1, <1>5, <1>7
  <2> QED
    BY <1>7, <2>1, <2>2
<1>9. RecordOf(r) = RecordOf(Wanted[Looked + 1])
  <2>1. RecordOf(r) = RecordOf(c)
    BY DEF RecordOf
  <2> QED
    BY <1>2, <2>1, SameChange
<1>10. x.seq = globalSeq + 1
  OBVIOUS
<1> HIDE DEF c, k, owner, r, x
<1>11. ShouldOverwrite(Wanted[Looked + 1], staged[Wanted[Looked + 1].key])
  BY <1>1, <1>2, <1>6, SameChange
<1>12. Faithful(records, Wanted, Looked + 1, staged')
  <2>1. Faithful(records, Wanted, Looked + 1,
                 [staged EXCEPT ![Wanted[Looked + 1].key] = r])
    BY <1>2, <1>4, <1>5, <1>8, <1>9, <1>11, LoopWins
  <2> QED
    BY <1>1, <1>6, <2>1
<1>13. Looked + 1 \in AppliedAt(RegistersOf(records), Wanted)
  BY <1>2, <1>4, <1>5, <1>11, LoopFindsWinners
<1>14. Cardinality(WonBy(records, Wanted, Looked + 1)) =
         Cardinality(WonBy(records, Wanted, Looked)) + 1
  BY <1>2, <1>5, <1>13, WonByMore
<1>15. x \notin applied
  <2>1. \A e \in applied : e.seq \in 1..globalSeq
    BY DEF SeqsAreDrawn
  <2>2. globalSeq \in Nat
    BY DEF TypeOK
  <2> QED
    BY <1>10, <2>1, <2>2
<1>16. /\ IsFiniteSet(applied') /\ Cardinality(applied) \in Nat
       /\ Cardinality(applied') = Cardinality(applied) + 1
  BY <1>1, <1>4, <1>15, FS_AddElement, FS_CardinalityType
<1>17. LoopInv'
  BY <1>1, <1>3, <1>4, <1>12, <1>14, <1>16 DEF LoopInv
<1> QED
  BY <1>16, <1>17

\* Offering a batch starts the loop.
LEMMA BeginLoop ==
  ASSUME TypeOK, LoopInv, NEW a \in Actors, NEW batch \in Batches, Begin(a, batch)
  PROVE  LoopInv'
<1>1. /\ changes' = batch /\ todo' = batch /\ staged' = records /\ applied' = {}
      /\ records' = records /\ phase' = "staging"
  BY DEF Begin
<1>2. PICK n \in 1..MaxBatch : batch \in [1..n -> Change]
  BY DEF Batches
<1>3. MaxBatch \in Nat /\ n \in Nat /\ n <= MaxBatch /\ batch \in Seq(Change) /\ Len(batch) = n
  BY <1>2, BoundsAssumption
<1>4. Looked' = 0
  BY <1>1, <1>3 DEF Looked
<1>5. TypeOK'
  BY NextTypeOK DEF Next
<1>6. TypeOK' => WantedOK'
  BY WantedType, PTL
<1>7. Known' \in SUBSET (Nat \ {0}) /\ Wanted' \in [Known' -> StoreChanges] /\ IsFiniteSet(Known')
  BY <1>5, <1>6 DEF WantedOK
<1>8. Faithful(records', Wanted', 0, staged')
  BY <1>1, <1>7, LoopStarts DEF TypeOK
<1>9. WonBy(records', Wanted', 0) = {}
  <2>1. AppliedAt(RegistersOf(records'), Wanted') \subseteq Known'
    BY <1>7, WinnersAreChanges
  <2>2. \A i \in Known' : ~(i <= 0)
    BY <1>7
  <2> QED
    BY <2>1, <2>2 DEF WonBy
<1>10. Cardinality(applied') = Cardinality(WonBy(records', Wanted', 0)) /\ IsFiniteSet(applied')
  BY <1>1, <1>9, FS_EmptySet
<1>11. \A m \in 1..Len(todo') : todo'[m] = changes'[Looked' + m]
  BY <1>1, <1>3, <1>4
<1>12. Len(todo') <= Len(changes') /\ Len(changes') <= MaxBatch
  BY <1>1, <1>3
<1> QED
  BY <1>1, <1>4, <1>8, <1>10, <1>11, <1>12 DEF LoopInv
\* Between batches there is nothing to look at.
LEMMA IdleLoop ==
  ASSUME phase = "idle", changes = << >>, todo = << >>, applied = {}
  PROVE  LoopInv
<1>1. Len(changes) = 0 /\ Len(todo) = 0 /\ 0 <= MaxBatch
  BY BoundsAssumption
<1>2. IsFiniteSet(applied)
  BY FS_EmptySet
<1>3. \A n \in 1..Len(todo) : todo[n] = changes[Looked + n]
  BY <1>1
<1> QED
  BY <1>1, <1>2, <1>3 DEF LoopInv

\* Every step keeps what the loop has staged in step with the batch.
LEMMA LoopPreserved ==
  ASSUME TypeOK, SeqsAreDrawn, LoopInv, [Next]_vars
  PROVE  LoopInv'
<1>a. ASSUME phase' = "idle", changes' = << >>, todo' = << >>, applied' = {}
      PROVE  LoopInv'
  <2>1. Len(changes') = 0 /\ Len(todo') = 0 /\ 0 <= MaxBatch
    BY <1>a, BoundsAssumption
  <2>2. IsFiniteSet(applied')
    BY <1>a, FS_EmptySet
  <2>3. \A n \in 1..Len(todo') : todo'[n] = changes'[Looked' + n]
    BY <2>1
  <2> QED
    BY <1>a, <2>1, <2>2, <2>3 DEF LoopInv
<1>b. ASSUME phase = "idle", UNCHANGED staging PROVE LoopInv'
  BY <1>a, <1>b DEF LoopInv, staging
<1>1. ASSUME NEW a \in Actors, NEW batch \in Batches, Begin(a, batch)
      PROVE  LoopInv'
  BY <1>1, BeginLoop
<1>2. CASE Skip
  BY <1>2, SkipLoop
<1>3. CASE Stage
  BY <1>3, StageLoop
<1>4. CASE Reject
  BY <1>4, <1>a DEF Reject
<1>5. CASE Commit
  BY <1>5, <1>a DEF Commit
<1>6. ASSUME NEW limit \in KeepCounts, Prune(limit) PROVE LoopInv'
  BY <1>6, <1>b DEF Prune
<1>7. ASSUME NEW t \in Tables, CreateTable(t) PROVE LoopInv'
  BY <1>7, <1>b DEF CreateTable
<1>8. ASSUME NEW t \in Tables, DeleteTable(t) PROVE LoopInv'
  BY <1>8, <1>b DEF DeleteTable
<1>9. ASSUME NEW u \in Users, NEW now \in Timestamps, DeleteUser(u, now)
      PROVE  LoopInv'
  BY <1>9, <1>b DEF DeleteUser
<1>10. CASE Close
  BY <1>10, <1>b DEF Close
<1>11. CASE UNCHANGED vars
  <2>1. UNCHANGED <<phase, changes, todo, applied, staged, records, exists, actor>>
    BY <1>11 DEF vars, staging
  <2>2. Looked' = Looked /\ Wanted' = Wanted
    BY <2>1 DEF Looked, Wanted, Known, ToStore
  <2> QED
    BY <2>1, <2>2 DEF LoopInv
<1> QED
  BY <1>1, <1>2, <1>3, <1>4, <1>5, <1>6, <1>7, <1>8, <1>9, <1>10, <1>11 DEF Next

\* With no change wanted, the abstract store has no batch.
LEMMA NoneWanted == Known = {} => Wanted = Store!NoBatch
BY DEF Wanted, Store!NoBatch

\* The abstract store starts with its registers empty.
LEMMA InitStore == Init => Store!Init
<1> SUFFICES ASSUME Init PROVE Store!Init
  OBVIOUS
<1>1. /\ \A k \in Keys : records[k] = Absent
      /\ globalSeq = 0 /\ applied = {} /\ changes = << >>
  BY DEF Init
<1>2. RecordOf(Absent) = NoRecord
  BY DEF RecordOf, Absent, NoRecord
<1>3. [k \in Keys |-> RecordOf(records[k])] = [k \in Keys |-> NoRecord]
  BY <1>1, <1>2
<1>4. globalSeq - Cardinality(applied) = 0
  BY <1>1, FS_EmptySet
<1>5. Known = {}
  BY <1>1 DEF Known
<1>6. [i \in Known |-> ToStore(changes[i])] = Store!NoBatch
  BY <1>5, NoneWanted DEF Wanted
<1> QED
  BY <1>3, <1>4, <1>6 DEF Store!Init, Store!NoRecord, NoRecord
\* The abstract store counts as FiniteSets does.
LEMMA SameCardinality == \A S : Store!Cardinality(S) = Cardinality(S)
BY DEF Store!Cardinality, Cardinality

\* The abstract store merges a batch as LWW defines it.
LEMMA SameMerge ==
  /\ \A regs, want : Store!Merge(regs, want) = Merge(regs, want)
  /\ \A regs, want, n : Store!SeqAfter(regs, want, n) = n + Cardinality(AppliedAt(regs, want))
<1>1. \A c, r : Store!ShouldOverwrite(c, r) <=> ShouldOverwrite(c, r)
  BY DEF Store!ShouldOverwrite, ShouldOverwrite
<1>2. \A c : Store!RecordOf(c) = RecordOf(c)
  BY DEF Store!RecordOf, RecordOf
<1>3. ASSUME NEW regs, NEW want PROVE Store!AppliedAt(regs, want) = AppliedAt(regs, want)
  <2>1. \A i : i \in Store!AppliedAt(regs, want) <=> i \in AppliedAt(regs, want)
    BY <1>1 DEF Store!AppliedAt, AppliedAt
  <2> QED
    BY <2>1
<1>4. ASSUME NEW regs, NEW want, NEW k
      PROVE  Store!AppliedTo(regs, want, k) = AppliedTo(regs, want, k)
  <2>1. Store!AppliedAt(regs, want) = AppliedAt(regs, want)
    BY <1>3
  <2> QED
    BY <2>1 DEF Store!AppliedTo, AppliedTo
<1>5. ASSUME NEW regs, NEW want PROVE Store!Merge(regs, want) = Merge(regs, want)
  <2>1. \A k : Store!AppliedTo(regs, want, k) = AppliedTo(regs, want, k)
    BY <1>4
  <2>2. ASSUME NEW k \in DOMAIN regs
        PROVE  Store!Merge(regs, want)[k] = Merge(regs, want)[k]
    <3> DEFINE hits == AppliedTo(regs, want, k)
    <3>1. Store!Merge(regs, want)[k] =
            IF hits = {} THEN regs[k]
            ELSE Store!RecordOf(want[CHOOSE i \in hits : \A j \in hits : j <= i])
      <4> DEFINE same == Store!AppliedTo(regs, want, k)
      <4>1. Store!Merge(regs, want)[k] =
              IF same = {} THEN regs[k]
              ELSE Store!RecordOf(want[CHOOSE i \in same : \A j \in same : j <= i])
        BY DEF Store!Merge
      <4>2. same = hits
        BY <2>1
      <4> HIDE DEF same, hits
      <4> QED
        BY <4>1, <4>2
    <3>2. Merge(regs, want)[k] =
            IF hits = {} THEN regs[k]
            ELSE RecordOf(want[CHOOSE i \in hits : \A j \in hits : j <= i])
      BY DEF Merge
    <3> QED
      BY <1>2, <3>1, <3>2
  <2> QED
    BY <2>2 DEF Store!Merge, Merge
<1>6. ASSUME NEW regs, NEW want, NEW n
      PROVE  Store!SeqAfter(regs, want, n) = n + Cardinality(AppliedAt(regs, want))
  BY <1>3, SameCardinality DEF Store!SeqAfter
<1> QED
  BY <1>5, <1>6

\* A refused or committed batch is wanted no more.
LEMMA NothingWanted == ASSUME changes' = << >> PROVE Wanted' = Store!NoBatch
<1>1. Known' = {}
  BY DEF Known
<1> QED
  BY <1>1 DEF Wanted, Store!NoBatch

\* Without changes there is nothing wanted.
LEMMA NoneBetweenBatches == ASSUME changes = << >> PROVE Wanted = Store!NoBatch
<1>1. Known = {}
  BY DEF Known
<1> QED
  BY <1>1, NoneWanted

\* Begin offers the batch.
LEMMA BeginOffers ==
  ASSUME TypeOK, LoopInv, NEW a \in Actors, NEW batch \in Batches, Begin(a, batch)
  PROVE  Store!Offer
<1>1. /\ phase = "idle" /\ applied' = {} /\ applied = {} /\ changes = << >>
      /\ UNCHANGED <<records, globalSeq>>
  BY DEF Begin, LoopInv
<1>2. TypeOK' /\ LoopInv'
  BY BeginLoop, NextTypeOK DEF Next
<1>3. TypeOK' => WantedOK'
  BY WantedType, PTL
<1>4. /\ Known' \in SUBSET (1..Len(changes')) /\ Wanted' \in [Known' -> StoreChanges]
      /\ Len(changes') <= MaxBatch
  BY <1>2, <1>3 DEF WantedOK, LoopInv
<1>5. Len(changes') \in Nat /\ MaxBatch \in Nat
  BY <1>2, BoundsAssumption DEF TypeOK
<1>6. 1..Len(changes') \subseteq 1..MaxBatch
  BY <1>4, <1>5
<1>7. Known' \in SUBSET (1..MaxBatch)
  BY <1>4, <1>6
<1>8. Wanted' \in UNION {[places -> StoreChanges] : places \in SUBSET (1..MaxBatch)}
  BY <1>4, <1>7
<1>9. Wanted = Store!NoBatch
  BY <1>1, NoneBetweenBatches
<1> QED
  BY <1>1, <1>8, <1>9 DEF Store!Offer, Wanted

\* A step of the loop shows nothing.
LEMMA LoopStutters ==
  ASSUME TypeOK, SeqsAreDrawn, LoopInv, Skip \/ Stage
  PROVE  UNCHANGED Store!storeVars
<1>1. UNCHANGED <<records, changes, exists, actor>>
  BY DEF Skip, Stage
<1>2. Wanted' = Wanted
  BY <1>1 DEF Wanted, Known, ToStore
<1>3. globalSeq' - Cardinality(applied') = globalSeq - Cardinality(applied)
  <2>1. CASE Skip
    BY <2>1 DEF Skip
  <2>2. CASE Stage
    <3>1. /\ Cardinality(applied') = Cardinality(applied) + 1
          /\ Cardinality(applied) \in Nat
      BY <2>2, StageLoop
    <3>2. globalSeq' = globalSeq + 1 /\ globalSeq \in Nat
      BY <2>2 DEF Stage, TypeOK
    <3> QED
      BY <3>1, <3>2
  <2> QED
    BY <2>1, <2>2
<1> QED
  BY <1>1, <1>2, <1>3 DEF Store!storeVars, Wanted

\* Commit commits it all at once.
LEMMA CommitCommits ==
  ASSUME TypeOK, LoopInv, Commit
  PROVE  Store!Commit
<1>1. /\ phase = "staging" /\ todo = << >> /\ records' = staged /\ changes' = << >>
      /\ applied' = {} /\ globalSeq' = globalSeq
  BY DEF Commit
<1>2. Looked = Len(changes) /\ Len(changes) \in Nat
  BY <1>1 DEF Looked, TypeOK
<1>3. /\ records \in [Keys -> Stored] /\ staged \in [Keys -> Stored] /\ globalSeq \in Nat
      /\ Known \in SUBSET (1..Len(changes)) /\ Wanted \in [Known -> StoreChanges]
      /\ IsFiniteSet(Known)
  BY WantedType DEF TypeOK, WantedOK
<1>4. /\ Faithful(records, Wanted, Looked, staged)
      /\ Cardinality(applied) = Cardinality(WonBy(records, Wanted, Looked))
  BY <1>1 DEF LoopInv
<1>5. RegistersOf(staged) = Merge(RegistersOf(records), Wanted)
  BY <1>2, <1>3, <1>4, LoopEnds
<1> DEFINE A == AppliedAt(RegistersOf(records), Wanted)
<1>6. A \subseteq Known
  BY <1>3, WinnersAreChanges
<1>7. WonBy(records, Wanted, Looked) = A
  <2>1. \A i \in Known : i <= Looked
    BY <1>2, <1>3
  <2> QED
    BY <1>6, <2>1 DEF WonBy
<1>8. Cardinality(A) \in Nat /\ Cardinality(applied) = Cardinality(A)
  BY <1>3, <1>4, <1>6, <1>7, FS_Subset, FS_CardinalityType
<1> HIDE DEF A
<1>9. Cardinality(applied') = 0
  BY <1>1, FS_EmptySet
<1>10. globalSeq' - Cardinality(applied') = (globalSeq - Cardinality(applied)) + Cardinality(A)
  BY <1>1, <1>3, <1>8, <1>9
<1>11. Wanted' = Store!NoBatch
  BY <1>1, NothingWanted
<1>12. RegistersOf(records') = Store!Merge(RegistersOf(records), Wanted)
  BY <1>1, <1>5, SameMerge
<1>13. globalSeq' - Cardinality(applied') =
         Store!SeqAfter(RegistersOf(records), Wanted, globalSeq - Cardinality(applied))
  BY <1>10, SameMerge DEF A
<1> QED
  BY <1>11, <1>12, <1>13 DEF Store!Commit, RegistersOf, Wanted

\* Reject refuses the batch; the numbers its first changes drew are spent.
LEMMA RejectRefuses ==
  ASSUME TypeOK, LoopInv, Reject
  PROVE  Store!Refuse
<1>1. /\ phase = "staging" /\ records' = records /\ changes' = << >>
      /\ applied' = {} /\ globalSeq' = globalSeq
  BY DEF Reject, Discarded
<1>2. /\ globalSeq \in Nat /\ Wanted \in [Known -> StoreChanges] /\ IsFiniteSet(Known)
  BY WantedType DEF TypeOK, WantedOK
<1>3. Cardinality(applied) = Cardinality(WonBy(records, Wanted, Looked))
  BY <1>1 DEF LoopInv
<1>4. WonBy(records, Wanted, Looked) \subseteq Known
  BY <1>2, WinnersAreChanges DEF WonBy
<1>5. /\ Cardinality(applied) \in Nat /\ Cardinality(Known) \in Nat
      /\ Cardinality(applied) <= Cardinality(Known)
  BY <1>2, <1>3, <1>4, FS_Subset, FS_CardinalityType
<1>6. Cardinality(applied') = 0
  BY <1>1, FS_EmptySet
<1>7. DOMAIN Wanted = Known
  BY <1>2
<1>8. globalSeq' - Cardinality(applied') \in
        (globalSeq - Cardinality(applied))..
          ((globalSeq - Cardinality(applied)) + Cardinality(DOMAIN Wanted))
  BY <1>1, <1>2, <1>5, <1>6, <1>7
<1>9. Wanted' = Store!NoBatch
  BY <1>1, NothingWanted
<1>10. [k \in Keys |-> RecordOf(records[k])]' = [k \in Keys |-> RecordOf(records[k])]
  BY <1>1
<1> QED
  BY <1>8, <1>9, <1>10, SameCardinality DEF Store!Refuse, Wanted
\* A step outside of batches, which leaves the batch that is not there.
LEMMA NoBatchOutside ==
  ASSUME LoopInv, phase = "idle", UNCHANGED staging
  PROVE  /\ Wanted = Store!NoBatch /\ Wanted' = Store!NoBatch
         /\ applied = {} /\ applied' = {}
         /\ Cardinality(applied) = 0 /\ Cardinality(applied') = 0
<1>1. changes = << >> /\ changes' = << >> /\ applied = {} /\ applied' = {}
  BY DEF LoopInv, staging
<1> QED
  BY <1>1, NoneBetweenBatches, NothingWanted, FS_EmptySet

\* Steps that touch neither records nor numbers show nothing.
LEMMA QuietStutters ==
  ASSUME LoopInv, phase = "idle", UNCHANGED <<staging, records, globalSeq>>
  PROVE  UNCHANGED Store!storeVars
<1>1. /\ Wanted = Store!NoBatch /\ Wanted' = Store!NoBatch
      /\ Cardinality(applied) = 0 /\ Cardinality(applied') = 0
  BY NoBatchOutside
<1> QED
  BY <1>1 DEF Store!storeVars, Wanted

\* Deleting a table drops the registers of its keys.
LEMMA DeleteTableDrops ==
  ASSUME TypeOK, LoopInv, NEW t \in Tables, DeleteTable(t)
  PROVE  \E ts \in Timestamps : Store!Drop({k \in Keys : k[2] = t}, {}, ts)
<1>1. /\ phase = "idle" /\ UNCHANGED <<staging, globalSeq>>
      /\ records' = [k \in Keys |-> IF k[2] = t THEN Absent ELSE records[k]]
  BY DEF DeleteTable
<1>2. /\ Wanted = Store!NoBatch /\ Wanted' = Store!NoBatch
      /\ Cardinality(applied) = 0 /\ Cardinality(applied') = 0
  BY <1>1, NoBatchOutside
<1>3. 1 \in Timestamps
  BY BoundsAssumption DEF Timestamps
<1>4. RecordOf(Absent) = Store!NoRecord
  BY DEF RecordOf, Absent, Store!NoRecord
<1>5. [k \in Keys |-> RecordOf(records'[k])] =
        [k \in Keys |-> IF k \in {j \in Keys : j[2] = t} THEN Store!NoRecord
                        ELSE [j \in Keys |-> RecordOf(records[j])][k]]
  BY <1>1, <1>4
<1>6. globalSeq' - Cardinality(applied') = globalSeq - Cardinality(applied) + Cardinality({})
  BY <1>1, <1>2, FS_EmptySet DEF TypeOK
<1>7. Store!Drop({k \in Keys : k[2] = t}, {}, 1)
  BY <1>2, <1>5, <1>6, SameCardinality DEF Store!Drop, Wanted
<1> QED
  BY <1>3, <1>7

\* Deleting a user drops the registers of the user's partition and buries
\* those of the records that the user shared.
LEMMA DeleteUserDrops ==
  ASSUME TypeOK, LoopInv, NEW u \in Users, NEW now \in Timestamps, DeleteUser(u, now)
  PROVE  Store!Drop({k \in Keys : k[1] = u}, MadeBy(u), now)
<1>1. /\ phase = "idle" /\ UNCHANGED staging
      /\ globalSeq' = globalSeq + Cardinality(MadeBy(u))
      /\ \A k \in Keys : records'[k] =
           IF k[1] = u THEN Absent
           ELSE IF k \in MadeBy(u)
                THEN [records[k] EXCEPT !.op = "delete", !.ts = now] ELSE records[k]
  BY DEF DeleteUser
<1>2. /\ Wanted = Store!NoBatch /\ Wanted' = Store!NoBatch
      /\ Cardinality(applied) = 0 /\ Cardinality(applied') = 0
  BY <1>1, NoBatchOutside
<1>3. RecordOf(Absent) = Store!NoRecord
  BY DEF RecordOf, Absent, Store!NoRecord
<1> DEFINE dropped == {k \in Keys : k[1] = u}
           regs == [k \in Keys |-> RecordOf(records[k])]
           after == [k \in Keys |->
                       IF k \in dropped THEN Store!NoRecord
                       ELSE IF k \in MadeBy(u)
                            THEN [regs[k] EXCEPT !.op = "delete", !.ts = now]
                            ELSE regs[k]]
<1>4. ASSUME NEW k \in Keys PROVE RecordOf(records'[k]) = after[k]
  <2>1. CASE k[1] = u
    BY <1>1, <1>3, <2>1
  <2>2. CASE k[1] # u /\ k \in MadeBy(u)
    <3>1. records[k] \in Stored
      BY DEF TypeOK
    <3>2. RecordOf([records[k] EXCEPT !.op = "delete", !.ts = now]) =
            [op |-> "delete", ts |-> now, cid |-> records[k].cid]
      BY <3>1 DEF RecordOf, Stored
    <3>3. [RecordOf(records[k]) EXCEPT !.op = "delete", !.ts = now] =
            [op |-> "delete", ts |-> now, cid |-> records[k].cid]
      <4> DEFINE reg == RecordOf(records[k])
      <4>1. reg \in [op : {reg.op}, ts : {reg.ts}, cid : {records[k].cid}]
        BY DEF RecordOf
      <4> HIDE DEF reg
      <4>2. [reg EXCEPT !.op = "delete", !.ts = now] \in
              [op : {"delete"}, ts : {now}, cid : {records[k].cid}]
        BY <4>1
      <4>3. \A op, ts, cid : \A r \in [op : {op}, ts : {ts}, cid : {cid}] :
              r = [op |-> op, ts |-> ts, cid |-> cid]
        OBVIOUS
      <4> QED
        BY <4>2, <4>3 DEF reg
    <3>4. after[k] = [RecordOf(records[k]) EXCEPT !.op = "delete", !.ts = now]
      BY <2>2
    <3> QED
      BY <1>1, <2>2, <3>2, <3>3, <3>4
  <2>3. CASE k[1] # u /\ k \notin MadeBy(u)
    BY <1>1, <2>3
  <2> QED
    BY <2>1, <2>2, <2>3
<1>5. [k \in Keys |-> RecordOf(records'[k])] = after
  BY <1>4
<1>6. MadeBy(u) \subseteq {k \in Keys : regs[k].op = "put"} \ dropped
  <2>1. u # Shared
    BY BoundsAssumption
  <2>2. \A k \in Keys : regs[k].op = records[k].op
    BY DEF RecordOf
  <2> QED
    BY <2>1, <2>2 DEF MadeBy
<1>7. globalSeq' - Cardinality(applied') =
        globalSeq - Cardinality(applied) + Cardinality(MadeBy(u))
  <2> DEFINE n == Cardinality(MadeBy(u))
  <2>1. n \in Nat /\ globalSeq \in Nat
    BY MadeByFinite DEF TypeOK
  <2>2. globalSeq' = globalSeq + n
    BY <1>1
  <2> HIDE DEF n
  <2>3. globalSeq' - 0 = globalSeq - 0 + n
    BY <2>1, <2>2
  <2> QED
    BY <1>2, <2>3 DEF n
<1> QED
  BY <1>2, <1>5, <1>6, <1>7, SameCardinality DEF Store!Drop, Wanted

\* Closing the engine forgets everything.
LEMMA CloseForgets ==
  ASSUME LoopInv, Close
  PROVE  Store!Forget
<1>1. /\ phase = "idle" /\ UNCHANGED staging /\ globalSeq' = 0
      /\ \A k \in Keys : records'[k] = Absent
  BY DEF Close
<1>2. /\ Wanted = Store!NoBatch /\ Wanted' = Store!NoBatch /\ Cardinality(applied') = 0
  BY <1>1, NoBatchOutside
<1>3. RecordOf(Absent) = Store!NoRecord
  BY DEF RecordOf, Absent, Store!NoRecord
<1>4. [k \in Keys |-> RecordOf(records'[k])] = [k \in Keys |-> Store!NoRecord]
  BY <1>1, <1>3
<1>5. globalSeq' - Cardinality(applied') = 0
  BY <1>1, <1>2
<1> QED
  BY <1>2, <1>4, <1>5 DEF Store!Forget, Wanted

\* Every step of the engine is one of the abstract store, or shows nothing.
LEMMA StepOfStore ==
  ASSUME TypeOK, SeqsAreDrawn, LoopInv, [Next]_vars
  PROVE  [Store!Next]_(Store!storeVars)
<1>1. ASSUME NEW a \in Actors, NEW batch \in Batches, Begin(a, batch)
      PROVE  Store!Next
  BY <1>1, BeginOffers DEF Store!Next
<1>2. CASE Skip \/ Stage
  BY <1>2, LoopStutters
<1>4. CASE Reject
  BY <1>4, RejectRefuses DEF Store!Next
<1>5. CASE Commit
  BY <1>5, CommitCommits DEF Store!Next
<1>6. ASSUME NEW limit \in KeepCounts, Prune(limit) PROVE UNCHANGED Store!storeVars
  BY <1>6, QuietStutters DEF Prune
<1>7. ASSUME NEW t \in Tables, CreateTable(t) PROVE UNCHANGED Store!storeVars
  BY <1>7, QuietStutters DEF CreateTable
<1>8. ASSUME NEW t \in Tables, DeleteTable(t) PROVE Store!Next
  <2>1. {k \in Keys : k[2] = t} \in SUBSET Keys /\ {} \in SUBSET Keys
    OBVIOUS
  <2>2. \E ts \in Timestamps : Store!Drop({k \in Keys : k[2] = t}, {}, ts)
    BY <1>8, DeleteTableDrops
  <2> QED
    BY <2>1, <2>2 DEF Store!Next
<1>9. ASSUME NEW u \in Users, NEW now \in Timestamps, DeleteUser(u, now)
      PROVE  Store!Next
  <2>1. {k \in Keys : k[1] = u} \in SUBSET Keys /\ MadeBy(u) \in SUBSET Keys
    BY DEF MadeBy
  <2>2. Store!Drop({k \in Keys : k[1] = u}, MadeBy(u), now)
    BY <1>9, DeleteUserDrops
  <2> QED
    BY <2>1, <2>2 DEF Store!Next
<1>10. CASE Close
  BY <1>10, CloseForgets DEF Store!Next
<1>11. CASE UNCHANGED vars
  <2>1. UNCHANGED <<records, changes, exists, actor, globalSeq, applied>>
    BY <1>11 DEF vars, staging
  <2>2. Wanted' = Wanted
    BY <2>1 DEF Wanted, Known, ToStore
  <2> QED
    BY <2>1, <2>2 DEF Store!storeVars, Wanted
<1> QED
  BY <1>1, <1>2, <1>4, <1>5, <1>6, <1>7, <1>8, <1>9, <1>10, <1>11 DEF Next

\* The engine implements the abstract store: a batch shows all at once when it
\* commits, each register moving to the last change that wins it, or not at all.
THEOREM EngineImplementsStore == Spec => ImplementsStore
<1>1. Init => TypeOK /\ SeqsAreDrawn /\ SeqsAreUnique /\ LoopInv
  BY InitTypeOK, InitSeqs, IdleLoop DEF Init
<1>2. TypeOK /\ SeqsAreDrawn /\ SeqsAreUnique /\ LoopInv /\ [Next]_vars
        => (TypeOK /\ SeqsAreDrawn /\ SeqsAreUnique /\ LoopInv)'
  BY NextTypeOK, SeqsPreserved, LoopPreserved
<1>3. TypeOK /\ SeqsAreDrawn /\ LoopInv /\ [Next]_vars => [Store!Next]_(Store!storeVars)
  BY StepOfStore
<1> QED
  BY <1>1, <1>2, <1>3, InitStore, PTL DEF Spec, ImplementsStore, Store!Spec
=============================================================================
