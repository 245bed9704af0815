-------------------------- MODULE FileStorageProofs --------------------------
(***************************************************************************)
(* Theorems about FileStorage for any number of jobs, crashes, tables,     *)
(* records and batches: jobs do not block one another, limits are kept,    *)
(* what is shown was logged, what was acknowledged stays, and, until       *)
(* something is torn apart, numbers are unique and diffs complete.         *)
(*                                                                         *)
(* None of it is inductive.  What a job does to the files rests on what it *)
(* has read, which holds while it has the lock of the partition; so the    *)
(* first invariant (Types) says who waits for which lock and who has it,   *)
(* and each of the others says what the maps, lines and numbers in a job's *)
(* hands are, from the step that makes them to the one that writes them.   *)
(***************************************************************************)
EXTENDS FileStorage, FiniteSetTheorems, FunctionTheorems, SequenceTheorems,
        WellFoundedInduction, TLAPS

-----------------------------------------------------------------------------
(* What there is                                                           *)

Nums == {m \in [seq : Nat, min : Nat] : m.min <= m.seq + 1}
Line == [table : Tables, id : Ids, op : {"put", "delete"}, ts : Nat, cid : Nat,
         owner : Owners, seq : Nat]
Maps == [Tables -> [Ids -> Stored]]
Acked == [key : Keys, op : {"put", "delete"}, ts : Nat, cid : Nat, owner : Owners]

ApplyJobs ==
  [pc : {"group", "stage", "append", "records", "leave", "meta", "cut", "cutMeta", "return"},
   kind : {"apply"}, actor : Actors, batch : Batches, meta : Nums, todo : Seq(Partitions),
   maps : Maps \cup {<< >>}, left : SUBSET Tables, lines : Seq(Line), applied : SUBSET Line]
PruneJobs ==
  [pc : {"cut", "cutMeta", "return"}, kind : {"prune"}, todo : Seq(Partitions), meta : Nums]
DiffJobs ==
  [pc : {"read", "answer"}, kind : {"diff"}, actor : Actors, from : Nat, meta : Nums,
   todo : Seq(Partitions), got : SUBSET Line]
AccountJobs ==
  [pc : {"account", "tombs", "rmdir"}, kind : {"account"}, user : Users, now : Nat,
   todo : {<<Shared>>}]
TombJobs ==
  [pc : {"tombRecords", "tombLog", "tombMeta"}, kind : {"tombs"}, user : Users,
   todo : {<<Shared>>}, left : SUBSET Tables, maps : Maps, lines : Seq(Line), meta : Nums]
RmdirJobs == [pc : {"rmdir"}, kind : {"account"}, user : Users]
DropJobs ==
  [pc : {"drop", "rm", "purge"}, kind : {"drop"}, table : Tables, todo : Seq(Partitions),
   dirs : Seq(Partitions)]
JobStates ==
  {Idle} \cup ApplyJobs \cup PruneJobs \cup DiffJobs \cup AccountJobs \cup TombJobs
    \cup RmdirJobs \cup DropJobs

\* Who is in a partition, or in the queue before it; who writes there; who has
\* changes in hand.
Inside == {"stage", "append", "records", "leave", "cut", "read", "tombs",
           "tombRecords", "tombLog", "tombMeta", "purge"}
Writing == {"append", "records", "leave", "tombRecords", "tombLog", "tombMeta"}
JobFits(j) ==
  /\ j.pc \in Inside => j.todo # << >>
  /\ j.pc \in {"append", "records", "leave"} => j.maps \in Maps
  /\ j.pc = "tombRecords" => j.left # {}

\* The lock that a job has asked for first, and that of the partition it has come to.
OwnLock(j) ==
  IF j.kind = "apply" THEN {"apply"}
  ELSE IF j.kind \in {"account", "tombs"} THEN {"users"}
  ELSE IF j.kind = "drop" THEN {"tables"} ELSE {}
PartitionLock(j) == IF j.pc \in Inside THEN {Head(j.todo)} ELSE {}
Asked(j) == OwnLock(j) \cup PartitionLock(j)

\* The locks it must have got.
Had(j) ==
  (IF j.pc \in {"group", "account", "drop"} THEN {} ELSE OwnLock(j))
    \cup (IF j.pc \in Writing THEN PartitionLock(j) ELSE {})

QueueFits(q, l, jobs) ==
  /\ q \in Seq(Workers) /\ IsInjective(q)
  /\ ToSet(q) = {w \in Workers : l \in Asked(jobs[w])}
  /\ \A w \in Workers : l \in Had(jobs[w]) => q # << >> /\ Head(q) = w

FilesTyped ==
  /\ tables \subseteq Tables /\ accounts \subseteq Users
  /\ records \in [Keys -> Stored]
  /\ log \in [Partitions -> SUBSET Line] /\ torn \in [Partitions -> BOOLEAN]
  /\ meta \in Nums /\ logged \in [Partitions -> SUBSET Line]
  /\ acked \subseteq Acked /\ deleted \subseteq Tables /\ buried \subseteq Keys
  /\ disturbed \in BOOLEAN
JobsFit == job \in [Workers -> JobStates] /\ \A w \in Workers : JobFits(job[w])
QueuesFit ==
  /\ queue = [l \in Locks |-> queue[l]]
  /\ \A l \in Locks : QueueFits(queue[l], l, job)

Types == FilesTyped /\ JobsFit /\ QueuesFit

-----------------------------------------------------------------------------
(* What is in the hands of a job                                           *)

\* An account that is being cleaned up after is gone, and so is a table.
GoneFits(j, accs, dels) ==
  /\ j.kind \in {"account", "tombs"} /\ j.pc # "account" => j.user \notin accs
  /\ j.kind = "drop" /\ j.pc # "drop" => j.table \in dels
GoneInv == \A w \in Workers : GoneFits(job[w], accounts, deleted)

\* The job has maps to write.
HasMaps(j) == j.pc \in {"append", "records", "tombRecords"}
Live(map) == {i \in Ids : map[i].op = "put"}

LimitInv ==
  /\ LimitKept
  /\ \A w \in Workers : HasMaps(job[w]) =>
       \A t \in job[w].left : Cardinality(Live(job[w].maps[t])) <= MaxRecords

\* Some line tells of record r with id i in table t.
IsTold(lines, t, i, r) ==
  \E e \in lines :
    /\ e.table = t /\ e.id = i
    /\ r = [op |-> e.op, ts |-> e.ts, cid |-> e.cid, owner |-> e.owner]
LinesOf(j) == IF j.pc = "append" THEN ToSet(j.lines) ELSE {}

\* Every record that is shown was logged, whether or not the line can be read.
RecordsLogged ==
  \A k \in Keys : records[k].op = "put" =>
    \E e \in logged[k[1]] :
      /\ e.table = k[2] /\ e.id = k[3]
      /\ records[k] = [op |-> e.op, ts |-> e.ts, cid |-> e.cid, owner |-> e.owner]

LoggedInv ==
  /\ RecordsLogged
  /\ \A w \in Workers : HasMaps(job[w]) =>
       \A t \in job[w].left, i \in Ids :
         job[w].maps[t][i].op = "put" =>
           IsTold(logged[Head(job[w].todo)] \cup LinesOf(job[w]), t, i, job[w].maps[t][i])

\* Keys whose records need not be kept.
ExcusedKeys == {k \in Keys : k[2] \in deleted \/ k[1] \in Users \ accounts \/ k \in buried}
Beats(r, e) == r.op # "none" /\ ShouldOverwrite(r, e)
KeyOf(a, e) == <<PartitionOf(a, e.table), e.table, e.id>>
Settled(recs, excused, k, e) == k \in excused \/ Beats(recs[k], e)

\* The changes a batch has made so far are in the records, or are going to be.
ApplyingFits(recs, excused, j) ==
  /\ \A e \in j.applied : Settled(recs, excused, KeyOf(j.actor, e), e)
  /\ j.pc = "leave" => \A e \in ToSet(j.lines) : Settled(recs, excused, KeyOf(j.actor, e), e)
  /\ j.pc \in {"append", "records"} =>
       /\ \A e \in ToSet(j.lines) :
            /\ PartitionOf(j.actor, e.table) = Head(j.todo)
            /\ e.table \in j.left \/ Settled(recs, excused, KeyOf(j.actor, e), e)
            /\ Beats(j.maps[e.table][e.id], e)
       /\ \A t \in j.left, i \in Ids :
            LET k == <<Head(j.todo), t, i>>
            IN  k \in excused \/ recs[k].op = "none" \/ Beats(j.maps[t][i], recs[k])
BuryingFits(recs, excused, j) ==
  j.pc = "tombRecords" =>
    \A t \in j.left, i \in Ids :
      <<Shared, t, i>> \in excused \/ j.maps[t][i] = recs[<<Shared, t, i>>]
JobSettles(recs, excused, j) ==
  /\ j.kind = "apply" => ApplyingFits(recs, excused, j)
  /\ j.kind = "tombs" => BuryingFits(recs, excused, j)

AckInv ==
  /\ \A e \in acked : Settled(records, ExcusedKeys, e.key, e)
  /\ \A w \in Workers : JobSettles(records, ExcusedKeys, job[w])

\* No number has been logged twice, nor any above n.
Numbered(lg) ==
  \A p, q \in Partitions : \A e \in lg[p], f \in lg[q] : e.seq = f.seq => p = q /\ e = f
LoggedUpTo(lg, n) == \A p \in Partitions : \A e \in lg[p] : e.seq <= n

\* The lines have numbers of their own, above those of meta.json and of the logs.
LinesFresh(j, seq, lg) ==
  /\ \A m \in DOMAIN j.lines :
       /\ j.lines[m].seq > seq /\ j.lines[m].seq <= j.meta.seq
       /\ \A p \in Partitions : \A e \in lg[p] : e.seq < j.lines[m].seq
  /\ \A m, n \in DOMAIN j.lines : j.lines[m].seq = j.lines[n].seq => m = n

\* The job has the counter in hand, and there is no one else who has.
Counts(j) == j.kind \in {"apply", "prune", "tombs"} /\ j.pc \notin {"group", "return"}
CountsFit(j, seq, lg) ==
  /\ seq <= j.meta.seq /\ LoggedUpTo(lg, j.meta.seq)
  /\ j.pc \in {"append", "tombRecords", "tombLog"} => LinesFresh(j, seq, lg)
  /\ j.pc \in {"stage", "append"} /\ j.applied = {} => LoggedUpTo(lg, seq)
  /\ j.pc \in {"records", "leave"} /\ j.applied = {} /\ j.lines = << >> => LoggedUpTo(lg, seq)
SeqFits ==
  /\ Numbered(logged)
  /\ \A v, w \in Workers : Counts(job[v]) /\ Counts(job[w]) => v = w
  /\ (\A w \in Workers : ~Counts(job[w])) => LoggedUpTo(logged, meta.seq)
  /\ \A w \in Workers : Counts(job[w]) => CountsFit(job[w], meta.seq, logged)
SeqInv == disturbed \/ SeqFits

\* What the logs have lost of what there is a table and an account for.
Lost ==
  {e \in UNION {logged[p] \ log[p] : p \in {Shared} \cup accounts} : e.table \notin deleted}
Below(lost, n) == \A e \in lost : e.seq < n

\* A diff has what it is to send of the partitions it has read.
GotFrom(j, p, lg, dels) ==
  IsSnapshotRequired(j.from, j.meta) \/
  \A e \in lg[p] : e.table \notin dels /\ e.seq > j.from /\ e.seq <= j.meta.seq => e \in j.got
ReadingFits(j, seq, lost, lg, dels, accs) ==
  /\ j.meta.seq <= seq
  /\ j.pc = "read" => Below(lost, j.meta.min)
  /\ \A p \in {Shared} \cup ({j.actor} \cap accs) :
       j.pc = "answer" \/ p \notin ToSet(j.todo) => GotFrom(j, p, lg, dels)
Cuts(j) == j.pc \in {"cut", "cutMeta"}
DiffFits ==
  /\ \A p \in Partitions : ~torn[p]
  /\ \A v, w \in Workers : ~(At(v, "read") /\ Cuts(job[w]))
  /\ (\A w \in Workers : ~Cuts(job[w])) => Below(Lost, meta.min)
  /\ \A w \in Workers :
       /\ Counts(job[w]) => Below(Lost, job[w].meta.min)
       /\ job[w].kind = "diff" => ReadingFits(job[w], meta.seq, Lost, logged, deleted, accounts)
DiffInv == disturbed \/ DiffFits

-----------------------------------------------------------------------------
(* Loops                                                                   *)

\* A non-empty set of natural numbers has a least member.
LEMMA HasLeast ==
  ASSUME NEW S \in SUBSET Nat, S # {}
  PROVE  \E n \in S : \A m \in S : n <= m
<1> DEFINE R == {ss \in Nat \X Nat : ss[1] < ss[2]}
<1>1. IsWellFoundedOn(R, Nat)
  BY NatLessThanWellFounded, Zenon DEF OpToRel
<1>2. PICK n \in S : \A m \in S : ~(<<m, n>> \in R)
  <2> HIDE DEF R
  <2> QED
    BY <1>1, WFMin, Zenon
<1>3. \A m \in S : ~(m < n)
  BY <1>2
<1> QED
  BY <1>3

\* What holds at first and from turn to turn holds in the end.
LEMMA LoopStays ==
  ASSUME NEW n \in Nat, NEW f, NEW S, f[0] \in S,
         \A i \in 1..n : f[i - 1] \in S => f[i] \in S
  PROVE  f[n] \in S
<1> DEFINE T == {i \in 0..n : f[i] \notin S}
<1> SUFFICES ASSUME T # {} PROVE FALSE
  OBVIOUS
<1>1. PICK m \in T : \A i \in T : m <= i
  <2>1. T \in SUBSET Nat
    OBVIOUS
  <2> HIDE DEF T
  <2> QED
    BY <2>1, HasLeast
<1>2. m \in 1..n /\ f[m] \notin S
  BY <1>1
<1>3. m - 1 \in 0..n /\ m - 1 \notin T
  BY <1>1, <1>2
<1> QED
  BY <1>2, <1>3

\* A loop of n turns can be gone through.
GoneThrough(n, start, step, g) ==
  /\ g = [i \in 0..n |-> g[i]] /\ g[0] = start
  /\ \A i \in 1..n : g[i] = step[<<i, g[i - 1]>>]

LEMMA LoopGoes ==
  ASSUME NEW n \in Nat, NEW S, NEW start \in S, NEW step \in [(1..n) \X S -> S]
  PROVE  \E g : GoneThrough(n, start, step, g)
<1> DEFINE IsRun(m, g) ==
             /\ g \in [0..m -> S] /\ g[0] = start
             /\ \A i \in 1..m : g[i] = step[<<i, g[i - 1]>>]
           T == {m \in 0..n : ~\E g : IsRun(m, g)}
<1>1. T = {}
  <2> SUFFICES ASSUME T # {} PROVE FALSE
    OBVIOUS
  <2>1. PICK m \in T : \A i \in T : m <= i
    <3>1. T \in SUBSET Nat
      OBVIOUS
    <3> HIDE DEF T
    <3> QED
      BY <3>1, HasLeast
  <2>2. m \in 0..n /\ ~\E g : IsRun(m, g)
    BY <2>1
  <2>3. m # 0
    <3> DEFINE g == [i \in 0..0 |-> start]
    <3>1. IsRun(0, g)
      OBVIOUS
    <3> QED
      BY <3>1, <2>2
  <2>4. m - 1 \in 0..n /\ m - 1 \notin T
    BY <2>1, <2>2, <2>3
  <2>5. PICK h : IsRun(m - 1, h)
    BY <2>4
  <2> DEFINE g == [i \in 0..m |-> IF i = m THEN step[<<m, h[m - 1]>>] ELSE h[i]]
  <2>6. h[m - 1] \in S
    BY <2>5, <2>2, <2>3
  <2>7. g \in [0..m -> S]
    <3>1. ASSUME NEW i \in 0..m PROVE g[i] \in S
      <4>1. CASE i = m
        BY <4>1, <2>2, <2>3, <2>6
      <4>2. CASE i # m
        BY <4>2, <2>2, <2>5
      <4> QED
        BY <4>1, <4>2
    <3> QED
      BY <3>1
  <2>8. g[0] = start
    BY <2>2, <2>3, <2>5
  <2>9. ASSUME NEW i \in 1..m PROVE g[i] = step[<<i, g[i - 1]>>]
    <3>1. i - 1 \in 0..m /\ i - 1 # m /\ i \in 0..m
      BY <2>2
    <3>2. g[i - 1] = h[i - 1]
      BY <3>1
    <3>3. CASE i = m
      BY <3>1, <3>2, <3>3
    <3>4. CASE i # m
      <4>1. i \in 1..(m - 1)
        BY <3>4, <2>2
      <4>2. g[i] = h[i]
        BY <3>1, <3>4
      <4> QED
        BY <4>1, <4>2, <3>2, <2>5
    <3> QED
      BY <3>3, <3>4
  <2>10. IsRun(m, g)
    <3> HIDE DEF g
    <3> QED
      BY <2>7, <2>8, <2>9
  <2> QED
    BY <2>10, <2>2
<1>2. PICK g : IsRun(n, g)
  <2>1. n \in 0..n
    OBVIOUS
  <2> HIDE DEF IsRun
  <2>2. n \notin T
    <3> HIDE DEF T
    <3> QED
      BY <1>1
  <2> QED
    BY <2>1, <2>2
<1> QED
  BY <1>2 DEF GoneThrough

\* Finitely many things can be put in a row, each once.
LEMMA Enumerated ==
  ASSUME NEW S, IsFiniteSet(S)
  PROVE  /\ SetToSeq(S) \in Seq(S) /\ IsInjective(SetToSeq(S))
         /\ Len(SetToSeq(S)) = Cardinality(S) /\ Cardinality(S) \in Nat
<1>1. Cardinality(S) \in Nat /\ ExistsBijection(1..Cardinality(S), S)
  BY FS_CardinalityType
<1>2. PICK f : f \in Bijection(1..Cardinality(S), S)
  BY <1>1 DEF ExistsBijection
<1>3. f \in [1..Cardinality(S) -> S] /\ IsInjective(f)
  BY <1>2 DEF Bijection, Injection
<1>4. SetToSeq(S) \in [1..Cardinality(S) -> S] /\ IsInjective(SetToSeq(S))
  BY <1>3 DEF SetToSeq
<1>5. SetToSeq(S) \in Seq(S)
  BY <1>1, <1>4, SeqDef
<1>6. Len(SetToSeq(S)) = Cardinality(S)
  BY <1>1, <1>4, <1>5, LenProperties
<1> QED
  BY <1>1, <1>4, <1>5, <1>6

-----------------------------------------------------------------------------
(* Queues                                                                  *)

\* Who joins a queue is its last.
LEMMA Joined ==
  ASSUME NEW q \in Seq(Workers), IsInjective(q), NEW w \in Workers, w \notin ToSet(q)
  PROVE  /\ Append(q, w) \in Seq(Workers) /\ IsInjective(Append(q, w))
         /\ ToSet(Append(q, w)) = ToSet(q) \cup {w}
         /\ Append(q, w) # << >> /\ (q # << >> => Head(Append(q, w)) = Head(q))
         /\ (q = << >> => Head(Append(q, w)) = w)
<1>1. /\ Len(q) \in Nat /\ DOMAIN q = 1..Len(q)
      /\ \A i \in 1..Len(q) : q[i] \in Workers /\ q[i] # w
  BY LenProperties, ElementOfSeq DEF ToSet
<1>2. /\ Append(q, w) \in Seq(Workers) /\ Append(q, w) # << >>
      /\ Len(Append(q, w)) = Len(q) + 1
      /\ \A i \in 1..Len(q) : Append(q, w)[i] = q[i]
      /\ Append(q, w)[Len(q) + 1] = w
  BY AppendProperties
<1>3. DOMAIN Append(q, w) = 1..(Len(q) + 1)
  BY <1>2, LenProperties
<1>4. IsInjective(Append(q, w))
  <2> SUFFICES ASSUME NEW i \in 1..(Len(q) + 1), NEW k \in 1..(Len(q) + 1),
                      Append(q, w)[i] = Append(q, w)[k]
               PROVE  i = k
    BY <1>3 DEF IsInjective
  <2>1. CASE i \in 1..Len(q) /\ k \in 1..Len(q)
    BY <2>1, <1>1, <1>2 DEF IsInjective
  <2>2. CASE i = Len(q) + 1 \/ k = Len(q) + 1
    <3>1. ASSUME NEW n \in 1..Len(q) PROVE Append(q, w)[n] # w
      BY <1>1, <1>2
    <3>2. (i \in 1..Len(q) \/ i = Len(q) + 1) /\ (k \in 1..Len(q) \/ k = Len(q) + 1)
      BY <1>1
    <3> QED
      BY <2>2, <3>1, <3>2, <1>2
  <2> QED
    BY <2>1, <2>2, <1>1
<1>5. ToSet(Append(q, w)) = ToSet(q) \cup {w}
  <2>1. ASSUME NEW v \in ToSet(Append(q, w)) PROVE v \in ToSet(q) \cup {w}
    <3>1. PICK i \in 1..(Len(q) + 1) : v = Append(q, w)[i]
      BY <1>3 DEF ToSet
    <3>2. CASE i \in 1..Len(q)
      BY <3>1, <3>2, <1>1, <1>2 DEF ToSet
    <3>3. CASE i = Len(q) + 1
      BY <3>1, <3>3, <1>2
    <3> QED
      BY <3>2, <3>3, <1>1
  <2>2. ASSUME NEW v \in ToSet(q) PROVE v \in ToSet(Append(q, w))
    <3>1. PICK i \in 1..Len(q) : v = q[i]
      BY <1>1 DEF ToSet
    <3>2. i \in DOMAIN Append(q, w) /\ v = Append(q, w)[i]
      BY <3>1, <1>1, <1>2, <1>3
    <3> QED
      BY <3>2 DEF ToSet
  <2>3. w \in ToSet(Append(q, w))
    BY <1>1, <1>2, <1>3 DEF ToSet
  <2> QED
    BY <2>1, <2>2, <2>3
<1>6. q # << >> => Head(Append(q, w)) = Head(q)
  <2> SUFFICES ASSUME q # << >> PROVE Append(q, w)[1] = q[1]
    BY <1>2
  <2>1. 1 \in 1..Len(q)
    BY <1>1, EmptySeq
  <2> QED
    BY <2>1, <1>2
<1>7. q = << >> => Head(Append(q, w)) = w
  BY <1>2
<1> QED
  BY <1>2, <1>4, <1>5, <1>6, <1>7

\* Who leaves a queue was its first.
LEMMA Left ==
  ASSUME NEW q \in Seq(Workers), IsInjective(q), q # << >>
  PROVE  /\ Tail(q) \in Seq(Workers) /\ IsInjective(Tail(q))
         /\ ToSet(Tail(q)) = ToSet(q) \ {Head(q)} /\ Head(q) \in ToSet(q)
<1>1. /\ Len(q) \in Nat \ {0} /\ DOMAIN q = 1..Len(q)
  BY LenProperties, EmptySeq
<1>2. /\ Tail(q) \in Seq(Workers) /\ Len(Tail(q)) = Len(q) - 1
      /\ \A i \in 1..Len(Tail(q)) : Tail(q)[i] = q[i + 1]
  BY HeadTailProperties
<1>3. DOMAIN Tail(q) = 1..(Len(q) - 1)
  BY <1>2, LenProperties
<1>4. Head(q) = q[1] /\ 1 \in DOMAIN q
  BY <1>1
<1>5. IsInjective(Tail(q))
  <2> SUFFICES ASSUME NEW i \in 1..(Len(q) - 1), NEW k \in 1..(Len(q) - 1),
                      Tail(q)[i] = Tail(q)[k]
               PROVE  i = k
    BY <1>3 DEF IsInjective
  <2>1. /\ i + 1 \in DOMAIN q /\ k + 1 \in DOMAIN q
        /\ q[i + 1] = q[k + 1]
    BY <1>1, <1>2
  <2> QED
    BY <2>1, <1>1 DEF IsInjective
<1>6. ASSUME NEW v \in ToSet(q), v # Head(q) PROVE v \in ToSet(Tail(q))
  <2>1. PICK i \in 1..Len(q) : v = q[i]
    BY <1>1 DEF ToSet
  <2>2. i # 1
    BY <2>1, <1>4, <1>6
  <2>3. i - 1 \in 1..(Len(q) - 1) /\ (i - 1) + 1 = i
    BY <2>2, <1>1
  <2>4. v = Tail(q)[i - 1] /\ i - 1 \in DOMAIN Tail(q)
    BY <2>1, <2>3, <1>2, <1>3
  <2> QED
    BY <2>4 DEF ToSet
<1>7. ASSUME NEW v \in ToSet(Tail(q)) PROVE v \in ToSet(q) \ {Head(q)}
  <2>1. PICK i \in 1..(Len(q) - 1) : v = Tail(q)[i]
    BY <1>3 DEF ToSet
  <2>2. v = q[i + 1] /\ i + 1 \in DOMAIN q /\ i + 1 # 1
    BY <2>1, <1>1, <1>2
  <2>3. v # q[1]
    BY <2>2, <1>4 DEF IsInjective
  <2> QED
    BY <2>2, <2>3, <1>4 DEF ToSet
<1> QED
  BY <1>2, <1>4, <1>5, <1>6, <1>7 DEF ToSet

\* The queue of a lock that w gives back or asks for.
Moved(q, w, l, freed, wanted) ==
  LET rest == IF l \in freed THEN Tail(q) ELSE q
  IN  IF l \in wanted THEN Append(rest, w) ELSE rest

LEMMA QueueMoves ==
  ASSUME NEW l, NEW w \in Workers, NEW q, NEW freed, NEW wanted,
         NEW jobs, NEW next,
         QueueFits(q, l, jobs),
         \A v \in Workers \ {w} : next[v] = jobs[v],
         l \in freed => q # << >> /\ Head(q) = w,
         l \in wanted => l \in freed \/ l \notin Asked(jobs[w]),
         l \in Asked(next[w]) <=> l \in wanted \/ (l \in Asked(jobs[w]) /\ l \notin freed),
         l \in Had(next[w]) => l \notin freed /\ l \notin wanted /\ q # << >> /\ Head(q) = w
  PROVE  QueueFits(Moved(q, w, l, freed, wanted), l, next)
<1> DEFINE rest == IF l \in freed THEN Tail(q) ELSE q
           now == Moved(q, w, l, freed, wanted)
<1>1. /\ q \in Seq(Workers) /\ IsInjective(q)
      /\ ToSet(q) = {v \in Workers : l \in Asked(jobs[v])}
      /\ \A v \in Workers : l \in Had(jobs[v]) => q # << >> /\ Head(q) = v
  BY DEF QueueFits
<1>2. /\ rest \in Seq(Workers) /\ IsInjective(rest)
      /\ ToSet(rest) = IF l \in freed THEN ToSet(q) \ {w} ELSE ToSet(q)
  <2>1. CASE l \in freed
    BY <2>1, <1>1, Left
  <2>2. CASE l \notin freed
    BY <2>2, <1>1
  <2> QED
    BY <2>1, <2>2
<1>3. l \in wanted => w \notin ToSet(rest)
  BY <1>1, <1>2
<1>4. /\ now \in Seq(Workers) /\ IsInjective(now)
      /\ ToSet(now) = IF l \in wanted THEN ToSet(rest) \cup {w} ELSE ToSet(rest)
      /\ rest # << >> => now # << >> /\ Head(now) = Head(rest)
  <2> HIDE DEF rest
  <2>1. now = IF l \in wanted THEN Append(rest, w) ELSE rest
    BY DEF Moved, rest
  <2> HIDE DEF now
  <2>2. CASE l \in wanted
    BY <2>1, <2>2, <1>2, <1>3, Joined
  <2>3. CASE l \notin wanted
    BY <2>1, <2>3, <1>2
  <2> QED
    BY <2>2, <2>3
<1>5. ToSet(now) = {v \in Workers : l \in Asked(next[v])}
  <2> HIDE DEF now, rest
  <2> QED
    BY <1>1, <1>2, <1>4
<1>6. ASSUME NEW v \in Workers, l \in Had(next[v]) PROVE now # << >> /\ Head(now) = v
  <2>1. CASE v = w
    <3>1. now = q
      BY <2>1, <1>6 DEF Moved
    <3> QED
      BY <3>1, <2>1, <1>6
  <2>2. CASE v # w
    <3>1. l \in Had(jobs[v])
      BY <2>2, <1>6
    <3>2. q # << >> /\ Head(q) = v
      BY <3>1, <1>1
    <3>3. l \notin freed
      BY <3>2, <2>2
    <3>4. rest = q
      BY <3>3
    <3> HIDE DEF rest, now
    <3> QED
      BY <3>2, <3>4, <1>4
  <2> QED
    BY <2>1, <2>2
<1> HIDE DEF now, rest
<1>7. QueueFits(now, l, next)
  BY <1>4, <1>5, <1>6 DEF QueueFits
<1> QED
  BY <1>7 DEF now

-----------------------------------------------------------------------------
(* Jobs                                                                    *)

LEMMA TheLocks ==
  /\ Locks = {"users", "tables", "apply"} \cup Partitions
  /\ {"users", "tables", "apply"} \cap Partitions = {}
  /\ \A a \in Actors : ApplyLock(a) = "apply"
BY FileAssumption DEF Locks, ApplyLock, Actors, Partitions

\* The kind and the step of a job tell what it is made of.
LEMMA KindsOfJobs ==
  ASSUME NEW j \in JobStates
  PROVE  /\ j.kind = "apply" => j \in ApplyJobs
         /\ j.kind = "prune" => j \in PruneJobs
         /\ j.kind = "diff" => j \in DiffJobs
         /\ j.kind = "account" => j \in AccountJobs \cup RmdirJobs
         /\ j.kind = "tombs" => j \in TombJobs
         /\ j.kind = "drop" => j \in DropJobs
         /\ j.kind \in {"none", "apply", "prune", "diff", "account", "tombs", "drop"}
         /\ j.pc = "idle" => j = Idle
         /\ j.kind = "none" => j = Idle
BY DEF JobStates, Idle, ApplyJobs, PruneJobs, DiffJobs, AccountJobs, TombJobs, RmdirJobs, DropJobs

LEMMA StepsOfJobs ==
  ASSUME NEW j \in JobStates
  PROVE  /\ j.pc \in {"group", "stage", "append", "records", "leave", "meta"} => j \in ApplyJobs
         /\ j.pc \in {"cut", "cutMeta", "return"} => j \in ApplyJobs \cup PruneJobs
         /\ j.pc \in {"read", "answer"} => j \in DiffJobs
         /\ j.pc \in {"account", "tombs"} => j \in AccountJobs
         /\ j.pc = "rmdir" => j \in AccountJobs \cup RmdirJobs
         /\ j.pc \in {"tombRecords", "tombLog", "tombMeta"} => j \in TombJobs
         /\ j.pc \in {"drop", "rm", "purge"} => j \in DropJobs
BY DEF JobStates, Idle, ApplyJobs, PruneJobs, DiffJobs, AccountJobs, TombJobs, RmdirJobs, DropJobs

\* Where a job goes over partitions.
LEMMA TodosOfJobs ==
  ASSUME NEW j \in JobStates, j.pc \in Inside
  PROVE  j.todo \in Seq(Partitions)
<1>1. <<Shared>> \in Seq(Partitions)
  BY DEF Partitions
<1>2. j \in ApplyJobs \cup PruneJobs \cup DiffJobs \cup AccountJobs \cup TombJobs \cup DropJobs
  BY DEF JobStates, Idle, RmdirJobs, Inside
<1>3. CASE j \in ApplyJobs \cup PruneJobs \cup DiffJobs
  BY <1>3 DEF ApplyJobs, PruneJobs, DiffJobs
<1>4. CASE j \in AccountJobs \cup TombJobs
  <2>1. j.todo = <<Shared>>
    BY <1>4 DEF AccountJobs, TombJobs
  <2> QED
    BY <2>1, <1>1
<1>5. CASE j \in DropJobs
  BY <1>5 DEF DropJobs
<1> QED
  BY <1>2, <1>3, <1>4, <1>5

LEMMA AskedAreLocks ==
  ASSUME NEW j \in JobStates, JobFits(j)
  PROVE  Asked(j) \subseteq Locks /\ Had(j) \subseteq Asked(j) /\ PartitionLock(j) \subseteq Partitions
<1>1. PartitionLock(j) \subseteq Partitions
  <2> SUFFICES ASSUME j.pc \in Inside PROVE Head(j.todo) \in Partitions
    BY DEF PartitionLock
  <2>1. j.todo \in Seq(Partitions) /\ j.todo # << >>
    BY TodosOfJobs DEF JobFits
  <2> QED
    BY <2>1, HeadTailProperties
<1> QED
  BY <1>1, TheLocks DEF Asked, Had, OwnLock

\* What a job must have got it has.
LEMMA HadIsHeld ==
  ASSUME Types, NEW w \in Workers
  PROVE  /\ job[w] \in JobStates /\ JobFits(job[w])
         /\ Asked(job[w]) \subseteq Locks
         /\ \A l \in Had(job[w]) : Holds(w, l)
         /\ \A l \in Locks : Holds(w, l) => l \in Asked(job[w])
<1>1. job[w] \in JobStates /\ JobFits(job[w])
  BY DEF Types, JobsFit
<1>2. Asked(job[w]) \subseteq Locks /\ Had(job[w]) \subseteq Asked(job[w])
  BY <1>1, AskedAreLocks
<1>3. \A l \in Locks : QueueFits(queue[l], l, job)
  BY DEF Types, QueuesFit
<1>4. \A l \in Had(job[w]) : Holds(w, l)
  BY <1>2, <1>3 DEF QueueFits, Holds
<1>5. ASSUME NEW l \in Locks, Holds(w, l) PROVE l \in Asked(job[w])
  <2>1. Head(queue[l]) \in ToSet(queue[l])
    BY <1>3, <1>5, Left DEF QueueFits, Holds
  <2> QED
    BY <2>1, <1>3, <1>5 DEF QueueFits, Holds
<1> QED
  BY <1>1, <1>2, <1>4, <1>5

\* A job goes on, gives back locks it has, and asks for others.
LEMMA JobMoves ==
  ASSUME Types, NEW w \in Workers, NEW n \in JobStates, JobFits(n),
         job' = [job EXCEPT ![w] = n], NEW freed, NEW wanted, Switch(w, freed, wanted),
         freed \subseteq Asked(job[w]), \A l \in freed : Holds(w, l),
         \A l \in wanted : l \in Asked(job[w]) => l \in freed,
         Asked(n) = (Asked(job[w]) \ freed) \cup wanted,
         \A l \in Had(n) : l \notin freed /\ l \notin wanted /\ Holds(w, l)
  PROVE  JobsFit' /\ QueuesFit'
<1>1. job \in [Workers -> JobStates]
  BY DEF Types, JobsFit
<1>2. JobsFit'
  <2>1. job' \in [Workers -> JobStates] /\ job'[w] = n
    BY <1>1
  <2>2. ASSUME NEW v \in Workers PROVE JobFits(job'[v])
    <3>1. CASE v = w
      BY <3>1, <2>1
    <3>2. CASE v # w
      <4>1. job'[v] = job[v]
        BY <3>2, <1>1
      <4> QED
        BY <4>1 DEF Types, JobsFit
    <3> QED
      BY <3>1, <3>2
  <2> QED
    BY <2>1, <2>2 DEF JobsFit
<1>3. ASSUME NEW l \in Locks PROVE QueueFits(queue'[l], l, job')
  <2>1. queue'[l] = Moved(queue[l], w, l, freed, wanted)
    BY DEF Switch, Moved
  <2>2. /\ QueueFits(queue[l], l, job)
        /\ l \in freed => queue[l] # << >> /\ Head(queue[l]) = w
    BY DEF Types, QueuesFit, Holds
  <2>3. job'[w] = n /\ \A v \in Workers \ {w} : job'[v] = job[v]
    BY <1>1
  <2>4. l \in Had(job'[w]) => l \notin freed /\ l \notin wanted /\ queue[l] # << >> /\ Head(queue[l]) = w
    BY <2>3 DEF Holds
  <2>5. /\ l \in wanted => l \in freed \/ l \notin Asked(job[w])
        /\ l \in Asked(job'[w]) <=> l \in wanted \/ (l \in Asked(job[w]) /\ l \notin freed)
    BY <2>3
  <2>6. QueueFits(Moved(queue[l], w, l, freed, wanted), l, job')
    BY <2>2, <2>3, <2>4, <2>5, QueueMoves
  <2> QED
    BY <2>1, <2>6
<1>4. queue' = [l \in Locks |-> queue'[l]]
  BY DEF Switch
<1> QED
  BY <1>2, <1>3, <1>4 DEF QueuesFit

\* A job goes on with the locks it has.
LEMMA JobStays ==
  ASSUME Types, NEW w \in Workers, NEW n \in JobStates, JobFits(n),
         job' = [job EXCEPT ![w] = n], queue' = queue,
         Asked(n) = Asked(job[w]), \A l \in Had(n) : Holds(w, l)
  PROVE  JobsFit' /\ QueuesFit'
<1>1. Switch(w, {}, {})
  <2> DEFINE same == [l \in Locks |-> queue[l]]
  <2>1. queue' = same
    BY DEF Types, QueuesFit
  <2>2. same = [l \in Locks |-> LET rest == IF l \in {} THEN Tail(queue[l]) ELSE queue[l]
                               IN  IF l \in {} THEN Append(rest, w) ELSE rest]
    OBVIOUS
  <2> QED
    BY <2>1, <2>2, Zenon DEF Switch
<1> DEFINE none == {}
<1>2. /\ Switch(w, none, none) /\ none \subseteq Asked(job[w])
      /\ Asked(n) = (Asked(job[w]) \ none) \cup none
      /\ \A l \in none : Holds(w, l)
      /\ \A l \in none : l \in Asked(job[w]) => l \in none
      /\ \A l \in Had(n) : l \notin none /\ l \notin none /\ Holds(w, l)
  BY <1>1
<1> HIDE DEF none
<1> QED
  BY <1>2, JobMoves

\* A job ends.
LEMMA JobEnds ==
  ASSUME Types, NEW w \in Workers, Finish(w, Asked(job[w])),
         \A l \in Asked(job[w]) : Holds(w, l)
  PROVE  JobsFit' /\ QueuesFit'
<1>1. Idle \in JobStates /\ JobFits(Idle) /\ Asked(Idle) = {} /\ Had(Idle) = {}
  BY DEF JobStates, Idle, JobFits, Inside, Asked, OwnLock, PartitionLock, Had, Writing
<1> QED
  BY <1>1, JobMoves DEF Finish

\* A job comes to the next of its partitions, or has none left.
LEMMA JobVisits ==
  ASSUME Types, NEW w \in Workers, NEW n \in JobStates, NEW todo \in Seq(Partitions),
         NEW step \in Inside \ Writing, NEW last, last \notin Inside, last \notin {"group", "account", "drop"},
         job' = [job EXCEPT ![w] = n],
         n.todo = todo, n.pc = IF todo = << >> THEN last ELSE step,
         OwnLock(n) = OwnLock(job[w]), \A l \in OwnLock(job[w]) : Holds(w, l),
         \A l \in PartitionLock(job[w]) : Holds(w, l),
         Switch(w, PartitionLock(job[w]), IF todo = << >> THEN {} ELSE {Head(todo)})
  PROVE  JobsFit' /\ QueuesFit'
<1>1. step \in {"stage", "cut", "read", "tombs", "purge"}
  BY DEF Inside, Writing
<1>2. JobFits(n)
  BY <1>1 DEF JobFits, Inside
<1>3. PartitionLock(n) = IF todo = << >> THEN {} ELSE {Head(todo)}
  BY DEF PartitionLock
<1>4. PartitionLock(n) \subseteq Partitions /\ PartitionLock(job[w]) \subseteq Partitions
  BY <1>2, AskedAreLocks DEF Types, JobsFit
<1>5. OwnLock(n) \subseteq {"users", "tables", "apply"}
  BY DEF OwnLock
<1>6. Had(n) = OwnLock(n)
  <2>1. n.pc \notin {"group", "account", "drop"} /\ n.pc \notin Writing
    BY <1>1 DEF Inside, Writing
  <2> QED
    BY <2>1 DEF Had
<1>7. /\ Asked(n) = OwnLock(job[w]) \cup PartitionLock(n)
      /\ Asked(job[w]) = OwnLock(job[w]) \cup PartitionLock(job[w])
  BY DEF Asked
<1>8. \A l \in OwnLock(job[w]) : l \notin Partitions
  BY <1>5, TheLocks
<1>9. /\ PartitionLock(job[w]) \subseteq Asked(job[w])
      /\ \A l \in PartitionLock(n) : l \in Asked(job[w]) => l \in PartitionLock(job[w])
      /\ Asked(n) = (Asked(job[w]) \ PartitionLock(job[w])) \cup PartitionLock(n)
  BY <1>4, <1>7, <1>8
<1>10. \A l \in Had(n) : l \notin PartitionLock(job[w]) /\ l \notin PartitionLock(n) /\ Holds(w, l)
  BY <1>4, <1>6, <1>8
<1> QED
  BY <1>2, <1>3, <1>9, <1>10, JobMoves


-----------------------------------------------------------------------------
(* The loop over a batch                                                   *)

StageStates ==
  [ok : BOOLEAN, left : SUBSET Tables, meta : Nums, lines : Seq(Line), maps : Maps]
Stored0(p) == [t \in Tables |-> [i \in Ids |-> records[<<p, t, i>>]]]
StageStart(p, numbers) ==
  [ok |-> TRUE, left |-> {}, meta |-> numbers, lines |-> << >>, maps |-> Stored0(p)]

\* What an accepted change that wins adds.
NowOf(a, c, x) ==
  [op |-> c.op, ts |-> c.ts, cid |-> c.cid, owner |-> OwnerAfter(a, c, x)]
LineOf(a, c, x, n) ==
  [table |-> c.table, id |-> c.id, op |-> c.op, ts |-> c.ts, cid |-> c.cid,
   owner |-> OwnerAfter(a, c, x), seq |-> n]
NextNums(m) == [seq |-> m.seq + 1, min |-> IF m.min = 0 THEN 1 ELSE m.min]
Put(maps, t, i, r) == [maps EXCEPT ![t] = [maps[t] EXCEPT ![i] = r]]

LEMMA Typed ==
  /\ Absent \in Stored /\ [seq |-> 0, min |-> 0] \in Nums
  /\ \A a \in Actors, t \in Tables : PartitionOf(a, t) \in Partitions
  /\ \A a \in Actors, batch \in Batches : batch \in Seq(Change)
  /\ \A m \in Nums : m.seq \in Nat /\ m.min \in Nat /\ NextNums(m) \in Nums
                     /\ NextNums(m).seq = m.seq + 1
BY BatchesAssumption DEF Absent, Stored, Owners, Nums, PartitionOf, Partitions, NextNums

LEMMA EntryTyped ==
  ASSUME NEW a \in Actors, NEW c \in Change, NEW x \in Stored, NEW n \in Nat
  PROVE  /\ OwnerAfter(a, c, x) \in Owners /\ NowOf(a, c, x) \in Stored
         /\ LineOf(a, c, x, n) \in Line
<1>1. OwnerAfter(a, c, x) \in Owners
  BY DEF OwnerAfter, Owners, Stored
<1>2. c.table \in Tables /\ c.id \in Ids /\ c.op \in {"put", "delete"} /\ c.ts \in Nat /\ c.cid \in Nat
  BY DEF Change
<1> QED
  BY <1>1, <1>2 DEF NowOf, LineOf, Stored, Line

\* One turn: nothing, an exception, a change that lost, or one that is applied.
Skips(a, p, st, c) == ~st.ok \/ PartitionOf(a, c.table) # p \/ c.table \notin tables
Applies(a, p, st, c) ==
  /\ ~Skips(a, p, st, c) /\ ~Refused(a, c, st.maps[c.table])
  /\ Wins(c, st.maps[c.table][c.id])

\* The four ways in which a change goes.
StagesTo(a, p, st, c, x, next) ==
  \/ next = st
  \/ next.ok = FALSE
  \/ /\ ~Skips(a, p, st, c) /\ ~Refused(a, c, st.maps[c.table])
     /\ ~Wins(c, x) /\ next.ok = st.ok
     /\ next.left = st.left \cup {c.table}
     /\ next.meta = st.meta /\ next.lines = st.lines /\ next.maps = st.maps
  \/ /\ Applies(a, p, st, c) /\ next.ok = st.ok
     /\ next.left = st.left \cup {c.table}
     /\ next.meta = NextNums(st.meta)
     /\ next.lines = Append(st.lines, LineOf(a, c, x, st.meta.seq + 1))
     /\ next.maps = Put(st.maps, c.table, c.id, NowOf(a, c, x))

LEMMA StagesIs ==
  ASSUME NEW a \in Actors, NEW p, NEW st \in StageStates, NEW c \in Change
  PROVE  /\ Stages(a, p, st, c) \in StageStates
         /\ st.maps[c.table][c.id] \in Stored /\ c.table \in Tables /\ c.id \in Ids
         /\ StagesTo(a, p, st, c, st.maps[c.table][c.id], Stages(a, p, st, c))
<1> DEFINE next == Stages(a, p, st, c)
           x == st.maps[c.table][c.id]
           line == LineOf(a, c, x, st.meta.seq + 1)
           now == NowOf(a, c, x)
<1>1. /\ c.table \in Tables /\ c.id \in Ids
      /\ st.ok \in BOOLEAN /\ st.left \subseteq Tables /\ st.meta \in Nums
      /\ st.lines \in Seq(Line) /\ st.maps \in Maps
  BY DEF StageStates, Change
<1>2. x \in Stored /\ st.maps[c.table] \in [Ids -> Stored]
  BY <1>1 DEF Maps
<1> DEFINE Done == next \in StageStates /\ StagesTo(a, p, st, c, x, next)
<1>3. ASSUME Skips(a, p, st, c) PROVE Done
  <2>1. next = st
    BY <1>3 DEF Stages, Skips
  <2> QED
    BY <2>1 DEF StagesTo
<1>4. ASSUME ~Skips(a, p, st, c) /\ Refused(a, c, st.maps[c.table]) PROVE Done
  <2>1. next = [st EXCEPT !.ok = FALSE]
    BY <1>4 DEF Stages, Skips
  <2>2. next \in StageStates /\ next.ok = FALSE
    BY <2>1 DEF StageStates
  <2> HIDE DEF next
  <2> QED
    BY <2>2 DEF StagesTo
<1>5. ASSUME ~Skips(a, p, st, c) /\ ~Refused(a, c, st.maps[c.table]) /\ ~Wins(c, x) PROVE Done
  <2>1. next = [st EXCEPT !.left = @ \cup {c.table}]
    BY <1>5 DEF Stages, Skips
  <2>2. /\ next \in StageStates /\ next.ok = st.ok /\ next.left = st.left \cup {c.table}
        /\ next.meta = st.meta /\ next.lines = st.lines /\ next.maps = st.maps
    BY <2>1, <1>1 DEF StageStates
  <2> HIDE DEF next
  <2> QED
    BY <2>2, <1>5 DEF StagesTo
<1>6. ASSUME Applies(a, p, st, c) PROVE Done
  <2>1. next = [st EXCEPT !.left = @ \cup {c.table},
                          !.maps[c.table][c.id] = now,
                          !.meta = [seq |-> @.seq + 1, min |-> IF @.min = 0 THEN 1 ELSE @.min],
                          !.lines = Append(@, line)]
    BY <1>6 DEF Stages, Skips, Applies, NowOf, LineOf
  <2>2. /\ next.ok = st.ok /\ next.left = st.left \cup {c.table}
        /\ next.meta = NextNums(st.meta) /\ next.lines = Append(st.lines, line)
        /\ next.maps = Put(st.maps, c.table, c.id, now)
    <3> HIDE DEF now, line
    <3> QED
      BY <2>1, <1>1 DEF StageStates, NextNums, Put
  <2>3. now \in Stored /\ line \in Line
    <3>1. st.meta.seq + 1 \in Nat
      BY <1>1 DEF Nums
    <3> HIDE DEF x
    <3> QED
      BY <3>1, <1>2, EntryTyped
  <2>4. Append(st.lines, line) \in Seq(Line) /\ NextNums(st.meta) \in Nums
    BY <1>1, <2>3, Typed, AppendProperties
  <2>5. Put(st.maps, c.table, c.id, now) \in Maps
    <3> HIDE DEF now
    <3> QED
      BY <1>1, <2>3 DEF Put, Maps
  <2>6. next \in StageStates
    <3>1. next = [ok |-> next.ok, left |-> next.left, meta |-> next.meta, lines |-> next.lines,
                  maps |-> next.maps]
      <4> HIDE DEF now, line
      <4> QED
        BY <2>1 DEF StageStates
    <3> HIDE DEF next
    <3> QED
      BY <3>1, <2>2, <2>4, <2>5, <1>1 DEF StageStates
  <2> HIDE DEF next, x
  <2> QED
    BY <2>2, <2>6, <1>6 DEF StagesTo, now, line
<1>7. Done
  <2> HIDE DEF Done
  <2> QED
    BY <1>3, <1>4, <1>5, <1>6 DEF Applies
<1> QED
  BY <1>1, <1>2, <1>7


\* What holds at first and after each turn holds after the loop.
LEMMA StagedRule ==
  ASSUME NEW a \in Actors, NEW p \in Partitions, NEW batch \in Seq(Change), NEW numbers \in Nums,
         records \in [Keys -> Stored], NEW S \in SUBSET StageStates,
         StageStart(p, numbers) \in S,
         \A st \in S : \A n \in 1..Len(batch) : Stages(a, p, st, batch[n]) \in S
  PROVE  Staged(a, p, batch, numbers) \in S
<1> DEFINE N == Len(batch)
           run[n \in 0..N] ==
             IF n = 0 THEN StageStart(p, numbers) ELSE Stages(a, p, run[n - 1], batch[n])
           step == [ns \in (1..N) \X S |-> Stages(a, p, ns[2], batch[ns[1]])]
<1>1. N \in Nat
  BY LenProperties
<1>2. step \in [(1..N) \X S -> S]
  OBVIOUS
<1>3. PICK g : /\ g = [n \in 0..N |-> g[n]] /\ g[0] = StageStart(p, numbers)
               /\ \A n \in 1..N : g[n] = step[<<n, g[n - 1]>>]
  <2> DEFINE start == StageStart(p, numbers)
  <2>1. start \in S
    OBVIOUS
  <2> HIDE DEF step, N, start
  <2>2. \E g : GoneThrough(N, start, step, g)
    BY <1>1, <1>2, <2>1, LoopGoes
  <2> QED
    BY <2>2 DEF start, GoneThrough
<1>4. g[N] \in S /\ \A n \in 0..N : g[n] \in S
  <2>1. \A m \in 0..N : \A n \in 1..m : g[n - 1] \in S => g[n] \in S
    <3> SUFFICES ASSUME NEW n \in 1..N, g[n - 1] \in S PROVE g[n] \in S
      BY <1>1
    <3>1. <<n, g[n - 1]>> \in (1..N) \X S
      OBVIOUS
    <3> HIDE DEF step, N
    <3> QED
      BY <3>1, <1>2, <1>3
  <2>2. ASSUME NEW m \in 0..N PROVE g[m] \in S
    <3>1. m \in Nat /\ g[0] \in S
      BY <1>1, <1>3
    <3>2. \A n \in 1..m : g[n - 1] \in S => g[n] \in S
      BY <2>1
    <3> HIDE DEF N
    <3> QED
      BY <3>1, <3>2, LoopStays
  <2> QED
    BY <2>2, <1>1
<1>5. g = [n \in 0..N |-> IF n = 0 THEN StageStart(p, numbers) ELSE Stages(a, p, g[n - 1], batch[n])]
  <2>1. ASSUME NEW n \in 0..N
        PROVE  g[n] = IF n = 0 THEN StageStart(p, numbers) ELSE Stages(a, p, g[n - 1], batch[n])
    <3>1. CASE n = 0
      BY <3>1, <1>3
    <3>2. CASE n # 0
      <4>1. n \in 1..N /\ n - 1 \in 0..N
        BY <3>2, <1>1
      <4>2. <<n, g[n - 1]>> \in (1..N) \X S
        BY <4>1, <1>4
      <4>3. step[<<n, g[n - 1]>>] = Stages(a, p, g[n - 1], batch[n])
        BY <4>2
      <4> QED
        BY <3>2, <4>1, <4>3, <1>3
    <3> QED
      BY <3>1, <3>2
  <2> QED
    BY <2>1, <1>3
<1>6. run = [n \in 0..N |->
               IF n = 0 THEN StageStart(p, numbers) ELSE Stages(a, p, run[n - 1], batch[n])]
  BY <1>5
<1> HIDE DEF run
<1>7. run[N] \in S
  <2>1. run[0] \in S
    BY <1>1, <1>6
  <2>2. ASSUME NEW n \in 1..N, run[n - 1] \in S PROVE run[n] \in S
    <3>1. n \in 0..N /\ n # 0
      BY <1>1
    <3>2. run[n] = Stages(a, p, run[n - 1], batch[n])
      BY <1>6, <3>1
    <3> QED
      BY <3>2, <2>2
  <2> HIDE DEF N
  <2> QED
    BY <1>1, <2>1, <2>2, LoopStays
<1>8. Staged(a, p, batch, numbers) = run[N]
  BY DEF Staged, StageStart, Stored0, run
<1> QED
  BY <1>7, <1>8


LEMMA StartTyped ==
  ASSUME records \in [Keys -> Stored], NEW p \in Partitions, NEW numbers \in Nums
  PROVE  StageStart(p, numbers) \in StageStates
<1>1. \A t \in Tables, i \in Ids : records[<<p, t, i>>] \in Stored
  BY DEF Keys
<1>2. Stored0(p) \in Maps
  BY <1>1 DEF Stored0, Maps
<1>3. << >> \in Seq(Line)
  OBVIOUS
<1> QED
  BY <1>2, <1>3 DEF StageStart, StageStates

LEMMA StagedTyped ==
  ASSUME NEW a \in Actors, NEW p \in Partitions, NEW batch \in Seq(Change), NEW numbers \in Nums,
         records \in [Keys -> Stored]
  PROVE  Staged(a, p, batch, numbers) \in StageStates
<1>1. StageStart(p, numbers) \in StageStates
  BY StartTyped
<1>2. \A st \in StageStates : \A n \in 1..Len(batch) : Stages(a, p, st, batch[n]) \in StageStates
  BY StagesIs, ElementOfSeq
<1> QED
  BY <1>1, <1>2, StagedRule

\* The partitions of a batch.
LEMMA GroupedTyped ==
  ASSUME NEW a \in Actors, NEW batch \in Seq(Change), tables \subseteq Tables
  PROVE  Grouped(a, batch) \in Seq(Partitions)
<1> DEFINE N == Len(batch)
           S == Seq(Partitions)
           run[n \in 0..N] == IF n = 0 THEN << >> ELSE Listed(a, run[n - 1], batch[n])
           step == [ns \in (1..N) \X S |-> Listed(a, ns[2], batch[ns[1]])]
<1>1. N \in Nat
  BY LenProperties
<1>2. step \in [(1..N) \X S -> S]
  <2> SUFFICES ASSUME NEW n \in 1..N, NEW ps \in S PROVE Listed(a, ps, batch[n]) \in S
    OBVIOUS
  <2>1. CASE batch[n].table \notin tables \/ PartitionOf(a, batch[n].table) \in ToSet(ps)
    BY <2>1 DEF Listed
  <2>2. CASE ~(batch[n].table \notin tables \/ PartitionOf(a, batch[n].table) \in ToSet(ps))
    <3>1. PartitionOf(a, batch[n].table) \in Partitions
      BY <2>2, Typed
    <3>2. Append(ps, PartitionOf(a, batch[n].table)) \in S
      BY <3>1, AppendProperties
    <3> QED
      BY <2>2, <3>2 DEF Listed
  <2> QED
    BY <2>1, <2>2
<1>3. PICK g : GoneThrough(N, << >>, step, g)
  <2> DEFINE start == << >>
  <2>1. start \in S
    OBVIOUS
  <2> HIDE DEF step, N, start, S
  <2>2. \E g : GoneThrough(N, start, step, g)
    BY <1>1, <1>2, <2>1, LoopGoes
  <2> QED
    BY <2>2 DEF start
<1>4. \A n \in 0..N : g[n] \in S
  <2>1. \A n \in 1..N : g[n - 1] \in S => g[n] \in S
    <3> SUFFICES ASSUME NEW n \in 1..N, g[n - 1] \in S PROVE g[n] \in S
      BY <1>1
    <3>1. <<n, g[n - 1]>> \in (1..N) \X S
      OBVIOUS
    <3>2. g[n] = step[<<n, g[n - 1]>>]
      BY <1>3 DEF GoneThrough
    <3> HIDE DEF step, N, S
    <3> QED
      BY <3>1, <3>2, <1>2
  <2>2. ASSUME NEW m \in 0..N PROVE g[m] \in S
    <3>1. m \in Nat /\ g[0] \in S
      <4>1. << >> \in S
        OBVIOUS
      <4> HIDE DEF S
      <4> QED
        BY <4>1, <1>1, <1>3 DEF GoneThrough
    <3>2. \A n \in 1..m : g[n - 1] \in S => g[n] \in S
      BY <1>1, <2>1
    <3> HIDE DEF N, S
    <3> QED
      BY <3>1, <3>2, LoopStays
  <2> QED
    BY <2>2
<1>5. g = [n \in 0..N |-> IF n = 0 THEN << >> ELSE Listed(a, g[n - 1], batch[n])]
  <2>1. ASSUME NEW n \in 0..N
        PROVE  g[n] = IF n = 0 THEN << >> ELSE Listed(a, g[n - 1], batch[n])
    <3>1. CASE n = 0
      BY <3>1, <1>3 DEF GoneThrough
    <3>2. CASE n # 0
      <4>1. n \in 1..N /\ n - 1 \in 0..N
        BY <3>2, <1>1
      <4>2. <<n, g[n - 1]>> \in (1..N) \X S
        BY <4>1, <1>4
      <4>3. step[<<n, g[n - 1]>>] = Listed(a, g[n - 1], batch[n])
        BY <4>2
      <4>4. g[n] = step[<<n, g[n - 1]>>]
        BY <4>1, <1>3 DEF GoneThrough
      <4> QED
        BY <3>2, <4>3, <4>4
    <3> QED
      BY <3>1, <3>2
  <2> QED
    BY <2>1, <1>3 DEF GoneThrough
<1>6. run = [n \in 0..N |-> IF n = 0 THEN << >> ELSE Listed(a, run[n - 1], batch[n])]
  BY <1>5
<1> HIDE DEF run
<1>7. run[N] \in S
  <2>1. run[0] \in S
    BY <1>1, <1>6
  <2>2. ASSUME NEW n \in 1..N, run[n - 1] \in S PROVE run[n] \in S
    <3>1. n \in 0..N /\ n # 0
      BY <1>1
    <3>2. run[n] = Listed(a, run[n - 1], batch[n])
      BY <1>6, <3>1
    <3>3. <<n, run[n - 1]>> \in (1..N) \X S
      BY <2>2
    <3>4. step[<<n, run[n - 1]>>] = Listed(a, run[n - 1], batch[n])
      BY <3>3
    <3> HIDE DEF step, N, S
    <3> QED
      BY <3>2, <3>3, <3>4, <1>2
  <2> HIDE DEF N, S
  <2> QED
    BY <1>1, <2>1, <2>2, LoopStays
<1>8. Grouped(a, batch) = run[N]
  BY DEF Grouped, run
<1> QED
  BY <1>7, <1>8

\* The partitions there are.
LEMMA PartitionsListed ==
  ASSUME NEW S \in SUBSET Users
  PROVE  /\ <<Shared>> \o SetToSeq(S) \in Seq(Partitions)
         /\ <<Shared>> \o SetToSeq(S) # << >>
<1>1. IsFiniteSet(S)
  BY FileAssumption, FS_Subset
<1>2. SetToSeq(S) \in Seq(S)
  BY <1>1, Enumerated
<1>3. SetToSeq(S) \in Seq(Partitions) /\ <<Shared>> \in Seq(Partitions)
  <2>1. S \subseteq Partitions
    BY DEF Partitions
  <2>2. Seq(S) \subseteq Seq(Partitions)
    BY <2>1, SeqMonotonic
  <2> QED
    BY <1>2, <2>2 DEF Partitions
<1> DEFINE all == <<Shared>> \o SetToSeq(S)
<1>4. all \in Seq(Partitions) /\ Len(all) = Len(<<Shared>>) + Len(SetToSeq(S))
  BY <1>3, ConcatProperties
<1>5. Len(<<Shared>>) = 1 /\ Len(SetToSeq(S)) \in Nat
  BY <1>3, LenProperties
<1>6. all # << >>
  BY <1>4, <1>5
<1> QED
  BY <1>4, <1>6


-----------------------------------------------------------------------------
(* What becomes of a job                                                   *)

\* A job after the steps that change it.
GoneJob(j, pc) == [j EXCEPT !.pc = pc]
VisitedJob(j, todo, pc) == [[j EXCEPT !.todo = todo] EXCEPT !.pc = pc]
GroupedJob(j, m, todo, pc) == [[[j EXCEPT !.meta = m] EXCEPT !.todo = todo] EXCEPT !.pc = pc]
StagedJob(j, maps, left, m, lines, pc) ==
  [[j EXCEPT !.maps = maps, !.left = left, !.meta = m, !.lines = lines] EXCEPT !.pc = pc]
WrittenJob(j, t, pc) == [[j EXCEPT !.left = @ \ {t}] EXCEPT !.pc = pc]
LeftJob(j, more, todo, pc) ==
  [[[j EXCEPT !.applied = @ \cup more, !.maps = << >>, !.lines = << >>] EXCEPT !.todo = todo]
     EXCEPT !.pc = pc]
CompactedJob(j, min, todo, pc) ==
  [[[j EXCEPT !.meta.min = min] EXCEPT !.todo = todo] EXCEPT !.pc = pc]
ReadJob(j, more, todo, pc) ==
  [[[j EXCEPT !.got = @ \cup more] EXCEPT !.todo = todo] EXCEPT !.pc = pc]
EmptiedJob(j, pc) == [[j EXCEPT !.dirs = Tail(@)] EXCEPT !.pc = pc]

PruneSteps == {"cut", "cutMeta", "return"}
DiffSteps == {"read", "answer"}
AccountSteps == {"account", "tombs", "rmdir"}
TombSteps == {"tombRecords", "tombLog", "tombMeta"}
DropSteps == {"drop", "rm", "purge"}
ApplySteps == {"group", "stage", "append", "records", "leave", "meta", "cut", "cutMeta", "return"}
IsApply(n, pc, a, batch, m, todo, maps, left, lines, applied) ==
  /\ n.pc = pc /\ n.kind = "apply" /\ n.actor = a /\ n.batch = batch /\ n.meta = m
  /\ n.todo = todo /\ n.maps = maps /\ n.left = left /\ n.lines = lines /\ n.applied = applied

LEMMA ApplyGoes ==
  ASSUME NEW j \in ApplyJobs, NEW pc \in ApplySteps
  PROVE  LET n == GoneJob(j, pc)
         IN  n \in ApplyJobs /\ IsApply(n, pc, j.actor, j.batch, j.meta, j.todo, j.maps, j.left,
                                        j.lines, j.applied)
BY DEF ApplyJobs, IsApply, ApplySteps, GoneJob, VisitedJob, GroupedJob, StagedJob,
       WrittenJob, LeftJob, CompactedJob

LEMMA ApplyVisits ==
  ASSUME NEW j \in ApplyJobs, NEW pc \in ApplySteps, NEW todo \in Seq(Partitions)
  PROVE  LET n == VisitedJob(j, todo, pc)
         IN  n \in ApplyJobs /\ IsApply(n, pc, j.actor, j.batch, j.meta, todo, j.maps, j.left,
                                        j.lines, j.applied)
BY DEF ApplyJobs, IsApply, ApplySteps, GoneJob, VisitedJob, GroupedJob, StagedJob,
       WrittenJob, LeftJob, CompactedJob

LEMMA ApplyGroups ==
  ASSUME NEW j \in ApplyJobs, NEW pc \in ApplySteps, NEW todo \in Seq(Partitions),
         NEW m \in Nums
  PROVE  LET n == GroupedJob(j, m, todo, pc)
         IN  n \in ApplyJobs /\ IsApply(n, pc, j.actor, j.batch, m, todo, j.maps, j.left,
                                        j.lines, j.applied)
BY DEF ApplyJobs, IsApply, ApplySteps, GoneJob, VisitedJob, GroupedJob, StagedJob,
       WrittenJob, LeftJob, CompactedJob

LEMMA ApplyStages ==
  ASSUME NEW j \in ApplyJobs, NEW pc \in ApplySteps, NEW m \in Nums, NEW maps \in Maps,
         NEW left \in SUBSET Tables, NEW lines \in Seq(Line)
  PROVE  LET n == StagedJob(j, maps, left, m, lines, pc)
         IN  n \in ApplyJobs /\ IsApply(n, pc, j.actor, j.batch, m, j.todo, maps, left,
                                        lines, j.applied)
BY DEF ApplyJobs, IsApply, ApplySteps, GoneJob, VisitedJob, GroupedJob, StagedJob,
       WrittenJob, LeftJob, CompactedJob

LEMMA ApplyWrites ==
  ASSUME NEW j \in ApplyJobs, NEW pc \in ApplySteps, NEW t
  PROVE  LET n == WrittenJob(j, t, pc)
         IN  n \in ApplyJobs /\ IsApply(n, pc, j.actor, j.batch, j.meta, j.todo, j.maps,
                                        j.left \ {t}, j.lines, j.applied)
BY DEF ApplyJobs, IsApply, ApplySteps, GoneJob, VisitedJob, GroupedJob, StagedJob,
       WrittenJob, LeftJob, CompactedJob

LEMMA ApplyLeaves ==
  ASSUME NEW j \in ApplyJobs, NEW pc \in ApplySteps, NEW todo \in Seq(Partitions),
         NEW more \in SUBSET Line
  PROVE  LET n == LeftJob(j, more, todo, pc)
         IN  n \in ApplyJobs /\ IsApply(n, pc, j.actor, j.batch, j.meta, todo, << >>, j.left,
                                        << >>, j.applied \cup more)
<1>1. << >> \in Seq(Line)
  OBVIOUS
<1> QED
  BY <1>1 DEF ApplyJobs, IsApply, ApplySteps, GoneJob, VisitedJob, GroupedJob, StagedJob,
       WrittenJob, LeftJob, CompactedJob

LEMMA ApplyCompacts ==
  ASSUME NEW j \in ApplyJobs, NEW pc \in ApplySteps, NEW todo \in Seq(Partitions),
         NEW min \in Nat, min <= j.meta.seq + 1
  PROVE  LET n == CompactedJob(j, min, todo, pc)
         IN  n \in ApplyJobs /\ IsApply(n, pc, j.actor, j.batch, [j.meta EXCEPT !.min = min], todo,
                                        j.maps, j.left, j.lines, j.applied)
<1>1. [j.meta EXCEPT !.min = min] \in Nums
  BY DEF ApplyJobs, Nums
<1> QED
  BY <1>1 DEF ApplyJobs, IsApply, ApplySteps, GoneJob, VisitedJob, GroupedJob, StagedJob,
       WrittenJob, LeftJob, CompactedJob

LEMMA PruneVisits ==
  ASSUME NEW j \in PruneJobs, NEW pc \in PruneSteps, NEW todo \in Seq(Partitions)
  PROVE  /\ LET n == VisitedJob(j, todo, pc)
            IN  n \in PruneJobs /\ n.pc = pc /\ n.kind = "prune" /\ n.todo = todo /\ n.meta = j.meta
         /\ LET n == GoneJob(j, pc)
            IN  n \in PruneJobs /\ n.pc = pc /\ n.kind = "prune" /\ n.todo = j.todo /\ n.meta = j.meta
BY DEF PruneJobs, PruneSteps, GoneJob, VisitedJob

LEMMA DiffVisits ==
  ASSUME NEW j \in DiffJobs, NEW pc \in DiffSteps, NEW todo \in Seq(Partitions),
         NEW more \in SUBSET Line
  PROVE  LET n == ReadJob(j, more, todo, pc)
         IN  /\ n \in DiffJobs /\ n.pc = pc /\ n.kind = "diff" /\ n.actor = j.actor
             /\ n.from = j.from /\ n.meta = j.meta /\ n.todo = todo /\ n.got = j.got \cup more
BY DEF DiffJobs, DiffSteps, ReadJob

LEMMA AccountGoes ==
  ASSUME NEW j \in AccountJobs, NEW pc \in AccountSteps
  PROVE  /\ LET n == VisitedJob(j, j.todo, pc)
            IN  n \in AccountJobs /\ n.pc = pc /\ n.kind = "account" /\ n.user = j.user
                /\ n.todo = <<Shared>>
         /\ LET n == GoneJob(j, pc)
            IN  n \in AccountJobs /\ n.pc = pc /\ n.kind = "account" /\ n.user = j.user
                /\ n.todo = <<Shared>>
<1>1. j.todo = <<Shared>>
  BY DEF AccountJobs
<1> QED
  BY <1>1 DEF AccountJobs, AccountSteps, GoneJob, VisitedJob

LEMMA TombGoes ==
  ASSUME NEW j \in TombJobs, NEW pc \in TombSteps, NEW t
  PROVE  /\ LET n == GoneJob(j, pc)
            IN  /\ n \in TombJobs /\ n.pc = pc /\ n.kind = "tombs" /\ n.user = j.user
                /\ n.todo = <<Shared>> /\ n.left = j.left /\ n.maps = j.maps /\ n.lines = j.lines
                /\ n.meta = j.meta
         /\ LET n == WrittenJob(j, t, pc)
            IN  /\ n \in TombJobs /\ n.pc = pc /\ n.kind = "tombs" /\ n.user = j.user
                /\ n.todo = <<Shared>> /\ n.left = j.left \ {t} /\ n.maps = j.maps
                /\ n.lines = j.lines /\ n.meta = j.meta
BY DEF TombJobs, TombSteps, GoneJob, WrittenJob

LEMMA DropGoes ==
  ASSUME NEW j \in DropJobs, NEW pc \in DropSteps, NEW todo \in Seq(Partitions)
  PROVE  /\ LET n == VisitedJob(j, todo, pc)
            IN  n \in DropJobs /\ n.pc = pc /\ n.kind = "drop" /\ n.table = j.table
                /\ n.todo = todo /\ n.dirs = j.dirs
         /\ LET n == GoneJob(j, pc)
            IN  n \in DropJobs /\ n.pc = pc /\ n.kind = "drop" /\ n.table = j.table
                /\ n.todo = j.todo /\ n.dirs = j.dirs
         /\ j.dirs # << >> =>
              LET n == EmptiedJob(j, pc)
              IN  n \in DropJobs /\ n.pc = pc /\ n.kind = "drop" /\ n.table = j.table
                  /\ n.todo = j.todo /\ n.dirs = Tail(j.dirs)
<1>1. j.dirs # << >> => Tail(j.dirs) \in Seq(Partitions)
  BY HeadTailProperties DEF DropJobs
<1> QED
  BY <1>1 DEF DropJobs, DropSteps, GoneJob, VisitedJob, EmptiedJob

\* A job's own lock and that of its partition.
LEMMA LocksOfJobs ==
  ASSUME NEW j \in JobStates
  PROVE  /\ j \in ApplyJobs => OwnLock(j) = {"apply"}
         /\ j \in PruneJobs \cup DiffJobs => OwnLock(j) = {}
         /\ j \in AccountJobs \cup TombJobs \cup RmdirJobs => OwnLock(j) = {"users"}
         /\ j \in DropJobs => OwnLock(j) = {"tables"}
         /\ j.pc \notin Inside => PartitionLock(j) = {}
         /\ j.pc \in Inside => PartitionLock(j) = {Head(j.todo)}
         /\ j = Idle => Asked(j) = {}
BY DEF OwnLock, PartitionLock, Asked, Idle, Inside, ApplyJobs, PruneJobs, DiffJobs, AccountJobs,
       TombJobs, RmdirJobs, DropJobs


-----------------------------------------------------------------------------
(* Every step keeps the types                                              *)

LEMMA InitTypes == Init => Types
<1> SUFFICES ASSUME Init PROVE Types
  OBVIOUS
<1>1. FilesTyped
  BY Typed DEF Init, FilesTyped, Acked
<1>2. job = [w \in Workers |-> Idle]
  BY DEF Init
<1>3. Idle \in JobStates /\ JobFits(Idle) /\ Asked(Idle) = {} /\ Had(Idle) = {}
  BY DEF JobStates, Idle, JobFits, Inside, Asked, OwnLock, PartitionLock, Had, Writing
<1>4. JobsFit
  BY <1>2, <1>3 DEF JobsFit
<1>5. QueuesFit
  <2>1. queue = [l \in Locks |-> << >>]
    BY DEF Init
  <2>2. ASSUME NEW l \in Locks PROVE QueueFits(<< >>, l, job)
    <3>1. << >> \in Seq(Workers) /\ IsInjective(<< >>) /\ ToSet(<< >>) = {}
      BY DEF IsInjective, ToSet
    <3> QED
      BY <3>1, <1>2, <1>3 DEF QueueFits
  <2> QED
    BY <2>1, <2>2 DEF QueuesFit
<1> QED
  BY <1>1, <1>4, <1>5 DEF Types

\* A job begins and asks for its lock.
LEMMA JobAsks ==
  ASSUME Types, NEW w \in Workers, job[w] = Idle, NEW n \in JobStates, JobFits(n),
         job' = [job EXCEPT ![w] = n], NEW l, Switch(w, {}, {l}), Asked(n) = {l}, Had(n) = {}
  PROVE  JobsFit' /\ QueuesFit'
<1> DEFINE none == {}
<1>1. Asked(job[w]) = {}
  BY LocksOfJobs DEF Types, JobsFit
<1>2. /\ Switch(w, none, {l}) /\ none \subseteq Asked(job[w])
      /\ \A k \in none : Holds(w, k)
      /\ \A k \in {l} : k \in Asked(job[w]) => k \in none
      /\ Asked(n) = (Asked(job[w]) \ none) \cup {l}
      /\ \A k \in Had(n) : k \notin none /\ k \notin {l} /\ Holds(w, k)
  BY <1>1
<1> HIDE DEF none
<1> QED
  BY <1>2, JobMoves

LEMMA BeginsIdle ==
  ASSUME Types, NEW w \in Workers, NEW kind, Begins(w, kind)
  PROVE  job[w] = Idle
BY KindsOfJobs DEF Types, JobsFit, Begins, At

LEMMA SameFiles ==
  ASSUME FilesTyped, UNCHANGED <<files, past>>, disturbed' \in BOOLEAN
  PROVE  FilesTyped'
BY DEF FilesTyped, files, past

LEMMA DisturbTyped ==
  ASSUME FilesTyped, NEW when \in BOOLEAN, Disturb(when)
  PROVE  disturbed' \in BOOLEAN
BY DEF FilesTyped, Disturb

LEMMA ApplyTypes ==
  ASSUME Types, NEW w \in Workers, NEW a \in Actors, NEW batch \in Batches, Apply(w, a, batch)
  PROVE  Types'
<1> DEFINE n == [pc |-> "group", kind |-> "apply", actor |-> a, batch |-> batch,
        meta |-> [seq |-> 0, min |-> 0], todo |-> << >>, maps |-> << >>,
        left |-> {}, lines |-> << >>, applied |-> {}]
<1>1. /\ Begins(w, "apply") /\ job' = [job EXCEPT ![w] = n] /\ Switch(w, {}, {ApplyLock(a)})
      /\ UNCHANGED <<files, past>> /\ disturbed' = disturbed
  BY DEF Apply
<1>2. job[w] = Idle
  BY <1>1, BeginsIdle
<1>3. n \in ApplyJobs
  <2>1. << >> \in Seq(Partitions) /\ << >> \in Seq(Line)
    OBVIOUS
  <2> QED
    BY <2>1, Typed DEF ApplyJobs
<1>4. n.pc = "group" /\ n.kind = "apply"
  OBVIOUS
<1> HIDE DEF n
<1>5. n \in JobStates /\ JobFits(n) /\ Asked(n) = {"apply"} /\ Had(n) = {}
  BY <1>3, <1>4 DEF JobStates, JobFits, Inside, Asked, Had, OwnLock, PartitionLock, Writing
<1>6. JobsFit' /\ QueuesFit'
  BY <1>1, <1>2, <1>5, JobAsks, TheLocks
<1>7. FilesTyped'
  BY <1>1, SameFiles DEF Types, FilesTyped
<1> QED
  BY <1>6, <1>7 DEF Types

LEMMA GroupTypes ==
  ASSUME Types, NEW w \in Workers, Group(w)
  PROVE  Types'
<1> DEFINE j == job[w]
           todo == Grouped(j.actor, j.batch)
           pc == IF todo = << >> THEN "meta" ELSE "stage"
           n == GroupedJob(j, meta, todo, pc)
<1>1. j \in JobStates /\ j.pc = "group"
  BY DEF Group, At, Types, JobsFit
<1>2. j \in ApplyJobs /\ j.actor \in Actors /\ j.batch \in Batches
  BY <1>1, StepsOfJobs DEF ApplyJobs
<1>3. OwnLock(j) = {"apply"} /\ PartitionLock(j) = {} /\ Asked(j) = {"apply"}
  BY <1>1, <1>2, LocksOfJobs DEF Inside, Asked
<1>4. ApplyLock(j.actor) = "apply" /\ Holds(w, "apply")
  BY <1>2, TheLocks DEF Group
<1>5. todo \in Seq(Partitions)
  BY <1>2, Typed, GroupedTyped DEF Types, FilesTyped
<1>6. FilesTyped'
  <2>1. disturbed' \in BOOLEAN
    BY DEF Types, FilesTyped, Group, Disturb
  <2> QED
    BY <2>1, SameFiles DEF Group, Types
<1>7. CASE Finish(w, {ApplyLock(j.actor)})
  <2>1. JobsFit' /\ QueuesFit'
    BY <1>7, <1>3, <1>4, JobEnds
  <2> QED
    BY <2>1, <1>6 DEF Types
<1>8. CASE Visit(w, [j EXCEPT !.meta = meta], {}, todo, "stage", "meta")
  <2>1. pc \in ApplySteps /\ meta \in Nums
    BY DEF ApplySteps, Types, FilesTyped
  <2>2. n \in ApplyJobs /\ n.pc = pc /\ n.todo = todo
    BY <2>1, <1>2, <1>5, ApplyGroups DEF IsApply
  <2>3. /\ job' = [job EXCEPT ![w] = n]
        /\ Switch(w, PartitionLock(j), IF todo = << >> THEN {} ELSE {Head(todo)})
    BY <1>8, <1>3 DEF Visit, Goto, GroupedJob
  <2> HIDE DEF n, todo
  <2>4. n \in JobStates /\ OwnLock(n) = OwnLock(j)
    BY <2>2, <1>3, LocksOfJobs DEF JobStates
  <2>5. "stage" \in Inside \ Writing /\ "meta" \notin Inside \cup {"group", "account", "drop"}
    BY DEF Inside, Writing
  <2>6. JobsFit' /\ QueuesFit'
    BY <2>2, <2>3, <2>4, <2>5, <1>3, <1>4, <1>5, JobVisits
  <2> QED
    BY <2>6, <1>6 DEF Types
<1> QED
  BY <1>7, <1>8 DEF Group

LEMMA ApplyHolds ==
  ASSUME Types, NEW w \in Workers, job[w] \in ApplyJobs, ~At(w, "group")
  PROVE  /\ OwnLock(job[w]) = {"apply"} /\ Holds(w, "apply") /\ ApplyLock(job[w].actor) = "apply"
         /\ job[w].actor \in Actors
<1>1. OwnLock(job[w]) = {"apply"} /\ job[w].actor \in Actors
  BY LocksOfJobs DEF Types, JobsFit, ApplyJobs
<1>2. job[w].pc \notin {"account", "drop"}
  BY DEF ApplyJobs
<1>3. "apply" \in Had(job[w])
  BY <1>1, <1>2 DEF Had, At
<1> QED
  BY <1>1, <1>3, HadIsHeld, TheLocks

LEMMA StageTypes ==
  ASSUME Types, NEW w \in Workers, Stage(w)
  PROVE  Types'
<1> DEFINE j == job[w]
           p == Head(j.todo)
           st == Staged(j.actor, p, j.batch, j.meta)
           n == StagedJob(j, st.maps, st.left, st.meta, st.lines, "append")
<1>1. j \in JobStates /\ j.pc = "stage" /\ JobFits(j)
  BY DEF Stage, AtPartition, At, Types, JobsFit
<1>2. /\ j \in ApplyJobs /\ j.actor \in Actors /\ j.batch \in Batches /\ j.meta \in Nums
      /\ j.todo \in Seq(Partitions)
  BY <1>1, StepsOfJobs DEF ApplyJobs
<1>3. p \in Partitions /\ PartitionLock(j) = {p} /\ j.todo # << >>
  BY <1>1, <1>2, LocksOfJobs, AskedAreLocks DEF Inside, JobFits
<1>4. OwnLock(j) = {"apply"} /\ Holds(w, "apply") /\ ApplyLock(j.actor) = "apply" /\ Holds(w, p)
  BY <1>1, <1>2, ApplyHolds DEF At, Stage, AtPartition
<1>5. st \in StageStates
  BY <1>2, <1>3, Typed, StagedTyped DEF Types, FilesTyped
<1>6. FilesTyped'
  <2>1. disturbed' \in BOOLEAN
    BY DEF Types, FilesTyped, Stage, Disturb
  <2> QED
    BY <2>1, SameFiles DEF Stage, Types
<1>7. CASE st.ok
  <2>1. job' = [job EXCEPT ![w] = n] /\ queue' = queue
    BY <1>7 DEF Stage, Goto, Then, StagedJob
  <2>2. n \in ApplyJobs /\ n.pc = "append" /\ n.todo = j.todo /\ n.maps = st.maps
    <3> HIDE DEF st
    <3> QED
      BY <1>2, <1>5, ApplyStages DEF IsApply, StageStates, ApplySteps
  <2>3. st.maps \in Maps
    BY <1>5 DEF StageStates
  <2> HIDE DEF n, st
  <2>4. n \in JobStates /\ OwnLock(n) = {"apply"} /\ PartitionLock(n) = {p}
    BY <2>2, LocksOfJobs DEF JobStates, Inside
  <2>5. JobFits(n)
    BY <2>2, <2>3, <1>3 DEF JobFits
  <2>6. Asked(n) = Asked(j) /\ Had(n) = {"apply", p}
    BY <2>2, <2>4, <1>3, <1>4 DEF Asked, Had, Writing
  <2>7. JobsFit' /\ QueuesFit'
    BY <2>1, <2>4, <2>5, <2>6, <1>4, JobStays
  <2> QED
    BY <2>7, <1>6 DEF Types
<1>8. CASE ~st.ok
  <2>1. Finish(w, {"apply", p})
    BY <1>8, <1>4 DEF Stage, FreedOnRefusal
  <2>2. Asked(j) = {"apply", p}
    BY <1>3, <1>4 DEF Asked
  <2>3. JobsFit' /\ QueuesFit'
    BY <2>1, <2>2, <1>4, JobEnds
  <2> QED
    BY <2>3, <1>6 DEF Types
<1> QED
  BY <1>7, <1>8


LEMMA LinesAre ==
  ASSUME NEW lines \in Seq(Line), NEW p
  PROVE  ToSet(lines) \subseteq Line /\ Legible(p, lines) \subseteq ToSet(lines)
<1>1. ToSet(lines) \subseteq Line
  BY ElementOfSeq, LenProperties DEF ToSet
<1>2. Legible(p, lines) \subseteq ToSet(lines)
  BY DEF Legible, ToSet
<1> QED
  BY <1>1, <1>2

LEMMA ApplyInPartition ==
  ASSUME Types, NEW w \in Workers, job[w].pc \in {"append", "records", "leave"}
  PROVE  LET j == job[w]
             p == Head(j.todo)
         IN  /\ j \in ApplyJobs /\ j \in JobStates /\ j.actor \in Actors /\ j.meta \in Nums
             /\ j.kind = "apply" /\ j.batch \in Seq(Change)
             /\ j.todo \in Seq(Partitions) /\ j.todo # << >> /\ p \in Partitions
             /\ j.left \subseteq Tables /\ j.maps \in Maps /\ j.lines \in Seq(Line)
             /\ ToSet(j.lines) \subseteq Line /\ j.applied \subseteq Line
             /\ OwnLock(j) = {"apply"} /\ PartitionLock(j) = {p} /\ Asked(j) = {"apply", p}
             /\ Holds(w, "apply") /\ Holds(w, p) /\ ApplyLock(j.actor) = "apply"
<1> DEFINE j == job[w]
           p == Head(j.todo)
<1>1. j \in JobStates /\ JobFits(j)
  BY DEF Types, JobsFit
<1>2. /\ j \in ApplyJobs /\ j.actor \in Actors /\ j.batch \in Batches /\ j.meta \in Nums
      /\ j.kind = "apply" /\ j.lines \in Seq(Line) /\ j.left \subseteq Tables
      /\ j.todo \in Seq(Partitions) /\ j.applied \subseteq Line
  BY <1>1, StepsOfJobs DEF ApplyJobs
<1>3. /\ p \in Partitions /\ PartitionLock(j) = {p} /\ j.todo # << >> /\ j.maps \in Maps
  BY <1>1, <1>2, LocksOfJobs, AskedAreLocks DEF Inside, JobFits
<1>4. OwnLock(j) = {"apply"} /\ Holds(w, "apply") /\ ApplyLock(j.actor) = "apply"
  BY <1>1, <1>2, ApplyHolds DEF At
<1>5. p \in Had(j)
  BY <1>3 DEF Had, Writing
<1>6. Holds(w, p)
  BY <1>5, HadIsHeld
<1> QED
  BY <1>1, <1>2, <1>3, <1>4, <1>6, LinesAre, Typed DEF Asked

\* An apply job goes on in its partition.
LEMMA ApplyGoesOn ==
  ASSUME Types, NEW w \in Workers, job[w].pc \in {"append", "records", "leave"},
         NEW n \in ApplyJobs, n.pc \in {"append", "records", "leave"},
         n.todo = job[w].todo, n.maps = job[w].maps,
         job' = [job EXCEPT ![w] = n], queue' = queue
  PROVE  JobsFit' /\ QueuesFit'
<1> DEFINE j == job[w]
           p == Head(j.todo)
<1>1. /\ j.todo # << >> /\ Asked(j) = {"apply", p} /\ j.maps \in Maps
      /\ Holds(w, "apply") /\ Holds(w, p)
  BY ApplyInPartition
<1>2. n \in JobStates /\ OwnLock(n) = {"apply"} /\ PartitionLock(n) = {p}
  BY LocksOfJobs DEF JobStates, Inside
<1>3. JobFits(n)
  BY <1>1 DEF JobFits
<1>4. Asked(n) = Asked(j) /\ Had(n) = {"apply", p}
  BY <1>1, <1>2 DEF Asked, Had, Writing
<1> QED
  BY <1>1, <1>2, <1>3, <1>4, JobStays

LEMMA AppendTypes ==
  ASSUME Types, NEW w \in Workers, AppendLog(w)
  PROVE  Types'
<1> DEFINE j == job[w]
           p == Head(j.todo)
           n == GoneJob(j, "records")
<1>1. j.pc = "append" /\ job' = [job EXCEPT ![w] = n] /\ queue' = queue
  BY DEF AppendLog, At, Goto, Then, GoneJob
<1>2. /\ j \in ApplyJobs /\ p \in Partitions /\ j.lines \in Seq(Line) /\ ToSet(j.lines) \subseteq Line
  BY <1>1, ApplyInPartition
<1>3. n \in ApplyJobs /\ n.pc = "records" /\ n.todo = j.todo /\ n.maps = j.maps
  BY <1>2, ApplyGoes DEF IsApply, ApplySteps
<1>4. JobsFit' /\ QueuesFit'
  <2> HIDE DEF n
  <2> QED
    BY <1>1, <1>3, ApplyGoesOn
<1>5. FilesTyped'
  <2>1. Legible(p, j.lines) \subseteq Line
    BY <1>2, LinesAre
  <2>2. /\ log' = [log EXCEPT ![p] = @ \cup Legible(p, j.lines)]
        /\ torn' = [torn EXCEPT ![p] = @ /\ j.lines = << >>]
        /\ logged' = [logged EXCEPT ![p] = @ \cup ToSet(j.lines)]
        /\ UNCHANGED <<tables, accounts, records, meta, acked, deleted, buried, disturbed>>
    BY DEF AppendLog
  <2>3. /\ log \in [Partitions -> SUBSET Line] /\ torn \in [Partitions -> BOOLEAN]
        /\ logged \in [Partitions -> SUBSET Line]
    BY DEF Types, FilesTyped
  <2>4. log' \in [Partitions -> SUBSET Line] /\ logged' \in [Partitions -> SUBSET Line]
    BY <1>2, <2>1, <2>2, <2>3
  <2>5. torn' \in [Partitions -> BOOLEAN]
    BY <2>2, <2>3, <1>2
  <2> QED
    BY <2>2, <2>4, <2>5 DEF Types, FilesTyped
<1> QED
  BY <1>4, <1>5 DEF Types

\* What is then at q, u and i, if map is written as file of t in p.
InFile(p, t, map, q, u, i) == IF q = p /\ u = t THEN map[i] ELSE records[<<q, u, i>>]

LEMMA WriteFileIs ==
  ASSUME records \in [Keys -> Stored], NEW p, NEW t, NEW map, map \in [Ids -> Stored],
         WriteFile(p, t, map)
  PROVE  /\ records' \in [Keys -> Stored]
         /\ \A q \in Partitions, u \in Tables, i \in Ids :
              records'[<<q, u, i>>] = InFile(p, t, map, q, u, i)
<1>1. ASSUME NEW k \in Keys
      PROVE  records'[k] = (IF k[1] = p /\ k[2] = t THEN map[k[3]] ELSE records[k])
             /\ k[3] \in Ids /\ k = <<k[1], k[2], k[3]>>
  BY DEF WriteFile, Keys
<1>2. \A k \in Keys : records'[k] \in Stored
  BY <1>1
<1>3. records' \in [Keys -> Stored]
  BY <1>2 DEF WriteFile
<1>4. ASSUME NEW q \in Partitions, NEW u \in Tables, NEW i \in Ids
      PROVE  records'[<<q, u, i>>] = InFile(p, t, map, q, u, i)
  <2>1. <<q, u, i>> \in Keys
    BY DEF Keys
  <2> QED
    BY <2>1, <1>1 DEF InFile
<1> QED
  BY <1>3, <1>4

LEMMA WriteRecordsTypes ==
  ASSUME Types, NEW w \in Workers, WriteRecords(w)
  PROVE  Types'
<1> DEFINE j == job[w]
           p == Head(j.todo)
<1>1. /\ j.pc = "records" /\ queue' = queue
      /\ UNCHANGED <<tables, accounts, log, torn, meta, past, disturbed>>
  BY DEF WriteRecords, At
<1>2. /\ j \in ApplyJobs /\ p \in Partitions /\ j.left \subseteq Tables /\ j.maps \in Maps
  BY <1>1, ApplyInPartition
<1>3. CASE j.left = {}
  <2> DEFINE n == GoneJob(j, "leave")
  <2>1. job' = [job EXCEPT ![w] = n] /\ records' = records
    BY <1>3 DEF WriteRecords, Goto, Then, GoneJob
  <2>2. n \in ApplyJobs /\ n.pc = "leave" /\ n.todo = j.todo /\ n.maps = j.maps
    BY <1>2, ApplyGoes DEF IsApply, ApplySteps
  <2> HIDE DEF n
  <2>3. JobsFit' /\ QueuesFit'
    BY <1>1, <2>1, <2>2, ApplyGoesOn
  <2>4. FilesTyped'
    BY <1>1, <2>1, SameFiles DEF Types, FilesTyped, files
  <2> QED
    BY <2>3, <2>4 DEF Types
<1>4. CASE j.left # {}
  <2>1. PICK t \in j.left : WriteFile(p, t, j.maps[t])
                            /\ Goto(w, [j EXCEPT !.left = @ \ {t}], "records")
    BY <1>4 DEF WriteRecords
  <2> DEFINE n == WrittenJob(j, t, "records")
  <2>2. job' = [job EXCEPT ![w] = n]
    BY <2>1 DEF Goto, WrittenJob
  <2>3. n \in ApplyJobs /\ n.pc = "records" /\ n.todo = j.todo /\ n.maps = j.maps
    BY <1>2, ApplyWrites DEF IsApply, ApplySteps
  <2> HIDE DEF n
  <2>4. JobsFit' /\ QueuesFit'
    BY <1>1, <2>2, <2>3, ApplyGoesOn
  <2>5. records' \in [Keys -> Stored]
    <3>1. j.maps[t] \in [Ids -> Stored]
      BY <1>2 DEF Maps
    <3> QED
      BY <3>1, <2>1, WriteFileIs DEF Types, FilesTyped
  <2>6. FilesTyped'
    BY <1>1, <2>5 DEF Types, FilesTyped, past
  <2> QED
    BY <2>4, <2>6 DEF Types
<1> QED
  BY <1>3, <1>4

LEMMA LeaveTypes ==
  ASSUME Types, NEW w \in Workers, Leave(w)
  PROVE  Types'
<1> DEFINE j == job[w]
           p == Head(j.todo)
           todo == Tail(j.todo)
           pc == IF todo = << >> THEN "meta" ELSE "stage"
           n == LeftJob(j, ToSet(j.lines), todo, pc)
<1>1. /\ j.pc = "leave" /\ UNCHANGED <<files, past, disturbed>>
      /\ job' = [job EXCEPT ![w] = n]
      /\ Switch(w, {p}, IF todo = << >> THEN {} ELSE {Head(todo)})
  BY DEF Leave, At, Visit, Goto, LeftJob
<1>2. /\ j \in ApplyJobs /\ j.todo \in Seq(Partitions) /\ j.todo # << >>
      /\ ToSet(j.lines) \subseteq Line
      /\ OwnLock(j) = {"apply"} /\ PartitionLock(j) = {p} /\ Holds(w, "apply") /\ Holds(w, p)
  BY <1>1, ApplyInPartition
<1>3. todo \in Seq(Partitions) /\ pc \in ApplySteps
  BY <1>2, HeadTailProperties DEF ApplySteps
<1>4. n \in ApplyJobs /\ n.pc = pc /\ n.todo = todo
  <2> HIDE DEF pc, todo
  <2> QED
    BY <1>2, <1>3, ApplyLeaves DEF IsApply
<1> HIDE DEF n, todo
<1>5. n \in JobStates /\ OwnLock(n) = OwnLock(j)
  BY <1>2, <1>4, LocksOfJobs DEF JobStates
<1>6. "stage" \in Inside \ Writing /\ "meta" \notin Inside \cup {"group", "account", "drop"}
  BY DEF Inside, Writing
<1>7. JobsFit' /\ QueuesFit'
  BY <1>1, <1>2, <1>3, <1>4, <1>5, <1>6, JobVisits
<1>8. FilesTyped'
  BY <1>1, SameFiles DEF Types, FilesTyped
<1> QED
  BY <1>7, <1>8 DEF Types


LEMMA AllPartitionsIs ==
  ASSUME Types
  PROVE  AllPartitions \in Seq(Partitions) /\ AllPartitions # << >>
BY PartitionsListed DEF AllPartitions, Types, FilesTyped

\* Steps outside of partitions.
LEMMA CompactedIs ==
  ASSUME Types, NEW w \in Workers, job[w] \in ApplyJobs,
         job[w].meta.seq - MaxHistory > job[w].meta.min
  PROVE  /\ job[w].meta.seq - MaxHistory \in Nat
         /\ job[w].meta.seq - MaxHistory <= job[w].meta.seq + 1
         /\ [job[w].meta EXCEPT !.min = job[w].meta.seq - MaxHistory].seq = job[w].meta.seq
BY FileAssumption DEF ApplyJobs, Nums

LEMMA WriteMetaTypes ==
  ASSUME Types, NEW w \in Workers, WriteMeta(w)
  PROVE  Types'
<1> DEFINE j == job[w]
           target == j.meta.seq - MaxHistory
           todo == AllPartitions
           pc == IF todo = << >> THEN "cutMeta" ELSE "cut"
<1>1. /\ j.pc = "meta" /\ j \in JobStates /\ j \in ApplyJobs /\ j.meta \in Nums
  BY StepsOfJobs DEF WriteMeta, At, Types, JobsFit, ApplyJobs
<1>2. /\ OwnLock(j) = {"apply"} /\ Holds(w, "apply") /\ PartitionLock(j) = {}
      /\ Asked(j) = {"apply"}
  BY <1>1, ApplyHolds, LocksOfJobs DEF Inside, At, Asked
<1>3. FilesTyped'
  <2>1. meta' = j.meta /\ disturbed' \in BOOLEAN
    BY DEF WriteMeta, Disturb, Types, FilesTyped
  <2> QED
    BY <1>1, <2>1 DEF WriteMeta, Types, FilesTyped, past
<1>4. CASE /\ target > j.meta.min
           /\ Visit(w, [j EXCEPT !.meta.min = target], {}, AllPartitions, "cut", "cutMeta")
  <2> DEFINE n == CompactedJob(j, target, todo, pc)
  <2>1. /\ job' = [job EXCEPT ![w] = n]
        /\ Switch(w, PartitionLock(j), IF todo = << >> THEN {} ELSE {Head(todo)})
    BY <1>2, <1>4 DEF Visit, Goto, CompactedJob
  <2>2. todo \in Seq(Partitions) /\ pc \in ApplySteps
    BY AllPartitionsIs DEF ApplySteps
  <2>3. target \in Nat /\ target <= j.meta.seq + 1
    BY <1>1, <1>4, CompactedIs
  <2>4. n \in ApplyJobs /\ n.pc = pc /\ n.todo = todo
    <3> HIDE DEF pc, target, j
    <3>1. n \in ApplyJobs /\ IsApply(n, pc, j.actor, j.batch, [j.meta EXCEPT !.min = target], todo,
                                     j.maps, j.left, j.lines, j.applied)
      BY <1>1, <2>2, <2>3, ApplyCompacts
    <3> QED
      BY <3>1 DEF IsApply
  <2> HIDE DEF n, todo
  <2>5. n \in JobStates /\ OwnLock(n) = OwnLock(j)
    BY <1>2, <2>4, LocksOfJobs DEF JobStates
  <2>6. "cut" \in Inside \ Writing /\ "cutMeta" \notin Inside \cup {"group", "account", "drop"}
    BY DEF Inside, Writing
  <2>7. JobsFit' /\ QueuesFit'
    BY <1>2, <2>1, <2>2, <2>4, <2>5, <2>6, JobVisits
  <2> QED
    BY <2>7, <1>3 DEF Types
<1>5. CASE Goto(w, j, "return") /\ queue' = queue
  <2> DEFINE n == GoneJob(j, "return")
  <2>1. job' = [job EXCEPT ![w] = n]
    BY <1>5 DEF Goto, GoneJob
  <2>2. n \in ApplyJobs /\ n.pc = "return"
    BY <1>1, ApplyGoes DEF IsApply, ApplySteps
  <2> HIDE DEF n
  <2>3. n \in JobStates /\ OwnLock(n) = {"apply"} /\ PartitionLock(n) = {}
    BY <2>2, LocksOfJobs DEF JobStates, Inside
  <2>4. JobFits(n) /\ Asked(n) = {"apply"} /\ Had(n) = {"apply"}
    BY <2>2, <2>3 DEF JobFits, Inside, Asked, Had, Writing
  <2>5. JobsFit' /\ QueuesFit'
    BY <1>2, <1>5, <2>1, <2>3, <2>4, JobStays
  <2> QED
    BY <2>5, <1>3 DEF Types
<1> QED
  BY <1>4, <1>5 DEF WriteMeta

\* What a batch acknowledges.
AckOf(a, e) == [key |-> <<PartitionOf(a, e.table), e.table, e.id>>, op |-> e.op,
                ts |-> e.ts, cid |-> e.cid, owner |-> e.owner]

LEMMA AckTyped ==
  ASSUME NEW a \in Actors, NEW e \in Line
  PROVE  AckOf(a, e) \in Acked
<1>1. /\ e.table \in Tables /\ e.id \in Ids /\ e.op \in {"put", "delete"} /\ e.ts \in Nat
      /\ e.cid \in Nat /\ e.owner \in Owners
  BY DEF Line
<1>2. <<PartitionOf(a, e.table), e.table, e.id>> \in Keys
  BY <1>1, Typed DEF Keys
<1> QED
  BY <1>1, <1>2 DEF AckOf, Acked

LEMMA ReturnTypes ==
  ASSUME Types, NEW w \in Workers, Return(w)
  PROVE  Types'
<1> DEFINE j == job[w]
<1>1. j.pc = "return" /\ j \in JobStates /\ j \in ApplyJobs \cup PruneJobs
  BY StepsOfJobs DEF Return, At, Types, JobsFit
<1>2. PartitionLock(j) = {} /\ Asked(j) = OwnLock(j)
  BY <1>1, LocksOfJobs DEF Inside, Asked
<1>3. CASE j \in ApplyJobs
  <2>1. j.kind = "apply" /\ j.actor \in Actors /\ j.applied \subseteq Line
    BY <1>3 DEF ApplyJobs
  <2>2. OwnLock(j) = {"apply"} /\ Holds(w, "apply") /\ ApplyLock(j.actor) = "apply"
    BY <1>1, <1>3, ApplyHolds DEF At
  <2>3. JobsFit' /\ QueuesFit'
    BY <1>2, <2>1, <2>2, JobEnds DEF Return
  <2>4. acked' = acked \cup {AckOf(j.actor, e) : e \in j.applied}
    BY <2>1 DEF Return, AckOf
  <2>5. acked' \subseteq Acked
    BY <2>1, <2>4, AckTyped DEF Types, FilesTyped
  <2>6. FilesTyped'
    BY <2>5 DEF Types, FilesTyped, Return, files
  <2> QED
    BY <2>3, <2>6 DEF Types
<1>4. CASE j \in PruneJobs
  <2>1. j.kind = "prune" /\ j.kind # "apply" /\ OwnLock(j) = {}
    BY <1>1, <1>4, LocksOfJobs DEF PruneJobs
  <2>2. Finish(w, Asked(j)) /\ acked' = acked
    BY <1>2, <2>1 DEF Return
  <2>3. JobsFit' /\ QueuesFit'
    BY <1>2, <2>1, <2>2, JobEnds
  <2>4. FilesTyped'
    BY <2>2 DEF Types, FilesTyped, Return, files
  <2> QED
    BY <2>3, <2>4 DEF Types
<1> QED
  BY <1>1, <1>3, <1>4

LEMMA IdleLocks == OwnLock(Idle) = {} /\ PartitionLock(Idle) = {}
BY DEF OwnLock, PartitionLock, Idle, Inside

LEMMA PruneTypes ==
  ASSUME Types, NEW w \in Workers, NEW keep \in KeepCounts, Prune(w, keep)
  PROVE  Types'
<1> DEFINE target == IF meta.seq < keep THEN 1 ELSE meta.seq - keep + 1
           m == [meta EXCEPT !.min = target]
           j == [pc |-> "cut", kind |-> "prune", todo |-> << >>, meta |-> m]
           todo == AllPartitions
           pc == IF todo = << >> THEN "cutMeta" ELSE "cut"
           n == VisitedJob(j, todo, pc)
<1>1. /\ Begins(w, "prune") /\ meta.seq > 0 /\ Visit(w, j, {}, todo, "cut", "cutMeta")
      /\ UNCHANGED <<files, past>> /\ disturbed' \in BOOLEAN
  BY DEF Prune, Disturb, Types, FilesTyped
<1>2. job[w] = Idle
  BY <1>1, BeginsIdle
<1>3. m \in Nums /\ m.seq = meta.seq
  BY <1>1, FileAssumption DEF Types, FilesTyped, Nums
<1>4. j \in PruneJobs
  <2>1. << >> \in Seq(Partitions)
    OBVIOUS
  <2> HIDE DEF m
  <2> QED
    BY <1>3, <2>1 DEF PruneJobs
<1>5. /\ job' = [job EXCEPT ![w] = n]
      /\ Switch(w, PartitionLock(job[w]), IF todo = << >> THEN {} ELSE {Head(todo)})
  BY <1>1, <1>2, IdleLocks DEF Visit, Goto, VisitedJob
<1> HIDE DEF j
<1>6. todo \in Seq(Partitions) /\ pc \in PruneSteps
  BY AllPartitionsIs DEF PruneSteps
<1>7. n \in PruneJobs /\ n.pc = pc /\ n.todo = todo
  <2> HIDE DEF pc
  <2> QED
    BY <1>4, <1>6, PruneVisits
<1> HIDE DEF n, todo
<1>8. n \in JobStates /\ OwnLock(n) = OwnLock(job[w]) /\ OwnLock(job[w]) = {}
      /\ PartitionLock(job[w]) = {}
  BY <1>2, <1>7, LocksOfJobs, IdleLocks DEF JobStates
<1>9. "cut" \in Inside \ Writing /\ "cutMeta" \notin Inside \cup {"group", "account", "drop"}
  BY DEF Inside, Writing
<1>10. JobsFit' /\ QueuesFit'
  BY <1>5, <1>6, <1>7, <1>8, <1>9, JobVisits
<1> QED
  BY <1>1, <1>10, SameFiles DEF Types


\* A job that goes on has its own lock, and gives back that of its partition.
LEMMA OwnIsHeld ==
  ASSUME Types, NEW w \in Workers, job[w].pc \notin {"group", "account", "drop"}
  PROVE  \A l \in OwnLock(job[w]) : Holds(w, l)
BY HadIsHeld DEF Had

LEMMA JobReleases ==
  ASSUME Types, NEW w \in Workers, job[w].pc \notin {"group", "account", "drop"},
         NEW n \in JobStates, n.pc \notin Inside, n.pc \notin {"group", "account", "drop"},
         job' = [job EXCEPT ![w] = n], OwnLock(n) = OwnLock(job[w]),
         \A l \in PartitionLock(job[w]) : Holds(w, l), Switch(w, PartitionLock(job[w]), {})
  PROVE  JobsFit' /\ QueuesFit'
<1> DEFINE none == {}
           freed == PartitionLock(job[w])
<1>1. JobFits(n) /\ PartitionLock(n) = {}
  BY LocksOfJobs DEF JobFits, Inside
<1>2. Asked(n) = OwnLock(job[w]) /\ Had(n) = OwnLock(job[w])
  BY <1>1 DEF Asked, Had, Inside, Writing
<1>3. \A l \in OwnLock(job[w]) : Holds(w, l) /\ l \notin freed
  <2>1. freed \subseteq Partitions
    BY AskedAreLocks DEF Types, JobsFit
  <2>2. OwnLock(job[w]) \subseteq {"users", "tables", "apply"}
    BY DEF OwnLock
  <2> QED
    BY <2>1, <2>2, OwnIsHeld, TheLocks
<1>4. Asked(job[w]) = OwnLock(job[w]) \cup freed
  BY DEF Asked
<1>5. /\ Switch(w, freed, none) /\ freed \subseteq Asked(job[w])
      /\ \A l \in freed : Holds(w, l)
      /\ \A l \in none : l \in Asked(job[w]) => l \in freed
      /\ Asked(n) = (Asked(job[w]) \ freed) \cup none
      /\ \A l \in Had(n) : l \notin freed /\ l \notin none /\ Holds(w, l)
  BY <1>2, <1>3, <1>4
<1> HIDE DEF none, freed
<1> QED
  BY <1>1, <1>5, JobMoves

\* Where a job that is in a partition is.
LEMMA InPartition ==
  ASSUME Types, NEW w \in Workers, job[w].pc \in Inside
  PROVE  /\ job[w] \in JobStates /\ job[w].todo \in Seq(Partitions) /\ job[w].todo # << >>
         /\ Head(job[w].todo) \in Partitions /\ PartitionLock(job[w]) = {Head(job[w].todo)}
         /\ Tail(job[w].todo) \in Seq(Partitions)
         /\ job[w].pc \in Writing => Holds(w, Head(job[w].todo))
<1>1. job[w] \in JobStates /\ JobFits(job[w])
  BY DEF Types, JobsFit
<1>2. /\ job[w].todo \in Seq(Partitions) /\ job[w].todo # << >>
      /\ PartitionLock(job[w]) = {Head(job[w].todo)}
  BY <1>1, TodosOfJobs, LocksOfJobs DEF JobFits
<1>3. job[w].pc \in Writing => Head(job[w].todo) \in Had(job[w])
  BY <1>2 DEF Had
<1> QED
  BY <1>1, <1>2, <1>3, HadIsHeld, HeadTailProperties

LEMMA CutTypes ==
  ASSUME Types, NEW w \in Workers, Cut(w)
  PROVE  Types'
<1> DEFINE j == job[w]
           p == Head(j.todo)
           todo == Tail(j.todo)
           pc == IF todo = << >> THEN "cutMeta" ELSE "cut"
           kept == {e \in log[p] : e.seq >= j.meta.min}
           n == VisitedJob(j, todo, pc)
<1>1. /\ j.pc = "cut" /\ Holds(w, p) /\ job' = [job EXCEPT ![w] = n]
      /\ Switch(w, {p}, IF todo = << >> THEN {} ELSE {Head(todo)})
  BY DEF Cut, AtPartition, At, Visit, Goto, VisitedJob
<1>2. /\ j \in JobStates /\ todo \in Seq(Partitions) /\ p \in Partitions /\ PartitionLock(j) = {p}
  BY <1>1, InPartition DEF Inside
<1>3. j \in ApplyJobs \cup PruneJobs
  BY <1>1, <1>2, StepsOfJobs
<1>4. \A l \in OwnLock(j) : Holds(w, l)
  BY <1>1, OwnIsHeld
<1>5. pc \in ApplySteps /\ pc \in PruneSteps
  BY DEF ApplySteps, PruneSteps
<1>6. /\ n \in ApplyJobs \cup PruneJobs /\ n.pc = pc /\ n.todo = todo
      /\ j \in ApplyJobs => n \in ApplyJobs
      /\ j \in PruneJobs => n \in PruneJobs
  <2> HIDE DEF pc, todo
  <2> QED
    BY <1>2, <1>3, <1>5, ApplyVisits, PruneVisits DEF IsApply
<1> HIDE DEF n, todo
<1>7. n \in JobStates /\ OwnLock(n) = OwnLock(j)
  BY <1>2, <1>3, <1>6, LocksOfJobs DEF JobStates
<1>8. "cut" \in Inside \ Writing /\ "cutMeta" \notin Inside \cup {"group", "account", "drop"}
  BY DEF Inside, Writing
<1>9. JobsFit' /\ QueuesFit'
  BY <1>1, <1>2, <1>4, <1>6, <1>7, <1>8, JobVisits
<1>10. FilesTyped'
  <2>1. /\ log' = [log EXCEPT ![p] = kept]
        /\ torn' = [torn EXCEPT ![p] = @ /\ kept = log[p]]
        /\ UNCHANGED <<tables, accounts, records, meta, past, disturbed>>
    BY DEF Cut
  <2>2. log \in [Partitions -> SUBSET Line] /\ torn \in [Partitions -> BOOLEAN]
    BY DEF Types, FilesTyped
  <2>3. log' \in [Partitions -> SUBSET Line] /\ torn' \in [Partitions -> BOOLEAN]
    BY <1>2, <2>1, <2>2
  <2> QED
    BY <2>1, <2>3 DEF Types, FilesTyped, past
<1> QED
  BY <1>9, <1>10 DEF Types

LEMMA CutMetaTypes ==
  ASSUME Types, NEW w \in Workers, CutMeta(w)
  PROVE  Types'
<1> DEFINE j == job[w]
           n == GoneJob(j, "return")
<1>1. /\ j.pc = "cutMeta" /\ meta' = j.meta /\ job' = [job EXCEPT ![w] = n] /\ queue' = queue
      /\ UNCHANGED <<tables, accounts, records, log, torn, past, disturbed>>
  BY DEF CutMeta, At, Goto, GoneJob
<1>2. /\ j \in JobStates /\ j \in ApplyJobs \cup PruneJobs /\ PartitionLock(j) = {}
      /\ j.meta \in Nums
  BY <1>1, StepsOfJobs, LocksOfJobs DEF Types, JobsFit, Inside, ApplyJobs, PruneJobs
<1>3. j.todo \in Seq(Partitions) /\ "return" \in ApplySteps /\ "return" \in PruneSteps
  BY <1>2 DEF ApplyJobs, PruneJobs, ApplySteps, PruneSteps
<1>4. /\ n \in ApplyJobs \cup PruneJobs /\ n.pc = "return"
      /\ j \in ApplyJobs => n \in ApplyJobs
      /\ j \in PruneJobs => n \in PruneJobs
  BY <1>2, <1>3, ApplyGoes, PruneVisits DEF IsApply
<1> HIDE DEF n
<1>5. n \in JobStates /\ OwnLock(n) = OwnLock(j) /\ PartitionLock(n) = {}
  BY <1>2, <1>4, LocksOfJobs DEF JobStates, Inside
<1>6. JobFits(n) /\ Asked(n) = Asked(j) /\ Had(n) = OwnLock(j)
  BY <1>2, <1>4, <1>5 DEF JobFits, Inside, Asked, Had, Writing
<1>7. JobsFit' /\ QueuesFit'
  BY <1>1, <1>5, <1>6, OwnIsHeld, JobStays
<1>8. FilesTyped'
  BY <1>1, <1>2 DEF Types, FilesTyped, past
<1> QED
  BY <1>7, <1>8 DEF Types

LEMMA DiffStarts ==
  ASSUME NEW a \in Actors, NEW from \in Nat, NEW m \in Nums, NEW todo \in Seq(Partitions),
         NEW pc \in DiffSteps
  PROVE  LET n == VisitedJob([pc |-> "read", kind |-> "diff", actor |-> a, from |-> from,
                              meta |-> m, todo |-> << >>, got |-> {}], todo, pc)
         IN  /\ n \in DiffJobs /\ n.pc = pc /\ n.kind = "diff" /\ n.actor = a
             /\ n.from = from /\ n.meta = m /\ n.todo = todo /\ n.got = {}
BY DEF DiffJobs, DiffSteps, VisitedJob

LEMMA DiffTypes ==
  ASSUME Types, NEW w \in Workers, NEW a \in Actors, NEW from \in 1..(meta.seq + 1),
         Diff(w, a, from)
  PROVE  Types'
<1> DEFINE j == [pc |-> "read", kind |-> "diff", actor |-> a, from |-> from, meta |-> meta,
                 todo |-> << >>, got |-> {}]
           todo == IF a \in Users THEN <<Shared, a>> ELSE <<Shared>>
           pc == IF todo = << >> THEN "answer" ELSE "read"
           n == VisitedJob(j, todo, pc)
<1>1. /\ Begins(w, "diff") /\ Visit(w, j, {}, todo, "read", "answer")
      /\ UNCHANGED <<files, past>> /\ disturbed' \in BOOLEAN
  BY DEF Diff, Disturb, Types, FilesTyped
<1>2. job[w] = Idle
  BY <1>1, BeginsIdle
<1>3. meta \in Nums /\ from \in Nat
  BY DEF Types, FilesTyped, Nums
<1>4. todo \in Seq(Partitions) /\ pc \in DiffSteps
  <2>1. CASE a \in Users
    <3>1. <<Shared, a>> \in Seq(Partitions)
      BY <2>1 DEF Partitions
    <3> QED
      BY <2>1, <3>1 DEF DiffSteps
  <2>2. CASE a \notin Users
    <3>1. <<Shared>> \in Seq(Partitions)
      BY DEF Partitions
    <3> QED
      BY <2>2, <3>1 DEF DiffSteps
  <2> QED
    BY <2>1, <2>2
<1>5. /\ job' = [job EXCEPT ![w] = n]
      /\ Switch(w, PartitionLock(job[w]), IF todo = << >> THEN {} ELSE {Head(todo)})
  BY <1>1, <1>2, IdleLocks DEF Visit, Goto, VisitedJob
<1>6. n \in DiffJobs /\ n.pc = pc /\ n.todo = todo
  <2> HIDE DEF pc, todo
  <2> QED
    BY <1>3, <1>4, DiffStarts
<1> HIDE DEF n, todo
<1>7. n \in JobStates /\ OwnLock(n) = OwnLock(job[w]) /\ OwnLock(job[w]) = {}
      /\ PartitionLock(job[w]) = {}
  BY <1>2, <1>6, LocksOfJobs, IdleLocks DEF JobStates
<1>8. "read" \in Inside \ Writing /\ "answer" \notin Inside \cup {"group", "account", "drop"}
  BY DEF Inside, Writing
<1>9. JobsFit' /\ QueuesFit'
  BY <1>4, <1>5, <1>6, <1>7, <1>8, JobVisits
<1> QED
  BY <1>1, <1>9, SameFiles DEF Types

LEMMA ReadLogTypes ==
  ASSUME Types, NEW w \in Workers, ReadLog(w)
  PROVE  Types'
<1> DEFINE j == job[w]
           p == Head(j.todo)
           todo == Tail(j.todo)
           pc == IF todo = << >> THEN "answer" ELSE "read"
           more == {e \in log[p] : e.seq > j.from}
           n == ReadJob(j, more, todo, pc)
<1>1. /\ j.pc = "read" /\ Holds(w, p) /\ job' = [job EXCEPT ![w] = n]
      /\ Switch(w, {p}, IF todo = << >> THEN {} ELSE {Head(todo)})
      /\ UNCHANGED <<files, past, disturbed>>
  BY DEF ReadLog, AtPartition, At, Visit, Goto, ReadJob
<1>2. /\ j \in JobStates /\ todo \in Seq(Partitions) /\ p \in Partitions /\ PartitionLock(j) = {p}
  BY <1>1, InPartition DEF Inside
<1>3. j \in DiffJobs
  BY <1>1, <1>2, StepsOfJobs
<1>4. OwnLock(j) = {} /\ pc \in DiffSteps /\ more \in SUBSET Line
  BY <1>2, <1>3, LocksOfJobs DEF DiffSteps, Types, FilesTyped
<1>5. n \in DiffJobs /\ n.pc = pc /\ n.todo = todo
  <2> HIDE DEF pc, todo, more
  <2> QED
    BY <1>2, <1>3, <1>4, DiffVisits
<1> HIDE DEF n, todo
<1>6. n \in JobStates /\ OwnLock(n) = OwnLock(j)
  BY <1>4, <1>5, LocksOfJobs DEF JobStates
<1>7. "read" \in Inside \ Writing /\ "answer" \notin Inside \cup {"group", "account", "drop"}
  BY DEF Inside, Writing
<1>8. JobsFit' /\ QueuesFit'
  BY <1>1, <1>2, <1>4, <1>5, <1>6, <1>7, JobVisits
<1> QED
  BY <1>1, <1>8, SameFiles DEF Types, FilesTyped

LEMMA AnswerTypes ==
  ASSUME Types, NEW w \in Workers, Answer(w)
  PROVE  Types'
<1>1. job[w] \in DiffJobs /\ job[w] \in JobStates
  BY StepsOfJobs DEF Answer, At, Types, JobsFit
<1>2. Asked(job[w]) = {}
  BY <1>1, LocksOfJobs DEF Answer, At, Asked, Inside
<1>3. JobsFit' /\ QueuesFit'
  BY <1>2, JobEnds DEF Answer
<1> QED
  BY <1>3, SameFiles DEF Answer, Types, FilesTyped


LEMMA SharedFirst ==
  /\ <<Shared>> \in Seq(Partitions) /\ <<Shared>> # << >> /\ Head(<<Shared>>) = Shared
  /\ Shared \in Partitions
BY DEF Partitions

LEMMA DeleteUserTypes ==
  ASSUME Types, NEW w \in Workers, NEW u \in accounts, NEW now \in Clock, DeleteUser(w, u, now)
  PROVE  Types'
<1> DEFINE n == [pc |-> "account", kind |-> "account", user |-> u, now |-> now,
                 todo |-> <<Shared>>]
<1>1. /\ Begins(w, "deleteUser") /\ job' = [job EXCEPT ![w] = n] /\ Switch(w, {}, {"users"})
      /\ UNCHANGED <<files, past>> /\ disturbed' = disturbed
  BY DEF DeleteUser
<1>2. job[w] = Idle
  BY <1>1, BeginsIdle
<1>3. n \in AccountJobs
  BY FileAssumption DEF AccountJobs, Types, FilesTyped
<1>4. n.pc = "account" /\ n.kind = "account"
  OBVIOUS
<1> HIDE DEF n
<1>5. n \in JobStates /\ JobFits(n) /\ Asked(n) = {"users"} /\ Had(n) = {}
  BY <1>3, <1>4 DEF JobStates, JobFits, Inside, Asked, Had, OwnLock, PartitionLock, Writing
<1>6. JobsFit' /\ QueuesFit'
  BY <1>1, <1>2, <1>5, JobAsks
<1>7. FilesTyped'
  BY <1>1, SameFiles DEF Types, FilesTyped
<1> QED
  BY <1>6, <1>7 DEF Types

LEMMA DropAccountTypes ==
  ASSUME Types, NEW w \in Workers, DropAccount(w)
  PROVE  Types'
<1> DEFINE j == job[w]
           n == VisitedJob(j, j.todo, "tombs")
<1>1. /\ j.pc = "account" /\ Holds(w, "users")
      /\ Visit(w, j, {}, j.todo, "tombs", "tombs")
      /\ accounts' = accounts \ {j.user}
      /\ UNCHANGED <<tables, records, log, torn, meta, past, disturbed>>
  BY DEF DropAccount, At
<1>2. j \in JobStates /\ j \in AccountJobs /\ j.todo = <<Shared>>
  BY <1>1, StepsOfJobs DEF Types, JobsFit, AccountJobs
<1>3. OwnLock(j) = {"users"} /\ PartitionLock(j) = {} /\ Asked(j) = {"users"}
  BY <1>1, <1>2, LocksOfJobs DEF Inside, Asked
<1>4. /\ job' = [job EXCEPT ![w] = n] /\ Switch(w, {}, {Shared})
  <2>1. j.todo # << >> /\ Head(j.todo) = Shared
    BY <1>2, SharedFirst
  <2> QED
    BY <1>1, <2>1 DEF Visit, Goto, VisitedJob
<1>5. n \in AccountJobs /\ n.pc = "tombs" /\ n.todo = <<Shared>>
  BY <1>2, AccountGoes DEF AccountSteps
<1> HIDE DEF n
<1>6. n \in JobStates /\ OwnLock(n) = {"users"} /\ PartitionLock(n) = {Shared}
  BY <1>5, SharedFirst, LocksOfJobs DEF JobStates, Inside
<1>7. JobFits(n) /\ Asked(n) = {"users", Shared} /\ Had(n) = {"users"}
  BY <1>5, <1>6, SharedFirst DEF JobFits, Asked, Had, Writing
<1>8. JobsFit' /\ QueuesFit'
  <2> DEFINE none == {}
  <2>1. Shared \notin {"users", "tables", "apply"}
    BY TheLocks, SharedFirst
  <2>2. /\ Switch(w, none, {Shared}) /\ none \subseteq Asked(j)
        /\ \A l \in none : Holds(w, l)
        /\ \A l \in {Shared} : l \in Asked(j) => l \in none
        /\ Asked(n) = (Asked(j) \ none) \cup {Shared}
        /\ \A l \in Had(n) : l \notin none /\ l \notin {Shared} /\ Holds(w, l)
    BY <1>1, <1>3, <1>4, <1>7, <2>1
  <2> HIDE DEF none
  <2> QED
    BY <1>4, <1>6, <1>7, <2>2, JobMoves
<1>9. FilesTyped'
  BY <1>1 DEF Types, FilesTyped, past
<1> QED
  BY <1>8, <1>9 DEF Types

LEMMA MadeByIs ==
  ASSUME NEW u, records \in [Keys -> Stored]
  PROVE  /\ IsFiniteSet(MadeBy(u)) /\ MadeBy(u) \subseteq Keys
         /\ \A k \in MadeBy(u) : /\ k[1] = Shared /\ k[2] \in tables /\ k = <<Shared, k[2], k[3]>>
                                 /\ k[2] \in Tables /\ k[3] \in Ids
                                 /\ records[k].op = "put" /\ records[k].owner = u
<1>1. IsFiniteSet(Keys)
  <2>1. IsFiniteSet({Shared})
    BY FS_Singleton
  <2>2. IsFiniteSet(Partitions)
    BY <2>1, FileAssumption, FS_Union DEF Partitions
  <2>3. IsFiniteSet(Tables \X Ids)
    BY FileAssumption, FS_Product
  <2>4. IsFiniteSet(Partitions \X (Tables \X Ids))
    BY <2>2, <2>3, FS_Product
  <2> DEFINE flat == [x \in Partitions \X (Tables \X Ids) |-> <<x[1], x[2][1], x[2][2]>>]
  <2>5. flat \in [Partitions \X (Tables \X Ids) -> Keys]
    BY DEF Keys
  <2>6. ASSUME NEW k \in Keys PROVE \E x \in Partitions \X (Tables \X Ids) : flat[x] = k
    <3>1. PICK p \in Partitions, t \in Tables, i \in Ids : k = <<p, t, i>>
      BY DEF Keys
    <3>2. <<p, <<t, i>>>> \in Partitions \X (Tables \X Ids)
      OBVIOUS
    <3>3. flat[<<p, <<t, i>>>>] = k
      BY <3>1, <3>2
    <3> QED
      BY <3>2, <3>3
  <2>7. flat \in Surjection(Partitions \X (Tables \X Ids), Keys)
    BY <2>5, <2>6 DEF Surjection
  <2> QED
    BY <2>4, <2>7, FS_Surjection DEF ExistsSurjection
<1>2. MadeBy(u) \subseteq Keys
  BY DEF MadeBy
<1> QED
  BY <1>1, <1>2, FS_Subset DEF MadeBy, Keys

\* What DeleteUser makes of the records: dead ones, in a row, with a line for each.
DeadRecord(r, now) == [r EXCEPT !.op = "delete", !.ts = now]
DeadOf(j) == [k \in MadeBy(j.user) |-> DeadRecord(records[k], j.now)]
TombMaps(j) ==
  [t \in Tables |-> [i \in Ids |->
     IF <<Shared, t, i>> \in MadeBy(j.user) THEN DeadOf(j)[<<Shared, t, i>>]
     ELSE records[<<Shared, t, i>>]]]
TombLines(j) ==
  LET order == SetToSeq(MadeBy(j.user))
  IN  [n \in DOMAIN order |->
         [table |-> order[n][2], id |-> order[n][3], op |-> "delete", ts |-> j.now,
          cid |-> records[order[n]].cid, owner |-> j.user, seq |-> meta.seq + n]]
TombMeta(j) ==
  [seq |-> meta.seq + Len(SetToSeq(MadeBy(j.user))), min |-> IF meta.min = 0 THEN 1 ELSE meta.min]
TombJob(j) ==
  [pc |-> "tombRecords", kind |-> "tombs", user |-> j.user, todo |-> j.todo,
   left |-> {k[2] : k \in MadeBy(j.user)}, maps |-> TombMaps(j), lines |-> TombLines(j),
   meta |-> TombMeta(j)]

LEMMA DeadRecordIs ==
  ASSUME NEW r \in Stored, NEW now, now \in Nat
  PROVE  /\ DeadRecord(r, now) \in Stored /\ DeadRecord(r, now).op = "delete"
         /\ DeadRecord(r, now).ts = now /\ DeadRecord(r, now).cid = r.cid
         /\ DeadRecord(r, now).owner = r.owner
BY DEF Stored, DeadRecord

LEMMA TombsAre ==
  ASSUME FilesTyped, NEW j \in AccountJobs
  PROVE  /\ TombMaps(j) \in Maps /\ TombLines(j) \in Seq(Line) /\ TombMeta(j) \in Nums
         /\ DOMAIN TombLines(j) = 1..Len(SetToSeq(MadeBy(j.user)))
         /\ Len(SetToSeq(MadeBy(j.user))) \in Nat
         /\ \A n \in DOMAIN TombLines(j) : TombLines(j)[n].seq = meta.seq + n
         /\ TombMeta(j).seq = meta.seq + Len(SetToSeq(MadeBy(j.user)))
         /\ \A t \in Tables, i \in Ids :
              TombMaps(j)[t][i] = IF <<Shared, t, i>> \in MadeBy(j.user)
                                  THEN DeadOf(j)[<<Shared, t, i>>] ELSE records[<<Shared, t, i>>]
         /\ \A k \in MadeBy(j.user) : /\ DeadOf(j)[k] \in Stored /\ DeadOf(j)[k].op = "delete"
<1> DEFINE made == MadeBy(j.user)
           order == SetToSeq(made)
<1>1. /\ records \in [Keys -> Stored] /\ meta \in Nums /\ meta.seq \in Nat /\ meta.min \in Nat
      /\ meta.min <= meta.seq + 1 /\ j.user \in Users /\ j.now \in Nat
  BY DEF FilesTyped, Nums, AccountJobs
<1>2. IsFiniteSet(made) /\ made \subseteq Keys
  BY <1>1, MadeByIs
<1>3. order \in Seq(made) /\ Len(order) \in Nat
  BY <1>2, Enumerated
<1>4. DOMAIN order = 1..Len(order) /\ \A n \in 1..Len(order) : order[n] \in made
  BY <1>3, LenProperties, ElementOfSeq
<1>5. ASSUME NEW k \in made PROVE DeadOf(j)[k] \in Stored /\ DeadOf(j)[k].op = "delete"
  <2>1. records[k] \in Stored
    BY <1>1, <1>2
  <2> HIDE DEF made
  <2>2. DeadOf(j)[k] = DeadRecord(records[k], j.now)
    BY <1>5 DEF DeadOf, made
  <2> QED
    BY <2>1, <2>2, <1>1, DeadRecordIs
<1>6. ASSUME NEW t \in Tables, NEW i \in Ids
      PROVE  /\ TombMaps(j)[t][i] \in Stored
             /\ TombMaps(j)[t][i] = IF <<Shared, t, i>> \in made
                                    THEN DeadOf(j)[<<Shared, t, i>>] ELSE records[<<Shared, t, i>>]
  <2>1. <<Shared, t, i>> \in Keys
    BY SharedFirst DEF Keys
  <2>2. TombMaps(j)[t][i] = IF <<Shared, t, i>> \in made
                            THEN DeadOf(j)[<<Shared, t, i>>] ELSE records[<<Shared, t, i>>]
    BY DEF TombMaps
  <2> QED
    BY <2>1, <2>2, <1>1, <1>5
<1>7. TombMaps(j) \in Maps
  BY <1>6 DEF TombMaps, Maps
<1>8. TombLines(j) \in [1..Len(order) -> Line]
  <2> SUFFICES ASSUME NEW n \in 1..Len(order)
               PROVE  [table |-> order[n][2], id |-> order[n][3], op |-> "delete", ts |-> j.now,
                       cid |-> records[order[n]].cid, owner |-> j.user, seq |-> meta.seq + n] \in Line
    BY <1>4 DEF TombLines
  <2>1. order[n] \in made
    BY <1>4
  <2>2. order[n] \in Keys /\ records[order[n]] \in Stored
    BY <2>1, <1>1, <1>2
  <2>3. order[n][2] \in Tables /\ order[n][3] \in Ids /\ records[order[n]].cid \in Nat
    BY <2>2 DEF Keys, Stored
  <2> HIDE DEF order
  <2> QED
    BY <2>3, <1>1 DEF Line, Owners
<1>9. /\ TombLines(j) \in Seq(Line) /\ DOMAIN TombLines(j) = 1..Len(order)
  BY <1>3, <1>8, SeqDef
<1>10. \A n \in DOMAIN TombLines(j) : TombLines(j)[n].seq = meta.seq + n
  BY <1>4, <1>9 DEF TombLines
<1>11. TombMeta(j) \in Nums /\ TombMeta(j).seq = meta.seq + Len(order)
  <2> HIDE DEF order
  <2> QED
    BY <1>1, <1>3 DEF TombMeta, Nums, order
<1> QED
  BY <1>3, <1>5, <1>6, <1>7, <1>9, <1>10, <1>11


LEMMA TombJobIs ==
  ASSUME FilesTyped, NEW j \in AccountJobs, MadeBy(j.user) # {}
  PROVE  LET n == TombJob(j)
         IN  /\ n \in TombJobs /\ n.pc = "tombRecords" /\ n.kind = "tombs" /\ n.user = j.user
             /\ n.todo = <<Shared>> /\ n.left = {k[2] : k \in MadeBy(j.user)} /\ n.left # {}
             /\ n.maps = TombMaps(j) /\ n.lines = TombLines(j) /\ n.meta = TombMeta(j)
<1>1. j.todo = <<Shared>> /\ j.user \in Users
  BY DEF AccountJobs
<1>2. TombMaps(j) \in Maps /\ TombLines(j) \in Seq(Line) /\ TombMeta(j) \in Nums
  BY TombsAre
<1>3. {k[2] : k \in MadeBy(j.user)} \subseteq Tables /\ {k[2] : k \in MadeBy(j.user)} # {}
  BY MadeByIs DEF FilesTyped
<1> QED
  BY <1>1, <1>2, <1>3 DEF TombJob, TombJobs

LEMMA TombsCases ==
  ASSUME NEW w \in Workers, Tombs(w)
  PROVE  \/ /\ MadeBy(job[w].user) = {} /\ Goto(w, job[w], "rmdir") /\ Switch(w, {Shared}, {})
            /\ disturbed' = disturbed
         \/ /\ MadeBy(job[w].user) # {} /\ job' = [job EXCEPT ![w] = TombJob(job[w])]
            /\ queue' = queue /\ Disturb(\E v \in Workers \ {w} : Rewriting(v))
<1>1. CASE MadeBy(job[w].user) = {}
  BY <1>1 DEF Tombs
<1>2. CASE MadeBy(job[w].user) # {}
  BY <1>2, Zenon DEF Tombs, TombJob, TombMaps, TombLines, TombMeta, DeadOf, DeadRecord
<1> QED
  BY <1>1, <1>2

LEMMA TombsTypes ==
  ASSUME Types, NEW w \in Workers, Tombs(w)
  PROVE  Types'
<1> DEFINE j == job[w]
           p == Head(j.todo)
<1>1. j.pc = "tombs" /\ Holds(w, p) /\ UNCHANGED <<files, logged, acked, deleted>>
      /\ buried' = buried \cup MadeBy(j.user)
  BY DEF Tombs, AtPartition, At
<1>2. j \in JobStates /\ j \in AccountJobs /\ j.todo = <<Shared>> /\ p = Shared
  BY <1>1, StepsOfJobs, SharedFirst DEF Types, JobsFit, AccountJobs
<1>3. OwnLock(j) = {"users"} /\ PartitionLock(j) = {Shared} /\ Holds(w, Shared)
      /\ Asked(j) = {"users", Shared}
  BY <1>1, <1>2, LocksOfJobs DEF Inside, Asked
<1>4. Holds(w, "users")
  BY <1>1, <1>3, OwnIsHeld
<1>5. FilesTyped'
  <2>1. disturbed' \in BOOLEAN
    BY TombsCases DEF Types, FilesTyped, Disturb
  <2>2. buried' \subseteq Keys
    BY <1>1, MadeByIs DEF Types, FilesTyped
  <2> QED
    BY <1>1, <2>1, <2>2 DEF Types, FilesTyped, files
<1>6. CASE MadeBy(j.user) = {} /\ Goto(w, j, "rmdir") /\ Switch(w, {Shared}, {})
  <2> DEFINE n == GoneJob(j, "rmdir")
  <2>1. job' = [job EXCEPT ![w] = n]
    BY <1>6 DEF Goto, GoneJob
  <2>2. n \in AccountJobs /\ n.pc = "rmdir"
    BY <1>2, AccountGoes DEF AccountSteps
  <2> HIDE DEF n
  <2>3. n \in JobStates /\ OwnLock(n) = {"users"} /\ n.pc \notin Inside
    BY <2>2, LocksOfJobs DEF JobStates, Inside
  <2>4. JobsFit' /\ QueuesFit'
    BY <1>1, <1>3, <1>6, <2>1, <2>2, <2>3, JobReleases
  <2> QED
    BY <2>4, <1>5 DEF Types
<1>7. CASE MadeBy(j.user) # {} /\ job' = [job EXCEPT ![w] = TombJob(j)] /\ queue' = queue
  <2> DEFINE n == TombJob(j)
  <2>1. n \in TombJobs /\ n.pc = "tombRecords" /\ n.todo = <<Shared>> /\ n.left # {}
    BY <1>2, <1>7, TombJobIs DEF Types
  <2> HIDE DEF n
  <2>2. n \in JobStates /\ OwnLock(n) = {"users"} /\ PartitionLock(n) = {Shared}
    BY <2>1, SharedFirst, LocksOfJobs DEF JobStates, Inside
  <2>3. JobFits(n) /\ Asked(n) = Asked(j) /\ Had(n) = {"users", Shared}
    BY <1>3, <2>1, <2>2, SharedFirst DEF JobFits, Asked, Had, Writing
  <2>4. JobsFit' /\ QueuesFit'
    BY <1>3, <1>4, <1>7, <2>2, <2>3, JobStays DEF n
  <2> QED
    BY <2>4, <1>5 DEF Types
<1> QED
  BY <1>6, <1>7, TombsCases

\* Where the deletion of a user's records is.
LEMMA TombFacts ==
  ASSUME Types, NEW w \in Workers, job[w].pc \in TombSteps
  PROVE  LET j == job[w]
         IN  /\ j \in JobStates /\ j \in TombJobs /\ j.kind = "tombs" /\ j.todo = <<Shared>>
             /\ Head(j.todo) = Shared /\ j.user \in Users
             /\ j.left \subseteq Tables /\ j.maps \in Maps /\ j.lines \in Seq(Line)
             /\ ToSet(j.lines) \subseteq Line /\ j.meta \in Nums
             /\ OwnLock(j) = {"users"} /\ PartitionLock(j) = {Shared}
             /\ Asked(j) = {"users", Shared} /\ Holds(w, "users") /\ Holds(w, Shared)
<1> DEFINE j == job[w]
<1>1. j \in JobStates /\ j \in TombJobs
  BY StepsOfJobs DEF Types, JobsFit, TombSteps
<1>2. /\ j.kind = "tombs" /\ j.todo = <<Shared>> /\ Head(j.todo) = Shared /\ j.user \in Users
      /\ j.left \subseteq Tables /\ j.maps \in Maps /\ j.lines \in Seq(Line) /\ j.meta \in Nums
  BY <1>1, SharedFirst DEF TombJobs
<1>3. OwnLock(j) = {"users"} /\ PartitionLock(j) = {Shared}
  BY <1>1, <1>2, LocksOfJobs DEF Inside, TombSteps
<1>4. Holds(w, "users") /\ Holds(w, Shared)
  BY <1>2, <1>3, OwnIsHeld, InPartition DEF TombSteps, Inside, Writing
<1> QED
  BY <1>1, <1>2, <1>3, <1>4, LinesAre DEF Asked

LEMMA TombGoesOn ==
  ASSUME Types, NEW w \in Workers, job[w].pc \in TombSteps,
         NEW n \in TombJobs, n.pc \in TombSteps, n.pc = "tombRecords" => n.left # {},
         n.todo = <<Shared>>, job' = [job EXCEPT ![w] = n], queue' = queue
  PROVE  JobsFit' /\ QueuesFit'
<1> DEFINE j == job[w]
<1>1. Asked(j) = {"users", Shared} /\ Holds(w, "users") /\ Holds(w, Shared)
  BY TombFacts
<1>2. n \in JobStates /\ OwnLock(n) = {"users"} /\ PartitionLock(n) = {Shared}
  BY SharedFirst, LocksOfJobs DEF JobStates, Inside, TombSteps
<1>3. JobFits(n) /\ Asked(n) = Asked(j) /\ Had(n) = {"users", Shared}
  BY <1>1, <1>2, SharedFirst DEF JobFits, Asked, Had, Writing, TombSteps
<1> QED
  BY <1>1, <1>2, <1>3, JobStays

LEMMA WriteTombsTypes ==
  ASSUME Types, NEW w \in Workers, WriteTombs(w)
  PROVE  Types'
<1> DEFINE j == job[w]
<1>1. j.pc = "tombRecords" /\ j.pc \in TombSteps /\ queue' = queue
      /\ UNCHANGED <<tables, accounts, log, torn, meta, past, disturbed>>
  BY DEF WriteTombs, At, TombSteps
<1>2. j \in TombJobs /\ j.left \subseteq Tables /\ j.maps \in Maps
  BY <1>1, TombFacts
<1>3. PICK t \in j.left : /\ WriteFile(Shared, t, j.maps[t])
                          /\ Goto(w, [j EXCEPT !.left = @ \ {t}],
                                  IF j.left = {t} THEN "tombLog" ELSE "tombRecords")
  BY DEF WriteTombs
<1> DEFINE pc == IF j.left = {t} THEN "tombLog" ELSE "tombRecords"
           n == WrittenJob(j, t, pc)
<1>4. job' = [job EXCEPT ![w] = n]
  BY <1>3 DEF Goto, WrittenJob
<1>5. pc \in TombSteps
  BY DEF TombSteps
<1>6. n \in TombJobs /\ n.pc = pc /\ n.todo = <<Shared>> /\ n.left = j.left \ {t}
  <2> HIDE DEF pc
  <2> QED
    BY <1>2, <1>5, TombGoes
<1>7. n.pc = "tombRecords" => n.left # {}
  <2> HIDE DEF n
  <2> QED
    BY <1>6
<1> HIDE DEF n
<1>8. JobsFit' /\ QueuesFit'
  BY <1>1, <1>4, <1>5, <1>6, <1>7, TombGoesOn
<1>9. records' \in [Keys -> Stored]
  <2>1. j.maps[t] \in [Ids -> Stored]
    BY <1>2 DEF Maps
  <2> QED
    BY <2>1, <1>3, WriteFileIs DEF Types, FilesTyped
<1>10. FilesTyped'
  BY <1>1, <1>9 DEF Types, FilesTyped, past
<1> QED
  BY <1>8, <1>10 DEF Types

LEMMA LogTombsTypes ==
  ASSUME Types, NEW w \in Workers, LogTombs(w)
  PROVE  Types'
<1> DEFINE j == job[w]
           n == GoneJob(j, "tombMeta")
<1>1. /\ j.pc = "tombLog" /\ j.pc \in TombSteps /\ job' = [job EXCEPT ![w] = n] /\ queue' = queue
      /\ log' = [log EXCEPT ![Shared] = @ \cup Legible(Shared, j.lines)]
      /\ torn' = [torn EXCEPT ![Shared] = FALSE]
      /\ logged' = [logged EXCEPT ![Shared] = @ \cup ToSet(j.lines)]
      /\ UNCHANGED <<tables, accounts, records, meta, acked, deleted, buried, disturbed>>
  BY DEF LogTombs, At, Goto, GoneJob, TombSteps
<1>2. /\ j \in TombJobs /\ j.lines \in Seq(Line) /\ ToSet(j.lines) \subseteq Line
  BY <1>1, TombFacts
<1>3. n \in TombJobs /\ n.pc = "tombMeta" /\ n.todo = <<Shared>>
  BY <1>2, TombGoes DEF TombSteps
<1>4. JobsFit' /\ QueuesFit'
  <2> HIDE DEF n
  <2> QED
    BY <1>1, <1>3, TombGoesOn DEF TombSteps
<1>5. FilesTyped'
  <2>1. Legible(Shared, j.lines) \subseteq Line
    BY <1>2, LinesAre
  <2>2. /\ log \in [Partitions -> SUBSET Line] /\ torn \in [Partitions -> BOOLEAN]
        /\ logged \in [Partitions -> SUBSET Line]
    BY DEF Types, FilesTyped
  <2>3. log' \in [Partitions -> SUBSET Line] /\ logged' \in [Partitions -> SUBSET Line]
    BY <1>1, <1>2, <2>1, <2>2
  <2>4. torn' \in [Partitions -> BOOLEAN]
    BY <1>1, <2>2
  <2> QED
    BY <1>1, <2>3, <2>4 DEF Types, FilesTyped
<1> QED
  BY <1>4, <1>5 DEF Types

LEMMA CountTombsTypes ==
  ASSUME Types, NEW w \in Workers, CountTombs(w)
  PROVE  Types'
<1> DEFINE j == job[w]
           n == [pc |-> "rmdir", kind |-> "account", user |-> j.user]
<1>1. /\ j.pc = "tombMeta" /\ j.pc \in TombSteps /\ job' = [job EXCEPT ![w] = n]
      /\ Switch(w, {Shared}, {}) /\ meta' = j.meta
      /\ UNCHANGED <<tables, accounts, records, log, torn, past, disturbed>>
  BY DEF CountTombs, At, TombSteps
<1>2. /\ j.user \in Users /\ OwnLock(j) = {"users"} /\ PartitionLock(j) = {Shared}
      /\ Holds(w, Shared) /\ j.meta \in Nums
  BY <1>1, TombFacts
<1>3. n \in RmdirJobs /\ n.pc = "rmdir"
  BY <1>2 DEF RmdirJobs
<1> HIDE DEF n
<1>4. n \in JobStates /\ OwnLock(n) = {"users"} /\ n.pc \notin Inside
  BY <1>3, LocksOfJobs DEF JobStates, Inside
<1>5. JobsFit' /\ QueuesFit'
  BY <1>1, <1>2, <1>3, <1>4, JobReleases
<1>6. FilesTyped'
  BY <1>1, <1>2 DEF Types, FilesTyped, past
<1> QED
  BY <1>5, <1>6 DEF Types

LEMMA RemoveDirTypes ==
  ASSUME Types, NEW w \in Workers, RemoveDir(w)
  PROVE  Types'
<1> DEFINE j == job[w]
           u == j.user
<1>1. j.pc = "rmdir" /\ j \in JobStates /\ j \in AccountJobs \cup RmdirJobs
  BY StepsOfJobs DEF RemoveDir, At, Types, JobsFit
<1>2. OwnLock(j) = {"users"} /\ PartitionLock(j) = {} /\ Asked(j) = {"users"} /\ u \in Users
  BY <1>1, LocksOfJobs DEF Inside, Asked, AccountJobs, RmdirJobs
<1>3. Holds(w, "users")
  BY <1>1, <1>2, OwnIsHeld
<1>4. JobsFit' /\ QueuesFit'
  BY <1>2, <1>3, JobEnds DEF RemoveDir
<1>5. FilesTyped'
  <2>1. /\ records' = [k \in Keys |-> IF k[1] = u THEN Absent ELSE records[k]]
        /\ log' = [log EXCEPT ![u] = {}] /\ torn' = [torn EXCEPT ![u] = FALSE]
        /\ UNCHANGED <<tables, accounts, meta, past, disturbed>>
    BY DEF RemoveDir
  <2>2. /\ records \in [Keys -> Stored] /\ log \in [Partitions -> SUBSET Line]
        /\ torn \in [Partitions -> BOOLEAN]
    BY DEF Types, FilesTyped
  <2>3. records' \in [Keys -> Stored]
    BY <2>1, <2>2, Typed
  <2>4. log' \in [Partitions -> SUBSET Line] /\ torn' \in [Partitions -> BOOLEAN]
    BY <2>1, <2>2
  <2> QED
    BY <2>1, <2>3, <2>4 DEF Types, FilesTyped, past
<1> QED
  BY <1>4, <1>5 DEF Types


LEMMA CreateTableTypes ==
  ASSUME Types, NEW t \in Tables, CreateTable(t)
  PROVE  Types'
<1>1. JobsFit' /\ QueuesFit'
  BY DEF CreateTable, Types, JobsFit, QueuesFit
<1>2. FilesTyped'
  BY DEF CreateTable, Types, FilesTyped, past
<1> QED
  BY <1>1, <1>2 DEF Types

LEMMA DeleteTableTypes ==
  ASSUME Types, NEW w \in Workers, NEW t \in Tables, DeleteTable(w, t)
  PROVE  Types'
<1> DEFINE dirs == <<Shared>> \o SetToSeq(Users)
           n == [pc |-> "drop", kind |-> "drop", table |-> t, todo |-> << >>, dirs |-> dirs]
<1>1. /\ Begins(w, "deleteTable") /\ job' = [job EXCEPT ![w] = n] /\ Switch(w, {}, {"tables"})
      /\ UNCHANGED <<files, past>> /\ disturbed' = disturbed
  BY DEF DeleteTable
<1>2. job[w] = Idle
  BY <1>1, BeginsIdle
<1>3. n \in DropJobs
  <2>1. dirs \in Seq(Partitions) /\ << >> \in Seq(Partitions)
    BY PartitionsListed
  <2> HIDE DEF dirs
  <2> QED
    BY <2>1 DEF DropJobs
<1>4. n.pc = "drop" /\ n.kind = "drop"
  OBVIOUS
<1> HIDE DEF n
<1>5. n \in JobStates /\ JobFits(n) /\ Asked(n) = {"tables"} /\ Had(n) = {}
  BY <1>3, <1>4 DEF JobStates, JobFits, Inside, Asked, Had, OwnLock, PartitionLock, Writing
<1>6. JobsFit' /\ QueuesFit'
  BY <1>1, <1>2, <1>5, JobAsks
<1>7. FilesTyped'
  BY <1>1, SameFiles DEF Types, FilesTyped
<1> QED
  BY <1>6, <1>7 DEF Types

LEMMA DropTableTypes ==
  ASSUME Types, NEW w \in Workers, DropTable(w)
  PROVE  Types'
<1> DEFINE j == job[w]
           t == j.table
<1>1. /\ j.pc = "drop" /\ Holds(w, "tables") /\ tables' = tables \ {t}
      /\ deleted' = deleted \cup {t}
      /\ UNCHANGED <<accounts, records, log, torn, meta, logged, acked, buried, disturbed>>
  BY DEF DropTable, At
<1>2. j \in JobStates /\ j \in DropJobs /\ t \in Tables /\ j.todo \in Seq(Partitions)
  BY <1>1, StepsOfJobs DEF Types, JobsFit, DropJobs
<1>3. OwnLock(j) = {"tables"} /\ PartitionLock(j) = {} /\ Asked(j) = {"tables"}
  BY <1>1, <1>2, LocksOfJobs DEF Inside, Asked
<1>4. FilesTyped'
  BY <1>1, <1>2 DEF Types, FilesTyped
<1>5. CASE Goto(w, j, "rm") /\ queue' = queue
  <2> DEFINE n == GoneJob(j, "rm")
  <2>1. job' = [job EXCEPT ![w] = n]
    BY <1>5 DEF Goto, GoneJob
  <2>2. n \in DropJobs /\ n.pc = "rm"
    BY <1>2, DropGoes DEF DropSteps
  <2> HIDE DEF n
  <2>3. n \in JobStates /\ OwnLock(n) = {"tables"} /\ PartitionLock(n) = {}
    BY <2>2, LocksOfJobs DEF JobStates, Inside
  <2>4. JobFits(n) /\ Asked(n) = Asked(j) /\ Had(n) = {"tables"}
    BY <1>3, <2>2, <2>3 DEF JobFits, Inside, Asked, Had, Writing
  <2>5. JobsFit' /\ QueuesFit'
    BY <1>1, <1>5, <2>1, <2>3, <2>4, JobStays
  <2> QED
    BY <2>5, <1>4 DEF Types
<1>6. CASE Finish(w, {"tables"})
  <2>1. JobsFit' /\ QueuesFit'
    BY <1>1, <1>3, <1>6, JobEnds
  <2> QED
    BY <2>1, <1>4 DEF Types
<1> QED
  BY <1>5, <1>6 DEF DropTable

LEMMA RemoveTableTypes ==
  ASSUME Types, NEW w \in Workers, RemoveTable(w)
  PROVE  Types'
<1> DEFINE j == job[w]
<1>1. j.pc = "rm" /\ UNCHANGED <<tables, accounts, log, torn, meta, past, disturbed>>
  BY DEF RemoveTable, At
<1>2. j \in JobStates /\ j \in DropJobs /\ j.todo \in Seq(Partitions) /\ j.dirs \in Seq(Partitions)
  BY <1>1, StepsOfJobs DEF Types, JobsFit, DropJobs
<1>3. OwnLock(j) = {"tables"} /\ PartitionLock(j) = {} /\ Asked(j) = {"tables"}
      /\ Holds(w, "tables")
  BY <1>1, <1>2, LocksOfJobs, OwnIsHeld DEF Inside, Asked
<1>4. CASE j.dirs = << >>
  <2> DEFINE todo == AllPartitions
             pc == IF todo = << >> THEN "purged" ELSE "purge"
             n == VisitedJob(j, todo, pc)
  <2>1. /\ job' = [job EXCEPT ![w] = n] /\ records' = records
        /\ Switch(w, PartitionLock(j), IF todo = << >> THEN {} ELSE {Head(todo)})
    BY <1>3, <1>4 DEF RemoveTable, Visit, Goto, VisitedJob
  <2>2. todo \in Seq(Partitions) /\ pc = "purge" /\ pc \in DropSteps
    BY AllPartitionsIs DEF DropSteps
  <2>3. n \in DropJobs /\ n.pc = pc /\ n.todo = todo
    <3> HIDE DEF pc
    <3> QED
      BY <1>2, <2>2, DropGoes
  <2> HIDE DEF n, todo
  <2>4. n \in JobStates /\ OwnLock(n) = OwnLock(j)
    BY <1>3, <2>3, LocksOfJobs DEF JobStates
  <2>5. "purge" \in Inside \ Writing /\ "purged" \notin Inside \cup {"group", "account", "drop"}
    BY DEF Inside, Writing
  <2>6. JobsFit' /\ QueuesFit'
    BY <1>3, <2>1, <2>2, <2>3, <2>4, <2>5, JobVisits
  <2>7. FilesTyped'
    BY <1>1, <2>1 DEF Types, FilesTyped, past
  <2> QED
    BY <2>6, <2>7 DEF Types
<1>5. CASE j.dirs # << >>
  <2> DEFINE n == EmptiedJob(j, "rm")
  <2>1. /\ job' = [job EXCEPT ![w] = n] /\ queue' = queue
        /\ WriteFile(Head(j.dirs), j.table, [i \in Ids |-> Absent])
    BY <1>5 DEF RemoveTable, Goto, EmptiedJob
  <2>2. n \in DropJobs /\ n.pc = "rm"
    BY <1>2, <1>5, DropGoes DEF DropSteps
  <2> HIDE DEF n
  <2>3. n \in JobStates /\ OwnLock(n) = {"tables"} /\ PartitionLock(n) = {}
    BY <2>2, LocksOfJobs DEF JobStates, Inside
  <2>4. JobFits(n) /\ Asked(n) = Asked(j) /\ Had(n) = {"tables"}
    BY <1>3, <2>2, <2>3 DEF JobFits, Inside, Asked, Had, Writing
  <2>5. JobsFit' /\ QueuesFit'
    BY <1>3, <2>1, <2>3, <2>4, JobStays
  <2>6. records' \in [Keys -> Stored]
    <3>1. [i \in Ids |-> Absent] \in [Ids -> Stored]
      BY Typed
    <3> QED
      BY <3>1, <2>1, WriteFileIs DEF Types, FilesTyped
  <2>7. FilesTyped'
    BY <1>1, <2>6 DEF Types, FilesTyped, past
  <2> QED
    BY <2>5, <2>7 DEF Types
<1> QED
  BY <1>4, <1>5

LEMMA PurgeTypes ==
  ASSUME Types, NEW w \in Workers, Purge(w)
  PROVE  Types'
<1> DEFINE j == job[w]
           p == Head(j.todo)
           todo == Tail(j.todo)
           kept == {e \in log[p] : e.table # j.table}
<1>1. j.pc = "purge" /\ Holds(w, p)
  BY DEF Purge, AtPartition, At
<1>2. /\ j \in JobStates /\ todo \in Seq(Partitions) /\ p \in Partitions /\ PartitionLock(j) = {p}
      /\ j.todo \in Seq(Partitions) /\ j.todo # << >>
  BY <1>1, InPartition DEF Inside
<1>3. j \in DropJobs
  BY <1>1, <1>2, StepsOfJobs
<1>4. OwnLock(j) = {"tables"} /\ Asked(j) = {"tables", p} /\ Holds(w, "tables")
  BY <1>1, <1>2, <1>3, LocksOfJobs, OwnIsHeld DEF Asked
<1>5. FilesTyped'
  <2>1. /\ log' = [log EXCEPT ![p] = kept]
        /\ torn' = [torn EXCEPT ![p] = @ /\ kept = log[p]]
        /\ UNCHANGED <<tables, accounts, records, meta, past, disturbed>>
    BY DEF Purge
  <2>2. log \in [Partitions -> SUBSET Line] /\ torn \in [Partitions -> BOOLEAN]
    BY DEF Types, FilesTyped
  <2>3. log' \in [Partitions -> SUBSET Line] /\ torn' \in [Partitions -> BOOLEAN]
    BY <1>2, <2>1, <2>2
  <2> QED
    BY <2>1, <2>3 DEF Types, FilesTyped, past
<1>6. CASE Len(j.todo) = 1
  <2>1. Finish(w, Asked(j))
    <3>1. {p, "tables"} = {"tables", p}
      OBVIOUS
    <3> QED
      BY <1>4, <1>6, <3>1 DEF Purge
  <2>2. JobsFit' /\ QueuesFit'
    BY <1>1, <1>4, <2>1, JobEnds
  <2> QED
    BY <2>2, <1>5 DEF Types
<1>7. CASE Len(j.todo) # 1
  <2> DEFINE pc == IF todo = << >> THEN "purged" ELSE "purge"
             n == VisitedJob(j, todo, pc)
  <2>1. /\ job' = [job EXCEPT ![w] = n]
        /\ Switch(w, {p}, IF todo = << >> THEN {} ELSE {Head(todo)})
    BY <1>7 DEF Purge, Visit, Goto, VisitedJob
  <2>2. todo # << >>
    <3>1. Len(todo) = Len(j.todo) - 1 /\ Len(j.todo) \in Nat \ {0}
      BY <1>2, HeadTailProperties, EmptySeq, LenProperties
    <3>2. Len(todo) # 0
      BY <3>1, <1>7
    <3> HIDE DEF todo
    <3> QED
      BY <3>2
  <2>3. pc = "purge" /\ pc \in DropSteps
    BY <2>2 DEF DropSteps
  <2>4. n \in DropJobs /\ n.pc = pc /\ n.todo = todo
    <3> HIDE DEF pc, todo
    <3> QED
      BY <1>2, <1>3, <2>3, DropGoes
  <2> HIDE DEF n, todo
  <2>5. n \in JobStates /\ OwnLock(n) = OwnLock(j)
    BY <1>4, <2>4, LocksOfJobs DEF JobStates
  <2>6. "purge" \in Inside \ Writing /\ "purged" \notin Inside \cup {"group", "account", "drop"}
    BY DEF Inside, Writing
  <2>7. JobsFit' /\ QueuesFit'
    <3>1. \A l \in OwnLock(j) : Holds(w, l)
      BY <1>4
    <3>2. \A l \in PartitionLock(j) : Holds(w, l)
      BY <1>1, <1>2
    <3>3. Switch(w, PartitionLock(j), IF todo = << >> THEN {} ELSE {Head(todo)})
      BY <1>2, <2>1
    <3> QED
      BY <1>2, <2>1, <2>4, <2>5, <2>6, <3>1, <3>2, <3>3, JobVisits
  <2> QED
    BY <2>7, <1>5 DEF Types
<1> QED
  BY <1>6, <1>7

\* A crash: part of what was being appended is in the logs.
Appending ==
  {w \in Workers : (At(w, "append") \/ At(w, "tombLog")) /\ job[w].lines # << >>}
AppendingAt(p) == {w \in Appending : Head(job[w].todo) = p}

LEMMA CrashIs ==
  ASSUME Types, Crash
  PROVE  \E n \in [Appending -> UNION {DOMAIN job[w].lines : w \in Appending}] :
           /\ \A w \in Appending :
                /\ n[w] \in DOMAIN job[w].lines /\ job[w].lines \in Seq(Line)
                /\ SubSeq(job[w].lines, 1, n[w] - 1) \in Seq(Line)
                /\ ToSet(SubSeq(job[w].lines, 1, n[w] - 1)) \subseteq ToSet(job[w].lines)
                /\ ToSet(SubSeq(job[w].lines, 1, n[w] - 1)) \subseteq Line
           /\ log' = [p \in Partitions |->
                log[p] \cup UNION {Legible(p, SubSeq(job[w].lines, 1, n[w] - 1)) : w \in AppendingAt(p)}]
           /\ logged' = [p \in Partitions |->
                logged[p] \cup UNION {ToSet(SubSeq(job[w].lines, 1, n[w] - 1)) : w \in AppendingAt(p)}]
<1>1. PICK n \in [Appending -> UNION {DOMAIN job[w].lines : w \in Appending}] :
           /\ \A w \in Appending : n[w] \in DOMAIN job[w].lines
           /\ log' = [p \in Partitions |->
                log[p] \cup UNION {Legible(p, SubSeq(job[w].lines, 1, n[w] - 1)) : w \in AppendingAt(p)}]
           /\ logged' = [p \in Partitions |->
                logged[p] \cup UNION {ToSet(SubSeq(job[w].lines, 1, n[w] - 1)) : w \in AppendingAt(p)}]
  BY Zenon DEF Crash, Appending, AppendingAt
<1>2. ASSUME NEW w \in Appending
      PROVE  /\ job[w].lines \in Seq(Line)
             /\ SubSeq(job[w].lines, 1, n[w] - 1) \in Seq(Line)
             /\ ToSet(SubSeq(job[w].lines, 1, n[w] - 1)) \subseteq ToSet(job[w].lines)
             /\ ToSet(SubSeq(job[w].lines, 1, n[w] - 1)) \subseteq Line
  <2> DEFINE lines == job[w].lines
             m == n[w] - 1
  <2>1. w \in Workers /\ job[w] \in JobStates /\ job[w].pc \in {"append", "tombLog"}
    BY DEF Appending, At, Types, JobsFit
  <2>2. lines \in Seq(Line)
    BY <2>1, StepsOfJobs DEF ApplyJobs, TombJobs
  <2>3. Len(lines) \in Nat /\ DOMAIN lines = 1..Len(lines)
    BY <2>2, LenProperties
  <2>4. m \in 0..Len(lines)
    BY <1>1, <2>3
  <2> HIDE DEF m, lines
  <2>5. /\ SubSeq(lines, 1, m) \in Seq(Line) /\ Len(SubSeq(lines, 1, m)) = m
        /\ \A i \in 1..m : SubSeq(lines, 1, m)[i] = lines[i]
    <3>1. \A i \in 1..m : lines[i] \in Line
      BY <2>2, <2>3, <2>4, ElementOfSeq
    <3> QED
      BY <2>2, <2>3, <2>4, <3>1, SubSeqProperties
  <2>6. ToSet(SubSeq(lines, 1, m)) \subseteq ToSet(lines)
    BY <2>2, <2>3, <2>4, <2>5, LenProperties DEF ToSet
  <2>7. ToSet(lines) \subseteq Line
    BY <2>2, LinesAre
  <2> QED
    BY <2>2, <2>5, <2>6, <2>7 DEF m, lines
<1> QED
  BY <1>1, <1>2

LEMMA CrashTypes ==
  ASSUME Types, Crash
  PROVE  Types'
<1>1. PICK n \in [Appending -> UNION {DOMAIN job[w].lines : w \in Appending}] :
           /\ \A w \in Appending :
                /\ SubSeq(job[w].lines, 1, n[w] - 1) \in Seq(Line)
                /\ ToSet(SubSeq(job[w].lines, 1, n[w] - 1)) \subseteq Line
           /\ log' = [p \in Partitions |->
                log[p] \cup UNION {Legible(p, SubSeq(job[w].lines, 1, n[w] - 1)) : w \in AppendingAt(p)}]
           /\ logged' = [p \in Partitions |->
                logged[p] \cup UNION {ToSet(SubSeq(job[w].lines, 1, n[w] - 1)) : w \in AppendingAt(p)}]
  BY CrashIs
<1>2. /\ log \in [Partitions -> SUBSET Line] /\ logged \in [Partitions -> SUBSET Line]
  BY DEF Types, FilesTyped
<1>3. log' \in [Partitions -> SUBSET Line] /\ logged' \in [Partitions -> SUBSET Line]
  <2> SUFFICES ASSUME NEW p \in Partitions
               PROVE  /\ UNION {Legible(p, SubSeq(job[w].lines, 1, n[w] - 1)) : w \in AppendingAt(p)} \subseteq Line
                      /\ UNION {ToSet(SubSeq(job[w].lines, 1, n[w] - 1)) : w \in AppendingAt(p)} \subseteq Line
    BY <1>1, <1>2
  <2>1. ASSUME NEW w \in AppendingAt(p)
        PROVE  /\ Legible(p, SubSeq(job[w].lines, 1, n[w] - 1)) \subseteq Line
               /\ ToSet(SubSeq(job[w].lines, 1, n[w] - 1)) \subseteq Line
    <3>1. w \in Appending
      BY DEF AppendingAt
    <3> QED
      BY <3>1, <1>1, LinesAre
  <2> QED
    BY <2>1
<1>4. FilesTyped'
  <2>1. torn' \in [Partitions -> BOOLEAN] /\ disturbed' \in BOOLEAN
    BY DEF Crash, Disturb, Types, FilesTyped
  <2>2. UNCHANGED <<tables, accounts, records, meta, acked, deleted, buried>>
    BY DEF Crash
  <2> QED
    BY <1>3, <2>1, <2>2 DEF Types, FilesTyped
<1>5. queue' = [l \in Locks |-> << >>] /\ job' = [w \in Workers |-> Idle]
  BY DEF Crash
<1>6. Idle \in JobStates /\ JobFits(Idle) /\ Asked(Idle) = {} /\ Had(Idle) = {}
  BY DEF JobStates, Idle, JobFits, Inside, Asked, OwnLock, PartitionLock, Had, Writing
<1>7. JobsFit'
  BY <1>5, <1>6 DEF JobsFit
<1>8. QueuesFit'
  <2>1. ASSUME NEW l \in Locks PROVE QueueFits(<< >>, l, job')
    <3>1. << >> \in Seq(Workers) /\ IsInjective(<< >>) /\ ToSet(<< >>) = {}
      BY DEF IsInjective, ToSet
    <3> QED
      BY <3>1, <1>5, <1>6 DEF QueueFits
  <2> QED
    BY <1>5, <2>1 DEF QueuesFit
<1> QED
  BY <1>4, <1>7, <1>8 DEF Types

LEMMA NextTypes == Types /\ [Next]_vars => Types'
<1> SUFFICES ASSUME Types, [Next]_vars PROVE Types'
  OBVIOUS
<1>1. ASSUME NEW w \in Workers, Start(w) PROVE Types'
  BY <1>1, ApplyTypes, PruneTypes, DiffTypes, DeleteUserTypes, DeleteTableTypes DEF Start
<1>2. ASSUME NEW w \in Workers, Step(w) PROVE Types'
  BY <1>2, GroupTypes, StageTypes, AppendTypes, WriteRecordsTypes, LeaveTypes, WriteMetaTypes,
     ReturnTypes, CutTypes, CutMetaTypes, ReadLogTypes, AnswerTypes, DropAccountTypes, TombsTypes,
     WriteTombsTypes, LogTombsTypes, CountTombsTypes, RemoveDirTypes, DropTableTypes,
     RemoveTableTypes, PurgeTypes DEF Step
<1>3. CASE UNCHANGED vars
  BY <1>3 DEF vars, files, past, Types, FilesTyped, JobsFit, QueuesFit
<1> QED
  BY <1>1, <1>2, <1>3, CreateTableTypes, CrashTypes DEF Next

\* Who waits for a lock and who has it is what the jobs say, and everything else
\* is of its type (file.ts:479-497).
THEOREM LocksAreKept == Spec => []Types
BY InitTypes, NextTypes, PTL DEF Spec

\* The files and queues are of their types throughout.
THEOREM FileTypes == Spec => []TypeOK
<1>1. Types => TypeOK
  BY DEF Types, FilesTyped, QueuesFit, QueueFits, Nums, TypeOK
<1> QED
  BY <1>1, LocksAreKept, PTL


-----------------------------------------------------------------------------
(* Jobs do not block one another                                           *)

\* Who is first in a queue has asked for the lock.
LEMMA FirstHasAsked ==
  ASSUME Types, NEW l \in Locks, NEW v \in Workers, l \in Asked(job[v])
  PROVE  \E u \in Workers : Holds(u, l) /\ l \in Asked(job[u])
<1>1. QueueFits(queue[l], l, job)
  BY DEF Types, QueuesFit
<1>2. v \in ToSet(queue[l])
  BY <1>1 DEF QueueFits
<1>3. queue[l] # << >>
  BY <1>2 DEF ToSet
<1>4. Head(queue[l]) \in ToSet(queue[l])
  BY <1>1, <1>3, Left DEF QueueFits
<1> QED
  BY <1>1, <1>3, <1>4 DEF QueueFits, Holds

LEMMA HoldsAll ==
  ASSUME Types, NEW u \in Workers, \A l \in Asked(job[u]) : Holds(u, l)
  PROVE  ~Waits(u)
<1> SUFFICES ASSUME NEW l \in Locks, u \in ToSet(queue[l]) PROVE Holds(u, l)
  BY DEF Waits
<1>1. QueueFits(queue[l], l, job)
  BY DEF Types, QueuesFit
<1> QED
  BY <1>1 DEF QueueFits

LEMMA OneOwnLock ==
  \A j : \A l, k \in OwnLock(j) : l = k
BY DEF OwnLock

LEMMA TypesSomeMoves == Types => SomeJobMoves
<1> SUFFICES ASSUME Types, NEW w \in Workers, ~At(w, "idle")
             PROVE  \E u \in Workers : ~At(u, "idle") /\ ~Waits(u)
  BY DEF SomeJobMoves
<1>1. \A u \in Workers : job[u] \in JobStates /\ JobFits(job[u])
  BY DEF Types, JobsFit
<1>2. \A u \in Workers : Asked(job[u]) # {} => ~At(u, "idle")
  BY <1>1, KindsOfJobs, LocksOfJobs DEF At
<1>3. CASE \E v \in Workers : job[v].pc \in Inside
  <2>1. PICK v \in Workers : job[v].pc \in Inside
    BY <1>3
  <2> DEFINE p == Head(job[v].todo)
  <2>2. p \in Partitions /\ p \in Locks /\ p \in Asked(job[v])
    BY <2>1, InPartition, TheLocks DEF Asked
  <2>3. PICK u \in Workers : Holds(u, p) /\ p \in Asked(job[u])
    BY <2>2, FirstHasAsked
  <2>4. p \in PartitionLock(job[u])
    <3>1. OwnLock(job[u]) \subseteq {"users", "tables", "apply"}
      BY DEF OwnLock
    <3> QED
      BY <3>1, <2>2, <2>3, TheLocks DEF Asked
  <2>5. job[u].pc \in Inside /\ PartitionLock(job[u]) = {p}
    BY <2>4 DEF PartitionLock
  <2>6. \A l \in OwnLock(job[u]) : Holds(u, l)
    BY <2>5, OwnIsHeld DEF Inside
  <2>7. \A l \in Asked(job[u]) : Holds(u, l)
    BY <2>3, <2>5, <2>6 DEF Asked
  <2> QED
    BY <2>3, <2>7, <1>2, HoldsAll
<1>4. CASE \A v \in Workers : job[v].pc \notin Inside
  <2>1. \A v \in Workers : Asked(job[v]) = OwnLock(job[v])
    BY <1>1, <1>4, LocksOfJobs DEF Asked
  <2>2. CASE OwnLock(job[w]) = {}
    BY <2>1, <2>2, HoldsAll
  <2>3. CASE OwnLock(job[w]) # {}
    <3>1. PICK l : l \in OwnLock(job[w])
      BY <2>3
    <3>2. l \in Locks
      BY <3>1, TheLocks DEF OwnLock
    <3>3. PICK u \in Workers : Holds(u, l) /\ l \in Asked(job[u])
      BY <2>1, <3>1, <3>2, FirstHasAsked
    <3>4. \A k \in Asked(job[u]) : Holds(u, k)
      BY <2>1, <3>3, OneOwnLock
    <3> QED
      BY <3>3, <3>4, <1>2, HoldsAll
  <2> QED
    BY <2>2, <2>3
<1> QED
  BY <1>3, <1>4

\* While there are jobs, one of them can go on: a job takes the lock of one
\* partition at a time, after its own, so that whoever is first in the queue of
\* a partition waits for nothing (file.ts:479-497).
THEOREM SomeJobAlwaysMoves == Spec => []SomeJobMoves
BY LocksAreKept, TypesSomeMoves, PTL

-----------------------------------------------------------------------------
(* What a step makes of its job                                            *)

\* Where the step leaves its job and all others.
Becomes(w, n) == job'[w] = n /\ \A v \in Workers : v # w => job'[v] = job[v]

LEMMA GotoIs ==
  ASSUME Types, NEW w \in Workers, NEW n, job' = [job EXCEPT ![w] = n]
  PROVE  Becomes(w, n)
BY DEF Types, JobsFit, Becomes

LEMMA FinishIs ==
  ASSUME Types, NEW w \in Workers, NEW freed, Finish(w, freed)
  PROVE  Becomes(w, Idle)
BY GotoIs DEF Finish

\* The batch of n is that of j.
Follows(n, j) == n \in ApplyJobs /\ n.actor = j.actor /\ n.batch = j.batch

LEMMA ApplyIs ==
  ASSUME Types, NEW w \in Workers, NEW a \in Actors, NEW batch \in Batches, Apply(w, a, batch)
  PROVE  \E n \in ApplyJobs : Becomes(w, n) /\ n.pc = "group" /\ n.applied = {}
<1> DEFINE n == [pc |-> "group", kind |-> "apply", actor |-> a, batch |-> batch,
                 meta |-> [seq |-> 0, min |-> 0], todo |-> << >>, maps |-> << >>,
                 left |-> {}, lines |-> << >>, applied |-> {}]
<1>1. job' = [job EXCEPT ![w] = n]
  BY DEF Apply
<1>2. [seq |-> 0, min |-> 0] \in Nums
  BY Typed
<1>3. n \in ApplyJobs /\ n.pc = "group" /\ n.applied = {}
  BY <1>2 DEF ApplyJobs
<1> HIDE DEF n
<1> QED
  BY <1>1, <1>3, GotoIs

LEMMA GroupIs ==
  ASSUME Types, NEW w \in Workers, Group(w)
  PROVE  \/ Becomes(w, Idle)
         \/ \E n : /\ Becomes(w, n) /\ Follows(n, job[w])
                   /\ n.pc \in {"stage", "meta"} /\ n.meta = meta /\ n.applied = job[w].applied
<1> DEFINE j == job[w]
           todo == Grouped(j.actor, j.batch)
           pc == IF todo = << >> THEN "meta" ELSE "stage"
           n == GroupedJob(j, meta, todo, pc)
<1>1. j \in ApplyJobs /\ j.actor \in Actors /\ j.batch \in Batches /\ meta \in Nums
  BY StepsOfJobs DEF Group, At, Types, JobsFit, FilesTyped, ApplyJobs
<1>2. todo \in Seq(Partitions) /\ pc \in ApplySteps /\ pc \in {"stage", "meta"}
  BY <1>1, Typed, GroupedTyped DEF Types, FilesTyped, ApplySteps
<1>3. CASE Finish(w, {ApplyLock(j.actor)})
  BY <1>3, FinishIs
<1>4. CASE Visit(w, [j EXCEPT !.meta = meta], {}, todo, "stage", "meta")
  <2>1. job' = [job EXCEPT ![w] = n]
    BY <1>4 DEF Visit, Goto, GroupedJob
  <2>2. /\ n \in ApplyJobs /\ n.pc = pc /\ n.meta = meta /\ n.applied = j.applied
        /\ n.actor = j.actor /\ n.batch = j.batch
    <3> HIDE DEF pc, todo
    <3> QED
      BY <1>1, <1>2, ApplyGroups DEF IsApply
  <2> HIDE DEF n
  <2> QED
    BY <1>2, <2>1, <2>2, GotoIs DEF Follows
<1> QED
  BY <1>3, <1>4 DEF Group

LEMMA StageIs ==
  ASSUME Types, NEW w \in Workers, Stage(w)
  PROVE  LET j == job[w]
             st == Staged(j.actor, Head(j.todo), j.batch, j.meta)
         IN  \/ ~st.ok /\ Becomes(w, Idle) /\ Disturb(j.applied # {})
             \/ /\ st.ok /\ UNCHANGED disturbed
                /\ \E n : /\ Becomes(w, n) /\ Follows(n, j) /\ n.pc = "append"
                          /\ n.meta = st.meta /\ n.todo = j.todo /\ n.maps = st.maps
                          /\ n.left = st.left /\ n.lines = st.lines /\ n.applied = j.applied
<1> DEFINE j == job[w]
           p == Head(j.todo)
           st == Staged(j.actor, p, j.batch, j.meta)
           n == StagedJob(j, st.maps, st.left, st.meta, st.lines, "append")
<1>1. j \in ApplyJobs /\ j.actor \in Actors /\ j.batch \in Batches /\ j.meta \in Nums
  BY StepsOfJobs DEF Stage, AtPartition, At, Types, JobsFit, ApplyJobs
<1>2. p \in Partitions
  BY InPartition DEF Stage, AtPartition, At, Inside
<1>3. st \in StageStates
  BY <1>1, <1>2, Typed, StagedTyped DEF Types, FilesTyped
<1>4. CASE st.ok
  <2>1. job' = [job EXCEPT ![w] = n] /\ UNCHANGED disturbed
    BY <1>4 DEF Stage, Goto, Then, StagedJob
  <2>2. n \in ApplyJobs /\ IsApply(n, "append", j.actor, j.batch, st.meta, j.todo, st.maps, st.left,
                                   st.lines, j.applied)
    <3> HIDE DEF st
    <3> QED
      BY <1>1, <1>3, ApplyStages DEF StageStates, ApplySteps
  <2> HIDE DEF n, st
  <2>3. Becomes(w, n) /\ Follows(n, j)
    BY <2>1, <2>2, GotoIs DEF Follows, IsApply
  <2> QED
    BY <1>4, <2>1, <2>2, <2>3 DEF IsApply, st
<1>5. CASE ~st.ok
  <2>1. Becomes(w, Idle) /\ Disturb(j.applied # {})
    BY <1>5, FinishIs DEF Stage
  <2> QED
    BY <1>5, <2>1
<1> QED
  BY <1>4, <1>5

\* The same numbers, changes and partition.
GoesOn(n, j) ==
  Follows(n, j) /\ n.meta = j.meta /\ n.todo = j.todo /\ n.maps = j.maps /\ n.lines = j.lines
    /\ n.applied = j.applied

LEMMA AppendIs ==
  ASSUME Types, NEW w \in Workers, AppendLog(w)
  PROVE  \E n : Becomes(w, n) /\ GoesOn(n, job[w]) /\ n.pc = "records" /\ n.left = job[w].left
<1> DEFINE j == job[w]
           n == GoneJob(j, "records")
<1>1. job' = [job EXCEPT ![w] = n]
  BY DEF AppendLog, Goto, Then, GoneJob
<1>2. j \in ApplyJobs
  BY ApplyInPartition DEF AppendLog, At
<1>3. n \in ApplyJobs /\ IsApply(n, "records", j.actor, j.batch, j.meta, j.todo, j.maps, j.left,
                                 j.lines, j.applied)
  BY <1>2, ApplyGoes DEF ApplySteps
<1> HIDE DEF n
<1> QED
  BY <1>1, <1>3, GotoIs DEF IsApply, GoesOn, Follows

LEMMA WriteRecordsIs ==
  ASSUME Types, NEW w \in Workers, WriteRecords(w)
  PROVE  LET j == job[w]
         IN  \/ /\ j.left = {} /\ records' = records
                /\ \E n : Becomes(w, n) /\ GoesOn(n, j) /\ n.pc = "leave" /\ n.left = {}
             \/ \E t \in j.left : \E n :
                  /\ WriteFile(Head(j.todo), t, j.maps[t])
                  /\ Becomes(w, n) /\ GoesOn(n, j) /\ n.pc = "records" /\ n.left = j.left \ {t}
<1> DEFINE j == job[w]
           p == Head(j.todo)
<1>1. j \in ApplyJobs
  BY ApplyInPartition DEF WriteRecords, At
<1>2. CASE j.left = {}
  <2> DEFINE n == GoneJob(j, "leave")
  <2>1. job' = [job EXCEPT ![w] = n] /\ records' = records
    BY <1>2 DEF WriteRecords, Goto, Then, GoneJob
  <2>2. n \in ApplyJobs /\ IsApply(n, "leave", j.actor, j.batch, j.meta, j.todo, j.maps, j.left,
                                   j.lines, j.applied)
    BY <1>1, ApplyGoes DEF ApplySteps
  <2> HIDE DEF n
  <2> QED
    BY <1>2, <2>1, <2>2, GotoIs DEF IsApply, GoesOn, Follows
<1>3. CASE j.left # {}
  <2>1. PICK t \in j.left : WriteFile(p, t, j.maps[t])
                            /\ Goto(w, [j EXCEPT !.left = @ \ {t}], "records")
    BY <1>3 DEF WriteRecords
  <2> DEFINE n == WrittenJob(j, t, "records")
  <2>2. job' = [job EXCEPT ![w] = n]
    BY <2>1 DEF Goto, WrittenJob
  <2>3. n \in ApplyJobs /\ IsApply(n, "records", j.actor, j.batch, j.meta, j.todo, j.maps,
                                   j.left \ {t}, j.lines, j.applied)
    BY <1>1, ApplyWrites DEF ApplySteps
  <2> HIDE DEF n
  <2> QED
    BY <2>1, <2>2, <2>3, GotoIs DEF IsApply, GoesOn, Follows
<1> QED
  BY <1>2, <1>3

LEMMA LeaveIs ==
  ASSUME Types, NEW w \in Workers, Leave(w)
  PROVE  \E n : /\ Becomes(w, n) /\ Follows(n, job[w]) /\ n.pc \in {"stage", "meta"}
                /\ n.meta = job[w].meta /\ n.applied = job[w].applied \cup ToSet(job[w].lines)
<1> DEFINE j == job[w]
           todo == Tail(j.todo)
           pc == IF todo = << >> THEN "meta" ELSE "stage"
           n == LeftJob(j, ToSet(j.lines), todo, pc)
<1>1. j.pc = "leave" /\ job' = [job EXCEPT ![w] = n]
  BY DEF Leave, At, Visit, Goto, LeftJob
<1>2. j \in ApplyJobs /\ j.todo \in Seq(Partitions) /\ j.todo # << >> /\ ToSet(j.lines) \subseteq Line
  BY <1>1, ApplyInPartition
<1>3. todo \in Seq(Partitions) /\ pc \in ApplySteps /\ pc \in {"stage", "meta"}
  BY <1>2, HeadTailProperties DEF ApplySteps
<1>4. n \in ApplyJobs /\ IsApply(n, pc, j.actor, j.batch, j.meta, todo, << >>, j.left, << >>,
                                 j.applied \cup ToSet(j.lines))
  <2> HIDE DEF pc, todo
  <2> QED
    BY <1>2, <1>3, ApplyLeaves
<1> HIDE DEF n, pc, todo
<1> QED
  BY <1>1, <1>3, <1>4, GotoIs DEF IsApply, Follows

LEMMA WriteMetaIs ==
  ASSUME Types, NEW w \in Workers, WriteMeta(w)
  PROVE  LET j == job[w]
         IN  \E n : /\ Becomes(w, n) /\ Follows(n, j) /\ n.applied = j.applied
                    /\ \/ n.pc = "return" /\ n.meta = j.meta /\ UNCHANGED disturbed
                       \/ /\ n.pc \in {"cut", "cutMeta"} /\ n.meta.seq = j.meta.seq
                          /\ n.meta.min > j.meta.min /\ n.meta \in Nums
                          /\ Disturb(\E v \in Workers : At(v, "read"))
<1> DEFINE j == job[w]
           target == j.meta.seq - MaxHistory
           todo == AllPartitions
           pc == IF todo = << >> THEN "cutMeta" ELSE "cut"
<1>1. j \in ApplyJobs /\ j.meta \in Nums
  BY StepsOfJobs DEF WriteMeta, At, Types, JobsFit, ApplyJobs
<1>2. CASE /\ target > j.meta.min /\ Disturb(\E v \in Workers : At(v, "read"))
           /\ Visit(w, [j EXCEPT !.meta.min = target], {}, AllPartitions, "cut", "cutMeta")
  <2> DEFINE n == CompactedJob(j, target, todo, pc)
             m == [j.meta EXCEPT !.min = target]
  <2>1. job' = [job EXCEPT ![w] = n]
    BY <1>2 DEF Visit, Goto, CompactedJob
  <2>2. todo \in Seq(Partitions) /\ pc \in ApplySteps /\ pc \in {"cut", "cutMeta"}
    BY AllPartitionsIs DEF ApplySteps
  <2>3. target \in Nat /\ target <= j.meta.seq + 1
    BY <1>1, <1>2, CompactedIs
  <2>4. n \in ApplyJobs /\ IsApply(n, pc, j.actor, j.batch, m, todo, j.maps, j.left, j.lines,
                                   j.applied)
    <3> HIDE DEF pc, target, j
    <3> QED
      BY <1>1, <2>2, <2>3, ApplyCompacts
  <2>5. m.seq = j.meta.seq /\ m.min = target /\ m \in Nums
    <3> HIDE DEF target, j
    <3> QED
      BY <1>1, <2>3 DEF Nums
  <2> HIDE DEF n, m, pc, todo
  <2>6. Becomes(w, n) /\ Follows(n, j) /\ n.applied = j.applied /\ n.pc = pc /\ n.meta = m
    BY <2>1, <2>4, GotoIs DEF IsApply, Follows
  <2> QED
    BY <1>2, <2>2, <2>5, <2>6
<1>3. CASE Goto(w, j, "return") /\ UNCHANGED disturbed
  <2> DEFINE n == GoneJob(j, "return")
  <2>1. job' = [job EXCEPT ![w] = n]
    BY <1>3 DEF Goto, GoneJob
  <2>2. n \in ApplyJobs /\ IsApply(n, "return", j.actor, j.batch, j.meta, j.todo, j.maps, j.left,
                                   j.lines, j.applied)
    BY <1>1, ApplyGoes DEF ApplySteps
  <2> HIDE DEF n
  <2> QED
    BY <1>3, <2>1, <2>2, GotoIs DEF IsApply, Follows
<1> QED
  BY <1>2, <1>3 DEF WriteMeta

\* Of the two kinds of jobs that cut logs, n is of that of j.
CutsOn(n, j) ==
  \/ Follows(n, j) /\ n.applied = j.applied /\ j \in ApplyJobs
  \/ n \in PruneJobs /\ j \in PruneJobs

LEMMA CutIs ==
  ASSUME Types, NEW w \in Workers, Cut(w)
  PROVE  \E n : /\ Becomes(w, n) /\ CutsOn(n, job[w])
                /\ n.pc \in {"cut", "cutMeta"} /\ n.meta = job[w].meta
<1> DEFINE j == job[w]
           todo == Tail(j.todo)
           pc == IF todo = << >> THEN "cutMeta" ELSE "cut"
           n == VisitedJob(j, todo, pc)
<1>1. j.pc = "cut" /\ job' = [job EXCEPT ![w] = n]
  BY DEF Cut, AtPartition, At, Visit, Goto, VisitedJob
<1>2. j \in JobStates /\ todo \in Seq(Partitions)
  BY <1>1, InPartition DEF Inside
<1>3. j \in ApplyJobs \cup PruneJobs
  BY <1>1, <1>2, StepsOfJobs
<1>4. pc \in ApplySteps /\ pc \in PruneSteps /\ pc \in {"cut", "cutMeta"}
  BY DEF ApplySteps, PruneSteps
<1>5. n.pc = pc /\ n.meta = j.meta /\ CutsOn(n, j)
  <2> HIDE DEF pc, todo
  <2> QED
    BY <1>2, <1>3, <1>4, ApplyVisits, PruneVisits DEF IsApply, CutsOn, Follows
<1> HIDE DEF n, pc
<1> QED
  BY <1>1, <1>4, <1>5, GotoIs

LEMMA CutMetaIs ==
  ASSUME Types, NEW w \in Workers, CutMeta(w)
  PROVE  \E n : Becomes(w, n) /\ CutsOn(n, job[w]) /\ n.pc = "return"
<1> DEFINE j == job[w]
           n == GoneJob(j, "return")
<1>1. job' = [job EXCEPT ![w] = n]
  BY DEF CutMeta, Goto, GoneJob
<1>2. j \in ApplyJobs \cup PruneJobs
  BY StepsOfJobs DEF CutMeta, At, Types, JobsFit
<1>3. j.todo \in Seq(Partitions) /\ "return" \in ApplySteps /\ "return" \in PruneSteps
  BY <1>2 DEF ApplyJobs, PruneJobs, ApplySteps, PruneSteps
<1>4. n.pc = "return" /\ CutsOn(n, j)
  BY <1>2, <1>3, ApplyGoes, PruneVisits DEF IsApply, CutsOn, Follows
<1> HIDE DEF n
<1> QED
  BY <1>1, <1>4, GotoIs

LEMMA PruneIs ==
  ASSUME Types, NEW w \in Workers, NEW keep \in KeepCounts, Prune(w, keep)
  PROVE  \E n \in PruneJobs :
           /\ Becomes(w, n) /\ n.pc \in {"cut", "cutMeta"}
           /\ n.meta.seq = meta.seq /\ n.meta.min > meta.min
<1> DEFINE target == IF meta.seq < keep THEN 1 ELSE meta.seq - keep + 1
           m == [meta EXCEPT !.min = target]
           j == [pc |-> "cut", kind |-> "prune", todo |-> << >>, meta |-> m]
           todo == AllPartitions
           pc == IF todo = << >> THEN "cutMeta" ELSE "cut"
           n == VisitedJob(j, todo, pc)
<1>1. meta.seq > 0 /\ target > meta.min /\ Visit(w, j, {}, todo, "cut", "cutMeta")
  BY DEF Prune
<1>2. m \in Nums /\ m.seq = meta.seq /\ m.min = target
  BY <1>1, FileAssumption DEF Types, FilesTyped, Nums
<1>3. j \in PruneJobs /\ j.meta = m
  <2>1. << >> \in Seq(Partitions)
    OBVIOUS
  <2> HIDE DEF m
  <2> QED
    BY <1>2, <2>1 DEF PruneJobs
<1>4. job' = [job EXCEPT ![w] = n]
  BY <1>1 DEF Visit, Goto, VisitedJob
<1> HIDE DEF j
<1>5. todo \in Seq(Partitions) /\ pc \in PruneSteps /\ pc \in {"cut", "cutMeta"}
  BY AllPartitionsIs DEF PruneSteps
<1>6. n \in PruneJobs /\ n.pc = pc /\ n.meta = m
  <2> HIDE DEF pc, m
  <2> QED
    BY <1>3, <1>5, PruneVisits
<1> HIDE DEF n, m, pc
<1> QED
  BY <1>1, <1>2, <1>4, <1>5, <1>6, GotoIs

LEMMA DiffIs ==
  ASSUME Types, NEW w \in Workers, NEW a \in Actors, NEW from \in 1..(meta.seq + 1),
         Diff(w, a, from)
  PROVE  \E n \in DiffJobs :
           /\ Becomes(w, n) /\ n.actor = a /\ n.meta = meta /\ n.pc = "read"
           /\ {Shared} \cup ({a} \cap Users) \subseteq ToSet(n.todo)
<1> DEFINE j == [pc |-> "read", kind |-> "diff", actor |-> a, from |-> from, meta |-> meta,
                 todo |-> << >>, got |-> {}]
           todo == IF a \in Users THEN <<Shared, a>> ELSE <<Shared>>
           pc == IF todo = << >> THEN "answer" ELSE "read"
           n == VisitedJob(j, todo, pc)
<1>1. Visit(w, j, {}, todo, "read", "answer")
  BY DEF Diff
<1>2. meta \in Nums /\ from \in Nat
  BY DEF Types, FilesTyped, Nums
<1>3. todo \in Seq(Partitions) /\ pc = "read" /\ {Shared} \cup ({a} \cap Users) \subseteq ToSet(todo)
  <2>1. CASE a \in Users
    <3>1. <<Shared, a>> \in Seq(Partitions) /\ ToSet(<<Shared, a>>) = {Shared, a}
      BY <2>1 DEF Partitions, ToSet
    <3> QED
      BY <2>1, <3>1
  <2>2. CASE a \notin Users
    <3>1. <<Shared>> \in Seq(Partitions) /\ ToSet(<<Shared>>) = {Shared}
      BY DEF Partitions, ToSet
    <3> QED
      BY <2>2, <3>1
  <2> QED
    BY <2>1, <2>2
<1>4. pc \in DiffSteps
  BY <1>3 DEF DiffSteps
<1>5. job' = [job EXCEPT ![w] = n]
  BY <1>1 DEF Visit, Goto, VisitedJob
<1>6. n \in DiffJobs /\ n.pc = pc /\ n.todo = todo /\ n.actor = a /\ n.meta = meta
  <2> HIDE DEF pc, todo
  <2> QED
    BY <1>2, <1>3, <1>4, DiffStarts
<1> HIDE DEF n, todo, pc
<1> QED
  BY <1>3, <1>5, <1>6, GotoIs

LEMMA ReadLogIs ==
  ASSUME Types, NEW w \in Workers, ReadLog(w)
  PROVE  LET j == job[w]
         IN  \E n \in DiffJobs :
               /\ Becomes(w, n) /\ n.actor = j.actor /\ n.from = j.from /\ n.meta = j.meta
               /\ n.got = j.got \cup {e \in log[Head(j.todo)] : e.seq > j.from}
               /\ n.todo = Tail(j.todo) /\ n.pc \in {"read", "answer"}
               /\ n.pc = "answer" => n.todo = << >>
<1> DEFINE j == job[w]
           p == Head(j.todo)
           todo == Tail(j.todo)
           pc == IF todo = << >> THEN "answer" ELSE "read"
           more == {e \in log[p] : e.seq > j.from}
           n == ReadJob(j, more, todo, pc)
<1>1. j.pc = "read" /\ job' = [job EXCEPT ![w] = n]
  BY DEF ReadLog, AtPartition, At, Visit, Goto, ReadJob
<1>2. j \in JobStates /\ todo \in Seq(Partitions) /\ p \in Partitions
  BY <1>1, InPartition DEF Inside
<1>3. j \in DiffJobs
  BY <1>1, <1>2, StepsOfJobs
<1>4. /\ pc \in DiffSteps /\ more \in SUBSET Line /\ pc \in {"read", "answer"}
      /\ pc = "answer" => todo = << >>
  BY <1>2 DEF DiffSteps, Types, FilesTyped
<1>5. /\ n \in DiffJobs /\ n.pc = pc /\ n.todo = todo /\ n.actor = j.actor /\ n.from = j.from
      /\ n.meta = j.meta /\ n.got = j.got \cup more
  <2> HIDE DEF pc, todo, more
  <2> QED
    BY <1>2, <1>3, <1>4, DiffVisits
<1> HIDE DEF n, pc
<1> QED
  BY <1>1, <1>4, <1>5, GotoIs

LEMMA DeleteUserIs ==
  ASSUME Types, NEW w \in Workers, NEW u \in accounts, NEW now \in Clock, DeleteUser(w, u, now)
  PROVE  \E n \in AccountJobs : Becomes(w, n) /\ n.pc = "account"
<1> DEFINE n == [pc |-> "account", kind |-> "account", user |-> u, now |-> now, todo |-> <<Shared>>]
<1>1. job' = [job EXCEPT ![w] = n]
  BY DEF DeleteUser
<1>2. n \in AccountJobs /\ n.pc = "account"
  BY FileAssumption DEF AccountJobs, Types, FilesTyped
<1> HIDE DEF n
<1> QED
  BY <1>1, <1>2, GotoIs

LEMMA DeleteTableIs ==
  ASSUME Types, NEW w \in Workers, NEW t \in Tables, DeleteTable(w, t)
  PROVE  \E n \in DropJobs : Becomes(w, n) /\ n.pc = "drop"
<1> DEFINE dirs == <<Shared>> \o SetToSeq(Users)
           n == [pc |-> "drop", kind |-> "drop", table |-> t, todo |-> << >>, dirs |-> dirs]
<1>1. job' = [job EXCEPT ![w] = n]
  BY DEF DeleteTable
<1>2. n \in DropJobs /\ n.pc = "drop"
  <2>1. dirs \in Seq(Partitions) /\ << >> \in Seq(Partitions)
    BY PartitionsListed
  <2> HIDE DEF dirs
  <2> QED
    BY <2>1 DEF DropJobs
<1> HIDE DEF n
<1> QED
  BY <1>1, <1>2, GotoIs

LEMMA DropAccountIs ==
  ASSUME Types, NEW w \in Workers, DropAccount(w)
  PROVE  \E n \in AccountJobs : Becomes(w, n) /\ n.pc = "tombs" /\ n.user = job[w].user
<1> DEFINE j == job[w]
           n == VisitedJob(j, j.todo, "tombs")
<1>1. Visit(w, j, {}, j.todo, "tombs", "tombs")
  BY DEF DropAccount
<1>2. j \in AccountJobs
  BY StepsOfJobs DEF DropAccount, At, Types, JobsFit
<1>3. job' = [job EXCEPT ![w] = n]
  BY <1>1 DEF Visit, Goto, VisitedJob
<1>4. n \in AccountJobs /\ n.pc = "tombs" /\ n.user = j.user
  BY <1>2, AccountGoes DEF AccountSteps
<1> HIDE DEF n
<1> QED
  BY <1>3, <1>4, GotoIs

LEMMA TombsIs ==
  ASSUME Types, NEW w \in Workers, Tombs(w)
  PROVE  LET j == job[w]
         IN  /\ j \in AccountJobs
             /\ \/ /\ UNCHANGED disturbed
                   /\ \E n \in AccountJobs : Becomes(w, n) /\ n.pc = "rmdir" /\ n.user = j.user
                \/ /\ Disturb(\E v \in Workers \ {w} : Rewriting(v))
                   /\ \E n \in TombJobs :
                        /\ Becomes(w, n) /\ n.pc = "tombRecords" /\ n.user = j.user
                        /\ n.todo = <<Shared>> /\ n.left \subseteq Tables
                        /\ n.maps = TombMaps(j) /\ n.lines = TombLines(j) /\ n.meta = TombMeta(j)
<1> DEFINE j == job[w]
<1>1. j \in AccountJobs
  BY StepsOfJobs DEF Tombs, AtPartition, At, Types, JobsFit
<1>2. CASE Goto(w, j, "rmdir") /\ UNCHANGED disturbed
  <2> DEFINE n == GoneJob(j, "rmdir")
  <2>1. job' = [job EXCEPT ![w] = n]
    BY <1>2 DEF Goto, GoneJob
  <2>2. n \in AccountJobs /\ n.pc = "rmdir" /\ n.user = j.user
    BY <1>1, AccountGoes DEF AccountSteps
  <2> HIDE DEF n
  <2> QED
    BY <1>1, <1>2, <2>1, <2>2, GotoIs
<1>3. CASE /\ MadeBy(j.user) # {} /\ job' = [job EXCEPT ![w] = TombJob(j)]
           /\ Disturb(\E v \in Workers \ {w} : Rewriting(v))
  <2> DEFINE n == TombJob(j)
  <2>1. /\ n \in TombJobs /\ n.pc = "tombRecords" /\ n.user = j.user /\ n.todo = <<Shared>>
        /\ n.maps = TombMaps(j) /\ n.lines = TombLines(j) /\ n.meta = TombMeta(j)
    BY <1>1, <1>3, TombJobIs DEF Types
  <2> HIDE DEF n
  <2>2. n.left \subseteq Tables
    BY <2>1 DEF TombJobs
  <2> QED
    BY <1>1, <1>3, <2>1, <2>2, GotoIs DEF n
<1> QED
  BY <1>2, <1>3, TombsCases

\* The deletions go on.
Buries(n, j) ==
  n \in TombJobs /\ n.user = j.user /\ n.maps = j.maps /\ n.lines = j.lines /\ n.meta = j.meta

LEMMA WriteTombsIs ==
  ASSUME Types, NEW w \in Workers, WriteTombs(w)
  PROVE  LET j == job[w]
         IN  \E t \in j.left : \E n :
               /\ WriteFile(Shared, t, j.maps[t])
               /\ Becomes(w, n) /\ Buries(n, j) /\ n.left = j.left \ {t}
               /\ n.pc \in {"tombRecords", "tombLog"}
<1> DEFINE j == job[w]
<1>1. j \in TombJobs
  BY TombFacts DEF WriteTombs, At, TombSteps
<1>2. PICK t \in j.left : /\ WriteFile(Shared, t, j.maps[t])
                          /\ Goto(w, [j EXCEPT !.left = @ \ {t}],
                                  IF j.left = {t} THEN "tombLog" ELSE "tombRecords")
  BY DEF WriteTombs
<1> DEFINE pc == IF j.left = {t} THEN "tombLog" ELSE "tombRecords"
           n == WrittenJob(j, t, pc)
<1>3. job' = [job EXCEPT ![w] = n]
  BY <1>2 DEF Goto, WrittenJob
<1>4. pc \in TombSteps /\ pc \in {"tombRecords", "tombLog"}
  BY DEF TombSteps
<1>5. Buries(n, j) /\ n.pc = pc /\ n.left = j.left \ {t}
  <2> HIDE DEF pc
  <2> QED
    BY <1>1, <1>4, TombGoes DEF Buries
<1> HIDE DEF n, pc
<1> QED
  BY <1>2, <1>3, <1>4, <1>5, GotoIs

LEMMA LogTombsIs ==
  ASSUME Types, NEW w \in Workers, LogTombs(w)
  PROVE  \E n : Becomes(w, n) /\ Buries(n, job[w]) /\ n.pc = "tombMeta"
<1> DEFINE j == job[w]
           n == GoneJob(j, "tombMeta")
<1>1. job' = [job EXCEPT ![w] = n]
  BY DEF LogTombs, Goto, GoneJob
<1>2. j \in TombJobs
  BY TombFacts DEF LogTombs, At, TombSteps
<1>3. Buries(n, j) /\ n.pc = "tombMeta"
  BY <1>2, TombGoes DEF TombSteps, Buries
<1> HIDE DEF n
<1> QED
  BY <1>1, <1>3, GotoIs

LEMMA CountTombsIs ==
  ASSUME Types, NEW w \in Workers, CountTombs(w)
  PROVE  \E n \in RmdirJobs : Becomes(w, n) /\ n.user = job[w].user
<1> DEFINE n == [pc |-> "rmdir", kind |-> "account", user |-> job[w].user]
<1>1. job' = [job EXCEPT ![w] = n]
  BY DEF CountTombs
<1>2. n \in RmdirJobs /\ n.user = job[w].user
  BY TombFacts DEF CountTombs, At, TombSteps, RmdirJobs
<1> HIDE DEF n
<1> QED
  BY <1>1, <1>2, GotoIs

LEMMA DropTableIs ==
  ASSUME Types, NEW w \in Workers, DropTable(w)
  PROVE  \/ Becomes(w, Idle)
         \/ \E n \in DropJobs : Becomes(w, n) /\ n.pc = "rm" /\ n.table = job[w].table
<1> DEFINE j == job[w]
<1>1. j \in DropJobs
  BY StepsOfJobs DEF DropTable, At, Types, JobsFit
<1>2. CASE Goto(w, j, "rm")
  <2> DEFINE n == GoneJob(j, "rm")
  <2>1. job' = [job EXCEPT ![w] = n]
    BY <1>2 DEF Goto, GoneJob
  <2>2. n \in DropJobs /\ n.pc = "rm" /\ n.table = j.table
    <3>1. j.todo \in Seq(Partitions)
      BY <1>1 DEF DropJobs
    <3> QED
      BY <1>1, <3>1, DropGoes DEF DropSteps
  <2> HIDE DEF n
  <2> QED
    BY <2>1, <2>2, GotoIs
<1>3. CASE Finish(w, {"tables"})
  BY <1>3, FinishIs
<1> QED
  BY <1>2, <1>3 DEF DropTable

LEMMA RemoveTableIs ==
  ASSUME Types, NEW w \in Workers, RemoveTable(w)
  PROVE  /\ \/ UNCHANGED records
            \/ \E p \in Partitions : WriteFile(p, job[w].table, [i \in Ids |-> Absent])
         /\ job[w] \in DropJobs
         /\ \E n \in DropJobs : Becomes(w, n) /\ n.pc \in {"rm", "purge"} /\ n.table = job[w].table
<1> DEFINE j == job[w]
<1>1. j \in DropJobs /\ j.todo \in Seq(Partitions) /\ j.dirs \in Seq(Partitions)
  BY StepsOfJobs DEF RemoveTable, At, Types, JobsFit, DropJobs
<1>2. CASE j.dirs = << >>
  <2> DEFINE todo == AllPartitions
             pc == IF todo = << >> THEN "purged" ELSE "purge"
             n == VisitedJob(j, todo, pc)
  <2>1. job' = [job EXCEPT ![w] = n] /\ UNCHANGED records
    BY <1>2 DEF RemoveTable, Visit, Goto, VisitedJob
  <2>2. todo \in Seq(Partitions) /\ pc = "purge" /\ pc \in DropSteps
    BY AllPartitionsIs DEF DropSteps
  <2>3. n \in DropJobs /\ n.pc = pc /\ n.table = j.table
    <3> HIDE DEF pc
    <3> QED
      BY <1>1, <2>2, DropGoes
  <2> HIDE DEF n, todo
  <2> QED
    BY <1>1, <2>1, <2>2, <2>3, GotoIs
<1>3. CASE j.dirs # << >>
  <2> DEFINE n == EmptiedJob(j, "rm")
  <2>1. /\ job' = [job EXCEPT ![w] = n]
        /\ WriteFile(Head(j.dirs), j.table, [i \in Ids |-> Absent])
    BY <1>3 DEF RemoveTable, Goto, EmptiedJob
  <2>2. n \in DropJobs /\ n.pc = "rm" /\ n.table = j.table
    BY <1>1, <1>3, DropGoes DEF DropSteps
  <2>3. Head(j.dirs) \in Partitions
    BY <1>1, <1>3, HeadTailProperties
  <2> HIDE DEF n
  <2> QED
    BY <1>1, <2>1, <2>2, <2>3, GotoIs
<1> QED
  BY <1>2, <1>3

LEMMA PurgeIs ==
  ASSUME Types, NEW w \in Workers, Purge(w)
  PROVE  /\ job[w] \in DropJobs
         /\ \/ Becomes(w, Idle)
            \/ \E n \in DropJobs : Becomes(w, n) /\ n.pc # "drop" /\ n.table = job[w].table
<1> DEFINE j == job[w]
           todo == Tail(j.todo)
           pc == IF todo = << >> THEN "purged" ELSE "purge"
<1>1. j.pc = "purge"
  BY DEF Purge, AtPartition, At
<1>2. /\ j \in JobStates /\ todo \in Seq(Partitions) /\ j.todo \in Seq(Partitions) /\ j.todo # << >>
  BY <1>1, InPartition DEF Inside
<1>3. j \in DropJobs
  BY <1>1, <1>2, StepsOfJobs
<1>4. CASE Finish(w, {Head(j.todo), "tables"})
  BY <1>3, <1>4, FinishIs
<1>5. CASE Len(j.todo) # 1 /\ Visit(w, j, {Head(j.todo)}, todo, "purge", "purged")
  <2> DEFINE n == VisitedJob(j, todo, pc)
  <2>1. job' = [job EXCEPT ![w] = n]
    BY <1>5 DEF Visit, Goto, VisitedJob
  <2>2. todo # << >>
    <3>1. Len(todo) = Len(j.todo) - 1 /\ Len(j.todo) \in Nat \ {0}
      BY <1>2, HeadTailProperties, EmptySeq, LenProperties
    <3>2. Len(todo) # 0
      BY <3>1, <1>5
    <3> HIDE DEF todo
    <3> QED
      BY <3>2
  <2>3. pc = "purge" /\ pc \in DropSteps
    BY <2>2 DEF DropSteps
  <2>4. n \in DropJobs /\ n.pc = pc /\ n.table = j.table
    <3> HIDE DEF pc, todo
    <3> QED
      BY <1>2, <1>3, <2>3, DropGoes
  <2> HIDE DEF n, pc
  <2> QED
    BY <1>3, <2>1, <2>3, <2>4, GotoIs
<1> QED
  BY <1>4, <1>5 DEF Purge

-----------------------------------------------------------------------------
(* The limits                                                              *)

\* Steps after which a job has no maps to write, and which write neither
\* records nor lines.
Quiet(w) ==
  \/ Start(w) \/ Group(w) \/ Leave(w) \/ WriteMeta(w) \/ Return(w) \/ Cut(w) \/ CutMeta(w)
  \/ ReadLog(w) \/ Answer(w) \/ DropAccount(w) \/ CountTombs(w) \/ DropTable(w) \/ Purge(w)

LEMMA QuietIs ==
  ASSUME Types, NEW w \in Workers, Quiet(w)
  PROVE  /\ records' = records /\ logged' = logged
         /\ \E n : Becomes(w, n) /\ ~HasMaps(n)
<1> DEFINE Ends == \E n : Becomes(w, n) /\ ~HasMaps(n)
<1>1. records' = records /\ logged' = logged
  BY DEF Quiet, Start, Apply, Prune, Diff, DeleteUser, DeleteTable, Group, Leave, WriteMeta, Return,
         Cut, CutMeta, ReadLog, Answer, DropAccount, CountTombs, DropTable, Purge, files, past
<1>2. Becomes(w, Idle) => Ends
  BY DEF HasMaps, Idle
<1>3. ASSUME Start(w) PROVE Ends
  <2>1. CASE \E a \in Actors, batch \in Batches : Apply(w, a, batch)
    BY <2>1, ApplyIs DEF HasMaps
  <2>2. CASE \E keep \in KeepCounts : Prune(w, keep)
    BY <2>2, PruneIs DEF HasMaps
  <2>3. CASE \E a \in Actors, from \in 1..(meta.seq + 1) : Diff(w, a, from)
    BY <2>3, DiffIs DEF HasMaps
  <2>4. CASE \E u \in accounts, now \in Clock : DeleteUser(w, u, now)
    BY <2>4, DeleteUserIs DEF HasMaps
  <2>5. CASE \E t \in Tables : DeleteTable(w, t)
    BY <2>5, DeleteTableIs DEF HasMaps
  <2> QED
    BY <1>3, <2>1, <2>2, <2>3, <2>4, <2>5 DEF Start
<1>4. Group(w) => Ends
  BY <1>2, GroupIs DEF HasMaps
<1>5. Leave(w) => Ends
  BY LeaveIs DEF HasMaps
<1>6. WriteMeta(w) => Ends
  BY WriteMetaIs DEF HasMaps
<1>7. Return(w) \/ Answer(w) => Ends
  BY <1>2, FinishIs DEF Return, Answer
<1>8. Cut(w) => Ends
  BY CutIs DEF HasMaps
<1>9. CutMeta(w) => Ends
  BY CutMetaIs DEF HasMaps
<1>10. ReadLog(w) => Ends
  BY ReadLogIs DEF HasMaps
<1>11. DropAccount(w) => Ends
  BY DropAccountIs DEF HasMaps
<1>12. CountTombs(w) => Ends
  BY CountTombsIs DEF HasMaps, RmdirJobs
<1>13. DropTable(w) => Ends
  BY <1>2, DropTableIs DEF HasMaps
<1>14. Purge(w) => Ends
  BY <1>2, PurgeIs DEF HasMaps, DropJobs
<1> HIDE DEF Ends
<1>15. Ends
  BY <1>3, <1>4, <1>5, <1>6, <1>7, <1>8, <1>9, <1>10, <1>11, <1>12, <1>13, <1>14 DEF Quiet
<1> QED
  BY <1>1, <1>15 DEF Ends

\* A map has no more live records than the limit.
Within(map) == Cardinality(Live(map)) <= MaxRecords

LEMMA LiveIs ==
  ASSUME NEW map
  PROVE  /\ IsFiniteSet(Live(map)) /\ Cardinality(Live(map)) \in Nat
         /\ \A other : (\A i \in Live(other) : i \in Live(map)) /\ Within(map) => Within(other)
<1>1. IsFiniteSet(Ids) /\ MaxRecords \in Nat
  BY FileAssumption
<1>2. \A m : Live(m) \subseteq Ids
  BY DEF Live
<1>3. \A m : IsFiniteSet(Live(m)) /\ Cardinality(Live(m)) \in Nat
  BY <1>1, <1>2, FS_Subset, FS_CardinalityType
<1>4. ASSUME NEW other, \A i \in Live(other) : i \in Live(map), Within(map) PROVE Within(other)
  <2>1. Live(other) \subseteq Live(map)
    BY <1>4
  <2>2. Cardinality(Live(other)) <= Cardinality(Live(map))
    BY <1>3, <2>1, FS_Subset
  <2>3. Cardinality(Live(map)) <= MaxRecords
    BY <1>4 DEF Within
  <2> QED
    BY <1>1, <1>3, <2>2, <2>3 DEF Within
<1> QED
  BY <1>3, <1>4

\* The limit of a table in a partition, by what is stored there.
LEMMA StoredWithin ==
  ASSUME Types
  PROVE  LimitKept <=> \A p \in Partitions, t \in Tables : Within(Stored0(p)[t])
<1>1. ASSUME NEW p \in Partitions, NEW t \in Tables
      PROVE  Live(Stored0(p)[t]) = {i \in Ids : records[<<p, t, i>>].op = "put"}
  BY DEF Live, Stored0
<1> QED
  BY <1>1 DEF LimitKept, Within

\* A change that is not refused keeps a table within the limit.
LEMMA PutWithin ==
  ASSUME NEW a, NEW c \in Change, NEW map \in [Ids -> Stored], NEW now, now.op = c.op,
         Within(map), ~Refused(a, c, map)
  PROVE  Within([map EXCEPT ![c.id] = now])
<1> DEFINE next == [map EXCEPT ![c.id] = now]
           used == {i \in Ids : map[i].op # "none"}
<1>1. c.id \in Ids /\ c.op \in {"put", "delete"}
  BY DEF Change
<1>2. next[c.id] = now /\ \A i \in Ids : i # c.id => next[i] = map[i]
  BY <1>1
<1> HIDE DEF next
<1>3. \A i \in Live(next) : i \in Live(map) \/ i = c.id
  BY <1>2 DEF Live
<1>4. CASE c.op = "delete" \/ map[c.id].op = "put"
  <2>1. \A i \in Live(next) : i \in Live(map)
    BY <1>1, <1>2, <1>3, <1>4 DEF Live
  <2> QED
    BY <2>1, LiveIs DEF next
<1>5. CASE c.op = "put" /\ map[c.id].op # "put"
  <2>1. ~AtLimit(map)
    BY <1>5 DEF Refused
  <2>2. IsFiniteSet(used) /\ Cardinality(used) \in Nat /\ MaxRecords \in Nat
    BY FileAssumption, FS_Subset, FS_CardinalityType
  <2>3. Live(map) \subseteq used /\ c.id \notin Live(map)
    BY <1>5 DEF Live
  <2>4. Cardinality(Live(map)) <= Cardinality(used)
    BY <2>2, <2>3, FS_Subset
  <2>5. Cardinality(used) < MaxRecords
    BY <2>1, <2>2 DEF AtLimit
  <2>6. /\ IsFiniteSet(Live(map) \cup {c.id})
        /\ Cardinality(Live(map) \cup {c.id}) = Cardinality(Live(map)) + 1
    BY <2>3, LiveIs, FS_AddElement
  <2>7. Live(next) \subseteq Live(map) \cup {c.id}
    BY <1>3
  <2>8. Cardinality(Live(next)) <= Cardinality(Live(map)) + 1
    BY <2>6, <2>7, FS_Subset
  <2>9. Cardinality(Live(map)) \in Nat /\ Cardinality(Live(next)) \in Nat
    BY LiveIs
  <2>10. Cardinality(Live(next)) <= MaxRecords
    BY <2>2, <2>4, <2>5, <2>8, <2>9
  <2> QED
    BY <2>10 DEF Within, next
<1> QED
  BY <1>1, <1>4, <1>5

\* What a change of a batch makes of the maps.
LEMMA StagesMaps ==
  ASSUME NEW a \in Actors, NEW p, NEW st \in StageStates, NEW c \in Change
  PROVE  LET next == Stages(a, p, st, c)
         IN  /\ next \in StageStates /\ c.table \in Tables /\ c.id \in Ids
             /\ \/ next = st
                \/ next.ok = FALSE
                \/ ~Skips(a, p, st, c) /\ next.maps = st.maps
                \/ /\ Applies(a, p, st, c)
                   /\ next.maps = Put(st.maps, c.table, c.id, NowOf(a, c, st.maps[c.table][c.id]))
<1> DEFINE next == Stages(a, p, st, c)
           x == st.maps[c.table][c.id]
<1>1. /\ next \in StageStates /\ c.table \in Tables /\ c.id \in Ids
      /\ StagesTo(a, p, st, c, x, next)
  BY StagesIs
<1> HIDE DEF next, x
<1>2. \/ next = st
      \/ next.ok = FALSE
      \/ ~Skips(a, p, st, c) /\ next.maps = st.maps
      \/ /\ Applies(a, p, st, c)
         /\ next.maps = Put(st.maps, c.table, c.id, NowOf(a, c, x))
  BY <1>1 DEF StagesTo
<1> QED
  BY <1>1, <1>2 DEF next, x

\* So do all the changes for a partition.
LEMMA StagedWithin ==
  ASSUME Types, LimitKept, NEW a \in Actors, NEW p \in Partitions, NEW batch \in Seq(Change),
         NEW numbers \in Nums
  PROVE  LET st == Staged(a, p, batch, numbers)
         IN  st.ok => \A t \in Tables : Within(st.maps[t])
<1> DEFINE S == {st \in StageStates : st.ok => \A t \in Tables : Within(st.maps[t])}
<1>1. records \in [Keys -> Stored]
  BY DEF Types, FilesTyped
<1>2. StageStart(p, numbers) \in S
  <2>1. \A t \in Tables : Within(Stored0(p)[t])
    BY StoredWithin
  <2>2. StageStart(p, numbers).maps = Stored0(p)
    BY DEF StageStart
  <2> QED
    BY <1>1, <2>1, <2>2, StartTyped
<1>3. ASSUME NEW st \in S, NEW n \in 1..Len(batch) PROVE Stages(a, p, st, batch[n]) \in S
  <2> DEFINE c == batch[n]
             next == Stages(a, p, st, c)
             x == st.maps[c.table][c.id]
             now == NowOf(a, c, x)
  <2>1. c \in Change /\ st \in StageStates /\ st.maps \in Maps
    BY DEF StageStates
  <2> HIDE DEF c
  <2>2. /\ next \in StageStates /\ c.table \in Tables /\ c.id \in Ids
        /\ \/ next = st
           \/ next.ok = FALSE
           \/ ~Skips(a, p, st, c) /\ next.maps = st.maps
           \/ Applies(a, p, st, c) /\ next.maps = Put(st.maps, c.table, c.id, now)
    BY <2>1, StagesMaps
  <2> HIDE DEF next
  <2>3. st.ok => \A t \in Tables : Within(st.maps[t])
    OBVIOUS
  <2>4. ASSUME Applies(a, p, st, c) /\ next.maps = Put(st.maps, c.table, c.id, now)
        PROVE  \A t \in Tables : Within(next.maps[t])
    <3>1. st.ok /\ ~Refused(a, c, st.maps[c.table]) /\ \A t \in Tables : Within(st.maps[t])
      BY <2>4 DEF Applies, Skips
    <3>2. now.op = c.op
      BY DEF NowOf
    <3> HIDE DEF now
    <3>3. st.maps[c.table] \in [Ids -> Stored]
      BY <2>1, <2>2 DEF Maps
    <3>4. Within([st.maps[c.table] EXCEPT ![c.id] = now])
      BY <2>1, <2>2, <3>1, <3>2, <3>3, PutWithin
    <3>5. \A t \in Tables : next.maps[t] = IF t = c.table THEN [st.maps[c.table] EXCEPT ![c.id] = now]
                                           ELSE st.maps[t]
      BY <2>1, <2>2, <2>4 DEF Put, Maps
    <3> QED
      BY <3>1, <3>4, <3>5
  <2>5. next.ok => \A t \in Tables : Within(next.maps[t])
    <3>1. next.ok = FALSE => ~next.ok
      OBVIOUS
    <3>2. next = st => next.ok = st.ok /\ next.maps = st.maps
      OBVIOUS
    <3>3. ~Skips(a, p, st, c) => st.ok
      BY DEF Skips
    <3> QED
      BY <2>2, <2>3, <2>4, <3>1, <3>2, <3>3
  <2> QED
    BY <2>2, <2>5 DEF c, next
<1>4. S \in SUBSET StageStates
  OBVIOUS
<1> HIDE DEF S
<1>5. Staged(a, p, batch, numbers) \in S
  BY <1>1, <1>2, <1>3, <1>4, StagedRule
<1> QED
  BY <1>5 DEF S

MapsWithin(j) == HasMaps(j) => \A t \in j.left : Within(j.maps[t])

LEMMA LimitSteps ==
  ASSUME LimitInv, NEW w \in Workers, NEW n, Becomes(w, n), MapsWithin(n), LimitKept'
  PROVE  LimitInv'
<1> SUFFICES ASSUME NEW v \in Workers PROVE MapsWithin(job'[v])
  BY DEF LimitInv, MapsWithin, Within
<1>1. CASE v = w
  BY <1>1 DEF Becomes
<1>2. CASE v # w
  BY <1>2 DEF Becomes, LimitInv, MapsWithin, Within
<1> QED
  BY <1>1, <1>2

\* A file is written with a map that is within the limit.
LEMMA WriteWithin ==
  ASSUME Types, LimitKept, NEW p, NEW t, NEW map, map \in [Ids -> Stored], Within(map),
         WriteFile(p, t, map)
  PROVE  LimitKept'
<1>1. records \in [Keys -> Stored]
  BY DEF Types, FilesTyped
<1>2. \A q \in Partitions, u \in Tables, i \in Ids :
        records'[<<q, u, i>>] = InFile(p, t, map, q, u, i)
  BY <1>1, WriteFileIs
<1> SUFFICES ASSUME NEW q \in Partitions, NEW u \in Tables
             PROVE  Cardinality({i \in Ids : records'[<<q, u, i>>].op = "put"}) <= MaxRecords
  BY DEF LimitKept
<1>3. CASE q = p /\ u = t
  <2>1. {i \in Ids : records'[<<q, u, i>>].op = "put"} = Live(map)
    BY <1>2, <1>3 DEF Live, InFile
  <2> QED
    BY <2>1 DEF Within
<1>4. CASE ~(q = p /\ u = t)
  <2>1. {i \in Ids : records'[<<q, u, i>>].op = "put"} = {i \in Ids : records[<<q, u, i>>].op = "put"}
    BY <1>2, <1>4 DEF InFile
  <2> QED
    BY <2>1 DEF LimitKept
<1> QED
  BY <1>3, <1>4

\* So is an empty one, of course.
LEMMA EmptyWithin ==
  /\ [i \in Ids |-> Absent] \in [Ids -> Stored]
  /\ Within([i \in Ids |-> Absent])
<1>1. Live([i \in Ids |-> Absent]) = {}
  BY DEF Live, Absent
<1>2. Cardinality({}) = 0 /\ 0 <= MaxRecords
  BY FileAssumption, FS_EmptySet
<1>3. Within([i \in Ids |-> Absent])
  BY <1>1, <1>2 DEF Within
<1>4. [i \in Ids |-> Absent] \in [Ids -> Stored]
  BY Typed
<1> QED
  BY <1>3, <1>4

\* Fewer records are live than were.
LEMMA FewerWithin ==
  ASSUME LimitKept, \A k \in Keys : records'[k].op = "put" => records[k].op = "put"
  PROVE  LimitKept'
<1> SUFFICES ASSUME NEW p \in Partitions, NEW t \in Tables
             PROVE  Cardinality({i \in Ids : records'[<<p, t, i>>].op = "put"}) <= MaxRecords
  BY DEF LimitKept
<1> DEFINE was == {i \in Ids : records[<<p, t, i>>].op = "put"}
           is == {i \in Ids : records'[<<p, t, i>>].op = "put"}
<1>1. is \subseteq was /\ was \subseteq Ids
  BY DEF Keys
<1>2. IsFiniteSet(was) /\ IsFiniteSet(is) /\ MaxRecords \in Nat
  BY <1>1, FileAssumption, FS_Subset
<1>3. Cardinality(is) <= Cardinality(was) /\ Cardinality(is) \in Nat /\ Cardinality(was) \in Nat
  BY <1>1, <1>2, FS_Subset, FS_CardinalityType
<1>4. Cardinality(was) <= MaxRecords
  BY DEF LimitKept
<1> HIDE DEF was, is
<1>5. Cardinality(is) <= MaxRecords
  BY <1>2, <1>3, <1>4
<1> QED
  BY <1>5 DEF is

LEMMA StageLimits ==
  ASSUME Types, LimitInv, NEW w \in Workers, Stage(w)
  PROVE  LimitInv'
<1> DEFINE j == job[w]
           st == Staged(j.actor, Head(j.todo), j.batch, j.meta)
<1>1. LimitKept /\ LimitKept'
  BY DEF LimitInv, Stage, files, LimitKept
<1>2. /\ j.actor \in Actors /\ j.batch \in Seq(Change) /\ j.meta \in Nums
      /\ Head(j.todo) \in Partitions
  <2>1. j \in ApplyJobs
    BY StepsOfJobs DEF Stage, AtPartition, At, Types, JobsFit
  <2> QED
    BY <2>1, Typed, InPartition DEF Stage, AtPartition, At, Inside, ApplyJobs
<1>3. st \in StageStates /\ (st.ok => \A t \in Tables : Within(st.maps[t]))
  BY <1>1, <1>2, StagedWithin, StagedTyped DEF Types, FilesTyped
<1>4. CASE Becomes(w, Idle)
  BY <1>1, <1>4, LimitSteps DEF MapsWithin, HasMaps, Idle
<1>5. CASE \E n : Becomes(w, n) /\ st.ok /\ n.maps = st.maps /\ n.left = st.left
  <2>1. PICK n : Becomes(w, n) /\ st.ok /\ n.maps = st.maps /\ n.left = st.left
    BY <1>5
  <2>2. st.left \subseteq Tables
    BY <1>3 DEF StageStates
  <2> HIDE DEF st
  <2>3. MapsWithin(n)
    BY <1>3, <2>1, <2>2 DEF MapsWithin
  <2> QED
    BY <1>1, <2>1, <2>3, LimitSteps
<1> QED
  BY <1>4, <1>5, StageIs

LEMMA WriteRecordsLimits ==
  ASSUME Types, LimitInv, NEW w \in Workers, WriteRecords(w)
  PROVE  LimitInv'
<1> DEFINE j == job[w]
<1>1. /\ j.pc = "records" /\ j.maps \in Maps /\ j.left \subseteq Tables /\ LimitKept
      /\ \A t \in j.left : Within(j.maps[t])
  BY ApplyInPartition DEF WriteRecords, At, LimitInv, HasMaps, Within
<1>2. CASE \E n : records' = records /\ Becomes(w, n) /\ n.pc = "leave"
  <2>1. PICK n : records' = records /\ Becomes(w, n) /\ n.pc = "leave"
    BY <1>2
  <2>2. LimitKept' /\ MapsWithin(n)
    BY <1>1, <2>1 DEF LimitKept, MapsWithin, HasMaps
  <2> QED
    BY <2>1, <2>2, LimitSteps
<1>3. CASE \E t \in j.left : \E n :
             WriteFile(Head(j.todo), t, j.maps[t]) /\ Becomes(w, n) /\ n.maps = j.maps
               /\ n.left = j.left \ {t}
  <2>0. PICK t \in j.left : \E n :
          WriteFile(Head(j.todo), t, j.maps[t]) /\ Becomes(w, n) /\ n.maps = j.maps
            /\ n.left = j.left \ {t}
    BY <1>3
  <2>1. PICK n : WriteFile(Head(j.todo), t, j.maps[t]) /\ Becomes(w, n) /\ n.maps = j.maps
                 /\ n.left = j.left \ {t}
    BY <2>0
  <2>2. j.maps[t] \in [Ids -> Stored] /\ Within(j.maps[t])
    BY <1>1 DEF Maps
  <2>3. LimitKept'
    BY <1>1, <2>1, <2>2, WriteWithin
  <2>4. MapsWithin(n)
    BY <1>1, <2>1 DEF MapsWithin
  <2> QED
    BY <2>1, <2>3, <2>4, LimitSteps
<1> QED
  BY <1>2, <1>3, WriteRecordsIs DEF GoesOn

LEMMA WriteTombsLimits ==
  ASSUME Types, LimitInv, NEW w \in Workers, WriteTombs(w)
  PROVE  LimitInv'
<1> DEFINE j == job[w]
<1>1. /\ j.maps \in Maps /\ j.left \subseteq Tables /\ LimitKept
      /\ \A t \in j.left : Within(j.maps[t])
  BY TombFacts DEF WriteTombs, At, LimitInv, HasMaps, Within, TombSteps
<1>0. PICK t \in j.left : \E n :
        WriteFile(Shared, t, j.maps[t]) /\ Becomes(w, n) /\ n.maps = j.maps
          /\ n.left = j.left \ {t}
  BY WriteTombsIs DEF Buries
<1>2. PICK n : WriteFile(Shared, t, j.maps[t]) /\ Becomes(w, n) /\ n.maps = j.maps
               /\ n.left = j.left \ {t}
  BY <1>0
<1>3. j.maps[t] \in [Ids -> Stored] /\ Within(j.maps[t])
  BY <1>1 DEF Maps
<1>4. LimitKept'
  BY <1>1, <1>2, <1>3, WriteWithin
<1>5. MapsWithin(n)
  BY <1>1, <1>2 DEF MapsWithin
<1> QED
  BY <1>2, <1>4, <1>5, LimitSteps

LEMMA TombsLimits ==
  ASSUME Types, LimitInv, NEW w \in Workers, Tombs(w)
  PROVE  LimitInv'
<1> DEFINE j == job[w]
<1>1. LimitKept /\ LimitKept'
  BY DEF LimitInv, Tombs, files, LimitKept
<1>2. CASE \E n : Becomes(w, n) /\ n.pc = "rmdir"
  BY <1>1, <1>2, LimitSteps DEF MapsWithin, HasMaps
<1>3. CASE \E n : j \in AccountJobs /\ Becomes(w, n) /\ n.left \subseteq Tables
                  /\ n.maps = TombMaps(j)
  <2>1. PICK n : j \in AccountJobs /\ Becomes(w, n) /\ n.left \subseteq Tables
                 /\ n.maps = TombMaps(j)
    BY <1>3
  <2>2. ASSUME NEW t \in Tables PROVE Within(TombMaps(j)[t])
    <3>1. ASSUME NEW i \in Ids, TombMaps(j)[t][i].op = "put" PROVE records[<<Shared, t, i>>].op = "put"
      <4>1. /\ TombMaps(j)[t][i] = IF <<Shared, t, i>> \in MadeBy(j.user)
                                   THEN DeadOf(j)[<<Shared, t, i>>] ELSE records[<<Shared, t, i>>]
            /\ \A k \in MadeBy(j.user) : DeadOf(j)[k].op = "delete"
        BY <2>1, TombsAre DEF Types
      <4> QED
        BY <3>1, <4>1
    <3>2. \A i \in Live(TombMaps(j)[t]) : i \in Live(Stored0(Shared)[t])
      BY <3>1 DEF Live, Stored0
    <3>3. Within(Stored0(Shared)[t])
      BY <1>1, StoredWithin, SharedFirst
    <3> QED
      BY <3>2, <3>3, LiveIs
  <2>3. MapsWithin(n)
    BY <2>1, <2>2 DEF MapsWithin
  <2> QED
    BY <1>1, <2>1, <2>3, LimitSteps
<1> QED
  BY <1>2, <1>3, TombsIs

LEMMA RemoveLimits ==
  ASSUME Types, LimitInv, NEW w \in Workers, RemoveDir(w) \/ RemoveTable(w)
  PROVE  LimitInv'
<1>1. LimitKept
  BY DEF LimitInv
<1>2. CASE RemoveDir(w)
  <2>1. LimitKept'
    BY <1>1, <1>2, FewerWithin DEF RemoveDir, Absent
  <2>2. Becomes(w, Idle) /\ MapsWithin(Idle)
    BY <1>2, FinishIs DEF RemoveDir, MapsWithin, HasMaps, Idle
  <2> QED
    BY <2>1, <2>2, LimitSteps
<1>3. CASE RemoveTable(w)
  <2>1. LimitKept'
    <3>1. CASE UNCHANGED records
      BY <1>1, <3>1 DEF LimitKept
    <3>2. CASE \E p \in Partitions : WriteFile(p, job[w].table, [i \in Ids |-> Absent])
      BY <1>1, <3>2, EmptyWithin, WriteWithin
    <3> QED
      BY <1>3, <3>1, <3>2, RemoveTableIs
  <2>2. PICK n : Becomes(w, n) /\ n.pc \in {"rm", "purge"}
    BY <1>3, RemoveTableIs
  <2> QED
    BY <2>1, <2>2, LimitSteps DEF MapsWithin, HasMaps
<1> QED
  BY <1>2, <1>3

LEMMA LimitStep ==
  Types /\ LimitInv /\ [Next]_vars => LimitInv'
<1> SUFFICES ASSUME Types, LimitInv, [Next]_vars PROVE LimitInv'
  OBVIOUS
<1>1. records' = records => LimitKept'
  BY DEF LimitInv, LimitKept
<1>2. ASSUME NEW w \in Workers, Quiet(w) PROVE LimitInv'
  <2>1. LimitKept' /\ \E n : Becomes(w, n) /\ ~HasMaps(n)
    BY <1>1, <1>2, QuietIs
  <2> QED
    BY <2>1, LimitSteps DEF MapsWithin
<1>3. ASSUME NEW w \in Workers, AppendLog(w) PROVE LimitInv'
  <2>1. PICK n : Becomes(w, n) /\ n.maps = job[w].maps /\ n.left = job[w].left
    BY <1>3, AppendIs DEF GoesOn
  <2>2. LimitKept'
    BY <1>1, <1>3 DEF AppendLog
  <2>3. MapsWithin(n)
    BY <1>3, <2>1 DEF LimitInv, AppendLog, At, HasMaps, MapsWithin, Within
  <2> QED
    BY <2>1, <2>2, <2>3, LimitSteps
<1>4. ASSUME NEW w \in Workers, LogTombs(w) PROVE LimitInv'
  <2>1. LimitKept' /\ \E n : Becomes(w, n) /\ n.pc = "tombMeta"
    BY <1>1, <1>4, LogTombsIs DEF LogTombs
  <2> QED
    BY <2>1, LimitSteps DEF MapsWithin, HasMaps
<1>5. ASSUME NEW t \in Tables, CreateTable(t) PROVE LimitInv'
  BY <1>1, <1>5 DEF CreateTable, LimitInv
<1>6. ASSUME Crash PROVE LimitInv'
  <2>1. LimitKept' /\ \A w \in Workers : job'[w] = Idle
    BY <1>1, <1>6 DEF Crash
  <2> QED
    BY <2>1 DEF LimitInv, HasMaps, Idle
<1>7. CASE UNCHANGED vars
  BY <1>1, <1>7 DEF vars, files, LimitInv
<1> QED
  BY <1>2, <1>3, <1>4, <1>5, <1>6, <1>7, StageLimits, WriteRecordsLimits, TombsLimits,
     WriteTombsLimits, RemoveLimits DEF Next, Step, Quiet

\* No table has more live records in a partition than its limit: a change is
\* refused when its table is full as the job has it, and a file is written whole,
\* so that two jobs cannot add up to more, and a crash between two files cannot
\* either (file.ts:341-360, 395-399).
THEOREM LimitIsKept == Spec => []LimitKept
<1>1. Init => LimitInv
  <2> SUFFICES ASSUME Init PROVE LimitInv
    OBVIOUS
  <2>1. ASSUME NEW p \in Partitions, NEW t \in Tables
        PROVE  {i \in Ids : records[<<p, t, i>>].op = "put"} = {}
    BY DEF Init, Keys, Absent
  <2>2. Cardinality({}) = 0 /\ 0 <= MaxRecords
    BY FileAssumption, FS_EmptySet
  <2>3. LimitKept
    BY <2>1, <2>2 DEF LimitKept
  <2> QED
    BY <2>3 DEF Init, LimitInv, HasMaps, Idle
<1>2. LimitInv => LimitKept
  BY DEF LimitInv
<1> QED
  BY <1>1, <1>2, LimitStep, LocksAreKept, PTL DEF Spec

-----------------------------------------------------------------------------
(* Logged first                                                            *)

\* What is live in a map, the lines tell of.
MapTold(lines, t, map) ==
  \A i \in Ids : map[i].op = "put" => IsTold(lines, t, i, map[i])
MapsTold(j, lg) ==
  HasMaps(j) => \A t \in j.left : MapTold(lg[Head(j.todo)] \cup LinesOf(j), t, j.maps[t])

\* Lines are only ever added.
LogGrows == \A p \in Partitions : logged[p] \subseteq logged'[p]

LEMMA ToldStays ==
  ASSUME NEW lines, NEW more, lines \subseteq more, NEW t, NEW map, MapTold(lines, t, map)
  PROVE  MapTold(more, t, map)
BY DEF MapTold, IsTold

LEMMA LoggedInvIs ==
  LoggedInv <=> RecordsLogged /\ \A w \in Workers : MapsTold(job[w], logged)
BY DEF LoggedInv, MapsTold, MapTold

LEMMA RecordsLoggedIs ==
  RecordsLogged <=>
    \A p \in Partitions, t \in Tables, i \in Ids :
      records[<<p, t, i>>].op = "put" => IsTold(logged[p], t, i, records[<<p, t, i>>])
<1>1. ASSUME NEW k \in Keys
      PROVE  /\ k = <<k[1], k[2], k[3]>>
             /\ k[1] \in Partitions /\ k[2] \in Tables /\ k[3] \in Ids
  BY DEF Keys
<1>2. \A p \in Partitions, t \in Tables, i \in Ids :
        /\ <<p, t, i>> \in Keys
        /\ <<p, t, i>>[1] = p /\ <<p, t, i>>[2] = t /\ <<p, t, i>>[3] = i
  BY DEF Keys
<1> QED
  BY <1>1, <1>2 DEF RecordsLogged, IsTold

LEMMA LoggedSteps ==
  ASSUME Types, LoggedInv, NEW w \in Workers, NEW n, Becomes(w, n), LogGrows,
         MapsTold(n, logged'), RecordsLogged'
  PROVE  LoggedInv'
<1> SUFFICES ASSUME NEW v \in Workers PROVE MapsTold(job'[v], logged')
  BY LoggedInvIs DEF LoggedInv, MapsTold, MapTold
<1>1. CASE v = w
  BY <1>1 DEF Becomes
<1>2. CASE v # w
  <2> DEFINE j == job[v]
  <2>1. job'[v] = j /\ MapsTold(j, logged)
    BY <1>2, LoggedInvIs DEF Becomes
  <2>2. ASSUME HasMaps(j), NEW t \in j.left
        PROVE  MapTold(logged'[Head(j.todo)] \cup LinesOf(j), t, j.maps[t])
    <3>1. Head(j.todo) \in Partitions
      BY <2>2, InPartition DEF HasMaps, Inside
    <3>2. logged[Head(j.todo)] \cup LinesOf(j) \subseteq logged'[Head(j.todo)] \cup LinesOf(j)
      BY <3>1 DEF LogGrows
    <3>3. MapTold(logged[Head(j.todo)] \cup LinesOf(j), t, j.maps[t])
      BY <2>1, <2>2 DEF MapsTold
    <3> QED
      BY <3>2, <3>3, ToldStays
  <2> QED
    BY <2>1, <2>2 DEF MapsTold
<1> QED
  BY <1>1, <1>2

\* Records stay or go.
LEMMA FewerTold ==
  ASSUME RecordsLogged, LogGrows, \A k \in Keys : records'[k] \in {records[k], Absent}
  PROVE  RecordsLogged'
<1> SUFFICES ASSUME NEW k \in Keys, records'[k].op = "put"
             PROVE  \E e \in logged'[k[1]] :
                      /\ e.table = k[2] /\ e.id = k[3]
                      /\ records'[k] = [op |-> e.op, ts |-> e.ts, cid |-> e.cid, owner |-> e.owner]
  BY DEF RecordsLogged
<1>1. records'[k] = records[k]
  BY DEF Absent
<1>2. PICK e \in logged[k[1]] :
        /\ e.table = k[2] /\ e.id = k[3]
        /\ records[k] = [op |-> e.op, ts |-> e.ts, cid |-> e.cid, owner |-> e.owner]
  BY <1>1 DEF RecordsLogged
<1>3. k[1] \in Partitions
  BY DEF Keys
<1> QED
  BY <1>1, <1>2, <1>3 DEF LogGrows

\* What is written has been told of.
LEMMA WriteTold ==
  ASSUME Types, RecordsLogged, NEW p, NEW t, NEW map, map \in [Ids -> Stored],
         MapTold(logged[p], t, map), WriteFile(p, t, map), UNCHANGED logged
  PROVE  RecordsLogged'
<1>1. records \in [Keys -> Stored]
  BY DEF Types, FilesTyped
<1>2. \A q \in Partitions, u \in Tables, i \in Ids :
        records'[<<q, u, i>>] = InFile(p, t, map, q, u, i)
  BY <1>1, WriteFileIs
<1>3. ASSUME NEW q \in Partitions, NEW u \in Tables, NEW i \in Ids,
             records'[<<q, u, i>>].op = "put"
      PROVE  IsTold(logged[q], u, i, records'[<<q, u, i>>])
  <2>1. CASE q = p /\ u = t
    BY <1>2, <1>3, <2>1 DEF InFile, MapTold
  <2>2. CASE ~(q = p /\ u = t)
    BY <1>2, <1>3, <2>2, RecordsLoggedIs DEF InFile
  <2> QED
    BY <2>1, <2>2
<1>4. \A k \in Keys : /\ k = <<k[1], k[2], k[3]>>
                      /\ k[1] \in Partitions /\ k[2] \in Tables /\ k[3] \in Ids
  BY DEF Keys
<1> QED
  BY <1>3, <1>4 DEF RecordsLogged, IsTold

LEMMA LinesAppended ==
  ASSUME NEW lines \in Seq(Line), NEW line, line \in Line
  PROVE  /\ ToSet(Append(lines, line)) = ToSet(lines) \cup {line}
         /\ Len(Append(lines, line)) = Len(lines) + 1 /\ Len(lines) \in Nat
         /\ DOMAIN lines = 1..Len(lines) /\ DOMAIN Append(lines, line) = 1..(Len(lines) + 1)
         /\ \A i \in 1..Len(lines) : Append(lines, line)[i] = lines[i]
         /\ Append(lines, line)[Len(lines) + 1] = line
<1> DEFINE q == Append(lines, line)
<1>1. /\ q \in Seq(Line) /\ Len(q) = Len(lines) + 1 /\ Len(lines) \in Nat
      /\ \A i \in 1..Len(lines) : q[i] = lines[i]
      /\ q[Len(lines) + 1] = line
  BY AppendProperties, LenProperties
<1>2. DOMAIN lines = 1..Len(lines) /\ DOMAIN q = 1..(Len(lines) + 1)
  BY <1>1, LenProperties
<1> HIDE DEF q
<1>3. ASSUME NEW e \in ToSet(q) PROVE e \in ToSet(lines) \cup {line}
  <2>1. PICK i \in 1..(Len(lines) + 1) : e = q[i]
    BY <1>2 DEF ToSet
  <2>2. CASE i = Len(lines) + 1
    BY <2>1, <2>2, <1>1
  <2>3. CASE i \in 1..Len(lines)
    BY <2>1, <2>3, <1>1, <1>2 DEF ToSet
  <2> QED
    BY <2>2, <2>3, <1>1
<1>4. ASSUME NEW e \in ToSet(lines) PROVE e \in ToSet(q)
  <2>1. PICK i \in 1..Len(lines) : e = lines[i]
    BY <1>2 DEF ToSet
  <2>2. i \in 1..(Len(lines) + 1) /\ e = q[i]
    BY <2>1, <1>1
  <2> QED
    BY <2>2, <1>2 DEF ToSet
<1>5. line \in ToSet(q)
  <2>1. Len(lines) + 1 \in 1..(Len(lines) + 1)
    BY <1>1
  <2> QED
    BY <2>1, <1>1, <1>2 DEF ToSet
<1>6. ToSet(q) = ToSet(lines) \cup {line}
  BY <1>3, <1>4, <1>5
<1> QED
  BY <1>1, <1>2, <1>6 DEF q

\* The changes for a partition, which are all in the lines.
LEMMA StagedTold ==
  ASSUME Types, RecordsLogged, NEW a \in Actors, NEW p \in Partitions, NEW batch \in Seq(Change),
         NEW numbers \in Nums
  PROVE  LET st == Staged(a, p, batch, numbers)
         IN  st.ok => \A t \in Tables : MapTold(logged[p] \cup ToSet(st.lines), t, st.maps[t])
<1> DEFINE Told0(st) == \A t \in Tables : MapTold(logged[p] \cup ToSet(st.lines), t, st.maps[t])
           S == {st \in StageStates : st.ok => Told0(st)}
<1>1. records \in [Keys -> Stored]
  BY DEF Types, FilesTyped
<1>2. StageStart(p, numbers) \in S
  <2>1. StageStart(p, numbers).maps = Stored0(p)
    BY DEF StageStart
  <2>2. ASSUME NEW t \in Tables PROVE MapTold(logged[p], t, Stored0(p)[t])
    BY RecordsLoggedIs DEF MapTold, Stored0
  <2>3. Told0(StageStart(p, numbers))
    BY <2>1, <2>2, ToldStays
  <2> HIDE DEF Told0
  <2> QED
    BY <1>1, <2>3, StartTyped
<1>3. ASSUME NEW st \in S, NEW n \in 1..Len(batch) PROVE Stages(a, p, st, batch[n]) \in S
  <2> DEFINE c == batch[n]
             next == Stages(a, p, st, c)
             x == st.maps[c.table][c.id]
             now == NowOf(a, c, x)
             line == LineOf(a, c, x, st.meta.seq + 1)
  <2>1. c \in Change /\ st \in StageStates /\ st.maps \in Maps /\ st.lines \in Seq(Line)
        /\ st.meta \in Nums
    BY DEF StageStates
  <2>2. st.ok => Told0(st)
    BY DEF S
  <2> HIDE DEF S, c
  <2>3. next \in StageStates /\ x \in Stored /\ c.table \in Tables /\ c.id \in Ids
        /\ StagesTo(a, p, st, c, x, next)
    BY <2>1, StagesIs
  <2>4. line \in Line
    <3>1. st.meta.seq + 1 \in Nat
      BY <2>1 DEF Nums
    <3> HIDE DEF x
    <3> QED
      BY <2>1, <2>3, <3>1, EntryTyped
  <2>5. /\ line.table = c.table /\ line.id = c.id
        /\ now = [op |-> line.op, ts |-> line.ts, cid |-> line.cid, owner |-> line.owner]
    BY DEF LineOf, NowOf
  <2> HIDE DEF next, x, now, line
  <2>6. ASSUME next.ok PROVE Told0(next)
    <3>1. CASE next = st
      BY <2>2, <2>6, <3>1
    <3>2. CASE ~Skips(a, p, st, c) /\ next.lines = st.lines /\ next.maps = st.maps
      BY <2>2, <3>2 DEF Skips
    <3>3. CASE /\ Applies(a, p, st, c) /\ next.lines = Append(st.lines, line)
               /\ next.maps = Put(st.maps, c.table, c.id, now)
      <4>1. Told0(st)
        BY <2>2, <3>3 DEF Applies, Skips
      <4>2. ToSet(next.lines) = ToSet(st.lines) \cup {line}
        BY <2>1, <2>4, <3>3, LinesAppended
      <4>3. \A t \in Tables, i \in Ids :
              next.maps[t][i] = IF t = c.table /\ i = c.id THEN now ELSE st.maps[t][i]
        BY <2>1, <2>3, <3>3 DEF Put, Maps
      <4> SUFFICES ASSUME NEW t \in Tables, NEW i \in Ids, next.maps[t][i].op = "put"
                   PROVE  IsTold(logged[p] \cup ToSet(next.lines), t, i, next.maps[t][i])
        BY DEF MapTold
      <4>4. CASE t = c.table /\ i = c.id
        BY <2>5, <4>2, <4>3, <4>4 DEF IsTold
      <4>5. CASE ~(t = c.table /\ i = c.id)
        <5>1. IsTold(logged[p] \cup ToSet(st.lines), t, i, st.maps[t][i])
          BY <4>1, <4>3, <4>5 DEF MapTold
        <5> QED
          BY <5>1, <4>2, <4>3, <4>5 DEF IsTold
      <4> QED
        BY <4>4, <4>5
    <3>4. ~(next.ok = FALSE)
      BY <2>6
    <3> HIDE DEF Told0
    <3> QED
      BY <2>3, <3>1, <3>2, <3>3, <3>4 DEF StagesTo, now, line
  <2> HIDE DEF Told0
  <2> QED
    BY <2>3, <2>6 DEF S, c, next
<1>4. S \in SUBSET StageStates
  OBVIOUS
<1> HIDE DEF S
<1>5. Staged(a, p, batch, numbers) \in S
  BY <1>1, <1>2, <1>3, <1>4, StagedRule
<1> QED
  BY <1>5 DEF S

LEMMA StageLogged ==
  ASSUME Types, LoggedInv, NEW w \in Workers, Stage(w)
  PROVE  LoggedInv'
<1> DEFINE j == job[w]
           p == Head(j.todo)
           st == Staged(j.actor, p, j.batch, j.meta)
<1>1. RecordsLogged /\ RecordsLogged' /\ LogGrows /\ UNCHANGED logged
  BY DEF LoggedInv, Stage, files, past, RecordsLogged, LogGrows
<1>2. /\ j.actor \in Actors /\ j.batch \in Seq(Change) /\ j.meta \in Nums /\ p \in Partitions
  <2>1. j \in ApplyJobs
    BY StepsOfJobs DEF Stage, AtPartition, At, Types, JobsFit
  <2> QED
    BY <2>1, Typed, InPartition DEF Stage, AtPartition, At, Inside, ApplyJobs
<1>3. /\ st \in StageStates
      /\ st.ok => \A t \in Tables : MapTold(logged[p] \cup ToSet(st.lines), t, st.maps[t])
  BY <1>1, <1>2, StagedTold, StagedTyped DEF Types, FilesTyped
<1>4. CASE Becomes(w, Idle)
  BY <1>1, <1>4, LoggedSteps DEF MapsTold, HasMaps, Idle
<1>5. CASE \E n : Becomes(w, n) /\ st.ok /\ n.pc = "append" /\ n.todo = j.todo
                  /\ n.maps = st.maps /\ n.left = st.left /\ n.lines = st.lines
  <2>1. PICK n : Becomes(w, n) /\ st.ok /\ n.pc = "append" /\ n.todo = j.todo
                 /\ n.maps = st.maps /\ n.left = st.left /\ n.lines = st.lines
    BY <1>5
  <2>2. st.left \subseteq Tables
    BY <1>3 DEF StageStates
  <2> HIDE DEF st
  <2>3. MapsTold(n, logged)
    BY <1>3, <2>1, <2>2 DEF MapsTold, LinesOf
  <2>4. MapsTold(n, logged')
    BY <1>1, <2>3
  <2> QED
    BY <1>1, <2>1, <2>4, LoggedSteps
<1> QED
  BY <1>4, <1>5, StageIs

LEMMA AppendLogged ==
  ASSUME Types, LoggedInv, NEW w \in Workers, AppendLog(w)
  PROVE  LoggedInv'
<1> DEFINE j == job[w]
           p == Head(j.todo)
<1>1. /\ j.pc = "append" /\ records' = records
      /\ logged' = [logged EXCEPT ![p] = @ \cup ToSet(j.lines)]
  BY DEF AppendLog, At
<1>2. /\ p \in Partitions /\ logged \in [Partitions -> SUBSET Line]
  BY <1>1, ApplyInPartition DEF Types, FilesTyped
<1>3. LogGrows /\ logged'[p] = logged[p] \cup ToSet(j.lines)
  BY <1>1, <1>2 DEF LogGrows
<1>4. RecordsLogged'
  BY <1>1, <1>3, FewerTold DEF LoggedInv
<1>5. PICK n : /\ Becomes(w, n) /\ n.pc = "records" /\ n.todo = j.todo /\ n.maps = j.maps
               /\ n.left = j.left
  BY AppendIs DEF GoesOn
<1>6. MapsTold(n, logged')
  <2>1. LinesOf(j) = ToSet(j.lines) /\ LinesOf(n) = {} /\ HasMaps(j)
    BY <1>1, <1>5 DEF LinesOf, HasMaps
  <2>2. \A t \in j.left : MapTold(logged[p] \cup ToSet(j.lines), t, j.maps[t])
    BY <2>1, LoggedInvIs DEF MapsTold
  <2>3. logged'[p] \cup LinesOf(n) = logged[p] \cup ToSet(j.lines)
    BY <1>3, <2>1
  <2> QED
    BY <1>5, <2>2, <2>3 DEF MapsTold
<1> QED
  BY <1>3, <1>4, <1>5, <1>6, LoggedSteps

LEMMA WriteRecordsLogged ==
  ASSUME Types, LoggedInv, NEW w \in Workers, WriteRecords(w)
  PROVE  LoggedInv'
<1> DEFINE j == job[w]
           p == Head(j.todo)
<1>1. /\ j.pc = "records" /\ UNCHANGED logged /\ LogGrows /\ RecordsLogged
  BY DEF WriteRecords, At, past, LogGrows, LoggedInv
<1>2. /\ j.maps \in Maps /\ j.left \subseteq Tables
      /\ \A t \in j.left : MapTold(logged[p], t, j.maps[t])
  <2>1. LinesOf(j) = {} /\ HasMaps(j)
    BY <1>1 DEF LinesOf, HasMaps
  <2>2. logged[p] \cup LinesOf(j) = logged[p]
    BY <2>1
  <2> QED
    BY <1>1, <2>1, <2>2, ApplyInPartition, LoggedInvIs DEF MapsTold
<1>3. CASE \E n : records' = records /\ Becomes(w, n) /\ n.pc = "leave"
  <2>1. PICK n : records' = records /\ Becomes(w, n) /\ n.pc = "leave"
    BY <1>3
  <2>2. RecordsLogged' /\ MapsTold(n, logged')
    BY <1>1, <2>1 DEF RecordsLogged, MapsTold, HasMaps
  <2> QED
    BY <1>1, <2>1, <2>2, LoggedSteps
<1>4. CASE \E t \in j.left : \E n :
             WriteFile(p, t, j.maps[t]) /\ Becomes(w, n) /\ n.pc = "records" /\ n.maps = j.maps
               /\ n.todo = j.todo /\ n.left = j.left \ {t}
  <2>1. PICK t \in j.left : \E n :
             WriteFile(p, t, j.maps[t]) /\ Becomes(w, n) /\ n.pc = "records" /\ n.maps = j.maps
               /\ n.todo = j.todo /\ n.left = j.left \ {t}
    BY <1>4
  <2>2. PICK n : WriteFile(p, t, j.maps[t]) /\ Becomes(w, n) /\ n.pc = "records" /\ n.maps = j.maps
                 /\ n.todo = j.todo /\ n.left = j.left \ {t}
    BY <2>1
  <2>3. j.maps[t] \in [Ids -> Stored] /\ MapTold(logged[p], t, j.maps[t])
    BY <1>2 DEF Maps
  <2>4. RecordsLogged'
    BY <1>1, <2>2, <2>3, WriteTold
  <2>5. LinesOf(n) = {} /\ logged'[Head(n.todo)] \cup LinesOf(n) = logged[p]
    BY <1>1, <2>2 DEF LinesOf
  <2>6. MapsTold(n, logged')
    BY <1>2, <2>2, <2>5 DEF MapsTold
  <2> QED
    BY <1>1, <2>2, <2>4, <2>6, LoggedSteps
<1> QED
  BY <1>3, <1>4, WriteRecordsIs DEF GoesOn

LEMMA WriteTombsLogged ==
  ASSUME Types, LoggedInv, NEW w \in Workers, WriteTombs(w)
  PROVE  LoggedInv'
<1> DEFINE j == job[w]
<1>1. /\ j.pc = "tombRecords" /\ UNCHANGED logged /\ LogGrows /\ RecordsLogged
  BY DEF WriteTombs, At, past, LogGrows, LoggedInv
<1>2. /\ j.maps \in Maps /\ j.left \subseteq Tables /\ j.todo = <<Shared>> /\ Head(j.todo) = Shared
  BY <1>1, TombFacts DEF TombSteps
<1>3. \A t \in j.left : MapTold(logged[Shared], t, j.maps[t])
  <2>1. LinesOf(j) = {} /\ HasMaps(j)
    BY <1>1 DEF LinesOf, HasMaps
  <2>2. logged[Head(j.todo)] \cup LinesOf(j) = logged[Shared]
    BY <1>2, <2>1
  <2> QED
    BY <2>1, <2>2, LoggedInvIs DEF MapsTold
<1>4. PICK t \in j.left : \E n :
        /\ WriteFile(Shared, t, j.maps[t]) /\ Becomes(w, n) /\ Buries(n, j)
        /\ n.left = j.left \ {t} /\ n.pc \in {"tombRecords", "tombLog"}
  BY WriteTombsIs
<1>5. PICK n : /\ WriteFile(Shared, t, j.maps[t]) /\ Becomes(w, n) /\ Buries(n, j)
               /\ n.left = j.left \ {t} /\ n.pc \in {"tombRecords", "tombLog"}
  BY <1>4
<1>6. j.maps[t] \in [Ids -> Stored] /\ MapTold(logged[Shared], t, j.maps[t])
  BY <1>2, <1>3 DEF Maps
<1>7. RecordsLogged'
  BY <1>1, <1>5, <1>6, WriteTold
<1>8. MapsTold(n, logged')
  <2>1. n.todo = <<Shared>> /\ Head(n.todo) = Shared /\ LinesOf(n) = {} /\ n.maps = j.maps
    BY <1>5, SharedFirst DEF Buries, TombJobs, LinesOf
  <2>2. logged'[Head(n.todo)] \cup LinesOf(n) = logged[Shared]
    BY <1>1, <2>1
  <2> QED
    BY <1>3, <1>5, <2>1, <2>2 DEF MapsTold
<1> QED
  BY <1>1, <1>5, <1>7, <1>8, LoggedSteps

LEMMA TombsLogged ==
  ASSUME Types, LoggedInv, NEW w \in Workers, Tombs(w)
  PROVE  LoggedInv'
<1> DEFINE j == job[w]
<1>1. RecordsLogged /\ RecordsLogged' /\ LogGrows /\ UNCHANGED logged
  BY DEF LoggedInv, Tombs, files, RecordsLogged, LogGrows
<1>2. CASE \E n : Becomes(w, n) /\ n.pc = "rmdir"
  BY <1>1, <1>2, LoggedSteps DEF MapsTold, HasMaps
<1>3. CASE \E n : /\ j \in AccountJobs /\ Becomes(w, n) /\ n.pc = "tombRecords"
                  /\ n.left \subseteq Tables /\ n.todo = <<Shared>> /\ n.maps = TombMaps(j)
  <2>1. PICK n : /\ j \in AccountJobs /\ Becomes(w, n) /\ n.pc = "tombRecords"
                 /\ n.left \subseteq Tables /\ n.todo = <<Shared>> /\ n.maps = TombMaps(j)
    BY <1>3
  <2>2. ASSUME NEW t \in Tables PROVE MapTold(logged[Shared], t, TombMaps(j)[t])
    <3>1. ASSUME NEW i \in Ids, TombMaps(j)[t][i].op = "put"
          PROVE TombMaps(j)[t][i] = records[<<Shared, t, i>>]
      <4>1. /\ TombMaps(j)[t][i] = IF <<Shared, t, i>> \in MadeBy(j.user)
                                   THEN DeadOf(j)[<<Shared, t, i>>] ELSE records[<<Shared, t, i>>]
            /\ \A k \in MadeBy(j.user) : DeadOf(j)[k].op = "delete"
        BY <2>1, TombsAre DEF Types
      <4> QED
        BY <3>1, <4>1
    <3> QED
      BY <1>1, <3>1, RecordsLoggedIs, SharedFirst DEF MapTold
  <2>3. MapsTold(n, logged')
    <3>1. Head(n.todo) = Shared /\ LinesOf(n) = {}
      BY <2>1, SharedFirst DEF LinesOf
    <3>2. logged'[Head(n.todo)] \cup LinesOf(n) = logged[Shared]
      BY <1>1, <3>1
    <3> QED
      BY <2>1, <2>2, <3>2 DEF MapsTold
  <2> QED
    BY <1>1, <2>1, <2>3, LoggedSteps
<1> QED
  BY <1>2, <1>3, TombsIs

LEMMA RemoveLogged ==
  ASSUME Types, LoggedInv, NEW w \in Workers, RemoveDir(w) \/ RemoveTable(w)
  PROVE  LoggedInv'
<1>1. RecordsLogged /\ LogGrows /\ UNCHANGED logged
  BY DEF LoggedInv, RemoveDir, RemoveTable, past, LogGrows
<1>2. CASE RemoveDir(w)
  <2>1. RecordsLogged'
    BY <1>1, <1>2, FewerTold DEF RemoveDir
  <2>2. Becomes(w, Idle) /\ MapsTold(Idle, logged')
    BY <1>2, FinishIs DEF RemoveDir, MapsTold, HasMaps, Idle
  <2> QED
    BY <1>1, <2>1, <2>2, LoggedSteps
<1>3. CASE RemoveTable(w)
  <2>1. RecordsLogged'
    <3>1. CASE UNCHANGED records
      BY <1>1, <3>1 DEF RecordsLogged
    <3>2. CASE \E p \in Partitions : WriteFile(p, job[w].table, [i \in Ids |-> Absent])
      <4>1. [i \in Ids |-> Absent] \in [Ids -> Stored]
        BY EmptyWithin
      <4>2. \A lines, t : MapTold(lines, t, [i \in Ids |-> Absent])
        BY DEF MapTold, Absent
      <4> QED
        BY <1>1, <3>2, <4>1, <4>2, WriteTold
    <3> QED
      BY <1>3, <3>1, <3>2, RemoveTableIs
  <2>2. PICK n : Becomes(w, n) /\ n.pc \in {"rm", "purge"}
    BY <1>3, RemoveTableIs
  <2>3. MapsTold(n, logged')
    BY <2>2 DEF MapsTold, HasMaps
  <2> QED
    BY <1>1, <2>1, <2>2, <2>3, LoggedSteps
<1> QED
  BY <1>2, <1>3

LEMMA LoggedStep ==
  Types /\ LoggedInv /\ [Next]_vars => LoggedInv'
<1> SUFFICES ASSUME Types, LoggedInv, [Next]_vars PROVE LoggedInv'
  OBVIOUS
<1>1. records' = records /\ LogGrows => RecordsLogged'
  BY FewerTold DEF LoggedInv
<1>2. logged' = logged => LogGrows
  BY DEF LogGrows
<1>3. ASSUME NEW w \in Workers, Quiet(w) PROVE LoggedInv'
  <2>1. PICK n : Becomes(w, n) /\ ~HasMaps(n)
    BY <1>3, QuietIs
  <2>2. LogGrows /\ RecordsLogged' /\ MapsTold(n, logged')
    BY <1>1, <1>2, <1>3, <2>1, QuietIs DEF MapsTold
  <2> QED
    BY <2>1, <2>2, LoggedSteps
<1>4. ASSUME NEW w \in Workers, LogTombs(w) PROVE LoggedInv'
  <2>1. PICK n : Becomes(w, n) /\ n.pc = "tombMeta"
    BY <1>4, LogTombsIs
  <2>2. LogGrows
    <3>1. /\ logged' = [logged EXCEPT ![Shared] = @ \cup ToSet(job[w].lines)]
          /\ logged \in [Partitions -> SUBSET Line]
      BY <1>4 DEF LogTombs, Types, FilesTyped
    <3> QED
      BY <3>1 DEF LogGrows
  <2>3. RecordsLogged' /\ MapsTold(n, logged')
    BY <1>1, <1>4, <2>1, <2>2 DEF LogTombs, MapsTold, HasMaps
  <2> QED
    BY <2>1, <2>2, <2>3, LoggedSteps
<1>5. ASSUME NEW t \in Tables, CreateTable(t) PROVE LoggedInv'
  BY <1>1, <1>2, <1>5, LoggedInvIs DEF CreateTable, past, LoggedInv
<1>6. ASSUME Crash PROVE LoggedInv'
  <2>1. LogGrows
    BY <1>6, CrashIs DEF LogGrows
  <2>2. RecordsLogged' /\ \A w \in Workers : job'[w] = Idle
    BY <1>1, <1>6, <2>1 DEF Crash
  <2> QED
    BY <2>2 DEF LoggedInv, HasMaps, Idle
<1>7. CASE UNCHANGED vars
  BY <1>1, <1>2, <1>7 DEF vars, files, past, LoggedInv
<1> QED
  BY <1>3, <1>4, <1>5, <1>6, <1>7, StageLogged, AppendLogged, WriteRecordsLogged, TombsLogged,
     WriteTombsLogged, RemoveLogged DEF Next, Step, Quiet

-----------------------------------------------------------------------------
(* Lines that incomplete ones swallow                                      *)

\* Lines s are few enough for n crashes: the end of a log that is incomplete now
\* is the work of a crash whose line is still to be swallowed.
Few(s, incomplete, n) ==
  IsFiniteSet(s) /\ Cardinality(s) + (IF incomplete THEN 1 ELSE 0) <= n
SwallowInv ==
  /\ crashes \in Nat /\ swallowed = [p \in Partitions |-> swallowed[p]]
  /\ \A p \in Partitions : Few(swallowed[p], torn[p], crashes)

LEMMA OneMore ==
  ASSUME NEW s, IsFiniteSet(s), NEW x, NEW more, more \subseteq {x}
  PROVE  /\ IsFiniteSet(s \cup more)
         /\ Cardinality(s) \in Nat /\ Cardinality(s \cup more) \in Nat
         /\ Cardinality(s \cup more) <= Cardinality(s) + 1
<1>1. Cardinality(s) \in Nat
  BY FS_CardinalityType
<1>2. CASE more = {}
  <2>1. s \cup more = s
    BY <1>2
  <2>2. Cardinality(s) <= Cardinality(s) + 1
    BY <1>1
  <2> QED
    BY <2>1, <2>2, <1>1, Zenon
<1>3. CASE more = {x}
  <2>1. /\ IsFiniteSet(s \cup {x})
        /\ Cardinality(s \cup {x}) = IF x \in s THEN Cardinality(s) ELSE Cardinality(s) + 1
    BY FS_AddElement
  <2> QED
    BY <2>1, <1>1, <1>3
<1> QED
  BY <1>2, <1>3

LEMMA SwallowedIs ==
  ASSUME NEW p, NEW lines
  PROVE  /\ Swallowed(p, lines) \subseteq {lines[1]}
         /\ ~torn[p] => Swallowed(p, lines) = {}
BY DEF Swallowed

\* Lines appended to a log leave it complete.
LEMMA AppendedFew ==
  ASSUME Types, SwallowInv, NEW p \in Partitions, NEW lines \in Seq(Line),
         swallowed' = [swallowed EXCEPT ![p] = @ \cup Swallowed(p, lines)],
         UNCHANGED crashes, \A q \in Partitions : q # p => torn'[q] = torn[q],
         torn'[p] = (torn[p] /\ lines = << >>) \/ torn'[p] = FALSE
  PROVE  SwallowInv'
<1> DEFINE more == Swallowed(p, lines)
<1>1. /\ more \subseteq {lines[1]} /\ (~torn[p] => more = {})
      /\ (lines = << >> => more = {})
  <2>1. lines = << >> => DOMAIN lines = {}
    BY LenProperties
  <2> QED
    BY <2>1, SwallowedIs DEF Swallowed
<1>2. torn \in [Partitions -> BOOLEAN] /\ crashes \in Nat
  BY DEF Types, FilesTyped, SwallowInv
<1>3. /\ swallowed' = [q \in Partitions |-> swallowed'[q]]
      /\ swallowed'[p] = swallowed[p] \cup more
      /\ \A q \in Partitions : q # p => swallowed'[q] = swallowed[q]
  BY DEF SwallowInv
<1>4. IsFiniteSet(swallowed[p]) /\ Few(swallowed[p], torn[p], crashes)
  BY DEF SwallowInv, Few
<1> HIDE DEF more
<1>5. /\ IsFiniteSet(swallowed[p] \cup more)
      /\ Cardinality(swallowed[p]) \in Nat /\ Cardinality(swallowed[p] \cup more) \in Nat
      /\ Cardinality(swallowed[p] \cup more) <= Cardinality(swallowed[p]) + 1
  BY <1>1, <1>4, OneMore
<1>6. Few(swallowed'[p], torn'[p], crashes)
  <2>1. CASE torn[p] /\ lines # << >>
    <3>1. torn'[p] = FALSE /\ Cardinality(swallowed[p]) + 1 <= crashes
      BY <2>1, <1>4 DEF Few
    <3>2. Cardinality(swallowed[p] \cup more) + 0 <= crashes
      BY <3>1, <1>2, <1>5
    <3>3. /\ IsFiniteSet(swallowed'[p])
          /\ Cardinality(swallowed'[p]) + (IF FALSE THEN 1 ELSE 0) <= crashes
      BY <3>2, <1>3, <1>5, Zenon
    <3> QED
      BY <3>1, <3>3, Zenon DEF Few
  <2>2. CASE ~(torn[p] /\ lines # << >>)
    <3>1. swallowed'[p] = swallowed[p] /\ (torn'[p] => torn[p])
      BY <2>2, <1>1, <1>3
    <3> QED
      BY <3>1, <1>2, <1>4, <1>5 DEF Few
  <2> QED
    BY <2>1, <2>2
<1>7. \A q \in Partitions : Few(swallowed'[q], torn'[q], crashes)
  BY <1>3, <1>6 DEF SwallowInv
<1> QED
  BY <1>2, <1>3, <1>7 DEF SwallowInv

\* Of the jobs that append when there is a crash there is one in a partition.
LEMMA OneAppends ==
  ASSUME Types, NEW p \in Partitions, NEW v \in AppendingAt(p), NEW w \in AppendingAt(p)
  PROVE  v = w
<1>1. ASSUME NEW u \in AppendingAt(p) PROVE u \in Workers /\ Holds(u, p)
  <2>1. u \in Workers /\ job[u].pc \in {"append", "tombLog"} /\ Head(job[u].todo) = p
    BY DEF AppendingAt, Appending, At
  <2>2. p \in Had(job[u])
    BY <2>1 DEF Had, PartitionLock, Writing, Inside
  <2> QED
    BY <2>1, <2>2, HadIsHeld
<1> QED
  BY <1>1 DEF Holds

LEMMA CrashFew ==
  ASSUME Types, SwallowInv, Crash
  PROVE  SwallowInv'
<1>1. crashes \in Nat /\ crashes' = crashes + 1 /\ crashes' \in Nat
  BY DEF Crash, SwallowInv
<1>2. PICK n \in [Appending -> UNION {DOMAIN job[w].lines : w \in Appending}] :
        swallowed' = [p \in Partitions |-> swallowed[p] \cup
           UNION {Swallowed(p, SubSeq(job[w].lines, 1, n[w] - 1)) : w \in AppendingAt(p)}]
  BY Zenon DEF Crash, Appending, AppendingAt
<1> DEFINE more(p) ==
      UNION {Swallowed(p, SubSeq(job[w].lines, 1, n[w] - 1)) : w \in AppendingAt(p)}
<1>3. ASSUME NEW p \in Partitions PROVE Few(swallowed'[p], torn'[p], crashes')
  <2>1. swallowed'[p] = swallowed[p] \cup more(p)
    BY <1>2
  <2>2. IsFiniteSet(swallowed[p]) /\ Few(swallowed[p], torn[p], crashes)
    BY DEF SwallowInv, Few
  <2>3. torn[p] \in BOOLEAN /\ torn'[p] \in BOOLEAN
    BY CrashTypes DEF Types, FilesTyped
  <2>4. ~torn[p] => more(p) = {}
    BY SwallowedIs
  <2>5. \E x : more(p) \subseteq {x}
    <3>1. CASE AppendingAt(p) = {}
      BY <3>1
    <3>2. CASE AppendingAt(p) # {}
      <4>1. PICK v : v \in AppendingAt(p)
        BY <3>2
      <4>2. \A w \in AppendingAt(p) : w = v
        BY <4>1, OneAppends
      <4>3. more(p) \subseteq Swallowed(p, SubSeq(job[v].lines, 1, n[v] - 1))
        BY <4>2
      <4> HIDE DEF more
      <4> QED
        BY <4>3, SwallowedIs
    <3> QED
      BY <3>1, <3>2
  <2> HIDE DEF more
  <2>6. PICK x : more(p) \subseteq {x}
    BY <2>5
  <2>7. /\ IsFiniteSet(swallowed[p] \cup more(p))
        /\ Cardinality(swallowed[p]) \in Nat /\ Cardinality(swallowed[p] \cup more(p)) \in Nat
        /\ Cardinality(swallowed[p] \cup more(p)) <= Cardinality(swallowed[p]) + 1
    BY <2>2, <2>6, OneMore
  <2>8. CASE torn[p]
    <3>1. Cardinality(swallowed[p]) + 1 <= crashes
      BY <2>2, <2>8 DEF Few
    <3>2. Cardinality(swallowed'[p]) \in Nat /\ Cardinality(swallowed'[p]) <= crashes
      BY <2>1, <2>7, <3>1, <1>1
    <3> QED
      BY <2>1, <2>3, <2>7, <3>2, <1>1 DEF Few
  <2>9. CASE ~torn[p]
    <3>1. swallowed'[p] = swallowed[p]
      BY <2>1, <2>4, <2>9
    <3>2. Cardinality(swallowed[p]) <= crashes
      BY <2>2, <2>7, <2>9, <1>1 DEF Few
    <3> QED
      BY <2>2, <2>3, <2>7, <3>1, <3>2, <1>1 DEF Few
  <2> QED
    BY <2>3, <2>8, <2>9
<1>4. swallowed' = [p \in Partitions |-> swallowed'[p]]
  BY <1>2
<1> QED
  BY <1>1, <1>3, <1>4 DEF SwallowInv

LEMMA SwallowStep ==
  Types /\ SwallowInv /\ [Next]_vars => SwallowInv'
<1> SUFFICES ASSUME Types, SwallowInv, [Next]_vars PROVE SwallowInv'
  OBVIOUS
<1> DEFINE Mends == /\ UNCHANGED <<swallowed, crashes>>
                    /\ \A p \in Partitions : torn'[p] => torn[p]
<1>1. torn \in [Partitions -> BOOLEAN]
  BY DEF Types, FilesTyped
<1>2. Mends => SwallowInv'
  <2> SUFFICES ASSUME Mends PROVE SwallowInv'
    OBVIOUS
  <2>1. ASSUME NEW p \in Partitions PROVE Few(swallowed[p], torn'[p], crashes)
    <3>1. IsFiniteSet(swallowed[p]) /\ Cardinality(swallowed[p]) \in Nat
      BY FS_CardinalityType DEF SwallowInv, Few
    <3> QED
      BY <3>1 DEF SwallowInv, Few
  <2> QED
    BY <2>1 DEF SwallowInv
<1>3. ASSUME NEW w \in Workers, AppendLog(w) PROVE SwallowInv'
  <2> DEFINE j == job[w]
             p == Head(j.todo)
  <2>1. /\ j.pc = "append" /\ UNCHANGED crashes
        /\ swallowed' = [swallowed EXCEPT ![p] = @ \cup Swallowed(p, j.lines)]
        /\ torn' = [torn EXCEPT ![p] = @ /\ j.lines = << >>]
    BY <1>3 DEF AppendLog, At
  <2>2. p \in Partitions /\ j.lines \in Seq(Line)
    BY <2>1, ApplyInPartition
  <2> HIDE DEF j
  <2>3. /\ torn'[p] = (torn[p] /\ j.lines = << >>)
        /\ \A q \in Partitions : q # p => torn'[q] = torn[q]
    BY <1>1, <2>1, <2>2
  <2> HIDE DEF p
  <2> QED
    BY <2>1, <2>2, <2>3, AppendedFew
<1>4. ASSUME NEW w \in Workers, LogTombs(w) PROVE SwallowInv'
  <2>1. /\ job[w].pc = "tombLog" /\ UNCHANGED crashes
        /\ swallowed' = [swallowed EXCEPT ![Shared] = @ \cup Swallowed(Shared, job[w].lines)]
        /\ torn' = [torn EXCEPT ![Shared] = FALSE]
    BY <1>4 DEF LogTombs, At
  <2>2. Shared \in Partitions /\ job[w].lines \in Seq(Line)
    <3>1. job[w] \in TombJobs
      BY <2>1, StepsOfJobs DEF Types, JobsFit
    <3> QED
      BY <3>1 DEF TombJobs, Partitions
  <2>3. torn'[Shared] = FALSE /\ \A q \in Partitions : q # Shared => torn'[q] = torn[q]
    BY <1>1, <2>1, <2>2
  <2> QED
    BY <2>1, <2>2, <2>3, AppendedFew
<1>5. ASSUME NEW w \in Workers, Start(w) PROVE Mends
  BY <1>5 DEF Start, Apply, Prune, Diff, DeleteUser, DeleteTable, files, past
<1>6. ASSUME NEW w \in Workers,
             Group(w) \/ Stage(w) \/ WriteRecords(w) \/ Leave(w) \/ WriteMeta(w) \/ Return(w)
               \/ CutMeta(w) \/ ReadLog(w) \/ Answer(w)
      PROVE  Mends
  BY <1>6 DEF Group, Stage, WriteRecords, Leave, WriteMeta, Return, CutMeta, ReadLog, Answer,
              files, past
<1>7. ASSUME NEW w \in Workers,
             DropAccount(w) \/ Tombs(w) \/ WriteTombs(w) \/ CountTombs(w) \/ DropTable(w)
               \/ RemoveTable(w)
      PROVE  Mends
  BY <1>7 DEF DropAccount, Tombs, WriteTombs, CountTombs, DropTable, RemoveTable, files, past
<1>8. ASSUME NEW w \in Workers, Cut(w) PROVE Mends
  BY <1>1, <1>8 DEF Cut, past
<1>9. ASSUME NEW w \in Workers, Purge(w) PROVE Mends
  BY <1>1, <1>9 DEF Purge, past
<1>10. ASSUME NEW w \in Workers, RemoveDir(w) PROVE Mends
  BY <1>1, <1>10 DEF RemoveDir, past
<1>11. ASSUME (\E t \in Tables : CreateTable(t)) \/ UNCHANGED vars PROVE Mends
  BY <1>11 DEF CreateTable, vars, files, past
<1> HIDE DEF Mends
<1> QED
  BY <1>2, <1>3, <1>4, <1>5, <1>6, <1>7, <1>8, <1>9, <1>10, <1>11, CrashFew DEF Next, Step

\* No record is shown before its line was appended: what a job has to write
\* comes from the records, which were logged, or is in the lines that it appends
\* first (file.ts:383-402).  The line is one that diffs can tell of the record
\* with, or the one that was appended to an incomplete line (file.ts:266-274);
\* those are no more than there were crashes, as the jobs that append to a log
\* exclude one another.
THEOREM LoggedIsFirst == Spec => []LoggedFirst
<1>1. Init => LoggedInv
  <2>1. Init => \A k \in Keys : records[k].op = "none"
    BY DEF Init, Absent
  <2> QED
    BY <2>1 DEF Init, LoggedInv, RecordsLogged, HasMaps, Idle
<1>2. Init => SwallowInv
  <2> SUFFICES ASSUME Init PROVE SwallowInv
    OBVIOUS
  <2>1. /\ crashes = 0 /\ swallowed = [p \in Partitions |-> {}]
        /\ \A p \in Partitions : torn[p] = FALSE
    BY DEF Init
  <2>2. Few({}, FALSE, 0)
    BY FS_EmptySet DEF Few
  <2> QED
    BY <2>1, <2>2 DEF SwallowInv
<1>3. LoggedInv /\ SwallowInv => LoggedFirst
  <2> SUFFICES ASSUME LoggedInv, SwallowInv PROVE LoggedFirst
    OBVIOUS
  <2>1. ASSUME NEW k \in Keys, records[k].op = "put"
        PROVE  DiffsTell(k) \/ \E e \in swallowed[k[1]] : Tells(e, k)
    <3>1. PICK e \in logged[k[1]] : Tells(e, k)
      BY <2>1 DEF LoggedInv, RecordsLogged, Tells
    <3> QED
      BY <3>1 DEF DiffsTell
  <2>2. ASSUME NEW p \in Partitions PROVE Cardinality(swallowed[p]) <= crashes
    <3>1. IsFiniteSet(swallowed[p]) /\ Cardinality(swallowed[p]) \in Nat /\ crashes \in Nat
      BY FS_CardinalityType DEF SwallowInv, Few
    <3> QED
      BY <3>1 DEF SwallowInv, Few
  <2> QED
    BY <2>1, <2>2 DEF LoggedFirst
<1> QED
  BY <1>1, <1>2, <1>3, LoggedStep, SwallowStep, LocksAreKept, PTL DEF Spec

-----------------------------------------------------------------------------
(* What is gone                                                            *)

LEMMA GoneSteps ==
  ASSUME GoneInv, NEW w \in Workers, NEW n, Becomes(w, n), GoneFits(n, accounts', deleted'),
         accounts' \subseteq accounts, deleted \subseteq deleted'
  PROVE  GoneInv'
<1> SUFFICES ASSUME NEW v \in Workers PROVE GoneFits(job'[v], accounts', deleted')
  BY DEF GoneInv, GoneFits
<1>1. CASE v = w
  BY <1>1 DEF Becomes
<1>2. CASE v # w
  BY <1>2 DEF Becomes, GoneInv, GoneFits
<1> QED
  BY <1>1, <1>2

\* Of the other kinds of jobs this says nothing.
LEMMA OthersGone ==
  ASSUME NEW j, NEW accs, NEW dels, j \in {Idle} \cup ApplyJobs \cup PruneJobs \cup DiffJobs
  PROVE  GoneFits(j, accs, dels)
BY DEF GoneFits, Idle, ApplyJobs, PruneJobs, DiffJobs

LEMMA GoneStart ==
  ASSUME Types, NEW w \in Workers, Start(w)
  PROVE  \E n : Becomes(w, n) /\ \A accs, dels : GoneFits(n, accs, dels)
<1>1. CASE \E a \in Actors, batch \in Batches : Apply(w, a, batch)
  BY <1>1, ApplyIs, OthersGone
<1>2. CASE \E keep \in KeepCounts : Prune(w, keep)
  BY <1>2, PruneIs, OthersGone
<1>3. CASE \E a \in Actors, from \in 1..(meta.seq + 1) : Diff(w, a, from)
  BY <1>3, DiffIs, OthersGone
<1>4. CASE \E u \in accounts, now \in Clock : DeleteUser(w, u, now)
  <2>1. PICK n \in AccountJobs : Becomes(w, n) /\ n.pc = "account"
    BY <1>4, DeleteUserIs
  <2> QED
    BY <2>1 DEF GoneFits, AccountJobs
<1>5. CASE \E t \in Tables : DeleteTable(w, t)
  <2>1. PICK n \in DropJobs : Becomes(w, n) /\ n.pc = "drop"
    BY <1>5, DeleteTableIs
  <2> QED
    BY <2>1 DEF GoneFits, DropJobs
<1> QED
  BY <1>1, <1>2, <1>3, <1>4, <1>5 DEF Start

LEMMA GoneStep ==
  Types /\ GoneInv /\ [Next]_vars =>
    GoneInv' /\ accounts' \subseteq accounts /\ deleted \subseteq deleted'
<1> SUFFICES ASSUME Types, GoneInv, [Next]_vars
             PROVE  GoneInv' /\ accounts' \subseteq accounts /\ deleted \subseteq deleted'
  OBVIOUS
<1>1. accounts' \subseteq accounts /\ deleted \subseteq deleted'
  <2> DEFINE Less == accounts' \subseteq accounts /\ deleted \subseteq deleted'
  <2>1. ASSUME NEW w \in Workers, Start(w) PROVE Less
    BY <2>1 DEF Start, Apply, Prune, Diff, DeleteUser, DeleteTable, files, past
  <2>2. ASSUME NEW w \in Workers,
               Group(w) \/ Stage(w) \/ AppendLog(w) \/ WriteRecords(w) \/ Leave(w)
        PROVE  Less
    BY <2>2 DEF Group, Stage, AppendLog, WriteRecords, Leave, files, past
  <2>3. ASSUME NEW w \in Workers,
               WriteMeta(w) \/ Return(w) \/ Cut(w) \/ CutMeta(w) \/ ReadLog(w) \/ Answer(w)
        PROVE  Less
    BY <2>3 DEF WriteMeta, Return, Cut, CutMeta, ReadLog, Answer, files, past
  <2>4. ASSUME NEW w \in Workers, DropAccount(w) PROVE Less
    BY <2>4 DEF DropAccount, past
  <2>5. ASSUME NEW w \in Workers,
               Tombs(w) \/ WriteTombs(w) \/ LogTombs(w) \/ CountTombs(w) \/ RemoveDir(w)
        PROVE  Less
    BY <2>5 DEF Tombs, WriteTombs, LogTombs, CountTombs, RemoveDir, files, past
  <2>6. ASSUME NEW w \in Workers, DropTable(w) PROVE Less
    BY <2>6 DEF DropTable
  <2>7. ASSUME NEW w \in Workers, RemoveTable(w) \/ Purge(w) PROVE Less
    BY <2>7 DEF RemoveTable, Purge, past
  <2>8. ASSUME (\E t \in Tables : CreateTable(t)) \/ Crash PROVE Less
    BY <2>8 DEF CreateTable, Crash, past
  <2>9. ASSUME UNCHANGED vars PROVE Less
    BY <2>9 DEF vars, files, past
  <2> HIDE DEF Less
  <2>10. ASSUME NEW w \in Workers, Step(w) PROVE Less
    BY <2>2, <2>3, <2>4, <2>5, <2>6, <2>7, <2>10 DEF Step
  <2>11. Less
    BY <2>1, <2>8, <2>9, <2>10 DEF Next
  <2> QED
    BY <2>11 DEF Less
<1> DEFINE Goes(w) == \E n : Becomes(w, n) /\ GoneFits(n, accounts', deleted')
<1>2. \A w \in Workers : GoneFits(job[w], accounts', deleted')
  BY <1>1 DEF GoneInv, GoneFits
<1>3. ASSUME NEW w \in Workers, Group(w) \/ Stage(w) \/ AppendLog(w) \/ WriteRecords(w)
               \/ Leave(w) \/ WriteMeta(w) \/ Return(w) \/ Cut(w) \/ CutMeta(w) \/ ReadLog(w)
               \/ Answer(w)
      PROVE  Goes(w)
  <2>1. \E n \in {Idle} \cup ApplyJobs \cup PruneJobs \cup DiffJobs : Becomes(w, n)
    <3>1. CASE Group(w)
      BY <3>1, GroupIs DEF Follows
    <3>2. CASE Stage(w)
      BY <3>2, StageIs DEF Follows
    <3>3. CASE AppendLog(w)
      BY <3>3, AppendIs DEF GoesOn, Follows
    <3>4. CASE WriteRecords(w)
      BY <3>4, WriteRecordsIs DEF GoesOn, Follows
    <3>5. CASE Leave(w)
      BY <3>5, LeaveIs DEF Follows
    <3>6. CASE WriteMeta(w)
      BY <3>6, WriteMetaIs DEF Follows
    <3>7. CASE Return(w) \/ Answer(w)
      BY <3>7, FinishIs DEF Return, Answer
    <3>8. CASE Cut(w)
      BY <3>8, CutIs DEF CutsOn, Follows
    <3>9. CASE CutMeta(w)
      BY <3>9, CutMetaIs DEF CutsOn, Follows
    <3>10. CASE ReadLog(w)
      BY <3>10, ReadLogIs
    <3> QED
      BY <1>3, <3>1, <3>2, <3>3, <3>4, <3>5, <3>6, <3>7, <3>8, <3>9, <3>10
  <2> QED
    BY <2>1, OthersGone
<1>4. ASSUME NEW w \in Workers, DropAccount(w) PROVE Goes(w)
  <2>1. PICK n \in AccountJobs : Becomes(w, n) /\ n.user = job[w].user
    BY <1>4, DropAccountIs
  <2>2. n.user \notin accounts' /\ n.kind = "account"
    BY <1>4, <2>1 DEF DropAccount, AccountJobs
  <2> QED
    BY <2>1, <2>2 DEF GoneFits
<1>5. ASSUME NEW w \in Workers, Tombs(w) PROVE Goes(w)
  <2>1. PICK n : Becomes(w, n) /\ n \in AccountJobs \cup TombJobs /\ n.user = job[w].user
    BY <1>5, TombsIs
  <2>2. job[w].kind = "account" /\ job[w].pc = "tombs"
    BY <1>5, TombsIs DEF AccountJobs, Tombs, AtPartition, At
  <2>3. n.kind \in {"account", "tombs"} /\ n.user \notin accounts'
    BY <1>2, <2>1, <2>2 DEF AccountJobs, TombJobs, GoneFits
  <2> QED
    BY <2>1, <2>3 DEF GoneFits
<1>6. ASSUME NEW w \in Workers, WriteTombs(w) \/ LogTombs(w) \/ CountTombs(w) PROVE Goes(w)
  <2>1. job[w].kind = "tombs" /\ job[w].pc # "account"
    BY <1>6, TombFacts DEF WriteTombs, LogTombs, CountTombs, At, TombSteps
  <2>2. PICK n : Becomes(w, n) /\ n \in TombJobs \cup RmdirJobs /\ n.user = job[w].user
    BY <1>6, WriteTombsIs, LogTombsIs, CountTombsIs DEF Buries
  <2>3. n.kind \in {"account", "tombs"} /\ n.user \notin accounts'
    BY <1>2, <2>1, <2>2 DEF RmdirJobs, TombJobs, GoneFits
  <2> QED
    BY <2>2, <2>3 DEF GoneFits
<1>7. ASSUME NEW w \in Workers, RemoveDir(w) PROVE Goes(w)
  BY <1>7, FinishIs, OthersGone DEF RemoveDir
<1>8. ASSUME NEW w \in Workers, DropTable(w) PROVE Goes(w)
  <2>1. CASE Becomes(w, Idle)
    BY <2>1, OthersGone
  <2>2. CASE \E n \in DropJobs : Becomes(w, n) /\ n.table = job[w].table
    <3>1. PICK n \in DropJobs : Becomes(w, n) /\ n.table = job[w].table
      BY <2>2
    <3>2. n.table \in deleted' /\ n.kind = "drop"
      BY <1>8, <3>1 DEF DropTable, DropJobs
    <3> QED
      BY <3>1, <3>2 DEF GoneFits
  <2> QED
    BY <1>8, <2>1, <2>2, DropTableIs
<1>9. ASSUME NEW w \in Workers, RemoveTable(w) \/ Purge(w) PROVE Goes(w)
  <2>1. job[w] \in DropJobs /\ job[w].pc # "drop"
    BY <1>9, RemoveTableIs, PurgeIs DEF RemoveTable, Purge, AtPartition, At
  <2>2. CASE Becomes(w, Idle)
    BY <2>2, OthersGone
  <2>3. CASE \E n \in DropJobs : Becomes(w, n) /\ n.table = job[w].table
    <3>1. PICK n \in DropJobs : Becomes(w, n) /\ n.table = job[w].table
      BY <2>3
    <3>2. n.table \in deleted' /\ n.kind = "drop"
      BY <1>2, <2>1, <3>1 DEF GoneFits, DropJobs
    <3> QED
      BY <3>1, <3>2 DEF GoneFits
  <2> QED
    BY <1>9, <2>2, <2>3, RemoveTableIs, PurgeIs
<1>10. ASSUME NEW w \in Workers, Start(w) PROVE Goes(w)
  BY <1>10, GoneStart
<1>11. ASSUME NEW w \in Workers, Goes(w) PROVE GoneInv'
  BY <1>1, <1>11, GoneSteps
<1> HIDE DEF Goes
<1>12. ASSUME NEW w \in Workers, Start(w) \/ Step(w) PROVE GoneInv'
  BY <1>3, <1>4, <1>5, <1>6, <1>7, <1>8, <1>9, <1>10, <1>11, <1>12 DEF Step
<1>13. ASSUME NEW t \in Tables, CreateTable(t) PROVE GoneInv'
  BY <1>13 DEF CreateTable, past, GoneInv
<1>14. ASSUME Crash PROVE GoneInv'
  BY <1>14 DEF Crash, GoneInv, GoneFits, Idle
<1>15. ASSUME UNCHANGED vars PROVE GoneInv'
  BY <1>15 DEF vars, files, past, GoneInv
<1>16. GoneInv'
  BY <1>12, <1>13, <1>14, <1>15 DEF Next
<1> QED
  BY <1>1, <1>16

-----------------------------------------------------------------------------
(* What was acknowledged                                                   *)

\* Something with its place in the order.
Timed(x) == x.ts \in Nat /\ x.cid \in Nat

LEMMA TimedAre ==
  /\ \A r \in Stored : Timed(r)
  /\ \A e \in Line : Timed(e)
  /\ \A e \in Acked : Timed(e)
BY DEF Timed, Stored, Line, Acked

LEMMA BeatsChain ==
  ASSUME NEW r, NEW s, NEW e, Timed(r), Timed(s), Timed(e), Beats(r, s), Beats(s, e)
  PROVE  Beats(r, e)
BY DEF Timed, Beats, ShouldOverwrite

LEMMA BeatsItself ==
  ASSUME NEW r, Timed(r), r.op # "none"
  PROVE  Beats(r, r)
BY DEF Timed, Beats, ShouldOverwrite

\* v has maps of partition p to write.
BusyIn(v, p) == HasMaps(job[v]) /\ Head(job[v].todo) = p

\* Who has them has the lock of the partition.
LEMMA OneIsBusy ==
  ASSUME Types, NEW v \in Workers, NEW w \in Workers, NEW p, BusyIn(v, p), BusyIn(w, p)
  PROVE  v = w
<1>1. Holds(v, p) /\ Holds(w, p)
  BY InPartition DEF BusyIn, HasMaps, Inside, Writing
<1> QED
  BY <1>1 DEF Holds

\* A step of w leaves each record as it was, or need not keep it, or puts something
\* later where w has the lock.
Rewrites(w) ==
  /\ ExcusedKeys \subseteq ExcusedKeys'
  /\ \A k \in Keys :
       \/ k \in ExcusedKeys'
       \/ records'[k] = records[k]
       \/ /\ records[k].op = "none" \/ Beats(records'[k], records[k])
          /\ \A v \in Workers \ {w} : ~BusyIn(v, k[1])

LEMMA SettledStays ==
  ASSUME Types, Types', NEW w \in Workers, Rewrites(w), NEW k \in Keys, NEW e, Timed(e),
         Settled(records, ExcusedKeys, k, e)
  PROVE  Settled(records', ExcusedKeys', k, e)
<1>1. Timed(records[k]) /\ Timed(records'[k])
  BY TimedAre DEF Types, FilesTyped
<1>2. CASE k \in ExcusedKeys \/ k \in ExcusedKeys' \/ records'[k] = records[k]
  BY <1>2 DEF Settled, Rewrites
<1>3. CASE Beats(records'[k], records[k]) /\ Beats(records[k], e)
  BY <1>1, <1>3, BeatsChain DEF Settled
<1> QED
  BY <1>2, <1>3 DEF Settled, Rewrites, Beats

LEMMA KeysAre ==
  /\ \A a \in Actors, e \in Line : KeyOf(a, e) \in Keys
  /\ \A p \in Partitions, t \in Tables, i \in Ids :
       <<p, t, i>> \in Keys /\ <<p, t, i>>[1] = p /\ <<p, t, i>>[2] = t /\ <<p, t, i>>[3] = i
  /\ \A e \in Acked : e.key \in Keys
BY Typed DEF KeyOf, Keys, Line, Acked

\* What the changes of the other jobs need is not touched.
LEMMA OthersSettle ==
  ASSUME Types, Types', AckInv, NEW w \in Workers, Rewrites(w), NEW v \in Workers, v # w
  PROVE  JobSettles(records', ExcusedKeys', job[v])
<1> DEFINE j == job[v]
           p == Head(j.todo)
<1>1. j \in JobStates /\ JobSettles(records, ExcusedKeys, j)
  BY DEF Types, JobsFit, AckInv
<1>2. ASSUME HasMaps(j), NEW t \in j.left, NEW i \in Ids
      PROVE  LET k == <<p, t, i>>
             IN  k \in Keys /\ (k \in ExcusedKeys' \/ records'[k] = records[k])
  <2> DEFINE k == <<p, t, i>>
  <2>1. p \in Partitions /\ t \in Tables
    <3>1. p \in Partitions
      BY <1>2, InPartition DEF HasMaps, Inside
    <3>2. j \in ApplyJobs \cup TombJobs
      BY <1>1, <1>2, StepsOfJobs DEF HasMaps
    <3>3. j.left \subseteq Tables
      BY <3>2 DEF ApplyJobs, TombJobs
    <3> QED
      BY <3>1, <3>3
  <2>2. k \in Keys /\ k[1] = p
    BY <2>1, KeysAre
  <2>3. BusyIn(v, k[1])
    BY <1>2, <2>2 DEF BusyIn
  <2> HIDE DEF k
  <2>4. k \in ExcusedKeys' \/ records'[k] = records[k]
    BY <2>2, <2>3 DEF Rewrites
  <2> QED
    BY <2>2, <2>4 DEF k
<1>3. ASSUME j.kind = "apply" PROVE ApplyingFits(records', ExcusedKeys', j)
  <2>1. /\ j \in ApplyJobs /\ j.actor \in Actors /\ j.applied \subseteq Line
        /\ ToSet(j.lines) \subseteq Line
    <3>1. j \in ApplyJobs /\ j.lines \in Seq(Line)
      BY <1>1, <1>3, KindsOfJobs DEF ApplyJobs
    <3> QED
      BY <3>1, LinesAre DEF ApplyJobs
  <2>2. ApplyingFits(records, ExcusedKeys, j)
    BY <1>1, <1>3 DEF JobSettles
  <2>3. ASSUME NEW e \in Line, Settled(records, ExcusedKeys, KeyOf(j.actor, e), e)
        PROVE  Settled(records', ExcusedKeys', KeyOf(j.actor, e), e)
    BY <2>1, <2>3, KeysAre, TimedAre, SettledStays
  <2>4. \A e \in j.applied : Settled(records', ExcusedKeys', KeyOf(j.actor, e), e)
    BY <2>1, <2>2, <2>3 DEF ApplyingFits
  <2>5. j.pc = "leave" =>
          \A e \in ToSet(j.lines) : Settled(records', ExcusedKeys', KeyOf(j.actor, e), e)
    BY <2>1, <2>2, <2>3 DEF ApplyingFits
  <2>6. ASSUME j.pc \in {"append", "records"}, NEW e \in ToSet(j.lines)
        PROVE  /\ PartitionOf(j.actor, e.table) = Head(j.todo)
               /\ e.table \in j.left \/ Settled(records', ExcusedKeys', KeyOf(j.actor, e), e)
               /\ Beats(j.maps[e.table][e.id], e)
    BY <2>1, <2>2, <2>3, <2>6 DEF ApplyingFits
  <2>7. ASSUME j.pc \in {"append", "records"}, NEW t \in j.left, NEW i \in Ids
        PROVE  LET k == <<p, t, i>>
               IN  \/ k \in ExcusedKeys' \/ records'[k].op = "none"
                   \/ Beats(j.maps[t][i], records'[k])
    <3> DEFINE k == <<p, t, i>>
    <3>1. \/ k \in ExcusedKeys \/ records[k].op = "none"
          \/ Beats(j.maps[t][i], records[k])
      BY <2>2, <2>7 DEF ApplyingFits
    <3>2. k \in ExcusedKeys' \/ records'[k] = records[k]
      BY <1>2, <2>7 DEF HasMaps
    <3>3. ExcusedKeys \subseteq ExcusedKeys'
      BY DEF Rewrites
    <3> HIDE DEF k
    <3>4. \/ k \in ExcusedKeys' \/ records'[k].op = "none"
          \/ Beats(j.maps[t][i], records'[k])
      BY <3>1, <3>2, <3>3
    <3> QED
      BY <3>4 DEF k
  <2> QED
    BY <2>4, <2>5, <2>6, <2>7 DEF ApplyingFits
<1>4. ASSUME j.kind = "tombs" PROVE BuryingFits(records', ExcusedKeys', j)
  <2>1. j.todo = <<Shared>> /\ p = Shared
    BY <1>1, <1>4, KindsOfJobs, SharedFirst DEF TombJobs
  <2> SUFFICES ASSUME j.pc = "tombRecords", NEW t \in j.left, NEW i \in Ids
               PROVE  \/ <<Shared, t, i>> \in ExcusedKeys'
                      \/ j.maps[t][i] = records'[<<Shared, t, i>>]
    BY DEF BuryingFits
  <2>2. <<Shared, t, i>> \in ExcusedKeys \/ j.maps[t][i] = records[<<Shared, t, i>>]
    BY <1>1, <1>4 DEF JobSettles, BuryingFits
  <2>3. <<Shared, t, i>> \in ExcusedKeys' \/ records'[<<Shared, t, i>>] = records[<<Shared, t, i>>]
    BY <1>2, <2>1 DEF HasMaps
  <2> QED
    BY <2>2, <2>3 DEF Rewrites
<1> QED
  BY <1>3, <1>4 DEF JobSettles

LEMMA AckSteps ==
  ASSUME Types, Types', AckInv, NEW w \in Workers, NEW n, Becomes(w, n), Rewrites(w),
         \A e \in acked' : e \in acked \/ Settled(records', ExcusedKeys', e.key, e),
         JobSettles(records', ExcusedKeys', n)
  PROVE  AckInv'
<1>1. ASSUME NEW e \in acked' PROVE Settled(records', ExcusedKeys', e.key, e)
  <2>1. CASE e \in acked
    <3>1. e \in Acked /\ Settled(records, ExcusedKeys, e.key, e)
      BY <2>1 DEF Types, FilesTyped, AckInv
    <3>2. e.key \in Keys /\ Timed(e)
      BY <3>1, KeysAre, TimedAre
    <3> QED
      BY <3>1, <3>2, SettledStays
  <2> QED
    BY <2>1
<1>2. ASSUME NEW v \in Workers PROVE JobSettles(records', ExcusedKeys', job'[v])
  <2>1. CASE v = w
    BY <2>1 DEF Becomes
  <2>2. CASE v # w
    <3>1. job'[v] = job[v]
      BY <2>2 DEF Becomes
    <3> QED
      BY <2>2, <3>1, OthersSettle
  <2> QED
    BY <2>1, <2>2
<1> QED
  BY <1>1, <1>2 DEF AckInv

\* Nothing is asked of other kinds of jobs, nor of a batch that has lines neither to
\* write nor to count.
LEMMA OthersFree ==
  ASSUME NEW n, NEW recs, NEW excused,
         n \in {Idle} \cup PruneJobs \cup DiffJobs \cup AccountJobs \cup RmdirJobs \cup DropJobs
           \/ (n \in TombJobs /\ n.pc # "tombRecords")
  PROVE  JobSettles(recs, excused, n)
BY DEF JobSettles, BuryingFits, Idle, PruneJobs, DiffJobs, AccountJobs, RmdirJobs, DropJobs, TombJobs

LEMMA AppliedSettles ==
  ASSUME NEW n, n \in ApplyJobs, NEW recs, NEW excused, n.pc \notin {"append", "records", "leave"},
         \A e \in n.applied : Settled(recs, excused, KeyOf(n.actor, e), e)
  PROVE  JobSettles(recs, excused, n)
BY DEF JobSettles, ApplyingFits, ApplyJobs

\* What a batch has made stays as long as nothing is written.
LEMMA AppliedStays ==
  ASSUME Types, AckInv, NEW w \in Workers, job[w] \in ApplyJobs, UNCHANGED records,
         ExcusedKeys \subseteq ExcusedKeys'
  PROVE  LET j == job[w]
         IN  /\ \A e \in j.applied : Settled(records', ExcusedKeys', KeyOf(j.actor, e), e)
             /\ j.pc = "leave" => \A e \in ToSet(j.lines) :
                                    Settled(records', ExcusedKeys', KeyOf(j.actor, e), e)
<1> DEFINE j == job[w]
<1>1. ApplyingFits(records, ExcusedKeys, j)
  BY DEF AckInv, JobSettles, ApplyJobs
<1> QED
  BY <1>1 DEF ApplyingFits, Settled

LEMMA FollowerSettles ==
  ASSUME Types, AckInv, NEW w \in Workers, job[w] \in ApplyJobs, UNCHANGED records,
         ExcusedKeys \subseteq ExcusedKeys', NEW n, Follows(n, job[w]),
         n.pc \notin {"append", "records", "leave"}, n.applied = job[w].applied
  PROVE  JobSettles(records', ExcusedKeys', n)
<1>1. \A e \in n.applied : Settled(records', ExcusedKeys', KeyOf(n.actor, e), e)
  BY AppliedStays DEF Follows
<1> QED
  BY <1>1, AppliedSettles DEF Follows

LEMMA QuietSettles ==
  ASSUME Types, AckInv, NEW w \in Workers, Quiet(w), ExcusedKeys \subseteq ExcusedKeys'
  PROVE  \E n : Becomes(w, n) /\ JobSettles(records', ExcusedKeys', n)
<1> DEFINE Fits(n) == JobSettles(records', ExcusedKeys', n)
           Ends == \E n : Becomes(w, n) /\ Fits(n)
           Free == {Idle} \cup PruneJobs \cup DiffJobs \cup AccountJobs \cup RmdirJobs \cup DropJobs
<1>1. UNCHANGED records
  BY QuietIs
<1>2. \A n \in Free : Fits(n)
  BY OthersFree
<1>3. job[w] \in JobStates
  BY DEF Types, JobsFit
<1>4. ASSUME NEW n, Follows(n, job[w]), n.pc \notin {"append", "records", "leave"},
             n.applied = job[w].applied, job[w] \in ApplyJobs
      PROVE  Fits(n)
  BY <1>1, <1>4, FollowerSettles
<1>5. ASSUME Start(w) PROVE Ends
  <2>1. CASE \E a \in Actors, batch \in Batches : Apply(w, a, batch)
    <3>1. PICK n \in ApplyJobs : Becomes(w, n) /\ n.pc = "group" /\ n.applied = {}
      BY <2>1, ApplyIs
    <3>2. \A e \in n.applied : Settled(records', ExcusedKeys', KeyOf(n.actor, e), e)
      BY <3>1
    <3>3. Fits(n)
      BY <3>1, <3>2, AppliedSettles
    <3> HIDE DEF Fits
    <3> QED
      BY <3>1, <3>3
  <2> HIDE DEF Fits
  <2>2. CASE \E keep \in KeepCounts : Prune(w, keep)
    BY <2>2, <1>2, PruneIs
  <2>3. CASE \E a \in Actors, from \in 1..(meta.seq + 1) : Diff(w, a, from)
    BY <2>3, <1>2, DiffIs
  <2>4. CASE \E u \in accounts, now \in Clock : DeleteUser(w, u, now)
    BY <2>4, <1>2, DeleteUserIs
  <2>5. CASE \E t \in Tables : DeleteTable(w, t)
    BY <2>5, <1>2, DeleteTableIs
  <2> QED
    BY <1>5, <2>1, <2>2, <2>3, <2>4, <2>5 DEF Start
<1>6. ASSUME Leave(w) PROVE Ends
  <2>1. job[w].pc = "leave" /\ job[w] \in ApplyJobs
    BY <1>3, <1>6, StepsOfJobs DEF Leave, At
  <2>2. PICK n : /\ Becomes(w, n) /\ Follows(n, job[w]) /\ n.pc \in {"stage", "meta"}
                 /\ n.applied = job[w].applied \cup ToSet(job[w].lines)
    BY <1>6, LeaveIs
  <2>3. \A e \in n.applied : Settled(records', ExcusedKeys', KeyOf(n.actor, e), e)
    BY <1>1, <2>1, <2>2, AppliedStays DEF Follows
  <2>4. Fits(n)
    BY <2>2, <2>3, AppliedSettles DEF Follows
  <2> HIDE DEF Fits
  <2> QED
    BY <2>2, <2>4
<1> HIDE DEF Fits
<1>7. ASSUME Group(w) PROVE Ends
  <2>1. job[w] \in ApplyJobs
    BY <1>3, <1>7, StepsOfJobs DEF Group, At
  <2> QED
    BY <2>1, <1>2, <1>4, <1>7, GroupIs
<1>8. ASSUME WriteMeta(w) PROVE Ends
  <2>1. job[w] \in ApplyJobs
    BY <1>3, <1>8, StepsOfJobs DEF WriteMeta, At
  <2> QED
    BY <2>1, <1>4, <1>8, WriteMetaIs
<1>9. ASSUME Cut(w) \/ CutMeta(w) PROVE Ends
  <2>1. \E n : Becomes(w, n) /\ CutsOn(n, job[w]) /\ n.pc \in {"cut", "cutMeta", "return"}
    BY <1>9, CutIs, CutMetaIs
  <2> QED
    BY <2>1, <1>2, <1>4 DEF CutsOn
<1>10. ASSUME Return(w) \/ Answer(w) PROVE Ends
  BY <1>2, <1>10, FinishIs DEF Return, Answer
<1>11. ASSUME ReadLog(w) \/ DropAccount(w) \/ CountTombs(w) PROVE Ends
  BY <1>2, <1>11, ReadLogIs, DropAccountIs, CountTombsIs
<1>12. ASSUME DropTable(w) \/ Purge(w) PROVE Ends
  BY <1>2, <1>12, DropTableIs, PurgeIs
<1> HIDE DEF Ends
<1>13. Ends
  BY <1>5, <1>6, <1>7, <1>8, <1>9, <1>10, <1>11, <1>12 DEF Quiet
<1> QED
  BY <1>13 DEF Ends, Fits

\* What a batch has worked out: its lines are of the partition, and the maps are
\* later than they are and than what there was.
StagedFits(a, p, st) ==
  /\ \A e \in ToSet(st.lines) :
       /\ PartitionOf(a, e.table) = p /\ e.table \in st.left
       /\ Beats(st.maps[e.table][e.id], e)
  /\ \A t \in Tables, i \in Ids :
       records[<<p, t, i>>].op = "none" \/ Beats(st.maps[t][i], records[<<p, t, i>>])

LEMMA NowBeats ==
  ASSUME NEW a, NEW c, c \in Change, NEW x, Wins(c, x), NEW n
  PROVE  LET now == NowOf(a, c, x)
             line == LineOf(a, c, x, n)
         IN  /\ Beats(now, line) /\ Timed(now)
             /\ x.op # "none" => Beats(now, x)
             /\ line.table = c.table /\ line.id = c.id
BY DEF Wins, ShouldOverwrite, NowOf, LineOf, Beats, Change, Timed

LEMMA StagedSettled ==
  ASSUME Types, NEW a \in Actors, NEW p \in Partitions, NEW batch \in Seq(Change),
         NEW numbers \in Nums
  PROVE  LET st == Staged(a, p, batch, numbers)
         IN  st.ok => StagedFits(a, p, st)
<1> DEFINE S == {st \in StageStates : st.ok => StagedFits(a, p, st)}
<1>1. records \in [Keys -> Stored]
  BY DEF Types, FilesTyped
<1>2. \A t \in Tables, i \in Ids : records[<<p, t, i>>] \in Stored
  BY <1>1, KeysAre
<1>3. StageStart(p, numbers) \in S
  <2>1. StageStart(p, numbers).maps = Stored0(p) /\ StageStart(p, numbers).lines = << >>
    BY DEF StageStart
  <2>2. ToSet(<< >>) = {}
    BY DEF ToSet
  <2>3. \A t \in Tables, i \in Ids :
          records[<<p, t, i>>].op = "none" \/ Beats(Stored0(p)[t][i], records[<<p, t, i>>])
    BY <1>2, BeatsItself, TimedAre DEF Stored0
  <2>4. StagedFits(a, p, StageStart(p, numbers))
    BY <2>1, <2>2, <2>3 DEF StagedFits
  <2> QED
    BY <1>1, <2>4, StartTyped
<1>4. ASSUME NEW st \in S, NEW n \in 1..Len(batch) PROVE Stages(a, p, st, batch[n]) \in S
  <2> DEFINE c == batch[n]
             next == Stages(a, p, st, c)
             x == st.maps[c.table][c.id]
             now == NowOf(a, c, x)
             line == LineOf(a, c, x, st.meta.seq + 1)
  <2>1. c \in Change /\ st \in StageStates /\ st.maps \in Maps /\ st.lines \in Seq(Line)
        /\ st.meta \in Nums
    BY DEF StageStates
  <2>2. st.ok => StagedFits(a, p, st)
    BY DEF S
  <2> HIDE DEF S, c
  <2>3. next \in StageStates /\ x \in Stored /\ c.table \in Tables /\ c.id \in Ids
        /\ StagesTo(a, p, st, c, x, next)
    BY <2>1, StagesIs
  <2>4. line \in Line
    <3>1. st.meta.seq + 1 \in Nat
      BY <2>1 DEF Nums
    <3> HIDE DEF x
    <3> QED
      BY <2>1, <2>3, <3>1, EntryTyped
  <2>5. ASSUME Wins(c, x)
        PROVE  /\ Beats(now, line) /\ Timed(now) /\ (x.op # "none" => Beats(now, x))
               /\ line.table = c.table /\ line.id = c.id
    <3> HIDE DEF x
    <3> QED
      BY <2>1, <2>5, NowBeats
  <2>6. Applies(a, p, st, c) => Wins(c, x)
    BY DEF Applies
  <2> HIDE DEF next, x, now, line
  <2>7. ASSUME next.ok PROVE StagedFits(a, p, next)
    <3>1. CASE next = st
      BY <2>2, <2>7, <3>1
    <3>2. CASE /\ ~Skips(a, p, st, c) /\ next.left = st.left \cup {c.table}
               /\ next.lines = st.lines /\ next.maps = st.maps
      BY <2>2, <3>2 DEF Skips, StagedFits
    <3>3. CASE /\ Applies(a, p, st, c) /\ next.left = st.left \cup {c.table}
               /\ next.lines = Append(st.lines, line)
               /\ next.maps = Put(st.maps, c.table, c.id, now)
      <4>1. StagedFits(a, p, st) /\ PartitionOf(a, c.table) = p
        BY <2>2, <3>3 DEF Applies, Skips
      <4>2. ToSet(next.lines) = ToSet(st.lines) \cup {line}
        BY <2>1, <2>4, <3>3, LinesAppended
      <4>3. \A t \in Tables, i \in Ids :
              next.maps[t][i] = IF t = c.table /\ i = c.id THEN now ELSE st.maps[t][i]
        BY <2>1, <2>3, <3>3 DEF Put, Maps
      <4>4. next.maps[c.table][c.id] = now
        BY <2>3, <4>3
      <4>5. \A t \in Tables, i \in Ids : Timed(st.maps[t][i])
        BY <2>1, TimedAre DEF Maps
      <4>6. ASSUME NEW t \in Tables, NEW i \in Ids, NEW e, Timed(e), Beats(st.maps[t][i], e)
            PROVE  Beats(next.maps[t][i], e)
        <5>1. CASE t = c.table /\ i = c.id
          <6>1. st.maps[t][i] = x
            BY <5>1 DEF x
          <6>2. Beats(now, x)
            BY <6>1, <4>6, <2>5, <2>6, <3>3 DEF Beats
          <6>3. Beats(now, e)
            BY <6>1, <6>2, <4>5, <4>6, <2>5, <2>6, <3>3, BeatsChain
          <6> QED
            BY <5>1, <6>3, <4>4
        <5>2. CASE ~(t = c.table /\ i = c.id)
          BY <5>2, <4>3, <4>6
        <5> QED
          BY <5>1, <5>2
      <4>7. ASSUME NEW e \in ToSet(next.lines)
            PROVE  /\ PartitionOf(a, e.table) = p /\ e.table \in next.left
                   /\ Beats(next.maps[e.table][e.id], e)
        <5>1. CASE e = line
          BY <5>1, <4>1, <4>4, <2>5, <2>6, <3>3
        <5>2. CASE e \in ToSet(st.lines)
          <6>1. e \in Line
            BY <5>2, <2>1, LinesAre
          <6>2. e.table \in Tables /\ e.id \in Ids /\ Timed(e)
            BY <6>1, TimedAre DEF Line
          <6>3. /\ PartitionOf(a, e.table) = p /\ e.table \in st.left
                /\ Beats(st.maps[e.table][e.id], e)
            BY <5>2, <4>1 DEF StagedFits
          <6> QED
            BY <6>2, <6>3, <4>6, <3>3
        <5> QED
          BY <5>1, <5>2, <4>2
      <4>8. ASSUME NEW t \in Tables, NEW i \in Ids
            PROVE  records[<<p, t, i>>].op = "none" \/ Beats(next.maps[t][i], records[<<p, t, i>>])
        <5>1. Timed(records[<<p, t, i>>])
          BY <1>2, TimedAre
        <5> QED
          BY <5>1, <4>1, <4>6 DEF StagedFits
      <4> QED
        BY <4>7, <4>8 DEF StagedFits
    <3>4. ~(next.ok = FALSE)
      BY <2>7
    <3> QED
      BY <2>3, <3>1, <3>2, <3>3, <3>4 DEF StagesTo, now, line
  <2> QED
    BY <2>3, <2>7 DEF S, c, next
<1>5. S \in SUBSET StageStates
  OBVIOUS
<1> HIDE DEF S
<1>6. Staged(a, p, batch, numbers) \in S
  BY <1>1, <1>3, <1>4, <1>5, StagedRule
<1> QED
  BY <1>6 DEF S

LEMMA StageAcks ==
  ASSUME Types, Types', AckInv, NEW w \in Workers, Stage(w), ExcusedKeys \subseteq ExcusedKeys'
  PROVE  AckInv'
<1> DEFINE j == job[w]
           p == Head(j.todo)
           st == Staged(j.actor, p, j.batch, j.meta)
<1>1. UNCHANGED records /\ UNCHANGED acked
  BY DEF Stage, files, past
<1>2. /\ j \in ApplyJobs /\ j.actor \in Actors /\ j.batch \in Seq(Change) /\ j.meta \in Nums
      /\ p \in Partitions
  <2>1. j \in ApplyJobs
    BY StepsOfJobs DEF Stage, AtPartition, At, Types, JobsFit
  <2> QED
    BY <2>1, Typed, InPartition DEF Stage, AtPartition, At, Inside, ApplyJobs
<1>3. st \in StageStates /\ (st.ok => StagedFits(j.actor, p, st))
  BY <1>2, StagedSettled, StagedTyped DEF Types, FilesTyped
<1>4. Rewrites(w)
  BY <1>1 DEF Rewrites
<1>5. CASE Becomes(w, Idle)
  BY <1>1, <1>4, <1>5, AckSteps, OthersFree
<1>6. CASE \E n : /\ Becomes(w, n) /\ st.ok /\ Follows(n, j) /\ n.pc = "append"
                  /\ n.todo = j.todo /\ n.maps = st.maps /\ n.left = st.left
                  /\ n.lines = st.lines /\ n.applied = j.applied
  <2>1. PICK n : /\ Becomes(w, n) /\ st.ok /\ Follows(n, j) /\ n.pc = "append"
                 /\ n.todo = j.todo /\ n.maps = st.maps /\ n.left = st.left
                 /\ n.lines = st.lines /\ n.applied = j.applied
    BY <1>6
  <2>2. \A e \in n.applied : Settled(records', ExcusedKeys', KeyOf(n.actor, e), e)
    BY <1>1, <1>2, <2>1, AppliedStays DEF Follows
  <2>3. st.left \subseteq Tables
    BY <1>3 DEF StageStates
  <2> HIDE DEF st
  <2>4. ApplyingFits(records', ExcusedKeys', n)
    BY <1>1, <1>3, <2>1, <2>2, <2>3 DEF ApplyingFits, StagedFits, Follows
  <2>5. JobSettles(records', ExcusedKeys', n)
    BY <2>1, <2>4 DEF JobSettles, Follows, ApplyJobs
  <2> QED
    BY <1>1, <1>4, <2>1, <2>5, AckSteps
<1> QED
  BY <1>5, <1>6, StageIs

LEMMA AppendAcks ==
  ASSUME Types, Types', AckInv, NEW w \in Workers, AppendLog(w), ExcusedKeys \subseteq ExcusedKeys'
  PROVE  AckInv'
<1> DEFINE j == job[w]
<1>1. UNCHANGED records /\ UNCHANGED acked /\ j.pc = "append"
  BY DEF AppendLog, At
<1>2. j \in ApplyJobs /\ ApplyingFits(records, ExcusedKeys, j)
  BY <1>1, ApplyInPartition DEF AckInv, JobSettles
<1>3. PICK n : Becomes(w, n) /\ GoesOn(n, j) /\ n.pc = "records" /\ n.left = j.left
  BY AppendIs
<1>4. ApplyingFits(records', ExcusedKeys', n)
  BY <1>1, <1>2, <1>3 DEF ApplyingFits, Settled, GoesOn, Follows
<1>5. JobSettles(records', ExcusedKeys', n)
  BY <1>3, <1>4 DEF JobSettles, GoesOn, Follows, ApplyJobs
<1>6. Rewrites(w)
  BY <1>1 DEF Rewrites
<1> QED
  BY <1>1, <1>3, <1>5, <1>6, AckSteps

\* The file of a table is written by who has the lock of the partition.
LEMMA WriteRewrites ==
  ASSUME Types, NEW w \in Workers, NEW p \in Partitions, NEW t \in Tables, NEW map,
         map \in [Ids -> Stored], BusyIn(w, p), WriteFile(p, t, map),
         ExcusedKeys \subseteq ExcusedKeys',
         \A i \in Ids : LET k == <<p, t, i>>
                        IN  \/ k \in ExcusedKeys' \/ records[k].op = "none"
                            \/ map[i] = records[k] \/ Beats(map[i], records[k])
  PROVE  Rewrites(w)
<1> SUFFICES ASSUME NEW k \in Keys
             PROVE  \/ k \in ExcusedKeys'
                    \/ records'[k] = records[k]
                    \/ /\ records[k].op = "none" \/ Beats(records'[k], records[k])
                       /\ \A v \in Workers \ {w} : ~BusyIn(v, k[1])
  BY DEF Rewrites
<1>1. PICK q \in Partitions, u \in Tables, i \in Ids : k = <<q, u, i>>
  BY DEF Keys
<1>2. records'[k] = InFile(p, t, map, q, u, i)
  BY <1>1, WriteFileIs DEF Types, FilesTyped
<1>3. CASE q = p /\ u = t
  <2>1. records'[k] = map[i] /\ k = <<p, t, i>> /\ k[1] = p
    BY <1>1, <1>2, <1>3 DEF InFile
  <2>2. \/ k \in ExcusedKeys' \/ records[k].op = "none"
        \/ map[i] = records[k] \/ Beats(map[i], records[k])
    BY <2>1
  <2>3. \A v \in Workers \ {w} : ~BusyIn(v, p)
    BY OneIsBusy
  <2> QED
    BY <2>1, <2>2, <2>3
<1>4. CASE ~(q = p /\ u = t)
  BY <1>1, <1>2, <1>4 DEF InFile
<1> QED
  BY <1>3, <1>4

LEMMA WriteRecordsAcks ==
  ASSUME Types, Types', AckInv, NEW w \in Workers, WriteRecords(w),
         ExcusedKeys \subseteq ExcusedKeys'
  PROVE  AckInv'
<1> DEFINE j == job[w]
           p == Head(j.todo)
           a == j.actor
<1>1. UNCHANGED acked /\ j.pc = "records"
  BY DEF WriteRecords, At, past
<1>2. /\ j \in ApplyJobs /\ ApplyingFits(records, ExcusedKeys, j) /\ a \in Actors
      /\ p \in Partitions /\ j.left \subseteq Tables /\ j.maps \in Maps
      /\ ToSet(j.lines) \subseteq Line /\ j.applied \subseteq Line
  BY <1>1, ApplyInPartition DEF AckInv, JobSettles
<1>3. \A e \in Line : KeyOf(a, e) \in Keys /\ Timed(e)
  BY <1>2, KeysAre, TimedAre
<1>4. CASE j.left = {} /\ UNCHANGED records
           /\ \E n : Becomes(w, n) /\ GoesOn(n, j) /\ n.pc = "leave"
  <2>1. PICK n : Becomes(w, n) /\ GoesOn(n, j) /\ n.pc = "leave"
    BY <1>4
  <2>2. Rewrites(w)
    BY <1>4 DEF Rewrites
  <2>3. \A e \in ToSet(j.lines) : Settled(records, ExcusedKeys, KeyOf(a, e), e)
    BY <1>1, <1>2, <1>4 DEF ApplyingFits
  <2>4. ApplyingFits(records', ExcusedKeys', n)
    BY <1>2, <1>4, <2>1, <2>3 DEF ApplyingFits, Settled, GoesOn, Follows
  <2>5. JobSettles(records', ExcusedKeys', n)
    BY <2>1, <2>4 DEF JobSettles, GoesOn, Follows, ApplyJobs
  <2> QED
    BY <1>1, <2>1, <2>2, <2>5, AckSteps
<1>5. ASSUME NEW t \in j.left, NEW n, WriteFile(p, t, j.maps[t]), Becomes(w, n), GoesOn(n, j),
             n.pc = "records", n.left = j.left \ {t}
      PROVE  AckInv'
  <2> DEFINE map == j.maps[t]
  <2>1. t \in Tables /\ map \in [Ids -> Stored] /\ BusyIn(w, p)
    BY <1>1, <1>2 DEF Maps, BusyIn, HasMaps
  <2>2. \A u \in j.left, i \in Ids :
          LET k == <<p, u, i>>
          IN  k \in ExcusedKeys \/ records[k].op = "none" \/ Beats(j.maps[u][i], records[k])
    BY <1>1, <1>2 DEF ApplyingFits
  <2>3. \A u \in Tables, i \in Ids :
          <<p, u, i>> \in Keys /\ records'[<<p, u, i>>] = InFile(p, t, map, p, u, i)
    BY <1>2, <1>5, <2>1, WriteFileIs, KeysAre DEF Types, FilesTyped
  <2> HIDE DEF p, map
  <2>4. Rewrites(w)
    BY <1>2, <1>5, <2>1, <2>2, WriteRewrites DEF p, map
  <2>5. \A e \in Line : Settled(records, ExcusedKeys, KeyOf(a, e), e) =>
          Settled(records', ExcusedKeys', KeyOf(a, e), e)
    BY <1>3, <2>4, SettledStays
  <2>6. n.actor = a /\ n.applied = j.applied /\ n.lines = j.lines /\ n.maps = j.maps
        /\ n.todo = j.todo /\ Head(n.todo) = p
    BY <1>5 DEF GoesOn, Follows, p
  <2>7. ASSUME NEW e \in ToSet(j.lines)
        PROVE  /\ PartitionOf(a, e.table) = p
               /\ e.table \in n.left \/ Settled(records', ExcusedKeys', KeyOf(a, e), e)
               /\ Beats(j.maps[e.table][e.id], e)
    <3>1. /\ PartitionOf(a, e.table) = p /\ Beats(j.maps[e.table][e.id], e)
          /\ e.table \in j.left \/ Settled(records, ExcusedKeys, KeyOf(a, e), e)
      BY <1>1, <1>2 DEF ApplyingFits, p
    <3>2. e \in Line /\ e.id \in Ids /\ e.table \in Tables
      BY <1>2 DEF Line
    <3>3. CASE e.table = t
      <4>1. KeyOf(a, e) = <<p, t, e.id>>
        BY <3>1, <3>3 DEF KeyOf
      <4>2. records'[<<p, t, e.id>>] = map[e.id]
        BY <2>1, <2>3, <3>2 DEF InFile
      <4>3. Settled(records', ExcusedKeys', KeyOf(a, e), e)
        BY <3>1, <3>3, <4>1, <4>2 DEF Settled, map
      <4> QED
        BY <3>1, <4>3
    <3>4. CASE e.table # t /\ e.table \in j.left
      BY <1>5, <3>1, <3>4
    <3>5. CASE e.table \notin j.left
      BY <2>5, <3>1, <3>2, <3>5
    <3> QED
      BY <3>3, <3>4, <3>5
  <2>8. ASSUME NEW u \in n.left, NEW i \in Ids
        PROVE  LET k == <<p, u, i>>
               IN  \/ k \in ExcusedKeys' \/ records'[k].op = "none"
                   \/ Beats(j.maps[u][i], records'[k])
    <3>1. u \in j.left /\ u # t /\ u \in Tables
      BY <1>2, <1>5
    <3>2. records'[<<p, u, i>>] = records[<<p, u, i>>]
      BY <2>3, <3>1 DEF InFile
    <3> QED
      BY <2>2, <3>1, <3>2
  <2>9. \A e \in j.applied : Settled(records', ExcusedKeys', KeyOf(a, e), e)
    BY <1>2, <2>5 DEF ApplyingFits
  <2>10. ApplyingFits(records', ExcusedKeys', n)
    BY <1>5, <2>6, <2>7, <2>8, <2>9 DEF ApplyingFits
  <2>11. JobSettles(records', ExcusedKeys', n)
    BY <1>5, <2>10 DEF JobSettles, GoesOn, Follows, ApplyJobs
  <2> QED
    BY <1>1, <1>5, <2>4, <2>11, AckSteps
<1> QED
  BY <1>4, <1>5, WriteRecordsIs

LEMMA WriteTombsAcks ==
  ASSUME Types, Types', AckInv, NEW w \in Workers, WriteTombs(w),
         ExcusedKeys \subseteq ExcusedKeys'
  PROVE  AckInv'
<1> DEFINE j == job[w]
<1>1. UNCHANGED acked /\ j.pc = "tombRecords"
  BY DEF WriteTombs, At, past
<1>2. /\ j.kind = "tombs" /\ j.maps \in Maps /\ j.left \subseteq Tables /\ Head(j.todo) = Shared
  BY <1>1, TombFacts DEF TombSteps
<1>3. \A t \in j.left, i \in Ids :
        <<Shared, t, i>> \in ExcusedKeys \/ j.maps[t][i] = records[<<Shared, t, i>>]
  BY <1>1, <1>2 DEF AckInv, JobSettles, BuryingFits
<1>4. PICK t \in j.left : \E n :
        /\ WriteFile(Shared, t, j.maps[t]) /\ Becomes(w, n) /\ Buries(n, j)
        /\ n.left = j.left \ {t}
  BY WriteTombsIs
<1>5. PICK n : /\ WriteFile(Shared, t, j.maps[t]) /\ Becomes(w, n) /\ Buries(n, j)
               /\ n.left = j.left \ {t}
  BY <1>4
<1>6. t \in Tables /\ j.maps[t] \in [Ids -> Stored] /\ BusyIn(w, Shared) /\ Shared \in Partitions
  BY <1>1, <1>2 DEF Maps, BusyIn, HasMaps, Partitions
<1>7. Rewrites(w)
  BY <1>3, <1>5, <1>6, WriteRewrites
<1>8. \A u \in Tables, i \in Ids :
        records'[<<Shared, u, i>>] = InFile(Shared, t, j.maps[t], Shared, u, i)
  BY <1>5, <1>6, WriteFileIs DEF Types, FilesTyped
<1>9. ASSUME NEW u \in n.left, NEW i \in Ids
      PROVE  <<Shared, u, i>> \in ExcusedKeys' \/ n.maps[u][i] = records'[<<Shared, u, i>>]
  <2>1. u \in j.left /\ u # t /\ u \in Tables /\ n.maps = j.maps
    BY <1>2, <1>5 DEF Buries
  <2>2. records'[<<Shared, u, i>>] = records[<<Shared, u, i>>]
    BY <2>1, <1>8 DEF InFile
  <2> QED
    BY <2>1, <2>2, <1>3
<1>10. JobSettles(records', ExcusedKeys', n)
  BY <1>5, <1>9 DEF JobSettles, BuryingFits, Buries, TombJobs
<1> QED
  BY <1>1, <1>5, <1>7, <1>10, AckSteps

\* What is rewritten is buried.
LEMMA TombsAcks ==
  ASSUME Types, Types', AckInv, NEW w \in Workers, Tombs(w), ExcusedKeys \subseteq ExcusedKeys'
  PROVE  AckInv'
<1> DEFINE j == job[w]
<1>1. UNCHANGED acked /\ UNCHANGED records /\ buried' = buried \cup MadeBy(j.user)
  BY DEF Tombs, files
<1>2. Rewrites(w)
  BY <1>1 DEF Rewrites
<1>3. CASE \E n \in AccountJobs : Becomes(w, n)
  BY <1>1, <1>2, <1>3, AckSteps, OthersFree
<1>4. CASE \E n \in TombJobs : /\ j \in AccountJobs /\ Becomes(w, n) /\ n.left \subseteq Tables
                               /\ n.maps = TombMaps(j)
  <2>1. PICK n \in TombJobs : /\ j \in AccountJobs /\ Becomes(w, n) /\ n.left \subseteq Tables
                              /\ n.maps = TombMaps(j)
    BY <1>4
  <2>2. ASSUME NEW t \in n.left, NEW i \in Ids
        PROVE  <<Shared, t, i>> \in ExcusedKeys' \/ n.maps[t][i] = records'[<<Shared, t, i>>]
    <3>1. TombMaps(j)[t][i] = IF <<Shared, t, i>> \in MadeBy(j.user)
                              THEN DeadOf(j)[<<Shared, t, i>>] ELSE records[<<Shared, t, i>>]
      BY <2>1, TombsAre DEF Types
    <3>2. CASE <<Shared, t, i>> \in MadeBy(j.user)
      <4>1. <<Shared, t, i>> \in Keys /\ <<Shared, t, i>> \in buried'
        BY <1>1, <3>2 DEF MadeBy
      <4> QED
        BY <4>1 DEF ExcusedKeys
    <3>3. CASE <<Shared, t, i>> \notin MadeBy(j.user)
      BY <1>1, <2>1, <3>1, <3>3
    <3> QED
      BY <3>2, <3>3
  <2>3. JobSettles(records', ExcusedKeys', n)
    BY <2>1, <2>2 DEF JobSettles, BuryingFits, TombJobs
  <2> QED
    BY <1>1, <1>2, <2>1, <2>3, AckSteps
<1> QED
  BY <1>3, <1>4, TombsIs

\* What is removed is of an account or a table that is gone.
LEMMA RemoveAcks ==
  ASSUME Types, Types', GoneInv, AckInv, NEW w \in Workers, RemoveDir(w) \/ RemoveTable(w),
         ExcusedKeys \subseteq ExcusedKeys'
  PROVE  AckInv'
<1> DEFINE j == job[w]
<1>1. UNCHANGED acked /\ GoneFits(j, accounts, deleted)
  BY DEF RemoveDir, RemoveTable, past, GoneInv
<1>2. CASE RemoveDir(w)
  <2>1. j.user \in Users /\ j.kind = "account" /\ j.pc = "rmdir"
    <3>1. j \in AccountJobs \cup RmdirJobs
      BY <1>2, StepsOfJobs DEF RemoveDir, At, Types, JobsFit
    <3> QED
      BY <1>2, <3>1 DEF AccountJobs, RmdirJobs, RemoveDir, At
  <2>2. \A k \in Keys : k[1] = j.user => k \in ExcusedKeys
    BY <1>1, <2>1 DEF GoneFits, ExcusedKeys
  <2>3. \A k \in Keys : k[1] = j.user \/ records'[k] = records[k]
    BY <1>2 DEF RemoveDir
  <2>4. Rewrites(w)
    BY <2>2, <2>3 DEF Rewrites
  <2>5. Becomes(w, Idle) /\ JobSettles(records', ExcusedKeys', Idle)
    BY <1>2, FinishIs, OthersFree DEF RemoveDir
  <2> QED
    BY <1>1, <2>4, <2>5, AckSteps
<1>3. CASE RemoveTable(w)
  <2>1. j \in DropJobs /\ j.kind = "drop" /\ j.pc = "rm"
    BY <1>3, RemoveTableIs DEF RemoveTable, At, DropJobs
  <2>2. \A k \in Keys : k[2] = j.table => k \in ExcusedKeys
    BY <1>1, <2>1 DEF GoneFits, ExcusedKeys
  <2>3. \A k \in Keys : k[2] = j.table \/ records'[k] = records[k]
    BY <1>3, RemoveTableIs DEF WriteFile
  <2>4. Rewrites(w)
    BY <2>2, <2>3 DEF Rewrites
  <2>5. PICK n \in DropJobs : Becomes(w, n)
    BY <1>3, RemoveTableIs
  <2>6. JobSettles(records', ExcusedKeys', n)
    BY OthersFree
  <2> QED
    BY <1>1, <2>4, <2>5, <2>6, AckSteps
<1> QED
  BY <1>2, <1>3

\* Whether something is settled is a matter of its place in the order.
LEMMA SettledLike ==
  ASSUME NEW recs, NEW excused, NEW k, NEW e, NEW f, e.op = f.op, e.ts = f.ts, e.cid = f.cid,
         Settled(recs, excused, k, f)
  PROVE  Settled(recs, excused, k, e)
BY DEF Settled, Beats, ShouldOverwrite

\* What is acknowledged is what the batch has made.
LEMMA QuietAcks ==
  ASSUME Types, Types', AckInv, NEW w \in Workers, Quiet(w), ExcusedKeys \subseteq ExcusedKeys'
  PROVE  AckInv'
<1> DEFINE j == job[w]
<1>1. UNCHANGED records
  BY QuietIs
<1>2. PICK n : Becomes(w, n) /\ JobSettles(records', ExcusedKeys', n)
  BY QuietSettles
<1>3. Rewrites(w)
  BY <1>1 DEF Rewrites
<1>4. ASSUME NEW e \in acked', e \notin acked PROVE Settled(records', ExcusedKeys', e.key, e)
  <2>1. Return(w)
    BY <1>4 DEF Quiet, Start, Apply, Prune, Diff, DeleteUser, DeleteTable, Group, Leave, WriteMeta,
         Cut, CutMeta, ReadLog, Answer, DropAccount, CountTombs, DropTable, Purge, past
  <2>2. j.kind = "apply"
    BY <1>4, <2>1 DEF Return
  <2>3. j \in ApplyJobs
    BY <2>2, KindsOfJobs DEF Types, JobsFit
  <2>4. acked' = acked \cup {AckOf(j.actor, f) : f \in j.applied}
    BY <2>1, <2>2 DEF Return, AckOf
  <2>5. PICK f \in j.applied : e = AckOf(j.actor, f)
    BY <1>4, <2>4
  <2>6. Settled(records', ExcusedKeys', KeyOf(j.actor, f), f)
    BY <1>1, <2>3, AppliedStays
  <2>7. e.key = KeyOf(j.actor, f) /\ e.op = f.op /\ e.ts = f.ts /\ e.cid = f.cid
    BY <2>5 DEF AckOf, KeyOf
  <2> QED
    BY <2>6, <2>7, SettledLike
<1> QED
  BY <1>2, <1>3, <1>4, AckSteps

LEMMA ExcusedGrow ==
  ASSUME Types, GoneInv, [Next]_vars
  PROVE  ExcusedKeys \subseteq ExcusedKeys'
<1>1. accounts' \subseteq accounts /\ deleted \subseteq deleted'
  BY GoneStep
<1>2. buried \subseteq buried'
  <2>1. ASSUME NEW w \in Workers, Tombs(w) PROVE buried \subseteq buried'
    BY <2>1 DEF Tombs
  <2>2. (\A w \in Workers : ~Tombs(w)) => UNCHANGED buried
    BY DEF Next, Start, Step, vars, past, Apply, Prune, Diff, DeleteUser, DeleteTable, Group,
           Stage, AppendLog, WriteRecords, Leave, WriteMeta, Return, Cut, CutMeta, ReadLog, Answer,
           DropAccount, WriteTombs, LogTombs, CountTombs, RemoveDir, DropTable, RemoveTable,
           Purge, CreateTable, Crash
  <2> QED
    BY <2>1, <2>2
<1> QED
  BY <1>1, <1>2 DEF ExcusedKeys

LEMMA AckStep ==
  Types /\ GoneInv /\ AckInv /\ [Next]_vars => AckInv'
<1> SUFFICES ASSUME Types, GoneInv, AckInv, [Next]_vars PROVE AckInv'
  OBVIOUS
<1>1. ExcusedKeys \subseteq ExcusedKeys' /\ Types'
  BY ExcusedGrow, NextTypes
<1>2. ASSUME NEW w \in Workers, LogTombs(w) PROVE AckInv'
  <2>1. PICK n : Becomes(w, n) /\ Buries(n, job[w]) /\ n.pc = "tombMeta"
    BY <1>2, LogTombsIs
  <2>2. UNCHANGED records /\ UNCHANGED acked
    BY <1>2 DEF LogTombs
  <2>3. Rewrites(w)
    BY <1>1, <2>2 DEF Rewrites
  <2>4. JobSettles(records', ExcusedKeys', n)
    BY <2>1, OthersFree DEF Buries
  <2> QED
    BY <1>1, <2>1, <2>2, <2>3, <2>4, AckSteps
<1>3. ASSUME UNCHANGED <<records, acked, job>> PROVE AckInv'
  <2>1. \A k \in Keys : \A e : Settled(records, ExcusedKeys, k, e) =>
          Settled(records', ExcusedKeys', k, e)
    BY <1>1, <1>3 DEF Settled
  <2>2. \A e \in acked' : Settled(records', ExcusedKeys', e.key, e)
    BY <1>1, <1>3 DEF AckInv, Settled
  <2>3. ASSUME NEW v \in Workers PROVE JobSettles(records', ExcusedKeys', job'[v])
    <3>1. JobSettles(records, ExcusedKeys, job[v]) /\ job'[v] = job[v] /\ records' = records
      BY <1>3 DEF AckInv
    <3>2. JobSettles(records, ExcusedKeys', job[v])
      BY <1>1, <3>1 DEF JobSettles, ApplyingFits, BuryingFits, Settled
    <3> QED
      BY <3>1, <3>2
  <2> QED
    BY <2>2, <2>3 DEF AckInv
<1>4. ASSUME NEW t \in Tables, CreateTable(t) PROVE AckInv'
  BY <1>3, <1>4 DEF CreateTable, past
<1>5. ASSUME Crash PROVE AckInv'
  <2>1. UNCHANGED records /\ UNCHANGED acked /\ \A w \in Workers : job'[w] = Idle
    BY <1>5 DEF Crash
  <2>2. \A e \in acked' : Settled(records', ExcusedKeys', e.key, e)
    BY <1>1, <2>1 DEF AckInv, Settled
  <2>3. \A w \in Workers : JobSettles(records', ExcusedKeys', job'[w])
    BY <2>1, OthersFree
  <2> QED
    BY <2>2, <2>3 DEF AckInv
<1>6. CASE UNCHANGED vars
  BY <1>3, <1>6 DEF vars, files, past
<1> QED
  BY <1>1, <1>2, <1>4, <1>5, <1>6, StageAcks, AppendAcks, WriteRecordsAcks, TombsAcks,
     WriteTombsAcks, RemoveAcks, QuietAcks DEF Next, Step, Quiet

\* What was acknowledged is on disk or has lost to something later, through crashes,
\* refusals and the jobs of others: whoever writes a file has had its lock since it
\* read it, and writes nothing that is earlier (file.ts:383-404).
THEOREM AckedIsKept == Spec => []AckedStays
<1>1. Init => GoneInv /\ AckInv
  <2>1. Init => GoneInv
    BY OthersGone DEF Init, GoneInv
  <2>2. Init => AckInv
    BY OthersFree DEF Init, AckInv
  <2> QED
    BY <2>1, <2>2
<1>2. Types /\ AckInv => AckedStays
  <2> SUFFICES ASSUME Types, AckInv, NEW e \in acked
               PROVE  \/ e.key[2] \in deleted \/ e.key[1] \in Users \ accounts \/ e.key \in buried
                      \/ records[e.key].op # "none" /\ ShouldOverwrite(records[e.key], e)
    BY DEF AckedStays
  <2> QED
    BY DEF AckInv, Settled, Beats, ExcusedKeys
<1>3. Types /\ GoneInv /\ AckInv /\ [Next]_vars => GoneInv' /\ AckInv'
  BY GoneStep, AckStep
<1> QED
  BY <1>1, <1>2, <1>3, LocksAreKept, PTL DEF Spec

-----------------------------------------------------------------------------
(* The numbers                                                             *)

\* What a step does to the numbers, whose counter is in at most one job's hands.
LEMMA SeqSteps ==
  ASSUME Types, SeqFits, NEW w \in Workers, NEW n, Becomes(w, n), Numbered(logged'),
         Counts(job[w]) \/ UNCHANGED <<meta, logged>>,
         Counts(n) => /\ \A v \in Workers \ {w} : ~Counts(job[v])
                      /\ CountsFit(n, meta'.seq, logged'),
         ~Counts(n) /\ (\A v \in Workers \ {w} : ~Counts(job[v])) => LoggedUpTo(logged', meta'.seq)
  PROVE  SeqFits'
<1>1. \A v \in Workers : v # w => job'[v] = job[v]
  BY DEF Becomes
<1>2. job'[w] = n
  BY DEF Becomes
<1>3. ASSUME NEW v \in Workers, NEW u \in Workers, Counts(job'[v]), Counts(job'[u]) PROVE v = u
  <2>1. CASE Counts(n)
    BY <1>1, <1>3, <2>1
  <2>2. CASE ~Counts(n)
    BY <1>1, <1>2, <1>3, <2>2 DEF SeqFits
  <2> QED
    BY <2>1, <2>2
<1>4. (\A v \in Workers : ~Counts(job'[v])) => LoggedUpTo(logged', meta'.seq)
  BY <1>1, <1>2
<1>5. ASSUME NEW v \in Workers, Counts(job'[v]) PROVE CountsFit(job'[v], meta'.seq, logged')
  <2>1. CASE v = w
    BY <1>2, <1>5, <2>1
  <2>2. CASE v # w
    <3>1. Counts(job[v]) /\ job'[v] = job[v] /\ CountsFit(job[v], meta.seq, logged)
      BY <1>1, <1>5, <2>2 DEF SeqFits
    <3>2. ~Counts(job[w])
      BY <2>2, <3>1 DEF SeqFits
    <3>3. meta' = meta /\ logged' = logged
      BY <3>2
    <3> QED
      BY <3>1, <3>3
  <2> QED
    BY <2>1, <2>2
<1> QED
  BY <1>3, <1>4, <1>5 DEF SeqFits

LEMMA SeqAside ==
  ASSUME Types, SeqFits, NEW w \in Workers, NEW n, Becomes(w, n), ~Counts(job[w]), ~Counts(n),
         UNCHANGED meta, UNCHANGED logged
  PROVE  SeqFits'
<1>1. (\A v \in Workers \ {w} : ~Counts(job[v])) => LoggedUpTo(logged, meta.seq)
  BY DEF SeqFits
<1>2. Numbered(logged)
  BY DEF SeqFits
<1>3. logged' = logged /\ meta' = meta
  OBVIOUS
<1> QED
  BY <1>1, <1>2, <1>3, SeqSteps

LEMMA SeqOn ==
  ASSUME Types, SeqFits, NEW w \in Workers, NEW n, Becomes(w, n), Counts(job[w]), Counts(n),
         UNCHANGED meta, UNCHANGED logged, CountsFit(n, meta.seq, logged)
  PROVE  SeqFits'
<1>1. \A v \in Workers \ {w} : ~Counts(job[v])
  BY DEF SeqFits
<1>2. Numbered(logged)
  BY DEF SeqFits
<1>3. logged' = logged /\ meta' = meta
  OBVIOUS
<1> QED
  BY <1>1, <1>2, <1>3, SeqSteps

\* Lines numbered one after the other from n on.
LEMMA FreshLines ==
  ASSUME NEW j, NEW n, n \in Nat, NEW seq, seq \in Nat, seq <= n, NEW lg,
         lg \in [Partitions -> SUBSET Line], LoggedUpTo(lg, n),
         j.lines \in Seq(Line), j.meta.seq = n + Len(j.lines),
         \A m \in DOMAIN j.lines : j.lines[m].seq = n + m
  PROVE  LinesFresh(j, seq, lg) /\ LoggedUpTo(lg, j.meta.seq) /\ seq <= j.meta.seq
<1> DEFINE lines == j.lines
<1>1. Len(lines) \in Nat /\ DOMAIN lines = 1..Len(lines)
  BY LenProperties
<1>2. \A p \in Partitions : \A e \in lg[p] : e.seq \in Nat /\ e.seq <= n
  BY DEF LoggedUpTo, Line
<1>3. \A m \in DOMAIN lines : m \in Nat /\ m >= 1 /\ m <= Len(lines) /\ lines[m].seq = n + m
  BY <1>1
<1> HIDE DEF lines
<1>4. \A m \in DOMAIN lines : lines[m].seq > seq /\ lines[m].seq <= j.meta.seq
  BY <1>1, <1>3 DEF lines
<1>5. \A m \in DOMAIN lines : \A p \in Partitions : \A e \in lg[p] : e.seq < lines[m].seq
  BY <1>2, <1>3
<1>6. \A m, k \in DOMAIN lines : lines[m].seq = lines[k].seq => m = k
  BY <1>3
<1>7. LoggedUpTo(lg, j.meta.seq) /\ seq <= j.meta.seq
  BY <1>1, <1>2 DEF LoggedUpTo, lines
<1> QED
  BY <1>4, <1>5, <1>6, <1>7 DEF LinesFresh, lines

\* Such lines are added to a log.
LEMMA FreshAppended ==
  ASSUME NEW j, NEW seq, NEW lg, NEW more, NEW p \in Partitions,
         lg \in [Partitions -> SUBSET Line], j.lines \in Seq(Line), Numbered(lg),
         LinesFresh(j, seq, lg), LoggedUpTo(lg, j.meta.seq),
         more = [lg EXCEPT ![p] = @ \cup ToSet(j.lines)]
  PROVE  Numbered(more) /\ LoggedUpTo(more, j.meta.seq)
<1>1. \A q \in Partitions : \A e \in more[q] :
        e \in lg[q] \/ (q = p /\ \E m \in DOMAIN j.lines : e = j.lines[m])
  BY DEF ToSet
<1>2. LoggedUpTo(more, j.meta.seq)
  BY <1>1 DEF LoggedUpTo, LinesFresh
<1>3. ASSUME NEW q \in Partitions, NEW e \in more[q], NEW r \in Partitions, NEW f \in more[r],
             e.seq = f.seq
      PROVE  q = r /\ e = f
  <2>1. \A m \in DOMAIN j.lines : \A s \in Partitions : \A d \in lg[s] : d.seq # j.lines[m].seq
    <3> SUFFICES ASSUME NEW m \in DOMAIN j.lines, NEW s \in Partitions, NEW d \in lg[s]
                 PROVE  d.seq # j.lines[m].seq
      OBVIOUS
    <3>1. d.seq < j.lines[m].seq
      BY DEF LinesFresh
    <3>2. d.seq \in Nat /\ j.lines[m].seq \in Nat
      <4>1. j.lines[m] \in Line
        BY ElementOfSeq, LenProperties
      <4> QED
        BY <4>1 DEF Line
    <3> QED
      BY <3>1, <3>2
  <2>2. CASE e \in lg[q] /\ f \in lg[r]
    BY <1>3, <2>2 DEF Numbered
  <2>3. CASE e \in lg[q] /\ r = p /\ \E m \in DOMAIN j.lines : f = j.lines[m]
    BY <1>3, <2>1, <2>3
  <2>4. CASE f \in lg[r] /\ q = p /\ \E m \in DOMAIN j.lines : e = j.lines[m]
    BY <1>3, <2>1, <2>4
  <2>5. CASE /\ q = p /\ \E m \in DOMAIN j.lines : e = j.lines[m]
             /\ r = p /\ \E m \in DOMAIN j.lines : f = j.lines[m]
    BY <1>3, <2>5 DEF LinesFresh
  <2> QED
    BY <1>1, <2>2, <2>3, <2>4, <2>5
<1> QED
  BY <1>2, <1>3 DEF Numbered

LEMMA NumbersRise ==
  ASSUME NEW m, m \in Nums
  PROVE  /\ m.seq \in Nat /\ m.min \in Nat /\ NextNums(m).min \in Nat
         /\ NextNums(m).seq = m.seq + 1 /\ m.min <= NextNums(m).min
BY DEF Nums, NextNums

\* The numbers that a batch gives out in a partition.
LEMMA StagedNumbers ==
  ASSUME Types, NEW a \in Actors, NEW p \in Partitions, NEW batch \in Seq(Change),
         NEW numbers \in Nums
  PROVE  LET st == Staged(a, p, batch, numbers)
         IN  st.ok => /\ st.meta.seq = numbers.seq + Len(st.lines)
                      /\ numbers.min <= st.meta.min
                      /\ \A m \in DOMAIN st.lines : st.lines[m].seq = numbers.seq + m
<1> DEFINE Fits(st) == /\ st.meta.seq = numbers.seq + Len(st.lines)
                       /\ numbers.min <= st.meta.min
                       /\ \A m \in DOMAIN st.lines : st.lines[m].seq = numbers.seq + m
           S == {st \in StageStates : st.ok => Fits(st)}
<1>1. records \in [Keys -> Stored]
  BY DEF Types, FilesTyped
<1>2. StageStart(p, numbers) \in S
  <2>1. /\ StageStart(p, numbers).lines = << >> /\ StageStart(p, numbers).meta = numbers
        /\ DOMAIN << >> = {} /\ Len(<< >>) = 0
    BY DEF StageStart
  <2>2. numbers.seq \in Nat /\ numbers.min \in Nat
    BY Typed
  <2>3. Fits(StageStart(p, numbers))
    <3> HIDE DEF S
    <3> QED
      BY <2>1, <2>2
  <2> HIDE DEF Fits
  <2> QED
    BY <1>1, <2>3, StartTyped
<1>3. ASSUME NEW st \in S, NEW n \in 1..Len(batch) PROVE Stages(a, p, st, batch[n]) \in S
  <2> DEFINE c == batch[n]
             next == Stages(a, p, st, c)
             x == st.maps[c.table][c.id]
             line == LineOf(a, c, x, st.meta.seq + 1)
  <2>1. c \in Change /\ st \in StageStates /\ st.lines \in Seq(Line) /\ st.meta \in Nums
    BY DEF StageStates
  <2>2. st.ok => Fits(st)
    BY DEF S
  <2> HIDE DEF S, c
  <2>3. next \in StageStates /\ x \in Stored /\ StagesTo(a, p, st, c, x, next)
    BY <2>1, StagesIs
  <2>4. /\ st.meta.seq \in Nat /\ st.meta.min \in Nat /\ numbers.seq \in Nat /\ numbers.min \in Nat
        /\ NextNums(st.meta).seq = st.meta.seq + 1 /\ NextNums(st.meta).min \in Nat
        /\ st.meta.min <= NextNums(st.meta).min
    BY <2>1, NumbersRise
  <2>5. line \in Line /\ line.seq = st.meta.seq + 1
    <3>1. st.meta.seq + 1 \in Nat
      BY <2>4
    <3> HIDE DEF x
    <3>2. line \in Line
      BY <2>1, <2>3, <3>1, EntryTyped
    <3> QED
      BY <3>2 DEF LineOf
  <2> HIDE DEF next, x, line
  <2>6. ASSUME next.ok PROVE Fits(next)
    <3>1. CASE next = st
      BY <2>2, <2>6, <3>1
    <3>2. CASE ~Skips(a, p, st, c) /\ next.lines = st.lines /\ next.meta = st.meta
      BY <2>2, <3>2 DEF Skips
    <3>3. CASE /\ Applies(a, p, st, c) /\ next.lines = Append(st.lines, line)
               /\ next.meta = NextNums(st.meta)
      <4>1. Fits(st)
        BY <2>2, <3>3 DEF Applies, Skips
      <4> DEFINE N == Len(st.lines)
      <4>2. /\ Len(next.lines) = N + 1 /\ N \in Nat
            /\ DOMAIN st.lines = 1..N /\ DOMAIN next.lines = 1..(N + 1)
            /\ \A i \in 1..N : next.lines[i] = st.lines[i]
            /\ next.lines[N + 1] = line
        BY <2>1, <2>5, <3>3, LinesAppended
      <4>3. st.meta.seq = numbers.seq + N /\ numbers.min <= st.meta.min
        BY <4>1
      <4> HIDE DEF N
      <4>4. next.meta.seq = numbers.seq + Len(next.lines) /\ numbers.min <= next.meta.min
        <5>1. next.meta.seq = st.meta.seq + 1 /\ next.meta.min = NextNums(st.meta).min
          BY <2>4, <3>3
        <5>2. Len(next.lines) = N + 1 /\ N \in Nat
          BY <4>2
        <5>3. next.meta.seq = numbers.seq + Len(next.lines)
          <6>1. next.meta.seq = (numbers.seq + N) + 1
            BY <5>1, <4>3
          <6>2. (numbers.seq + N) + 1 = numbers.seq + (N + 1)
            <7>1. numbers.seq \in Nat /\ N \in Nat
              BY <5>2, <2>4
            <7>2. \A y, z \in Nat : (y + z) + 1 = y + (z + 1)
              OBVIOUS
            <7> QED
              BY <7>1, <7>2, Zenon
          <6> QED
            BY <5>2, <6>1, <6>2, Zenon
        <5>4. numbers.min <= next.meta.min
          BY <5>1, <2>4, <4>3
        <5> QED
          BY <5>3, <5>4
      <4>5. ASSUME NEW m \in DOMAIN next.lines PROVE next.lines[m].seq = numbers.seq + m
        <5>1. CASE m = N + 1
          BY <5>1, <2>4, <2>5, <4>2, <4>3
        <5>2. CASE m \in 1..N
          BY <5>2, <4>1, <4>2
        <5> QED
          BY <5>1, <5>2, <4>2
      <4> QED
        BY <4>4, <4>5
    <3>4. ~(next.ok = FALSE)
      BY <2>6
    <3> HIDE DEF Fits
    <3> QED
      BY <2>3, <3>1, <3>2, <3>3, <3>4 DEF StagesTo, line
  <2> HIDE DEF Fits
  <2> QED
    BY <2>3, <2>6 DEF S, c, next
<1>4. S \in SUBSET StageStates
  OBVIOUS
<1> HIDE DEF S
<1>5. Staged(a, p, batch, numbers) \in S
  BY <1>1, <1>2, <1>3, <1>4, StagedRule
<1> QED
  BY <1>5 DEF S


\* Which jobs have the counter, of those there are.
LEMMA CountsAre ==
  /\ ~Counts(Idle)
  /\ \A n \in DiffJobs \cup AccountJobs \cup RmdirJobs \cup DropJobs : ~Counts(n)
  /\ \A n \in ApplyJobs : Counts(n) <=> n.pc \notin {"group", "return"}
  /\ \A n \in PruneJobs : Counts(n) <=> n.pc # "return"
  /\ \A n \in TombJobs : Counts(n)
  /\ \A v \in Workers : Rewriting(v) <=> Counts(job[v])
<1>1. /\ ~Counts(Idle)
      /\ \A n \in DiffJobs \cup AccountJobs \cup RmdirJobs \cup DropJobs : ~Counts(n)
  BY DEF Counts, Idle, DiffJobs, AccountJobs, RmdirJobs, DropJobs
<1>2. /\ \A n \in ApplyJobs : Counts(n) <=> n.pc \notin {"group", "return"}
      /\ \A n \in PruneJobs : Counts(n) <=> n.pc # "return"
      /\ \A n \in TombJobs : Counts(n)
  BY DEF Counts, ApplyJobs, PruneJobs, TombJobs
<1>3. \A v \in Workers : Rewriting(v) <=> Counts(job[v])
  BY DEF Rewriting, Counts, At
<1> QED
  BY <1>1, <1>2, <1>3

\* Of two batches one has not begun.
LEMMA OneBatch ==
  ASSUME Types, NEW v \in Workers, NEW w \in Workers, job[v].kind = "apply", job[w].kind = "apply",
         Holds(w, "apply"), job[v].pc # "group"
  PROVE  v = w
<1>1. Holds(v, "apply")
  <2>1. OwnLock(job[v]) = {"apply"}
    BY DEF OwnLock
  <2>2. job[v] \in ApplyJobs
    BY KindsOfJobs DEF Types, JobsFit
  <2> QED
    BY <2>1, <2>2, OwnIsHeld DEF ApplyJobs
<1> QED
  BY <1>1 DEF Holds

LEMMA GroupNumbers ==
  ASSUME Types, SeqFits, NEW w \in Workers, Group(w), ~disturbed'
  PROVE  SeqFits'
<1> DEFINE j == job[w]
<1>1. UNCHANGED meta /\ UNCHANGED logged /\ j.pc = "group" /\ Holds(w, ApplyLock(j.actor))
  BY DEF Group, At, files, past
<1>2. j \in ApplyJobs /\ ~Counts(j) /\ meta.seq \in Nat
  BY <1>1, StepsOfJobs, CountsAre, Typed DEF Types, JobsFit, FilesTyped
<1>3. CASE Becomes(w, Idle)
  BY <1>1, <1>2, <1>3, SeqAside, CountsAre
<1>4. CASE \E n : Becomes(w, n) /\ Follows(n, j) /\ n.pc \in {"stage", "meta"} /\ n.meta = meta
  <2>1. PICK n : Becomes(w, n) /\ Follows(n, j) /\ n.pc \in {"stage", "meta"} /\ n.meta = meta
    BY <1>4
  <2>2. \A v \in Workers : ~(Rewriting(v) /\ job[v].kind # "apply")
    BY DEF Group, Disturb
  <2>3. Holds(w, "apply") /\ j.kind = "apply"
    BY <1>1, <1>2 DEF ApplyLock, ApplyJobs
  <2>4. ASSUME NEW v \in Workers \ {w} PROVE ~Counts(job[v])
    <3>1. CASE job[v].kind = "apply"
      <4>1. job[v].pc = "group"
        BY <2>3, <3>1, OneBatch
      <4> QED
        BY <4>1 DEF Counts
    <3>2. CASE job[v].kind # "apply"
      BY <2>2, <3>2, CountsAre
    <3> QED
      BY <3>1, <3>2
  <2>5. LoggedUpTo(logged, meta.seq) /\ Numbered(logged)
    BY <1>2, <2>4 DEF SeqFits
  <2>6. CountsFit(n, meta.seq, logged) /\ Counts(n)
    BY <1>2, <2>1, <2>5, CountsAre DEF CountsFit, Follows
  <2>7. logged' = logged /\ meta' = meta
    BY <1>1
  <2> QED
    BY <2>1, <2>4, <2>5, <2>6, <2>7, SeqSteps
<1> QED
  BY <1>3, <1>4, GroupIs

LEMMA StageNumbers ==
  ASSUME Types, SeqFits, NEW w \in Workers, Stage(w), ~disturbed'
  PROVE  SeqFits'
<1> DEFINE j == job[w]
           p == Head(j.todo)
           st == Staged(j.actor, p, j.batch, j.meta)
<1>1. UNCHANGED meta /\ UNCHANGED logged /\ j.pc = "stage"
  BY DEF Stage, AtPartition, At, files, past
<1>2. /\ j \in ApplyJobs /\ j.actor \in Actors /\ j.batch \in Seq(Change) /\ j.meta \in Nums
      /\ p \in Partitions
  <2>1. j \in ApplyJobs
    BY <1>1, StepsOfJobs DEF Types, JobsFit
  <2> QED
    BY <1>1, <2>1, Typed, InPartition DEF Inside, ApplyJobs
<1>3. Counts(j) /\ CountsFit(j, meta.seq, logged) /\ Numbered(logged)
      /\ \A v \in Workers \ {w} : ~Counts(job[v])
  BY <1>1, <1>2, CountsAre DEF SeqFits
<1>4. /\ meta.seq \in Nat /\ j.meta.seq \in Nat /\ meta.seq <= j.meta.seq
      /\ LoggedUpTo(logged, j.meta.seq)
  BY <1>2, <1>3, Typed DEF Types, FilesTyped, CountsFit
<1>5. CASE Becomes(w, Idle) /\ Disturb(j.applied # {})
  <2>1. j.applied = {}
    BY <1>5 DEF Disturb
  <2>2. LoggedUpTo(logged, meta.seq)
    BY <1>1, <1>3, <2>1 DEF CountsFit
  <2>3. logged' = logged /\ meta' = meta
    BY <1>1
  <2> QED
    BY <1>3, <1>5, <2>2, <2>3, SeqSteps, CountsAre
<1>6. CASE \E n : /\ Becomes(w, n) /\ st.ok /\ Follows(n, j) /\ n.pc = "append" /\ n.meta = st.meta
                  /\ n.lines = st.lines /\ n.applied = j.applied
  <2>1. PICK n : /\ Becomes(w, n) /\ st.ok /\ Follows(n, j) /\ n.pc = "append" /\ n.meta = st.meta
                 /\ n.lines = st.lines /\ n.applied = j.applied
    BY <1>6
  <2>2. st \in StageStates /\ st.meta.seq = j.meta.seq + Len(st.lines)
        /\ \A m \in DOMAIN st.lines : st.lines[m].seq = j.meta.seq + m
    BY <1>2, <2>1, StagedTyped, StagedNumbers DEF Types, FilesTyped
  <2> HIDE DEF st
  <2>3. /\ n.lines \in Seq(Line) /\ n.meta.seq = j.meta.seq + Len(n.lines)
        /\ \A m \in DOMAIN n.lines : n.lines[m].seq = j.meta.seq + m
    BY <2>1, <2>2 DEF StageStates
  <2>4. LinesFresh(n, meta.seq, logged) /\ LoggedUpTo(logged, n.meta.seq) /\ meta.seq <= n.meta.seq
    BY <1>4, <2>3, FreshLines DEF Types, FilesTyped
  <2>5. n.applied = {} => LoggedUpTo(logged, meta.seq)
    BY <1>1, <1>3, <2>1 DEF CountsFit
  <2>6. Counts(n) /\ CountsFit(n, meta.seq, logged)
    BY <2>1, <2>4, <2>5, CountsAre DEF CountsFit, Follows
  <2> QED
    BY <1>1, <1>3, <2>1, <2>6, SeqOn
<1> QED
  BY <1>5, <1>6, StageIs

LEMMA AppendNumbers ==
  ASSUME Types, SeqFits, NEW w \in Workers, AppendLog(w)
  PROVE  SeqFits'
<1> DEFINE j == job[w]
           p == Head(j.todo)
<1>1. /\ UNCHANGED meta /\ j.pc = "append"
      /\ logged' = [logged EXCEPT ![p] = @ \cup ToSet(j.lines)]
  BY DEF AppendLog, At
<1>2. j \in ApplyJobs /\ p \in Partitions /\ j.lines \in Seq(Line)
      /\ logged \in [Partitions -> SUBSET Line]
  BY <1>1, ApplyInPartition DEF Types, FilesTyped
<1>3. Counts(j) /\ CountsFit(j, meta.seq, logged) /\ Numbered(logged)
      /\ \A v \in Workers \ {w} : ~Counts(job[v])
  BY <1>1, <1>2, CountsAre DEF SeqFits
<1>4. LinesFresh(j, meta.seq, logged) /\ LoggedUpTo(logged, j.meta.seq)
  BY <1>1, <1>3 DEF CountsFit
<1>5. Numbered(logged') /\ LoggedUpTo(logged', j.meta.seq)
  <2> HIDE DEF p
  <2> QED
    BY <1>1, <1>2, <1>3, <1>4, FreshAppended
<1>6. PICK n : Becomes(w, n) /\ GoesOn(n, j) /\ n.pc = "records"
  BY AppendIs
<1>7. j.applied = {} /\ j.lines = << >> => LoggedUpTo(logged', meta.seq)
  <2> SUFFICES ASSUME j.applied = {}, j.lines = << >> PROVE LoggedUpTo(logged', meta.seq)
    OBVIOUS
  <2>1. ToSet(j.lines) = {}
    BY DEF ToSet
  <2>2. logged' = logged
    BY <1>1, <1>2, <2>1
  <2>3. LoggedUpTo(logged, meta.seq)
    BY <1>1, <1>3 DEF CountsFit
  <2> QED
    BY <2>2, <2>3
<1>8. meta' = meta
  BY <1>1
<1>9. Counts(n) /\ CountsFit(n, meta.seq, logged')
  BY <1>3, <1>5, <1>6, <1>7, CountsAre DEF CountsFit, GoesOn, Follows
<1> QED
  BY <1>3, <1>5, <1>6, <1>8, <1>9, SeqSteps

LEMMA LogTombsNumbers ==
  ASSUME Types, SeqFits, NEW w \in Workers, LogTombs(w)
  PROVE  SeqFits'
<1> DEFINE j == job[w]
<1>1. /\ UNCHANGED meta /\ j.pc = "tombLog"
      /\ logged' = [logged EXCEPT ![Shared] = @ \cup ToSet(j.lines)]
  BY DEF LogTombs, At
<1>2. j \in TombJobs /\ Shared \in Partitions /\ j.lines \in Seq(Line)
      /\ logged \in [Partitions -> SUBSET Line]
  BY <1>1, TombFacts DEF Types, FilesTyped, Partitions, TombSteps
<1>3. Counts(j) /\ CountsFit(j, meta.seq, logged) /\ Numbered(logged)
      /\ \A v \in Workers \ {w} : ~Counts(job[v])
  BY <1>2, CountsAre DEF SeqFits
<1>4. LinesFresh(j, meta.seq, logged) /\ LoggedUpTo(logged, j.meta.seq)
  BY <1>1, <1>3 DEF CountsFit
<1>5. Numbered(logged') /\ LoggedUpTo(logged', j.meta.seq)
  BY <1>1, <1>2, <1>3, <1>4, FreshAppended
<1>6. PICK n : Becomes(w, n) /\ Buries(n, j) /\ n.pc = "tombMeta"
  BY LogTombsIs
<1>7. meta' = meta
  BY <1>1
<1>8. Counts(n) /\ CountsFit(n, meta.seq, logged')
  BY <1>3, <1>5, <1>6, CountsAre DEF CountsFit, Buries
<1> QED
  BY <1>3, <1>5, <1>6, <1>7, <1>8, SeqSteps

\* Steps with the counter in hand that write neither it nor lines.
LEMMA HeldNumbers ==
  ASSUME Types, SeqFits, NEW w \in Workers, WriteRecords(w) \/ Leave(w) \/ Cut(w) \/ WriteTombs(w)
  PROVE  SeqFits'
<1> DEFINE j == job[w]
<1>1. UNCHANGED meta /\ UNCHANGED logged
  BY DEF WriteRecords, Leave, Cut, WriteTombs, files, past
<1>2. j \in JobStates
  BY DEF Types, JobsFit
<1>3. Counts(j) => CountsFit(j, meta.seq, logged)
  BY DEF SeqFits
<1>4. CASE WriteRecords(w)
  <2>1. j.pc = "records" /\ j \in ApplyJobs
    BY <1>2, <1>4, StepsOfJobs DEF WriteRecords, At
  <2>2. PICK n : Becomes(w, n) /\ GoesOn(n, j) /\ n.pc \in {"records", "leave"}
    BY <1>4, WriteRecordsIs
  <2>3. Counts(j) /\ Counts(n) /\ CountsFit(n, meta.seq, logged)
    BY <1>3, <2>1, <2>2, CountsAre DEF CountsFit, GoesOn, Follows
  <2> QED
    BY <1>1, <2>2, <2>3, SeqOn
<1>5. CASE Leave(w)
  <2>1. j.pc = "leave" /\ j \in ApplyJobs
    BY <1>2, <1>5, StepsOfJobs DEF Leave, At
  <2>2. PICK n : /\ Becomes(w, n) /\ Follows(n, j) /\ n.pc \in {"stage", "meta"}
                 /\ n.meta = j.meta /\ n.applied = j.applied \cup ToSet(j.lines)
    BY <1>5, LeaveIs
  <2>3. n.applied = {} => j.applied = {} /\ j.lines = << >>
    <3>1. j.lines \in Seq(Line)
      BY <2>1 DEF ApplyJobs
    <3>2. j.lines # << >> => j.lines[1] \in ToSet(j.lines)
      BY <3>1 DEF ToSet
    <3> QED
      BY <2>2, <3>2
  <2>4. Counts(j) /\ Counts(n) /\ CountsFit(n, meta.seq, logged)
    BY <1>3, <2>1, <2>2, <2>3, CountsAre DEF CountsFit, Follows
  <2> QED
    BY <1>1, <2>2, <2>4, SeqOn
<1>6. CASE Cut(w)
  <2>1. j.pc = "cut" /\ j \in ApplyJobs \cup PruneJobs
    BY <1>2, <1>6, StepsOfJobs DEF Cut, AtPartition, At
  <2>2. PICK n : Becomes(w, n) /\ CutsOn(n, j) /\ n.pc \in {"cut", "cutMeta"} /\ n.meta = j.meta
    BY <1>6, CutIs
  <2>3. Counts(j) /\ Counts(n) /\ CountsFit(n, meta.seq, logged)
    BY <1>3, <2>1, <2>2, CountsAre DEF CountsFit, CutsOn, Follows
  <2> QED
    BY <1>1, <2>2, <2>3, SeqOn
<1>7. CASE WriteTombs(w)
  <2>1. j.pc = "tombRecords" /\ j \in TombJobs
    BY <1>2, <1>7, StepsOfJobs DEF WriteTombs, At
  <2>2. PICK n : Becomes(w, n) /\ Buries(n, j) /\ n.pc \in {"tombRecords", "tombLog"}
    BY <1>7, WriteTombsIs
  <2>3. Counts(j) /\ Counts(n) /\ CountsFit(n, meta.seq, logged)
    BY <1>3, <2>1, <2>2, CountsAre DEF CountsFit, Buries, LinesFresh
  <2> QED
    BY <1>1, <2>2, <2>3, SeqOn
<1> QED
  BY <1>4, <1>5, <1>6, <1>7

\* meta.json is written.
LEMMA CounterNumbers ==
  ASSUME Types, SeqFits, NEW w \in Workers, WriteMeta(w) \/ CutMeta(w) \/ CountTombs(w)
  PROVE  SeqFits' /\ Counts(job[w]) /\ meta' = job[w].meta /\ meta.seq <= meta'.seq
<1> DEFINE j == job[w]
<1>1. meta' = j.meta /\ UNCHANGED logged
  BY DEF WriteMeta, CutMeta, CountTombs, past
<1>2. j \in ApplyJobs \cup PruneJobs \cup TombJobs /\ Counts(j)
  <2>1. j.pc \in {"meta", "cutMeta", "tombMeta"} /\ j \in JobStates
    BY DEF WriteMeta, CutMeta, CountTombs, At, Types, JobsFit
  <2> QED
    BY <2>1, StepsOfJobs, CountsAre
<1>3. CountsFit(j, meta.seq, logged) /\ Numbered(logged) /\ \A v \in Workers \ {w} : ~Counts(job[v])
  BY <1>2 DEF SeqFits
<1>4. LoggedUpTo(logged, j.meta.seq) /\ meta.seq <= j.meta.seq
  BY <1>3 DEF CountsFit
<1>5. j.meta.seq <= j.meta.seq
  <2>1. j.meta.seq \in Nat
    <3>1. j.meta \in Nums
      BY <1>2 DEF ApplyJobs, PruneJobs, TombJobs
    <3> QED
      BY <3>1, Typed
  <2> QED
    BY <2>1
<1>6. \E n : /\ Becomes(w, n)
             /\ Counts(n) => n.pc \in {"cut", "cutMeta"} /\ n.meta.seq = j.meta.seq
  <2>1. CASE WriteMeta(w)
    BY <2>1, WriteMetaIs DEF Counts
  <2>2. CASE CutMeta(w)
    BY <2>2, CutMetaIs DEF Counts
  <2>3. CASE CountTombs(w)
    BY <2>3, CountTombsIs, CountsAre
  <2> QED
    BY <2>1, <2>2, <2>3
<1>7. PICK n : /\ Becomes(w, n)
               /\ Counts(n) => n.pc \in {"cut", "cutMeta"} /\ n.meta.seq = j.meta.seq
  BY <1>6
<1>8. Counts(n) => CountsFit(n, meta'.seq, logged')
  BY <1>1, <1>4, <1>5, <1>7 DEF CountsFit
<1>9. LoggedUpTo(logged', meta'.seq) /\ logged' = logged
  BY <1>1, <1>4
<1>10. SeqFits'
  BY <1>2, <1>3, <1>7, <1>8, <1>9, SeqSteps
<1> QED
  BY <1>1, <1>2, <1>4, <1>10

\* A job takes the counter up when no one has it.
LEMMA PruneNumbers ==
  ASSUME Types, SeqFits, NEW w \in Workers, NEW keep \in KeepCounts, Prune(w, keep), ~disturbed'
  PROVE  SeqFits' /\ \A v \in Workers : ~Counts(job[v])
<1>1. UNCHANGED meta /\ UNCHANGED logged /\ meta.seq \in Nat
  BY Typed DEF Prune, files, past, Types, FilesTyped
<1>2. \A v \in Workers : ~Counts(job[v])
  BY CountsAre DEF Prune, Disturb
<1>3. LoggedUpTo(logged, meta.seq) /\ Numbered(logged)
  BY <1>2 DEF SeqFits
<1>4. PICK n \in PruneJobs : Becomes(w, n) /\ n.pc \in {"cut", "cutMeta"} /\ n.meta.seq = meta.seq
  BY PruneIs
<1>5. Counts(n) /\ CountsFit(n, meta.seq, logged)
  BY <1>1, <1>3, <1>4, CountsAre DEF CountsFit
<1>6. meta' = meta /\ logged' = logged
  BY <1>1
<1> QED
  BY <1>2, <1>3, <1>4, <1>5, <1>6, SeqSteps

LEMMA TombsNumbers ==
  ASSUME Types, SeqFits, NEW w \in Workers, Tombs(w), ~disturbed'
  PROVE  /\ SeqFits'
         /\ \A n : Becomes(w, n) /\ Counts(n) => \A v \in Workers : ~Counts(job[v])
<1> DEFINE j == job[w]
<1>1. UNCHANGED meta /\ UNCHANGED logged /\ meta.seq \in Nat /\ meta.seq <= meta.seq
  <2>1. UNCHANGED meta /\ UNCHANGED logged
    BY DEF Tombs, files
  <2>2. meta.seq \in Nat
    BY Typed DEF Types, FilesTyped
  <2> QED
    BY <2>1, <2>2
<1>2. j \in AccountJobs /\ ~Counts(j)
  BY TombsIs, CountsAre
<1>3. CASE \E n \in AccountJobs : Becomes(w, n)
  BY <1>1, <1>2, <1>3, SeqAside, CountsAre DEF Becomes
<1>4. CASE /\ Disturb(\E v \in Workers \ {w} : Rewriting(v))
           /\ \E n \in TombJobs : /\ Becomes(w, n) /\ n.pc = "tombRecords"
                                  /\ n.lines = TombLines(j) /\ n.meta = TombMeta(j)
  <2>1. PICK n \in TombJobs : /\ Becomes(w, n) /\ n.pc = "tombRecords"
                              /\ n.lines = TombLines(j) /\ n.meta = TombMeta(j)
    BY <1>4
  <2>2. \A v \in Workers : ~Counts(job[v])
    BY <1>2, <1>4, CountsAre DEF Disturb
  <2>3. LoggedUpTo(logged, meta.seq) /\ Numbered(logged)
    BY <2>2 DEF SeqFits
  <2> DEFINE N == Len(SetToSeq(MadeBy(j.user)))
  <2>4. /\ TombLines(j) \in Seq(Line) /\ DOMAIN TombLines(j) = 1..N /\ N \in Nat
        /\ \A m \in DOMAIN TombLines(j) : TombLines(j)[m].seq = meta.seq + m
        /\ TombMeta(j).seq = meta.seq + N
    BY <1>2, TombsAre DEF Types
  <2> HIDE DEF N
  <2>5. Len(n.lines) = N
    BY <2>1, <2>4, LenProperties
  <2>6. /\ n.lines \in Seq(Line) /\ n.meta.seq = meta.seq + Len(n.lines)
        /\ \A m \in DOMAIN n.lines : n.lines[m].seq = meta.seq + m
    BY <2>1, <2>4, <2>5
  <2>7. LinesFresh(n, meta.seq, logged) /\ LoggedUpTo(logged, n.meta.seq) /\ meta.seq <= n.meta.seq
    BY <1>1, <2>3, <2>6, FreshLines DEF Types, FilesTyped
  <2>8. Counts(n) /\ CountsFit(n, meta.seq, logged)
    BY <2>1, <2>7, CountsAre DEF CountsFit
  <2>9. meta' = meta /\ logged' = logged
    BY <1>1
  <2>10. SeqFits'
    BY <2>1, <2>2, <2>3, <2>8, <2>9, SeqSteps
  <2> QED
    BY <2>2, <2>10
<1> QED
  BY <1>3, <1>4, TombsIs

\* Steps of jobs that do not have the counter.
LEMMA AsideNumbers ==
  ASSUME Types, SeqFits, NEW w \in Workers,
         \/ \E a \in Actors, batch \in Batches : Apply(w, a, batch)
         \/ \E a \in Actors, from \in 1..(meta.seq + 1) : Diff(w, a, from)
         \/ \E u \in accounts, now \in Clock : DeleteUser(w, u, now)
         \/ \E t \in Tables : DeleteTable(w, t)
         \/ Return(w) \/ ReadLog(w) \/ Answer(w) \/ DropAccount(w) \/ RemoveDir(w)
         \/ DropTable(w) \/ RemoveTable(w) \/ Purge(w)
  PROVE  /\ SeqFits' /\ ~Counts(job[w]) /\ UNCHANGED meta /\ UNCHANGED logged
         /\ \E n : Becomes(w, n) /\ ~Counts(n)
<1> DEFINE j == job[w]
           Ends == \E n : Becomes(w, n) /\ ~Counts(n)
           Free == {Idle} \cup DiffJobs \cup AccountJobs \cup RmdirJobs \cup DropJobs
<1>1. UNCHANGED meta /\ UNCHANGED logged
  BY DEF Apply, Diff, DeleteUser, DeleteTable, Return, ReadLog, Answer, DropAccount, RemoveDir,
         DropTable, RemoveTable, Purge, files, past
<1>2. j \in JobStates
  BY DEF Types, JobsFit
<1>3. \A n \in Free : ~Counts(n)
  BY CountsAre
<1>4. ASSUME \E a \in Actors, batch \in Batches : Apply(w, a, batch) PROVE Ends /\ ~Counts(j)
  <2>1. Ends
    BY <1>4, ApplyIs, CountsAre
  <2>2. j.pc = "idle"
    BY <1>4 DEF Apply, Begins, At
  <2> QED
    BY <1>2, <1>3, <2>1, <2>2, KindsOfJobs
<1>5. ASSUME \E a \in Actors, from \in 1..(meta.seq + 1) : Diff(w, a, from) PROVE Ends /\ ~Counts(j)
  <2>1. Ends
    BY <1>3, <1>5, DiffIs
  <2>2. j.pc = "idle"
    BY <1>5 DEF Diff, Begins, At
  <2> QED
    BY <1>2, <1>3, <2>1, <2>2, KindsOfJobs
<1>6. ASSUME \E u \in accounts, now \in Clock : DeleteUser(w, u, now) PROVE Ends /\ ~Counts(j)
  <2>1. Ends
    BY <1>3, <1>6, DeleteUserIs
  <2>2. j.pc = "idle"
    BY <1>6 DEF DeleteUser, Begins, At
  <2> QED
    BY <1>2, <1>3, <2>1, <2>2, KindsOfJobs
<1>7. ASSUME \E t \in Tables : DeleteTable(w, t) PROVE Ends /\ ~Counts(j)
  <2>1. Ends
    BY <1>3, <1>7, DeleteTableIs
  <2>2. j.pc = "idle"
    BY <1>7 DEF DeleteTable, Begins, At
  <2> QED
    BY <1>2, <1>3, <2>1, <2>2, KindsOfJobs
<1>8. ASSUME Return(w) PROVE Ends /\ ~Counts(j)
  BY <1>3, <1>8, FinishIs DEF Return, At, Counts
<1>9. ASSUME ReadLog(w) \/ Answer(w) PROVE Ends /\ ~Counts(j)
  <2>1. j \in DiffJobs
    BY <1>2, <1>9, StepsOfJobs DEF ReadLog, Answer, AtPartition, At
  <2> QED
    BY <1>3, <1>9, <2>1, ReadLogIs, FinishIs DEF Answer
<1>10. ASSUME DropAccount(w) \/ RemoveDir(w) PROVE Ends /\ ~Counts(j)
  <2>1. j \in AccountJobs \cup RmdirJobs
    BY <1>2, <1>10, StepsOfJobs DEF DropAccount, RemoveDir, At
  <2> QED
    BY <1>3, <1>10, <2>1, DropAccountIs, FinishIs DEF RemoveDir
<1>11. ASSUME DropTable(w) \/ RemoveTable(w) \/ Purge(w) PROVE Ends /\ ~Counts(j)
  <2>1. j \in DropJobs
    BY <1>2, <1>11, StepsOfJobs DEF DropTable, RemoveTable, Purge, AtPartition, At
  <2> QED
    BY <1>3, <1>11, <2>1, DropTableIs, RemoveTableIs, PurgeIs
<1> HIDE DEF Ends, j
<1>12. Ends /\ ~Counts(j)
  BY <1>4, <1>5, <1>6, <1>7, <1>8, <1>9, <1>10, <1>11
<1>13. PICK n : Becomes(w, n) /\ ~Counts(n)
  BY <1>12 DEF Ends
<1>14. SeqFits'
  BY <1>1, <1>12, <1>13, SeqAside DEF j
<1> QED
  BY <1>1, <1>12, <1>13, <1>14 DEF j

\* What was torn apart stays so.
LEMMA DisturbedStays ==
  ASSUME [Next]_vars, disturbed
  PROVE  disturbed'
<1>1. ASSUME NEW w \in Workers, Tombs(w) PROVE disturbed'
  BY <1>1, TombsCases DEF Disturb
<1>2. ASSUME NEW w \in Workers, Start(w) PROVE disturbed'
  BY <1>2 DEF Start, Apply, Prune, Diff, DeleteUser, DeleteTable, Disturb
<1>3. ASSUME NEW w \in Workers, Group(w) \/ Stage(w) \/ WriteMeta(w) PROVE disturbed'
  BY <1>3 DEF Group, Stage, WriteMeta, Disturb
<1>4. ASSUME NEW w \in Workers,
             \/ AppendLog(w) \/ WriteRecords(w) \/ Leave(w) \/ Return(w) \/ Cut(w) \/ CutMeta(w)
             \/ ReadLog(w) \/ Answer(w) \/ DropAccount(w) \/ WriteTombs(w) \/ LogTombs(w)
             \/ CountTombs(w) \/ RemoveDir(w) \/ DropTable(w) \/ RemoveTable(w) \/ Purge(w)
      PROVE  disturbed'
  BY <1>4 DEF AppendLog, WriteRecords, Leave, Return, Cut, CutMeta, ReadLog, Answer, DropAccount,
         WriteTombs, LogTombs, CountTombs, RemoveDir, DropTable, RemoveTable, Purge
<1>5. ASSUME (\E t \in Tables : CreateTable(t)) \/ Crash \/ UNCHANGED vars PROVE disturbed'
  BY <1>5 DEF CreateTable, Crash, Disturb, vars
<1> QED
  BY <1>1, <1>2, <1>3, <1>4, <1>5 DEF Next, Step

\* When nothing is torn apart by it, a crash finds the counter in no one's hands.
LEMMA CrashQuiet ==
  ASSUME Types, Crash, ~disturbed'
  PROVE  /\ \A w \in Workers : ~Counts(job[w]) /\ job'[w] = Idle
         /\ UNCHANGED <<meta, logged, log, torn>>
<1>1. \A w \in Workers : ~Counts(job[w]) /\ job'[w] = Idle
  BY CountsAre DEF Crash, Disturb
<1>2. Appending = {}
  <2> SUFFICES ASSUME NEW w \in Workers, At(w, "append") \/ At(w, "tombLog") PROVE Counts(job[w])
    BY <1>1 DEF Appending
  <2>1. job[w] \in ApplyJobs \cup TombJobs
    BY StepsOfJobs DEF At, Types, JobsFit
  <2> QED
    BY <2>1, CountsAre DEF At
<1>3. UNCHANGED meta
  BY DEF Crash
<1>4. \A p \in Partitions : AppendingAt(p) = {}
  BY <1>2 DEF AppendingAt
<1>5. log' = log /\ logged' = logged
  <2>1. PICK n \in [Appending -> UNION {DOMAIN job[w].lines : w \in Appending}] :
           /\ log' = [p \in Partitions |->
                log[p] \cup UNION {Legible(p, SubSeq(job[w].lines, 1, n[w] - 1)) : w \in AppendingAt(p)}]
           /\ logged' = [p \in Partitions |->
                logged[p] \cup UNION {ToSet(SubSeq(job[w].lines, 1, n[w] - 1)) : w \in AppendingAt(p)}]
    BY CrashIs
  <2>2. \A p \in Partitions : log'[p] = log[p] /\ logged'[p] = logged[p]
    BY <1>4, <2>1
  <2>3. log \in [Partitions -> SUBSET Line] /\ logged \in [Partitions -> SUBSET Line]
    BY DEF Types, FilesTyped
  <2>4. log' = [p \in Partitions |-> log'[p]] /\ logged' = [p \in Partitions |-> logged'[p]]
    BY <2>1
  <2> QED
    BY <2>2, <2>3, <2>4
<1>6. torn' = torn
  <2>1. torn' \in [Partitions -> BOOLEAN] /\ torn \in [Partitions -> BOOLEAN]
    BY DEF Crash, Types, FilesTyped
  <2>2. \A p \in Partitions : torn'[p] = torn[p]
    BY <1>4, Zenon DEF Crash, Appending, AppendingAt
  <2> QED
    BY <2>1, <2>2
<1> QED
  BY <1>1, <1>3, <1>5, <1>6


LEMMA SeqStep ==
  Types /\ SeqInv /\ [Next]_vars => SeqInv'
<1> SUFFICES ASSUME Types, SeqInv, [Next]_vars, ~disturbed' PROVE SeqFits'
  BY DEF SeqInv
<1>1. SeqFits
  BY DisturbedStays DEF SeqInv
<1>2. ASSUME NEW w \in Workers, Start(w) \/ Step(w) PROVE SeqFits'
  <2>1. ASSUME Group(w) \/ Stage(w) \/ AppendLog(w) \/ LogTombs(w) PROVE SeqFits'
    BY <1>1, <2>1, GroupNumbers, StageNumbers, AppendNumbers, LogTombsNumbers
  <2>2. ASSUME WriteRecords(w) \/ Leave(w) \/ Cut(w) \/ WriteTombs(w) PROVE SeqFits'
    BY <1>1, <2>2, HeldNumbers
  <2>3. ASSUME WriteMeta(w) \/ CutMeta(w) \/ CountTombs(w) PROVE SeqFits'
    BY <1>1, <2>3, CounterNumbers
  <2>4. ASSUME \E keep \in KeepCounts : Prune(w, keep) PROVE SeqFits'
    BY <1>1, <2>4, PruneNumbers
  <2>5. ASSUME Tombs(w) PROVE SeqFits'
    BY <1>1, <2>5, TombsNumbers
  <2>6. ASSUME \/ \E a \in Actors, batch \in Batches : Apply(w, a, batch)
               \/ \E a \in Actors, from \in 1..(meta.seq + 1) : Diff(w, a, from)
               \/ \E u \in accounts, now \in Clock : DeleteUser(w, u, now)
               \/ \E t \in Tables : DeleteTable(w, t)
               \/ Return(w) \/ ReadLog(w) \/ Answer(w) \/ DropAccount(w) \/ RemoveDir(w)
               \/ DropTable(w) \/ RemoveTable(w) \/ Purge(w)
        PROVE  SeqFits'
    BY <1>1, <2>6, AsideNumbers
  <2> QED
    BY <1>2, <2>1, <2>2, <2>3, <2>4, <2>5, <2>6 DEF Start, Step
<1>3. ASSUME UNCHANGED <<job, meta, logged>> PROVE SeqFits'
  BY <1>1, <1>3 DEF SeqFits
<1>4. ASSUME Crash PROVE SeqFits'
  <2>1. /\ \A w \in Workers : ~Counts(job[w]) /\ job'[w] = Idle
        /\ meta' = meta /\ logged' = logged
    BY <1>4, CrashQuiet
  <2> QED
    BY <1>1, <2>1, CountsAre DEF SeqFits
<1>5. CASE \E t \in Tables : CreateTable(t)
  BY <1>3, <1>5 DEF CreateTable, past
<1>6. CASE UNCHANGED vars
  BY <1>3, <1>6 DEF vars, files, past
<1> QED
  BY <1>2, <1>4, <1>5, <1>6 DEF Next

\* However many batches, deletions of users, prunings and crashes there are, no
\* sequence number is given twice in any of the logs (file.ts:364-405), until a
\* batch is cut off half-way or two jobs have the counter at a time.
THEOREM NumbersAreUnique == Spec => []SeqsAreUnique
<1>1. Init => SeqInv
  <2> SUFFICES ASSUME Init PROVE SeqFits
    BY DEF SeqInv
  <2>1. /\ \A p \in Partitions : logged[p] = {}
        /\ \A w \in Workers : job[w] = Idle
    BY DEF Init
  <2> QED
    BY <2>1, CountsAre DEF SeqFits, Numbered, LoggedUpTo
<1>2. SeqInv => SeqsAreUnique
  BY DEF SeqInv, SeqFits, Numbered, SeqsAreUnique
<1> QED
  BY <1>1, <1>2, SeqStep, LocksAreKept, PTL DEF Spec


-----------------------------------------------------------------------------
(* The diffs                                                               *)

LEMMA CutsAre ==
  ASSUME NEW n, n \in JobStates
  PROVE  /\ Cuts(n) => Counts(n)
         /\ Counts(n) => n.meta \in Nums /\ n.kind # "diff" /\ n.pc # "read"
         /\ n.pc = "read" => n.kind = "diff" /\ n \in DiffJobs
         /\ n.kind = "diff" => n \in DiffJobs
<1>1. Cuts(n) => Counts(n)
  BY StepsOfJobs, CountsAre DEF Cuts
<1>2. ASSUME Counts(n) PROVE n.meta \in Nums /\ n.kind # "diff" /\ n.pc # "read"
  <2>1. n.kind \in {"apply", "prune", "tombs"}
    BY <1>2 DEF Counts
  <2>2. n \in ApplyJobs \cup PruneJobs \cup TombJobs
    BY <2>1, KindsOfJobs
  <2> QED
    BY <2>1, <2>2 DEF ApplyJobs, PruneJobs, TombJobs
<1>3. n.pc = "read" => n.kind = "diff" /\ n \in DiffJobs
  BY StepsOfJobs DEF DiffJobs
<1>4. n.kind = "diff" => n \in DiffJobs
  BY KindsOfJobs
<1> QED
  BY <1>1, <1>2, <1>3, <1>4

LEMMA LostAre ==
  ASSUME Types
  PROVE  /\ Lost \subseteq Line
         /\ \A e \in Lost : e.seq \in Nat
         /\ \A p \in {Shared} \cup accounts : p \in Partitions
<1>1. accounts \subseteq Users /\ logged \in [Partitions -> SUBSET Line]
  BY DEF Types, FilesTyped
<1>2. {Shared} \cup accounts \subseteq Partitions
  BY <1>1 DEF Partitions
<1>3. Lost \subseteq Line
  BY <1>1, <1>2 DEF Lost
<1>4. \A e \in Line : e.seq \in Nat
  BY DEF Line
<1> QED
  BY <1>2, <1>3, <1>4

LEMMA BelowMore ==
  ASSUME NEW lost, NEW more, NEW m, m \in Nat, NEW n, n \in Nat, lost \subseteq more, m <= n,
         \A e \in more : e.seq \in Nat, Below(more, m)
  PROVE  Below(lost, n)
BY DEF Below

\* Nothing more is lost where nothing leaves the logs.
LEMMA LostLess ==
  ASSUME accounts' \subseteq accounts, deleted \subseteq deleted',
         \A p \in {Shared} \cup accounts' : logged'[p] \ log'[p] \subseteq logged[p] \ log[p]
  PROVE  Lost' \subseteq Lost
<1> SUFFICES ASSUME NEW e, e \in Lost' PROVE e \in Lost
  OBVIOUS
<1>1. PICK p \in {Shared} \cup accounts' : e \in logged'[p] \ log'[p] /\ e.table \notin deleted'
  BY DEF Lost
<1>2. p \in {Shared} \cup accounts /\ e \in logged[p] \ log[p] /\ e.table \notin deleted
  BY <1>1
<1> QED
  BY <1>2 DEF Lost

\* A diff that has begun is not behind for what others do.
LEMMA ReadingStays ==
  ASSUME NEW j, j \in DiffJobs, NEW seq, seq \in Nat, NEW seq2, seq2 \in Nat, seq <= seq2,
         NEW lost, NEW lost2, lost2 \subseteq lost \/ j.pc # "read",
         NEW lg, NEW lg2,
         \A p \in Partitions : \A e \in lg2[p] : e.seq \in Nat /\ (e \in lg[p] \/ e.seq > seq),
         NEW dels, NEW dels2, dels \subseteq dels2, NEW accs, NEW accs2, accs2 \subseteq accs,
         accs \subseteq Users, ReadingFits(j, seq, lost, lg, dels, accs)
  PROVE  ReadingFits(j, seq2, lost2, lg2, dels2, accs2)
<1>1. j.meta.seq \in Nat /\ j.meta.seq <= seq
  BY Typed DEF DiffJobs, ReadingFits
<1>2. j.pc = "read" => Below(lost2, j.meta.min)
  BY DEF ReadingFits, Below
<1>3. ASSUME NEW p \in {Shared} \cup ({j.actor} \cap accs2), j.pc = "answer" \/ p \notin ToSet(j.todo)
      PROVE  GotFrom(j, p, lg2, dels2)
  <2>1. p \in {Shared} \cup ({j.actor} \cap accs) /\ p \in Partitions
    BY DEF Partitions
  <2>2. GotFrom(j, p, lg, dels)
    BY <1>3, <2>1 DEF ReadingFits
  <2>3. \A e \in lg2[p] : e.seq <= j.meta.seq => e \in lg[p]
    BY <1>1, <2>1
  <2> QED
    BY <2>2, <2>3 DEF GotFrom
<1> QED
  BY <1>1, <1>2, <1>3 DEF ReadingFits

LEMMA DiffKept ==
  ASSUME Types, Types', DiffFits, NEW w \in Workers, NEW n, Becomes(w, n),
         accounts' \subseteq accounts, deleted \subseteq deleted', meta.seq <= meta'.seq,
         \A p \in Partitions : ~torn'[p],
         \A p \in Partitions : \A e \in logged'[p] : e \in logged[p] \/ e.seq > meta.seq,
         Lost' \subseteq Lost \/ \A v \in Workers \ {w} : ~Counts(job[v]) /\ ~At(v, "read"),
         n.pc = "read" => \A v \in Workers \ {w} : ~Cuts(job[v]),
         Cuts(n) => \A v \in Workers \ {w} : ~At(v, "read"),
         ~Cuts(n) /\ (\A v \in Workers \ {w} : ~Cuts(job[v])) => Below(Lost', meta'.min),
         Counts(n) => Below(Lost', n.meta.min),
         n.kind = "diff" => ReadingFits(n, meta'.seq, Lost', logged', deleted', accounts')
  PROVE  DiffFits'
<1>1. job'[w] = n /\ \A v \in Workers : v # w => job'[v] = job[v]
  BY DEF Becomes
<1>2. \A v \in Workers : job[v] \in JobStates /\ job'[v] \in JobStates
  BY DEF Types, JobsFit
<1>3. n \in JobStates
  BY <1>1, <1>2
<1>4. ASSUME NEW u \in Workers, NEW v \in Workers, job'[u].pc = "read", Cuts(job'[v]) PROVE FALSE
  <2>1. \A x \in JobStates : ~(x.pc = "read" /\ Cuts(x))
    BY DEF Cuts
  <2>2. u # v
    BY <1>2, <1>4, <2>1
  <2>3. CASE u = w
    BY <1>1, <1>4, <2>2, <2>3
  <2>4. CASE v = w
    BY <1>1, <1>4, <2>2, <2>4 DEF At
  <2>5. CASE u # w /\ v # w
    BY <1>1, <1>4, <2>5 DEF DiffFits, At
  <2> QED
    BY <2>3, <2>4, <2>5
<1>5. (\A v \in Workers : ~Cuts(job'[v])) => Below(Lost', meta'.min)
  BY <1>1
<1>6. ASSUME NEW v \in Workers, Counts(job'[v]) PROVE Below(Lost', job'[v].meta.min)
  <2>1. CASE v = w
    BY <1>1, <1>6, <2>1
  <2>2. CASE v # w
    <3>1. Counts(job[v]) /\ job'[v] = job[v]
      BY <1>1, <1>6, <2>2
    <3>2. Below(Lost, job[v].meta.min) /\ Lost' \subseteq Lost
      BY <2>2, <3>1 DEF DiffFits
    <3> QED
      BY <3>1, <3>2 DEF Below
  <2> QED
    BY <2>1, <2>2
<1>7. ASSUME NEW v \in Workers, job'[v].kind = "diff"
      PROVE  ReadingFits(job'[v], meta'.seq, Lost', logged', deleted', accounts')
  <2>1. CASE v = w
    BY <1>1, <1>7, <2>1
  <2>2. CASE v # w
    <3>1. job'[v] = job[v] /\ job[v] \in DiffJobs
      BY <1>1, <1>2, <1>7, <2>2, CutsAre
    <3>2. ReadingFits(job[v], meta.seq, Lost, logged, deleted, accounts)
      BY <1>7, <3>1 DEF DiffFits
    <3>3. Lost' \subseteq Lost \/ job[v].pc # "read"
      BY <2>2 DEF At
    <3>4. meta.seq \in Nat /\ meta'.seq \in Nat /\ accounts \subseteq Users
      BY Typed DEF Types, FilesTyped
    <3>5. \A p \in Partitions : \A e \in logged'[p] : e.seq \in Nat
      BY DEF Types, FilesTyped, Line
    <3> QED
      BY <3>1, <3>2, <3>3, <3>4, <3>5, ReadingStays
  <2> QED
    BY <2>1, <2>2
<1> QED
  BY <1>4, <1>5, <1>6, <1>7 DEF DiffFits, At

\* A step that writes neither a log nor meta.json, of a job that begins or ends
\* neither reading nor cutting.
LEMMA DiffQuiet ==
  ASSUME Types, Types', DiffFits, NEW w \in Workers, NEW n, Becomes(w, n),
         accounts' \subseteq accounts, deleted \subseteq deleted',
         UNCHANGED log, UNCHANGED torn, UNCHANGED meta, UNCHANGED logged,
         Cuts(n) <=> Cuts(job[w]), n.pc = "read" => At(w, "read"),
         Counts(n) => Counts(job[w]) /\ job[w].meta.min <= n.meta.min,
         n.kind = "diff" => ReadingFits(n, meta.seq, Lost', logged, deleted', accounts')
  PROVE  DiffFits'
<1>1. meta' = meta /\ logged' = logged /\ log' = log /\ torn' = torn
  OBVIOUS
<1>2. meta.seq \in Nat /\ meta.min \in Nat
  BY Typed DEF Types, FilesTyped
<1>3. Lost' \subseteq Lost
  BY <1>1, LostLess
<1>4. \A e \in Lost : e.seq \in Nat
  BY LostAre
<1>5. n \in JobStates /\ job[w] \in JobStates
  BY DEF Becomes, Types, JobsFit
<1>6. ASSUME Counts(n) PROVE Below(Lost', n.meta.min)
  <2>1. Below(Lost, job[w].meta.min)
    BY <1>6 DEF DiffFits
  <2>2. n.meta.min \in Nat /\ job[w].meta.min \in Nat
    BY <1>5, <1>6, CutsAre, Typed
  <2>3. job[w].meta.min <= n.meta.min
    BY <1>6
  <2> QED
    BY <1>3, <1>4, <2>1, <2>2, <2>3, BelowMore
<1>7. ASSUME ~Cuts(n), \A v \in Workers \ {w} : ~Cuts(job[v]) PROVE Below(Lost', meta'.min)
  <2>1. Below(Lost, meta.min)
    BY <1>7 DEF DiffFits
  <2> QED
    BY <1>1, <1>3, <2>1 DEF Below
<1>8. n.pc = "read" => \A v \in Workers \ {w} : ~Cuts(job[v])
  BY DEF DiffFits
<1>9. Cuts(n) => \A v \in Workers \ {w} : ~At(v, "read")
  BY DEF DiffFits
<1>10. \A p \in Partitions : ~torn'[p]
  BY <1>1 DEF DiffFits
<1>11. meta.seq <= meta'.seq
  BY <1>1, <1>2
<1>12. \A p \in Partitions : \A e \in logged'[p] : e \in logged[p] \/ e.seq > meta.seq
  BY <1>1
<1>13. n.kind = "diff" => ReadingFits(n, meta'.seq, Lost', logged', deleted', accounts')
  BY <1>1
<1> QED
  BY <1>3, <1>6, <1>7, <1>8, <1>9, <1>10, <1>11, <1>12, <1>13, DiffKept

\* Jobs that have nothing to do with the counter or the logs.
LEMMA DiffAside ==
  ASSUME Types, Types', DiffFits, SeqFits, NEW w \in Workers,
         accounts' \subseteq accounts, deleted \subseteq deleted',
         \/ \E a \in Actors, batch \in Batches : Apply(w, a, batch)
         \/ \E u \in accounts, now \in Clock : DeleteUser(w, u, now)
         \/ \E t \in Tables : DeleteTable(w, t)
         \/ Return(w) \/ Answer(w) \/ DropAccount(w) \/ DropTable(w) \/ RemoveTable(w)
  PROVE  DiffFits'
<1> DEFINE n == job'[w]
<1>1. UNCHANGED log /\ UNCHANGED torn /\ UNCHANGED meta /\ UNCHANGED logged
  BY DEF Apply, DeleteUser, DeleteTable, Return, Answer, DropAccount, DropTable, RemoveTable,
         files, past
<1>2. PICK x : Becomes(w, x) /\ ~Counts(x) /\ ~Counts(job[w])
  BY AsideNumbers
<1>3. Becomes(w, n) /\ ~Counts(n)
  BY <1>2 DEF Becomes
<1>4. n.kind # "diff"
  <2>1. ASSUME \E a \in Actors, batch \in Batches : Apply(w, a, batch) PROVE n.kind # "diff"
    BY <2>1, ApplyIs DEF Becomes, ApplyJobs
  <2>2. ASSUME \E u \in accounts, now \in Clock : DeleteUser(w, u, now) PROVE n.kind # "diff"
    BY <2>2, DeleteUserIs DEF Becomes, AccountJobs
  <2>3. ASSUME \E t \in Tables : DeleteTable(w, t) PROVE n.kind # "diff"
    BY <2>3, DeleteTableIs DEF Becomes, DropJobs
  <2>4. ASSUME Return(w) \/ Answer(w) PROVE n.kind # "diff"
    BY <2>4, FinishIs DEF Return, Answer, Becomes, Idle
  <2>5. ASSUME DropAccount(w) PROVE n.kind # "diff"
    BY <2>5, DropAccountIs DEF Becomes, AccountJobs
  <2>6. ASSUME DropTable(w) PROVE n.kind # "diff"
    BY <2>6, DropTableIs DEF Becomes, DropJobs, Idle
  <2>7. ASSUME RemoveTable(w) PROVE n.kind # "diff"
    BY <2>7, RemoveTableIs DEF Becomes, DropJobs
  <2> QED
    BY <2>1, <2>2, <2>3, <2>4, <2>5, <2>6, <2>7
<1>5. n \in JobStates /\ job[w] \in JobStates
  BY DEF Types, JobsFit
<1>6. ~Cuts(n) /\ ~Cuts(job[w]) /\ n.pc # "read"
  BY <1>2, <1>3, <1>4, <1>5, CutsAre
<1> HIDE DEF n
<1> QED
  BY <1>1, <1>3, <1>4, <1>6, DiffQuiet

\* Steps with the counter in hand that write neither it nor a log.
LEMMA DiffHeld ==
  ASSUME Types, Types', DiffFits, NEW w \in Workers,
         Stage(w) \/ WriteRecords(w) \/ Leave(w) \/ WriteTombs(w)
  PROVE  DiffFits'
<1> DEFINE j == job[w]
<1>1. /\ UNCHANGED log /\ UNCHANGED torn /\ UNCHANGED meta /\ UNCHANGED logged
      /\ UNCHANGED accounts /\ UNCHANGED deleted
  BY DEF Stage, WriteRecords, Leave, WriteTombs, files, past
<1>2. j \in JobStates /\ j.pc \in {"stage", "records", "leave", "tombRecords"}
  BY DEF Types, JobsFit, Stage, WriteRecords, Leave, WriteTombs, AtPartition, At
<1>3. j \in ApplyJobs \cup TombJobs /\ Counts(j) /\ ~Cuts(j)
  BY <1>2, StepsOfJobs, CountsAre DEF Cuts
<1>4. j.meta \in Nums /\ j.meta.min \in Nat
  BY <1>2, <1>3, CutsAre, Typed
<1>5. ASSUME NEW n, Becomes(w, n), n.kind # "diff", ~Cuts(n), n.pc # "read",
             Counts(n) => j.meta.min <= n.meta.min
      PROVE  DiffFits'
  BY <1>1, <1>3, <1>5, DiffQuiet
<1>6. CASE Becomes(w, Idle)
  BY <1>5, <1>6, CountsAre DEF Idle, Cuts
<1>7. CASE \E n : /\ Becomes(w, n) /\ n \in ApplyJobs \cup TombJobs /\ n.meta = j.meta
                  /\ n.pc \in {"stage", "append", "records", "leave", "meta", "tombRecords", "tombLog"}
  <2>1. PICK n : /\ Becomes(w, n) /\ n \in ApplyJobs \cup TombJobs /\ n.meta = j.meta
                 /\ n.pc \in {"stage", "append", "records", "leave", "meta", "tombRecords", "tombLog"}
    BY <1>7
  <2>2. n.kind # "diff" /\ ~Cuts(n) /\ n.pc # "read" /\ j.meta.min <= n.meta.min
    BY <1>4, <2>1 DEF ApplyJobs, TombJobs, Cuts
  <2> QED
    BY <1>5, <2>1, <2>2
<1>8. CASE Stage(w)
  <2> DEFINE st == Staged(j.actor, Head(j.todo), j.batch, j.meta)
  <2>1. CASE \E n : Becomes(w, n) /\ st.ok /\ Follows(n, j) /\ n.pc = "append" /\ n.meta = st.meta
    <3>1. PICK n : Becomes(w, n) /\ st.ok /\ Follows(n, j) /\ n.pc = "append" /\ n.meta = st.meta
      BY <2>1
    <3>2. j \in ApplyJobs /\ j.pc = "stage"
      BY <1>2, <1>8, StepsOfJobs DEF Stage, AtPartition, At
    <3>3. j.actor \in Actors /\ Head(j.todo) \in Partitions /\ j.batch \in Seq(Change)
      BY <3>2, Typed, InPartition DEF Inside, ApplyJobs
    <3>4. j.meta.min <= st.meta.min
      BY <1>4, <3>1, <3>3, StagedNumbers DEF Types, FilesTyped
    <3>5. n.kind # "diff" /\ ~Cuts(n) /\ n.pc # "read" /\ j.meta.min <= n.meta.min
      BY <3>1, <3>4 DEF ApplyJobs, Follows, Cuts
    <3> QED
      BY <1>5, <3>1, <3>5
  <2> QED
    BY <1>6, <1>8, <2>1, StageIs
<1>9. CASE WriteRecords(w)
  BY <1>7, <1>9, WriteRecordsIs DEF GoesOn, Follows
<1>10. CASE Leave(w)
  BY <1>7, <1>10, LeaveIs DEF Follows
<1>11. CASE WriteTombs(w)
  BY <1>7, <1>11, WriteTombsIs DEF Buries
<1> QED
  BY <1>8, <1>9, <1>10, <1>11

\* What is purged from the logs is of no account or table any more.
LEMMA DiffPurge ==
  ASSUME Types, Types', GoneInv, DiffFits, SeqFits, NEW w \in Workers,
         accounts' \subseteq accounts, deleted \subseteq deleted', RemoveDir(w) \/ Purge(w)
  PROVE  DiffFits'
<1> DEFINE n == job'[w]
           j == job[w]
<1>1. meta' = meta /\ logged' = logged
  BY DEF RemoveDir, Purge, files, past
<1>2. PICK x : Becomes(w, x) /\ ~Counts(x) /\ ~Counts(j)
  BY AsideNumbers
<1>3. Becomes(w, n) /\ ~Counts(n)
  BY <1>2 DEF Becomes
<1>4. n \in JobStates /\ j \in JobStates
  BY DEF Types, JobsFit
<1>5. n.kind # "diff"
  <2>1. ASSUME RemoveDir(w) PROVE n.kind # "diff"
    BY <2>1, FinishIs DEF RemoveDir, Becomes, Idle
  <2>2. ASSUME Purge(w) PROVE n.kind # "diff"
    BY <2>2, PurgeIs DEF Becomes, DropJobs, Idle
  <2> QED
    BY <2>1, <2>2
<1>6. ~Cuts(n) /\ ~Cuts(j) /\ n.pc # "read"
  BY <1>2, <1>3, <1>4, <1>5, CutsAre
<1>7. /\ log \in [Partitions -> SUBSET Line] /\ torn \in [Partitions -> BOOLEAN]
      /\ meta.seq \in Nat /\ meta.seq <= meta.seq /\ accounts \subseteq Users
  <2>1. meta.seq \in Nat
    BY Typed DEF Types, FilesTyped
  <2> QED
    BY <2>1 DEF Types, FilesTyped
<1>8. Lost' \subseteq Lost /\ \A p \in Partitions : ~torn'[p]
  <2>1. ASSUME RemoveDir(w) PROVE Lost' \subseteq Lost /\ \A p \in Partitions : ~torn'[p]
    <3>1. j.pc = "rmdir" /\ j \in AccountJobs \cup RmdirJobs
      BY <1>4, <2>1, StepsOfJobs DEF RemoveDir, At
    <3>2. j.user \notin accounts /\ j.user \in Users
      BY <3>1 DEF GoneInv, GoneFits, AccountJobs, RmdirJobs
    <3>3. log' = [log EXCEPT ![j.user] = {}] /\ torn' = [torn EXCEPT ![j.user] = FALSE]
      BY <2>1 DEF RemoveDir
    <3>4. \A p \in {Shared} \cup accounts' : p \in Partitions /\ p # j.user
      BY <1>7, <3>2, FileAssumption DEF Partitions
    <3>5. \A p \in {Shared} \cup accounts' : log'[p] = log[p]
      BY <1>7, <3>3, <3>4
    <3>6. Lost' \subseteq Lost
      BY <1>1, <3>5, LostLess
    <3>7. \A p \in Partitions : ~torn'[p]
      BY <1>7, <3>3 DEF DiffFits
    <3> QED
      BY <3>6, <3>7
  <2>2. ASSUME Purge(w) PROVE Lost' \subseteq Lost /\ \A p \in Partitions : ~torn'[p]
    <3> DEFINE q == Head(j.todo)
               kept == {e \in log[q] : e.table # j.table}
    <3>1. j.pc = "purge" /\ j \in DropJobs
      BY <1>4, <2>2, StepsOfJobs DEF Purge, AtPartition, At
    <3>2. j.table \in deleted
      BY <3>1 DEF GoneInv, GoneFits, DropJobs
    <3>3. log' = [log EXCEPT ![q] = kept] /\ torn' = [torn EXCEPT ![q] = @ /\ kept = log[q]]
      BY <2>2 DEF Purge
    <3> HIDE DEF kept, q
    <3>4. \A p \in Partitions : ~torn'[p]
      BY <1>7, <3>3 DEF DiffFits
    <3>5. Lost' \subseteq Lost
      <4> SUFFICES ASSUME NEW e, e \in Lost' PROVE e \in Lost
        OBVIOUS
      <4>1. PICK p \in {Shared} \cup accounts' : e \in logged'[p] \ log'[p] /\ e.table \notin deleted'
        BY DEF Lost
      <4>2. p \in {Shared} \cup accounts /\ p \in Partitions /\ e \in logged[p] /\ e.table \notin deleted
        BY <1>1, <4>1, LostAre
      <4>3. e \notin log[p]
        <5>1. CASE p = q
          BY <1>7, <3>2, <3>3, <4>1, <4>2, <5>1 DEF kept
        <5>2. CASE p # q
          BY <1>7, <3>3, <4>1, <4>2, <5>2
        <5> QED
          BY <5>1, <5>2
      <4> QED
        BY <4>2, <4>3 DEF Lost
    <3> QED
      BY <3>4, <3>5
  <2> QED
    BY <2>1, <2>2
<1>9. (\A v \in Workers \ {w} : ~Cuts(job[v])) => Below(Lost', meta'.min)
  <2> SUFFICES ASSUME \A v \in Workers \ {w} : ~Cuts(job[v]) PROVE Below(Lost', meta'.min)
    OBVIOUS
  <2>1. \A v \in Workers : ~Cuts(job[v])
    BY <1>6
  <2> QED
    BY <1>1, <1>8, <2>1 DEF DiffFits, Below
<1>10. \A p \in Partitions : \A e \in logged'[p] : e \in logged[p] \/ e.seq > meta.seq
  BY <1>1
<1>11. meta.seq <= meta'.seq
  BY <1>1, <1>7
<1> HIDE DEF n, j
<1> QED
  BY <1>3, <1>5, <1>6, <1>8, <1>9, <1>10, <1>11, DiffKept

\* Lines that are appended have numbers that no diff has been told of, and
\* nothing of them is lost.
LEMMA DiffAppend ==
  ASSUME Types, Types', DiffFits, SeqFits, NEW w \in Workers, AppendLog(w) \/ LogTombs(w)
  PROVE  DiffFits'
<1> DEFINE j == job[w]
           q == Head(j.todo)
<1>1. /\ meta' = meta /\ accounts' = accounts /\ deleted' = deleted
      /\ j.pc \in {"append", "tombLog"}
  BY DEF AppendLog, LogTombs, At
<1>2. /\ j \in ApplyJobs \cup TombJobs /\ q \in Partitions /\ j.lines \in Seq(Line)
      /\ LogTombs(w) => q = Shared
  <2>1. CASE AppendLog(w)
    <3>1. j.pc = "append"
      BY <2>1 DEF AppendLog, At
    <3>2. ~LogTombs(w)
      BY <3>1 DEF LogTombs, At
    <3> QED
      BY <3>1, <3>2, ApplyInPartition
  <2>2. CASE LogTombs(w)
    BY <2>2, TombFacts DEF LogTombs, At, TombSteps, Partitions
  <2> QED
    BY <2>1, <2>2
<1>3. Counts(j) /\ CountsFit(j, meta.seq, logged) /\ LinesFresh(j, meta.seq, logged) /\ ~Cuts(j)
  <2>1. Counts(j)
    BY <1>1, <1>2, CountsAre
  <2>2. CountsFit(j, meta.seq, logged)
    BY <2>1 DEF SeqFits
  <2> QED
    BY <1>1, <2>1, <2>2 DEF CountsFit, Cuts
<1>4. /\ log \in [Partitions -> SUBSET Line] /\ torn \in [Partitions -> BOOLEAN]
      /\ logged \in [Partitions -> SUBSET Line] /\ meta.seq \in Nat /\ meta.seq <= meta.seq
  <2>1. meta.seq \in Nat
    BY Typed DEF Types, FilesTyped
  <2> QED
    BY <2>1 DEF Types, FilesTyped
<1>5. Legible(q, j.lines) = ToSet(j.lines)
  BY <1>2 DEF DiffFits, Legible, ToSet
<1>6. /\ log' = [log EXCEPT ![q] = @ \cup ToSet(j.lines)]
      /\ logged' = [logged EXCEPT ![q] = @ \cup ToSet(j.lines)]
  <2>1. CASE AppendLog(w)
    BY <1>5, <2>1 DEF AppendLog
  <2>2. CASE LogTombs(w)
    BY <1>2, <1>5, <2>2 DEF LogTombs
  <2> QED
    BY <2>1, <2>2
<1>7. \A p \in Partitions : ~torn'[p]
  <2>1. \A p \in Partitions : ~torn[p]
    BY DEF DiffFits
  <2>2. CASE AppendLog(w)
    <3>1. torn' = [torn EXCEPT ![q] = @ /\ j.lines = << >>]
      BY <2>2 DEF AppendLog
    <3> HIDE DEF q
    <3> QED
      BY <1>2, <1>4, <2>1, <3>1
  <2>3. CASE LogTombs(w)
    <3>1. torn' = [torn EXCEPT ![Shared] = FALSE]
      BY <2>3 DEF LogTombs
    <3> QED
      BY <1>4, <2>1, <3>1
  <2> QED
    BY <2>2, <2>3
<1> HIDE DEF q
<1>8. \A e \in ToSet(j.lines) : e.seq > meta.seq
  BY <1>3 DEF LinesFresh, ToSet
<1>9. \A p \in Partitions : \A e \in logged'[p] : e \in logged[p] \/ e.seq > meta.seq
  BY <1>2, <1>4, <1>6, <1>8
<1>10. Lost' \subseteq Lost
  <2>1. \A p \in {Shared} \cup accounts' : p \in Partitions
    BY <1>1, LostAre
  <2>2. \A p \in {Shared} \cup accounts' : logged'[p] \ log'[p] \subseteq logged[p] \ log[p]
    BY <1>2, <1>4, <1>6, <2>1
  <2> QED
    BY <1>1, <2>2, LostLess
<1>11. PICK n : /\ Becomes(w, n) /\ n \in ApplyJobs \cup TombJobs /\ n.meta = j.meta
                /\ n.pc \in {"records", "tombMeta"}
  BY AppendIs, LogTombsIs DEF GoesOn, Follows, Buries
<1>12. n.kind # "diff" /\ n.pc # "read" /\ ~Cuts(n)
  BY <1>11 DEF ApplyJobs, TombJobs, Cuts
<1>13. Below(Lost', n.meta.min)
  BY <1>3, <1>10, <1>11 DEF DiffFits, Below
<1>14. (\A v \in Workers \ {w} : ~Cuts(job[v])) => Below(Lost', meta'.min)
  <2> SUFFICES ASSUME \A v \in Workers \ {w} : ~Cuts(job[v]) PROVE Below(Lost', meta'.min)
    OBVIOUS
  <2>1. \A v \in Workers : ~Cuts(job[v])
    BY <1>3
  <2> QED
    BY <1>1, <1>10, <2>1 DEF DiffFits, Below
<1>15. meta.seq <= meta'.seq /\ accounts' \subseteq accounts /\ deleted \subseteq deleted'
  BY <1>1, <1>4
<1> HIDE DEF j
<1> QED
  BY <1>7, <1>9, <1>10, <1>11, <1>12, <1>13, <1>14, <1>15, DiffKept

\* What is cut off is below the beginning that is about to be told.
LEMMA DiffCut ==
  ASSUME Types, Types', DiffFits, SeqFits, NEW w \in Workers, Cut(w)
  PROVE  DiffFits'
<1> DEFINE j == job[w]
           q == Head(j.todo)
           kept == {e \in log[q] : e.seq >= j.meta.min}
<1>1. /\ meta' = meta /\ logged' = logged /\ accounts' = accounts /\ deleted' = deleted
      /\ j.pc = "cut" /\ log' = [log EXCEPT ![q] = kept]
      /\ torn' = [torn EXCEPT ![q] = @ /\ kept = log[q]]
  BY DEF Cut, AtPartition, At, past
<1>2. j \in ApplyJobs \cup PruneJobs /\ Cuts(j) /\ Counts(j) /\ j \in JobStates
  BY <1>1, StepsOfJobs, CutsAre DEF Types, JobsFit, Cuts
<1>3. \A v \in Workers \ {w} : ~Counts(job[v]) /\ ~At(v, "read")
  BY <1>2 DEF SeqFits, DiffFits
<1>4. Below(Lost, j.meta.min)
  BY <1>2 DEF DiffFits
<1>5. /\ log \in [Partitions -> SUBSET Line] /\ torn \in [Partitions -> BOOLEAN]
      /\ meta.seq \in Nat /\ meta.seq <= meta.seq /\ j.meta.min \in Nat
      /\ logged \in [Partitions -> SUBSET Line]
  <2>1. meta.seq \in Nat
    BY Typed DEF Types, FilesTyped
  <2>2. j.meta.min \in Nat
    BY <1>2, CutsAre, Typed
  <2> QED
    BY <2>1, <2>2 DEF Types, FilesTyped
<1> HIDE DEF q
<1>6. Below(Lost', j.meta.min)
  <2> SUFFICES ASSUME NEW e, e \in Lost', ~(e.seq < j.meta.min) PROVE FALSE
    BY DEF Below
  <2>1. PICK p \in {Shared} \cup accounts' : e \in logged'[p] \ log'[p] /\ e.table \notin deleted'
    BY DEF Lost
  <2>2. p \in {Shared} \cup accounts /\ p \in Partitions /\ e \in logged[p] /\ e.table \notin deleted
    BY <1>1, <2>1, LostAre
  <2>3. e.seq \in Nat
    BY <1>5, <2>2 DEF Line
  <2>4. e.seq >= j.meta.min
    BY <1>5, <2>3
  <2>5. e \notin log[p]
    <3>1. CASE p = q
      BY <1>1, <1>5, <2>1, <2>2, <2>4, <3>1
    <3>2. CASE p # q
      BY <1>1, <1>5, <2>1, <2>2, <3>2
    <3> QED
      BY <3>1, <3>2
  <2>6. e \in Lost
    BY <2>2, <2>5 DEF Lost
  <2> QED
    BY <1>4, <2>6 DEF Below
<1>7. \A p \in Partitions : ~torn'[p]
  <2> HIDE DEF kept
  <2> QED
    BY <1>1, <1>5 DEF DiffFits
<1>8. PICK n : Becomes(w, n) /\ CutsOn(n, j) /\ n.pc \in {"cut", "cutMeta"} /\ n.meta = j.meta
  BY CutIs
<1>9. Cuts(n) /\ n.kind # "diff" /\ n.pc # "read"
  BY <1>8 DEF Cuts, CutsOn, Follows, ApplyJobs, PruneJobs
<1>10. \A p \in Partitions : \A e \in logged'[p] : e \in logged[p] \/ e.seq > meta.seq
  BY <1>1
<1>11. meta.seq <= meta'.seq /\ accounts' \subseteq accounts /\ deleted \subseteq deleted'
  BY <1>1, <1>5
<1>12. Below(Lost', n.meta.min)
  BY <1>6, <1>8
<1> HIDE DEF j
<1> QED
  BY <1>3, <1>7, <1>8, <1>9, <1>10, <1>11, <1>12, DiffKept

\* meta.json is written.
LEMMA DiffCounter ==
  ASSUME Types, Types', DiffFits, SeqFits, NEW w \in Workers,
         WriteMeta(w) \/ CutMeta(w) \/ CountTombs(w), ~disturbed'
  PROVE  DiffFits'
<1> DEFINE j == job[w]
<1>1. /\ log' = log /\ torn' = torn /\ logged' = logged /\ accounts' = accounts
      /\ deleted' = deleted
  BY DEF WriteMeta, CutMeta, CountTombs, past
<1>2. Counts(j) /\ meta' = j.meta /\ meta.seq <= meta'.seq
  BY CounterNumbers
<1>3. Below(Lost, j.meta.min) /\ Lost' = Lost
  BY <1>1, <1>2 DEF DiffFits, Lost
<1>4. j \in JobStates /\ j.meta.min \in Nat /\ \A e \in Lost : e.seq \in Nat
  BY <1>2, CutsAre, Typed, LostAre DEF Types, JobsFit
<1>5. \A p \in Partitions : ~torn'[p]
  BY <1>1 DEF DiffFits
<1>6. \A p \in Partitions : \A e \in logged'[p] : e \in logged[p] \/ e.seq > meta.seq
  BY <1>1
<1>7. Below(Lost', meta'.min)
  BY <1>2, <1>3
<1>8. ASSUME NEW n, Becomes(w, n), n.kind # "diff", n.pc # "read",
             Counts(n) => Below(Lost', n.meta.min),
             Cuts(n) => \A v \in Workers \ {w} : ~At(v, "read")
      PROVE  DiffFits'
  BY <1>1, <1>2, <1>3, <1>5, <1>6, <1>7, <1>8, DiffKept
<1>9. CASE WriteMeta(w)
  <2>1. PICK n : /\ Becomes(w, n) /\ Follows(n, j)
                 /\ \/ n.pc = "return" /\ n.meta = j.meta
                    \/ /\ n.pc \in {"cut", "cutMeta"} /\ n.meta.min > j.meta.min /\ n.meta \in Nums
                       /\ Disturb(\E v \in Workers : At(v, "read"))
    BY <1>9, WriteMetaIs
  <2>2. n.kind # "diff" /\ n.pc # "read"
    BY <2>1 DEF Follows, ApplyJobs
  <2>3. CASE n.pc = "return"
    BY <1>8, <2>1, <2>2, <2>3 DEF Counts, Cuts
  <2>4. CASE n.pc # "return"
    <3>1. n.meta.min \in Nat /\ j.meta.min <= n.meta.min
      <4>1. n.meta \in Nums /\ n.meta.min > j.meta.min
        BY <2>1, <2>4
      <4>2. n.meta.min \in Nat
        BY <4>1, Typed
      <4> HIDE DEF j
      <4> QED
        BY <1>4, <4>1, <4>2
    <3>2. Below(Lost', n.meta.min)
      BY <1>3, <1>4, <3>1, BelowMore
    <3>3. \A v \in Workers : ~At(v, "read")
      BY <2>1, <2>4 DEF Disturb
    <3> QED
      BY <1>8, <2>1, <2>2, <3>2, <3>3
  <2> QED
    BY <2>3, <2>4
<1>10. CASE CutMeta(w)
  <2>1. PICK n : Becomes(w, n) /\ CutsOn(n, j) /\ n.pc = "return"
    BY <1>10, CutMetaIs
  <2>2. n.kind # "diff" /\ ~Counts(n) /\ ~Cuts(n)
    BY <2>1 DEF CutsOn, Follows, ApplyJobs, PruneJobs, Counts, Cuts
  <2> QED
    BY <1>8, <2>1, <2>2
<1>11. CASE CountTombs(w)
  <2>1. PICK n \in RmdirJobs : Becomes(w, n)
    BY <1>11, CountTombsIs
  <2>2. n.kind # "diff" /\ n.pc = "rmdir" /\ ~Counts(n) /\ ~Cuts(n)
    BY <2>1, CountsAre DEF RmdirJobs, Cuts
  <2> QED
    BY <1>8, <2>1, <2>2
<1> QED
  BY <1>9, <1>10, <1>11

\* A job takes the counter up, and no one had it: what is lost is below the
\* beginning that meta.json tells.
LEMMA DiffTake ==
  ASSUME Types, Types', DiffFits, NEW w \in Workers, NEW n, Becomes(w, n),
         UNCHANGED log, UNCHANGED torn, UNCHANGED meta, UNCHANGED logged, UNCHANGED accounts,
         UNCHANGED deleted, n.kind # "diff", n.pc # "read",
         \A v \in Workers : ~Cuts(job[v]),
         Counts(n) => n.meta.min \in Nat /\ meta.min <= n.meta.min,
         Cuts(n) => \A v \in Workers \ {w} : ~At(v, "read")
  PROVE  DiffFits'
<1>1. /\ log' = log /\ torn' = torn /\ meta' = meta /\ logged' = logged
      /\ accounts' = accounts /\ deleted' = deleted
  OBVIOUS
<1>2. Lost' = Lost /\ Below(Lost, meta.min)
  BY <1>1 DEF Lost, DiffFits
<1>3. meta.min \in Nat /\ meta.seq \in Nat /\ \A e \in Lost : e.seq \in Nat
  BY LostAre, Typed DEF Types, FilesTyped
<1>4. Counts(n) => Below(Lost', n.meta.min)
  BY <1>2, <1>3, BelowMore
<1>5. /\ \A p \in Partitions : ~torn'[p]
      /\ \A p \in Partitions : \A e \in logged'[p] : e \in logged[p] \/ e.seq > meta.seq
  BY <1>1 DEF DiffFits
<1>6. Below(Lost', meta'.min) /\ meta.seq <= meta'.seq
  BY <1>1, <1>2, <1>3
<1> QED
  BY <1>1, <1>2, <1>4, <1>5, <1>6, DiffKept

LEMMA DiffBegins ==
  ASSUME Types, Types', DiffFits, SeqFits, NEW w \in Workers, ~disturbed',
         Group(w) \/ (\E keep \in KeepCounts : Prune(w, keep)) \/ Tombs(w)
  PROVE  DiffFits'
<1> DEFINE j == job[w]
<1>1. /\ UNCHANGED log /\ UNCHANGED torn /\ UNCHANGED meta /\ UNCHANGED logged
      /\ UNCHANGED accounts /\ UNCHANGED deleted
  BY DEF Group, Prune, Tombs, files, past
<1>2. \A v \in Workers : job[v] \in JobStates /\ (Cuts(job[v]) => Counts(job[v]))
  BY CutsAre DEF Types, JobsFit
<1>3. meta.min \in Nat
  BY Typed DEF Types, FilesTyped
<1>4. ASSUME Group(w) PROVE DiffFits'
  <2>1. j.pc = "group" /\ Holds(w, ApplyLock(j.actor)) /\ j \in ApplyJobs
    BY <1>2, <1>4, StepsOfJobs DEF Group, At
  <2>2. ~Counts(j) /\ ~Cuts(j)
    BY <2>1, CountsAre DEF Cuts
  <2>3. CASE Becomes(w, Idle)
    <3>1. Idle.kind # "diff" /\ Idle.pc # "read" /\ ~Counts(Idle) /\ ~Cuts(Idle)
      BY CountsAre DEF Idle, Cuts
    <3> QED
      BY <1>1, <2>2, <2>3, <3>1, DiffQuiet
  <2>4. CASE \E n : Becomes(w, n) /\ Follows(n, j) /\ n.pc \in {"stage", "meta"} /\ n.meta = meta
    <3>1. PICK n : Becomes(w, n) /\ Follows(n, j) /\ n.pc \in {"stage", "meta"} /\ n.meta = meta
      BY <2>4
    <3>2. n.kind # "diff" /\ n.pc # "read" /\ ~Cuts(n) /\ n.meta.min \in Nat /\ meta.min <= n.meta.min
      BY <1>3, <3>1 DEF Follows, ApplyJobs, Cuts
    <3>3. ASSUME NEW v \in Workers PROVE ~Cuts(job[v])
      <4>1. job[v].kind # "apply" => ~Cuts(job[v])
        BY <1>2, <1>4, CountsAre DEF Group, Disturb
      <4>2. ASSUME job[v].kind = "apply" PROVE ~Cuts(job[v])
        <5>1. Holds(w, "apply") /\ j.kind = "apply"
          BY <2>1 DEF ApplyLock, ApplyJobs
        <5>2. job[v].pc = "group" \/ v = w
          BY <4>2, <5>1, OneBatch
        <5> QED
          BY <2>2, <5>2 DEF Cuts
      <4> QED
        BY <4>1, <4>2
    <3> QED
      BY <1>1, <3>1, <3>2, <3>3, DiffTake
  <2> QED
    BY <1>4, <2>3, <2>4, GroupIs
<1>5. ASSUME NEW keep \in KeepCounts, Prune(w, keep) PROVE DiffFits'
  <2>1. \A v \in Workers : ~Cuts(job[v])
    BY <1>2, <1>5, PruneNumbers
  <2>2. PICK n \in PruneJobs : /\ Becomes(w, n) /\ n.pc \in {"cut", "cutMeta"}
                               /\ n.meta.seq = meta.seq /\ n.meta.min > meta.min
    BY <1>5, PruneIs
  <2>3. n.kind # "diff" /\ n.pc # "read" /\ n.meta \in Nums
    BY <2>2 DEF PruneJobs
  <2>4. n.meta.min \in Nat /\ meta.min <= n.meta.min
    BY <1>3, <2>2, <2>3, Typed
  <2>5. \A v \in Workers : ~At(v, "read")
    BY <1>5 DEF Prune, Disturb
  <2> QED
    BY <1>1, <2>1, <2>2, <2>3, <2>4, <2>5, DiffTake
<1>6. ASSUME Tombs(w) PROVE DiffFits'
  <2>1. j \in AccountJobs /\ ~Counts(j) /\ ~Cuts(j)
    BY <1>6, TombsIs, CountsAre DEF AccountJobs, Cuts
  <2>2. CASE \E n \in AccountJobs : Becomes(w, n)
    <3>1. PICK n \in AccountJobs : Becomes(w, n)
      BY <2>2
    <3>2. n.kind # "diff" /\ n.pc # "read" /\ ~Cuts(n) /\ ~Counts(n)
      BY CountsAre DEF AccountJobs, Cuts
    <3> QED
      BY <1>1, <2>1, <3>1, <3>2, DiffQuiet
  <2>3. CASE /\ Disturb(\E v \in Workers \ {w} : Rewriting(v))
             /\ \E n \in TombJobs : Becomes(w, n) /\ n.meta = TombMeta(j)
    <3>1. PICK n \in TombJobs : Becomes(w, n) /\ n.meta = TombMeta(j)
      BY <2>3
    <3>2. n.kind # "diff" /\ n.pc # "read" /\ ~Cuts(n) /\ n.meta \in Nums
      BY DEF TombJobs, Cuts
    <3>3. n.meta.min \in Nat /\ meta.min <= n.meta.min
      BY <1>3, <3>1, <3>2, Typed DEF TombMeta
    <3>4. \A v \in Workers : ~Cuts(job[v])
      BY <1>2, <2>1, <2>3, CountsAre DEF Disturb
    <3> QED
      BY <1>1, <3>1, <3>2, <3>3, <3>4, DiffTake
  <2> QED
    BY <1>6, <2>2, <2>3, TombsIs
<1> QED
  BY <1>4, <1>5, <1>6

\* A diff begins when no log is being cut, and has the lines of the partitions it
\* has read.
LEMMA DiffReads ==
  ASSUME Types, Types', DiffFits, SeqFits, NEW w \in Workers, ~disturbed',
         (\E a \in Actors, from \in 1..(meta.seq + 1) : Diff(w, a, from)) \/ ReadLog(w)
  PROVE  DiffFits'
<1> DEFINE j == job[w]
<1>1. /\ UNCHANGED log /\ UNCHANGED torn /\ UNCHANGED meta /\ UNCHANGED logged
      /\ UNCHANGED accounts /\ UNCHANGED deleted
  BY DEF Diff, ReadLog, files, past
<1>2. \A v \in Workers : job[v] \in JobStates /\ (Cuts(job[v]) => Counts(job[v]))
  BY CutsAre DEF Types, JobsFit
<1>3. meta.seq \in Nat /\ meta.seq <= meta.seq /\ accounts \subseteq Users
  <2>1. meta.seq \in Nat
    BY Typed DEF Types, FilesTyped
  <2> QED
    BY <2>1 DEF Types, FilesTyped
<1>4. Lost' = Lost
  BY <1>1 DEF Lost
<1>5. ASSUME NEW a \in Actors, NEW from \in 1..(meta.seq + 1), Diff(w, a, from) PROVE DiffFits'
  <2>1. PICK n \in DiffJobs : /\ Becomes(w, n) /\ n.actor = a /\ n.meta = meta /\ n.pc = "read"
                              /\ {Shared} \cup ({a} \cap Users) \subseteq ToSet(n.todo)
    BY <1>5, DiffIs
  <2>2. \A v \in Workers : ~Cuts(job[v])
    BY <1>5 DEF Diff, Disturb, Cutting, Cuts, At
  <2>3. ReadingFits(n, meta.seq, Lost, logged, deleted, accounts)
    <3>1. Below(Lost, n.meta.min)
      BY <2>1, <2>2 DEF DiffFits
    <3>2. {Shared} \cup ({n.actor} \cap accounts) \subseteq ToSet(n.todo)
      BY <1>3, <2>1
    <3> QED
      BY <1>3, <2>1, <3>1, <3>2 DEF ReadingFits
  <2>4. ~Counts(n) /\ ~Cuts(n) /\ n.kind = "diff"
    BY <2>1, CountsAre DEF DiffJobs, Cuts
  <2>5. /\ \A p \in Partitions : ~torn'[p]
        /\ \A p \in Partitions : \A e \in logged'[p] : e \in logged[p] \/ e.seq > meta.seq
    BY <1>1 DEF DiffFits
  <2>6. Below(Lost', meta'.min)
    BY <1>1, <1>4, <2>2 DEF DiffFits
  <2>7. ReadingFits(n, meta'.seq, Lost', logged', deleted', accounts')
    BY <1>1, <1>4, <2>3
  <2>8. meta.seq <= meta'.seq /\ Lost' \subseteq Lost
    BY <1>1, <1>3, <1>4
  <2> QED
    BY <1>1, <2>1, <2>2, <2>4, <2>5, <2>6, <2>7, <2>8, DiffKept
<1>6. ASSUME ReadLog(w) PROVE DiffFits'
  <2> DEFINE q == Head(j.todo)
  <2>1. PICK n \in DiffJobs :
               /\ Becomes(w, n) /\ n.actor = j.actor /\ n.from = j.from /\ n.meta = j.meta
               /\ n.got = j.got \cup {e \in log[q] : e.seq > j.from}
               /\ n.todo = Tail(j.todo) /\ n.pc \in {"read", "answer"}
               /\ n.pc = "answer" => n.todo = << >>
    BY <1>6, ReadLogIs
  <2>2. j.pc = "read" /\ j \in DiffJobs /\ j.kind = "diff" /\ ~Counts(j) /\ ~Cuts(j)
    BY <1>2, <1>6, StepsOfJobs, CountsAre DEF ReadLog, AtPartition, At, DiffJobs, Cuts
  <2>3. ReadingFits(j, meta.seq, Lost, logged, deleted, accounts)
    BY <2>2 DEF DiffFits
  <2>4. /\ j.todo \in Seq(Partitions) /\ j.todo # << >> /\ q \in Partitions
        /\ j.from \in Nat /\ j.meta \in Nums /\ j.meta.min \in Nat
    <3>1. j.from \in Nat /\ j.meta \in Nums
      BY <2>2 DEF DiffJobs
    <3> QED
      BY <2>2, <3>1, InPartition, Typed DEF Inside
  <2>5. \A p : p \notin ToSet(n.todo) => p = q \/ p \notin ToSet(j.todo)
    <3>1. \A p \in ToSet(j.todo) : p = Head(j.todo) \/ p \in ToSet(Tail(j.todo))
      <4>1. /\ Len(j.todo) \in Nat /\ Len(j.todo) >= 1 /\ DOMAIN j.todo = 1..Len(j.todo)
            /\ Head(j.todo) = j.todo[1] /\ Tail(j.todo) \in Seq(Partitions)
            /\ Len(Tail(j.todo)) = Len(j.todo) - 1
            /\ \A i \in 1..(Len(j.todo) - 1) : Tail(j.todo)[i] = j.todo[i + 1]
        BY <2>4, HeadTailProperties, LenProperties
      <4>2. DOMAIN Tail(j.todo) = 1..(Len(j.todo) - 1)
        BY <4>1, LenProperties
      <4>3. ASSUME NEW i \in 1..Len(j.todo), i # 1 PROVE j.todo[i] \in ToSet(Tail(j.todo))
        <5>1. i - 1 \in 1..(Len(j.todo) - 1) /\ (i - 1) + 1 = i
          BY <4>1, <4>3
        <5> QED
          BY <4>1, <4>2, <5>1 DEF ToSet
      <4> QED
        BY <4>1, <4>3 DEF ToSet
    <3> QED
      BY <2>1, <3>1
  <2>6. ASSUME q \in {Shared} \cup accounts PROVE GotFrom(n, q, logged, deleted)
    <3> SUFFICES ASSUME ~IsSnapshotRequired(n.from, n.meta), NEW e \in logged[q],
                        e.table \notin deleted, e.seq > n.from, e.seq <= n.meta.seq
                 PROVE  e \in n.got
      BY DEF GotFrom
    <3>1. e.seq \in Nat
      BY <2>4 DEF Types, FilesTyped, Line
    <3>2. e \in log[q]
      <4> SUFFICES ASSUME e \notin log[q] PROVE FALSE
        OBVIOUS
      <4>1. e \in Lost
        BY <2>6 DEF Lost
      <4>2. e.seq < j.meta.min
        BY <2>2, <2>3, <4>1 DEF ReadingFits, Below
      <4>3. n.from = j.from /\ n.meta = j.meta
        BY <2>1
      <4>4. ~(j.from < j.meta.min /\ j.meta.min > 0) /\ e.seq > j.from
        BY <4>3 DEF IsSnapshotRequired
      <4> HIDE DEF j
      <4> QED
        BY <2>4, <3>1, <4>2, <4>4
    <3> QED
      BY <2>1, <3>2
  <2>7. ASSUME NEW p \in {Shared} \cup ({n.actor} \cap accounts), p # q,
               n.pc = "answer" \/ p \notin ToSet(n.todo)
        PROVE  GotFrom(n, p, logged, deleted)
    <3>1. p \notin ToSet(n.todo)
      <4>1. n.todo = << >> => ToSet(n.todo) = {}
        BY DEF ToSet
      <4> QED
        BY <2>1, <2>7, <4>1
    <3>2. p \notin ToSet(j.todo)
      BY <2>5, <2>7, <3>1
    <3>3. GotFrom(j, p, logged, deleted)
      BY <2>1, <2>3, <2>7, <3>2 DEF ReadingFits
    <3> QED
      BY <2>1, <3>3 DEF GotFrom
  <2>8. ReadingFits(n, meta.seq, Lost, logged, deleted, accounts)
    <3>1. n.meta.seq <= meta.seq /\ Below(Lost, n.meta.min)
      BY <2>1, <2>2, <2>3 DEF ReadingFits
    <3>2. ASSUME NEW p \in {Shared} \cup ({n.actor} \cap accounts),
                 n.pc = "answer" \/ p \notin ToSet(n.todo)
          PROVE  GotFrom(n, p, logged, deleted)
      <4>1. CASE p = q
        BY <2>6, <4>1
      <4>2. CASE p # q
        BY <2>7, <3>2, <4>2
      <4> QED
        BY <4>1, <4>2
    <3> QED
      BY <3>1, <3>2 DEF ReadingFits
  <2>9. ~Counts(n) /\ ~Cuts(n)
    BY <2>1, CountsAre DEF Cuts
  <2>10. ReadingFits(n, meta.seq, Lost', logged, deleted', accounts')
    BY <1>1, <1>4, <2>8
  <2>11. n.pc = "read" => At(w, "read")
    BY <2>2 DEF At
  <2> HIDE DEF j, q
  <2> QED
    BY <1>1, <2>1, <2>2, <2>9, <2>10, <2>11, DiffQuiet DEF j
<1> QED
  BY <1>5, <1>6

LEMMA DiffStep ==
  Types /\ Types' /\ GoneInv /\ SeqInv /\ DiffInv /\ [Next]_vars => DiffInv'
<1> SUFFICES ASSUME Types, Types', GoneInv, SeqInv, DiffInv, [Next]_vars, ~disturbed'
             PROVE  DiffFits'
  BY DEF DiffInv
<1>1. SeqFits /\ DiffFits
  BY DisturbedStays DEF SeqInv, DiffInv
<1>2. accounts' \subseteq accounts /\ deleted \subseteq deleted'
  BY GoneStep
<1>3. ASSUME NEW w \in Workers, Start(w) \/ Step(w) PROVE DiffFits'
  <2>1. ASSUME \/ \E a \in Actors, batch \in Batches : Apply(w, a, batch)
               \/ \E u \in accounts, now \in Clock : DeleteUser(w, u, now)
               \/ \E t \in Tables : DeleteTable(w, t)
               \/ Return(w) \/ Answer(w) \/ DropAccount(w) \/ DropTable(w) \/ RemoveTable(w)
        PROVE  DiffFits'
    BY <1>1, <1>2, <2>1, DiffAside
  <2>2. ASSUME Stage(w) \/ WriteRecords(w) \/ Leave(w) \/ WriteTombs(w) PROVE DiffFits'
    BY <1>1, <2>2, DiffHeld
  <2>3. ASSUME RemoveDir(w) \/ Purge(w) PROVE DiffFits'
    BY <1>1, <1>2, <2>3, DiffPurge
  <2>4. ASSUME AppendLog(w) \/ LogTombs(w) PROVE DiffFits'
    BY <1>1, <2>4, DiffAppend
  <2>5. ASSUME Cut(w) PROVE DiffFits'
    BY <1>1, <2>5, DiffCut
  <2>6. ASSUME WriteMeta(w) \/ CutMeta(w) \/ CountTombs(w) PROVE DiffFits'
    BY <1>1, <2>6, DiffCounter
  <2>7. ASSUME Group(w) \/ (\E keep \in KeepCounts : Prune(w, keep)) \/ Tombs(w) PROVE DiffFits'
    BY <1>1, <2>7, DiffBegins
  <2>8. ASSUME (\E a \in Actors, from \in 1..(meta.seq + 1) : Diff(w, a, from)) \/ ReadLog(w)
        PROVE  DiffFits'
    BY <1>1, <2>8, DiffReads
  <2> QED
    BY <1>3, <2>1, <2>2, <2>3, <2>4, <2>5, <2>6, <2>7, <2>8 DEF Start, Step
<1>4. ASSUME UNCHANGED <<job, meta, logged, log, torn, accounts, deleted>> PROVE DiffFits'
  <2>1. Lost' = Lost
    BY <1>4 DEF Lost
  <2>2. /\ job' = job /\ meta' = meta /\ logged' = logged /\ torn' = torn /\ accounts' = accounts
        /\ deleted' = deleted
    BY <1>4
  <2> QED
    BY <1>1, <2>1, <2>2 DEF DiffFits, At
<1>5. ASSUME Crash PROVE DiffFits'
  <2>1. /\ \A w \in Workers : ~Counts(job[w]) /\ job'[w] = Idle
        /\ meta' = meta /\ logged' = logged /\ log' = log /\ torn' = torn
    BY <1>5, CrashQuiet
  <2>2. accounts' = accounts /\ deleted' = deleted
    BY <1>5 DEF Crash
  <2>3. Lost' = Lost
    BY <2>1, <2>2 DEF Lost
  <2>4. \A w \in Workers : ~Cuts(job[w])
    BY <2>1, CutsAre DEF Types, JobsFit
  <2>5. Below(Lost', meta'.min)
    BY <1>1, <2>1, <2>3, <2>4 DEF DiffFits
  <2>6. \A w \in Workers : ~Counts(job'[w]) /\ job'[w].kind # "diff" /\ job'[w].pc # "read"
    BY <2>1, CountsAre DEF Idle
  <2>7. \A p \in Partitions : ~torn'[p]
    BY <1>1, <2>1 DEF DiffFits
  <2> QED
    BY <2>5, <2>6, <2>7 DEF DiffFits, At
<1>6. ASSUME \E t \in Tables : CreateTable(t) PROVE DiffFits'
  BY <1>4, <1>6 DEF CreateTable, past
<1>7. ASSUME UNCHANGED vars PROVE DiffFits'
  BY <1>4, <1>7 DEF vars, files, past
<1> QED
  BY <1>3, <1>5, <1>6, <1>7 DEF Next

\* A diff that is answered has every change the client may ask for, after its own
\* number and up to the one that it is told, though the numbers are read before the
\* logs and batches are written in between (file.ts:247-277), until something is
\* torn apart.
THEOREM DiffsAreComplete == Spec => []DiffIsCompleteInTurn
<1>1. Init => GoneInv /\ SeqInv /\ DiffInv
  <2> SUFFICES ASSUME Init PROVE GoneInv /\ SeqFits /\ DiffFits
    BY DEF SeqInv, DiffInv
  <2>1. /\ \A p \in Partitions : logged[p] = {} /\ ~torn[p]
        /\ \A w \in Workers : job[w] = Idle
        /\ accounts = Users
    BY DEF Init
  <2>2. SeqFits
    BY <2>1, CountsAre DEF SeqFits, Numbered, LoggedUpTo
  <2>3. Lost = {}
    <3>1. \A p \in {Shared} \cup accounts : logged[p] = {}
      BY <2>1 DEF Partitions
    <3> QED
      BY <3>1 DEF Lost
  <2>4. DiffFits
    BY <2>1, <2>3, CountsAre DEF DiffFits, At, Idle, Below
  <2>5. GoneInv
    BY <2>1 DEF GoneInv, GoneFits, Idle
  <2> QED
    BY <2>2, <2>4, <2>5
<1>2. Types /\ DiffInv => DiffIsCompleteInTurn
  <2> SUFFICES ASSUME Types, DiffFits, NEW w \in Workers, At(w, "answer") PROVE Complete(job[w])
    BY DEF DiffInv, DiffIsCompleteInTurn, DiffIsComplete
  <2> DEFINE j == job[w]
  <2>1. j \in DiffJobs /\ j.pc = "answer" /\ j.kind = "diff"
    BY StepsOfJobs DEF Types, JobsFit, At, DiffJobs
  <2>2. ReadingFits(j, meta.seq, Lost, logged, deleted, accounts)
    BY <2>1 DEF DiffFits
  <2>3. \A p \in {Shared} \cup ({j.actor} \cap accounts) : GotFrom(j, p, logged, deleted)
    BY <2>1, <2>2 DEF ReadingFits
  <2> QED
    BY <2>3 DEF Complete, GotFrom, Told
<1>3. /\ GoneInv /\ SeqInv /\ DiffInv /\ Types /\ Types' /\ [Next]_vars
      => GoneInv' /\ SeqInv' /\ DiffInv'
  BY GoneStep, SeqStep, DiffStep
<1> QED
  BY <1>1, <1>2, <1>3, LocksAreKept, PTL DEF Spec

=============================================================================
