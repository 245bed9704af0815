-------------------------- MODULE TetherSyncProofs --------------------------
(***************************************************************************)
(* What holds of two-way sync for any number of clients, records, writes,  *)
(* connections and page loads: the variables have their types, and no      *)
(* write is ever lost on its way to the server.  And what holds of clients *)
(* that only put: their puts stay shown until the server has them, and     *)
(* over connections that hold all replicas come to agree.                  *)
(*                                                                         *)
(* NothingLost is not inductive.  A client takes a batch out of its outbox *)
(* when some acknowledgement arrives: nothing in the message says for      *)
(* which batch it is.  So the proof follows the batch that a client waits  *)
(* for (OneAnswer): it is at most once on its way, being applied, or       *)
(* acknowledged on the socket the client has now, and once it has been     *)
(* applied the server's records are as recent as its changes.              *)
(***************************************************************************)
EXTENDS TetherSync, FiniteSetTheorems, SequenceTheorems, TLAPS

\* A change as it is told to clients, while `n` is the last sequence number.
Wire(n) == [key : Keys, op : {"none", "put", "delete"}, ts : 0..MaxTs, cid : Nat, seq : 0..n]

\* What is on its way to the server, and to the clients once `n` is the last
\* sequence number; what handlers of the server have in hand.
Requests == [type : {"auth"}, cid : Nat, since : Nat]
            \cup [type : {"batch"}, changes : Seq(ChangeOf)]
Answers(n) == [type : {"authSuccess"}]
              \cup [type : {"ack"}, seq : 0..n]
              \cup [type : {"snapshot", "diff", "broadcast"}, changes : SUBSET Wire(n), seq : 0..n]
Stamped == [key : Keys, op : Ops, ts : 1..MaxTs, cid : Nat]
Works(n) == {Idle}
            \cup [pc : {"sync"}, since : Nat]
            \cup [pc : {"snapshot"}, seq : 0..n]
            \cup [pc : {"diff"}, seq : 0..n, changes : SUBSET Wire(n)]
            \cup [pc : {"apply"}, batch : Seq(Stamped)]
            \cup [pc : {"resolve"}, applied : SUBSET Wire(n), skipped : SUBSET Keys]
            \cup [pc : {"ack", "reconcile", "broadcast"}, seq : 0..n,
                  applied : SUBSET Wire(n), skipped : SUBSET Keys]

ServerTypes ==
  /\ reg \in [Keys -> Record] /\ \A k \in Keys : reg[k].op = "none" => reg[k].ts = 0
  /\ seq \in Nat /\ minSeq \in 0..seq
  /\ log \subseteq Wire(seq) /\ \A e \in log : e.seq \in minSeq..seq /\ e.seq > 0
  /\ session \in [Socks -> Nat] /\ closed \subseteq Socks
  /\ work \in [Socks -> Works(seq)]
  /\ toServer \in [Socks -> Seq(Requests)]

ClientTypes ==
  /\ conn \in [Clients -> Nat] /\ \A c \in Clients : conn[c] <= MaxConns[c]
  /\ cid \in [Clients -> Nat] /\ \A c \in Clients : cid[c] \in RankOf[c]
  /\ link \in [Clients -> {"open", "closed"}]
  /\ status \in [Clients -> {"disconnected", "connecting", "connected"}]
  /\ timer \in [Clients -> BOOLEAN] /\ lastSync \in [Clients -> 0..seq]
  /\ inbox \in [Clients -> Seq(Answers(seq))]
  /\ capture \in [Clients -> {Nothing} \cup [Keys -> Record]]
  /\ draft \in [Clients -> {Nothing} \cup ChangeOf]

TableTypes ==
  /\ made \in [Clients -> Seq(ChangeOf)]
  /\ outbox \in [Clients -> SUBSET Nat] /\ pending \in [Clients -> SUBSET Nat]
  /\ \A c \in Clients : pending[c] \subseteq outbox[c] /\ outbox[c] \subseteq DOMAIN made[c]
  /\ store \in [Clients -> [Keys -> Record]]
  /\ \A c \in Clients, k \in Keys : store[c][k].op # "delete"

\* The socket a client has now.  A socket that was never opened has seen nothing, and
\* a client only waits for an acknowledgement on an open one.
Sock(c) == <<c, conn[c]>>
SocketsInOrder ==
  /\ \A s \in Socks : s[2] > conn[s[1]] => work[s] = Idle /\ toServer[s] = << >>
  /\ \A c \in Clients : link[c] = "open" => Sock(c) \in Socks
  /\ \A c \in Clients : link[c] # "open" => pending[c] = {}

IsBatch(m) == m.type = "batch"
IsAck(m) == m.type = "ack"
InHand(w) == w.pc \in {"apply", "resolve", "ack"}

\* With `mine` the changes of a client and `held` those that await an acknowledgement:
\* a batch has each of them, or the records are as recent as each of them.
Cover(batch, mine, held) ==
  \A n \in held : \E i \in DOMAIN batch : batch[i].key = mine[n].key /\ batch[i].ts = mine[n].ts
Reached(records, mine, held) == \A n \in held : records[mine[n].key].ts >= mine[n].ts

\* What is held is in one place at most, the queue of its socket, the hands of the
\* handler, or the mail back to the client, and what is there fits it.
Fits(records, mine, held, mail, requests, w) ==
  /\ held = {} => /\ ~InHand(w)
                  /\ \A i \in DOMAIN requests : ~IsBatch(requests[i])
                  /\ \A i \in DOMAIN mail : ~IsAck(mail[i])
  /\ \A i \in DOMAIN requests : IsBatch(requests[i]) =>
       /\ Cover(requests[i].changes, mine, held)
       /\ ~InHand(w)
       /\ \A j \in DOMAIN requests : IsBatch(requests[j]) => i = j
       /\ \A j \in DOMAIN mail : ~IsAck(mail[j])
  /\ InHand(w) => \A i \in DOMAIN mail : ~IsAck(mail[i])
  /\ w.pc = "apply" => Cover(w.batch, mine, held)
  /\ w.pc \in {"resolve", "ack"} => Reached(records, mine, held)
  /\ \A i \in DOMAIN mail : IsAck(mail[i]) =>
       /\ Reached(records, mine, held)
       /\ \A j \in DOMAIN mail : IsAck(mail[j]) => i = j

OneAnswer ==
  \A c \in Clients : link[c] = "open" =>
    Fits(reg, made[c], pending[c], inbox[c], toServer[Sock(c)], work[Sock(c)])

SyncInv ==
  ServerTypes /\ ClientTypes /\ TableTypes /\ SocketsInOrder /\ OneAnswer /\ NothingLost

\* What holds besides when clients only put.  No change on its way deletes anything, and
\* where the server has nothing it tells of nothing.
Live(changes) == \A e \in changes : e.op # "delete" /\ (e.op = "none" => e.ts = 0)
News(m) == m.type \in {"snapshot", "diff", "broadcast"}
LiveMail(mail) == \A i \in DOMAIN mail : News(mail[i]) => Live(mail[i].changes)
LiveWork(w) ==
  /\ w.pc = "diff" => Live(w.changes)
  /\ w.pc \in {"resolve", "ack", "reconcile", "broadcast"} => Live(w.applied)

NothingDeleted ==
  /\ \A k \in Keys : reg[k].op # "delete"
  /\ Live(log)
  /\ \A s \in Socks : LiveWork(work[s])
  /\ \A c \in Clients : LiveMail(inbox[c])

\* What a remote batch compares with is what the table has.  A change that is being made is
\* later than those of the outbox for the record, and these show, or what beats them does.
InView(mine, queued, table, seen, change) ==
  /\ seen # Nothing => seen = table
  /\ \A k \in Keys : table[k].op = "none" => table[k].ts = 0
  /\ change # Nothing =>
       \A n \in queued : mine[n].key = change.key => mine[n].ts < change.ts
  /\ \A n \in queued : mine[n].op = "put" => ShouldOverwrite(table[mine[n].key], mine[n])

TableInView ==
  \A c \in Clients : InView(made[c], outbox[c], store[c], capture[c], draft[c])

PutsInv == SyncInv /\ NothingDeleted /\ TableInView

-----------------------------------------------------------------------------
(* Sockets, ids in order and last-write-wins                               *)

\* A socket is a client and the number of one of its connections.
LEMMA SocksArePairs ==
  /\ \A s \in Socks : s = <<s[1], s[2]>> /\ s[1] \in Clients /\ s[2] \in 1..MaxConns[s[1]]
  /\ \A c \in Clients, n \in Nat : n >= 1 /\ n <= MaxConns[c] => <<c, n>> \in Socks
<1>1. \A c \in Clients : MaxConns[c] \in Nat
  BY SyncAssumption
<1> QED
  BY <1>1 DEF Socks

\* What was fit to be in hand or on its way is so when the sequence number has grown.
LEMMA TypesGrow ==
  ASSUME NEW m \in Nat, NEW n \in Nat, m <= n
  PROVE  Wire(m) \subseteq Wire(n) /\ Works(m) \subseteq Works(n) /\ Answers(m) \subseteq Answers(n)
<1>1. 0..m \subseteq 0..n
  OBVIOUS
<1>2. Wire(m) \subseteq Wire(n)
  BY <1>1 DEF Wire
<1>3. SUBSET Wire(m) \subseteq SUBSET Wire(n)
  BY <1>2
<1> QED
  BY <1>1, <1>2, <1>3 DEF Works, Answers

\* A set of natural numbers has a least member, or is empty.
LEMMA HasFirst ==
  ASSUME NEW S \in SUBSET Nat, S # {}
  PROVE  \E n \in S : \A m \in S : n <= m
<1>1. PICK n \in S : \A m \in S : ~(<<m, n>> \in OpToRel(<, Nat))
  BY NatLessThanWellFounded, WFMin, Zenon
<1>2. \A m \in S : ~(m < n)
  <2> SUFFICES ASSUME NEW m \in S, m < n PROVE <<m, n>> \in OpToRel(<, Nat)
    BY <1>1, Zenon
  <2>1. <<m, n>> \in Nat \X Nat
    OBVIOUS
  <2>2. <<m, n>>[1] < <<m, n>>[2]
    OBVIOUS
  <2> QED
    BY <2>1, <2>2, Zenon DEF OpToRel
<1> QED
  BY <1>2

\* The oldest of some ids are some of them.
LEMMA OldestAreSome ==
  ASSUME NEW ids \in SUBSET Nat, ids # {}
  PROVE  Oldest(ids) \subseteq ids /\ Oldest(ids) # {}
<1>1. PICK n \in ids : \A m \in ids : n <= m
  BY HasFirst
<1>2. {m \in ids : m < n} = {}
  <2>1. \A m \in ids : ~(m < n)
    BY <1>1
  <2> QED
    BY <2>1, Zenon
<1>3. Cardinality({m \in ids : m < n}) < PushLimit
  BY <1>2, FS_EmptySet, SyncAssumption
<1> QED
  BY <1>3 DEF Oldest

\* InOrder counts the ids through, and so has the change of each, and no others.
LEMMA InOrderHasAll ==
  ASSUME NEW c \in Clients, made[c] \in Seq(ChangeOf), NEW ids \in SUBSET DOMAIN made[c]
  PROVE  /\ InOrder(c, ids) \in Seq(ChangeOf)
         /\ \A n \in ids : \E i \in DOMAIN InOrder(c, ids) : InOrder(c, ids)[i] = made[c][n]
         /\ \A i \in DOMAIN InOrder(c, ids) : \E n \in ids : InOrder(c, ids)[i] = made[c][n]
<1> DEFINE upTo(n) == {m \in ids : m <= n}
           rank == [n \in ids |-> Cardinality(upTo(n))]
           size == Cardinality(ids)
<1>1. ids \subseteq 1..Len(made[c]) /\ Len(made[c]) \in Nat
  BY LenProperties
<1>2. IsFiniteSet(ids)
  BY <1>1, FS_Interval, FS_Subset
<1>3. size \in Nat
  BY <1>2, FS_CardinalityType
<1>4. \A n \in ids : IsFiniteSet(upTo(n)) /\ Cardinality(upTo(n)) \in 1..size
  <2> SUFFICES ASSUME NEW n \in ids PROVE IsFiniteSet(upTo(n)) /\ Cardinality(upTo(n)) \in 1..size
    OBVIOUS
  <2>1. upTo(n) \in SUBSET ids /\ n \in upTo(n)
    BY <1>1
  <2>2. IsFiniteSet(upTo(n)) /\ Cardinality(upTo(n)) <= size
    BY <1>2, <2>1, FS_Subset
  <2>3. Cardinality(upTo(n)) \in Nat /\ Cardinality(upTo(n)) # 0
    BY <2>1, <2>2, FS_CardinalityType, FS_EmptySet
  <2> QED
    BY <1>3, <2>2, <2>3
<1>5. \A n, m \in ids : rank[n] = rank[m] => n = m
  <2>1. ASSUME NEW n \in ids, NEW m \in ids, n < m PROVE rank[n] # rank[m]
    <3>1. upTo(n) \in SUBSET upTo(m) /\ m \in upTo(m) /\ m \notin upTo(n)
      BY <1>1, <2>1
    <3>2. Cardinality(upTo(m)) # Cardinality(upTo(n))
      BY <1>4, <3>1, FS_Subset
    <3> QED
      BY <3>2
  <2>2. \A n, m \in ids : n = m \/ n < m \/ m < n
    BY <1>1
  <2> HIDE DEF rank
  <2> QED
    BY <2>1, <2>2
<1>6. rank \in Injection(ids, 1..size)
  BY <1>4, <1>5 DEF Injection, IsInjective
<1>7. IsFiniteSet(1..size) /\ Cardinality(1..size) = size
  BY <1>3, FS_Interval
<1>8. rank \in Surjection(ids, 1..size)
  BY <1>6, <1>7, FS_Injection
<1>9. \A i \in 1..size : \E n \in ids : Cardinality(upTo(n)) = i
  BY <1>8 DEF Surjection
<1> DEFINE at(i) == CHOOSE n \in ids : Cardinality(upTo(n)) = i
<1>10. \A i \in 1..size : at(i) \in ids
  BY <1>9
<1>11. \A n \in ids : at(rank[n]) = n
  BY <1>5
<1>12. \A i \in 1..size : made[c][at(i)] \in ChangeOf
  BY <1>1, <1>10, ElementOfSeq
<1>13. InOrder(c, ids) = [i \in 1..size |-> made[c][at(i)]]
  BY DEF InOrder
<1> HIDE DEF at, rank, size
<1>14. InOrder(c, ids) \in Seq(ChangeOf)
  BY <1>3, <1>12, <1>13, IsASeq
<1>15. \A n \in ids : rank[n] \in 1..size
  BY <1>4 DEF rank
<1>16. \A n \in ids : InOrder(c, ids)[rank[n]] = made[c][n] /\ rank[n] \in DOMAIN InOrder(c, ids)
  BY <1>11, <1>13, <1>15
<1>17. \A i \in DOMAIN InOrder(c, ids) : at(i) \in ids /\ InOrder(c, ids)[i] = made[c][at(i)]
  BY <1>10, <1>13
<1> QED
  BY <1>14, <1>16, <1>17

\* Records as the server has them: where there is none, nothing was ever written.
IsRegister(records) ==
  records \in [Keys -> Record] /\ \A k \in Keys : records[k].op = "none" => records[k].ts = 0

\* What wins is no older, and what loses is no newer.
LEMMA WinnerIsNoOlder ==
  ASSUME NEW x, NEW y, x.ts \in Nat, y.ts \in Nat, y.op = "none" => y.ts = 0
  PROVE  IF ShouldOverwrite(x, y) THEN x.ts >= y.ts ELSE y.ts >= x.ts
BY DEF ShouldOverwrite

\* The record that a change leaves.
LEMMA StampedLeavesRecord ==
  ASSUME NEW x \in Stamped
  PROVE  /\ RecordOf(x) \in Record /\ RecordOf(x).op = x.op /\ RecordOf(x).ts = x.ts
         /\ x.key \in Keys /\ x.ts \in Nat /\ x.op # "none"
<1>1. MaxTs \in Nat /\ Ops \subseteq {"put", "delete"}
  BY SyncAssumption
<1>2. x.key \in Keys /\ x.op \in Ops /\ x.ts \in 1..MaxTs /\ x.cid \in Nat
  BY DEF Stamped
<1>3. x.ts \in Nat /\ x.ts \in 0..MaxTs
  BY <1>1, <1>2
<1>4. x.op \in {"put", "delete"}
  BY <1>1, <1>2, Zenon
<1>5. RecordOf(x) \in Record
  BY <1>2, <1>3, <1>4 DEF RecordOf, Record
<1> QED
  BY <1>2, <1>3, <1>4, <1>5 DEF RecordOf

\* The last of the changes that were applied to a record.
LEMMA LastApplied ==
  ASSUME NEW records, NEW batch \in Seq(Stamped), NEW k, AppliedTo(records, batch, k) # {}
  PROVE  \E i \in AppliedTo(records, batch, k) :
           /\ \A j \in AppliedTo(records, batch, k) : j <= i
           /\ (CHOOSE m \in AppliedTo(records, batch, k) :
                 \A j \in AppliedTo(records, batch, k) : j <= m) = i
<1> DEFINE hits == AppliedTo(records, batch, k)
           back == {Len(batch) - i : i \in hits}
<1>1. hits \subseteq 1..Len(batch) /\ Len(batch) \in Nat
  BY LenProperties DEF AppliedTo, AppliedAt
<1> HIDE DEF hits
<1>2. back \in SUBSET Nat /\ back # {}
  BY <1>1 DEF hits
<1>3. PICK b \in back : \A m \in back : b <= m
  BY <1>2, HasFirst
<1>4. PICK i \in hits : b = Len(batch) - i
  BY <1>3
<1>5. \A j \in hits : Len(batch) - i <= Len(batch) - j
  BY <1>3, <1>4
<1>6. \A j \in hits : j <= i
  BY <1>1, <1>5
<1>7. \A m \in hits : (\A j \in hits : j <= m) => m = i
  BY <1>1, <1>6
<1> QED
  BY <1>6, <1>7 DEF hits

\* A batch leaves each record as recent as it was, and as its own changes are.
LEMMA MergeGrows ==
  ASSUME NEW records, IsRegister(records), NEW batch \in Seq(Stamped)
  PROVE  /\ IsRegister(Merge(records, batch))
         /\ \A k \in Keys : Merge(records, batch)[k].ts >= records[k].ts
         /\ \A i \in DOMAIN batch : Merge(records, batch)[batch[i].key].ts >= batch[i].ts
<1> DEFINE after == Merge(records, batch)
<1>1. /\ DOMAIN batch = 1..Len(batch) /\ Len(batch) \in Nat
      /\ \A i \in DOMAIN batch : batch[i] \in Stamped
  BY LenProperties, ElementOfSeq
<1>2. MaxTs \in Nat /\ DOMAIN records = Keys /\ Ops \subseteq {"put", "delete"}
  BY SyncAssumption DEF IsRegister
<1>3. ASSUME NEW k \in Keys
      PROVE  /\ AppliedTo(records, batch, k) = {} => after[k] = records[k]
             /\ AppliedTo(records, batch, k) # {} =>
                  \E i \in AppliedTo(records, batch, k) :
                    /\ \A j \in AppliedTo(records, batch, k) : j <= i
                    /\ after[k] = RecordOf(batch[i])
  BY <1>2, <1>3, LastApplied DEF Merge
<1>4. ASSUME NEW k \in Keys, NEW i \in AppliedTo(records, batch, k)
      PROVE  /\ i \in DOMAIN batch /\ batch[i].key = k /\ RecordOf(batch[i]) \in Record
             /\ RecordOf(batch[i]).op # "none" /\ batch[i].ts >= records[k].ts
             /\ RecordOf(batch[i]).ts = batch[i].ts
             /\ \A j \in 1..(i-1) : batch[j].key = k => batch[i].ts >= batch[j].ts
  <2>1. i \in DOMAIN batch /\ batch[i].key = k /\ ShouldOverwrite(batch[i], records[k])
        /\ \A j \in 1..(i-1) : batch[j].key = k => ShouldOverwrite(batch[i], batch[j])
    BY <1>4 DEF AppliedTo, AppliedAt
  <2>2. batch[i] \in Stamped /\ \A j \in 1..(i-1) : batch[j] \in Stamped
    BY <1>1, <2>1
  <2>3. records[k].ts \in Nat /\ (records[k].op = "none" => records[k].ts = 0)
    BY <1>2 DEF IsRegister, Record
  <2>4. RecordOf(batch[i]) \in Record /\ RecordOf(batch[i]).op # "none"
        /\ RecordOf(batch[i]).ts = batch[i].ts
    BY <2>2, StampedLeavesRecord
  <2>5. batch[i].ts >= records[k].ts
    BY <2>1, <2>2, <2>3, StampedLeavesRecord, WinnerIsNoOlder
  <2>6. \A j \in 1..(i-1) : batch[j].key = k => batch[i].ts >= batch[j].ts
    BY <2>1, <2>2, StampedLeavesRecord, WinnerIsNoOlder
  <2> QED
    BY <2>1, <2>4, <2>5, <2>6
<1>5. IsRegister(after)
  <2>1. DOMAIN after = Keys /\ after = [k \in Keys |-> after[k]]
    BY <1>2 DEF Merge
  <2>2. ASSUME NEW k \in Keys
        PROVE  after[k] \in Record /\ (after[k].op = "none" => after[k].ts = 0)
    BY <1>3, <1>4 DEF IsRegister
  <2> HIDE DEF after
  <2> QED
    BY <2>1, <2>2 DEF IsRegister
<1>6. \A k \in Keys : after[k].ts >= records[k].ts
  <2> SUFFICES ASSUME NEW k \in Keys PROVE after[k].ts >= records[k].ts
    OBVIOUS
  <2>1. CASE AppliedTo(records, batch, k) = {}
    BY <1>2, <1>3, <2>1 DEF IsRegister, Record
  <2>2. CASE AppliedTo(records, batch, k) # {}
    BY <1>3, <1>4, <2>2
  <2> QED
    BY <2>1, <2>2
<1>7. ASSUME NEW i \in DOMAIN batch PROVE after[batch[i].key].ts >= batch[i].ts
  <2> DEFINE k == batch[i].key
             above == {j \in DOMAIN batch : batch[j].key = k /\ batch[j].ts >= batch[i].ts}
  <2>1. k \in Keys /\ batch[i].ts \in Nat /\ \A j \in DOMAIN batch : batch[j].ts \in Nat
    BY <1>1, <1>2 DEF Stamped
  <2>2. above \in SUBSET Nat /\ i \in above
    BY <1>1, <2>1
  <2>3. PICK j \in above : \A m \in above : j <= m
    BY <2>2, HasFirst
  <2>4. j \in DOMAIN batch /\ batch[j].key = k /\ batch[j].ts >= batch[i].ts
    BY <2>3
  <2>5. \A m \in 1..(j-1) : batch[m].key = k => ShouldOverwrite(batch[j], batch[m])
    <3> SUFFICES ASSUME NEW m \in 1..(j-1), batch[m].key = k
                 PROVE  batch[j].ts > batch[m].ts
      BY DEF ShouldOverwrite
    <3>1. m \in DOMAIN batch /\ m < j
      BY <1>1, <2>4
    <3>2. m \notin above
      BY <1>1, <2>3, <2>4, <3>1
    <3> QED
      BY <2>1, <2>4, <3>1, <3>2
  <2>6. CASE ShouldOverwrite(batch[j], records[k])
    <3>1. j \in AppliedTo(records, batch, k)
      BY <2>4, <2>5, <2>6 DEF AppliedTo, AppliedAt
    <3>2. PICK n \in AppliedTo(records, batch, k) :
            j <= n /\ after[k] = RecordOf(batch[n])
      BY <1>3, <2>1, <3>1
    <3>3. n = j \/ j \in 1..(n-1)
      BY <1>1, <1>4, <2>1, <2>4, <3>2
    <3>4. batch[n].ts >= batch[j].ts /\ after[k].ts = batch[n].ts /\ n \in DOMAIN batch
      BY <1>4, <2>1, <2>4, <3>2, <3>3
    <3> QED
      BY <2>1, <2>4, <3>4
  <2>7. CASE ~ShouldOverwrite(batch[j], records[k])
    <3>1. records[k].ts \in Nat /\ (records[k].op = "none" => records[k].ts = 0)
      BY <1>2, <2>1 DEF IsRegister, Record
    <3>2. records[k].ts >= batch[j].ts
      BY <2>1, <2>4, <2>7, <3>1, WinnerIsNoOlder
    <3>3. after[k].ts >= records[k].ts /\ after[k].ts \in Nat
      BY <1>2, <1>5, <1>6, <2>1 DEF IsRegister, Record
    <3> HIDE DEF after
    <3> QED
      BY <2>1, <2>4, <3>1, <3>2, <3>3
  <2> QED
    BY <2>6, <2>7
<1> QED
  BY <1>5, <1>6, <1>7

-----------------------------------------------------------------------------
(* What becomes of a batch that awaits its acknowledgement                 *)

\* It still fits when more changes are made and records get more recent.
LEMMA FitsGrows ==
  ASSUME NEW records, IsRegister(records), NEW after, IsRegister(after),
         \A k \in Keys : after[k].ts >= records[k].ts,
         NEW mine \in Seq(ChangeOf), NEW more \in Seq(ChangeOf), NEW held \in SUBSET DOMAIN mine,
         \A n \in held : more[n] = mine[n],
         NEW mail, NEW requests, NEW w, Fits(records, mine, held, mail, requests, w)
  PROVE  Fits(after, more, held, mail, requests, w)
<1>1. \A n \in held : mine[n].key \in Keys /\ mine[n].ts \in Nat
  <2> SUFFICES ASSUME NEW n \in held PROVE mine[n].key \in Keys /\ mine[n].ts \in Nat
    OBVIOUS
  <2>1. mine[n] \in ChangeOf
    BY LenProperties, ElementOfSeq
  <2> QED
    BY <2>1, SyncAssumption DEF ChangeOf
<1>2. \A k \in Keys : records[k].ts \in Nat /\ after[k].ts \in Nat
  BY SyncAssumption DEF IsRegister, Record
<1>3. Reached(records, mine, held) => Reached(after, more, held)
  BY <1>1, <1>2 DEF Reached
<1>4. \A batch : Cover(batch, mine, held) => Cover(batch, more, held)
  BY DEF Cover
<1> QED
  BY <1>3, <1>4 DEF Fits

\* A request that is no batch is added, or none, and a handler that is not at work for
\* a batch goes on.
LEMMA FitsOtherWork ==
  ASSUME NEW records, NEW mine, NEW held, NEW mail, NEW requests, NEW w, NEW v,
         Fits(records, mine, held, mail, requests, w), ~InHand(w), ~InHand(v)
  PROVE  Fits(records, mine, held, mail, requests, v)
BY DEF Fits, InHand

\* Requests are handled or lost.
LEMMA FitsFewerRequests ==
  ASSUME NEW records, NEW mine, NEW held, NEW mail, NEW requests \in Seq(Requests), NEW w,
         Fits(records, mine, held, mail, requests, w)
  PROVE  requests # << >> => Fits(records, mine, held, mail, Tail(requests), w)
<1> SUFFICES ASSUME requests # << >> PROVE Fits(records, mine, held, mail, Tail(requests), w)
  OBVIOUS
<1>1. /\ DOMAIN Tail(requests) = 1..(Len(requests) - 1) /\ Len(requests) \in Nat
      /\ DOMAIN requests = 1..Len(requests)
      /\ \A i \in 1..(Len(requests) - 1) : Tail(requests)[i] = requests[i+1]
  BY HeadTailProperties, LenProperties
<1>2. \A i \in DOMAIN Tail(requests) :
        i+1 \in DOMAIN requests /\ Tail(requests)[i] = requests[i+1]
  BY <1>1
<1>3. \A i, j \in DOMAIN Tail(requests) : i+1 = j+1 => i = j
  BY <1>1
<1> QED
  BY <1>2, <1>3 DEF Fits

\* So is mail.
LEMMA FitsLessMail ==
  ASSUME NEW records, NEW mine, NEW held, NEW n, NEW mail \in Seq(Answers(n)), NEW requests,
         NEW w, Fits(records, mine, held, mail, requests, w), mail # << >>
  PROVE  /\ Fits(records, mine, held, Tail(mail), requests, w)
         /\ IsAck(Head(mail)) => /\ Reached(records, mine, held)
                                 /\ Fits(records, mine, {}, Tail(mail), requests, w)
<1>1. /\ DOMAIN Tail(mail) = 1..(Len(mail) - 1) /\ Len(mail) \in Nat
      /\ DOMAIN mail = 1..Len(mail) /\ Len(mail) # 0
      /\ \A i \in 1..(Len(mail) - 1) : Tail(mail)[i] = mail[i+1]
  BY HeadTailProperties, LenProperties, EmptySeq
<1>2. \A i \in DOMAIN Tail(mail) :
        i+1 \in DOMAIN mail /\ i+1 # 1 /\ Tail(mail)[i] = mail[i+1]
  BY <1>1
<1>3. \A i, j \in DOMAIN Tail(mail) : i+1 = j+1 => i = j
  BY <1>1
<1>4. Fits(records, mine, held, Tail(mail), requests, w)
  BY <1>2, <1>3 DEF Fits
<1>5. 1 \in DOMAIN mail /\ Head(mail) = mail[1]
  BY <1>1
<1>6. ASSUME IsAck(Head(mail))
      PROVE  /\ Reached(records, mine, held) /\ ~InHand(w)
             /\ \A i \in DOMAIN Tail(mail) : ~IsAck(Tail(mail)[i])
             /\ \A i \in DOMAIN requests : ~IsBatch(requests[i])
  BY <1>2, <1>5, <1>6 DEF Fits
<1>7. \A batch : Cover(batch, mine, {}) /\ Reached(records, mine, {})
  BY DEF Cover, Reached
<1>8. IsAck(Head(mail)) => Fits(records, mine, {}, Tail(mail), requests, w)
  BY <1>6, <1>7 DEF Fits, InHand
<1> QED
  BY <1>4, <1>6, <1>8

\* Mail that acknowledges nothing may be sent by others while a handler is at work.
LEMMA FitsNewsMail ==
  ASSUME NEW records, NEW mine, NEW held, NEW n, NEW mail \in Seq(Answers(n)), NEW requests,
         NEW w, NEW more \in Seq(Answers(n)),
         Fits(records, mine, held, mail, requests, w), \A i \in DOMAIN more : ~IsAck(more[i])
  PROVE  Fits(records, mine, held, mail \o more, requests, w)
<1> DEFINE all == mail \o more
<1>1. /\ DOMAIN all = 1..(Len(mail) + Len(more)) /\ Len(mail) \in Nat /\ Len(more) \in Nat
      /\ DOMAIN mail = 1..Len(mail) /\ DOMAIN more = 1..Len(more)
      /\ \A i \in DOMAIN all : all[i] = IF i <= Len(mail) THEN mail[i] ELSE more[i - Len(mail)]
  BY ConcatProperties, LenProperties
<1> HIDE DEF all
<1>2. \A i \in DOMAIN all : IsAck(all[i]) => i \in DOMAIN mail /\ all[i] = mail[i]
  BY <1>1
<1> QED
  BY <1>2 DEF Fits, all

\* Mail that acknowledges nothing is sent, or the acknowledgement when a handler has
\* applied the batch.
LEMMA FitsMoreMail ==
  ASSUME NEW records, NEW mine, NEW held, NEW n, NEW mail \in Seq(Answers(n)), NEW requests,
         NEW w, NEW v, NEW more \in Seq(Answers(n)),
         Fits(records, mine, held, mail, requests, w), ~InHand(v),
         \/ ~InHand(w) /\ \A i \in DOMAIN more : ~IsAck(more[i])
         \/ w.pc = "ack" /\ Len(more) = 1
  PROVE  Fits(records, mine, held, mail \o more, requests, v)
<1> DEFINE all == mail \o more
<1>1. /\ DOMAIN all = 1..(Len(mail) + Len(more)) /\ Len(mail) \in Nat /\ Len(more) \in Nat
      /\ DOMAIN mail = 1..Len(mail) /\ DOMAIN more = 1..Len(more)
      /\ \A i \in DOMAIN all : all[i] = IF i <= Len(mail) THEN mail[i] ELSE more[i - Len(mail)]
  BY ConcatProperties, LenProperties
<1> HIDE DEF all
<1>2. CASE ~InHand(w) /\ \A i \in DOMAIN more : ~IsAck(more[i])
  BY <1>2, FitsNewsMail, FitsOtherWork
<1>3. CASE w.pc = "ack" /\ Len(more) = 1
  <2>1. InHand(w) /\ Reached(records, mine, held) /\ held # {}
        /\ (\A i \in DOMAIN mail : ~IsAck(mail[i]))
        /\ (\A i \in DOMAIN requests : ~IsBatch(requests[i]))
    BY <1>3 DEF Fits, InHand
  <2>2. \A i \in DOMAIN all : IsAck(all[i]) => i = Len(mail) + 1
    BY <1>1, <1>3, <2>1
  <2> QED
    BY <2>1, <2>2 DEF Fits, all, InHand
<1> QED
  BY <1>2, <1>3

\* The server takes a batch from the queue.
LEMMA FitsTakenBatch ==
  ASSUME NEW records, NEW mine, NEW held, NEW mail, NEW requests \in Seq(Requests), NEW w,
         Fits(records, mine, held, mail, requests, w), requests # << >>,
         IsBatch(Head(requests)), NEW batch, DOMAIN batch = DOMAIN Head(requests).changes,
         \A i \in DOMAIN batch : /\ batch[i].key = Head(requests).changes[i].key
                                 /\ batch[i].ts = Head(requests).changes[i].ts
  PROVE  Fits(records, mine, held, mail, Tail(requests), [pc |-> "apply", batch |-> batch])
<1> DEFINE v == [pc |-> "apply", batch |-> batch]
<1>1. /\ DOMAIN Tail(requests) = 1..(Len(requests) - 1) /\ Len(requests) \in Nat
      /\ DOMAIN requests = 1..Len(requests) /\ Len(requests) # 0
      /\ \A i \in 1..(Len(requests) - 1) : Tail(requests)[i] = requests[i+1]
  BY HeadTailProperties, LenProperties, EmptySeq
<1>2. 1 \in DOMAIN requests /\ Head(requests) = requests[1]
  BY <1>1
<1>3. \A i \in DOMAIN Tail(requests) :
        i+1 \in DOMAIN requests /\ i+1 # 1 /\ Tail(requests)[i] = requests[i+1]
  BY <1>1
<1>4. /\ Cover(Head(requests).changes, mine, held) /\ held # {}
      /\ \A i \in DOMAIN mail : ~IsAck(mail[i])
      /\ \A i \in DOMAIN requests : IsBatch(requests[i]) => i = 1
  BY <1>2 DEF Fits
<1>5. \A i \in DOMAIN Tail(requests) : ~IsBatch(Tail(requests)[i])
  BY <1>3, <1>4
<1>6. Cover(batch, mine, held)
  BY <1>4 DEF Cover
<1>7. v.pc = "apply" /\ v.batch = batch /\ InHand(v)
  BY DEF InHand
<1> HIDE DEF v
<1> QED
  BY <1>4, <1>5, <1>6, <1>7 DEF Fits, v

\* A batch is pushed when none awaits its acknowledgement.
LEMMA FitsPushed ==
  ASSUME NEW records, NEW mine, NEW mail, NEW requests \in Seq(Requests), NEW w,
         Fits(records, mine, {}, mail, requests, w),
         NEW held, held # {}, NEW msg \in Requests, Cover(msg.changes, mine, held)
  PROVE  Fits(records, mine, held, mail, Append(requests, msg), w)
<1> DEFINE all == Append(requests, msg)
<1>1. /\ DOMAIN all = 1..(Len(requests) + 1) /\ Len(requests) \in Nat
      /\ DOMAIN requests = 1..Len(requests)
      /\ \A i \in DOMAIN requests : all[i] = requests[i]
      /\ all[Len(requests) + 1] = msg
  BY AppendProperties, LenProperties
<1>2. /\ ~InHand(w) /\ \A i \in DOMAIN requests : ~IsBatch(requests[i])
      /\ \A i \in DOMAIN mail : ~IsAck(mail[i])
  BY DEF Fits
<1> HIDE DEF all
<1>3. \A i \in DOMAIN all : IsBatch(all[i]) => i = Len(requests) + 1
  BY <1>1, <1>2
<1> QED
  BY <1>1, <1>2, <1>3 DEF Fits, InHand, all

-----------------------------------------------------------------------------
(* The server's handlers keep the invariant                                *)

LEMMA InitSync == Init => SyncInv
<1> SUFFICES ASSUME Init PROVE SyncInv
  OBVIOUS
<1> USE DEF Init
<1>1. ServerTypes
  BY SyncAssumption DEF ServerTypes, Record, NoRecord, Works
<1>2. ClientTypes
  BY SyncAssumption DEF ClientTypes
<1>3. TableTypes
  BY SyncAssumption DEF TableTypes, Record, NoRecord
<1>4. SocketsInOrder /\ OneAnswer /\ NothingLost
  BY DEF SocketsInOrder, OneAnswer, NothingLost, Sock
<1> QED
  BY <1>1, <1>2, <1>3, <1>4 DEF SyncInv

\* What a client has is of its types still when only the mail to it has grown.
LEMMA MailKeepsTypes ==
  ASSUME ClientTypes, TableTypes, UNCHANGED clientVars, UNCHANGED seq,
         inbox' \in [Clients -> Seq(Answers(seq))]
  PROVE  ClientTypes' /\ TableTypes'
BY DEF ClientTypes, TableTypes, clientVars, localVars

\* Sends do not touch the server's records.  Only the handler that has applied a batch
\* acknowledges something, to its own socket.
LEMMA SendKeepsSync ==
  ASSUME SyncInv, NEW s \in Socks, work[s] # Idle,
         NEW w \in Works(seq), work' = [work EXCEPT ![s] = w], ~InHand(w),
         NEW msgs \in [Socks -> Seq(Answers(seq))], SendAll(msgs),
         \A t \in Socks \ {s} : \A i \in DOMAIN msgs[t] : ~IsAck(msgs[t][i]),
         \/ ~InHand(work[s]) /\ \A i \in DOMAIN msgs[s] : ~IsAck(msgs[s][i])
         \/ work[s].pc = "ack" /\ Len(msgs[s]) = 1,
         UNCHANGED <<reg, log, minSeq, seq, prunes, session, closed, toServer, clientVars>>
  PROVE  SyncInv'
<1> USE DEF SyncInv
<1>1. /\ UNCHANGED <<reg, log, minSeq, seq, session, closed, toServer>>
      /\ UNCHANGED <<cid, conn, link, status, capture, lastSync, pending, timer, store,
                     made, outbox, draft>>
  BY DEF clientVars, localVars
<1>2. ASSUME NEW c \in Clients
      PROVE  /\ inbox'[c] \in Seq(Answers(seq))
             /\ IF link[c] = "open" THEN inbox'[c] = inbox[c] \o msgs[Sock(c)]
                ELSE inbox'[c] = inbox[c]
  <2>1. link[c] = "open" => Sock(c) \in Socks
    BY DEF SocketsInOrder
  <2>2. IsOpen(Sock(c)) <=> link[c] = "open"
    BY DEF IsOpen, Sock
  <2>3. inbox'[c] = IF link[c] = "open" THEN inbox[c] \o msgs[Sock(c)] ELSE inbox[c]
    BY <2>2 DEF SendAll, Sock
  <2>4. inbox[c] \in Seq(Answers(seq))
    BY DEF ClientTypes
  <2>5. link[c] = "open" => msgs[Sock(c)] \in Seq(Answers(seq))
    BY <2>1
  <2> QED
    BY <2>3, <2>4, <2>5, ConcatProperties
<1>3. inbox' \in [Clients -> Seq(Answers(seq))]
  BY <1>2 DEF SendAll
<1>4. ServerTypes'
  BY <1>1 DEF ServerTypes
<1>5. ClientTypes' /\ TableTypes'
  BY <1>1, <1>3, MailKeepsTypes
<1>6. SocketsInOrder'
  BY <1>1 DEF SocketsInOrder, Sock, ServerTypes
<1>7. OneAnswer'
  <2> SUFFICES ASSUME NEW c \in Clients, link[c] = "open"
               PROVE  Fits(reg, made[c], pending[c], inbox'[c], toServer[Sock(c)],
                           work'[Sock(c)])
    BY <1>1 DEF OneAnswer, Sock
  <2>1. Fits(reg, made[c], pending[c], inbox[c], toServer[Sock(c)], work[Sock(c)])
    BY DEF OneAnswer
  <2>2. Sock(c) \in Socks /\ inbox[c] \in Seq(Answers(seq)) /\ inbox'[c] = inbox[c] \o msgs[Sock(c)]
        /\ msgs[Sock(c)] \in Seq(Answers(seq))
    BY <1>2 DEF SocketsInOrder, ClientTypes
  <2>3. CASE Sock(c) = s
    <3>1. work'[Sock(c)] = w
      BY <2>3 DEF ServerTypes
    <3> QED
      BY <2>1, <2>2, <2>3, <3>1, FitsMoreMail
  <2>4. CASE Sock(c) # s
    <3>1. work'[Sock(c)] = work[Sock(c)] /\ \A i \in DOMAIN msgs[Sock(c)] : ~IsAck(msgs[Sock(c)][i])
      BY <2>2, <2>4 DEF ServerTypes
    <3> QED
      BY <2>1, <2>2, <3>1, FitsNewsMail
  <2> QED
    BY <2>3, <2>4
<1>8. NothingLost'
  BY <1>1 DEF NothingLost
<1> QED
  BY <1>3, <1>4, <1>5, <1>6, <1>7, <1>8

\* One message is sent to the handler's own socket.
LEMMA SendOneKeepsSync ==
  ASSUME SyncInv, NEW s \in Socks, work[s] # Idle,
         NEW w \in Works(seq), work' = [work EXCEPT ![s] = w], ~InHand(w),
         NEW m \in Answers(seq), Send(s, <<m>>),
         (~InHand(work[s]) /\ ~IsAck(m)) \/ work[s].pc = "ack",
         UNCHANGED <<reg, log, minSeq, seq, prunes, session, closed, toServer, clientVars>>
  PROVE  SyncInv'
<1> DEFINE msgs == [t \in Socks |-> IF t = s THEN <<m>> ELSE << >>]
<1>1. /\ msgs \in [Socks -> Seq(Answers(seq))] /\ msgs[s] = <<m>>
      /\ \A t \in Socks \ {s} : msgs[t] = << >>
  OBVIOUS
<1>2. SendAll(msgs)
  BY DEF Send
<1>3. Len(msgs[s]) = 1 /\ \A i \in DOMAIN msgs[s] : msgs[s][i] = m
  BY <1>1
<1>4. \A t \in Socks \ {s} : \A i \in DOMAIN msgs[t] : ~IsAck(msgs[t][i])
  BY <1>1
<1> HIDE DEF msgs
<1> QED
  BY <1>1, <1>2, <1>3, <1>4, SendKeepsSync

\* A record of the server as it is told to clients.
LEMMA ToldIsWire ==
  ASSUME ServerTypes, NEW k \in Keys, NEW n \in 0..seq
  PROVE  Told(k, n) \in Wire(seq)
<1>1. reg[k] \in Record
  BY DEF ServerTypes
<1>2. reg[k].op \in {"none", "put", "delete"} /\ reg[k].ts \in 0..MaxTs /\ reg[k].cid \in Nat
  BY <1>1 DEF Record
<1> QED
  BY <1>2 DEF Told, Wire

\* What a handler has in hand, at each step of it.
LEMMA WorkIs ==
  ASSUME ServerTypes, NEW s \in Socks
  PROVE  /\ work[s] \in Works(seq)
         /\ work[s].pc = "sync" => work[s].since \in Nat
         /\ work[s].pc = "snapshot" => work[s].seq \in 0..seq
         /\ work[s].pc = "diff" => work[s].seq \in 0..seq /\ work[s].changes \in SUBSET Wire(seq)
         /\ work[s].pc = "apply" => work[s].batch \in Seq(Stamped)
         /\ work[s].pc \in {"resolve", "ack", "reconcile", "broadcast"} =>
              work[s].applied \in SUBSET Wire(seq) /\ work[s].skipped \in SUBSET Keys
         /\ work[s].pc \in {"ack", "reconcile", "broadcast"} => work[s].seq \in 0..seq
         /\ work[s].pc # "idle" => work[s] # Idle
<1>1. work[s] \in Works(seq)
  BY DEF ServerTypes
<1> QED
  BY <1>1 DEF Works, Idle

\* What a batch's handler does next is not to acknowledge it again.
LEMMA AfterIsWork ==
  ASSUME ServerTypes, NEW s \in Socks, work[s].pc \in {"ack", "reconcile"}
  PROVE  After(work[s]) \in Works(seq) /\ ~InHand(After(work[s]))
<1>1. PICK w \in Works(seq) : w = work[s]
  BY WorkIs
<1>2. w \in [pc : {"ack", "reconcile", "broadcast"}, seq : 0..seq,
             applied : SUBSET Wire(seq), skipped : SUBSET Keys]
  BY <1>1 DEF Works, Idle
<1> DEFINE r == [w EXCEPT !.pc = "reconcile"]
           b == [w EXCEPT !.pc = "broadcast"]
<1>3. r \in Works(seq) /\ b \in Works(seq) /\ Idle \in Works(seq)
  BY <1>2 DEF Works
<1>4. r.pc = "reconcile" /\ b.pc = "broadcast" /\ Idle.pc = "idle"
  BY <1>2 DEF Idle
<1>5. After(w) \in {r, b, Idle}
  BY DEF After
<1> HIDE DEF r, b
<1>6. After(w) \in Works(seq) /\ After(w).pc \in {"reconcile", "broadcast", "idle"}
  BY <1>3, <1>4, <1>5
<1> QED
  BY <1>1, <1>6 DEF InHand

\* Everything that the handlers send.
LEMMA SendingKeepsSync ==
  ASSUME SyncInv, NEW s \in Socks,
         ReadSync(s) \/ SendDiff(s) \/ SendSnapshot(s) \/ SendAck(s) \/ Reconcile(s)
         \/ Broadcast(s)
  PROVE  SyncInv'
<1>1. ServerTypes /\ seq \in Nat
  BY DEF SyncInv, ServerTypes
<1>2. Idle \in Works(seq) /\ ~InHand(Idle)
  BY DEF Works, InHand, Idle
<1>3. CASE ReadSync(s)
  <2> DEFINE since == work[s].since
             w == IF since = 0 \/ IsSnapshotRequired(since) THEN [pc |-> "snapshot", seq |-> seq]
                  ELSE [pc |-> "diff", seq |-> seq, changes |-> ChangesSince(since)]
             m == [type |-> "authSuccess"]
  <2>1. ChangesSince(since) \in SUBSET Wire(seq)
    BY <1>1 DEF ServerTypes, ChangesSince
  <2>2. w \in Works(seq) /\ ~InHand(w)
    BY <1>1, <2>1 DEF Works, InHand
  <2>3. m \in Answers(seq) /\ ~IsAck(m)
    BY DEF Answers, IsAck
  <2>4. work[s] # Idle /\ ~InHand(work[s])
    BY <1>1, <1>3, WorkIs DEF ReadSync, InHand
  <2> QED
    BY <1>3, <2>2, <2>3, <2>4, SendOneKeepsSync DEF ReadSync
<1>4. CASE SendDiff(s)
  <2> DEFINE m == [type |-> "diff", changes |-> work[s].changes, seq |-> work[s].seq]
  <2>1. m \in Answers(seq) /\ ~IsAck(m)
    BY <1>1, <1>4, WorkIs DEF SendDiff, Answers, IsAck
  <2>2. work[s] # Idle /\ ~InHand(work[s])
    BY <1>1, <1>4, WorkIs DEF SendDiff, InHand
  <2> QED
    BY <1>2, <1>4, <2>1, <2>2, SendOneKeepsSync DEF SendDiff
<1>5. CASE SendSnapshot(s)
  <2> DEFINE told == {Told(k, 0) : k \in {j \in Keys : reg[j].op = "put"}}
             m == [type |-> "snapshot", seq |-> work[s].seq, changes |-> told]
  <2>1. told \in SUBSET Wire(seq)
    BY <1>1, ToldIsWire
  <2>2. m \in Answers(seq) /\ ~IsAck(m)
    <3> HIDE DEF told
    <3> QED
      BY <1>1, <1>5, <2>1, WorkIs DEF SendSnapshot, Answers, IsAck
  <2>3. work[s] # Idle /\ ~InHand(work[s])
    BY <1>1, <1>5, WorkIs DEF SendSnapshot, InHand
  <2> QED
    BY <1>2, <1>5, <2>2, <2>3, SendOneKeepsSync DEF SendSnapshot
<1>6. CASE SendAck(s)
  <2> DEFINE m == [type |-> "ack", seq |-> work[s].seq]
  <2>1. m \in Answers(seq) /\ work[s].pc = "ack" /\ work[s] # Idle
    BY <1>1, <1>6, WorkIs DEF SendAck, Answers
  <2> QED
    BY <1>1, <1>6, <2>1, AfterIsWork, SendOneKeepsSync DEF SendAck
<1>7. CASE Reconcile(s)
  <2> DEFINE told == {Told(k, work[s].seq) : k \in work[s].skipped}
             m == [type |-> "diff", seq |-> work[s].seq, changes |-> told]
  <2>1. /\ work[s].seq \in Nat /\ work[s].seq \in 0..seq /\ work[s].skipped \in SUBSET Keys
        /\ work[s] # Idle /\ ~InHand(work[s])
    BY <1>1, <1>7, WorkIs DEF Reconcile, InHand
  <2>2. told \in SUBSET Wire(seq)
    BY <1>1, <2>1, ToldIsWire
  <2>3. m \in Answers(seq) /\ ~IsAck(m)
    <3> HIDE DEF told
    <3> QED
      BY <2>1, <2>2 DEF Answers, IsAck
  <2> QED
    BY <1>1, <1>7, <2>1, <2>3, AfterIsWork, SendOneKeepsSync DEF Reconcile
<1>8. CASE Broadcast(s)
  <2> DEFINE msg == [type |-> "broadcast", changes |-> work[s].applied, seq |-> work[s].seq]
             msgs == [t \in Socks |-> IF t # s /\ session[t] # 0 THEN << msg >> ELSE << >>]
  <2>1. msg \in Answers(seq) /\ ~IsAck(msg)
    BY <1>1, <1>8, WorkIs DEF Broadcast, Answers, IsAck
  <2>2. work[s] # Idle /\ ~InHand(work[s])
    BY <1>1, <1>8, WorkIs DEF Broadcast, InHand
  <2> HIDE DEF msg
  <2>3. msgs \in [Socks -> Seq(Answers(seq))]
    BY <2>1
  <2>4. \A t \in Socks : \A i \in DOMAIN msgs[t] : ~IsAck(msgs[t][i])
    BY <2>1
  <2> HIDE DEF msgs
  <2>5. SendAll(msgs) /\ work' = [work EXCEPT ![s] = Idle]
        /\ UNCHANGED <<reg, log, minSeq, seq, prunes, session, closed, toServer, clientVars>>
    BY <1>8 DEF Broadcast, msgs, msg
  <2> QED
    BY <1>2, <2>2, <2>3, <2>4, <2>5, SendKeepsSync
<1> QED
  BY <1>3, <1>4, <1>5, <1>6, <1>7, <1>8

\* A handler takes on a request, or goes on with it, and nothing else changes.
LEMMA HandlerKeepsSync ==
  ASSUME SyncInv, NEW s \in Socks,
         NEW w \in Works(seq), work' = [work EXCEPT ![s] = w],
         NEW q \in Seq(Requests), toServer' = [toServer EXCEPT ![s] = q],
         s[2] <= conn[s[1]],
         \A c \in Clients : link[c] = "open" /\ Sock(c) = s =>
           Fits(reg, made[c], pending[c], inbox[c], q, w),
         session' \in [Socks -> Nat], closed' \subseteq Socks,
         UNCHANGED <<reg, log, minSeq, seq, inbox, clientVars>>
  PROVE  SyncInv'
<1> USE DEF SyncInv
<1>1. /\ UNCHANGED <<reg, log, minSeq, seq, inbox>>
      /\ UNCHANGED <<cid, conn, link, status, capture, lastSync, pending, timer, store,
                     made, outbox, draft>>
  BY DEF clientVars, localVars
<1>2. ServerTypes'
  BY <1>1 DEF ServerTypes
<1>3. ClientTypes' /\ TableTypes'
  BY <1>1, MailKeepsTypes DEF ClientTypes
<1>4. SocketsInOrder'
  <2>1. \A t \in Socks : t[2] > conn[t[1]] =>
          t # s /\ work'[t] = work[t] /\ toServer'[t] = toServer[t]
    <3> SUFFICES ASSUME NEW t \in Socks, t[2] > conn[t[1]] PROVE t # s
      BY DEF ServerTypes
    <3>1. s[2] \in Int /\ conn[s[1]] \in Int
      BY SocksArePairs DEF ClientTypes
    <3> QED
      BY <3>1
  <2> QED
    BY <1>1, <2>1 DEF SocketsInOrder, Sock
<1>5. OneAnswer'
  <2> SUFFICES ASSUME NEW c \in Clients, link[c] = "open"
               PROVE  Fits(reg, made[c], pending[c], inbox[c], toServer'[Sock(c)],
                           work'[Sock(c)])
    BY <1>1 DEF OneAnswer, Sock
  <2>1. Sock(c) \in Socks
    BY DEF SocketsInOrder
  <2>2. CASE Sock(c) = s
    BY <2>2 DEF ServerTypes
  <2>3. CASE Sock(c) # s
    BY <2>1, <2>3 DEF ServerTypes, OneAnswer
  <2> QED
    BY <2>2, <2>3
<1>6. NothingLost'
  BY <1>1 DEF NothingLost
<1> QED
  BY <1>2, <1>3, <1>4, <1>5, <1>6

\* What is queued on a socket was sent on it, and is a request.
LEMMA QueueIs ==
  ASSUME SyncInv, NEW s \in Socks, toServer[s] # << >>
  PROVE  /\ toServer[s] \in Seq(Requests) /\ Tail(toServer[s]) \in Seq(Requests)
         /\ Head(toServer[s]) \in Requests /\ s[2] <= conn[s[1]]
<1>1. toServer[s] \in Seq(Requests)
  BY DEF SyncInv, ServerTypes
<1>2. s[2] \in Int /\ conn[s[1]] \in Int
  BY SocksArePairs DEF SyncInv, ClientTypes
<1>3. ~(s[2] > conn[s[1]])
  BY DEF SyncInv, SocketsInOrder
<1> QED
  BY <1>1, <1>2, <1>3, HeadTailProperties

LEMMA RecvAuthKeepsSync ==
  ASSUME SyncInv, NEW s \in Socks, RecvAuth(s)
  PROVE  SyncInv'
<1> DEFINE msg == Head(toServer[s])
           w == [pc |-> "sync", since |-> msg.since]
           q == Tail(toServer[s])
<1>1. /\ work[s] = Idle /\ toServer[s] # << >> /\ msg.type = "auth"
      /\ toServer' = [toServer EXCEPT ![s] = q] /\ work' = [work EXCEPT ![s] = w]
      /\ session' = [session EXCEPT ![s] = msg.cid] /\ closed' = closed
      /\ UNCHANGED <<reg, log, minSeq, seq, inbox, clientVars>>
  BY DEF RecvAuth
<1>2. toServer[s] \in Seq(Requests) /\ q \in Seq(Requests) /\ msg \in Requests /\ s[2] <= conn[s[1]]
  BY <1>1, QueueIs
<1> HIDE DEF msg
<1>3. msg.cid \in Nat /\ msg.since \in Nat
  BY <1>1, <1>2 DEF Requests
<1>4. w \in Works(seq) /\ ~InHand(w) /\ ~InHand(Idle)
  BY <1>3 DEF Works, InHand, Idle
<1>5. session' \in [Socks -> Nat] /\ closed' \subseteq Socks
  BY <1>1, <1>3 DEF SyncInv, ServerTypes
<1>6. ASSUME NEW c \in Clients, link[c] = "open", Sock(c) = s
      PROVE  Fits(reg, made[c], pending[c], inbox[c], q, w)
  <2>1. Fits(reg, made[c], pending[c], inbox[c], toServer[s], Idle)
    BY <1>1, <1>6 DEF SyncInv, OneAnswer
  <2> QED
    BY <1>1, <1>2, <1>4, <2>1, FitsFewerRequests, FitsOtherWork
<1> HIDE DEF w, q
<1> QED
  BY <1>1, <1>2, <1>4, <1>5, <1>6, HandlerKeepsSync

LEMMA RefuseBatchKeepsSync ==
  ASSUME SyncInv, NEW s \in Socks, RefuseBatch(s)
  PROVE  SyncInv'
<1> DEFINE q == Tail(toServer[s])
<1>1. /\ toServer[s] # << >> /\ toServer' = [toServer EXCEPT ![s] = q]
      /\ UNCHANGED <<reg, log, minSeq, seq, session, closed, work, inbox, clientVars>>
  BY DEF RefuseBatch, serverVars
<1>2. toServer[s] \in Seq(Requests) /\ q \in Seq(Requests) /\ s[2] <= conn[s[1]]
  BY <1>1, QueueIs
<1>3. work[s] \in Works(seq) /\ work' = [work EXCEPT ![s] = work[s]]
  BY <1>1 DEF SyncInv, ServerTypes
<1>4. session' \in [Socks -> Nat] /\ closed' \subseteq Socks
  BY <1>1 DEF SyncInv, ServerTypes
<1>5. ASSUME NEW c \in Clients, link[c] = "open", Sock(c) = s
      PROVE  Fits(reg, made[c], pending[c], inbox[c], q, work[s])
  BY <1>1, <1>2, <1>5, FitsFewerRequests DEF SyncInv, OneAnswer
<1> HIDE DEF q
<1> QED
  BY <1>1, <1>2, <1>3, <1>4, <1>5, HandlerKeepsSync

\* The changes of a batch are stamped with the session's client id.
LEMMA RecvBatchKeepsSync ==
  ASSUME SyncInv, NEW s \in Socks, RecvBatch(s)
  PROVE  SyncInv'
<1> DEFINE msg == Head(toServer[s])
           stamped == [i \in DOMAIN msg.changes |-> [msg.changes[i] EXCEPT !.cid = session[s]]]
           w == [pc |-> "apply", batch |-> stamped]
           q == Tail(toServer[s])
<1>1. /\ toServer[s] # << >> /\ msg.type = "batch" /\ work[s] = Idle
      /\ toServer' = [toServer EXCEPT ![s] = q] /\ work' = [work EXCEPT ![s] = w]
      /\ UNCHANGED <<reg, log, minSeq, seq, session, closed, inbox, clientVars>>
  BY DEF RecvBatch
<1>2. toServer[s] \in Seq(Requests) /\ q \in Seq(Requests) /\ msg \in Requests /\ s[2] <= conn[s[1]]
  BY <1>1, QueueIs
<1> HIDE DEF msg
<1>3. msg.changes \in Seq(ChangeOf)
  BY <1>1, <1>2 DEF Requests
<1>4. /\ DOMAIN stamped = 1..Len(msg.changes) /\ Len(msg.changes) \in Nat
      /\ DOMAIN msg.changes = 1..Len(msg.changes)
  BY <1>3, LenProperties
<1>5. ASSUME NEW i \in DOMAIN stamped
      PROVE  /\ stamped[i] \in Stamped /\ stamped[i].key = msg.changes[i].key
             /\ stamped[i].ts = msg.changes[i].ts
  <2>1. msg.changes[i] \in ChangeOf
    BY <1>3, <1>4, ElementOfSeq
  <2>2. session[s] \in Nat
    BY DEF SyncInv, ServerTypes
  <2> QED
    BY <2>1, <2>2 DEF ChangeOf, Stamped
<1> HIDE DEF stamped
<1>6. stamped \in Seq(Stamped)
  <2>1. stamped = [i \in 1..Len(msg.changes) |-> stamped[i]]
    BY <1>4 DEF stamped
  <2> QED
    BY <1>4, <1>5, <2>1, IsASeq
<1>7. w \in Works(seq)
  BY <1>6 DEF Works
<1>8. session' \in [Socks -> Nat] /\ closed' \subseteq Socks
  BY <1>1 DEF SyncInv, ServerTypes
<1>9. ASSUME NEW c \in Clients, link[c] = "open", Sock(c) = s
      PROVE  Fits(reg, made[c], pending[c], inbox[c], q, w)
  <2>1. Fits(reg, made[c], pending[c], inbox[c], toServer[s], Idle)
    BY <1>1, <1>9 DEF SyncInv, OneAnswer
  <2>2. IsBatch(Head(toServer[s])) /\ DOMAIN stamped = DOMAIN Head(toServer[s]).changes
    BY <1>1, <1>4 DEF IsBatch, msg
  <2>3. \A i \in DOMAIN stamped : /\ stamped[i].key = Head(toServer[s]).changes[i].key
                                  /\ stamped[i].ts = Head(toServer[s]).changes[i].ts
    BY <1>5 DEF msg
  <2> QED
    BY <1>1, <1>2, <2>1, <2>2, <2>3, FitsTakenBatch
<1> HIDE DEF w, q
<1> QED
  BY <1>1, <1>2, <1>7, <1>8, <1>9, HandlerKeepsSync

\* The sequence number is read.
LEMMA ReturnSeqKeepsSync ==
  ASSUME SyncInv, NEW s \in Socks, ReturnSeq(s)
  PROVE  SyncInv'
<1> DEFINE w == [pc |-> "ack", seq |-> seq, applied |-> work[s].applied,
                 skipped |-> work[s].skipped]
<1>1. /\ work[s].pc = "resolve" /\ work' = [work EXCEPT ![s] = w]
      /\ UNCHANGED <<reg, log, minSeq, seq, session, closed, toServer, inbox, clientVars>>
  BY DEF ReturnSeq
<1>2. work[s].applied \in SUBSET Wire(seq) /\ work[s].skipped \in SUBSET Keys /\ work[s] # Idle
  BY <1>1, WorkIs DEF SyncInv
<1>3. w \in Works(seq) /\ w.pc = "ack"
  BY <1>2 DEF Works, SyncInv, ServerTypes
<1>4. /\ session' \in [Socks -> Nat] /\ closed' \subseteq Socks
      /\ toServer[s] \in Seq(Requests) /\ toServer' = [toServer EXCEPT ![s] = toServer[s]]
  BY <1>1 DEF SyncInv, ServerTypes
<1>5. s[2] <= conn[s[1]]
  <2>1. s[2] \in Int /\ conn[s[1]] \in Int /\ ~(s[2] > conn[s[1]])
    BY <1>2, SocksArePairs DEF SyncInv, ClientTypes, SocketsInOrder
  <2> QED
    BY <2>1
<1> HIDE DEF w
<1>6. ASSUME NEW c \in Clients, link[c] = "open", Sock(c) = s
      PROVE  Fits(reg, made[c], pending[c], inbox[c], toServer[s], w)
  <2>1. Fits(reg, made[c], pending[c], inbox[c], toServer[s], work[s])
    BY <1>6 DEF SyncInv, OneAnswer
  <2> QED
    BY <1>1, <1>3, <2>1 DEF Fits, InHand
<1> QED
  BY <1>1, <1>3, <1>4, <1>5, <1>6, HandlerKeepsSync

\* A socket that the server has seen close is not the one its client has open.
LEMMA HangupKeepsSync ==
  ASSUME SyncInv, NEW s \in Socks, Hangup(s)
  PROVE  SyncInv'
<1>1. /\ s[2] <= conn[s[1]] /\ ~IsOpen(s) /\ closed' = closed \cup {s}
      /\ session' = [session EXCEPT ![s] = 0]
      /\ UNCHANGED <<reg, log, minSeq, seq, work, inbox, clientVars>>
  BY DEF Hangup
<1>2. PICK n \in 0..Len(toServer[s]) : toServer' = [toServer EXCEPT ![s] = SubSeq(@, 1, n)]
  BY DEF Hangup
<1>3. toServer[s] \in Seq(Requests)
  BY DEF SyncInv, ServerTypes
<1>4. SubSeq(toServer[s], 1, n) \in Seq(Requests)
  BY <1>3, LenProperties, ElementOfSeq, SubSeqProperties
<1>5. /\ session' \in [Socks -> Nat] /\ closed' \subseteq Socks
      /\ work[s] \in Works(seq) /\ work' = [work EXCEPT ![s] = work[s]]
  BY <1>1 DEF SyncInv, ServerTypes
<1>6. \A c \in Clients : ~(link[c] = "open" /\ Sock(c) = s)
  BY <1>1 DEF Sock, IsOpen
<1> QED
  BY <1>1, <1>2, <1>4, <1>5, <1>6, HandlerKeepsSync

\* The changelog starts later.
LEMMA PruneKeepsSync ==
  ASSUME SyncInv, NEW n \in 1..(seq - 1), Prune(n)
  PROVE  SyncInv'
<1> USE DEF SyncInv
<1>1. /\ n \in minSeq..(seq - 1) /\ log' = {e \in log : e.seq > n} /\ minSeq' = n + 1
      /\ UNCHANGED <<reg, seq, session, closed, work, toServer, inbox, clientVars>>
      /\ UNCHANGED <<cid, conn, link, status, capture, lastSync, pending, timer, store,
                     made, outbox, draft>>
  BY DEF Prune, clientVars, localVars
<1>2. ServerTypes'
  <2>1. seq \in Nat /\ n \in Nat /\ n < seq
    BY <1>1 DEF ServerTypes
  <2>2. minSeq' \in 0..seq
    BY <1>1, <2>1
  <2>3. \A e \in log' : e \in log /\ e.seq \in (n+1)..seq
    BY <1>1, <2>1 DEF ServerTypes
  <2> QED
    BY <1>1, <2>2, <2>3 DEF ServerTypes
<1>3. ClientTypes' /\ TableTypes'
  BY <1>1, MailKeepsTypes DEF ClientTypes
<1>4. SocketsInOrder' /\ OneAnswer' /\ NothingLost'
  BY <1>1 DEF SocketsInOrder, OneAnswer, NothingLost, Sock
<1> QED
  BY <1>2, <1>3, <1>4

\* The changes of a batch that win are numbered on, each with a number of the log.
LEMMA AppliedAreLogged ==
  ASSUME ServerTypes, NEW batch \in Seq(Stamped)
  PROVE  /\ SeqAfter(reg, batch, seq) \in Nat /\ seq <= SeqAfter(reg, batch, seq)
         /\ \A i \in AppliedAt(reg, batch) :
              /\ i \in DOMAIN batch
              /\ SeqAt(reg, batch, seq, i) \in (seq + 1)..SeqAfter(reg, batch, seq)
<1> DEFINE hits == AppliedAt(reg, batch)
           upTo(i) == {j \in hits : j <= i}
<1>1. DOMAIN batch = 1..Len(batch) /\ Len(batch) \in Nat
  BY LenProperties
<1>2. hits \in SUBSET (1..Len(batch))
  BY <1>1 DEF AppliedAt
<1> HIDE DEF hits
<1>3. IsFiniteSet(hits) /\ Cardinality(hits) \in Nat
  <2>1. IsFiniteSet(1..Len(batch))
    BY <1>1, FS_Interval
  <2>2. IsFiniteSet(hits)
    BY <1>2, <2>1, FS_Subset, Zenon
  <2> QED
    BY <2>2, FS_CardinalityType, Zenon
<1>4. seq \in Nat
  BY DEF ServerTypes
<1>5. ASSUME NEW i \in hits
      PROVE  Cardinality(upTo(i)) \in 1..Cardinality(hits)
  <2>1. upTo(i) \in SUBSET hits /\ i \in upTo(i)
    BY <1>2
  <2>2. IsFiniteSet(upTo(i)) /\ Cardinality(upTo(i)) <= Cardinality(hits)
    BY <1>3, <2>1, FS_Subset
  <2>3. Cardinality(upTo(i)) \in Nat /\ Cardinality(upTo(i)) # 0
    BY <2>1, <2>2, FS_CardinalityType, FS_EmptySet
  <2> QED
    BY <1>3, <2>2, <2>3
<1>6. SeqAfter(reg, batch, seq) = seq + Cardinality(hits)
  BY DEF SeqAfter, hits
<1>7. \A i : SeqAt(reg, batch, seq, i) = seq + Cardinality(upTo(i))
  BY DEF SeqAt, hits
<1>8. ASSUME NEW i \in hits
      PROVE  SeqAt(reg, batch, seq, i) \in (seq + 1)..SeqAfter(reg, batch, seq)
  <2>1. Cardinality(upTo(i)) \in 1..Cardinality(hits)
    BY <1>5
  <2> HIDE DEF upTo
  <2> QED
    BY <1>3, <1>4, <1>6, <1>7, <2>1
<1> QED
  BY <1>1, <1>2, <1>3, <1>4, <1>6, <1>8 DEF hits

\* A batch is applied: the records that its client waits for are as recent now as the
\* changes of the batch.
LEMMA ApplyKeepsSync ==
  ASSUME SyncInv, NEW s \in Socks, Apply(s)
  PROVE  SyncInv'
<1> USE DEF SyncInv
<1> DEFINE batch == work[s].batch
           applied == {[key |-> batch[i].key, op |-> batch[i].op, ts |-> batch[i].ts,
                        cid |-> batch[i].cid, seq |-> SeqAt(reg, batch, seq, i)] :
                         i \in AppliedAt(reg, batch)}
           keys == {batch[i].key : i \in DOMAIN batch}
           w == [pc |-> "resolve", applied |-> applied,
                 skipped |-> keys \ {e.key : e \in applied}]
<1>1. /\ work[s].pc = "apply" /\ work' = [work EXCEPT ![s] = w]
      /\ reg' = Merge(reg, batch) /\ seq' = SeqAfter(reg, batch, seq)
      /\ log' = log \cup applied /\ minSeq' = IF minSeq = 0 /\ seq' > 0 THEN 1 ELSE minSeq
      /\ UNCHANGED <<session, closed, toServer, inbox, cid, conn, link, status, capture,
                     lastSync, pending, timer, store, made, outbox, draft>>
  BY DEF Apply, clientVars, localVars
<1>2. batch \in Seq(Stamped) /\ work[s] # Idle
  BY <1>1, WorkIs
<1>3. IsRegister(reg) /\ seq \in Nat
  BY DEF ServerTypes, IsRegister
<1>4. /\ IsRegister(reg') /\ \A k \in Keys : reg'[k].ts >= reg[k].ts
      /\ \A i \in DOMAIN batch : reg'[batch[i].key].ts >= batch[i].ts
  BY <1>1, <1>2, <1>3, MergeGrows
<1>5. /\ seq' \in Nat /\ seq <= seq'
      /\ \A i \in AppliedAt(reg, batch) :
           i \in DOMAIN batch /\ SeqAt(reg, batch, seq, i) \in (seq + 1)..seq'
  BY <1>1, <1>2, AppliedAreLogged
<1>6. \A i \in DOMAIN batch : batch[i] \in Stamped
  BY <1>2, LenProperties, ElementOfSeq
<1> HIDE DEF batch
<1>7. \A e \in applied : e \in Wire(seq') /\ e.seq \in (seq + 1)..seq'
  <2> SUFFICES ASSUME NEW i \in AppliedAt(reg, batch)
               PROVE  LET e == [key |-> batch[i].key, op |-> batch[i].op, ts |-> batch[i].ts,
                                cid |-> batch[i].cid, seq |-> SeqAt(reg, batch, seq, i)]
                      IN  e \in Wire(seq') /\ e.seq \in (seq + 1)..seq'
    OBVIOUS
  <2>1. i \in DOMAIN batch /\ SeqAt(reg, batch, seq, i) \in (seq + 1)..seq'
    BY <1>5
  <2>2. SeqAt(reg, batch, seq, i) \in 0..seq'
    BY <1>3, <1>5, <2>1
  <2>3. RecordOf(batch[i]) \in Record /\ batch[i].key \in Keys
    BY <1>6, <2>1, StampedLeavesRecord
  <2>4. /\ batch[i].op \in {"none", "put", "delete"} /\ batch[i].ts \in 0..MaxTs
        /\ batch[i].cid \in Nat
    BY <2>3 DEF RecordOf, Record
  <2> QED
    BY <2>1, <2>2, <2>3, <2>4 DEF Wire
<1>8. keys \subseteq Keys
  BY <1>6, StampedLeavesRecord
<1> HIDE DEF applied, keys
<1>9. w \in Works(seq')
  BY <1>7, <1>8 DEF Works
<1>10. Wire(seq) \subseteq Wire(seq') /\ Works(seq) \subseteq Works(seq') /\ Answers(seq) \subseteq Answers(seq')
  BY <1>3, <1>5, TypesGrow
<1>11. ServerTypes'
  <2>1. work' \in [Socks -> Works(seq')]
    BY <1>1, <1>9, <1>10 DEF ServerTypes
  <2>2. minSeq' \in 0..seq' /\ minSeq' <= seq + 1 /\ (minSeq' = minSeq \/ (minSeq = 0 /\ minSeq' = 1))
    BY <1>1, <1>3, <1>5 DEF ServerTypes
  <2>3. \A e \in log' : e \in Wire(seq') /\ e.seq \in minSeq'..seq' /\ e.seq > 0
    <3>1. \A e \in log : e \in Wire(seq') /\ e.seq \in minSeq'..seq' /\ e.seq > 0
      BY <1>3, <1>5, <1>10, <2>2 DEF ServerTypes
    <3>2. \A e \in applied : e \in Wire(seq') /\ e.seq \in minSeq'..seq' /\ e.seq > 0
      BY <1>3, <1>5, <1>7, <2>2
    <3> QED
      BY <1>1, <3>1, <3>2
  <2> QED
    BY <1>1, <1>4, <1>5, <2>1, <2>2, <2>3 DEF ServerTypes, IsRegister
<1>12. ClientTypes'
  <2>1. inbox' \in [Clients -> Seq(Answers(seq'))]
    BY <1>1, <1>10, SeqMonotonic DEF ClientTypes
  <2>2. lastSync' \in [Clients -> 0..seq']
    BY <1>1, <1>3, <1>5 DEF ClientTypes
  <2> QED
    BY <1>1, <2>1, <2>2 DEF ClientTypes
<1>13. TableTypes'
  BY <1>1 DEF TableTypes
<1>14. SocketsInOrder'
  <2>1. ~(s[2] > conn[s[1]])
    BY <1>2 DEF SocketsInOrder
  <2>2. \A t \in Socks : t[2] > conn[t[1]] => work'[t] = work[t]
    BY <1>1, <2>1 DEF ServerTypes
  <2> QED
    BY <1>1, <2>2 DEF SocketsInOrder, Sock
<1>15. \A c \in Clients : \A n \in DOMAIN made[c] :
         made[c][n].key \in Keys /\ made[c][n].ts \in Nat
  <2> SUFFICES ASSUME NEW c \in Clients, NEW n \in DOMAIN made[c]
               PROVE  made[c][n].key \in Keys /\ made[c][n].ts \in Nat
    OBVIOUS
  <2>1. made[c][n] \in ChangeOf
    BY LenProperties, ElementOfSeq DEF TableTypes
  <2> QED
    BY <2>1, SyncAssumption DEF ChangeOf
<1>16. \A k \in Keys : reg[k].ts \in Nat /\ reg'[k].ts \in Nat
  BY <1>3, <1>4, SyncAssumption DEF IsRegister, Record
<1>17. OneAnswer'
  <2> SUFFICES ASSUME NEW c \in Clients, link[c] = "open"
               PROVE  Fits(reg', made[c], pending[c], inbox[c], toServer[Sock(c)],
                           work'[Sock(c)])
    BY <1>1 DEF OneAnswer, Sock
  <2>1. /\ made[c] \in Seq(ChangeOf) /\ pending[c] \in SUBSET DOMAIN made[c]
        /\ Sock(c) \in Socks
    BY DEF TableTypes, SocketsInOrder
  <2>2. Fits(reg, made[c], pending[c], inbox[c], toServer[Sock(c)], work[Sock(c)])
    BY DEF OneAnswer
  <2>3. Fits(reg', made[c], pending[c], inbox[c], toServer[Sock(c)], work[Sock(c)])
    BY <1>3, <1>4, <2>1, <2>2, FitsGrows
  <2>4. CASE Sock(c) # s
    BY <1>1, <2>1, <2>3, <2>4 DEF ServerTypes
  <2>5. CASE Sock(c) = s
    <3>1. Cover(batch, made[c], pending[c]) /\ InHand(work[s])
      BY <1>1, <2>2, <2>5 DEF Fits, batch, InHand
    <3>2. Reached(reg', made[c], pending[c])
      <4> SUFFICES ASSUME NEW n \in pending[c]
                   PROVE  reg'[made[c][n].key].ts >= made[c][n].ts
        BY DEF Reached
      <4>1. PICK i \in DOMAIN batch : batch[i].key = made[c][n].key /\ batch[i].ts = made[c][n].ts
        BY <3>1 DEF Cover
      <4> QED
        BY <1>4, <4>1
    <3>3. work'[s] = w /\ w.pc = "resolve"
      BY <1>1 DEF ServerTypes
    <3> HIDE DEF w
    <3> QED
      BY <2>3, <2>5, <3>1, <3>2, <3>3 DEF Fits, InHand
  <2> QED
    BY <2>4, <2>5
<1>18. NothingLost'
  <2> SUFFICES ASSUME NEW c \in Clients, NEW n \in DOMAIN made[c], n \notin outbox[c]
               PROVE  reg'[made[c][n].key].ts >= made[c][n].ts
    BY <1>1 DEF NothingLost
  <2>1. reg[made[c][n].key].ts >= made[c][n].ts
    BY DEF NothingLost
  <2> QED
    BY <1>4, <1>15, <1>16, <2>1
<1> QED
  BY <1>11, <1>12, <1>13, <1>14, <1>17, <1>18

-----------------------------------------------------------------------------
(* The clients keep the invariant                                          *)

\* What a step of a client has to keep: the types, and what it waits for.
LEMMA ClientKeepsSync ==
  ASSUME SyncInv, NEW c \in Clients, UNCHANGED serverVars, ClientTypes', TableTypes',
         toServer' \in [Socks -> Seq(Requests)],
         \A t \in Socks : t[1] # c => toServer'[t] = toServer[t],
         \A d \in Clients : d # c =>
           /\ conn'[d] = conn[d] /\ link'[d] = link[d] /\ inbox'[d] = inbox[d]
           /\ made'[d] = made[d] /\ outbox'[d] = outbox[d] /\ pending'[d] = pending[d],
         \A t \in Socks : t[1] = c /\ t[2] > conn'[c] => work[t] = Idle /\ toServer'[t] = << >>,
         IF link'[c] = "open"
         THEN /\ <<c, conn'[c]>> \in Socks
              /\ Fits(reg, made'[c], pending'[c], inbox'[c], toServer'[<<c, conn'[c]>>],
                      work[<<c, conn'[c]>>])
         ELSE pending'[c] = {},
         \A n \in DOMAIN made'[c] : n \in outbox'[c] \/ reg[made'[c][n].key].ts >= made'[c][n].ts
  PROVE  SyncInv'
<1>1. UNCHANGED <<reg, log, minSeq, seq, session, closed, work>>
  BY DEF serverVars
<1>2. ServerTypes'
  BY <1>1 DEF SyncInv, ServerTypes
<1>3. SocketsInOrder'
  <2>1. ASSUME NEW t \in Socks, t[2] > conn'[t[1]] PROVE work'[t] = Idle /\ toServer'[t] = << >>
    <3>1. t[1] \in Clients
      BY SocksArePairs
    <3>2. CASE t[1] = c
      BY <1>1, <2>1, <3>2
    <3>3. CASE t[1] # c
      BY <1>1, <2>1, <3>1, <3>3 DEF SyncInv, SocketsInOrder
    <3> QED
      BY <3>2, <3>3
  <2>2. ASSUME NEW d \in Clients
        PROVE  /\ link'[d] = "open" => <<d, conn'[d]>> \in Socks
               /\ link'[d] # "open" => pending'[d] = {}
    BY DEF SyncInv, SocketsInOrder, Sock
  <2> QED
    BY <2>1, <2>2 DEF SocketsInOrder, Sock
<1>4. OneAnswer'
  <2> SUFFICES ASSUME NEW d \in Clients, link'[d] = "open"
               PROVE  Fits(reg, made'[d], pending'[d], inbox'[d], toServer'[<<d, conn'[d]>>],
                           work[<<d, conn'[d]>>])
    BY <1>1 DEF OneAnswer, Sock
  <2>1. CASE d # c
    <3>1. <<d, conn[d]>> \in Socks /\ <<d, conn[d]>>[1] # c
      BY <2>1 DEF SyncInv, SocketsInOrder, Sock
    <3>2. toServer'[<<d, conn'[d]>>] = toServer[<<d, conn[d]>>]
      BY <2>1, <3>1
    <3> QED
      BY <2>1, <3>2 DEF SyncInv, OneAnswer, Sock
  <2> QED
    BY <2>1
<1>5. NothingLost'
  <2> SUFFICES ASSUME NEW d \in Clients, NEW n \in DOMAIN made'[d]
               PROVE  n \in outbox'[d] \/ reg[made'[d][n].key].ts >= made'[d][n].ts
    BY <1>1 DEF NothingLost
  <2>1. CASE d # c
    BY <2>1 DEF SyncInv, NothingLost
  <2> QED
    BY <2>1
<1> QED
  BY <1>2, <1>3, <1>4, <1>5 DEF SyncInv

\* A change is worked out.
LEMMA DraftKeepsSync ==
  ASSUME SyncInv, NEW c \in Clients, NEW k \in Keys, NEW op \in Ops, NEW now \in 1..MaxTs,
         Draft(c, k, op, now)
  PROVE  SyncInv'
<1> USE DEF SyncInv
<1> DEFINE existing == store[c][k]
           ts == IF now > existing.ts THEN now ELSE existing.ts + 1
           change == [key |-> k, op |-> op, ts |-> ts, cid |-> cid[c]]
<1>1. /\ ts <= MaxTs /\ draft' = [draft EXCEPT ![c] = change]
      /\ UNCHANGED <<serverVars, toServer, cid, conn, link, status, inbox, capture, lastSync,
                     pending, timer, store, made, outbox>>
  BY DEF Draft
<1>2. existing \in Record
  BY DEF TableTypes
<1>3. existing.ts \in Nat /\ MaxTs \in Nat
  BY <1>2, SyncAssumption DEF Record
<1> HIDE DEF existing
<1>4. ts \in 1..MaxTs
  BY <1>1, <1>3
<1>5. cid[c] \in Nat \ {0}
  BY SyncAssumption DEF ClientTypes
<1> HIDE DEF ts
<1>6. change \in ChangeOf
  BY <1>4, <1>5 DEF ChangeOf
<1> HIDE DEF change
<1>7. ClientTypes' /\ TableTypes'
  <2>1. draft' \in [Clients -> {Nothing} \cup ChangeOf]
    BY <1>1, <1>6 DEF ClientTypes
  <2> QED
    BY <1>1, <2>1 DEF ClientTypes, TableTypes, serverVars
<1>8. ServerTypes' /\ SocketsInOrder' /\ OneAnswer' /\ NothingLost'
  BY <1>1 DEF ServerTypes, SocketsInOrder, OneAnswer, NothingLost, Sock, serverVars
<1> QED
  BY <1>7, <1>8

\* A change is made: it is in the outbox.
LEMMA CommitLocalKeepsSync ==
  ASSUME SyncInv, NEW c \in Clients, CommitLocal(c)
  PROVE  SyncInv'
<1> USE DEF SyncInv
<1> DEFINE change == draft[c]
           more == Append(made[c], change)
           queued == outbox[c] \cup {Len(made[c]) + 1}
           record == IF change.op = "delete" THEN NoRecord ELSE RecordOf(change)
<1>1. /\ change # Nothing
      /\ store' = [store EXCEPT ![c][change.key] = record]
      /\ made' = [made EXCEPT ![c] = more] /\ outbox' = [outbox EXCEPT ![c] = queued]
      /\ timer' = [timer EXCEPT ![c] = TRUE] /\ draft' = [draft EXCEPT ![c] = Nothing]
      /\ UNCHANGED <<serverVars, toServer, cid, conn, link, status, inbox, capture, lastSync,
                     pending>>
  BY DEF CommitLocal
<1>2. change \in ChangeOf /\ made[c] \in Seq(ChangeOf)
  BY <1>1 DEF ClientTypes, TableTypes
<1>3. change.key \in Keys /\ record \in Record /\ record.op # "delete"
  <2>1. change \in Stamped /\ change.key \in Keys
    BY <1>2 DEF ChangeOf, Stamped
  <2>2. NoRecord \in Record /\ NoRecord.op # "delete"
    BY SyncAssumption DEF NoRecord, Record
  <2>3. RecordOf(change) \in Record /\ RecordOf(change).op = change.op
    BY <2>1, StampedLeavesRecord
  <2> QED
    BY <2>1, <2>2, <2>3
<1> HIDE DEF change, record
<1>4. /\ more \in Seq(ChangeOf) /\ Len(made[c]) \in Nat
      /\ DOMAIN made[c] = 1..Len(made[c]) /\ DOMAIN more = 1..(Len(made[c]) + 1)
      /\ \A n \in DOMAIN made[c] : more[n] = made[c][n]
  BY <1>2, AppendProperties, LenProperties
<1> HIDE DEF more
<1>5. \A n \in DOMAIN more : n \in DOMAIN made[c] \/ n = Len(made[c]) + 1
  BY <1>4
<1>6. pending[c] \subseteq outbox[c] /\ outbox[c] \subseteq DOMAIN made[c]
  BY DEF TableTypes
<1>7. queued \in SUBSET Nat /\ pending[c] \subseteq queued /\ queued \subseteq DOMAIN more
  <2>1. Len(made[c]) + 1 \in DOMAIN more /\ DOMAIN made[c] \subseteq DOMAIN more
    BY <1>4
  <2>2. DOMAIN more \subseteq Nat
    BY <1>4
  <2> QED
    BY <1>6, <2>1, <2>2
<1>8. ClientTypes'
  BY <1>1 DEF ClientTypes, serverVars
<1>9. TableTypes'
  <2>1. store' \in [Clients -> [Keys -> Record]] /\ \A d \in Clients, k \in Keys : store'[d][k].op # "delete"
    BY <1>1, <1>3 DEF TableTypes
  <2>2. made' \in [Clients -> Seq(ChangeOf)] /\ outbox' \in [Clients -> SUBSET Nat]
    BY <1>1, <1>4, <1>7 DEF TableTypes
  <2>3. \A d \in Clients : pending'[d] \subseteq outbox'[d] /\ outbox'[d] \subseteq DOMAIN made'[d]
    BY <1>1, <1>7 DEF TableTypes
  <2> QED
    BY <1>1, <2>1, <2>2, <2>3 DEF TableTypes
<1>10. IF link[c] = "open"
       THEN <<c, conn[c]>> \in Socks
            /\ Fits(reg, more, pending[c], inbox[c], toServer[<<c, conn[c]>>], work[<<c, conn[c]>>])
       ELSE pending[c] = {}
  <2>1. IsRegister(reg) /\ \A k \in Keys : reg[k].ts >= reg[k].ts
    BY SyncAssumption DEF IsRegister, ServerTypes, Record
  <2>2. pending[c] \in SUBSET DOMAIN made[c] /\ \A n \in pending[c] : more[n] = made[c][n]
    BY <1>4, <1>6
  <2>3. CASE link[c] = "open"
    <3>1. /\ <<c, conn[c]>> \in Socks
          /\ Fits(reg, made[c], pending[c], inbox[c], toServer[<<c, conn[c]>>],
                  work[<<c, conn[c]>>])
      BY <2>3 DEF SocketsInOrder, OneAnswer, Sock
    <3> QED
      BY <1>2, <1>4, <2>1, <2>2, <2>3, <3>1, FitsGrows
  <2> QED
    BY <2>3 DEF SocketsInOrder
<1>11. \A n \in DOMAIN more : n \in queued \/ reg[more[n].key].ts >= more[n].ts
  BY <1>4, <1>5 DEF NothingLost
<1>12. made'[c] = more /\ outbox'[c] = queued
  BY <1>1 DEF TableTypes
<1> HIDE DEF queued
<1>13. \A d \in Clients : d # c => made'[d] = made[d] /\ outbox'[d] = outbox[d]
  BY <1>1 DEF TableTypes
<1>14. \A t \in Socks : t[1] = c /\ t[2] > conn'[c] => work[t] = Idle /\ toServer'[t] = << >>
  BY <1>1 DEF SocketsInOrder
<1>15. toServer' \in [Socks -> Seq(Requests)]
  BY <1>1 DEF ServerTypes
<1> QED
  BY <1>1, <1>8, <1>9, <1>10, <1>11, <1>12, <1>13, <1>14, <1>15, ClientKeepsSync

\* A push: the oldest changes of the outbox are held until they are acknowledged, and
\* their batch is in the queue of the socket.
LEMMA PushKeepsSync ==
  ASSUME SyncInv, NEW c \in Clients, NEW held, NEW queued \in SUBSET DOMAIN made[c],
         held \subseteq queued, PushOutbox(c, held, queued),
         ClientTypes', UNCHANGED <<serverVars, conn, link, made>>,
         outbox' = [outbox EXCEPT ![c] = queued],
         store' \in [Clients -> [Keys -> Record]],
         \A d \in Clients, k \in Keys : store'[d][k].op # "delete",
         \A d \in Clients : d # c => inbox'[d] = inbox[d],
         IF link[c] = "open"
         THEN Fits(reg, made[c], held, inbox'[c], toServer[Sock(c)], work[Sock(c)])
         ELSE held = {},
         \A n \in DOMAIN made[c] : n \in queued \/ reg[made[c][n].key].ts >= made[c][n].ts
  PROVE  SyncInv'
<1> USE DEF SyncInv
<1> DEFINE batch == InOrder(c, Oldest(queued))
           msg == [type |-> "batch", changes |-> batch]
           q == Append(toServer[Sock(c)], msg)
<1>1. made[c] \in Seq(ChangeOf) /\ queued \subseteq Nat /\ made' = made
  <2>1. made[c] \in Seq(ChangeOf)
    BY DEF TableTypes
  <2> QED
    BY <2>1, LenProperties
<1>2. CASE held = {} /\ status'[c] = "connected" /\ link[c] = "open" /\ queued # {}
  <2>1. /\ pending' = [pending EXCEPT ![c] = Oldest(queued)]
        /\ toServer' = [toServer EXCEPT ![Sock(c)] = q]
    BY <1>2 DEF PushOutbox, Sock
  <2>2. Oldest(queued) \subseteq queued /\ Oldest(queued) # {}
    BY <1>1, <1>2, OldestAreSome
  <2>3. /\ batch \in Seq(ChangeOf)
        /\ \A n \in Oldest(queued) : \E i \in DOMAIN batch : batch[i] = made[c][n]
    <3>1. Oldest(queued) \in SUBSET DOMAIN made[c] /\ made[c] \in Seq(ChangeOf)
      BY <1>1, <2>2
    <3> HIDE DEF SyncInv
    <3> QED
      BY <3>1, InOrderHasAll
  <2> HIDE DEF batch
  <2>4. Cover(msg.changes, made[c], Oldest(queued))
    BY <2>3 DEF Cover
  <2>5. msg \in Requests
    BY <2>3 DEF Requests
  <2> HIDE DEF msg
  <2>6. Sock(c) \in Socks /\ toServer[Sock(c)] \in Seq(Requests)
    BY <1>2 DEF SocketsInOrder, ServerTypes
  <2>7. Fits(reg, made[c], Oldest(queued), inbox'[c], q, work[Sock(c)])
    BY <1>2, <2>2, <2>4, <2>5, <2>6, FitsPushed
  <2>8. q \in Seq(Requests)
    BY <2>5, <2>6, AppendProperties
  <2> HIDE DEF q
  <2>9. toServer' \in [Socks -> Seq(Requests)]
    BY <2>1, <2>8 DEF ServerTypes
  <2>10. \A t \in Socks : t # Sock(c) => toServer'[t] = toServer[t]
    BY <2>1 DEF ServerTypes
  <2>11. toServer'[Sock(c)] = q
    BY <2>1, <2>6 DEF ServerTypes
  <2>12. Sock(c)[1] = c /\ Sock(c)[2] = conn[c] /\ <<c, conn[c]>> = Sock(c) /\ conn[c] \in Nat
    BY DEF Sock, ClientTypes
  <2>13. TableTypes'
    <3>1. outbox' \in [Clients -> SUBSET Nat] /\ pending' \in [Clients -> SUBSET Nat]
      BY <1>1, <2>1, <2>2 DEF TableTypes
    <3>2. \A d \in Clients : pending'[d] \subseteq outbox'[d] /\ outbox'[d] \subseteq DOMAIN made[d]
      BY <2>1, <2>2 DEF TableTypes
    <3> QED
      BY <1>1, <3>1, <3>2 DEF TableTypes
  <2>14. /\ pending'[c] = Oldest(queued) /\ outbox'[c] = queued
         /\ \A d \in Clients : d # c => pending'[d] = pending[d] /\ outbox'[d] = outbox[d]
    BY <2>1 DEF TableTypes
  <2>15. \A t \in Socks : t[1] # c => toServer'[t] = toServer[t]
    BY <2>10, <2>12
  <2>16. \A t \in Socks : t[1] = c /\ t[2] > conn[c] => t # Sock(c)
    BY <2>12
  <2>17. \A t \in Socks : t[1] = c /\ t[2] > conn[c] => work[t] = Idle /\ toServer'[t] = << >>
    BY <2>10, <2>16 DEF SocketsInOrder
  <2> QED
    BY <1>1, <1>2, <2>6, <2>7, <2>9, <2>11, <2>12, <2>13, <2>14, <2>15, <2>17, ClientKeepsSync
<1>3. CASE ~(held = {} /\ status'[c] = "connected" /\ link[c] = "open" /\ queued # {})
  <2>1. pending' = [pending EXCEPT ![c] = held] /\ UNCHANGED toServer
    BY <1>3 DEF PushOutbox
  <2>2. TableTypes'
    <3>1. outbox' \in [Clients -> SUBSET Nat] /\ pending' \in [Clients -> SUBSET Nat]
      BY <1>1, <2>1 DEF TableTypes
    <3>2. \A d \in Clients : pending'[d] \subseteq outbox'[d] /\ outbox'[d] \subseteq DOMAIN made[d]
      BY <2>1 DEF TableTypes
    <3> QED
      BY <1>1, <3>1, <3>2 DEF TableTypes
  <2>3. /\ pending'[c] = held /\ outbox'[c] = queued
        /\ \A d \in Clients : d # c => pending'[d] = pending[d] /\ outbox'[d] = outbox[d]
    BY <2>1 DEF TableTypes
  <2>4. toServer' \in [Socks -> Seq(Requests)]
    BY <2>1 DEF ServerTypes
  <2>5. \A t \in Socks : t[1] = c /\ t[2] > conn[c] => work[t] = Idle /\ toServer'[t] = << >>
    BY <2>1 DEF SocketsInOrder
  <2>6. link[c] = "open" => <<c, conn[c]>> \in Socks /\ <<c, conn[c]>> = Sock(c)
    BY DEF SocketsInOrder, Sock
  <2> QED
    BY <1>1, <2>1, <2>2, <2>3, <2>4, <2>5, <2>6, ClientKeepsSync
<1> QED
  BY <1>2, <1>3

LEMMA FireTimerKeepsSync ==
  ASSUME SyncInv, NEW c \in Clients, FireTimer(c)
  PROVE  SyncInv'
<1> USE DEF SyncInv
<1>1. /\ timer' = [timer EXCEPT ![c] = FALSE] /\ PushOutbox(c, pending[c], outbox[c])
      /\ UNCHANGED <<serverVars, cid, conn, link, status, inbox, capture, lastSync, store, made,
                     outbox, draft>>
  BY DEF FireTimer, localVars
<1>2. ClientTypes'
  BY <1>1 DEF ClientTypes, serverVars
<1>3. /\ outbox[c] \in SUBSET DOMAIN made[c] /\ pending[c] \subseteq outbox[c]
      /\ outbox' = [outbox EXCEPT ![c] = outbox[c]]
      /\ store' \in [Clients -> [Keys -> Record]]
      /\ \A d \in Clients, k \in Keys : store'[d][k].op # "delete"
  BY <1>1 DEF TableTypes
<1>4. IF link[c] = "open"
      THEN Fits(reg, made[c], pending[c], inbox'[c], toServer[Sock(c)], work[Sock(c)])
      ELSE pending[c] = {}
  BY <1>1 DEF SocketsInOrder, OneAnswer
<1>5. \A n \in DOMAIN made[c] : n \in outbox[c] \/ reg[made[c][n].key].ts >= made[c][n].ts
  BY DEF NothingLost
<1> QED
  BY <1>1, <1>2, <1>3, <1>4, <1>5, PushKeepsSync

\* A client takes a message from its inbox.
LEMMA MailIs ==
  ASSUME SyncInv, NEW c \in Clients, inbox[c] # << >>, inbox' = [inbox EXCEPT ![c] = Tail(@)]
  PROVE  /\ inbox[c] \in Seq(Answers(seq)) /\ Tail(inbox[c]) \in Seq(Answers(seq))
         /\ Head(inbox[c]) \in Answers(seq) /\ inbox' \in [Clients -> Seq(Answers(seq))]
         /\ inbox'[c] = Tail(inbox[c])
         /\ \A d \in Clients : d # c => inbox'[d] = inbox[d]
<1>1. inbox[c] \in Seq(Answers(seq))
  BY DEF SyncInv, ClientTypes
<1>2. Tail(inbox[c]) \in Seq(Answers(seq)) /\ Head(inbox[c]) \in Answers(seq)
  BY <1>1, HeadTailProperties
<1> QED
  BY <1>1, <1>2 DEF SyncInv, ClientTypes

LEMMA HandleAuthSuccessKeepsSync ==
  ASSUME SyncInv, NEW c \in Clients, HandleAuthSuccess(c)
  PROVE  SyncInv'
<1> USE DEF SyncInv
<1>1. /\ inbox[c] # << >> /\ inbox' = [inbox EXCEPT ![c] = Tail(@)]
      /\ status' = [status EXCEPT ![c] = "connected"] /\ PushOutbox(c, pending[c], outbox[c])
      /\ UNCHANGED <<serverVars, seq, cid, conn, link, capture, lastSync, timer, store, made,
                     outbox, draft>>
  BY DEF HandleAuthSuccess, Receives, Received, localVars, serverVars
<1>2. /\ inbox[c] \in Seq(Answers(seq)) /\ inbox' \in [Clients -> Seq(Answers(seq))]
      /\ inbox'[c] = Tail(inbox[c]) /\ \A d \in Clients : d # c => inbox'[d] = inbox[d]
  BY <1>1, MailIs
<1>3. ClientTypes'
  BY <1>1, <1>2 DEF ClientTypes
<1>4. /\ outbox[c] \in SUBSET DOMAIN made[c] /\ pending[c] \subseteq outbox[c]
      /\ outbox' = [outbox EXCEPT ![c] = outbox[c]]
      /\ store' \in [Clients -> [Keys -> Record]]
      /\ \A d \in Clients, k \in Keys : store'[d][k].op # "delete"
  BY <1>1 DEF TableTypes
<1>5. IF link[c] = "open"
      THEN Fits(reg, made[c], pending[c], inbox'[c], toServer[Sock(c)], work[Sock(c)])
      ELSE pending[c] = {}
  BY <1>1, <1>2, FitsLessMail DEF SocketsInOrder, OneAnswer
<1>6. \A n \in DOMAIN made[c] : n \in outbox[c] \/ reg[made[c][n].key].ts >= made[c][n].ts
  BY DEF NothingLost
<1> QED
  BY <1>1, <1>2, <1>3, <1>4, <1>5, <1>6, PushKeepsSync

\* What is acknowledged leaves the outbox: the server's records have reached it.
LEMMA HandleAckKeepsSync ==
  ASSUME SyncInv, NEW c \in Clients, HandleAck(c)
  PROVE  SyncInv'
<1> USE DEF SyncInv
<1> DEFINE left == outbox[c] \ pending[c]
<1>1. /\ inbox[c] # << >> /\ inbox' = [inbox EXCEPT ![c] = Tail(@)] /\ IsAck(Head(inbox[c]))
      /\ outbox' = [outbox EXCEPT ![c] = left]
      /\ lastSync' = [lastSync EXCEPT ![c] = Head(inbox[c]).seq]
      /\ PushOutbox(c, {}, left)
      /\ UNCHANGED <<serverVars, seq, cid, conn, link, status, capture, timer, store, made, draft>>
  BY DEF HandleAck, Receives, Received, serverVars, IsAck, Left, Released
<1>2. /\ inbox[c] \in Seq(Answers(seq)) /\ inbox' \in [Clients -> Seq(Answers(seq))]
      /\ Head(inbox[c]) \in Answers(seq)
      /\ inbox'[c] = Tail(inbox[c]) /\ \A d \in Clients : d # c => inbox'[d] = inbox[d]
  BY <1>1, MailIs
<1>3. Head(inbox[c]).seq \in 0..seq
  BY <1>1, <1>2 DEF IsAck, Answers
<1>4. ClientTypes'
  <2>1. lastSync' \in [Clients -> 0..seq]
    BY <1>1, <1>3 DEF ClientTypes
  <2> QED
    BY <1>1, <1>2, <2>1 DEF ClientTypes
<1>5. /\ left \in SUBSET DOMAIN made[c] /\ store' \in [Clients -> [Keys -> Record]]
      /\ \A d \in Clients, k \in Keys : store'[d][k].op # "delete"
  BY <1>1 DEF TableTypes
<1>6. link[c] = "open" => Fits(reg, made[c], {}, inbox'[c], toServer[Sock(c)], work[Sock(c)])
  BY <1>1, <1>2, FitsLessMail DEF OneAnswer
<1>7. Reached(reg, made[c], pending[c])
  <2>1. CASE link[c] = "open"
    BY <1>1, <1>2, <2>1, FitsLessMail DEF OneAnswer
  <2>2. CASE link[c] # "open"
    BY <2>2 DEF SocketsInOrder, Reached
  <2> QED
    BY <2>1, <2>2
<1>8. \A n \in DOMAIN made[c] : n \in left \/ reg[made[c][n].key].ts >= made[c][n].ts
  BY <1>7 DEF NothingLost, Reached
<1>9. \A held : held = {} =>
        /\ held \subseteq left /\ PushOutbox(c, held, left)
        /\ IF link[c] = "open"
           THEN Fits(reg, made[c], held, inbox'[c], toServer[Sock(c)], work[Sock(c)])
           ELSE held = {}
  BY <1>1, <1>6
<1> HIDE DEF left, SyncInv
<1>10. SyncInv /\ UNCHANGED <<serverVars, conn, link, made>>
  BY <1>1
<1> QED
  BY <1>1, <1>2, <1>4, <1>5, <1>8, <1>9, <1>10, PushKeepsSync

\* Of changes that are numbered up to n one is the last.
LEMMA HasLast ==
  ASSUME NEW n \in Nat, NEW S \in SUBSET Wire(n), S # {}
  PROVE  \E e \in S : \A f \in S : f.seq <= e.seq
<1> DEFINE back == {n - e.seq : e \in S}
<1>1. \A e \in S : e.seq \in 0..n
  BY DEF Wire
<1>2. back \in SUBSET Nat /\ back # {}
  BY <1>1
<1>3. PICK b \in back : \A m \in back : b <= m
  BY <1>2, HasFirst
<1>4. PICK e \in S : b = n - e.seq
  BY <1>3
<1>5. \A f \in S : n - e.seq <= n - f.seq
  BY <1>3, <1>4
<1> QED
  BY <1>1, <1>5

\* What a remote batch writes is a record or none, never a tombstone.
LEMMA OverwrittenIsTable ==
  ASSUME NEW now \in [Keys -> Record], \A k \in Keys : now[k].op # "delete",
         NEW existing, NEW n \in Nat, NEW changes \in SUBSET Wire(n)
  PROVE  /\ Overwritten(now, existing, changes) \in [Keys -> Record]
         /\ \A k \in Keys : Overwritten(now, existing, changes)[k].op # "delete"
<1> DEFINE after == Overwritten(now, existing, changes)
<1>1. NoRecord \in Record /\ NoRecord.op # "delete"
  BY SyncAssumption DEF NoRecord, Record
<1>2. ASSUME NEW k \in Keys
      PROVE  after[k] \in Record /\ after[k].op # "delete"
  <2> DEFINE wins == {e \in changes : e.key = k /\ ShouldOverwrite(e, existing[k])}
             last == CHOOSE e \in wins : \A f \in wins : f.seq <= e.seq
  <2>1. after[k] = IF wins = {} THEN now[k]
                   ELSE IF last.op = "delete" THEN NoRecord ELSE RecordOf(last)
    BY DEF Overwritten
  <2>2. wins \in SUBSET Wire(n)
    OBVIOUS
  <2> HIDE DEF wins, after
  <2>3. CASE wins = {}
    BY <2>1, <2>3
  <2>4. CASE wins # {}
    <3>1. last \in wins
      BY <2>2, <2>4, HasLast
    <3>2. last \in Wire(n)
      BY <2>2, <3>1
    <3> HIDE DEF last
    <3>3. RecordOf(last) \in Record /\ RecordOf(last).op = last.op
      BY <3>2 DEF Wire, RecordOf, Record
    <3> QED
      BY <1>1, <2>1, <2>4, <3>3
  <2> QED
    BY <2>3, <2>4
<1>3. after = [k \in Keys |-> after[k]]
  BY DEF Overwritten
<1> HIDE DEF after
<1>4. after \in [Keys -> Record]
  BY <1>2, <1>3
<1> QED
  BY <1>2, <1>4 DEF after

LEMMA HandleChangesKeepsSync ==
  ASSUME SyncInv, NEW c \in Clients, HandleChanges(c)
  PROVE  SyncInv'
<1> USE DEF SyncInv
<1> DEFINE msg == Head(inbox[c])
           after == Overwritten(store[c], capture[c], msg.changes)
<1>1. /\ inbox[c] # << >> /\ inbox' = [inbox EXCEPT ![c] = Tail(@)]
      /\ msg.type \in {"snapshot", "diff", "broadcast"}
      /\ store' = [store EXCEPT ![c] = after]
      /\ capture' = [capture EXCEPT ![c] = Nothing]
      /\ lastSync' = [lastSync EXCEPT ![c] = msg.seq]
      /\ UNCHANGED <<serverVars, seq, cid, conn, link, status, timer, made, outbox, draft>>
      /\ IF msg.type = "broadcast" THEN UNCHANGED <<pending, toServer>>
         ELSE PushOutbox(c, pending[c], outbox[c])
  BY DEF HandleChanges, Receives, Received, serverVars
<1>2. /\ inbox[c] \in Seq(Answers(seq)) /\ inbox' \in [Clients -> Seq(Answers(seq))]
      /\ msg \in Answers(seq)
      /\ inbox'[c] = Tail(inbox[c]) /\ \A d \in Clients : d # c => inbox'[d] = inbox[d]
  BY <1>1, MailIs
<1> HIDE DEF msg
<1>3. msg.seq \in 0..seq /\ msg.changes \in SUBSET Wire(seq)
  BY <1>1, <1>2 DEF Answers
<1>4. after \in [Keys -> Record] /\ \A k \in Keys : after[k].op # "delete"
  <2>1. /\ store[c] \in [Keys -> Record] /\ \A k \in Keys : store[c][k].op # "delete"
        /\ seq \in Nat
    BY DEF TableTypes, ServerTypes
  <2> QED
    BY <1>3, <2>1, OverwrittenIsTable
<1> HIDE DEF after
<1>5. ClientTypes'
  <2>1. lastSync' \in [Clients -> 0..seq]
    BY <1>1, <1>3 DEF ClientTypes
  <2> QED
    BY <1>1, <1>2, <2>1 DEF ClientTypes
<1>6. /\ store' \in [Clients -> [Keys -> Record]]
      /\ \A d \in Clients, k \in Keys : store'[d][k].op # "delete"
  BY <1>1, <1>4 DEF TableTypes
<1>7. /\ outbox[c] \in SUBSET DOMAIN made[c] /\ pending[c] \subseteq outbox[c]
      /\ outbox' = [outbox EXCEPT ![c] = outbox[c]]
  BY <1>1 DEF TableTypes
<1>8. IF link[c] = "open"
      THEN /\ Sock(c) \in Socks /\ Sock(c) = <<c, conn[c]>>
           /\ Fits(reg, made[c], pending[c], inbox'[c], toServer[Sock(c)], work[Sock(c)])
      ELSE pending[c] = {}
  BY <1>1, <1>2, FitsLessMail DEF SocketsInOrder, OneAnswer, Sock
<1>9. \A n \in DOMAIN made[c] : n \in outbox[c] \/ reg[made[c][n].key].ts >= made[c][n].ts
  BY DEF NothingLost
<1>10. CASE msg.type # "broadcast"
  <2>1. PushOutbox(c, pending[c], outbox[c]) /\ UNCHANGED <<serverVars, conn, link, made>>
    BY <1>1, <1>10
  <2> QED
    BY <1>2, <1>5, <1>6, <1>7, <1>8, <1>9, <2>1, PushKeepsSync
<1>11. CASE msg.type = "broadcast"
  <2>1. UNCHANGED <<serverVars, conn, link, made, outbox, pending, toServer>>
    BY <1>1, <1>11
  <2>2. TableTypes'
    BY <1>6, <2>1 DEF TableTypes
  <2>3. toServer' \in [Socks -> Seq(Requests)]
    BY <2>1 DEF ServerTypes
  <2>4. \A t \in Socks : t[1] = c /\ t[2] > conn[c] => work[t] = Idle /\ toServer'[t] = << >>
    BY <2>1 DEF SocketsInOrder
  <2> QED
    BY <1>2, <1>5, <1>8, <1>9, <2>1, <2>2, <2>3, <2>4, ClientKeepsSync
<1> QED
  BY <1>10, <1>11

LEMMA CaptureKeepsSync ==
  ASSUME SyncInv, NEW c \in Clients, Capture(c)
  PROVE  SyncInv'
<1> USE DEF SyncInv
<1>1. /\ capture' = [capture EXCEPT ![c] = store[c]]
      /\ UNCHANGED <<reg, log, minSeq, seq, session, closed, work, toServer, cid, conn, link,
                     status, inbox, lastSync, pending, timer, store, made, outbox, draft>>
  BY DEF Capture, serverVars, localVars
<1>2. ClientTypes' /\ TableTypes'
  <2>1. capture' \in [Clients -> {Nothing} \cup [Keys -> Record]]
    BY <1>1 DEF ClientTypes, TableTypes
  <2> QED
    BY <1>1, <2>1 DEF ClientTypes, TableTypes
<1>3. ServerTypes' /\ SocketsInOrder' /\ OneAnswer' /\ NothingLost'
  BY <1>1 DEF ServerTypes, SocketsInOrder, OneAnswer, NothingLost, Sock
<1> QED
  BY <1>2, <1>3

\* A new connection: nothing is on its way yet, and nothing awaits an acknowledgement.
LEMMA ConnectKeepsSync ==
  ASSUME SyncInv, NEW c \in Clients, Connect(c)
  PROVE  SyncInv'
<1> USE DEF SyncInv
<1> DEFINE m == [type |-> "auth", cid |-> cid[c], since |-> lastSync[c]]
           t == <<c, conn[c] + 1>>
<1>1. /\ link[c] = "closed" /\ inbox[c] = << >> /\ conn[c] < MaxConns[c]
      /\ link' = [link EXCEPT ![c] = "open"] /\ conn' = [conn EXCEPT ![c] = @ + 1]
      /\ status' = [status EXCEPT ![c] = "connecting"]
      /\ toServer' = [toServer EXCEPT ![t] = << m >>]
      /\ UNCHANGED <<serverVars, seq, cid, inbox, capture, lastSync, pending, timer, store, made,
                     outbox, draft>>
  BY DEF Connect, serverVars, localVars
<1>2. conn[c] \in Nat /\ MaxConns[c] \in Nat /\ conn'[c] = conn[c] + 1
  BY <1>1, SyncAssumption DEF ClientTypes
<1>3. t \in Socks /\ t = <<c, conn'[c]>> /\ t[1] = c /\ t[2] = conn[c] + 1
  BY <1>1, <1>2, SocksArePairs
<1>4. m \in Requests /\ ~IsBatch(m)
  BY DEF Requests, ClientTypes, IsBatch, ServerTypes
<1> HIDE DEF m
<1>5. << m >> \in Seq(Requests) /\ Len(<< m >>) = 1 /\ << m >>[1] = m
  BY <1>4
<1>6. ClientTypes'
  <2>1. conn' \in [Clients -> Nat] /\ \A d \in Clients : conn'[d] <= MaxConns[d]
    BY <1>1, <1>2 DEF ClientTypes
  <2> QED
    BY <1>1, <2>1 DEF ClientTypes
<1>7. TableTypes'
  BY <1>1 DEF TableTypes
<1> HIDE DEF t
<1>8. /\ toServer' \in [Socks -> Seq(Requests)] /\ toServer'[t] = << m >>
      /\ \A u \in Socks : u # t => toServer'[u] = toServer[u]
  BY <1>1, <1>3, <1>5 DEF ServerTypes
<1>9. \A u \in Socks : u[1] # c => toServer'[u] = toServer[u]
  BY <1>3, <1>8
<1>10. ASSUME NEW u \in Socks, u[1] = c, u[2] > conn'[c]
       PROVE  work[u] = Idle /\ toServer'[u] = << >>
  <2>1. u[2] \in Int
    BY SocksArePairs
  <2>2. u # t /\ u[2] > conn[c]
    BY <1>2, <1>3, <1>10, <2>1
  <2> QED
    BY <1>8, <1>10, <2>2 DEF SocketsInOrder
<1>11. work[t] = Idle /\ pending[c] = {} /\ link'[c] = "open"
  <2>1. t[2] > conn[t[1]]
    BY <1>2, <1>3
  <2>2. link[c] # "open"
    BY <1>1
  <2> QED
    BY <1>1, <1>3, <2>1, <2>2 DEF SocketsInOrder, ClientTypes
<1>12. Fits(reg, made[c], {}, << >>, << m >>, Idle)
  <2>1. ~InHand(Idle) /\ \A i \in DOMAIN << m >> : ~IsBatch(<< m >>[i])
    BY <1>4, <1>5 DEF InHand, Idle
  <2> HIDE DEF Idle
  <2> QED
    BY <2>1 DEF Fits, InHand
<1>13. \A n \in DOMAIN made[c] : n \in outbox[c] \/ reg[made[c][n].key].ts >= made[c][n].ts
  BY DEF NothingLost
<1>14. \A d \in Clients : d # c => conn'[d] = conn[d] /\ link'[d] = link[d]
  BY <1>1 DEF ClientTypes
<1>15. /\ <<c, conn'[c]>> \in Socks
       /\ Fits(reg, made'[c], pending'[c], inbox'[c], toServer'[<<c, conn'[c]>>],
               work[<<c, conn'[c]>>])
  BY <1>1, <1>3, <1>8, <1>11, <1>12
<1>16. /\ UNCHANGED serverVars
       /\ \A d \in Clients : d # c =>
            /\ conn'[d] = conn[d] /\ link'[d] = link[d] /\ inbox'[d] = inbox[d]
            /\ made'[d] = made[d] /\ outbox'[d] = outbox[d] /\ pending'[d] = pending[d]
       /\ \A n \in DOMAIN made'[c] : n \in outbox'[c] \/ reg[made'[c][n].key].ts >= made'[c][n].ts
  BY <1>1, <1>13, <1>14
<1> HIDE DEF SyncInv
<1> QED
  BY <1>6, <1>7, <1>8, <1>9, <1>10, <1>11, <1>15, <1>16, ClientKeepsSync

\* A connection ends: with it what its client waited for.
LEMMA DisconnectKeepsSync ==
  ASSUME SyncInv, NEW c \in Clients, Disconnect(c)
  PROVE  SyncInv'
<1> USE DEF SyncInv
<1>1. /\ link' = [link EXCEPT ![c] = "closed"] /\ status' = [status EXCEPT ![c] = "disconnected"]
      /\ pending' = [pending EXCEPT ![c] = {}]
      /\ UNCHANGED <<serverVars, seq, toServer, cid, conn, capture, lastSync, timer, store, made,
                     outbox, draft>>
  BY DEF Disconnect, Released, serverVars, localVars
<1>2. PICK n \in 0..Len(inbox[c]) : inbox' = [inbox EXCEPT ![c] = SubSeq(@, 1, n)]
  BY DEF Disconnect
<1>3. inbox[c] \in Seq(Answers(seq))
  BY DEF ClientTypes
<1>4. SubSeq(inbox[c], 1, n) \in Seq(Answers(seq))
  BY <1>3, LenProperties, ElementOfSeq, SubSeqProperties
<1>5. ClientTypes'
  <2>1. inbox' \in [Clients -> Seq(Answers(seq))]
    BY <1>2, <1>4 DEF ClientTypes
  <2> QED
    BY <1>1, <2>1 DEF ClientTypes
<1>6. TableTypes'
  BY <1>1 DEF TableTypes
<1>7. /\ toServer' \in [Socks -> Seq(Requests)]
      /\ \A t \in Socks : t[1] = c /\ t[2] > conn[c] => work[t] = Idle /\ toServer'[t] = << >>
  BY <1>1 DEF ServerTypes, SocketsInOrder
<1>8. /\ link'[c] = "closed" /\ pending'[c] = {}
      /\ \A d \in Clients : d # c =>
           link'[d] = link[d] /\ pending'[d] = pending[d] /\ inbox'[d] = inbox[d]
  BY <1>1, <1>2 DEF ClientTypes, TableTypes
<1>9. \A n_1 \in DOMAIN made[c] : n_1 \in outbox[c] \/ reg[made[c][n_1].key].ts >= made[c][n_1].ts
  BY DEF NothingLost
<1> QED
  BY <1>1, <1>5, <1>6, <1>7, <1>8, <1>9, ClientKeepsSync

LEMMA ReloadKeepsSync ==
  ASSUME SyncInv, NEW c \in Clients, Reload(c)
  PROVE  SyncInv'
<1> USE DEF SyncInv
<1>1. /\ link' = [link EXCEPT ![c] = "closed"] /\ status' = [status EXCEPT ![c] = "disconnected"]
      /\ inbox' = [inbox EXCEPT ![c] = << >>] /\ capture' = [capture EXCEPT ![c] = Nothing]
      /\ pending' = [pending EXCEPT ![c] = {}] /\ timer' = [timer EXCEPT ![c] = FALSE]
      /\ draft' = [draft EXCEPT ![c] = Nothing]
      /\ UNCHANGED <<serverVars, seq, toServer, conn, lastSync, store, made, outbox>>
  BY DEF Reload, serverVars
<1>2. PICK rank \in RankOf[c] : cid' = [cid EXCEPT ![c] = rank]
  BY DEF Reload
<1>3. rank \in Nat
  BY SyncAssumption
<1>4. ClientTypes'
  <2>1. inbox' \in [Clients -> Seq(Answers(seq))]
    BY <1>1 DEF ClientTypes
  <2>2. cid' \in [Clients -> Nat] /\ \A d \in Clients : cid'[d] \in RankOf[d]
    BY <1>2, <1>3 DEF ClientTypes
  <2> QED
    BY <1>1, <2>1, <2>2 DEF ClientTypes
<1>5. TableTypes'
  BY <1>1 DEF TableTypes
<1>6. /\ toServer' \in [Socks -> Seq(Requests)]
      /\ \A t \in Socks : t[1] = c /\ t[2] > conn[c] => work[t] = Idle /\ toServer'[t] = << >>
  BY <1>1 DEF ServerTypes, SocketsInOrder
<1>7. /\ link'[c] = "closed" /\ pending'[c] = {}
      /\ \A d \in Clients : d # c =>
           link'[d] = link[d] /\ pending'[d] = pending[d] /\ inbox'[d] = inbox[d]
  BY <1>1 DEF ClientTypes, TableTypes
<1>8. \A n \in DOMAIN made[c] : n \in outbox[c] \/ reg[made[c][n].key].ts >= made[c][n].ts
  BY DEF NothingLost
<1> QED
  BY <1>1, <1>4, <1>5, <1>6, <1>7, <1>8, ClientKeepsSync

-----------------------------------------------------------------------------
(* The theorems                                                            *)

LEMMA NextKeepsSync == SyncInv /\ [Next]_vars => SyncInv'
<1> SUFFICES ASSUME SyncInv, [Next]_vars PROVE SyncInv'
  OBVIOUS
<1>1. ASSUME NEW c \in Clients, ClientNext(c) PROVE SyncInv'
  BY <1>1, DraftKeepsSync, CommitLocalKeepsSync, FireTimerKeepsSync, ConnectKeepsSync,
     DisconnectKeepsSync, ReloadKeepsSync, HandleAuthSuccessKeepsSync, HandleAckKeepsSync,
     CaptureKeepsSync, HandleChangesKeepsSync DEF ClientNext
<1>2. ASSUME NEW s \in Socks, ServerNext(s) PROVE SyncInv'
  BY <1>2, RecvAuthKeepsSync, SendingKeepsSync, RecvBatchKeepsSync, RefuseBatchKeepsSync,
     ApplyKeepsSync, ReturnSeqKeepsSync, HangupKeepsSync DEF ServerNext
<1>3. ASSUME NEW n \in 1..(seq - 1), Prune(n) PROVE SyncInv'
  BY <1>3, PruneKeepsSync
<1>4. CASE UNCHANGED vars
  BY <1>4 DEF vars, serverVars, localVars, SyncInv, ServerTypes, ClientTypes, TableTypes,
              SocketsInOrder, OneAnswer, NothingLost, Sock
<1> QED
  BY <1>1, <1>2, <1>3, <1>4 DEF Next

\* The invariant of two-way sync (server/sync.ts, client/sync/sync.ts and
\* client/storage/storage.ts): sockets are in order, and the batch that a client waits for
\* is at most once on its way, in hand or acknowledged.
THEOREM SyncWellKept == Spec => []SyncInv
<1> QED
  BY InitSync, NextKeepsSync, PTL DEF Spec

\* Every variable has its type, the server's numbers are those it has given out, and the
\* outbox and the batch that awaits its acknowledgement are made of the client's changes.
THEOREM SyncTypes == Spec => []TypeOK
<1>1. SyncInv => TypeOK
  <2> SUFFICES ASSUME SyncInv PROVE TypeOK
    OBVIOUS
  <2> USE DEF SyncInv
  <2>1. \A e \in log : e.key \in Keys /\ e.seq \in minSeq..seq
    BY DEF ServerTypes, Wire
  <2>2. /\ reg \in [Keys -> Record] /\ seq \in Nat /\ minSeq \in 0..seq
        /\ session \in [Socks -> Nat] /\ closed \subseteq Socks
        /\ DOMAIN work = Socks /\ DOMAIN toServer = Socks
    BY DEF ServerTypes
  <2>3. /\ link \in [Clients -> {"open", "closed"}]
        /\ status \in [Clients -> {"disconnected", "connecting", "connected"}]
        /\ timer \in [Clients -> BOOLEAN] /\ lastSync \in [Clients -> 0..seq]
        /\ \A c \in Clients : cid[c] \in RankOf[c]
    BY DEF ClientTypes
  <2>4. ASSUME NEW c \in Clients
        PROVE  /\ made[c] \in Seq(ChangeOf) /\ pending[c] \subseteq outbox[c]
               /\ outbox[c] \subseteq DOMAIN made[c] /\ store[c] \in [Keys -> Record]
               /\ \A k \in Keys : store[c][k].op # "delete"
    BY DEF TableTypes
  <2> QED
    BY <2>1, <2>2, <2>3, <2>4 DEF TypeOK
<1> QED
  BY <1>1, SyncWellKept, PTL

\* No write is ever lost on its way, for any number of clients, connections that fail at any
\* moment, page loads, prunings and batches (client/sync/sync.ts, pushOutbox and handleAck):
\* it is in its client's outbox until the server's record is as recent.
THEOREM NoWriteIsLost == Spec => []NothingLost
<1>1. SyncInv => NothingLost
  BY DEF SyncInv
<1> QED
  BY <1>1, SyncWellKept, PTL

-----------------------------------------------------------------------------
(* When clients only put                                                   *)

\* What the server sends deletes nothing.
LEMMA SendKeepsLive ==
  ASSUME SyncInv, NothingDeleted, NEW s \in Socks, NEW w, LiveWork(w),
         work' = [work EXCEPT ![s] = w], UNCHANGED <<reg, log>>,
         NEW msgs \in [Socks -> Seq(Answers(seq))], SendAll(msgs),
         \A t \in Socks : LiveMail(msgs[t])
  PROVE  NothingDeleted'
<1>1. ASSUME NEW t \in Socks PROVE LiveWork(work'[t])
  BY DEF SyncInv, ServerTypes, NothingDeleted
<1>2. ASSUME NEW c \in Clients PROVE LiveMail(inbox'[c])
  <2>1. inbox[c] \in Seq(Answers(seq)) /\ LiveMail(inbox[c])
    BY DEF SyncInv, ClientTypes, NothingDeleted
  <2>2. CASE IsOpen(<<c, conn[c]>>)
    <3>1. <<c, conn[c]>> \in Socks
      BY <2>2 DEF SyncInv, SocketsInOrder, IsOpen, Sock
    <3>2. PICK more \in Seq(Answers(seq)) : LiveMail(more) /\ inbox'[c] = inbox[c] \o more
      BY <2>2, <3>1 DEF SendAll
    <3> DEFINE all == inbox[c] \o more
    <3>3. /\ DOMAIN all = 1..(Len(inbox[c]) + Len(more)) /\ Len(inbox[c]) \in Nat /\ Len(more) \in Nat
          /\ DOMAIN inbox[c] = 1..Len(inbox[c]) /\ DOMAIN more = 1..Len(more)
          /\ \A i \in DOMAIN all : all[i] = IF i <= Len(inbox[c]) THEN inbox[c][i]
                                            ELSE more[i - Len(inbox[c])]
      BY <2>1, ConcatProperties, LenProperties
    <3> HIDE DEF all
    <3>4. \A i \in DOMAIN all : \/ i \in DOMAIN inbox[c] /\ all[i] = inbox[c][i]
                                \/ \E j \in DOMAIN more : all[i] = more[j]
      <4> SUFFICES ASSUME NEW i \in DOMAIN all, ~(i <= Len(inbox[c]))
                   PROVE  i - Len(inbox[c]) \in DOMAIN more
        BY <3>3
      <4> QED
        BY <3>3
    <3>5. LiveMail(all)
      BY <2>1, <3>2, <3>4 DEF LiveMail
    <3> QED
      BY <3>2, <3>5 DEF all
  <2>3. CASE ~IsOpen(<<c, conn[c]>>)
    BY <2>1, <2>3 DEF SendAll
  <2> QED
    BY <2>2, <2>3
<1> QED
  BY <1>1, <1>2 DEF NothingDeleted

LEMMA SendOneKeepsLive ==
  ASSUME SyncInv, NothingDeleted, NEW s \in Socks, NEW w, LiveWork(w),
         work' = [work EXCEPT ![s] = w], UNCHANGED <<reg, log>>,
         NEW m \in Answers(seq), Send(s, << m >>), News(m) => Live(m.changes)
  PROVE  NothingDeleted'
<1> DEFINE msgs == [t \in Socks |-> IF t = s THEN << m >> ELSE << >>]
<1>1. msgs \in [Socks -> Seq(Answers(seq))]
  OBVIOUS
<1>2. \A t \in Socks : LiveMail(msgs[t])
  BY DEF LiveMail
<1>3. SendAll(msgs)
  BY DEF Send
<1> HIDE DEF msgs
<1> QED
  BY <1>1, <1>2, <1>3, SendKeepsLive

\* What is told of a record is live when the record is.
LEMMA ToldIsLive ==
  ASSUME SyncInv, NothingDeleted, NEW k \in Keys, NEW n
  PROVE  Told(k, n).op # "delete" /\ (Told(k, n).op = "none" => Told(k, n).ts = 0)
BY DEF Told, SyncInv, ServerTypes, NothingDeleted

LEMMA AfterIsLive ==
  ASSUME SyncInv, NEW s \in Socks, work[s].pc \in {"ack", "reconcile"}, LiveWork(work[s])
  PROVE  LiveWork(After(work[s])) /\ LiveWork(Idle)
<1>1. PICK w \in Works(seq) : w = work[s]
  BY WorkIs DEF SyncInv
<1>2. w \in [pc : {"ack", "reconcile", "broadcast"}, seq : 0..seq,
             applied : SUBSET Wire(seq), skipped : SUBSET Keys]
  BY <1>1 DEF Works, Idle
<1> DEFINE r == [w EXCEPT !.pc = "reconcile"]
           b == [w EXCEPT !.pc = "broadcast"]
<1>3. Live(w.applied)
  BY <1>1 DEF LiveWork
<1>4. /\ r.pc = "reconcile" /\ r.applied = w.applied
      /\ b.pc = "broadcast" /\ b.applied = w.applied
  BY <1>2
<1>5. After(w) \in {r, b, Idle}
  BY DEF After
<1> HIDE DEF r, b
<1>6. LiveWork(r) /\ LiveWork(b)
  BY <1>3, <1>4 DEF LiveWork
<1>7. LiveWork(Idle)
  BY DEF LiveWork, Idle
<1> QED
  BY <1>1, <1>5, <1>6, <1>7

LEMMA SendingKeepsLive ==
  ASSUME SyncInv, NothingDeleted, NEW s \in Socks,
         ReadSync(s) \/ SendDiff(s) \/ SendSnapshot(s) \/ SendAck(s) \/ Reconcile(s)
         \/ Broadcast(s)
  PROVE  NothingDeleted'
<1>1. ServerTypes /\ LiveWork(work[s]) /\ LiveWork(Idle)
  <2>1. LiveWork(Idle)
    BY DEF LiveWork, Idle
  <2> QED
    BY <2>1 DEF SyncInv, NothingDeleted
<1>2. CASE ReadSync(s)
  <2> DEFINE since == work[s].since
             w == IF since = 0 \/ IsSnapshotRequired(since) THEN [pc |-> "snapshot", seq |-> seq]
                  ELSE [pc |-> "diff", seq |-> seq, changes |-> ChangesSince(since)]
             m == [type |-> "authSuccess"]
  <2>1. LiveWork(w)
    BY DEF LiveWork, Live, NothingDeleted, ChangesSince
  <2>2. m \in Answers(seq) /\ ~News(m)
    BY DEF Answers, News
  <2> HIDE DEF w
  <2>3. /\ work' = [work EXCEPT ![s] = w] /\ Send(s, << m >>) /\ UNCHANGED <<reg, log>>
    BY <1>2 DEF ReadSync, w
  <2> HIDE DEF m
  <2> QED
    BY <2>1, <2>2, <2>3, SendOneKeepsLive
<1>3. CASE SendDiff(s)
  <2> DEFINE m == [type |-> "diff", changes |-> work[s].changes, seq |-> work[s].seq]
  <2>1. m \in Answers(seq) /\ Live(m.changes)
    BY <1>1, <1>3, WorkIs DEF SendDiff, Answers, LiveWork
  <2>2. /\ work' = [work EXCEPT ![s] = Idle] /\ Send(s, << m >>) /\ UNCHANGED <<reg, log>>
    BY <1>3 DEF SendDiff
  <2> HIDE DEF m
  <2> QED
    BY <1>1, <2>1, <2>2, SendOneKeepsLive
<1>4. CASE SendSnapshot(s)
  <2> DEFINE told == {Told(k, 0) : k \in {j \in Keys : reg[j].op = "put"}}
             m == [type |-> "snapshot", seq |-> work[s].seq, changes |-> told]
  <2>1. told \in SUBSET Wire(seq) /\ Live(told)
    <3>1. 0 \in 0..seq
      BY <1>1 DEF ServerTypes
    <3> QED
      BY <1>1, <3>1, ToldIsWire, ToldIsLive DEF Live
  <2> HIDE DEF told
  <2>2. m \in Answers(seq) /\ Live(m.changes)
    BY <1>1, <1>4, <2>1, WorkIs DEF SendSnapshot, Answers
  <2>3. /\ work' = [work EXCEPT ![s] = Idle] /\ Send(s, << m >>) /\ UNCHANGED <<reg, log>>
    BY <1>4 DEF SendSnapshot, told
  <2> HIDE DEF m
  <2> QED
    BY <1>1, <2>2, <2>3, SendOneKeepsLive
<1>5. CASE SendAck(s)
  <2> DEFINE m == [type |-> "ack", seq |-> work[s].seq]
  <2>1. m \in Answers(seq) /\ ~News(m)
    BY <1>1, <1>5, WorkIs DEF SendAck, Answers, News
  <2>2. /\ work' = [work EXCEPT ![s] = After(work[s])] /\ Send(s, << m >>)
        /\ UNCHANGED <<reg, log>> /\ work[s].pc = "ack"
    BY <1>5 DEF SendAck
  <2>3. LiveWork(After(work[s]))
    BY <1>1, <2>2, AfterIsLive
  <2> HIDE DEF m
  <2> QED
    BY <2>1, <2>2, <2>3, SendOneKeepsLive
<1>6. CASE Reconcile(s)
  <2> DEFINE told == {Told(k, work[s].seq) : k \in work[s].skipped}
             m == [type |-> "diff", seq |-> work[s].seq, changes |-> told]
  <2>1. work[s].seq \in 0..seq /\ work[s].skipped \in SUBSET Keys
    BY <1>1, <1>6, WorkIs DEF Reconcile
  <2>2. told \in SUBSET Wire(seq) /\ Live(told)
    BY <1>1, <2>1, ToldIsWire, ToldIsLive DEF Live
  <2> HIDE DEF told
  <2>3. m \in Answers(seq) /\ Live(m.changes)
    BY <2>1, <2>2 DEF Answers
  <2>4. /\ work' = [work EXCEPT ![s] = After(work[s])] /\ Send(s, << m >>)
        /\ UNCHANGED <<reg, log>> /\ work[s].pc = "reconcile"
    BY <1>6 DEF Reconcile, told
  <2>5. LiveWork(After(work[s]))
    BY <1>1, <2>4, AfterIsLive
  <2> HIDE DEF m
  <2> QED
    BY <2>3, <2>4, <2>5, SendOneKeepsLive
<1>7. CASE Broadcast(s)
  <2> DEFINE msg == [type |-> "broadcast", changes |-> work[s].applied, seq |-> work[s].seq]
             msgs == [t \in Socks |-> IF t # s /\ session[t] # 0 THEN << msg >> ELSE << >>]
  <2>1. msg \in Answers(seq) /\ Live(msg.changes)
    BY <1>1, <1>7, WorkIs DEF Broadcast, Answers, LiveWork
  <2> HIDE DEF msg
  <2>2. msgs \in [Socks -> Seq(Answers(seq))] /\ \A t \in Socks : LiveMail(msgs[t])
    BY <2>1 DEF LiveMail
  <2> HIDE DEF msgs
  <2>3. SendAll(msgs) /\ work' = [work EXCEPT ![s] = Idle] /\ UNCHANGED <<reg, log>>
    BY <1>7 DEF Broadcast, msgs, msg
  <2> QED
    BY <1>1, <2>2, <2>3, SendKeepsLive
<1> QED
  BY <1>2, <1>3, <1>4, <1>5, <1>6, <1>7

\* When all changes of a batch are puts, so are those that are applied and what they leave.
LEMMA ApplyKeepsLive ==
  ASSUME SyncInv, NothingDeleted, Ops \subseteq {"put"}, NEW s \in Socks, Apply(s)
  PROVE  NothingDeleted'
<1> DEFINE batch == work[s].batch
           applied == {[key |-> batch[i].key, op |-> batch[i].op, ts |-> batch[i].ts,
                        cid |-> batch[i].cid, seq |-> SeqAt(reg, batch, seq, i)] :
                         i \in AppliedAt(reg, batch)}
           w == [pc |-> "resolve", applied |-> applied,
                 skipped |-> {batch[i].key : i \in DOMAIN batch} \ {e.key : e \in applied}]
<1>1. /\ work[s].pc = "apply" /\ work' = [work EXCEPT ![s] = w] /\ reg' = Merge(reg, batch)
      /\ log' = log \cup applied /\ UNCHANGED inbox
  BY DEF Apply
<1>2. batch \in Seq(Stamped)
  BY <1>1, WorkIs DEF SyncInv
<1>3. \A i \in DOMAIN batch : batch[i].op = "put"
  <2>1. \A i \in DOMAIN batch : batch[i] \in Stamped
    BY <1>2, LenProperties, ElementOfSeq
  <2> QED
    BY <2>1 DEF Stamped
<1> HIDE DEF batch
<1>4. \A i \in AppliedAt(reg, batch) : i \in DOMAIN batch
  BY DEF AppliedAt
<1>5. Live(applied)
  BY <1>3, <1>4 DEF Live
<1>6. w.pc = "resolve" /\ w.applied = applied
  OBVIOUS
<1> HIDE DEF applied, w
<1>7. LiveWork(w)
  BY <1>5, <1>6 DEF LiveWork
<1>8. ASSUME NEW k \in Keys PROVE reg'[k].op # "delete"
  <2>1. k \in DOMAIN reg
    BY DEF SyncInv, ServerTypes
  <2>2. CASE AppliedTo(reg, batch, k) = {}
    BY <1>1, <2>1, <2>2 DEF Merge, NothingDeleted
  <2>3. CASE AppliedTo(reg, batch, k) # {}
    <3>1. PICK i \in AppliedTo(reg, batch, k) : reg'[k] = RecordOf(batch[i])
      BY <1>1, <1>2, <2>1, <2>3, LastApplied DEF Merge
    <3>2. i \in DOMAIN batch
      BY <1>4, <3>1 DEF AppliedTo
    <3> QED
      BY <1>3, <3>1, <3>2 DEF RecordOf
  <2> QED
    BY <2>2, <2>3
<1>9. \A t \in Socks : LiveWork(work'[t])
  BY <1>1, <1>7 DEF SyncInv, ServerTypes, NothingDeleted
<1>10. Live(log')
  BY <1>1, <1>5 DEF NothingDeleted, Live
<1> QED
  BY <1>1, <1>8, <1>9, <1>10 DEF NothingDeleted

\* The other handlers send nothing.
LEMMA HandlersKeepLive ==
  ASSUME SyncInv, NothingDeleted, NEW s \in Socks,
         RecvAuth(s) \/ RecvBatch(s) \/ RefuseBatch(s) \/ ReturnSeq(s) \/ Hangup(s)
  PROVE  NothingDeleted'
<1>1. UNCHANGED <<reg, log, inbox>>
  BY DEF RecvAuth, RecvBatch, RefuseBatch, ReturnSeq, Hangup, serverVars
<1>2. \E w : LiveWork(w) /\ (work' = work \/ work' = [work EXCEPT ![s] = w])
  <2>1. LiveWork(work[s])
    BY DEF NothingDeleted
  <2>2. CASE RecvAuth(s)
    <3> DEFINE w == [pc |-> "sync", since |-> Head(toServer[s]).since]
    <3>1. work' = [work EXCEPT ![s] = w] /\ LiveWork(w)
      BY <2>2 DEF RecvAuth, LiveWork
    <3> QED
      BY <3>1
  <2>3. CASE RecvBatch(s)
    <3>1. PICK b : work' = [work EXCEPT ![s] = [pc |-> "apply", batch |-> b]]
      BY <2>3 DEF RecvBatch
    <3>2. LiveWork([pc |-> "apply", batch |-> b])
      BY DEF LiveWork
    <3> QED
      BY <3>1, <3>2
  <2>4. CASE ReturnSeq(s)
    <3> DEFINE w == [pc |-> "ack", seq |-> seq, applied |-> work[s].applied,
                     skipped |-> work[s].skipped]
    <3>1. work' = [work EXCEPT ![s] = w] /\ LiveWork(w)
      BY <2>1, <2>4 DEF ReturnSeq, LiveWork
    <3> QED
      BY <3>1
  <2>5. CASE RefuseBatch(s) \/ Hangup(s)
    BY <2>1, <2>5 DEF RefuseBatch, Hangup, serverVars
  <2> QED
    BY <2>2, <2>3, <2>4, <2>5
<1>3. \A t \in Socks : LiveWork(work'[t])
  BY <1>2 DEF SyncInv, ServerTypes, NothingDeleted
<1> QED
  BY <1>1, <1>3 DEF NothingDeleted

\* A client loses of its inbox what it has handled, or what did not arrive.
LEMMA ClientKeepsLive ==
  ASSUME SyncInv, NothingDeleted, NEW c \in Clients, ClientNext(c)
  PROVE  NothingDeleted'
<1>1. UNCHANGED serverVars
  BY DEF ClientNext, Draft, CommitLocal, FireTimer, Connect, Disconnect, Reload,
         HandleAuthSuccess, HandleAck, Capture, HandleChanges
<1>2. inbox[c] \in Seq(Answers(seq)) /\ LiveMail(inbox[c])
  BY DEF SyncInv, ClientTypes, NothingDeleted
<1>3. \E mail : LiveMail(mail) /\ inbox' = [inbox EXCEPT ![c] = mail]
  <2>1. CASE UNCHANGED inbox
    <3>1. inbox' = [inbox EXCEPT ![c] = inbox[c]]
      BY <2>1 DEF SyncInv, ClientTypes
    <3> QED
      BY <1>2, <3>1
  <2>2. CASE Reload(c)
    <3>1. inbox' = [inbox EXCEPT ![c] = << >>] /\ LiveMail(<< >>)
      BY <2>2 DEF Reload, LiveMail
    <3> QED
      BY <3>1
  <2>3. CASE Disconnect(c)
    <3>1. PICK n \in 0..Len(inbox[c]) : inbox' = [inbox EXCEPT ![c] = SubSeq(@, 1, n)]
      BY <2>3 DEF Disconnect
    <3>2. LiveMail(SubSeq(inbox[c], 1, n))
      BY <1>2, LenProperties, SubSeqProperties DEF LiveMail
    <3> QED
      BY <3>1, <3>2
  <2>4. CASE inbox[c] # << >> /\ Received(c)
    <3>1. inbox' = [inbox EXCEPT ![c] = Tail(@)]
      BY <2>4 DEF Received
    <3>2. /\ DOMAIN Tail(inbox[c]) = 1..(Len(inbox[c]) - 1) /\ Len(inbox[c]) \in Nat
          /\ DOMAIN inbox[c] = 1..Len(inbox[c])
          /\ \A i \in 1..(Len(inbox[c]) - 1) : Tail(inbox[c])[i] = inbox[c][i+1]
      BY <1>2, <2>4, HeadTailProperties, LenProperties
    <3>3. \A i \in DOMAIN Tail(inbox[c]) :
            i+1 \in DOMAIN inbox[c] /\ Tail(inbox[c])[i] = inbox[c][i+1]
      BY <3>2
    <3>4. LiveMail(Tail(inbox[c]))
      BY <1>2, <3>3 DEF LiveMail
    <3> QED
      BY <3>1, <3>4
  <2>5. CASE HandleAuthSuccess(c) \/ HandleAck(c) \/ HandleChanges(c)
    BY <2>4, <2>5 DEF HandleAuthSuccess, HandleAck, HandleChanges, Receives
  <2>6. CASE FireTimer(c) \/ Connect(c) \/ Capture(c) \/ CommitLocal(c)
    BY <2>1, <2>6 DEF FireTimer, Connect, Capture, CommitLocal
  <2>7. CASE \E k \in Keys, op \in Ops, now \in 1..MaxTs : Draft(c, k, op, now)
    BY <2>1, <2>7 DEF Draft
  <2> QED
    BY <2>2, <2>3, <2>5, <2>6, <2>7 DEF ClientNext
<1>4. \A d \in Clients : LiveMail(inbox'[d])
  BY <1>3 DEF SyncInv, ClientTypes, NothingDeleted
<1> QED
  BY <1>1, <1>4 DEF NothingDeleted, serverVars

LEMMA NextKeepsLive ==
  SyncInv /\ NothingDeleted /\ Ops \subseteq {"put"} /\ [Next]_vars => NothingDeleted'
<1> SUFFICES ASSUME SyncInv, NothingDeleted, Ops \subseteq {"put"}, [Next]_vars
             PROVE  NothingDeleted'
  OBVIOUS
<1>1. ASSUME NEW c \in Clients, ClientNext(c) PROVE NothingDeleted'
  BY <1>1, ClientKeepsLive
<1>2. ASSUME NEW s \in Socks, ServerNext(s) PROVE NothingDeleted'
  BY <1>2, SendingKeepsLive, ApplyKeepsLive, HandlersKeepLive DEF ServerNext
<1>3. ASSUME NEW n \in 1..(seq - 1), Prune(n) PROVE NothingDeleted'
  BY <1>3 DEF Prune, NothingDeleted, Live
<1>4. CASE UNCHANGED vars
  BY <1>4 DEF vars, serverVars, NothingDeleted
<1> QED
  BY <1>1, <1>2, <1>3, <1>4 DEF Next

\* Each record after a remote batch is what it was, or what beats what was captured.
LEMMA OverwrittenBeats ==
  ASSUME NEW now, NEW existing, NEW n \in Nat, NEW changes \in SUBSET Wire(n), NEW k \in Keys
  PROVE  LET after == Overwritten(now, existing, changes)[k]
         IN  \/ after = now[k]
             \/ \E e \in changes :
                  /\ e.key = k /\ ShouldOverwrite(e, existing[k])
                  /\ after = IF e.op = "delete" THEN NoRecord ELSE RecordOf(e)
<1> DEFINE wins == {e \in changes : e.key = k /\ ShouldOverwrite(e, existing[k])}
           last == CHOOSE e \in wins : \A f \in wins : f.seq <= e.seq
<1>1. Overwritten(now, existing, changes)[k]
        = IF wins = {} THEN now[k]
          ELSE IF last.op = "delete" THEN NoRecord ELSE RecordOf(last)
  BY DEF Overwritten
<1>2. wins \in SUBSET Wire(n)
  OBVIOUS
<1> HIDE DEF wins
<1>3. CASE wins = {}
  BY <1>1, <1>3
<1>4. CASE wins # {}
  <2>1. last \in wins
    BY <1>2, <1>4, HasLast
  <2> HIDE DEF last
  <2>2. last \in changes /\ last.key = k /\ ShouldOverwrite(last, existing[k])
    BY <2>1 DEF wins
  <2>3. Overwritten(now, existing, changes)[k]
          = IF last.op = "delete" THEN NoRecord ELSE RecordOf(last)
    BY <1>1, <1>4
  <2> QED
    BY <2>2, <2>3
<1> QED
  BY <1>3, <1>4

\* Of three changes the last beats the first when it beats the one between.
LEMMA BeatsAreTransitive ==
  ASSUME NEW x, NEW y, NEW z, y.op # "none", z.op # "none",
         x.ts \in Int, y.ts \in Int, z.ts \in Int, x.cid \in Int, y.cid \in Int, z.cid \in Int,
         ShouldOverwrite(x, y), ShouldOverwrite(y, z)
  PROVE  ShouldOverwrite(x, z)
BY DEF ShouldOverwrite

\* The changes of a client, as they were made.
LEMMA MadeIs ==
  ASSUME SyncInv, NEW c \in Clients
  PROVE  \A n \in outbox[c] :
           /\ n \in DOMAIN made[c] /\ made[c][n].key \in Keys /\ made[c][n].op \in Ops
           /\ made[c][n].ts \in Nat /\ made[c][n].ts >= 1 /\ made[c][n].cid \in Nat
<1> SUFFICES ASSUME NEW n \in outbox[c]
             PROVE  /\ n \in DOMAIN made[c] /\ made[c][n].key \in Keys /\ made[c][n].op \in Ops
                    /\ made[c][n].ts \in Nat /\ made[c][n].ts >= 1 /\ made[c][n].cid \in Nat
  OBVIOUS
<1>1. n \in DOMAIN made[c] /\ made[c] \in Seq(ChangeOf)
  BY DEF SyncInv, TableTypes
<1>2. made[c][n] \in ChangeOf
  BY <1>1, LenProperties, ElementOfSeq
<1> QED
  BY <1>1, <1>2, SyncAssumption DEF ChangeOf

\* A change is worked out after what the table shows.
LEMMA DraftInView ==
  ASSUME SyncInv, TableInView, Ops \subseteq {"put"}, NEW c \in Clients, NEW k \in Keys,
         NEW op \in Ops, NEW now \in 1..MaxTs, Draft(c, k, op, now)
  PROVE  InView(made[c], outbox[c], store[c], capture[c], draft'[c])
<1> DEFINE existing == store[c][k]
           ts == IF now > existing.ts THEN now ELSE existing.ts + 1
<1>1. draft'[c] = [key |-> k, op |-> op, ts |-> ts, cid |-> cid[c]]
  BY DEF Draft, SyncInv, ClientTypes
<1>2. existing.ts \in Nat /\ now \in Int
  <2>1. existing \in Record
    BY DEF SyncInv, TableTypes
  <2> QED
    BY <2>1, SyncAssumption DEF Record
<1>3. InView(made[c], outbox[c], store[c], capture[c], draft[c])
  BY DEF TableInView
<1>4. ASSUME NEW n \in outbox[c], made[c][n].key = k PROVE made[c][n].ts < ts
  <2>1. ShouldOverwrite(existing, made[c][n]) /\ made[c][n].ts \in Nat /\ made[c][n].op # "none"
    BY <1>3, <1>4, MadeIs DEF InView
  <2> HIDE DEF existing
  <2>2. existing.ts >= made[c][n].ts
    BY <1>2, <2>1 DEF ShouldOverwrite
  <2> QED
    BY <1>2, <2>1, <2>2
<1>5. draft'[c].key = k /\ draft'[c].ts = ts
  BY <1>1
<1> HIDE DEF ts, existing
<1> QED
  BY <1>3, <1>4, <1>5 DEF InView

\* Once it is made it is what the table shows, and beats what the outbox had.
LEMMA CommitInView ==
  ASSUME SyncInv, TableInView, Ops \subseteq {"put"}, ~WritesBetween, NEW c \in Clients,
         CommitLocal(c)
  PROVE  InView(made'[c], outbox'[c], store'[c], capture'[c], draft'[c])
<1> DEFINE change == draft[c]
           size == Len(made[c])
<1>1. /\ change # Nothing /\ capture'[c] = Nothing /\ draft'[c] = Nothing
      /\ store'[c] = [store[c] EXCEPT ![change.key] =
                        IF change.op = "delete" THEN NoRecord ELSE RecordOf(change)]
      /\ made'[c] = Append(made[c], change) /\ outbox'[c] = outbox[c] \cup {size + 1}
  BY DEF CommitLocal, SyncInv, ClientTypes, TableTypes
<1>2. change \in ChangeOf /\ made[c] \in Seq(ChangeOf) /\ store[c] \in [Keys -> Record]
  BY <1>1 DEF SyncInv, ClientTypes, TableTypes
<1>3. InView(made[c], outbox[c], store[c], capture[c], change)
  BY DEF TableInView
<1> HIDE DEF change
<1>4. /\ change.key \in Keys /\ change.op = "put" /\ change.ts \in Nat /\ change.cid \in Nat
  <2>1. change.key \in Keys /\ change.op \in Ops /\ change.ts \in 1..MaxTs /\ change.cid \in Nat
    BY <1>2 DEF ChangeOf
  <2>2. MaxTs \in Nat
    BY SyncAssumption
  <2>3. change.op = "put"
    BY <2>1, Zenon
  <2> QED
    BY <2>1, <2>2, <2>3
<1>5. /\ size \in Nat /\ made'[c][size + 1] = change /\ DOMAIN made[c] = 1..size
      /\ \A n \in DOMAIN made[c] : made'[c][n] = made[c][n]
  BY <1>1, <1>2, AppendProperties, LenProperties
<1>6. /\ \A k \in Keys : k # change.key => store'[c][k] = store[c][k]
      /\ store'[c][change.key] = RecordOf(change)
  BY <1>1, <1>2, <1>4
<1>7. RecordOf(change).op = "put" /\ RecordOf(change).ts = change.ts /\ RecordOf(change).cid = change.cid
  BY <1>4 DEF RecordOf
<1>8. \A k \in Keys : store'[c][k].op = "none" => store'[c][k].ts = 0
  BY <1>3, <1>6, <1>7 DEF InView
<1>9. ASSUME NEW n \in outbox'[c]
      PROVE  ShouldOverwrite(store'[c][made'[c][n].key], made'[c][n])
  <2>1. CASE n = size + 1
    BY <1>4, <1>5, <1>6, <1>7, <2>1 DEF ShouldOverwrite
  <2>2. CASE n \in outbox[c]
    <3>1. /\ n \in DOMAIN made[c] /\ made[c][n].key \in Keys /\ made[c][n].op = "put"
          /\ made[c][n].ts \in Nat
      BY <2>2, MadeIs
    <3>2. made'[c][n] = made[c][n]
      BY <1>5, <3>1
    <3>3. CASE made[c][n].key = change.key
      BY <1>1, <1>3, <1>4, <1>6, <1>7, <2>2, <3>1, <3>2, <3>3 DEF InView, ShouldOverwrite
    <3>4. CASE made[c][n].key # change.key
      BY <1>3, <1>6, <2>2, <3>1, <3>2, <3>4 DEF InView
    <3> QED
      BY <3>3, <3>4
  <2> QED
    BY <1>1, <1>9, <2>1, <2>2
<1> QED
  BY <1>1, <1>8, <1>9 DEF InView

\* What comes from the server only takes the place of what it beats.
LEMMA ChangesInView ==
  ASSUME SyncInv, NothingDeleted, TableInView, Ops \subseteq {"put"}, NEW c \in Clients,
         HandleChanges(c)
  PROVE  InView(made[c], outbox[c], store'[c], capture'[c], draft[c])
<1> DEFINE msg == Head(inbox[c])
<1>1. /\ inbox[c] # << >> /\ News(msg) /\ (capture[c] # Nothing \/ msg.changes = {})
      /\ store'[c] = Overwritten(store[c], capture[c], msg.changes)
      /\ capture'[c] = Nothing
  BY DEF HandleChanges, Receives, News, SyncInv, ClientTypes, TableTypes
<1>2. inbox[c] \in Seq(Answers(seq)) /\ LiveMail(inbox[c]) /\ seq \in Nat
  BY DEF SyncInv, ClientTypes, ServerTypes, NothingDeleted
<1>3. msg \in Answers(seq) /\ msg = inbox[c][1] /\ 1 \in DOMAIN inbox[c]
  <2>1. msg \in Answers(seq)
    BY <1>1, <1>2, HeadTailProperties
  <2>2. Len(inbox[c]) \in Nat /\ Len(inbox[c]) # 0 /\ DOMAIN inbox[c] = 1..Len(inbox[c])
    BY <1>1, <1>2, LenProperties, EmptySeq
  <2> QED
    BY <2>1, <2>2
<1> HIDE DEF msg
<1>4. msg.changes \in SUBSET Wire(seq) /\ Live(msg.changes)
  BY <1>1, <1>2, <1>3 DEF Answers, News, LiveMail
<1>5. InView(made[c], outbox[c], store[c], capture[c], draft[c])
  BY DEF TableInView
<1>6. ASSUME NEW k \in Keys
      PROVE  \/ store'[c][k] = store[c][k]
             \/ \E e \in Wire(seq) : /\ e.op # "delete" /\ (e.op = "none" => e.ts = 0)
                                     /\ ShouldOverwrite(e, store[c][k])
                                     /\ store'[c][k] = RecordOf(e)
  <2>1. \/ store'[c][k] = store[c][k]
        \/ \E e \in msg.changes :
             /\ e.key = k /\ ShouldOverwrite(e, capture[c][k])
             /\ store'[c][k] = IF e.op = "delete" THEN NoRecord ELSE RecordOf(e)
    BY <1>1, <1>2, <1>4, OverwrittenBeats
  <2>2. msg.changes # {} => capture[c] = store[c]
    BY <1>1, <1>5 DEF InView
  <2> QED
    BY <1>4, <2>1, <2>2 DEF Live
<1>7. ASSUME NEW k \in Keys PROVE store'[c][k].op = "none" => store'[c][k].ts = 0
  <2>1. store[c][k].op = "none" => store[c][k].ts = 0
    BY <1>5 DEF InView
  <2>2. \A e : RecordOf(e).op = e.op /\ RecordOf(e).ts = e.ts
    BY DEF RecordOf
  <2> QED
    BY <1>6, <2>1, <2>2
<1>8. ASSUME NEW n \in outbox[c]
      PROVE  ShouldOverwrite(store'[c][made[c][n].key], made[c][n])
  <2> DEFINE k == made[c][n].key
  <2>1. /\ k \in Keys /\ made[c][n].op = "put" /\ made[c][n].ts \in Nat /\ made[c][n].ts >= 1
        /\ made[c][n].cid \in Nat
    BY MadeIs
  <2>2. store[c][k] \in Record
    BY <2>1 DEF SyncInv, TableTypes
  <2>3. store[c][k].ts \in Int /\ store[c][k].cid \in Int
    BY <2>2, SyncAssumption DEF Record
  <2>4. ShouldOverwrite(store[c][k], made[c][n]) /\ (store[c][k].op = "none" => store[c][k].ts = 0)
    BY <1>5, <2>1 DEF InView
  <2>5. store[c][k].op # "none"
    BY <2>1, <2>3, <2>4 DEF ShouldOverwrite
  <2>6. ASSUME NEW e \in Wire(seq), ShouldOverwrite(e, store[c][k])
        PROVE  ShouldOverwrite(RecordOf(e), made[c][n])
    <3>1. e.ts \in Int /\ e.cid \in Int
      BY SyncAssumption DEF Wire
    <3>2. ShouldOverwrite(e, made[c][n])
      <4> HIDE DEF k
      <4>1. made[c][n].op # "none" /\ made[c][n].ts \in Int /\ made[c][n].cid \in Int
        BY <2>1
      <4> QED
        BY <2>3, <2>4, <2>5, <2>6, <3>1, <4>1, BeatsAreTransitive
    <3> QED
      BY <3>2 DEF ShouldOverwrite, RecordOf
  <2> QED
    BY <1>6, <2>1, <2>4, <2>6
<1> QED
  BY <1>1, <1>5, <1>7, <1>8 DEF InView

LEMMA ClientKeepsView ==
  ASSUME SyncInv, NothingDeleted, TableInView, Ops \subseteq {"put"}, ~WritesBetween,
         NEW c \in Clients, ClientNext(c)
  PROVE  InView(made'[c], outbox'[c], store'[c], capture'[c], draft'[c])
<1>1. InView(made[c], outbox[c], store[c], capture[c], draft[c])
  BY DEF TableInView
<1>2. ASSUME NEW k \in Keys, NEW op \in Ops, NEW now \in 1..MaxTs, Draft(c, k, op, now)
      PROVE  InView(made'[c], outbox'[c], store'[c], capture'[c], draft'[c])
  <2>1. UNCHANGED <<made, outbox, store, capture>>
    BY <1>2 DEF Draft
  <2> QED
    BY <1>2, <2>1, DraftInView
<1>3. CASE CommitLocal(c)
  BY <1>3, CommitInView
<1>4. CASE HandleChanges(c)
  <2>1. UNCHANGED <<made, outbox, draft>>
    BY <1>4 DEF HandleChanges
  <2> QED
    BY <1>4, <2>1, ChangesInView
<1>5. CASE FireTimer(c) \/ Connect(c) \/ Disconnect(c) \/ HandleAuthSuccess(c)
  <2>1. UNCHANGED <<made, outbox, store, capture, draft>>
    BY <1>5 DEF FireTimer, Connect, Disconnect, HandleAuthSuccess, localVars
  <2> QED
    BY <1>1, <2>1
<1>6. CASE Reload(c)
  <2>1. UNCHANGED <<made, outbox, store>> /\ capture'[c] = Nothing /\ draft'[c] = Nothing
    BY <1>6 DEF Reload, SyncInv, ClientTypes
  <2> QED
    BY <1>1, <2>1 DEF InView
<1>7. CASE HandleAck(c)
  <2>1. UNCHANGED <<made, store, capture, draft>> /\ outbox'[c] \subseteq outbox[c]
    BY <1>7 DEF HandleAck, Left, SyncInv, TableTypes
  <2> QED
    BY <1>1, <2>1 DEF InView
<1>8. CASE Capture(c)
  <2>1. UNCHANGED <<made, outbox, store, draft>> /\ capture'[c] = store[c]
    BY <1>8 DEF Capture, localVars, SyncInv, ClientTypes
  <2> QED
    BY <1>1, <2>1 DEF InView
<1> QED
  BY <1>2, <1>3, <1>4, <1>5, <1>6, <1>7, <1>8 DEF ClientNext

LEMMA NextKeepsPuts ==
  PutsInv /\ Ops \subseteq {"put"} /\ ~WritesBetween /\ [Next]_vars => PutsInv'
<1> SUFFICES ASSUME PutsInv, Ops \subseteq {"put"}, ~WritesBetween, [Next]_vars PROVE PutsInv'
  OBVIOUS
<1>1. SyncInv' /\ NothingDeleted'
  BY NextKeepsSync, NextKeepsLive DEF PutsInv
<1>2. TableInView'
  <2>1. ASSUME NEW c \in Clients, ClientNext(c) PROVE TableInView'
    <3>1. ASSUME NEW d \in Clients, d # c
          PROVE  /\ made'[d] = made[d] /\ outbox'[d] = outbox[d] /\ store'[d] = store[d]
                 /\ capture'[d] = capture[d] /\ draft'[d] = draft[d]
      BY <2>1, <3>1 DEF ClientNext, Draft, CommitLocal, FireTimer, Connect, Disconnect, Reload,
         HandleAuthSuccess, HandleAck, Capture, HandleChanges, localVars, PutsInv, SyncInv,
         ClientTypes, TableTypes
    <3>2. InView(made'[c], outbox'[c], store'[c], capture'[c], draft'[c])
      BY <2>1, ClientKeepsView DEF PutsInv
    <3> QED
      BY <3>1, <3>2 DEF PutsInv, TableInView
  <2>2. ASSUME UNCHANGED <<made, outbox, store, capture, draft>> PROVE TableInView'
    BY <2>2 DEF PutsInv, TableInView
  <2>3. ASSUME NEW s \in Socks, ServerNext(s) PROVE TableInView'
    <3>1. UNCHANGED clientVars
      BY <2>3 DEF ServerNext, RecvAuth, ReadSync, SendDiff, SendSnapshot, RecvBatch, RefuseBatch,
         Apply, ReturnSeq, SendAck, Reconcile, Broadcast, Hangup
    <3> QED
      BY <2>2, <3>1 DEF clientVars, localVars
  <2>4. ASSUME NEW n \in 1..(seq - 1), Prune(n) PROVE TableInView'
    BY <2>2, <2>4 DEF Prune, clientVars, localVars
  <2>5. CASE UNCHANGED vars
    BY <2>2, <2>5 DEF vars, localVars
  <2> QED
    BY <2>1, <2>3, <2>4, <2>5 DEF Next
<1> QED
  BY <1>1, <1>2 DEF PutsInv

LEMMA InitPuts == Init => PutsInv
<1> SUFFICES ASSUME Init PROVE PutsInv
  OBVIOUS
<1>1. SyncInv
  BY InitSync
<1>2. NothingDeleted
  BY DEF Init, NothingDeleted, Live, LiveWork, LiveMail, Idle, NoRecord
<1>3. TableInView
  BY DEF Init, TableInView, InView, NoRecord
<1> QED
  BY <1>1, <1>2, <1>3 DEF PutsInv

\* A put that has not reached the server is not hidden by what arrives from it, for any number
\* of clients and whatever connections are lost and pages reloaded, as long as nobody deletes
\* (a delete after a put hides what the outbox still has) and no local write is committed
\* between the two transactions of applyBatchRecords (client/storage/storage.ts).
THEOREM PendingPutsStayShown ==
  ASSUME Ops \subseteq {"put"}, ~WritesBetween
  PROVE  Spec => []PendingPutsShow
<1>1. PutsInv /\ [Next]_vars => PutsInv'
  BY NextKeepsPuts
<1>2. PutsInv => PendingPutsShow
  BY DEF PutsInv, TableInView, InView, PendingPutsShow
<1> QED
  BY <1>1, <1>2, InitPuts, PTL DEF Spec

-----------------------------------------------------------------------------
(* Remote batches, without local writes between their transactions         *)

CapturedInv ==
  SyncInv /\ \A c \in Clients : capture[c] # Nothing => capture[c] = store[c]

LEMMA NextKeepsCaptured == CapturedInv /\ ~WritesBetween /\ [Next]_vars => CapturedInv'
<1> SUFFICES ASSUME CapturedInv, ~WritesBetween, [Next]_vars PROVE CapturedInv'
  OBVIOUS
<1> USE DEF CapturedInv
<1>1. SyncInv'
  BY NextKeepsSync
<1>2. ASSUME NEW c \in Clients, ClientNext(c), NEW d \in Clients, capture'[d] # Nothing
      PROVE  capture'[d] = store'[d]
  <2>1. capture[d] # Nothing => capture[d] = store[d]
    OBVIOUS
  <2>2. CASE \E k \in Keys, op \in Ops, now \in 1..MaxTs : Draft(c, k, op, now)
    BY <1>2, <2>1, <2>2 DEF Draft
  <2>3. CASE CommitLocal(c)
    <3>1. UNCHANGED capture /\ capture[c] = Nothing /\ (d # c => store'[d] = store[d])
      BY <2>3 DEF CommitLocal, SyncInv, TableTypes
    <3> QED
      BY <1>2, <2>1, <3>1
  <2>4. CASE HandleChanges(c)
    <3>1. capture'[c] = Nothing /\ (d # c => store'[d] = store[d] /\ capture'[d] = capture[d])
      BY <2>4 DEF HandleChanges, SyncInv, TableTypes, ClientTypes
    <3> QED
      BY <1>2, <2>1, <3>1
  <2>5. CASE FireTimer(c) \/ Connect(c) \/ Disconnect(c) \/ HandleAuthSuccess(c) \/ HandleAck(c)
    BY <1>2, <2>1, <2>5 DEF FireTimer, Connect, Disconnect, HandleAuthSuccess, HandleAck, localVars
  <2>6. CASE Reload(c)
    BY <1>2, <2>1, <2>6 DEF Reload, SyncInv, ClientTypes
  <2>7. CASE Capture(c)
    BY <1>2, <2>1, <2>7 DEF Capture, localVars, SyncInv, ClientTypes
  <2> QED
    BY <1>2, <2>2, <2>3, <2>4, <2>5, <2>6, <2>7 DEF ClientNext
<1>3. ASSUME NEW s \in Socks, ServerNext(s) PROVE UNCHANGED <<capture, store>>
  <2>1. UNCHANGED clientVars
    BY <1>3 DEF ServerNext, RecvAuth, ReadSync, SendDiff, SendSnapshot, RecvBatch, RefuseBatch,
       Apply, ReturnSeq, SendAck, Reconcile, Broadcast, Hangup
  <2> QED
    BY <2>1 DEF clientVars, localVars
<1>4. ASSUME NEW n \in 1..(seq - 1), Prune(n) PROVE UNCHANGED <<capture, store>>
  BY <1>4 DEF Prune, clientVars, localVars
<1>5. CASE UNCHANGED vars
  BY <1>1, <1>5 DEF vars, localVars
<1> QED
  BY <1>1, <1>2, <1>3, <1>4, <1>5 DEF Next

\* Applying a remote batch (applyBatchRecords) never replaces a record by one that loses to it,
\* when no local write is committed between its two transactions: the race is the only cause
\* of what the configuration SyncRaces shows.
THEOREM RemoteStaysAhead ==
  ASSUME ~WritesBetween
  PROVE  Spec => RemoteNeverRegresses
<1>1. Init => CapturedInv
  BY InitSync DEF Init, CapturedInv
<1>2. CapturedInv /\ [Next]_vars => CapturedInv'
  BY NextKeepsCaptured
<1>3. ASSUME CapturedInv
      PROVE  \A c \in Clients : HandleChanges(c) =>
               \A k \in Keys : store'[c][k].op = "put" => ShouldOverwrite(store'[c][k], store[c][k])
  <2> SUFFICES ASSUME NEW c \in Clients, HandleChanges(c), NEW k \in Keys,
                      store'[c][k].op = "put"
               PROVE  ShouldOverwrite(store'[c][k], store[c][k])
    OBVIOUS
  <2> DEFINE msg == Head(inbox[c])
  <2>1. /\ inbox[c] # << >> /\ News(msg) /\ (capture[c] # Nothing \/ msg.changes = {})
        /\ store'[c] = Overwritten(store[c], capture[c], msg.changes)
    BY <1>3 DEF HandleChanges, Receives, News, CapturedInv, SyncInv, ClientTypes, TableTypes
  <2>2. inbox[c] \in Seq(Answers(seq)) /\ seq \in Nat
    BY <1>3 DEF CapturedInv, SyncInv, ClientTypes, ServerTypes
  <2>3. msg \in Answers(seq)
    BY <2>1, <2>2, HeadTailProperties
  <2> HIDE DEF msg
  <2>4. msg.changes \in SUBSET Wire(seq)
    BY <2>1, <2>3 DEF Answers, News
  <2>5. \/ store'[c][k] = store[c][k]
        \/ \E e \in msg.changes :
             /\ e.key = k /\ ShouldOverwrite(e, capture[c][k])
             /\ store'[c][k] = IF e.op = "delete" THEN NoRecord ELSE RecordOf(e)
    BY <2>1, <2>2, <2>4, OverwrittenBeats
  <2>6. msg.changes # {} => capture[c] = store[c]
    BY <1>3, <2>1 DEF CapturedInv
  <2>7. ShouldOverwrite(store[c][k], store[c][k])
    <3>1. store[c][k] \in Record
      BY <1>3 DEF CapturedInv, SyncInv, TableTypes
    <3>2. store[c][k].cid \in Nat
      BY <3>1 DEF Record
    <3> QED
      BY <3>2 DEF ShouldOverwrite
  <2>8. \A e : ShouldOverwrite(e, store[c][k]) => ShouldOverwrite(RecordOf(e), store[c][k])
    BY DEF ShouldOverwrite, RecordOf
  <2>9. NoRecord.op = "none"
    BY DEF NoRecord
  <2> QED
    BY <2>5, <2>6, <2>7, <2>8, <2>9
<1> QED
  BY <1>1, <1>2, <1>3, PTL DEF Spec, RemoteNeverRegresses

-----------------------------------------------------------------------------
(***************************************************************************)
(* Convergence, when clients only put and nobody loses the connection or   *)
(* loads the page again.                                                   *)
(*                                                                         *)
(* What everybody shows in the end is the record that beats all others.    *)
(* So the invariant goes after two things for each client and record.      *)
(* Nothing is shown that the server has not got, unless the outbox has it  *)
(* (ShownBy).  And the client shows what the server has, or will be        *)
(* told (Knows): by its snapshot, by a message that is on its way, by the  *)
(* broadcast of a handler that has applied it, or as the answer to a       *)
(* change of its own that is still to be judged.  The last is what a put   *)
(* needs that was worked out before a remote batch and made after it: the  *)
(* table then shows less than it did.                                      *)
(***************************************************************************)

\* A client has one connection at most and one clientId.
StayConnected == \A c \in Clients : MaxConns[c] <= 1 /\ MaxLoads[c] <= 1

\* What is in a queue or a batch.
Items(q) == {q[i] : i \in DOMAIN q}

\* A record or change as good as another: there is no other, or it wins or is the same.
Tops(x, y) == y.op = "none" \/ (x.op # "none" /\ ShouldOverwrite(x, y))

\* A client's connection begins with a request for everything, its session has its id, and
\* where its table has nothing it has no trace of anything.
SteadyClient(c) ==
  /\ conn[c] \in {0, 1} /\ loads[c] \in Nat \ {0}
  /\ conn[c] = 0 => link[c] = "closed" /\ inbox[c] = << >> /\ lastSync[c] = 0
  /\ conn[c] = 1 => link[c] = "open"
  /\ \A n \in DOMAIN made[c] : made[c][n].cid = cid[c]
  /\ draft[c] # Nothing => draft[c].cid = cid[c]
  /\ \A k \in Keys : store[c][k].op = "none" => store[c][k] = NoRecord
SteadySocket(s) ==
  /\ session[s] \in {0, cid[s[1]]} /\ (session[s] # 0 => conn[s[1]] = 1)
  /\ conn[s[1]] = 1 /\ session[s] = 0 =>
       toServer[s] # << >> /\ Head(toServer[s]).type = "auth"
  /\ \A m \in Items(toServer[s]) : m.type = "auth" => m.cid = cid[s[1]] /\ m.since = 0
  /\ work[s].pc # "diff" /\ (work[s].pc = "sync" => work[s].since = 0)

\* News is of puts and no news to the server, and what comes later in it wins.  The server
\* has a record under every id that it answers for.
IsTrue(records, changes) ==
  \A e \in changes :
    /\ e.op = "put" /\ Tops(records[e.key], e)
    /\ \A f \in changes : f.key = e.key /\ f.seq <= e.seq => Tops(e, f)
Tells(w) == w.pc \in {"resolve", "ack", "reconcile", "broadcast"}
WorkIsTrue(records, w) ==
  Tells(w) => IsTrue(records, w.applied) /\ \A k \in w.skipped : records[k].op # "none"
MailIsTrue(records, mail) == \A m \in mail : News(m) => IsTrue(records, m.changes)

\* OneAnswer again, with the changes themselves: those of the batch are those that are held,
\* and when it has been applied the records are as good.
Held(mine, held) == {mine[n] : n \in held}
Got(records, mine, held) == \A e \in Held(mine, held) : Tops(records[e.key], e)
Judged(records, mine, held, mail, requests, w) ==
  /\ \A m \in requests : IsBatch(m) => Items(m.changes) = Held(mine, held)
  /\ w.pc = "apply" => Items(w.batch) = Held(mine, held)
  /\ w.pc \in {"resolve", "ack"} => Got(records, mine, held)
  /\ \A m \in mail : IsAck(m) => Got(records, mine, held)

\* What brings a client, under k, what is as good as r.
Brings(mail, k, r) ==
  \E m \in mail : News(m) /\ \E e \in m.changes : e.key = k /\ Tops(e, r)
WillBring(w, k, r) == Tells(w) /\ \E e \in w.applied : e.key = k /\ Tops(e, r)
WillAsk(mine, queued, held, requests, k) ==
  \/ \E n \in queued \ held : mine[n].key = k
  \/ \E m \in requests : IsBatch(m) /\ \E e \in Items(m.changes) : e.key = k
WillAnswer(w, k) ==
  \/ w.pc \in {"sync", "snapshot"}
  \/ w.pc = "apply" /\ \E e \in Items(w.batch) : e.key = k
  \/ w.pc \in {"resolve", "ack", "reconcile"} /\ k \in w.skipped

Knows(c, k) ==
  \/ Tops(store[c][k], reg[k])
  \/ conn[c] = 0 \/ session[<<c, 1>>] = 0
  \/ Brings(Items(inbox[c]), k, reg[k])
  \/ \E t \in Socks \ {<<c, 1>>} : WillBring(work[t], k, reg[k])
  \/ WillAsk(made[c], outbox[c], pending[c], Items(toServer[<<c, 1>>]), k)
  \/ WillAnswer(work[<<c, 1>>], k)

ShownBy(r, mine, queued, x, k) ==
  \/ Tops(r, x)
  \/ \E n \in queued : mine[n].key = k /\ Tops(mine[n], x)

\* All that, for a client and its socket.
ClientConverges(c) ==
  /\ SteadyClient(c)
  /\ <<c, 1>> \in Socks => SteadySocket(<<c, 1>>)
  /\ MailIsTrue(reg, Items(inbox[c]))
  /\ conn[c] = 1 => Judged(reg, made[c], pending[c], Items(inbox[c]), Items(toServer[<<c, 1>>]),
                           work[<<c, 1>>])
  /\ \A k \in Keys : Knows(c, k) /\ ShownBy(reg[k], made[c], outbox[c], store[c][k], k)

ConvergesInv ==
  /\ PutsInv
  /\ \A s \in Socks : WorkIsTrue(reg, work[s])
  /\ \A c \in Clients : ClientConverges(c)

\* Queues, by what is in them.
LEMMA ItemsOf ==
  /\ Items(<< >>) = {}
  /\ \A S : \A q \in Seq(S) :
       /\ Items(q) \subseteq S
       /\ \A m \in S : Items(Append(q, m)) = Items(q) \cup {m}
       /\ q # << >> => Head(q) \in Items(q) /\ Items(q) = {Head(q)} \cup Items(Tail(q))
  /\ \A S : \A p, q \in Seq(S) : Items(p \o q) = Items(p) \cup Items(q)
<1>1. Items(<< >>) = {}
  BY DEF Items
<1>2. ASSUME NEW S, NEW q \in Seq(S), NEW m \in S
      PROVE  Items(q) \subseteq S /\ Items(Append(q, m)) = Items(q) \cup {m}
  <2> DEFINE all == Append(q, m)
  <2>1. /\ DOMAIN all = 1..(Len(q) + 1) /\ Len(q) \in Nat /\ DOMAIN q = 1..Len(q)
        /\ \A i \in DOMAIN q : all[i] = q[i]
        /\ all[Len(q) + 1] = m
    BY <1>2, AppendProperties, LenProperties
  <2> HIDE DEF all
  <2>2. DOMAIN all = DOMAIN q \cup {Len(q) + 1}
    BY <2>1
  <2>3. Items(all) = Items(q) \cup {m}
    <3>1. \A x \in Items(all) : x \in Items(q) \cup {m}
      BY <2>1, <2>2 DEF Items
    <3>2. \A x \in Items(q) \cup {m} : x \in Items(all)
      BY <2>1, <2>2 DEF Items
    <3> QED
      BY <3>1, <3>2
  <2>4. Items(q) \subseteq S
    BY <2>1, ElementOfSeq DEF Items
  <2> QED
    BY <2>3, <2>4 DEF all
<1>3. ASSUME NEW S, NEW q \in Seq(S)
      PROVE  Items(q) \subseteq S
  BY <1>3, LenProperties, ElementOfSeq DEF Items
<1>4. ASSUME NEW S, NEW q \in Seq(S), q # << >>
      PROVE  Head(q) \in Items(q) /\ Items(q) = {Head(q)} \cup Items(Tail(q))
  <2> DEFINE rest == Tail(q)
  <2>1. /\ DOMAIN rest = 1..(Len(q) - 1) /\ Len(q) \in Nat /\ Len(q) # 0
        /\ DOMAIN q = 1..Len(q) /\ Head(q) = q[1]
        /\ \A i \in 1..(Len(q) - 1) : rest[i] = q[i+1]
    BY <1>4, HeadTailProperties, LenProperties, EmptySeq
  <2> HIDE DEF rest
  <2>2. \A i \in DOMAIN rest : i+1 \in DOMAIN q /\ rest[i] = q[i+1]
    BY <2>1
  <2>3. 1 \in DOMAIN q /\ \A i \in DOMAIN q : i # 1 => i - 1 \in DOMAIN rest /\ rest[i - 1] = q[i]
    BY <2>1
  <2>4. Items(rest) \subseteq Items(q)
    BY <2>2 DEF Items
  <2>5. Items(q) \subseteq {Head(q)} \cup Items(rest)
    <3> SUFFICES ASSUME NEW i \in DOMAIN q PROVE q[i] \in {Head(q)} \cup Items(rest)
      BY DEF Items
    <3> QED
      BY <2>1, <2>3 DEF Items
  <2>6. Head(q) \in Items(q)
    BY <2>1, <2>3 DEF Items
  <2> QED
    BY <2>4, <2>5, <2>6 DEF rest
<1>5. ASSUME NEW S, NEW p \in Seq(S), NEW q \in Seq(S)
      PROVE  Items(p \o q) = Items(p) \cup Items(q)
  <2> DEFINE all == p \o q
  <2>1. /\ DOMAIN all = 1..(Len(p) + Len(q)) /\ Len(p) \in Nat /\ Len(q) \in Nat
        /\ DOMAIN p = 1..Len(p) /\ DOMAIN q = 1..Len(q)
        /\ \A i \in DOMAIN all : all[i] = IF i <= Len(p) THEN p[i] ELSE q[i - Len(p)]
    BY <1>5, ConcatProperties, LenProperties
  <2> HIDE DEF all
  <2>2. \A i \in DOMAIN all : \/ i \in DOMAIN p /\ all[i] = p[i]
                              \/ i - Len(p) \in DOMAIN q /\ all[i] = q[i - Len(p)]
    BY <2>1
  <2>3. \A i \in DOMAIN p : i \in DOMAIN all /\ all[i] = p[i]
    BY <2>1
  <2>4. \A i \in DOMAIN q : i + Len(p) \in DOMAIN all /\ all[i + Len(p)] = q[i]
    BY <2>1
  <2>5. Items(all) \subseteq Items(p) \cup Items(q)
    BY <2>2 DEF Items
  <2>6. Items(p) \subseteq Items(all) /\ Items(q) \subseteq Items(all)
    BY <2>3, <2>4 DEF Items
  <2> QED
    BY <2>5, <2>6 DEF all
<1>6. \A S : \A q \in Seq(S) :
        /\ Items(q) \subseteq S
        /\ \A m \in S : Items(Append(q, m)) = Items(q) \cup {m}
        /\ q # << >> => Head(q) \in Items(q) /\ Items(q) = {Head(q)} \cup Items(Tail(q))
  <2> SUFFICES ASSUME NEW S, NEW q \in Seq(S)
               PROVE  /\ Items(q) \subseteq S
                      /\ \A m \in S : Items(Append(q, m)) = Items(q) \cup {m}
                      /\ q # << >> => /\ Head(q) \in Items(q)
                                      /\ Items(q) = {Head(q)} \cup Items(Tail(q))
    OBVIOUS
  <2>1. Items(q) \subseteq S
    BY <1>3
  <2>2. \A m \in S : Items(Append(q, m)) = Items(q) \cup {m}
    BY <1>2
  <2>3. q # << >> => Head(q) \in Items(q) /\ Items(q) = {Head(q)} \cup Items(Tail(q))
    BY <1>4
  <2> QED
    BY <2>1, <2>2, <2>3
<1> QED
  BY <1>1, <1>5, <1>6, Zenon

LEMMA AppendKeepsHead ==
  ASSUME NEW S, NEW q \in Seq(S), q # << >>, NEW m \in S
  PROVE  Append(q, m) # << >> /\ Head(Append(q, m)) = Head(q)
<1> DEFINE p == Append(q, m)
<1>1. /\ p \in Seq(S) /\ Len(p) = Len(q) + 1 /\ Len(q) \in Nat
      /\ (Len(q) >= 1 => p[1] = q[1])
  BY AppendProperties, LenProperties
<1>2. Len(q) >= 1
  BY <1>1, EmptySeq
<1> HIDE DEF p
<1>3. p # << >>
  BY <1>1, EmptySeq
<1>4. Head(p) = p[1] /\ Head(q) = q[1]
  BY <1>1, <1>3, HeadTailProperties
<1> QED
  BY <1>1, <1>2, <1>3, <1>4 DEF p

\* What has a timestamp and an id.
Dated(x) == x.ts \in Nat /\ x.cid \in Nat

\* Being as good is a total order.
LEMMA TopsIsOrder ==
  /\ \A x : Dated(x) => Tops(x, x)
  /\ \A x, y : Dated(x) /\ Dated(y) => Tops(x, y) \/ Tops(y, x)
  /\ \A x, y, z : Dated(x) /\ Dated(y) /\ Dated(z) /\ Tops(x, y) /\ Tops(y, z) => Tops(x, z)
  /\ \A x, y : Tops(RecordOf(x), y) <=> Tops(x, y)
  /\ \A x, y : Tops(y, RecordOf(x)) <=> Tops(y, x)
<1>1. \A x : Dated(x) => Tops(x, x)
  BY DEF Dated, Tops, ShouldOverwrite
<1>2. ASSUME NEW x, NEW y, Dated(x), Dated(y) PROVE Tops(x, y) \/ Tops(y, x)
  BY <1>2 DEF Dated, Tops, ShouldOverwrite
<1>3. ASSUME NEW x, NEW y, NEW z, Dated(x), Dated(y), Dated(z), Tops(x, y), Tops(y, z)
      PROVE  Tops(x, z)
  BY <1>3 DEF Dated, Tops, ShouldOverwrite
<1>4. \A x : RecordOf(x).op = x.op /\ RecordOf(x).ts = x.ts /\ RecordOf(x).cid = x.cid
  BY DEF RecordOf
<1>5. \A x, y : Tops(RecordOf(x), y) <=> Tops(x, y)
  BY <1>4, Zenon DEF Tops, ShouldOverwrite
<1>6. \A x, y : Tops(y, RecordOf(x)) <=> Tops(y, x)
  BY <1>4, Zenon DEF Tops, ShouldOverwrite
<1> QED
  BY <1>1, <1>2, <1>3, <1>5, <1>6, Zenon

\* Everything that is written or told has a timestamp and an id.
LEMMA AllAreDated ==
  /\ NoRecord \in Record
  /\ \A r \in Record : Dated(r)
  /\ \A e \in ChangeOf : Dated(e) /\ e.key \in Keys /\ e.op \in Ops /\ e.ts >= 1
  /\ \A e \in Stamped : Dated(e) /\ e.key \in Keys /\ e.op \in Ops
  /\ \A n \in Nat : \A e \in Wire(n) : Dated(e) /\ e.key \in Keys /\ e.seq \in Nat
<1>1. MaxTs \in Nat
  BY SyncAssumption
<1>2. NoRecord \in Record
  BY <1>1 DEF NoRecord, Record
<1>3. \A r \in Record : Dated(r)
  BY <1>1 DEF Record, Dated
<1>4. \A e \in ChangeOf : Dated(e) /\ e.key \in Keys /\ e.op \in Ops /\ e.ts >= 1
  BY <1>1 DEF ChangeOf, Dated
<1>5. \A e \in Stamped : Dated(e) /\ e.key \in Keys /\ e.op \in Ops
  BY <1>1 DEF Stamped, Dated
<1>6. ASSUME NEW n \in Nat PROVE \A e \in Wire(n) : Dated(e) /\ e.key \in Keys /\ e.seq \in Nat
  BY <1>1 DEF Wire, Dated
<1> QED
  BY <1>2, <1>3, <1>4, <1>5, <1>6

\* A batch leaves the best of what was there and its own changes, and of those that were
\* applied under an id the last.
LEMMA MergeTops ==
  ASSUME NEW records, IsRegister(records), NEW batch \in Seq(Stamped)
  PROVE  /\ \A k \in Keys : Tops(Merge(records, batch)[k], records[k])
         /\ \A e \in Items(batch) : Tops(Merge(records, batch)[e.key], e)
         /\ \A k \in Keys :
              \/ Merge(records, batch)[k] = records[k] /\ AppliedTo(records, batch, k) = {}
              \/ \E i \in AppliedTo(records, batch, k) :
                   Merge(records, batch)[k] = RecordOf(batch[i])
         /\ \A i, j \in AppliedAt(records, batch) :
              batch[i].key = batch[j].key /\ j <= i => Tops(batch[i], batch[j])
<1> DEFINE after == Merge(records, batch)
<1>1. /\ DOMAIN batch = 1..Len(batch) /\ Len(batch) \in Nat
      /\ \A i \in DOMAIN batch : batch[i] \in Stamped
  BY LenProperties, ElementOfSeq
<1>2. \A i \in DOMAIN batch :
        /\ Dated(batch[i]) /\ batch[i].key \in Keys /\ batch[i].op # "none"
        /\ Dated(RecordOf(batch[i]))
  <2> SUFFICES ASSUME NEW i \in DOMAIN batch
               PROVE  /\ Dated(batch[i]) /\ batch[i].key \in Keys /\ batch[i].op # "none"
                      /\ Dated(RecordOf(batch[i]))
    OBVIOUS
  <2>1. batch[i] \in Stamped
    BY <1>1
  <2>2. Dated(batch[i]) /\ RecordOf(batch[i]) \in Record
    BY <2>1, AllAreDated, StampedLeavesRecord
  <2> QED
    BY <2>1, <2>2, AllAreDated, StampedLeavesRecord
<1>3. DOMAIN records = Keys /\ \A k \in Keys : Dated(records[k])
  BY AllAreDated DEF IsRegister
<1>4. ASSUME NEW k \in Keys
      PROVE  /\ AppliedTo(records, batch, k) = {} => after[k] = records[k]
             /\ AppliedTo(records, batch, k) # {} =>
                  \E i \in AppliedTo(records, batch, k) :
                    /\ \A j \in AppliedTo(records, batch, k) : j <= i
                    /\ after[k] = RecordOf(batch[i])
  BY <1>3, <1>4, LastApplied DEF Merge
<1>5. ASSUME NEW i \in AppliedAt(records, batch)
      PROVE  /\ i \in DOMAIN batch /\ Tops(batch[i], records[batch[i].key])
             /\ \A j \in DOMAIN batch :
                  j <= i /\ batch[j].key = batch[i].key => Tops(batch[i], batch[j])
  <2>1. i \in DOMAIN batch /\ ShouldOverwrite(batch[i], records[batch[i].key])
        /\ \A j \in DOMAIN batch :
             j < i /\ batch[j].key = batch[i].key => ShouldOverwrite(batch[i], batch[j])
    BY <1>5 DEF AppliedAt
  <2>2. batch[i].op # "none" /\ Dated(batch[i])
    BY <1>2, <2>1
  <2>3. ASSUME NEW j \in DOMAIN batch, j <= i, batch[j].key = batch[i].key
        PROVE  Tops(batch[i], batch[j])
    <3>1. CASE j = i
      BY <2>2, <3>1, TopsIsOrder
    <3>2. CASE j # i
      <4>1. j < i
        BY <1>1, <2>1, <2>3, <3>2
      <4> QED
        BY <2>1, <2>2, <2>3, <4>1 DEF Tops
    <3> QED
      BY <3>1, <3>2
  <2> QED
    BY <2>1, <2>2, <2>3 DEF Tops
<1>6. \A i, j \in AppliedAt(records, batch) :
        batch[i].key = batch[j].key /\ j <= i => Tops(batch[i], batch[j])
  BY <1>5
<1>7. ASSUME NEW k \in Keys PROVE Tops(after[k], records[k]) /\ Dated(after[k])
  <2>1. CASE AppliedTo(records, batch, k) = {}
    BY <1>3, <1>4, <2>1, TopsIsOrder
  <2>2. CASE AppliedTo(records, batch, k) # {}
    <3>1. PICK i \in AppliedTo(records, batch, k) : after[k] = RecordOf(batch[i])
      BY <1>4, <2>2
    <3>2. i \in AppliedAt(records, batch) /\ batch[i].key = k
      BY <3>1 DEF AppliedTo
    <3> HIDE DEF after
    <3> QED
      BY <1>2, <1>5, <3>1, <3>2, TopsIsOrder
  <2> QED
    BY <2>1, <2>2
<1> HIDE DEF after
\* The change that is no worse than the i-th and the earliest such: it is applied, or the
\* record that was there is as good.
<1>8. ASSUME NEW i \in DOMAIN batch PROVE Tops(after[batch[i].key], batch[i])
  <2> DEFINE k == batch[i].key
             above == {j \in DOMAIN batch : batch[j].key = k /\ Tops(batch[j], batch[i])}
  <2>1. above \in SUBSET Nat /\ i \in above /\ k \in Keys
    BY <1>1, <1>2, TopsIsOrder
  <2>2. PICK j \in above : \A m \in above : j <= m
    BY <2>1, HasFirst
  <2>3. j \in DOMAIN batch /\ batch[j].key = k /\ Tops(batch[j], batch[i])
    BY <2>2
  <2>4. ASSUME NEW m \in DOMAIN batch, m < j, batch[m].key = k
        PROVE  ShouldOverwrite(batch[j], batch[m])
    <3>1. m \notin above
      BY <1>1, <2>2, <2>3, <2>4
    <3>2. ~Tops(batch[m], batch[i])
      BY <2>4, <3>1
    <3> HIDE DEF k, above
    <3>3. ~Tops(batch[m], batch[j])
      BY <1>2, <2>3, <2>4, <3>2, TopsIsOrder
    <3>4. Tops(batch[j], batch[m])
      BY <1>2, <2>3, <2>4, <3>3, TopsIsOrder
    <3> QED
      BY <1>2, <2>4, <3>4 DEF Tops
  <2> HIDE DEF above
  <2>5. CASE ShouldOverwrite(batch[j], records[k])
    <3>1. j \in AppliedTo(records, batch, k)
      BY <2>3, <2>4, <2>5 DEF AppliedTo, AppliedAt
    <3>2. PICK n \in AppliedTo(records, batch, k) : j <= n /\ after[k] = RecordOf(batch[n])
      BY <1>4, <2>1, <3>1
    <3>3. n \in AppliedAt(records, batch) /\ batch[n].key = k
      BY <3>2 DEF AppliedTo
    <3>4. Tops(batch[n], batch[j]) /\ n \in DOMAIN batch
      BY <1>5, <2>3, <3>2, <3>3
    <3>5. Tops(batch[n], batch[i])
      BY <1>2, <2>3, <3>4, TopsIsOrder
    <3> QED
      BY <3>2, <3>5, TopsIsOrder
  <2>6. CASE ~ShouldOverwrite(batch[j], records[k])
    <3>1. ~Tops(batch[j], records[k])
      BY <2>6 DEF Tops, ShouldOverwrite
    <3>2. Tops(records[k], batch[j])
      BY <1>2, <1>3, <2>1, <2>3, <3>1, TopsIsOrder
    <3>3. Tops(records[k], batch[i])
      BY <1>2, <1>3, <2>1, <2>3, <3>2, TopsIsOrder
    <3>4. Tops(after[k], records[k]) /\ Dated(after[k])
      BY <1>7, <2>1
    <3> QED
      BY <1>2, <1>3, <2>1, <3>3, <3>4, TopsIsOrder
  <2> QED
    BY <2>5, <2>6
<1>9. \A e \in Items(batch) : Tops(after[e.key], e)
  BY <1>8 DEF Items
<1>10. \A k \in Keys :
         \/ after[k] = records[k] /\ AppliedTo(records, batch, k) = {}
         \/ \E i \in AppliedTo(records, batch, k) : after[k] = RecordOf(batch[i])
  BY <1>4
<1> QED
  BY <1>6, <1>7, <1>9, <1>10 DEF after

\* A client's records after a remote batch that is sorted are the best of what they were and
\* of what the batch has.
LEMMA OverwrittenTops ==
  ASSUME NEW now \in [Keys -> Record], NEW n \in Nat, NEW changes \in SUBSET Wire(n),
         NEW records, IsTrue(records, changes), NEW seen, changes # {} => seen = now,
         NEW k \in Keys
  PROVE  /\ \/ Overwritten(now, seen, changes)[k] = now[k]
            \/ \E e \in changes : /\ e.key = k
                                  /\ Overwritten(now, seen, changes)[k] = RecordOf(e)
         /\ Tops(Overwritten(now, seen, changes)[k], now[k])
         /\ \A e \in changes : e.key = k => Tops(Overwritten(now, seen, changes)[k], e)
<1> DEFINE wins == {e \in changes : e.key = k /\ ShouldOverwrite(e, seen[k])}
           last == CHOOSE e \in wins : \A f \in wins : f.seq <= e.seq
           after == Overwritten(now, seen, changes)[k]
<1>1. after = IF wins = {} THEN now[k]
              ELSE IF last.op = "delete" THEN NoRecord ELSE RecordOf(last)
  BY DEF Overwritten
<1>2. wins \in SUBSET Wire(n) /\ wins \subseteq changes
  OBVIOUS
<1>3. \A e \in changes : Dated(e) /\ e.op = "put"
  BY AllAreDated DEF IsTrue
<1>4. Dated(now[k])
  BY AllAreDated
<1>5. ASSUME NEW e \in changes, e.key = k
      PROVE  IF e \in wins THEN Tops(e, now[k]) ELSE Tops(now[k], e)
  <2>1. CASE e \in wins
    BY <1>3, <1>5, <2>1 DEF Tops
  <2>2. CASE e \notin wins
    <3>1. ~ShouldOverwrite(e, now[k])
      BY <1>5, <2>2
    <3>2. ~Tops(e, now[k])
      BY <3>1 DEF Tops, ShouldOverwrite
    <3>3. Tops(now[k], e)
      BY <1>3, <1>4, <1>5, <3>2, TopsIsOrder
    <3> QED
      BY <2>2, <3>3
  <2> QED
    BY <2>1, <2>2
<1>6. \A e \in wins : e.key = k
  OBVIOUS
<1>7. CASE wins = {}
  <2>1. after = now[k]
    BY <1>1, <1>7
  <2>2. \A e \in changes : e.key = k => Tops(now[k], e)
    BY <1>5, <1>7
  <2> HIDE DEF after, wins
  <2>3. Tops(now[k], now[k])
    BY <1>4, TopsIsOrder
  <2> QED
    BY <2>1, <2>2, <2>3 DEF after
<1>8. CASE wins # {}
  <2> HIDE DEF wins, after
  <2>1. last \in wins /\ \A f \in wins : f.seq <= last.seq
    BY <1>2, <1>8, HasLast
  <2> HIDE DEF last
  <2>2. last \in changes /\ last.key = k /\ last.op = "put" /\ Dated(last)
    BY <1>2, <1>3, <1>6, <2>1
  <2>3. after = RecordOf(last)
    BY <1>1, <1>8, <2>2
  <2>4. Tops(last, now[k])
    BY <1>5, <2>1, <2>2
  <2>5. ASSUME NEW e \in changes, e.key = k PROVE Tops(last, e)
    <3>1. CASE e \in wins
      BY <2>1, <2>2, <2>5, <3>1 DEF IsTrue
    <3>2. CASE e \notin wins
      BY <1>3, <1>4, <1>5, <2>2, <2>4, <2>5, <3>2, TopsIsOrder
    <3> QED
      BY <3>1, <3>2
  <2> QED
    BY <2>2, <2>3, <2>4, <2>5, TopsIsOrder DEF after
<1> QED
  BY <1>7, <1>8

\* The changes that a batch has are numbered in the order of the batch.
LEMMA NumbersAreInOrder ==
  ASSUME ServerTypes, NEW batch \in Seq(Stamped),
         NEW i \in AppliedAt(reg, batch), NEW j \in AppliedAt(reg, batch),
         SeqAt(reg, batch, seq, j) <= SeqAt(reg, batch, seq, i)
  PROVE  j <= i
<1> DEFINE hits == AppliedAt(reg, batch)
           upTo(m) == {h \in hits : h <= m}
<1>1. DOMAIN batch = 1..Len(batch) /\ Len(batch) \in Nat
  BY LenProperties
<1>2. hits \in SUBSET (1..Len(batch))
  BY <1>1 DEF AppliedAt
<1>3. SeqAt(reg, batch, seq, i) = seq + Cardinality(upTo(i))
      /\ SeqAt(reg, batch, seq, j) = seq + Cardinality(upTo(j))
  BY DEF SeqAt
<1>4. i \in hits /\ j \in hits
  OBVIOUS
<1> HIDE DEF hits
<1>5. IsFiniteSet(hits)
  <2>1. IsFiniteSet(1..Len(batch))
    BY <1>1, FS_Interval
  <2> QED
    BY <1>2, <2>1, FS_Subset, Zenon
<1>6. SUFFICES ASSUME i < j PROVE FALSE
  BY <1>2, <1>4
<1>7. upTo(i) \in SUBSET upTo(j) /\ j \in upTo(j) /\ j \notin upTo(i) /\ upTo(j) \in SUBSET hits
  <2>1. i \in Int /\ j \in Int /\ hits \subseteq Int
    BY <1>2, <1>4
  <2>2. \A h \in hits : h <= i => h <= j
    BY <1>6, <2>1
  <2>3. j <= j /\ ~(j <= i)
    BY <1>6, <2>1
  <2> QED
    BY <1>4, <2>2, <2>3
<1> HIDE DEF upTo
<1>8. IsFiniteSet(upTo(j))
  BY <1>5, <1>7, FS_Subset, Zenon
<1>9. IsFiniteSet(upTo(i)) /\ Cardinality(upTo(i)) <= Cardinality(upTo(j))
      /\ Cardinality(upTo(i)) # Cardinality(upTo(j))
  BY <1>7, <1>8, FS_Subset
<1>10. Cardinality(upTo(i)) \in Nat /\ Cardinality(upTo(j)) \in Nat
  BY <1>8, <1>9, FS_CardinalityType
<1>11. seq \in Nat
  BY DEF ServerTypes
<1> QED
  BY <1>3, <1>9, <1>10, <1>11

\* What becomes of the records and ids that StayConnected leaves.
LEMMA OneSocket ==
  ASSUME SyncInv, StayConnected
  PROVE  /\ \A s \in Socks : s = <<s[1], 1>> /\ s[1] \in Clients /\ s[2] = 1
         /\ \A s \in Socks : work[s] # Idle \/ toServer[s] # << >> => conn[s[1]] >= 1
         /\ \A c \in Clients : conn[c] \in {0, 1}
         /\ \A c \in Clients : conn[c] = 1 => <<c, 1>> \in Socks
         /\ \A c \in Clients : link[c] = "open" => conn[c] = 1
<1>1. \A c \in Clients : MaxConns[c] \in Nat /\ MaxConns[c] <= 1
  BY SyncAssumption DEF StayConnected
<1>2. \A s \in Socks : s = <<s[1], s[2]>> /\ s[1] \in Clients /\ s[2] = 1
  BY <1>1, SocksArePairs
<1>3. \A c \in Clients : conn[c] \in Nat /\ conn[c] <= MaxConns[c]
  BY DEF SyncInv, ClientTypes
<1>4. \A c \in Clients : conn[c] \in {0, 1}
  BY <1>1, <1>3
<1>5. \A c \in Clients : conn[c] = 1 => <<c, 1>> \in Socks
  BY <1>1, <1>3, SocksArePairs
<1>6. \A s \in Socks : work[s] # Idle \/ toServer[s] # << >> => conn[s[1]] >= 1
  BY <1>2, <1>4 DEF SyncInv, SocketsInOrder
<1>7. \A c \in Clients : link[c] = "open" => conn[c] = 1
  <2> SUFFICES ASSUME NEW c \in Clients, link[c] = "open" PROVE conn[c] = 1
    OBVIOUS
  <2>1. <<c, conn[c]>> \in Socks
    BY DEF SyncInv, SocketsInOrder, Sock
  <2> QED
    BY <1>2, <2>1
<1> QED
  BY <1>2, <1>4, <1>5, <1>6, <1>7

\* A step of a client leaves the others where they were.
LEMMA ClientKeepsConverging ==
  ASSUME ConvergesInv, PutsInv', StayConnected, NEW c \in Clients, UNCHANGED serverVars,
         \A t \in Socks : t[1] # c => toServer'[t] = toServer[t],
         \A d \in Clients : d # c =>
           /\ conn'[d] = conn[d] /\ link'[d] = link[d] /\ inbox'[d] = inbox[d]
           /\ loads'[d] = loads[d] /\ cid'[d] = cid[d] /\ lastSync'[d] = lastSync[d]
           /\ made'[d] = made[d] /\ outbox'[d] = outbox[d] /\ pending'[d] = pending[d]
           /\ store'[d] = store[d] /\ draft'[d] = draft[d],
         ClientConverges(c)'
  PROVE  ConvergesInv'
<1>1. PutsInv /\ (\A d \in Clients : ClientConverges(d)) /\ \A s \in Socks : WorkIsTrue(reg, work[s])
  BY DEF ConvergesInv
<1>2. UNCHANGED <<reg, work, session>>
  BY DEF serverVars
<1>3. \A s \in Socks : WorkIsTrue(reg', work'[s])
  BY <1>1, <1>2
<1>4. ASSUME NEW d \in Clients, d # c PROVE ClientConverges(d)'
  <2>1. /\ conn'[d] = conn[d] /\ link'[d] = link[d] /\ inbox'[d] = inbox[d]
        /\ loads'[d] = loads[d] /\ cid'[d] = cid[d] /\ lastSync'[d] = lastSync[d]
        /\ made'[d] = made[d] /\ outbox'[d] = outbox[d] /\ pending'[d] = pending[d]
        /\ store'[d] = store[d] /\ draft'[d] = draft[d]
    BY <1>4
  <2>2. <<d, 1>> \in Socks => toServer'[<<d, 1>>] = toServer[<<d, 1>>]
    BY <1>4
  <2>3. conn[d] = 1 => <<d, 1>> \in Socks
    BY <1>1, OneSocket DEF PutsInv
  <2>4. conn[d] \in {0, 1}
    BY <1>1, OneSocket DEF PutsInv
  <2>5. ClientConverges(d)
    BY <1>1
  <2>6. SteadyClient(d)' /\ MailIsTrue(reg, Items(inbox[d]))'
    BY <1>2, <2>1, <2>5 DEF ClientConverges, SteadyClient
  <2>7. <<d, 1>> \in Socks => SteadySocket(<<d, 1>>)'
    BY <1>2, <2>1, <2>2, <2>5 DEF ClientConverges, SteadySocket
  <2>8. (conn[d] = 1 => Judged(reg, made[d], pending[d], Items(inbox[d]),
                               Items(toServer[<<d, 1>>]), work[<<d, 1>>]))'
    BY <1>2, <2>1, <2>2, <2>3, <2>5 DEF ClientConverges
  <2>9. ASSUME NEW k \in Keys
        PROVE  (Knows(d, k) /\ ShownBy(reg[k], made[d], outbox[d], store[d][k], k))'
    <3>1. Knows(d, k) /\ ShownBy(reg[k], made[d], outbox[d], store[d][k], k)
      BY <2>5 DEF ClientConverges
    <3>2. CASE conn[d] = 0
      BY <1>2, <2>1, <3>1, <3>2 DEF Knows
    <3>3. CASE conn[d] = 1
      BY <1>2, <2>1, <2>2, <2>3, <3>1, <3>3 DEF Knows
    <3> QED
      BY <2>4, <3>2, <3>3
  <2> QED
    BY <2>6, <2>7, <2>8, <2>9 DEF ClientConverges
<1>5. \A d \in Clients : ClientConverges(d)'
  BY <1>4
<1> QED
  BY <1>3, <1>5 DEF ConvergesInv

\* What the server may do to a client, nor a client to itself, when it stays connected.
LEMMA NobodyLeaves ==
  ASSUME ConvergesInv, StayConnected
  PROVE  /\ \A c \in Clients : ~Disconnect(c) /\ ~Reload(c)
         /\ \A s \in Socks : ~Hangup(s) /\ ~RefuseBatch(s) /\ ~SendDiff(s)
<1>1. SyncInv /\ \A c \in Clients : ClientConverges(c)
  BY DEF ConvergesInv, PutsInv
<1>2. \A c \in Clients : MaxConns[c] \in Nat /\ MaxConns[c] <= 1 /\ MaxLoads[c] \in Nat /\ MaxLoads[c] <= 1
  BY SyncAssumption DEF StayConnected
<1>3. ASSUME NEW c \in Clients PROVE ~Disconnect(c) /\ ~Reload(c)
  <2>1. SteadyClient(c)
    BY <1>1 DEF ClientConverges
  <2>2. loads[c] \in Nat \ {0} /\ conn[c] \in {0, 1} /\ (conn[c] = 0 => link[c] = "closed")
    BY <2>1 DEF SteadyClient
  <2>3. ~(loads[c] < MaxLoads[c])
    BY <1>2, <2>2
  <2>4. conn[c] < MaxConns[c] => link[c] = "closed"
    BY <1>2, <2>2
  <2> QED
    BY <2>3, <2>4 DEF Disconnect, Reload
<1>4. ASSUME NEW s \in Socks PROVE ~Hangup(s) /\ ~RefuseBatch(s) /\ ~SendDiff(s)
  <2>1. s = <<s[1], 1>> /\ s[1] \in Clients /\ s[2] = 1 /\ conn[s[1]] \in {0, 1}
        /\ (toServer[s] # << >> => conn[s[1]] = 1)
    BY <1>1, OneSocket
  <2>2. SteadySocket(s) /\ SteadyClient(s[1])
    BY <1>1, <2>1 DEF ClientConverges
  <2>3. conn[s[1]] >= 1 => IsOpen(s)
    BY <2>1, <2>2 DEF IsOpen, SteadyClient
  <2>4. ~Hangup(s)
    BY <2>1, <2>3 DEF Hangup
  <2>5. ~RefuseBatch(s) /\ ~SendDiff(s)
    BY <2>1, <2>2 DEF SteadySocket, RefuseBatch, SendDiff
  <2> QED
    BY <2>4, <2>5
<1> QED
  BY <1>3, <1>4

\* A push takes what it holds from the outbox to the queue.
LEMMA PushedIs ==
  ASSUME SyncInv, StayConnected, NEW c \in Clients, NEW held, NEW queued \in SUBSET DOMAIN made[c],
         PushOutbox(c, held, queued)
  PROVE  /\ \A t \in Socks : t[1] # c => toServer'[t] = toServer[t]
         /\ \A d \in Clients : d # c => pending'[d] = pending[d]
         /\ \/ pending'[c] = held /\ UNCHANGED toServer
            \/ /\ held = {} /\ conn[c] = 1
               /\ \E msg \in Requests :
                    /\ msg.type = "batch" /\ Items(msg.changes) = Held(made[c], pending'[c])
                    /\ toServer'[<<c, 1>>] = Append(toServer[<<c, 1>>], msg)
<1>1. made[c] \in Seq(ChangeOf) /\ queued \subseteq Nat
  <2>1. made[c] \in Seq(ChangeOf)
    BY DEF SyncInv, TableTypes
  <2> QED
    BY <2>1, LenProperties
<1>2. pending \in [Clients -> SUBSET Nat] /\ toServer \in [Socks -> Seq(Requests)]
  BY DEF SyncInv, TableTypes, ServerTypes
<1>3. CASE held = {} /\ status'[c] = "connected" /\ link[c] = "open" /\ queued # {}
  <2> DEFINE batch == InOrder(c, Oldest(queued))
             msg == [type |-> "batch", changes |-> batch]
  <2>1. conn[c] = 1 /\ <<c, 1>> \in Socks
    BY <1>3, OneSocket
  <2>2. /\ pending' = [pending EXCEPT ![c] = Oldest(queued)]
        /\ toServer' = [toServer EXCEPT ![<<c, 1>>] = Append(@, msg)]
    BY <1>3, <2>1 DEF PushOutbox
  <2>3. Oldest(queued) \in SUBSET DOMAIN made[c]
    BY <1>1, <1>3, OldestAreSome
  <2>4. /\ batch \in Seq(ChangeOf)
        /\ \A n \in Oldest(queued) : \E i \in DOMAIN batch : batch[i] = made[c][n]
        /\ \A i \in DOMAIN batch : \E n \in Oldest(queued) : batch[i] = made[c][n]
    BY <1>1, <2>3, InOrderHasAll
  <2> HIDE DEF batch
  <2>5. Items(batch) = Held(made[c], Oldest(queued))
    BY <2>4 DEF Items, Held
  <2>6. msg \in Requests /\ msg.type = "batch" /\ msg.changes = batch
    BY <2>4 DEF Requests
  <2> HIDE DEF msg
  <2>7. /\ pending'[c] = Oldest(queued) /\ toServer'[<<c, 1>>] = Append(toServer[<<c, 1>>], msg)
        /\ \A t \in Socks : t[1] # c => toServer'[t] = toServer[t]
        /\ \A d \in Clients : d # c => pending'[d] = pending[d]
    BY <1>2, <2>1, <2>2
  <2> QED
    BY <1>3, <2>1, <2>5, <2>6, <2>7
<1>4. CASE ~(held = {} /\ status'[c] = "connected" /\ link[c] = "open" /\ queued # {})
  <2>1. pending' = [pending EXCEPT ![c] = held] /\ UNCHANGED toServer
    BY <1>4 DEF PushOutbox
  <2> QED
    BY <1>2, <2>1
<1> QED
  BY <1>3, <1>4

\* After a step that pushes, or that leaves the outbox be, the client will ask as it would have.
LEMMA PushKeepsConverging ==
  ASSUME ConvergesInv, PutsInv', StayConnected, NEW c \in Clients, NEW held,
         outbox'[c] \subseteq outbox[c], outbox[c] \ pending[c] \subseteq outbox'[c] \ held,
         \/ PushOutbox(c, held, outbox'[c])
         \/ held = pending[c] /\ UNCHANGED <<pending, toServer>>,
         UNCHANGED <<serverVars, cid, loads, conn, link, made, draft>>,
         \A d \in Clients : d # c =>
           /\ inbox'[d] = inbox[d] /\ lastSync'[d] = lastSync[d] /\ outbox'[d] = outbox[d]
           /\ store'[d] = store[d],
         conn[c] = 0 => inbox'[c] = inbox[c] /\ lastSync'[c] = lastSync[c],
         Items(inbox'[c]) \subseteq Items(inbox[c]),
         conn[c] = 1 =>
           /\ Fits(reg, made[c], held, inbox'[c], toServer[<<c, 1>>], work[<<c, 1>>])
           /\ Judged(reg, made[c], held, Items(inbox'[c]), Items(toServer[<<c, 1>>]),
                     work[<<c, 1>>]),
         \A k \in Keys : store'[c][k].op = "none" => store'[c][k] = NoRecord,
         \A k \in Keys :
           Tops(store[c][k], reg[k]) \/ Brings(Items(inbox[c]), k, reg[k]) =>
             Tops(store'[c][k], reg[k]) \/ Brings(Items(inbox'[c]), k, reg[k]),
         \A k \in Keys : ShownBy(reg[k], made[c], outbox'[c], store'[c][k], k)
  PROVE  ConvergesInv'
<1>1. SyncInv /\ ClientConverges(c) /\ outbox[c] \subseteq DOMAIN made[c]
  BY DEF ConvergesInv, PutsInv, SyncInv, TableTypes
<1>2. /\ \A t \in Socks : t[1] # c => toServer'[t] = toServer[t]
      /\ \A d \in Clients : d # c => pending'[d] = pending[d]
      /\ \/ pending'[c] = held /\ UNCHANGED toServer
         \/ /\ held = {} /\ conn[c] = 1
            /\ \E msg \in Requests :
                 /\ msg.type = "batch" /\ Items(msg.changes) = Held(made[c], pending'[c])
                 /\ toServer'[<<c, 1>>] = Append(toServer[<<c, 1>>], msg)
  <2>1. CASE PushOutbox(c, held, outbox'[c])
    <3>1. outbox'[c] \in SUBSET DOMAIN made[c]
      BY <1>1
    <3> QED
      BY <1>1, <2>1, <3>1, PushedIs
  <2>2. CASE held = pending[c] /\ UNCHANGED <<pending, toServer>>
    BY <2>2
  <2> QED
    BY <2>1, <2>2
<1>3. UNCHANGED <<reg, session, work>>
  BY DEF serverVars
<1>4. /\ conn[c] \in {0, 1} /\ (conn[c] = 1 => <<c, 1>> \in Socks)
      /\ toServer \in [Socks -> Seq(Requests)]
  BY <1>1, OneSocket DEF SyncInv, ServerTypes
<1>5. ClientConverges(c)'
  <2>1. SteadyClient(c)'
    BY <1>1 DEF ClientConverges, SteadyClient
  <2>2. MailIsTrue(reg', Items(inbox'[c]))
    BY <1>1, <1>3 DEF ClientConverges, MailIsTrue
  <2>3. CASE pending'[c] = held /\ UNCHANGED toServer
    <3>1. <<c, 1>> \in Socks => SteadySocket(<<c, 1>>)'
      BY <1>1, <1>3, <2>3 DEF ClientConverges, SteadySocket
    <3>2. conn'[c] = 1 => Judged(reg', made'[c], pending'[c], Items(inbox'[c]),
                                 Items(toServer'[<<c, 1>>]), work'[<<c, 1>>])
      BY <1>3, <2>3
    <3>3. ASSUME NEW k \in Keys PROVE Knows(c, k)'
      <4>1. Knows(c, k)
        BY <1>1 DEF ClientConverges
      <4>2. WillAsk(made[c], outbox[c], pending[c], Items(toServer[<<c, 1>>]), k)
              => WillAsk(made[c], outbox'[c], held, Items(toServer[<<c, 1>>]), k)
        BY DEF WillAsk
      <4> QED
        BY <1>3, <2>3, <4>1, <4>2 DEF Knows
    <3> QED
      BY <1>3, <2>1, <2>2, <3>1, <3>2, <3>3 DEF ClientConverges
  <2>4. CASE ~(pending'[c] = held /\ UNCHANGED toServer)
    <3>1. /\ held = {} /\ conn[c] = 1 /\ <<c, 1>> \in Socks /\ toServer[<<c, 1>>] \in Seq(Requests)
          /\ \E msg \in Requests :
               /\ msg.type = "batch" /\ Items(msg.changes) = Held(made[c], pending'[c])
               /\ toServer'[<<c, 1>>] = Append(toServer[<<c, 1>>], msg)
      BY <1>2, <1>4, <2>4
    <3>2. PICK msg \in Requests :
               /\ msg.type = "batch" /\ Items(msg.changes) = Held(made[c], pending'[c])
               /\ toServer'[<<c, 1>>] = Append(toServer[<<c, 1>>], msg)
      BY <3>1
    <3> DEFINE q == toServer[<<c, 1>>]
    <3>3. Items(toServer'[<<c, 1>>]) = Items(q) \cup {msg}
      BY <3>1, <3>2, ItemsOf
    <3>4. /\ ~InHand(work[<<c, 1>>])
          /\ \A i \in DOMAIN q : ~IsBatch(q[i])
          /\ \A i \in DOMAIN inbox'[c] : ~IsAck(inbox'[c][i])
      BY <3>1 DEF Fits
    <3>5. /\ \A m \in Items(q) : ~IsBatch(m)
          /\ \A m \in Items(inbox'[c]) : ~IsAck(m)
      BY <3>4 DEF Items
    <3>6. Judged(reg', made'[c], pending'[c], Items(inbox'[c]), Items(toServer'[<<c, 1>>]),
                 work'[<<c, 1>>])
      BY <1>3, <3>2, <3>3, <3>4, <3>5 DEF Judged, InHand
    <3>7. SteadySocket(<<c, 1>>)'
      <4>1. SteadySocket(<<c, 1>>)
        BY <1>1, <3>1 DEF ClientConverges
      <4>2. q # << >> => toServer'[<<c, 1>>] # << >> /\ Head(toServer'[<<c, 1>>]) = Head(q)
        BY <3>1, <3>2, AppendKeepsHead
      <4> QED
        BY <1>3, <3>2, <3>3, <4>1, <4>2 DEF SteadySocket
    <3>8. ASSUME NEW k \in Keys PROVE Knows(c, k)'
      <4>1. Knows(c, k)
        BY <1>1 DEF ClientConverges
      <4>2. WillAsk(made[c], outbox[c], pending[c], Items(q), k)
              => WillAsk(made[c], outbox'[c], pending'[c], Items(toServer'[<<c, 1>>]), k)
        <5> SUFFICES ASSUME NEW n \in outbox[c] \ pending[c], made[c][n].key = k, n \in pending'[c]
                     PROVE  \E e \in Items(msg.changes) : e.key = k
          BY <3>2, <3>3 DEF WillAsk, IsBatch
        <5> QED
          BY <3>2 DEF Held
      <4> QED
        BY <1>3, <4>1, <4>2 DEF Knows
    <3> QED
      BY <1>3, <2>1, <2>2, <3>6, <3>7, <3>8 DEF ClientConverges
  <2> QED
    BY <2>3, <2>4
<1> QED
  BY <1>2, <1>5, ClientKeepsConverging

\* What a connected client has before a step.
LEMMA ClientBefore ==
  ASSUME ConvergesInv, StayConnected, NEW c \in Clients
  PROVE  /\ SyncInv /\ seq \in Nat /\ inbox[c] \in Seq(Answers(seq)) /\ ClientConverges(c)
         /\ conn[c] \in {0, 1} /\ Sock(c) = <<c, conn[c]>>
         /\ outbox[c] \subseteq DOMAIN made[c] /\ pending[c] \subseteq outbox[c]
         /\ \A n \in DOMAIN made[c] : made[c][n] \in ChangeOf
         /\ store[c] \in [Keys -> Record] /\ reg \in [Keys -> Record]
         /\ conn[c] = 1 => /\ Fits(reg, made[c], pending[c], inbox[c], toServer[<<c, 1>>],
                                   work[<<c, 1>>])
                           /\ Judged(reg, made[c], pending[c], Items(inbox[c]),
                                     Items(toServer[<<c, 1>>]), work[<<c, 1>>])
<1>1. SyncInv /\ ClientConverges(c)
  BY DEF ConvergesInv, PutsInv
<1>2. /\ seq \in Nat /\ inbox[c] \in Seq(Answers(seq)) /\ made[c] \in Seq(ChangeOf)
      /\ outbox[c] \subseteq DOMAIN made[c] /\ pending[c] \subseteq outbox[c]
      /\ store[c] \in [Keys -> Record] /\ reg \in [Keys -> Record]
  BY <1>1 DEF SyncInv, ServerTypes, ClientTypes, TableTypes
<1>3. \A n \in DOMAIN made[c] : made[c][n] \in ChangeOf
  BY <1>2, LenProperties, ElementOfSeq
<1>4. conn[c] \in {0, 1}
  BY <1>1, OneSocket
<1>5. ASSUME conn[c] = 1
      PROVE  /\ Fits(reg, made[c], pending[c], inbox[c], toServer[<<c, 1>>], work[<<c, 1>>])
             /\ Judged(reg, made[c], pending[c], Items(inbox[c]), Items(toServer[<<c, 1>>]),
                       work[<<c, 1>>])
  <2>1. link[c] = "open" /\ Sock(c) = <<c, 1>>
    BY <1>1, <1>5 DEF ClientConverges, SteadyClient, Sock
  <2> QED
    BY <1>1, <1>5, <2>1 DEF ClientConverges, SyncInv, OneAnswer
<1> QED
  BY <1>1, <1>2, <1>3, <1>4, <1>5 DEF Sock

LEMMA FireTimerConverges ==
  ASSUME ConvergesInv, PutsInv', StayConnected, NEW c \in Clients, FireTimer(c)
  PROVE  ConvergesInv'
<1>1. /\ PushOutbox(c, pending[c], outbox[c])
      /\ UNCHANGED <<serverVars, cid, loads, conn, link, inbox, lastSync, made, outbox, store, draft>>
  BY DEF FireTimer, localVars
<1>2. /\ ClientConverges(c) /\ pending[c] \subseteq outbox[c]
      /\ conn[c] = 1 =>
           /\ Fits(reg, made[c], pending[c], inbox[c], toServer[<<c, 1>>], work[<<c, 1>>])
           /\ Judged(reg, made[c], pending[c], Items(inbox[c]), Items(toServer[<<c, 1>>]),
                     work[<<c, 1>>])
  BY ClientBefore
<1>3. \A k \in Keys : /\ store'[c][k].op = "none" => store'[c][k] = NoRecord
                      /\ ShownBy(reg[k], made[c], outbox'[c], store'[c][k], k)
  BY <1>1, <1>2 DEF ClientConverges, SteadyClient
<1> QED
  BY <1>1, <1>2, <1>3, PushKeepsConverging

\* A client takes a message.
LEMMA MailTaken ==
  ASSUME ConvergesInv, StayConnected, NEW c \in Clients, inbox[c] # << >>, Received(c)
  PROVE  /\ conn[c] = 1 /\ Head(inbox[c]) \in Answers(seq)
         /\ Items(inbox[c]) = {Head(inbox[c])} \cup Items(inbox'[c])
         /\ \A d \in Clients : d # c => inbox'[d] = inbox[d]
         /\ Fits(reg, made[c], pending[c], inbox'[c], toServer[<<c, 1>>], work[<<c, 1>>])
         /\ Judged(reg, made[c], pending[c], Items(inbox'[c]), Items(toServer[<<c, 1>>]),
                   work[<<c, 1>>])
         /\ IsAck(Head(inbox[c])) =>
              /\ Fits(reg, made[c], {}, inbox'[c], toServer[<<c, 1>>], work[<<c, 1>>])
              /\ Got(reg, made[c], pending[c])
<1>1. /\ SyncInv /\ inbox[c] \in Seq(Answers(seq)) /\ ClientConverges(c) /\ conn[c] \in {0, 1}
      /\ conn[c] = 1 =>
           /\ Fits(reg, made[c], pending[c], inbox[c], toServer[<<c, 1>>], work[<<c, 1>>])
           /\ Judged(reg, made[c], pending[c], Items(inbox[c]), Items(toServer[<<c, 1>>]),
                     work[<<c, 1>>])
  BY ClientBefore
<1>2. conn[c] = 1
  BY <1>1 DEF ClientConverges, SteadyClient
<1>3. /\ Head(inbox[c]) \in Answers(seq) /\ inbox'[c] = Tail(inbox[c])
      /\ \A d \in Clients : d # c => inbox'[d] = inbox[d]
  BY <1>1, MailIs DEF Received
<1>4. Items(inbox[c]) = {Head(inbox[c])} \cup Items(inbox'[c])
  BY <1>1, <1>3, ItemsOf
<1>5. /\ Fits(reg, made[c], pending[c], inbox'[c], toServer[<<c, 1>>], work[<<c, 1>>])
      /\ IsAck(Head(inbox[c])) =>
           Fits(reg, made[c], {}, inbox'[c], toServer[<<c, 1>>], work[<<c, 1>>])
  BY <1>1, <1>2, <1>3, FitsLessMail
<1>6. /\ Judged(reg, made[c], pending[c], Items(inbox'[c]), Items(toServer[<<c, 1>>]),
                work[<<c, 1>>])
      /\ IsAck(Head(inbox[c])) => Got(reg, made[c], pending[c])
  BY <1>1, <1>2, <1>4 DEF Judged
<1> QED
  BY <1>2, <1>3, <1>4, <1>5, <1>6

LEMMA HandleAuthSuccessConverges ==
  ASSUME ConvergesInv, PutsInv', StayConnected, NEW c \in Clients, HandleAuthSuccess(c)
  PROVE  ConvergesInv'
<1>1. /\ inbox[c] # << >> /\ Received(c) /\ ~News(Head(inbox[c]))
      /\ PushOutbox(c, pending[c], outbox[c])
      /\ UNCHANGED <<serverVars, cid, loads, conn, link, lastSync, made, outbox, store, draft>>
  BY DEF HandleAuthSuccess, Receives, localVars, News
<1>2. ClientConverges(c) /\ pending[c] \subseteq outbox[c]
  BY ClientBefore
<1>3. /\ conn[c] = 1 /\ Items(inbox[c]) = {Head(inbox[c])} \cup Items(inbox'[c])
      /\ \A d \in Clients : d # c => inbox'[d] = inbox[d]
      /\ Fits(reg, made[c], pending[c], inbox'[c], toServer[<<c, 1>>], work[<<c, 1>>])
      /\ Judged(reg, made[c], pending[c], Items(inbox'[c]), Items(toServer[<<c, 1>>]),
                work[<<c, 1>>])
  BY <1>1, MailTaken
<1>4. \A k \in Keys : /\ store'[c][k].op = "none" => store'[c][k] = NoRecord
                      /\ ShownBy(reg[k], made[c], outbox'[c], store'[c][k], k)
  BY <1>1, <1>2 DEF ClientConverges, SteadyClient
<1>5. \A k \in Keys : Brings(Items(inbox[c]), k, reg[k]) => Brings(Items(inbox'[c]), k, reg[k])
  BY <1>1, <1>3 DEF Brings
<1>6. PushOutbox(c, pending[c], outbox'[c]) /\ outbox'[c] = outbox[c]
  BY <1>1
<1>7. Items(inbox'[c]) \subseteq Items(inbox[c])
  BY <1>3
<1>8. \A d \in Clients : d # c =>
        /\ inbox'[d] = inbox[d] /\ lastSync'[d] = lastSync[d] /\ outbox'[d] = outbox[d]
        /\ store'[d] = store[d]
  BY <1>1, <1>3
<1>9. \A k \in Keys :
        Tops(store[c][k], reg[k]) \/ Brings(Items(inbox[c]), k, reg[k]) =>
          Tops(store'[c][k], reg[k]) \/ Brings(Items(inbox'[c]), k, reg[k])
  BY <1>1, <1>5
<1>10. /\ conn[c] = 0 => inbox'[c] = inbox[c] /\ lastSync'[c] = lastSync[c]
       /\ outbox'[c] \subseteq outbox[c]
       /\ outbox[c] \ pending[c] \subseteq outbox'[c] \ pending[c]
  BY <1>3, <1>6
<1> QED
  BY <1>1, <1>3, <1>4, <1>6, <1>7, <1>8, <1>9, <1>10, PushKeepsConverging, Zenon

\* What is acknowledged is known: the server's records are as good.
LEMMA HandleAckConverges ==
  ASSUME ConvergesInv, PutsInv', StayConnected, NEW c \in Clients, HandleAck(c)
  PROVE  ConvergesInv'
<1>1. /\ inbox[c] # << >> /\ Received(c) /\ ~News(Head(inbox[c])) /\ IsAck(Head(inbox[c]))
      /\ outbox' = [outbox EXCEPT ![c] = outbox[c] \ pending[c]]
      /\ lastSync' = [lastSync EXCEPT ![c] = Head(inbox[c]).seq]
      /\ PushOutbox(c, {}, outbox[c] \ pending[c])
      /\ UNCHANGED <<serverVars, cid, loads, conn, link, made, store, draft>>
  BY DEF HandleAck, Receives, News, IsAck, Left, Released
<1>2. /\ SyncInv /\ ClientConverges(c) /\ outbox[c] \subseteq DOMAIN made[c]
      /\ \A n \in DOMAIN made[c] : made[c][n] \in ChangeOf
      /\ store[c] \in [Keys -> Record] /\ reg \in [Keys -> Record]
  BY ClientBefore
<1>3. /\ conn[c] = 1 /\ Items(inbox[c]) = {Head(inbox[c])} \cup Items(inbox'[c])
      /\ \A d \in Clients : d # c => inbox'[d] = inbox[d]
      /\ Fits(reg, made[c], {}, inbox'[c], toServer[<<c, 1>>], work[<<c, 1>>])
      /\ Got(reg, made[c], pending[c])
  BY <1>1, MailTaken
<1>4. /\ outbox'[c] = outbox[c] \ pending[c]
      /\ \A d \in Clients : d # c => outbox'[d] = outbox[d] /\ lastSync'[d] = lastSync[d]
  BY <1>1, <1>2 DEF SyncInv, TableTypes, ClientTypes
<1>5. Judged(reg, made[c], {}, Items(inbox'[c]), Items(toServer[<<c, 1>>]), work[<<c, 1>>])
  <2>1. /\ ~InHand(work[<<c, 1>>])
        /\ \A i \in DOMAIN toServer[<<c, 1>>] : ~IsBatch(toServer[<<c, 1>>][i])
        /\ \A i \in DOMAIN inbox'[c] : ~IsAck(inbox'[c][i])
    BY <1>3 DEF Fits
  <2> QED
    BY <2>1 DEF Judged, InHand, Items
<1>6. ASSUME NEW k \in Keys
      PROVE  /\ store'[c][k].op = "none" => store'[c][k] = NoRecord
             /\ ShownBy(reg[k], made[c], outbox'[c], store'[c][k], k)
  <2>1. /\ store[c][k].op = "none" => store[c][k] = NoRecord
        /\ ShownBy(reg[k], made[c], outbox[c], store[c][k], k)
    BY <1>2 DEF ClientConverges, SteadyClient
  <2>2. ASSUME NEW n \in pending[c], n \in outbox[c], made[c][n].key = k, Tops(made[c][n], store[c][k])
        PROVE  Tops(reg[k], store[c][k])
    <3>1. Tops(reg[k], made[c][n])
      BY <1>3, <2>2 DEF Got, Held
    <3>2. Dated(reg[k]) /\ Dated(made[c][n]) /\ Dated(store[c][k])
      BY <1>2, <2>2, AllAreDated
    <3> QED
      BY <2>2, <3>1, <3>2, TopsIsOrder
  <2> QED
    BY <1>1, <1>4, <2>1, <2>2 DEF ShownBy
<1>7. \A k \in Keys : Brings(Items(inbox[c]), k, reg[k]) => Brings(Items(inbox'[c]), k, reg[k])
  BY <1>1, <1>3 DEF Brings
<1>8. PICK held : held = {}
  OBVIOUS
<1>9. /\ PushOutbox(c, held, outbox'[c]) /\ outbox'[c] \subseteq outbox[c]
      /\ outbox[c] \ pending[c] \subseteq outbox'[c] \ held
  BY <1>1, <1>4, <1>8
<1>10. Items(inbox'[c]) \subseteq Items(inbox[c])
  BY <1>3
<1>11. \A d \in Clients : d # c =>
         /\ inbox'[d] = inbox[d] /\ lastSync'[d] = lastSync[d] /\ outbox'[d] = outbox[d]
         /\ store'[d] = store[d]
  BY <1>1, <1>3, <1>4
<1>12. \A k \in Keys :
         Tops(store[c][k], reg[k]) \/ Brings(Items(inbox[c]), k, reg[k]) =>
           Tops(store'[c][k], reg[k]) \/ Brings(Items(inbox'[c]), k, reg[k])
  BY <1>1, <1>7
<1>13. /\ Fits(reg, made[c], held, inbox'[c], toServer[<<c, 1>>], work[<<c, 1>>])
       /\ Judged(reg, made[c], held, Items(inbox'[c]), Items(toServer[<<c, 1>>]), work[<<c, 1>>])
  BY <1>3, <1>5, <1>8
<1>14. conn[c] = 0 => inbox'[c] = inbox[c] /\ lastSync'[c] = lastSync[c]
  BY <1>3
<1> QED
  BY <1>1, <1>6, <1>9, <1>10, <1>11, <1>12, <1>13, <1>14, PushKeepsConverging, Zenon

\* A remote batch makes the table as good as its changes, and no better than the server's
\* records.
LEMMA HandleChangesConverges ==
  ASSUME ConvergesInv, PutsInv', StayConnected, NEW c \in Clients, HandleChanges(c)
  PROVE  ConvergesInv'
<1> DEFINE msg == Head(inbox[c])
           after == Overwritten(store[c], capture[c], msg.changes)
<1>1. /\ inbox[c] # << >> /\ Received(c) /\ News(msg)
      /\ capture[c] # Nothing \/ msg.changes = {}
      /\ store' = [store EXCEPT ![c] = after]
      /\ lastSync' = [lastSync EXCEPT ![c] = msg.seq]
      /\ UNCHANGED <<serverVars, cid, loads, conn, link, made, outbox, draft>>
      /\ \/ PushOutbox(c, pending[c], outbox[c])
         \/ pending[c] = pending[c] /\ UNCHANGED <<pending, toServer>>
  BY DEF HandleChanges, Receives, News
<1>2. /\ SyncInv /\ seq \in Nat /\ ClientConverges(c) /\ outbox[c] \subseteq DOMAIN made[c]
      /\ store[c] \in [Keys -> Record] /\ reg \in [Keys -> Record]
  BY ClientBefore
<1>3. /\ conn[c] = 1 /\ msg \in Answers(seq)
      /\ Items(inbox[c]) = {msg} \cup Items(inbox'[c])
      /\ \A d \in Clients : d # c => inbox'[d] = inbox[d]
      /\ Fits(reg, made[c], pending[c], inbox'[c], toServer[<<c, 1>>], work[<<c, 1>>])
      /\ Judged(reg, made[c], pending[c], Items(inbox'[c]), Items(toServer[<<c, 1>>]),
                work[<<c, 1>>])
  BY <1>1, MailTaken
<1> HIDE DEF msg
<1>4. msg.changes \in SUBSET Wire(seq) /\ IsTrue(reg, msg.changes)
  <2>1. IsTrue(reg, msg.changes)
    BY <1>1, <1>2, <1>3 DEF ClientConverges, MailIsTrue
  <2>2. msg.changes \in SUBSET Wire(seq)
    BY <1>1, <1>3 DEF Answers, News
  <2> QED
    BY <2>1, <2>2
<1>5. msg.changes # {} => capture[c] = store[c]
  BY <1>1 DEF ConvergesInv, PutsInv, TableInView, InView
<1>6. /\ store'[c] = after
      /\ \A d \in Clients : d # c => store'[d] = store[d] /\ lastSync'[d] = lastSync[d]
  BY <1>1, <1>2 DEF SyncInv, TableTypes, ClientTypes
<1> HIDE DEF after
<1>7. ASSUME NEW k \in Keys
      PROVE  /\ after[k] = store[c][k] \/ \E e \in msg.changes : e.key = k /\ after[k] = RecordOf(e)
             /\ Tops(after[k], store[c][k])
             /\ \A e \in msg.changes : e.key = k => Tops(after[k], e)
  <2>1. PICK changes \in SUBSET Wire(seq) : changes = msg.changes
    BY <1>4
  <2>2. PICK now \in [Keys -> Record] : now = store[c]
    BY <1>2
  <2>3. PICK seen : seen = capture[c]
    OBVIOUS
  <2>4. IsTrue(reg, changes) /\ (changes # {} => seen = now)
    BY <1>4, <1>5, <2>1, <2>2, <2>3
  <2>5. after[k] = Overwritten(now, seen, changes)[k]
    BY <2>1, <2>2, <2>3 DEF after
  <2> HIDE DEF after
  <2>6. /\ \/ Overwritten(now, seen, changes)[k] = now[k]
           \/ \E e \in changes : /\ e.key = k
                                 /\ Overwritten(now, seen, changes)[k] = RecordOf(e)
        /\ Tops(Overwritten(now, seen, changes)[k], now[k])
        /\ \A e \in changes : e.key = k => Tops(Overwritten(now, seen, changes)[k], e)
    BY <1>2, <2>4, OverwrittenTops
  <2> QED
    BY <2>1, <2>2, <2>5, <2>6
<1>8. \A e \in msg.changes : Dated(e) /\ e.op = "put" /\ Tops(reg[e.key], e)
  BY <1>2, <1>4, AllAreDated DEF IsTrue
<1>9. \A k \in Keys : Dated(reg[k]) /\ Dated(store[c][k]) /\ Dated(after[k])
  <2> SUFFICES ASSUME NEW k \in Keys
               PROVE  Dated(reg[k]) /\ Dated(store[c][k]) /\ Dated(after[k])
    OBVIOUS
  <2>1. Dated(reg[k]) /\ Dated(store[c][k])
    BY <1>2, AllAreDated
  <2>2. \A e : Dated(e) => Dated(RecordOf(e))
    BY DEF Dated, RecordOf
  <2> QED
    BY <1>7, <1>8, <2>1, <2>2
<1>10. ASSUME NEW k \in Keys
       PROVE  /\ store'[c][k].op = "none" => store'[c][k] = NoRecord
              /\ ShownBy(reg[k], made[c], outbox'[c], store'[c][k], k)
  <2>1. /\ store[c][k].op = "none" => store[c][k] = NoRecord
        /\ ShownBy(reg[k], made[c], outbox[c], store[c][k], k)
    BY <1>2 DEF ClientConverges, SteadyClient
  <2>2. CASE after[k] = store[c][k]
    BY <1>1, <1>6, <2>1, <2>2
  <2>3. ASSUME NEW e \in msg.changes, e.key = k, after[k] = RecordOf(e)
        PROVE  /\ store'[c][k].op = "none" => store'[c][k] = NoRecord
               /\ ShownBy(reg[k], made[c], outbox'[c], store'[c][k], k)
    <3>1. Tops(reg[k], after[k])
      BY <1>8, <2>3, TopsIsOrder
    <3>2. after[k].op = "put"
      BY <1>8, <2>3 DEF RecordOf
    <3> QED
      BY <1>6, <3>1, <3>2 DEF ShownBy
  <2> QED
    BY <1>7, <2>2, <2>3
<1>11. ASSUME NEW k \in Keys, Tops(store[c][k], reg[k]) \/ Brings(Items(inbox[c]), k, reg[k])
       PROVE  Tops(store'[c][k], reg[k]) \/ Brings(Items(inbox'[c]), k, reg[k])
  <2>1. CASE Tops(store[c][k], reg[k])
    BY <1>6, <1>7, <1>9, <2>1, TopsIsOrder
  <2>2. CASE Brings(Items(inbox[c]), k, reg[k])
    <3>1. PICK m \in Items(inbox[c]) :
            News(m) /\ \E e \in m.changes : e.key = k /\ Tops(e, reg[k])
      BY <2>2 DEF Brings
    <3>2. CASE m = msg
      <4>1. PICK e \in msg.changes : e.key = k /\ Tops(e, reg[k])
        BY <3>1, <3>2
      <4> QED
        BY <1>6, <1>7, <1>8, <1>9, <4>1, TopsIsOrder
    <3>3. CASE m \in Items(inbox'[c])
      BY <3>1, <3>3 DEF Brings
    <3> QED
      BY <1>3, <3>1, <3>2, <3>3
  <2> QED
    BY <1>11, <2>1, <2>2
<1>12. /\ \/ PushOutbox(c, pending[c], outbox'[c])
          \/ pending[c] = pending[c] /\ UNCHANGED <<pending, toServer>>
       /\ outbox'[c] = outbox[c]
  BY <1>1
<1>13. Items(inbox'[c]) \subseteq Items(inbox[c])
  BY <1>3
<1>14. \A d \in Clients : d # c =>
         /\ inbox'[d] = inbox[d] /\ lastSync'[d] = lastSync[d] /\ outbox'[d] = outbox[d]
         /\ store'[d] = store[d]
  BY <1>1, <1>3, <1>6
<1>15. /\ conn[c] = 0 => inbox'[c] = inbox[c] /\ lastSync'[c] = lastSync[c]
       /\ outbox'[c] \subseteq outbox[c]
       /\ outbox[c] \ pending[c] \subseteq outbox'[c] \ pending[c]
  BY <1>3, <1>12
<1> QED
  BY <1>1, <1>3, <1>10, <1>11, <1>12, <1>13, <1>14, <1>15, PushKeepsConverging, Zenon

\* A change is worked out, or a batch is going to be applied.
LEMMA DraftConverges ==
  ASSUME ConvergesInv, PutsInv', StayConnected, NEW c \in Clients,
         Capture(c) \/ \E k \in Keys, op \in Ops, now \in 1..MaxTs : Draft(c, k, op, now)
  PROVE  ConvergesInv'
<1>1. /\ UNCHANGED <<serverVars, toServer, cid, loads, conn, link, inbox, lastSync, pending,
                     store, made, outbox>>
      /\ draft'[c] # Nothing => draft'[c].cid = cid[c] \/ draft'[c] = draft[c]
      /\ \A d \in Clients : d # c => draft'[d] = draft[d]
  <2>1. draft \in [Clients -> {Nothing} \cup ChangeOf]
    BY DEF ConvergesInv, PutsInv, SyncInv, ClientTypes
  <2> QED
    BY <2>1 DEF Capture, Draft, localVars
<1>2. ClientConverges(c)
  BY DEF ConvergesInv
<1>3. SteadyClient(c)'
  BY <1>1, <1>2 DEF ClientConverges, SteadyClient
<1>4. UNCHANGED <<reg, session, work>>
  BY <1>1 DEF serverVars
<1>5. <<c, 1>> \in Socks => SteadySocket(<<c, 1>>)'
  BY <1>1, <1>2, <1>4 DEF ClientConverges, SteadySocket
<1>6. \A k \in Keys : Knows(c, k)'
  BY <1>1, <1>2, <1>4 DEF ClientConverges, Knows
<1>7. ClientConverges(c)'
  BY <1>1, <1>2, <1>3, <1>4, <1>5, <1>6 DEF ClientConverges
<1>8. \A d \in Clients : d # c =>
        /\ conn'[d] = conn[d] /\ link'[d] = link[d] /\ inbox'[d] = inbox[d]
        /\ loads'[d] = loads[d] /\ cid'[d] = cid[d] /\ lastSync'[d] = lastSync[d]
        /\ made'[d] = made[d] /\ outbox'[d] = outbox[d] /\ pending'[d] = pending[d]
        /\ store'[d] = store[d] /\ draft'[d] = draft[d]
  BY <1>1
<1> QED
  BY <1>1, <1>7, <1>8, ClientKeepsConverging

\* A put is shown, and it is in the outbox, so that the client will ask what has become of it.
LEMMA CommitConverges ==
  ASSUME ConvergesInv, PutsInv', StayConnected, Ops \subseteq {"put"}, NEW c \in Clients,
         CommitLocal(c)
  PROVE  ConvergesInv'
<1> DEFINE change == draft[c]
           n == Len(made[c]) + 1
<1>1. /\ change # Nothing
      /\ store' = [store EXCEPT ![c][change.key] =
                     IF change.op = "delete" THEN NoRecord ELSE RecordOf(change)]
      /\ made' = [made EXCEPT ![c] = Append(@, change)]
      /\ outbox' = [outbox EXCEPT ![c] = @ \cup {n}]
      /\ draft' = [draft EXCEPT ![c] = Nothing]
      /\ UNCHANGED <<serverVars, toServer, cid, loads, conn, link, inbox, lastSync, pending>>
  BY DEF CommitLocal
<1>2. /\ ClientConverges(c) /\ store[c] \in [Keys -> Record] /\ reg \in [Keys -> Record]
      /\ outbox[c] \subseteq DOMAIN made[c] /\ pending[c] \subseteq outbox[c]
  BY ClientBefore
<1>3. /\ change \in ChangeOf /\ made[c] \in Seq(ChangeOf)
      /\ draft'[c] = Nothing /\ outbox'[c] = outbox[c] \cup {n} /\ made'[c] = Append(made[c], change)
      /\ store'[c] = [store[c] EXCEPT ![change.key] =
                        IF change.op = "delete" THEN NoRecord ELSE RecordOf(change)]
      /\ \A d \in Clients : d # c => /\ made'[d] = made[d] /\ outbox'[d] = outbox[d]
                                     /\ store'[d] = store[d] /\ draft'[d] = draft[d]
  BY <1>1 DEF ConvergesInv, PutsInv, SyncInv, ClientTypes, TableTypes
<1>4. /\ n \notin DOMAIN made[c] /\ DOMAIN made'[c] = DOMAIN made[c] \cup {n}
      /\ made'[c][n] = change /\ \A m \in DOMAIN made[c] : made'[c][m] = made[c][m]
  <2>1. /\ DOMAIN made[c] = 1..Len(made[c]) /\ Len(made[c]) \in Nat
        /\ DOMAIN Append(made[c], change) = 1..(Len(made[c]) + 1)
        /\ \A m \in 1..Len(made[c]) : Append(made[c], change)[m] = made[c][m]
        /\ Append(made[c], change)[Len(made[c]) + 1] = change
    BY <1>3, AppendProperties, LenProperties
  <2> QED
    BY <1>3, <2>1
<1> HIDE DEF n
<1>5. change.key \in Keys /\ change.op = "put" /\ Dated(change) /\ change.cid = cid[c]
  <2>1. change.key \in Keys /\ change.op \in Ops /\ Dated(change)
    BY <1>3, AllAreDated
  <2>2. change.cid = cid[c]
    BY <1>1, <1>2 DEF ClientConverges, SteadyClient
  <2>3. change.op = "put"
    BY <2>1, Zenon
  <2> QED
    BY <2>1, <2>2, <2>3
<1> HIDE DEF change
<1>6. /\ store'[c][change.key] = RecordOf(change) /\ RecordOf(change).op = "put"
      /\ \A k \in Keys : k # change.key => store'[c][k] = store[c][k]
  BY <1>2, <1>3, <1>5 DEF RecordOf
<1>7. UNCHANGED <<reg, session, work>>
  BY <1>1 DEF serverVars
<1>8. SteadyClient(c)'
  <2>1. SteadyClient(c)
    BY <1>2 DEF ClientConverges
  <2>2. \A k \in Keys : store'[c][k].op = "none" => store'[c][k] = NoRecord
    BY <1>6, <2>1 DEF SteadyClient
  <2>3. \A m \in DOMAIN made'[c] : made'[c][m].cid = cid[c]
    BY <1>4, <1>5, <2>1 DEF SteadyClient
  <2> QED
    BY <1>1, <1>3, <2>1, <2>2, <2>3 DEF SteadyClient
<1>9. <<c, 1>> \in Socks => SteadySocket(<<c, 1>>)'
  BY <1>1, <1>2, <1>7 DEF ClientConverges, SteadySocket
<1>10. Held(made'[c], pending[c]) = Held(made[c], pending[c])
  BY <1>2, <1>4 DEF Held
<1>11. conn'[c] = 1 => Judged(reg', made'[c], pending'[c], Items(inbox'[c]),
                              Items(toServer'[<<c, 1>>]), work'[<<c, 1>>])
  BY <1>1, <1>2, <1>7, <1>10 DEF ClientConverges, Judged, Got
<1>12. ASSUME NEW k \in Keys PROVE Knows(c, k)'
  <2>1. Knows(c, k)
    BY <1>2 DEF ClientConverges
  <2>2. CASE k = change.key
    <3>1. n \in outbox'[c] \ pending'[c] /\ made'[c][n].key = k
      BY <1>1, <1>2, <1>3, <1>4, <2>2
    <3> QED
      BY <3>1 DEF Knows, WillAsk
  <2>3. CASE k # change.key
    <3>1. WillAsk(made[c], outbox[c], pending[c], Items(toServer[<<c, 1>>]), k)
            => WillAsk(made'[c], outbox'[c], pending'[c], Items(toServer'[<<c, 1>>]), k)
      BY <1>1, <1>2, <1>3, <1>4 DEF WillAsk
    <3> QED
      BY <1>1, <1>6, <1>7, <2>1, <2>3, <3>1 DEF Knows
  <2> QED
    BY <2>2, <2>3
<1>13. ASSUME NEW k \in Keys PROVE ShownBy(reg[k], made[c], outbox[c], store[c][k], k)'
  <2>1. ShownBy(reg[k], made[c], outbox[c], store[c][k], k)
    BY <1>2 DEF ClientConverges
  <2>2. CASE k = change.key
    <3>1. Tops(made'[c][n], store'[c][k])
      BY <1>4, <1>5, <1>6, <2>2, TopsIsOrder
    <3> QED
      BY <1>3, <1>4, <2>2, <3>1 DEF ShownBy
  <2>3. CASE k # change.key
    BY <1>2, <1>3, <1>4, <1>6, <1>7, <2>1, <2>3 DEF ShownBy
  <2> QED
    BY <2>2, <2>3
<1>14. ClientConverges(c)'
  BY <1>1, <1>2, <1>7, <1>8, <1>9, <1>11, <1>12, <1>13 DEF ClientConverges
<1>15. \A d \in Clients : d # c =>
         /\ conn'[d] = conn[d] /\ link'[d] = link[d] /\ inbox'[d] = inbox[d]
         /\ loads'[d] = loads[d] /\ cid'[d] = cid[d] /\ lastSync'[d] = lastSync[d]
         /\ made'[d] = made[d] /\ outbox'[d] = outbox[d] /\ pending'[d] = pending[d]
         /\ store'[d] = store[d] /\ draft'[d] = draft[d]
  BY <1>1, <1>3
<1> QED
  BY <1>1, <1>14, <1>15, ClientKeepsConverging

\* A client connects, and asks for everything.
LEMMA ConnectConverges ==
  ASSUME ConvergesInv, PutsInv', StayConnected, NEW c \in Clients, Connect(c)
  PROVE  ConvergesInv'
<1> DEFINE auth == [type |-> "auth", cid |-> cid[c], since |-> lastSync[c]]
<1>1. /\ link[c] = "closed" /\ inbox[c] = << >> /\ conn[c] < MaxConns[c]
      /\ link' = [link EXCEPT ![c] = "open"] /\ conn' = [conn EXCEPT ![c] = @ + 1]
      /\ toServer' = [toServer EXCEPT ![<<c, conn[c] + 1>>] = << auth >>]
      /\ UNCHANGED <<serverVars, cid, loads, inbox, lastSync, pending, store, made, outbox, draft>>
  BY DEF Connect, localVars
<1>2. /\ SyncInv /\ ClientConverges(c) /\ conn[c] \in {0, 1}
  BY ClientBefore
<1>3. SteadyClient(c)
  BY <1>2 DEF ClientConverges
<1>4. conn[c] = 0 /\ <<c, 1>> \in Socks
  <2>1. MaxConns[c] \in Nat /\ MaxConns[c] <= 1
    BY SyncAssumption DEF StayConnected
  <2>2. conn[c] = 0 /\ 1 <= MaxConns[c]
    BY <1>1, <1>2, <2>1
  <2> QED
    BY <2>2, SocksArePairs
<1>5. /\ link'[c] = "open" /\ conn'[c] = 1 /\ toServer'[<<c, 1>>] = << auth >>
      /\ \A t \in Socks : t[1] # c => toServer'[t] = toServer[t]
      /\ \A d \in Clients : d # c => conn'[d] = conn[d] /\ link'[d] = link[d]
  BY <1>1, <1>2, <1>4 DEF SyncInv, ClientTypes, ServerTypes
<1>6. auth.type = "auth" /\ auth.cid = cid[c] /\ auth.since = 0
  BY <1>3, <1>4 DEF SteadyClient
<1> HIDE DEF auth
<1>7. /\ Items(toServer'[<<c, 1>>]) = {auth} /\ toServer'[<<c, 1>>] # << >>
      /\ Head(toServer'[<<c, 1>>]) = auth
  BY <1>5 DEF Items
<1>8. UNCHANGED <<reg, session, work>>
  BY <1>1 DEF serverVars
<1>9. SteadySocket(<<c, 1>>) /\ session[<<c, 1>>] = 0
  BY <1>2, <1>4 DEF ClientConverges, SteadySocket
<1>10. work[<<c, 1>>] = Idle
  BY <1>2, <1>4, OneSocket
<1>11. SteadyClient(c)'
  BY <1>1, <1>3, <1>5 DEF SteadyClient
<1>12. SteadySocket(<<c, 1>>)'
  BY <1>1, <1>5, <1>6, <1>7, <1>8, <1>9 DEF SteadySocket
<1>13. Items(inbox'[c]) = {}
  BY <1>1, ItemsOf
<1>14. Judged(reg', made'[c], pending'[c], Items(inbox'[c]), Items(toServer'[<<c, 1>>]),
              work'[<<c, 1>>])
  BY <1>6, <1>7, <1>8, <1>10, <1>13 DEF Judged, IsBatch, Idle
<1>15. ClientConverges(c)'
  <2>1. MailIsTrue(reg', Items(inbox'[c]))
    BY <1>13 DEF MailIsTrue
  <2>2. \A k \in Keys : Knows(c, k)'
    BY <1>8, <1>9 DEF Knows
  <2>3. \A k \in Keys : ShownBy(reg[k], made[c], outbox[c], store[c][k], k)'
    BY <1>1, <1>2, <1>8 DEF ClientConverges
  <2> QED
    BY <1>11, <1>12, <1>14, <2>1, <2>2, <2>3 DEF ClientConverges
<1>16. \A d \in Clients : d # c =>
         /\ conn'[d] = conn[d] /\ link'[d] = link[d] /\ inbox'[d] = inbox[d]
         /\ loads'[d] = loads[d] /\ cid'[d] = cid[d] /\ lastSync'[d] = lastSync[d]
         /\ made'[d] = made[d] /\ outbox'[d] = outbox[d] /\ pending'[d] = pending[d]
         /\ store'[d] = store[d] /\ draft'[d] = draft[d]
  BY <1>1, <1>5
<1> QED
  BY <1>1, <1>5, <1>15, <1>16, ClientKeepsConverging

\* A step of a handler that leaves the records: who was to be told is told, or will be.
LEMMA HandlerKeepsConverging ==
  ASSUME ConvergesInv, PutsInv', StayConnected, NEW s \in Socks, NEW w,
         work' = [work EXCEPT ![s] = w], UNCHANGED <<reg, clientVars>>,
         \A t \in Socks : t # s => toServer'[t] = toServer[t] /\ session'[t] = session[t],
         \A c \in Clients :
           /\ conn[c] = 0 => inbox'[c] = inbox[c]
           /\ Items(inbox[c]) \subseteq Items(inbox'[c])
           /\ \A m \in Items(inbox'[c]) :
                \/ m \in Items(inbox[c])
                \/ /\ News(m) => IsTrue(reg, m.changes)
                   /\ IsAck(m) => c = s[1] /\ Got(reg, made[c], pending[c]),
         WorkIsTrue(reg, w), SteadySocket(s)',
         Judged(reg, made[s[1]], pending[s[1]], Items(inbox[s[1]]), Items(toServer'[s]), w),
         \A k \in Keys : Knows(s[1], k)',
         \A c \in Clients, k \in Keys : c # s[1] /\ WillBring(work[s], k, reg[k]) =>
           \/ WillBring(w, k, reg[k])
           \/ conn[c] = 0 \/ session[<<c, 1>>] = 0
           \/ Brings(Items(inbox'[c]), k, reg[k])
  PROVE  ConvergesInv'
<1>1. SyncInv /\ (\A c \in Clients : ClientConverges(c)) /\ \A t \in Socks : WorkIsTrue(reg, work[t])
  BY DEF ConvergesInv, PutsInv
<1>2. /\ s = <<s[1], 1>> /\ s[1] \in Clients
      /\ \A c \in Clients : c # s[1] => <<c, 1>> # s
  BY <1>1, OneSocket
<1>3. /\ reg' = reg
      /\ UNCHANGED <<cid, loads, conn, link, lastSync, pending, store, made, outbox, draft>>
  BY DEF clientVars, localVars
<1>4. work'[s] = w /\ \A t \in Socks : t # s => work'[t] = work[t]
  BY <1>1 DEF SyncInv, ServerTypes
<1>5. \A t \in Socks : WorkIsTrue(reg', work'[t])
  BY <1>1, <1>3, <1>4
<1>6. ASSUME NEW c \in Clients PROVE ClientConverges(c)'
  <2>1. ClientConverges(c) /\ conn[c] \in {0, 1} /\ (conn[c] = 1 => <<c, 1>> \in Socks)
    BY <1>1, OneSocket
  <2>2. SteadyClient(c)'
    BY <1>3, <2>1 DEF ClientConverges, SteadyClient
  <2>3. MailIsTrue(reg', Items(inbox'[c]))
    BY <1>3, <2>1 DEF ClientConverges, MailIsTrue
  <2>4. \A k \in Keys : ShownBy(reg[k], made[c], outbox[c], store[c][k], k)'
    BY <1>3, <2>1 DEF ClientConverges
  <2>5. CASE c = s[1]
    <3>1. <<c, 1>> = s
      BY <1>2, <2>5
    <3>2. Judged(reg', made'[c], pending'[c], Items(inbox'[c]), Items(toServer'[<<c, 1>>]),
                 work'[<<c, 1>>])
      BY <1>3, <1>4, <2>5, <3>1 DEF Judged
    <3> QED
      BY <2>2, <2>3, <2>4, <2>5, <3>1, <3>2 DEF ClientConverges
  <2>6. CASE c # s[1]
    <3>1. <<c, 1>> # s
      BY <1>2, <2>6
    <3>2. <<c, 1>> \in Socks =>
            /\ toServer'[<<c, 1>>] = toServer[<<c, 1>>] /\ session'[<<c, 1>>] = session[<<c, 1>>]
            /\ work'[<<c, 1>>] = work[<<c, 1>>]
      BY <1>4, <3>1
    <3>3. <<c, 1>> \in Socks => SteadySocket(<<c, 1>>)'
      BY <1>3, <2>1, <3>2 DEF ClientConverges, SteadySocket
    <3>4. conn'[c] = 1 => Judged(reg', made'[c], pending'[c], Items(inbox'[c]),
                                 Items(toServer'[<<c, 1>>]), work'[<<c, 1>>])
      BY <1>3, <2>1, <2>6, <3>2 DEF ClientConverges, Judged
    <3>5. ASSUME NEW k \in Keys PROVE Knows(c, k)'
      <4>1. Knows(c, k)
        BY <2>1 DEF ClientConverges
      <4>2. CASE conn[c] = 0
        BY <1>3, <4>2 DEF Knows
      <4>3. CASE conn[c] = 1
        <5>1. Brings(Items(inbox[c]), k, reg[k]) => Brings(Items(inbox'[c]), k, reg[k])
          BY DEF Brings
        <5>2. ASSUME NEW t \in Socks \ {<<c, 1>>}, WillBring(work[t], k, reg[k])
              PROVE  Knows(c, k)'
          <6>1. CASE t # s
            BY <1>3, <1>4, <5>2, <6>1 DEF Knows
          <6>2. CASE t = s
            <7>1. \/ WillBring(w, k, reg[k])
                  \/ session[<<c, 1>>] = 0
                  \/ Brings(Items(inbox'[c]), k, reg[k])
              BY <2>6, <4>3, <5>2, <6>2
            <7> QED
              BY <1>3, <1>4, <2>1, <3>1, <3>2, <4>3, <7>1 DEF Knows
          <6> QED
            BY <6>1, <6>2
        <5> QED
          BY <1>3, <2>1, <3>2, <4>1, <4>3, <5>1, <5>2 DEF Knows
      <4> QED
        BY <2>1, <4>2, <4>3
    <3> QED
      BY <2>2, <2>3, <2>4, <3>3, <3>4, <3>5 DEF ClientConverges
  <2> QED
    BY <2>5, <2>6
<1> QED
  BY <1>5, <1>6 DEF ConvergesInv

\* What the client of a handler at work has.
LEMMA HandlerBefore ==
  ASSUME ConvergesInv, StayConnected, NEW s \in Socks, work[s] # Idle \/ toServer[s] # << >>
  PROVE  /\ s = <<s[1], 1>> /\ s[1] \in Clients /\ conn[s[1]] = 1 /\ IsOpen(s)
         /\ SyncInv /\ SteadySocket(s) /\ WorkIsTrue(reg, work[s]) /\ SteadyClient(s[1])
         /\ Judged(reg, made[s[1]], pending[s[1]], Items(inbox[s[1]]), Items(toServer[s]), work[s])
         /\ \A k \in Keys : Knows(s[1], k)
<1>1. SyncInv /\ (\A c \in Clients : ClientConverges(c)) /\ WorkIsTrue(reg, work[s])
  BY DEF ConvergesInv, PutsInv
<1>2. s = <<s[1], 1>> /\ s[1] \in Clients /\ s[2] = 1 /\ conn[s[1]] = 1
  <2>1. conn[s[1]] >= 1 /\ s[1] \in Clients /\ s = <<s[1], 1>> /\ s[2] = 1
    BY <1>1, OneSocket
  <2>2. conn[s[1]] \in {0, 1}
    BY <1>1, <2>1, OneSocket
  <2> QED
    BY <2>1, <2>2
<1>3. ClientConverges(s[1])
  BY <1>1, <1>2
<1>4. IsOpen(s)
  BY <1>2, <1>3 DEF ClientConverges, SteadyClient, IsOpen
<1> QED
  BY <1>1, <1>2, <1>3, <1>4 DEF ClientConverges

\* What a handler sends is added to what clients have to read.
LEMMA SentIs ==
  ASSUME ConvergesInv, StayConnected, NEW msgs \in [Socks -> Seq(Answers(seq))], SendAll(msgs)
  PROVE  \A c \in Clients :
           /\ conn[c] = 0 => inbox'[c] = inbox[c]
           /\ conn[c] = 1 => Items(inbox'[c]) = Items(inbox[c]) \cup Items(msgs[<<c, 1>>])
<1> SUFFICES ASSUME NEW c \in Clients
             PROVE  /\ conn[c] = 0 => inbox'[c] = inbox[c]
                    /\ conn[c] = 1 => Items(inbox'[c]) = Items(inbox[c]) \cup Items(msgs[<<c, 1>>])
  OBVIOUS
<1>1. SyncInv /\ SteadyClient(c) /\ inbox[c] \in Seq(Answers(seq))
  BY DEF ConvergesInv, ClientConverges, PutsInv, SyncInv, ClientTypes
<1>2. CASE conn[c] = 0
  <2>1. ~IsOpen(<<c, conn[c]>>)
    BY <1>1, <1>2 DEF SteadyClient, IsOpen
  <2> QED
    BY <1>2, <2>1 DEF SendAll
<1>3. CASE conn[c] = 1
  <2>1. IsOpen(<<c, conn[c]>>) /\ <<c, 1>> \in Socks
    BY <1>1, <1>3, OneSocket DEF SteadyClient, IsOpen
  <2>2. inbox'[c] = inbox[c] \o msgs[<<c, 1>>]
    BY <1>3, <2>1 DEF SendAll
  <2>3. msgs[<<c, 1>>] \in Seq(Answers(seq))
    BY <2>1
  <2> QED
    BY <1>1, <1>3, <2>2, <2>3, ItemsOf
<1> QED
  BY <1>2, <1>3

\* What its client knows when a handler goes on with what it has in hand.
LEMMA KnowsStill ==
  ASSUME ConvergesInv, StayConnected, NEW s \in Socks, NEW w, work[s] # Idle,
         work' = [work EXCEPT ![s] = w], UNCHANGED <<reg, session, toServer, clientVars>>,
         Items(inbox[s[1]]) \subseteq Items(inbox'[s[1]]), NEW k \in Keys,
         WillAnswer(work[s], k) =>
           \/ WillAnswer(w, k)
           \/ Tops(store[s[1]][k], reg[k])
           \/ Brings(Items(inbox'[s[1]]), k, reg[k])
  PROVE  Knows(s[1], k)'
<1>1. s = <<s[1], 1>> /\ s[1] \in Clients /\ conn[s[1]] = 1 /\ SyncInv /\ Knows(s[1], k)
  BY HandlerBefore
<1>2. work'[s] = w /\ \A t \in Socks : t # s => work'[t] = work[t]
  BY <1>1 DEF SyncInv, ServerTypes
<1>3. /\ UNCHANGED <<reg, session, toServer>>
      /\ UNCHANGED <<conn, store, made, outbox, pending>>
  BY DEF clientVars, localVars
<1>4. Brings(Items(inbox[s[1]]), k, reg[k]) => Brings(Items(inbox'[s[1]]), k, reg[k])
  BY DEF Brings
<1>5. PICK c : c = s[1]
  OBVIOUS
<1>6. s = <<c, 1>>
  BY <1>1, <1>5
<1>7. \/ Tops(store[c][k], reg[k])
      \/ session[<<c, 1>>] = 0
      \/ Brings(Items(inbox'[c]), k, reg[k])
      \/ \E t \in Socks \ {<<c, 1>>} : WillBring(work[t], k, reg[k])
      \/ WillAsk(made[c], outbox[c], pending[c], Items(toServer[<<c, 1>>]), k)
      \/ WillAnswer(w, k)
  <2>1. Knows(c, k) /\ conn[c] = 1
    BY <1>1, <1>5
  <2>2. Brings(Items(inbox[c]), k, reg[k]) => Brings(Items(inbox'[c]), k, reg[k])
    BY <1>4, <1>5
  <2>3. WillAnswer(work[<<c, 1>>], k) =>
           \/ WillAnswer(w, k)
           \/ Tops(store[c][k], reg[k])
           \/ Brings(Items(inbox'[c]), k, reg[k])
    BY <1>5, <1>6
  <2> QED
    BY <2>1, <2>2, <2>3 DEF Knows
<1>8. \A t \in Socks \ {<<c, 1>>} : work'[t] = work[t]
  BY <1>2, <1>6
<1>9. work'[<<c, 1>>] = w
  BY <1>2, <1>6
<1>10. Knows(c, k)'
  BY <1>3, <1>7, <1>8, <1>9 DEF Knows
<1> QED
  BY <1>5, <1>10

\* A handler takes on a request, or goes on with it, and sends nothing.
LEMMA SilentConverges ==
  ASSUME ConvergesInv, PutsInv', StayConnected, NEW s \in Socks, NEW w,
         work' = [work EXCEPT ![s] = w], UNCHANGED <<reg, inbox, clientVars>>,
         \A t \in Socks : t # s => toServer'[t] = toServer[t] /\ session'[t] = session[t],
         WorkIsTrue(reg, w), SteadySocket(s)',
         Judged(reg, made[s[1]], pending[s[1]], Items(inbox[s[1]]), Items(toServer'[s]), w),
         \A k \in Keys : Knows(s[1], k)',
         \A k \in Keys : WillBring(work[s], k, reg[k]) => WillBring(w, k, reg[k])
  PROVE  ConvergesInv'
<1>1. UNCHANGED <<reg, clientVars>>
  OBVIOUS
<1>2. \A c \in Clients :
        /\ conn[c] = 0 => inbox'[c] = inbox[c]
        /\ Items(inbox[c]) \subseteq Items(inbox'[c])
        /\ \A m \in Items(inbox'[c]) :
             \/ m \in Items(inbox[c])
             \/ /\ News(m) => IsTrue(reg, m.changes)
                /\ IsAck(m) => c = s[1] /\ Got(reg, made[c], pending[c])
  OBVIOUS
<1>3. \A c \in Clients, k \in Keys : c # s[1] /\ WillBring(work[s], k, reg[k]) =>
        \/ WillBring(w, k, reg[k])
        \/ conn[c] = 0 \/ session[<<c, 1>>] = 0
        \/ Brings(Items(inbox'[c]), k, reg[k])
  OBVIOUS
<1> QED
  BY <1>1, <1>2, <1>3, HandlerKeepsConverging, Zenon

\* What the handler of a socket sends, to its own client and to others.
LEMMA SenderConverges ==
  ASSUME ConvergesInv, PutsInv', StayConnected, NEW s \in Socks, NEW w, work[s] # Idle,
         work' = [work EXCEPT ![s] = w], UNCHANGED <<reg, session, toServer, clientVars>>,
         w.pc \notin {"sync", "diff"}, WorkIsTrue(reg, w),
         Judged(reg, made[s[1]], pending[s[1]], Items(inbox[s[1]]), Items(toServer[s]), w),
         NEW msgs \in [Socks -> Seq(Answers(seq))], SendAll(msgs),
         \A t \in Socks : \A m \in Items(msgs[t]) :
           /\ News(m) => IsTrue(reg, m.changes)
           /\ IsAck(m) => t = s /\ Got(reg, made[s[1]], pending[s[1]]),
         \A k \in Keys : WillAnswer(work[s], k) =>
           \/ WillAnswer(w, k)
           \/ Tops(store[s[1]][k], reg[k])
           \/ Brings(Items(msgs[s]), k, reg[k]),
         \A t \in Socks \ {s}, k \in Keys : WillBring(work[s], k, reg[k]) =>
           \/ WillBring(w, k, reg[k])
           \/ session[t] = 0
           \/ Brings(Items(msgs[t]), k, reg[k])
  PROVE  ConvergesInv'
<1>1. /\ s = <<s[1], 1>> /\ s[1] \in Clients /\ conn[s[1]] = 1 /\ SyncInv /\ SteadySocket(s)
  BY HandlerBefore
<1>2. \A c \in Clients :
        /\ conn[c] = 0 => inbox'[c] = inbox[c]
        /\ conn[c] = 1 => Items(inbox'[c]) = Items(inbox[c]) \cup Items(msgs[<<c, 1>>])
  BY SentIs
<1>3. \A c \in Clients : conn[c] \in {0, 1} /\ (conn[c] = 1 => <<c, 1>> \in Socks)
  BY <1>1, OneSocket
<1>4. \A c \in Clients : c # s[1] => <<c, 1>> # s
  BY <1>1
<1>5. \A c \in Clients :
        /\ conn[c] = 0 => inbox'[c] = inbox[c]
        /\ Items(inbox[c]) \subseteq Items(inbox'[c])
        /\ \A m \in Items(inbox'[c]) :
             \/ m \in Items(inbox[c])
             \/ /\ News(m) => IsTrue(reg, m.changes)
                /\ IsAck(m) => c = s[1] /\ Got(reg, made[c], pending[c])
  <2> SUFFICES ASSUME NEW c \in Clients, conn[c] = 1
               PROVE  \A m \in Items(msgs[<<c, 1>>]) :
                        /\ News(m) => IsTrue(reg, m.changes)
                        /\ IsAck(m) => c = s[1] /\ Got(reg, made[c], pending[c])
    BY <1>2, <1>3
  <2> QED
    BY <1>3, <1>4
<1>6. work'[s] = w
  BY <1>1 DEF SyncInv, ServerTypes
<1>7. SteadySocket(s)'
  <2>1. UNCHANGED <<session, toServer, conn, cid>>
    BY DEF clientVars
  <2> QED
    BY <1>1, <1>6, <2>1 DEF SteadySocket
<1>8. ASSUME NEW k \in Keys PROVE Knows(s[1], k)'
  <2>1. Items(inbox[s[1]]) \subseteq Items(inbox'[s[1]])
    BY <1>1, <1>5
  <2>2. Items(inbox'[s[1]]) = Items(inbox[s[1]]) \cup Items(msgs[s])
    BY <1>1, <1>2
  <2>3. Brings(Items(msgs[s]), k, reg[k]) => Brings(Items(inbox'[s[1]]), k, reg[k])
    BY <2>2 DEF Brings
  <2>4. WillAnswer(work[s], k) =>
           \/ WillAnswer(w, k)
           \/ Tops(store[s[1]][k], reg[k])
           \/ Brings(Items(inbox'[s[1]]), k, reg[k])
    BY <2>3
  <2> QED
    BY <2>1, <2>4, KnowsStill, Zenon
<1>9. \A c \in Clients, k \in Keys : c # s[1] /\ WillBring(work[s], k, reg[k]) =>
        \/ WillBring(w, k, reg[k])
        \/ conn[c] = 0 \/ session[<<c, 1>>] = 0
        \/ Brings(Items(inbox'[c]), k, reg[k])
  <2> SUFFICES ASSUME NEW c \in Clients, NEW k \in Keys, c # s[1], conn[c] = 1,
                      WillBring(work[s], k, reg[k])
               PROVE  \/ WillBring(w, k, reg[k])
                      \/ session[<<c, 1>>] = 0
                      \/ Brings(Items(inbox'[c]), k, reg[k])
    BY <1>3
  <2>1. <<c, 1>> \in Socks \ {s}
    BY <1>3, <1>4
  <2>2. Brings(Items(msgs[<<c, 1>>]), k, reg[k]) => Brings(Items(inbox'[c]), k, reg[k])
    BY <1>2 DEF Brings
  <2> QED
    BY <2>1, <2>2
<1>10. UNCHANGED <<reg, clientVars>> /\ Items(toServer'[s]) = Items(toServer[s])
  OBVIOUS
<1>11. \A t \in Socks : t # s => toServer'[t] = toServer[t] /\ session'[t] = session[t]
  OBVIOUS
<1>12. Judged(reg, made[s[1]], pending[s[1]], Items(inbox[s[1]]), Items(toServer'[s]), w)
  BY <1>10
<1>13. UNCHANGED <<reg, clientVars>>
  BY <1>10
<1> QED
  BY <1>5, <1>7, <1>8, <1>9, <1>11, <1>12, <1>13, HandlerKeepsConverging, Zenon

\* One message is sent to the handler's own client.
LEMMA AnswerConverges ==
  ASSUME ConvergesInv, PutsInv', StayConnected, NEW s \in Socks, NEW w, work[s] # Idle,
         work' = [work EXCEPT ![s] = w], UNCHANGED <<reg, session, toServer, clientVars>>,
         w.pc \notin {"sync", "diff"}, WorkIsTrue(reg, w),
         Judged(reg, made[s[1]], pending[s[1]], Items(inbox[s[1]]), Items(toServer[s]), w),
         NEW m \in Answers(seq), Send(s, << m >>),
         News(m) => IsTrue(reg, m.changes),
         IsAck(m) => Got(reg, made[s[1]], pending[s[1]]),
         \A k \in Keys : WillAnswer(work[s], k) =>
           \/ WillAnswer(w, k)
           \/ Tops(store[s[1]][k], reg[k])
           \/ Brings({m}, k, reg[k]),
         \A k \in Keys : WillBring(work[s], k, reg[k]) => WillBring(w, k, reg[k])
  PROVE  ConvergesInv'
<1> DEFINE msgs == [t \in Socks |-> IF t = s THEN << m >> ELSE << >>]
<1>1. msgs \in [Socks -> Seq(Answers(seq))]
  OBVIOUS
<1>2. SendAll(msgs)
  BY DEF Send
<1>3. Items(msgs[s]) = {m} /\ \A t \in Socks \ {s} : Items(msgs[t]) = {}
  BY ItemsOf DEF Items
<1> HIDE DEF msgs
<1>4. \A t \in Socks : \A x \in Items(msgs[t]) :
        /\ News(x) => IsTrue(reg, x.changes)
        /\ IsAck(x) => t = s /\ Got(reg, made[s[1]], pending[s[1]])
  BY <1>3
<1>5. \A k \in Keys : WillAnswer(work[s], k) =>
        \/ WillAnswer(w, k)
        \/ Tops(store[s[1]][k], reg[k])
        \/ Brings(Items(msgs[s]), k, reg[k])
  BY <1>3
<1>6. \A t \in Socks \ {s}, k \in Keys : WillBring(work[s], k, reg[k]) =>
        \/ WillBring(w, k, reg[k])
        \/ session[t] = 0
        \/ Brings(Items(msgs[t]), k, reg[k])
  OBVIOUS
<1> QED
  BY <1>1, <1>2, <1>4, <1>5, <1>6, SenderConverges, Zenon

\* Auth: the client will be answered with everything.
LEMMA RecvAuthConverges ==
  ASSUME ConvergesInv, PutsInv', StayConnected, NEW s \in Socks, RecvAuth(s)
  PROVE  ConvergesInv'
<1> DEFINE msg == Head(toServer[s])
           w == [pc |-> "sync", since |-> msg.since]
<1>1. /\ work[s] = Idle /\ toServer[s] # << >> /\ msg.type = "auth"
      /\ toServer' = [toServer EXCEPT ![s] = Tail(@)] /\ work' = [work EXCEPT ![s] = w]
      /\ session' = [session EXCEPT ![s] = msg.cid]
      /\ UNCHANGED <<reg, inbox, clientVars>>
  BY DEF RecvAuth
<1>2. /\ s = <<s[1], 1>> /\ s[1] \in Clients /\ conn[s[1]] = 1 /\ SyncInv /\ SteadySocket(s)
      /\ Judged(reg, made[s[1]], pending[s[1]], Items(inbox[s[1]]), Items(toServer[s]), work[s])
  BY <1>1, HandlerBefore
<1>3. /\ toServer[s] \in Seq(Requests) /\ toServer \in [Socks -> Seq(Requests)]
      /\ session \in [Socks -> Nat] /\ DOMAIN work = Socks
  BY <1>2 DEF SyncInv, ServerTypes
<1>4. /\ work'[s] = w /\ toServer'[s] = Tail(toServer[s]) /\ session'[s] = msg.cid
      /\ \A t \in Socks : t # s => toServer'[t] = toServer[t] /\ session'[t] = session[t]
  BY <1>1, <1>3
<1>5. msg \in Items(toServer[s]) /\ Items(toServer'[s]) \subseteq Items(toServer[s])
  BY <1>1, <1>3, <1>4, ItemsOf
<1>6. msg.cid = cid[s[1]] /\ msg.since = 0
  BY <1>1, <1>2, <1>5 DEF SteadySocket
<1>7. cid[s[1]] # 0
  <2>1. cid[s[1]] \in RankOf[s[1]]
    BY <1>2 DEF SyncInv, ClientTypes
  <2> QED
    BY <1>2, <2>1, SyncAssumption
<1> HIDE DEF msg
<1>8. w.pc = "sync" /\ w.since = 0
  BY <1>6
<1> HIDE DEF w
<1>9. SteadySocket(s)'
  <2>1. UNCHANGED <<conn, cid>>
    BY <1>1 DEF clientVars
  <2> QED
    BY <1>2, <1>4, <1>5, <1>6, <1>7, <1>8, <2>1 DEF SteadySocket
<1>10. WorkIsTrue(reg, w)
  BY <1>8 DEF WorkIsTrue, Tells
<1>11. Judged(reg, made[s[1]], pending[s[1]], Items(inbox[s[1]]), Items(toServer'[s]), w)
  BY <1>2, <1>5, <1>8 DEF Judged
<1>12. \A k \in Keys : Knows(s[1], k)'
  BY <1>2, <1>4, <1>8 DEF Knows, WillAnswer
<1>13. \A k \in Keys : WillBring(work[s], k, reg[k]) => WillBring(w, k, reg[k])
  BY <1>1 DEF WillBring, Tells, Idle
<1>14. UNCHANGED <<reg, inbox, clientVars>> /\ work' = [work EXCEPT ![s] = w]
  BY <1>1
<1>15. UNCHANGED <<reg, inbox, clientVars>>
  BY <1>14
<1>16. \A t \in Socks : t # s => toServer'[t] = toServer[t] /\ session'[t] = session[t]
  BY <1>4
<1>17. work' = [work EXCEPT ![s] = w]
  BY <1>14
<1> QED
  BY <1>9, <1>10, <1>11, <1>12, <1>13, <1>15, <1>16, <1>17, SilentConverges, Zenon

\* A batch is in the hands of its handler, as it was sent: the session has its client's id.
LEMMA RecvBatchConverges ==
  ASSUME ConvergesInv, PutsInv', StayConnected, NEW s \in Socks, RecvBatch(s)
  PROVE  ConvergesInv'
<1> DEFINE msg == Head(toServer[s])
           stamped == [i \in DOMAIN msg.changes |-> [msg.changes[i] EXCEPT !.cid = session[s]]]
           w == [pc |-> "apply", batch |-> stamped]
<1>1. /\ work[s] = Idle /\ toServer[s] # << >> /\ msg.type = "batch" /\ session[s] # 0
      /\ toServer' = [toServer EXCEPT ![s] = Tail(@)] /\ work' = [work EXCEPT ![s] = w]
      /\ UNCHANGED <<session, reg, inbox, clientVars>>
  BY DEF RecvBatch
<1>2. /\ s = <<s[1], 1>> /\ s[1] \in Clients /\ conn[s[1]] = 1 /\ SyncInv /\ SteadySocket(s)
      /\ SteadyClient(s[1])
      /\ Judged(reg, made[s[1]], pending[s[1]], Items(inbox[s[1]]), Items(toServer[s]), work[s])
      /\ \A k \in Keys : Knows(s[1], k)
  BY <1>1, HandlerBefore
<1>3. /\ toServer[s] \in Seq(Requests) /\ toServer \in [Socks -> Seq(Requests)]
      /\ DOMAIN work = Socks
  BY <1>2 DEF SyncInv, ServerTypes
<1>4. /\ work'[s] = w /\ toServer'[s] = Tail(toServer[s])
      /\ \A t \in Socks : t # s => toServer'[t] = toServer[t]
  BY <1>1, <1>3
<1>5. /\ msg \in Items(toServer[s]) /\ msg \in Requests
      /\ Items(toServer[s]) = {msg} \cup Items(toServer'[s])
  <2>1. /\ Head(toServer[s]) \in Items(toServer[s])
        /\ Items(toServer[s]) = {Head(toServer[s])} \cup Items(Tail(toServer[s]))
        /\ Items(toServer[s]) \subseteq Requests
    BY <1>1, <1>3, ItemsOf, Zenon
  <2> QED
    BY <1>4, <2>1, Zenon
<1>6. IsBatch(msg)
  BY <1>1 DEF IsBatch
<1> HIDE DEF msg
<1>7. msg.changes \in Seq(ChangeOf)
  BY <1>1, <1>5 DEF Requests
<1>8. session[s] = cid[s[1]]
  BY <1>1, <1>2 DEF SteadySocket
<1>9. Items(msg.changes) = Held(made[s[1]], pending[s[1]])
  BY <1>2, <1>5, <1>6 DEF Judged
<1>10. stamped = msg.changes
  <2>1. DOMAIN msg.changes = 1..Len(msg.changes) /\ msg.changes \in [1..Len(msg.changes) -> ChangeOf]
    BY <1>7, LenProperties, ElementOfSeq
  <2>2. ASSUME NEW i \in DOMAIN msg.changes
        PROVE  [msg.changes[i] EXCEPT !.cid = session[s]] = msg.changes[i]
    <3>1. msg.changes[i] \in ChangeOf
      BY <2>1
    <3>2. msg.changes[i] \in Held(made[s[1]], pending[s[1]])
      BY <1>9 DEF Items
    <3>3. PICK n \in pending[s[1]] : msg.changes[i] = made[s[1]][n]
      BY <3>2 DEF Held
    <3>4. n \in DOMAIN made[s[1]]
      BY <1>2, <3>3 DEF SyncInv, TableTypes
    <3>5. msg.changes[i].cid = session[s]
      BY <1>2, <1>8, <3>3, <3>4 DEF SteadyClient
    <3> QED
      BY <3>1, <3>5 DEF ChangeOf
  <2> QED
    BY <2>1, <2>2
<1>11. w.pc = "apply" /\ w.batch = msg.changes
  BY <1>10
<1> HIDE DEF w
<1>12. UNCHANGED <<conn, cid, store, made, outbox, pending>>
  BY <1>1 DEF clientVars, localVars
<1>13. SteadySocket(s)'
  BY <1>1, <1>2, <1>4, <1>5, <1>11, <1>12 DEF SteadySocket
<1>14. WorkIsTrue(reg, w)
  BY <1>11 DEF WorkIsTrue, Tells
<1>15. Judged(reg, made[s[1]], pending[s[1]], Items(inbox[s[1]]), Items(toServer'[s]), w)
  BY <1>2, <1>5, <1>9, <1>11 DEF Judged
<1>16. ASSUME NEW k \in Keys PROVE Knows(s[1], k)'
  <2> DEFINE c == s[1]
  <2>1. /\ Knows(c, k) /\ conn[c] = 1 /\ s = <<c, 1>>
    BY <1>2
  <2>2. ~WillAnswer(work[s], k)
    BY <1>1 DEF WillAnswer, Idle
  <2>3. WillAsk(made[c], outbox[c], pending[c], Items(toServer[s]), k) =>
          \/ WillAsk(made[c], outbox[c], pending[c], Items(toServer'[s]), k)
          \/ WillAnswer(w, k)
    BY <1>5, <1>11 DEF WillAsk, WillAnswer
  <2>4. \A t \in Socks \ {s} : work'[t] = work[t]
    BY <1>1, <1>3
  <2> HIDE DEF c
  <2>5. Knows(c, k)'
    BY <1>1, <1>4, <1>12, <2>1, <2>2, <2>3, <2>4 DEF Knows
  <2> QED
    BY <2>5 DEF c
<1>17. \A k \in Keys : WillBring(work[s], k, reg[k]) => WillBring(w, k, reg[k])
  BY <1>1 DEF WillBring, Tells, Idle
<1>18. UNCHANGED <<reg, inbox, clientVars>>
  BY <1>1
<1>19. \A t \in Socks : t # s => toServer'[t] = toServer[t] /\ session'[t] = session[t]
  BY <1>1, <1>4
<1>20. work' = [work EXCEPT ![s] = w]
  BY <1>1 DEF w
<1> QED
  BY <1>13, <1>14, <1>15, <1>16, <1>17, <1>18, <1>19, <1>20, SilentConverges, Zenon

\* The sequence number is read.
LEMMA ReturnSeqConverges ==
  ASSUME ConvergesInv, PutsInv', StayConnected, NEW s \in Socks, ReturnSeq(s)
  PROVE  ConvergesInv'
<1> DEFINE w == [pc |-> "ack", seq |-> seq, applied |-> work[s].applied,
                 skipped |-> work[s].skipped]
<1>1. /\ work[s].pc = "resolve" /\ work' = [work EXCEPT ![s] = w]
      /\ UNCHANGED <<reg, session, toServer, inbox, clientVars>>
  BY DEF ReturnSeq
<1>2. work[s] # Idle
  BY <1>1 DEF Idle
<1>3. /\ s[1] \in Clients /\ SyncInv /\ SteadySocket(s) /\ WorkIsTrue(reg, work[s])
      /\ Judged(reg, made[s[1]], pending[s[1]], Items(inbox[s[1]]), Items(toServer[s]), work[s])
  BY <1>2, HandlerBefore
<1>4. w.pc = "ack" /\ w.applied = work[s].applied /\ w.skipped = work[s].skipped
  OBVIOUS
<1> HIDE DEF w
<1>5. work'[s] = w
  BY <1>1, <1>3 DEF SyncInv, ServerTypes
<1>6. SteadySocket(s)'
  <2>1. UNCHANGED <<conn, cid>>
    BY <1>1 DEF clientVars
  <2> QED
    BY <1>1, <1>3, <1>4, <1>5, <2>1 DEF SteadySocket
<1>7. WorkIsTrue(reg, w)
  BY <1>1, <1>3, <1>4 DEF WorkIsTrue, Tells
<1>8. Judged(reg, made[s[1]], pending[s[1]], Items(inbox[s[1]]), Items(toServer'[s]), w)
  BY <1>1, <1>3, <1>4 DEF Judged
<1>9. ASSUME NEW k \in Keys PROVE Knows(s[1], k)'
  <2>1. WillAnswer(work[s], k) => WillAnswer(w, k)
    BY <1>1, <1>4 DEF WillAnswer
  <2>2. UNCHANGED <<reg, session, toServer, clientVars>>
        /\ Items(inbox[s[1]]) \subseteq Items(inbox'[s[1]])
    BY <1>1
  <2> QED
    BY <1>1, <1>2, <2>1, <2>2, KnowsStill
<1>10. \A k \in Keys : WillBring(work[s], k, reg[k]) => WillBring(w, k, reg[k])
  BY <1>4 DEF WillBring, Tells
<1>11. UNCHANGED <<reg, inbox, clientVars>> /\ work' = [work EXCEPT ![s] = w]
  BY <1>1
<1>12. UNCHANGED <<reg, inbox, clientVars>>
  BY <1>11
<1>13. \A t \in Socks : t # s => toServer'[t] = toServer[t] /\ session'[t] = session[t]
  BY <1>1
<1>14. work' = [work EXCEPT ![s] = w]
  BY <1>11
<1> QED
  BY <1>6, <1>7, <1>8, <1>9, <1>10, <1>12, <1>13, <1>14, SilentConverges, Zenon

\* What is told of a put is true, whatever number it has.
LEMMA ToldIsTrue ==
  ASSUME ServerTypes, NEW n, NEW keys \in SUBSET Keys, \A k \in keys : reg[k].op = "put"
  PROVE  /\ IsTrue(reg, {Told(k, n) : k \in keys})
         /\ \A k \in keys : \E e \in {Told(j, n) : j \in keys} : e.key = k /\ Tops(e, reg[k])
<1>1. \A k \in keys : /\ Told(k, n).key = k /\ Told(k, n).op = reg[k].op
                      /\ Told(k, n).ts = reg[k].ts /\ Told(k, n).cid = reg[k].cid
  BY DEF Told
<1>2. \A k \in keys : Tops(reg[k], reg[k])
  <2>1. \A k \in keys : reg[k] \in Record
    BY DEF ServerTypes
  <2> QED
    BY <2>1, AllAreDated, TopsIsOrder
<1>3. \A k \in keys : /\ Tops(reg[k], Told(k, n)) /\ Tops(Told(k, n), reg[k])
                      /\ Tops(Told(k, n), Told(k, n))
  BY <1>1, <1>2 DEF Tops, ShouldOverwrite
<1> DEFINE told == {Told(k, n) : k \in keys}
<1>4. \A e \in told : /\ e.key \in keys /\ e = Told(e.key, n)
                      /\ \A f \in told : f.key = e.key => f = e
  BY <1>1
<1>5. \A k \in keys : Told(k, n) \in told
  OBVIOUS
<1> HIDE DEF told
<1>6. \A k \in keys : \E e \in told : e.key = k /\ Tops(e, reg[k])
  BY <1>1, <1>3, <1>5
<1>7. IsTrue(reg, told)
  <2> SUFFICES ASSUME NEW e \in told
               PROVE  /\ e.op = "put" /\ Tops(reg[e.key], e)
                      /\ \A f \in told : f.key = e.key /\ f.seq <= e.seq => Tops(e, f)
    BY DEF IsTrue
  <2>1. e.key \in keys /\ e = Told(e.key, n) /\ \A f \in told : f.key = e.key => f = e
    BY <1>4
  <2>2. PICK k \in keys : k = e.key /\ e = Told(k, n)
    BY <2>1
  <2>3. e.op = "put" /\ Tops(reg[k], e) /\ Tops(e, e)
    BY <1>1, <1>3, <2>2
  <2> QED
    BY <2>1, <2>2, <2>3
<1> QED
  BY <1>6, <1>7 DEF told

\* Auth is confirmed, and since the client has nothing a snapshot is called for.
LEMMA ReadSyncConverges ==
  ASSUME ConvergesInv, PutsInv', StayConnected, NEW s \in Socks, ReadSync(s)
  PROVE  ConvergesInv'
<1> DEFINE w == [pc |-> "snapshot", seq |-> seq]
           m == [type |-> "authSuccess"]
<1>1. work[s].pc = "sync" /\ work[s] # Idle
  BY DEF ReadSync, Idle
<1>2. /\ SteadySocket(s)
      /\ Judged(reg, made[s[1]], pending[s[1]], Items(inbox[s[1]]), Items(toServer[s]), work[s])
  BY <1>1, HandlerBefore
<1>3. work[s].since = 0
  BY <1>1, <1>2 DEF SteadySocket
<1>4. work' = [work EXCEPT ![s] = w]
  BY <1>3 DEF ReadSync
<1>5. Send(s, << m >>)
  BY DEF ReadSync
<1>6. UNCHANGED <<reg, session, toServer, clientVars>>
  BY DEF ReadSync
<1>7. m \in Answers(seq) /\ ~News(m) /\ ~IsAck(m)
  BY DEF Answers, News, IsAck
<1>8. w.pc = "snapshot"
  OBVIOUS
<1> HIDE DEF w, m
<1>9. w.pc \notin {"sync", "diff"} /\ WorkIsTrue(reg, w)
  BY <1>8 DEF WorkIsTrue, Tells
<1>10. Judged(reg, made[s[1]], pending[s[1]], Items(inbox[s[1]]), Items(toServer[s]), w)
  BY <1>2, <1>8 DEF Judged
<1>11. \A k \in Keys : WillAnswer(work[s], k) =>
         WillAnswer(w, k) \/ Tops(store[s[1]][k], reg[k]) \/ Brings({m}, k, reg[k])
  BY <1>8 DEF WillAnswer
<1>12. \A k \in Keys : WillBring(work[s], k, reg[k]) => WillBring(w, k, reg[k])
  BY <1>1 DEF WillBring, Tells
<1>13. m \in Answers(seq) /\ (News(m) => IsTrue(reg, m.changes))
       /\ (IsAck(m) => Got(reg, made[s[1]], pending[s[1]]))
  BY <1>7
<1> QED
  BY <1>1, <1>4, <1>5, <1>6, <1>9, <1>10, <1>11, <1>12, <1>13, AnswerConverges, Zenon

\* A snapshot has all that the server shows.
LEMMA SendSnapshotConverges ==
  ASSUME ConvergesInv, PutsInv', StayConnected, NEW s \in Socks, SendSnapshot(s)
  PROVE  ConvergesInv'
<1> DEFINE puts == {j \in Keys : reg[j].op = "put"}
           told == {Told(k, 0) : k \in puts}
           m == [type |-> "snapshot", seq |-> work[s].seq, changes |-> told]
<1>1. work[s].pc = "snapshot" /\ work[s] # Idle
  BY DEF SendSnapshot, Idle
<1>2. /\ SyncInv /\ s[1] \in Clients
      /\ Judged(reg, made[s[1]], pending[s[1]], Items(inbox[s[1]]), Items(toServer[s]), work[s])
  BY <1>1, HandlerBefore
<1>3. ServerTypes
  BY <1>2 DEF SyncInv
<1>4. work' = [work EXCEPT ![s] = Idle]
  BY DEF SendSnapshot
<1>5. Send(s, << m >>)
  BY DEF SendSnapshot
<1>6. UNCHANGED <<reg, session, toServer, clientVars>>
  BY DEF SendSnapshot
<1>7. IsTrue(reg, told) /\ \A k \in puts : \E e \in told : e.key = k /\ Tops(e, reg[k])
  BY <1>3, ToldIsTrue
<1>8. told \in SUBSET Wire(seq)
  <2>1. 0 \in 0..seq
    BY <1>3 DEF ServerTypes
  <2> QED
    BY <1>3, <2>1, ToldIsWire
<1>9. \A k \in Keys : k \in puts \/ reg[k].op = "none"
  <2>1. \A k \in Keys : reg[k].op \in {"none", "put", "delete"}
    BY <1>3 DEF ServerTypes, Record
  <2>2. \A k \in Keys : reg[k].op # "delete"
    BY DEF ConvergesInv, PutsInv, NothingDeleted
  <2> QED
    BY <2>1, <2>2
<1> HIDE DEF puts, told
<1>10. m \in Answers(seq) /\ m.changes = told /\ News(m) /\ ~IsAck(m)
  BY <1>1, <1>3, <1>8, WorkIs DEF Answers, News, IsAck
<1> HIDE DEF m
<1>11. Idle.pc \notin {"sync", "diff"} /\ WorkIsTrue(reg, Idle)
  BY DEF Idle, WorkIsTrue, Tells
<1>12. Judged(reg, made[s[1]], pending[s[1]], Items(inbox[s[1]]), Items(toServer[s]), Idle)
  BY <1>2 DEF Judged, Idle
<1>13. ASSUME NEW k \in Keys
       PROVE  Tops(store[s[1]][k], reg[k]) \/ Brings({m}, k, reg[k])
  <2>1. CASE k \in puts
    BY <1>7, <1>10, <2>1 DEF Brings
  <2>2. CASE reg[k].op = "none"
    BY <2>2 DEF Tops
  <2> QED
    BY <1>9, <2>1, <2>2
<1>14. \A k \in Keys : WillAnswer(work[s], k) =>
         WillAnswer(Idle, k) \/ Tops(store[s[1]][k], reg[k]) \/ Brings({m}, k, reg[k])
  BY <1>13
<1>15. \A k \in Keys : WillBring(work[s], k, reg[k]) => WillBring(Idle, k, reg[k])
  BY <1>1 DEF WillBring, Tells
<1>16. m \in Answers(seq) /\ (News(m) => IsTrue(reg, m.changes))
       /\ (IsAck(m) => Got(reg, made[s[1]], pending[s[1]]))
  BY <1>7, <1>10
<1> QED
  BY <1>1, <1>4, <1>5, <1>6, <1>11, <1>12, <1>14, <1>15, <1>16, AnswerConverges, Zenon

\* What a batch's handler does next: what it has to tell, it keeps.
LEMMA AfterTells ==
  ASSUME ServerTypes, NEW s \in Socks, work[s].pc \in {"ack", "reconcile"},
         WorkIsTrue(reg, work[s])
  PROVE  /\ After(work[s]).pc \notin {"sync", "diff"} /\ WorkIsTrue(reg, After(work[s]))
         /\ After(work[s]).pc \notin {"apply", "resolve", "ack"}
         /\ \A k, r : WillBring(work[s], k, r) => WillBring(After(work[s]), k, r)
         /\ work[s].pc = "ack" => \A k : WillAnswer(work[s], k) => WillAnswer(After(work[s]), k)
<1>1. PICK w \in Works(seq) : w = work[s]
  BY WorkIs
<1>2. w \in [pc : {"ack", "reconcile", "broadcast"}, seq : 0..seq,
             applied : SUBSET Wire(seq), skipped : SUBSET Keys]
  BY <1>1 DEF Works, Idle
<1> DEFINE r == [w EXCEPT !.pc = "reconcile"]
           b == [w EXCEPT !.pc = "broadcast"]
<1>3. IsTrue(reg, w.applied) /\ \A k \in w.skipped : reg[k].op # "none"
  BY <1>1 DEF WorkIsTrue, Tells
<1>4. /\ r.pc = "reconcile" /\ r.applied = w.applied /\ r.skipped = w.skipped
      /\ b.pc = "broadcast" /\ b.applied = w.applied /\ b.skipped = w.skipped
      /\ Idle.pc = "idle"
  BY <1>2 DEF Idle
<1>5. \/ After(w) = r /\ w.pc = "ack"
      \/ After(w) = b /\ (w.pc = "ack" => w.skipped = {})
      \/ After(w) = Idle /\ w.applied = {} /\ (w.pc = "ack" => w.skipped = {})
  BY DEF After
<1> HIDE DEF r, b
<1>6. CASE After(w) = r /\ w.pc = "ack"
  BY <1>1, <1>3, <1>4, <1>6 DEF WorkIsTrue, Tells, WillBring, WillAnswer
<1>7. CASE After(w) = b /\ (w.pc = "ack" => w.skipped = {})
  BY <1>1, <1>3, <1>4, <1>7 DEF WorkIsTrue, Tells, WillBring, WillAnswer
<1>8. CASE After(w) = Idle /\ w.applied = {} /\ (w.pc = "ack" => w.skipped = {})
  BY <1>1, <1>3, <1>4, <1>8 DEF WorkIsTrue, Tells, WillBring, WillAnswer
<1> QED
  BY <1>5, <1>6, <1>7, <1>8

\* A batch is acknowledged: the server has got what was sent.
LEMMA SendAckConverges ==
  ASSUME ConvergesInv, PutsInv', StayConnected, NEW s \in Socks, SendAck(s)
  PROVE  ConvergesInv'
<1> DEFINE m == [type |-> "ack", seq |-> work[s].seq]
<1>1. work[s].pc = "ack" /\ work[s] # Idle
  BY DEF SendAck, Idle
<1>2. /\ SyncInv /\ s[1] \in Clients /\ WorkIsTrue(reg, work[s])
      /\ Judged(reg, made[s[1]], pending[s[1]], Items(inbox[s[1]]), Items(toServer[s]), work[s])
  BY <1>1, HandlerBefore
<1>3. ServerTypes
  BY <1>2 DEF SyncInv
<1>4. PICK w : w = After(work[s])
  OBVIOUS
<1>5. work' = [work EXCEPT ![s] = w]
  BY <1>4 DEF SendAck
<1>6. Send(s, << m >>)
  BY DEF SendAck
<1>7. UNCHANGED <<reg, session, toServer, clientVars>>
  BY DEF SendAck
<1>8. m \in Answers(seq) /\ ~News(m)
  BY <1>1, <1>3, WorkIs DEF Answers, News
<1> HIDE DEF m
<1>9. /\ w.pc \notin {"sync", "diff"} /\ WorkIsTrue(reg, w)
      /\ w.pc \notin {"apply", "resolve", "ack"}
      /\ \A k \in Keys : WillBring(work[s], k, reg[k]) => WillBring(w, k, reg[k])
      /\ \A k \in Keys : WillAnswer(work[s], k) => WillAnswer(w, k)
  BY <1>1, <1>2, <1>3, <1>4, AfterTells
<1>10. Got(reg, made[s[1]], pending[s[1]])
  BY <1>1, <1>2 DEF Judged
<1>11. Judged(reg, made[s[1]], pending[s[1]], Items(inbox[s[1]]), Items(toServer[s]), w)
  BY <1>2, <1>9 DEF Judged
<1>12. \A k \in Keys : WillAnswer(work[s], k) =>
         WillAnswer(w, k) \/ Tops(store[s[1]][k], reg[k]) \/ Brings({m}, k, reg[k])
  BY <1>9
<1>13. m \in Answers(seq) /\ (News(m) => IsTrue(reg, m.changes))
       /\ (IsAck(m) => Got(reg, made[s[1]], pending[s[1]]))
  BY <1>8, <1>10
<1> QED
  BY <1>1, <1>5, <1>6, <1>7, <1>9, <1>11, <1>12, <1>13, AnswerConverges, Zenon

\* The records that changes of the batch have lost to are sent back.
LEMMA ReconcileConverges ==
  ASSUME ConvergesInv, PutsInv', StayConnected, NEW s \in Socks, Reconcile(s)
  PROVE  ConvergesInv'
<1> DEFINE told == {Told(k, work[s].seq) : k \in work[s].skipped}
           m == [type |-> "diff", seq |-> work[s].seq, changes |-> told]
<1>1. work[s].pc = "reconcile" /\ work[s] # Idle
  BY DEF Reconcile, Idle
<1>2. /\ SyncInv /\ s[1] \in Clients /\ WorkIsTrue(reg, work[s])
      /\ Judged(reg, made[s[1]], pending[s[1]], Items(inbox[s[1]]), Items(toServer[s]), work[s])
  BY <1>1, HandlerBefore
<1>3. ServerTypes
  BY <1>2 DEF SyncInv
<1>4. PICK w : w = After(work[s])
  OBVIOUS
<1>5. work' = [work EXCEPT ![s] = w]
  BY <1>4 DEF Reconcile
<1>6. Send(s, << m >>)
  BY DEF Reconcile
<1>7. UNCHANGED <<reg, session, toServer, clientVars>>
  BY DEF Reconcile
<1>8. work[s].seq \in 0..seq /\ work[s].skipped \in SUBSET Keys
  BY <1>1, <1>3, WorkIs
<1>9. \A k \in work[s].skipped : reg[k].op = "put"
  <2>1. \A k \in work[s].skipped : reg[k].op # "none"
    BY <1>1, <1>2 DEF WorkIsTrue, Tells
  <2>2. \A k \in Keys : reg[k].op \in {"none", "put", "delete"}
    BY <1>3 DEF ServerTypes, Record
  <2>3. \A k \in Keys : reg[k].op # "delete"
    BY DEF ConvergesInv, PutsInv, NothingDeleted
  <2> QED
    BY <1>8, <2>1, <2>2, <2>3
<1>10. /\ IsTrue(reg, told)
       /\ \A k \in work[s].skipped : \E e \in told : e.key = k /\ Tops(e, reg[k])
  BY <1>3, <1>8, <1>9, ToldIsTrue
<1>11. told \in SUBSET Wire(seq)
  BY <1>3, <1>8, ToldIsWire
<1> HIDE DEF told
<1>12. m \in Answers(seq) /\ m.changes = told /\ News(m) /\ ~IsAck(m)
  BY <1>8, <1>11 DEF Answers, News, IsAck
<1> HIDE DEF m
<1>13. /\ w.pc \notin {"sync", "diff"} /\ WorkIsTrue(reg, w)
       /\ w.pc \notin {"apply", "resolve", "ack"}
       /\ \A k \in Keys : WillBring(work[s], k, reg[k]) => WillBring(w, k, reg[k])
  BY <1>1, <1>2, <1>3, <1>4, AfterTells
<1>14. Judged(reg, made[s[1]], pending[s[1]], Items(inbox[s[1]]), Items(toServer[s]), w)
  BY <1>2, <1>13 DEF Judged
<1>15. \A k \in Keys : WillAnswer(work[s], k) =>
         WillAnswer(w, k) \/ Tops(store[s[1]][k], reg[k]) \/ Brings({m}, k, reg[k])
  <2> SUFFICES ASSUME NEW k \in work[s].skipped PROVE Brings({m}, k, reg[k])
    BY <1>1 DEF WillAnswer
  <2> QED
    BY <1>10, <1>12 DEF Brings
<1>16. m \in Answers(seq) /\ (News(m) => IsTrue(reg, m.changes))
       /\ (IsAck(m) => Got(reg, made[s[1]], pending[s[1]]))
  BY <1>10, <1>12
<1> QED
  BY <1>1, <1>5, <1>6, <1>7, <1>13, <1>14, <1>15, <1>16, AnswerConverges, Zenon

\* Every other session is told what was applied.
LEMMA BroadcastConverges ==
  ASSUME ConvergesInv, PutsInv', StayConnected, NEW s \in Socks, Broadcast(s)
  PROVE  ConvergesInv'
<1> DEFINE m == [type |-> "broadcast", changes |-> work[s].applied, seq |-> work[s].seq]
           msgs == [t \in Socks |-> IF t # s /\ session[t] # 0 THEN << m >> ELSE << >>]
<1>1. work[s].pc = "broadcast" /\ work[s] # Idle
  BY DEF Broadcast, Idle
<1>2. /\ SyncInv /\ s[1] \in Clients /\ WorkIsTrue(reg, work[s])
      /\ Judged(reg, made[s[1]], pending[s[1]], Items(inbox[s[1]]), Items(toServer[s]), work[s])
  BY <1>1, HandlerBefore
<1>3. ServerTypes
  BY <1>2 DEF SyncInv
<1>4. work' = [work EXCEPT ![s] = Idle]
  BY DEF Broadcast
<1>5. SendAll(msgs)
  BY DEF Broadcast
<1>6. UNCHANGED <<reg, session, toServer, clientVars>>
  BY DEF Broadcast
<1>7. m \in Answers(seq) /\ News(m) /\ ~IsAck(m) /\ m.changes = work[s].applied
  BY <1>1, <1>3, WorkIs DEF Answers, News, IsAck
<1> HIDE DEF m
<1>8. msgs \in [Socks -> Seq(Answers(seq))]
  BY <1>7
<1>9. /\ \A t \in Socks : Items(msgs[t]) \subseteq {m}
      /\ \A t \in Socks \ {s} : session[t] = 0 \/ Items(msgs[t]) = {m}
  BY ItemsOf DEF Items
<1> HIDE DEF msgs
<1>10. Idle.pc \notin {"sync", "diff"} /\ WorkIsTrue(reg, Idle)
  BY DEF Idle, WorkIsTrue, Tells
<1>11. Judged(reg, made[s[1]], pending[s[1]], Items(inbox[s[1]]), Items(toServer[s]), Idle)
  BY <1>2 DEF Judged, Idle
<1>12. \A t \in Socks : \A x \in Items(msgs[t]) :
         /\ News(x) => IsTrue(reg, x.changes)
         /\ IsAck(x) => t = s /\ Got(reg, made[s[1]], pending[s[1]])
  <2>1. IsTrue(reg, m.changes)
    BY <1>1, <1>2, <1>7 DEF WorkIsTrue, Tells
  <2> QED
    BY <1>7, <1>9, <2>1
<1>13. \A k \in Keys : WillAnswer(work[s], k) =>
         \/ WillAnswer(Idle, k)
         \/ Tops(store[s[1]][k], reg[k])
         \/ Brings(Items(msgs[s]), k, reg[k])
  BY <1>1 DEF WillAnswer
<1>14. \A t \in Socks \ {s}, k \in Keys : WillBring(work[s], k, reg[k]) =>
         \/ WillBring(Idle, k, reg[k])
         \/ session[t] = 0
         \/ Brings(Items(msgs[t]), k, reg[k])
  <2>1. \A k \in Keys : WillBring(work[s], k, reg[k]) => Brings({m}, k, reg[k])
    BY <1>7 DEF WillBring, Brings
  <2> QED
    BY <1>9, <2>1
<1> QED
  BY <1>1, <1>4, <1>5, <1>6, <1>8, <1>10, <1>11, <1>12, <1>13, <1>14, SenderConverges, Zenon

\* What was true of the records stays true when they get better.
LEMMA TruthGrows ==
  ASSUME NEW before \in [Keys -> Record], NEW after \in [Keys -> Record],
         \A k \in Keys : Tops(after[k], before[k])
  PROVE  /\ \A k \in Keys : before[k].op # "none" => after[k].op # "none"
         /\ \A k \in Keys : \A x \in Record : Tops(before[k], x) => Tops(after[k], x)
         /\ \A n \in Nat : \A changes \in SUBSET Wire(n) :
              IsTrue(before, changes) => IsTrue(after, changes)
         /\ \A mine \in Seq(ChangeOf) : \A held \in SUBSET DOMAIN mine :
              Got(before, mine, held) => Got(after, mine, held)
<1>1. \A k \in Keys : Dated(before[k]) /\ Dated(after[k])
  BY AllAreDated
<1>2. \A k \in Keys : \A x : Dated(x) /\ Tops(before[k], x) => Tops(after[k], x)
  BY <1>1, TopsIsOrder
<1>3. \A k \in Keys : before[k].op # "none" => after[k].op # "none"
  BY DEF Tops
<1>4. \A k \in Keys : \A x \in Record : Tops(before[k], x) => Tops(after[k], x)
  BY <1>2, AllAreDated
<1>5. ASSUME NEW n \in Nat, NEW changes \in SUBSET Wire(n), IsTrue(before, changes)
      PROVE  IsTrue(after, changes)
  <2>1. \A e \in changes : Dated(e) /\ e.key \in Keys
    BY AllAreDated
  <2> QED
    BY <1>2, <1>5, <2>1 DEF IsTrue
<1>6. ASSUME NEW mine \in Seq(ChangeOf), NEW held \in SUBSET DOMAIN mine, Got(before, mine, held)
      PROVE  Got(after, mine, held)
  <2> SUFFICES ASSUME NEW n \in held PROVE Tops(after[mine[n].key], mine[n])
    BY DEF Got, Held
  <2>1. mine[n] \in ChangeOf
    BY LenProperties, ElementOfSeq
  <2>2. Dated(mine[n]) /\ mine[n].key \in Keys
    BY <2>1, AllAreDated
  <2>3. Tops(before[mine[n].key], mine[n])
    BY <1>6 DEF Got, Held
  <2> QED
    BY <1>2, <2>2, <2>3
<1> QED
  BY <1>3, <1>4, <1>5, <1>6

\* What a batch has left is what its handler tells, and what it skips the server has.
LEMMA AppliedAreTrue ==
  ASSUME ServerTypes, Ops \subseteq {"put"}, NEW batch \in Seq(Stamped), NEW applied,
         applied = {[key |-> batch[i].key, op |-> batch[i].op, ts |-> batch[i].ts,
                     cid |-> batch[i].cid, seq |-> SeqAt(reg, batch, seq, i)] :
                      i \in AppliedAt(reg, batch)}
  PROVE  /\ IsTrue(Merge(reg, batch), applied)
         /\ \A i \in DOMAIN batch :
              batch[i].key \in Keys /\ Merge(reg, batch)[batch[i].key].op # "none"
         /\ \A k \in Keys :
              \/ Merge(reg, batch)[k] = reg[k]
              \/ \E e \in applied : \E i \in DOMAIN batch :
                   /\ e.key = k /\ batch[i].key = k /\ Merge(reg, batch)[k] = RecordOf(batch[i])
                   /\ Tops(e, Merge(reg, batch)[k])
<1> DEFINE Entry(i) == [key |-> batch[i].key, op |-> batch[i].op, ts |-> batch[i].ts,
                        cid |-> batch[i].cid, seq |-> SeqAt(reg, batch, seq, i)]
<1>1. PICK after : after = Merge(reg, batch)
  OBVIOUS
<1>2. /\ \A e \in Items(batch) : Tops(after[e.key], e)
      /\ \A k \in Keys :
           \/ after[k] = reg[k] /\ AppliedTo(reg, batch, k) = {}
           \/ \E i \in AppliedTo(reg, batch, k) : after[k] = RecordOf(batch[i])
      /\ \A i, j \in AppliedAt(reg, batch) :
           batch[i].key = batch[j].key /\ j <= i => Tops(batch[i], batch[j])
  <2>1. IsRegister(reg)
    BY DEF ServerTypes, IsRegister
  <2> QED
    BY <1>1, <2>1, MergeTops
<1>3. \A i \in DOMAIN batch : /\ batch[i] \in Items(batch) /\ batch[i].key \in Keys
                              /\ batch[i].op = "put" /\ Dated(batch[i])
  <2> SUFFICES ASSUME NEW i \in DOMAIN batch
               PROVE  /\ batch[i].key \in Keys /\ batch[i].op \in Ops /\ Dated(batch[i])
    BY DEF Items
  <2>1. batch[i] \in Stamped
    BY LenProperties, ElementOfSeq
  <2> QED
    BY <2>1, AllAreDated
<1>4. \A i \in AppliedAt(reg, batch) : i \in DOMAIN batch /\ Entry(i) \in applied
  BY DEF AppliedAt
<1>5. \A i : /\ Entry(i).key = batch[i].key /\ Entry(i).op = batch[i].op
             /\ Entry(i).ts = batch[i].ts /\ Entry(i).cid = batch[i].cid
             /\ Entry(i).seq = SeqAt(reg, batch, seq, i)
  OBVIOUS
<1>6. \A e \in applied : \E i \in AppliedAt(reg, batch) : e = Entry(i)
  OBVIOUS
<1> HIDE DEF Entry
<1>7. /\ \A i : \A x : Tops(x, Entry(i)) <=> Tops(x, batch[i])
      /\ \A i : \A x : Tops(Entry(i), x) <=> Tops(batch[i], x)
  BY <1>5 DEF Tops, ShouldOverwrite
<1>8. IsTrue(after, applied)
  <2> SUFFICES ASSUME NEW i \in AppliedAt(reg, batch)
               PROVE  /\ Entry(i).op = "put" /\ Tops(after[Entry(i).key], Entry(i))
                      /\ \A f \in applied : f.key = Entry(i).key /\ f.seq <= Entry(i).seq =>
                           Tops(Entry(i), f)
    BY <1>6 DEF IsTrue
  <2>1. Entry(i).op = "put" /\ Tops(after[Entry(i).key], Entry(i))
    BY <1>2, <1>3, <1>4, <1>5, <1>7
  <2>2. ASSUME NEW j \in AppliedAt(reg, batch), Entry(j).key = Entry(i).key,
               Entry(j).seq <= Entry(i).seq
        PROVE  Tops(Entry(i), Entry(j))
    <3>1. j <= i
      BY <1>5, <2>2, NumbersAreInOrder
    <3>2. Tops(batch[i], batch[j])
      BY <1>2, <1>5, <2>2, <3>1
    <3> QED
      BY <1>7, <3>2
  <2> QED
    BY <1>6, <2>1, <2>2
<1>9. \A i \in DOMAIN batch : batch[i].key \in Keys /\ after[batch[i].key].op # "none"
  <2>1. \A i \in DOMAIN batch : Tops(after[batch[i].key], batch[i])
    BY <1>2, <1>3
  <2> QED
    BY <1>3, <2>1 DEF Tops
<1>10. ASSUME NEW k \in Keys
       PROVE  \/ after[k] = reg[k]
              \/ \E e \in applied : \E i \in DOMAIN batch :
                   /\ e.key = k /\ batch[i].key = k /\ after[k] = RecordOf(batch[i])
                   /\ Tops(e, after[k])
  <2> SUFFICES ASSUME NEW i \in AppliedTo(reg, batch, k), after[k] = RecordOf(batch[i])
               PROVE  \E e \in applied : \E j \in DOMAIN batch :
                        /\ e.key = k /\ batch[j].key = k /\ after[k] = RecordOf(batch[j])
                        /\ Tops(e, after[k])
    BY <1>2
  <2>1. i \in AppliedAt(reg, batch) /\ batch[i].key = k
    BY DEF AppliedTo
  <2>2. Entry(i) \in applied /\ Entry(i).key = k /\ i \in DOMAIN batch
    BY <1>4, <1>5, <2>1
  <2>3. Tops(batch[i], batch[i])
    BY <1>3, <2>2, TopsIsOrder
  <2>4. Tops(Entry(i), after[k])
    BY <1>7, <2>3, TopsIsOrder
  <2> QED
    BY <2>1, <2>2, <2>4
<1> QED
  BY <1>1, <1>8, <1>9, <1>10

\* A batch is applied: those who do not know will be told, and whose batch it is shows it
\* or will be answered.
LEMMA ApplyConverges ==
  ASSUME ConvergesInv, PutsInv', StayConnected, Ops \subseteq {"put"}, NEW s \in Socks, Apply(s)
  PROVE  ConvergesInv'
<1> DEFINE batch == work[s].batch
           applied == {[key |-> batch[i].key, op |-> batch[i].op, ts |-> batch[i].ts,
                        cid |-> batch[i].cid, seq |-> SeqAt(reg, batch, seq, i)] :
                         i \in AppliedAt(reg, batch)}
           keys == {batch[i].key : i \in DOMAIN batch}
           w == [pc |-> "resolve", applied |-> applied,
                 skipped |-> keys \ {e.key : e \in applied}]
<1>1. /\ work[s].pc = "apply" /\ work[s] # Idle /\ work' = [work EXCEPT ![s] = w]
      /\ reg' = Merge(reg, batch)
      /\ UNCHANGED <<session, toServer, inbox>>
      /\ UNCHANGED <<cid, loads, conn, link, lastSync, pending, store, made, outbox, draft>>
  BY DEF Apply, clientVars, localVars, Idle
<1>2. /\ s = <<s[1], 1>> /\ s[1] \in Clients /\ SyncInv
      /\ Judged(reg, made[s[1]], pending[s[1]], Items(inbox[s[1]]), Items(toServer[s]), work[s])
  BY <1>1, HandlerBefore
<1>3. ServerTypes /\ ClientTypes /\ TableTypes
  BY <1>2 DEF SyncInv
<1>4. batch \in Seq(Stamped)
  BY <1>1, <1>3, WorkIs
<1>5. Items(batch) = Held(made[s[1]], pending[s[1]])
  BY <1>1, <1>2 DEF Judged
<1> HIDE DEF batch
<1>6. PICK told : told = applied
  OBVIOUS
<1>7. /\ IsTrue(reg', told)
      /\ \A i \in DOMAIN batch : batch[i].key \in Keys /\ reg'[batch[i].key].op # "none"
      /\ \A k \in Keys :
           \/ reg'[k] = reg[k]
           \/ \E e \in told : \E i \in DOMAIN batch :
                /\ e.key = k /\ batch[i].key = k /\ reg'[k] = RecordOf(batch[i])
                /\ Tops(e, reg'[k])
  BY <1>1, <1>3, <1>4, <1>6, AppliedAreTrue
<1>8. w.pc = "resolve" /\ w.applied = told /\ w.skipped = keys \ {e.key : e \in told}
  BY <1>6
<1> HIDE DEF w, applied
<1>9. reg \in [Keys -> Record] /\ reg' \in [Keys -> Record] /\ seq \in Nat
  BY <1>3 DEF PutsInv, SyncInv, ServerTypes
<1>10. /\ \A k \in Keys : Tops(reg'[k], reg[k])
       /\ \A e \in Items(batch) : Tops(reg'[e.key], e)
  <2>1. IsRegister(reg)
    BY <1>3 DEF ServerTypes, IsRegister
  <2> QED
    BY <1>1, <1>4, <2>1, MergeTops
<1>11. /\ \A k \in Keys : reg[k].op # "none" => reg'[k].op # "none"
       /\ \A k \in Keys : \A x \in Record : Tops(reg[k], x) => Tops(reg'[k], x)
       /\ \A n \in Nat : \A changes \in SUBSET Wire(n) :
            IsTrue(reg, changes) => IsTrue(reg', changes)
       /\ \A mine \in Seq(ChangeOf) : \A held \in SUBSET DOMAIN mine :
            Got(reg, mine, held) => Got(reg', mine, held)
  BY <1>9, <1>10, TruthGrows
<1>12. work'[s] = w /\ \A t \in Socks : t # s => work'[t] = work[t]
  BY <1>1, <1>3 DEF ServerTypes
<1>13. \A t \in Socks : WorkIsTrue(reg', work'[t])
  <2>1. WorkIsTrue(reg', w)
    BY <1>7, <1>8 DEF WorkIsTrue, keys
  <2>2. ASSUME NEW t \in Socks PROVE WorkIsTrue(reg', work[t])
    <3> SUFFICES ASSUME Tells(work[t])
                 PROVE  /\ IsTrue(reg', work[t].applied)
                        /\ \A k \in work[t].skipped : reg'[k].op # "none"
      BY DEF WorkIsTrue
    <3>1. work[t].applied \in SUBSET Wire(seq) /\ work[t].skipped \in SUBSET Keys
      BY <1>3, WorkIs DEF Tells
    <3>2. IsTrue(reg, work[t].applied) /\ \A k \in work[t].skipped : reg[k].op # "none"
      BY DEF ConvergesInv, WorkIsTrue
    <3> QED
      BY <1>9, <1>11, <3>1, <3>2
  <2> QED
    BY <1>12, <2>1, <2>2
<1>14. ASSUME NEW c \in Clients PROVE ClientConverges(c)'
  <2>1. ClientConverges(c)
    BY DEF ConvergesInv
  <2>2. SteadyClient(c)'
    BY <1>1, <2>1 DEF ClientConverges, SteadyClient
  <2>3. <<c, 1>> \in Socks => SteadySocket(<<c, 1>>)'
    BY <1>1, <1>8, <1>12, <2>1 DEF ClientConverges, SteadySocket
  <2>4. MailIsTrue(reg', Items(inbox[c]))
    <3>1. Items(inbox[c]) \subseteq Answers(seq)
      BY <1>3, ItemsOf DEF ClientTypes
    <3>2. \A m \in Items(inbox[c]) : News(m) => m.changes \in SUBSET Wire(seq)
      BY <3>1 DEF Answers, News
    <3> QED
      BY <1>9, <1>11, <2>1, <3>2 DEF ClientConverges, MailIsTrue
  <2>5. made[c] \in Seq(ChangeOf) /\ pending[c] \in SUBSET DOMAIN made[c]
        /\ pending[c] \subseteq outbox[c]
    BY <1>3 DEF TableTypes
  <2>6. Got(reg, made[c], pending[c]) => Got(reg', made[c], pending[c])
    BY <1>11, <2>5
  <2>7. c = s[1] => Got(reg', made[c], pending[c])
    BY <1>5, <1>10 DEF Got
  <2>8. conn[c] = 1 => Judged(reg', made[c], pending[c], Items(inbox[c]),
                              Items(toServer[<<c, 1>>]), work'[<<c, 1>>])
    <3>1. CASE c = s[1]
      <4>1. <<c, 1>> = s
        BY <1>2, <3>1
      <4>2. Judged(reg', made[c], pending[c], Items(inbox[c]), Items(toServer[s]), w)
        BY <1>2, <1>8, <2>7, <3>1 DEF Judged
      <4> QED
        BY <1>12, <4>1, <4>2
    <3>2. CASE c # s[1] /\ conn[c] = 1
      <4>1. <<c, 1>> \in Socks /\ <<c, 1>> # s
        BY <1>2, <3>2, OneSocket
      <4>2. work'[<<c, 1>>] = work[<<c, 1>>]
        BY <1>12, <4>1
      <4> QED
        BY <2>1, <2>6, <3>2, <4>2 DEF ClientConverges, Judged
    <3> QED
      BY <3>1, <3>2
  <2>9. ASSUME NEW k \in Keys PROVE ShownBy(reg'[k], made[c], outbox[c], store[c][k], k)
    <3>1. store[c][k] \in Record
      BY <1>3 DEF TableTypes
    <3> QED
      BY <1>11, <2>1, <3>1 DEF ClientConverges, ShownBy
  <2>10. ASSUME NEW k \in Keys PROVE Knows(c, k)'
    <3>1. Knows(c, k) /\ conn[c] \in {0, 1} /\ (conn[c] = 1 => <<c, 1>> \in Socks)
      BY <1>2, <2>1, OneSocket DEF ClientConverges
    <3>2. CASE conn[c] = 0
      BY <1>1, <3>2 DEF Knows
    <3>3. CASE conn[c] = 1 /\ c # s[1]
      <4>1. s # <<c, 1>> /\ s \in Socks \ {<<c, 1>>} /\ work'[<<c, 1>>] = work[<<c, 1>>]
        BY <1>2, <1>12, <3>1, <3>3
      <4>2. CASE reg'[k] = reg[k]
        <5>1. ~WillBring(work[s], k, reg[k])
          BY <1>1 DEF WillBring, Tells
        <5>2. \A t \in Socks : WillBring(work[t], k, reg[k]) => WillBring(work'[t], k, reg'[k])
          BY <1>12, <4>2, <5>1
        <5> QED
          BY <1>1, <3>1, <3>3, <4>1, <4>2, <5>2 DEF Knows
      <4>3. ASSUME NEW e \in told, e.key = k, Tops(e, reg'[k]) PROVE Knows(c, k)'
        <5>1. WillBring(work'[s], k, reg'[k])
          BY <1>8, <1>12, <4>3 DEF WillBring, Tells
        <5> QED
          BY <4>1, <5>1 DEF Knows
      <4> QED
        BY <1>7, <4>2, <4>3
    <3>4. CASE conn[c] = 1 /\ c = s[1]
      <4>1. s = <<c, 1>>
        BY <1>2, <3>4
      <4>2. CASE \E i \in DOMAIN batch : batch[i].key = k /\ reg'[k] = RecordOf(batch[i])
        <5>1. PICK i \in DOMAIN batch : batch[i].key = k /\ reg'[k] = RecordOf(batch[i])
          BY <4>2
        <5>2. batch[i] \in Held(made[c], pending[c])
          BY <1>5, <3>4 DEF Items
        <5>3. PICK n \in pending[c] : batch[i] = made[c][n]
          BY <5>2 DEF Held
        <5>4. /\ n \in outbox[c] /\ made[c][n].key = k /\ made[c][n].op = "put"
              /\ made[c][n].ts \in Nat /\ made[c][n].ts >= 1
          BY <1>2, <2>5, <5>1, <5>3, MadeIs
        <5>5. InView(made[c], outbox[c], store[c], capture[c], draft[c])
          BY DEF ConvergesInv, PutsInv, TableInView
        <5>6. ShouldOverwrite(store[c][k], made[c][n]) /\ (store[c][k].op = "none" => store[c][k].ts = 0)
          BY <5>4, <5>5 DEF InView
        <5>7. Tops(store[c][k], made[c][n])
          BY <5>4, <5>6 DEF Tops, ShouldOverwrite
        <5>8. Tops(store[c][k], reg'[k])
          BY <5>1, <5>3, <5>7, TopsIsOrder
        <5> QED
          BY <1>1, <5>8 DEF Knows
      <4>3. CASE reg'[k] = reg[k]
        <5>1. CASE k \in keys /\ \A e \in told : e.key # k
          <6>1. WillAnswer(w, k)
            BY <1>8, <5>1 DEF WillAnswer
          <6> QED
            BY <1>12, <4>1, <6>1 DEF Knows
        <5>2. CASE \E e \in told : e.key = k
          <6>1. PICK i \in AppliedAt(reg, batch) : batch[i].key = k
            BY <1>6, <5>2 DEF applied
          <6>2. i \in AppliedTo(reg, batch, k)
            BY <6>1 DEF AppliedTo
          <6>3. \E j \in AppliedTo(reg, batch, k) : reg'[k] = RecordOf(batch[j])
            <7>1. IsRegister(reg)
              BY <1>3 DEF ServerTypes, IsRegister
            <7> QED
              BY <1>1, <1>4, <6>2, <7>1, MergeTops
          <6> QED
            BY <4>2, <6>3 DEF AppliedTo, AppliedAt
        <5>3. CASE k \notin keys
          <6>1. ~WillAnswer(work[s], k)
            BY <1>1, <5>3 DEF WillAnswer, Items, keys, batch
          <6>2. \A t \in Socks \ {s} : work'[t] = work[t]
            BY <1>12
          <6> QED
            BY <1>1, <3>1, <3>4, <4>1, <4>3, <6>1, <6>2 DEF Knows
        <5> QED
          BY <5>1, <5>2, <5>3
      <4> QED
        BY <1>7, <4>2, <4>3
    <3> QED
      BY <3>1, <3>2, <3>3, <3>4
  <2> QED
    BY <1>1, <2>2, <2>3, <2>4, <2>8, <2>9, <2>10 DEF ClientConverges
<1> QED
  BY <1>13, <1>14 DEF ConvergesInv

LEMMA ClientNextConverges ==
  ASSUME ConvergesInv, PutsInv', StayConnected, Ops \subseteq {"put"}, ~WritesBetween,
         NEW c \in Clients, ClientNext(c)
  PROVE  ConvergesInv'
<1>1. ~Disconnect(c) /\ ~Reload(c)
  BY NobodyLeaves
<1>2. ASSUME NEW k \in Keys, NEW op \in Ops, NEW now \in 1..MaxTs, Draft(c, k, op, now)
      PROVE  ConvergesInv'
  BY <1>2, DraftConverges
<1>3. ASSUME CommitLocal(c) PROVE ConvergesInv'
  BY <1>3, CommitConverges
<1>4. ASSUME FireTimer(c) PROVE ConvergesInv'
  BY <1>4, FireTimerConverges
<1>5. ASSUME Connect(c) PROVE ConvergesInv'
  BY <1>5, ConnectConverges
<1>6. ASSUME HandleAuthSuccess(c) PROVE ConvergesInv'
  BY <1>6, HandleAuthSuccessConverges
<1>7. ASSUME HandleAck(c) PROVE ConvergesInv'
  BY <1>7, HandleAckConverges
<1>8. ASSUME Capture(c) PROVE ConvergesInv'
  BY <1>8, DraftConverges
<1>9. ASSUME HandleChanges(c) PROVE ConvergesInv'
  BY <1>9, HandleChangesConverges
<1> QED
  BY <1>1, <1>2, <1>3, <1>4, <1>5, <1>6, <1>7, <1>8, <1>9 DEF ClientNext

LEMMA ServerNextConverges ==
  ASSUME ConvergesInv, PutsInv', StayConnected, Ops \subseteq {"put"}, NEW s \in Socks,
         ServerNext(s)
  PROVE  ConvergesInv'
<1>1. ~SendDiff(s) /\ ~RefuseBatch(s) /\ ~Hangup(s)
  BY NobodyLeaves
<1>2. ASSUME RecvAuth(s) PROVE ConvergesInv'
  BY <1>2, RecvAuthConverges
<1>3. ASSUME ReadSync(s) PROVE ConvergesInv'
  BY <1>3, ReadSyncConverges
<1>4. ASSUME SendSnapshot(s) PROVE ConvergesInv'
  BY <1>4, SendSnapshotConverges
<1>5. ASSUME RecvBatch(s) PROVE ConvergesInv'
  BY <1>5, RecvBatchConverges
<1>6. ASSUME Apply(s) PROVE ConvergesInv'
  BY <1>6, ApplyConverges
<1>7. ASSUME ReturnSeq(s) PROVE ConvergesInv'
  BY <1>7, ReturnSeqConverges
<1>8. ASSUME SendAck(s) PROVE ConvergesInv'
  BY <1>8, SendAckConverges
<1>9. ASSUME Reconcile(s) PROVE ConvergesInv'
  BY <1>9, ReconcileConverges
<1>10. ASSUME Broadcast(s) PROVE ConvergesInv'
  BY <1>10, BroadcastConverges
<1> QED
  BY <1>1, <1>2, <1>3, <1>4, <1>5, <1>6, <1>7, <1>8, <1>9, <1>10 DEF ServerNext

\* The changelog does not matter here.
LEMMA OthersConverge ==
  ASSUME ConvergesInv, PutsInv', UNCHANGED <<reg, work, session, toServer, inbox, clientVars>>
  PROVE  ConvergesInv'
<1>1. /\ UNCHANGED <<reg, work, session, toServer, inbox>>
      /\ UNCHANGED <<cid, loads, conn, link, lastSync, pending, store, made, outbox, draft>>
  BY DEF clientVars, localVars
<1>2. \A s \in Socks : WorkIsTrue(reg, work[s])'
  BY <1>1 DEF ConvergesInv
<1>3. ASSUME NEW c \in Clients PROVE ClientConverges(c)'
  <2>1. ClientConverges(c)
    BY DEF ConvergesInv
  <2>2. SteadyClient(c)' /\ (<<c, 1>> \in Socks => SteadySocket(<<c, 1>>)')
    BY <1>1, <2>1 DEF ClientConverges, SteadyClient, SteadySocket
  <2>3. \A k \in Keys : Knows(c, k)'
    BY <1>1, <2>1 DEF ClientConverges, Knows
  <2> QED
    BY <1>1, <2>1, <2>2, <2>3 DEF ClientConverges
<1> QED
  BY <1>2, <1>3 DEF ConvergesInv

LEMMA NextKeepsConverging ==
  ASSUME Ops \subseteq {"put"}, ~WritesBetween, StayConnected
  PROVE  ConvergesInv /\ [Next]_vars => ConvergesInv'
<1> SUFFICES ASSUME ConvergesInv, [Next]_vars PROVE ConvergesInv'
  OBVIOUS
<1>1. PutsInv'
  BY NextKeepsPuts DEF ConvergesInv
<1>2. ASSUME NEW c \in Clients, ClientNext(c) PROVE ConvergesInv'
  BY <1>1, <1>2, ClientNextConverges
<1>3. ASSUME NEW s \in Socks, ServerNext(s) PROVE ConvergesInv'
  BY <1>1, <1>3, ServerNextConverges
<1>4. ASSUME NEW n \in 1..(seq - 1), Prune(n) PROVE ConvergesInv'
  <2>1. UNCHANGED <<reg, work, session, toServer, inbox, clientVars>>
    BY <1>4 DEF Prune
  <2> QED
    BY <1>1, <2>1, OthersConverge
<1>5. CASE UNCHANGED vars
  <2>1. UNCHANGED <<reg, work, session, toServer, inbox, clientVars>>
    BY <1>5 DEF vars, serverVars, clientVars
  <2> QED
    BY <1>1, <2>1, OthersConverge
<1> QED
  BY <1>2, <1>3, <1>4, <1>5 DEF Next

LEMMA InitConverges ==
  ASSUME StayConnected PROVE Init => ConvergesInv
<1> SUFFICES ASSUME Init PROVE ConvergesInv
  OBVIOUS
<1>1. PutsInv
  BY InitPuts
<1>2. \A s \in Socks : WorkIsTrue(reg, work[s])
  BY DEF Init, WorkIsTrue, Tells, Idle
<1>3. ASSUME NEW c \in Clients PROVE ClientConverges(c)
  <2>1. SteadyClient(c)
    BY DEF Init, SteadyClient, Nothing
  <2>2. <<c, 1>> \in Socks => SteadySocket(<<c, 1>>)
    BY ItemsOf DEF Init, SteadySocket, Idle
  <2>3. MailIsTrue(reg, Items(inbox[c]))
    BY ItemsOf DEF Init, MailIsTrue
  <2>4. conn[c] = 0
    BY DEF Init
  <2>5. \A k \in Keys : Knows(c, k)
    BY <2>4 DEF Knows
  <2>6. \A k \in Keys : ShownBy(reg[k], made[c], outbox[c], store[c][k], k)
    BY DEF Init, ShownBy, Tops, NoRecord
  <2> QED
    BY <2>1, <2>2, <2>3, <2>4, <2>5, <2>6 DEF ClientConverges
<1> QED
  BY <1>1, <1>2, <1>3 DEF ConvergesInv

\* When nothing is left to do, what is shown and what the server has are as good as each other.
LEMMA QuietConverges ==
  ASSUME ConvergesInv, StayConnected PROVE Converged
<1> SUFFICES ASSUME Quiet, NEW c \in Clients, NEW k \in Keys
             PROVE  /\ store[c][k].op = Shown(k).op /\ store[c][k].ts = Shown(k).ts
                    /\ Writer(store[c][k]) = Writer(Shown(k))
  BY DEF Converged
<1>1. SyncInv /\ NothingDeleted /\ ClientConverges(c)
  BY DEF ConvergesInv, PutsInv
<1>2. conn[c] = 1 /\ <<c, 1>> \in Socks
  <2>1. link[c] = "open"
    BY DEF Quiet
  <2> QED
    BY <1>1, <2>1, OneSocket
<1>3. session[<<c, 1>>] # 0
  <2>1. toServer[<<c, 1>>] = << >> /\ SteadySocket(<<c, 1>>)
    BY <1>1, <1>2 DEF Quiet, ClientConverges
  <2> QED
    BY <1>2, <2>1 DEF SteadySocket
<1>4. Tops(store[c][k], reg[k])
  <2>1. Items(inbox[c]) = {} /\ Items(toServer[<<c, 1>>]) = {} /\ outbox[c] = {}
    BY <1>2, ItemsOf DEF Quiet
  <2>2. \A t \in Socks : work[t] = Idle
    BY DEF Quiet
  <2>3. ~Brings(Items(inbox[c]), k, reg[k])
    BY <2>1 DEF Brings
  <2>4. \A t \in Socks : ~WillBring(work[t], k, reg[k])
    BY <2>2 DEF WillBring, Tells, Idle
  <2>5. ~WillAsk(made[c], outbox[c], pending[c], Items(toServer[<<c, 1>>]), k)
    BY <2>1 DEF WillAsk
  <2>6. ~WillAnswer(work[<<c, 1>>], k)
    BY <1>2, <2>2 DEF WillAnswer, Idle
  <2>7. Knows(c, k)
    BY <1>1 DEF ClientConverges
  <2> QED
    BY <1>2, <1>3, <2>3, <2>4, <2>5, <2>6, <2>7 DEF Knows
<1>5. Tops(reg[k], store[c][k])
  <2>1. ShownBy(reg[k], made[c], outbox[c], store[c][k], k) /\ outbox[c] = {}
    BY <1>1 DEF ClientConverges, Quiet
  <2> QED
    BY <2>1 DEF ShownBy
<1>6. reg[k] \in Record /\ store[c][k] \in Record /\ store[c][k].op # "delete" /\ reg[k].op # "delete"
  BY <1>1 DEF SyncInv, ServerTypes, TableTypes, NothingDeleted
<1>7. Dated(reg[k]) /\ Dated(store[c][k])
  BY <1>6, AllAreDated
<1>8. CASE reg[k].op = "none"
  <2>1. store[c][k].op = "none"
    BY <1>5, <1>8 DEF Tops
  <2>2. store[c][k] = NoRecord
    BY <1>1, <2>1 DEF ClientConverges, SteadyClient
  <2>3. Shown(k) = NoRecord
    BY <1>8 DEF Shown
  <2> QED
    BY <2>2, <2>3
<1>9. CASE reg[k].op = "put"
  <2>1. store[c][k].op = "put"
    <3>1. store[c][k].op # "none"
      BY <1>4, <1>9 DEF Tops
    <3> QED
      BY <1>6, <3>1 DEF Record
  <2>2. store[c][k].ts = reg[k].ts /\ store[c][k].cid = reg[k].cid
    BY <1>4, <1>5, <1>7, <1>9, <2>1 DEF Tops, ShouldOverwrite, Dated
  <2>3. Shown(k) = reg[k]
    BY <1>9 DEF Shown
  <2> QED
    BY <1>9, <2>1, <2>2, <2>3 DEF Writer
<1> QED
  BY <1>6, <1>8, <1>9 DEF Record

\* Two-way sync: when nothing is left to do every client shows what the server shows, for any
\* number of clients, records and writes, any batch size and any interleaving of the handlers
\* (src/server/sync.ts) with the clients' coordinators, as long as nobody deletes, nobody loses
\* the connection or loads the page again, and no local write is committed between the two
\* transactions of applyBatchRecords (client/storage/storage.ts).
THEOREM ReplicasConverge ==
  ASSUME Ops \subseteq {"put"}, ~WritesBetween, StayConnected
  PROVE  Spec => []Converged
<1>1. Init => ConvergesInv
  BY InitConverges
<1>2. ConvergesInv /\ [Next]_vars => ConvergesInv'
  BY NextKeepsConverging
<1>3. ConvergesInv => Converged
  BY QuietConverges
<1> QED
  BY <1>1, <1>2, <1>3, PTL DEF Spec
=============================================================================
