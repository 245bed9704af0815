------------------------- MODULE ClientStoreProofs -------------------------
(***************************************************************************)
(* Theorems about ClientStore for every number of tabs and tables: which   *)
(* operations on the shared database fail, and that subscribers catch up.  *)
(***************************************************************************)
EXTENDS ClientStore, FiniteSetTheorems, FunctionTheorems, SequenceTheorems, TLAPS

-----------------------------------------------------------------------------
(* The inductive invariant                                                 *)

\* The calls a job can be made of.
CallSet == [call : {"ensure"}, table : Tables]
             \cup [call : {"read", "write", "deliver", "tell"}, table : {None}]

OpKinds == {"put", "delete", "remote", "clear", "wipe", "tell"}

JobSet == [kind : OpKinds \cup {"fetch"}, tables : SUBSET Tables, todo : Seq(CallSet),
           asked : BOOLEAN, seen : SUBSET Tables, stale : BOOLEAN, overtaken : BOOLEAN,
           behind : BOOLEAN]

RequestSet == [tab : Tabs, slot : Slots, upgrade : BOOLEAN, tables : SUBSET Tables]

\* What a fetch has still to do.
FetchTodos == {<<Ensure(Watched), Call("read"), Call("deliver")>>,
               <<Call("read"), Call("deliver")>>, <<Call("deliver")>>}

\* The tables that are ensured before the next transaction.
Coming(todo) ==
  {t \in Tables : \E n \in DOMAIN todo :
                    todo[n] = Ensure(t) /\ \A m \in 1..n : todo[m].call = "ensure"}

\* The calls of a job fit its slot, it is stale only between its transactions,
\* and every table it works on is there or is ensured before it is needed.
JobFits(j, s, made) ==
  /\ j \in JobSet /\ j.todo # <<>>
  /\ s = "fetch" => j.kind = "fetch" /\ j.tables = {Watched} /\ j.todo \in FetchTodos
  /\ s = "op" => /\ j.kind \in OpKinds
                 /\ \A n \in DOMAIN j.todo :
                      /\ j.todo[n].call # "deliver"
                      /\ j.todo[n].call = "tell" <=> j.kind = "tell"
  /\ j.kind = "tell" => ~j.behind
  /\ j.stale => j.todo[1].call = "write"
  /\ j.kind \notin {"clear", "wipe", "tell"} /\ ~j.overtaken
       => j.tables \subseteq made \cup Coming(j.todo)

JobsFit(jobs, made) ==
  /\ jobs \in [Tabs -> [Slots -> JobSet \cup {Idle}]]
  /\ \A b \in Tabs, s \in Slots : jobs[b][s] # Idle => JobFits(jobs[b][s], s, made)

\* A request of an ensure is made by the call that waits for it.
IsAskedBy(q, j) ==
  /\ j # Idle /\ j.asked /\ ~j.behind
  /\ j.todo[1].call = "ensure" /\ q.tables = {j.todo[1].table}

\* A request to open names no table; of the others a job has at most one.
RequestsFit(reqs, jobs) ==
  /\ reqs \in Seq(RequestSet)
  /\ \A i \in DOMAIN reqs :
       /\ reqs[i].upgrade => reqs[i].tables # {}
       /\ reqs[i].tables # {} => IsAskedBy(reqs[i], jobs[reqs[i].tab][reqs[i].slot])
  /\ \A i, k \in DOMAIN reqs :
       /\ reqs[i].tables # {} /\ reqs[k].tables # {}
       /\ reqs[i].tab = reqs[k].tab /\ reqs[i].slot = reqs[k].slot
       => i = k

RestTyped ==
  /\ stores \subseteq Tables /\ indexes \subseteq stores /\ rows \subseteq stores
  /\ conn \in [Tabs -> {None, "waiting", "open"}] /\ broken \in [Tabs -> BOOLEAN]
  /\ again \in [Tabs -> BOOLEAN] /\ notes \in [Tabs -> BOOLEAN]
  /\ shown \in [Tabs -> (SUBSET Tables) \cup {None}] /\ excused \in [Tabs -> BOOLEAN]

StoreInv ==
  /\ RestTyped /\ JobsFit(job, stores) /\ RequestsFit(requests, job) /\ ~unexplained

\* A tab is about to tell of a change to the watched table.
IsTelling(j) == j # Idle /\ j.todo[1].call = "tell" /\ Watched \in j.tables

\* Something is still to come that makes b fetch, or excuses it.
IsDue(b) ==
  \/ again[b] \/ notes[b] \/ excused[b]
  \/ \E c \in Tabs, s \in Slots : IsTelling(job[c][s])

\* What the subscriber of a tab was given, or its fetch is about to give it.
UpToDate(b) ==
  IF job[b]["fetch"] = Idle THEN shown[b] = rows \cap {Watched}
  ELSE job[b]["fetch"].todo[1].call = "deliver"
         => job[b]["fetch"].seen = rows \cap {Watched}

CatchUpInv == \A b \in Watching : IsDue(b) \/ UpToDate(b)

-----------------------------------------------------------------------------
(* Jobs                                                                    *)

\* A tab has two slots.
LEMMA TwoSlots ==
  ASSUME NEW s \in Slots
  PROVE  /\ Other(s) \in Slots /\ Other(s) # s
         /\ \A r \in Slots : r = s \/ r = Other(s)
<1>1. \E o \in Slots : o # s
  BY DEF Slots
<1>2. Other(s) \in Slots /\ Other(s) # s
  BY <1>1 DEF Other
<1> QED
  BY <1>2 DEF Slots

\* The calls are calls.
LEMMA CallTypes ==
  /\ \A t \in Tables : Ensure(t) \in CallSet /\ Ensure(t).call = "ensure" /\ Ensure(t).table = t
  /\ \A name \in {"read", "write", "deliver", "tell"} :
       Call(name) \in CallSet /\ Call(name).call = name
BY DEF Ensure, Call, CallSet

\* No job is idle.
LEMMA JobsAreNotIdle == \A j \in JobSet : j # Idle
<1> SUFFICES ASSUME NEW j \in JobSet PROVE j # Idle
  OBVIOUS
<1>1. j.kind \in OpKinds \cup {"fetch"}
  BY DEF JobSet
<1>2. j.kind # None
  BY <1>1, StoreAssumption DEF OpKinds
<1>3. Idle.kind = None
  BY DEF Idle
<1> QED
  BY <1>2, <1>3

\* The tables that are ensured first are still to come, or have just been.
LEMMA ComingFirst ==
  ASSUME NEW todo \in Seq(CallSet), todo # <<>>
  PROVE  /\ todo[1].call # "ensure" => Coming(todo) = {}
         /\ todo[1] \in CallSet
         /\ todo[1].call = "ensure" =>
              Coming(todo) \subseteq {todo[1].table} \cup Coming(Tail(todo))
<1>1. /\ Len(todo) \in Nat /\ Len(todo) > 0 /\ DOMAIN todo = 1..Len(todo)
      /\ \A n \in 1..Len(todo) : todo[n] \in CallSet
  OBVIOUS
<1>2. todo[1].call # "ensure" => Coming(todo) = {}
  BY <1>1 DEF Coming
<1>3. ASSUME todo[1].call = "ensure", NEW t \in Coming(todo), t # todo[1].table
      PROVE  t \in Coming(Tail(todo))
  <2>1. PICK n \in 1..Len(todo) :
          todo[n] = Ensure(t) /\ \A m \in 1..n : todo[m].call = "ensure"
    BY <1>1 DEF Coming
  <2>2. t \in Tables
    BY DEF Coming
  <2>3. n # 1
    BY <1>3, <2>1, <2>2, CallTypes
  <2>4. /\ Len(Tail(todo)) = Len(todo) - 1 /\ DOMAIN Tail(todo) = 1..Len(Tail(todo))
        /\ \A m \in 1..(Len(todo) - 1) : Tail(todo)[m] = todo[m + 1]
    BY <1>1
  <2>5. n - 1 \in 1..(Len(todo) - 1) /\ (n - 1) + 1 = n
    BY <1>1, <2>1, <2>3
  <2>6. Tail(todo)[n - 1] = Ensure(t)
    BY <2>1, <2>4, <2>5
  <2>7. \A m \in 1..(n - 1) : Tail(todo)[m].call = "ensure"
    <3> SUFFICES ASSUME NEW m \in 1..(n - 1) PROVE Tail(todo)[m].call = "ensure"
      OBVIOUS
    <3>1. m \in 1..(Len(todo) - 1) /\ m + 1 \in 1..n
      BY <1>1, <2>1, <2>5
    <3> QED
      BY <2>1, <2>4, <3>1
  <2> QED
    BY <2>2, <2>4, <2>5, <2>6, <2>7 DEF Coming
<1> QED
  BY <1>1, <1>2, <1>3

\* The calls of an operation ensure all its tables before they read or write.
LEMMA CallsFit ==
  ASSUME NEW kind \in OpKinds \ {"tell"}, NEW ts \in SUBSET Tables,
         kind \in {"put", "delete"} => \E t \in Tables : ts = {t}
  PROVE  /\ Calls(kind, ts) \in Seq(CallSet) /\ Calls(kind, ts) # <<>>
         /\ \A n \in DOMAIN Calls(kind, ts) :
              Calls(kind, ts)[n].call \in {"ensure", "read", "write"}
         /\ kind \notin {"clear", "wipe"} => ts \subseteq Coming(Calls(kind, ts))
<1>1. CASE kind \in {"put", "delete"}
  <2>1. PICK t \in Tables : ts = {t}
    BY <1>1
  <2>2. (CHOOSE x \in ts : TRUE) = t
    BY <2>1
  <2>3. Calls(kind, ts) = <<Ensure(t), Call("read"), Ensure(t), Call("write")>>
    BY <1>1, <2>2 DEF Calls
  <2> DEFINE e == Ensure(t)
             r == Call("read")
             w == Call("write")
             all == <<e, r, e, w>>
  <2>4. /\ e \in CallSet /\ r \in CallSet /\ w \in CallSet
        /\ e.call = "ensure" /\ r.call = "read" /\ w.call = "write"
    BY CallTypes
  <2> HIDE DEF e, r, w
  <2>5. all \in Seq(CallSet) /\ all # <<>> /\ DOMAIN all = 1..4 /\ all[1] = e
    BY <2>4
  <2>6. \A n \in 1..4 : all[n].call \in {"ensure", "read", "write"}
    BY <2>4
  <2>7. t \in Coming(all)
    <3>1. 1 \in DOMAIN all /\ all[1] = Ensure(t) /\ \A m \in 1..1 : all[m].call = "ensure"
      BY <2>4, <2>5 DEF e
    <3> HIDE DEF all
    <3> QED
      BY <3>1 DEF Coming
  <2> QED
    BY <2>1, <2>3, <2>5, <2>6, <2>7 DEF e, r, w
<1>2. CASE kind = "remote"
  <2> DEFINE n == Cardinality(ts)
             first == [i \in 1..n |-> Ensure(Order(ts)[i])]
             last == <<Call("read"), Call("write")>>
             all == first \o last
  <2>1. Calls(kind, ts) = all
    BY <1>2 DEF Calls
  <2>2. IsFiniteSet(ts)
    BY StoreAssumption, FS_Subset
  <2>3. n \in Nat /\ ExistsBijection(1..n, ts)
    BY <2>2, FS_CardinalityType
  <2>4. Order(ts) \in Bijection(1..n, ts)
    BY <2>3 DEF Order, ExistsBijection
  <2>5. /\ Order(ts) \in [1..n -> ts]
        /\ \A t \in ts : \E i \in 1..n : Order(ts)[i] = t
    BY <2>4 DEF Bijection, Surjection, Injection
  <2> HIDE DEF n
  <2>6. \A i \in 1..n : Order(ts)[i] \in Tables
    BY <2>5
  <2>7. first \in Seq(CallSet) /\ Len(first) = n /\ \A i \in 1..n : first[i].call = "ensure"
    BY <2>3, <2>6, CallTypes
  <2>8. last \in Seq(CallSet) /\ Len(last) = 2 /\ last[1].call = "read" /\ last[2].call = "write"
    BY CallTypes
  <2>9. \A t \in ts : \E i \in 1..n : first[i] = Ensure(t)
    BY <2>5
  <2> HIDE DEF first, last
  <2>10. /\ all \in Seq(CallSet) /\ Len(all) = n + 2 /\ DOMAIN all = 1..(n + 2)
         /\ \A i \in 1..n : all[i] = first[i]
         /\ all[n + 1] = last[1] /\ all[n + 2] = last[2]
    <3>0. first \in Seq(CallSet) /\ last \in Seq(CallSet)
      BY <2>7, <2>8
    <3>1. /\ all \in Seq(CallSet) /\ Len(all) = Len(first) + Len(last)
          /\ \A i \in 1..Len(first) + Len(last) :
               all[i] = IF i <= Len(first) THEN first[i] ELSE last[i - Len(first)]
      BY <3>0, ConcatProperties
    <3> HIDE DEF all
    <3>2. /\ Len(all) = n + 2
          /\ \A i \in 1..(n + 2) : all[i] = IF i <= n THEN first[i] ELSE last[i - n]
      BY <2>7, <2>8, <3>1
    <3>3. DOMAIN all = 1..(n + 2)
      BY <3>1, <3>2
    <3>4. n + 1 \in 1..(n + 2) /\ n + 2 \in 1..(n + 2) /\ (n + 1) - n = 1 /\ (n + 2) - n = 2
      BY <2>3
    <3>5. ~(n + 1 <= n) /\ ~(n + 2 <= n)
      BY <2>3
    <3>6. all[n + 1] = last[1] /\ all[n + 2] = last[2]
      BY <3>2, <3>4, <3>5
    <3>7. \A i \in 1..n : i \in 1..(n + 2) /\ i <= n
      BY <2>3
    <3> QED
      BY <3>1, <3>2, <3>3, <3>6, <3>7
  <2> HIDE DEF all
  <2>11. all # <<>>
    BY <2>3, <2>10
  <2>12. \A i \in 1..(n + 2) : i \in 1..n \/ i = n + 1 \/ i = n + 2
    BY <2>3
  <2>13. \A i \in DOMAIN all : all[i].call \in {"ensure", "read", "write"}
    BY <2>7, <2>8, <2>10, <2>12
  <2>14. ts \subseteq Coming(all)
    <3> SUFFICES ASSUME NEW t \in ts PROVE t \in Coming(all)
      OBVIOUS
    <3>1. PICK i \in 1..n : first[i] = Ensure(t)
      BY <2>9
    <3>2. i \in 1..(n + 2) /\ \A m \in 1..i : m \in 1..n
      BY <2>3
    <3> QED
      BY <2>7, <2>10, <3>1, <3>2 DEF Coming
  <2> QED
    BY <2>1, <2>10, <2>11, <2>13, <2>14
<1>3. CASE kind = "clear"
  BY <1>3, CallTypes DEF Calls
<1>4. CASE kind = "wipe"
  BY <1>4, CallTypes DEF Calls
<1> QED
  BY <1>1, <1>2, <1>3, <1>4 DEF OpKinds


\* A fetch ensures, reads and delivers.
LEMMA FetchCalls ==
  ASSUME NEW j, NEW made, JobFits(j, "fetch", made)
  PROVE  /\ j.todo[1].call \in {"ensure", "read", "deliver"}
         /\ j.todo[1].call = "ensure" => Tail(j.todo) # <<>> /\ Tail(j.todo)[1].call = "read"
         /\ j.todo[1].call = "read" => Tail(j.todo) # <<>> /\ Tail(j.todo)[1].call = "deliver"
<1> DEFINE e == Ensure(Watched)
           r == Call("read")
           d == Call("deliver")
<1>1. j.todo \in {<<e, r, d>>, <<r, d>>, <<d>>}
  BY DEF JobFits, FetchTodos
<1>2. e.call = "ensure" /\ r.call = "read" /\ d.call = "deliver"
  BY CallTypes, StoreAssumption
<1> HIDE DEF e, r, d
<1>3. /\ <<e, r, d>>[1] = e /\ <<r, d>>[1] = r /\ <<d>>[1] = d
      /\ Tail(<<e, r, d>>) = <<r, d>> /\ Tail(<<r, d>>) = <<d>>
      /\ <<r, d>> # <<>> /\ <<d>> # <<>>
  OBVIOUS
<1> QED
  BY <1>1, <1>2, <1>3

\* A job that fits goes on fitting when there are more stores.
LEMMA FitsOn ==
  ASSUME NEW j, NEW s \in Slots, NEW made, NEW made2, JobFits(j, s, made), made \subseteq made2
  PROVE  JobFits(j, s, made2)
BY DEF JobFits

\* One job is replaced by another that fits, or ends.
LEMMA PutJob ==
  ASSUME NEW jobs, NEW made, NEW made2, JobsFit(jobs, made), made \subseteq made2,
         NEW b \in Tabs, NEW s \in Slots, NEW j, j = Idle \/ JobFits(j, s, made2)
  PROVE  /\ JobsFit([jobs EXCEPT ![b][s] = j], made2)
         /\ [jobs EXCEPT ![b][s] = j][b][s] = j
         /\ \A c \in Tabs, r \in Slots : ~(c = b /\ r = s) =>
              [jobs EXCEPT ![b][s] = j][c][r] = jobs[c][r]
<1> DEFINE new == [jobs EXCEPT ![b][s] = j]
<1>1. j \in JobSet \cup {Idle}
  BY DEF JobFits
<1>2. /\ new \in [Tabs -> [Slots -> JobSet \cup {Idle}]] /\ new[b][s] = j
      /\ \A c \in Tabs, r \in Slots : ~(c = b /\ r = s) => new[c][r] = jobs[c][r]
  BY <1>1 DEF JobsFit
<1> HIDE DEF new
<1>3. ASSUME NEW c \in Tabs, NEW r \in Slots, new[c][r] # Idle
      PROVE  JobFits(new[c][r], r, made2)
  <2>1. CASE c = b /\ r = s
    BY <1>2, <1>3, <2>1
  <2>2. CASE ~(c = b /\ r = s)
    <3>1. new[c][r] = jobs[c][r]
      BY <1>2, <2>2
    <3>2. JobFits(jobs[c][r], r, made)
      BY <1>3, <3>1 DEF JobsFit
    <3> QED
      BY <3>1, <3>2, FitsOn
  <2> QED
    BY <2>1, <2>2
<1>4. JobsFit(new, made2)
  BY <1>2, <1>3 DEF JobsFit
<1> QED
  BY <1>2, <1>4 DEF new

\* There are more stores, and no job changes.
LEMMA JobsFitOn ==
  ASSUME NEW jobs, NEW made, NEW made2, JobsFit(jobs, made), made \subseteq made2
  PROVE  JobsFit(jobs, made2)
<1>1. \A b \in Tabs, s \in Slots : jobs[b][s] # Idle => JobFits(jobs[b][s], s, made2)
  BY FitsOn DEF JobsFit
<1> QED
  BY <1>1 DEF JobsFit

\* A job is a job, and what it has still to do starts with a call.
LEMMA JobFacts ==
  ASSUME NEW jobs, NEW made, JobsFit(jobs, made), NEW b \in Tabs, NEW s \in Slots,
         jobs[b][s] # Idle
  PROVE  /\ JobFits(jobs[b][s], s, made) /\ jobs[b][s] \in JobSet
         /\ jobs[b][s].todo \in Seq(CallSet) /\ jobs[b][s].todo # <<>>
         /\ Head(jobs[b][s].todo) = jobs[b][s].todo[1] /\ jobs[b][s].todo[1] \in CallSet
         /\ 1 \in DOMAIN jobs[b][s].todo
<1>1. JobFits(jobs[b][s], s, made)
  BY DEF JobsFit
<1>2. jobs[b][s] \in JobSet /\ jobs[b][s].todo # <<>>
  BY <1>1 DEF JobFits
<1>3. jobs[b][s].todo \in Seq(CallSet)
  BY <1>2 DEF JobSet
<1>4. /\ Head(jobs[b][s].todo) = jobs[b][s].todo[1] /\ jobs[b][s].todo[1] \in CallSet
      /\ 1 \in DOMAIN jobs[b][s].todo
  BY <1>2, <1>3
<1> QED
  BY <1>1, <1>2, <1>3, <1>4

\* A job whose first call is done still fits, if the table that it ensured is
\* there or another tab has overtaken it.
LEMMA PopFits ==
  ASSUME NEW j, NEW s \in Slots, NEW made, NEW made2, JobFits(j, s, made),
         made \subseteq made2, NEW seen \in SUBSET Tables, NEW behind \in BOOLEAN,
         j.todo[1].call \in {"ensure", "read"}, Tail(j.todo) # <<>>,
         j.todo[1].call = "ensure" => j.overtaken \/ j.todo[1].table \in made2
  PROVE  JobFits([j EXCEPT !.todo = Tail(j.todo), !.asked = FALSE, !.seen = seen,
                           !.behind = behind], s, made2)
<1> DEFINE new == [j EXCEPT !.todo = Tail(j.todo), !.asked = FALSE, !.seen = seen,
                            !.behind = behind]
<1>1. j \in JobSet /\ j.todo \in Seq(CallSet) /\ j.todo # <<>> /\ Slots = {"op", "fetch"}
  BY DEF JobFits, JobSet, Slots
<1>2. Tail(j.todo) \in Seq(CallSet)
  BY <1>1
<1>3. /\ new \in JobSet /\ new.todo = Tail(j.todo) /\ new.kind = j.kind
      /\ new.tables = j.tables /\ new.stale = j.stale /\ new.overtaken = j.overtaken
      /\ new.behind = behind
  BY <1>1, <1>2 DEF JobSet
<1> HIDE DEF new
<1>4. /\ Len(j.todo) \in Nat /\ DOMAIN j.todo = 1..Len(j.todo) /\ Len(j.todo) > 0
      /\ DOMAIN Tail(j.todo) = 1..(Len(j.todo) - 1)
      /\ \A n \in 1..(Len(j.todo) - 1) : Tail(j.todo)[n] = j.todo[n + 1]
  BY <1>1
<1>5. \A n \in DOMAIN Tail(j.todo) : Tail(j.todo)[n] = j.todo[n + 1] /\ n + 1 \in DOMAIN j.todo
  BY <1>4
<1>6. 1 \in DOMAIN j.todo
  BY <1>4
<1>7. j.kind # "tell"
  BY <1>1, <1>6 DEF JobFits
<1>8. s = "op" => /\ new.kind \in OpKinds
                  /\ \A n \in DOMAIN new.todo :
                       /\ new.todo[n].call # "deliver"
                       /\ new.todo[n].call = "tell" <=> new.kind = "tell"
  BY <1>3, <1>5 DEF JobFits
<1>9. s = "fetch" => Tail(j.todo) \in FetchTodos
  <2> SUFFICES ASSUME s = "fetch" PROVE Tail(j.todo) \in FetchTodos
    OBVIOUS
  <2> DEFINE e == Ensure(Watched)
             r == Call("read")
             d == Call("deliver")
  <2>1. /\ j.todo \in {<<e, r, d>>, <<r, d>>, <<d>>}
        /\ <<r, d>> \in FetchTodos /\ <<d>> \in FetchTodos
    BY DEF JobFits, FetchTodos
  <2> HIDE DEF e, r, d
  <2>2. /\ Tail(<<e, r, d>>) = <<r, d>> /\ Tail(<<r, d>>) = <<d>> /\ Tail(<<d>>) = <<>>
    OBVIOUS
  <2> QED
    BY <2>1, <2>2
<1>10. ~j.stale
  BY DEF JobFits
<1>11. j.kind \notin {"clear", "wipe", "tell"} /\ ~j.overtaken
         => j.tables \subseteq made2 \cup Coming(Tail(j.todo))
  <2> SUFFICES ASSUME j.kind \notin {"clear", "wipe", "tell"}, ~j.overtaken
               PROVE  j.tables \subseteq made2 \cup Coming(Tail(j.todo))
    OBVIOUS
  <2>1. j.tables \subseteq made \cup Coming(j.todo)
    BY DEF JobFits
  <2> QED
    BY <1>1, <2>1, ComingFirst
<1>12. s = "fetch" => j.kind = "fetch" /\ j.tables = {Watched}
  BY DEF JobFits
<1>13. JobFits(new, s, made2)
  BY <1>3, <1>7, <1>8, <1>9, <1>10, <1>11, <1>12 DEF JobFits
<1> QED
  BY <1>13 DEF new

-----------------------------------------------------------------------------
(* Requests                                                                *)

\* No ensure of a job waits in the queue.
Unrequested(reqs, b, s) ==
  \A i \in DOMAIN reqs : reqs[i].tables # {} => ~(reqs[i].tab = b /\ reqs[i].slot = s)

\* A request of the queue is a request.
LEMMA RequestTypes ==
  ASSUME NEW reqs \in Seq(RequestSet), NEW i \in DOMAIN reqs
  PROVE  /\ reqs[i] \in RequestSet /\ reqs[i].tab \in Tabs /\ reqs[i].slot \in Slots
         /\ reqs[i].tables \subseteq Tables /\ reqs[i].upgrade \in BOOLEAN
<1>1. reqs[i] \in RequestSet
  OBVIOUS
<1> QED
  BY <1>1 DEF RequestSet

\* The jobs that have a request in the queue go on waiting for it.
LEMMA AskedStay ==
  ASSUME NEW reqs, NEW jobs, NEW jobs2, RequestsFit(reqs, jobs),
         \A c \in Tabs, r \in Slots : ~Unrequested(reqs, c, r) =>
           \A q \in RequestSet : IsAskedBy(q, jobs[c][r]) => IsAskedBy(q, jobs2[c][r])
  PROVE  RequestsFit(reqs, jobs2)
<1>1. ASSUME NEW i \in DOMAIN reqs, reqs[i].tables # {}
      PROVE  IsAskedBy(reqs[i], jobs2[reqs[i].tab][reqs[i].slot])
  <2>1. reqs[i] \in RequestSet /\ reqs[i].tab \in Tabs /\ reqs[i].slot \in Slots
    BY RequestTypes DEF RequestsFit
  <2>2. ~Unrequested(reqs, reqs[i].tab, reqs[i].slot)
    BY <1>1 DEF Unrequested
  <2>3. IsAskedBy(reqs[i], jobs[reqs[i].tab][reqs[i].slot])
    BY <1>1 DEF RequestsFit
  <2> QED
    BY <2>1, <2>2, <2>3
<1> QED
  BY <1>1 DEF RequestsFit

\* A job that does not wait for an upgrade has no request in the queue.
LEMMA NotAsking ==
  ASSUME NEW reqs, NEW jobs, RequestsFit(reqs, jobs), NEW b \in Tabs, NEW s \in Slots,
         \/ jobs[b][s] = Idle \/ ~jobs[b][s].asked \/ jobs[b][s].behind
         \/ jobs[b][s].todo[1].call # "ensure"
  PROVE  Unrequested(reqs, b, s)
BY DEF RequestsFit, Unrequested, IsAskedBy

\* A job without a request in the queue may change in any way.
LEMMA UnaskedChanges ==
  ASSUME NEW reqs, NEW jobs, NEW jobs2, RequestsFit(reqs, jobs), NEW b, NEW s,
         Unrequested(reqs, b, s),
         \A c \in Tabs, r \in Slots : ~(c = b /\ r = s) => jobs2[c][r] = jobs[c][r]
  PROVE  RequestsFit(reqs, jobs2)
<1>1. \A c \in Tabs, r \in Slots : ~Unrequested(reqs, c, r) => jobs2[c][r] = jobs[c][r]
  OBVIOUS
<1> QED
  BY <1>1, AskedStay

\* A request joins the queue.
LEMMA OneMore ==
  ASSUME NEW reqs, NEW jobs, RequestsFit(reqs, jobs), NEW q \in RequestSet,
         q.upgrade => q.tables # {},
         q.tables # {} => IsAskedBy(q, jobs[q.tab][q.slot])
                          /\ Unrequested(reqs, q.tab, q.slot)
  PROVE  RequestsFit(Append(reqs, q), jobs)
<1> DEFINE new == Append(reqs, q)
           n == Len(reqs)
<1>1. reqs \in Seq(RequestSet)
  BY DEF RequestsFit
<1>2. /\ n \in Nat /\ DOMAIN reqs = 1..n /\ new \in Seq(RequestSet) /\ Len(new) = n + 1
      /\ DOMAIN new = 1..(n + 1) /\ \A i \in 1..n : new[i] = reqs[i]
      /\ new[n + 1] = q
  BY <1>1
<1> HIDE DEF new, n
<1>3. \A i \in DOMAIN new :
        (i \in DOMAIN reqs /\ new[i] = reqs[i]) \/ (i = n + 1 /\ new[i] = q)
  BY <1>2
<1>4. \A i \in DOMAIN new :
        /\ new[i].upgrade => new[i].tables # {}
        /\ new[i].tables # {} => IsAskedBy(new[i], jobs[new[i].tab][new[i].slot])
  BY <1>3 DEF RequestsFit
<1>5. \A i, k \in DOMAIN new :
        /\ new[i].tables # {} /\ new[k].tables # {}
        /\ new[i].tab = new[k].tab /\ new[i].slot = new[k].slot
        => i = k
  BY <1>3 DEF RequestsFit, Unrequested
<1>6. RequestsFit(new, jobs)
  BY <1>2, <1>4, <1>5 DEF RequestsFit
<1> QED
  BY <1>6 DEF new

\* Some requests leave the queue, and the others stay in their order.
LEMMA SomeStay ==
  ASSUME NEW reqs, NEW jobs, RequestsFit(reqs, jobs), NEW n \in Nat,
         NEW place \in [1..n -> DOMAIN reqs],
         \A i, k \in 1..n : place[i] = place[k] => i = k
  PROVE  RequestsFit([i \in 1..n |-> reqs[place[i]]], jobs)
<1> DEFINE new == [i \in 1..n |-> reqs[place[i]]]
<1>1. \A i \in 1..n : reqs[place[i]] \in RequestSet /\ place[i] \in DOMAIN reqs
  BY RequestTypes DEF RequestsFit
<1>2. new \in Seq(RequestSet) /\ DOMAIN new = 1..n /\ \A i \in 1..n : new[i] = reqs[place[i]]
  BY <1>1
<1> HIDE DEF new
<1>3. \A i \in DOMAIN new : place[i] \in DOMAIN reqs /\ new[i] = reqs[place[i]] /\ i \in 1..n
  BY <1>1, <1>2
<1>4. \A i \in DOMAIN new :
        /\ new[i].upgrade => new[i].tables # {}
        /\ new[i].tables # {} => IsAskedBy(new[i], jobs[new[i].tab][new[i].slot])
  BY <1>3 DEF RequestsFit
<1>5. \A i, k \in DOMAIN new :
        /\ new[i].tables # {} /\ new[k].tables # {}
        /\ new[i].tab = new[k].tab /\ new[i].slot = new[k].slot
        => i = k
  <2> SUFFICES ASSUME NEW i \in DOMAIN new, NEW k \in DOMAIN new,
                      new[i].tables # {}, new[k].tables # {},
                      new[i].tab = new[k].tab, new[i].slot = new[k].slot
               PROVE  i = k
    OBVIOUS
  <2>1. /\ place[i] \in DOMAIN reqs /\ place[k] \in DOMAIN reqs
        /\ new[i] = reqs[place[i]] /\ new[k] = reqs[place[k]]
        /\ i \in 1..n /\ k \in 1..n
    BY <1>3
  <2>2. place[i] = place[k]
    BY <2>1 DEF RequestsFit
  <2> QED
    BY <2>1, <2>2
<1>6. RequestsFit(new, jobs)
  BY <1>2, <1>4, <1>5 DEF RequestsFit
<1> QED
  BY <1>6 DEF new

\* The first request is served: its job has no other in the queue.
LEMMA FirstLeaves ==
  ASSUME NEW reqs, NEW jobs, RequestsFit(reqs, jobs), reqs # <<>>
  PROVE  /\ RequestsFit(Tail(reqs), jobs) /\ Head(reqs) \in RequestSet
         /\ Head(reqs).upgrade => Head(reqs).tables # {}
         /\ Head(reqs).tables # {} =>
              /\ Unrequested(Tail(reqs), Head(reqs).tab, Head(reqs).slot)
              /\ IsAskedBy(Head(reqs), jobs[Head(reqs).tab][Head(reqs).slot])
<1> DEFINE n == Len(reqs) - 1
           place == [i \in 1..n |-> i + 1]
<1>1. reqs \in Seq(RequestSet)
  BY DEF RequestsFit
<1>2. /\ n \in Nat /\ DOMAIN reqs = 1..(n + 1) /\ Head(reqs) = reqs[1]
      /\ 1 \in DOMAIN reqs
  BY <1>1
<1>3. /\ Tail(reqs) \in Seq(RequestSet) /\ Len(Tail(reqs)) = n /\ DOMAIN Tail(reqs) = 1..n
      /\ \A i \in 1..n : Tail(reqs)[i] = reqs[i + 1]
  BY <1>1, <1>2
<1>4. /\ place \in [1..n -> DOMAIN reqs] /\ \A i \in 1..n : place[i] = i + 1
      /\ \A i, k \in 1..n : place[i] = place[k] => i = k
  BY <1>2
<1>5. [i \in 1..n |-> reqs[place[i]]] = Tail(reqs)
  <2>1. \A i \in 1..n : reqs[place[i]] = Tail(reqs)[i]
    BY <1>3, <1>4
  <2>2. [i \in 1..n |-> Tail(reqs)[i]] = Tail(reqs)
    <3>1. Tail(reqs) \in [1..n -> RequestSet]
      BY <1>3, LenProperties
    <3> QED
      BY <3>1
  <2> QED
    BY <2>1, <2>2
<1> HIDE DEF n, place
<1>6. RequestsFit(Tail(reqs), jobs)
  <2>1. n \in Nat /\ place \in [1..n -> DOMAIN reqs]
    BY <1>2, <1>4
  <2>2. \A i, k \in 1..n : place[i] = place[k] => i = k
    BY <1>4
  <2>3. RequestsFit([i \in 1..n |-> reqs[place[i]]], jobs)
    BY <2>1, <2>2, SomeStay
  <2> QED
    BY <1>5, <2>3
<1>7. /\ reqs[1] \in RequestSet
      /\ reqs[1].upgrade => reqs[1].tables # {}
      /\ reqs[1].tables # {} => IsAskedBy(reqs[1], jobs[reqs[1].tab][reqs[1].slot])
  BY <1>1, <1>2, RequestTypes DEF RequestsFit
<1>8. ASSUME reqs[1].tables # {} PROVE Unrequested(Tail(reqs), reqs[1].tab, reqs[1].slot)
  <2>1. \A i \in 1..n : i + 1 \in DOMAIN reqs /\ i + 1 # 1
    BY <1>2
  <2> QED
    BY <1>2, <1>3, <1>8, <2>1 DEF RequestsFit, Unrequested
<1> QED
  BY <1>2, <1>6, <1>7, <1>8

\* An upgrade leaves the other requests to open what it makes.
LEMMA OvertakenFit ==
  ASSUME NEW reqs, NEW jobs, RequestsFit(reqs, jobs)
  PROVE  /\ RequestsFit(Overtaken(reqs), jobs)
         /\ \A b \in Tabs, s \in Slots :
              Unrequested(reqs, b, s) => Unrequested(Overtaken(reqs), b, s)
<1> DEFINE new == Overtaken(reqs)
<1>1. reqs \in Seq(RequestSet)
  BY DEF RequestsFit
<1>2. /\ Len(reqs) \in Nat /\ DOMAIN reqs = 1..Len(reqs) /\ DOMAIN new = DOMAIN reqs
      /\ \A i \in DOMAIN reqs : new[i] = [reqs[i] EXCEPT !.upgrade = FALSE]
  BY <1>1 DEF Overtaken
<1>3. \A i \in DOMAIN reqs : reqs[i] \in RequestSet
  BY <1>1, RequestTypes
<1>4. \A i \in DOMAIN reqs :
        /\ new[i] \in RequestSet /\ new[i].tables = reqs[i].tables /\ ~new[i].upgrade
        /\ new[i].tab = reqs[i].tab /\ new[i].slot = reqs[i].slot
  BY <1>2, <1>3 DEF RequestSet
<1>5. new \in Seq(RequestSet)
  <2>1. new = [i \in 1..Len(reqs) |-> [reqs[i] EXCEPT !.upgrade = FALSE]]
    BY <1>2 DEF Overtaken
  <2>2. \A i \in 1..Len(reqs) : [reqs[i] EXCEPT !.upgrade = FALSE] \in RequestSet
    BY <1>2, <1>4
  <2> QED
    BY <1>2, <2>1, <2>2
<1> HIDE DEF new
<1>6. \A j : \A i \in DOMAIN reqs : IsAskedBy(reqs[i], j) => IsAskedBy(new[i], j)
  BY <1>4 DEF IsAskedBy
<1>7. RequestsFit(new, jobs)
  BY <1>2, <1>4, <1>5, <1>6 DEF RequestsFit
<1>8. \A b \in Tabs, s \in Slots : Unrequested(reqs, b, s) => Unrequested(new, b, s)
  BY <1>2, <1>4 DEF Unrequested
<1> QED
  BY <1>7, <1>8 DEF new

-----------------------------------------------------------------------------
(* What the operations do to the jobs                                      *)

\* Two states of a job which has the same calls before it.
Alike(j, k) ==
  /\ j = Idle <=> k = Idle
  /\ j # Idle => j.todo = k.todo /\ j.tables = k.tables /\ j.seen = k.seen /\ j.kind = k.kind

\* k is the job j when its first call is done.
AtNextCall(k, j, seen) ==
  IF Tail(j.todo) = <<>> THEN k = Idle
  ELSE k # Idle /\ k.todo = Tail(j.todo) /\ k.tables = j.tables /\ k.seen = seen

\* The job has the same calls before it, or has done its ensure.
Onward(k, j) ==
  Alike(k, j) \/ (j # Idle /\ j.todo[1].call = "ensure" /\ AtNextCall(k, j, j.seen))

\* A new operation or fetch fits.
LEMMA NewFits ==
  ASSUME broken \in [Tabs -> BOOLEAN], NEW b \in Tabs, NEW s \in Slots, NEW made,
         NEW kind, NEW ts \in SUBSET Tables,
         \/ /\ s = "op" /\ kind \in OpKinds \ {"tell"}
            /\ kind \in {"put", "delete"} => \E t \in Tables : ts = {t}
         \/ s = "fetch" /\ kind = "fetch" /\ ts = {Watched}
  PROVE  /\ JobFits(NewJob(b, s, kind, ts), s, made)
         /\ NewJob(b, s, kind, ts).todo = Calls(kind, ts)
         /\ ~NewJob(b, s, kind, ts).asked
<1> DEFINE new == NewJob(b, s, kind, ts)
           calls == Calls(kind, ts)
           behind == broken[b] \/ Ensuring(b, Other(s))
<1>1. behind \in BOOLEAN
  BY DEF Ensuring
<1>2. /\ calls \in Seq(CallSet) /\ calls # <<>>
      /\ s = "op" => \A n \in DOMAIN calls : calls[n].call \in {"ensure", "read", "write"}
      /\ s = "fetch" => calls \in FetchTodos
      /\ kind \notin {"clear", "wipe"} => ts \subseteq Coming(calls)
  <2>1. CASE s = "op" /\ kind \in OpKinds \ {"tell"}
    BY <2>1, CallsFit
  <2>2. CASE s = "fetch" /\ kind = "fetch" /\ ts = {Watched}
    <3>1. calls = <<Ensure(Watched), Call("read"), Call("deliver")>>
      BY <2>2 DEF Calls
    <3>2. Watched \in Tables
      BY StoreAssumption
    <3> DEFINE e == Ensure(Watched)
               r == Call("read")
               d == Call("deliver")
    <3>3. e \in CallSet /\ e.call = "ensure" /\ r \in CallSet /\ d \in CallSet
      BY <3>2, CallTypes
    <3>4. calls = <<e, r, d>>
      BY <3>1
    <3> HIDE DEF e, r, d, calls
    <3>5. calls \in Seq(CallSet) /\ calls # <<>> /\ 1 \in DOMAIN calls /\ calls[1] = e
      BY <3>3, <3>4
    <3>6. Watched \in Coming(calls)
      <4>1. calls[1] = Ensure(Watched) /\ \A m \in 1..1 : calls[m].call = "ensure"
        BY <3>3, <3>5 DEF e
      <4> QED
        BY <3>2, <3>5, <4>1 DEF Coming
    <3>7. calls \in FetchTodos
      BY <3>1 DEF FetchTodos
    <3> QED
      BY <2>2, <3>5, <3>6, <3>7
  <2> QED
    BY <2>1, <2>2
<1> HIDE DEF behind, calls
<1>3. new = [kind |-> kind, tables |-> ts, todo |-> calls, asked |-> FALSE, seen |-> {},
             stale |-> FALSE, overtaken |-> FALSE, behind |-> behind]
  BY DEF NewJob, calls, behind
<1> HIDE DEF new
<1>4. kind \in OpKinds \cup {"fetch"} /\ kind # "tell"
  BY DEF OpKinds
<1>5. new \in JobSet
  BY <1>1, <1>2, <1>3, <1>4 DEF JobSet
<1>6. s = "op" => kind \in OpKinds
  BY DEF Slots
<1>7. s = "fetch" => kind = "fetch" /\ ts = {Watched}
  BY DEF Slots
<1>8. /\ new.kind = kind /\ new.tables = ts /\ new.todo = calls /\ ~new.stale /\ ~new.asked
      /\ new.todo # <<>>
  BY <1>2, <1>3
<1>9. s = "op" => \A n \in DOMAIN new.todo : /\ new.todo[n].call # "deliver"
                                             /\ new.todo[n].call = "tell" <=> new.kind = "tell"
  BY <1>2, <1>4, <1>8
<1>10. s = "fetch" => new.todo \in FetchTodos
  BY <1>2, <1>8
<1>11. new.kind \notin {"clear", "wipe", "tell"} /\ ~new.overtaken
         => new.tables \subseteq made \cup Coming(new.todo)
  BY <1>2, <1>8
<1>12. JobFits(new, s, made)
  BY <1>4, <1>5, <1>6, <1>7, <1>8, <1>9, <1>10, <1>11 DEF JobFits
<1> QED
  BY <1>8, <1>12 DEF new, calls

\* A job goes on to its next call, and what waited for its ensure may go on too.
LEMMA AdvancedIs ==
  ASSUME broken \in [Tabs -> BOOLEAN], NEW jobs, NEW made, NEW made2, JobsFit(jobs, made),
         made \subseteq made2, NEW b \in Tabs, NEW s \in Slots, jobs[b][s] # Idle,
         \A r \in Slots : jobs[b][r] = Idle <=> job[b][r] = Idle,
         NEW seen \in SUBSET Tables,
         jobs[b][s].todo[1].call \in {"ensure", "read"},
         jobs[b][s].todo[1].call = "ensure" =>
           jobs[b][s].overtaken \/ jobs[b][s].todo[1].table \in made2
  PROVE  /\ JobsFit(Advanced(jobs, b, s, seen), made2)
         /\ \A c \in Tabs, r \in Slots : ~(c = b /\ r = s) =>
              /\ Alike(Advanced(jobs, b, s, seen)[c][r], jobs[c][r])
              /\ \A q \in RequestSet :
                   IsAskedBy(q, jobs[c][r]) => IsAskedBy(q, Advanced(jobs, b, s, seen)[c][r])
         /\ AtNextCall(Advanced(jobs, b, s, seen)[b][s], jobs[b][s], seen)
<1> DEFINE o == Other(s)
           rest == Tail(jobs[b][s].todo)
           behind == broken[b] \/ Ensuring(b, o)
           next == [jobs[b][s] EXCEPT !.todo = rest, !.asked = FALSE, !.seen = seen,
                                      !.behind = behind]
           freed == [jobs[b][o] EXCEPT !.behind = FALSE]
           other == IF Active(b, o) /\ Ensuring(b, s) THEN freed ELSE jobs[b][o]
           mine == IF rest = <<>> THEN Idle ELSE next
           new == Advanced(jobs, b, s, seen)
<1>1. behind \in BOOLEAN
  BY DEF Ensuring
<1>2. o \in Slots /\ o # s /\ \A r \in Slots : r = s \/ r = o
  BY TwoSlots
<1>3. new = [jobs EXCEPT ![b] = [r \in Slots |-> IF r # s THEN other ELSE mine]]
  BY DEF Advanced
<1>4. JobFits(jobs[b][s], s, made) /\ jobs[b][s] \in JobSet
  BY JobFacts
<1>5. mine = Idle \/ JobFits(mine, s, made2)
  BY <1>1, <1>4, PopFits
<1>6. AtNextCall(mine, jobs[b][s], seen)
  <2> SUFFICES ASSUME rest # <<>>
               PROVE  /\ next # Idle /\ next.todo = rest /\ next.tables = jobs[b][s].tables
                      /\ next.seen = seen
    BY DEF AtNextCall
  <2>1. next.todo = rest /\ next.tables = jobs[b][s].tables /\ next.seen = seen
    BY <1>4 DEF JobSet
  <2>2. JobFits(next, s, made2)
    BY <1>1, <1>4, PopFits
  <2>3. next \in JobSet
    BY <2>2 DEF JobFits
  <2> QED
    BY <2>1, <2>3, JobsAreNotIdle
<1>7. ASSUME jobs[b][o] # Idle
      PROVE  /\ JobFits(freed, o, made2) /\ freed # Idle
             /\ Alike(freed, jobs[b][o])
             /\ \A q \in RequestSet : IsAskedBy(q, jobs[b][o]) => IsAskedBy(q, freed)
  <2>1. JobFits(jobs[b][o], o, made2)
    BY <1>2, <1>7, FitsOn DEF JobsFit
  <2>2. jobs[b][o] \in JobSet
    BY <2>1 DEF JobFits
  <2>3. /\ freed \in JobSet /\ freed.kind = jobs[b][o].kind
        /\ freed.tables = jobs[b][o].tables /\ freed.todo = jobs[b][o].todo
        /\ freed.asked = jobs[b][o].asked /\ freed.seen = jobs[b][o].seen
        /\ freed.stale = jobs[b][o].stale /\ freed.overtaken = jobs[b][o].overtaken
        /\ ~freed.behind
    BY <2>2 DEF JobSet
  <2> HIDE DEF freed
  <2>4. JobFits(freed, o, made2)
    BY <2>1, <2>3 DEF JobFits
  <2>5. freed # Idle
    BY <2>3, JobsAreNotIdle
  <2> QED
    BY <1>7, <2>3, <2>4, <2>5 DEF Alike, IsAskedBy
<1>8. /\ other = Idle \/ JobFits(other, o, made2)
      /\ Alike(other, jobs[b][o])
      /\ \A q \in RequestSet : IsAskedBy(q, jobs[b][o]) => IsAskedBy(q, other)
  <2>1. CASE Active(b, o) /\ Ensuring(b, s)
    <3>1. jobs[b][o] # Idle
      BY <1>2, <2>1 DEF Active
    <3> QED
      BY <1>7, <2>1, <3>1
  <2>2. CASE ~(Active(b, o) /\ Ensuring(b, s))
    <3>1. other = jobs[b][o]
      BY <2>2
    <3>2. jobs[b][o] # Idle => JobFits(jobs[b][o], o, made2)
      BY <1>2, FitsOn DEF JobsFit
    <3> QED
      BY <3>1, <3>2 DEF Alike
  <2> QED
    BY <2>1, <2>2
<1> HIDE DEF mine, other, new, o
<1>9. /\ new[b][s] = mine /\ new[b][o] = other
      /\ \A c \in Tabs, r \in Slots : c # b => new[c][r] = jobs[c][r]
      /\ new \in [Tabs -> [Slots -> JobSet \cup {Idle}]]
  <2>1. jobs \in [Tabs -> [Slots -> JobSet \cup {Idle}]]
    BY DEF JobsFit
  <2>2. mine \in JobSet \cup {Idle} /\ other \in JobSet \cup {Idle}
    BY <1>5, <1>8 DEF JobFits
  <2> QED
    BY <1>2, <1>3, <2>1, <2>2
<1>10. JobsFit(new, made2)
  <2>1. ASSUME NEW c \in Tabs, NEW r \in Slots, new[c][r] # Idle
        PROVE  JobFits(new[c][r], r, made2)
    <3>1. CASE c # b
      BY <1>9, <2>1, <3>1, FitsOn DEF JobsFit
    <3>2. CASE c = b
      BY <1>2, <1>5, <1>8, <1>9, <2>1, <3>2
    <3> QED
      BY <3>1, <3>2
  <2> QED
    BY <1>9, <2>1 DEF JobsFit
<1>11. ASSUME NEW c \in Tabs, NEW r \in Slots, ~(c = b /\ r = s)
       PROVE  /\ Alike(new[c][r], jobs[c][r])
              /\ \A q \in RequestSet : IsAskedBy(q, jobs[c][r]) => IsAskedBy(q, new[c][r])
  <2>1. CASE c # b
    BY <1>9, <2>1 DEF Alike
  <2>2. CASE c = b
    <3>1. r = o
      BY <1>2, <1>11, <2>2
    <3> QED
      BY <1>8, <1>9, <2>2, <3>1
  <2> QED
    BY <2>1, <2>2
<1> QED
  BY <1>6, <1>9, <1>10, <1>11 DEF new

\* A connection closes: jobs between two transactions become stale.
LEMMA CutIs ==
  ASSUME NEW jobs, NEW made, JobsFit(jobs, made), NEW b \in Tabs,
         JobsFit(job, made), \A s \in Slots : Alike(jobs[b][s], job[b][s])
  PROVE  /\ JobsFit(Cut(jobs, b), made)
         /\ \A c \in Tabs, r \in Slots :
              /\ Alike(Cut(jobs, b)[c][r], jobs[c][r])
              /\ \A q \in RequestSet :
                   IsAskedBy(q, jobs[c][r]) => IsAskedBy(q, Cut(jobs, b)[c][r])
<1> DEFINE cut(s) == Active(b, s) /\ OneConnection(jobs[b][s].kind) /\ Now(b, s).call = "write"
           stale(s) == [jobs[b][s] EXCEPT !.stale = TRUE]
           new == Cut(jobs, b)
<1>1. new = [jobs EXCEPT ![b] = [s \in Slots |-> IF cut(s) THEN stale(s) ELSE jobs[b][s]]]
  BY DEF Cut
<1>2. ASSUME NEW s \in Slots, cut(s)
      PROVE  /\ JobFits(stale(s), s, made) /\ stale(s) # Idle /\ Alike(stale(s), jobs[b][s])
             /\ \A q \in RequestSet : IsAskedBy(q, jobs[b][s]) => IsAskedBy(q, stale(s))
  <2>1. job[b][s] # Idle /\ jobs[b][s] # Idle /\ jobs[b][s].todo = job[b][s].todo
    BY <1>2 DEF Active, Alike
  <2>2. JobFits(jobs[b][s], s, made) /\ jobs[b][s] \in JobSet
    BY <2>1, JobFacts
  <2>3. Head(job[b][s].todo) = job[b][s].todo[1]
    BY <2>1, JobFacts
  <2>4. jobs[b][s].todo[1].call = "write"
    BY <1>2, <2>1, <2>3 DEF Now
  <2> DEFINE old == jobs[b][s]
             k == stale(s)
  <2>5. /\ k \in JobSet /\ k.kind = old.kind /\ k.tables = old.tables /\ k.todo = old.todo
        /\ k.asked = old.asked /\ k.seen = old.seen /\ k.overtaken = old.overtaken
        /\ k.behind = old.behind
    BY <2>2 DEF JobSet
  <2> HIDE DEF stale
  <2>6. JobFits(k, s, made)
    BY <2>2, <2>4, <2>5 DEF JobFits
  <2>7. k # Idle
    BY <2>5, JobsAreNotIdle
  <2> QED
    BY <2>1, <2>5, <2>6, <2>7 DEF Alike, IsAskedBy
<1>3. /\ \A c \in Tabs, r \in Slots : c # b => new[c][r] = jobs[c][r]
      /\ \A s \in Slots : new[b][s] = IF cut(s) THEN stale(s) ELSE jobs[b][s]
      /\ DOMAIN new = Tabs /\ \A c \in Tabs : new[c] = [s \in Slots |-> new[c][s]]
  BY <1>1 DEF JobsFit
<1> HIDE DEF cut, stale, new
<1>4. ASSUME NEW c \in Tabs, NEW r \in Slots
      PROVE  /\ Alike(new[c][r], jobs[c][r])
             /\ new[c][r] # Idle => JobFits(new[c][r], r, made)
             /\ \A q \in RequestSet : IsAskedBy(q, jobs[c][r]) => IsAskedBy(q, new[c][r])
  <2>1. CASE c = b /\ cut(r)
    BY <1>2, <1>3, <2>1
  <2>2. CASE ~(c = b /\ cut(r))
    <3>1. new[c][r] = jobs[c][r]
      BY <1>3, <2>2
    <3> QED
      BY <3>1 DEF Alike, JobsFit
  <2> QED
    BY <2>1, <2>2
<1>5. new \in [Tabs -> [Slots -> JobSet \cup {Idle}]]
  <2>1. \A c \in Tabs, r \in Slots : new[c][r] \in JobSet \cup {Idle}
    BY <1>4 DEF JobFits
  <2>2. \A c \in Tabs : new[c] \in [Slots -> JobSet \cup {Idle}]
    <3> SUFFICES ASSUME NEW c \in Tabs PROVE new[c] \in [Slots -> JobSet \cup {Idle}]
      OBVIOUS
    <3>1. new[c] = [s \in Slots |-> new[c][s]]
      BY <1>3
    <3>2. [s \in Slots |-> new[c][s]] \in [Slots -> JobSet \cup {Idle}]
      BY <2>1
    <3> QED
      BY <3>1, <3>2
  <2>3. new = [c \in Tabs |-> new[c]]
    BY <1>1, <1>3 DEF new, JobsFit
  <2> QED
    BY <2>2, <2>3
<1>6. JobsFit(new, made)
  BY <1>4, <1>5 DEF JobsFit
<1> QED
  BY <1>4, <1>6 DEF new

-----------------------------------------------------------------------------
(* Every step keeps the invariant                                          *)

\* One job that has no request in the queue is replaced.
LEMMA ReplacedJob ==
  ASSUME NEW jobs, NEW reqs, NEW made, JobsFit(jobs, made), RequestsFit(reqs, jobs),
         NEW b \in Tabs, NEW s \in Slots, Unrequested(reqs, b, s),
         NEW j, j = Idle \/ JobFits(j, s, made)
  PROVE  /\ JobsFit([jobs EXCEPT ![b][s] = j], made)
         /\ RequestsFit(reqs, [jobs EXCEPT ![b][s] = j])
<1> DEFINE new == [jobs EXCEPT ![b][s] = j]
<1>1. /\ JobsFit(new, made)
      /\ \A c \in Tabs, r \in Slots : ~(c = b /\ r = s) => new[c][r] = jobs[c][r]
  BY PutJob
<1> HIDE DEF new
<1>2. RequestsFit(reqs, new)
  BY <1>1, UnaskedChanges
<1> QED
  BY <1>1, <1>2 DEF new

LEMMA StartKeeps ==
  ASSUME StoreInv, NEW b \in Tabs, Start(b)
  PROVE  StoreInv'
<1> USE DEF StoreInv, RestTyped
<1>1. PICK kind \in Kinds :
        \E ts \in CASE kind \in {"put", "delete"} -> {{t} : t \in Tables}
                    [] kind = "remote" -> (SUBSET Tables) \ {{}}
                    [] OTHER -> {Tables} :
          job' = [job EXCEPT ![b]["op"] = NewJob(b, "op", kind, ts)]
  BY DEF Start
<1>2. PICK ts \in SUBSET Tables :
        /\ job' = [job EXCEPT ![b]["op"] = NewJob(b, "op", kind, ts)]
        /\ kind \in {"put", "delete"} => \E t \in Tables : ts = {t}
  <2>1. CASE kind \in {"put", "delete"}
    BY <1>1, <2>1
  <2>2. CASE kind = "remote"
    <3>1. \E ts \in (SUBSET Tables) \ {{}} :
            job' = [job EXCEPT ![b]["op"] = NewJob(b, "op", kind, ts)]
      BY <1>1, <2>2
    <3> QED
      BY <2>2, <3>1
  <2>3. CASE kind \notin {"put", "delete", "remote"}
    BY <1>1, <2>3
  <2> QED
    BY <2>1, <2>2, <2>3
<1>3. kind \in OpKinds \ {"tell"} /\ "op" \in Slots
  BY StoreAssumption DEF OpKinds, Slots
<1>4. JobFits(NewJob(b, "op", kind, ts), "op", stores)
  BY <1>2, <1>3, NewFits
<1>5. job[b]["op"] = Idle
  BY DEF Start, Active
<1>6. Unrequested(requests, b, "op")
  BY <1>3, <1>5, NotAsking
<1>7. JobsFit(job', stores) /\ RequestsFit(requests, job')
  BY <1>2, <1>3, <1>4, <1>6, ReplacedJob
<1> QED
  BY <1>7 DEF Start, tabVars

LEMMA FetchKeeps ==
  ASSUME StoreInv, NEW b \in Tabs, Fetch(b)
  PROVE  StoreInv'
<1> USE DEF StoreInv, RestTyped
<1>1. "fetch" \in Slots /\ {Watched} \in SUBSET Tables
  BY StoreAssumption DEF Slots
<1>2. JobFits(NewJob(b, "fetch", "fetch", {Watched}), "fetch", stores)
  BY <1>1, NewFits
<1>3. Unrequested(requests, b, "fetch")
  BY <1>1, NotAsking DEF Fetch, Active
<1>4. job' = [job EXCEPT ![b]["fetch"] = NewJob(b, "fetch", "fetch", {Watched})]
  BY DEF Fetch
<1>5. JobsFit(job', stores) /\ RequestsFit(requests, job')
  BY <1>1, <1>2, <1>3, <1>4, ReplacedJob
<1> QED
  BY <1>5 DEF Fetch

LEMMA OpenKeeps ==
  ASSUME StoreInv, NEW b \in Tabs, NEW s \in Slots, OpenDatabase(b, s)
  PROVE  StoreInv'
<1> USE DEF StoreInv, RestTyped
<1> DEFINE q == Request(b, s, FALSE, {})
<1>1. q \in RequestSet /\ ~q.upgrade /\ q.tables = {}
  BY DEF Request, RequestSet
<1>2. requests' = Append(requests, q)
  BY DEF OpenDatabase
<1> HIDE DEF q
<1>3. RequestsFit(requests', job)
  BY <1>1, <1>2, OneMore
<1> QED
  BY <1>3 DEF OpenDatabase

LEMMA EnsureDoneKeeps ==
  ASSUME StoreInv, NEW b \in Tabs, NEW s \in Slots, EnsureDone(b, s)
  PROVE  StoreInv' /\ \A c \in Tabs, r \in Slots : Onward(job'[c][r], job[c][r])
<1> USE DEF StoreInv, RestTyped
<1>1. job[b][s] # Idle /\ ~job[b][s].asked
  BY DEF EnsureDone, Waits, Active
<1>2. /\ job[b][s] \in JobSet /\ Head(job[b][s].todo) = job[b][s].todo[1]
      /\ job[b][s].seen \in SUBSET Tables
  BY <1>1, JobFacts DEF JobSet
<1>3. job[b][s].todo[1].call = "ensure" /\ job[b][s].todo[1].table \in stores
  BY <1>2 DEF EnsureDone, Ensuring, Now, Needs
<1>4. Unrequested(requests, b, s)
  BY <1>1, NotAsking
<1> DEFINE new == Advanced(job, b, s, job[b][s].seen)
<1>5. /\ JobsFit(new, stores)
      /\ \A c \in Tabs, r \in Slots : ~(c = b /\ r = s) =>
           /\ Alike(new[c][r], job[c][r])
           /\ \A q \in RequestSet : IsAskedBy(q, job[c][r]) => IsAskedBy(q, new[c][r])
      /\ AtNextCall(new[b][s], job[b][s], job[b][s].seen)
  <2> DEFINE seen == job[b][s].seen
  <2>1. seen \in SUBSET Tables
    BY <1>2
  <2> HIDE DEF seen
  <2>2. \A r \in Slots : job[b][r] = Idle <=> job[b][r] = Idle
    OBVIOUS
  <2>3. /\ JobsFit(Advanced(job, b, s, seen), stores)
        /\ \A c \in Tabs, r \in Slots : ~(c = b /\ r = s) =>
             /\ Alike(Advanced(job, b, s, seen)[c][r], job[c][r])
             /\ \A q \in RequestSet :
                  IsAskedBy(q, job[c][r]) => IsAskedBy(q, Advanced(job, b, s, seen)[c][r])
        /\ AtNextCall(Advanced(job, b, s, seen)[b][s], job[b][s], seen)
    BY <1>1, <1>3, <2>1, <2>2, AdvancedIs
  <2> QED
    BY <2>3 DEF seen
<1>6. job' = new
  BY DEF EnsureDone
<1> HIDE DEF new
<1>7. RequestsFit(requests, new)
  BY <1>4, <1>5, AskedStay
<1>8. \A c \in Tabs, r \in Slots : Onward(new[c][r], job[c][r])
  BY <1>1, <1>3, <1>5 DEF Onward
<1> QED
  BY <1>5, <1>6, <1>7, <1>8 DEF EnsureDone, tabVars

LEMMA EnsureUpgradesKeeps ==
  ASSUME StoreInv, NEW b \in Tabs, NEW s \in Slots, EnsureUpgrades(b, s)
  PROVE  StoreInv' /\ \A c \in Tabs, r \in Slots : Onward(job'[c][r], job[c][r])
<1> USE DEF StoreInv, RestTyped
<1>1. job[b][s] # Idle /\ ~job[b][s].asked /\ ~job[b][s].behind
  BY DEF EnsureUpgrades, Waits, Active
<1>2. /\ job[b][s] \in JobSet /\ Head(job[b][s].todo) = job[b][s].todo[1]
      /\ job[b][s].todo[1] \in CallSet /\ JobFits(job[b][s], s, stores)
  BY <1>1, JobFacts
<1>3. job[b][s].todo[1].call = "ensure"
  BY <1>2 DEF EnsureUpgrades, Ensuring, Now
<1>4. Unrequested(requests, b, s)
  BY <1>1, NotAsking
<1> DEFINE asked == [job[b][s] EXCEPT !.asked = TRUE]
           jobs == [job EXCEPT ![b][s] = asked]
           new == Cut(jobs, b)
           table == job[b][s].todo[1].table
           q == Request(b, s, TRUE, {table})
<1>5. /\ asked \in JobSet /\ asked.kind = job[b][s].kind /\ asked.tables = job[b][s].tables
      /\ asked.todo = job[b][s].todo /\ asked.seen = job[b][s].seen
      /\ asked.stale = job[b][s].stale /\ asked.overtaken = job[b][s].overtaken
      /\ asked.behind = job[b][s].behind /\ asked.asked
  BY <1>2 DEF JobSet
<1>6. job' = new /\ requests' = Append(requests, q)
  BY <1>2 DEF EnsureUpgrades, Now
<1>7. table \in Tables
  BY <1>2, <1>3 DEF CallSet
<1>8. q \in RequestSet /\ q.upgrade /\ q.tables = {table} /\ q.tab = b /\ q.slot = s
  BY <1>7 DEF Request, RequestSet
<1> HIDE DEF asked
<1>9. JobFits(asked, s, stores) /\ asked # Idle
  BY <1>2, <1>5, JobsAreNotIdle DEF JobFits
<1>10. /\ JobsFit(jobs, stores) /\ RequestsFit(requests, jobs)
       /\ jobs[b][s] = asked
       /\ \A c \in Tabs, r \in Slots : ~(c = b /\ r = s) => jobs[c][r] = job[c][r]
  <2>1. JobsFit(jobs, stores) /\ RequestsFit(requests, jobs)
    BY <1>4, <1>9, ReplacedJob
  <2>2. /\ jobs[b][s] = asked
        /\ \A c \in Tabs, r \in Slots : ~(c = b /\ r = s) => jobs[c][r] = job[c][r]
    BY DEF JobsFit
  <2> QED
    BY <2>1, <2>2
<1> HIDE DEF jobs
<1>11. IsAskedBy(q, jobs[b][s])
  BY <1>1, <1>3, <1>5, <1>8, <1>9, <1>10 DEF IsAskedBy
<1> HIDE DEF q, table
<1>12. RequestsFit(requests', jobs)
  BY <1>4, <1>6, <1>8, <1>10, <1>11, OneMore
<1>13. \A r \in Slots : Alike(jobs[b][r], job[b][r])
  BY <1>1, <1>5, <1>9, <1>10 DEF Alike
<1>14. /\ JobsFit(new, stores)
       /\ \A c \in Tabs, r \in Slots :
            /\ Alike(new[c][r], jobs[c][r])
            /\ \A p \in RequestSet : IsAskedBy(p, jobs[c][r]) => IsAskedBy(p, new[c][r])
  BY <1>10, <1>13, CutIs
<1> HIDE DEF new
<1>15. RequestsFit(requests', new)
  BY <1>12, <1>14, AskedStay
<1>16. \A c \in Tabs, r \in Slots : Onward(new[c][r], job[c][r])
  <2>1. \A c \in Tabs, r \in Slots : Alike(jobs[c][r], job[c][r])
    BY <1>1, <1>5, <1>9, <1>10 DEF Alike
  <2> QED
    BY <1>14, <2>1 DEF Alike, Onward
<1> QED
  BY <1>6, <1>14, <1>15, <1>16 DEF EnsureUpgrades

LEMMA VersionChangeKeeps ==
  ASSUME StoreInv, NEW b \in Tabs, VersionChange(b)
  PROVE  StoreInv' /\ \A c \in Tabs, r \in Slots : Onward(job'[c][r], job[c][r])
<1> USE DEF StoreInv, RestTyped
<1> DEFINE new == Cut(job, b)
<1>1. \A r \in Slots : Alike(job[b][r], job[b][r])
  BY DEF Alike
<1>2. /\ JobsFit(new, stores)
      /\ \A c \in Tabs, r \in Slots :
           /\ Alike(new[c][r], job[c][r])
           /\ \A p \in RequestSet : IsAskedBy(p, job[c][r]) => IsAskedBy(p, new[c][r])
  BY <1>1, CutIs
<1>3. job' = new
  BY DEF VersionChange
<1> HIDE DEF new
<1>4. RequestsFit(requests, new)
  BY <1>2, AskedStay
<1>5. \A c \in Tabs, r \in Slots : Onward(new[c][r], job[c][r])
  BY <1>2 DEF Onward
<1> QED
  BY <1>2, <1>3, <1>4, <1>5 DEF VersionChange, Closed

\* What a request asks for is served: its job goes on, no other changes its calls.
LEMMA ServedIs ==
  ASSUME StoreInv, NEW q \in RequestSet, NEW made, stores \subseteq made,
         q.upgrade => q.tables \subseteq made,
         q.tables # {} => IsAskedBy(q, job[q.tab][q.slot])
  PROVE  /\ JobsFit(Served(q), made)
         /\ \A c \in Tabs, r \in Slots : q.tables = {} \/ ~(c = q.tab /\ r = q.slot) =>
              /\ Alike(Served(q)[c][r], job[c][r])
              /\ \A p \in RequestSet :
                   IsAskedBy(p, job[c][r]) => IsAskedBy(p, Served(q)[c][r])
         /\ q.tables # {} =>
              /\ job[q.tab][q.slot] # Idle /\ job[q.tab][q.slot].todo[1].call = "ensure"
              /\ AtNextCall(Served(q)[q.tab][q.slot], job[q.tab][q.slot],
                            job[q.tab][q.slot].seen)
<1> USE DEF StoreInv, RestTyped
<1>1. q.tab \in Tabs /\ q.slot \in Slots
  BY DEF RequestSet
<1>2. CASE q.tables = {}
  <2>1. Served(q) = job
    BY <1>2 DEF Served
  <2>2. JobsFit(job, made)
    BY JobsFitOn
  <2> QED
    BY <1>2, <2>1, <2>2 DEF Alike
<1>3. CASE q.tables # {}
  <2> DEFINE b == q.tab
             s == q.slot
             j == job[b][s]
             late == j.overtaken \/ ~(q.upgrade \/ q.tables \subseteq stores)
             late_j == [j EXCEPT !.overtaken = late]
             mark == [job EXCEPT ![b][s] = late_j]
             seen == j.seen
             new == Advanced(mark, b, s, seen)
  <2>1. j # Idle /\ j.asked /\ j.todo[1].call = "ensure" /\ q.tables = {j.todo[1].table}
    BY <1>3 DEF IsAskedBy
  <2>2. b \in Tabs /\ s \in Slots
    BY <1>1
  <2>3. Served(q) = new
    BY <1>3 DEF Served
  <2>4. JobFits(j, s, stores) /\ j \in JobSet
    BY <2>1, <2>2, JobFacts
  <2>5. late \in BOOLEAN /\ seen \in SUBSET Tables
    BY <2>4 DEF JobSet
  <2> HIDE DEF b, s, j
  <2>6. late => ~(q.upgrade \/ q.tables \subseteq stores) \/ j.overtaken
    OBVIOUS
  <2>7. q.upgrade => q.tables \subseteq made
    OBVIOUS
  <2>8. late \/ q.tables \subseteq made
    BY <2>7
  <2>9. ~late => ~j.overtaken
    OBVIOUS
  <2> HIDE DEF late, seen
  <2>10. /\ late_j \in JobSet /\ late_j.kind = j.kind /\ late_j.tables = j.tables
         /\ late_j.todo = j.todo /\ late_j.asked = j.asked /\ late_j.seen = j.seen
         /\ late_j.stale = j.stale /\ late_j.overtaken = late /\ late_j.behind = j.behind
    BY <2>4, <2>5 DEF JobSet
  <2> HIDE DEF late_j
  <2>11. JobFits(late_j, s, stores) /\ late_j # Idle
    BY <2>4, <2>9, <2>10, JobsAreNotIdle DEF JobFits
  <2>12. /\ JobsFit(mark, stores) /\ mark[b][s] = late_j
         /\ \A c \in Tabs, r \in Slots : ~(c = b /\ r = s) => mark[c][r] = job[c][r]
    <3>1. JobsFit(mark, stores)
      BY <2>2, <2>11, PutJob
    <3>2. /\ mark[b][s] = late_j
          /\ \A c \in Tabs, r \in Slots : ~(c = b /\ r = s) => mark[c][r] = job[c][r]
      BY <2>2 DEF JobsFit
    <3> QED
      BY <3>1, <3>2
  <2> HIDE DEF mark
  <2>13. \A r \in Slots : mark[b][r] = Idle <=> job[b][r] = Idle
    BY <2>1, <2>2, <2>11, <2>12 DEF j
  <2>14. /\ mark[b][s] # Idle /\ mark[b][s].todo[1].call = "ensure"
         /\ mark[b][s].overtaken \/ mark[b][s].todo[1].table \in made
    BY <2>1, <2>8, <2>10, <2>11, <2>12
  <2>15. /\ JobsFit(new, made)
         /\ \A c \in Tabs, r \in Slots : ~(c = b /\ r = s) =>
              /\ Alike(new[c][r], mark[c][r])
              /\ \A p \in RequestSet : IsAskedBy(p, mark[c][r]) => IsAskedBy(p, new[c][r])
         /\ AtNextCall(new[b][s], mark[b][s], seen)
    BY <2>2, <2>5, <2>12, <2>13, <2>14, AdvancedIs
  <2> HIDE DEF new
  <2>16. AtNextCall(new[b][s], j, seen)
    BY <2>10, <2>12, <2>15 DEF AtNextCall
  <2>17. \A c \in Tabs, r \in Slots : ~(c = b /\ r = s) =>
           /\ Alike(new[c][r], job[c][r])
           /\ \A p \in RequestSet : IsAskedBy(p, job[c][r]) => IsAskedBy(p, new[c][r])
    BY <2>12, <2>15
  <2> QED
    BY <1>3, <2>1, <2>3, <2>15, <2>16, <2>17 DEF b, s, j, seen
<1> QED
  BY <1>2, <1>3

LEMMA ServeKeeps ==
  ASSUME StoreInv, Serve
  PROVE  StoreInv' /\ \A c \in Tabs, r \in Slots : Onward(job'[c][r], job[c][r])
<1> USE DEF StoreInv, RestTyped
<1> DEFINE q == Head(requests)
           new == Served(q)
<1>1. requests # <<>>
  BY DEF Serve
<1>2. /\ RequestsFit(Tail(requests), job) /\ q \in RequestSet
      /\ q.upgrade => q.tables # {}
      /\ q.tables # {} => /\ Unrequested(Tail(requests), q.tab, q.slot)
                          /\ IsAskedBy(q, job[q.tab][q.slot])
  BY <1>1, FirstLeaves
<1>3. /\ job' = new /\ conn' = [conn EXCEPT ![q.tab] = "open"]
      /\ requests' = IF q.upgrade THEN Overtaken(Tail(requests)) ELSE Tail(requests)
      /\ q.upgrade => /\ stores' = stores \union q.tables \union Indexed[q.tab]
                      /\ indexes' = indexes \union Indexed[q.tab]
      /\ ~q.upgrade => stores' = stores /\ indexes' = indexes
      /\ UNCHANGED <<rows, broken, again, shown, notes, excused, unexplained>>
  BY DEF Serve
<1> HIDE DEF q
<1>4. q.tab \in Tabs /\ q.slot \in Slots /\ q.tables \subseteq Tables
  BY <1>2 DEF RequestSet
<1>5. /\ stores \subseteq stores' /\ stores' \subseteq Tables /\ indexes' \subseteq stores'
      /\ q.upgrade => q.tables \subseteq stores'
  BY <1>3, <1>4, StoreAssumption
<1>6. /\ JobsFit(new, stores')
      /\ \A c \in Tabs, r \in Slots : q.tables = {} \/ ~(c = q.tab /\ r = q.slot) =>
           /\ Alike(new[c][r], job[c][r])
           /\ \A p \in RequestSet : IsAskedBy(p, job[c][r]) => IsAskedBy(p, new[c][r])
      /\ q.tables # {} =>
           /\ job[q.tab][q.slot] # Idle /\ job[q.tab][q.slot].todo[1].call = "ensure"
           /\ AtNextCall(new[q.tab][q.slot], job[q.tab][q.slot], job[q.tab][q.slot].seen)
  BY <1>2, <1>5, ServedIs
<1> HIDE DEF new
<1>7. /\ RequestsFit(requests', job)
      /\ q.tables # {} => Unrequested(requests', q.tab, q.slot)
  BY <1>2, <1>3, <1>4, OvertakenFit
<1>8. RequestsFit(requests', new)
  <2>1. \A c \in Tabs, r \in Slots : ~Unrequested(requests', c, r) =>
          q.tables = {} \/ ~(c = q.tab /\ r = q.slot)
    BY <1>7
  <2>2. \A c \in Tabs, r \in Slots : ~Unrequested(requests', c, r) =>
          \A p \in RequestSet : IsAskedBy(p, job[c][r]) => IsAskedBy(p, new[c][r])
    BY <1>6, <2>1
  <2> QED
    BY <1>7, <2>2, AskedStay
<1>9. conn' \in [Tabs -> {None, "waiting", "open"}]
  BY <1>3
<1>10. \A c \in Tabs, r \in Slots : Onward(new[c][r], job[c][r])
  BY <1>6 DEF Onward
<1> QED
  BY <1>3, <1>5, <1>6, <1>8, <1>9, <1>10

LEMMA AbortKeeps ==
  ASSUME StoreInv, Abort
  PROVE  StoreInv' /\ \A c \in Tabs, r \in Slots : Onward(job'[c][r], job[c][r])
<1> USE DEF StoreInv, RestTyped
<1> DEFINE q == Head(requests)
           b == q.tab
           s == q.slot
           j == job[b][s]
           late == [j EXCEPT !.behind = TRUE]
           new == [job EXCEPT ![b][s] = late]
<1>1. requests # <<>> /\ q.upgrade
  BY DEF Abort
<1>2. /\ RequestsFit(Tail(requests), job) /\ q \in RequestSet
      /\ q.tables # {} /\ Unrequested(Tail(requests), b, s) /\ IsAskedBy(q, j)
  BY <1>1, FirstLeaves
<1>3. /\ job' = new /\ conn' = [conn EXCEPT ![b] = None]
      /\ broken' = [broken EXCEPT ![b] = TRUE] /\ requests' = Tail(requests)
      /\ UNCHANGED <<stores, indexes, rows, again, shown, notes, excused, unexplained>>
  BY DEF Abort
<1>4. b \in Tabs /\ s \in Slots /\ j # Idle /\ j.todo[1].call = "ensure"
  BY <1>2 DEF RequestSet, IsAskedBy
<1>5. JobFits(j, s, stores) /\ j \in JobSet /\ 1 \in DOMAIN j.todo
  BY <1>4, JobFacts
<1> HIDE DEF b, s, j
<1>6. /\ late \in JobSet /\ late.kind = j.kind /\ late.tables = j.tables
      /\ late.todo = j.todo /\ late.asked = j.asked /\ late.seen = j.seen
      /\ late.stale = j.stale /\ late.overtaken = j.overtaken /\ late.behind
  BY <1>5 DEF JobSet
<1> HIDE DEF late
<1>7. j.kind # "tell"
  BY <1>4, <1>5 DEF JobFits, Slots
<1>8. JobFits(late, s, stores) /\ late # Idle
  BY <1>5, <1>6, <1>7, JobsAreNotIdle DEF JobFits
<1>9. JobsFit(new, stores) /\ RequestsFit(Tail(requests), new)
  BY <1>2, <1>4, <1>8, ReplacedJob
<1>10. /\ new[b][s] = late
       /\ \A c \in Tabs, r \in Slots : ~(c = b /\ r = s) => new[c][r] = job[c][r]
  BY <1>4 DEF JobsFit
<1>11. \A c \in Tabs, r \in Slots : Alike(new[c][r], job[c][r])
  BY <1>4, <1>6, <1>8, <1>10 DEF Alike, j
<1> HIDE DEF new
<1> QED
  BY <1>3, <1>9, <1>11 DEF Onward

LEMMA ReadKeeps ==
  ASSUME StoreInv, NEW b \in Tabs, NEW s \in Slots, Read(b, s)
  PROVE  StoreInv'
<1> USE DEF StoreInv, RestTyped
<1> DEFINE j == job[b][s]
           found == rows \intersect j.tables
           seen == IF j.kind \in {"clear", "fetch"} THEN found ELSE {}
           idle == [job EXCEPT ![b][s] = Idle]
           new == Advanced(job, b, s, seen)
<1>1. j # Idle
  BY DEF Read, Ready, Waits, Active
<1>2. j \in JobSet /\ Head(j.todo) = j.todo[1]
  BY <1>1, JobFacts
<1>3. j.todo[1].call = "read"
  BY <1>2 DEF Read, Ready, Now
<1>4. seen \in SUBSET Tables
  BY <1>2 DEF JobSet
<1>5. Unrequested(requests, b, s)
  BY <1>3, NotAsking
<1>6. job' = idle \/ job' = new
  BY DEF Read
<1>7. JobsFit(idle, stores) /\ RequestsFit(requests, idle)
  BY <1>5, ReplacedJob
<1>8. JobsFit(new, stores) /\ RequestsFit(requests, new)
  <2> HIDE DEF seen
  <2>1. \A r \in Slots : job[b][r] = Idle <=> job[b][r] = Idle
    OBVIOUS
  <2>2. /\ JobsFit(Advanced(job, b, s, seen), stores)
        /\ \A c \in Tabs, r \in Slots : ~(c = b /\ r = s) =>
             \A q \in RequestSet :
               IsAskedBy(q, job[c][r]) => IsAskedBy(q, Advanced(job, b, s, seen)[c][r])
    BY <1>1, <1>3, <1>4, <2>1, AdvancedIs
  <2> HIDE DEF new
  <2>3. RequestsFit(requests, new)
    BY <1>5, <2>2, AskedStay DEF new
  <2> QED
    BY <2>2, <2>3 DEF new
<1> HIDE DEF idle, new
<1>9. JobsFit(job', stores) /\ RequestsFit(requests, job')
  BY <1>6, <1>7, <1>8
<1>10. /\ UNCHANGED <<stores, indexes, rows, requests, tabVars, unexplained>>
       /\ excused' = [excused EXCEPT ![b] = excused[b] /\ s # "fetch"]
  BY DEF Read
<1> QED
  BY <1>9, <1>10 DEF tabVars

\* Only operations write.
LEMMA WriteIs ==
  ASSUME StoreInv, NEW b \in Tabs, NEW s \in Slots, Write(b, s)
  PROVE  /\ s = "op" /\ job[b][s] # Idle /\ job[b][s] \in JobSet
         /\ job[b][s].todo[1].call = "write" /\ job[b][s].kind \in OpKinds \ {"tell"}
         /\ job[b][s].kind \notin {"clear", "wipe"} => job[b][s].tables \subseteq stores
<1> USE DEF StoreInv, RestTyped
<1> DEFINE j == job[b][s]
<1>1. j # Idle
  BY DEF Write, Ready, Waits, Active
<1>2. /\ j \in JobSet /\ Head(j.todo) = j.todo[1] /\ JobFits(j, s, stores)
      /\ 1 \in DOMAIN j.todo
  BY <1>1, JobFacts
<1>3. j.todo[1].call = "write"
  BY <1>2 DEF Write, Ready, Now
<1>4. s # "fetch"
  BY <1>2, <1>3, FetchCalls
<1>5. s = "op"
  BY <1>4 DEF Slots
<1>6. j.kind \in OpKinds \ {"tell"}
  BY <1>2, <1>3, <1>5 DEF JobFits
<1>7. j.kind \notin {"clear", "wipe"} => j.tables \subseteq stores
  BY DEF Write, Missing
<1> QED
  BY <1>1, <1>2, <1>3, <1>5, <1>6, <1>7

LEMMA WriteKeeps ==
  ASSUME StoreInv, NEW b \in Tabs, NEW s \in Slots, Write(b, s)
  PROVE  StoreInv'
<1> USE DEF StoreInv, RestTyped
<1> DEFINE j == job[b][s]
           telling == Telling(Watched \in Told(j))
           new == [job EXCEPT ![b][s] = telling]
<1>1. /\ s = "op" /\ j # Idle /\ j \in JobSet /\ j.todo[1].call = "write"
      /\ j.kind \in OpKinds \ {"tell"}
      /\ j.kind \notin {"clear", "wipe"} => j.tables \subseteq stores
  BY WriteIs
<1>2. Unrequested(requests, b, s)
  BY <1>1, NotAsking
<1>3. JobFits(telling, s, stores)
  <2> DEFINE c == Call("tell")
             ts == IF Watched \in Told(j) THEN {Watched} ELSE {}
  <2>1. c \in CallSet /\ c.call = "tell" /\ ts \in SUBSET Tables
    BY CallTypes, StoreAssumption
  <2>2. telling = [kind |-> "tell", tables |-> ts, todo |-> <<c>>, asked |-> FALSE,
                   seen |-> {}, stale |-> FALSE, overtaken |-> FALSE, behind |-> FALSE]
    BY DEF Telling
  <2> HIDE DEF c, ts, telling
  <2>3. /\ <<c>> \in Seq(CallSet) /\ <<c>> # <<>> /\ <<c>>[1] = c
        /\ \A n \in DOMAIN <<c>> : <<c>>[n] = c
    BY <2>1
  <2>4. telling \in JobSet
    BY <2>1, <2>2, <2>3 DEF JobSet, OpKinds
  <2>5. "op" # "fetch" /\ "tell" \in OpKinds
    BY DEF OpKinds
  <2> QED
    BY <1>1, <2>1, <2>2, <2>3, <2>4, <2>5 DEF JobFits
<1> HIDE DEF telling
<1>4. JobsFit(new, stores) /\ RequestsFit(requests, new)
  BY <1>2, <1>3, ReplacedJob
<1>5. rows' \subseteq stores
  <2>1. rows' \in RowsAfter(j) /\ rows \subseteq stores
    BY DEF Write
  <2> HIDE DEF j
  <2>2. CASE j.kind = "put"
    BY <1>1, <2>1, <2>2 DEF RowsAfter
  <2>3. CASE j.kind = "delete"
    BY <1>1, <2>1, <2>3 DEF RowsAfter
  <2>4. CASE j.kind = "remote"
    BY <1>1, <2>1, <2>4 DEF RowsAfter
  <2>5. CASE j.kind \in {"clear", "wipe"}
    BY <2>1, <2>5 DEF RowsAfter
  <2> QED
    BY <1>1, <2>2, <2>3, <2>4, <2>5 DEF OpKinds
<1>6. /\ job' = new /\ UNCHANGED <<stores, indexes, requests, tabVars, unexplained>>
      /\ excused' \in [Tabs -> BOOLEAN]
  BY DEF Write, telling
<1> HIDE DEF new
<1> QED
  BY <1>4, <1>5, <1>6 DEF tabVars

LEMMA TellKeeps ==
  ASSUME StoreInv, NEW b \in Tabs, NEW s \in Slots, Tell(b, s)
  PROVE  StoreInv'
<1> USE DEF StoreInv, RestTyped
<1> DEFINE new == [job EXCEPT ![b][s] = Idle]
<1>1. job[b][s] # Idle
  BY DEF Tell, Active
<1>2. Head(job[b][s].todo) = job[b][s].todo[1]
  BY <1>1, JobFacts
<1>3. job[b][s].todo[1].call = "tell"
  BY <1>2 DEF Tell, Now
<1>4. Unrequested(requests, b, s)
  BY <1>3, NotAsking
<1>5. JobsFit(new, stores) /\ RequestsFit(requests, new)
  BY <1>4, ReplacedJob
<1>6. /\ job' = new
      /\ UNCHANGED <<stores, indexes, rows, requests, conn, broken, shown, excused, unexplained>>
      /\ again' \in [Tabs -> BOOLEAN] /\ notes' \in [Tabs -> BOOLEAN]
  <2>1. /\ job' = new
        /\ UNCHANGED <<stores, indexes, rows, requests, conn, broken, shown, excused,
                       unexplained>>
    BY DEF Tell
  <2>2. again' = Again(b) \/ again' = again
    BY DEF Tell
  <2>3. \/ notes' = [c \in Tabs |-> notes[c] \/ (c # b /\ c \in Watching)]
        \/ notes' = notes
    BY DEF Tell
  <2>4. again' \in [Tabs -> BOOLEAN]
    <3>1. [again EXCEPT ![b] = b \in Watching] \in [Tabs -> BOOLEAN]
      OBVIOUS
    <3> QED
      BY <2>2, <3>1 DEF Again
  <2>5. notes' \in [Tabs -> BOOLEAN]
    BY <2>3
  <2> QED
    BY <2>1, <2>4, <2>5
<1> HIDE DEF new
<1> QED
  BY <1>5, <1>6

LEMMA HearKeeps ==
  ASSUME StoreInv, NEW b \in Tabs, Hear(b)
  PROVE  StoreInv'
<1>1. /\ notes' \in [Tabs -> BOOLEAN] /\ again' \in [Tabs -> BOOLEAN]
  BY DEF Hear, Again, StoreInv, RestTyped
<1> QED
  BY <1>1 DEF Hear, StoreInv, RestTyped

LEMMA DeliverKeeps ==
  ASSUME StoreInv, NEW b \in Tabs, Deliver(b)
  PROVE  StoreInv'
<1> USE DEF StoreInv, RestTyped
<1> DEFINE j == job[b]["fetch"]
           new == [job EXCEPT ![b]["fetch"] = Idle]
<1>1. "fetch" \in Slots
  BY DEF Slots
<1>2. j # Idle
  BY DEF Deliver, Active
<1>3. Head(j.todo) = j.todo[1] /\ j \in JobSet
  BY <1>1, <1>2, JobFacts
<1>4. j.todo[1].call = "deliver" /\ j.seen \in SUBSET Tables
  BY <1>3 DEF Deliver, Now, JobSet
<1>5. Unrequested(requests, b, "fetch")
  BY <1>1, <1>4, NotAsking
<1>6. JobsFit(new, stores) /\ RequestsFit(requests, new)
  BY <1>1, <1>5, ReplacedJob
<1>7. shown' \in [Tabs -> (SUBSET Tables) \cup {None}]
  BY <1>4 DEF Deliver
<1>8. /\ job' = new
      /\ UNCHANGED <<stores, indexes, rows, requests, conn, broken, again, notes, excused,
                     unexplained>>
  BY DEF Deliver
<1> HIDE DEF new
<1> QED
  BY <1>6, <1>7, <1>8

\* A call is rejected only for one of the three reasons.
LEMMA FailIsExplained ==
  ASSUME StoreInv, NEW b \in Tabs, NEW s \in Slots, Fail(b, s)
  PROVE  /\ broken[b] \/ job[b][s].stale \/ job[b][s].overtaken
         /\ Unrequested(requests, b, s) /\ job[b][s] # Idle /\ job[b][s].todo[1].call # "tell"
<1> USE DEF StoreInv, RestTyped
<1> DEFINE j == job[b][s]
<1>1. j # Idle /\ Rejected(b, s)
  BY DEF Fail, Active
<1>2. /\ j \in JobSet /\ Head(j.todo) = j.todo[1] /\ JobFits(j, s, stores)
      /\ j.todo \in Seq(CallSet) /\ j.todo # <<>> /\ 1 \in DOMAIN j.todo
  BY <1>1, JobFacts
<1>3. CASE broken[b] /\ j.behind
  <2>1. j.kind # "tell"
    BY <1>2, <1>3 DEF JobFits
  <2>2. s = "op" => j.todo[1].call # "tell"
    BY <1>2, <2>1 DEF JobFits
  <2>3. s = "fetch" => j.todo[1].call # "tell"
    BY <1>2, FetchCalls
  <2> QED
    BY <1>1, <1>3, <2>2, <2>3, NotAsking DEF Slots
<1>4. CASE j.stale
  <2>1. j.todo[1].call = "write"
    BY <1>2, <1>4 DEF JobFits
  <2> QED
    BY <1>1, <1>4, <2>1, NotAsking
<1>5. CASE /\ Waits(b, s) /\ Missing(b, s) /\ Now(b, s).call \in {"read", "write"}
  <2>1. ~j.asked /\ ~j.behind
    BY <1>5 DEF Waits
  <2>2. j.todo[1].call \in {"read", "write"}
    BY <1>2, <1>5 DEF Now
  <2>3. j.kind \notin {"clear", "wipe"} /\ ~(j.tables \subseteq stores)
    BY <1>5 DEF Missing
  <2>4. j.kind # "tell"
    BY <1>2, <2>2 DEF JobFits, Slots
  <2>5. Coming(j.todo) = {}
    BY <1>2, <2>2, ComingFirst
  <2>6. ~j.overtaken => j.tables \subseteq stores \cup Coming(j.todo)
    BY <1>2, <2>3, <2>4 DEF JobFits
  <2>7. j.overtaken
    BY <1>2, <2>3, <2>5, <2>6 DEF JobSet
  <2> QED
    BY <1>1, <2>1, <2>2, <2>7, NotAsking
<1> QED
  BY <1>1, <1>3, <1>4, <1>5 DEF Rejected

LEMMA FailKeeps ==
  ASSUME StoreInv, NEW b \in Tabs, NEW s \in Slots, Fail(b, s)
  PROVE  StoreInv'
<1> USE DEF StoreInv, RestTyped
<1> DEFINE new == [job EXCEPT ![b][s] = Idle]
<1>1. /\ broken[b] \/ job[b][s].stale \/ job[b][s].overtaken
      /\ Unrequested(requests, b, s)
  BY FailIsExplained
<1>2. JobsFit(new, stores) /\ RequestsFit(requests, new)
  BY <1>1, ReplacedJob
<1>3. /\ job' = new
      /\ UNCHANGED <<stores, indexes, rows, requests, tabVars>>
      /\ excused' \in [Tabs -> BOOLEAN]
  <2>1. job' = new
    BY DEF Fail
  <2>2. UNCHANGED <<stores, indexes, rows, requests, tabVars>>
    BY DEF Fail
  <2>3. excused' \in [Tabs -> BOOLEAN]
    <3>1. excused' = [excused EXCEPT ![b] = excused[b] \/ s = "fetch"]
      BY DEF Fail
    <3> QED
      BY <3>1
  <2> QED
    BY <2>1, <2>2, <2>3
<1>4. ~unexplained'
  BY <1>1, Zenon DEF Fail
<1> HIDE DEF new
<1> QED
  BY <1>2, <1>3, <1>4 DEF tabVars

LEMMA LoadKeeps ==
  ASSUME StoreInv, NEW b \in Tabs, Load(b)
  PROVE  StoreInv'
<1> USE DEF StoreInv, RestTyped
<1> DEFINE kept == {i \in DOMAIN requests : requests[i].tab # b}
           n == Cardinality(kept)
           new == [job EXCEPT ![b] = [s \in Slots |-> Idle]]
<1>1. requests \in Seq(RequestSet)
  BY DEF RequestsFit
<1>2. IsFiniteSet(kept)
  <2>1. DOMAIN requests = 1..Len(requests) /\ Len(requests) \in Nat
    BY <1>1
  <2>2. IsFiniteSet(1..Len(requests)) /\ kept \subseteq 1..Len(requests)
    BY <2>1, FS_Interval
  <2> QED
    BY <2>2, FS_Subset
<1>3. n \in Nat
  BY <1>2, FS_CardinalityType
<1>4. PICK place \in [1..n -> kept] :
        /\ \A i, k \in 1..n : i < k => place[i] < place[k]
        /\ requests' = [i \in 1..n |-> requests[place[i]]]
  BY DEF Load
<1>5. place \in [1..n -> DOMAIN requests] /\ \A i \in 1..n : requests[place[i]].tab # b
  BY <1>4
<1>6. \A i \in 1..n : place[i] \in Nat
  BY <1>1, <1>5
<1> HIDE DEF n, kept
<1>7. \A i, k \in 1..n : place[i] = place[k] => i = k
  <2> SUFFICES ASSUME NEW i \in 1..n, NEW k \in 1..n, place[i] = place[k], i # k
               PROVE  FALSE
    OBVIOUS
  <2>1. i < k \/ k < i
    BY <1>3
  <2>2. place[i] < place[k] \/ place[k] < place[i]
    BY <1>4, <2>1
  <2> QED
    BY <1>6, <2>2
<1>8. RequestsFit([i \in 1..n |-> requests[place[i]]], job)
  BY <1>3, <1>5, <1>7, SomeStay
<1>9. RequestsFit(requests', job)
  BY <1>4, <1>8
<1>10. \A c \in Tabs, r \in Slots : ~Unrequested(requests', c, r) => c # b
  BY <1>4, <1>5 DEF Unrequested
<1>11. job' = new
  BY DEF Load
<1>12. /\ \A c \in Tabs, r \in Slots : c # b => new[c][r] = job[c][r]
       /\ \A r \in Slots : new[b][r] = Idle
       /\ new \in [Tabs -> [Slots -> JobSet \cup {Idle}]]
  BY DEF JobsFit
<1> HIDE DEF new
<1>13. JobsFit(new, stores)
  BY <1>12 DEF JobsFit
<1>14. RequestsFit(requests', new)
  BY <1>9, <1>10, <1>12, AskedStay
<1>15. /\ conn' \in [Tabs -> {None, "waiting", "open"}] /\ broken' \in [Tabs -> BOOLEAN]
       /\ again' \in [Tabs -> BOOLEAN] /\ notes' \in [Tabs -> BOOLEAN]
       /\ shown' \in [Tabs -> (SUBSET Tables) \cup {None}] /\ excused' \in [Tabs -> BOOLEAN]
       /\ UNCHANGED <<stores, indexes, rows, unexplained>>
  BY DEF Load
<1> QED
  BY <1>11, <1>13, <1>14, <1>15

-----------------------------------------------------------------------------
(* Which jobs fail                                                         *)

\* At first there is no table, no connection and nothing to do.
LEMMA InitStore == Init => StoreInv
<1> SUFFICES ASSUME Init PROVE StoreInv
  OBVIOUS
<1>1. /\ stores = {} /\ indexes = {} /\ rows = {} /\ requests = <<>> /\ unexplained = FALSE
      /\ conn = [b \in Tabs |-> None] /\ broken = [b \in Tabs |-> FALSE]
      /\ again = [b \in Tabs |-> b \in Watching] /\ notes = [b \in Tabs |-> FALSE]
      /\ job = [b \in Tabs |-> [s \in Slots |-> Idle]]
      /\ shown = [b \in Tabs |-> None] /\ excused = [b \in Tabs |-> FALSE]
  BY DEF Init
<1>2. RestTyped
  BY <1>1 DEF RestTyped
<1>3. /\ job \in [Tabs -> [Slots -> JobSet \cup {Idle}]]
      /\ \A b \in Tabs, s \in Slots : job[b][s] = Idle
  BY <1>1
<1>4. JobsFit(job, stores)
  BY <1>3 DEF JobsFit
<1>5. RequestsFit(requests, job)
  BY <1>1 DEF RequestsFit
<1> QED
  BY <1>1, <1>2, <1>4, <1>5 DEF StoreInv

\* Every step keeps the jobs and requests together.
LEMMA StepKeepsStore == StoreInv /\ [Next]_vars => StoreInv'
<1> SUFFICES ASSUME StoreInv, [Next]_vars PROVE StoreInv'
  OBVIOUS
<1>1. CASE UNCHANGED vars
  BY <1>1 DEF vars, StoreInv, RestTyped
<1>2. CASE Serve
  BY <1>2, ServeKeeps
<1>3. CASE Abort
  BY <1>3, AbortKeeps
<1>4. ASSUME NEW b \in Tabs,
             \/ Start(b) \/ Fetch(b) \/ VersionChange(b) \/ Hear(b) \/ Deliver(b) \/ Load(b)
      PROVE  StoreInv'
  BY <1>4, StartKeeps, FetchKeeps, VersionChangeKeeps, HearKeeps, DeliverKeeps, LoadKeeps
<1>5. ASSUME NEW b \in Tabs, NEW s \in Slots,
             \/ OpenDatabase(b, s) \/ EnsureDone(b, s) \/ EnsureUpgrades(b, s)
             \/ Read(b, s) \/ Write(b, s) \/ Tell(b, s) \/ Fail(b, s)
      PROVE  StoreInv'
  BY <1>5, OpenKeeps, EnsureDoneKeeps, EnsureUpgradesKeeps, ReadKeeps, WriteKeeps, TellKeeps,
     FailKeeps
<1> QED
  BY <1>1, <1>2, <1>3, <1>4, <1>5 DEF Next

\* Jobs, requests and stores always fit each other: a table that a job works on
\* is there, or is ensured before it is needed, unless another tab overtook it
\* (ensureTables, schemaMutex).
THEOREM StoreWellKept == Spec => []StoreInv
<1>1. Init => StoreInv
  BY InitStore
<1>2. StoreInv /\ [Next]_vars => StoreInv'
  BY StepKeepsStore
<1> QED
  BY <1>1, <1>2, PTL DEF Spec

\* An operation or fetch fails only if another tab overtook its upgrade, its
\* connection was closed between its two transactions, or an upgrade of its tab
\* was aborted, and every record is in a store (ensureTables, onversionchange).
THEOREM OnlyRacesFail == Spec => []FailsOnlyInRace
<1>1. StoreInv => FailsOnlyInRace
  BY DEF StoreInv, RestTyped, FailsOnlyInRace
<1> QED
  BY <1>1, StoreWellKept, PTL

-----------------------------------------------------------------------------
(* Subscribers catch up                                                    *)

CaughtUp(b) == IsDue(b) \/ UpToDate(b)

\* What keeps one tab caught up: nothing that makes it due is taken away, and
\* neither its fetch nor the watched table changes.
LEMMA StillCaughtUp ==
  ASSUME NEW d \in Tabs, CaughtUp(d),
         again[d] => again'[d], notes[d] => notes'[d], excused[d] => excused'[d],
         \A c \in Tabs, r \in Slots : IsTelling(job[c][r]) => IsTelling(job'[c][r]),
         Alike(job'[d]["fetch"], job[d]["fetch"]), shown'[d] = shown[d],
         rows' \cap {Watched} = rows \cap {Watched}
  PROVE  CaughtUp(d)'
<1>1. CASE IsDue(d)
  BY <1>1 DEF CaughtUp, IsDue
<1>2. CASE UpToDate(d)
  BY <1>2 DEF CaughtUp, UpToDate, Alike
<1> QED
  BY <1>1, <1>2 DEF CaughtUp

\* A job that goes on was not telling, and stays so.
LEMMA OnwardTells ==
  ASSUME NEW j, NEW k, Onward(k, j), IsTelling(j)
  PROVE  IsTelling(k)
BY DEF Onward, IsTelling, Alike

\* Steps that open, upgrade or close the database keep every tab caught up.
LEMMA QuietStep ==
  ASSUME StoreInv, CatchUpInv, UNCHANGED <<rows, again, shown, notes, excused>>,
         \A c \in Tabs, r \in Slots : Onward(job'[c][r], job[c][r])
  PROVE  CatchUpInv'
<1> SUFFICES ASSUME NEW d \in Watching PROVE CaughtUp(d)'
  BY DEF CatchUpInv, CaughtUp
<1>1. d \in Tabs /\ CaughtUp(d) /\ "fetch" \in Slots
  BY StoreAssumption DEF CatchUpInv, CaughtUp, Slots
<1> DEFINE j == job[d]["fetch"]
           k == job'[d]["fetch"]
<1>2. \A c \in Tabs, r \in Slots : IsTelling(job[c][r]) => IsTelling(job'[c][r])
  BY OnwardTells
<1>3. CASE Alike(k, j)
  BY <1>1, <1>2, <1>3, StillCaughtUp
<1>4. CASE j # Idle /\ j.todo[1].call = "ensure" /\ AtNextCall(k, j, j.seen)
  <2>1. JobFits(j, "fetch", stores)
    BY <1>1, <1>4, JobFacts DEF StoreInv
  <2>2. Tail(j.todo) # <<>> /\ Tail(j.todo)[1].call = "read"
    BY <1>4, <2>1, FetchCalls
  <2>3. k # Idle /\ k.todo[1].call = "read"
    BY <1>4, <2>2 DEF AtNextCall
  <2>4. UpToDate(d)'
    BY <2>3 DEF UpToDate
  <2> QED
    BY <2>4 DEF CaughtUp
<1> QED
  BY <1>1, <1>3, <1>4 DEF Onward

LEMMA StartCatchesUp ==
  ASSUME StoreInv, CatchUpInv, NEW b \in Tabs, Start(b)
  PROVE  CatchUpInv'
<1> SUFFICES ASSUME NEW d \in Watching PROVE CaughtUp(d)'
  BY DEF CatchUpInv, CaughtUp
<1>1. d \in Tabs /\ CaughtUp(d) /\ "fetch" \in Slots
  BY StoreAssumption DEF CatchUpInv, CaughtUp, Slots
<1>2. \E j : job' = [job EXCEPT ![b]["op"] = j]
  BY DEF Start
<1>3. PICK j : job' = [job EXCEPT ![b]["op"] = j]
  BY <1>2
<1>4. job \in [Tabs -> [Slots -> JobSet \cup {Idle}]]
  BY DEF StoreInv, JobsFit
<1>5. \A c \in Tabs, r \in Slots : ~(c = b /\ r = "op") => job'[c][r] = job[c][r]
  BY <1>3, <1>4
<1>6. \A c \in Tabs, r \in Slots : IsTelling(job[c][r]) => IsTelling(job'[c][r])
  <2>1. job[b]["op"] = Idle
    BY DEF Start, Active
  <2> QED
    BY <1>5, <2>1 DEF IsTelling
<1>7. Alike(job'[d]["fetch"], job[d]["fetch"])
  BY <1>1, <1>5 DEF Alike
<1> QED
  BY <1>1, <1>6, <1>7, StillCaughtUp DEF Start, tabVars

LEMMA FetchCatchesUp ==
  ASSUME StoreInv, CatchUpInv, NEW b \in Tabs, Fetch(b)
  PROVE  CatchUpInv'
<1> SUFFICES ASSUME NEW d \in Watching PROVE CaughtUp(d)'
  BY DEF CatchUpInv, CaughtUp
<1>1. d \in Tabs /\ CaughtUp(d) /\ "fetch" \in Slots
  BY StoreAssumption DEF CatchUpInv, CaughtUp, Slots
<1> DEFINE new == NewJob(b, "fetch", "fetch", {Watched})
<1>2. /\ job \in [Tabs -> [Slots -> JobSet \cup {Idle}]] /\ broken \in [Tabs -> BOOLEAN]
      /\ again \in [Tabs -> BOOLEAN]
  BY DEF StoreInv, JobsFit, RestTyped
<1>3. job' = [job EXCEPT ![b]["fetch"] = new]
  BY DEF Fetch
<1>4. /\ new # Idle /\ new.todo[1].call = "ensure"
  <2>1. {Watched} \in SUBSET Tables
    BY StoreAssumption
  <2>2. JobFits(new, "fetch", stores) /\ new.todo = Calls("fetch", {Watched})
    BY <1>1, <1>2, <2>1, NewFits
  <2>3. new \in JobSet
    BY <2>2 DEF JobFits
  <2>4. Calls("fetch", {Watched})[1] = Ensure(Watched)
    BY DEF Calls
  <2> QED
    BY <2>2, <2>3, <2>4, JobsAreNotIdle, CallTypes, StoreAssumption
<1> HIDE DEF new
<1>5. /\ job'[b]["fetch"] = new
      /\ \A c \in Tabs, r \in Slots : ~(c = b /\ r = "fetch") => job'[c][r] = job[c][r]
  BY <1>1, <1>2, <1>3
<1>6. \A c \in Tabs, r \in Slots : IsTelling(job[c][r]) => IsTelling(job'[c][r])
  <2>1. job[b]["fetch"] = Idle
    BY DEF Fetch, Active
  <2> QED
    BY <1>5, <2>1 DEF IsTelling
<1>7. CASE d = b
  <2>1. UpToDate(d)'
    BY <1>4, <1>5, <1>7 DEF UpToDate
  <2> QED
    BY <2>1 DEF CaughtUp
<1>8. CASE d # b
  <2>1. Alike(job'[d]["fetch"], job[d]["fetch"])
    BY <1>1, <1>5, <1>8 DEF Alike
  <2>2. again'[d] = again[d]
    BY <1>1, <1>2, <1>8 DEF Fetch
  <2> QED
    BY <1>1, <1>6, <2>1, <2>2, StillCaughtUp DEF Fetch
<1> QED
  BY <1>7, <1>8

LEMMA OpenCatchesUp ==
  ASSUME StoreInv, CatchUpInv, NEW b \in Tabs, NEW s \in Slots, OpenDatabase(b, s)
  PROVE  CatchUpInv'
<1>1. \A c \in Tabs, r \in Slots : Onward(job'[c][r], job[c][r])
  BY DEF OpenDatabase, Onward, Alike
<1> QED
  BY <1>1, QuietStep DEF OpenDatabase

\* A fetch that has read has what is there.
LEMMA ReadCatchesUp ==
  ASSUME StoreInv, CatchUpInv, NEW b \in Tabs, NEW s \in Slots, Read(b, s)
  PROVE  CatchUpInv'
<1> SUFFICES ASSUME NEW d \in Watching PROVE CaughtUp(d)'
  BY DEF CatchUpInv, CaughtUp
<1>1. d \in Tabs /\ CaughtUp(d) /\ "fetch" \in Slots
  BY StoreAssumption DEF CatchUpInv, CaughtUp, Slots
<1> DEFINE j == job[b][s]
           found == rows \intersect j.tables
           seen == IF j.kind \in {"clear", "fetch"} THEN found ELSE {}
           idle == [job EXCEPT ![b][s] = Idle]
           new == Advanced(job, b, s, seen)
<1>2. /\ job \in [Tabs -> [Slots -> JobSet \cup {Idle}]] /\ JobsFit(job, stores)
      /\ broken \in [Tabs -> BOOLEAN] /\ excused \in [Tabs -> BOOLEAN]
  BY DEF StoreInv, JobsFit, RestTyped
<1>3. j # Idle
  BY DEF Read, Ready, Waits, Active
<1>4. j \in JobSet /\ Head(j.todo) = j.todo[1] /\ JobFits(j, s, stores)
  BY <1>2, <1>3, JobFacts
<1>5. j.todo[1].call = "read"
  BY <1>4 DEF Read, Ready, Now
<1>6. seen \in SUBSET Tables
  BY <1>4 DEF JobSet
<1>7. /\ job' = IF j.kind = "delete" /\ found = {} THEN idle ELSE new
      /\ UNCHANGED <<rows, again, shown, notes>>
      /\ excused' = [excused EXCEPT ![b] = excused[b] /\ s # "fetch"]
  BY DEF Read, tabVars
<1>8. /\ \A c \in Tabs, r \in Slots : ~(c = b /\ r = s) => Alike(new[c][r], job[c][r])
      /\ AtNextCall(new[b][s], j, seen)
  <2> HIDE DEF seen
  <2>1. \A r \in Slots : job[b][r] = Idle <=> job[b][r] = Idle
    OBVIOUS
  <2>2. /\ \A c \in Tabs, r \in Slots : ~(c = b /\ r = s) =>
             Alike(Advanced(job, b, s, seen)[c][r], job[c][r])
        /\ AtNextCall(Advanced(job, b, s, seen)[b][s], job[b][s], seen)
    BY <1>2, <1>3, <1>5, <1>6, <2>1, AdvancedIs
  <2> QED
    BY <2>2
<1>9. \A c \in Tabs, r \in Slots : ~(c = b /\ r = s) => Alike(idle[c][r], job[c][r])
  BY <1>2 DEF Alike
<1>10. j.kind = "delete" => s # "fetch"
  BY <1>4 DEF JobFits
<1>11. s = "fetch" => job' = new /\ found = rows \cap {Watched} /\ seen = found
  BY <1>4, <1>7, <1>10 DEF JobFits
<1> HIDE DEF idle, new, seen, found
<1>12. \A c \in Tabs, r \in Slots : ~(c = b /\ r = s) => Alike(job'[c][r], job[c][r])
  BY <1>7, <1>8, <1>9
<1>13. \A c \in Tabs, r \in Slots : IsTelling(job[c][r]) => IsTelling(job'[c][r])
  BY <1>5, <1>12 DEF IsTelling, Alike
<1>14. CASE d = b /\ s = "fetch"
  <2>1. Tail(j.todo) # <<>> /\ Tail(j.todo)[1].call = "deliver"
    BY <1>4, <1>5, <1>14, FetchCalls
  <2>2. job'[d]["fetch"] # Idle /\ job'[d]["fetch"].seen = rows \cap {Watched}
    BY <1>8, <1>11, <1>14, <2>1 DEF AtNextCall
  <2>3. UpToDate(d)'
    BY <1>7, <2>2 DEF UpToDate
  <2> QED
    BY <2>3 DEF CaughtUp
<1>15. CASE ~(d = b /\ s = "fetch")
  <2>1. Alike(job'[d]["fetch"], job[d]["fetch"])
    BY <1>1, <1>12, <1>15
  <2>2. excused[d] => excused'[d]
    BY <1>1, <1>2, <1>7, <1>15
  <2> QED
    BY <1>1, <1>7, <1>13, <2>1, <2>2, StillCaughtUp
<1> QED
  BY <1>14, <1>15

\* A write that changes the watched table is told, or excuses those who watch it.
LEMMA WriteCatchesUp ==
  ASSUME StoreInv, CatchUpInv, NEW b \in Tabs, NEW s \in Slots, Write(b, s)
  PROVE  CatchUpInv'
<1> SUFFICES ASSUME NEW d \in Watching PROVE CaughtUp(d)'
  BY DEF CatchUpInv, CaughtUp
<1>1. d \in Tabs /\ CaughtUp(d) /\ "fetch" \in Slots
  BY StoreAssumption DEF CatchUpInv, CaughtUp, Slots
<1> DEFINE j == job[b][s]
           telling == Telling(Watched \in Told(j))
           quiet == /\ Watched \notin Told(j)
                    /\ (Watched \in rows) # (Watched \in rows')
<1>2. job \in [Tabs -> [Slots -> JobSet \cup {Idle}]] /\ excused \in [Tabs -> BOOLEAN]
  BY DEF StoreInv, JobsFit, RestTyped
<1>3. s = "op" /\ j.todo[1].call = "write"
  BY WriteIs
<1>4. /\ job' = [job EXCEPT ![b][s] = telling]
      /\ excused' = [c \in Tabs |-> excused[c] \/ (quiet /\ c \in Watching)]
      /\ UNCHANGED <<again, shown, notes>>
  BY DEF Write, tabVars
<1>5. Watched \in Told(j) => IsTelling(telling)
  <2>1. <<Call("tell")>>[1].call = "tell"
    BY CallTypes
  <2>2. telling.kind # None
    BY StoreAssumption DEF Telling
  <2>3. telling # Idle
    BY <2>2 DEF Idle
  <2> QED
    BY <2>1, <2>3 DEF IsTelling, Telling
<1> HIDE DEF telling
<1>6. /\ job'[b][s] = telling
      /\ \A c \in Tabs, r \in Slots : ~(c = b /\ r = s) => job'[c][r] = job[c][r]
  BY <1>2, <1>4
<1>7. CASE Watched \in Told(j)
  BY <1>5, <1>6, <1>7 DEF CaughtUp, IsDue
<1>8. CASE Watched \notin Told(j) /\ (Watched \in rows) # (Watched \in rows')
  <2>1. excused'[d]
    BY <1>1, <1>4, <1>8
  <2> QED
    BY <2>1 DEF CaughtUp, IsDue
<1>9. CASE (Watched \in rows) <=> (Watched \in rows')
  <2>1. rows' \cap {Watched} = rows \cap {Watched}
    BY <1>9
  <2>2. \A c \in Tabs, r \in Slots : IsTelling(job[c][r]) => IsTelling(job'[c][r])
    BY <1>3, <1>6 DEF IsTelling
  <2>3. Alike(job'[d]["fetch"], job[d]["fetch"])
    BY <1>1, <1>3, <1>6 DEF Alike
  <2>4. excused[d] => excused'[d]
    BY <1>1, <1>4
  <2> QED
    BY <1>1, <1>4, <2>1, <2>2, <2>3, <2>4, StillCaughtUp
<1> QED
  BY <1>7, <1>8, <1>9

\* What is told makes every tab that watches fetch.
LEMMA TellCatchesUp ==
  ASSUME StoreInv, CatchUpInv, NEW b \in Tabs, NEW s \in Slots, Tell(b, s)
  PROVE  CatchUpInv'
<1> SUFFICES ASSUME NEW d \in Watching PROVE CaughtUp(d)'
  BY DEF CatchUpInv, CaughtUp
<1>1. d \in Tabs /\ CaughtUp(d) /\ "fetch" \in Slots
  BY StoreAssumption DEF CatchUpInv, CaughtUp, Slots
<1> DEFINE j == job[b][s]
<1>2. /\ job \in [Tabs -> [Slots -> JobSet \cup {Idle}]] /\ JobsFit(job, stores)
      /\ again \in [Tabs -> BOOLEAN]
  BY DEF StoreInv, JobsFit, RestTyped
<1>3. j # Idle
  BY DEF Tell, Active
<1>4. Head(j.todo) = j.todo[1] /\ JobFits(j, s, stores)
  BY <1>2, <1>3, JobFacts
<1>5. j.todo[1].call = "tell"
  BY <1>4 DEF Tell, Now
<1>6. s # "fetch"
  BY <1>4, <1>5, FetchCalls
<1>7. /\ job' = [job EXCEPT ![b][s] = Idle] /\ UNCHANGED <<rows, shown, excused>>
  BY DEF Tell
<1>8. \A c \in Tabs, r \in Slots : ~(c = b /\ r = s) => job'[c][r] = job[c][r]
  BY <1>2, <1>7
<1>9. CASE Watched \in j.tables
  <2>1. /\ again' = [again EXCEPT ![b] = b \in Watching]
        /\ notes' = [c \in Tabs |-> notes[c] \/ (c # b /\ c \in Watching)]
    BY <1>9 DEF Tell, Again
  <2>2. again'[d] \/ notes'[d]
    BY <1>1, <1>2, <2>1
  <2> QED
    BY <2>2 DEF CaughtUp, IsDue
<1>10. CASE Watched \notin j.tables
  <2>1. UNCHANGED <<again, notes>>
    BY <1>10 DEF Tell
  <2>2. \A c \in Tabs, r \in Slots : IsTelling(job[c][r]) => IsTelling(job'[c][r])
    BY <1>8, <1>10 DEF IsTelling
  <2>3. Alike(job'[d]["fetch"], job[d]["fetch"])
    BY <1>1, <1>6, <1>8 DEF Alike
  <2> QED
    BY <1>1, <1>7, <2>1, <2>2, <2>3, StillCaughtUp
<1> QED
  BY <1>9, <1>10

LEMMA HearCatchesUp ==
  ASSUME StoreInv, CatchUpInv, NEW b \in Tabs, Hear(b)
  PROVE  CatchUpInv'
<1> SUFFICES ASSUME NEW d \in Watching PROVE CaughtUp(d)'
  BY DEF CatchUpInv, CaughtUp
<1>1. d \in Tabs /\ CaughtUp(d) /\ "fetch" \in Slots
  BY StoreAssumption DEF CatchUpInv, CaughtUp, Slots
<1>2. again \in [Tabs -> BOOLEAN] /\ notes \in [Tabs -> BOOLEAN]
  BY DEF StoreInv, RestTyped
<1>3. /\ notes' = [notes EXCEPT ![b] = FALSE]
      /\ again' = [again EXCEPT ![b] = b \in Watching]
      /\ UNCHANGED <<rows, job, shown, excused>>
  BY DEF Hear, Again
<1>4. CASE d = b
  <2>1. again'[d]
    BY <1>1, <1>2, <1>3, <1>4
  <2> QED
    BY <2>1 DEF CaughtUp, IsDue
<1>5. CASE d # b
  <2>1. again'[d] = again[d] /\ notes'[d] = notes[d]
    BY <1>1, <1>2, <1>3, <1>5
  <2>2. Alike(job'[d]["fetch"], job[d]["fetch"])
    BY <1>3 DEF Alike
  <2> QED
    BY <1>1, <1>3, <2>1, <2>2, StillCaughtUp
<1> QED
  BY <1>4, <1>5

\* What is delivered is what is there, or another fetch is asked for.
LEMMA DeliverCatchesUp ==
  ASSUME StoreInv, CatchUpInv, NEW b \in Tabs, Deliver(b)
  PROVE  CatchUpInv'
<1> SUFFICES ASSUME NEW d \in Watching PROVE CaughtUp(d)'
  BY DEF CatchUpInv, CaughtUp
<1>1. d \in Tabs /\ CaughtUp(d) /\ "fetch" \in Slots
  BY StoreAssumption DEF CatchUpInv, CaughtUp, Slots
<1> DEFINE j == job[b]["fetch"]
<1>2. /\ job \in [Tabs -> [Slots -> JobSet \cup {Idle}]] /\ JobsFit(job, stores)
      /\ shown \in [Tabs -> (SUBSET Tables) \cup {None}]
  BY DEF StoreInv, JobsFit, RestTyped
<1>3. j # Idle
  BY DEF Deliver, Active
<1>4. Head(j.todo) = j.todo[1]
  BY <1>1, <1>2, <1>3, JobFacts
<1>5. j.todo[1].call = "deliver"
  BY <1>4 DEF Deliver, Now
<1>6. /\ job' = [job EXCEPT ![b]["fetch"] = Idle]
      /\ shown' = IF again[b] THEN shown ELSE [shown EXCEPT ![b] = j.seen]
      /\ UNCHANGED <<rows, again, notes, excused>>
  BY DEF Deliver
<1>7. /\ job'[b]["fetch"] = Idle
      /\ \A c \in Tabs, r \in Slots : ~(c = b /\ r = "fetch") => job'[c][r] = job[c][r]
  BY <1>1, <1>2, <1>6
<1>8. \A c \in Tabs, r \in Slots : IsTelling(job[c][r]) => IsTelling(job'[c][r])
  BY <1>5, <1>7 DEF IsTelling
<1>9. CASE d = b
  <2>1. CASE IsDue(d)
    BY <1>6, <1>8, <2>1 DEF IsDue, CaughtUp
  <2>2. CASE ~IsDue(d)
    <3>1. UpToDate(d) /\ ~again[b]
      BY <1>1, <1>9, <2>2 DEF CaughtUp, IsDue
    <3>2. shown'[d] = rows \cap {Watched}
      BY <1>1, <1>2, <1>3, <1>5, <1>6, <1>9, <3>1 DEF UpToDate
    <3>3. UpToDate(d)'
      BY <1>6, <1>7, <1>9, <3>2 DEF UpToDate
    <3> QED
      BY <3>3 DEF CaughtUp
  <2> QED
    BY <2>1, <2>2
<1>10. CASE d # b
  <2>1. shown'[d] = shown[d]
    BY <1>1, <1>2, <1>6, <1>10
  <2>2. Alike(job'[d]["fetch"], job[d]["fetch"])
    BY <1>1, <1>7, <1>10 DEF Alike
  <2> QED
    BY <1>1, <1>6, <1>8, <2>1, <2>2, StillCaughtUp
<1> QED
  BY <1>9, <1>10

\* A fetch that fails excuses its tab; what fails has nothing to tell.
LEMMA FailCatchesUp ==
  ASSUME StoreInv, CatchUpInv, NEW b \in Tabs, NEW s \in Slots, Fail(b, s)
  PROVE  CatchUpInv'
<1> SUFFICES ASSUME NEW d \in Watching PROVE CaughtUp(d)'
  BY DEF CatchUpInv, CaughtUp
<1>1. d \in Tabs /\ CaughtUp(d) /\ "fetch" \in Slots
  BY StoreAssumption DEF CatchUpInv, CaughtUp, Slots
<1>2. job \in [Tabs -> [Slots -> JobSet \cup {Idle}]] /\ excused \in [Tabs -> BOOLEAN]
  BY DEF StoreInv, JobsFit, RestTyped
<1>3. job[b][s].todo[1].call # "tell"
  BY FailIsExplained
<1>4. job' = [job EXCEPT ![b][s] = Idle]
  BY DEF Fail
<1>5. excused' = [excused EXCEPT ![b] = excused[b] \/ s = "fetch"]
  BY DEF Fail
<1>6. UNCHANGED <<rows, again, shown, notes>>
  BY DEF Fail, tabVars
<1>7. \A c \in Tabs, r \in Slots : ~(c = b /\ r = s) => job'[c][r] = job[c][r]
  BY <1>2, <1>4
<1>8. \A c \in Tabs, r \in Slots : IsTelling(job[c][r]) => IsTelling(job'[c][r])
  BY <1>3, <1>7 DEF IsTelling
<1>9. CASE d = b /\ s = "fetch"
  <2>1. excused'[d]
    BY <1>1, <1>2, <1>5, <1>9
  <2> QED
    BY <2>1 DEF CaughtUp, IsDue
<1>10. CASE ~(d = b /\ s = "fetch")
  <2>1. Alike(job'[d]["fetch"], job[d]["fetch"])
    BY <1>1, <1>7, <1>10 DEF Alike
  <2>2. excused[d] => excused'[d]
    BY <1>1, <1>2, <1>5
  <2> QED
    BY <1>1, <1>6, <1>8, <2>1, <2>2, StillCaughtUp
<1> QED
  BY <1>9, <1>10

\* A page that is loaded again fetches at once, and excuses the others when it
\* had something to tell.
LEMMA LoadCatchesUp ==
  ASSUME StoreInv, CatchUpInv, NEW b \in Tabs, Load(b)
  PROVE  CatchUpInv'
<1> SUFFICES ASSUME NEW d \in Watching PROVE CaughtUp(d)'
  BY DEF CatchUpInv, CaughtUp
<1>1. d \in Tabs /\ CaughtUp(d) /\ "fetch" \in Slots
  BY StoreAssumption DEF CatchUpInv, CaughtUp, Slots
<1> DEFINE unsaid == \E s \in Slots : /\ Active(b, s) /\ Now(b, s).call = "tell"
                                      /\ Watched \in job[b][s].tables
<1>2. /\ job \in [Tabs -> [Slots -> JobSet \cup {Idle}]] /\ JobsFit(job, stores)
      /\ excused \in [Tabs -> BOOLEAN] /\ again \in [Tabs -> BOOLEAN]
      /\ notes \in [Tabs -> BOOLEAN] /\ shown \in [Tabs -> (SUBSET Tables) \cup {None}]
  BY DEF StoreInv, JobsFit, RestTyped
<1>3. /\ again' = [again EXCEPT ![b] = b \in Watching]
      /\ notes' = [notes EXCEPT ![b] = FALSE] /\ shown' = [shown EXCEPT ![b] = None]
      /\ job' = [job EXCEPT ![b] = [s \in Slots |-> Idle]] /\ rows' = rows
  BY DEF Load
<1>4. excused' = [c \in Tabs |-> excused[c] \/ (unsaid /\ c # b /\ c \in Watching)]
  BY DEF Load
<1>5. CASE d = b
  <2>1. again'[d]
    BY <1>1, <1>2, <1>3, <1>5
  <2> QED
    BY <2>1 DEF CaughtUp, IsDue
<1>6. CASE d # b /\ unsaid
  <2>1. excused'[d]
    BY <1>1, <1>4, <1>6
  <2> QED
    BY <2>1 DEF CaughtUp, IsDue
<1>7. CASE d # b /\ ~unsaid
  <2>1. \A c \in Tabs, r \in Slots : c # b => job'[c][r] = job[c][r]
    BY <1>2, <1>3
  <2>2. \A r \in Slots : ~IsTelling(job[b][r])
    <3> SUFFICES ASSUME NEW r \in Slots, IsTelling(job[b][r]) PROVE FALSE
      OBVIOUS
    <3>1. job[b][r] # Idle /\ job[b][r].todo[1].call = "tell" /\ Watched \in job[b][r].tables
      BY DEF IsTelling
    <3>2. Head(job[b][r].todo) = job[b][r].todo[1]
      BY <1>2, <3>1, JobFacts
    <3> QED
      BY <1>7, <3>1, <3>2 DEF Active, Now
  <2>3. \A c \in Tabs, r \in Slots : IsTelling(job[c][r]) => IsTelling(job'[c][r])
    BY <2>1, <2>2
  <2>4. Alike(job'[d]["fetch"], job[d]["fetch"])
    BY <1>1, <1>7, <2>1 DEF Alike
  <2>5. again'[d] = again[d] /\ notes'[d] = notes[d] /\ shown'[d] = shown[d]
    BY <1>1, <1>2, <1>3, <1>7
  <2>6. excused[d] => excused'[d]
    BY <1>1, <1>4
  <2> QED
    BY <1>1, <1>3, <2>3, <2>4, <2>5, <2>6, StillCaughtUp
<1> QED
  BY <1>5, <1>6, <1>7

LEMMA StepCatchesUp == StoreInv /\ CatchUpInv /\ [Next]_vars => CatchUpInv'
<1> SUFFICES ASSUME StoreInv, CatchUpInv, [Next]_vars PROVE CatchUpInv'
  OBVIOUS
<1>1. CASE UNCHANGED vars
  BY <1>1 DEF vars, CatchUpInv, IsDue, UpToDate
<1>2. CASE Serve \/ Abort
  <2>1. CASE Serve
    BY <2>1, ServeKeeps, QuietStep DEF Serve
  <2>2. CASE Abort
    BY <2>2, AbortKeeps, QuietStep DEF Abort
  <2> QED
    BY <1>2, <2>1, <2>2
<1>3. ASSUME NEW b \in Tabs,
             \/ Start(b) \/ Fetch(b) \/ VersionChange(b) \/ Hear(b) \/ Deliver(b) \/ Load(b)
      PROVE  CatchUpInv'
  <2>1. CASE VersionChange(b)
    BY <2>1, VersionChangeKeeps, QuietStep DEF VersionChange
  <2> QED
    BY <1>3, <2>1, StartCatchesUp, FetchCatchesUp, HearCatchesUp, DeliverCatchesUp,
       LoadCatchesUp
<1>4. ASSUME NEW b \in Tabs, NEW s \in Slots,
             \/ OpenDatabase(b, s) \/ EnsureDone(b, s) \/ EnsureUpgrades(b, s)
             \/ Read(b, s) \/ Write(b, s) \/ Tell(b, s) \/ Fail(b, s)
      PROVE  CatchUpInv'
  <2>1. CASE OpenDatabase(b, s)
    BY <2>1, OpenCatchesUp
  <2>2. CASE EnsureDone(b, s)
    BY <2>2, EnsureDoneKeeps, QuietStep DEF EnsureDone, tabVars
  <2>3. CASE EnsureUpgrades(b, s)
    BY <2>3, EnsureUpgradesKeeps, QuietStep DEF EnsureUpgrades
  <2> QED
    BY <1>4, <2>1, <2>2, <2>3, ReadCatchesUp, WriteCatchesUp, TellCatchesUp, FailCatchesUp
<1> QED
  BY <1>1, <1>2, <1>3, <1>4 DEF Next

\* When nothing more is to come, a subscriber has been given what the table
\* holds, unless it is excused (subscribeAll, onLocalChangeBatch).
THEOREM SubscribersAlwaysCatchUp == Spec => []SubscribersCatchUp
<1>1. Init => CatchUpInv
  BY StoreAssumption DEF Init, CatchUpInv, IsDue
<1>2. StoreInv /\ CatchUpInv /\ [Next]_vars => CatchUpInv'
  BY StepCatchesUp
<1>3. StoreInv /\ CatchUpInv => SubscribersCatchUp
  <2> SUFFICES ASSUME StoreInv, CatchUpInv, NEW b \in Watching, ~Active(b, "fetch"),
                      ~again[b], ~notes[b], ~excused[b]
               PROVE  \/ \E c \in Tabs, s \in Slots : Active(c, s) /\ Now(c, s).call = "tell"
                      \/ shown[b] = rows \cap {Watched}
    BY DEF SubscribersCatchUp
  <2>1. CASE UpToDate(b)
    BY <2>1 DEF UpToDate, Active
  <2>2. CASE \E c \in Tabs, s \in Slots : IsTelling(job[c][s])
    <3>1. PICK c \in Tabs, s \in Slots : IsTelling(job[c][s])
      BY <2>2
    <3>2. job[c][s] # Idle /\ job[c][s].todo[1].call = "tell"
      BY <3>1 DEF IsTelling
    <3>3. Head(job[c][s].todo) = job[c][s].todo[1]
      BY <3>2, JobFacts DEF StoreInv
    <3> QED
      BY <3>2, <3>3 DEF Active, Now
  <2> QED
    BY <2>1, <2>2 DEF CatchUpInv, IsDue
<1> QED
  BY <1>1, <1>2, <1>3, StoreWellKept, PTL DEF Spec
=============================================================================
