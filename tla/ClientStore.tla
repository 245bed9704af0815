---------------------------- MODULE ClientStore ----------------------------
(***************************************************************************)
(* The IndexedDB that the tabs of an application share, as                 *)
(* src/client/storage/storage.ts and database.ts use it: object stores     *)
(* that are created when a table is first used, schema upgrades behind     *)
(* schemaMutex, connections that close when another tab upgrades, and the  *)
(* transactions of the operations.  Also what src/client/table.ts and      *)
(* client.ts do to keep the subscribers of every tab up to date.           *)
(*                                                                         *)
(* In each tab an operation and a fetch for a subscriber can be under way  *)
(* at once.  A transaction is one step; between two of them everything     *)
(* else can happen.  IndexedDB serves requests to open in the order in     *)
(* which they were made, and an upgrade once every other connection is     *)
(* closed.                                                                 *)
(*                                                                         *)
(* Versions of records, timestamps and the outbox are in TetherSync; here  *)
(* a table has one record, which exists or not.  NeedsIndexOnly,           *)
(* ClosedNever and AgainLost are slips the code might have made at the     *)
(* definition that follows each; only the tests of the properties use      *)
(* them.                                                                   *)
(***************************************************************************)
EXTENDS Naturals, Sequences, FiniteSets, Functions

CONSTANTS Tabs,
          Tables,
          Watched,      \* the table that is subscribed to
          Watching,     \* the tabs that have subscribed to it
          Indexed,      \* Indexed[b] : tables for which tab b has registered
                        \* an index; the others have none in that tab
          None,
          Kinds,        \* the operations that are tried
          MaxOps,       \* BOUND MaxOps[b] : operations of tab b
          MaxTroubles   \* BOUND MaxTroubles[b] : upgrades of tab b that are
                        \* aborted, and loads of its page while it has a job

ASSUME StoreAssumption ==
  /\ IsFiniteSet(Tables) /\ Watched \in Tables /\ Watching \subseteq Tabs
  /\ None \notin {"put", "delete", "remote", "clear", "wipe", "fetch", "tell"}
  /\ Indexed \in [Tabs -> SUBSET Tables]
  /\ Kinds \subseteq {"put", "delete", "remote", "clear", "wipe"}
  /\ MaxOps \in [Tabs -> Nat] /\ MaxTroubles \in [Tabs -> Nat]

VARIABLES
  stores,     \* tables that have an object store
  indexes,    \* those among them that have an index
  rows,       \* tables whose record exists
  requests,   \* requests to open the database, in their order
  conn,       \* conn[b] : databasePromise of the tab: None, "waiting", "open"
  broken,     \* broken[b] : schemaMutex of the tab is rejected
  job,        \* job[b][s] : what the tab does in slot s
  again,      \* again[b] : a change was announced while a fetch was under way
  shown,      \* shown[b] : what the subscriber of the tab was last given
  notes,      \* notes[b] : a message of another tab waits
  used,       \* [ops, troubles] of each tab so far
  excused,    \* HISTORY VARIABLE: excused[b] : since the last fetch that the
              \* tab made, one failed or a change was not announced to it
  unexplained \* HISTORY VARIABLE: a job failed although its tab was sound, its
              \* connection held and no other tab overtook its upgrade

tabVars == <<conn, broken, again, shown, notes>>
vars == <<stores, indexes, rows, requests, conn, broken, job, again, shown, notes,
          used, excused, unexplained>>

Slots == {"op", "fetch"}
Other(s) == CHOOSE o \in Slots : o # s
Idle == [kind |-> None]

(***************************************************************************)
(* Jobs                                                                    *)
(***************************************************************************)
\* The calls of a job: an ensure has the table it names, the others are
\* transactions.  put and delete read before they write; a batch from the
\* server ensures one table after the other.
Ensure(t) == [call |-> "ensure", table |-> t]
Call(name) == [call |-> name, table |-> None]

\* The order in which a batch from the server names its tables.
Order(ts) == CHOOSE order \in Bijection(1 .. Cardinality(ts), ts) : TRUE

Calls(kind, ts) ==
  CASE kind \in {"put", "delete"} ->
         LET t == CHOOSE t \in ts : TRUE
         IN  <<Ensure(t), Call("read"), Ensure(t), Call("write")>>
    [] kind = "remote" ->
         [i \in 1 .. Cardinality(ts) |-> Ensure(Order(ts)[i])]
           \o <<Call("read"), Call("write")>>
    [] kind = "clear" -> <<Call("read"), Call("write")>>
    [] kind = "wipe"  -> <<Call("write")>>
    [] kind = "fetch" -> <<Ensure(Watched), Call("read"), Call("deliver")>>

\* read and write of these use the connection that the read was given.
OneConnection(kind) == kind \in {"remote", "clear"}

Active(b, s) == job[b][s] # Idle
Now(b, s) == Head(job[b][s].todo)
Ensuring(b, s) == Active(b, s) /\ Now(b, s).call = "ensure"

\* A call waits for the ensures of the tab that were made before it, and fails
\* with them.  behind : there is one, or one has failed.
NewJob(b, s, kind, ts) ==
  [kind |-> kind, tables |-> ts, todo |-> Calls(kind, ts), asked |-> FALSE,
   seen |-> {}, stale |-> FALSE, overtaken |-> FALSE,
   behind |-> broken[b] \/ Ensuring(b, Other(s))]

\* The next call of a job, once c is done.
Advanced(jobs, b, s, seen) ==
  LET rest == Tail(jobs[b][s].todo)
      next == [jobs[b][s] EXCEPT !.todo = rest, !.asked = FALSE, !.seen = seen,
                 !.behind = broken[b] \/ Ensuring(b, Other(s))]
      other == IF Active(b, Other(s)) /\ Ensuring(b, s)
               THEN [jobs[b][Other(s)] EXCEPT !.behind = FALSE] ELSE jobs[b][Other(s)]
  IN  [jobs EXCEPT ![b] = [r \in Slots |-> IF r # s THEN other
                                           ELSE IF rest = <<>> THEN Idle ELSE next]]

\* The connection of b closes: what has read over it cannot write over it.
Cut(jobs, b) ==
  LET cut(s) == OneConnection(jobs[b][s].kind) /\ Now(b, s).call = "write"
  IN  [jobs EXCEPT ![b] = [s \in Slots |->
         IF Active(b, s) /\ cut(s) THEN [jobs[b][s] EXCEPT !.stale = TRUE] ELSE jobs[b][s]]]

Init ==
  /\ stores = {} /\ indexes = {} /\ rows = {} /\ requests = <<>>
  /\ conn = [b \in Tabs |-> None]
  /\ broken = [b \in Tabs |-> FALSE]
  /\ again = [b \in Tabs |-> b \in Watching]   \* subscribeAll fetches at once
  /\ job = [b \in Tabs |-> [s \in Slots |-> Idle]]
  /\ shown = [b \in Tabs |-> None]
  /\ notes = [b \in Tabs |-> FALSE]
  /\ used = [ops |-> [b \in Tabs |-> 0], troubles |-> [b \in Tabs |-> 0]]
  /\ excused = [b \in Tabs |-> FALSE]
  /\ unexplained = FALSE

Start(b) ==
  /\ ~Active(b, "op")
  /\ used.ops[b] < MaxOps[b]
  /\ \E kind \in Kinds :
       \E ts \in CASE kind \in {"put", "delete"} -> {{t} : t \in Tables}
                   [] kind = "remote" -> (SUBSET Tables) \ {{}}
                   [] OTHER -> {Tables} :
         job' = [job EXCEPT ![b]["op"] = NewJob(b, "op", kind, ts)]
  /\ used' = [used EXCEPT !.ops[b] = @ + 1]
  /\ UNCHANGED <<stores, indexes, rows, requests, tabVars, excused, unexplained>>

\* A fetch that is superseded delivers nothing, and the one that supersedes it
\* waits behind its ensure: it is taken to start when the other has ended.
Fetch(b) ==
  /\ again[b] /\ ~Active(b, "fetch")
  /\ again' = [again EXCEPT ![b] = FALSE]
  /\ job' = [job EXCEPT ![b]["fetch"] = NewJob(b, "fetch", "fetch", {Watched})]
  /\ UNCHANGED <<stores, indexes, rows, requests, conn, broken, shown, notes, used,
                 excused, unexplained>>

(***************************************************************************)
(* Opening and upgrading                                                   *)
(***************************************************************************)
Request(b, s, upgrade, ts) == [tab |-> b, slot |-> s, upgrade |-> upgrade, tables |-> ts]
Waits(b, s) == Active(b, s) /\ ~job[b][s].behind /\ ~job[b][s].asked

\* getDatabase, when there is no connection and none is asked for
OpenDatabase(b, s) ==
  /\ Waits(b, s)
  /\ Now(b, s).call \in {"ensure", "read", "write"} /\ ~job[b][s].stale
  /\ conn[b] = None
  /\ conn' = [conn EXCEPT ![b] = "waiting"]
  /\ requests' = Append(requests, Request(b, s, FALSE, {}))
  /\ UNCHANGED <<stores, indexes, rows, broken, job, again, shown, notes, used,
                 excused, unexplained>>

\* The store of t is missing, or a table has other indexes than the tab has
\* registered: none is removed from a table for which it has registered none.
NeedsIndexOnly(b, t) ==
  \E x \in ({t} \union Indexed[b]) \intersect stores :
    (x \in indexes) # (x \in Indexed[b])

Needs(b, t) ==
  \/ t \notin stores
  \/ \E x \in ({t} \union Indexed[b]) \intersect stores :
       (x \in indexes) # (x \in Indexed[b])

EnsureDone(b, s) ==
  /\ Waits(b, s) /\ Ensuring(b, s)
  /\ conn[b] = "open" /\ ~Needs(b, Now(b, s).table)
  /\ job' = Advanced(job, b, s, job[b][s].seen)
  /\ UNCHANGED <<stores, indexes, rows, requests, tabVars, used, excused, unexplained>>

EnsureUpgrades(b, s) ==
  /\ Waits(b, s) /\ Ensuring(b, s)
  /\ conn[b] = "open" /\ Needs(b, Now(b, s).table)
  /\ conn' = [conn EXCEPT ![b] = "waiting"]
  /\ requests' = Append(requests, Request(b, s, TRUE, {Now(b, s).table}))
  /\ job' = Cut([job EXCEPT ![b][s].asked = TRUE], b)
  /\ UNCHANGED <<stores, indexes, rows, broken, again, shown, notes, used, excused,
                 unexplained>>

\* onversionchange: the connection of another tab is in the way of an upgrade.
ClosedNever(b) == conn
Closed(b) == [conn EXCEPT ![b] = None]

VersionChange(b) ==
  /\ requests # <<>> /\ Head(requests).upgrade /\ Head(requests).tab # b
  /\ conn[b] = "open"
  /\ conn' = Closed(b)
  /\ job' = Cut(job, b)
  /\ UNCHANGED <<stores, indexes, rows, requests, broken, again, shown, notes, used,
                 excused, unexplained>>

\* Other requests for the version that the upgrade makes open it as it is then,
\* which ends the ensure that asked: whether or not its table is there.
Overtaken(q) == [i \in DOMAIN q |-> [q[i] EXCEPT !.upgrade = FALSE]]

Served(q) ==
  LET late == job[q.tab][q.slot].overtaken \/ ~(q.upgrade \/ q.tables \subseteq stores)
      mark == [job EXCEPT ![q.tab][q.slot].overtaken = late]
  IN  IF q.tables = {} THEN job
      ELSE Advanced(mark, q.tab, q.slot, job[q.tab][q.slot].seen)

Serve ==
  /\ requests # <<>>
  /\ LET q == Head(requests)
     IN  /\ q.upgrade => \A b \in Tabs : conn[b] # "open"
         /\ conn' = [conn EXCEPT ![q.tab] = "open"]
         /\ job' = Served(q)
         /\ requests' = IF q.upgrade THEN Overtaken(Tail(requests)) ELSE Tail(requests)
         /\ IF q.upgrade
            THEN /\ stores' = stores \union q.tables \union Indexed[q.tab]
                 /\ indexes' = indexes \union Indexed[q.tab]
            ELSE UNCHANGED <<stores, indexes>>
  /\ UNCHANGED <<rows, broken, again, shown, notes, used, excused, unexplained>>

\* A unique index that the records contradict, or no room: the upgrade is
\* aborted, and schemaMutex rejects for good.
Abort ==
  /\ requests # <<>> /\ Head(requests).upgrade
  /\ LET q == Head(requests)
     IN  /\ used.troubles[q.tab] < MaxTroubles[q.tab]
         /\ used' = [used EXCEPT !.troubles[q.tab] = @ + 1]
         /\ \A b \in Tabs : conn[b] # "open"
         /\ conn' = [conn EXCEPT ![q.tab] = None]
         /\ broken' = [broken EXCEPT ![q.tab] = TRUE]
         /\ requests' = Tail(requests)
         /\ job' = [job EXCEPT ![q.tab][q.slot].behind = TRUE]
  /\ UNCHANGED <<stores, indexes, rows, again, shown, notes, excused, unexplained>>

(***************************************************************************)
(* Transactions                                                            *)
(***************************************************************************)
Ready(b, s, name) ==
  /\ Waits(b, s) /\ Now(b, s).call = name
  /\ conn[b] = "open" /\ ~job[b][s].stale

\* A transaction on a store that is missing fails; clearing takes those there are.
Missing(b, s) == job[b][s].kind \notin {"clear", "wipe"} /\ ~(job[b][s].tables \subseteq stores)

Read(b, s) ==
  /\ Ready(b, s, "read") /\ ~Missing(b, s)
  /\ LET j == job[b][s]
         seen == rows \intersect j.tables
     IN  job' = IF j.kind = "delete" /\ seen = {}
                THEN [job EXCEPT ![b][s] = Idle]      \* there is nothing to delete
                ELSE Advanced(job, b, s, IF j.kind \in {"clear", "fetch"} THEN seen ELSE {})
  /\ excused' = [excused EXCEPT ![b] = @ /\ s # "fetch"]
  /\ UNCHANGED <<stores, indexes, rows, requests, tabVars, used, unexplained>>

\* Whom the change is told of once the transaction is complete: a batch from the
\* server announces all its changes, clear those it saw, wipe none.
Told(j) ==
  CASE j.kind = "wipe" -> {}
    [] j.kind = "clear" -> j.seen
    [] OTHER -> j.tables

Telling(watched) ==
  [kind |-> "tell", tables |-> IF watched THEN {Watched} ELSE {}, todo |-> <<Call("tell")>>,
   asked |-> FALSE, seen |-> {}, stale |-> FALSE, overtaken |-> FALSE, behind |-> FALSE]

\* Which changes of the server win is decided in TetherSync: any may.
RowsAfter(j) ==
  CASE j.kind = "put" -> {rows \union j.tables}
    [] j.kind = "delete" -> {rows \ j.tables}
    [] j.kind = "remote" -> {(rows \ j.tables) \union new : new \in SUBSET j.tables}
    [] OTHER -> {{}}

Write(b, s) ==
  /\ Ready(b, s, "write") /\ ~Missing(b, s)
  /\ rows' \in RowsAfter(job[b][s])
  /\ LET quiet == /\ Watched \notin Told(job[b][s])
                  /\ (Watched \in rows) # (Watched \in rows')
     IN  excused' = [c \in Tabs |-> excused[c] \/ (quiet /\ c \in Watching)]
  /\ job' = [job EXCEPT ![b][s] = Telling(Watched \in Told(job[b][s]))]
  /\ UNCHANGED <<stores, indexes, requests, tabVars, used, unexplained>>

\* The registries of the tab are called, and the other tabs are sent a message.
AgainLost(b) == [again EXCEPT ![b] = b \in Watching /\ ~Active(b, "fetch")]
Again(b) == [again EXCEPT ![b] = b \in Watching]

Tell(b, s) ==
  /\ Active(b, s) /\ Now(b, s).call = "tell"
  /\ IF Watched \in job[b][s].tables
     THEN /\ again' = Again(b)
          /\ notes' = [c \in Tabs |-> notes[c] \/ (c # b /\ c \in Watching)]
     ELSE UNCHANGED <<again, notes>>
  /\ job' = [job EXCEPT ![b][s] = Idle]
  /\ UNCHANGED <<stores, indexes, rows, requests, conn, broken, shown, used, excused,
                 unexplained>>

Hear(b) ==
  /\ notes[b]
  /\ notes' = [notes EXCEPT ![b] = FALSE]
  /\ again' = Again(b)
  /\ UNCHANGED <<stores, indexes, rows, requests, conn, broken, job, shown, used,
                 excused, unexplained>>

\* The subscriber is called, unless another fetch has been asked for since.
Deliver(b) ==
  /\ Active(b, "fetch") /\ Now(b, "fetch").call = "deliver"
  /\ shown' = IF again[b] THEN shown ELSE [shown EXCEPT ![b] = job[b]["fetch"].seen]
  /\ job' = [job EXCEPT ![b]["fetch"] = Idle]
  /\ UNCHANGED <<stores, indexes, rows, requests, conn, broken, again, notes, used,
                 excused, unexplained>>

\* A call is rejected: the tab's schemaMutex is, the connection of the read was
\* closed before the write, or a store is missing.  subscribeAll ignores it.
Rejected(b, s) ==
  \/ broken[b] /\ job[b][s].behind
  \/ job[b][s].stale
  \/ /\ Waits(b, s) /\ conn[b] = "open" /\ Missing(b, s)
     /\ Now(b, s).call \in {"read", "write"}

Fail(b, s) ==
  /\ Active(b, s) /\ Rejected(b, s)
  /\ job' = [job EXCEPT ![b][s] = Idle]
  /\ excused' = [excused EXCEPT ![b] = @ \/ s = "fetch"]
  /\ unexplained' = (unexplained \/ ~(broken[b] \/ job[b][s].stale \/ job[b][s].overtaken))
  /\ UNCHANGED <<stores, indexes, rows, requests, tabVars, used>>

\* The page is loaded again.  What it had asked for is dropped; a change that it
\* wrote and did not announce is never announced.
Load(b) ==
  /\ used.troubles[b] < MaxTroubles[b]
  /\ \E s \in Slots : Active(b, s)
  /\ conn' = [conn EXCEPT ![b] = None]
  /\ broken' = [broken EXCEPT ![b] = FALSE]
  /\ again' = [again EXCEPT ![b] = b \in Watching]
  /\ shown' = [shown EXCEPT ![b] = None]
  /\ notes' = [notes EXCEPT ![b] = FALSE]
  /\ LET kept == {i \in DOMAIN requests : requests[i].tab # b}
         n == Cardinality(kept)
     IN  \E place \in [1 .. n -> kept] :      \* they stay in their order
           /\ \A i, j \in 1 .. n : i < j => place[i] < place[j]
           /\ requests' = [i \in 1 .. n |-> requests[place[i]]]
  /\ LET unsaid == \E s \in Slots : /\ Active(b, s) /\ Now(b, s).call = "tell"
                                    /\ Watched \in job[b][s].tables
     IN  excused' = [c \in Tabs |-> excused[c] \/ (unsaid /\ c # b /\ c \in Watching)]
  /\ job' = [job EXCEPT ![b] = [s \in Slots |-> Idle]]
  /\ used' = [used EXCEPT !.troubles[b] = @ + 1]
  /\ UNCHANGED <<stores, indexes, rows, unexplained>>

Next ==
  \/ Serve \/ Abort
  \/ \E b \in Tabs :
       \/ Start(b) \/ Fetch(b) \/ VersionChange(b) \/ Hear(b) \/ Deliver(b) \/ Load(b)
       \/ \E s \in Slots :
            \/ OpenDatabase(b, s) \/ EnsureDone(b, s) \/ EnsureUpgrades(b, s)
            \/ Read(b, s) \/ Write(b, s) \/ Tell(b, s) \/ Fail(b, s)

\* The browser serves requests, delivers events and runs what is ready.
Fairness ==
  /\ WF_vars(Serve)
  /\ \A b \in Tabs :
       /\ WF_vars(Fetch(b)) /\ WF_vars(VersionChange(b)) /\ WF_vars(Hear(b))
       /\ WF_vars(Deliver(b))
       /\ \A s \in Slots :
            /\ WF_vars(OpenDatabase(b, s) \/ EnsureDone(b, s) \/ EnsureUpgrades(b, s))
            /\ WF_vars(Read(b, s)) /\ WF_vars(Write(b, s))
            /\ WF_vars(Tell(b, s)) /\ WF_vars(Fail(b, s))

Spec == Init /\ [][Next]_vars /\ Fairness

(***************************************************************************)
(* Properties                                                              *)
(***************************************************************************)
\* Tables come into being under the hands of every operation without its caller
\* noticing (ensureTables, schemaMutex, onversionchange).  An operation or fetch
\* fails only if another tab overtook its upgrade, its connection was closed
\* between its two transactions, or an upgrade of its tab was aborted; and no
\* record is ever in a store that an upgrade did not make.
FailsOnlyInRace ==
  /\ ~unexplained
  /\ rows \subseteq stores /\ indexes \subseteq stores

\* When nothing more is to come, a subscriber has been given what the table
\* holds, whichever tab changed it and whatever fetch was under way, unless its
\* last fetch failed, the change was a wipe, slipped into a clear, or its page
\* was closed before it told anybody (subscribeAll, onLocalChangeBatch).
SubscribersCatchUp ==
  \A b \in Watching :
    \/ Active(b, "fetch") \/ again[b] \/ notes[b] \/ excused[b]
    \/ \E c \in Tabs, s \in Slots : Active(c, s) /\ Now(c, s).call = "tell"
    \/ shown[b] = rows \intersect {Watched}

\* Whatever is begun ends, with success or not: no tab waits for ever for another
\* to let go of the database, nor for its own schemaMutex, and fetches do not
\* start each other for ever.
JobsEnd == <>[](\A b \in Tabs : \A s \in Slots : ~Active(b, s))
=============================================================================
