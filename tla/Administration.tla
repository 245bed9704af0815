--------------------------- MODULE Administration ---------------------------
(***************************************************************************)
(* A table and those who administer it while a server starts, runs and     *)
(* stops: the program that declares it (declareTable in                    *)
(* src/server/server.ts), commands that reach the server over HTTP         *)
(* (src/server/admin.ts, http/admin.ts) or open the data themselves when   *)
(* they find no lock (src/cli/admin.ts), the settings in the registry and  *)
(* in the handles of src/server/storage/table.ts, and the rows that users, *)
(* commands and declarations put under settings that change.               *)
(*                                                                         *)
(* One server at a time has the lock (ServerLock).  A request is cut       *)
(* between getting the table and changing it.  The file engine makes a new *)
(* handle for each request, the sqlite engine keeps one per process.  The  *)
(* engines' modules have the rest of a table: deletion, limits, pruning    *)
(* and versions.  The settings here are the preset of permissions, private or  *)
(* shared, and a limit.  The table has one row; which of two puts wins is  *)
(* for LWW to say, so a put may be without effect.                         *)
(*                                                                         *)
(* BaseCopied and PartitionOne are slips the code might have made at the   *)
(* definition that follows each; only the tests of the properties use      *)
(* them.                                                                   *)
(***************************************************************************)
EXTENDS FiniteSets, Naturals

CONSTANTS Stores,     \* a subset of {"file", "sqlite"}
          Users,
          Nothing,        \* no table, no row, no user, no limit
          Tasks,       \* slots for what is under way
          Changes,     \* the partial settings that are asked for
          MaxAsked,    \* BOUND on requests
          MaxPuts,     \* BOUND on rows put by users
          MaxStarts    \* BOUND on starts of the server

Modes == {"private", "shared"}
Settings == [mode : Modes, max : Nat \union {Nothing}]
Shared == "__shared__"

\* A table is private or shared, what is asked for has the type of a setting, and
\* no user's id, which is drawn at random, is the name of the shared partition.
ASSUME AdministrationAssumption ==
  /\ Stores \subseteq {"file", "sqlite"}
  /\ Nothing \notin Settings
  /\ Shared \notin Users
  /\ \A change \in Changes :
       /\ "mode" \in DOMAIN change => change.mode \in Modes
       /\ "max" \in DOMAIN change => change.max \in Nat

VARIABLES
  store,     \* the engine of the data directory
  server,     \* "down", "open": it has the storage but not yet the lock,
              \* "up", "closing": it has given up the lock
  stored,     \* the settings in the registry, Nothing without a table
  cached,     \* the settings in the handle the server keeps, if it has one
  rows,       \* rows[p] : the row in partition p, [owner, secret]
  changelog,  \* the puts that were logged, [partition, row]
  task,       \* task[t] : what is under way
  asked, puts, starts,
  promised,   \* HISTORY VARIABLE: what the changes made so far amount to
  strayed     \* HISTORY VARIABLE: a change was made to a copy that was stale,
              \* or past a server without the lock, or to the server's handle alone

tableVars == <<store, server, stored, cached, rows, changelog, task, asked, puts, starts,
               promised, strayed>>
registry == <<stored, cached, promised, strayed>>
data == <<rows, changelog>>

Partitions == {Shared} \union Users
NoLimit == Nothing
NoTask == [step |-> "idle"]

\* The settings of a table that is made with `change`, and what an update makes
\* of settings: there a limit of 0 is no limit.
Created(change) ==
  [f \in {"mode", "max"} |->
     IF f \in DOMAIN change THEN change[f] ELSE IF f = "mode" THEN "private" ELSE NoLimit]
Updated(settings, change) ==
  [f \in DOMAIN settings |->
     IF f \notin DOMAIN change THEN settings[f]
     ELSE IF f = "max" /\ change.max = 0 THEN NoLimit ELSE change[f]]

\* getTable of the server's storage: the handle it keeps, or the registry.
View == IF cached # Nothing THEN cached ELSE stored
Kept(settings) == IF store = "sqlite" THEN settings ELSE Nothing

TableInit ==
  /\ store \in Stores /\ server = "down"
  /\ stored = Nothing /\ cached = Nothing /\ promised = Nothing
  /\ rows = [p \in Partitions |-> Nothing] /\ changelog = {}
  /\ task = [t \in Tasks |-> NoTask]
  /\ asked = 0 /\ puts = 0 /\ starts = 0 /\ strayed = FALSE

-----------------------------------------------------------------------------
(* The server                                                              *)

Open ==
  /\ server = "down" /\ starts < MaxStarts
  /\ server' = "open" /\ starts' = starts + 1
  /\ UNCHANGED <<store, registry, data, task, asked, puts>>

\* listen takes the lock and answers requests, close gives it up first.
Listen ==
  /\ server = "open" /\ server' = "up"
  /\ UNCHANGED <<store, registry, data, task, asked, puts, starts>>

Close ==
  /\ server = "up" /\ server' = "closing"
  /\ UNCHANGED <<store, registry, data, task, asked, puts, starts>>

\* The process ends, by itself or not, and with it what it has under way.
Exit ==
  /\ server # "down" /\ server' = "down" /\ cached' = Nothing
  /\ task' = [t \in Tasks |->
       IF task[t] # NoTask /\ task[t].route = "direct" THEN task[t] ELSE NoTask]
  /\ UNCHANGED <<store, stored, promised, strayed, data, asked, puts, starts>>

-----------------------------------------------------------------------------
(* Requests that change settings                                           *)

\* resolveAdminTarget: a command goes to the server if it finds a lock.
Route == IF server = "up" THEN "remote" ELSE "direct"

Asks(t, kind, route, change, author) ==
  /\ task[t] = NoTask /\ asked < MaxAsked /\ asked' = asked + 1
  /\ task' = [task EXCEPT ![t] =
       [step |-> "get", kind |-> kind, route |-> route, change |-> change,
        author |-> author, copy |-> Nothing]]
  /\ UNCHANGED <<store, server, registry, data, puts, starts>>

CreateTable(t, change) == Asks(t, "create", Route, change, Nothing)
UpdateTable(t, change) == Asks(t, "update", Route, change, Nothing)
PutRecord(t, author) == Asks(t, "put", Route, <<>>, author)

\* handleTablesCommand (add, update) and handleRecordsCommand (put, rm)
TablesCommand(t) == \E change \in Changes : CreateTable(t, change) \/ UpdateTable(t, change)
RecordsCommand(t) == \E author \in Users \union {Nothing} : PutRecord(t, author)

\* declareTable, with settings and a row for `author`
DeclareTable(t, change, author) ==
  server \in {"open", "up"} /\ Asks(t, "declare", "own", change, author)

\* A request that finds nobody listening fails, and an update of no table.  Only
\* createTable does not get the table first.
Reached(t) == task[t].route = "remote" => server = "up"
Found(t) == IF task[t].route = "direct" THEN stored ELSE View
Looks(t) == task[t].kind # "create"
GetTable(t) ==
  /\ task[t].step = "get" /\ task[t].kind # "put"
  /\ IF ~Reached(t) \/ (task[t].kind = "update" /\ Found(t) = Nothing)
     THEN /\ task' = [task EXCEPT ![t] = NoTask]
          /\ UNCHANGED cached
     ELSE /\ task' = [task EXCEPT ![t].step = "change",
                                  ![t].copy = IF Looks(t) THEN Found(t) ELSE Nothing]
          /\ cached' = IF Looks(t) /\ task[t].route # "direct" /\ stored # Nothing
                       THEN Kept(View) ELSE cached
  /\ UNCHANGED <<store, server, stored, promised, strayed, data, asked, puts, starts>>

BaseCopied(t) == task[t].copy

\* What updateSettings merges with: the handle the process keeps may have changed
\* since the request got it, a handle of its own has not.
OwnHandle(t) == store = "file" \/ task[t].route = "direct"
Base(t) == IF OwnHandle(t) THEN task[t].copy ELSE cached

\* assertNoActiveServerLock
Refused(t) == task[t].route = "direct" /\ server = "up"

Stored(t, settings, promise) ==
  /\ stored' = settings /\ promised' = promise
  /\ cached' = IF task[t].route = "direct" THEN cached ELSE Kept(settings)

AfterChange(t) ==
  task' = [task EXCEPT ![t] =
    IF task[t].kind = "declare" /\ task[t].author # Nothing
    THEN [task[t] EXCEPT !.step = "read"] ELSE NoTask]

Fails(t) == task' = [task EXCEPT ![t] = NoTask] /\ UNCHANGED registry

\* The registry is written, with what the change makes.
Makes(t) ==
  /\ AfterChange(t)
  /\ IF task[t].copy = Nothing
     THEN Stored(t, Created(task[t].change), Created(task[t].change))
     ELSE Stored(t, Updated(Base(t), task[t].change), Updated(promised, task[t].change))
  /\ strayed' = \/ strayed
                \/ task[t].copy # Nothing /\ OwnHandle(t) /\ stored # task[t].copy
                \/ task[t].route = "direct" /\ server # "up" /\ cached # Nothing

\* The registry cannot be written: the database is busy, or the disk fails.  The
\* handle has its new settings by then, and the server keeps it.
Breaks(t) ==
  /\ task' = [task EXCEPT ![t] = NoTask]
  /\ cached' = IF task[t].copy = Nothing \/ OwnHandle(t) THEN cached
               ELSE Updated(cached, task[t].change)
  /\ strayed' = (strayed \/ cached' # cached)
  /\ UNCHANGED <<stored, promised>>

\* createTable, which looks again whether there is one, or updateSettings
ChangeTable(t) ==
  /\ task[t].step = "change"
  /\ IF Refused(t) \/ (task[t].copy = Nothing /\ stored # Nothing) THEN Fails(t)
     ELSE Makes(t) \/ Breaks(t)
  /\ UNCHANGED <<store, server, data, asked, puts, starts>>

-----------------------------------------------------------------------------
(* Rows                                                                    *)

PartitionOne(settings, actor) == Shared

\* applyChanges: the rows of users in a private table are apart.
PartitionOf(settings, actor) ==
  IF settings.mode = "private" /\ actor # Nothing THEN actor ELSE Shared

\* assertCanApplyChange: updates and deletes are for the owner and the administrator.
Allowed(actor, row) == actor = Nothing \/ row = Nothing \/ row.owner = actor

Row(settings, actor, row) ==
  [owner |-> IF row # Nothing THEN row.owner ELSE actor,
   secret |-> IF settings.mode = "private" THEN actor ELSE Nothing]

\* Somebody puts the row under these settings, or deletes it, or the change loses.
\* A put is logged with the row; a deletion is logged without, so it is left out.
Applies(settings, actor) ==
  LET p == PartitionOf(settings, actor)
  IN  IF settings = Nothing \/ ~Allowed(actor, rows[p]) THEN UNCHANGED data
      ELSE \E row \in {rows[p], Nothing, Row(settings, actor, rows[p])} :
             /\ rows' = [rows EXCEPT ![p] = row]
             /\ changelog' = changelog \union
                  (IF row = Nothing THEN {} ELSE {[partition |-> p, row |-> row]})

\* A client of a running server
UserPut(u) ==
  /\ server = "up" /\ puts < MaxPuts /\ puts' = puts + 1
  /\ Applies(View, u)
  /\ cached' = Kept(View)
  /\ UNCHANGED <<store, server, stored, promised, strayed, task, asked, starts>>

\* POST /admin/records, or applyChanges of the command itself, which does not look
\* at the lock again
ApplyAdminChange(t) ==
  /\ task[t].step = "get" /\ task[t].kind = "put"
  /\ IF Reached(t) THEN Applies(Found(t), task[t].author) ELSE UNCHANGED data
  /\ cached' = IF task[t].route = "remote" /\ server = "up" THEN Kept(View) ELSE cached
  /\ task' = [task EXCEPT ![t] = NoTask]
  /\ UNCHANGED <<store, server, stored, promised, strayed, asked, puts, starts>>

\* insertRows: the rows the administrator finds, all in the shared partition, are
\* left alone, the others are put one by one as their authors.
ReadRows(t) ==
  /\ task[t].step = "read"
  /\ task' = [task EXCEPT ![t] =
       IF rows[Shared] # Nothing THEN NoTask ELSE [task[t] EXCEPT !.step = "insert"]]
  /\ UNCHANGED <<store, server, registry, data, asked, puts, starts>>

InsertRow(t) ==
  /\ task[t].step = "insert"
  /\ Applies(View, task[t].author)
  /\ task' = [task EXCEPT ![t] = NoTask]
  /\ UNCHANGED <<store, server, registry, asked, puts, starts>>

TableNext ==
  \/ Open \/ Listen \/ Close \/ Exit
  \/ \E u \in Users : UserPut(u)
  \/ \E t \in Tasks :
       \/ TablesCommand(t) \/ RecordsCommand(t)
       \/ \E change \in Changes, author \in Users \union {Nothing} :
            DeclareTable(t, change, author)
       \/ GetTable(t) \/ ChangeTable(t)
       \/ ApplyAdminChange(t) \/ ReadRows(t) \/ InsertRow(t)

TableSpec == TableInit /\ [][TableNext]_tableVars

-----------------------------------------------------------------------------
(* Properties                                                              *)

\* No change of settings is lost: the registry holds what all changes amount to,
\* in the order they were made, whatever requests overlap in a server, and the
\* handle that a server goes by says the same (table.ts:66-90, sqlite.ts:185-194).
\* Not so when two requests got handles of their own before either was done (the
\* file engine makes one for each, file.ts:107-115), when a command changed the
\* data past a server that had opened it and did not have the lock, nor when the
\* registry could not be written after the handle was changed (table.ts:87-88).
SettingsStand == strayed \/ (stored = promised /\ cached \in {Nothing, stored})

\* A snapshot has the row of one partition, and in a private table only what the
\* user owns.
Readable(u, row) == View.mode = "private" => row.owner = u
SnapshotOf(u) ==
  LET p == IF View.mode = "private" THEN u ELSE Shared
  IN  {row \in {rows[p]} : row # Nothing /\ Readable(u, row)}

\* What the engine has logged for a diff, the file engine by partitions, sqlite all of
\* it; and what the user is sent of that.  Pruning, which is left out, makes it less.
LoggedFor(u) ==
  {e.row : e \in {d \in changelog : store = "file" => d.partition \in {Shared, u}}}
DiffOf(u) == {row \in LoggedFor(u) : Readable(u, row)}

\* Nobody else's: what is put while the table is private is for its author.
ForNobodyElse(u, seen) == \A row \in seen : row.secret \in {Nothing, u}

\* A row that a user put while the table was private is in no other user's snapshot,
\* whatever becomes of the settings afterwards (applyChanges keeps such rows in
\* partitions, sqlite.ts:433-436), nor in another user's diff of a table that is
\* private, or of any table with the file engine, which has a log for each
\* partition.  The sqlite engine has one log and reads all of it (sqlite.ts:731):
\* what is kept apart in a diff is then up to the settings of the moment.
PrivateStays ==
  View # Nothing => \A u \in Users :
    /\ ForNobodyElse(u, SnapshotOf(u))
    /\ store = "file" \/ View.mode = "private" => ForNobodyElse(u, DiffOf(u))

\* Diffs keep such rows apart as snapshots do: it makes no difference to what a
\* client is shown of a table that was private by which of the two it catches up
\* (getChangesSince, storage.ts:259; filter.ts:80-174).
DiffsKeepApart ==
  View # Nothing => \A u \in Users : ForNobodyElse(u, DiffOf(u))

\* A declared row never replaces one that is there (table.ts:259).  It does in a
\* private table, where the administrator does not see the rows of their authors.
SeedsKeepRows ==
  [][\A t \in Tasks : InsertRow(t) =>
       \A p \in Partitions : rows[p] # Nothing => rows'[p] = rows[p]]_tableVars
=============================================================================
