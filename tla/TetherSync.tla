----------------------------- MODULE TetherSync -----------------------------
(***************************************************************************)
(* Two-way sync between clients and one server, end to end: the client's   *)
(* tables, outbox and lastSyncSeq in IndexedDB (src/client/table.ts,       *)
(* src/client/storage/storage.ts), its sync coordinator                    *)
(* (src/client/sync/sync.ts), and the server's handlers for Auth and       *)
(* ChangeBatch messages (src/server/sync.ts) over its storage.             *)
(*                                                                         *)
(* One shared table that everybody may read and write is modelled.  The    *)
(* server's storage is the last-write-wins store with its changelog: every *)
(* operation on it is one step.  Between the awaits of a handler, handlers *)
(* of other sockets run; those of one socket run one after the other.      *)
(*                                                                         *)
(* A record has no data: two puts of a client under one key with the same  *)
(* timestamp are not told apart.                                           *)
(*                                                                         *)
(* NotReleased, LeftNone, OverwrittenAlways, ChangesAfterNext and          *)
(* AfterSilent are slips the code might have made at the definition that   *)
(* follows each; nothing uses them but the tests of the properties.        *)
(***************************************************************************)
EXTENDS LWW, Sequences

CONSTANTS Clients,
          Keys,          \* record ids
          Ops,           \* what clients do: a subset of {"put", "delete"}
          RankOf,        \* RankOf[c] : ranks of the ids c may draw, one per load
          MaxTs,         \* BOUND on timestamps
          MaxWrites,     \* BOUND MaxWrites[c] : writes of client c
          MaxConns,      \* BOUND MaxConns[c] : connections of client c
          MaxLoads,      \* BOUND MaxLoads[c] : page loads of client c
          MaxPrunes,     \* BOUND on prunings of the log
          PushLimit,     \* outbox entries pushed in a batch (500)
          WritesBetween  \* may a local write be committed between the two
                         \* transactions in which a remote batch is applied?

ASSUME SyncAssumption ==
  /\ Ops \subseteq {"put", "delete"}
  /\ RankOf \in [Clients -> SUBSET (Nat \ {0})]
  /\ \A c, d \in Clients : c # d => RankOf[c] \cap RankOf[d] = {}
  /\ {MaxTs, MaxPrunes} \subseteq Nat /\ PushLimit \in Nat \ {0}
  /\ MaxWrites \in [Clients -> Nat] /\ MaxConns \in [Clients -> Nat]
  /\ MaxLoads \in [Clients -> Nat]
  /\ WritesBetween \in BOOLEAN

VARIABLES
  (* The server *)
  reg,        \* reg[k] : the record stored under k, tombstones included
  log,        \* the changelog, a set of entries with their `seq`
  minSeq,     \* where it starts
  seq,        \* globalSeq
  prunes,     \* prunings so far
  session,    \* session[s] : the client id of a socket's session, 0 without one
  closed,     \* the sockets whose closing the server has seen
  work,       \* work[s] : the handler at work for socket s
  toServer,   \* toServer[s] : messages on their way, or queued, at the server
  (* Each client *)
  cid,        \* clientId, drawn anew by every page load
  loads,      \* page loads so far
  conn,       \* connections so far; the last is <<c, conn[c]>>
  link,       \* "open" while the client's end of that socket is
  status,     \* SyncStatus
  inbox,      \* messages on their way to, or queued at, the client
  capture,    \* what applyBatchRecords has read, between its transactions
  store,      \* store[c][k] : the client's table
  lastSync,   \* the metadata `lastSyncSeq`
  made,       \* made[c] : the changes of c; the n-th has the local id n
  outbox,     \* the local ids in the outbox store
  pending,    \* the local ids of the batch that awaits its acknowledgement
  timer,      \* is pushTimer set?
  draft       \* the change that a put or delete has worked out, or <<>>

serverVars == <<reg, log, minSeq, seq, prunes, session, closed, work>>
localVars == <<store, made, outbox, draft>>
vars == <<serverVars, toServer, cid, loads, conn, link, status, inbox, capture,
          lastSync, pending, timer, localVars>>

\* The n-th connection of client c is the socket <<c, n>>.
Socks == UNION {{c} \X (1..MaxConns[c]) : c \in Clients}
Idle == [pc |-> "idle"]
Nothing == << >>

Init ==
  /\ reg = [k \in Keys |-> NoRecord] /\ log = {} /\ minSeq = 0 /\ seq = 0
  /\ prunes = 0
  /\ session = [s \in Socks |-> 0] /\ closed = {} /\ work = [s \in Socks |-> Idle]
  /\ toServer = [s \in Socks |-> << >>]
  /\ cid \in [Clients -> UNION {RankOf[c] : c \in Clients}]
  /\ \A c \in Clients : cid[c] \in RankOf[c]
  /\ loads = [c \in Clients |-> 1] /\ conn = [c \in Clients |-> 0]
  /\ link = [c \in Clients |-> "closed"]
  /\ status = [c \in Clients |-> "disconnected"]
  /\ inbox = [c \in Clients |-> << >>] /\ capture = [c \in Clients |-> Nothing]
  /\ store = [c \in Clients |-> [k \in Keys |-> NoRecord]]
  /\ lastSync = [c \in Clients |-> 0]
  /\ made = [c \in Clients |-> << >>] /\ outbox = [c \in Clients |-> {}]
  /\ pending = [c \in Clients |-> {}] /\ timer = [c \in Clients |-> FALSE]
  /\ draft = [c \in Clients |-> Nothing]

-----------------------------------------------------------------------------
(* Local writes                                                            *)

\* createBatchMutations: a put or delete reads the record and works out its
\* change; deleting what is not there does nothing.
Draft(c, k, op, now) ==
  LET existing == store[c][k]
      ts == IF now > existing.ts THEN now ELSE existing.ts + 1
  IN  /\ draft[c] = Nothing /\ Len(made[c]) < MaxWrites[c]
      /\ op = "delete" => existing.op = "put"
      /\ ts <= MaxTs
      /\ draft' = [draft EXCEPT ![c] = [key |-> k, op |-> op, ts |-> ts, cid |-> cid[c]]]
      /\ UNCHANGED <<serverVars, toServer, cid, loads, conn, link, status, inbox,
                     capture, lastSync, pending, timer, store, made, outbox>>

\* applyLocalChanges: one transaction writes the record, a delete just
\* removing it, and queues the change; onLocalChange sets the push timer.
CommitLocal(c) ==
  LET change == draft[c]
  IN  /\ change # Nothing
      /\ WritesBetween \/ capture[c] = Nothing
      /\ store' = [store EXCEPT ![c][change.key] =
                     IF change.op = "delete" THEN NoRecord ELSE RecordOf(change)]
      /\ made' = [made EXCEPT ![c] = Append(@, change)]
      /\ outbox' = [outbox EXCEPT ![c] = @ \cup {Len(made[c]) + 1}]
      /\ timer' = [timer EXCEPT ![c] = TRUE]
      /\ draft' = [draft EXCEPT ![c] = Nothing]
      /\ UNCHANGED <<serverVars, toServer, cid, loads, conn, link, status, inbox,
                     capture, lastSync, pending>>

-----------------------------------------------------------------------------
(* The client's sync coordinator                                           *)

\* getPendingOutbox(500): the oldest entries.
Oldest(ids) == {n \in ids : Cardinality({m \in ids : m < n}) < PushLimit}

\* Changes of c in the order of their local ids.
InOrder(c, ids) ==
  [i \in 1..Cardinality(ids) |->
     made[c][CHOOSE n \in ids : Cardinality({m \in ids : m <= n}) = i]]

\* pushOutbox, with `held` the batch that awaits its acknowledgement and
\* `queued` the outbox.
PushOutbox(c, held, queued) ==
  IF held = {} /\ status'[c] = "connected" /\ link[c] = "open" /\ queued # {}
  THEN /\ pending' = [pending EXCEPT ![c] = Oldest(queued)]
       /\ toServer' = [toServer EXCEPT ![<<c, conn[c]>>] =
            Append(@, [type |-> "batch", changes |-> InOrder(c, Oldest(queued))])]
  ELSE /\ pending' = [pending EXCEPT ![c] = held]
       /\ UNCHANGED toServer

FireTimer(c) ==
  /\ timer[c]
  /\ timer' = [timer EXCEPT ![c] = FALSE]
  /\ UNCHANGED status
  /\ PushOutbox(c, pending[c], outbox[c])
  /\ UNCHANGED <<serverVars, cid, loads, conn, link, inbox, capture, lastSync, localVars>>

NotReleased(c) == pending[c]

\* An acknowledgement and the end of a connection release the batch that was sent.
Released(c) == {}

\* The socket opens and sendAuth sends Auth.  TIMING: reconnecting takes a
\* second at least, in which the messages received before are dealt with.
Connect(c) ==
  /\ link[c] = "closed" /\ inbox[c] = << >> /\ conn[c] < MaxConns[c]
  /\ link' = [link EXCEPT ![c] = "open"]
  /\ conn' = [conn EXCEPT ![c] = @ + 1]
  /\ status' = [status EXCEPT ![c] = "connecting"]
  /\ toServer' = [toServer EXCEPT ![<<c, conn[c] + 1>>] =
       << [type |-> "auth", cid |-> cid[c], since |-> lastSync[c]] >>]
  /\ UNCHANGED <<serverVars, cid, loads, inbox, capture, lastSync, pending, timer,
                 localVars>>

\* handleConnectionClose: the connection is lost with what has not arrived.
\* What has is still dealt with.
Disconnect(c) ==
  /\ link[c] = "open" /\ conn[c] < MaxConns[c]
  /\ link' = [link EXCEPT ![c] = "closed"]
  /\ status' = [status EXCEPT ![c] = "disconnected"]
  /\ pending' = [pending EXCEPT ![c] = Released(c)]
  /\ \E n \in 0..Len(inbox[c]) :
       /\ capture[c] # Nothing => n > 0
       /\ inbox' = [inbox EXCEPT ![c] = SubSeq(@, 1, n)]
  /\ UNCHANGED <<serverVars, toServer, cid, loads, conn, capture, lastSync, timer,
                 localVars>>

\* The page is closed, or crashes, and is loaded again: IndexedDB remains, and
\* the new Storage draws a new clientId.
Reload(c) ==
  /\ loads[c] < MaxLoads[c] /\ conn[c] < MaxConns[c]
  /\ loads' = [loads EXCEPT ![c] = @ + 1]
  /\ \E rank \in RankOf[c] \ {cid[c]} : cid' = [cid EXCEPT ![c] = rank]
  /\ link' = [link EXCEPT ![c] = "closed"]
  /\ status' = [status EXCEPT ![c] = "disconnected"]
  /\ inbox' = [inbox EXCEPT ![c] = << >>]
  /\ capture' = [capture EXCEPT ![c] = Nothing]
  /\ pending' = [pending EXCEPT ![c] = {}]
  /\ timer' = [timer EXCEPT ![c] = FALSE]
  /\ draft' = [draft EXCEPT ![c] = Nothing]
  /\ UNCHANGED <<serverVars, toServer, conn, lastSync, store, made, outbox>>

Receives(c, types) == inbox[c] # << >> /\ Head(inbox[c]).type \in types
Received(c) == inbox' = [inbox EXCEPT ![c] = Tail(@)]

\* AuthSuccess.  The status changes even when the socket has closed since.
HandleAuthSuccess(c) ==
  /\ Receives(c, {"authSuccess"}) /\ Received(c)
  /\ status' = [status EXCEPT ![c] = "connected"]
  /\ PushOutbox(c, pending[c], outbox[c])
  /\ UNCHANGED <<serverVars, cid, loads, conn, link, capture, lastSync, timer, localVars>>

LeftNone(c) == {}

\* removeOutboxEntries, for those of the batch that is acknowledged.
Left(c) == outbox[c] \ pending[c]

\* ChangeAck
HandleAck(c) ==
  /\ Receives(c, {"ack"}) /\ Received(c)
  /\ outbox' = [outbox EXCEPT ![c] = Left(c)]
  /\ lastSync' = [lastSync EXCEPT ![c] = Head(inbox[c]).seq]
  /\ UNCHANGED status
  /\ PushOutbox(c, Released(c), Left(c))
  /\ UNCHANGED <<serverVars, cid, loads, conn, link, capture, timer, store, made, draft>>

\* applyBatchRecords: a transaction reads the records that the message is for...
Capture(c) ==
  /\ Receives(c, {"snapshot", "diff", "broadcast"}) /\ capture[c] = Nothing
  /\ Head(inbox[c]).changes # {}
  /\ capture' = [capture EXCEPT ![c] = store[c]]
  /\ UNCHANGED <<serverVars, toServer, cid, loads, conn, link, status, inbox, lastSync,
                 pending, timer, localVars>>

OverwrittenAlways(now, existing, changes) ==
  [k \in Keys |->
     IF \A e \in changes : e.key # k THEN now[k]
     ELSE LET last == CHOOSE e \in changes :
                        e.key = k /\ \A f \in changes : f.key = k => f.seq <= e.seq
          IN  IF last.op = "delete" THEN NoRecord ELSE RecordOf(last)]

\* ...and another one writes each change that wins over what was read.
Overwritten(now, existing, changes) ==
  [k \in Keys |->
     LET wins == {e \in changes : e.key = k /\ ShouldOverwrite(e, existing[k])}
     IN  IF wins = {} THEN now[k]
         ELSE LET last == CHOOSE e \in wins : \A f \in wins : f.seq <= e.seq
              IN  IF last.op = "delete" THEN NoRecord ELSE RecordOf(last)]

\* SyncSnapshot, SyncDiff and BroadcastChanges; a push follows all but the last.
HandleChanges(c) ==
  LET msg == Head(inbox[c])
  IN  /\ Receives(c, {"snapshot", "diff", "broadcast"}) /\ Received(c)
      /\ capture[c] # Nothing \/ msg.changes = {}
      /\ store' = [store EXCEPT ![c] = Overwritten(@, capture[c], msg.changes)]
      /\ capture' = [capture EXCEPT ![c] = Nothing]
      /\ lastSync' = [lastSync EXCEPT ![c] = msg.seq]
      /\ UNCHANGED status
      /\ IF msg.type = "broadcast" THEN UNCHANGED <<pending, toServer>>
         ELSE PushOutbox(c, pending[c], outbox[c])
      /\ UNCHANGED <<serverVars, cid, loads, conn, link, timer, made, outbox, draft>>

-----------------------------------------------------------------------------
(* The server's handlers                                                   *)

IsOpen(s) == link[s[1]] = "open" /\ conn[s[1]] = s[2]

\* send: to a socket that is closed nothing is sent.
SendAll(msgs) ==
  inbox' = [c \in Clients |->
              IF IsOpen(<<c, conn[c]>>) THEN inbox[c] \o msgs[<<c, conn[c]>>]
              ELSE inbox[c]]
Send(s, msgs) == SendAll([t \in Socks |-> IF t = s THEN msgs ELSE << >>])

clientVars == <<cid, loads, conn, link, status, capture, lastSync, pending, timer,
                localVars>>

\* handleMessage for Auth, until its first await: the socket has a session.
RecvAuth(s) ==
  LET msg == Head(toServer[s])
  IN  /\ work[s] = Idle /\ toServer[s] # << >> /\ msg.type = "auth"
      /\ toServer' = [toServer EXCEPT ![s] = Tail(@)]
      /\ session' = [session EXCEPT ![s] = msg.cid]
      /\ work' = [work EXCEPT ![s] = [pc |-> "sync", since |-> msg.since]]
      /\ UNCHANGED <<reg, log, minSeq, seq, prunes, closed, inbox, clientVars>>

IsSnapshotRequired(from) == (from < minSeq /\ minSeq > 0) \/ from > seq

ChangesAfterNext(from) == {e \in log : e.seq > from + 1}
ChangesSince(from) == {e \in log : e.seq > from}

\* AuthSuccess is sent, and performSync reads the sequence number and, unless
\* a snapshot is called for, the changes since the client's.
ReadSync(s) ==
  LET since == work[s].since
      snapshot == since = 0 \/ IsSnapshotRequired(since)
  IN  /\ work[s].pc = "sync"
      /\ Send(s, << [type |-> "authSuccess"] >>)
      /\ work' = [work EXCEPT ![s] =
           IF snapshot THEN [pc |-> "snapshot", seq |-> seq]
           ELSE [pc |-> "diff", seq |-> seq, changes |-> ChangesSince(since)]]
      /\ UNCHANGED <<reg, log, minSeq, seq, prunes, session, closed, toServer, clientVars>>

\* A stored record as a change on the wire.
Told(k, n) == [key |-> k, op |-> reg[k].op, ts |-> reg[k].ts, cid |-> reg[k].cid, seq |-> n]

SendDiff(s) ==
  /\ work[s].pc = "diff"
  /\ Send(s, << [type |-> "diff", changes |-> work[s].changes, seq |-> work[s].seq] >>)
  /\ work' = [work EXCEPT ![s] = Idle]
  /\ UNCHANGED <<reg, log, minSeq, seq, prunes, session, closed, toServer, clientVars>>

\* sendSyncSnapshot reads the records after the sequence number; it leaves
\* tombstones out.
SendSnapshot(s) ==
  /\ work[s].pc = "snapshot"
  /\ Send(s, << [type |-> "snapshot", seq |-> work[s].seq,
                 changes |-> {Told(k, 0) : k \in {j \in Keys : reg[j].op = "put"}}] >>)
  /\ work' = [work EXCEPT ![s] = Idle]
  /\ UNCHANGED <<reg, log, minSeq, seq, prunes, session, closed, toServer, clientVars>>

\* handleChangeBatchMessage, until its first await: the changes are stamped
\* with the session's client id.
RecvBatch(s) ==
  LET msg == Head(toServer[s])
      stamped == [i \in DOMAIN msg.changes |-> [msg.changes[i] EXCEPT !.cid = session[s]]]
  IN  /\ work[s] = Idle /\ toServer[s] # << >> /\ msg.type = "batch"
      /\ session[s] # 0
      /\ toServer' = [toServer EXCEPT ![s] = Tail(@)]
      /\ work' = [work EXCEPT ![s] = [pc |-> "apply", batch |-> stamped]]
      /\ UNCHANGED <<reg, log, minSeq, seq, prunes, session, closed, inbox, clientVars>>

\* A batch on a socket without a session is answered by AuthError, which nobody
\* receives: a client only pushes what AuthSuccess has invited.
RefuseBatch(s) ==
  /\ work[s] = Idle /\ toServer[s] # << >> /\ Head(toServer[s]).type = "batch"
  /\ session[s] = 0
  /\ toServer' = [toServer EXCEPT ![s] = Tail(@)]
  /\ UNCHANGED <<serverVars, inbox, clientVars>>

\* applyChanges
Apply(s) ==
  LET batch == work[s].batch
      applied == {[key |-> batch[i].key, op |-> batch[i].op, ts |-> batch[i].ts,
                   cid |-> batch[i].cid, seq |-> SeqAt(reg, batch, seq, i)] :
                    i \in AppliedAt(reg, batch)}
      keys == {batch[i].key : i \in DOMAIN batch}
  IN  /\ work[s].pc = "apply"
      /\ reg' = Merge(reg, batch)
      /\ seq' = SeqAfter(reg, batch, seq)
      /\ log' = log \cup applied
      /\ minSeq' = IF minSeq = 0 /\ seq' > 0 THEN 1 ELSE minSeq
      /\ work' = [work EXCEPT ![s] =
           [pc |-> "resolve", applied |-> applied,
            skipped |-> keys \ {e.key : e \in applied}]]
      /\ UNCHANGED <<prunes, session, closed, toServer, inbox, clientVars>>

AfterSilent(w) == IF w.applied # {} THEN [w EXCEPT !.pc = "broadcast"] ELSE Idle

\* applyChanges looks up user names, which yields, and returns the sequence
\* number of that moment.
ReturnSeq(s) ==
  /\ work[s].pc = "resolve"
  /\ work' = [work EXCEPT ![s] = [pc |-> "ack", seq |-> seq, applied |-> @.applied,
                                 skipped |-> @.skipped]]
  /\ UNCHANGED <<reg, log, minSeq, seq, prunes, session, closed, toServer, inbox,
                 clientVars>>

\* What a batch's handler does next: reconcile, broadcast or nothing more.
After(w) ==
  IF w.pc = "ack" /\ w.skipped # {} THEN [w EXCEPT !.pc = "reconcile"]
  ELSE IF w.applied # {} THEN [w EXCEPT !.pc = "broadcast"]
  ELSE Idle

SendAck(s) ==
  /\ work[s].pc = "ack"
  /\ Send(s, << [type |-> "ack", seq |-> work[s].seq] >>)
  /\ work' = [work EXCEPT ![s] = After(work[s])]
  /\ UNCHANGED <<reg, log, minSeq, seq, prunes, session, closed, toServer, clientVars>>

\* The records that changes of the batch lost to are sent back, for the ids of
\* which no change was applied.
Reconcile(s) ==
  /\ work[s].pc = "reconcile"
  /\ Send(s, << [type |-> "diff", seq |-> work[s].seq,
                 changes |-> {Told(k, work[s].seq) : k \in work[s].skipped}] >>)
  /\ work' = [work EXCEPT ![s] = After(work[s])]
  /\ UNCHANGED <<reg, log, minSeq, seq, prunes, session, closed, toServer, clientVars>>

\* broadcastChanges: to every other session.
Broadcast(s) ==
  LET msg == [type |-> "broadcast", changes |-> work[s].applied, seq |-> work[s].seq]
  IN  /\ work[s].pc = "broadcast"
      /\ SendAll([t \in Socks |-> IF t # s /\ session[t] # 0 THEN << msg >> ELSE << >>])
      /\ work' = [work EXCEPT ![s] = Idle]
      /\ UNCHANGED <<reg, log, minSeq, seq, prunes, session, closed, toServer, clientVars>>

\* cleanupConnection: the server learns that the socket has closed.  What was
\* not yet received is lost; a handler at work goes on, and what is queued
\* behind it is handled.
Hangup(s) ==
  /\ s[2] <= conn[s[1]] /\ ~IsOpen(s) /\ s \notin closed
  /\ closed' = closed \cup {s}
  /\ session' = [session EXCEPT ![s] = 0]
  /\ \E n \in 0..Len(toServer[s]) : toServer' = [toServer EXCEPT ![s] = SubSeq(@, 1, n)]
  /\ UNCHANGED <<reg, log, minSeq, seq, prunes, work, inbox, clientVars>>

\* An administrator prunes the changelog, keeping what came after n.
Prune(n) ==
  /\ prunes < MaxPrunes /\ minSeq > 0 /\ n \in minSeq..(seq - 1)
  /\ prunes' = prunes + 1
  /\ log' = {e \in log : e.seq > n}
  /\ minSeq' = n + 1
  /\ UNCHANGED <<reg, seq, session, closed, work, toServer, inbox, clientVars>>

-----------------------------------------------------------------------------
ClientNext(c) ==
  \/ \E k \in Keys, op \in Ops, now \in 1..MaxTs : Draft(c, k, op, now)
  \/ CommitLocal(c) \/ FireTimer(c)
  \/ Connect(c) \/ Disconnect(c) \/ Reload(c)
  \/ HandleAuthSuccess(c) \/ HandleAck(c) \/ Capture(c) \/ HandleChanges(c)

ServerNext(s) ==
  \/ RecvAuth(s) \/ ReadSync(s) \/ SendDiff(s) \/ SendSnapshot(s)
  \/ RecvBatch(s) \/ RefuseBatch(s) \/ Apply(s) \/ ReturnSeq(s)
  \/ SendAck(s) \/ Reconcile(s) \/ Broadcast(s) \/ Hangup(s)

Next ==
  \/ \E c \in Clients : ClientNext(c)
  \/ \E s \in Socks : ServerNext(s)
  \/ \E n \in 1..(seq - 1) : Prune(n)

Spec == Init /\ [][Next]_vars

\* Fairness: timers fire, promises are resolved, a client that lost its
\* connection tries again and again, and what is sent over a connection that
\* stays open arrives.  Nobody has to write, to disconnect, to reload or to prune.
FairSpec ==
  /\ Spec
  /\ \A c \in Clients :
       /\ WF_vars(CommitLocal(c)) /\ WF_vars(FireTimer(c)) /\ WF_vars(Connect(c))
       /\ WF_vars(HandleAuthSuccess(c)) /\ WF_vars(HandleAck(c))
       /\ WF_vars(Capture(c)) /\ WF_vars(HandleChanges(c))
  /\ \A s \in Socks : WF_vars(ServerNext(s))

-----------------------------------------------------------------------------
(* Properties                                                              *)

Record == [op : {"none", "put", "delete"}, ts : 0..MaxTs, cid : Nat]
ChangeOf == [key : Keys, op : Ops, ts : 1..MaxTs, cid : Nat \ {0}]

\* Every variable has its type, and the outbox and the batch that awaits its
\* acknowledgement are made of changes of the client.
TypeOK ==
  /\ reg \in [Keys -> Record] /\ seq \in Nat /\ minSeq \in 0..seq
  /\ \A e \in log : e.key \in Keys /\ e.seq \in minSeq..seq
  /\ session \in [Socks -> Nat] /\ closed \subseteq Socks
  /\ DOMAIN work = Socks /\ DOMAIN toServer = Socks
  /\ link \in [Clients -> {"open", "closed"}]
  /\ status \in [Clients -> {"disconnected", "connecting", "connected"}]
  /\ timer \in [Clients -> BOOLEAN] /\ lastSync \in [Clients -> 0..seq]
  /\ \A c \in Clients :
       /\ made[c] \in Seq(ChangeOf) /\ cid[c] \in RankOf[c]
       /\ pending[c] \subseteq outbox[c] /\ outbox[c] \subseteq DOMAIN made[c]
       /\ store[c] \in [Keys -> Record]
       /\ \A k \in Keys : store[c][k].op # "delete"

\* No write is ever lost on its way: each change a client has made is in its
\* outbox until the server's record under its id is at least as recent,
\* whichever connections are lost, messages repeated and pages reloaded.
NothingLost ==
  \A c \in Clients : \A n \in DOMAIN made[c] :
    n \in outbox[c] \/ reg[made[c][n].key].ts >= made[c][n].ts

\* There is nothing left to do: everybody is connected, nothing is on its way.
Quiet ==
  /\ \A s \in Socks : toServer[s] = << >> /\ work[s] = Idle
  /\ \A c \in Clients :
       /\ status[c] = "connected" /\ link[c] = "open"
       /\ inbox[c] = << >> /\ capture[c] = Nothing /\ draft[c] = Nothing
       /\ outbox[c] = {} /\ pending[c] = {} /\ ~timer[c]

\* What the server shows of a record.
Shown(k) == IF reg[k].op = "put" THEN reg[k] ELSE NoRecord

\* Whose write a record is: a reload changes the id of a client.
Writer(r) == {c \in Clients : r.cid \in RankOf[c]}

\* Two-way sync: once nothing is left to do every client shows the write that
\* the server shows, or nothing as the server does (README.md:26, CHANGELOG.md:18).
Converged ==
  Quiet => \A c \in Clients, k \in Keys :
             /\ store[c][k].op = Shown(k).op /\ store[c][k].ts = Shown(k).ts
             /\ Writer(store[c][k]) = Writer(Shown(k))

\* A put that has not reached the server yet is not hidden by what arrives from
\* it: the record shown is that put's or one that beats it.
PendingPutsShow ==
  \A c \in Clients : \A n \in outbox[c] :
    made[c][n].op = "put" => ShouldOverwrite(store[c][made[c][n].key], made[c][n])

\* When the clients stop writing and connections stop failing, all that was
\* written gets to the server and all that was sent is dealt with.
SettlesDown == <>[]Quiet

\* What a client has deleted is only shown again when a put beats the delete,
\* as if the delete had left a tombstone (src/client/table.ts:229).
DeletesHold ==
  \A c \in Clients : \A n \in DOMAIN made[c] :
    LET shown == store[c][made[c][n].key]
    IN  made[c][n].op = "delete" /\ shown.op = "put" => ShouldOverwrite(shown, made[c][n])

\* Applying a remote batch is atomic (src/client/storage/storage.ts:611): it never
\* replaces a record by one that loses to it.
RemoteNeverRegresses ==
  [][\A c \in Clients : HandleChanges(c) =>
       \A k \in Keys : store'[c][k].op = "put" =>
         ShouldOverwrite(store'[c][k], store[c][k])]_vars

=============================================================================
