--------------------------- MODULE ServerSessions ---------------------------
(***************************************************************************)
(* The server's sync manager (src/server/sync.ts) and the sockets of many  *)
(* users: who a socket's session belongs to, how many sessions a user may  *)
(* have, when a socket has to have one, and which changes each is told of. *)
(*                                                                         *)
(* The messages of a socket are handled one after the other; a handler is  *)
(* cut at each await whose outcome may be changed by the handlers of other *)
(* sockets, by a timer or by the end of the connection.  AuthSuccess is    *)
(* sent on the way to the synchronisation that follows it and is not a     *)
(* step.  A change is known by its number, its table and its owner: what   *)
(* storage makes of it, and the messages on their way to the client, are   *)
(* the business of MemoryStorage, FileStorage and TetherSync.              *)
(*                                                                         *)
(* Definitions just before the one they are variants of, with a mistake in *)
(* them, serve to test the properties and have no other use.               *)
(***************************************************************************)
EXTENDS Permissions, SequencesExt

CONSTANTS Sockets,
          Accounts,     \* the users that have an account from the start
          Batches,      \* the batches clients send: sequences of tables
          Limit,        \* maxConcurrentConnectionsPerUser
          MaxPending,   \* the 1000 messages a socket may have waiting
          MaxMessages   \* BOUND on messages

ASSUME SessionsAssumption ==
  /\ Accounts \subseteq Users
  /\ Batches \subseteq Seq(Tables) /\ << >> \notin Batches
  /\ {Limit, MaxPending} \subseteq Nat \ {0} /\ MaxMessages \in Nat

VARIABLES
  socket,     \* "new", "refused", "open", "closing", "terminated" or "closed"
  ips,        \* webSocketToIp: the sockets it has
  timers,     \* pendingAuthTimers that have not fired
  queue,      \* queue[s] : messages that wait for the one being handled
  handler,    \* handler[s] : the handler at work for socket s
  session,    \* session[n] : the n-th ActiveClient object made
  clients,    \* those of them that are in `clients`
  clientOf,   \* webSocketToClient: one of them, or 0
  accounts,   \* the users there are
  log,        \* the changes that storage has applied
  received,   \* messages so far
  told,       \* HISTORY told[s] : what the client of s knows or has been sent
              \* since its session last changed hands
  ghosts      \* HISTORY the sockets that were given a session after they closed

maps == <<ips, timers, session, clients, clientOf>>
vars == <<socket, maps, queue, handler, accounts, log, received, told, ghosts>>

Idle == [pc |-> "idle"]

Init ==
  /\ socket = [s \in Sockets |-> "new"] /\ ips = {} /\ timers = {}
  /\ queue = [s \in Sockets |-> << >>] /\ handler = [s \in Sockets |-> Idle]
  /\ session = << >> /\ clients = {} /\ clientOf = [s \in Sockets |-> 0]
  /\ accounts = Accounts /\ log = {} /\ received = 0
  /\ told = [s \in Sockets |-> {}] /\ ghosts = {}

UserOf(n) == session[n].user
CanRead(u, c) == IsPermissionAllowed(Settings[c.table].read, u, c.owner)
At(s, pc) == handler[s].pc = pc
Goto(s, h) == handler' = [handler EXCEPT ![s] = h]
Finish(s) == Goto(s, Idle)

\* A message that nothing keeps waiting is handled before the next event.
Settled(s) == At(s, "idle") => queue[s] = << >>

-----------------------------------------------------------------------------
(* Connections                                                             *)

\* handleConnection, and what it does when the rate limiter says no: then no
\* listener is ever attached.
Connect(s) ==
  /\ socket[s] = "new"
  /\ ips' = ips \cup {s}
  /\ \/ socket' = [socket EXCEPT ![s] = "open"] /\ timers' = timers \cup {s}
     \/ socket' = [socket EXCEPT ![s] = "refused"] /\ UNCHANGED timers
  /\ UNCHANGED <<queue, handler, session, clients, clientOf, accounts, log, received,
                 told, ghosts>>

UnclaimedIdle(s) == clientOf[s] = 0 /\ handler[s] = Idle
Unclaimed(s) == clientOf[s] = 0

\* The authentication timer
FireTimer(s) ==
  /\ s \in timers /\ Settled(s)
  /\ timers' = timers \ {s}
  /\ socket' = [socket EXCEPT ![s] = IF Unclaimed(s) /\ @ = "open" THEN "closing" ELSE @]
  /\ UNCHANGED <<ips, session, clients, clientOf, queue, handler, accounts, log,
                 received, told, ghosts>>

LeftUnlessSignedIn(s) == IF clientOf[s] = 0 THEN {} ELSE {s}
Left(s) == {s}

\* The close event, of either end's doing: cleanupConnection.  Messages that
\* wait, and the handler at work, stay.
Close(s) ==
  /\ socket[s] \in {"open", "closing", "terminated"} /\ Settled(s)
  /\ socket' = [socket EXCEPT ![s] = "closed"]
  /\ ips' = ips \ Left(s) /\ timers' = timers \ {s}
  /\ clients' = clients \ {clientOf[s]} /\ clientOf' = [clientOf EXCEPT ![s] = 0]
  /\ UNCHANGED <<session, queue, handler, accounts, log, received, told, ghosts>>

Number == Cardinality(log)

\* An Auth has the token of a user, or none (Anonymous), and says up to where
\* the client knows the changes.
Messages ==
  [type : {"auth"}, user : Users \cup {Anonymous}, from : 0..Number]
  \cup [type : {"login", "register"}, user : Users]
  \cup [type : {"logout"}]
  \cup [type : {"batch"}, tables : Batches]

\* The message event; one too many ends the connection.
Receive(s, m) ==
  LET waiting == Len(queue[s]) + (IF At(s, "idle") THEN 0 ELSE 1)
  IN  /\ socket[s] \in {"open", "closing"} /\ Settled(s) /\ received < MaxMessages
      /\ received' = received + 1
      /\ IF waiting >= MaxPending
         THEN socket' = [socket EXCEPT ![s] = "terminated"] /\ UNCHANGED queue
         ELSE queue' = [queue EXCEPT ![s] = Append(@, m)] /\ UNCHANGED socket
      /\ UNCHANGED <<maps, handler, accounts, log, told, ghosts>>

-----------------------------------------------------------------------------
(* Sessions                                                                *)

CountUserConnections(u, s) ==
  Cardinality({n \in clients : UserOf(n) = u /\ session[n].socket # s})

FullAbove(u, s) == CountUserConnections(u, s) > Limit
Full(u, s) == CountUserConnections(u, s) >= Limit

ReplacedNone(s) == {}
Replaced(s) == {clientOf[s]}

\* A session object for s, which takes the place of one that s has.
Register(s, u) ==
  LET n == Len(session) + 1
  IN  /\ session' = Append(session, [socket |-> s, user |-> u])
      /\ clients' = (clients \ Replaced(s)) \cup {n}
      /\ clientOf' = [clientOf EXCEPT ![s] = n]
      /\ ghosts' = IF socket[s] = "closed" THEN ghosts \cup {s} ELSE ghosts

\* The session there is goes over to u.
SwitchTo(s, u) ==
  /\ session' = [session EXCEPT ![clientOf[s]].user = u]
  /\ UNCHANGED <<clients, clientOf, ghosts>>

\* performSync is next, for the changes after `from`.
ThenSync(s, from) ==
  /\ Goto(s, [pc |-> "sync", client |-> clientOf'[s], from |-> from])
  /\ told' = [told EXCEPT ![s] = {c \in log : c.seq <= from}]

\* handleAuthMessage, once the user is known
Authenticate(s, u, from) ==
  IF u \in Users /\ Full(u, s)
  THEN /\ socket' = [socket EXCEPT ![s] = IF @ = "open" THEN "closing" ELSE @]
       /\ Finish(s)
       /\ UNCHANGED <<timers, session, clients, clientOf, told, ghosts>>
  ELSE /\ Register(s, u) /\ ThenSync(s, from)
       /\ timers' = timers \ {s} /\ UNCHANGED socket

\* completeAuthentication
Complete(s, u) ==
  /\ IF clientOf[s] = 0 THEN Register(s, u) ELSE SwitchTo(s, u)
  /\ ThenSync(s, 0) /\ timers' = timers \ {s} /\ UNCHANGED socket

\* The next message is taken from the queue and handled up to the first await:
\* a logout, or an Auth without a token, up to the synchronisation.
Handle(s) ==
  /\ At(s, "idle") /\ queue[s] # << >>
  /\ queue' = [queue EXCEPT ![s] = Tail(@)]
  /\ LET m == Head(queue[s])
         none == clientOf[s] = 0
     IN  \/ /\ m.type = "auth" /\ m.user = Anonymous
            /\ Authenticate(s, IF none THEN Anonymous ELSE UserOf(clientOf[s]), m.from)
         \/ /\ m.type = "logout" /\ ~none
            /\ SwitchTo(s, Anonymous) /\ ThenSync(s, 0) /\ UNCHANGED <<socket, timers>>
         \/ /\ m.type \in {"logout", "batch"} /\ none
            /\ Finish(s)
            /\ UNCHANGED <<socket, timers, session, clients, clientOf, told, ghosts>>
         \/ /\ \/ /\ m.type = "auth" /\ m.user # Anonymous
                  /\ Goto(s, [pc |-> "token", user |-> m.user, from |-> m.from])
               \/ /\ m.type = "login"
                  /\ Goto(s, [pc |-> "password", user |-> m.user])
               \/ /\ m.type = "register"
                  /\ Goto(s, [pc |-> "find", user |-> m.user])
               \/ /\ m.type = "batch" /\ ~none
                  /\ Goto(s, [pc |-> "apply", user |-> UserOf(clientOf[s]),
                              tables |-> m.tables])
            /\ UNCHANGED <<socket, timers, session, clients, clientOf, told, ghosts>>
  /\ UNCHANGED <<ips, accounts, log, received>>

\* getUserByToken returns; the token may have expired, or the user be gone.
CheckToken(s) ==
  LET h == handler[s]
  IN  /\ At(s, "token")
      /\ \/ h.user \in accounts /\ Authenticate(s, h.user, h.from)
         \/ /\ socket' = [socket EXCEPT ![s] = IF @ = "open" THEN "closing" ELSE @]
            /\ Finish(s)
            /\ UNCHANGED <<timers, session, clients, clientOf, told, ghosts>>
      /\ UNCHANGED <<ips, queue, accounts, log, received>>

\* handleLoginMessage: verifyPassword returns.  A login that fails for whatever
\* reason leaves the connection as it is.
CheckPassword(s) ==
  LET u == handler[s].user
  IN  /\ At(s, "password")
      /\ \/ u \in accounts /\ ~Full(u, s) /\ Complete(s, u)
         \/ /\ Finish(s)
            /\ UNCHANGED <<socket, timers, session, clients, clientOf, told, ghosts>>
      /\ UNCHANGED <<ips, queue, accounts, log, received>>

\* handleRegisterMessage: getUserByUserName returns.
FindUser(s) ==
  /\ At(s, "find")
  /\ IF handler[s].user \in accounts THEN Finish(s)
     ELSE Goto(s, [handler[s] EXCEPT !.pc = "create"])
  /\ UNCHANGED <<socket, maps, queue, accounts, log, received, told, ghosts>>

\* createUser fails, or returns: what follows its commit takes no time in which
\* a password could be checked, so that nobody else has a session of that user.
CreateUser(s) ==
  LET u == handler[s].user
  IN  /\ At(s, "create")
      /\ IF u \in accounts
         THEN /\ Finish(s)
              /\ UNCHANGED <<socket, timers, session, clients, clientOf, accounts, told,
                             ghosts>>
         ELSE accounts' = accounts \cup {u} /\ Complete(s, u)
      /\ UNCHANGED <<ips, queue, log, received>>

-----------------------------------------------------------------------------
(* Changes                                                                 *)

Sent(s, cs) == IF socket[s] = "open" THEN cs ELSE {}

\* performSync: the snapshot or diff is read and sent.
Sync(s) ==
  LET h == handler[s]
      news == {c \in log : c.seq > h.from /\ CanRead(UserOf(h.client), c)}
  IN  /\ At(s, "sync") /\ Finish(s)
      /\ told' = [told EXCEPT ![s] = @ \cup Sent(s, news)]
      /\ UNCHANGED <<socket, maps, queue, accounts, log, received, ghosts>>

\* Storage applies a batch, or refuses it.
Apply(s) ==
  LET h == handler[s]
      made == {[seq |-> Number + n, table |-> h.tables[n],
                owner |-> IF h.user \in Users THEN h.user ELSE NoOwner]
               : n \in DOMAIN h.tables}
  IN  /\ At(s, "apply")
      /\ IF \A t \in ToSet(h.tables) : CanAccess(Settings[t].create, h.user)
         THEN /\ log' = log \cup made
              /\ Goto(s, [pc |-> "ack", user |-> h.user, changes |-> made, todo |-> h.tables])
         ELSE Finish(s) /\ UNCHANGED log
      /\ UNCHANGED <<socket, maps, queue, accounts, received, told, ghosts>>

OwnUser(n, s) == UserOf(n) = handler[s].user
Own(n, s) == session[n].socket = s

\* The sessions that the loop of broadcastChanges has not come to yet, those
\* that join while it waits included.
Ahead(s, n) == {m \in clients : m > n /\ ~Own(m, s)}

\* The sender has its acknowledgement; the loop runs to the first session, for
\* which the tables of the changes are looked up.
Acknowledge(s) ==
  LET h == handler[s]
  IN  /\ At(s, "ack")
      /\ told' = [told EXCEPT ![s] = @ \cup Sent(s, h.changes)]
      /\ IF Ahead(s, 0) = {} THEN Finish(s)
         ELSE Goto(s, [pc |-> "table", user |-> h.user, changes |-> h.changes,
                       todo |-> h.todo, got |-> {}, client |-> Min(Ahead(s, 0))])
      /\ UNCHANGED <<socket, maps, queue, accounts, log, received, ghosts>>

\* getTable returns: the changes in that table are chosen for the first session
\* by the user it has now.  Once all tables are known the loop runs to its end.
LookUp(s) ==
  LET h == handler[s]
      t == Head(h.todo)
      n == h.client
      got == h.got \cup {c \in h.changes : c.table = t /\ CanRead(UserOf(n), c)}
      rest(m) == {c \in h.changes : CanRead(UserOf(m), c)}
      news(r) == (IF r = session[n].socket THEN got ELSE {})
                 \cup UNION {rest(m) : m \in {k \in Ahead(s, n) : session[k].socket = r}}
  IN  /\ At(s, "table")
      /\ IF Tail(h.todo) # << >>
         THEN Goto(s, [h EXCEPT !.todo = Tail(@), !.got = got]) /\ UNCHANGED told
         ELSE /\ Finish(s)
              /\ told' = [r \in Sockets |-> told[r] \cup Sent(r, news(r))]
      /\ UNCHANGED <<socket, maps, queue, accounts, log, received, ghosts>>

Work(s) ==
  \/ Handle(s) \/ CheckToken(s) \/ CheckPassword(s) \/ FindUser(s) \/ CreateUser(s)
  \/ Sync(s) \/ Apply(s) \/ Acknowledge(s) \/ LookUp(s)

Next ==
  \E s \in Sockets :
    \/ Connect(s) \/ FireTimer(s) \/ Close(s) \/ Work(s)
    \/ \E m \in Messages : Receive(s, m)

Spec == Init /\ [][Next]_vars

\* Handlers go on, timers fire, and a connection that the server ends does end.
FairSpec ==
  /\ Spec
  /\ \A s \in Sockets : /\ WF_vars(Work(s)) /\ WF_vars(FireTimer(s))
                        /\ WF_vars(socket[s] # "open" /\ Close(s))

-----------------------------------------------------------------------------
(* Properties                                                              *)

\* The two maps of sessions agree, and a socket has one session at most.
TypeOK ==
  /\ socket \in [Sockets -> {"new", "refused", "open", "closing", "terminated", "closed"}]
  /\ ips \subseteq Sockets /\ timers \subseteq Sockets /\ ghosts \subseteq Sockets
  /\ session \in Seq([socket : Sockets, user : Users \cup {Anonymous}])
  /\ clientOf \in [Sockets -> 0..Len(session)]
  /\ clients = {clientOf[s] : s \in Sockets} \ {0}
  /\ \A s \in Sockets : clientOf[s] # 0 => session[clientOf[s]].socket = s
  /\ \A s \in Sockets : Len(queue[s]) <= MaxPending
  /\ accounts \subseteq Users
  /\ \A s \in Sockets : told[s] \subseteq log

\* No user ever has more sessions than the limit, though users sign in on many
\* sockets at a time, each check some awaits after the message came
\* (sync.ts:292-303, 508-519).
WithinLimit ==
  \A u \in Users : Cardinality({n \in clients : UserOf(n) = u}) <= Limit

\* The client of a session has been told of every change its user may read, or
\* a broadcast is still to come to it: none falls between a snapshot, the
\* start of a session, a change of its user and the broadcasts of others
\* (sync.ts:311-343, 762-865).
EveryoneTold ==
  \A s \in Sockets : socket[s] = "open" /\ clientOf[s] # 0 /\ ~At(s, "sync") =>
    \A c \in log : CanRead(UserOf(clientOf[s]), c) =>
      \/ c \in told[s]
      \/ \E r \in Sockets : (At(r, "ack") \/ At(r, "table")) /\ c \in handler[r].changes

\* A closed socket leaves nothing behind, unless a handler gave it a session
\* afterwards (sync.ts:724-733).
NothingLeft ==
  \A s \in Sockets \ ghosts : socket[s] = "closed" =>
    clientOf[s] = 0 /\ s \notin ips \cup timers

\* "Total number of currently active authenticated WebSocket client
\* connections" (sync.ts:94): no session is one of a socket that has closed.
CountsActive == \A n \in clients : socket[session[n].socket] # "closed"

\* A connection gets a session or is ended, whatever its client sends and
\* however its attempts fail (sync.ts:118-129).
Admitted == \A s \in Sockets : socket[s] = "open" ~> clientOf[s] # 0 \/ socket[s] # "open"

=============================================================================
