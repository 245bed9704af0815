------------------------ MODULE ServerSessionsProofs ------------------------
(***************************************************************************)
(* What holds of the sessions of any number of sockets, users and batches: *)
(* the maps of sessions agree, no user has more sessions than the limit, a *)
(* closed socket leaves nothing behind, and every client is told of every  *)
(* change its user may read.                                               *)
(*                                                                         *)
(* EveryoneTold is not inductive: that a change is in the hands of some    *)
(* broadcast says nothing of whom the broadcast has still to come to.      *)
(* Informed says it (WillTell): the loop goes through the sessions in the  *)
(* order in which they were made, and has at most one of them in hand.     *)
(***************************************************************************)
EXTENDS ServerSessions, FiniteSetTheorems, SequenceTheorems, WellFoundedInduction, TLAPS

Visitors == Users \cup {Anonymous}
Session == [socket : Sockets, user : Visitors]

\* The messages that wait while n changes are applied.
Waiting(n) ==
  [type : {"auth"}, user : Visitors, from : 0..n]
  \cup [type : {"login", "register"}, user : Users]
  \cup [type : {"logout"}]
  \cup [type : {"batch"}, tables : Batches]

\* The objects that were made, those in use, and the one of each socket.
OfUser(made, used, u) == {n \in used : made[n].user = u}
SessionsFit(made, used, of) ==
  /\ made \in Seq(Session)
  /\ of \in [Sockets -> 0..Len(made)]
  /\ used = {of[s] : s \in Sockets} \ {0}
  /\ \A s \in Sockets : of[s] # 0 => made[of[s]].socket = s
  /\ \A u \in Users : Cardinality(OfUser(made, used, u)) <= Limit

\* A session is of a user there is.
UsersExist(made, used, users) == \A n \in used : made[n].user \in users \cup {Anonymous}

\* The states of a socket: nothing has come of one that is not open yet, and nothing
\* is left of one that has closed unless a handler gave it a session.
SocketsFit(state, addresses, waits, of, late) ==
  /\ state \in [Sockets -> {"new", "refused", "open", "closing", "terminated", "closed"}]
  /\ addresses \subseteq Sockets /\ waits \subseteq Sockets /\ late \subseteq Sockets
  /\ \A s \in Sockets : state[s] \in {"new", "refused"} => of[s] = 0
  /\ \A s \in Sockets \ late : state[s] = "closed" =>
       of[s] = 0 /\ s \notin addresses /\ s \notin waits

\* A handler, and the messages that wait for it, while the changes `applied` are.
HandlerFits(h, applied) ==
  LET known == 0..Cardinality(applied)
  IN  /\ h.pc = "token" => h.user \in Users /\ h.from \in known
      /\ h.pc = "password" => h.user \in Users
      /\ h.pc \in {"find", "create"} => h.user \in Users /\ h = [pc |-> h.pc, user |-> h.user]
      /\ h.pc = "sync" => h.from \in known
      /\ h.pc = "apply" => h.user \in Visitors /\ h.tables \in Batches
      /\ h.pc = "ack" =>
           /\ h.changes \subseteq applied /\ h.todo \in Batches
           /\ \A c \in h.changes : c.table \in ToSet(h.todo)
      /\ h.pc = "table" =>
           /\ h.changes \subseteq applied /\ h.got \subseteq h.changes
           /\ h.todo \in Seq(Tables) /\ h.todo # << >> /\ h.client \in Nat
           /\ h = [pc |-> "table", user |-> h.user, changes |-> h.changes,
                   todo |-> h.todo, got |-> h.got, client |-> h.client]

HandlersFit(state, work, waiting, applied) ==
  /\ work = [s \in Sockets |-> work[s]]
  /\ waiting \in [Sockets -> Seq(Waiting(Cardinality(applied)))]
  /\ \A s \in Sockets : Len(waiting[s]) <= MaxPending
  /\ \A s \in Sockets : HandlerFits(work[s], applied)
  /\ \A s \in Sockets : state[s] \in {"new", "refused"} => work[s] = Idle /\ waiting[s] = << >>

LogFits(applied, known) ==
  /\ IsFiniteSet(applied) /\ \A c \in applied : c.seq \in Nat
  /\ known \in [Sockets -> SUBSET applied]

SessionsInv ==
  /\ SessionsFit(session, clients, clientOf)
  /\ UsersExist(session, clients, accounts) /\ accounts \subseteq Users
  /\ SocketsFit(socket, ips, timers, clientOf, ghosts)
  /\ HandlersFit(socket, handler, queue, log)
  /\ LogFits(log, told)

\* The broadcast in the hands of handler h is still to tell the session n of change c;
\* `own` says that n is a session of the sender's socket.
WillTell(h, c, n, own) ==
  \/ h.pc = "ack" /\ c \in h.changes
  \/ /\ h.pc = "table" /\ ~own /\ c \in h.changes
     /\ n > h.client \/ (n = h.client /\ (c \in h.got \/ c.table \in ToSet(h.todo)))

\* Socket s, with session n of user u: while its session is new it knows the changes
\* its client had, later all those that its user may read or that are still to come.
KnowsAll(s, n, u, known, work, applied) ==
  IF work[s].pc = "sync"
  THEN work[s].client = n /\ {c \in applied : c.seq <= work[s].from} \subseteq known
  ELSE \A c \in applied : CanRead(u, c) =>
         c \in known \/ \E r \in Sockets : WillTell(work[r], c, n, r = s)

Informed ==
  \A s \in Sockets : socket[s] = "open" /\ clientOf[s] # 0 =>
    KnowsAll(s, clientOf[s], UserOf(clientOf[s]), told[s], handler, log)


-----------------------------------------------------------------------------
(* Sessions                                                                *)

\* The sessions in use are finitely many, and each is that of its socket.
LEMMA UsedSessions ==
  ASSUME NEW made, NEW used, NEW of, SessionsFit(made, used, of)
  PROVE  /\ IsFiniteSet(used) /\ used \subseteq 1..Len(made) /\ Len(made) \in Nat
         /\ \A n \in used : made[n] \in Session /\ of[made[n].socket] = n
         /\ \A s \in Sockets : of[s] # 0 => of[s] \in used
         /\ \A n \in 1..Len(made) : made[n] \in Session
<1>1. Len(made) \in Nat /\ \A n \in 1..Len(made) : made[n] \in Session
  BY LenProperties, ElementOfSeq DEF SessionsFit
<1>2. used \subseteq 1..Len(made)
  BY <1>1 DEF SessionsFit
<1>3. IsFiniteSet(used)
  <2>1. \A n \in Nat : IsFiniteSet(1..n)
    BY FS_Interval
  <2>2. IsFiniteSet(1..Len(made))
    BY <1>1, <2>1
  <2> QED
    BY <1>2, <2>2, FS_Subset
<1>4. \A n \in used : of[made[n].socket] = n
  BY DEF SessionsFit
<1>5. \A s \in Sockets : of[s] # 0 => of[s] \in used
  BY DEF SessionsFit
<1>6. \A n \in used : made[n] \in Session
  BY <1>1, <1>2
<1> QED
  BY <1>1, <1>2, <1>3, <1>4, <1>5, <1>6

\* Of fewer sessions than the limit and one more there are no more than the limit.
LEMMA OneMore ==
  ASSUME NEW S, IsFiniteSet(S), Cardinality(S) < Limit, NEW x, NEW T \in SUBSET (S \cup {x})
  PROVE  Cardinality(T) <= Limit
<1>1. Limit \in Nat
  BY SessionsAssumption
<1>2. Cardinality(S) \in Nat
  BY FS_CardinalityType
<1>3. IsFiniteSet(S \cup {x}) /\ Cardinality(S \cup {x}) <= Cardinality(S) + 1
  <2>1. /\ IsFiniteSet(S \cup {x})
        /\ Cardinality(S \cup {x}) = IF x \in S THEN Cardinality(S) ELSE Cardinality(S) + 1
    BY FS_AddElement, Zenon
  <2> QED
    BY <1>2, <2>1
<1>4. IsFiniteSet(T) /\ Cardinality(T) <= Cardinality(S \cup {x})
  BY <1>3, FS_Subset
<1>5. Cardinality(T) \in Nat /\ Cardinality(S \cup {x}) \in Nat
  BY <1>3, <1>4, FS_CardinalityType
<1> QED
  BY <1>1, <1>2, <1>3, <1>4, <1>5

\* Fewer sessions are no more than the limit.
LEMMA NoneMore ==
  ASSUME NEW S, IsFiniteSet(S), Cardinality(S) <= Limit, NEW T \in SUBSET S
  PROVE  Cardinality(T) <= Limit
<1>1. Limit \in Nat
  BY SessionsAssumption
<1>2. Cardinality(T) <= Cardinality(S) /\ Cardinality(T) \in Nat /\ Cardinality(S) \in Nat
  BY FS_Subset, FS_CardinalityType
<1> QED
  BY <1>1, <1>2

\* A user has room for a session of s: fewer than the limit are those of other sockets.
HasRoom(u, s) == u \in Users => CountUserConnections(u, s) < Limit

\* A session object that takes the place of one, or of none.
LEMMA RegisterFits ==
  ASSUME SessionsFit(session, clients, clientOf), NEW s \in Sockets, NEW u \in Visitors,
         HasRoom(u, s), Register(s, u)
  PROVE  /\ SessionsFit(session', clients', clientOf')
         /\ UsersExist(session, clients, accounts) /\ u \in accounts' \cup {Anonymous}
            /\ accounts \subseteq accounts' => UsersExist(session', clients', accounts')
<1> DEFINE n == Len(session) + 1
           one == [socket |-> s, user |-> u]
<1>1. /\ session' = Append(session, one)
      /\ clients' = (clients \ {clientOf[s]}) \cup {n}
      /\ clientOf' = [clientOf EXCEPT ![s] = n]
  BY DEF Register, Replaced
<1>2. /\ IsFiniteSet(clients) /\ clients \subseteq 1..Len(session) /\ Len(session) \in Nat
      /\ \A m \in clients : session[m] \in Session /\ clientOf[session[m].socket] = m
      /\ \A r \in Sockets : clientOf[r] # 0 => clientOf[r] \in clients
  BY UsedSessions
<1>3. one \in Session /\ session \in Seq(Session)
  BY DEF Session, SessionsFit
<1>4. /\ session' \in Seq(Session) /\ Len(session') = n
      /\ \A m \in 1..Len(session) : session'[m] = session[m]
      /\ session'[n] = one
  BY <1>1, <1>2, <1>3, AppendProperties
<1>5. n \notin clients /\ n # 0 /\ n \in Nat
  BY <1>2
<1>6. clientOf \in [Sockets -> 0..Len(session)] /\ clients = {clientOf[r] : r \in Sockets} \ {0}
  BY DEF SessionsFit
<1>7. clientOf' \in [Sockets -> 0..Len(session')]
  <2>1. 0..Len(session) \subseteq 0..n /\ n \in 0..n
    BY <1>2
  <2> QED
    BY <1>1, <1>4, <1>6, <2>1
<1>8. \A r \in Sockets : r # s /\ clientOf[r] # 0 => clientOf[r] # clientOf[s]
  BY DEF SessionsFit
<1>9. clients' = {clientOf'[r] : r \in Sockets} \ {0}
  <2>1. \A r \in Sockets : clientOf'[r] = IF r = s THEN n ELSE clientOf[r]
    BY <1>1, <1>6
  <2> HIDE DEF n
  <2>2. \A m \in clients' : m \in {clientOf'[r] : r \in Sockets} \ {0}
    BY <1>1, <1>5, <1>6, <2>1
  <2>3. \A r \in Sockets : clientOf'[r] # 0 => clientOf'[r] \in clients'
    BY <1>1, <1>2, <1>5, <1>8, <2>1
  <2> QED
    BY <2>2, <2>3
<1>10. \A r \in Sockets : clientOf'[r] # 0 => session'[clientOf'[r]].socket = r
  <2> SUFFICES ASSUME NEW r \in Sockets, clientOf'[r] # 0
               PROVE  session'[clientOf'[r]].socket = r
    OBVIOUS
  <2>1. CASE r = s
    BY <1>1, <1>4, <1>6, <2>1
  <2>2. CASE r # s
    <3>1. clientOf'[r] = clientOf[r]
      BY <1>1, <1>6, <2>2
    <3>2. clientOf[r] \in 1..Len(session) /\ session[clientOf[r]].socket = r
      BY <1>2, <3>1 DEF SessionsFit
    <3> QED
      BY <1>4, <3>1, <3>2
  <2> QED
    BY <2>1, <2>2
<1>11. \A v \in Users : Cardinality(OfUser(session', clients', v)) <= Limit
  <2> SUFFICES ASSUME NEW v \in Users
               PROVE  Cardinality(OfUser(session', clients', v)) <= Limit
    OBVIOUS
  <2> DEFINE others == {m \in clients : session[m].user = v /\ session[m].socket # s}
  <2>1. IsFiniteSet(OfUser(session, clients, v)) /\ IsFiniteSet(others)
    BY <1>2, FS_Subset DEF OfUser
  <2>2. \A m \in clients \ {clientOf[s]} : session[m].socket # s
    BY <1>2
  <2>3. \A m \in OfUser(session', clients', v) : m \in others \/ (m = n /\ u = v)
    <3> SUFFICES ASSUME NEW m \in OfUser(session', clients', v), m # n PROVE m \in others
      BY <1>4 DEF OfUser
    <3>1. m \in clients \ {clientOf[s]} /\ session'[m].user = v
      BY <1>1 DEF OfUser
    <3>2. session'[m] = session[m]
      BY <1>2, <1>4, <3>1
    <3> QED
      BY <2>2, <3>1, <3>2
  <2>4. CASE u = v
    <3>1. Cardinality(others) < Limit
      BY <2>4 DEF HasRoom, CountUserConnections, UserOf
    <3>2. OfUser(session', clients', v) \in SUBSET (others \cup {n})
      BY <2>3
    <3> HIDE DEF others, n
    <3> QED
      BY <2>1, <3>1, <3>2, OneMore
  <2>5. CASE u # v
    <3>1. OfUser(session', clients', v) \in SUBSET OfUser(session, clients, v)
      BY <2>3, <2>5 DEF OfUser
    <3>2. Cardinality(OfUser(session, clients, v)) <= Limit
      BY DEF SessionsFit
    <3> QED
      BY <2>1, <3>1, <3>2, NoneMore
  <2> QED
    BY <2>4, <2>5
<1>12. SessionsFit(session', clients', clientOf')
  BY <1>4, <1>7, <1>9, <1>10, <1>11 DEF SessionsFit
<1>13. ASSUME UsersExist(session, clients, accounts), u \in accounts' \cup {Anonymous},
              accounts \subseteq accounts'
       PROVE  UsersExist(session', clients', accounts')
  <2> SUFFICES ASSUME NEW m \in clients' PROVE session'[m].user \in accounts' \cup {Anonymous}
    BY DEF UsersExist
  <2>1. CASE m = n
    BY <1>4, <1>13, <2>1
  <2>2. CASE m # n
    <3>1. m \in clients /\ session'[m] = session[m]
      BY <1>1, <1>2, <1>4, <2>2
    <3> QED
      BY <1>13, <3>1 DEF UsersExist
  <2> QED
    BY <2>1, <2>2
<1> QED
  BY <1>12, <1>13

\* The session of s goes over to a user.
LEMMA SwitchFits ==
  ASSUME SessionsFit(session, clients, clientOf), NEW s \in Sockets, NEW u \in Visitors,
         clientOf[s] # 0, HasRoom(u, s), SwitchTo(s, u)
  PROVE  /\ SessionsFit(session', clients', clientOf')
         /\ UsersExist(session, clients, accounts) /\ u \in accounts' \cup {Anonymous}
            /\ accounts \subseteq accounts' => UsersExist(session', clients', accounts')
<1> DEFINE n == clientOf[s]
<1>1. /\ IsFiniteSet(clients) /\ clients \subseteq 1..Len(session) /\ Len(session) \in Nat
      /\ \A m \in clients : session[m] \in Session /\ clientOf[session[m].socket] = m
      /\ \A r \in Sockets : clientOf[r] # 0 => clientOf[r] \in clients
      /\ \A m \in 1..Len(session) : session[m] \in Session
  BY UsedSessions
<1>2. n \in clients /\ n \in 1..Len(session)
  BY <1>1
<1>3. session \in Seq(Session) /\ DOMAIN session = 1..Len(session)
  BY LenProperties DEF SessionsFit
<1>4. session' = [session EXCEPT ![n].user = u] /\ clients' = clients /\ clientOf' = clientOf
  BY DEF SwitchTo
<1>5. DOMAIN session' = 1..Len(session)
  BY <1>3, <1>4
<1>6. \A m \in 1..Len(session) :
        /\ session'[m] \in Session /\ session'[m].socket = session[m].socket
        /\ session'[m].user = IF m = n THEN u ELSE session[m].user
  <2> SUFFICES ASSUME NEW m \in 1..Len(session)
               PROVE  /\ session'[m] \in Session /\ session'[m].socket = session[m].socket
                      /\ session'[m].user = IF m = n THEN u ELSE session[m].user
    OBVIOUS
  <2>1. session[m] \in Session
    BY <1>1
  <2>2. session'[m] = IF m = n THEN [session[m] EXCEPT !.user = u] ELSE session[m]
    BY <1>3, <1>4
  <2> HIDE DEF n
  <2> QED
    BY <2>1, <2>2 DEF Session
<1>7. session' \in Seq(Session) /\ Len(session') = Len(session)
  <2>1. session' = [m \in 1..Len(session) |-> session'[m]]
    BY <1>3, <1>4
  <2>2. session' \in Seq(Session)
    BY <1>1, <1>6, <2>1, IsASeq
  <2> QED
    BY <1>1, <1>5, <2>2, LenProperties
<1> HIDE DEF n
<1>8. \A v \in Users : Cardinality(OfUser(session', clients', v)) <= Limit
  <2> SUFFICES ASSUME NEW v \in Users
               PROVE  Cardinality(OfUser(session', clients', v)) <= Limit
    OBVIOUS
  <2> DEFINE others == {m \in clients : session[m].user = v /\ session[m].socket # s}
  <2>1. IsFiniteSet(OfUser(session, clients, v)) /\ IsFiniteSet(others)
    BY <1>1, FS_Subset DEF OfUser
  <2>2. \A m \in OfUser(session', clients', v) : m # n => m \in others
    BY <1>1, <1>4, <1>6 DEF OfUser, n
  <2>3. CASE u = v
    <3>1. Cardinality(others) < Limit
      BY <2>3 DEF HasRoom, CountUserConnections, UserOf
    <3>2. OfUser(session', clients', v) \in SUBSET (others \cup {n})
      BY <2>2
    <3> HIDE DEF others
    <3> QED
      BY <2>1, <3>1, <3>2, OneMore
  <2>4. CASE u # v
    <3>1. OfUser(session', clients', v) \in SUBSET OfUser(session, clients, v)
      BY <1>1, <1>4, <1>6, <2>4 DEF OfUser
    <3>2. Cardinality(OfUser(session, clients, v)) <= Limit
      BY DEF SessionsFit
    <3> QED
      BY <2>1, <3>1, <3>2, NoneMore
  <2> QED
    BY <2>3, <2>4
<1>9. SessionsFit(session', clients', clientOf')
  <2>1. clientOf' \in [Sockets -> 0..Len(session')] /\ clients' = {clientOf'[r] : r \in Sockets} \ {0}
    BY <1>4, <1>7 DEF SessionsFit
  <2>2. \A r \in Sockets : clientOf'[r] # 0 => session'[clientOf'[r]].socket = r
    BY <1>1, <1>4, <1>6 DEF SessionsFit
  <2> QED
    BY <1>7, <1>8, <2>1, <2>2 DEF SessionsFit
<1>10. ASSUME UsersExist(session, clients, accounts), u \in accounts' \cup {Anonymous},
              accounts \subseteq accounts'
       PROVE  UsersExist(session', clients', accounts')
  BY <1>1, <1>4, <1>6, <1>10 DEF UsersExist
<1> QED
  BY <1>9, <1>10

-----------------------------------------------------------------------------
(* Sockets and handlers                                                    *)

\* What a handler, or the timer, may do to the state of a socket.
Fresh == {"new", "refused"}
StatesGoOn(s) ==
  \A r \in Sockets : \/ socket'[r] = socket[r]
                     \/ r = s /\ socket'[r] \in {"closing", "terminated"}

States == {"new", "refused", "open", "closing", "terminated", "closed"}

\* A step of a handler, or of a timer, leaves the sockets in order.
LEMMA SocketsStayFit ==
  ASSUME SocketsFit(socket, ips, timers, clientOf, ghosts), NEW s \in Sockets,
         socket[s] \notin Fresh, socket' \in [Sockets -> States], StatesGoOn(s),
         ips' \subseteq ips, timers' \subseteq timers,
         ghosts \subseteq ghosts', ghosts' \subseteq Sockets,
         \A r \in Sockets : clientOf'[r] = clientOf[r]
                            \/ (r = s /\ (socket[s] = "closed" => s \in ghosts'))
  PROVE  SocketsFit(socket', ips', timers', clientOf', ghosts')
<1>1. \A r \in Sockets : socket'[r] \in Fresh =>
        socket'[r] = socket[r] /\ r # s /\ clientOf'[r] = clientOf[r]
  BY DEF StatesGoOn, Fresh
<1>2. \A r \in Sockets : socket'[r] \in Fresh => clientOf'[r] = 0
  BY <1>1 DEF SocketsFit, Fresh
<1>3. \A r \in Sockets \ ghosts' : socket'[r] = "closed" =>
        clientOf'[r] = 0 /\ r \notin ips' /\ r \notin timers'
  <2> SUFFICES ASSUME NEW r \in Sockets \ ghosts', socket'[r] = "closed"
               PROVE  clientOf'[r] = 0 /\ r \notin ips' /\ r \notin timers'
    OBVIOUS
  <2>1. socket[r] = "closed" /\ r \in Sockets \ ghosts
    BY DEF StatesGoOn
  <2>2. clientOf[r] = 0 /\ r \notin ips /\ r \notin timers
    BY <2>1 DEF SocketsFit
  <2>3. clientOf'[r] = clientOf[r]
    BY <2>1
  <2> QED
    BY <2>2, <2>3
<1>4. ips' \subseteq Sockets /\ timers' \subseteq Sockets
  BY DEF SocketsFit
<1> QED
  BY <1>2, <1>3, <1>4 DEF SocketsFit, States, Fresh

\* What fits while some changes are applied fits when more are.
LEMMA WaitingGrows ==
  ASSUME NEW m \in Nat, NEW n \in Nat, m <= n
  PROVE  Waiting(m) \subseteq Waiting(n) /\ Seq(Waiting(m)) \subseteq Seq(Waiting(n))
<1>1. 0..m \subseteq 0..n
  OBVIOUS
<1>2. Waiting(m) \subseteq Waiting(n)
  BY <1>1 DEF Waiting
<1>3. ASSUME NEW q \in Seq(Waiting(m)) PROVE q \in Seq(Waiting(n))
  <2>1. Len(q) \in Nat /\ q = [i \in 1..Len(q) |-> q[i]] /\ \A i \in 1..Len(q) : q[i] \in Waiting(m)
    BY LenProperties, ElementOfSeq
  <2> QED
    BY <1>2, <2>1, IsASeq
<1> QED
  BY <1>2, <1>3

LEMMA HandlerStaysFit ==
  ASSUME NEW h, NEW old, NEW new, HandlerFits(h, old), old \subseteq new, IsFiniteSet(new)
  PROVE  HandlerFits(h, new) /\ Cardinality(old) \in Nat /\ Cardinality(new) \in Nat
         /\ Cardinality(old) <= Cardinality(new)
<1>1. IsFiniteSet(old) /\ Cardinality(old) <= Cardinality(new)
  BY FS_Subset
<1>2. Cardinality(old) \in Nat /\ Cardinality(new) \in Nat
  BY <1>1, FS_CardinalityType
<1>3. 0..Cardinality(old) \subseteq 0..Cardinality(new)
  BY <1>1, <1>2
<1> QED
  BY <1>1, <1>2, <1>3 DEF HandlerFits

\* The next handler of a socket, while its queue stays as it is or loses its head.
LEMMA HandlersStayFit ==
  ASSUME HandlersFit(socket, handler, queue, log), LogFits(log, told),
         NEW s \in Sockets, socket[s] \notin Fresh, StatesGoOn(s),
         log \subseteq log', IsFiniteSet(log'),
         NEW h, HandlerFits(h, log'), Goto(s, h),
         \/ queue' = queue
         \/ queue[s] # << >> /\ queue' = [queue EXCEPT ![s] = Tail(@)]
  PROVE  HandlersFit(socket', handler', queue', log')
<1>1. \A r \in Sockets : HandlerFits(handler[r], log') 
  BY HandlerStaysFit DEF HandlersFit
<1>2. Cardinality(log) \in Nat /\ Cardinality(log') \in Nat /\ Cardinality(log) <= Cardinality(log')
  BY FS_Subset, FS_CardinalityType DEF LogFits
<1>3. Seq(Waiting(Cardinality(log))) \subseteq Seq(Waiting(Cardinality(log')))
  BY <1>2, WaitingGrows
<1>4. handler' = [r \in Sockets |-> IF r = s THEN h ELSE handler[r]]
  BY DEF HandlersFit, Goto
<1>5. \A r \in Sockets : /\ queue'[r] \in Seq(Waiting(Cardinality(log)))
                         /\ Len(queue'[r]) <= MaxPending
                         /\ r # s => queue'[r] = queue[r]
  <2>1. CASE queue' = queue
    BY <2>1 DEF HandlersFit
  <2>2. CASE queue[s] # << >> /\ queue' = [queue EXCEPT ![s] = Tail(@)]
    <3>1. queue[s] \in Seq(Waiting(Cardinality(log))) /\ Len(queue[s]) <= MaxPending
      BY DEF HandlersFit
    <3>2. Tail(queue[s]) \in Seq(Waiting(Cardinality(log))) /\ Len(Tail(queue[s])) = Len(queue[s]) - 1
      BY <2>2, <3>1, HeadTailProperties
    <3>3. Len(queue[s]) \in Nat /\ MaxPending \in Nat
      BY <3>1, LenProperties, SessionsAssumption
    <3>4. Len(Tail(queue[s])) <= MaxPending
      BY <3>1, <3>2, <3>3
    <3> QED
      BY <2>2, <3>2, <3>4 DEF HandlersFit
  <2> QED
    BY <2>1, <2>2
<1>6. queue' = [r \in Sockets |-> queue'[r]]
  BY DEF HandlersFit
<1>7. queue' \in [Sockets -> Seq(Waiting(Cardinality(log')))]
  BY <1>3, <1>5, <1>6
<1>8. \A r \in Sockets : socket'[r] \in Fresh => r # s /\ socket[r] \in Fresh
  BY DEF StatesGoOn, Fresh
<1>9. \A r \in Sockets : socket'[r] \in Fresh => handler'[r] = Idle /\ queue'[r] = << >>
  BY <1>4, <1>5, <1>8 DEF HandlersFit, Fresh
<1>10. \A r \in Sockets : HandlerFits(handler'[r], log')
  BY <1>1, <1>4
<1> QED
  BY <1>4, <1>5, <1>7, <1>9, <1>10 DEF HandlersFit, Fresh

\* Where the limit is not reached there is room.
LEMMA RoomUnlessFull ==
  ASSUME SessionsFit(session, clients, clientOf), NEW s, NEW u, ~Full(u, s)
  PROVE  HasRoom(u, s)
<1> DEFINE others == {n \in clients : UserOf(n) = u /\ session[n].socket # s}
<1>1. IsFiniteSet(clients) /\ others \in SUBSET clients
  BY UsedSessions
<1>2. Cardinality(others) \in Nat /\ Limit \in Nat
  BY <1>1, FS_Subset, FS_CardinalityType, SessionsAssumption
<1> QED
  BY <1>2 DEF HasRoom, Full, CountUserConnections

\* What a handler may leave when it has a session to give or to change: the socket of s
\* may be closing, and there is a next handler.
Leaves(s) ==
  /\ SessionsFit(session', clients', clientOf')
  /\ UsersExist(session', clients', accounts')
  /\ SocketsFit(socket', ips', timers', clientOf', ghosts')
  /\ StatesGoOn(s)
  /\ told' \in [Sockets -> SUBSET log]
  /\ \E h : HandlerFits(h, log) /\ Goto(s, h)

\* A handler that leaves the sessions as they are.
LEMMA FinishLeaves ==
  ASSUME SessionsInv, NEW s \in Sockets, socket[s] \notin Fresh,
         socket' = socket \/ socket' = [socket EXCEPT ![s] = IF @ = "open" THEN "closing" ELSE @],
         NEW h, HandlerFits(h, log), Goto(s, h), accounts' = accounts,
         UNCHANGED <<ips, timers, session, clients, clientOf, ghosts>>,
         told' \in [Sockets -> SUBSET log]
  PROVE  Leaves(s)
<1>1. socket \in [Sockets -> States]
  BY DEF SessionsInv, SocketsFit, States
<1>2. socket' \in [Sockets -> States] /\ StatesGoOn(s)
  BY <1>1 DEF States, StatesGoOn
<1>3. SocketsFit(socket, ips, timers, clientOf, ghosts)
  BY DEF SessionsInv
<1>4. ghosts' \subseteq Sockets
  BY <1>3 DEF SocketsFit
<1>5. SocketsFit(socket', ips', timers', clientOf', ghosts')
  BY <1>2, <1>3, <1>4, SocketsStayFit, Zenon
<1>6. SessionsFit(session', clients', clientOf') /\ UsersExist(session', clients', accounts')
  BY DEF SessionsInv
<1> QED
  BY <1>2, <1>5, <1>6 DEF Leaves

\* A session that is made or changes hands, with the synchronisation to come.
LEMMA SessionLeaves ==
  ASSUME SessionsInv, NEW s \in Sockets, socket[s] \notin Fresh, NEW u \in Visitors,
         NEW from \in 0..Cardinality(log), HasRoom(u, s),
         Register(s, u) \/ (clientOf[s] # 0 /\ SwitchTo(s, u)),
         ThenSync(s, from), ips' = ips, timers' \subseteq timers, socket' = socket,
         accounts \subseteq accounts', u \in accounts' \cup {Anonymous}
  PROVE  Leaves(s)
<1>1. SessionsFit(session', clients', clientOf') /\ UsersExist(session', clients', accounts')
  BY RegisterFits, SwitchFits DEF SessionsInv
<1>2. SocketsFit(socket, ips, timers, clientOf, ghosts)
  BY DEF SessionsInv
<1>3. clientOf \in [Sockets -> 0..Len(session)]
  BY DEF SessionsInv, SessionsFit
<1>4. ghosts \subseteq ghosts' /\ ghosts' \subseteq Sockets
  BY <1>2 DEF SocketsFit, Register, SwitchTo
<1>5. \A r \in Sockets : clientOf'[r] = clientOf[r]
                          \/ (r = s /\ (socket[s] = "closed" => s \in ghosts'))
  BY <1>3 DEF Register, SwitchTo
<1>6. socket' \in [Sockets -> States] /\ StatesGoOn(s)
  BY <1>2 DEF SocketsFit, States, StatesGoOn
<1>7. SocketsFit(socket', ips', timers', clientOf', ghosts')
  BY <1>2, <1>4, <1>5, <1>6, SocketsStayFit
<1>8. told' \in [Sockets -> SUBSET log]
  BY DEF ThenSync, SessionsInv, LogFits
<1>9. HandlerFits([pc |-> "sync", client |-> clientOf'[s], from |-> from], log)
  BY DEF HandlerFits
<1> QED
  BY <1>1, <1>6, <1>7, <1>8, <1>9 DEF Leaves, ThenSync

LEMMA AuthenticateLeaves ==
  ASSUME SessionsInv, NEW s \in Sockets, socket[s] \notin Fresh,
         NEW u \in accounts \cup {Anonymous}, NEW from \in 0..Cardinality(log),
         Authenticate(s, u, from), ips' = ips, accounts' = accounts
  PROVE  Leaves(s)
<1>1. u \in Visitors /\ told \in [Sockets -> SUBSET log]
  BY DEF SessionsInv, Visitors, LogFits
<1>2. HandlerFits(Idle, log)
  BY DEF HandlerFits, Idle
<1>3. CASE u \in Users /\ Full(u, s)
  BY <1>1, <1>2, <1>3, FinishLeaves DEF Authenticate, Finish
<1>4. CASE ~(u \in Users /\ Full(u, s))
  <2>1. HasRoom(u, s)
    BY <1>4, RoomUnlessFull DEF SessionsInv, HasRoom
  <2>2. Register(s, u) /\ ThenSync(s, from) /\ timers' = timers \ {s} /\ socket' = socket
    BY <1>4 DEF Authenticate
  <2> QED
    BY <1>1, <2>1, <2>2, SessionLeaves
<1> QED
  BY <1>3, <1>4

LEMMA CompleteLeaves ==
  ASSUME SessionsInv, NEW s \in Sockets, socket[s] \notin Fresh, NEW u \in Users,
         HasRoom(u, s), Complete(s, u), ips' = ips,
         accounts \subseteq accounts', u \in accounts'
  PROVE  Leaves(s)
<1>1. u \in Visitors /\ 0 \in 0..Cardinality(log)
  <2>1. Cardinality(log) \in Nat
    BY FS_CardinalityType DEF SessionsInv, LogFits
  <2> QED
    BY <2>1 DEF Visitors
<1>2. Register(s, u) \/ (clientOf[s] # 0 /\ SwitchTo(s, u))
  BY DEF Complete
<1>3. ThenSync(s, 0) /\ timers' \subseteq timers /\ socket' = socket
  BY DEF Complete
<1> QED
  BY <1>1, <1>2, <1>3, SessionLeaves

\* The sessions are in order after such a step.
LEMMA LeavesKeepsOrder ==
  ASSUME SessionsInv, NEW s \in Sockets, socket[s] \notin Fresh, Leaves(s), log' = log,
         accounts' \subseteq Users,
         \/ queue' = queue
         \/ queue[s] # << >> /\ queue' = [queue EXCEPT ![s] = Tail(@)]
  PROVE  SessionsInv'
<1>1. HandlersFit(socket, handler, queue, log) /\ LogFits(log, told)
  BY DEF SessionsInv
<1>2. PICK h : HandlerFits(h, log) /\ Goto(s, h)
  BY DEF Leaves
<1>3. log \subseteq log' /\ IsFiniteSet(log') /\ HandlerFits(h, log') /\ StatesGoOn(s)
  BY <1>1, <1>2 DEF LogFits, Leaves
<1>4. HandlersFit(socket', handler', queue', log')
  BY <1>1, <1>2, <1>3, HandlersStayFit
<1>5. LogFits(log', told')
  BY <1>1 DEF LogFits, Leaves
<1> QED
  BY <1>4, <1>5 DEF SessionsInv, Leaves

-----------------------------------------------------------------------------
(* The steps of a connection                                               *)

LEMMA ConnectKeepsOrder ==
  ASSUME SessionsInv, NEW s \in Sockets, Connect(s)
  PROVE  SessionsInv'
<1>1. socket[s] = "new" /\ clientOf[s] = 0 /\ handler[s] = Idle /\ queue[s] = << >>
  BY DEF Connect, SessionsInv, SocketsFit, HandlersFit
<1>2. \A r \in Sockets : socket'[r] = IF r = s THEN socket'[s] ELSE socket[r]
  BY DEF Connect, SessionsInv, SocketsFit
<1>3. socket'[s] \in {"open", "refused"} /\ socket' = [r \in Sockets |-> socket'[r]]
  BY DEF Connect, SessionsInv, SocketsFit
<1>4. SocketsFit(socket', ips', timers', clientOf', ghosts')
  <2>1. ips' = ips \cup {s} /\ timers' \subseteq timers \cup {s} /\ clientOf' = clientOf /\ ghosts' = ghosts
    BY DEF Connect
  <2>2. socket' \in [Sockets -> States]
    BY <1>2, <1>3 DEF SessionsInv, SocketsFit, States
  <2> QED
    BY <1>1, <1>2, <1>3, <2>1, <2>2 DEF SessionsInv, SocketsFit, States
<1>5. HandlersFit(socket', handler', queue', log')
  BY <1>1, <1>2 DEF Connect, SessionsInv, HandlersFit
<1>6. SessionsFit(session', clients', clientOf') /\ UsersExist(session', clients', accounts')
      /\ accounts' \subseteq Users /\ LogFits(log', told')
  BY DEF Connect, SessionsInv
<1> QED
  BY <1>4, <1>5, <1>6 DEF SessionsInv

LEMMA FireTimerKeepsOrder ==
  ASSUME SessionsInv, NEW s \in Sockets, FireTimer(s)
  PROVE  SessionsInv'
<1>1. /\ timers' = timers \ {s}
      /\ socket' = [socket EXCEPT ![s] = IF Unclaimed(s) /\ @ = "open" THEN "closing" ELSE @]
      /\ UNCHANGED <<ips, session, clients, clientOf, queue, handler, accounts, log, told, ghosts>>
  BY DEF FireTimer
<1>2. \A r \in Sockets : socket'[r] = socket[r] \/ socket'[r] = "closing"
  BY <1>1 DEF SessionsInv, SocketsFit
<1>3. socket' \in [Sockets -> States]
  BY <1>1 DEF SessionsInv, SocketsFit, States
<1>4. SocketsFit(socket', ips', timers', clientOf', ghosts')
  BY <1>1, <1>2, <1>3 DEF SessionsInv, SocketsFit, States
<1>5. HandlersFit(socket', handler', queue', log')
  BY <1>1, <1>2 DEF SessionsInv, HandlersFit
<1>6. SessionsFit(session', clients', clientOf') /\ UsersExist(session', clients', accounts')
      /\ accounts' \subseteq Users /\ LogFits(log', told')
  BY <1>1 DEF SessionsInv
<1> QED
  BY <1>4, <1>5, <1>6 DEF SessionsInv

LEMMA CloseKeepsOrder ==
  ASSUME SessionsInv, NEW s \in Sockets, Close(s)
  PROVE  SessionsInv'
<1>1. /\ socket[s] \notin Fresh /\ socket' = [socket EXCEPT ![s] = "closed"]
      /\ ips' = ips \ {s} /\ timers' = timers \ {s}
      /\ clients' = clients \ {clientOf[s]} /\ clientOf' = [clientOf EXCEPT ![s] = 0]
      /\ UNCHANGED <<session, queue, handler, accounts, log, told, ghosts>>
  BY DEF Close, Left, Fresh
<1>2. /\ IsFiniteSet(clients) /\ clients \subseteq 1..Len(session) /\ Len(session) \in Nat
      /\ \A r \in Sockets : clientOf[r] # 0 => clientOf[r] \in clients
  BY UsedSessions DEF SessionsInv
<1>3. /\ SessionsFit(session, clients, clientOf) /\ UsersExist(session, clients, accounts)
      /\ SocketsFit(socket, ips, timers, clientOf, ghosts)
      /\ HandlersFit(socket, handler, queue, log)
  BY DEF SessionsInv
<1>4. clientOf \in [Sockets -> 0..Len(session)] /\ clients = {clientOf[r] : r \in Sockets} \ {0}
  BY <1>3 DEF SessionsFit
<1>5. \A r \in Sockets : clientOf'[r] = IF r = s THEN 0 ELSE clientOf[r]
  BY <1>1, <1>4
<1>6. SessionsFit(session', clients', clientOf')
  <2>1. clientOf' \in [Sockets -> 0..Len(session')]
    BY <1>1, <1>2, <1>4
  <2>2. \A r \in Sockets : r # s /\ clientOf[r] # 0 => clientOf[r] # clientOf[s]
    BY <1>3 DEF SessionsFit
  <2>3. clients' = {clientOf'[r] : r \in Sockets} \ {0}
    <3>1. \A n \in clients' : n \in {clientOf'[r] : r \in Sockets} \ {0}
      BY <1>1, <1>4, <1>5
    <3>2. \A r \in Sockets : clientOf'[r] # 0 => clientOf'[r] \in clients'
      BY <1>1, <1>2, <1>5, <2>2
    <3> QED
      BY <3>1, <3>2
  <2>4. \A r \in Sockets : clientOf'[r] # 0 => session'[clientOf'[r]].socket = r
    BY <1>1, <1>3, <1>5 DEF SessionsFit
  <2>5. ASSUME NEW u \in Users PROVE Cardinality(OfUser(session', clients', u)) <= Limit
    <3>1. OfUser(session', clients', u) \in SUBSET OfUser(session, clients, u)
      BY <1>1 DEF OfUser
    <3>2. IsFiniteSet(OfUser(session, clients, u))
      BY <1>2, FS_Subset DEF OfUser
    <3>3. Cardinality(OfUser(session, clients, u)) <= Limit
      BY <1>3 DEF SessionsFit
    <3> QED
      BY <3>1, <3>2, <3>3, NoneMore
  <2> QED
    BY <1>1, <1>3, <2>1, <2>3, <2>4, <2>5 DEF SessionsFit
<1>7. UsersExist(session', clients', accounts')
  BY <1>1, <1>3 DEF UsersExist
<1>8. SocketsFit(socket', ips', timers', clientOf', ghosts')
  <2>1. socket' \in [Sockets -> States]
    BY <1>1, <1>3 DEF SocketsFit, States
  <2>2. \A r \in Sockets : socket'[r] = IF r = s THEN "closed" ELSE socket[r]
    BY <1>1, <1>3 DEF SocketsFit
  <2> QED
    BY <1>1, <1>3, <1>5, <2>1, <2>2 DEF SocketsFit, States
<1>9. HandlersFit(socket', handler', queue', log')
  BY <1>1, <1>3 DEF HandlersFit, SocketsFit, Fresh
<1> QED
  BY <1>1, <1>6, <1>7, <1>8, <1>9 DEF SessionsInv

LEMMA ReceiveKeepsOrder ==
  ASSUME SessionsInv, NEW s \in Sockets, NEW m \in Messages, Receive(s, m)
  PROVE  SessionsInv'
<1>1. /\ HandlersFit(socket, handler, queue, log)
      /\ SocketsFit(socket, ips, timers, clientOf, ghosts)
  BY DEF SessionsInv
<1>2. /\ socket[s] \in {"open", "closing"}
      /\ UNCHANGED <<ips, timers, session, clients, clientOf, handler, accounts, log, told, ghosts>>
  BY DEF Receive, maps
<1>3. SessionsFit(session', clients', clientOf') /\ UsersExist(session', clients', accounts')
      /\ accounts' \subseteq Users /\ LogFits(log', told')
  BY <1>2 DEF SessionsInv
<1>4. CASE socket' = [socket EXCEPT ![s] = "terminated"] /\ queue' = queue
  <2>1. SocketsFit(socket', ips', timers', clientOf', ghosts')
    BY <1>1, <1>2, <1>4 DEF SocketsFit
  <2>2. \A r \in Sockets : socket'[r] \in Fresh => socket[r] \in Fresh
    BY <1>1, <1>4 DEF SocketsFit, Fresh
  <2>3. HandlersFit(socket', handler', queue', log')
    BY <1>1, <1>2, <1>4, <2>2 DEF HandlersFit, Fresh
  <2> QED
    BY <1>3, <2>1, <2>3 DEF SessionsInv
<1>5. CASE /\ socket' = socket /\ queue' = [queue EXCEPT ![s] = Append(@, m)]
           /\ ~(Len(queue[s]) + (IF At(s, "idle") THEN 0 ELSE 1) >= MaxPending)
  <2> DEFINE n == Cardinality(log)
  <2>1. m \in Waiting(n)
    BY DEF Messages, Waiting, Number, Visitors
  <2>2. queue[s] \in Seq(Waiting(n))
    BY <1>1 DEF HandlersFit
  <2> HIDE DEF n
  <2>3. Append(queue[s], m) \in Seq(Waiting(n)) /\ Len(Append(queue[s], m)) = Len(queue[s]) + 1
    BY <2>1, <2>2, AppendProperties
  <2>4. Len(queue[s]) \in Nat /\ MaxPending \in Nat
    BY <2>2, LenProperties, SessionsAssumption
  <2>5. Len(Append(queue[s], m)) <= MaxPending
    <3> DEFINE busy == IF At(s, "idle") THEN 0 ELSE 1
    <3>1. busy \in Nat /\ ~(Len(queue[s]) + busy >= MaxPending)
      BY <1>5
    <3> HIDE DEF busy
    <3> QED
      BY <2>3, <2>4, <3>1
  <2>6. \A r \in Sockets : queue'[r] = IF r = s THEN Append(queue[s], m) ELSE queue[r]
    BY <1>1, <1>5 DEF HandlersFit
  <2>7. queue' \in [Sockets -> Seq(Waiting(Cardinality(log)))]
    BY <1>1, <1>5, <2>3 DEF HandlersFit, n
  <2>8. \A r \in Sockets : Len(queue'[r]) <= MaxPending
    BY <1>1, <2>5, <2>6 DEF HandlersFit
  <2>9. HandlersFit(socket', handler', queue', log')
    BY <1>1, <1>2, <1>5, <2>6, <2>7, <2>8 DEF HandlersFit
  <2>10. SocketsFit(socket', ips', timers', clientOf', ghosts')
    BY <1>1, <1>2, <1>5
  <2> QED
    BY <1>3, <2>9, <2>10 DEF SessionsInv
<1> QED
  BY <1>4, <1>5 DEF Receive

-----------------------------------------------------------------------------
(* The steps of handlers                                                   *)

\* A socket whose handler is at work, or has a message to handle, was opened.
LEMMA BusySocketsAreOpen ==
  ASSUME SessionsInv, NEW s \in Sockets, handler[s].pc # "idle" \/ queue[s] # << >>
  PROVE  socket[s] \notin Fresh /\ HandlerFits(handler[s], log)
         /\ told \in [Sockets -> SUBSET log] /\ HandlerFits(Idle, log)
<1>1. HandlerFits(handler[s], log) /\ told \in [Sockets -> SUBSET log]
  BY DEF SessionsInv, HandlersFit, LogFits
<1>2. Idle.pc = "idle" /\ HandlerFits(Idle, log)
  BY DEF Idle, HandlerFits
<1> QED
  BY <1>1, <1>2 DEF SessionsInv, HandlersFit, Fresh

LEMMA HandleKeepsOrder ==
  ASSUME SessionsInv, NEW s \in Sockets, Handle(s)
  PROVE  SessionsInv'
<1> DEFINE m == Head(queue[s])
           none == clientOf[s] = 0
           n == Cardinality(log)
<1>1. /\ queue[s] # << >> /\ queue' = [queue EXCEPT ![s] = Tail(@)]
      /\ ips' = ips /\ accounts' = accounts /\ log' = log
  BY DEF Handle
<1>2. /\ socket[s] \notin Fresh /\ told \in [Sockets -> SUBSET log] /\ HandlerFits(Idle, log)
      /\ accounts \subseteq Users /\ n \in Nat
  BY <1>1, BusySocketsAreOpen, FS_CardinalityType DEF SessionsInv, LogFits
<1>3. m \in Waiting(n)
  <2>1. queue[s] \in Seq(Waiting(n))
    BY DEF SessionsInv, HandlersFit
  <2> QED
    BY <1>1, <2>1, HeadTailProperties
<1>4. /\ m.type = "auth" => m.user \in Visitors /\ m.from \in 0..n
      /\ m.type \in {"login", "register"} => m.user \in Users
      /\ m.type = "batch" => m.tables \in Batches
  <2> HIDE DEF m
  <2> QED
    BY <1>3 DEF Waiting
<1>5. ~none => UserOf(clientOf[s]) \in accounts \cup {Anonymous}
  <2>1. ~none => clientOf[s] \in clients
    BY UsedSessions DEF SessionsInv
  <2> QED
    BY <2>1 DEF SessionsInv, UsersExist, UserOf
<1> HIDE DEF m
<1>6. CASE m.type = "auth" /\ Authenticate(s, IF none THEN Anonymous ELSE UserOf(clientOf[s]), m.from)
  <2>1. (IF none THEN Anonymous ELSE UserOf(clientOf[s])) \in accounts \cup {Anonymous}
    BY <1>5
  <2>2. Leaves(s)
    BY <1>1, <1>2, <1>4, <1>6, <2>1, AuthenticateLeaves
  <2> QED
    BY <1>1, <1>2, <2>2, LeavesKeepsOrder
<1>7. CASE ~none /\ SwitchTo(s, Anonymous) /\ ThenSync(s, 0) /\ UNCHANGED <<socket, timers>>
  <2>1. HasRoom(Anonymous, s)
    BY ActorsAssumption DEF HasRoom
  <2>2. Anonymous \in Visitors /\ 0 \in 0..n
    BY <1>2 DEF Visitors
  <2>3. Leaves(s)
    BY <1>1, <1>2, <1>7, <2>1, <2>2, SessionLeaves
  <2> QED
    BY <1>1, <1>2, <2>3, LeavesKeepsOrder
<1>8. ASSUME NEW h, HandlerFits(h, log), Goto(s, h),
             UNCHANGED <<socket, timers, session, clients, clientOf, told, ghosts>>
      PROVE  SessionsInv'
  <2>1. Leaves(s)
    BY <1>1, <1>2, <1>8, FinishLeaves
  <2> QED
    BY <1>1, <1>2, <2>1, LeavesKeepsOrder
<1>9. CASE Finish(s) /\ UNCHANGED <<socket, timers, session, clients, clientOf, told, ghosts>>
  BY <1>2, <1>8, <1>9 DEF Finish
<1>10. CASE UNCHANGED <<socket, timers, session, clients, clientOf, told, ghosts>>
            /\ \/ /\ m.type = "auth" /\ m.user # Anonymous
                  /\ Goto(s, [pc |-> "token", user |-> m.user, from |-> m.from])
               \/ /\ m.type = "login"
                  /\ Goto(s, [pc |-> "password", user |-> m.user])
               \/ /\ m.type = "register"
                  /\ Goto(s, [pc |-> "find", user |-> m.user])
               \/ /\ m.type = "batch" /\ ~none
                  /\ Goto(s, [pc |-> "apply", user |-> UserOf(clientOf[s]), tables |-> m.tables])
  <2>1. m.type = "auth" /\ m.user # Anonymous =>
          HandlerFits([pc |-> "token", user |-> m.user, from |-> m.from], log)
    BY <1>4 DEF HandlerFits, Visitors
  <2>2. m.type = "login" => HandlerFits([pc |-> "password", user |-> m.user], log)
    BY <1>4 DEF HandlerFits
  <2>3. m.type = "register" => HandlerFits([pc |-> "find", user |-> m.user], log)
    BY <1>4 DEF HandlerFits
  <2>4. m.type = "batch" /\ ~none =>
          HandlerFits([pc |-> "apply", user |-> UserOf(clientOf[s]), tables |-> m.tables], log)
    BY <1>2, <1>4, <1>5 DEF HandlerFits, Visitors
  <2> HIDE DEF none
  <2> QED
    BY <1>8, <1>10, <2>1, <2>2, <2>3, <2>4
<1> QED
  BY <1>6, <1>7, <1>9, <1>10 DEF Handle, m

LEMMA SignInKeepsOrder ==
  ASSUME SessionsInv, NEW s \in Sockets,
         CheckToken(s) \/ CheckPassword(s) \/ FindUser(s) \/ CreateUser(s)
  PROVE  SessionsInv'
<1> DEFINE u == handler[s].user
<1>1. /\ handler[s].pc \in {"token", "password", "find", "create"}
      /\ ips' = ips /\ queue' = queue /\ log' = log
  BY DEF CheckToken, CheckPassword, FindUser, CreateUser, At, maps
<1>2. /\ socket[s] \notin Fresh /\ HandlerFits(handler[s], log)
      /\ told \in [Sockets -> SUBSET log] /\ HandlerFits(Idle, log)
  BY <1>1, BusySocketsAreOpen
<1>3. /\ u \in Users /\ accounts \subseteq Users
      /\ At(s, "token") => handler[s].from \in 0..Cardinality(log)
  BY <1>1, <1>2 DEF HandlerFits, At, SessionsInv
<1>4. ASSUME NEW h, HandlerFits(h, log), Goto(s, h), accounts' = accounts,
             \/ socket' = socket
             \/ socket' = [socket EXCEPT ![s] = IF @ = "open" THEN "closing" ELSE @],
             UNCHANGED <<timers, session, clients, clientOf, told, ghosts>>
      PROVE  SessionsInv'
  <2>1. Leaves(s)
    BY <1>1, <1>2, <1>4, FinishLeaves
  <2> QED
    BY <1>1, <1>2, <1>3, <1>4, <2>1, LeavesKeepsOrder
<1>5. CASE CheckToken(s)
  <2>1. CASE u \in accounts /\ Authenticate(s, u, handler[s].from) /\ accounts' = accounts
    <3>1. Leaves(s)
      BY <1>1, <1>2, <1>3, <1>5, <2>1, AuthenticateLeaves DEF CheckToken
    <3> QED
      BY <1>1, <1>2, <1>3, <2>1, <3>1, LeavesKeepsOrder
  <2>2. CASE /\ socket' = [socket EXCEPT ![s] = IF @ = "open" THEN "closing" ELSE @]
             /\ Finish(s) /\ accounts' = accounts
             /\ UNCHANGED <<timers, session, clients, clientOf, told, ghosts>>
    BY <1>2, <1>4, <2>2 DEF Finish
  <2> QED
    BY <1>5, <2>1, <2>2 DEF CheckToken
<1>6. CASE CheckPassword(s)
  <2>1. CASE u \in accounts /\ ~Full(u, s) /\ Complete(s, u) /\ accounts' = accounts
    <3>1. HasRoom(u, s)
      BY <2>1, RoomUnlessFull DEF SessionsInv
    <3>2. Leaves(s)
      BY <1>1, <1>2, <1>3, <2>1, <3>1, CompleteLeaves
    <3> QED
      BY <1>1, <1>2, <1>3, <2>1, <3>2, LeavesKeepsOrder
  <2>2. CASE /\ Finish(s) /\ accounts' = accounts
             /\ UNCHANGED <<socket, timers, session, clients, clientOf, told, ghosts>>
    BY <1>2, <1>4, <2>2 DEF Finish
  <2> QED
    BY <1>6, <2>1, <2>2 DEF CheckPassword
<1>7. CASE FindUser(s)
  <2>1. UNCHANGED <<socket, timers, session, clients, clientOf, told, ghosts, accounts>>
    BY <1>7 DEF FindUser, maps
  <2>2. handler[s] = [pc |-> "find", user |-> u]
    BY <1>2, <1>7 DEF FindUser, At, HandlerFits
  <2>3. [handler[s] EXCEPT !.pc = "create"] = [pc |-> "create", user |-> u]
    <3> HIDE DEF u
    <3> QED
      BY <2>2
  <2>4. HandlerFits([pc |-> "create", user |-> u], log)
    BY <1>3 DEF HandlerFits
  <2> QED
    BY <1>2, <1>4, <1>7, <2>1, <2>3, <2>4 DEF FindUser, Finish
<1>8. CASE CreateUser(s)
  <2>1. CASE /\ Finish(s) /\ accounts' = accounts
             /\ UNCHANGED <<socket, timers, session, clients, clientOf, told, ghosts>>
    BY <1>2, <1>4, <2>1 DEF Finish
  <2>2. CASE u \notin accounts /\ accounts' = accounts \cup {u} /\ Complete(s, u)
    <3>1. {m \in clients : UserOf(m) = u /\ session[m].socket # s} = {}
      BY <1>3, <2>2, ActorsAssumption DEF SessionsInv, UsersExist, UserOf
    <3>2. HasRoom(u, s)
      <4>1. Cardinality({}) = 0 /\ Limit \in Nat \ {0}
        BY FS_EmptySet, SessionsAssumption
      <4>2. CountUserConnections(u, s) = 0
        BY <3>1, <4>1 DEF CountUserConnections
      <4> QED
        BY <4>1, <4>2 DEF HasRoom
    <3>3. Leaves(s)
      BY <1>1, <1>2, <1>3, <2>2, <3>2, CompleteLeaves
    <3> QED
      BY <1>1, <1>2, <1>3, <2>2, <3>3, LeavesKeepsOrder
  <2> QED
    BY <1>8, <2>1, <2>2 DEF CreateUser
<1> QED
  BY <1>5, <1>6, <1>7, <1>8

\* A set of natural numbers has a least member, or is empty.
LEMMA LeastOf ==
  ASSUME NEW S \in SUBSET Nat, S # {}
  PROVE  Min(S) \in S /\ \A m \in S : Min(S) <= m
<1>1. PICK n \in S : \A m \in S : ~(<<m, n>> \in OpToRel(<, Nat))
  BY NatLessThanWellFounded, WFMin, Zenon
<1>2. \A m \in S : n <= m
  <2>1. SUFFICES ASSUME NEW m \in S, m < n PROVE FALSE
    OBVIOUS
  <2>2. <<m, n>> \in Nat \X Nat /\ <<m, n>>[1] < <<m, n>>[2]
    BY <2>1
  <2>3. <<m, n>> \in OpToRel(<, Nat)
    BY <2>2, Zenon DEF OpToRel
  <2> QED
    BY <1>1, <2>3
<1> QED
  BY <1>2 DEF Min

\* The tables still to be looked up are the first and the others.
LEMMA FirstAndOthers ==
  ASSUME NEW S, NEW q \in Seq(S), q # << >>
  PROVE  /\ Tail(q) \in Seq(S) /\ Head(q) \in ToSet(q)
         /\ \A x \in ToSet(q) : x = Head(q) \/ x \in ToSet(Tail(q))
         /\ Tail(q) = << >> => \A x \in ToSet(q) : x = Head(q)
<1>1. Tail(q) \in Seq(S) /\ Head(q) = q[1] /\ DOMAIN q = 1..Len(q) /\ Len(q) \in Nat \ {0}
  BY HeadTailProperties, LenProperties, EmptySeq
<1>2. /\ Len(Tail(q)) = Len(q) - 1 /\ DOMAIN Tail(q) = 1..Len(Tail(q))
      /\ \A i \in 1..Len(Tail(q)) : Tail(q)[i] = q[i + 1]
  BY HeadTailProperties, LenProperties
<1>3. ASSUME NEW i \in 1..Len(q), i # 1 PROVE q[i] \in ToSet(Tail(q)) /\ Tail(q) # << >>
  <2>1. i - 1 \in 1..Len(Tail(q)) /\ (i - 1) + 1 = i
    BY <1>1, <1>2, <1>3
  <2>2. q[i] = Tail(q)[i - 1]
    BY <1>2, <2>1
  <2>3. Len(Tail(q)) # 0
    BY <1>1, <1>2, <2>1
  <2>4. Tail(q) # << >>
    BY <2>3, EmptySeq
  <2> QED
    BY <1>2, <2>1, <2>2, <2>4 DEF ToSet
<1>4. 1 \in DOMAIN q
  BY <1>1
<1> QED
  BY <1>1, <1>3, <1>4 DEF ToSet

\* The handler of a broadcast with one table less to look up.
LEMMA GoesOn ==
  ASSUME NEW h, NEW todo, NEW got,
         h = [pc |-> "table", user |-> h.user, changes |-> h.changes, todo |-> h.todo,
              got |-> h.got, client |-> h.client]
  PROVE  [h EXCEPT !.todo = todo, !.got = got] =
           [pc |-> "table", user |-> h.user, changes |-> h.changes, todo |-> todo,
            got |-> got, client |-> h.client]
<1> DEFINE h1 == [h EXCEPT !.todo = todo]
           h2 == [h1 EXCEPT !.got = got]
<1>1. h1 = [pc |-> "table", user |-> h.user, changes |-> h.changes, todo |-> todo,
            got |-> h.got, client |-> h.client]
  OBVIOUS
<1>2. [h EXCEPT !.todo = todo, !.got = got] = h2
  OBVIOUS
<1> HIDE DEF h1
<1>3. h2 = [pc |-> "table", user |-> h.user, changes |-> h.changes, todo |-> todo,
            got |-> got, client |-> h.client]
  BY <1>1
<1> HIDE DEF h2
<1> QED
  BY <1>2, <1>3

\* A handler that tells some clients and leaves the sessions as they are.
LEMMA TellKeepsOrder ==
  ASSUME SessionsInv, NEW s \in Sockets, handler[s].pc # "idle",
         NEW h, HandlerFits(h, log), Goto(s, h), told' \in [Sockets -> SUBSET log],
         UNCHANGED <<socket, maps, queue, accounts, log, ghosts>>
  PROVE  SessionsInv'
<1>1. socket[s] \notin Fresh
  BY BusySocketsAreOpen
<1>2. Leaves(s)
  BY <1>1, FinishLeaves DEF maps
<1> QED
  BY <1>1, <1>2, LeavesKeepsOrder DEF SessionsInv

\* The changes a batch makes: finitely many, numbered on from the last.
Made(h) == {[seq |-> Number + n, table |-> h.tables[n],
             owner |-> IF h.user \in Users THEN h.user ELSE NoOwner]
            : n \in DOMAIN h.tables}

LEMMA MadeAreNew ==
  ASSUME SessionsInv, NEW s \in Sockets, At(s, "apply")
  PROVE  /\ IsFiniteSet(Made(handler[s])) /\ Number \in Nat
         /\ \A c \in Made(handler[s]) :
              c.seq \in Nat /\ c.seq > Number /\ c.table \in ToSet(handler[s].tables)
<1> DEFINE h == handler[s]
           f == [n \in DOMAIN h.tables |->
                   [seq |-> Number + n, table |-> h.tables[n],
                    owner |-> IF h.user \in Users THEN h.user ELSE NoOwner]]
<1>1. Number \in Nat
  BY FS_CardinalityType DEF SessionsInv, LogFits, Number
<1>2. h.tables \in Seq(Tables)
  <2>1. h.tables \in Batches
    BY DEF SessionsInv, HandlersFit, HandlerFits, At
  <2> QED
    BY <2>1, SessionsAssumption
<1>3. DOMAIN h.tables = 1..Len(h.tables) /\ Len(h.tables) \in Nat
  BY <1>2, LenProperties
<1>4. IsFiniteSet(DOMAIN h.tables)
  <2>1. \A n \in Nat : IsFiniteSet(1..n)
    BY FS_Interval
  <2> QED
    BY <1>3, <2>1
<1>5. f \in Surjection(DOMAIN h.tables, Made(h))
  BY DEF Made, Surjection
<1>6. IsFiniteSet(Made(h))
  <2> HIDE DEF f, h
  <2> QED
    BY <1>4, <1>5, FS_Surjection
<1>7. \A c \in Made(h) : c.seq \in Nat /\ c.seq > Number /\ c.table \in ToSet(h.tables)
  <2> HIDE DEF h, Number
  <2>1. \A n \in DOMAIN h.tables : Number + n \in Nat /\ Number + n > Number
    BY <1>1, <1>3
  <2> QED
    BY <2>1 DEF Made, ToSet
<1> QED
  BY <1>1, <1>6, <1>7

LEMMA ApplyKeepsOrder ==
  ASSUME SessionsInv, NEW s \in Sockets, Apply(s)
  PROVE  SessionsInv'
<1> DEFINE h == handler[s]
           made == Made(h)
           ack == [pc |-> "ack", user |-> h.user, changes |-> made, todo |-> h.tables]
<1>1. At(s, "apply") /\ h.pc # "idle"
  BY DEF Apply, At
<1>2. socket[s] \notin Fresh /\ HandlerFits(h, log) /\ HandlerFits(Idle, log)
      /\ told \in [Sockets -> SUBSET log]
  BY <1>1, BusySocketsAreOpen
<1>3. UNCHANGED <<socket, ips, timers, session, clients, clientOf, queue, accounts, told, ghosts>>
  BY DEF Apply, maps
<1>4. CASE log' = log \cup made /\ Goto(s, ack)
  <2>1. IsFiniteSet(made) /\ \A c \in made : c.seq \in Nat /\ c.table \in ToSet(h.tables)
    BY <1>1, MadeAreNew
  <2>2. IsFiniteSet(log) /\ \A c \in log : c.seq \in Nat
    BY DEF SessionsInv, LogFits
  <2> HIDE DEF made
  <2>3. IsFiniteSet(log')
    BY <1>4, <2>1, <2>2, FS_Union
  <2>4. LogFits(log', told')
    BY <1>2, <1>3, <1>4, <2>1, <2>2, <2>3 DEF LogFits
  <2>5. HandlerFits(ack, log')
    BY <1>1, <1>2, <1>4, <2>1 DEF HandlerFits, At
  <2>6. StatesGoOn(s) /\ log \subseteq log' /\ HandlersFit(socket, handler, queue, log)
        /\ LogFits(log, told)
    BY <1>3, <1>4 DEF StatesGoOn, SessionsInv
  <2> HIDE DEF ack, h
  <2>7. HandlersFit(socket', handler', queue', log')
    BY <1>2, <1>3, <1>4, <2>3, <2>5, <2>6, HandlersStayFit
  <2> QED
    BY <1>3, <2>4, <2>7 DEF SessionsInv
<1>5. CASE Finish(s) /\ log' = log
  <2>1. UNCHANGED <<socket, maps, queue, accounts, log, ghosts>> /\ told' = told
    BY <1>3, <1>5 DEF maps
  <2> QED
    BY <1>1, <1>2, <1>5, <2>1, TellKeepsOrder DEF Finish
<1> QED
  BY <1>4, <1>5 DEF Apply, Made

LEMMA TellingKeepsOrder ==
  ASSUME SessionsInv, NEW s \in Sockets, Sync(s) \/ Acknowledge(s) \/ LookUp(s)
  PROVE  SessionsInv'
<1> DEFINE h == handler[s]
<1>1. h.pc \in {"sync", "ack", "table"} /\ UNCHANGED <<socket, maps, queue, accounts, log, ghosts>>
  BY DEF Sync, Acknowledge, LookUp, At
<1>2. HandlerFits(h, log) /\ HandlerFits(Idle, log) /\ told \in [Sockets -> SUBSET log]
  BY <1>1, BusySocketsAreOpen
<1>3. ASSUME NEW next, HandlerFits(next, log), Goto(s, next), told' \in [Sockets -> SUBSET log]
      PROVE  SessionsInv'
  BY <1>1, <1>3, TellKeepsOrder
<1>4. CASE Sync(s)
  <2>1. told' \in [Sockets -> SUBSET log]
    BY <1>2, <1>4 DEF Sync, Sent
  <2> QED
    BY <1>2, <1>3, <1>4, <2>1 DEF Sync, Finish
<1>5. CASE Acknowledge(s)
  <2>1. h.changes \subseteq log /\ h.todo \in Batches
    BY <1>2, <1>5 DEF Acknowledge, At, HandlerFits
  <2>2. told' \in [Sockets -> SUBSET log]
    BY <1>2, <1>5, <2>1 DEF Acknowledge, Sent
  <2>3. CASE Ahead(s, 0) # {}
    <3> DEFINE next == [pc |-> "table", user |-> h.user, changes |-> h.changes,
                        todo |-> h.todo, got |-> {}, client |-> Min(Ahead(s, 0))]
    <3>1. Ahead(s, 0) \in SUBSET Nat
      BY UsedSessions DEF Ahead, SessionsInv
    <3>2. Min(Ahead(s, 0)) \in Nat
      BY <2>3, <3>1, LeastOf
    <3>3. h.todo \in Seq(Tables) /\ h.todo # << >>
      BY <2>1, SessionsAssumption
    <3>4. HandlerFits(next, log)
      BY <2>1, <3>2, <3>3 DEF HandlerFits
    <3>5. Goto(s, next)
      BY <1>5, <2>3 DEF Acknowledge
    <3> QED
      BY <1>3, <2>2, <3>4, <3>5
  <2>4. CASE Ahead(s, 0) = {}
    BY <1>2, <1>3, <1>5, <2>2, <2>4 DEF Acknowledge, Finish
  <2> QED
    BY <2>3, <2>4
<1>6. CASE LookUp(s)
  <2> DEFINE t == Head(h.todo)
             got == h.got \cup {c \in h.changes : c.table = t /\ CanRead(UserOf(h.client), c)}
             next == [pc |-> "table", user |-> h.user, changes |-> h.changes,
                      todo |-> Tail(h.todo), got |-> got, client |-> h.client]
  <2>1. /\ h.changes \subseteq log /\ h.got \subseteq h.changes
        /\ h.todo \in Seq(Tables) /\ h.todo # << >> /\ h.client \in Nat
        /\ h = [pc |-> "table", user |-> h.user, changes |-> h.changes,
                todo |-> h.todo, got |-> h.got, client |-> h.client]
    BY <1>2, <1>6 DEF LookUp, At, HandlerFits
  <2>2. CASE Tail(h.todo) # << >>
    <3>1. [h EXCEPT !.todo = Tail(@), !.got = got] = next
      <4> HIDE DEF got, h
      <4> QED
        BY <2>1, GoesOn, Zenon
    <3>2. HandlerFits(next, log)
      BY <2>1, <2>2, FirstAndOthers DEF HandlerFits
    <3>3. Goto(s, next) /\ told' = told
      BY <1>6, <2>2, <3>1 DEF LookUp
    <3> QED
      BY <1>2, <1>3, <3>2, <3>3
  <2>3. CASE Tail(h.todo) = << >>
    <3>1. got \subseteq log /\ \A v : {c \in h.changes : CanRead(v, c)} \subseteq log
      BY <2>1
    <3>2. told' \in [Sockets -> SUBSET log]
      BY <1>2, <1>6, <2>3, <3>1 DEF LookUp, Sent
    <3> QED
      BY <1>2, <1>3, <1>6, <2>3, <3>2 DEF LookUp, Finish
  <2> QED
    BY <2>2, <2>3
<1> QED
  BY <1>4, <1>5, <1>6

-----------------------------------------------------------------------------
(* The sessions are in order                                               *)

LEMMA OrderAtFirst == Init => SessionsInv
<1> SUFFICES ASSUME Init PROVE SessionsInv
  OBVIOUS
<1>1. SessionsFit(session, clients, clientOf)
  <2>1. session \in Seq(Session) /\ Len(session) = 0
    BY EmptySeq DEF Init
  <2>2. ASSUME NEW u \in Users PROVE Cardinality(OfUser(session, clients, u)) <= Limit
    <3>1. OfUser(session, clients, u) = {}
      BY DEF Init, OfUser
    <3>2. Cardinality({}) = 0 /\ Limit \in Nat
      BY FS_EmptySet, SessionsAssumption
    <3> QED
      BY <3>1, <3>2
  <2> QED
    BY <2>1, <2>2 DEF Init, SessionsFit
<1>2. UsersExist(session, clients, accounts) /\ accounts \subseteq Users
  BY SessionsAssumption DEF Init, UsersExist
<1>3. SocketsFit(socket, ips, timers, clientOf, ghosts)
  BY DEF Init, SocketsFit
<1>4. IsFiniteSet(log) /\ Cardinality(log) = 0
  BY FS_EmptySet DEF Init
<1>5. HandlersFit(socket, handler, queue, log)
  <2>1. \A s \in Sockets : queue[s] \in Seq(Waiting(Cardinality(log))) /\ Len(queue[s]) <= MaxPending
    BY EmptySeq, SessionsAssumption DEF Init
  <2> QED
    BY <2>1 DEF Init, HandlersFit, HandlerFits, Idle
<1>6. LogFits(log, told)
  BY <1>4 DEF Init, LogFits
<1> QED
  BY <1>1, <1>2, <1>3, <1>5, <1>6 DEF SessionsInv

LEMMA OrderIsKept == SessionsInv /\ [Next]_vars => SessionsInv'
<1> SUFFICES ASSUME SessionsInv, [Next]_vars PROVE SessionsInv'
  OBVIOUS
<1>1. CASE UNCHANGED vars
  BY <1>1 DEF vars, maps, SessionsInv
<1>2. ASSUME NEW s \in Sockets, Connect(s) PROVE SessionsInv'
  BY <1>2, ConnectKeepsOrder
<1>3. ASSUME NEW s \in Sockets, FireTimer(s) PROVE SessionsInv'
  BY <1>3, FireTimerKeepsOrder
<1>4. ASSUME NEW s \in Sockets, Close(s) PROVE SessionsInv'
  BY <1>4, CloseKeepsOrder
<1>5. ASSUME NEW s \in Sockets, Work(s) PROVE SessionsInv'
  BY <1>5, HandleKeepsOrder, SignInKeepsOrder, ApplyKeepsOrder, TellingKeepsOrder DEF Work
<1>6. ASSUME NEW s \in Sockets, NEW m \in Messages, Receive(s, m) PROVE SessionsInv'
  BY <1>6, ReceiveKeepsOrder
<1> QED
  BY <1>1, <1>2, <1>3, <1>4, <1>5, <1>6 DEF Next

\* The maps of sessions agree and have the users there are, a handler goes on with what
\* it was given, and no user has more sessions than the limit.
THEOREM SessionsWellKept == Spec => []SessionsInv
<1> QED
  BY OrderAtFirst, OrderIsKept, PTL DEF Spec

\* The variables have their types, and the two maps of sessions agree
\* (sync.ts:311-343, 724-733).
THEOREM SessionTypes == Spec => []TypeOK
<1>1. SessionsInv => TypeOK
  <2> SUFFICES ASSUME SessionsInv PROVE TypeOK
    OBVIOUS
  <2>1. SessionsFit(session, clients, clientOf) /\ SocketsFit(socket, ips, timers, clientOf, ghosts)
        /\ HandlersFit(socket, handler, queue, log) /\ LogFits(log, told) /\ accounts \subseteq Users
    BY DEF SessionsInv
  <2>2. session \in Seq([socket : Sockets, user : Users \cup {Anonymous}])
    BY <2>1 DEF SessionsFit, Session, Visitors
  <2>3. \A s \in Sockets : clientOf[s] # 0 => session[clientOf[s]].socket = s
    BY <2>1 DEF SessionsFit
  <2>4. clientOf \in [Sockets -> 0..Len(session)] /\ clients = {clientOf[s] : s \in Sockets} \ {0}
    BY <2>1 DEF SessionsFit
  <2>5. (\A s \in Sockets : Len(queue[s]) <= MaxPending) /\ (\A s \in Sockets : told[s] \subseteq log)
    BY <2>1 DEF HandlersFit, LogFits
  <2>6. /\ socket \in [Sockets -> {"new", "refused", "open", "closing", "terminated", "closed"}]
        /\ ips \subseteq Sockets /\ timers \subseteq Sockets /\ ghosts \subseteq Sockets
    BY <2>1 DEF SocketsFit
  <2> QED
    BY <2>1, <2>2, <2>3, <2>4, <2>5, <2>6 DEF TypeOK
<1> QED
  BY <1>1, SessionsWellKept, PTL

\* No user ever has more sessions than the limit, on however many sockets and with
\* however many awaits between the message and the check (sync.ts:292-303, 508-519).
THEOREM LimitIsKept == Spec => []WithinLimit
<1>1. SessionsInv => WithinLimit
  BY DEF SessionsInv, SessionsFit, OfUser, WithinLimit, UserOf
<1> QED
  BY <1>1, SessionsWellKept, PTL

\* A closed socket is in none of the maps unless a handler gave it a session
\* afterwards (sync.ts:724-733).
THEOREM ClosedSocketsLeaveNothing == Spec => []NothingLeft
<1>1. SessionsInv => NothingLeft
  BY DEF SessionsInv, SocketsFit, NothingLeft
<1> QED
  BY <1>1, SessionsWellKept, PTL

-----------------------------------------------------------------------------
(* Who is told                                                             *)

\* Socket s is as much at rest as the session it has: a step of another changes neither
\* the session nor its user, and takes nothing of what its client was told.
Rests(s) ==
  /\ socket'[s] = "open" => socket[s] = "open"
  /\ clientOf'[s] = clientOf[s]
  /\ clientOf[s] # 0 => session'[clientOf[s]].user = session[clientOf[s]].user
  /\ told[s] \subseteq told'[s]

\* What a client knows, or will be told, it does after a step of socket s that has no
\* broadcast in hand, or goes on with the same.
LEMMA OthersStayInformed ==
  ASSUME Informed, NEW s, NEW r \in Sockets, Rests(r), log' = log,
         handler[s].pc \notin {"ack", "table"} \/ handler' = handler,
         \A q \in Sockets : q # s => handler'[q] = handler[q],
         r # s \/ handler' = handler,
         socket'[r] = "open", clientOf'[r] # 0
  PROVE  KnowsAll(r, clientOf'[r], session'[clientOf'[r]].user, told'[r], handler', log')
<1>1. KnowsAll(r, clientOf[r], session[clientOf[r]].user, told[r], handler, log)
  BY DEF Informed, Rests, UserOf
<1>2. /\ clientOf'[r] = clientOf[r] /\ told[r] \subseteq told'[r]
      /\ session'[clientOf'[r]].user = session[clientOf[r]].user
      /\ handler'[r] = handler[r]
  BY DEF Rests
<1> DEFINE n == clientOf[r]
           u == session[clientOf[r]].user
<1>3. CASE handler[r].pc = "sync"
  BY <1>1, <1>2, <1>3 DEF KnowsAll
<1>4. CASE handler[r].pc # "sync"
  <2> SUFFICES ASSUME NEW c \in log, CanRead(u, c)
               PROVE  c \in told'[r] \/ \E q \in Sockets : WillTell(handler'[q], c, n, q = r)
    BY <1>2, <1>4 DEF KnowsAll
  <2>1. CASE c \in told[r]
    BY <1>2, <2>1
  <2>2. ASSUME NEW q \in Sockets, WillTell(handler[q], c, n, q = r)
        PROVE  WillTell(handler'[q], c, n, q = r)
    <3>1. handler'[q] = handler[q]
      BY <2>2 DEF WillTell
    <3> QED
      BY <2>2, <3>1
  <2> QED
    BY <1>1, <1>4, <2>1, <2>2 DEF KnowsAll
<1> QED
  BY <1>3, <1>4

\* Of others than s nobody is disturbed by a session for s, or by its change of hands.
LEMMA OthersRest ==
  ASSUME SessionsInv, NEW s \in Sockets, NEW u,
         Register(s, u) \/ (clientOf[s] # 0 /\ SwitchTo(s, u)),
         NEW r \in Sockets, r # s
  PROVE  /\ clientOf'[r] = clientOf[r]
         /\ clientOf[r] # 0 => session'[clientOf[r]].user = session[clientOf[r]].user
<1>1. SessionsFit(session, clients, clientOf)
  BY DEF SessionsInv
<1>2. /\ clients \subseteq 1..Len(session) /\ Len(session) \in Nat
      /\ \A q \in Sockets : clientOf[q] # 0 => clientOf[q] \in clients
      /\ \A q \in Sockets : clientOf[q] # 0 => session[clientOf[q]].socket = q
  BY <1>1, UsedSessions DEF SessionsFit
<1>3. session \in Seq(Session) /\ DOMAIN session = 1..Len(session)
      /\ clientOf \in [Sockets -> 0..Len(session)]
  BY <1>1, LenProperties DEF SessionsFit
<1>4. clientOf'[r] = clientOf[r]
  BY <1>3 DEF Register, SwitchTo
<1>5. ASSUME clientOf[r] # 0 PROVE session'[clientOf[r]] = session[clientOf[r]]
  <2>1. clientOf[r] \in 1..Len(session) /\ clientOf[r] # clientOf[s]
    BY <1>2, <1>5
  <2>2. CASE Register(s, u)
    <3> DEFINE one == [socket |-> s, user |-> u]
    <3>1. session' = Append(session, one)
      BY <2>2 DEF Register
    <3>2. session' = [i \in 1..(Len(session) + 1) |-> IF i = Len(session) + 1 THEN one ELSE session[i]]
      BY <1>2, <1>3, <3>1
    <3>3. clientOf[r] \in 1..(Len(session) + 1) /\ clientOf[r] # Len(session) + 1
      BY <1>2, <2>1
    <3> QED
      BY <3>2, <3>3
  <2>3. CASE SwitchTo(s, u)
    BY <1>3, <2>1, <2>3 DEF SwitchTo
  <2> QED
    BY <2>2, <2>3
<1> QED
  BY <1>4, <1>5

\* A socket whose session is new, or of a new user, starts with what its client knows.
LEMMA NewSessionsAreInformed ==
  ASSUME SessionsInv, Informed, NEW s \in Sockets, NEW u, NEW from,
         Register(s, u) \/ (clientOf[s] # 0 /\ SwitchTo(s, u)), ThenSync(s, from),
         handler[s].pc \notin {"ack", "table"}, socket' = socket, log' = log
  PROVE  Informed'
<1>1. /\ handler' = [r \in Sockets |-> IF r = s THEN [pc |-> "sync", client |-> clientOf'[s], from |-> from]
                                       ELSE handler[r]]
      /\ told' = [r \in Sockets |-> IF r = s THEN {c \in log : c.seq <= from} ELSE told[r]]
  BY DEF ThenSync, Goto, SessionsInv, HandlersFit, LogFits
<1> SUFFICES ASSUME NEW r \in Sockets, socket'[r] = "open", clientOf'[r] # 0
             PROVE  KnowsAll(r, clientOf'[r], session'[clientOf'[r]].user, told'[r], handler', log')
  BY DEF Informed, UserOf
<1>2. CASE r = s
  BY <1>1, <1>2 DEF KnowsAll
<1>3. CASE r # s
  <2>1. Rests(r)
    BY <1>1, <1>3, OthersRest DEF Rests
  <2>2. \A q \in Sockets : q # s => handler'[q] = handler[q]
    BY <1>1
  <2> QED
    BY <1>3, <2>1, <2>2, OthersStayInformed
<1> QED
  BY <1>2, <1>3

\* A handler that has no broadcast in hand, and takes none, and leaves the sessions.
LEMMA OtherWorkInforms ==
  ASSUME SessionsInv, Informed, NEW s \in Sockets, NEW h, Goto(s, h), h.pc # "sync",
         handler[s].pc \notin {"sync", "ack", "table"},
         \A r \in Sockets : socket'[r] = "open" => socket[r] = "open",
         session' = session, clientOf' = clientOf, told' = told, log' = log
  PROVE  Informed'
<1>1. handler' = [r \in Sockets |-> IF r = s THEN h ELSE handler[r]]
  BY DEF Goto, SessionsInv, HandlersFit
<1> SUFFICES ASSUME NEW r \in Sockets, socket'[r] = "open", clientOf'[r] # 0
             PROVE  KnowsAll(r, clientOf'[r], session'[clientOf'[r]].user, told'[r], handler', log')
  BY DEF Informed, UserOf
<1>2. CASE r # s
  <2>1. Rests(r) /\ \A q \in Sockets : q # s => handler'[q] = handler[q]
    BY <1>1 DEF Rests
  <2> QED
    BY <1>2, <2>1, OthersStayInformed
<1>3. CASE r = s
  <2> DEFINE n == clientOf[s]
             u == session[clientOf[s]].user
  <2>1. KnowsAll(s, n, u, told[s], handler, log)
    BY <1>3 DEF Informed, UserOf
  <2>2. ASSUME NEW c, NEW q \in Sockets, WillTell(handler[q], c, n, q = s)
        PROVE  WillTell(handler'[q], c, n, q = s)
    <3>1. q # s
      BY <2>2 DEF WillTell
    <3>2. handler'[q] = handler[q]
      BY <1>1, <3>1
    <3> QED
      BY <2>2, <3>2
  <2>3. \A c \in log : CanRead(u, c) =>
          c \in told[s] \/ \E q \in Sockets : WillTell(handler[q], c, n, q = s)
    BY <2>1 DEF KnowsAll
  <2>4. handler'[s].pc # "sync"
    BY <1>1
  <2> HIDE DEF n, u
  <2>5. KnowsAll(s, n, u, told[s], handler', log)
    BY <2>2, <2>3, <2>4 DEF KnowsAll
  <2> QED
    BY <1>3, <2>5 DEF n, u
<1> QED
  BY <1>2, <1>3

\* The steps of a connection: the handlers and what clients were told stay.
LEMMA ConnectionsStayInformed ==
  ASSUME SessionsInv, Informed, NEW s \in Sockets,
         Connect(s) \/ FireTimer(s) \/ Close(s) \/ \E m \in Messages : Receive(s, m)
  PROVE  Informed'
<1>1. handler' = handler /\ log' = log /\ told' = told /\ session' = session
  BY DEF Connect, FireTimer, Close, Receive, maps
<1>2. \A r \in Sockets : socket'[r] = "open" /\ clientOf'[r] # 0 =>
        socket[r] = "open" /\ clientOf'[r] = clientOf[r]
  <2>1. /\ socket \in [Sockets -> States] /\ clientOf \in [Sockets -> 0..Len(session)]
        /\ socket[s] = "new" => clientOf[s] = 0
    BY DEF SessionsInv, SocketsFit, SessionsFit, States
  <2>2. CASE Connect(s)
    BY <2>1, <2>2 DEF Connect
  <2>3. CASE FireTimer(s)
    BY <2>1, <2>3 DEF FireTimer
  <2>4. CASE Close(s)
    BY <2>1, <2>4 DEF Close
  <2>5. CASE \E m \in Messages : Receive(s, m)
    BY <2>1, <2>5 DEF Receive, maps
  <2> QED
    BY <2>2, <2>3, <2>4, <2>5
<1> SUFFICES ASSUME NEW r \in Sockets, socket'[r] = "open", clientOf'[r] # 0
             PROVE  KnowsAll(r, clientOf'[r], session'[clientOf'[r]].user, told'[r], handler', log')
  BY DEF Informed, UserOf
<1>3. Rests(r)
  BY <1>1, <1>2 DEF Rests
<1> QED
  BY <1>1, <1>3, OthersStayInformed

LEMMA HandleStaysInformed ==
  ASSUME SessionsInv, Informed, NEW s \in Sockets, Handle(s)
  PROVE  Informed'
<1> DEFINE m == Head(queue[s])
           none == clientOf[s] = 0
<1>1. handler[s].pc = "idle" /\ log' = log
  BY DEF Handle, At
<1>2. socket \in [Sockets -> States]
  BY DEF SessionsInv, SocketsFit, States
<1>3. CASE Authenticate(s, IF none THEN Anonymous ELSE UserOf(clientOf[s]), m.from)
  <2> DEFINE u == IF none THEN Anonymous ELSE UserOf(clientOf[s])
  <2>1. CASE u \in Users /\ Full(u, s)
    <3>1. /\ Goto(s, Idle) /\ UNCHANGED <<session, clientOf, told>>
          /\ \A r \in Sockets : socket'[r] = "open" => socket[r] = "open"
      BY <1>2, <1>3, <2>1 DEF Authenticate, Finish
    <3> QED
      BY <1>1, <3>1, OtherWorkInforms DEF Idle
  <2>2. CASE ~(u \in Users /\ Full(u, s))
    <3>1. Register(s, u) /\ ThenSync(s, m.from) /\ socket' = socket
      BY <1>3, <2>2 DEF Authenticate
    <3> QED
      BY <1>1, <3>1, NewSessionsAreInformed
  <2> QED
    BY <2>1, <2>2
<1>4. CASE ~none /\ SwitchTo(s, Anonymous) /\ ThenSync(s, 0) /\ UNCHANGED <<socket, timers>>
  BY <1>1, <1>4, NewSessionsAreInformed
<1>5. ASSUME NEW h, Goto(s, h), h.pc # "sync", UNCHANGED <<socket, session, clientOf, told>>
      PROVE  Informed'
  BY <1>1, <1>5, OtherWorkInforms
<1>6. CASE /\ UNCHANGED <<socket, timers, session, clients, clientOf, told, ghosts>>
           /\ \/ Finish(s)
              \/ Goto(s, [pc |-> "token", user |-> m.user, from |-> m.from])
              \/ Goto(s, [pc |-> "password", user |-> m.user])
              \/ Goto(s, [pc |-> "find", user |-> m.user])
              \/ Goto(s, [pc |-> "apply", user |-> UserOf(clientOf[s]), tables |-> m.tables])
  <2> HIDE DEF m, none
  <2> QED
    BY <1>5, <1>6 DEF Finish, Idle
<1> QED
  BY <1>3, <1>4, <1>6 DEF Handle

LEMMA SignInStaysInformed ==
  ASSUME SessionsInv, Informed, NEW s \in Sockets,
         CheckToken(s) \/ CheckPassword(s) \/ FindUser(s) \/ CreateUser(s)
  PROVE  Informed'
<1> DEFINE u == handler[s].user
<1>1. /\ handler[s].pc \in {"token", "password", "find", "create"} /\ log' = log
      /\ socket \in [Sockets -> States]
  BY DEF CheckToken, CheckPassword, FindUser, CreateUser, At, SessionsInv, SocketsFit, States
<1>2. ASSUME NEW h, Goto(s, h), h.pc # "sync", UNCHANGED <<session, clientOf, told>>,
             \A r \in Sockets : socket'[r] = "open" => socket[r] = "open"
      PROVE  Informed'
  BY <1>1, <1>2, OtherWorkInforms
<1>3. ASSUME NEW from, Register(s, u) \/ (clientOf[s] # 0 /\ SwitchTo(s, u)),
             ThenSync(s, from), socket' = socket
      PROVE  Informed'
  BY <1>1, <1>3, NewSessionsAreInformed
<1>4. Complete(s, u) => Informed'
  BY <1>3 DEF Complete
<1>5. UNCHANGED <<session, clientOf, told>> /\ Finish(s)
      /\ (socket' = socket \/ socket' = [socket EXCEPT ![s] = IF @ = "open" THEN "closing" ELSE @])
        => Informed'
  BY <1>1, <1>2 DEF Finish, Idle
<1>6. CASE CheckToken(s)
  <2>1. Authenticate(s, u, handler[s].from) => Informed'
    <3>1. CASE u \in Users /\ Full(u, s)
      BY <1>5, <3>1 DEF Authenticate
    <3>2. CASE ~(u \in Users /\ Full(u, s))
      BY <1>3, <3>2 DEF Authenticate
    <3> QED
      BY <3>1, <3>2
  <2> QED
    BY <1>5, <1>6, <2>1 DEF CheckToken
<1>7. CASE CheckPassword(s)
  BY <1>4, <1>5, <1>7 DEF CheckPassword
<1>8. CASE FindUser(s)
  <2>1. UNCHANGED <<session, clientOf, told>> /\ socket' = socket
    BY <1>8 DEF FindUser, maps
  <2>2. HandlerFits(handler[s], log) /\ handler[s].pc = "find"
    BY <1>8 DEF SessionsInv, HandlersFit, FindUser, At
  <2>3. handler[s] = [pc |-> "find", user |-> u]
    BY <2>2 DEF HandlerFits
  <2>4. [handler[s] EXCEPT !.pc = "create"].pc # "sync"
    BY <2>3
  <2> QED
    BY <1>2, <1>5, <1>8, <2>1, <2>4 DEF FindUser
<1>9. CASE CreateUser(s)
  BY <1>4, <1>5, <1>9 DEF CreateUser
<1> QED
  BY <1>6, <1>7, <1>8, <1>9

\* What a batch makes is in the hands of its handler, and is later than what the
\* clients had that are synchronised now.
LEMMA ApplyInforms ==
  ASSUME SessionsInv, Informed, NEW s \in Sockets, Apply(s)
  PROVE  Informed'
<1> DEFINE h == handler[s]
           made == Made(h)
           ack == [pc |-> "ack", user |-> h.user, changes |-> made, todo |-> h.tables]
<1>1. At(s, "apply") /\ UNCHANGED <<socket, session, clientOf, told>>
  BY DEF Apply, maps
<1>2. CASE Finish(s) /\ log' = log
  BY <1>1, <1>2, OtherWorkInforms DEF Finish, Idle, At
<1>3. CASE log' = log \cup made /\ Goto(s, ack)
  <2>1. Number \in Nat /\ \A c \in made : c.seq \in Nat /\ c.seq > Number
    BY <1>1, MadeAreNew
  <2>2. \A r \in Sockets : HandlerFits(handler[r], log)
    BY DEF SessionsInv, HandlersFit
  <2>3. /\ handler'[s].pc = "ack" /\ handler'[s].changes = made
        /\ \A r \in Sockets : r # s => handler'[r] = handler[r]
    BY <1>3 DEF Goto, SessionsInv, HandlersFit
  <2> SUFFICES ASSUME NEW r \in Sockets, socket[r] = "open", clientOf[r] # 0
               PROVE  KnowsAll(r, clientOf[r], UserOf(clientOf[r]), told[r], handler', log')
    BY <1>1 DEF Informed, UserOf
  <2> DEFINE n == clientOf[r]
             u == UserOf(clientOf[r])
  <2>4. KnowsAll(r, n, u, told[r], handler, log)
    BY DEF Informed
  <2>5. ASSUME NEW q \in Sockets, NEW c, WillTell(handler[q], c, n, q = r)
        PROVE  WillTell(handler'[q], c, n, q = r)
    <3>1. q # s
      BY <1>1, <2>5 DEF WillTell, At
    <3> QED
      BY <2>3, <2>5, <3>1
  <2> HIDE DEF made, n, u
  <2>6. \A c \in made : WillTell(handler'[s], c, n, s = r)
    BY <2>3 DEF WillTell
  <2>7. CASE handler[r].pc = "sync"
    <3>1. r # s /\ handler[r].from \in 0..Number
      BY <1>1, <2>2, <2>7 DEF At, HandlerFits, Number
    <3>2. \A c \in made : ~(c.seq <= handler[r].from)
      BY <2>1, <3>1
    <3>3. handler'[r] = handler[r]
      BY <2>3, <3>1
    <3> HIDE DEF h, ack
    <3>4. KnowsAll(r, n, u, told[r], handler', log')
      BY <1>3, <2>4, <2>7, <3>2, <3>3 DEF KnowsAll
    <3> QED
      BY <3>4 DEF n, u
  <2>8. CASE handler[r].pc # "sync"
    <3>1. handler'[r].pc # "sync"
      BY <2>3, <2>8
    <3>2. \A c \in log : CanRead(u, c) =>
            c \in told[r] \/ \E q \in Sockets : WillTell(handler[q], c, n, q = r)
      BY <2>4, <2>8 DEF KnowsAll
    <3> HIDE DEF h, ack
    <3>3. KnowsAll(r, n, u, told[r], handler', log')
      BY <1>3, <2>5, <2>6, <3>1, <3>2 DEF KnowsAll
    <3> QED
      BY <3>3 DEF n, u
  <2> QED
    BY <2>7, <2>8
<1> QED
  BY <1>2, <1>3 DEF Apply, Made

\* After the snapshot or diff a client knows all that its user may read.
LEMMA SyncInforms ==
  ASSUME SessionsInv, Informed, NEW s \in Sockets, Sync(s)
  PROVE  Informed'
<1> DEFINE h == handler[s]
           news == {c \in log : c.seq > h.from /\ CanRead(UserOf(h.client), c)}
<1>1. /\ h.pc = "sync" /\ UNCHANGED <<socket, session, clientOf, log>>
      /\ Goto(s, Idle) /\ told' = [told EXCEPT ![s] = @ \cup Sent(s, news)]
  BY DEF Sync, At, Finish, maps
<1>2. /\ \A r \in Sockets : r # s => handler'[r] = handler[r]
      /\ handler'[s] = Idle
  BY <1>1 DEF Goto, SessionsInv, HandlersFit
<1>3. told \in [Sockets -> SUBSET log] /\ \A c \in log : c.seq \in Nat
  BY DEF SessionsInv, LogFits
<1>4. h.from \in Nat
  <2>1. HandlerFits(h, log) /\ Cardinality(log) \in Nat
    BY FS_CardinalityType DEF SessionsInv, HandlersFit, LogFits
  <2> QED
    BY <1>1, <2>1 DEF HandlerFits
<1> SUFFICES ASSUME NEW r \in Sockets, socket'[r] = "open", clientOf'[r] # 0
             PROVE  KnowsAll(r, clientOf'[r], session'[clientOf'[r]].user, told'[r], handler', log')
  BY DEF Informed, UserOf
<1> HIDE DEF h, news
<1>5. CASE r # s
  <2>1. Rests(r)
    BY <1>1, <1>3, <1>5 DEF Rests
  <2> QED
    BY <1>1, <1>2, <1>5, <2>1, OthersStayInformed DEF h
<1>6. CASE r = s
  <2>1. KnowsAll(s, clientOf[s], UserOf(clientOf[s]), told[s], handler, log)
    BY <1>1, <1>6 DEF Informed
  <2>2. h.client = clientOf[s] /\ {c \in log : c.seq <= h.from} \subseteq told[s]
    BY <1>1, <2>1 DEF KnowsAll, h
  <2>3. told'[s] = told[s] \cup news
    BY <1>1, <1>3, <1>6 DEF Sent
  <2>4. \A c \in log : c.seq <= h.from \/ c.seq > h.from
    BY <1>3, <1>4
  <2>5. \A c \in log : CanRead(UserOf(clientOf[s]), c) => c \in told'[s]
    BY <2>2, <2>3, <2>4 DEF news
  <2>6. handler'[s].pc # "sync"
    BY <1>2 DEF Idle
  <2>7. KnowsAll(s, clientOf[s], UserOf(clientOf[s]), told'[s], handler', log)
    BY <2>5, <2>6 DEF KnowsAll
  <2> QED
    BY <1>1, <1>6, <2>7 DEF UserOf
<1> QED
  BY <1>5, <1>6

\* The step of a broadcast: what it was to tell a client it has told or is to tell still,
\* and the broadcasts of others go on.
LEMMA BroadcastInforms ==
  ASSUME SessionsInv, Informed, NEW s \in Sockets,
         handler[s].pc \in {"ack", "table"}, handler'[s].pc # "sync",
         \A q \in Sockets : q # s => handler'[q] = handler[q],
         UNCHANGED <<socket, session, clientOf, log>>,
         \A r \in Sockets : told[r] \subseteq told'[r],
         \A r \in Sockets, c \in log :
           /\ socket[r] = "open" /\ clientOf[r] # 0 /\ handler[r].pc # "sync"
           /\ CanRead(UserOf(clientOf[r]), c) /\ WillTell(handler[s], c, clientOf[r], s = r)
           => c \in told'[r] \/ WillTell(handler'[s], c, clientOf[r], s = r)
  PROVE  Informed'
<1> SUFFICES ASSUME NEW r \in Sockets, socket[r] = "open", clientOf[r] # 0
             PROVE  KnowsAll(r, clientOf[r], UserOf(clientOf[r]), told'[r], handler', log)
  BY DEF Informed, UserOf
<1> DEFINE n == clientOf[r]
           u == UserOf(clientOf[r])
<1>1. KnowsAll(r, n, u, told[r], handler, log)
  BY DEF Informed
<1>2. CASE handler[r].pc = "sync"
  <2>1. r # s /\ handler'[r] = handler[r]
    BY <1>2
  <2> HIDE DEF n, u
  <2>2. KnowsAll(r, n, u, told'[r], handler', log)
    BY <1>1, <1>2, <2>1 DEF KnowsAll
  <2> QED
    BY <2>2 DEF n, u
<1>3. CASE handler[r].pc # "sync"
  <2>1. handler'[r].pc # "sync"
    BY <1>3
  <2>2. ASSUME NEW c \in log, CanRead(u, c)
        PROVE  c \in told'[r] \/ \E q \in Sockets : WillTell(handler'[q], c, n, q = r)
    <3>1. CASE c \in told[r]
      BY <3>1
    <3>2. ASSUME NEW q \in Sockets, WillTell(handler[q], c, n, q = r)
          PROVE  c \in told'[r] \/ \E p \in Sockets : WillTell(handler'[p], c, n, p = r)
      <4>1. CASE q = s
        BY <1>3, <2>2, <3>2, <4>1
      <4>2. CASE q # s
        BY <3>2, <4>2
      <4> QED
        BY <4>1, <4>2
    <3> QED
      BY <1>1, <1>3, <2>2, <3>1, <3>2 DEF KnowsAll
  <2> HIDE DEF n, u
  <2>3. KnowsAll(r, n, u, told'[r], handler', log)
    BY <2>1, <2>2 DEF KnowsAll
  <2> QED
    BY <2>3 DEF n, u
<1> QED
  BY <1>2, <1>3

LEMMA AcknowledgeInforms ==
  ASSUME SessionsInv, Informed, NEW s \in Sockets, Acknowledge(s)
  PROVE  Informed'
<1> DEFINE h == handler[s]
           next == [pc |-> "table", user |-> h.user, changes |-> h.changes,
                    todo |-> h.todo, got |-> {}, client |-> Min(Ahead(s, 0))]
<1>1. /\ h.pc = "ack" /\ UNCHANGED <<socket, session, clientOf, log>>
      /\ told' = [told EXCEPT ![s] = @ \cup Sent(s, h.changes)]
      /\ IF Ahead(s, 0) = {} THEN Goto(s, Idle) ELSE Goto(s, next)
  BY DEF Acknowledge, At, Finish, maps
<1>2. /\ \A q \in Sockets : q # s => handler'[q] = handler[q]
      /\ handler'[s] = IF Ahead(s, 0) = {} THEN Idle ELSE next
  BY <1>1 DEF Goto, SessionsInv, HandlersFit
<1>3. /\ told \in [Sockets -> SUBSET log] /\ HandlerFits(h, log)
  BY DEF SessionsInv, LogFits, HandlersFit
<1>4. \A c \in h.changes : c.table \in ToSet(h.todo)
  BY <1>1, <1>3 DEF HandlerFits
<1>5. /\ clients \subseteq Nat
      /\ \A r \in Sockets : clientOf[r] # 0 => clientOf[r] \in clients
      /\ \A r \in Sockets : clientOf[r] # 0 => session[clientOf[r]].socket = r
  BY UsedSessions DEF SessionsInv, SessionsFit
<1> HIDE DEF h
<1>6. ASSUME NEW r \in Sockets, NEW c, socket[r] = "open", clientOf[r] # 0,
             WillTell(h, c, clientOf[r], s = r)
      PROVE  c \in told'[r] \/ WillTell(handler'[s], c, clientOf[r], s = r)
  <2>1. c \in h.changes
    BY <1>6 DEF WillTell
  <2>2. CASE r = s
    BY <1>1, <1>3, <1>6, <2>1, <2>2 DEF Sent
  <2>3. CASE r # s
    <3>1. clientOf[r] \in Ahead(s, 0)
      <4>1. clientOf[r] \in clients /\ session[clientOf[r]].socket = r
        BY <1>5, <1>6
      <4>2. \A n \in Nat : n # 0 => n > 0
        OBVIOUS
      <4>3. clientOf[r] \in Nat
        BY <1>5, <4>1
      <4>4. clientOf[r] > 0
        BY <1>6, <4>2, <4>3
      <4> QED
        BY <2>3, <4>1, <4>4 DEF Ahead, Own
    <3>2. Min(Ahead(s, 0)) \in Nat /\ Min(Ahead(s, 0)) <= clientOf[r] /\ clientOf[r] \in Nat
      <4>1. Ahead(s, 0) \in SUBSET Nat
        BY <1>5 DEF Ahead
      <4> QED
        BY <3>1, <4>1, LeastOf
    <3>3. handler'[s] = next
      BY <1>2, <3>1
    <3> DEFINE first == Min(Ahead(s, 0))
    <3> HIDE DEF first
    <3>4. clientOf[r] > first \/ clientOf[r] = first
      BY <3>2 DEF first
    <3>5. WillTell(next, c, clientOf[r], FALSE)
      BY <1>4, <2>1, <3>4 DEF WillTell, first
    <3> QED
      BY <2>3, <3>3, <3>5
  <2> QED
    BY <2>2, <2>3
<1>7. \A r \in Sockets : told[r] \subseteq told'[r]
  BY <1>1, <1>3
<1>8. handler'[s].pc # "sync"
  BY <1>2 DEF Idle
<1> QED
  BY <1>1, <1>2, <1>6, <1>7, <1>8, BroadcastInforms DEF h

LEMMA LookUpInforms ==
  ASSUME SessionsInv, Informed, NEW s \in Sockets, LookUp(s)
  PROVE  Informed'
<1> DEFINE h == handler[s]
           t == Head(h.todo)
           n == h.client
           got == h.got \cup {c \in h.changes : c.table = t /\ CanRead(UserOf(n), c)}
           rest(m) == {c \in h.changes : CanRead(UserOf(m), c)}
           news(r) == (IF r = session[n].socket THEN got ELSE {})
                      \cup UNION {rest(m) : m \in {k \in Ahead(s, n) : session[k].socket = r}}
           next == [pc |-> "table", user |-> h.user, changes |-> h.changes,
                    todo |-> Tail(h.todo), got |-> got, client |-> n]
<1>1. /\ h.pc = "table" /\ UNCHANGED <<socket, session, clientOf, log>>
      /\ Tail(h.todo) # << >> =>
           Goto(s, [h EXCEPT !.todo = Tail(@), !.got = got]) /\ told' = told
      /\ Tail(h.todo) = << >> =>
           Goto(s, Idle) /\ told' = [r \in Sockets |-> told[r] \cup Sent(r, news(r))]
  BY DEF LookUp, At, Finish, maps
<1>2. /\ told \in [Sockets -> SUBSET log] /\ HandlerFits(h, log)
      /\ handler = [r \in Sockets |-> handler[r]]
  BY DEF SessionsInv, LogFits, HandlersFit
<1>3. /\ h.todo \in Seq(Tables) /\ h.todo # << >> /\ h.client \in Nat
      /\ h = [pc |-> "table", user |-> h.user, changes |-> h.changes,
              todo |-> h.todo, got |-> h.got, client |-> h.client]
  BY <1>1, <1>2 DEF HandlerFits
<1>4. /\ \A x \in ToSet(h.todo) : x = t \/ x \in ToSet(Tail(h.todo))
      /\ Tail(h.todo) = << >> => \A x \in ToSet(h.todo) : x = t
  BY <1>3, FirstAndOthers
<1>5. \A r \in Sockets : clientOf[r] # 0 =>
        clientOf[r] \in clients /\ session[clientOf[r]].socket = r
  BY UsedSessions DEF SessionsInv, SessionsFit
<1>6. [h EXCEPT !.todo = Tail(@), !.got = got] = next
  <2> HIDE DEF got, h
  <2> QED
    BY <1>3, GoesOn, Zenon
<1>7. /\ \A q \in Sockets : q # s => handler'[q] = handler[q]
      /\ handler'[s] = IF Tail(h.todo) # << >> THEN next ELSE Idle
  <2> HIDE DEF next, h
  <2> QED
    BY <1>1, <1>2, <1>6 DEF Goto
<1>8. ASSUME NEW r \in Sockets, NEW c, socket[r] = "open", clientOf[r] # 0,
             CanRead(UserOf(clientOf[r]), c), WillTell(h, c, clientOf[r], s = r)
      PROVE  c \in told'[r] \/ WillTell(handler'[s], c, clientOf[r], s = r)
  <2>1. /\ c \in h.changes /\ r # s
        /\ clientOf[r] > n \/ (clientOf[r] = n /\ (c \in h.got \/ c.table \in ToSet(h.todo)))
    BY <1>1, <1>8 DEF WillTell
  <2>2. clientOf[r] = n =>
          c \in got \/ (Tail(h.todo) # << >> /\ c.table \in ToSet(Tail(h.todo)))
    <3>1. c.table = t => c \in {e \in h.changes : e.table = t /\ CanRead(UserOf(n), e)} \/ clientOf[r] # n
      <4> HIDE DEF h, n, t
      <4> QED
        BY <1>8, <2>1
    <3>2. \A x : x \in h.got \/ x \in {e \in h.changes : e.table = t /\ CanRead(UserOf(n), e)} => x \in got
      OBVIOUS
    <3>3. clientOf[r] = n => ~(clientOf[r] > n)
      BY <1>3
    <3> HIDE DEF got, h, n, t
    <3> QED
      BY <1>4, <2>1, <3>1, <3>2, <3>3
  <2>3. CASE Tail(h.todo) # << >>
    <3>1. handler'[s] = next
      BY <1>7, <2>3
    <3>2. WillTell(next, c, clientOf[r], s = r)
      <4> HIDE DEF got, h, n
      <4> QED
        BY <2>1, <2>2 DEF WillTell
    <3> QED
      BY <3>1, <3>2
  <2>4. CASE Tail(h.todo) = << >>
    <3>1. told'[r] = told[r] \cup news(r)
      BY <1>1, <1>8, <2>4 DEF Sent
    <3>2. CASE clientOf[r] = n
      <4>1. c \in got /\ session[n].socket = r
        BY <1>5, <1>8, <2>2, <2>4, <3>2
      <4>2. c \in news(r)
        <5> HIDE DEF got, rest
        <5> QED
          BY <4>1
      <4> QED
        BY <3>1, <4>2
    <3>3. CASE clientOf[r] > n
      <4>1. clientOf[r] \in {k \in Ahead(s, n) : session[k].socket = r}
        BY <1>5, <1>8, <2>1, <3>3 DEF Ahead, Own
      <4>2. c \in rest(clientOf[r])
        BY <1>8, <2>1
      <4>3. c \in news(r)
        <5> HIDE DEF got, rest
        <5> QED
          BY <4>1, <4>2
      <4> QED
        BY <3>1, <4>3
    <3> QED
      BY <2>1, <3>2, <3>3
  <2> QED
    BY <2>3, <2>4
<1>9. \A r \in Sockets : told[r] \subseteq told'[r]
  <2> HIDE DEF news
  <2> QED
    BY <1>1, <1>2
<1>10. handler'[s].pc # "sync"
  <2>1. next.pc # "sync" /\ Idle.pc # "sync"
    BY DEF Idle
  <2> HIDE DEF next
  <2> QED
    BY <1>7, <2>1
<1> HIDE DEF next, got, news
<1> QED
  BY <1>1, <1>7, <1>8, <1>9, <1>10, BroadcastInforms

LEMMA InformedIsKept == SessionsInv /\ Informed /\ [Next]_vars => Informed'
<1> SUFFICES ASSUME SessionsInv, Informed, [Next]_vars PROVE Informed'
  OBVIOUS
<1>1. CASE UNCHANGED vars
  BY <1>1 DEF vars, maps, Informed, UserOf
<1>2. ASSUME NEW s \in Sockets,
             Connect(s) \/ FireTimer(s) \/ Close(s) \/ \E m \in Messages : Receive(s, m)
      PROVE  Informed'
  BY <1>2, ConnectionsStayInformed
<1>3. ASSUME NEW s \in Sockets, Work(s) PROVE Informed'
  BY <1>3, HandleStaysInformed, SignInStaysInformed, ApplyInforms, SyncInforms,
     AcknowledgeInforms, LookUpInforms DEF Work
<1> QED
  BY <1>1, <1>2, <1>3 DEF Next

\* The client of a session has been told of every change its user may read, or a
\* broadcast is still to come to it, however snapshots, broadcasts, sign-ins and closings
\* interleave on however many sockets (sync.ts:311-343, 762-865).
THEOREM EveryoneIsTold == Spec => []EveryoneTold
<1>1. Init => Informed
  BY DEF Init, Informed
<1>2. Informed => EveryoneTold
  <2> SUFFICES ASSUME Informed, NEW s \in Sockets, socket[s] = "open", clientOf[s] # 0,
                      ~At(s, "sync"), NEW c \in log, CanRead(UserOf(clientOf[s]), c)
               PROVE  \/ c \in told[s]
                      \/ \E r \in Sockets : (At(r, "ack") \/ At(r, "table")) /\ c \in handler[r].changes
    BY DEF EveryoneTold
  <2>1. c \in told[s] \/ \E r \in Sockets : WillTell(handler[r], c, clientOf[s], r = s)
    BY DEF Informed, KnowsAll, At
  <2> QED
    BY <2>1 DEF WillTell, At
<1> QED
  BY <1>1, <1>2, InformedIsKept, SessionsWellKept, PTL DEF Spec
=============================================================================
