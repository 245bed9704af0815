---------------------------- MODULE ClientTabs ----------------------------
(***************************************************************************)
(* One application open in several browser tabs: who is signed in          *)
(* (src/client/auth.ts), what the tabs tell each other                     *)
(* (src/client/client.ts, src/client/shared/tab-channel.ts), each tab's    *)
(* socket (src/client/sync/connection.ts) and what it sends and answers on *)
(* it (src/client/sync/sync.ts).  The tabs share one IndexedDB, so one     *)
(* outbox and one stored session, and one localStorage.                    *)
(*                                                                         *)
(* Every await on storage, on a request or on a socket ends a step; what   *)
(* the code does between two awaits is one step.  A token is known by its  *)
(* user.  Records, lastSyncSeq and the push timer are in TetherSync: here  *)
(* a push may begin whenever its guard holds.  The leader election of      *)
(* client.ts is not here because nothing the code does depends on it.      *)
(* The server is its answers: a session for each socket (src/server/       *)
(* sync.ts), and the refusals it may give.                                 *)
(*                                                                         *)
(* Troubles (lost and failing connections, refusals, being offline,        *)
(* answers later than the timeout) and page loads are bounded.             *)
(***************************************************************************)
EXTENDS Naturals, Sequences, FiniteSets

CONSTANTS Tabs,
          Users,
          Modes,        \* [clears, remember] : options of sign-in and sign-out
          Guarded,      \* outbox entries of tables that guests cannot access
          None,         \* undefined, null
          Guest,        \* the user of a session without a token
          MaxOps,       \* BOUND on calls of register, login and logout
          MaxWrites,    \* BOUND on local writes
          MaxLoads,     \* BOUND on page loads
          MaxTroubles,  \* BOUND on troubles
          MaxEvents     \* BOUND on calls, writes, loads and troubles together

ASSUME TabsAssumption ==
  /\ Modes \subseteq [clears : BOOLEAN, remember : BOOLEAN]
  /\ MaxOps \in Nat /\ MaxWrites \in Nat /\ MaxLoads \in Nat
  /\ MaxTroubles \in Nat /\ MaxEvents \in Nat
  /\ Guarded \subseteq 1 .. MaxWrites
  /\ None \notin Users \cup [user : Users, token : Users] /\ Guest \notin Users /\ None # Guest

VARIABLES
  meta,        \* the session in IndexedDB : None or [user, token]
  local,       \* the session in localStorage
  outbox,      \* localIds of the changes that wait to be pushed
  page,        \* page[t] : Auth's [status, user, token]
  op,          \* op[t] : the call of register, login or logout under way
  restoring,   \* restoring[t] : restoreSession waits for IndexedDB
  failing,     \* failing[t] : handleAuthError waits for IndexedDB
  refresh,     \* refresh[t] : calls of handleTokenRefresh under way
  channel,     \* channel[t] : messages of other tabs not yet delivered
  link,        \* link[t] : ConnectionManager and the token and tables of Sync
  pushing,     \* pushing[t] : ids that pushOutbox has read, or None
  pending,     \* pending[t] : the batch sent and not answered, or None
  removing,    \* removing[t] : acknowledged ids about to leave the outbox
  up, down,    \* up[t], down[t] : messages to and from the server
  late,        \* late[t] : messages of a closed connection, still queued
  session,     \* session[t] : the server's user for the socket, or None
  gone,        \* HISTORY VARIABLE: [acked, cleared] : ids stored by the
               \* server, ids that were cleared with the outbox
  heard,       \* HISTORY VARIABLE: heard[t] : since it was loaded, the tab
               \* has announced that it signed in or out, or was told of it
  stranded,    \* HISTORY VARIABLE: stranded[t] : the browser went offline
               \* while the tab's last batch was on its way
  overlapped,  \* HISTORY VARIABLE: two changes of the session overlapped
  used         \* [ops, writes, loads, troubles] so far

stores == <<meta, local, outbox>>
server == <<up, down, late, session>>
pushes == <<pushing, pending, removing>>
vars == <<stores, page, op, restoring, failing, refresh, channel, link,
          pushes, server, gone, heard, stranded, overlapped, used>>

NoOp == [kind |-> None]
Session(u, tok) == [user |-> u, token |-> tok]
SignedOut == [status |-> "SignedOut", user |-> None, token |-> None]
SignedIn(u, tok) == [status |-> "SignedIn", user |-> u, token |-> tok]

Happens(kind, max) ==
  /\ used[kind] < max
  /\ used.ops + used.writes + used.loads + used.troubles < MaxEvents
  /\ used' = [used EXCEPT ![kind] = @ + 1]
Trouble == Happens("troubles", MaxTroubles)

\* A change of the session that begins while another is under way.
Others(t) == \E o \in Tabs : \/ o # t /\ (op[o] # NoOp \/ failing[o] \/ restoring[o])
                             \/ channel[o] # <<>>
Noting(t) == overlapped' = (overlapped \/ Others(t) \/ failing[t] \/ restoring[t])

(***************************************************************************)
(* Connections                                                             *)
(***************************************************************************)
\* Sync.connect with a token: an open socket that is not yet authenticated
\* sends Auth again, one that is Connected sends nothing.
Connected(l, tok) ==
  LET waits == [l EXCEPT !.token = tok, !.timer = FALSE]
  IN  CASE l.sock = "open" /\ l.status = "Connected" -> waits
        [] l.sock = "open" /\ l.status # "Connected" ->
             [waits EXCEPT !.status = "Connecting", !.greets = @ + 1]
        [] l.sock # "open" ->
             [waits EXCEPT !.status = "Connecting", !.sock = "connecting"]

Disconnected(l) ==
  [l EXCEPT !.status = "Disconnected", !.sock = "none", !.timer = FALSE]

NewLink(tok) == [status |-> "Connecting", sock |-> "connecting", timer |-> FALSE,
                 token |-> tok, greets |-> 0, access |-> None, online |-> TRUE]

\* The socket is gone for the server.  Messages that were received before
\* stay queued, in a chain of their own.
HangUp(t) ==
  /\ up' = [up EXCEPT ![t] = <<>>]
  /\ session' = [session EXCEPT ![t] = None]
  /\ down' = [down EXCEPT ![t] = <<>>]
  /\ \E n \in 0 .. Len(down[t]) : late' = [late EXCEPT ![t] = @ \o SubSeq(down[t], 1, n)]

Say(t, msg) == up' = [up EXCEPT ![t] = Append(@, msg)]
Answer(t, msg) == down' = [down EXCEPT ![t] = Append(@, msg)]
Tell(t, msg) == channel' = [o \in Tabs |-> IF o = t THEN channel[o] ELSE Append(channel[o], msg)]

\* Ids are drawn at random by the code: here, the first not in use.
Numbered(t) == {up[t][i].id : i \in DOMAIN up[t]} \cup {down[t][i].id : i \in DOMAIN down[t]}
                 \cup {late[t][i].id : i \in DOMAIN late[t]}
                 \cup (IF pending[t] = None THEN {} ELSE {pending[t].id})
FreshId(t) == CHOOSE n \in 1 .. Cardinality(Numbered(t)) + 1 :
                n \notin Numbered(t) /\ \A m \in 1 .. n - 1 : m \in Numbered(t)

\* A request that is not answered fails, except that logout goes on.
AfterFailure(t, o) == IF o.kind = "logout" THEN [o EXCEPT !.step = "clear"] ELSE NoOp
StatusAfterFailure(o, p) ==
  IF o.kind = "logout" THEN [p EXCEPT !.user = None, !.token = None]
                       ELSE [p EXCEPT !.status = "Error"]
Fail(t) ==
  /\ op' = [op EXCEPT ![t] = AfterFailure(t, @)]
  /\ page' = [page EXCEPT ![t] = StatusAfterFailure(op[t], @)]

\* pendingBatches is cleared with the connection.
\* A slip that a property must notice: it is not.
BatchKept(t) == pending[t]
BatchAfterClose(t) == None

\* Waiting requests are rejected.
Reject(t) == IF op[t] # NoOp /\ op[t].step = "ask" THEN Fail(t) ELSE UNCHANGED <<op, page>>

\* The tabs are loaded and connected, nobody is signed in.
Init ==
  /\ meta = None /\ local = None /\ outbox = {}
  /\ page = [t \in Tabs |-> SignedOut]
  /\ op = [t \in Tabs |-> NoOp]
  /\ restoring = [t \in Tabs |-> FALSE]
  /\ failing = [t \in Tabs |-> FALSE]
  /\ refresh = [t \in Tabs |-> {}]
  /\ channel = [t \in Tabs |-> <<>>]
  /\ link = [t \in Tabs |-> [NewLink(None) EXCEPT !.status = "Connected", !.sock = "open", !.access = "guest"]]
  /\ pushing = [t \in Tabs |-> None]
  /\ pending = [t \in Tabs |-> None]
  /\ removing = [t \in Tabs |-> {}]
  /\ up = [t \in Tabs |-> <<>>] /\ down = [t \in Tabs |-> <<>>] /\ late = [t \in Tabs |-> <<>>]
  /\ session = [t \in Tabs |-> Guest]
  /\ gone = [acked |-> {}, cleared |-> {}]
  /\ heard = [t \in Tabs |-> FALSE]
  /\ stranded = [t \in Tabs |-> FALSE]
  /\ overlapped = FALSE
  /\ used = [ops |-> 0, writes |-> 0, loads |-> 0, troubles |-> 0]

\* A page load: a session found in localStorage signs in at once, else
\* IndexedDB is asked.  All the tab had under way is lost.
Load(t) ==
  /\ Happens("loads", MaxLoads)
  /\ page' = [page EXCEPT ![t] = IF local # None THEN SignedIn(local.user, local.token) ELSE SignedOut]
  /\ restoring' = [restoring EXCEPT ![t] = local = None]
  /\ link' = [link EXCEPT ![t] = [NewLink(IF local # None THEN local.token ELSE None)
                                     EXCEPT !.online = link[t].online]]
  /\ op' = [op EXCEPT ![t] = NoOp]
  /\ failing' = [failing EXCEPT ![t] = FALSE]
  /\ refresh' = [refresh EXCEPT ![t] = {}]
  /\ channel' = [channel EXCEPT ![t] = <<>>]
  /\ pushing' = [pushing EXCEPT ![t] = None]
  /\ pending' = [pending EXCEPT ![t] = None]
  /\ removing' = [removing EXCEPT ![t] = {}]
  /\ up' = [up EXCEPT ![t] = <<>>] /\ down' = [down EXCEPT ![t] = <<>>]
  /\ late' = [late EXCEPT ![t] = <<>>]
  /\ session' = [session EXCEPT ![t] = None]
  /\ heard' = [heard EXCEPT ![t] = FALSE]
  /\ stranded' = [stranded EXCEPT ![t] = FALSE]
  /\ overlapped' = (overlapped \/ (local = None /\ Others(t)))
  /\ UNCHANGED <<stores, gone>>

Open(t) ==
  /\ link[t].sock = "connecting" /\ link[t].online
  /\ link' = [link EXCEPT ![t].sock = "open", ![t].greets = @ + 1]
  /\ UNCHANGED <<stores, page, op, restoring, failing, refresh, channel, pushes, server,
                 gone, heard, stranded, overlapped, used>>

\* The connection is lost or cannot be made: onclose.
Lose(t) ==
  /\ link[t].sock # "none"
  /\ IF link[t].online THEN Trouble ELSE UNCHANGED used
  /\ link' = [link EXCEPT ![t] = [Disconnected(@) EXCEPT !.access = None, !.timer = link[t].online]]
  /\ pending' = [pending EXCEPT ![t] = BatchAfterClose(t)]
  /\ stranded' = [stranded EXCEPT ![t] = FALSE]
  /\ Reject(t)
  /\ HangUp(t)
  /\ UNCHANGED <<stores, restoring, failing, refresh, channel, pushing, removing, gone, heard, overlapped>>

Reconnect(t) ==
  /\ link[t].timer
  /\ link' = [link EXCEPT ![t] = Connected(@, @.token)]
  /\ UNCHANGED <<stores, page, op, restoring, failing, refresh, channel, pushes, server,
                 gone, heard, stranded, overlapped, used>>

\* The browser goes offline: the socket is dropped without its onclose, so
\* what waits on it is not told.
GoOffline(t) ==
  /\ link[t].online
  /\ Trouble
  /\ IF link[t].sock = "none"
       THEN /\ link' = [link EXCEPT ![t].online = FALSE, ![t].timer = FALSE]
            /\ UNCHANGED server
       ELSE /\ link' = [link EXCEPT ![t] = [Disconnected(@) EXCEPT !.online = FALSE]]
            /\ HangUp(t)
  /\ stranded' = [stranded EXCEPT ![t] = @ \/ pending[t] # None]
  /\ UNCHANGED <<stores, page, op, restoring, failing, refresh, channel, pushes, gone, heard, overlapped>>

GoOnline(t) ==
  /\ ~link[t].online
  /\ link' = [link EXCEPT ![t] = [Connected(@, @.token) EXCEPT !.online = TRUE]]
  /\ UNCHANGED <<stores, page, op, restoring, failing, refresh, channel, pushes, server,
                 gone, heard, stranded, overlapped, used>>

\* sendAuth has read lastSyncSeq.
SendAuth(t) ==
  /\ link[t].greets > 0
  /\ link' = [link EXCEPT ![t].greets = @ - 1]
  /\ IF link[t].sock = "open" THEN Say(t, [kind |-> "Auth", id |-> 0, user |-> link[t].token])
                              ELSE UNCHANGED up
  /\ UNCHANGED <<stores, page, op, restoring, failing, refresh, channel, pushes, down, late,
                 session, gone, heard, stranded, overlapped, used>>

(***************************************************************************)
(* Signing in and out                                                      *)
(***************************************************************************)
\* setStatus(SignedIn) and what client.ts does on it.  A tab that signs in
\* with a token whose user it does not know tells nobody.
BecomeSignedIn(t, u, tok) ==
  /\ page' = [page EXCEPT ![t] = SignedIn(u, tok)]
  /\ IF page[t].status = "SignedIn"
       THEN UNCHANGED <<link, channel, heard>>
       ELSE /\ link' = [link EXCEPT ![t] = Connected(@, tok)]
            /\ IF u = None THEN UNCHANGED <<channel, heard>>
                           ELSE Tell(t, Session(u, tok)) /\ heard' = [heard EXCEPT ![t] = TRUE]

\* A slip that a property must notice: the other tabs are not told.
SignedOutSilently(t) ==
  /\ page' = [page EXCEPT ![t] = SignedOut]
  /\ link' = [link EXCEPT ![t] = Connected(@, None)]
  /\ heard' = [heard EXCEPT ![t] = TRUE]
  /\ UNCHANGED channel
BecomeSignedOut(t) ==
  /\ page' = [page EXCEPT ![t] = SignedOut]
  /\ IF page[t].status = "SignedOut"
       THEN UNCHANGED <<link, channel, heard>>
       ELSE /\ link' = [link EXCEPT ![t] = Connected(@, None)]
            /\ Tell(t, None)
            /\ heard' = [heard EXCEPT ![t] = TRUE]

\* restoreSession has read the session in IndexedDB.
Restore(t) ==
  /\ restoring[t]
  /\ restoring' = [restoring EXCEPT ![t] = FALSE]
  /\ IF meta = None THEN UNCHANGED <<page, link, channel, heard>>
                    ELSE BecomeSignedIn(t, meta.user, meta.token)
  /\ UNCHANGED <<stores, op, failing, refresh, pushes, server, gone, stranded, overlapped, used>>

\* The steps of each kind of call.  login clears before it asks.
FirstStep(kind) == IF kind \in {"login", "resume"} THEN "clear" ELSE "connect"
AfterClear(kind) == IF kind \in {"login", "resume"} THEN "connect" ELSE "store"
AfterAnswer(kind) == IF kind \in {"login", "resume"} THEN "store" ELSE "clear"

Start(t, o) ==
  /\ op[t] = NoOp
  /\ Happens("ops", MaxOps)
  /\ op' = [op EXCEPT ![t] = o]
  /\ Noting(t)
  /\ UNCHANGED <<stores, restoring, failing, refresh, channel, pushes, server, gone, heard, stranded>>

Call(kind, u, mode) ==
  [kind |-> kind, name |-> u, user |-> u, mode |-> mode, step |-> FirstStep(kind), id |-> 0]

\* login() without a password takes the token it has, or one that is stored.
Known(t) == CASE page[t].token # None -> Session(page[t].user, page[t].token)
              [] page[t].token = None /\ local # None -> local
              [] OTHER -> meta

Begin(t) ==
  \E mode \in Modes :
    \/ /\ \E u \in Users : Start(t, Call("register", u, mode))
       /\ page' = [page EXCEPT ![t].status = "SigningIn"]
       /\ UNCHANGED link
    \/ /\ ~restoring[t]
       /\ \E u \in Users : Start(t, Call("login", u, mode))
       /\ page' = [page EXCEPT ![t].status = "SigningIn"]
       /\ UNCHANGED link
    \/ /\ ~restoring[t]
       /\ Start(t, Call("resume", None, mode))
       /\ page' = [page EXCEPT ![t].status = "SigningIn"]
       /\ UNCHANGED link
    \/ /\ Start(t, Call("logout", None, mode))
       /\ link' = [link EXCEPT ![t].token = None]
       /\ UNCHANGED page

\* applyDataMode.  register clears only when the mode says so, and then the
\* user is already set.
Clear(t) ==
  /\ op[t] # NoOp /\ op[t].step = "clear"
  /\ LET o == op[t]
     IN  /\ IF o.mode.clears
              THEN /\ outbox' = {}
                   /\ gone' = [gone EXCEPT !.cleared = @ \cup outbox]
              ELSE UNCHANGED <<outbox, gone>>
         /\ CASE o.kind # "resume" ->
                     /\ op' = [op EXCEPT ![t].step = AfterClear(o.kind)]
                     /\ UNCHANGED page
               [] o.kind = "resume" /\ Known(t) = None -> Fail(t)
               [] o.kind = "resume" /\ Known(t) # None ->
                     /\ op' = [op EXCEPT ![t].step = "connect", ![t].name = Known(t).user,
                                         ![t].user = Known(t).token]
                     /\ UNCHANGED page
  /\ UNCHANGED <<meta, local, restoring, failing, refresh, channel, link, pushes, server, heard, stranded, overlapped, used>>

\* ensureConnected looks, connects if nothing is connecting, and waits.
\* It connects without a token.
Ensure(t) ==
  /\ op[t] # NoOp /\ op[t].step = "connect"
  /\ op' = [op EXCEPT ![t].step = "wait"]
  /\ link' = [link EXCEPT ![t] = IF @.sock # "open" /\ @.status = "Disconnected"
                                   THEN Connected(@, None) ELSE @]
  /\ UNCHANGED <<stores, page, restoring, failing, refresh, channel, pushes, server, gone, heard, stranded, overlapped, used>>

Ask(t) ==
  /\ op[t] # NoOp /\ op[t].step = "wait"
  /\ link[t].sock = "open"
  /\ op' = [op EXCEPT ![t].step = "ask", ![t].id = FreshId(t)]
  /\ Say(t, [kind |-> IF op[t].kind = "logout" THEN "Logout" ELSE "Login",
             id |-> FreshId(t), user |-> op[t].user])
  /\ UNCHANGED <<stores, page, restoring, failing, refresh, channel, link, pushes, down, late,
                 session, gone, heard, stranded, overlapped, used>>

GiveUp(t) ==
  /\ op[t] # NoOp /\ op[t].step = "wait"
  /\ link[t].sock # "open" /\ link[t].status \in {"Disconnected", "Error"}
  /\ Fail(t)
  /\ UNCHANGED <<stores, restoring, failing, refresh, channel, link, pushes, server, gone, heard, stranded, overlapped, used>>

\* The 15 seconds are over, because the answer is late or will never come.
Timeout(t) ==
  /\ op[t] # NoOp /\ op[t].step = "ask"
  /\ IF op[t].id \in Numbered(t) THEN Trouble ELSE UNCHANGED used
  /\ Fail(t)
  /\ UNCHANGED <<stores, restoring, failing, refresh, channel, link, pushes, server, gone, heard, stranded, overlapped>>

\* The session is stored, or not remembered, or removed, and the call is
\* over.  login() with a token stores nothing.
Store(t) ==
  /\ op[t] # NoOp /\ op[t].step = "store"
  /\ LET o == op[t]
         kept == IF o.kind # "logout" /\ o.mode.remember THEN Session(o.user, o.user) ELSE None
     IN  /\ IF o.kind = "resume" THEN UNCHANGED <<meta, local>> ELSE meta' = kept /\ local' = kept
         /\ IF o.kind = "logout" THEN BecomeSignedOut(t) ELSE BecomeSignedIn(t, o.name, o.user)
  /\ op' = [op EXCEPT ![t] = NoOp]
  /\ UNCHANGED <<outbox, restoring, failing, refresh, pushes, server, gone, stranded, overlapped, used>>

\* handleTokenRefresh reads the stored session, then writes it back with
\* the new token.
RefreshRead(t) ==
  \E r \in refresh[t] :
    /\ ~r.read
    /\ refresh' = [refresh EXCEPT ![t] = (@ \ {r}) \cup
         (IF meta = None THEN {} ELSE {[token |-> r.token, read |-> TRUE, user |-> meta.user]})]
    /\ UNCHANGED <<stores, page, op, restoring, failing, channel, link, pushes, server,
                   gone, heard, stranded, overlapped, used>>

RefreshWrite(t) ==
  \E r \in refresh[t] :
    /\ r.read
    /\ refresh' = [refresh EXCEPT ![t] = @ \ {r}]
    /\ meta' = Session(r.user, r.token)
    /\ local' = IF local = None THEN None ELSE Session(r.user, r.token)
    /\ UNCHANGED <<outbox, page, op, restoring, failing, channel, link, pushes, server,
                   gone, heard, stranded, overlapped, used>>

\* handleAuthError has deleted the stored session.
Failed(t) ==
  /\ failing[t]
  /\ failing' = [failing EXCEPT ![t] = FALSE]
  /\ meta' = None /\ local' = None
  /\ BecomeSignedOut(t)
  /\ UNCHANGED <<outbox, op, restoring, refresh, pushes, server, gone, stranded, overlapped, used>>

\* A sibling tab has signed in or out: no new request, and no new broadcast.
\* connect is called once more when the status changes.
Told(l, changed, tok) == IF changed THEN Connected(Connected(l, tok), tok) ELSE Connected(l, tok)

Receive(t) ==
  /\ channel[t] # <<>>
  /\ channel' = [channel EXCEPT ![t] = Tail(@)]
  /\ heard' = [heard EXCEPT ![t] = TRUE]
  /\ LET msg == Head(channel[t])
     IN  IF msg = None
           THEN /\ page' = [page EXCEPT ![t] = SignedOut]
                /\ link' = [link EXCEPT ![t] = Told(@, page[t].status # "SignedOut", None)]
           ELSE /\ page' = [page EXCEPT ![t] = SignedIn(msg.user, msg.token)]
                /\ link' = [link EXCEPT ![t] = Told(@, page[t].status # "SignedIn", msg.token)]
  /\ UNCHANGED <<stores, op, restoring, failing, refresh, pushes, server, gone, stranded, overlapped, used>>

(***************************************************************************)
(* Changes, and messages                                                   *)
(***************************************************************************)
\* A local write, committed with its outbox entry.
Write(t) ==
  /\ Happens("writes", MaxWrites)
  /\ outbox' = outbox \cup {used.writes + 1}
  /\ UNCHANGED <<meta, local, page, op, restoring, failing, refresh, channel, link, pushes, server,
                 gone, heard, stranded, overlapped>>

\* Without a token, only tables the server has said guests may access.
Pushable(t) == IF link[t].token = None /\ link[t].access = "guest" THEN outbox \ Guarded ELSE outbox

PushRead(t) ==
  /\ pushing[t] = None /\ pending[t] = None
  /\ link[t].status = "Connected" /\ link[t].sock = "open"
  /\ Pushable(t) # {}
  /\ pushing' = [pushing EXCEPT ![t] = Pushable(t)]
  /\ UNCHANGED <<stores, page, op, restoring, failing, refresh, channel, link, pending, removing, server,
                 gone, heard, stranded, overlapped, used>>

PushSend(t) ==
  /\ pushing[t] # None
  /\ pushing' = [pushing EXCEPT ![t] = None]
  /\ IF link[t].sock = "open"
       THEN LET batch == [id |-> FreshId(t), ids |-> pushing[t]]
            IN  /\ pending' = [pending EXCEPT ![t] = batch]
                /\ Say(t, [kind |-> "Batch", id |-> batch.id, ids |-> batch.ids])
                /\ stranded' = [stranded EXCEPT ![t] = FALSE]
       ELSE UNCHANGED <<pending, up, stranded>>
  /\ UNCHANGED <<stores, page, op, restoring, failing, refresh, channel, link, removing, down, late,
                 session, gone, heard, overlapped, used>>

\* removeOutboxEntries has committed.
\* A slip that a property must notice: the oldest entries are removed, whichever they are.
LeftOldest(ids) == {i \in outbox : Cardinality({j \in outbox : j < i}) >= Cardinality(ids)}
LeftAfter(ids) == outbox \ ids
Remove(t) ==
  /\ removing[t] # {}
  /\ removing' = [removing EXCEPT ![t] = {}]
  /\ outbox' = LeftAfter(removing[t])
  /\ UNCHANGED <<meta, local, page, op, restoring, failing, refresh, channel, link, pushing, pending, server,
                 gone, heard, stranded, overlapped, used>>

\* handleServerMessage.  Messages of one connection are handled one after
\* the other; those of a closed one go on beside them.
OnAuthSuccess(t, m) ==
  LET tok == IF m.user = Guest THEN None ELSE m.user
      answered == op[t] # NoOp /\ op[t].step = "ask" /\ op[t].id = m.id
      shown == IF tok = None THEN page[t] ELSE [page[t] EXCEPT !.token = tok]
  IN  /\ link' = [link EXCEPT ![t].status = "Connected", ![t].access = IF tok = None THEN "guest" ELSE "user",
                              ![t].token = IF tok = None THEN @ ELSE tok]
      /\ refresh' = [refresh EXCEPT ![t] =
           IF tok = None THEN @ ELSE @ \cup {[token |-> tok, read |-> FALSE, user |-> None]}]
      /\ op' = IF answered THEN [op EXCEPT ![t].step = AfterAnswer(op[t].kind)] ELSE op
      /\ page' = [page EXCEPT ![t] =
           CASE ~answered \/ op[t].kind \in {"login", "resume"} -> shown
             [] answered /\ op[t].kind = "register" -> [shown EXCEPT !.user = op[t].user, !.token = op[t].user]
             [] answered /\ op[t].kind = "logout" -> [shown EXCEPT !.user = None, !.token = None]]
      /\ UNCHANGED <<failing, pending, removing, stranded, overlapped>>

\* The client hangs up, fails what waits, and forgets the session.
OnAuthError(t) ==
  /\ link' = [link EXCEPT ![t] = [Disconnected(@) EXCEPT !.access = None]]
  /\ pending' = [pending EXCEPT ![t] = BatchAfterClose(t)]
  /\ LET waits == op[t] # NoOp /\ op[t].step = "ask"
         left == IF waits THEN StatusAfterFailure(op[t], page[t]) ELSE page[t]
     IN  /\ op' = IF waits THEN [op EXCEPT ![t] = AfterFailure(t, @)] ELSE op
         /\ page' = [page EXCEPT ![t] = [left EXCEPT !.user = None, !.token = None]]
         /\ overlapped' = (overlapped \/ Others(t) \/ failing[t] \/ restoring[t] \/ (op[t] # NoOp /\ ~waits))
  /\ failing' = [failing EXCEPT ![t] = TRUE]
  /\ stranded' = [stranded EXCEPT ![t] = FALSE]
  /\ UNCHANGED <<refresh, removing>>

OnAck(t, m) ==
  /\ IF pending[t] # None /\ pending[t].id = m.id
       THEN /\ removing' = [removing EXCEPT ![t] = @ \cup pending[t].ids]
            /\ pending' = [pending EXCEPT ![t] = None]
       ELSE UNCHANGED <<pending, removing>>
  /\ UNCHANGED <<link, refresh, op, page, failing, stranded, overlapped>>

\* A refused batch is released, and stays in the outbox.
OnError(t, m) ==
  /\ pending' = IF m.id = 0 \/ (pending[t] # None /\ pending[t].id = m.id)
                  THEN [pending EXCEPT ![t] = None] ELSE pending
  /\ UNCHANGED <<link, refresh, op, page, failing, removing, stranded, overlapped>>

On(t, m) == \/ m.kind = "AuthSuccess" /\ OnAuthSuccess(t, m)
            \/ m.kind = "AuthError" /\ OnAuthError(t)
            \/ m.kind = "Ack" /\ OnAck(t, m)
            \/ m.kind = "Error" /\ OnError(t, m)

\* After an AuthError, messages received since stay queued.
Hear(t) ==
  /\ down[t] # <<>> /\ removing[t] = {}
  /\ LET m == Head(down[t])
     IN  /\ On(t, m)
         /\ IF m.kind = "AuthError"
              THEN /\ up' = [up EXCEPT ![t] = <<>>]
                   /\ session' = [session EXCEPT ![t] = None]
                   /\ down' = [down EXCEPT ![t] = <<>>]
                   /\ \E n \in 1 .. Len(down[t]) : late' = [late EXCEPT ![t] = @ \o SubSeq(down[t], 2, n)]
              ELSE /\ down' = [down EXCEPT ![t] = Tail(@)]
                   /\ UNCHANGED <<up, late, session>>
  /\ UNCHANGED <<stores, restoring, channel, pushing, gone, heard, used>>

HearLate(t) ==
  /\ late[t] # <<>>
  /\ On(t, Head(late[t]))
  /\ IF Head(late[t]).kind = "AuthError"
       THEN /\ up' = [up EXCEPT ![t] = <<>>]
            /\ session' = [session EXCEPT ![t] = None]
            /\ down' = [down EXCEPT ![t] = <<>>]
            /\ \E n \in 0 .. Len(down[t]) : late' = [late EXCEPT ![t] = Tail(@) \o SubSeq(down[t], 1, n)]
       ELSE /\ late' = [late EXCEPT ![t] = Tail(@)]
            /\ UNCHANGED <<up, down, session>>
  /\ UNCHANGED <<stores, restoring, channel, pushing, gone, heard, used>>

(***************************************************************************)
(* The server's answers                                                    *)
(***************************************************************************)
Success(id, u) == [kind |-> "AuthSuccess", id |-> id, user |-> u]
AuthError(id) == [kind |-> "AuthError", id |-> id]
ServerError(id) == [kind |-> "Error", id |-> id]

\* Auth without a token keeps the user of the session there is.
ServeAuth(t, m) ==
  LET u == IF m.user # None THEN m.user ELSE IF session[t] # None THEN session[t] ELSE Guest
  IN  \/ /\ session' = [session EXCEPT ![t] = u]
         /\ Answer(t, Success(0, u))
         /\ up' = [up EXCEPT ![t] = Tail(@)]
         /\ UNCHANGED used
      \/ /\ Trouble
         /\ session' = [session EXCEPT ![t] = None]
         /\ Answer(t, AuthError(0))
         /\ up' = [up EXCEPT ![t] = <<>>]

\* Register, and Login with a password or a token: accepted, refused, or
\* the handler throws.
ServeLogin(t, m) ==
  /\ up' = [up EXCEPT ![t] = Tail(@)]
  /\ \/ /\ session' = [session EXCEPT ![t] = m.user]
        /\ Answer(t, Success(m.id, m.user))
        /\ UNCHANGED used
     \/ /\ Trouble
        /\ Answer(t, AuthError(m.id)) \/ Answer(t, ServerError(0))
        /\ UNCHANGED session

ServeLogout(t, m) ==
  /\ up' = [up EXCEPT ![t] = Tail(@)]
  /\ session' = [session EXCEPT ![t] = IF @ = None THEN None ELSE Guest]
  /\ Answer(t, Success(m.id, Guest))
  /\ UNCHANGED used

ServeBatch(t, m) ==
  /\ up' = [up EXCEPT ![t] = Tail(@)]
  /\ \/ /\ session[t] = None
        /\ Answer(t, AuthError(0))
        /\ UNCHANGED <<gone, used>>
     \/ /\ session[t] = Guest /\ m.ids \cap Guarded # {}
        /\ Answer(t, ServerError(m.id))
        /\ UNCHANGED <<gone, used>>
     \/ /\ session[t] \in Users \/ (session[t] = Guest /\ m.ids \cap Guarded = {})
        /\ \/ /\ Answer(t, [kind |-> "Ack", id |-> m.id])
              /\ gone' = [gone EXCEPT !.acked = @ \cup m.ids]
              /\ UNCHANGED used
           \/ /\ Trouble
              /\ Answer(t, ServerError(m.id)) \/ Answer(t, ServerError(0))
              /\ UNCHANGED gone
  /\ UNCHANGED session

Serve(t) ==
  /\ up[t] # <<>>
  /\ LET m == Head(up[t])
     IN  \/ m.kind = "Auth" /\ ServeAuth(t, m) /\ UNCHANGED gone
         \/ m.kind = "Login" /\ ServeLogin(t, m) /\ UNCHANGED gone
         \/ m.kind = "Logout" /\ ServeLogout(t, m) /\ UNCHANGED gone
         \/ m.kind = "Batch" /\ ServeBatch(t, m)
  /\ UNCHANGED <<stores, page, op, restoring, failing, refresh, channel, link, pushes, late, heard, stranded, overlapped>>

Next ==
  \E t \in Tabs :
    \/ Load(t) \/ Open(t) \/ Lose(t) \/ Reconnect(t) \/ GoOffline(t) \/ GoOnline(t) \/ SendAuth(t)
    \/ Begin(t) \/ Clear(t) \/ Ensure(t) \/ Ask(t) \/ GiveUp(t) \/ Timeout(t) \/ Store(t)
    \/ Restore(t) \/ RefreshRead(t) \/ RefreshWrite(t) \/ Failed(t) \/ Receive(t)
    \/ Write(t) \/ PushRead(t) \/ PushSend(t) \/ Remove(t) \/ Hear(t) \/ HearLate(t) \/ Serve(t)

Spec == Init /\ [][Next]_vars

(***************************************************************************)
(* Properties                                                              *)
(***************************************************************************)
Tokens == Users \cup {None}

\* Types, and what fits together: without an open socket nothing is on its
\* way and the server has no session; a timer runs only for a tab without a
\* socket; what is about to leave the outbox was acknowledged.
TypeOK ==
  /\ {meta, local} \subseteq [user : Tokens, token : Users] \cup {None}
  /\ outbox \subseteq 1 .. used.writes
  /\ \A t \in Tabs :
       /\ page[t] \in [status : {"SignedOut", "SigningIn", "SignedIn", "Error"}, user : Tokens, token : Tokens]
       /\ link[t].sock \in {"none", "connecting", "open"}
       /\ link[t].status \in {"Disconnected", "Connecting", "Connected"}
       /\ link[t].sock # "open" => (up[t] = <<>> /\ down[t] = <<>> /\ session[t] = None)
       /\ link[t].timer => (link[t].sock = "none" /\ link[t].online)
       /\ session[t] \in Users \cup {Guest, None}
       /\ op[t] # NoOp => op[t].step \in {"clear", "connect", "wait", "ask", "store"}
       /\ removing[t] \subseteq gone.acked
       /\ pushing[t] # None => pushing[t] # {}

\* A change leaves the shared outbox only when the server has stored it or
\* a sign-in or sign-out that clears local data took it: whatever tabs push
\* at the same time, whichever connection is lost, whatever is refused and
\* whichever acknowledgement comes late.  (client.ts:301-325: no tab pushes
\* for the others, sync.ts:261-318, 501-524, storage.ts:457-467.)
NothingLost == 1 .. used.writes \subseteq outbox \cup gone.acked \cup gone.cleared

Quiet(t) == op[t] = NoOp /\ ~failing[t] /\ ~restoring[t] /\ channel[t] = <<>>

\* As long as no two changes of the session overlap (a page that restores a
\* session from IndexedDB changes it), when none is under way the tabs that
\* announced one, or were told of one, agree on the user who is signed in.
\* (auth.ts:148-191, client.ts:109-165.)
TabsAgree ==
  (~overlapped /\ \A t \in Tabs : Quiet(t)) =>
     \A t, o \in {x \in Tabs : heard[x]} : page[t].user = page[o].user

\* A batch that a tab waits for is on its way to the server or back: only
\* going offline strands one, and then nothing is pushed until the next
\* connection is lost.  (sync.ts:212-226, 253-320, 366-376, 515-520,
\* connection.ts:263-272.)
BatchAnswered ==
  \A t \in Tabs :
    pending[t] # None /\ ~stranded[t] =>
      \/ \E i \in DOMAIN up[t] : up[t][i].kind = "Batch" /\ up[t][i].id = pending[t].id
      \/ \E i \in DOMAIN down[t] : \/ down[t][i].kind = "AuthError"
                                  \/ (down[t][i].kind = "Error" /\ down[t][i].id = 0)
                                  \/ down[t][i].id = pending[t].id
=============================================================================
