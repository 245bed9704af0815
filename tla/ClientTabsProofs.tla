------------------------- MODULE ClientTabsProofs -------------------------
(***************************************************************************)
(* What is proved of the tabs of one application (ClientTabs), for every   *)
(* set of tabs and users, however many changes, loads and troubles: the    *)
(* types (TabTypes), that no change is lost (NothingLost), that a batch is *)
(* on its way or answered (BatchAnswered), and that the tabs agree on who  *)
(* is signed in (TabsAgree).                                               *)
(***************************************************************************)
EXTENDS ClientTabs, SequenceTheorems, FiniteSetTheorems, WellFoundedInduction, TLAPS

-----------------------------------------------------------------------------
(* Types                                                                   *)

Sessions == [user : Users, token : Users]
Pages == [status : {"SignedOut", "SigningIn", "SignedIn", "Error"}, user : Tokens, token : Tokens]
Calls == [kind : {"register", "login", "resume", "logout"}, name : Tokens, user : Tokens, mode : Modes,
          step : {"clear", "connect", "wait", "ask", "store"}, id : Nat]
Refreshes == [token : Users, read : BOOLEAN, user : Tokens]
Links == [status : {"Disconnected", "Connecting", "Connected"}, sock : {"none", "connecting", "open"},
          timer : BOOLEAN, token : Tokens, greets : Nat, access : {None, "guest", "user"}, online : BOOLEAN]
Batches == [id : Nat \ {0}, ids : SUBSET Nat]
Requests == [kind : {"Auth"}, id : {0}, user : Tokens]
              \cup [kind : {"Login"}, id : Nat, user : Users]
              \cup [kind : {"Logout"}, id : Nat, user : Tokens]
              \cup [kind : {"Batch"}, id : Nat, ids : SUBSET Nat]
Answers == [kind : {"AuthSuccess"}, id : Nat, user : Users \cup {Guest}]
             \cup [kind : {"AuthError", "Error", "Ack"}, id : Nat]

\* A call knows the user it is for: by name from the start, or from the
\* token it has found.
CallFits(o) ==
  o = NoOp \/ /\ o \in Calls
              /\ o.kind \in {"register", "login"} => (o.name \in Users /\ o.user \in Users)
              /\ (o.kind = "resume" /\ o.step # "clear") => o.user \in Users

LinkFits(l) == l \in Links /\ (l.timer => (l.sock = "none" /\ l.online))

StoresFit == {meta, local} \subseteq Sessions \cup {None} /\ outbox \subseteq 1 .. used.writes
UsedFits == used \in [ops : Nat, writes : Nat, loads : Nat, troubles : Nat]
PagesFit == page \in [Tabs -> Pages]
CallsFit == op \in [Tabs -> Calls \cup {NoOp}] /\ \A t \in Tabs : CallFits(op[t])
ChangesFit ==
  /\ restoring \in [Tabs -> BOOLEAN] /\ failing \in [Tabs -> BOOLEAN]
  /\ heard \in [Tabs -> BOOLEAN] /\ stranded \in [Tabs -> BOOLEAN] /\ overlapped \in BOOLEAN
RefreshesFit ==
  /\ refresh \in [Tabs -> SUBSET Refreshes]
  /\ \A t \in Tabs : \A r \in refresh[t] : r.read => r.user \in Users
ChannelsFit == channel \in [Tabs -> Seq(Sessions \cup {None})]
LinksFit == link \in [Tabs -> Links] /\ \A t \in Tabs : LinkFits(link[t])
PushesFit ==
  /\ pushing \in [Tabs -> {None} \cup ((SUBSET Nat) \ {{}})]
  /\ pending \in [Tabs -> {None} \cup Batches]
  /\ removing \in [Tabs -> SUBSET Nat]
  /\ gone \in [acked : SUBSET Nat, cleared : SUBSET Nat]
WiresFit ==
  /\ up \in [Tabs -> Seq(Requests)] /\ down \in [Tabs -> Seq(Answers)] /\ late \in [Tabs -> Seq(Answers)]
  /\ session \in [Tabs -> Users \cup {Guest, None}]

\* Without an open socket nothing is on its way.
SocketsFit ==
  \A t \in Tabs : link[t].sock # "open" => (up[t] = << >> /\ down[t] = << >> /\ session[t] = None)

TabTypes == /\ StoresFit /\ UsedFits /\ PagesFit /\ CallsFit /\ ChangesFit /\ RefreshesFit
            /\ ChannelsFit /\ LinksFit /\ PushesFit /\ WiresFit /\ SocketsFit

LEMMA ConnectedFits ==
  ASSUME NEW l, LinkFits(l), NEW tok \in Tokens
  PROVE  /\ LinkFits(Connected(l, tok))
         /\ Connected(l, tok).sock = "open" <=> l.sock = "open"
         /\ Connected(l, tok).online = l.online
         /\ Connected(l, tok).token = tok
         /\ Connected(l, tok).timer = FALSE
<1>1. l \in Links /\ l.sock \in {"none", "connecting", "open"}
  BY DEF LinkFits, Links
<1> DEFINE waits == [l EXCEPT !.token = tok, !.timer = FALSE]
<1>2. /\ waits \in Links /\ waits.timer = FALSE /\ waits.token = tok
      /\ waits.sock = l.sock /\ waits.online = l.online /\ waits.greets = l.greets
  BY <1>1 DEF Links
<1>3. Connected(l, tok) = CASE l.sock = "open" /\ l.status = "Connected" -> waits
        [] l.sock = "open" /\ l.status # "Connected" ->
             [waits EXCEPT !.status = "Connecting", !.greets = @ + 1]
        [] l.sock # "open" ->
             [waits EXCEPT !.status = "Connecting", !.sock = "connecting"]
  BY DEF Connected
<1> HIDE DEF waits
<1>4. waits.greets + 1 \in Nat
  BY <1>2 DEF Links
<1>5. CASE l.sock = "open" /\ l.status = "Connected"
  BY <1>2, <1>3, <1>5 DEF LinkFits
<1>6. CASE l.sock = "open" /\ l.status # "Connected"
  <2>1. Connected(l, tok) = [waits EXCEPT !.status = "Connecting", !.greets = @ + 1]
    BY <1>3, <1>6
  <2> QED
    BY <1>2, <1>4, <1>6, <2>1 DEF LinkFits, Links
<1>7. CASE l.sock # "open"
  <2>1. Connected(l, tok) = [waits EXCEPT !.status = "Connecting", !.sock = "connecting"]
    BY <1>3, <1>7
  <2> QED
    BY <1>2, <1>7, <2>1 DEF LinkFits, Links
<1> QED
  BY <1>5, <1>6, <1>7

LEMMA DisconnectedFits ==
  ASSUME NEW l, l \in Links
  PROVE  /\ Disconnected(l) \in Links
         /\ Disconnected(l).sock = "none" /\ Disconnected(l).timer = FALSE
         /\ Disconnected(l).online = l.online
BY DEF Disconnected, Links

\* Hanging up keeps the messages that were received.
LEMMA HangUpFits ==
  ASSUME WiresFit, NEW t \in Tabs, HangUp(t)
  PROVE  /\ WiresFit'
         /\ up'[t] = << >> /\ down'[t] = << >> /\ session'[t] = None
         /\ \A o \in Tabs : o # t => (up'[o] = up[o] /\ down'[o] = down[o] /\ session'[o] = session[o])
<1>1. PICK n \in 0 .. Len(down[t]) : late' = [late EXCEPT ![t] = @ \o SubSeq(down[t], 1, n)]
  BY DEF HangUp
<1>2. SubSeq(down[t], 1, n) \in Seq(Answers)
  BY SubSeqProperties DEF WiresFit
<1>3. late[t] \o SubSeq(down[t], 1, n) \in Seq(Answers)
  BY <1>2, ConcatProperties DEF WiresFit
<1>4. late' \in [Tabs -> Seq(Answers)]
  BY <1>1, <1>3 DEF WiresFit
<1>5. << >> \in Seq(Requests) /\ << >> \in Seq(Answers)
  OBVIOUS
<1> QED
  BY <1>4, <1>5 DEF WiresFit, HangUp

LEMMA UsedStaysFit ==
  ASSUME UsedFits, NEW kind \in {"ops", "writes", "loads", "troubles"}, NEW max, Happens(kind, max)
  PROVE  UsedFits' /\ used'.writes = IF kind = "writes" THEN used.writes + 1 ELSE used.writes
BY DEF UsedFits, Happens

LEMMA CallFailsFit ==
  ASSUME CallsFit, PagesFit, NEW t \in Tabs, op[t] # NoOp, Fail(t)
  PROVE  /\ CallsFit' /\ PagesFit'
         /\ \A o \in Tabs : o # t => (op'[o] = op[o] /\ page'[o] = page[o])
         /\ op'[t] = AfterFailure(t, op[t]) /\ page'[t] = StatusAfterFailure(op[t], page[t])
<1>1. op[t] \in Calls /\ CallFits(op[t]) /\ page[t] \in Pages
  BY DEF CallsFit, PagesFit
<1>2. StatusAfterFailure(op[t], page[t]) \in Pages
  BY <1>1 DEF StatusAfterFailure, Pages, Tokens
<1>3. AfterFailure(t, op[t]) \in Calls \cup {NoOp}
  BY <1>1 DEF AfterFailure, Calls
<1>4. CallFits(AfterFailure(t, op[t]))
  <2>1. CASE op[t].kind = "logout"
    <3>1. AfterFailure(t, op[t]) = [op[t] EXCEPT !.step = "clear"]
      BY <2>1 DEF AfterFailure
    <3> QED
      BY <1>1, <2>1, <3>1 DEF CallFits, Calls
  <2>2. CASE op[t].kind # "logout"
    BY <2>2 DEF AfterFailure, CallFits
  <2> QED
    BY <2>1, <2>2
<1> HIDE DEF NoOp
<1> QED
  BY <1>2, <1>3, <1>4 DEF Fail, CallsFit, PagesFit

LEMMA RejectFits ==
  ASSUME CallsFit, PagesFit, NEW t \in Tabs, Reject(t)
  PROVE  CallsFit' /\ PagesFit'
<1>1. CASE op[t] # NoOp /\ op[t].step = "ask"
  BY <1>1, CallFailsFit DEF Reject
<1>2. CASE ~(op[t] # NoOp /\ op[t].step = "ask")
  BY <1>2 DEF Reject, CallsFit, PagesFit
<1> QED
  BY <1>1, <1>2

LEMMA TellFits ==
  ASSUME ChannelsFit, NEW t \in Tabs, NEW msg \in Sessions \cup {None}, Tell(t, msg)
  PROVE  /\ ChannelsFit'
         /\ channel'[t] = channel[t]
         /\ \A o \in Tabs : o # t => channel'[o] = Append(channel[o], msg)
<1>1. \A o \in Tabs : Append(channel[o], msg) \in Seq(Sessions \cup {None})
  BY DEF ChannelsFit
<1> QED
  BY <1>1 DEF ChannelsFit, Tell

\* What a change of the status leaves well formed.
Settled == /\ PagesFit' /\ LinksFit' /\ ChannelsFit' /\ heard' \in [Tabs -> BOOLEAN]
           /\ \A o \in Tabs : link'[o].sock = "open" <=> link[o].sock = "open"

LEMMA RelinkFits ==
  ASSUME LinksFit, NEW t \in Tabs, NEW l, LinkFits(l), l.sock = "open" <=> link[t].sock = "open",
         link' = [link EXCEPT ![t] = l]
  PROVE  LinksFit' /\ \A o \in Tabs : link'[o].sock = "open" <=> link[o].sock = "open"
BY DEF LinksFit, LinkFits

LEMMA SignedInFits ==
  ASSUME PagesFit, LinksFit, ChannelsFit, heard \in [Tabs -> BOOLEAN],
         NEW t \in Tabs, NEW u \in Tokens, NEW tok \in Users, BecomeSignedIn(t, u, tok)
  PROVE  Settled
<1>1. SignedIn(u, tok) \in Pages
  BY DEF SignedIn, Pages, Tokens
<1>2. PagesFit'
  BY <1>1 DEF PagesFit, BecomeSignedIn
<1>3. CASE page[t].status = "SignedIn"
  <2>1. UNCHANGED <<link, channel, heard>>
    BY <1>3 DEF BecomeSignedIn
  <2> QED
    BY <1>2, <2>1 DEF Settled, LinksFit, ChannelsFit
<1>4. CASE page[t].status # "SignedIn"
  <2>1. /\ link' = [link EXCEPT ![t] = Connected(link[t], tok)]
        /\ IF u = None THEN UNCHANGED <<channel, heard>>
                       ELSE Tell(t, Session(u, tok)) /\ heard' = [heard EXCEPT ![t] = TRUE]
    BY <1>4 DEF BecomeSignedIn, LinksFit
  <2>2. LinksFit' /\ \A o \in Tabs : link'[o].sock = "open" <=> link[o].sock = "open"
    BY <2>1, ConnectedFits, RelinkFits DEF LinksFit, Tokens
  <2>3. ChannelsFit' /\ heard' \in [Tabs -> BOOLEAN]
    <3>1. CASE u = None
      BY <2>1, <3>1 DEF ChannelsFit
    <3>2. CASE u # None
      <4>1. Session(u, tok) \in Sessions
        BY <3>2 DEF Session, Sessions, Tokens
      <4> QED
        BY <2>1, <3>2, <4>1, TellFits
    <3> QED
      BY <3>1, <3>2
  <2> QED
    BY <1>2, <2>2, <2>3 DEF Settled
<1> QED
  BY <1>3, <1>4

LEMMA SignedOutFits ==
  ASSUME PagesFit, LinksFit, ChannelsFit, heard \in [Tabs -> BOOLEAN],
         NEW t \in Tabs, BecomeSignedOut(t)
  PROVE  Settled
<1>1. SignedOut \in Pages
  BY DEF SignedOut, Pages, Tokens
<1>2. PagesFit'
  BY <1>1 DEF PagesFit, BecomeSignedOut
<1>3. CASE page[t].status = "SignedOut"
  <2>1. UNCHANGED <<link, channel, heard>>
    BY <1>3 DEF BecomeSignedOut
  <2> QED
    BY <1>2, <2>1 DEF Settled, LinksFit, ChannelsFit
<1>4. CASE page[t].status # "SignedOut"
  <2>1. /\ link' = [link EXCEPT ![t] = Connected(link[t], None)]
        /\ Tell(t, None) /\ heard' = [heard EXCEPT ![t] = TRUE]
    BY <1>4 DEF BecomeSignedOut, LinksFit
  <2>2. LinksFit' /\ \A o \in Tabs : link'[o].sock = "open" <=> link[o].sock = "open"
    BY <2>1, ConnectedFits, RelinkFits DEF LinksFit, Tokens
  <2>3. ChannelsFit' /\ heard' \in [Tabs -> BOOLEAN]
    BY <2>1, TellFits
  <2> QED
    BY <1>2, <2>2, <2>3 DEF Settled
<1> QED
  BY <1>3, <1>4

-----------------------------------------------------------------------------
(* An id that is not in use                                                *)

LEMMA IdsAreFinite ==
  ASSUME NEW S, NEW s \in Seq(S)
  PROVE  IsFiniteSet({s[i].id : i \in DOMAIN s})
<1> DEFINE T == {s[i].id : i \in DOMAIN s}
           f == [i \in DOMAIN s |-> s[i].id]
<1>1. f \in Surjection(DOMAIN s, T)
  BY DEF Surjection
<1>2. DOMAIN s = 1 .. Len(s) /\ Len(s) \in Int /\ 1 \in Int
  OBVIOUS
<1>3. IsFiniteSet(DOMAIN s)
  BY <1>2, FS_Interval
<1> HIDE DEF f, T
<1>4. IsFiniteSet(T)
  BY <1>1, <1>3, FS_Surjection
<1> QED
  BY <1>4 DEF T

LEMMA FirstOfNumbers ==
  ASSUME NEW S \in SUBSET Nat, S # {}
  PROVE  \E n \in S : \A m \in S : n <= m
<1>1. PICK n \in S : \A m \in S : ~(<<m, n>> \in OpToRel(<, Nat))
  BY NatLessThanWellFounded, WFMin, Zenon
<1>2. \A m \in S : n <= m
  <2>1. SUFFICES ASSUME NEW m \in S, m < n PROVE FALSE
    OBVIOUS
  <2>2. <<m, n>> \in Nat \X Nat /\ <<m, n>>[1] < <<m, n>>[2]
    BY <2>1
  <2>3. <<m, n>> \in OpToRel(<, Nat)
    BY <2>2, Zenon DEF OpToRel
  <2> QED
    BY <1>1, <2>3
<1> QED
  BY <1>2

\* Among one more number than a finite set has members, one is missing.
LEMMA OneIsMissing ==
  ASSUME NEW S, IsFiniteSet(S)
  PROVE  \E n \in 1 .. Cardinality(S) + 1 : n \notin S /\ \A m \in 1 .. n - 1 : m \in S
<1> DEFINE k == Cardinality(S) + 1
           Missing == {n \in 1 .. k : n \notin S}
<1>1. Cardinality(S) \in Nat
  BY FS_CardinalityType
<1>2. IsFiniteSet(1 .. k) /\ Cardinality(1 .. k) = k
  <2>1. 1 \in Int /\ k \in Int /\ ~(1 > k) /\ k - 1 + 1 = k
    BY <1>1
  <2> HIDE DEF k
  <2> QED
    BY <2>1, FS_Interval
<1>3. Missing # {}
  <2>1. SUFFICES ASSUME Missing = {} PROVE FALSE
    OBVIOUS
  <2>2. 1 .. k \in SUBSET S
    BY <2>1
  <2>3. Cardinality(1 .. k) <= Cardinality(S)
    BY <2>2, FS_Subset, Zenon
  <2> QED
    BY <1>1, <1>2, <2>3
<1>4. PICK n \in Missing : \A m \in Missing : n <= m
  <2>1. Missing \in SUBSET Nat
    BY <1>1
  <2> QED
    BY <1>3, <2>1, FirstOfNumbers
<1>5. \A m \in 1 .. n - 1 : m \in S
  BY <1>1, <1>4
<1> QED
  BY <1>4, <1>5

LEMMA FreshIdIsFresh ==
  ASSUME WiresFit, PushesFit, NEW t \in Tabs
  PROVE  FreshId(t) \in Nat \ {0} /\ FreshId(t) \notin Numbered(t)
<1>1. IsFiniteSet(Numbered(t))
  <2>1. /\ IsFiniteSet({up[t][i].id : i \in DOMAIN up[t]})
        /\ IsFiniteSet({down[t][i].id : i \in DOMAIN down[t]})
        /\ IsFiniteSet({late[t][i].id : i \in DOMAIN late[t]})
    <3>1. up[t] \in Seq(Requests) /\ down[t] \in Seq(Answers) /\ late[t] \in Seq(Answers)
      BY DEF WiresFit
    <3>2. IsFiniteSet({up[t][i].id : i \in DOMAIN up[t]})
      BY <3>1, IdsAreFinite, Zenon
    <3>3. IsFiniteSet({down[t][i].id : i \in DOMAIN down[t]})
      BY <3>1, IdsAreFinite, Zenon
    <3>4. IsFiniteSet({late[t][i].id : i \in DOMAIN late[t]})
      BY <3>1, IdsAreFinite, Zenon
    <3> QED
      BY <3>2, <3>3, <3>4
  <2>2. IsFiniteSet({}) /\ IsFiniteSet({pending[t].id})
    BY FS_EmptySet, FS_Singleton
  <2>3. IsFiniteSet(IF pending[t] = None THEN {} ELSE {pending[t].id})
    BY <2>2
  <2>4. IsFiniteSet({up[t][i].id : i \in DOMAIN up[t]} \cup {down[t][i].id : i \in DOMAIN down[t]})
    BY <2>1, FS_Union
  <2>5. IsFiniteSet({up[t][i].id : i \in DOMAIN up[t]} \cup {down[t][i].id : i \in DOMAIN down[t]}
                      \cup {late[t][i].id : i \in DOMAIN late[t]})
    BY <2>1, <2>4, FS_Union
  <2> QED
    BY <2>3, <2>5, FS_Union DEF Numbered
<1>2. \E n \in 1 .. Cardinality(Numbered(t)) + 1 :
         n \notin Numbered(t) /\ \A m \in 1 .. n - 1 : m \in Numbered(t)
  BY <1>1, OneIsMissing
<1>3. FreshId(t) \in 1 .. Cardinality(Numbered(t)) + 1 /\ FreshId(t) \notin Numbered(t)
  BY <1>2 DEF FreshId
<1>4. Cardinality(Numbered(t)) \in Nat
  BY <1>1, FS_CardinalityType
<1> HIDE DEF FreshId
<1> QED
  BY <1>3, <1>4

-----------------------------------------------------------------------------
(* Every step keeps the types                                              *)

LEMMA TypesAtFirst == Init => TabTypes
<1> SUFFICES ASSUME Init PROVE TabTypes
  OBVIOUS
<1>1. SignedOut \in Pages
  BY DEF SignedOut, Pages, Tokens
<1> DEFINE new == [NewLink(None) EXCEPT !.status = "Connected", !.sock = "open", !.access = "guest"]
<1>2. LinkFits(new) /\ new.sock = "open" /\ link = [t \in Tabs |-> new]
  BY DEF NewLink, LinkFits, Links, Tokens, Init
<1> HIDE DEF new
<1>3. StoresFit /\ UsedFits /\ ChangesFit /\ RefreshesFit /\ PushesFit
  BY DEF Init, StoresFit, UsedFits, ChangesFit, RefreshesFit, PushesFit
<1>4. CallsFit
  <2> HIDE DEF NoOp
  <2> QED
    BY DEF Init, CallsFit, CallFits
<1>5. ChannelsFit /\ WiresFit /\ SocketsFit
  <2>1. << >> \in Seq(Requests) /\ << >> \in Seq(Answers) /\ << >> \in Seq(Sessions \cup {None})
    OBVIOUS
  <2>2. ChannelsFit /\ WiresFit
    BY <2>1 DEF Init, ChannelsFit, WiresFit
  <2>3. SocketsFit
    BY <1>2 DEF SocketsFit
  <2> QED
    BY <2>2, <2>3
<1>6. LinksFit
  BY <1>2 DEF Init, LinksFit, LinkFits
<1> QED
  BY <1>1, <1>3, <1>4, <1>5, <1>6 DEF TabTypes, PagesFit, Init

LEMMA LoadKeepsTypes ==
  ASSUME TabTypes, NEW t \in Tabs, Load(t)
  PROVE  TabTypes'
<1>1. UsedFits' /\ StoresFit'
  BY UsedStaysFit DEF TabTypes, StoresFit, Load, stores
<1>2. local # None => local.user \in Users /\ local.token \in Users
  BY DEF TabTypes, StoresFit, Sessions
<1>3. PagesFit'
  <2>1. (IF local # None THEN SignedIn(local.user, local.token) ELSE SignedOut) \in Pages
    BY <1>2 DEF SignedIn, SignedOut, Pages, Tokens
  <2> QED
    BY <2>1 DEF TabTypes, PagesFit, Load
<1>4. CallsFit'
  <2> HIDE DEF NoOp
  <2> QED
    BY DEF TabTypes, CallsFit, CallFits, Load
<1>5. ChangesFit' /\ RefreshesFit' /\ PushesFit'
  BY DEF TabTypes, ChangesFit, RefreshesFit, PushesFit, Load, Others
<1>6. ChannelsFit' /\ WiresFit'
  BY DEF TabTypes, ChannelsFit, WiresFit, Load
<1>7. LinksFit' /\ SocketsFit'
  <2> DEFINE new == NewLink(IF local # None THEN local.token ELSE None)
             l == [new EXCEPT !.online = link[t].online]
  <2>1. new \in Links /\ ~new.timer
    BY <1>2 DEF NewLink, Links, Tokens
  <2>2. link[t].online \in BOOLEAN
    BY DEF TabTypes, LinksFit, Links
  <2>3. link' = [link EXCEPT ![t] = l]
    BY DEF Load
  <2> HIDE DEF new
  <2>4. l \in Links /\ ~l.timer
    BY <2>1, <2>2 DEF Links
  <2> HIDE DEF l
  <2>5. LinksFit'
    BY <2>3, <2>4 DEF TabTypes, LinksFit, LinkFits
  <2>6. SocketsFit'
    BY <2>3 DEF TabTypes, LinksFit, WiresFit, SocketsFit, Load
  <2> QED
    BY <2>5, <2>6
<1> QED
  BY <1>1, <1>3, <1>4, <1>5, <1>6, <1>7 DEF TabTypes

LEMMA OpenKeepsTypes ==
  ASSUME TabTypes, NEW t \in Tabs, Open(t)
  PROVE  TabTypes'
<1>1. LinksFit' /\ SocketsFit'
  <2>1. link[t] \in Links /\ link[t].sock = "connecting" /\ LinkFits(link[t])
    BY DEF TabTypes, LinksFit, Open
  <2>2. link' = [link EXCEPT ![t].sock = "open", ![t].greets = @ + 1]
    BY DEF Open
  <2>3. /\ link' \in [Tabs -> Links] /\ link'[t].sock = "open" /\ link'[t].timer = link[t].timer
        /\ \A o \in Tabs : o # t => link'[o] = link[o]
    BY <2>1, <2>2 DEF TabTypes, LinksFit, Links
  <2>4. LinksFit'
    BY <2>1, <2>3 DEF TabTypes, LinksFit, LinkFits
  <2>5. SocketsFit'
    BY <2>3 DEF TabTypes, SocketsFit, Open, server
  <2> QED
    BY <2>4, <2>5
<1>2. StoresFit' /\ UsedFits' /\ PagesFit' /\ CallsFit' /\ ChangesFit' /\ RefreshesFit'
  BY DEF TabTypes, StoresFit, UsedFits, PagesFit, CallsFit, ChangesFit, RefreshesFit, Open, stores
<1>3. ChannelsFit' /\ PushesFit' /\ WiresFit'
  BY DEF TabTypes, ChannelsFit, PushesFit, WiresFit, Open, pushes, server
<1> QED
  BY <1>1, <1>2, <1>3 DEF TabTypes

LEMMA LoseKeepsTypes ==
  ASSUME TabTypes, NEW t \in Tabs, Lose(t)
  PROVE  TabTypes'
<1>1. UsedFits' /\ StoresFit'
  BY UsedStaysFit DEF TabTypes, StoresFit, UsedFits, Lose, Trouble, stores
<1>2. CallsFit' /\ PagesFit'
  BY RejectFits DEF TabTypes, Lose
<1>3. ChangesFit' /\ RefreshesFit' /\ PushesFit' /\ ChannelsFit'
  BY DEF TabTypes, ChangesFit, RefreshesFit, PushesFit, ChannelsFit, Lose, BatchAfterClose
<1>4. /\ WiresFit' /\ up'[t] = << >> /\ down'[t] = << >> /\ session'[t] = None
      /\ \A o \in Tabs : o # t => (up'[o] = up[o] /\ down'[o] = down[o] /\ session'[o] = session[o])
  BY HangUpFits DEF TabTypes, Lose
<1>5. LinksFit' /\ SocketsFit'
  <2> DEFINE off == Disconnected(link[t])
             l == [off EXCEPT !.access = None, !.timer = link[t].online]
  <2>1. off \in Links /\ off.sock = "none" /\ off.timer = FALSE /\ off.online = link[t].online
    BY DisconnectedFits DEF TabTypes, LinksFit
  <2>2. link' = [link EXCEPT ![t] = l]
    BY DEF Lose
  <2> HIDE DEF off
  <2>3. l \in Links /\ (l.timer => l.sock = "none" /\ l.online)
    BY <2>1 DEF Links
  <2> HIDE DEF l
  <2>4. LinksFit'
    BY <2>2, <2>3 DEF TabTypes, LinksFit, LinkFits
  <2>5. SocketsFit'
    BY <1>4, <2>2 DEF TabTypes, LinksFit, SocketsFit
  <2> QED
    BY <2>4, <2>5
<1> QED
  BY <1>1, <1>2, <1>3, <1>4, <1>5 DEF TabTypes

LEMMA ReconnectKeepsTypes ==
  ASSUME TabTypes, NEW t \in Tabs, Reconnect(t)
  PROVE  TabTypes'
<1>1. LinksFit' /\ SocketsFit'
  <2>1. LinkFits(link[t]) /\ link[t].token \in Tokens
    BY DEF TabTypes, LinksFit, Links
  <2>2. link' = [link EXCEPT ![t] = Connected(link[t], link[t].token)]
    BY DEF Reconnect
  <2>3. LinksFit' /\ \A o \in Tabs : link'[o].sock = "open" <=> link[o].sock = "open"
    BY <2>1, <2>2, ConnectedFits, RelinkFits DEF TabTypes
  <2> QED
    BY <2>3 DEF TabTypes, SocketsFit, Reconnect, server
<1>2. StoresFit' /\ UsedFits' /\ PagesFit' /\ CallsFit' /\ ChangesFit' /\ RefreshesFit'
  BY DEF TabTypes, StoresFit, UsedFits, PagesFit, CallsFit, ChangesFit, RefreshesFit, Reconnect, stores
<1>3. ChannelsFit' /\ PushesFit' /\ WiresFit'
  BY DEF TabTypes, ChannelsFit, PushesFit, WiresFit, Reconnect, pushes, server
<1> QED
  BY <1>1, <1>2, <1>3 DEF TabTypes

LEMMA GoOfflineKeepsTypes ==
  ASSUME TabTypes, NEW t \in Tabs, GoOffline(t)
  PROVE  TabTypes'
<1>1. UsedFits' /\ StoresFit'
  BY UsedStaysFit DEF TabTypes, StoresFit, UsedFits, GoOffline, Trouble, stores
<1>2. PagesFit' /\ CallsFit' /\ ChangesFit' /\ RefreshesFit' /\ ChannelsFit' /\ PushesFit'
  BY DEF TabTypes, PagesFit, CallsFit, ChangesFit, RefreshesFit, ChannelsFit, PushesFit, GoOffline, pushes
<1>3. LinksFit' /\ WiresFit' /\ SocketsFit'
  <2>1. CASE link[t].sock = "none"
    <3>1. link' = [link EXCEPT ![t].online = FALSE, ![t].timer = FALSE] /\ UNCHANGED <<up, down, late, session>>
      BY <2>1 DEF GoOffline, server
    <3>2. /\ link' \in [Tabs -> Links] /\ link'[t].timer = FALSE /\ link'[t].sock = link[t].sock
          /\ \A o \in Tabs : o # t => link'[o] = link[o]
      BY <3>1 DEF TabTypes, LinksFit, Links
    <3> QED
      BY <3>1, <3>2 DEF TabTypes, LinksFit, LinkFits, WiresFit, SocketsFit
  <2>2. CASE link[t].sock # "none"
    <3> DEFINE off == Disconnected(link[t])
               l == [off EXCEPT !.online = FALSE]
    <3>1. off \in Links /\ off.sock = "none" /\ off.timer = FALSE
      BY DisconnectedFits DEF TabTypes, LinksFit
    <3>2. link' = [link EXCEPT ![t] = l] /\ HangUp(t)
      BY <2>2 DEF GoOffline
    <3> HIDE DEF off
    <3>3. l \in Links /\ ~l.timer
      BY <3>1 DEF Links
    <3> HIDE DEF l
    <3>4. LinksFit'
      BY <3>2, <3>3 DEF TabTypes, LinksFit, LinkFits
    <3>5. /\ WiresFit' /\ up'[t] = << >> /\ down'[t] = << >> /\ session'[t] = None
          /\ \A o \in Tabs : o # t => (up'[o] = up[o] /\ down'[o] = down[o] /\ session'[o] = session[o])
      BY <3>2, HangUpFits DEF TabTypes
    <3>6. SocketsFit'
      BY <3>2, <3>5 DEF TabTypes, LinksFit, SocketsFit
    <3> QED
      BY <3>4, <3>5, <3>6
  <2> QED
    BY <2>1, <2>2
<1> QED
  BY <1>1, <1>2, <1>3 DEF TabTypes

LEMMA GoOnlineKeepsTypes ==
  ASSUME TabTypes, NEW t \in Tabs, GoOnline(t)
  PROVE  TabTypes'
<1>1. LinksFit' /\ SocketsFit'
  <2> DEFINE on == Connected(link[t], link[t].token)
             l == [on EXCEPT !.online = TRUE]
  <2>1. LinkFits(link[t]) /\ link[t].token \in Tokens
    BY DEF TabTypes, LinksFit, Links
  <2>2. link' = [link EXCEPT ![t] = l]
    BY DEF GoOnline
  <2>3. LinkFits(on) /\ on.timer = FALSE /\ (on.sock = "open" <=> link[t].sock = "open")
    BY <2>1, ConnectedFits
  <2> HIDE DEF on
  <2>4. LinkFits(l) /\ (l.sock = "open" <=> link[t].sock = "open")
    BY <2>3 DEF LinkFits, Links
  <2> HIDE DEF l
  <2>5. LinksFit' /\ \A o \in Tabs : link'[o].sock = "open" <=> link[o].sock = "open"
    BY <2>2, <2>4, RelinkFits DEF TabTypes
  <2> QED
    BY <2>5 DEF TabTypes, SocketsFit, GoOnline, server
<1>2. StoresFit' /\ UsedFits' /\ PagesFit' /\ CallsFit' /\ ChangesFit' /\ RefreshesFit'
  BY DEF TabTypes, StoresFit, UsedFits, PagesFit, CallsFit, ChangesFit, RefreshesFit, GoOnline, stores
<1>3. ChannelsFit' /\ PushesFit' /\ WiresFit'
  BY DEF TabTypes, ChannelsFit, PushesFit, WiresFit, GoOnline, pushes, server
<1> QED
  BY <1>1, <1>2, <1>3 DEF TabTypes

\* A message of an open socket to the server.
LEMMA SayFits ==
  ASSUME WiresFit, SocketsFit, NEW t \in Tabs, NEW msg \in Requests,
         link[t].sock = "open", Say(t, msg), UNCHANGED <<down, late, session>>,
         \A o \in Tabs : link'[o].sock = "open" <=> link[o].sock = "open"
  PROVE  WiresFit' /\ SocketsFit'
<1>1. up' = [up EXCEPT ![t] = Append(up[t], msg)] /\ Append(up[t], msg) \in Seq(Requests)
  BY DEF Say, WiresFit
<1>2. WiresFit'
  BY <1>1 DEF WiresFit
<1>3. \A o \in Tabs : o # t => up'[o] = up[o]
  BY <1>1 DEF WiresFit
<1> QED
  BY <1>2, <1>3 DEF SocketsFit

LEMMA SendAuthKeepsTypes ==
  ASSUME TabTypes, NEW t \in Tabs, SendAuth(t)
  PROVE  TabTypes'
<1>1. /\ LinksFit' /\ \A o \in Tabs : link'[o].sock = "open" <=> link[o].sock = "open"
  <2>1. link' = [link EXCEPT ![t].greets = @ - 1] /\ link[t].greets > 0 /\ link[t] \in Links
    BY DEF TabTypes, LinksFit, SendAuth
  <2>2. link[t].greets - 1 \in Nat
    BY <2>1 DEF Links
  <2>3. /\ link' \in [Tabs -> Links] /\ link'[t].timer = link[t].timer /\ link'[t].sock = link[t].sock
        /\ link'[t].online = link[t].online /\ \A o \in Tabs : o # t => link'[o] = link[o]
    BY <2>1, <2>2 DEF TabTypes, LinksFit, Links
  <2> QED
    BY <2>3 DEF TabTypes, LinksFit, LinkFits
<1>2. WiresFit' /\ SocketsFit'
  <2>1. CASE link[t].sock = "open"
    <3>1. [kind |-> "Auth", id |-> 0, user |-> link[t].token] \in Requests
      BY DEF TabTypes, LinksFit, Links, Requests
    <3> QED
      BY <1>1, <2>1, <3>1, SayFits DEF TabTypes, SendAuth
  <2>2. CASE link[t].sock # "open"
    BY <1>1, <2>2 DEF TabTypes, SendAuth, WiresFit, SocketsFit
  <2> QED
    BY <2>1, <2>2
<1>3. StoresFit' /\ UsedFits' /\ PagesFit' /\ CallsFit' /\ ChangesFit' /\ RefreshesFit'
  BY DEF TabTypes, StoresFit, UsedFits, PagesFit, CallsFit, ChangesFit, RefreshesFit, SendAuth, stores
<1>4. ChannelsFit' /\ PushesFit'
  BY DEF TabTypes, ChannelsFit, PushesFit, SendAuth, pushes
<1> QED
  BY <1>1, <1>2, <1>3, <1>4 DEF TabTypes

LEMMA StartKeepsTypes ==
  ASSUME TabTypes, NEW t \in Tabs, NEW o, o \in Calls, CallFits(o), Start(t, o)
  PROVE  /\ StoresFit' /\ UsedFits' /\ CallsFit' /\ ChangesFit' /\ RefreshesFit' /\ ChannelsFit'
         /\ PushesFit' /\ WiresFit'
<1>1. UsedFits' /\ StoresFit'
  BY UsedStaysFit DEF TabTypes, StoresFit, Start, stores
<1>2. CallsFit'
  <2> HIDE DEF NoOp
  <2> QED
    BY DEF TabTypes, CallsFit, Start
<1>3. ChangesFit' /\ RefreshesFit' /\ ChannelsFit' /\ PushesFit' /\ WiresFit'
  BY DEF TabTypes, ChangesFit, RefreshesFit, ChannelsFit, PushesFit, WiresFit, Start, Noting, pushes, server
<1> QED
  BY <1>1, <1>2, <1>3

LEMMA CallIsFit ==
  ASSUME NEW kind \in {"register", "login", "resume", "logout"}, NEW u \in Tokens, NEW mode \in Modes,
         kind \in {"register", "login"} => u \in Users
  PROVE  Call(kind, u, mode) \in Calls /\ CallFits(Call(kind, u, mode))
<1>1. Call(kind, u, mode) \in Calls
  BY DEF Call, Calls, FirstStep
<1>2. kind = "resume" => Call(kind, u, mode).step = "clear"
  BY DEF Call, FirstStep
<1> QED
  BY <1>1, <1>2 DEF Call, CallFits

LEMMA BeginKeepsTypes ==
  ASSUME TabTypes, NEW t \in Tabs, Begin(t)
  PROVE  TabTypes'
<1> DEFINE Others8 == /\ StoresFit' /\ UsedFits' /\ CallsFit' /\ ChangesFit' /\ RefreshesFit'
                      /\ ChannelsFit' /\ PushesFit' /\ WiresFit'
<1> PICK mode \in Modes :
    \/ /\ \E u \in Users : Start(t, Call("register", u, mode))
       /\ page' = [page EXCEPT ![t].status = "SigningIn"] /\ UNCHANGED link
    \/ /\ \E u \in Users : Start(t, Call("login", u, mode))
       /\ page' = [page EXCEPT ![t].status = "SigningIn"] /\ UNCHANGED link
    \/ /\ Start(t, Call("resume", None, mode))
       /\ page' = [page EXCEPT ![t].status = "SigningIn"] /\ UNCHANGED link
    \/ /\ Start(t, Call("logout", None, mode))
       /\ link' = [link EXCEPT ![t].token = None] /\ UNCHANGED page
  BY Zenon DEF Begin
<1>1. Others8 /\ UNCHANGED server
  <2>1. ASSUME NEW o, o \in Calls, CallFits(o), Start(t, o) PROVE Others8 /\ UNCHANGED server
    BY <2>1, StartKeepsTypes DEF Start
  <2>2. /\ \A u \in Users : /\ Call("register", u, mode) \in Calls /\ CallFits(Call("register", u, mode))
                            /\ Call("login", u, mode) \in Calls /\ CallFits(Call("login", u, mode))
        /\ Call("resume", None, mode) \in Calls /\ CallFits(Call("resume", None, mode))
        /\ Call("logout", None, mode) \in Calls /\ CallFits(Call("logout", None, mode))
    BY CallIsFit DEF Tokens
  <2> HIDE DEF Others8
  <2> QED
    BY <2>1, <2>2
<1>2. PagesFit'
  BY DEF TabTypes, PagesFit, Pages
<1>3. LinksFit' /\ \A o \in Tabs : link'[o].sock = link[o].sock
  <2>1. CASE link' = [link EXCEPT ![t].token = None]
    <3>1. /\ link' \in [Tabs -> Links] /\ link'[t].timer = link[t].timer /\ link'[t].sock = link[t].sock
          /\ link'[t].online = link[t].online /\ \A o \in Tabs : o # t => link'[o] = link[o]
      BY <2>1 DEF TabTypes, LinksFit, Links, Tokens
    <3> QED
      BY <3>1 DEF TabTypes, LinksFit, LinkFits
  <2>2. CASE UNCHANGED link
    BY <2>2 DEF TabTypes, LinksFit
  <2> QED
    BY <2>1, <2>2
<1>4. SocketsFit'
  BY <1>1, <1>3 DEF TabTypes, SocketsFit, server
<1> QED
  BY <1>1, <1>2, <1>3, <1>4 DEF TabTypes

\* What login() without a password finds.
LEMMA KnownFits ==
  ASSUME TabTypes, NEW t \in Tabs, Known(t) # None
  PROVE  Known(t).user \in Tokens /\ Known(t).token \in Users
<1>1. page[t].user \in Tokens /\ page[t].token \in Tokens
  BY DEF TabTypes, PagesFit, Pages
<1>2. local # None => local.user \in Users /\ local.token \in Users
  BY DEF TabTypes, StoresFit, Sessions
<1>3. meta # None => meta.user \in Users /\ meta.token \in Users
  BY DEF TabTypes, StoresFit, Sessions
<1>4. CASE page[t].token # None
  BY <1>1, <1>4 DEF Known, Session, Tokens
<1>5. CASE page[t].token = None /\ local # None
  BY <1>2, <1>5 DEF Known, Tokens
<1>6. CASE page[t].token = None /\ local = None
  <2>1. Known(t) = meta
    BY <1>6 DEF Known
  <2> QED
    BY <1>3, <2>1 DEF Tokens
<1> QED
  BY <1>4, <1>5, <1>6

\* A call goes on.
LEMMA GoesOnFit ==
  ASSUME CallsFit, NEW t \in Tabs, NEW o, o \in Calls, CallFits(o), op' = [op EXCEPT ![t] = o]
  PROVE  CallsFit'
BY DEF CallsFit

LEMMA NextStepFits ==
  ASSUME NEW o, CallFits(o), o # NoOp, NEW step \in {"clear", "connect", "wait", "ask", "store"},
         o.step # "clear" \/ o.kind # "resume", NEW id \in Nat
  PROVE  LET p == [o EXCEPT !.step = step, !.id = id] IN p \in Calls /\ CallFits(p)
<1>1. o \in Calls
  BY DEF CallFits
<1> DEFINE p == [o EXCEPT !.step = step, !.id = id]
<1>2. p \in Calls /\ p.kind = o.kind /\ p.name = o.name /\ p.user = o.user
  BY <1>1 DEF Calls
<1> HIDE DEF p
<1>3. CallFits(p)
  BY <1>2 DEF CallFits
<1> QED
  BY <1>2, <1>3 DEF p

LEMMA ClearKeepsTypes ==
  ASSUME TabTypes, NEW t \in Tabs, Clear(t)
  PROVE  TabTypes'
<1> DEFINE o == op[t]
<1>1. o # NoOp /\ o.step = "clear" /\ o \in Calls /\ CallFits(o)
  BY DEF TabTypes, CallsFit, Clear
<1>2. StoresFit' /\ UsedFits' /\ PushesFit'
  BY DEF TabTypes, StoresFit, UsedFits, PushesFit, Clear, pushes
<1>3. ChangesFit' /\ RefreshesFit' /\ ChannelsFit' /\ LinksFit'
  BY DEF TabTypes, ChangesFit, RefreshesFit, ChannelsFit, LinksFit, Clear
<1>4. WiresFit' /\ SocketsFit'
  BY DEF TabTypes, WiresFit, SocketsFit, Clear, server
<1>5. CallsFit' /\ PagesFit'
  <2>1. CASE o.kind # "resume"
    <3> DEFINE p == [o EXCEPT !.step = AfterClear(o.kind), !.id = o.id]
    <3>1. /\ op' = [op EXCEPT ![t].step = AfterClear(o.kind)] /\ UNCHANGED page
      BY <2>1 DEF Clear
    <3>2. op' = [op EXCEPT ![t] = p]
      <4>1. [o EXCEPT !.step = AfterClear(o.kind)] = p
        BY <1>1 DEF Calls
      <4> HIDE DEF o, p
      <4> QED
        BY <3>1, <4>1 DEF o, TabTypes, CallsFit
    <3>3. p \in Calls /\ CallFits(p)
      <4>1. AfterClear(o.kind) \in {"clear", "connect", "wait", "ask", "store"} /\ o.id \in Nat
        BY <1>1 DEF AfterClear, Calls
      <4> HIDE DEF NoOp
      <4> QED
        BY <1>1, <2>1, <4>1, NextStepFits
    <3> HIDE DEF p
    <3> QED
      BY <3>1, <3>2, <3>3, GoesOnFit DEF TabTypes, PagesFit
  <2>2. CASE o.kind = "resume" /\ Known(t) = None
    BY <1>1, <2>2, CallFailsFit DEF Clear, TabTypes
  <2>3. CASE o.kind = "resume" /\ Known(t) # None
    <3>1. /\ op' = [op EXCEPT ![t].step = "connect", ![t].name = Known(t).user, ![t].user = Known(t).token]
          /\ UNCHANGED page
      BY <2>3 DEF Clear
    <3>2. Known(t).user \in Tokens /\ Known(t).token \in Users
      BY <2>3, KnownFits
    <3> DEFINE n == Known(t).user
               k == Known(t).token
               p == [o EXCEPT !.step = "connect", !.name = n, !.user = k]
    <3> HIDE DEF n, k
    <3>3. p \in Calls /\ p.kind = "resume" /\ p.user = k
      BY <1>1, <2>3, <3>2 DEF Calls, n, k, Tokens
    <3>4. op' = [op EXCEPT ![t] = p]
      BY <3>1 DEF n, k, TabTypes, CallsFit
    <3> HIDE DEF p
    <3>5. CallFits(p)
      BY <3>2, <3>3 DEF CallFits, k
    <3> QED
      BY <3>1, <3>3, <3>4, <3>5, GoesOnFit DEF TabTypes, PagesFit
  <2> QED
    BY <2>1, <2>2, <2>3
<1> QED
  BY <1>2, <1>3, <1>4, <1>5 DEF TabTypes

LEMMA EnsureKeepsTypes ==
  ASSUME TabTypes, NEW t \in Tabs, Ensure(t)
  PROVE  TabTypes'
<1> DEFINE o == op[t]
<1>1. o # NoOp /\ o.step = "connect" /\ o \in Calls /\ CallFits(o)
  BY DEF TabTypes, CallsFit, Ensure
<1>2. CallsFit'
  <2> DEFINE p == [o EXCEPT !.step = "wait", !.id = o.id]
  <2>1. op' = [op EXCEPT ![t] = p]
    <3>1. [o EXCEPT !.step = "wait"] = p
      BY <1>1 DEF Calls
    <3> HIDE DEF o, p
    <3> QED
      BY <3>1 DEF o, TabTypes, CallsFit, Ensure
  <2>2. p \in Calls /\ CallFits(p)
    <3>1. o.id \in Nat
      BY <1>1 DEF Calls
    <3> HIDE DEF NoOp
    <3> QED
      BY <1>1, <3>1, NextStepFits
  <2> HIDE DEF p
  <2> QED
    BY <2>1, <2>2, GoesOnFit DEF TabTypes
<1>3. LinksFit' /\ SocketsFit'
  <2> DEFINE l == IF link[t].sock # "open" /\ link[t].status = "Disconnected"
                    THEN Connected(link[t], None) ELSE link[t]
  <2>1. link' = [link EXCEPT ![t] = l]
    BY DEF Ensure
  <2>2. LinkFits(link[t]) /\ None \in Tokens
    BY DEF TabTypes, LinksFit, Tokens
  <2>3. LinkFits(l) /\ (l.sock = "open" <=> link[t].sock = "open")
    BY <2>2, ConnectedFits
  <2> HIDE DEF l
  <2>4. LinksFit' /\ \A q \in Tabs : link'[q].sock = "open" <=> link[q].sock = "open"
    BY <2>1, <2>3, RelinkFits DEF TabTypes
  <2> QED
    BY <2>4 DEF TabTypes, SocketsFit, Ensure, server
<1>4. StoresFit' /\ UsedFits' /\ PagesFit' /\ ChangesFit' /\ RefreshesFit'
  BY DEF TabTypes, StoresFit, UsedFits, PagesFit, ChangesFit, RefreshesFit, Ensure, stores
<1>5. ChannelsFit' /\ PushesFit' /\ WiresFit'
  BY DEF TabTypes, ChannelsFit, PushesFit, WiresFit, Ensure, pushes, server
<1> QED
  BY <1>2, <1>3, <1>4, <1>5 DEF TabTypes

LEMMA AskKeepsTypes ==
  ASSUME TabTypes, NEW t \in Tabs, Ask(t)
  PROVE  TabTypes'
<1> DEFINE o == op[t]
           n == FreshId(t)
           msg == [kind |-> IF o.kind = "logout" THEN "Logout" ELSE "Login", id |-> n, user |-> o.user]
<1>1. o # NoOp /\ o.step = "wait" /\ o \in Calls /\ CallFits(o) /\ link[t].sock = "open"
  BY DEF TabTypes, CallsFit, Ask
<1>2. n \in Nat
  BY FreshIdIsFresh DEF TabTypes
<1>3. op' = [op EXCEPT ![t].step = "ask", ![t].id = n] /\ Say(t, msg)
  BY DEF Ask
<1> HIDE DEF n
<1>4. CallsFit'
  <2> DEFINE p == [o EXCEPT !.step = "ask", !.id = n]
  <2>1. op' = [op EXCEPT ![t] = p]
    BY <1>3 DEF TabTypes, CallsFit
  <2>2. p \in Calls /\ CallFits(p)
    <3> HIDE DEF NoOp
    <3> QED
      BY <1>1, <1>2, NextStepFits
  <2> HIDE DEF p
  <2> QED
    BY <2>1, <2>2, GoesOnFit DEF TabTypes
<1>5. msg \in Requests
  <2>1. CASE o.kind = "logout"
    BY <1>1, <1>2, <2>1 DEF Requests, Calls
  <2>2. CASE o.kind # "logout"
    <3>1. o.user \in Users
      BY <1>1, <2>2 DEF CallFits, Calls
    <3> QED
      BY <1>2, <2>2, <3>1 DEF Requests
  <2> QED
    BY <2>1, <2>2
<1> HIDE DEF msg
<1>6. WiresFit' /\ SocketsFit'
  BY <1>1, <1>3, <1>5, SayFits DEF TabTypes, Ask
<1>7. StoresFit' /\ UsedFits' /\ PagesFit' /\ ChangesFit' /\ RefreshesFit'
  BY DEF TabTypes, StoresFit, UsedFits, PagesFit, ChangesFit, RefreshesFit, Ask, stores
<1>8. ChannelsFit' /\ PushesFit' /\ LinksFit'
  BY DEF TabTypes, ChannelsFit, PushesFit, LinksFit, Ask, pushes
<1> QED
  BY <1>4, <1>6, <1>7, <1>8 DEF TabTypes

LEMMA GiveUpKeepsTypes ==
  ASSUME TabTypes, NEW t \in Tabs, GiveUp(t) \/ Timeout(t)
  PROVE  TabTypes'
<1>1. op[t] # NoOp /\ Fail(t)
  BY DEF GiveUp, Timeout
<1>2. CallsFit' /\ PagesFit'
  BY <1>1, CallFailsFit DEF TabTypes
<1>3. UNCHANGED <<stores, restoring, failing, refresh, channel, link, pushes, server, gone, heard,
                  stranded, overlapped>>
  BY DEF GiveUp, Timeout
<1>4. UsedFits' /\ StoresFit'
  <2>1. UNCHANGED used \/ Trouble
    BY DEF GiveUp, Timeout
  <2> QED
    BY <1>3, <2>1, UsedStaysFit DEF TabTypes, UsedFits, StoresFit, Trouble, stores
<1>5. ChangesFit' /\ RefreshesFit' /\ ChannelsFit'
  BY <1>3 DEF TabTypes, ChangesFit, RefreshesFit, ChannelsFit
<1>6. LinksFit' /\ PushesFit' /\ WiresFit' /\ SocketsFit'
  BY <1>3 DEF TabTypes, LinksFit, PushesFit, WiresFit, SocketsFit, pushes, server
<1> QED
  BY <1>2, <1>4, <1>5, <1>6 DEF TabTypes

LEMMA StoreKeepsTypes ==
  ASSUME TabTypes, NEW t \in Tabs, Store(t)
  PROVE  TabTypes'
<1> DEFINE o == op[t]
           kept == IF o.kind # "logout" /\ o.mode.remember THEN Session(o.user, o.user) ELSE None
<1>1. o # NoOp /\ o.step = "store" /\ o \in Calls /\ CallFits(o)
  BY DEF TabTypes, CallsFit, Store
<1>2. o.kind # "logout" => o.user \in Users
  BY <1>1 DEF CallFits, Calls
<1>3. StoresFit'
  <2>1. o.kind # "resume" => kept \in Sessions \cup {None}
    BY <1>2 DEF Session, Sessions
  <2>2. IF o.kind = "resume" THEN UNCHANGED <<meta, local>> ELSE meta' = kept /\ local' = kept
    BY DEF Store
  <2> HIDE DEF kept, o
  <2> QED
    BY <2>1, <2>2 DEF TabTypes, StoresFit, Store
<1>4. Settled
  <2>1. PagesFit /\ LinksFit /\ ChannelsFit /\ heard \in [Tabs -> BOOLEAN]
    BY DEF TabTypes, ChangesFit
  <2>2. CASE o.kind = "logout"
    BY <2>1, <2>2, SignedOutFits DEF Store
  <2>3. CASE o.kind # "logout"
    <3>1. o.name \in Tokens /\ o.user \in Users /\ BecomeSignedIn(t, o.name, o.user)
      BY <1>1, <1>2, <2>3 DEF Calls, Store
    <3> HIDE DEF o
    <3> QED
      BY <2>1, <3>1, SignedInFits
  <2> QED
    BY <2>2, <2>3
<1>5. CallsFit'
  <2> HIDE DEF NoOp
  <2> QED
    BY DEF TabTypes, CallsFit, CallFits, Store
<1>6. ChangesFit' /\ SocketsFit'
  BY <1>4 DEF TabTypes, ChangesFit, SocketsFit, Settled, Store, server
<1>7. UsedFits' /\ RefreshesFit' /\ PushesFit' /\ WiresFit'
  BY DEF TabTypes, UsedFits, RefreshesFit, PushesFit, WiresFit, Store, pushes, server
<1> QED
  BY <1>3, <1>4, <1>5, <1>6, <1>7 DEF TabTypes, Settled

LEMMA RestoreKeepsTypes ==
  ASSUME TabTypes, NEW t \in Tabs, Restore(t)
  PROVE  TabTypes'
<1>1. Settled
  <2>1. PagesFit /\ LinksFit /\ ChannelsFit /\ heard \in [Tabs -> BOOLEAN]
    BY DEF TabTypes, ChangesFit
  <2>2. CASE meta = None
    BY <2>1, <2>2 DEF Restore, Settled, PagesFit, LinksFit, ChannelsFit
  <2>3. CASE meta # None
    <3>1. meta.user \in Tokens /\ meta.token \in Users /\ BecomeSignedIn(t, meta.user, meta.token)
      BY <2>3 DEF TabTypes, StoresFit, Sessions, Tokens, Restore
    <3> QED
      BY <2>1, <3>1, SignedInFits
  <2> QED
    BY <2>2, <2>3
<1>2. ChangesFit' /\ SocketsFit'
  BY <1>1 DEF TabTypes, ChangesFit, SocketsFit, Settled, Restore, server
<1>3. StoresFit' /\ UsedFits' /\ CallsFit' /\ RefreshesFit'
  BY DEF TabTypes, StoresFit, UsedFits, CallsFit, RefreshesFit, Restore, stores
<1>4. PushesFit' /\ WiresFit'
  BY DEF TabTypes, PushesFit, WiresFit, Restore, pushes, server
<1> QED
  BY <1>1, <1>2, <1>3, <1>4 DEF TabTypes, Settled

LEMMA FailedKeepsTypes ==
  ASSUME TabTypes, NEW t \in Tabs, Failed(t)
  PROVE  TabTypes'
<1>1. Settled
  BY SignedOutFits DEF TabTypes, ChangesFit, Failed
<1>2. ChangesFit' /\ SocketsFit'
  BY <1>1 DEF TabTypes, ChangesFit, SocketsFit, Settled, Failed, server
<1>3. StoresFit' /\ UsedFits' /\ CallsFit' /\ RefreshesFit'
  BY DEF TabTypes, StoresFit, UsedFits, CallsFit, RefreshesFit, Failed
<1>4. PushesFit' /\ WiresFit'
  BY DEF TabTypes, PushesFit, WiresFit, Failed, pushes, server
<1> QED
  BY <1>1, <1>2, <1>3, <1>4 DEF TabTypes, Settled

LEMMA RefreshKeepsTypes ==
  ASSUME TabTypes, NEW t \in Tabs, RefreshRead(t) \/ RefreshWrite(t)
  PROVE  TabTypes'
<1>1. UNCHANGED <<outbox, page, op, restoring, failing, channel, link, pushes, server,
                  gone, heard, stranded, overlapped, used>>
  BY DEF RefreshRead, RefreshWrite, stores
<1>2. StoresFit' /\ RefreshesFit'
  <2>1. CASE RefreshRead(t)
    <3>1. PICK r \in refresh[t] :
             /\ refresh' = [refresh EXCEPT ![t] = (refresh[t] \ {r}) \cup
                  (IF meta = None THEN {} ELSE {[token |-> r.token, read |-> TRUE, user |-> meta.user]})]
             /\ UNCHANGED stores
      BY <2>1 DEF RefreshRead
    <3>2. r \in Refreshes /\ (meta # None => meta.user \in Users)
      BY DEF TabTypes, RefreshesFit, StoresFit, Sessions
    <3> DEFINE more == IF meta = None THEN {} ELSE {[token |-> r.token, read |-> TRUE, user |-> meta.user]}
    <3>3. more \subseteq Refreshes /\ \A x \in more : x.user \in Users
      <4>1. CASE meta = None
        BY <4>1
      <4>2. CASE meta # None
        <5>1. [token |-> r.token, read |-> TRUE, user |-> meta.user] \in Refreshes
          BY <3>2, <4>2 DEF Refreshes, Tokens
        <5> QED
          BY <3>2, <4>2, <5>1
      <4> QED
        BY <4>1, <4>2
    <3>4. refresh' = [refresh EXCEPT ![t] = (refresh[t] \ {r}) \cup more] /\ UNCHANGED stores
      BY <3>1
    <3> HIDE DEF more
    <3>5. RefreshesFit'
      BY <3>3, <3>4 DEF TabTypes, RefreshesFit
    <3>6. StoresFit'
      BY <1>1, <3>4 DEF TabTypes, StoresFit, stores
    <3> QED
      BY <3>5, <3>6
  <2>2. CASE RefreshWrite(t)
    <3>1. PICK r \in refresh[t] :
             /\ r.read
             /\ refresh' = [refresh EXCEPT ![t] = refresh[t] \ {r}]
             /\ meta' = Session(r.user, r.token)
             /\ local' = IF local = None THEN None ELSE Session(r.user, r.token)
      BY <2>2 DEF RefreshWrite
    <3>2. Session(r.user, r.token) \in Sessions
      BY <3>1 DEF TabTypes, RefreshesFit, Refreshes, Session, Sessions
    <3>3. StoresFit'
      <4> HIDE DEF Session
      <4> QED
        BY <1>1, <3>1, <3>2 DEF TabTypes, StoresFit
    <3>4. RefreshesFit'
      BY <3>1 DEF TabTypes, RefreshesFit
    <3> QED
      BY <3>3, <3>4
  <2> QED
    BY <2>1, <2>2
<1>3. UsedFits' /\ PagesFit' /\ CallsFit' /\ ChangesFit' /\ ChannelsFit' /\ LinksFit'
  BY <1>1 DEF TabTypes, UsedFits, PagesFit, CallsFit, ChangesFit, ChannelsFit, LinksFit
<1>4. PushesFit' /\ WiresFit' /\ SocketsFit'
  BY <1>1 DEF TabTypes, PushesFit, WiresFit, SocketsFit, pushes, server
<1> QED
  BY <1>2, <1>3, <1>4 DEF TabTypes

LEMMA ToldFits ==
  ASSUME NEW l, LinkFits(l), NEW changed \in BOOLEAN, NEW tok \in Tokens
  PROVE  LinkFits(Told(l, changed, tok)) /\ (Told(l, changed, tok).sock = "open" <=> l.sock = "open")
<1>1. /\ LinkFits(Connected(l, tok)) /\ (Connected(l, tok).sock = "open" <=> l.sock = "open")
  BY ConnectedFits
<1>2. /\ LinkFits(Connected(Connected(l, tok), tok))
      /\ Connected(Connected(l, tok), tok).sock = "open" <=> Connected(l, tok).sock = "open"
  BY <1>1, ConnectedFits
<1> QED
  BY <1>1, <1>2 DEF Told

LEMMA ReceiveKeepsTypes ==
  ASSUME TabTypes, NEW t \in Tabs, Receive(t)
  PROVE  TabTypes'
<1> DEFINE msg == Head(channel[t])
<1>1. msg \in Sessions \cup {None} /\ ChannelsFit'
  <2>1. channel[t] # << >> /\ channel[t] \in Seq(Sessions \cup {None})
    BY DEF TabTypes, ChannelsFit, Receive
  <2>2. msg \in Sessions \cup {None} /\ Tail(channel[t]) \in Seq(Sessions \cup {None})
    BY <2>1
  <2> QED
    BY <2>2 DEF TabTypes, ChannelsFit, Receive
<1>2. /\ PagesFit'
      /\ LinksFit' /\ \A q \in Tabs : link'[q].sock = "open" <=> link[q].sock = "open"
  <2>1. LinkFits(link[t])
    BY DEF TabTypes, LinksFit
  <2>2. CASE msg = None
    <3> DEFINE l == Told(link[t], page[t].status # "SignedOut", None)
    <3>1. page' = [page EXCEPT ![t] = SignedOut] /\ link' = [link EXCEPT ![t] = l]
      BY <2>2 DEF Receive
    <3>2. SignedOut \in Pages
      BY DEF SignedOut, Pages, Tokens
    <3>3. LinkFits(l) /\ (l.sock = "open" <=> link[t].sock = "open")
      BY <2>1, ToldFits DEF Tokens
    <3> HIDE DEF l
    <3> QED
      BY <3>1, <3>2, <3>3, RelinkFits DEF TabTypes, PagesFit
  <2>3. CASE msg # None
    <3> DEFINE l == Told(link[t], page[t].status # "SignedIn", msg.token)
    <3>1. page' = [page EXCEPT ![t] = SignedIn(msg.user, msg.token)] /\ link' = [link EXCEPT ![t] = l]
      BY <2>3 DEF Receive
    <3>2. msg.user \in Users /\ msg.token \in Users
      BY <1>1, <2>3 DEF Sessions
    <3>3. SignedIn(msg.user, msg.token) \in Pages
      BY <3>2 DEF SignedIn, Pages, Tokens
    <3>4. LinkFits(l) /\ (l.sock = "open" <=> link[t].sock = "open")
      BY <2>1, <3>2, ToldFits DEF Tokens
    <3> HIDE DEF l
    <3> QED
      BY <3>1, <3>3, <3>4, RelinkFits DEF TabTypes, PagesFit
  <2> QED
    BY <2>2, <2>3
<1>3. ChangesFit' /\ SocketsFit'
  BY <1>2 DEF TabTypes, ChangesFit, SocketsFit, Receive, server
<1>4. StoresFit' /\ UsedFits' /\ CallsFit' /\ RefreshesFit'
  BY DEF TabTypes, StoresFit, UsedFits, CallsFit, RefreshesFit, Receive, stores
<1>5. PushesFit' /\ WiresFit'
  BY DEF TabTypes, PushesFit, WiresFit, Receive, pushes, server
<1> QED
  BY <1>1, <1>2, <1>3, <1>4, <1>5 DEF TabTypes

LEMMA OneMoreWrite ==
  ASSUME NEW n \in Nat, NEW S, S \subseteq 1 .. n
  PROVE  S \cup {n + 1} \subseteq 1 .. (n + 1)
OBVIOUS

LEMMA WriteKeepsTypes ==
  ASSUME TabTypes, NEW t \in Tabs, Write(t)
  PROVE  TabTypes'
<1>1. UsedFits' /\ used'.writes = used.writes + 1 /\ used.writes \in Nat
  BY UsedStaysFit DEF TabTypes, UsedFits, Write
<1>2. StoresFit'
  <2>1. meta' = meta /\ local' = local /\ outbox' = outbox \cup {used.writes + 1}
    BY DEF Write
  <2>2. outbox \subseteq 1 .. used.writes
    BY DEF TabTypes, StoresFit
  <2>3. outbox' \subseteq 1 .. used'.writes
    <3>1. outbox \cup {used.writes + 1} \subseteq 1 .. (used.writes + 1)
      BY <1>1, <2>2, OneMoreWrite
    <3> QED
      BY <1>1, <2>1, <3>1, Zenon
  <2> QED
    BY <2>1, <2>3 DEF TabTypes, StoresFit
<1>3. PagesFit' /\ CallsFit' /\ ChangesFit' /\ RefreshesFit' /\ ChannelsFit' /\ LinksFit'
  BY DEF TabTypes, PagesFit, CallsFit, ChangesFit, RefreshesFit, ChannelsFit, LinksFit, Write
<1>4. PushesFit' /\ WiresFit' /\ SocketsFit'
  BY DEF TabTypes, PushesFit, WiresFit, SocketsFit, Write, pushes, server
<1> QED
  BY <1>1, <1>2, <1>3, <1>4 DEF TabTypes

LEMMA PushReadKeepsTypes ==
  ASSUME TabTypes, NEW t \in Tabs, PushRead(t)
  PROVE  TabTypes'
<1>1. Pushable(t) \in (SUBSET Nat) \ {{}}
  <2>1. outbox \subseteq Nat
    <3>1. used.writes \in Nat
      BY DEF TabTypes, UsedFits
    <3>2. outbox \subseteq 1 .. used.writes
      BY DEF TabTypes, StoresFit
    <3> QED
      BY <3>1, <3>2
  <2>2. Pushable(t) \subseteq Nat
    BY <2>1 DEF Pushable
  <2>3. Pushable(t) # {}
    BY DEF PushRead
  <2> QED
    BY <2>2, <2>3
<1>2. PushesFit'
  <2>1. pushing' = [pushing EXCEPT ![t] = Pushable(t)] /\ UNCHANGED <<pending, removing, gone>>
    BY DEF PushRead
  <2> QED
    BY <1>1, <2>1 DEF TabTypes, PushesFit
<1>3. StoresFit' /\ UsedFits' /\ PagesFit' /\ CallsFit' /\ ChangesFit' /\ RefreshesFit' /\ ChannelsFit'
  BY DEF TabTypes, StoresFit, UsedFits, PagesFit, CallsFit, ChangesFit, RefreshesFit, ChannelsFit,
         PushRead, stores
<1>4. LinksFit' /\ WiresFit' /\ SocketsFit'
  BY DEF TabTypes, LinksFit, WiresFit, SocketsFit, PushRead, server
<1> QED
  BY <1>2, <1>3, <1>4 DEF TabTypes

LEMMA PushSendKeepsTypes ==
  ASSUME TabTypes, NEW t \in Tabs, PushSend(t)
  PROVE  TabTypes'
<1> DEFINE n == FreshId(t)
<1>1. n \in Nat \ {0}
  BY FreshIdIsFresh DEF TabTypes
<1>2. /\ pushing[t] \in SUBSET Nat
      /\ pushing' = [pushing EXCEPT ![t] = None] /\ UNCHANGED <<removing, gone, down, late, session, link>>
      /\ \/ /\ link[t].sock = "open"
            /\ pending' = [pending EXCEPT ![t] = [id |-> n, ids |-> pushing[t]]]
            /\ Say(t, [kind |-> "Batch", id |-> n, ids |-> pushing[t]])
            /\ stranded' = [stranded EXCEPT ![t] = FALSE]
         \/ UNCHANGED <<pending, up, stranded>>
  BY DEF TabTypes, PushesFit, PushSend
<1> HIDE DEF n
<1>3. PushesFit'
  <2>1. [id |-> n, ids |-> pushing[t]] \in Batches
    BY <1>1, <1>2 DEF Batches
  <2> QED
    BY <1>2, <2>1 DEF TabTypes, PushesFit
<1>4. WiresFit' /\ SocketsFit'
  <2>1. [kind |-> "Batch", id |-> n, ids |-> pushing[t]] \in Requests
    BY <1>1, <1>2 DEF Requests
  <2>2. CASE UNCHANGED up
    BY <1>2, <2>2 DEF TabTypes, WiresFit, SocketsFit
  <2>3. CASE link[t].sock = "open" /\ Say(t, [kind |-> "Batch", id |-> n, ids |-> pushing[t]])
    BY <1>2, <2>1, <2>3, SayFits DEF TabTypes
  <2> QED
    BY <1>2, <2>2, <2>3
<1>5. ChangesFit'
  BY <1>2 DEF TabTypes, ChangesFit, PushSend
<1>6. StoresFit' /\ UsedFits' /\ PagesFit' /\ CallsFit' /\ RefreshesFit' /\ ChannelsFit' /\ LinksFit'
  BY DEF TabTypes, StoresFit, UsedFits, PagesFit, CallsFit, RefreshesFit, ChannelsFit, LinksFit,
         PushSend, stores
<1> QED
  BY <1>3, <1>4, <1>5, <1>6 DEF TabTypes

LEMMA RemoveKeepsTypes ==
  ASSUME TabTypes, NEW t \in Tabs, Remove(t)
  PROVE  TabTypes'
<1>1. StoresFit' /\ UsedFits' /\ PushesFit'
  BY DEF TabTypes, StoresFit, UsedFits, PushesFit, Remove, LeftAfter
<1>2. PagesFit' /\ CallsFit' /\ ChangesFit' /\ RefreshesFit' /\ ChannelsFit' /\ LinksFit'
  BY DEF TabTypes, PagesFit, CallsFit, ChangesFit, RefreshesFit, ChannelsFit, LinksFit, Remove
<1>3. WiresFit' /\ SocketsFit'
  BY DEF TabTypes, WiresFit, SocketsFit, Remove, server
<1> QED
  BY <1>1, <1>2, <1>3 DEF TabTypes

\* The socket after a message has been handled.
HungUpOnError(t, m) ==
  /\ \A o \in Tabs : o # t => link'[o].sock = link[o].sock
  /\ IF m.kind = "AuthError" THEN link'[t].sock = "none" ELSE link'[t].sock = link[t].sock

HandledFit(t, m) ==
  /\ PagesFit' /\ CallsFit' /\ ChangesFit' /\ RefreshesFit' /\ LinksFit' /\ PushesFit'
  /\ HungUpOnError(t, m)

LEMMA SuccessFits ==
  ASSUME TabTypes, NEW t \in Tabs, NEW m \in Answers, m.kind = "AuthSuccess", OnAuthSuccess(t, m),
         UNCHANGED <<restoring, heard, pushing, gone>>
  PROVE  HandledFit(t, m)
<1> DEFINE tok == IF m.user = Guest THEN None ELSE m.user
           answered == op[t] # NoOp /\ op[t].step = "ask" /\ op[t].id = m.id
           shown == IF tok = None THEN page[t] ELSE [page[t] EXCEPT !.token = tok]
<1>1. tok \in Tokens /\ (tok # None => tok \in Users)
  BY DEF Answers, Tokens
<1>2. /\ link' = [link EXCEPT ![t].status = "Connected", ![t].access = IF tok = None THEN "guest" ELSE "user",
                              ![t].token = IF tok = None THEN @ ELSE tok]
      /\ refresh' = [refresh EXCEPT ![t] =
           IF tok = None THEN @ ELSE @ \cup {[token |-> tok, read |-> FALSE, user |-> None]}]
      /\ op' = IF answered THEN [op EXCEPT ![t].step = AfterAnswer(op[t].kind)] ELSE op
      /\ page' = [page EXCEPT ![t] =
           CASE ~answered \/ op[t].kind \in {"login", "resume"} -> shown
             [] answered /\ op[t].kind = "register" -> [shown EXCEPT !.user = op[t].user, !.token = op[t].user]
             [] answered /\ op[t].kind = "logout" -> [shown EXCEPT !.user = None, !.token = None]]
      /\ UNCHANGED <<failing, pending, removing, stranded, overlapped>>
  BY DEF OnAuthSuccess
<1>3. op[t] # NoOp => op[t] \in Calls /\ CallFits(op[t])
  BY DEF TabTypes, CallsFit
<1> HIDE DEF tok
<1>4. shown \in Pages
  BY <1>1 DEF TabTypes, PagesFit, Pages
<1> HIDE DEF shown
<1>5. PagesFit'
  <2> DEFINE p == CASE ~answered \/ op[t].kind \in {"login", "resume"} -> shown
             [] answered /\ op[t].kind = "register" -> [shown EXCEPT !.user = op[t].user, !.token = op[t].user]
             [] answered /\ op[t].kind = "logout" -> [shown EXCEPT !.user = None, !.token = None]
  <2>1. p \in Pages
    <3>1. CASE ~answered \/ op[t].kind \in {"login", "resume"}
      <4>1. p = shown
        BY <3>1
      <4> QED
        BY <1>4, <4>1
    <3>2. CASE answered /\ op[t].kind = "register"
      <4>1. p = [shown EXCEPT !.user = op[t].user, !.token = op[t].user] /\ op[t].user \in Tokens
        BY <1>3, <3>2 DEF Calls
      <4> QED
        BY <1>4, <4>1 DEF Pages
    <3>3. CASE answered /\ op[t].kind = "logout"
      <4>1. p = [shown EXCEPT !.user = None, !.token = None]
        BY <3>3
      <4> HIDE DEF p, answered
      <4> QED
        BY <1>4, <4>1 DEF Pages, Tokens
    <3>4. answered => op[t].kind \in {"register", "login", "resume", "logout"}
      BY <1>3 DEF Calls
    <3> HIDE DEF answered, p
    <3> QED
      BY <3>1, <3>2, <3>3, <3>4
  <2>2. page' = [page EXCEPT ![t] = p]
    BY <1>2
  <2> HIDE DEF p
  <2> QED
    BY <2>1, <2>2 DEF TabTypes, PagesFit
<1>6. CallsFit'
  <2>1. CASE answered
    <3> DEFINE o == op[t]
               q == [o EXCEPT !.step = AfterAnswer(o.kind), !.id = o.id]
    <3>1. o # NoOp /\ o \in Calls /\ CallFits(o) /\ o.step = "ask" /\ o.id \in Nat
      BY <1>3, <2>1 DEF Calls
    <3>2. [o EXCEPT !.step = AfterAnswer(o.kind)] = q
      BY <3>1 DEF Calls
    <3>3. op' = [op EXCEPT ![t] = q]
      <4> HIDE DEF o, q
      <4> QED
        BY <1>2, <2>1, <3>2 DEF o, TabTypes, CallsFit
    <3>4. q \in Calls /\ CallFits(q)
      <4>1. AfterAnswer(o.kind) \in {"clear", "connect", "wait", "ask", "store"}
        BY DEF AfterAnswer
      <4> HIDE DEF NoOp
      <4> QED
        BY <3>1, <4>1, NextStepFits
    <3> HIDE DEF q
    <3> QED
      BY <3>3, <3>4, GoesOnFit DEF TabTypes
  <2>2. CASE ~answered
    BY <1>2, <2>2 DEF TabTypes, CallsFit
  <2> QED
    BY <2>1, <2>2
<1>7. LinksFit' /\ \A o \in Tabs : link'[o].sock = link[o].sock
  <2> DEFINE acc == IF tok = None THEN "guest" ELSE "user"
             new == IF tok = None THEN link[t].token ELSE tok
             l == [link[t] EXCEPT !.status = "Connected", !.access = acc, !.token = new]
  <2>1. link[t] \in Links /\ acc \in {None, "guest", "user"} /\ new \in Tokens
    BY <1>1 DEF TabTypes, LinksFit, Links
  <2>2. link' = [link EXCEPT ![t] = l]
    BY <1>2 DEF TabTypes, LinksFit
  <2> HIDE DEF acc, new
  <2>3. l \in Links /\ l.timer = link[t].timer /\ l.sock = link[t].sock /\ l.online = link[t].online
    BY <2>1 DEF Links
  <2> HIDE DEF l
  <2> QED
    BY <2>2, <2>3 DEF TabTypes, LinksFit, LinkFits
<1>8. RefreshesFit'
  <2> DEFINE r == [token |-> tok, read |-> FALSE, user |-> None]
  <2>1. tok # None => r \in Refreshes /\ r.read = FALSE
    BY <1>1 DEF Refreshes, Tokens
  <2>2. refresh' = [refresh EXCEPT ![t] = IF tok = None THEN refresh[t] ELSE refresh[t] \cup {r}]
    BY <1>2
  <2> HIDE DEF r
  <2> QED
    BY <2>1, <2>2 DEF TabTypes, RefreshesFit
<1>9. ChangesFit' /\ PushesFit'
  BY <1>2 DEF TabTypes, ChangesFit, PushesFit
<1> QED
  BY <1>5, <1>6, <1>7, <1>8, <1>9 DEF HandledFit, HungUpOnError

LEMMA AuthErrorFits ==
  ASSUME TabTypes, NEW t \in Tabs, NEW m \in Answers, m.kind = "AuthError", OnAuthError(t),
         UNCHANGED <<restoring, heard, pushing, gone>>
  PROVE  HandledFit(t, m)
<1> DEFINE waits == op[t] # NoOp /\ op[t].step = "ask"
           left == IF waits THEN StatusAfterFailure(op[t], page[t]) ELSE page[t]
<1>1. /\ op' = IF waits THEN [op EXCEPT ![t] = AfterFailure(t, op[t])] ELSE op
      /\ page' = [page EXCEPT ![t] = [left EXCEPT !.user = None, !.token = None]]
      /\ overlapped' = (overlapped \/ Others(t) \/ failing[t] \/ restoring[t] \/ (op[t] # NoOp /\ ~waits))
  BY DEF OnAuthError
<1>2. CallsFit' /\ PagesFit'
  <2>1. CASE waits
    <3>1. AfterFailure(t, op[t]) \in Calls \cup {NoOp} /\ CallFits(AfterFailure(t, op[t]))
      <4>1. op[t] \in Calls /\ CallFits(op[t])
        BY <2>1 DEF TabTypes, CallsFit
      <4>2. CASE op[t].kind = "logout"
        <5>1. AfterFailure(t, op[t]) = [op[t] EXCEPT !.step = "clear"]
          BY <4>2 DEF AfterFailure
        <5> QED
          BY <4>1, <4>2, <5>1 DEF CallFits, Calls
      <4>3. CASE op[t].kind # "logout"
        BY <4>3 DEF AfterFailure, CallFits
      <4> QED
        BY <4>2, <4>3
    <3>2. left \in Pages
      BY <2>1 DEF StatusAfterFailure, Pages, Tokens, TabTypes, PagesFit
    <3> DEFINE n == AfterFailure(t, op[t])
    <3>3. op' = [op EXCEPT ![t] = n]
      BY <1>1, <2>1
    <3> HIDE DEF n, NoOp, left
    <3>4. CallsFit'
      BY <3>1, <3>3 DEF TabTypes, CallsFit, n
    <3>5. PagesFit'
      BY <1>1, <3>2 DEF TabTypes, PagesFit, Pages, Tokens
    <3> QED
      BY <3>4, <3>5
  <2>2. CASE ~waits
    <3>1. left = page[t] /\ op' = op
      BY <1>1, <2>2
    <3> HIDE DEF left
    <3> QED
      BY <1>1, <3>1 DEF TabTypes, CallsFit, PagesFit, Pages, Tokens
  <2> QED
    BY <2>1, <2>2
<1>3. LinksFit' /\ HungUpOnError(t, m)
  <2> DEFINE off == Disconnected(link[t])
             l == [off EXCEPT !.access = None]
  <2>1. off \in Links /\ off.sock = "none" /\ off.timer = FALSE
    BY DisconnectedFits DEF TabTypes, LinksFit
  <2>2. link' = [link EXCEPT ![t] = l]
    BY DEF OnAuthError
  <2> HIDE DEF off
  <2>3. l \in Links /\ ~l.timer /\ l.sock = "none"
    BY <2>1 DEF Links
  <2> HIDE DEF l
  <2> QED
    BY <2>2, <2>3 DEF TabTypes, LinksFit, LinkFits, HungUpOnError
<1>4. PushesFit' /\ RefreshesFit'
  BY DEF TabTypes, PushesFit, RefreshesFit, OnAuthError, BatchAfterClose
<1>5. ChangesFit'
  BY <1>1 DEF TabTypes, ChangesFit, OnAuthError, Others
<1> QED
  BY <1>2, <1>3, <1>4, <1>5 DEF HandledFit

LEMMA HandledIsFit ==
  ASSUME TabTypes, NEW t \in Tabs, NEW m \in Answers, On(t, m), UNCHANGED <<restoring, heard, pushing, gone>>
  PROVE  HandledFit(t, m)
<1>1. CASE m.kind = "AuthSuccess" /\ OnAuthSuccess(t, m)
  BY <1>1, SuccessFits
<1>2. CASE m.kind = "AuthError" /\ OnAuthError(t)
  BY <1>2, AuthErrorFits
<1>3. CASE m.kind = "Ack" /\ OnAck(t, m)
  <2>1. pending[t] # None => pending[t].ids \in SUBSET Nat
    BY DEF TabTypes, PushesFit, Batches
  <2>2. PushesFit'
    BY <1>3, <2>1 DEF TabTypes, PushesFit, OnAck
  <2>3. PagesFit' /\ CallsFit' /\ ChangesFit' /\ RefreshesFit' /\ LinksFit' /\ link' = link
    BY <1>3 DEF TabTypes, PagesFit, CallsFit, ChangesFit, RefreshesFit, LinksFit, OnAck
  <2> QED
    BY <1>3, <2>2, <2>3 DEF HandledFit, HungUpOnError
<1>4. CASE m.kind = "Error" /\ OnError(t, m)
  <2>1. PushesFit'
    BY <1>4 DEF TabTypes, PushesFit, OnError
  <2>2. PagesFit' /\ CallsFit' /\ ChangesFit' /\ RefreshesFit' /\ LinksFit' /\ link' = link
    BY <1>4 DEF TabTypes, PagesFit, CallsFit, ChangesFit, RefreshesFit, LinksFit, OnError
  <2> QED
    BY <1>4, <2>1, <2>2 DEF HandledFit, HungUpOnError
<1> QED
  BY <1>1, <1>2, <1>3, <1>4 DEF On

LEMMA HearKeepsTypes ==
  ASSUME TabTypes, NEW t \in Tabs, Hear(t) \/ HearLate(t)
  PROVE  TabTypes'
<1>1. PICK m \in Answers :
        /\ On(t, m)
        /\ IF m.kind = "AuthError"
             THEN /\ up' = [up EXCEPT ![t] = << >>]
                  /\ session' = [session EXCEPT ![t] = None]
                  /\ down' = [down EXCEPT ![t] = << >>]
             ELSE /\ down' = [down EXCEPT ![t] = Tail(down[t])] \/ down' = down
                  /\ down[t] = << >> => down' = down
                  /\ UNCHANGED <<up, session>>
  <2>1. CASE Hear(t)
    <3>1. Head(down[t]) \in Answers
      BY <2>1 DEF TabTypes, WiresFit, Hear
    <3> QED
      BY <2>1, <3>1 DEF Hear
  <2>2. CASE HearLate(t)
    <3>1. Head(late[t]) \in Answers
      BY <2>2 DEF TabTypes, WiresFit, HearLate
    <3> QED
      BY <2>2, <3>1 DEF HearLate
  <2> QED
    BY <2>1, <2>2
<1>2. UNCHANGED <<stores, restoring, channel, pushing, gone, heard, used>>
  BY DEF Hear, HearLate
<1>3. HandledFit(t, m)
  BY <1>1, <1>2, HandledIsFit
<1>4. late' \in [Tabs -> Seq(Answers)]
  <2>1. late[t] \in Seq(Answers) /\ down[t] \in Seq(Answers)
    BY DEF TabTypes, WiresFit
  <2>2. \/ late' = late
        \/ late[t] # << >> /\ late' = [late EXCEPT ![t] = Tail(late[t])]
        \/ \E a \in {1, 2}, n \in 0 .. Len(down[t]) :
             late' = [late EXCEPT ![t] = late[t] \o SubSeq(down[t], a, n)]
        \/ \E n \in 0 .. Len(down[t]) :
             late[t] # << >> /\ late' = [late EXCEPT ![t] = Tail(late[t]) \o SubSeq(down[t], 1, n)]
    <3>1. CASE Hear(t)
      <4>1. \A n \in 1 .. Len(down[t]) : n \in 0 .. Len(down[t])
        BY <2>1
      <4>2. CASE Head(down[t]).kind = "AuthError"
        <5>1. PICK n \in 1 .. Len(down[t]) : late' = [late EXCEPT ![t] = late[t] \o SubSeq(down[t], 2, n)]
          BY <3>1, <4>2 DEF Hear
        <5> QED
          BY <4>1, <5>1, Zenon
      <4>3. CASE Head(down[t]).kind # "AuthError"
        BY <3>1, <4>3 DEF Hear
      <4> QED
        BY <4>2, <4>3
    <3>2. CASE HearLate(t)
      BY <3>2 DEF HearLate
    <3> QED
      BY <3>1, <3>2
  <2>3. \A a \in {1, 2}, n \in 0 .. Len(down[t]) : SubSeq(down[t], a, n) \in Seq(Answers)
    BY <2>1, SubSeqProperties
  <2>4. late[t] # << >> => Tail(late[t]) \in Seq(Answers)
    BY <2>1
  <2>5. \A p, q \in Seq(Answers) : p \o q \in Seq(Answers)
    BY ConcatProperties
  <2>6. \A x \in Seq(Answers) : [late EXCEPT ![t] = x] \in [Tabs -> Seq(Answers)]
    BY DEF TabTypes, WiresFit
  <2>7. late \in [Tabs -> Seq(Answers)]
    BY DEF TabTypes, WiresFit
  <2> QED
    BY <2>1, <2>2, <2>3, <2>4, <2>5, <2>6, <2>7
<1>5. WiresFit' /\ SocketsFit'
  <2>1. CASE m.kind = "AuthError"
    <3>1. /\ up' = [up EXCEPT ![t] = << >>]
          /\ session' = [session EXCEPT ![t] = None]
          /\ down' = [down EXCEPT ![t] = << >>]
      BY <1>1, <2>1
    <3>2. WiresFit'
      BY <1>4, <3>1 DEF TabTypes, WiresFit
    <3>3. SocketsFit'
      BY <1>3, <2>1, <3>1 DEF TabTypes, SocketsFit, WiresFit, HandledFit, HungUpOnError
    <3> QED
      BY <3>2, <3>3
  <2>2. CASE m.kind # "AuthError"
    <3>1. /\ down' = [down EXCEPT ![t] = Tail(down[t])] \/ down' = down
          /\ down[t] = << >> => down' = down
          /\ UNCHANGED <<up, session>>
      BY <1>1, <2>2
    <3>2. down[t] # << >> => Tail(down[t]) \in Seq(Answers)
      BY DEF TabTypes, WiresFit
    <3>3. down' \in [Tabs -> Seq(Answers)] /\ \A o \in Tabs : o # t => down'[o] = down[o]
      BY <3>1, <3>2 DEF TabTypes, WiresFit
    <3>4. WiresFit'
      BY <1>4, <3>1, <3>3 DEF TabTypes, WiresFit
    <3>5. SocketsFit'
      BY <1>3, <2>2, <3>1, <3>3 DEF TabTypes, SocketsFit, HandledFit, HungUpOnError
    <3> QED
      BY <3>4, <3>5
  <2> QED
    BY <2>1, <2>2
<1>6. StoresFit' /\ UsedFits' /\ ChannelsFit'
  BY <1>2 DEF TabTypes, StoresFit, UsedFits, ChannelsFit, stores
<1> QED
  BY <1>3, <1>5, <1>6 DEF TabTypes, HandledFit

\* What the server does with a request.
LEMMA ServeFits ==
  ASSUME TabTypes, NEW t \in Tabs, Serve(t)
  PROVE  \E m \in Requests, a \in Answers :
           /\ m = Head(up[t]) /\ up[t] # << >> /\ up[t] \in Seq(Requests)
           /\ Answer(t, a)
           /\ \/ up' = [up EXCEPT ![t] = Tail(up[t])]
              \/ up' = [up EXCEPT ![t] = << >>] /\ a = AuthError(0)
           /\ \E u \in Users \cup {Guest, None} : session' = [session EXCEPT ![t] = u]
           /\ UNCHANGED used \/ Trouble
           /\ m.kind = "Batch" => ServeBatch(t, m)
           /\ m.kind # "Batch" => (UNCHANGED gone /\ a \in {Success(0, u) : u \in Users \cup {Guest}}
                                     \cup {Success(m.id, u) : u \in Users \cup {Guest}}
                                     \cup {AuthError(0), AuthError(m.id), ServerError(0)})
           /\ m.kind = "Batch" =>
                /\ a \in {AuthError(0), ServerError(m.id), ServerError(0), [kind |-> "Ack", id |-> m.id]}
                /\ a.kind = "Ack" => gone' = [gone EXCEPT !.acked = @ \cup m.ids]
                /\ a.kind # "Ack" => gone' = gone
<1> DEFINE m == Head(up[t])
<1>1. up[t] # << >> /\ up[t] \in Seq(Requests) /\ m \in Requests /\ session[t] \in Users \cup {Guest, None}
  BY DEF TabTypes, WiresFit, Serve
<1>2. session' = [session EXCEPT ![t] = session[t]] <=> session' = session
  BY DEF TabTypes, WiresFit
<1> HIDE DEF m
<1>3. CASE m.kind = "Auth" /\ ServeAuth(t, m) /\ UNCHANGED gone
  <2> DEFINE u == IF m.user # None THEN m.user ELSE IF session[t] # None THEN session[t] ELSE Guest
  <2>1. u \in Users \cup {Guest} /\ Success(0, u) \in Answers /\ AuthError(0) \in Answers
    BY <1>1, <1>3 DEF Requests, Answers, Success, AuthError, Tokens
  <2>2. \/ /\ session' = [session EXCEPT ![t] = u] /\ Answer(t, Success(0, u))
           /\ up' = [up EXCEPT ![t] = Tail(@)] /\ UNCHANGED used
        \/ /\ Trouble /\ session' = [session EXCEPT ![t] = None]
           /\ Answer(t, AuthError(0)) /\ up' = [up EXCEPT ![t] = << >>]
    BY <1>3 DEF ServeAuth
  <2> HIDE DEF u
  <2> QED
    BY <1>1, <1>3, <2>1, <2>2, Zenon DEF m
<1>4. CASE m.kind = "Login" /\ ServeLogin(t, m) /\ UNCHANGED gone
  <2>1. m.user \in Users /\ Success(m.id, m.user) \in Answers /\ AuthError(m.id) \in Answers /\ ServerError(0) \in Answers
    BY <1>1, <1>4 DEF Requests, Answers, Success, AuthError, ServerError
  <2>2. \/ /\ session' = [session EXCEPT ![t] = m.user] /\ Answer(t, Success(m.id, m.user)) /\ UNCHANGED used
        \/ Trouble /\ (Answer(t, AuthError(m.id)) \/ Answer(t, ServerError(0))) /\ UNCHANGED session
    BY <1>4 DEF ServeLogin
  <2>3. up' = [up EXCEPT ![t] = Tail(up[t])]
    BY <1>4 DEF ServeLogin
  <2> QED
    BY <1>1, <1>2, <1>4, <2>1, <2>2, <2>3, Zenon DEF m
<1>5. CASE m.kind = "Logout" /\ ServeLogout(t, m) /\ UNCHANGED gone
  <2> DEFINE u == IF session[t] = None THEN None ELSE Guest
  <2>1. Success(m.id, Guest) \in Answers /\ u \in Users \cup {Guest, None}
    BY <1>1, <1>5 DEF Requests, Answers, Success
  <2>2. session' = [session EXCEPT ![t] = u] /\ Answer(t, Success(m.id, Guest)) /\ UNCHANGED used
    BY <1>5 DEF ServeLogout
  <2>3. up' = [up EXCEPT ![t] = Tail(up[t])]
    BY <1>5 DEF ServeLogout
  <2> HIDE DEF u
  <2> QED
    BY <1>1, <1>5, <2>1, <2>2, <2>3, Zenon DEF m
<1>6. CASE m.kind = "Batch" /\ ServeBatch(t, m)
  <2>1. /\ AuthError(0) \in Answers /\ ServerError(m.id) \in Answers /\ ServerError(0) \in Answers
        /\ [kind |-> "Ack", id |-> m.id] \in Answers
        /\ AuthError(0).kind # "Ack" /\ ServerError(m.id).kind # "Ack" /\ ServerError(0).kind # "Ack"
        /\ [kind |-> "Ack", id |-> m.id].kind = "Ack"
    BY <1>1, <1>6 DEF Requests, Answers, AuthError, ServerError
  <2>2. up' = [up EXCEPT ![t] = Tail(up[t])] /\ session' = [session EXCEPT ![t] = session[t]]
    <3>1. UNCHANGED session
      BY <1>6, Zenon DEF ServeBatch
    <3> QED
      BY <1>2, <1>6, <3>1, Zenon DEF ServeBatch
  <2>3. \/ Answer(t, AuthError(0)) /\ UNCHANGED <<gone, used>>
        \/ Answer(t, ServerError(m.id)) /\ UNCHANGED <<gone, used>>
        \/ Answer(t, [kind |-> "Ack", id |-> m.id]) /\ gone' = [gone EXCEPT !.acked = @ \cup m.ids] /\ UNCHANGED used
        \/ Answer(t, ServerError(m.id)) /\ UNCHANGED gone /\ Trouble
        \/ Answer(t, ServerError(0)) /\ UNCHANGED gone /\ Trouble
    BY <1>6, Zenon DEF ServeBatch
  <2>4. PICK a \in {AuthError(0), ServerError(m.id), ServerError(0), [kind |-> "Ack", id |-> m.id]} :
          /\ Answer(t, a)
          /\ a.kind = "Ack" => gone' = [gone EXCEPT !.acked = @ \cup m.ids]
          /\ a.kind # "Ack" => gone' = gone
          /\ UNCHANGED used \/ Trouble
    BY <2>1, <2>3, Zenon
  <2>5. a \in Answers
    BY <2>1, <2>4
  <2> QED
    BY <1>1, <1>6, <2>2, <2>4, <2>5, Zenon DEF m
<1> QED
  BY <1>3, <1>4, <1>5, <1>6, Zenon DEF Serve, m

LEMMA ServeKeepsTypes ==
  ASSUME TabTypes, NEW t \in Tabs, Serve(t)
  PROVE  TabTypes'
<1>1. PICK m \in Requests, a \in Answers :
        /\ up[t] # << >> /\ up[t] \in Seq(Requests)
        /\ Answer(t, a)
        /\ up' = [up EXCEPT ![t] = Tail(up[t])] \/ up' = [up EXCEPT ![t] = << >>]
        /\ \E u \in Users \cup {Guest, None} : session' = [session EXCEPT ![t] = u]
        /\ UNCHANGED used \/ Trouble
        /\ gone' = gone \/ (m.kind = "Batch" /\ gone' = [gone EXCEPT !.acked = @ \cup m.ids])
  BY ServeFits, Zenon
<1>2. UNCHANGED <<stores, page, op, restoring, failing, refresh, channel, link, pushes, late, heard,
                  stranded, overlapped>>
  BY DEF Serve
<1>3. WiresFit'
  <2>1. Tail(up[t]) \in Seq(Requests) /\ << >> \in Seq(Requests)
    BY <1>1
  <2>2. up' \in [Tabs -> Seq(Requests)]
    BY <1>1, <2>1 DEF TabTypes, WiresFit
  <2>3. Append(down[t], a) \in Seq(Answers)
    BY DEF TabTypes, WiresFit
  <2>4. down' \in [Tabs -> Seq(Answers)]
    BY <1>1, <2>3 DEF TabTypes, WiresFit, Answer
  <2>5. session' \in [Tabs -> Users \cup {Guest, None}]
    BY <1>1 DEF TabTypes, WiresFit
  <2> QED
    BY <1>2, <2>2, <2>4, <2>5 DEF TabTypes, WiresFit
<1>4. SocketsFit'
  <2>1. link[t].sock = "open"
    BY <1>1 DEF TabTypes, SocketsFit
  <2>2. \A o \in Tabs : o # t => (up'[o] = up[o] /\ down'[o] = down[o] /\ session'[o] = session[o])
    BY <1>1 DEF TabTypes, WiresFit, Answer
  <2> QED
    BY <1>2, <2>1, <2>2 DEF TabTypes, SocketsFit
<1>5. PushesFit'
  <2>1. m.kind = "Batch" => m.ids \in SUBSET Nat
    BY DEF Requests
  <2>2. gone' \in [acked : SUBSET Nat, cleared : SUBSET Nat]
    BY <1>1, <2>1 DEF TabTypes, PushesFit
  <2> QED
    BY <1>2, <2>2 DEF TabTypes, PushesFit, pushes
<1>6. UsedFits' /\ StoresFit'
  <2>1. UsedFits' /\ used'.writes = used.writes
    BY <1>1, UsedStaysFit DEF TabTypes, UsedFits, Trouble
  <2> QED
    BY <1>2, <2>1 DEF TabTypes, StoresFit, stores
<1>7. PagesFit' /\ CallsFit' /\ ChangesFit' /\ RefreshesFit' /\ ChannelsFit' /\ LinksFit'
  BY <1>2 DEF TabTypes, PagesFit, CallsFit, ChangesFit, RefreshesFit, ChannelsFit, LinksFit
<1> QED
  BY <1>3, <1>4, <1>5, <1>6, <1>7 DEF TabTypes

LEMMA TypesKept ==
  ASSUME TabTypes, [Next]_vars
  PROVE  TabTypes'
<1>1. CASE UNCHANGED vars
  <2>1. StoresFit' /\ UsedFits' /\ PagesFit' /\ CallsFit' /\ ChangesFit' /\ RefreshesFit'
    BY <1>1 DEF TabTypes, StoresFit, UsedFits, PagesFit, CallsFit, ChangesFit, RefreshesFit, vars, stores
  <2>2. ChannelsFit' /\ LinksFit' /\ PushesFit' /\ WiresFit' /\ SocketsFit'
    BY <1>1 DEF TabTypes, ChannelsFit, LinksFit, PushesFit, WiresFit, SocketsFit, vars, pushes, server
  <2> QED
    BY <2>1, <2>2 DEF TabTypes
<1>2. ASSUME NEW t \in Tabs,
             Load(t) \/ Open(t) \/ Lose(t) \/ Reconnect(t) \/ GoOffline(t) \/ GoOnline(t) \/ SendAuth(t)
      PROVE  TabTypes'
  BY <1>2, LoadKeepsTypes, OpenKeepsTypes, LoseKeepsTypes, ReconnectKeepsTypes, GoOfflineKeepsTypes,
     GoOnlineKeepsTypes, SendAuthKeepsTypes
<1>3. ASSUME NEW t \in Tabs,
             \/ Begin(t) \/ Clear(t) \/ Ensure(t) \/ Ask(t) \/ GiveUp(t) \/ Timeout(t) \/ Store(t)
             \/ Restore(t) \/ RefreshRead(t) \/ RefreshWrite(t) \/ Failed(t) \/ Receive(t)
      PROVE  TabTypes'
  BY <1>3, BeginKeepsTypes, ClearKeepsTypes, EnsureKeepsTypes, AskKeepsTypes, GiveUpKeepsTypes,
     StoreKeepsTypes, RestoreKeepsTypes, RefreshKeepsTypes, FailedKeepsTypes, ReceiveKeepsTypes
<1>4. ASSUME NEW t \in Tabs,
             Write(t) \/ PushRead(t) \/ PushSend(t) \/ Remove(t) \/ Hear(t) \/ HearLate(t) \/ Serve(t)
      PROVE  TabTypes'
  BY <1>4, WriteKeepsTypes, PushReadKeepsTypes, PushSendKeepsTypes, RemoveKeepsTypes, HearKeepsTypes,
     ServeKeepsTypes
<1> QED
  BY <1>1, <1>2, <1>3, <1>4 DEF Next

-----------------------------------------------------------------------------
(* Batches                                                                 *)

\* Only the batch a tab waits for has its id on the way to the server.
SameBatch(p, u) ==
  p # None => \A i \in DOMAIN u : u[i].id = p.id => (u[i].kind = "Batch" /\ u[i].ids = p.ids)

\* An acknowledgement of it means that the server has stored it.
AckEarned(p, q, acked) ==
  p # None => \A i \in DOMAIN q : (q[i].kind = "Ack" /\ q[i].id = p.id) => p.ids \subseteq acked

\* Its id is not that of a sign-in.
NotTaken(p, d) ==
  p # None => \A i \in DOMAIN d : d[i].kind = "AuthSuccess" => d[i].id # p.id

Underway(p, u, d) ==
  \/ \E i \in DOMAIN u : u[i].kind = "Batch" /\ u[i].id = p.id
  \/ \E i \in DOMAIN d : \/ d[i].kind = "AuthError"
                         \/ (d[i].kind = "Error" /\ d[i].id = 0)
                         \/ d[i].id = p.id

BatchFits(p, u, d, l, r, acked, s) ==
  /\ SameBatch(p, u)
  /\ AckEarned(p, d, acked) /\ AckEarned(p, l, acked)
  /\ NotTaken(p, d)
  /\ r \subseteq acked
  /\ (p # None /\ ~s) => Underway(p, u, d)

BatchInv ==
  \A t \in Tabs :
    BatchFits(pending[t], up[t], down[t], late[t], removing[t], gone.acked, stranded[t])

\* Nothing is asked of a tab that waits for no batch.
LEMMA NoBatchFits ==
  ASSUME NEW u, NEW d, NEW l, NEW r, NEW acked, NEW s, r \subseteq acked
  PROVE  BatchFits(None, u, d, l, r, acked, s)
BY DEF BatchFits, SameBatch, AckEarned, NotTaken

LEMMA MoreStored ==
  ASSUME NEW p, NEW u, NEW d, NEW l, NEW r, NEW acked, NEW s, NEW more, acked \subseteq more,
         BatchFits(p, u, d, l, r, acked, s)
  PROVE  BatchFits(p, u, d, l, r, more, s)
<1>1. AckEarned(p, d, more) /\ AckEarned(p, l, more)
  BY DEF BatchFits, AckEarned
<1> QED
  BY <1>1 DEF BatchFits

\* A request that is not a batch has an id of its own.
LEMMA RequestFits ==
  ASSUME NEW p, NEW u \in Seq(Requests), NEW d, NEW l, NEW r, NEW acked, NEW s,
         NEW m \in Requests, p # None => m.id # p.id,
         BatchFits(p, u, d, l, r, acked, s)
  PROVE  BatchFits(p, Append(u, m), d, l, r, acked, s)
<1> DEFINE v == Append(u, m)
<1>1. /\ DOMAIN u \subseteq DOMAIN v /\ \A i \in DOMAIN u : v[i] = u[i]
      /\ \A i \in DOMAIN v : i \in DOMAIN u \/ v[i] = m
  OBVIOUS
<1> HIDE DEF v
<1>2. SameBatch(p, v)
  BY <1>1 DEF BatchFits, SameBatch
<1>3. Underway(p, u, d) => Underway(p, v, d)
  BY <1>1 DEF Underway
<1>4. BatchFits(p, v, d, l, r, acked, s)
  BY <1>2, <1>3 DEF BatchFits
<1> QED
  BY <1>4 DEF v

\* A new batch is on its way.
LEMMA NewBatchFits ==
  ASSUME NEW u \in Seq(Requests), NEW d \in Seq(Answers), NEW l \in Seq(Answers),
         NEW r, NEW acked, r \subseteq acked, NEW n \in Nat, NEW ids,
         \A i \in DOMAIN u : u[i].id # n, \A i \in DOMAIN d : d[i].id # n, \A i \in DOMAIN l : l[i].id # n
  PROVE  BatchFits([id |-> n, ids |-> ids], Append(u, [kind |-> "Batch", id |-> n, ids |-> ids]),
                   d, l, r, acked, FALSE)
<1> DEFINE m == [kind |-> "Batch", id |-> n, ids |-> ids]
           v == Append(u, m)
           p == [id |-> n, ids |-> ids]
<1>1. /\ \A i \in DOMAIN u : v[i] = u[i]
      /\ \A i \in DOMAIN v : i \in DOMAIN u \/ v[i] = m
      /\ Len(u) + 1 \in DOMAIN v /\ v[Len(u) + 1] = m
  OBVIOUS
<1>2. m.id = n /\ m.kind = "Batch" /\ m.ids = ids /\ p.id = n /\ p.ids = ids
  OBVIOUS
<1> HIDE DEF v, m, p
<1>3. SameBatch(p, v) /\ AckEarned(p, d, acked) /\ AckEarned(p, l, acked) /\ NotTaken(p, d)
  BY <1>1, <1>2 DEF SameBatch, AckEarned, NotTaken
<1>4. Underway(p, v, d)
  BY <1>1, <1>2 DEF Underway
<1>5. BatchFits(p, v, d, l, r, acked, FALSE)
  BY <1>3, <1>4 DEF BatchFits
<1> QED
  BY <1>5 DEF v, m, p

LEMMA HeadAndTail ==
  ASSUME NEW S, NEW q \in Seq(S), q # << >>
  PROVE  /\ 1 \in DOMAIN q /\ q[1] = Head(q) /\ Head(q) \in S /\ Tail(q) \in Seq(S)
         /\ \A i \in DOMAIN Tail(q) : i + 1 \in DOMAIN q /\ Tail(q)[i] = q[i + 1]
         /\ \A i \in DOMAIN q : i = 1 \/ (i - 1 \in DOMAIN Tail(q) /\ Tail(q)[i - 1] = q[i])
OBVIOUS

LEMMA AnswerFits ==
  ASSUME NEW p \in {None} \cup Batches, NEW u \in Seq(Requests), u # << >>, NEW d \in Seq(Answers), NEW l,
         NEW r, NEW acked, NEW more, acked \subseteq more, NEW s, BatchFits(p, u, d, l, r, acked, s),
         NEW a \in Answers, NEW v,
         \/ v = Tail(u)
         \/ v = << >> /\ a.kind = "AuthError",
         Head(u).kind = "Batch" =>
           /\ a.kind = "AuthError" \/ (a.kind = "Error" /\ a.id \in {0, Head(u).id})
                \/ (a.kind = "Ack" /\ a.id = Head(u).id)
           /\ a.kind = "Ack" => Head(u).ids \subseteq more,
         Head(u).kind # "Batch" =>
           a.kind # "Ack" /\ (a.kind = "AuthSuccess" => a.id \in {0, Head(u).id})
  PROVE  BatchFits(p, v, Append(d, a), l, r, more, s)
<1> DEFINE m == Head(u)
           e == Append(d, a)
<1>1. /\ 1 \in DOMAIN u /\ u[1] = m
      /\ \A i \in DOMAIN v : \E j \in DOMAIN u : v[i] = u[j]
      /\ \A i \in DOMAIN u : i = 1 \/ (\E j \in DOMAIN v : v[j] = u[i]) \/ a.kind = "AuthError"
  <2>1. CASE v = Tail(u)
    BY <2>1, HeadAndTail
  <2>2. CASE v = << >> /\ a.kind = "AuthError"
    BY <2>2, HeadAndTail
  <2> QED
    BY <2>1, <2>2
<1>2. /\ DOMAIN d \subseteq DOMAIN e /\ \A i \in DOMAIN d : e[i] = d[i]
      /\ \A i \in DOMAIN e : i \in DOMAIN d \/ e[i] = a
      /\ Len(d) + 1 \in DOMAIN e /\ e[Len(d) + 1] = a
  OBVIOUS
<1>3. BatchFits(p, u, d, l, r, more, s)
  BY MoreStored
<1>4. p # None => p.id # 0
  BY DEF Batches
<1> HIDE DEF m, e
<1>5. SameBatch(p, v)
  BY <1>1, <1>3 DEF BatchFits, SameBatch
<1>6. (p # None /\ m.id = p.id) => (m.kind = "Batch" /\ m.ids = p.ids)
  BY <1>1, <1>3 DEF BatchFits, SameBatch
<1>7. (p # None /\ a.kind = "Ack" /\ a.id = p.id) => p.ids \subseteq more
  BY <1>6 DEF m
<1>8. (p # None /\ a.kind = "AuthSuccess") => a.id # p.id
  BY <1>4, <1>6 DEF m
<1>9. AckEarned(p, e, more)
  BY <1>2, <1>3, <1>7 DEF BatchFits, AckEarned
<1>10. NotTaken(p, e)
  BY <1>2, <1>3, <1>8 DEF BatchFits, NotTaken
<1>11. ASSUME p # None, ~s PROVE Underway(p, v, e)
  <2>1. Underway(p, u, d)
    BY <1>3, <1>11 DEF BatchFits
  <2>2. CASE \E i \in DOMAIN d : d[i].kind = "AuthError" \/ (d[i].kind = "Error" /\ d[i].id = 0) \/ d[i].id = p.id
    BY <1>2, <2>2 DEF Underway
  <2>3. CASE a.kind = "AuthError"
    BY <1>2, <2>3 DEF Underway
  <2>4. ASSUME NEW i \in DOMAIN u, u[i].kind = "Batch", u[i].id = p.id, a.kind # "AuthError"
        PROVE  Underway(p, v, e)
    <3>1. CASE i = 1
      <4>1. a.id = p.id \/ (a.kind = "Error" /\ a.id = 0)
        BY <1>1, <2>4, <3>1 DEF m
      <4> QED
        BY <1>2, <4>1 DEF Underway
    <3>2. CASE i # 1
      BY <1>1, <2>4, <3>2 DEF Underway
    <3> QED
      BY <3>1, <3>2
  <2> QED
    BY <2>1, <2>2, <2>3, <2>4 DEF Underway
<1>12. BatchFits(p, v, e, l, r, more, s)
  BY <1>3, <1>5, <1>9, <1>10, <1>11 DEF BatchFits
<1> QED
  BY <1>12 DEF e

\* What a message makes of the batch that is waited for.
Released(p, r, m, p2, r2) ==
  \/ p2 = None /\ (r2 = r \/ (m.kind = "Ack" /\ p # None /\ p.id = m.id /\ r2 = r \cup p.ids))
  \/ /\ p2 = p /\ r2 = r
     /\ m.kind # "AuthError" /\ ~(m.kind = "Error" /\ m.id = 0)
     /\ (p # None /\ m.id = p.id) => m.kind = "AuthSuccess"

LEMMA HandledReleases ==
  ASSUME NEW t \in Tabs, NEW m \in Answers, On(t, m), TabTypes
  PROVE  /\ Released(pending[t], removing[t], m, pending'[t], removing'[t])
         /\ \A o \in Tabs : o # t => (/\ pending'[o] = pending[o] /\ removing'[o] = removing[o]
                                      /\ stranded'[o] = stranded[o])
         /\ stranded'[t] = stranded[t] \/ pending'[t] = None
<1>1. CASE m.kind = "AuthSuccess" /\ OnAuthSuccess(t, m)
  BY <1>1 DEF OnAuthSuccess, Released
<1>2. CASE m.kind = "AuthError" /\ OnAuthError(t)
  BY <1>2 DEF OnAuthError, Released, TabTypes, PushesFit, ChangesFit, BatchAfterClose
<1>3. CASE m.kind = "Ack" /\ OnAck(t, m)
  BY <1>3 DEF OnAck, Released, TabTypes, PushesFit
<1>4. CASE m.kind = "Error" /\ OnError(t, m)
  BY <1>4 DEF OnError, Released, TabTypes, PushesFit
<1> QED
  BY <1>1, <1>2, <1>3, <1>4 DEF On

LEMMA HeardFits ==
  ASSUME NEW p, NEW u, NEW d \in Seq(Answers), d # << >>, NEW l, NEW r, NEW acked, NEW s, NEW p2, NEW r2,
         BatchFits(p, u, d, l, r, acked, s), Released(p, r, Head(d), p2, r2)
  PROVE  BatchFits(p2, u, Tail(d), l, r2, acked, s)
<1> DEFINE m == Head(d)
           e == Tail(d)
<1>1. /\ 1 \in DOMAIN d /\ d[1] = m
      /\ \A i \in DOMAIN e : i + 1 \in DOMAIN d /\ e[i] = d[i + 1]
      /\ \A i \in DOMAIN d : i = 1 \/ (i - 1 \in DOMAIN e /\ e[i - 1] = d[i])
  BY HeadAndTail
<1> HIDE DEF m, e
<1>2. r2 \subseteq acked
  BY <1>1 DEF BatchFits, AckEarned, Released, m
<1>3. CASE p2 = None
  BY <1>2, <1>3, NoBatchFits DEF e
<1>4. CASE p2 = p /\ p # None
  <2>1. AckEarned(p, e, acked) /\ NotTaken(p, e)
    BY <1>1 DEF BatchFits, AckEarned, NotTaken
  <2>2. m.kind = "AuthSuccess" => m.id # p.id
    BY <1>1, <1>4 DEF BatchFits, NotTaken
  <2>3. m.kind # "AuthError" /\ ~(m.kind = "Error" /\ m.id = 0) /\ m.id # p.id
    BY <1>4, <2>2 DEF Released, m
  <2>4. ~s => Underway(p, u, e)
    <3>1. SUFFICES ASSUME ~s PROVE Underway(p, u, e)
      OBVIOUS
    <3>2. Underway(p, u, d)
      BY <1>4, <3>1 DEF BatchFits
    <3> QED
      BY <1>1, <2>3, <3>2 DEF Underway
  <2> QED
    BY <1>2, <1>4, <2>1, <2>4 DEF BatchFits, e
<1> QED
  BY <1>3, <1>4 DEF Released

LEMMA HeardLateFits ==
  ASSUME NEW p, NEW u, NEW d, NEW l \in Seq(Answers), l # << >>, NEW r, NEW acked, NEW s, NEW p2, NEW r2,
         BatchFits(p, u, d, l, r, acked, s), Released(p, r, Head(l), p2, r2)
  PROVE  BatchFits(p2, u, d, Tail(l), r2, acked, s)
<1> DEFINE m == Head(l)
           e == Tail(l)
<1>1. /\ 1 \in DOMAIN l /\ l[1] = m
      /\ \A i \in DOMAIN e : i + 1 \in DOMAIN l /\ e[i] = l[i + 1]
  BY HeadAndTail
<1> HIDE DEF m, e
<1>2. r2 \subseteq acked
  BY <1>1 DEF BatchFits, AckEarned, Released, m
<1>3. CASE p2 = None
  BY <1>2, <1>3, NoBatchFits DEF e
<1>4. CASE p2 = p /\ p # None
  <2>1. AckEarned(p, e, acked)
    BY <1>1 DEF BatchFits, AckEarned
  <2> QED
    BY <1>2, <1>4, <2>1 DEF BatchFits, e
<1> QED
  BY <1>3, <1>4 DEF Released

\* The other tabs' batches are theirs.
LEMMA OneTabChanges ==
  ASSUME BatchInv, NEW t \in Tabs, gone.acked \subseteq gone'.acked,
         \A o \in Tabs : o # t =>
           /\ pending'[o] = pending[o] /\ up'[o] = up[o] /\ down'[o] = down[o] /\ late'[o] = late[o]
           /\ removing'[o] = removing[o] /\ stranded'[o] = stranded[o],
         BatchFits(pending'[t], up'[t], down'[t], late'[t], removing'[t], gone'.acked, stranded'[t])
  PROVE  BatchInv'
<1>1. \A o \in Tabs : o # t =>
        BatchFits(pending'[o], up'[o], down'[o], late'[o], removing'[o], gone'.acked, stranded'[o])
  BY MoreStored DEF BatchInv
<1> QED
  BY <1>1 DEF BatchInv

LEMMA NoTabChanges ==
  ASSUME BatchInv, gone'.acked = gone.acked, UNCHANGED <<pending, removing, up, down, late, stranded>>
  PROVE  BatchInv'
BY DEF BatchInv

LEMMA LostBatches ==
  ASSUME BatchInv, TabTypes, NEW t \in Tabs, Load(t) \/ Lose(t)
  PROVE  BatchInv'
<1>1. /\ \A o \in Tabs : o # t =>
           /\ pending'[o] = pending[o] /\ removing'[o] = removing[o] /\ stranded'[o] = stranded[o]
      /\ pending'[t] = None /\ removing'[t] \subseteq removing[t] /\ gone' = gone
  BY DEF TabTypes, PushesFit, ChangesFit, Load, Lose, BatchAfterClose
<1>2. \A o \in Tabs : o # t => (up'[o] = up[o] /\ down'[o] = down[o] /\ late'[o] = late[o])
  BY DEF TabTypes, WiresFit, Load, Lose, HangUp
<1>3. removing[t] \subseteq gone.acked
  BY DEF BatchInv, BatchFits
<1>4. BatchFits(pending'[t], up'[t], down'[t], late'[t], removing'[t], gone'.acked, stranded'[t])
  BY <1>1, <1>3, NoBatchFits
<1> QED
  BY <1>1, <1>2, <1>4, OneTabChanges

\* Messages that were received stay queued.
LEMMA KeptFits ==
  ASSUME NEW p, NEW d \in Seq(Answers), NEW l \in Seq(Answers), NEW acked,
         AckEarned(p, d, acked), AckEarned(p, l, acked), NEW n \in 0 .. Len(d)
  PROVE  AckEarned(p, l \o SubSeq(d, 1, n), acked)
<1> DEFINE k == SubSeq(d, 1, n)
           q == l \o k
<1>1. k \in Seq(Answers) /\ \A i \in DOMAIN k : i \in DOMAIN d /\ k[i] = d[i]
  BY SubSeqProperties
<1> HIDE DEF k
<1>2. \A i \in DOMAIN q : (i \in DOMAIN l /\ q[i] = l[i]) \/ (i - Len(l) \in DOMAIN k /\ q[i] = k[i - Len(l)])
  BY <1>1, ConcatProperties
<1> HIDE DEF q
<1>3. AckEarned(p, q, acked)
  BY <1>1, <1>2 DEF AckEarned
<1> QED
  BY <1>3 DEF q, k

LEMMA StrandedBatches ==
  ASSUME BatchInv, TabTypes, NEW t \in Tabs, GoOffline(t)
  PROVE  BatchInv'
<1>1. /\ \A o \in Tabs : o # t => stranded'[o] = stranded[o]
      /\ UNCHANGED <<pending, removing, gone>>
      /\ stranded'[t] = (stranded[t] \/ pending[t] # None)
  BY DEF TabTypes, ChangesFit, GoOffline, pushes
<1>2. BatchFits(pending[t], up[t], down[t], late[t], removing[t], gone.acked, stranded[t])
  BY DEF BatchInv
<1>3. CASE link[t].sock = "none"
  <2>1. UNCHANGED <<up, down, late>>
    BY <1>3 DEF GoOffline, server
  <2>2. BatchFits(pending[t], up[t], down[t], late[t], removing[t], gone.acked, stranded'[t])
    BY <1>1, <1>2 DEF BatchFits
  <2> QED
    BY <1>1, <2>1, <2>2, OneTabChanges
<1>4. CASE link[t].sock # "none"
  <2>1. HangUp(t)
    BY <1>4 DEF GoOffline
  <2>2. PICK n \in 0 .. Len(down[t]) : late' = [late EXCEPT ![t] = late[t] \o SubSeq(down[t], 1, n)]
    BY <2>1 DEF HangUp
  <2>3. \A o \in Tabs : o # t => (up'[o] = up[o] /\ down'[o] = down[o] /\ late'[o] = late[o])
    BY <2>1, <2>2 DEF TabTypes, WiresFit, HangUp
  <2>4. up'[t] = << >> /\ down'[t] = << >> /\ late'[t] = late[t] \o SubSeq(down[t], 1, n)
    BY <2>1, <2>2 DEF TabTypes, WiresFit, HangUp
  <2>5. AckEarned(pending[t], late'[t], gone.acked)
    BY <1>2, <2>4, KeptFits DEF TabTypes, WiresFit, BatchFits
  <2>6. BatchFits(pending[t], up'[t], down'[t], late'[t], removing[t], gone.acked, stranded'[t])
    <3>1. SameBatch(pending[t], << >>) /\ AckEarned(pending[t], << >>, gone.acked) /\ NotTaken(pending[t], << >>)
      BY DEF SameBatch, AckEarned, NotTaken
    <3> QED
      BY <1>1, <1>2, <2>4, <2>5, <3>1 DEF BatchFits
  <2> QED
    BY <1>1, <2>3, <2>6, OneTabChanges
<1> QED
  BY <1>3, <1>4

LEMMA AskedBatches ==
  ASSUME BatchInv, TabTypes, NEW t \in Tabs, SendAuth(t) \/ Ask(t)
  PROVE  BatchInv'
<1>1. UNCHANGED <<pending, removing, gone, down, late, stranded>>
  BY DEF SendAuth, Ask, pushes
<1>2. CASE UNCHANGED up
  BY <1>1, <1>2, NoTabChanges
<1>3. ASSUME NEW m \in Requests, pending[t] # None => m.id # pending[t].id, Say(t, m)
      PROVE  BatchInv'
  <2>1. up'[t] = Append(up[t], m) /\ \A o \in Tabs : o # t => up'[o] = up[o]
    BY <1>3 DEF TabTypes, WiresFit, Say
  <2>2. BatchFits(pending[t], up[t], down[t], late[t], removing[t], gone.acked, stranded[t])
    BY DEF BatchInv
  <2>3. BatchFits(pending[t], up'[t], down[t], late[t], removing[t], gone.acked, stranded[t])
    BY <1>3, <2>1, <2>2, RequestFits DEF TabTypes, WiresFit
  <2> QED
    BY <1>1, <2>1, <2>3, OneTabChanges
<1>4. CASE SendAuth(t) /\ link[t].sock = "open"
  <2> DEFINE m == [kind |-> "Auth", id |-> 0, user |-> link[t].token]
  <2>1. m \in Requests /\ m.id = 0
    BY DEF TabTypes, LinksFit, Links, Requests
  <2>2. pending[t] # None => pending[t].id # 0
    BY DEF TabTypes, PushesFit, Batches
  <2>3. Say(t, m)
    BY <1>4 DEF SendAuth
  <2> HIDE DEF m
  <2> QED
    BY <1>3, <2>1, <2>2, <2>3
<1>5. CASE Ask(t)
  <2> DEFINE n == FreshId(t)
             m == [kind |-> IF op[t].kind = "logout" THEN "Logout" ELSE "Login", id |-> n, user |-> op[t].user]
  <2>1. n \in Nat \ {0} /\ n \notin Numbered(t)
    BY FreshIdIsFresh DEF TabTypes
  <2>2. pending[t] # None => n # pending[t].id
    <3> HIDE DEF n
    <3> QED
      BY <2>1 DEF Numbered
  <2>3. Say(t, m)
    BY <1>5 DEF Ask
  <2> HIDE DEF n
  <2>4. m \in Requests /\ m.id = n
    <3>1. op[t] # NoOp /\ op[t].step = "wait" /\ op[t] \in Calls /\ CallFits(op[t])
      BY <1>5 DEF TabTypes, CallsFit, Ask
    <3>2. CASE op[t].kind = "logout"
      BY <2>1, <3>1, <3>2 DEF Requests, Calls
    <3>3. CASE op[t].kind # "logout"
      <4>1. op[t].user \in Users
        BY <3>1, <3>3 DEF CallFits, Calls
      <4> QED
        BY <2>1, <3>3, <4>1 DEF Requests
    <3> QED
      BY <3>2, <3>3
  <2> HIDE DEF m
  <2> QED
    BY <1>3, <2>2, <2>3, <2>4
<1> QED
  BY <1>2, <1>4, <1>5 DEF SendAuth

LEMMA SentBatches ==
  ASSUME BatchInv, TabTypes, NEW t \in Tabs, PushSend(t)
  PROVE  BatchInv'
<1> DEFINE n == FreshId(t)
<1>1. n \in Nat \ {0} /\ n \notin Numbered(t)
  BY FreshIdIsFresh DEF TabTypes
<1>2. /\ UNCHANGED <<removing, gone, down, late>>
      /\ \/ /\ pending' = [pending EXCEPT ![t] = [id |-> n, ids |-> pushing[t]]]
            /\ Say(t, [kind |-> "Batch", id |-> n, ids |-> pushing[t]])
            /\ stranded' = [stranded EXCEPT ![t] = FALSE]
         \/ UNCHANGED <<pending, up, stranded>>
  BY DEF PushSend
<1> HIDE DEF n
<1>3. CASE UNCHANGED <<pending, up, stranded>>
  BY <1>2, <1>3, NoTabChanges
<1>4. CASE ~UNCHANGED <<pending, up, stranded>>
  <2>1. /\ pending'[t] = [id |-> n, ids |-> pushing[t]] /\ stranded'[t] = FALSE
        /\ up'[t] = Append(up[t], [kind |-> "Batch", id |-> n, ids |-> pushing[t]])
        /\ \A o \in Tabs : o # t => (pending'[o] = pending[o] /\ up'[o] = up[o] /\ stranded'[o] = stranded[o])
    BY <1>2, <1>4 DEF TabTypes, PushesFit, WiresFit, ChangesFit, Say
  <2>2. /\ \A i \in DOMAIN up[t] : up[t][i].id # n
        /\ \A i \in DOMAIN down[t] : down[t][i].id # n
        /\ \A i \in DOMAIN late[t] : late[t][i].id # n
    BY <1>1 DEF Numbered
  <2>3. removing[t] \subseteq gone.acked
    BY DEF BatchInv, BatchFits
  <2>4. BatchFits(pending'[t], up'[t], down[t], late[t], removing[t], gone.acked, stranded'[t])
    <3>1. up[t] \in Seq(Requests) /\ down[t] \in Seq(Answers) /\ late[t] \in Seq(Answers) /\ n \in Nat
      BY <1>1 DEF TabTypes, WiresFit
    <3>2. BatchFits([id |-> n, ids |-> pushing[t]], Append(up[t], [kind |-> "Batch", id |-> n, ids |-> pushing[t]]),
                    down[t], late[t], removing[t], gone.acked, FALSE)
      BY <2>2, <2>3, <3>1, NewBatchFits
    <3> QED
      BY <2>1, <3>2
  <2> QED
    BY <1>2, <2>1, <2>4, OneTabChanges
<1> QED
  BY <1>3, <1>4

LEMMA RemovedBatches ==
  ASSUME BatchInv, TabTypes, NEW t \in Tabs, Remove(t)
  PROVE  BatchInv'
<1>1. /\ UNCHANGED <<pending, up, down, late, gone, stranded>> /\ removing'[t] = {}
      /\ \A o \in Tabs : o # t => removing'[o] = removing[o]
  BY DEF TabTypes, PushesFit, Remove, server
<1>2. BatchFits(pending[t], up[t], down[t], late[t], {}, gone.acked, stranded[t])
  BY DEF BatchInv, BatchFits
<1> QED
  BY <1>1, <1>2, OneTabChanges

LEMMA HeardBatches ==
  ASSUME BatchInv, TabTypes, NEW t \in Tabs, Hear(t)
  PROVE  BatchInv'
<1> DEFINE m == Head(down[t])
<1>1. down[t] # << >> /\ down[t] \in Seq(Answers) /\ m \in Answers /\ On(t, m) /\ gone' = gone
  BY DEF TabTypes, WiresFit, Hear
<1>2. /\ Released(pending[t], removing[t], m, pending'[t], removing'[t])
      /\ \A o \in Tabs : o # t => (/\ pending'[o] = pending[o] /\ removing'[o] = removing[o]
                                   /\ stranded'[o] = stranded[o])
      /\ stranded'[t] = stranded[t] \/ pending'[t] = None
  BY <1>1, HandledReleases
<1>3. \A o \in Tabs : o # t => (up'[o] = up[o] /\ down'[o] = down[o] /\ late'[o] = late[o])
  BY DEF TabTypes, WiresFit, Hear
<1>4. BatchFits(pending[t], up[t], down[t], late[t], removing[t], gone.acked, stranded[t])
  BY DEF BatchInv
<1>5. BatchFits(pending'[t], up'[t], down'[t], late'[t], removing'[t], gone.acked, stranded'[t])
  <2>1. BatchFits(pending'[t], up[t], Tail(down[t]), late[t], removing'[t], gone.acked, stranded[t])
    BY <1>1, <1>2, <1>4, HeardFits
  <2>2. CASE pending'[t] = None
    BY <2>1, <2>2, NoBatchFits DEF BatchFits
  <2>3. CASE pending'[t] # None
    <3>1. m.kind # "AuthError"
      BY <1>2, <2>3 DEF Released
    <3>2. up'[t] = up[t] /\ down'[t] = Tail(down[t]) /\ late'[t] = late[t]
      BY <3>1 DEF TabTypes, WiresFit, Hear
    <3> QED
      BY <1>2, <2>1, <2>3, <3>2
  <2> QED
    BY <2>2, <2>3
<1> QED
  BY <1>1, <1>2, <1>3, <1>5, OneTabChanges

LEMMA HeardLateBatches ==
  ASSUME BatchInv, TabTypes, NEW t \in Tabs, HearLate(t)
  PROVE  BatchInv'
<1> DEFINE m == Head(late[t])
<1>1. late[t] # << >> /\ late[t] \in Seq(Answers) /\ m \in Answers /\ On(t, m) /\ gone' = gone
  BY DEF TabTypes, WiresFit, HearLate
<1>2. /\ Released(pending[t], removing[t], m, pending'[t], removing'[t])
      /\ \A o \in Tabs : o # t => (/\ pending'[o] = pending[o] /\ removing'[o] = removing[o]
                                   /\ stranded'[o] = stranded[o])
      /\ stranded'[t] = stranded[t] \/ pending'[t] = None
  BY <1>1, HandledReleases
<1>3. \A o \in Tabs : o # t => (up'[o] = up[o] /\ down'[o] = down[o] /\ late'[o] = late[o])
  BY DEF TabTypes, WiresFit, HearLate
<1>4. BatchFits(pending[t], up[t], down[t], late[t], removing[t], gone.acked, stranded[t])
  BY DEF BatchInv
<1>5. BatchFits(pending'[t], up'[t], down'[t], late'[t], removing'[t], gone.acked, stranded'[t])
  <2>1. BatchFits(pending'[t], up[t], down[t], Tail(late[t]), removing'[t], gone.acked, stranded[t])
    BY <1>1, <1>2, <1>4, HeardLateFits
  <2>2. CASE pending'[t] = None
    BY <2>1, <2>2, NoBatchFits DEF BatchFits
  <2>3. CASE pending'[t] # None
    <3>1. m.kind # "AuthError"
      BY <1>2, <2>3 DEF Released
    <3>2. up'[t] = up[t] /\ down'[t] = down[t] /\ late'[t] = Tail(late[t])
      BY <3>1 DEF TabTypes, WiresFit, HearLate
    <3> QED
      BY <1>2, <2>1, <2>3, <3>2
  <2> QED
    BY <2>2, <2>3
<1> QED
  BY <1>1, <1>2, <1>3, <1>5, OneTabChanges

LEMMA ServedBatches ==
  ASSUME BatchInv, TabTypes, NEW t \in Tabs, Serve(t)
  PROVE  BatchInv' /\ gone.acked \subseteq gone'.acked /\ gone'.cleared = gone.cleared
<1>1. PICK m \in Requests, a \in Answers :
           /\ m = Head(up[t]) /\ up[t] # << >> /\ up[t] \in Seq(Requests)
           /\ Answer(t, a)
           /\ \/ up' = [up EXCEPT ![t] = Tail(up[t])]
              \/ up' = [up EXCEPT ![t] = << >>] /\ a = AuthError(0)
           /\ m.kind # "Batch" => (UNCHANGED gone /\ a \in {Success(0, u) : u \in Users \cup {Guest}}
                                     \cup {Success(m.id, u) : u \in Users \cup {Guest}}
                                     \cup {AuthError(0), AuthError(m.id), ServerError(0)})
           /\ m.kind = "Batch" =>
                /\ a \in {AuthError(0), ServerError(m.id), ServerError(0), [kind |-> "Ack", id |-> m.id]}
                /\ a.kind = "Ack" => gone' = [gone EXCEPT !.acked = @ \cup m.ids]
                /\ a.kind # "Ack" => gone' = gone
  BY ServeFits, Zenon
<1>2. UNCHANGED <<pending, removing, late, stranded>>
  BY DEF Serve, pushes
<1>3. /\ gone.acked \subseteq gone'.acked /\ gone'.cleared = gone.cleared
      /\ (m.kind = "Batch" /\ a.kind = "Ack") => m.ids \subseteq gone'.acked
  <2>1. gone \in [acked : SUBSET Nat, cleared : SUBSET Nat]
    BY DEF TabTypes, PushesFit
  <2>2. gone' = gone \/ (m.kind = "Batch" /\ a.kind = "Ack" /\ gone' = [gone EXCEPT !.acked = @ \cup m.ids])
    BY <1>1
  <2>3. (m.kind = "Batch" /\ a.kind = "Ack") => gone' = [gone EXCEPT !.acked = @ \cup m.ids]
    BY <1>1
  <2> QED
    BY <2>1, <2>2, <2>3
<1>4. m.kind = "Batch" =>
        \/ a.kind = "AuthError"
        \/ (a.kind = "Error" /\ a.id \in {0, m.id})
        \/ (a.kind = "Ack" /\ a.id = m.id)
  <2>1. ASSUME m.kind = "Batch",
               a \in {AuthError(0), ServerError(m.id), ServerError(0), [kind |-> "Ack", id |-> m.id]}
        PROVE  \/ a.kind = "AuthError"
               \/ (a.kind = "Error" /\ a.id \in {0, m.id})
               \/ (a.kind = "Ack" /\ a.id = m.id)
    BY <2>1 DEF AuthError, ServerError
  <2> QED
    BY <1>1, <2>1
<1>5. m.kind # "Batch" => a.kind # "Ack" /\ (a.kind = "AuthSuccess" => a.id \in {0, m.id})
  <2>1. ASSUME a \in {Success(0, u) : u \in Users \cup {Guest}}
                      \cup {Success(m.id, u) : u \in Users \cup {Guest}}
                      \cup {AuthError(0), AuthError(m.id), ServerError(0)}
        PROVE  a.kind # "Ack" /\ (a.kind = "AuthSuccess" => a.id \in {0, m.id})
    BY <2>1 DEF AuthError, ServerError, Success
  <2> QED
    BY <1>1, <2>1
<1>6. /\ down'[t] = Append(down[t], a)
      /\ up'[t] = Tail(up[t]) \/ (up'[t] = << >> /\ a.kind = "AuthError")
      /\ \A o \in Tabs : o # t => (up'[o] = up[o] /\ down'[o] = down[o])
  <2>1. AuthError(0).kind = "AuthError"
    BY DEF AuthError
  <2> QED
    <3>1. down' = [down EXCEPT ![t] = Append(down[t], a)]
      BY <1>1 DEF Answer
    <3>2. up' = [up EXCEPT ![t] = Tail(up[t])] \/ (up' = [up EXCEPT ![t] = << >>] /\ a.kind = "AuthError")
      BY <1>1, <2>1
    <3> QED
      BY <3>1, <3>2 DEF TabTypes, WiresFit
<1>7. BatchFits(pending[t], up[t], down[t], late[t], removing[t], gone.acked, stranded[t])
  BY DEF BatchInv
<1>8. BatchFits(pending[t], up'[t], Append(down[t], a), late[t], removing[t], gone'.acked, stranded[t])
  <2>1. pending[t] \in {None} \cup Batches /\ down[t] \in Seq(Answers)
    BY DEF TabTypes, PushesFit, WiresFit
  <2> QED
    BY <1>1, <1>3, <1>4, <1>5, <1>6, <1>7, <2>1, AnswerFits
<1>9. BatchInv'
  BY <1>2, <1>3, <1>6, <1>8, OneTabChanges
<1> QED
  BY <1>3, <1>9

LEMMA BatchesAtFirst == Init => BatchInv
<1> SUFFICES ASSUME Init, NEW t \in Tabs
             PROVE  BatchFits(pending[t], up[t], down[t], late[t], removing[t], gone.acked, stranded[t])
  BY DEF BatchInv
<1>1. pending[t] = None /\ removing[t] = {} /\ gone.acked = {}
  BY DEF Init
<1> QED
  BY <1>1, NoBatchFits

\* Clearing takes entries from the outbox, but nothing from the server.
LEMMA ClearedIsNoted ==
  ASSUME TabTypes, NEW t \in Tabs, Clear(t)
  PROVE  /\ gone'.acked = gone.acked /\ outbox \cup gone.cleared \subseteq outbox' \cup gone'.cleared
         /\ UNCHANGED <<pending, removing, up, down, late, stranded, used>>
<1>1. gone \in [acked : SUBSET Nat, cleared : SUBSET Nat]
  BY DEF TabTypes, PushesFit
<1>2. \/ outbox' = {} /\ gone' = [gone EXCEPT !.cleared = @ \cup outbox]
      \/ UNCHANGED <<outbox, gone>>
  BY DEF Clear
<1>3. gone'.acked = gone.acked /\ outbox \cup gone.cleared \subseteq outbox' \cup gone'.cleared
  BY <1>1, <1>2
<1> QED
  BY <1>3 DEF Clear, pushes, server

LEMMA BatchesKept ==
  ASSUME BatchInv, TabTypes, [Next]_vars
  PROVE  BatchInv'
<1>1. CASE UNCHANGED vars
  BY <1>1, NoTabChanges DEF vars, pushes, server
<1>2. ASSUME NEW t \in Tabs,
             \/ Load(t) \/ Lose(t) \/ GoOffline(t) \/ SendAuth(t) \/ Ask(t) \/ PushSend(t) \/ Remove(t)
             \/ Hear(t) \/ HearLate(t) \/ Serve(t)
      PROVE  BatchInv'
  BY <1>2, LostBatches, StrandedBatches, AskedBatches, SentBatches, RemovedBatches, HeardBatches,
     HeardLateBatches, ServedBatches
<1>3. ASSUME NEW t \in Tabs, Open(t) \/ Reconnect(t) \/ GoOnline(t) \/ Begin(t) \/ Ensure(t)
      PROVE  BatchInv'
  <2>1. UNCHANGED <<gone, pending, removing, up, down, late, stranded>>
    BY <1>3 DEF Open, Reconnect, GoOnline, Begin, Start, Ensure, pushes, server
  <2> QED
    BY <2>1, NoTabChanges
<1>4. ASSUME NEW t \in Tabs, GiveUp(t) \/ Timeout(t) \/ Store(t) \/ Restore(t) \/ Failed(t) \/ Receive(t)
      PROVE  BatchInv'
  <2>1. UNCHANGED <<gone, pending, removing, up, down, late, stranded>>
    BY <1>4 DEF GiveUp, Timeout, Store, Restore, Failed, Receive, pushes, server
  <2> QED
    BY <2>1, NoTabChanges
<1>5. ASSUME NEW t \in Tabs, RefreshRead(t) \/ RefreshWrite(t) \/ Write(t) \/ PushRead(t)
      PROVE  BatchInv'
  <2>1. UNCHANGED <<gone, pending, removing, up, down, late, stranded>>
    BY <1>5 DEF RefreshRead, RefreshWrite, Write, PushRead, pushes, server
  <2> QED
    BY <2>1, NoTabChanges
<1>6. ASSUME NEW t \in Tabs, Clear(t) PROVE BatchInv'
  BY <1>6, ClearedIsNoted, NoTabChanges
<1> QED
  BY <1>1, <1>2, <1>3, <1>4, <1>5, <1>6 DEF Next

LEMMA NothingIsLost ==
  ASSUME NothingLost, BatchInv, TabTypes, [Next]_vars
  PROVE  NothingLost'
<1>1. CASE UNCHANGED <<used, outbox, gone>>
  BY <1>1 DEF NothingLost
<1>2. ASSUME UNCHANGED <<outbox, gone>>, used'.writes = used.writes PROVE NothingLost'
  BY <1>2 DEF NothingLost
<1>3. ASSUME NEW kind \in {"ops", "loads", "troubles"}, NEW max, Happens(kind, max)
      PROVE  used'.writes = used.writes
  BY <1>3, UsedStaysFit DEF TabTypes
<1>4. ASSUME NEW t \in Tabs, Write(t) PROVE NothingLost'
  <2>1. used'.writes = used.writes + 1 /\ used.writes \in Nat /\ gone' = gone /\ outbox' = outbox \cup {used.writes + 1}
    BY <1>4, UsedStaysFit DEF Write, TabTypes, UsedFits
  <2>2. \A i \in 1 .. used'.writes : i \in 1 .. used.writes \/ i = used.writes + 1
    BY <2>1
  <2> QED
    BY <2>1, <2>2 DEF NothingLost
<1>5. ASSUME NEW t \in Tabs, Clear(t) PROVE NothingLost'
  <2>1. gone'.acked = gone.acked /\ outbox \cup gone.cleared \subseteq outbox' \cup gone'.cleared /\ used' = used
    BY <1>5, ClearedIsNoted
  <2> QED
    BY <2>1 DEF NothingLost
<1>6. ASSUME NEW t \in Tabs, Remove(t) PROVE NothingLost'
  <2>1. removing[t] \subseteq gone.acked
    BY DEF BatchInv, BatchFits
  <2> QED
    BY <1>6, <2>1 DEF NothingLost, Remove, LeftAfter
<1>7. ASSUME NEW t \in Tabs, Serve(t) PROVE NothingLost'
  <2>1. gone.acked \subseteq gone'.acked /\ gone'.cleared = gone.cleared /\ UNCHANGED outbox
    BY <1>7, ServedBatches DEF Serve, stores
  <2>2. used'.writes = used.writes
    <3>1. UNCHANGED used \/ Trouble
      BY <1>7, ServeFits
    <3> QED
      BY <1>3, <3>1 DEF Trouble
  <2> QED
    BY <2>1, <2>2 DEF NothingLost
<1>8. ASSUME NEW t \in Tabs, Load(t) \/ Lose(t) \/ GoOffline(t) \/ Begin(t) \/ Timeout(t) PROVE NothingLost'
  <2>1. UNCHANGED <<outbox, gone>>
    BY <1>8 DEF Load, Lose, GoOffline, Begin, Start, Timeout, stores
  <2>2. UNCHANGED used \/ Trouble \/ Happens("ops", MaxOps) \/ Happens("loads", MaxLoads)
    BY <1>8 DEF Load, Lose, GoOffline, Begin, Start, Timeout
  <2> QED
    BY <1>2, <1>3, <2>1, <2>2 DEF Trouble
<1>9. ASSUME NEW t \in Tabs, Open(t) \/ Reconnect(t) \/ GoOnline(t) \/ SendAuth(t) \/ Ensure(t) \/ Ask(t) \/ GiveUp(t)
      PROVE  NothingLost'
  BY <1>1, <1>9 DEF Open, Reconnect, GoOnline, SendAuth, Ensure, Ask, GiveUp, stores
<1>10. ASSUME NEW t \in Tabs,
              \/ Store(t) \/ Restore(t) \/ RefreshRead(t) \/ RefreshWrite(t) \/ Failed(t) \/ Receive(t)
              \/ PushRead(t) \/ PushSend(t) \/ Hear(t) \/ HearLate(t)
      PROVE  NothingLost'
  BY <1>1, <1>10 DEF Store, Restore, RefreshRead, RefreshWrite, Failed, Receive, PushRead, PushSend,
     Hear, HearLate, stores
<1>11. CASE UNCHANGED vars
  BY <1>1, <1>11 DEF vars, stores
<1> QED
  BY <1>4, <1>5, <1>6, <1>7, <1>8, <1>9, <1>10, <1>11 DEF Next

\* The tabs, their sockets and the shared outbox are in order
\* (client.ts:301-325, sync.ts:212-318, 501-524).
TabsInv == TabTypes /\ BatchInv /\ NothingLost

THEOREM TabsWellKept == Spec => []TabsInv
<1>1. Init => TabsInv
  <2>1. Init => NothingLost
    BY DEF Init, NothingLost
  <2> QED
    BY <2>1, TypesAtFirst, BatchesAtFirst DEF TabsInv
<1>2. TabsInv /\ [Next]_vars => TabsInv'
  BY TypesKept, BatchesKept, NothingIsLost DEF TabsInv
<1> QED
  BY <1>1, <1>2, PTL DEF Spec

\* No change is lost, whatever the tabs push at the same time, whichever
\* connection is lost and whichever acknowledgement is late
\* (sync.ts:261-318, 501-524, storage.ts:457-467).
THEOREM NoChangeIsLost == Spec => []NothingLost
<1>1. TabsInv => NothingLost
  BY DEF TabsInv
<1> QED
  BY <1>1, TabsWellKept, PTL

\* A batch that a tab waits for is on its way, or its answer is, unless the
\* browser went offline (sync.ts:212-226, 253-320, 366-376, 515-520).
THEOREM BatchesAreAnswered == Spec => []BatchAnswered
<1>1. TabsInv => BatchAnswered
  BY DEF TabsInv, BatchInv, BatchFits, Underway, BatchAnswered
<1> QED
  BY <1>1, TabsWellKept, PTL

\* The types, and what fits together (sync.ts:212-318, connection.ts:263-272).
THEOREM TabsTypes == Spec => []TypeOK
<1>1. TabsInv => TypeOK
  <2> SUFFICES ASSUME TabsInv PROVE TypeOK
    OBVIOUS
  <2>1. TabTypes /\ BatchInv
    BY DEF TabsInv
  <2>2. {meta, local} \subseteq [user : Tokens, token : Users] \cup {None} /\ outbox \subseteq 1 .. used.writes
    BY <2>1 DEF TabTypes, StoresFit, Sessions, Tokens
  <2>3. ASSUME NEW t \in Tabs
        PROVE  /\ page[t] \in [status : {"SignedOut", "SigningIn", "SignedIn", "Error"}, user : Tokens, token : Tokens]
               /\ link[t].sock \in {"none", "connecting", "open"}
               /\ link[t].status \in {"Disconnected", "Connecting", "Connected"}
               /\ link[t].timer => (link[t].sock = "none" /\ link[t].online)
    BY <2>1 DEF TabTypes, PagesFit, Pages, LinksFit, LinkFits, Links
  <2>4. ASSUME NEW t \in Tabs
        PROVE  /\ link[t].sock # "open" => (up[t] = << >> /\ down[t] = << >> /\ session[t] = None)
               /\ session[t] \in Users \cup {Guest, None}
               /\ op[t] # NoOp => op[t].step \in {"clear", "connect", "wait", "ask", "store"}
    BY <2>1 DEF TabTypes, SocketsFit, WiresFit, CallsFit, Calls
  <2>5. ASSUME NEW t \in Tabs
        PROVE  removing[t] \subseteq gone.acked /\ (pushing[t] # None => pushing[t] # {})
    BY <2>1 DEF BatchInv, BatchFits, TabTypes, PushesFit
  <2> QED
    BY <2>2, <2>3, <2>4, <2>5 DEF TypeOK
<1> QED
  BY <1>1, TabsWellKept, PTL

-----------------------------------------------------------------------------
(* The tabs agree                                                          *)

UserIn(msg) == IF msg = None THEN None ELSE msg.user

\* A change under way in a tab that ends with an announcement: the page may
\* show its outcome before.
Announces(p, o, f) ==
  /\ p.status # "SignedOut"
  /\ f \/ (o # NoOp /\ (o.kind = "logout" \/ (o.kind = "register" /\ o.step \in {"clear", "store"})))

\* A tab shows the user v of the last announcement, or will hear of it, or
\* is about to make the next one.
Agrees(p, o, f, h, q, v) ==
  /\ q # << >> => UserIn(q[Len(q)]) = v
  /\ (h /\ q = << >>) => (p.user = v \/ Announces(p, o, f))
  /\ (h /\ o # NoOp /\ o.kind = "resume" /\ o.step # "clear" /\ o.name = None) => v = None

\* The status of a page is that of the change under way.
StatusFits(p, o, f, r) ==
  /\ (f /\ o # NoOp) => o.kind = "logout"
  /\ r => (o = NoOp /\ ~f /\ p.status = "SignedOut")
  /\ (o # NoOp /\ o.kind # "logout") => p.status = "SigningIn"
  /\ p.status = "SignedOut" => p.user = None

Busy(t) == op[t] # NoOp \/ failing[t] \/ restoring[t]
Alone(t) == channel[t] = << >> /\ \A o \in Tabs : o # t => ~Busy(o)
Fits(t) == StatusFits(page[t], op[t], failing[t], restoring[t])
AgreesOn(t, v) == Agrees(page[t], op[t], failing[t], heard[t], channel[t], v)

InTurn ==
  /\ \A t \in Tabs : Fits(t)
  /\ \A t \in Tabs : Busy(t) => Alone(t)
  /\ \E v \in Tokens : \A t \in Tabs : AgreesOn(t, v)

\* As long as no two changes have overlapped.
AgreeInv == ~overlapped => InTurn

LEMMA AgreeAtFirst == Init => AgreeInv
<1> SUFFICES ASSUME Init PROVE InTurn
  BY DEF AgreeInv
<1>1. /\ \A t \in Tabs : op[t] = NoOp /\ failing[t] = FALSE /\ restoring[t] = FALSE /\ heard[t] = FALSE
      /\ \A t \in Tabs : channel[t] = << >> /\ page[t] = SignedOut
  <2> HIDE DEF NoOp, SignedOut
  <2> QED
    BY DEF Init
<1>2. SignedOut.user = None
  BY DEF SignedOut
<1>3. \A t \in Tabs : ~Busy(t) /\ Fits(t) /\ AgreesOn(t, None)
  BY <1>1, <1>2 DEF Busy, Fits, StatusFits, AgreesOn, Agrees
<1> QED
  BY <1>3 DEF InTurn, Tokens

\* The page, the calls and what was heard of the other tabs stay.
Elsewhere(t) ==
  \A o \in Tabs : o # t =>
    /\ page'[o] = page[o] /\ op'[o] = op[o] /\ failing'[o] = failing[o]
    /\ restoring'[o] = restoring[o] /\ heard'[o] = heard[o]

\* A step of one tab that announces nothing.
LEMMA StaysInTurn ==
  ASSUME InTurn, NEW t \in Tabs, Elsewhere(t), \A o \in Tabs : o # t => channel'[o] = channel[o],
         Fits(t)', Busy(t)' => Alone(t)', Busy(t)' => \A o \in Tabs : o # t => ~Busy(o),
         \A v \in Tokens : AgreesOn(t, v) => AgreesOn(t, v)'
  PROVE  InTurn'
<1>1. \A o \in Tabs : Fits(o)'
  BY DEF InTurn, Elsewhere, Fits
<1>2. ASSUME NEW o \in Tabs, Busy(o)' PROVE Alone(o)'
  <2>1. CASE o = t
    BY <1>2, <2>1
  <2>2. CASE o # t
    <3>1. Busy(o)
      BY <1>2, <2>2 DEF Busy, Elsewhere
    <3>2. ~Busy(t)' /\ channel[o] = << >> /\ \A x \in Tabs : x # o => ~Busy(x)
      BY <2>2, <3>1 DEF InTurn, Alone
    <3>3. \A x \in Tabs : x # o => ~Busy(x)'
      BY <3>2 DEF Busy, Elsewhere
    <3> QED
      BY <2>2, <3>2, <3>3 DEF Alone
  <2> QED
    BY <2>1, <2>2
<1>3. PICK v \in Tokens : \A o \in Tabs : AgreesOn(o, v)
  BY DEF InTurn
<1>4. \A o \in Tabs : AgreesOn(o, v)'
  BY <1>3 DEF AgreesOn, Elsewhere
<1> QED
  BY <1>1, <1>2, <1>4 DEF InTurn

\* The step of one tab, which nothing else is under way beside, that
\* announces who is signed in.
LEMMA TellsInTurn ==
  ASSUME TabTypes, InTurn, NEW t \in Tabs, Elsewhere(t), Busy(t), Fits(t)', Alone(t),
         NEW msg \in Sessions \cup {None}, Tell(t, msg), AgreesOn(t, UserIn(msg))', UserIn(msg) \in Tokens
  PROVE  InTurn'
<1>1. /\ channel'[t] = << >> /\ \A o \in Tabs : o # t => channel'[o] = Append(channel[o], msg)
  BY TellFits DEF TabTypes, Alone
<1>2. \A o \in Tabs : Fits(o)'
  BY DEF InTurn, Elsewhere, Fits
<1>3. \A o \in Tabs : o # t => ~Busy(o) /\ ~Busy(o)'
  BY DEF Alone, Busy, Elsewhere
<1>4. \A o \in Tabs : Busy(o)' => Alone(o)'
  BY <1>1, <1>3 DEF Alone
<1>5. ASSUME NEW o \in Tabs, o # t PROVE AgreesOn(o, UserIn(msg))'
  <2> DEFINE q == Append(channel[o], msg)
  <2>1. q # << >> /\ q[Len(q)] = msg
    <3>1. channel[o] \in Seq(Sessions \cup {None})
      BY DEF TabTypes, ChannelsFit
    <3> QED
      BY <3>1, AppendProperties
  <2>2. channel'[o] = q /\ op'[o] = NoOp
    BY <1>1, <1>3, <1>5 DEF Busy
  <2> HIDE DEF q
  <2> QED
    BY <2>1, <2>2 DEF AgreesOn, Agrees
<1> QED
  BY <1>2, <1>4, <1>5 DEF InTurn

\* A step of a tab with a change under way: nobody else is at work.
LEMMA BusyInTurn ==
  ASSUME InTurn, NEW t \in Tabs, Busy(t), Elsewhere(t), UNCHANGED channel, Fits(t)',
         \A v \in Tokens : AgreesOn(t, v) => AgreesOn(t, v)'
  PROVE  InTurn'
<1>1. channel[t] = << >> /\ \A o \in Tabs : o # t => ~Busy(o)
  BY DEF InTurn, Alone
<1>2. \A o \in Tabs : o # t => ~Busy(o)'
  BY <1>1 DEF Busy, Elsewhere
<1>3. Alone(t)'
  BY <1>1, <1>2 DEF Alone
<1> QED
  BY <1>1, <1>3, StaysInTurn

LEMMA UntouchedInTurn ==
  ASSUME AgreeInv, UNCHANGED <<page, op, failing, restoring, heard, channel, overlapped>>
  PROVE  AgreeInv'
BY DEF AgreeInv, InTurn, Fits, Busy, Alone, AgreesOn

LEMMA CallIsUnderWay ==
  ASSUME NEW o, o \in Calls
  PROVE  o # NoOp /\ o.kind \in {"register", "login", "resume", "logout"}
BY DEF Calls, NoOp

\* A call that fails: a sign-in leaves the user there was, a sign-out goes on
\* to tell that nobody is signed in.
LEMMA FailureAgrees ==
  ASSUME NEW t, NEW p, p \in Pages, NEW o, o \in Calls, NEW f, NEW r, NEW h, NEW v, StatusFits(p, o, f, r),
         o.kind = "register" => o.step \notin {"clear", "store"}, Agrees(p, o, f, h, << >>, v)
  PROVE  /\ StatusFits(StatusAfterFailure(o, p), AfterFailure(t, o), f, r)
         /\ Agrees(StatusAfterFailure(o, p), AfterFailure(t, o), f, h, << >>, v)
<1>1. o # NoOp
  BY CallIsUnderWay
<1>2. CASE o.kind = "logout"
  <2> DEFINE p2 == [p EXCEPT !.user = None, !.token = None]
             o2 == [o EXCEPT !.step = "clear"]
  <2>1. StatusAfterFailure(o, p) = p2 /\ AfterFailure(t, o) = o2
    BY <1>2 DEF StatusAfterFailure, AfterFailure
  <2>2. p2.status = p.status /\ p2.user = None
    BY DEF Pages
  <2>3. o2 \in Calls /\ o2.kind = "logout"
    BY <1>2 DEF Calls
  <2>4. o2 # NoOp
    BY <2>3, CallIsUnderWay
  <2> HIDE DEF p2, o2, NoOp
  <2>5. StatusFits(p2, o2, f, r)
    BY <1>1, <1>2, <2>2, <2>3, <2>4 DEF StatusFits
  <2>6. Agrees(p2, o2, f, h, << >>, v)
    BY <1>1, <1>2, <2>2, <2>3, <2>4 DEF StatusFits, Agrees, Announces
  <2> QED
    BY <2>1, <2>5, <2>6
<1>3. CASE o.kind # "logout"
  <2> DEFINE p2 == [p EXCEPT !.status = "Error"]
  <2>1. StatusAfterFailure(o, p) = p2 /\ AfterFailure(t, o) = NoOp
    BY <1>3 DEF StatusAfterFailure, AfterFailure
  <2>2. p2.status = "Error" /\ p2.user = p.user
    BY DEF Pages
  <2> HIDE DEF p2, NoOp
  <2>3. StatusFits(p2, NoOp, f, r)
    BY <1>1, <1>3, <2>2 DEF StatusFits
  <2>4. Agrees(p2, NoOp, f, h, << >>, v)
    BY <1>1, <1>3, <2>2 DEF StatusFits, Agrees, Announces
  <2> QED
    BY <2>1, <2>3, <2>4
<1> QED
  BY <1>2, <1>3

LEMMA FailsInTurn ==
  ASSUME TabTypes, InTurn, NEW t \in Tabs, op[t] # NoOp, Fail(t),
         op[t].kind = "register" => op[t].step \notin {"clear", "store"},
         UNCHANGED <<failing, restoring, heard, channel>>
  PROVE  InTurn'
<1>1. op[t] \in Calls /\ page[t] \in Pages /\ Busy(t)
  BY DEF TabTypes, CallsFit, PagesFit, Busy
<1>2. /\ Elsewhere(t)
      /\ op'[t] = AfterFailure(t, op[t]) /\ page'[t] = StatusAfterFailure(op[t], page[t])
  BY CallFailsFit DEF TabTypes, Elsewhere
<1>3. channel[t] = << >> /\ Fits(t)
  BY <1>1 DEF InTurn, Alone
<1>4. \A v : AgreesOn(t, v) => /\ StatusFits(page'[t], op'[t], failing[t], restoring[t])
                               /\ Agrees(page'[t], op'[t], failing[t], heard[t], << >>, v)
  BY <1>1, <1>2, <1>3, FailureAgrees DEF Fits, AgreesOn
<1>5. Fits(t)' /\ \A v \in Tokens : AgreesOn(t, v) => AgreesOn(t, v)'
  BY <1>3, <1>4 DEF Fits, AgreesOn, InTurn
<1> QED
  BY <1>1, <1>2, <1>5, BusyInTurn

LEMMA GiveUpInTurn ==
  ASSUME TabTypes, AgreeInv, NEW t \in Tabs, GiveUp(t) \/ Timeout(t)
  PROVE  AgreeInv'
<1>1. /\ op[t] # NoOp /\ op[t].step \in {"wait", "ask"} /\ Fail(t)
      /\ UNCHANGED <<failing, restoring, heard, channel, overlapped>>
  BY DEF GiveUp, Timeout
<1> QED
  BY <1>1, FailsInTurn DEF AgreeInv

LEMMA LoseInTurn ==
  ASSUME TabTypes, AgreeInv, NEW t \in Tabs, Lose(t)
  PROVE  AgreeInv'
<1>1. Reject(t) /\ UNCHANGED <<failing, restoring, heard, channel, overlapped>>
  BY DEF Lose
<1>2. CASE op[t] # NoOp /\ op[t].step = "ask"
  BY <1>1, <1>2, FailsInTurn DEF Reject, AgreeInv
<1>3. CASE ~(op[t] # NoOp /\ op[t].step = "ask")
  BY <1>1, <1>3, UntouchedInTurn DEF Reject
<1> QED
  BY <1>2, <1>3

\* Who has heard nothing agrees with everyone.
LEMMA LoadInTurn ==
  ASSUME TabTypes, AgreeInv, NEW t \in Tabs, Load(t)
  PROVE  AgreeInv'
<1> SUFFICES ASSUME ~overlapped' PROVE InTurn'
  BY DEF AgreeInv
<1>1. InTurn /\ (local = None => ~Others(t))
  BY DEF AgreeInv, Load
<1> DEFINE p == IF local # None THEN SignedIn(local.user, local.token) ELSE SignedOut
<1>2. /\ page' = [page EXCEPT ![t] = p] /\ restoring' = [restoring EXCEPT ![t] = local = None]
      /\ op' = [op EXCEPT ![t] = NoOp] /\ failing' = [failing EXCEPT ![t] = FALSE]
      /\ channel' = [channel EXCEPT ![t] = << >>] /\ heard' = [heard EXCEPT ![t] = FALSE]
  BY DEF Load
<1>3. IF local = None THEN p.status = "SignedOut" /\ p.user = None ELSE p.status = "SignedIn"
  BY DEF SignedIn, SignedOut
<1> HIDE DEF p, NoOp
<1>4. /\ page'[t] = p /\ restoring'[t] = (local = None) /\ op'[t] = NoOp /\ failing'[t] = FALSE
      /\ channel'[t] = << >> /\ heard'[t] = FALSE /\ Elsewhere(t)
      /\ \A o \in Tabs : o # t => channel'[o] = channel[o]
  BY <1>2 DEF TabTypes, PagesFit, CallsFit, ChangesFit, ChannelsFit, Elsewhere
<1>5. Fits(t)'
  BY <1>3, <1>4 DEF Fits, StatusFits
<1>6. Busy(t)' => \A o \in Tabs : o # t => ~Busy(o)
  BY <1>1, <1>4 DEF Busy, Others
<1>7. Busy(t)' => Alone(t)'
  BY <1>4, <1>6 DEF Alone, Busy, Elsewhere
<1>8. \A v \in Tokens : AgreesOn(t, v)'
  BY <1>4 DEF AgreesOn, Agrees
<1> QED
  BY <1>1, <1>4, <1>5, <1>6, <1>7, <1>8, StaysInTurn

LEMMA BeginInTurn ==
  ASSUME TabTypes, AgreeInv, NEW t \in Tabs, Begin(t)
  PROVE  AgreeInv'
<1> SUFFICES ASSUME ~overlapped' PROVE InTurn'
  BY DEF AgreeInv
<1>1. PICK o \in Calls :
        /\ Start(t, o)
        /\ o.kind = "resume" => o.step = "clear"
        /\ o.kind = "register" => o.step \notin {"clear", "store"}
        /\ IF o.kind = "logout" THEN UNCHANGED page ELSE page' = [page EXCEPT ![t].status = "SigningIn"]
  <2>1. \A kind \in {"register", "login", "resume", "logout"}, u \in Tokens, mode \in Modes :
          LET o == Call(kind, u, mode)
          IN  (kind \in {"register", "login"} => u \in Users) =>
                /\ o \in Calls /\ o.kind = kind
                /\ kind = "resume" => o.step = "clear"
                /\ kind = "register" => o.step \notin {"clear", "store"}
    BY CallIsFit DEF Call, FirstStep
  <2>2. PICK mode \in Modes :
    \/ /\ \E u \in Users : Start(t, Call("register", u, mode))
       /\ page' = [page EXCEPT ![t].status = "SigningIn"]
    \/ /\ \E u \in Users : Start(t, Call("login", u, mode))
       /\ page' = [page EXCEPT ![t].status = "SigningIn"]
    \/ /\ Start(t, Call("resume", None, mode))
       /\ page' = [page EXCEPT ![t].status = "SigningIn"]
    \/ /\ Start(t, Call("logout", None, mode))
       /\ UNCHANGED page
    BY Zenon DEF Begin
  <2>3. None \in Tokens /\ \A u \in Users : u \in Tokens
    BY DEF Tokens
  <2>4. CASE \E u \in Users : Start(t, Call("register", u, mode)) /\ page' = [page EXCEPT ![t].status = "SigningIn"]
    BY <2>1, <2>3, <2>4
  <2>5. CASE \E u \in Users : Start(t, Call("login", u, mode)) /\ page' = [page EXCEPT ![t].status = "SigningIn"]
    BY <2>1, <2>3, <2>5
  <2>6. CASE Start(t, Call("resume", None, mode)) /\ page' = [page EXCEPT ![t].status = "SigningIn"]
    BY <2>1, <2>3, <2>6
  <2>7. CASE Start(t, Call("logout", None, mode)) /\ UNCHANGED page
    BY <2>1, <2>3, <2>7
  <2> QED
    BY <2>2, <2>4, <2>5, <2>6, <2>7
<1>2. /\ op[t] = NoOp /\ op' = [op EXCEPT ![t] = o] /\ Noting(t)
      /\ UNCHANGED <<restoring, failing, channel, heard>>
  BY <1>1 DEF Start
<1>3. InTurn /\ ~Others(t) /\ failing[t] = FALSE /\ restoring[t] = FALSE
  BY <1>2 DEF Noting, AgreeInv, TabTypes, ChangesFit
<1>4. channel[t] = << >> /\ \A q \in Tabs : q # t => ~Busy(q)
  BY <1>3 DEF Others, Busy
<1>5. /\ Elsewhere(t) /\ op'[t] = o /\ page'[t].user = page[t].user
      /\ IF o.kind = "logout" THEN page'[t] = page[t] ELSE page'[t].status = "SigningIn"
  BY <1>1, <1>2 DEF TabTypes, CallsFit, PagesFit, Pages, Elsewhere
<1>6. Alone(t)'
  BY <1>2, <1>4, <1>5 DEF Alone, Busy, Elsewhere
<1>7. Fits(t)'
  BY <1>2, <1>3, <1>5 DEF Fits, StatusFits, InTurn
<1>8. \A v \in Tokens : AgreesOn(t, v) => AgreesOn(t, v)'
  BY <1>1, <1>2, <1>3, <1>4, <1>5 DEF AgreesOn, Agrees, Announces
<1> QED
  BY <1>2, <1>3, <1>4, <1>5, <1>6, <1>7, <1>8, StaysInTurn

\* A step of a call that shows nothing.
LEMMA GoesOnInTurn ==
  ASSUME TabTypes, AgreeInv, NEW t \in Tabs, op[t] # NoOp, NEW o \in Calls, op' = [op EXCEPT ![t] = o],
         o.kind = op[t].kind,
         o.kind = "register" => (o.step \in {"clear", "store"} <=> op[t].step \in {"clear", "store"}),
         o.kind = "resume" => \/ op[t].step # "clear" /\ o.name = op[t].name
                              \/ o.name = None => page[t].user = None,
         UNCHANGED <<page, failing, restoring, heard, channel, overlapped>>
  PROVE  AgreeInv'
<1> SUFFICES ASSUME ~overlapped' PROVE InTurn'
  BY DEF AgreeInv
<1>1. InTurn /\ Busy(t)
  BY DEF AgreeInv, Busy
<1>2. op'[t] = o /\ Elsewhere(t) /\ o # NoOp
  BY CallIsUnderWay DEF TabTypes, CallsFit, Elsewhere
<1>3. channel[t] = << >> /\ Fits(t)
  BY <1>1 DEF InTurn, Alone
<1> HIDE DEF NoOp
<1>4. Fits(t)'
  BY <1>2, <1>3 DEF Fits, StatusFits
<1>5. \A v \in Tokens : AgreesOn(t, v) => AgreesOn(t, v)'
  BY <1>2, <1>3 DEF Fits, StatusFits, AgreesOn, Agrees, Announces
<1> QED
  BY <1>1, <1>2, <1>4, <1>5, BusyInTurn

LEMMA NextStepIsACall ==
  ASSUME CallsFit, NEW t \in Tabs, op[t] # NoOp, NEW s \in {"clear", "connect", "wait", "ask", "store"},
         op' = [op EXCEPT ![t].step = s]
  PROVE  \E o \in Calls : /\ op' = [op EXCEPT ![t] = o]
                          /\ o.step = s /\ o.kind = op[t].kind /\ o.name = op[t].name /\ o.user = op[t].user
<1> DEFINE o == [op[t] EXCEPT !.step = s]
<1>1. op[t] \in Calls
  BY DEF CallsFit
<1>2. o \in Calls /\ o.step = s /\ o.kind = op[t].kind /\ o.name = op[t].name /\ o.user = op[t].user
  BY <1>1 DEF Calls
<1>3. op' = [op EXCEPT ![t] = o]
  <2>1. [op[t] EXCEPT !.step = s] = o
    OBVIOUS
  <2> HIDE DEF o
  <2> QED
    BY <2>1 DEF CallsFit
<1> HIDE DEF o
<1> QED
  BY <1>2, <1>3

LEMMA ClearInTurn ==
  ASSUME TabTypes, AgreeInv, NEW t \in Tabs, Clear(t)
  PROVE  AgreeInv'
<1>1. op[t] # NoOp /\ op[t].step = "clear" /\ UNCHANGED <<failing, restoring, heard, channel, overlapped>>
  BY DEF Clear
<1>2. op[t] \in Calls /\ CallsFit
  BY <1>1 DEF TabTypes, CallsFit
<1>3. CASE op[t].kind # "resume"
  <2> DEFINE s == AfterClear(op[t].kind)
  <2>1. op' = [op EXCEPT ![t].step = s] /\ UNCHANGED page
    BY <1>3 DEF Clear
  <2>2. s \in {"clear", "connect", "wait", "ask", "store"} /\ (op[t].kind = "register" => s = "store")
    BY DEF AfterClear
  <2> HIDE DEF s, NoOp
  <2>3. \E o \in Calls : /\ op' = [op EXCEPT ![t] = o]
                         /\ o.step = s /\ o.kind = op[t].kind /\ o.name = op[t].name /\ o.user = op[t].user
    BY <1>1, <1>2, <2>1, <2>2, NextStepIsACall
  <2>4. PICK o \in Calls : op' = [op EXCEPT ![t] = o] /\ o.step = s /\ o.kind = op[t].kind
    BY <2>3
  <2> QED
    BY <1>1, <1>3, <2>1, <2>2, <2>4, GoesOnInTurn
<1>4. CASE op[t].kind = "resume" /\ Known(t) = None
  <2>1. Fail(t)
    BY <1>4 DEF Clear
  <2> QED
    BY <1>1, <1>4, <2>1, FailsInTurn DEF AgreeInv
<1>5. CASE op[t].kind = "resume" /\ Known(t) # None
  <2>1. /\ op' = [op EXCEPT ![t].step = "connect", ![t].name = Known(t).user, ![t].user = Known(t).token]
        /\ UNCHANGED page
    BY <1>5 DEF Clear
  <2>2. Known(t).user \in Tokens /\ Known(t).token \in Users
    BY <1>5, KnownFits
  <2>3. Known(t).user = None => page[t].user = None
    <3>1. CASE page[t].token # None
      BY <3>1 DEF Known, Session
    <3>2. CASE page[t].token = None
      <4>1. Known(t) = local \/ Known(t) = meta
        BY <3>2 DEF Known
      <4>2. Known(t) \in Sessions
        BY <1>5, <4>1 DEF TabTypes, StoresFit
      <4> QED
        BY <4>2, TabsAssumption DEF Sessions
    <3> QED
      BY <3>1, <3>2
  <2> DEFINE n == Known(t).user
             k == Known(t).token
             p == [op[t] EXCEPT !.step = "connect", !.name = n, !.user = k]
  <2> HIDE DEF n, k
  <2>4. p \in Calls /\ p.kind = "resume" /\ p.name = n
    BY <1>2, <1>5, <2>2 DEF Calls, n, k, Tokens
  <2>5. op' = [op EXCEPT ![t] = p]
    BY <1>2, <2>1 DEF n, k, CallsFit
  <2>6. p.name = None => page[t].user = None
    BY <2>3, <2>4 DEF n
  <2> HIDE DEF p, NoOp
  <2> QED
    BY <1>1, <1>5, <2>1, <2>4, <2>5, <2>6, GoesOnInTurn
<1> QED
  BY <1>3, <1>4, <1>5

LEMMA EnsureInTurn ==
  ASSUME TabTypes, AgreeInv, NEW t \in Tabs, Ensure(t)
  PROVE  AgreeInv'
<1>1. /\ op[t] # NoOp /\ op[t].step = "connect" /\ op' = [op EXCEPT ![t].step = "wait"]
      /\ UNCHANGED <<page, failing, restoring, heard, channel, overlapped>>
  BY DEF Ensure
<1>2. PICK o \in Calls : /\ op' = [op EXCEPT ![t] = o]
                         /\ o.step = "wait" /\ o.kind = op[t].kind /\ o.name = op[t].name
  BY <1>1, NextStepIsACall DEF TabTypes
<1> HIDE DEF NoOp
<1> QED
  BY <1>1, <1>2, GoesOnInTurn

LEMMA AskInTurn ==
  ASSUME TabTypes, AgreeInv, NEW t \in Tabs, Ask(t)
  PROVE  AgreeInv'
<1> DEFINE n == FreshId(t)
           o == [op[t] EXCEPT !.step = "ask", !.id = n]
<1>1. /\ op[t] # NoOp /\ op[t].step = "wait" /\ op' = [op EXCEPT ![t].step = "ask", ![t].id = n]
      /\ UNCHANGED <<page, failing, restoring, heard, channel, overlapped>>
  BY DEF Ask
<1>2. n \in Nat
  BY FreshIdIsFresh DEF TabTypes
<1> HIDE DEF n
<1>3. op[t] \in Calls
  BY <1>1 DEF TabTypes, CallsFit
<1>4. o \in Calls /\ o.step = "ask" /\ o.kind = op[t].kind /\ o.name = op[t].name
  BY <1>2, <1>3 DEF Calls
<1>5. op' = [op EXCEPT ![t] = o]
  BY <1>1 DEF TabTypes, CallsFit
<1> HIDE DEF o, NoOp
<1> QED
  BY <1>1, <1>4, <1>5, GoesOnInTurn

\* A tab that has told all others is the one that they will agree with.
LEMMA SignedInInTurn ==
  ASSUME TabTypes, InTurn, NEW t \in Tabs, Busy(t), NEW u \in Users, NEW tok \in Users,
         page[t].status # "SignedIn", BecomeSignedIn(t, u, tok),
         op'[t] = NoOp, failing'[t] = FALSE, restoring'[t] = FALSE,
         \A o \in Tabs : o # t => op'[o] = op[o] /\ failing'[o] = failing[o] /\ restoring'[o] = restoring[o]
  PROVE  InTurn'
<1>1. Alone(t) /\ channel[t] = << >>
  BY DEF InTurn, Alone
<1>2. u # None /\ u \in Tokens
  BY TabsAssumption DEF Tokens
<1>3. /\ page' = [page EXCEPT ![t] = SignedIn(u, tok)]
      /\ Tell(t, Session(u, tok)) /\ heard' = [heard EXCEPT ![t] = TRUE]
  BY <1>2 DEF BecomeSignedIn
<1>4. Session(u, tok) \in Sessions /\ UserIn(Session(u, tok)) = u
  <2>1. Session(u, tok) \in Sessions /\ Session(u, tok).user = u
    BY DEF Session, Sessions
  <2>2. Session(u, tok) # None
    BY <2>1, TabsAssumption DEF Sessions
  <2> QED
    BY <2>1, <2>2 DEF UserIn
<1>5. /\ page'[t] = SignedIn(u, tok) /\ heard'[t] = TRUE /\ channel'[t] = << >> /\ Elsewhere(t)
  <2>1. page'[t] = SignedIn(u, tok) /\ heard'[t] = TRUE
    BY <1>3 DEF TabTypes, PagesFit, ChangesFit
  <2>2. channel'[t] = << >>
    BY <1>1, <1>3, <1>4, TellFits DEF TabTypes
  <2>3. Elsewhere(t)
    BY <1>3 DEF TabTypes, PagesFit, ChangesFit, Elsewhere
  <2> QED
    BY <2>1, <2>2, <2>3
<1>6. SignedIn(u, tok).status = "SignedIn" /\ SignedIn(u, tok).user = u
  BY DEF SignedIn
<1> HIDE DEF NoOp
<1>7. Fits(t)'
  BY <1>5, <1>6 DEF Fits, StatusFits
<1>8. AgreesOn(t, u)'
  BY <1>5, <1>6 DEF AgreesOn, Agrees
<1>9. AgreesOn(t, UserIn(Session(u, tok)))'
  BY <1>4, <1>8
<1> QED
  BY <1>1, <1>2, <1>3, <1>4, <1>5, <1>7, <1>9, TellsInTurn

LEMMA SignedOutInTurn ==
  ASSUME TabTypes, InTurn, NEW t \in Tabs, Busy(t), BecomeSignedOut(t), restoring'[t] = FALSE,
         (failing'[t] /\ op'[t] # NoOp) => op'[t].kind = "logout",
         op'[t] # NoOp => op'[t].kind = "logout",
         \A o \in Tabs : o # t => op'[o] = op[o] /\ failing'[o] = failing[o] /\ restoring'[o] = restoring[o]
  PROVE  InTurn'
<1> HIDE DEF NoOp
<1>1. Alone(t) /\ channel[t] = << >> /\ Fits(t) /\ None \in Tokens
  BY DEF InTurn, Alone, Tokens
<1>2. SignedOut.status = "SignedOut" /\ SignedOut.user = None
  BY DEF SignedOut
<1>3. page' = [page EXCEPT ![t] = SignedOut] /\ page'[t] = SignedOut
  BY DEF BecomeSignedOut, TabTypes, PagesFit
<1>4. Fits(t)'
  BY <1>2, <1>3 DEF Fits, StatusFits
<1>5. CASE page[t].status = "SignedOut"
  <2>1. channel' = channel /\ heard' = heard
    BY <1>5 DEF BecomeSignedOut
  <2>2. Elsewhere(t)
    BY <1>3, <2>1 DEF Elsewhere, TabTypes, PagesFit
  <2>3. \A v \in Tokens : AgreesOn(t, v) => AgreesOn(t, v)'
    BY <1>1, <1>2, <1>3, <1>5, <2>1 DEF Fits, StatusFits, AgreesOn, Agrees, Announces
  <2> QED
    BY <1>4, <2>1, <2>2, <2>3, BusyInTurn
<1>6. CASE page[t].status # "SignedOut"
  <2>1. Tell(t, None) /\ heard' = [heard EXCEPT ![t] = TRUE]
    BY <1>6 DEF BecomeSignedOut
  <2>2. heard'[t] = TRUE /\ Elsewhere(t)
    BY <1>3, <2>1 DEF Elsewhere, TabTypes, PagesFit, ChangesFit
  <2>3. channel'[t] = << >>
    BY <1>1, <2>1, TellFits DEF TabTypes
  <2>4. UserIn(None) = None
    BY DEF UserIn
  <2>5. AgreesOn(t, None)'
    BY <1>2, <1>3, <2>2, <2>3 DEF AgreesOn, Agrees
  <2>6. AgreesOn(t, UserIn(None))'
    BY <2>4, <2>5
  <2>7. None \in Sessions \cup {None} /\ UserIn(None) \in Tokens
    BY <1>1, <2>4
  <2> QED
    BY <1>1, <1>4, <2>1, <2>2, <2>6, <2>7, TellsInTurn
<1> QED
  BY <1>5, <1>6

LEMMA StoreInTurn ==
  ASSUME TabTypes, AgreeInv, NEW t \in Tabs, Store(t)
  PROVE  AgreeInv'
<1> SUFFICES ASSUME ~overlapped' PROVE InTurn'
  BY DEF AgreeInv
<1> HIDE DEF NoOp
<1>1. /\ op[t] # NoOp /\ op[t].step = "store" /\ op' = [op EXCEPT ![t] = NoOp]
      /\ UNCHANGED <<failing, restoring, overlapped>>
      /\ IF op[t].kind = "logout" THEN BecomeSignedOut(t) ELSE BecomeSignedIn(t, op[t].name, op[t].user)
  BY DEF Store
<1>2. InTurn /\ Busy(t)
  BY <1>1 DEF AgreeInv, Busy
<1>3. /\ channel[t] = << >> /\ Fits(t) /\ restoring[t] = FALSE
      /\ op[t].kind # "logout" => page[t].status = "SigningIn" /\ failing[t] = FALSE
  BY <1>1, <1>2 DEF InTurn, Alone, Fits, StatusFits, TabTypes, ChangesFit
<1>4. op'[t] = NoOp /\ \A o \in Tabs : o # t => op'[o] = op[o]
  BY <1>1 DEF TabTypes, CallsFit
<1>5. CASE op[t].kind = "logout"
  BY <1>1, <1>2, <1>3, <1>4, <1>5, SignedOutInTurn
<1>6. CASE op[t].kind # "logout" /\ op[t].name # None
  <2>1. op[t].name \in Users /\ op[t].user \in Users
    <3>1. op[t] \in Calls /\ CallFits(op[t])
      BY <1>1 DEF TabTypes, CallsFit
    <3> QED
      BY <1>1, <1>6, <3>1 DEF CallFits, Calls, Tokens
  <2> QED
    BY <1>1, <1>2, <1>3, <1>4, <1>6, <2>1, SignedInInTurn
<1>7. CASE op[t].kind # "logout" /\ op[t].name = None
  <2>1. op[t].kind = "resume"
    <3>1. op[t] \in Calls /\ CallFits(op[t])
      BY <1>1 DEF TabTypes, CallsFit
    <3> QED
      BY <1>1, <1>7, <3>1, TabsAssumption DEF CallFits, Calls
  <2>2. /\ page' = [page EXCEPT ![t] = SignedIn(None, op[t].user)]
        /\ UNCHANGED <<channel, heard>>
    BY <1>1, <1>7 DEF BecomeSignedIn
  <2>3. page'[t].status = "SignedIn" /\ page'[t].user = None /\ Elsewhere(t)
    BY <1>1, <1>4, <2>2 DEF SignedIn, TabTypes, PagesFit, Elsewhere
  <2>4. Fits(t)'
    BY <1>1, <1>3, <1>4, <2>3 DEF Fits, StatusFits
  <2>5. \A v \in Tokens : AgreesOn(t, v) => AgreesOn(t, v)'
    BY <1>1, <1>3, <1>4, <1>7, <2>1, <2>2, <2>3 DEF AgreesOn, Agrees
  <2> QED
    BY <1>2, <2>2, <2>3, <2>4, <2>5, BusyInTurn
<1> QED
  BY <1>5, <1>6, <1>7

LEMMA RestoreInTurn ==
  ASSUME TabTypes, AgreeInv, NEW t \in Tabs, Restore(t)
  PROVE  AgreeInv'
<1> SUFFICES ASSUME ~overlapped' PROVE InTurn'
  BY DEF AgreeInv
<1> HIDE DEF NoOp
<1>1. /\ restoring[t] /\ restoring' = [restoring EXCEPT ![t] = FALSE]
      /\ UNCHANGED <<op, failing, overlapped>>
  BY DEF Restore
<1>2. InTurn /\ Busy(t)
  BY <1>1 DEF AgreeInv, Busy
<1>3. Fits(t) /\ op[t] = NoOp /\ failing[t] = FALSE /\ page[t].status = "SignedOut"
  BY <1>1, <1>2 DEF InTurn, Fits, StatusFits, TabTypes, ChangesFit
<1>4. restoring'[t] = FALSE /\ \A o \in Tabs : o # t => restoring'[o] = restoring[o]
  BY <1>1 DEF TabTypes, ChangesFit
<1>5. CASE meta = None
  <2>1. UNCHANGED <<page, channel, heard>>
    BY <1>5 DEF Restore
  <2>2. Elsewhere(t) /\ Fits(t)' /\ \A v \in Tokens : AgreesOn(t, v) => AgreesOn(t, v)'
    BY <1>1, <1>3, <1>4, <2>1 DEF Elsewhere, Fits, StatusFits, AgreesOn
  <2> QED
    BY <1>2, <2>1, <2>2, BusyInTurn
<1>6. CASE meta # None
  <2>1. meta.user \in Users /\ meta.token \in Users /\ BecomeSignedIn(t, meta.user, meta.token)
    BY <1>6 DEF TabTypes, StoresFit, Sessions, Restore
  <2> QED
    BY <1>1, <1>2, <1>3, <1>4, <2>1, SignedInInTurn
<1> QED
  BY <1>5, <1>6

LEMMA FailedInTurn ==
  ASSUME TabTypes, AgreeInv, NEW t \in Tabs, Failed(t)
  PROVE  AgreeInv'
<1> SUFFICES ASSUME ~overlapped' PROVE InTurn'
  BY DEF AgreeInv
<1> HIDE DEF NoOp
<1>1. /\ failing[t] /\ failing' = [failing EXCEPT ![t] = FALSE] /\ BecomeSignedOut(t)
      /\ UNCHANGED <<op, restoring, overlapped>>
  BY DEF Failed
<1>2. InTurn /\ Busy(t)
  BY <1>1 DEF AgreeInv, Busy
<1>3. restoring[t] = FALSE /\ (op[t] # NoOp => op[t].kind = "logout")
  BY <1>1, <1>2 DEF InTurn, Fits, StatusFits, TabTypes, ChangesFit
<1>4. \A o \in Tabs : o # t => failing'[o] = failing[o]
  BY <1>1 DEF TabTypes, ChangesFit
<1> QED
  BY <1>1, <1>2, <1>3, <1>4, SignedOutInTurn

LEMMA LastOfTail ==
  ASSUME NEW S, NEW q \in Seq(S), q # << >>
  PROVE  IF Tail(q) = << >> THEN q[Len(q)] = Head(q) ELSE Tail(q)[Len(Tail(q))] = q[Len(q)]
<1>1. /\ Tail(q) \in Seq(S) /\ Len(Tail(q)) = Len(q) - 1
      /\ \A i \in 1 .. Len(Tail(q)) : Tail(q)[i] = q[i + 1]
  BY HeadTailProperties
<1>2. Len(q) \in Nat \ {0}
  BY EmptySeq
<1>3. CASE Tail(q) = << >>
  <2>1. Len(Tail(q)) = 0
    BY <1>3, EmptySeq
  <2> DEFINE n == Len(q)
             k == Len(Tail(q))
  <2>2. n = 1
    <3>1. k = 0 /\ k = n - 1 /\ n \in Nat
      BY <1>1, <1>2, <2>1
    <3> HIDE DEF n, k
    <3> QED
      BY <3>1
  <2>3. Head(q) = q[1]
    OBVIOUS
  <2> QED
    BY <1>3, <2>2, <2>3
<1>4. CASE Tail(q) # << >>
  <2>1. Len(Tail(q)) \in Nat \ {0}
    BY <1>1, <1>4, EmptySeq
  <2> QED
    BY <1>1, <1>2, <1>4, <2>1
<1> QED
  BY <1>3, <1>4

\* A tab that is told shows what the last announcement says once it has
\* heard all of them.
LEMMA ReceiveInTurn ==
  ASSUME TabTypes, AgreeInv, NEW t \in Tabs, Receive(t)
  PROVE  AgreeInv'
<1> SUFFICES ASSUME ~overlapped' PROVE InTurn'
  BY DEF AgreeInv
<1> HIDE DEF NoOp
<1> DEFINE q == channel[t]
           msg == Head(channel[t])
<1>1. /\ q # << >> /\ channel' = [channel EXCEPT ![t] = Tail(q)] /\ heard' = [heard EXCEPT ![t] = TRUE]
      /\ UNCHANGED <<op, failing, restoring, overlapped>>
      /\ IF msg = None THEN page' = [page EXCEPT ![t] = SignedOut]
                       ELSE page' = [page EXCEPT ![t] = SignedIn(msg.user, msg.token)]
  BY DEF Receive
<1>2. InTurn /\ ~Busy(t)
  BY <1>1 DEF AgreeInv, InTurn, Alone
<1>3. op[t] = NoOp /\ ~failing[t] /\ ~restoring[t]
  BY <1>2 DEF Busy
<1>4. q \in Seq(Sessions \cup {None})
  BY DEF TabTypes, ChannelsFit
<1>5. IF Tail(q) = << >> THEN q[Len(q)] = msg ELSE Tail(q)[Len(Tail(q))] = q[Len(q)]
  BY <1>1, <1>4, LastOfTail
<1>6. /\ channel'[t] = Tail(q) /\ heard'[t] = TRUE /\ Elsewhere(t)
      /\ \A o \in Tabs : o # t => channel'[o] = channel[o]
  BY <1>1 DEF TabTypes, PagesFit, ChangesFit, ChannelsFit, Elsewhere
<1>7. page'[t].user = UserIn(msg) /\ (page'[t].status = "SignedOut" => page'[t].user = None)
  <2>1. page'[t] = IF msg = None THEN SignedOut ELSE SignedIn(msg.user, msg.token)
    BY <1>1 DEF TabTypes, PagesFit
  <2> HIDE DEF msg
  <2> QED
    BY <2>1 DEF UserIn, SignedOut, SignedIn
<1>8. Fits(t)' /\ ~Busy(t)'
  BY <1>1, <1>3, <1>7 DEF Fits, StatusFits, Busy
<1>9. ASSUME NEW v \in Tokens, AgreesOn(t, v) PROVE AgreesOn(t, v)'
  <2>1. UserIn(q[Len(q)]) = v
    BY <1>1, <1>9 DEF AgreesOn, Agrees
  <2> HIDE DEF q, msg
  <2> QED
    BY <1>1, <1>3, <1>5, <1>6, <1>7, <2>1 DEF AgreesOn, Agrees
<1> QED
  BY <1>2, <1>6, <1>8, <1>9, StaysInTurn

LEMMA SuccessInTurn ==
  ASSUME TabTypes, AgreeInv, NEW t \in Tabs, NEW m \in Answers, m.kind = "AuthSuccess", OnAuthSuccess(t, m),
         UNCHANGED <<restoring, channel, heard>>
  PROVE  AgreeInv'
<1> SUFFICES ASSUME ~overlapped' PROVE InTurn'
  BY DEF AgreeInv
<1> HIDE DEF NoOp
<1> DEFINE tok == IF m.user = Guest THEN None ELSE m.user
           answered == op[t] # NoOp /\ op[t].step = "ask" /\ op[t].id = m.id
           shown == IF tok = None THEN page[t] ELSE [page[t] EXCEPT !.token = tok]
           shows == CASE ~answered \/ op[t].kind \in {"login", "resume"} -> shown
                      [] answered /\ op[t].kind = "register" ->
                           [shown EXCEPT !.user = op[t].user, !.token = op[t].user]
                      [] answered /\ op[t].kind = "logout" -> [shown EXCEPT !.user = None, !.token = None]
<1>1. /\ op' = IF answered THEN [op EXCEPT ![t].step = AfterAnswer(op[t].kind)] ELSE op
      /\ page' = [page EXCEPT ![t] = shows]
      /\ UNCHANGED <<failing, overlapped>>
  BY DEF OnAuthSuccess
<1>2. InTurn
  BY <1>1 DEF AgreeInv
<1>3. shown \in Pages /\ shown.status = page[t].status /\ shown.user = page[t].user
  <2>1. tok \in Tokens
    BY DEF Answers, Tokens
  <2> HIDE DEF tok
  <2> QED
    BY <2>1 DEF TabTypes, PagesFit, Pages
<1>4. op[t] # NoOp => op[t] \in Calls
  BY DEF TabTypes, CallsFit
<1>5. page'[t] = shows /\ \A o \in Tabs : o # t => page'[o] = page[o]
  BY <1>1 DEF TabTypes, PagesFit
<1> HIDE DEF tok, shown
<1>6. CASE ~answered
  <2>1. shows = shown /\ op' = op
    BY <1>1, <1>6
  <2> HIDE DEF answered, shows
  <2>2. Elsewhere(t) /\ Fits(t)' /\ \A v \in Tokens : AgreesOn(t, v) => AgreesOn(t, v)'
    BY <1>1, <1>2, <1>3, <1>5, <2>1 DEF InTurn, Elsewhere, Fits, StatusFits, AgreesOn, Agrees, Announces
  <2>3. (Busy(t) <=> Busy(t)') /\ \A o \in Tabs : o # t => (Busy(o) <=> Busy(o)')
    BY <1>1, <2>1 DEF Busy
  <2>4. Busy(t)' => Alone(t)'
    BY <1>2, <2>3 DEF InTurn, Alone
  <2>5. Busy(t)' => \A o \in Tabs : o # t => ~Busy(o)
    BY <1>2, <2>3 DEF InTurn, Alone
  <2> QED
    BY <1>2, <2>2, <2>4, <2>5, StaysInTurn
<1>7. CASE answered
  <2> DEFINE s == AfterAnswer(op[t].kind)
  <2>1. op[t] # NoOp /\ op[t].step = "ask" /\ op' = [op EXCEPT ![t].step = s] /\ op[t] \in Calls
    BY <1>1, <1>4, <1>7
  <2>2. /\ s \in {"clear", "connect", "wait", "ask", "store"}
        /\ op[t].kind = "register" => s = "clear"
        /\ op[t].kind = "resume" => s = "store"
    BY DEF AfterAnswer
  <2> HIDE DEF s
  <2>3. PICK o \in Calls : /\ op' = [op EXCEPT ![t] = o]
                           /\ o.step = s /\ o.kind = op[t].kind /\ o.name = op[t].name
    <3>1. CallsFit
      BY DEF TabTypes
    <3> HIDE DEF answered, shows
    <3>2. \E o \in Calls : /\ op' = [op EXCEPT ![t] = o]
                           /\ o.step = s /\ o.kind = op[t].kind /\ o.name = op[t].name /\ o.user = op[t].user
      BY <2>1, <2>2, <3>1, NextStepIsACall
    <3> QED
      BY <3>2
  <2>4. op'[t] = o /\ o # NoOp /\ Elsewhere(t)
    BY <1>1, <1>5, <2>3, CallIsUnderWay DEF TabTypes, CallsFit, Elsewhere
  <2>5. Busy(t) /\ channel[t] = << >> /\ Fits(t)
    BY <1>2, <2>1 DEF Busy, InTurn, Alone
  <2>6. /\ op[t].kind \in {"login", "resume"} => (shows.status = page[t].status /\ shows.user = page[t].user)
        /\ op[t].kind = "register" => shows.status = page[t].status
        /\ op[t].kind = "logout" => (shows.status = page[t].status /\ shows.user = None)
        /\ op[t].kind \in {"register", "login", "resume", "logout"}
    <3>1. CASE op[t].kind \in {"login", "resume"}
      <4>1. shows = shown
        BY <3>1
      <4> HIDE DEF shows
      <4> QED
        BY <1>3, <3>1, <4>1
    <3>2. CASE op[t].kind = "register"
      <4>1. shows = [shown EXCEPT !.user = op[t].user, !.token = op[t].user]
        BY <1>7, <3>2
      <4> HIDE DEF shows
      <4> QED
        BY <1>3, <3>2, <4>1 DEF Pages
    <3>3. CASE op[t].kind = "logout"
      <4>1. shows = [shown EXCEPT !.user = None, !.token = None]
        BY <1>7, <3>3
      <4> HIDE DEF shows
      <4> QED
        BY <1>3, <3>3, <4>1 DEF Pages
    <3>4. op[t].kind \in {"register", "login", "resume", "logout"}
      BY <2>1 DEF Calls
    <3> QED
      BY <3>1, <3>2, <3>3, <3>4
  <2> HIDE DEF shows, answered
  <2>7. Fits(t)'
    BY <1>1, <1>5, <2>1, <2>3, <2>4, <2>5, <2>6 DEF Fits, StatusFits
  <2>8. ASSUME NEW v \in Tokens, AgreesOn(t, v) PROVE AgreesOn(t, v)'
    <3>1. (heard[t] /\ op[t].kind = "resume" /\ op[t].name = None) => v = None
      BY <2>1, <2>8 DEF AgreesOn, Agrees
    <3>2. heard[t] => page[t].user = v \/ Announces(page[t], op[t], failing[t])
      BY <2>5, <2>8 DEF AgreesOn, Agrees
    <3>3. heard[t] => page'[t].user = v \/ Announces(page'[t], o, failing[t])
      BY <1>5, <2>1, <2>2, <2>3, <2>4, <2>5, <2>6, <3>2 DEF Fits, StatusFits, Announces
    <3>4. channel'[t] = << >> /\ heard'[t] = heard[t] /\ failing'[t] = failing[t]
      BY <1>1, <2>5
    <3> QED
      BY <2>3, <2>4, <3>1, <3>3, <3>4 DEF AgreesOn, Agrees
  <2> QED
    BY <1>2, <2>4, <2>5, <2>7, <2>8, BusyInTurn
<1> QED
  BY <1>6, <1>7

\* A refusal begins a sign-out, which nothing else is under way beside.
LEMMA ErrorInTurn ==
  ASSUME TabTypes, AgreeInv, NEW t \in Tabs, OnAuthError(t), UNCHANGED <<restoring, channel, heard>>
  PROVE  AgreeInv'
<1> SUFFICES ASSUME ~overlapped' PROVE InTurn'
  BY DEF AgreeInv
<1> HIDE DEF NoOp
<1> DEFINE waits == op[t] # NoOp /\ op[t].step = "ask"
           left == IF waits THEN StatusAfterFailure(op[t], page[t]) ELSE page[t]
           p == [left EXCEPT !.user = None, !.token = None]
           o == IF waits THEN AfterFailure(t, op[t]) ELSE op[t]
<1>1. /\ op' = IF waits THEN [op EXCEPT ![t] = AfterFailure(t, op[t])] ELSE op
      /\ page' = [page EXCEPT ![t] = p]
      /\ overlapped' = (overlapped \/ Others(t) \/ failing[t] \/ restoring[t] \/ (op[t] # NoOp /\ ~waits))
      /\ failing' = [failing EXCEPT ![t] = TRUE]
  BY DEF OnAuthError
<1>2. /\ InTurn /\ ~Others(t) /\ failing[t] = FALSE /\ restoring[t] = FALSE
      /\ op[t] # NoOp => waits
  BY <1>1 DEF AgreeInv, TabTypes, ChangesFit
<1>3. /\ channel[t] = << >> /\ \A q \in Tabs : q # t => ~Busy(q)
  BY <1>2 DEF Others, Busy
<1>4. /\ op[t] # NoOp => op[t] \in Calls
      /\ page[t] \in Pages
  BY DEF TabTypes, CallsFit, PagesFit
<1>5. /\ p.user = None /\ p.status = left.status
      /\ left.status = page[t].status \/ left.status = "Error"
  <2>1. left \in Pages /\ (left.status = page[t].status \/ left.status = "Error")
    BY <1>4 DEF StatusAfterFailure, Pages, Tokens
  <2> HIDE DEF left
  <2> QED
    BY <2>1 DEF Pages
<1>6. o = NoOp \/ o.kind = "logout"
  <2>1. CASE waits /\ op[t].kind = "logout"
    <3>1. o = [op[t] EXCEPT !.step = "clear"]
      BY <2>1 DEF AfterFailure
    <3> HIDE DEF o
    <3> QED
      BY <1>4, <2>1, <3>1 DEF Calls
  <2>2. CASE waits /\ op[t].kind # "logout"
    BY <2>2 DEF AfterFailure
  <2>3. CASE ~waits
    BY <1>2, <2>3
  <2> QED
    BY <2>1, <2>2, <2>3
<1> HIDE DEF p, left
<1>7. op'[t] = o /\ page'[t] = p /\ failing'[t] = TRUE /\ Elsewhere(t)
  <2>1. op'[t] = o /\ \A q \in Tabs : q # t => op'[q] = op[q]
    BY <1>1 DEF TabTypes, CallsFit
  <2> HIDE DEF o
  <2> QED
    BY <1>1, <2>1 DEF TabTypes, PagesFit, ChangesFit, Elsewhere
<1> HIDE DEF o, waits
<1>8. Fits(t)'
  BY <1>2, <1>5, <1>6, <1>7 DEF Fits, StatusFits
<1>9. Alone(t)'
  BY <1>3, <1>7 DEF Alone, Busy, Elsewhere
<1>10. ASSUME NEW v \in Tokens, AgreesOn(t, v) PROVE AgreesOn(t, v)'
  <2>1. (heard[t] /\ page[t].status = "SignedOut") => v = None
    BY <1>2, <1>3, <1>10 DEF InTurn, Fits, StatusFits, AgreesOn, Agrees, Announces
  <2>2. heard[t] => (p.user = v \/ Announces(p, o, TRUE))
    BY <1>5, <2>1 DEF Announces
  <2> QED
    BY <1>3, <1>6, <1>7, <2>2 DEF AgreesOn, Agrees
<1> QED
  BY <1>2, <1>3, <1>7, <1>8, <1>9, <1>10, StaysInTurn

LEMMA HandledInTurn ==
  ASSUME TabTypes, AgreeInv, NEW t \in Tabs, Hear(t) \/ HearLate(t)
  PROVE  AgreeInv'
<1>1. PICK m \in Answers : On(t, m)
  <2>1. CASE Hear(t)
    <3>1. Head(down[t]) \in Answers
      BY <2>1 DEF TabTypes, WiresFit, Hear
    <3> QED
      BY <2>1, <3>1 DEF Hear
  <2>2. CASE HearLate(t)
    <3>1. Head(late[t]) \in Answers
      BY <2>2 DEF TabTypes, WiresFit, HearLate
    <3> QED
      BY <2>2, <3>1 DEF HearLate
  <2> QED
    BY <2>1, <2>2
<1>2. UNCHANGED <<restoring, channel, heard>>
  BY DEF Hear, HearLate
<1>3. CASE m.kind = "AuthSuccess" /\ OnAuthSuccess(t, m)
  BY <1>2, <1>3, SuccessInTurn
<1>4. CASE OnAuthError(t)
  BY <1>2, <1>4, ErrorInTurn
<1>5. CASE OnAck(t, m) \/ OnError(t, m)
  <2>1. UNCHANGED <<op, page, failing, overlapped>>
    BY <1>5 DEF OnAck, OnError
  <2> QED
    BY <1>2, <2>1, UntouchedInTurn
<1> QED
  BY <1>1, <1>3, <1>4, <1>5 DEF On

LEMMA AgreementIsKept ==
  ASSUME TabTypes, AgreeInv, [Next]_vars
  PROVE  AgreeInv'
<1>1. CASE UNCHANGED vars
  BY <1>1, UntouchedInTurn DEF vars
<1>2. CASE Next
  <2>1. PICK t \in Tabs :
    \/ Load(t) \/ Open(t) \/ Lose(t) \/ Reconnect(t) \/ GoOffline(t) \/ GoOnline(t) \/ SendAuth(t)
    \/ Begin(t) \/ Clear(t) \/ Ensure(t) \/ Ask(t) \/ GiveUp(t) \/ Timeout(t) \/ Store(t)
    \/ Restore(t) \/ RefreshRead(t) \/ RefreshWrite(t) \/ Failed(t) \/ Receive(t)
    \/ Write(t) \/ PushRead(t) \/ PushSend(t) \/ Remove(t) \/ Hear(t) \/ HearLate(t) \/ Serve(t)
    BY <1>2 DEF Next
  <2>2. CASE Open(t) \/ Reconnect(t) \/ GoOffline(t) \/ GoOnline(t) \/ SendAuth(t)
    BY <2>2, UntouchedInTurn DEF Open, Reconnect, GoOffline, GoOnline, SendAuth
  <2>3. CASE RefreshRead(t) \/ RefreshWrite(t)
    BY <2>3, UntouchedInTurn DEF RefreshRead, RefreshWrite
  <2>4. CASE Write(t) \/ PushRead(t) \/ PushSend(t) \/ Remove(t) \/ Serve(t)
    BY <2>4, UntouchedInTurn DEF Write, PushRead, PushSend, Remove, Serve
  <2>5. CASE Load(t) \/ Lose(t) \/ Begin(t) \/ Clear(t)
    BY <2>5, LoadInTurn, LoseInTurn, BeginInTurn, ClearInTurn
  <2>6. CASE Ensure(t) \/ Ask(t) \/ GiveUp(t) \/ Timeout(t) \/ Store(t)
    BY <2>6, EnsureInTurn, AskInTurn, GiveUpInTurn, StoreInTurn
  <2>7. CASE Restore(t) \/ Failed(t) \/ Receive(t) \/ Hear(t) \/ HearLate(t)
    BY <2>7, RestoreInTurn, FailedInTurn, ReceiveInTurn, HandledInTurn
  <2> QED
    BY <2>1, <2>2, <2>3, <2>4, <2>5, <2>6, <2>7
<1> QED
  BY <1>1, <1>2

LEMMA InTurnTabsAgree ==
  ASSUME AgreeInv
  PROVE  TabsAgree
<1> SUFFICES ASSUME ~overlapped, \A t \in Tabs : Quiet(t)
             PROVE  \A t, o \in {x \in Tabs : heard[x]} : page[t].user = page[o].user
  BY DEF TabsAgree
<1>1. PICK v \in Tokens : \A t \in Tabs : AgreesOn(t, v)
  BY DEF AgreeInv, InTurn
<1>2. \A t \in Tabs : op[t] = NoOp /\ ~failing[t] /\ channel[t] = << >>
  BY DEF Quiet
<1> HIDE DEF NoOp
<1>3. \A t \in Tabs : heard[t] => page[t].user = v
  BY <1>1, <1>2 DEF AgreesOn, Agrees, Announces
<1> QED
  BY <1>3

\* The tabs agree on the user who is signed in, however many tabs are open
\* and whatever they hear of, as long as no two changes of the session have
\* overlapped (auth.ts:148-191, client.ts:109-165).
THEOREM TabsAlwaysAgree == Spec => []TabsAgree
<1>1. Init => AgreeInv
  BY AgreeAtFirst
<1>2. AgreeInv /\ TabsInv /\ [Next]_vars => AgreeInv'
  BY AgreementIsKept DEF TabsInv
<1>3. AgreeInv => TabsAgree
  BY InTurnTabsAgree
<1> QED
  BY <1>1, <1>2, <1>3, TabsWellKept, PTL DEF Spec
=============================================================================
