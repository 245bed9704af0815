----------------------------- MODULE Accounts ------------------------------
(***************************************************************************)
(* User accounts and signing in: createUser, renameUser, deleteUser and    *)
(* the passwords of the three engines (src/server/storage/memory.ts,       *)
(* file.ts, sqlite.ts), tokens (user.ts, storage.ts, shared/crypto.ts),    *)
(* the handlers that register and sign in (src/server/sync.ts), declared   *)
(* users (server.ts) and what an administrator does (admin.ts,             *)
(* http/admin.ts).                                                         *)
(*                                                                         *)
(* A handler is cut where it waits.  Hashing a password takes long, and    *)
(* that is where the others get in.  A hash is the password with a salt of *)
(* its own; a token carries a digest of the hash, here the hash itself.    *)
(* Records, sessions and the limit on them are in the engines' modules and *)
(* in ServerSessions.  The file engine works on its users under one lock   *)
(* (FileStorage), so a read and write there is one step.                   *)
(*                                                                         *)
(* RefusesInSqlite and MatchesId are slips the code might have made at the *)
(* definition that follows each; only the tests of the properties use      *)
(* them.                                                                   *)
(***************************************************************************)
EXTENDS RateLimiter, FiniteSets, FiniteSetsExt

CONSTANTS Engines,     \* a subset of {"memory", "file", "sqlite"}
          Names,
          Passwords,
          Callers,     \* connections and administrators
          None,
          Kinds,       \* what they ask for
          First,       \* the name and password of the account there is at first
          MaxJobs,     \* BOUND on requests
          MaxTime      \* BOUND on the clock

ASSUME AccountsAssumption ==
  /\ Engines \subseteq {"memory", "file", "sqlite"}
  /\ Kinds \subseteq {"register", "login", "token", "create", "declare", "rename", "delete"}
  /\ First \in [name : Names, pw : Passwords]
  /\ MaxJobs \in Nat /\ MaxTime \in Nat
  /\ None \notin Nat \union [pw : Passwords, salt : Nat]

VARIABLES
  engine,     \* which engine the server has
  accounts,   \* accounts[id] : [name, hash] for each account there is
  byName,     \* usersByUserName: name to id, in the memory engine
  drawn,      \* ids and salts drawn so far
  job,        \* job[c] : what is under way for a caller; its secret is the
              \* hash to store, the password or the token to check, and then
              \* the hash that was matched
  tokens,     \* tokens that were given out: [id, pwd], and [proof, raced]
  limiter,    \* userLoginLimiter
  now,        \* the clock
  jobs,       \* requests so far
  contested,  \* HISTORY VARIABLE: names that the memory engine gave out while
              \* another registration had found them free
  due,        \* HISTORY VARIABLE: due[n] : until when n was blocked last
  early       \* HISTORY VARIABLE: an attempt was granted before that

vars == <<engine, accounts, byName, drawn, job, tokens, limiter, now, jobs, contested,
          due, early>>
limits == <<limiter, due, early>>
users == <<accounts, byName, drawn, contested>>

Idle == [step |-> "idle"]
Hash(pw, n) == [pw |-> pw, salt |-> n]
Exists(id) == id \in DOMAIN accounts

Named(n) == {id \in DOMAIN accounts : accounts[id].name = n}

\* getUserByUserName: the memory engine has an index of the names, the others
\* search their users.
FoundByIndex(n) == IF byName[n] # None /\ Exists(byName[n]) THEN byName[n] ELSE None
FoundBySearch(n) == IF Named(n) = {} THEN None ELSE CHOOSE id \in Named(n) : TRUE
Lookup(n) == IF engine = "memory" THEN FoundByIndex(n) ELSE FoundBySearch(n)

Init ==
  /\ engine \in Engines
  /\ accounts = [id \in {1} |-> [name |-> First.name, hash |-> Hash(First.pw, 1)]]
  /\ byName = [n \in Names |-> IF n = First.name THEN 1 ELSE None]
  /\ drawn = 1
  /\ job = [c \in Callers |-> Idle]
  /\ tokens = {} /\ limiter = <<>> /\ now = 1 /\ jobs = 0
  /\ contested = {} /\ due = [n \in Names |-> 0] /\ early = FALSE

Ask(c, kind) == /\ kind \in Kinds /\ job[c] = Idle
                /\ jobs < MaxJobs /\ jobs' = jobs + 1

Goes(c, step, id, n, secret) ==
  job' = [job EXCEPT ![c] =
           [step |-> step, id |-> id, name |-> n, secret |-> secret, raced |-> FALSE,
            signs |-> FALSE]]
Ends(c) == job' = [job EXCEPT ![c] = Idle]

(***************************************************************************)
(* Making accounts                                                         *)
(***************************************************************************)
\* The memory and sqlite engines look whether the name is free before they hash
\* the password, and every engine but the memory one when it stores the account.
LooksFirst == engine \in {"memory", "sqlite"}
RefusesInSqlite(n) == engine = "sqlite" /\ Named(n) # {}
Refuses(n) == engine \in {"file", "sqlite"} /\ Named(n) # {}

Create(c, n, pw, signs) ==
  IF LooksFirst /\ Lookup(n) # None THEN UNCHANGED <<job, drawn>>
  ELSE /\ drawn' = drawn + 1
       /\ job' = [job EXCEPT ![c] =
            [step |-> "hashing", id |-> drawn', name |-> n, secret |-> Hash(pw, drawn'),
             raced |-> FALSE, signs |-> signs]]

\* handleRegisterMessage, and createUser of the administrator
Register(c, n, pw) ==
  /\ Ask(c, "register")
  /\ IF Lookup(n) # None THEN UNCHANGED <<job, drawn>> ELSE Create(c, n, pw, TRUE)
  /\ UNCHANGED <<engine, accounts, byName, tokens, limits, now, contested>>

AdminCreate(c, n, pw) ==
  /\ Ask(c, "create")
  /\ Create(c, n, pw, FALSE)
  /\ UNCHANGED <<engine, accounts, byName, tokens, limits, now, contested>>

\* declareUser: a user that there is gets a new password.
Declare(c, n, pw) ==
  /\ Ask(c, "declare")
  /\ IF Lookup(n) = None THEN Create(c, n, pw, FALSE)
     ELSE /\ drawn' = drawn + 1
          /\ Goes(c, "rehashing", Lookup(n), n, Hash(pw, drawn'))
  /\ UNCHANGED <<engine, accounts, byName, tokens, limits, now, contested>>

\* Somebody else has found the name free, and the engine will not look again.
Contested(c, n) ==
  IF engine = "memory" /\ \E d \in Callers \ {c} : job[d].step = "hashing" /\ job[d].name = n
  THEN contested \union {n} ELSE contested

Save(c) ==
  LET j == job[c]
  IN  /\ j.step = "hashing"
      /\ IF Refuses(j.name) THEN Ends(c) /\ UNCHANGED <<accounts, byName, contested>>
         ELSE /\ accounts' = [id \in DOMAIN accounts \union {j.id} |->
                   IF id = j.id THEN [name |-> j.name, hash |-> j.secret] ELSE accounts[id]]
              /\ byName' = [byName EXCEPT ![j.name] = j.id]
              /\ contested' = Contested(c, j.name)
              /\ IF j.signs THEN job' = [job EXCEPT ![c].step = "token"] ELSE Ends(c)
      /\ UNCHANGED <<engine, drawn, tokens, limits, now, jobs>>

\* setUserPasswordHash.  For an account that is gone sqlite does nothing, the other
\* engines throw: nothing is stored, and the request ends.
SetPassword(c) ==
  LET j == job[c]
  IN  /\ j.step = "rehashing"
      /\ IF ~Exists(j.id) THEN Ends(c) /\ UNCHANGED accounts
         ELSE /\ accounts' = [accounts EXCEPT ![j.id].hash = j.secret]
              /\ job' = [d \in Callers |->
                   IF d = c THEN Idle
                   ELSE IF job[d].step \in {"comparing", "token"} /\ job[d].id = j.id
                   THEN [job[d] EXCEPT !.raced = TRUE] ELSE job[d]]
      /\ UNCHANGED <<engine, byName, drawn, contested, tokens, limits, now, jobs>>

\* The index after account id took the name n.
Rekeyed(id, n) == [[byName EXCEPT ![accounts[id].name] = None] EXCEPT ![n] = id]

\* renameUser
Rename(c, id, n) ==
  /\ Ask(c, "rename") /\ Exists(id)
  /\ IF accounts[id].name # n /\ Lookup(n) # None THEN UNCHANGED users
     ELSE /\ accounts' = [accounts EXCEPT ![id].name = n]
          /\ byName' = Rekeyed(id, n)
          /\ contested' = Contested(c, n)
          /\ UNCHANGED drawn
  /\ UNCHANGED <<engine, job, tokens, limits, now>>

\* deleteUser
Delete(c, id) ==
  /\ Ask(c, "delete") /\ Exists(id)
  /\ accounts' = [i \in DOMAIN accounts \ {id} |-> accounts[i]]
  /\ byName' = [byName EXCEPT ![accounts[id].name] = None]
  /\ UNCHANGED <<engine, drawn, contested, job, tokens, limits, now>>

\* handleUsersCommand and its requests: add, mv, rm
Administer(c) ==
  \E n \in Names :
    \/ \E pw \in Passwords : AdminCreate(c, n, pw)
    \/ \E id \in DOMAIN accounts : Rename(c, id, n) \/ Delete(c, id)

(***************************************************************************)
(* Signing in                                                              *)
(***************************************************************************)
\* A full map in which nothing is stale may drop a key that is blocked.
Spared(map, n) ==
  IF Len(map) >= MaxEntries /\ ~Has(map, n) /\ \A i \in DOMAIN map : ~Stale(map[i], now)
  THEN [due EXCEPT ![map[1].key] = 0] ELSE due

\* handleLoginMessage with a name and a password: the account is looked up after
\* an attempt was consumed.
Login(c, n, pw) ==
  /\ Ask(c, "login")
  /\ IF IsLimited(limiter, n, now)
     THEN /\ limiter' = Looked(limiter, n, now)
          /\ UNCHANGED <<job, due, early>>
     ELSE /\ limiter' = Consumed(limiter, n, now)
          /\ due' = Spared(Looked(limiter, n, now), n)
          /\ early' = (early \/ now < due[n])
          /\ Goes(c, "looking", Lookup(n), n, pw)
  /\ UNCHANGED <<engine, users, tokens, now>>

\* verifyPasswordHash; for a name that is unknown, verifyDummyPasswordHash
Fits(hash, pw) == hash # None /\ hash.pw = pw

\* verifyPassword reads the hash.  An account that is gone makes the handler throw,
\* which the limiter is not told of.
ReadHash(c) ==
  LET j == job[c]
  IN  /\ j.step = "looking"
      /\ IF j.id # None /\ ~Exists(j.id) THEN Ends(c)
         ELSE LET h == IF j.id = None THEN None ELSE accounts[j.id].hash
              IN  job' = [job EXCEPT ![c] = [@ EXCEPT
                     !.step = IF Fits(h, j.secret) THEN "comparing" ELSE "failing",
                     !.secret = h]]
      /\ UNCHANGED <<engine, users, tokens, limits, now, jobs>>

\* The comparison ends: a failure is recorded, a success forgives all of them.
Compared(c) ==
  LET j == job[c]
  IN  /\ j.step = "comparing"
      /\ limiter' = Reset(limiter, j.name)
      /\ due' = [due EXCEPT ![j.name] = 0]
      /\ job' = [job EXCEPT ![c].step = "token"]
      /\ UNCHANGED <<engine, users, tokens, now, jobs, early>>

Mismatched(c) ==
  LET j == job[c]
  IN  /\ j.step = "failing"
      /\ limiter' = Failed(limiter, j.name, now)
      /\ due' = [Spared(limiter, j.name) EXCEPT
                   ![j.name] = Of(limiter', j.name).blockedUntil]
      /\ Ends(c)
      /\ UNCHANGED <<engine, users, tokens, now, jobs, early>>

\* verifyToken, once the user was found: a user that is gone by now has no hash
\* to compare with.
MatchesId(t) == TRUE
Matches(t) == ~Exists(t.id) \/ t.pwd = accounts[t.id].hash

TokenLogin(c, t) ==
  /\ Ask(c, "token")
  /\ IF ~Exists(t.id) THEN UNCHANGED job
     ELSE job' = [job EXCEPT ![c] =
            [step |-> "checking", id |-> t.id, name |-> None, secret |-> t, raced |-> t.raced,
             signs |-> FALSE]]
  /\ UNCHANGED <<engine, users, tokens, limits, now>>

CheckToken(c) ==
  LET j == job[c]
  IN  /\ j.step = "checking"
      /\ IF Matches(j.secret)
         THEN job' = [job EXCEPT ![c] = [@ EXCEPT !.step = "token", !.secret = j.secret.proof]]
         ELSE Ends(c)
      /\ UNCHANGED <<engine, users, tokens, limits, now, jobs>>

\* createSessionToken: what is signed, and which hash it was earned with.
Token(id, proof, raced) ==
  [id |-> id, pwd |-> IF Exists(id) THEN accounts[id].hash ELSE None,
   proof |-> proof, raced |-> raced]

\* completeAuthentication: createToken reads the hash of the moment.
MakeToken(c) ==
  LET j == job[c]
  IN  /\ j.step = "token"
      /\ tokens' = tokens \union {Token(j.id, j.secret, j.raced)}
      /\ Ends(c)
      /\ UNCHANGED <<engine, users, limits, now, jobs>>

Tick ==
  /\ now < MaxTime /\ now' = now + 1
  /\ UNCHANGED <<engine, users, job, tokens, limits, jobs>>

Next ==
  \/ Tick
  \/ \E c \in Callers :
       \/ \E n \in Names, pw \in Passwords :
            \/ Register(c, n, pw) \/ Declare(c, n, pw) \/ Login(c, n, pw)
       \/ Administer(c)
       \/ \E t \in tokens : TokenLogin(c, t)
       \/ Save(c) \/ SetPassword(c) \/ ReadHash(c) \/ Compared(c) \/ Mismatched(c)
       \/ CheckToken(c) \/ MakeToken(c)

Spec == Init /\ [][Next]_vars

(***************************************************************************)
(* Properties                                                              *)
(***************************************************************************)
\* A name belongs to one account, and looking it up finds that account, however
\* registrations, renames and deletions overlap (the lock on users.json, UNIQUE
\* in sqlite.ts).  The memory engine promises this only for names that were not
\* given out while another registration had found them free (memory.ts:121-137).
OneNameOneAccount ==
  \A n \in Names \ contested :
    /\ Cardinality(Named(n)) <= 1
    /\ \A id \in Named(n) : Lookup(n) = id

\* A token that would be accepted was earned with the password that the account
\* has now, directly or by the token it was exchanged for, unless the password
\* was changed while somebody was signing in (createToken, verifyToken).
TokensFollowPassword ==
  \A t \in tokens :
    Exists(t.id) /\ Matches(t) => t.proof = accounts[t.id].hash \/ t.raced

\* No attempt to sign in is granted on a name that is still blocked, unless
\* somebody signed in under it meanwhile, or its entry had to make room in a map
\* in which nothing was stale.  Attempts overlap, and the map is cleaned and
\* evicted in between (consume, recordFailure, setEntry).
BackoffKept == ~early
=============================================================================
