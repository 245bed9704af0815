------------------------ MODULE AdministrationProofs ------------------------
(***************************************************************************)
(* What holds of accounts, and of a table and those who administer it, for *)
(* any number of callers, names, passwords, users, requests, restarts and  *)
(* changes of settings: a name is one account's, a token goes with the     *)
(* password it was earned with, nobody tries a password on a name that is  *)
(* blocked, no change of settings is lost to another that the server works *)
(* on, a row put while the table was private is shown to its author alone, *)
(* and the lock that keeps commands away from a server's data is one       *)
(* process's.                                                              *)
(***************************************************************************)
EXTENDS Accounts, Administration, ServerLock, FiniteSetTheorems, SequenceTheorems,
        NaturalsInduction, WellFoundedInduction, TLAPS

(***************************************************************************)
(* Accounts, with each of the three engines.                               *)
(*                                                                         *)
(* Neither property is inductive.  A name is found free long before the    *)
(* account is stored, so OneNameOneAccount needs what a handler that       *)
(* hashes may still rely on (FreeStaysFree), and that the index and the    *)
(* ids are in step with the accounts (IndexFollows).  TokensFollowPassword *)
(* needs the same of a handler that has read a hash but not made the token *)
(* (EarnedNow), and that no hash is ever made twice (HashesAreNew).        *)
(***************************************************************************)

Hashes == [pw : Passwords, salt : Nat]
Tokens == [id : Nat, pwd : Hashes \union {None}, proof : Hashes, raced : BOOLEAN]
Secrets == Passwords \union Hashes \union Tokens \union {None}
JobSteps ==
  {"hashing", "rehashing", "looking", "comparing", "failing", "checking", "token"}
Jobs == [step : JobSteps, id : Nat \union {None}, name : Names \union {None},
         secret : Secrets, raced : BOOLEAN, signs : BOOLEAN]
Account == [name : Names, hash : Hashes]

Busy(j) == j # Idle
Pending(j) == j.step \in {"hashing", "rehashing"}

AccountsTypeOK ==
  /\ engine \in Engines
  /\ drawn \in Nat
  /\ DOMAIN accounts \subseteq Nat /\ accounts \in [DOMAIN accounts -> Account]
  /\ byName \in [Names -> Nat \union {None}]
  /\ job \in [Callers -> {Idle} \union Jobs]
  /\ tokens \subseteq Tokens
  /\ contested \subseteq Names

\* What a job carries along: to store an account there is a name and an id, and so
\* for each step what the next one goes by.
CarriesOn(j) ==
  /\ Pending(j) => /\ j.name \in Names /\ j.id \in Nat
                   /\ j.secret \in Hashes /\ j.secret.salt <= drawn
  /\ j.step \in {"comparing", "token"} => j.id \in Nat /\ j.secret \in Hashes
  /\ j.step \in {"hashing", "looking"} => ~j.raced
  /\ j.step \in {"looking", "comparing", "failing"} => j.name \in Names
  /\ j.step = "looking" => j.secret \in Passwords
  /\ j.step = "checking" => /\ j.secret \in tokens
                            /\ j.id = j.secret.id /\ j.raced = j.secret.raced
JobsCarryOn == \A c \in Callers : CarriesOn(job[c])

\* Ids are new: whose account is being made is not known to anybody else.
IdsAreNew ==
  /\ \A id \in DOMAIN accounts : id <= drawn
  /\ \A t \in tokens : t.id <= drawn
  /\ \A c \in Callers : Busy(job[c]) /\ job[c].id # None => job[c].id <= drawn
  /\ \A c \in Callers : job[c].step = "hashing" =>
       /\ ~Exists(job[c].id)
       /\ \A d \in Callers \ {c} : Busy(job[d]) => job[d].id # job[c].id
       /\ \A t \in tokens : t.id # job[c].id

\* Hashes are new: one that is to be stored is nobody's yet.
HashesAreNew ==
  /\ \A id \in DOMAIN accounts : accounts[id].hash.salt <= drawn
  /\ \A t \in tokens : t.pwd # None => t.pwd.salt <= drawn
  /\ \A c \in Callers : Pending(job[c]) =>
       /\ \A id \in DOMAIN accounts : accounts[id].hash # job[c].secret
       /\ \A t \in tokens : t.pwd # job[c].secret
       /\ \A d \in Callers \ {c} : Pending(job[d]) => job[d].secret # job[c].secret

\* An account is found under its name: by the index, unless the name was given out
\* twice, or because no other account has it.
IndexFollows ==
  \A id \in DOMAIN accounts :
    IF engine = "memory"
    THEN accounts[id].name \notin contested => byName[accounts[id].name] = id
    ELSE \A other \in DOMAIN accounts : accounts[other].name = accounts[id].name => other = id

\* In the memory engine a name that was found free for a handler is free until the
\* handler takes it, or it is known to be contested.
FreeStaysFree ==
  engine = "memory" =>
    \A c \in Callers : job[c].step = "hashing" /\ job[c].name \notin contested =>
      Named(job[c].name) = {}

\* Who is about to get a token has shown the password of the moment, or it was
\* changed meanwhile.
Earned(j) ==
  j.step \in {"comparing", "token"} /\ Exists(j.id) =>
    j.secret = accounts[j.id].hash \/ j.raced
EarnedNow == \A c \in Callers : Earned(job[c])

AccountsInv ==
  /\ AccountsTypeOK /\ JobsCarryOn /\ IdsAreNew /\ HashesAreNew
  /\ IndexFollows /\ FreeStaysFree /\ EarnedNow /\ TokensFollowPassword

\* A caller who does nothing has no step, and who does something has a job.
LEMMA JobIsJob ==
  ASSUME AccountsTypeOK, NEW c \in Callers
  PROVE  /\ job[c] = Idle \/ job[c] \in Jobs
         /\ job[c] = Idle => job[c].step = "idle"
         /\ job[c].step # "idle" => job[c] \in Jobs /\ Busy(job[c])
BY DEF AccountsTypeOK, Idle, Busy, Jobs, JobSteps

\* What a name is looked up to: an account that is there, or none.
LEMMA LookupFindsAccount ==
  ASSUME AccountsTypeOK, NEW n \in Names
  PROVE  Lookup(n) # None => Lookup(n) \in DOMAIN accounts
BY DEF Lookup, FoundByIndex, FoundBySearch, Named, Exists

\* A name that nothing is found under is free, in memory if it was not given out twice.
LEMMA NotFoundIsFree ==
  ASSUME AccountsTypeOK, IndexFollows, NEW n \in Names, Lookup(n) = None,
         engine = "memory" => n \notin contested
  PROVE  Named(n) = {}
<1>1. CASE engine = "memory"
  <2>1. SUFFICES ASSUME NEW id \in Named(n) PROVE FALSE
    OBVIOUS
  <2>2. id \in DOMAIN accounts /\ byName[n] = id /\ id # None
    BY <1>1, <2>1, AccountsAssumption DEF Named, IndexFollows, AccountsTypeOK
  <2> QED
    BY <1>1, <2>2 DEF Lookup, FoundByIndex, Exists
<1>2. CASE engine # "memory"
  <2>1. Named(n) # {} => (CHOOSE id \in Named(n) : TRUE) \in Named(n)
    OBVIOUS
  <2>2. Named(n) \subseteq Nat
    BY DEF Named, AccountsTypeOK
  <2> QED
    BY <1>2, <2>1, <2>2, AccountsAssumption DEF Lookup, FoundBySearch
<1> QED
  BY <1>1, <1>2

\* With one account at first and nobody at work the invariant holds.
LEMMA InitAccounts == Init => AccountsInv
<1> SUFFICES ASSUME Init PROVE AccountsInv
  OBVIOUS
<1>1. accounts = [id \in {1} |-> [name |-> First.name, hash |-> Hash(First.pw, 1)]]
  BY DEF Init
<1>2. First.name \in Names /\ First.pw \in Passwords
  BY AccountsAssumption
<1>3. AccountsTypeOK
  BY <1>1, <1>2 DEF Init, AccountsTypeOK, Account, Hashes, Hash
<1> QED
  BY <1>1, <1>2, <1>3
     DEF Init, AccountsInv, JobsCarryOn, CarriesOn, IdsAreNew, HashesAreNew, IndexFollows,
         FreeStaysFree, EarnedNow, Earned, TokensFollowPassword, Idle, Busy, Pending, Hash

\* A caller goes on to work that makes no account and no hash: nothing else changes,
\* and what it knows of an account is not what somebody is just making.
LEMMA WorkKeepsAccounts ==
  ASSUME AccountsInv, NEW c \in Callers, NEW j \in {Idle} \union Jobs,
         job' = [job EXCEPT ![c] = j], UNCHANGED <<engine, users, tokens>>,
         ~Pending(j), CarriesOn(j), Earned(j),
         Busy(j) /\ j.id # None =>
           \/ j.id \in DOMAIN accounts
           \/ Busy(job[c]) /\ j.id = job[c].id
           \/ \E t \in tokens : j.id = t.id
  PROVE  AccountsInv'
<1> USE DEF AccountsInv, AccountsTypeOK, users
<1>1. job'[c] = j /\ \A d \in Callers \ {c} : job'[d] = job[d]
  OBVIOUS
<1>2. AccountsTypeOK'
  OBVIOUS
<1>3. JobsCarryOn'
  BY <1>1 DEF JobsCarryOn, CarriesOn, Pending
<1>4. IdsAreNew'
  <2>1. Busy(j) /\ j.id # None => j.id <= drawn
    BY DEF IdsAreNew
  <2>2. \A d \in Callers \ {c} : job[d].step = "hashing" /\ Busy(j) => j.id # job[d].id
    <3> SUFFICES ASSUME NEW d \in Callers \ {c}, job[d].step = "hashing", Busy(j)
                 PROVE  j.id # job[d].id
      OBVIOUS
    <3>1. job[d].id \in Nat /\ job[d].id # None
      BY AccountsAssumption DEF JobsCarryOn, CarriesOn, Pending
    <3> QED
      BY <3>1 DEF IdsAreNew, Exists
  <2> QED
    BY <1>1, <2>1, <2>2 DEF IdsAreNew, Exists, Pending
<1>5. HashesAreNew'
  BY <1>1 DEF HashesAreNew
<1>6. IndexFollows' /\ TokensFollowPassword'
  BY DEF IndexFollows, TokensFollowPassword, Exists, Matches
<1>7. FreeStaysFree'
  BY <1>1 DEF FreeStaysFree, Named, Pending
<1>8. EarnedNow'
  BY <1>1 DEF EarnedNow, Earned, Exists
<1> QED
  BY <1>2, <1>3, <1>4, <1>5, <1>6, <1>7, <1>8

\* A caller starts to hash a password with a salt that was just drawn, for a name that
\* was found free or for an account that is there.
LEMMA DrawKeepsAccounts ==
  ASSUME AccountsInv, NEW c \in Callers, job[c] = Idle, NEW n \in Names, NEW pw \in Passwords,
         NEW j \in Jobs, job' = [job EXCEPT ![c] = j], drawn' = drawn + 1,
         UNCHANGED <<engine, accounts, byName, contested, tokens>>,
         j.name = n, j.secret = Hash(pw, drawn + 1), ~j.raced,
         \/ j.step = "hashing" /\ j.id = drawn + 1 /\ (engine = "memory" => Lookup(n) = None)
         \/ j.step = "rehashing" /\ j.id \in DOMAIN accounts
  PROVE  AccountsInv'
<1> USE DEF AccountsInv, AccountsTypeOK
<1>1. job'[c] = j /\ \A d \in Callers \ {c} : job'[d] = job[d]
  OBVIOUS
<1>2. AccountsTypeOK'
  OBVIOUS
<1>3. j.secret \in Hashes /\ j.secret.salt = drawn + 1 /\ j.id \in Nat
  BY DEF Hash, Hashes
<1>4. JobsCarryOn'
  <2>1. CarriesOn(j)'
    BY <1>3 DEF CarriesOn, Pending
  <2>2. \A d \in Callers \ {c} : CarriesOn(job[d])'
    BY DEF JobsCarryOn, CarriesOn, Hashes
  <2> QED
    BY <1>1, <2>1, <2>2 DEF JobsCarryOn, CarriesOn, Pending
<1>5. IdsAreNew'
  <2>1. /\ \A id \in DOMAIN accounts : id <= drawn + 1 /\ id # drawn + 1
        /\ \A t \in tokens : t.id <= drawn + 1 /\ t.id # drawn + 1
        /\ \A d \in Callers : Busy(job[d]) /\ job[d].id # None =>
             job[d].id <= drawn + 1 /\ job[d].id # drawn + 1
        /\ None # drawn + 1
    BY AccountsAssumption DEF IdsAreNew, Tokens, Jobs, Busy
  <2>2. j.step = "hashing" => /\ ~Exists(j.id)
                              /\ \A d \in Callers \ {c} : Busy(job[d]) => job[d].id # j.id
                              /\ \A t \in tokens : t.id # j.id
    BY <2>1 DEF Exists
  <2>3. j.step # "hashing" => \A d \in Callers \ {c} : job[d].step = "hashing" => j.id # job[d].id
    BY DEF IdsAreNew, Exists
  <2>4. j.step = "hashing" => \A d \in Callers \ {c} : job[d].step = "hashing" => j.id # job[d].id
    BY <2>2, JobIsJob DEF Busy
  <2> QED
    BY <1>1, <1>3, <2>1, <2>2, <2>3, <2>4 DEF IdsAreNew, Exists
<1>6. HashesAreNew'
  <2>1. /\ \A id \in DOMAIN accounts : accounts[id].hash.salt <= drawn + 1
                                      /\ accounts[id].hash # j.secret
        /\ \A t \in tokens : t.pwd # None => t.pwd.salt <= drawn + 1
        /\ \A d \in Callers \ {c} : Pending(job[d]) => job[d].secret # j.secret
    BY <1>3 DEF HashesAreNew, Tokens, Account, Hashes, JobsCarryOn, CarriesOn
  <2>2. \A t \in tokens : t.pwd # j.secret
    BY <1>3, AccountsAssumption DEF HashesAreNew, Tokens, Hashes, Hash
  <2> QED
    BY <1>1, <2>1, <2>2 DEF HashesAreNew
<1>7. IndexFollows' /\ TokensFollowPassword'
  BY DEF IndexFollows, TokensFollowPassword, Exists, Matches
<1>8. FreeStaysFree'
  BY <1>1, NotFoundIsFree DEF FreeStaysFree, Named
<1>9. EarnedNow'
  BY <1>1 DEF EarnedNow, Earned, Exists
<1> QED
  BY <1>2, <1>4, <1>5, <1>6, <1>7, <1>8, <1>9

\* What touches no account, job or token keeps the invariant.
LEMMA IdleKeepsAccounts ==
  ASSUME AccountsInv, UNCHANGED <<engine, users, job, tokens>>
  PROVE  AccountsInv'
BY DEF AccountsInv, AccountsTypeOK, JobsCarryOn, CarriesOn, IdsAreNew, HashesAreNew, IndexFollows,
       FreeStaysFree, EarnedNow, Earned, TokensFollowPassword, Exists, Matches, Named, users

\* Those who ask for an account either find the name taken or draw an id and a salt.
LEMMA AskingKeepsAccounts ==
  ASSUME AccountsInv, NEW c \in Callers, NEW n \in Names, NEW pw \in Passwords,
         Register(c, n, pw) \/ Declare(c, n, pw) \/ AdminCreate(c, n, pw)
  PROVE  AccountsInv'
<1> USE DEF users
<1>1. job[c] = Idle /\ UNCHANGED <<engine, accounts, byName, contested, tokens>>
  BY DEF Register, Declare, AdminCreate, Ask
<1>2. ASSUME NEW signs \in BOOLEAN, Create(c, n, pw, signs) PROVE AccountsInv'
  <2>1. CASE UNCHANGED <<job, drawn>>
    BY <1>1, <2>1, IdleKeepsAccounts
  <2>2. CASE ~UNCHANGED <<job, drawn>>
    <3> DEFINE j == [step |-> "hashing", id |-> drawn + 1, name |-> n,
                     secret |-> Hash(pw, drawn + 1), raced |-> FALSE, signs |-> signs]
    <3>1. drawn' = drawn + 1 /\ job' = [job EXCEPT ![c] = j]
      BY <1>2, <2>2 DEF Create
    <3>2. engine = "memory" => Lookup(n) = None
      BY <1>2, <2>2 DEF Create, LooksFirst
    <3>3. j \in Jobs
      BY DEF AccountsInv, AccountsTypeOK, Jobs, JobSteps, Secrets, Hashes, Hash
    <3> QED
      BY <1>1, <3>1, <3>2, <3>3, DrawKeepsAccounts
  <2> QED
    BY <2>1, <2>2
<1>3. CASE Register(c, n, pw)
  BY <1>1, <1>2, <1>3, IdleKeepsAccounts DEF Register
<1>4. CASE AdminCreate(c, n, pw)
  BY <1>2, <1>4 DEF AdminCreate
<1>5. CASE Declare(c, n, pw)
  <2>1. CASE Lookup(n) = None
    BY <1>2, <1>5, <2>1 DEF Declare
  <2>2. CASE Lookup(n) # None
    <3> DEFINE j == [step |-> "rehashing", id |-> Lookup(n), name |-> n,
                     secret |-> Hash(pw, drawn + 1), raced |-> FALSE, signs |-> FALSE]
    <3>1. drawn' = drawn + 1 /\ job' = [job EXCEPT ![c] = j]
      BY <1>5, <2>2 DEF Declare, Goes
    <3>2. Lookup(n) \in DOMAIN accounts
      BY <2>2, LookupFindsAccount DEF AccountsInv
    <3>3. j \in Jobs
      BY <3>2 DEF AccountsInv, AccountsTypeOK, Jobs, JobSteps, Secrets, Hashes, Hash
    <3> QED
      BY <1>1, <3>1, <3>2, <3>3, DrawKeepsAccounts
  <2> QED
    BY <2>1, <2>2
<1> QED
  BY <1>3, <1>4, <1>5

\* Signing in with a password: what is compared is the hash of the account there is.
LEMMA SigningInKeepsAccounts ==
  ASSUME AccountsInv, NEW c \in Callers,
         \/ \E n \in Names, pw \in Passwords : Login(c, n, pw)
         \/ ReadHash(c) \/ Compared(c) \/ Mismatched(c)
  PROVE  AccountsInv'
<1> USE DEF users
<1>1. job[c] = Idle \/ job[c] \in Jobs
  BY DEF AccountsInv, AccountsTypeOK
<1>2. UNCHANGED <<engine, users, tokens>>
  BY DEF Login, ReadHash, Compared, Mismatched
<1>3. ASSUME NEW n \in Names, NEW pw \in Passwords, Login(c, n, pw) PROVE AccountsInv'
  <2>1. PICK id \in DOMAIN accounts \union {None} : id = Lookup(n)
    BY LookupFindsAccount DEF AccountsInv
  <2> DEFINE j == [step |-> "looking", id |-> id, name |-> n, secret |-> pw,
                   raced |-> FALSE, signs |-> FALSE]
  <2>2. UNCHANGED job \/ job' = [job EXCEPT ![c] = j]
    BY <1>3, <2>1 DEF Login, Goes
  <2>3. j \in Jobs
    BY <2>1 DEF AccountsInv, AccountsTypeOK, Jobs, JobSteps, Secrets
  <2>4. ~Pending(j) /\ CarriesOn(j) /\ Earned(j)
    BY DEF Pending, CarriesOn, Earned
  <2> QED
    BY <1>2, <2>1, <2>2, <2>3, <2>4, IdleKeepsAccounts, WorkKeepsAccounts
<1>4. ~Pending(Idle) /\ CarriesOn(Idle) /\ Earned(Idle)
  BY DEF Pending, CarriesOn, Earned, Idle
<1>5. ASSUME Ends(c) PROVE AccountsInv'
  BY <1>2, <1>4, <1>5, WorkKeepsAccounts DEF Ends, Busy
<1>6. CASE ReadHash(c)
  <2>1. CASE Ends(c)
    BY <1>5, <2>1
  <2>2. CASE ~Ends(c)
    <3> DEFINE h == IF job[c].id = None THEN None ELSE accounts[job[c].id].hash
               j == [job[c] EXCEPT
                       !.step = IF Fits(h, job[c].secret) THEN "comparing" ELSE "failing",
                       !.secret = h]
    <3>1. job[c].step = "looking" /\ job' = [job EXCEPT ![c] = j]
          /\ (job[c].id = None \/ Exists(job[c].id))
      BY <1>6, <2>2 DEF ReadHash
    <3>2. job[c] \in Jobs /\ CarriesOn(job[c])
      BY <1>1, <3>1 DEF Idle, AccountsInv, JobsCarryOn
    <3>3. h \in Hashes \union {None} /\ (h # None => job[c].id \in DOMAIN accounts)
      BY <3>1 DEF Exists, AccountsInv, AccountsTypeOK, Account
    <3>4. j \in Jobs /\ j.id = job[c].id /\ j.name = job[c].name /\ j.raced = job[c].raced
          /\ j.secret = h /\ j.step = IF Fits(h, job[c].secret) THEN "comparing" ELSE "failing"
      BY <3>2, <3>3 DEF Jobs, JobSteps, Secrets
    <3>5. j.step = "comparing" => h # None
      BY <3>4 DEF Fits
    <3>6. ~Pending(j) /\ CarriesOn(j) /\ Earned(j)
      BY <3>1, <3>2, <3>3, <3>4, <3>5
         DEF Pending, CarriesOn, Earned, AccountsInv, AccountsTypeOK, Jobs
    <3>7. Busy(job[c])
      BY <3>1 DEF Busy, Idle
    <3> QED
      BY <1>2, <3>1, <3>4, <3>6, <3>7, WorkKeepsAccounts
  <2> QED
    BY <2>1, <2>2
<1>7. CASE Compared(c)
  <2> DEFINE j == [job[c] EXCEPT !.step = "token"]
  <2>1. job[c].step = "comparing" /\ job' = [job EXCEPT ![c] = j]
    BY <1>7 DEF Compared
  <2>2. job[c] \in Jobs /\ CarriesOn(job[c]) /\ Earned(job[c]) /\ Busy(job[c])
    BY <1>1, <2>1 DEF Idle, Busy, AccountsInv, JobsCarryOn, EarnedNow
  <2>3. j \in Jobs /\ j.id = job[c].id /\ j.step = "token" /\ j.secret = job[c].secret
        /\ j.raced = job[c].raced
    BY <2>2 DEF Jobs, JobSteps
  <2>4. ~Pending(j) /\ CarriesOn(j) /\ Earned(j)
    BY <2>1, <2>2, <2>3 DEF Pending, CarriesOn, Earned
  <2> QED
    BY <1>2, <2>1, <2>2, <2>3, <2>4, WorkKeepsAccounts
<1>8. CASE Mismatched(c)
  BY <1>5, <1>8 DEF Mismatched
<1> QED
  BY <1>3, <1>6, <1>7, <1>8

\* Signing in with a token: one that is accepted was earned with the hash there is.
LEMMA CheckingKeepsAccounts ==
  ASSUME AccountsInv, NEW c \in Callers,
         (\E t \in tokens : TokenLogin(c, t)) \/ CheckToken(c)
  PROVE  AccountsInv'
<1> USE DEF users
<1>1. job[c] = Idle \/ job[c] \in Jobs
  BY DEF AccountsInv, AccountsTypeOK
<1>2. UNCHANGED <<engine, users, tokens>>
  BY DEF TokenLogin, CheckToken
<1>3. ASSUME NEW t \in tokens, TokenLogin(c, t) PROVE AccountsInv'
  <2> DEFINE j == [step |-> "checking", id |-> t.id, name |-> None, secret |-> t,
                   raced |-> t.raced, signs |-> FALSE]
  <2>1. UNCHANGED job \/ job' = [job EXCEPT ![c] = j]
    BY <1>3 DEF TokenLogin
  <2>2. j \in Jobs
    BY DEF AccountsInv, AccountsTypeOK, Jobs, JobSteps, Secrets, Tokens
  <2>3. ~Pending(j) /\ CarriesOn(j) /\ Earned(j)
    BY DEF Pending, CarriesOn, Earned
  <2> QED
    BY <1>2, <2>1, <2>2, <2>3, IdleKeepsAccounts, WorkKeepsAccounts
<1>4. CASE CheckToken(c)
  <2> DEFINE j == [job[c] EXCEPT !.step = "token", !.secret = job[c].secret.proof]
  <2>1. ~Pending(Idle) /\ CarriesOn(Idle) /\ Earned(Idle)
    BY DEF Pending, CarriesOn, Earned, Idle
  <2>2. CASE Ends(c)
    BY <1>2, <2>1, <2>2, WorkKeepsAccounts DEF Ends, Busy
  <2>3. CASE ~Ends(c)
    <3>1. job[c].step = "checking" /\ job' = [job EXCEPT ![c] = j] /\ Matches(job[c].secret)
      BY <1>4, <2>3 DEF CheckToken
    <3>2. job[c] \in Jobs /\ Busy(job[c])
      BY <1>1, <3>1 DEF Idle, Busy
    <3>3. job[c].secret \in tokens /\ job[c].id = job[c].secret.id
          /\ job[c].raced = job[c].secret.raced
      BY <3>1 DEF AccountsInv, JobsCarryOn, CarriesOn
    <3>4. job[c].secret \in Tokens
      BY <3>3 DEF AccountsInv, AccountsTypeOK
    <3>5. j \in Jobs /\ j.id = job[c].id /\ j.step = "token" /\ j.secret = job[c].secret.proof
          /\ j.raced = job[c].raced
      BY <3>2, <3>4 DEF Jobs, JobSteps, Secrets, Tokens
    <3>6. ~Pending(j) /\ CarriesOn(j)
      BY <3>3, <3>4, <3>5 DEF Pending, CarriesOn, Tokens
    <3>7. Earned(j)
      BY <3>1, <3>3, <3>5 DEF Earned, AccountsInv, TokensFollowPassword
    <3> QED
      BY <1>2, <3>1, <3>2, <3>5, <3>6, <3>7, WorkKeepsAccounts
  <2> QED
    BY <2>2, <2>3
<1> QED
  BY <1>3, <1>4

\* An account that is stored has an id, a hash and, if it is found to be free by now, a
\* name of its own.
LEMMA SaveKeepsAccounts ==
  ASSUME AccountsInv, NEW c \in Callers, Save(c)
  PROVE  AccountsInv'
<1> DEFINE i == job[c].id
           n == job[c].name
<1> USE DEF AccountsInv
<1>1. job[c].step = "hashing" /\ UNCHANGED <<engine, drawn, tokens>>
  BY DEF Save
<1>2. job[c] \in Jobs /\ Busy(job[c]) /\ CarriesOn(job[c])
  BY <1>1, JobIsJob DEF JobsCarryOn
<1>3. /\ n \in Names /\ i \in Nat /\ job[c].secret \in Hashes /\ job[c].secret.salt <= drawn
      /\ ~job[c].raced /\ i <= drawn /\ i \notin DOMAIN accounts
  BY <1>1, <1>2, AccountsAssumption DEF CarriesOn, Pending, IdsAreNew, Exists
<1>4. CASE Refuses(n)
  <2>1. ~Pending(Idle) /\ CarriesOn(Idle) /\ Earned(Idle) /\ ~Busy(Idle)
    BY DEF Pending, CarriesOn, Earned, Idle, Busy
  <2>2. Ends(c) /\ UNCHANGED users
    BY <1>1, <1>4 DEF Save, users
  <2> QED
    BY <1>1, <2>1, <2>2, WorkKeepsAccounts DEF Ends
<1>5. CASE ~Refuses(n)
  <2>1. /\ accounts' = [id \in DOMAIN accounts \union {i} |->
                          IF id = i THEN [name |-> n, hash |-> job[c].secret] ELSE accounts[id]]
        /\ byName' = [byName EXCEPT ![n] = i]
        /\ contested' = Contested(c, n)
        /\ job' = [job EXCEPT ![c].step = "token"] \/ Ends(c)
    BY <1>5 DEF Save
  <2>2. /\ DOMAIN accounts' = DOMAIN accounts \union {i}
        /\ accounts'[i].name = n /\ accounts'[i].hash = job[c].secret
        /\ \A id \in DOMAIN accounts : id # i /\ accounts'[id] = accounts[id]
    BY <1>3, <2>1
  <2>3. /\ \A d \in Callers \ {c} : job'[d] = job[d]
        /\ \/ job'[c] = Idle
           \/ /\ job'[c] \in Jobs /\ job'[c].step = "token" /\ job'[c].id = i
              /\ job'[c].secret = job[c].secret /\ ~job'[c].raced
        /\ job' \in [Callers -> {Idle} \union Jobs]
    <3>1. /\ [job[c] EXCEPT !.step = "token"] \in Jobs
          /\ [job[c] EXCEPT !.step = "token"].step = "token"
          /\ [job[c] EXCEPT !.step = "token"].id = i
          /\ [job[c] EXCEPT !.step = "token"].secret = job[c].secret
          /\ [job[c] EXCEPT !.step = "token"].raced = job[c].raced
      BY <1>2 DEF Jobs, JobSteps
    <3>2. job'[c] = Idle \/ job'[c] = [job[c] EXCEPT !.step = "token"]
      BY <2>1 DEF Ends, AccountsTypeOK
    <3> QED
      BY <1>3, <2>1, <3>1, <3>2 DEF Ends, AccountsTypeOK
  <2>4. AccountsTypeOK'
    BY <1>1, <1>3, <2>1, <2>2, <2>3 DEF AccountsTypeOK, Account, Contested
  <2>5. JobsCarryOn'
    BY <1>1, <1>3, <2>3 DEF JobsCarryOn, CarriesOn, Pending, Idle
  <2>6. IdsAreNew'
    <3>1. \A d \in Callers \ {c} : job[d].step = "hashing" => job[d].id # i
      BY <1>2 DEF IdsAreNew
    <3>2. \A d \in Callers : job'[d].step = "hashing" =>
            d # c /\ job[d].step = "hashing" /\ job'[d] = job[d]
      BY <2>3 DEF Idle
    <3>3. \A d \in Callers \ {c} : job'[d].step = "hashing" /\ Busy(job'[c]) =>
            job'[c].id # job'[d].id
      BY <2>3, <3>1, <3>2 DEF Busy
    <3> QED
      BY <1>1, <1>3, <2>2, <2>3, <3>1, <3>2, <3>3 DEF IdsAreNew, Exists, Busy
  <2>7. HashesAreNew'
    <3>1. \A d \in Callers : Pending(job'[d]) => d # c /\ Pending(job[d]) /\ job'[d] = job[d]
      BY <2>3 DEF Idle, Pending
    <3>2. \A d \in Callers \ {c} : Pending(job[d]) => job[d].secret # job[c].secret
      BY <1>1 DEF HashesAreNew, Pending
    <3> QED
      BY <1>1, <1>3, <2>2, <3>1, <3>2 DEF HashesAreNew
  <2>8. IndexFollows'
    <3>1. contested \subseteq contested'
      BY <2>1 DEF Contested
    <3>2. \A id \in DOMAIN accounts : accounts[id].name = n =>
            engine = "memory" /\ n \in contested
      BY <1>1, <1>5, AccountsAssumption DEF Refuses, Named, FreeStaysFree, AccountsTypeOK
    <3>3. \A id \in DOMAIN accounts : accounts[id].name # n =>
            byName'[accounts[id].name] = byName[accounts[id].name]
      BY <2>1 DEF AccountsTypeOK, Account
    <3>4. byName'[n] = i
      BY <1>3, <2>1 DEF AccountsTypeOK
    <3> QED
      BY <1>1, <2>2, <3>1, <3>2, <3>3, <3>4 DEF IndexFollows
  <2>9. FreeStaysFree'
    <3>1. SUFFICES ASSUME engine = "memory", NEW d \in Callers, job'[d].step = "hashing",
                          job'[d].name \notin contested'
                   PROVE  Named(job[d].name)' = {}
      BY <1>1 DEF FreeStaysFree
    <3>2. d # c /\ job'[d] = job[d]
      BY <2>3, <3>1 DEF Idle
    <3>3. job[d].name # n /\ job[d].name \notin contested
      BY <2>1, <3>1, <3>2 DEF Contested
    <3>4. Named(job[d].name) = {}
      BY <3>1, <3>2, <3>3 DEF FreeStaysFree
    <3> QED
      BY <2>2, <3>2, <3>3, <3>4 DEF Named
  <2>10. EarnedNow'
    <3>1. \A d \in Callers \ {c} : Busy(job[d]) => job[d].id # i
      BY <1>1 DEF IdsAreNew
    <3>2. \A d \in Callers \ {c} : job[d].step \in {"comparing", "token"} => Busy(job[d])
      BY JobIsJob
    <3> QED
      BY <2>2, <2>3, <3>1, <3>2 DEF EarnedNow, Earned, Exists, Idle
  <2>11. TokensFollowPassword'
    BY <1>1, <2>2 DEF TokensFollowPassword, Exists, Matches, IdsAreNew
  <2> QED
    BY <2>4, <2>5, <2>6, <2>7, <2>8, <2>9, <2>10, <2>11
<1> QED
  BY <1>4, <1>5

\* A password that is changed makes nobody's token match, and who was about to get one
\* with the old password is marked.
LEMMA SetPasswordKeepsAccounts ==
  ASSUME AccountsInv, NEW c \in Callers, SetPassword(c)
  PROVE  AccountsInv'
<1> DEFINE i == job[c].id
<1> USE DEF AccountsInv
<1>1. job[c].step = "rehashing" /\ UNCHANGED <<engine, byName, drawn, contested, tokens>>
  BY DEF SetPassword
<1>2. job[c] \in Jobs /\ job[c].secret \in Hashes /\ job[c].secret.salt <= drawn
  BY <1>1, JobIsJob DEF JobsCarryOn, CarriesOn, Pending
<1>3. CASE ~Exists(i)
  <2>1. ~Pending(Idle) /\ CarriesOn(Idle) /\ Earned(Idle) /\ ~Busy(Idle)
    BY DEF Pending, CarriesOn, Earned, Idle, Busy
  <2>2. Ends(c) /\ UNCHANGED users
    BY <1>1, <1>3 DEF SetPassword, users
  <2> QED
    BY <1>1, <2>1, <2>2, WorkKeepsAccounts DEF Ends
<1>4. CASE Exists(i)
  <2>1. /\ accounts' = [accounts EXCEPT ![i].hash = job[c].secret]
        /\ job' = [d \in Callers |->
             IF d = c THEN Idle
             ELSE IF job[d].step \in {"comparing", "token"} /\ job[d].id = i
             THEN [job[d] EXCEPT !.raced = TRUE] ELSE job[d]]
    BY <1>4 DEF SetPassword
  <2>2. /\ accounts' \in [DOMAIN accounts -> Account] /\ DOMAIN accounts' = DOMAIN accounts
        /\ \A id \in DOMAIN accounts : accounts'[id].name = accounts[id].name
        /\ \A id \in DOMAIN accounts \ {i} : accounts'[id] = accounts[id]
        /\ accounts'[i].hash = job[c].secret
    BY <1>2, <1>4, <2>1 DEF Exists, AccountsTypeOK, Account
  <2>3. job'[c] = Idle
    BY <2>1
  <2>4. ASSUME NEW d \in Callers, Busy(job'[d])
        PROVE  /\ d # c /\ job[d] \in Jobs /\ job'[d] \in Jobs /\ Busy(job[d])
               /\ job'[d].step = job[d].step /\ job'[d].id = job[d].id
               /\ job'[d].name = job[d].name /\ job'[d].secret = job[d].secret
               /\ job[d].step \notin {"comparing", "token"} => job'[d] = job[d]
               /\ job[d].step \in {"comparing", "token"} /\ job[d].id = i => job'[d].raced
               /\ job[d].raced => job'[d].raced
    <3>1. d # c
      BY <2>3, <2>4 DEF Busy
    <3>2. job[d] \in Jobs
      BY <2>1, <2>4, <3>1, JobIsJob DEF Busy
    <3>3. job'[d] = job[d] \/ job'[d] = [job[d] EXCEPT !.raced = TRUE]
      BY <2>1, <3>1
    <3>4. job'[d] \in Jobs
      BY <3>2, <3>3 DEF Jobs
    <3>5. Busy(job[d])
      BY <3>2, JobIsJob DEF Busy, Idle, Jobs, JobSteps
    <3> QED
      BY <2>1, <3>1, <3>2, <3>3, <3>4, <3>5 DEF Jobs
  <2>5. \A d \in Callers : job'[d].step # "idle" => Busy(job'[d])
    BY DEF Busy, Idle
  <2>6. AccountsTypeOK'
    <3>1. job' \in [Callers -> {Idle} \union Jobs]
      BY <2>1, <2>4 DEF Busy
    <3> QED
      BY <1>1, <2>2, <3>1 DEF AccountsTypeOK
  <2>7. JobsCarryOn'
    <3>1. SUFFICES ASSUME NEW d \in Callers PROVE CarriesOn(job[d])'
      BY DEF JobsCarryOn
    <3>2. CarriesOn(job[d])
      BY DEF JobsCarryOn
    <3>3. CASE job'[d] = Idle
      BY <3>3 DEF CarriesOn, Pending, Idle
    <3>4. CASE Busy(job'[d])
      BY <1>1, <2>4, <3>2, <3>4 DEF CarriesOn, Pending
    <3> QED
      BY <3>3, <3>4 DEF Busy
  <2>8. IdsAreNew'
    BY <1>1, <2>2, <2>4, <2>5 DEF IdsAreNew, Exists
  <2>9. HashesAreNew'
    <3>1. \A d \in Callers : Pending(job'[d]) => /\ d # c /\ Pending(job[d])
                                                /\ job'[d].secret = job[d].secret
      BY <2>4, <2>5 DEF Pending
    <3>2. \A d \in Callers \ {c} : Pending(job[d]) => job[d].secret # job[c].secret
      BY <1>1 DEF HashesAreNew, Pending
    <3>3. \A id \in DOMAIN accounts :
            accounts'[id].hash = job[c].secret \/ accounts'[id].hash = accounts[id].hash
      BY <2>2
    <3> QED
      BY <1>1, <1>2, <2>2, <3>1, <3>2, <3>3 DEF HashesAreNew
  <2>10. IndexFollows'
    BY <1>1, <2>2 DEF IndexFollows
  <2>11. FreeStaysFree'
    BY <1>1, <2>2, <2>4, <2>5 DEF FreeStaysFree, Named
  <2>12. EarnedNow'
    <3>1. SUFFICES ASSUME NEW d \in Callers, job'[d].step \in {"comparing", "token"},
                          job'[d].id \in DOMAIN accounts, job[d].id # i
                   PROVE  job'[d].secret = accounts'[job'[d].id].hash \/ job'[d].raced
      BY <2>2, <2>4, <2>5 DEF EarnedNow, Earned, Exists
    <3> QED
      BY <2>2, <2>4, <2>5, <3>1 DEF EarnedNow, Earned, Exists
  <2>13. TokensFollowPassword'
    <3>1. \A t \in tokens : t.pwd # job[c].secret
      BY <1>1 DEF HashesAreNew, Pending
    <3> QED
      BY <1>1, <2>2, <3>1 DEF TokensFollowPassword, Exists, Matches
  <2> QED
    BY <2>6, <2>7, <2>8, <2>9, <2>10, <2>11, <2>12, <2>13
<1> QED
  BY <1>3, <1>4

\* A new name is one that nothing was found under, or it is contested from now on.
LEMMA RenameKeepsAccounts ==
  ASSUME AccountsInv, NEW c \in Callers, NEW i \in DOMAIN accounts, NEW n \in Names,
         Rename(c, i, n)
  PROVE  AccountsInv'
<1> USE DEF AccountsInv
<1>1. UNCHANGED <<engine, job, tokens, drawn>>
  BY DEF Rename, users
<1>2. CASE UNCHANGED users
  BY <1>1, <1>2, IdleKeepsAccounts
<1>3. CASE ~UNCHANGED users
  <2>1. /\ accounts' = [accounts EXCEPT ![i].name = n]
        /\ byName' = Rekeyed(i, n) /\ contested' = Contested(c, n)
        /\ accounts[i].name # n => Lookup(n) = None
        /\ job[c] = Idle
    BY <1>3 DEF Rename, Ask
  <2>2. /\ accounts' \in [DOMAIN accounts -> Account] /\ DOMAIN accounts' = DOMAIN accounts
        /\ \A id \in DOMAIN accounts : accounts'[id].hash = accounts[id].hash
        /\ \A id \in DOMAIN accounts \ {i} : accounts'[id] = accounts[id]
        /\ accounts'[i].name = n
    BY <2>1 DEF AccountsTypeOK, Account
  <2>3. /\ byName' \in [Names -> Nat \union {None}] /\ byName'[n] = i
        /\ \A m \in Names \ {n, accounts[i].name} : byName'[m] = byName[m]
    BY <2>1 DEF Rekeyed, AccountsTypeOK, Account
  <2>4. contested \subseteq contested' /\ contested' \subseteq Names
        /\ \A d \in Callers : engine = "memory" /\ job[d].step = "hashing" /\ job[d].name = n =>
                                n \in contested'
    BY <2>1 DEF Contested, Idle, AccountsTypeOK
  <2>5. AccountsTypeOK'
    BY <1>1, <2>2, <2>3, <2>4 DEF AccountsTypeOK
  <2>6. JobsCarryOn' /\ IdsAreNew' /\ HashesAreNew' /\ EarnedNow' /\ TokensFollowPassword'
    BY <1>1, <2>2 DEF JobsCarryOn, CarriesOn, IdsAreNew, HashesAreNew, EarnedNow, Earned,
                      TokensFollowPassword, Exists, Matches
  <2>7. IndexFollows'
    <3>1. \A id \in DOMAIN accounts \ {i} :
            accounts[id].name = n => engine = "memory" /\ n \in contested
      <4>1. CASE accounts[i].name = n
        BY <4>1 DEF IndexFollows
      <4>2. CASE accounts[i].name # n
        BY <2>1, <4>2, NotFoundIsFree DEF Named
      <4> QED
        BY <4>1, <4>2
    <3>2. \A id \in DOMAIN accounts \ {i} :
            accounts[id].name = accounts[i].name => engine = "memory" /\ accounts[i].name \in contested
      BY DEF IndexFollows
    <3>3. \A id \in DOMAIN accounts : accounts[id].name \in Names
      BY DEF AccountsTypeOK, Account
    <3> QED
      BY <1>1, <2>2, <2>3, <2>4, <3>1, <3>2, <3>3 DEF IndexFollows
  <2>8. FreeStaysFree'
    BY <1>1, <2>2, <2>4 DEF FreeStaysFree, Named
  <2> QED
    BY <2>5, <2>6, <2>7, <2>8
<1> QED
  BY <1>2, <1>3

\* An account that is gone leaves the others, and what was found free is free still.
LEMMA DeleteKeepsAccounts ==
  ASSUME AccountsInv, NEW c \in Callers, NEW i \in DOMAIN accounts, Delete(c, i)
  PROVE  AccountsInv'
<1> USE DEF AccountsInv
<1>1. /\ UNCHANGED <<engine, drawn, contested, job, tokens>>
      /\ accounts' = [id \in DOMAIN accounts \ {i} |-> accounts[id]]
      /\ byName' = [byName EXCEPT ![accounts[i].name] = None]
  BY DEF Delete
<1>2. /\ DOMAIN accounts' = DOMAIN accounts \ {i}
      /\ \A id \in DOMAIN accounts' : accounts'[id] = accounts[id]
  BY <1>1
<1>3. AccountsTypeOK'
  BY <1>1, <1>2 DEF AccountsTypeOK
<1>4. JobsCarryOn' /\ IdsAreNew' /\ HashesAreNew' /\ EarnedNow' /\ TokensFollowPassword'
  BY <1>1, <1>2 DEF JobsCarryOn, CarriesOn, IdsAreNew, HashesAreNew, EarnedNow, Earned,
                    TokensFollowPassword, Exists, Matches
<1>5. IndexFollows'
  <2>1. \A id \in DOMAIN accounts \ {i} :
          accounts[id].name = accounts[i].name => engine = "memory" /\ accounts[i].name \in contested
    BY DEF IndexFollows
  <2>2. \A id \in DOMAIN accounts : accounts[id].name # accounts[i].name =>
          byName'[accounts[id].name] = byName[accounts[id].name]
    BY <1>1 DEF AccountsTypeOK, Account
  <2> QED
    BY <1>1, <1>2, <2>1, <2>2 DEF IndexFollows
<1>6. FreeStaysFree'
  BY <1>1, <1>2 DEF FreeStaysFree, Named
<1> QED
  BY <1>3, <1>4, <1>5, <1>6

\* A token is made with the hash of the moment, by one who has earned that or is marked.
LEMMA MakeTokenKeepsAccounts ==
  ASSUME AccountsInv, NEW c \in Callers, MakeToken(c)
  PROVE  AccountsInv'
<1> DEFINE t == Token(job[c].id, job[c].secret, job[c].raced)
<1> USE DEF AccountsInv
<1>1. /\ job[c].step = "token" /\ UNCHANGED <<engine, accounts, byName, drawn, contested>>
      /\ tokens' = tokens \union {t} /\ job' = [job EXCEPT ![c] = Idle]
  BY DEF MakeToken, Ends, users
<1>2. job[c] \in Jobs /\ CarriesOn(job[c]) /\ Earned(job[c]) /\ Busy(job[c])
  BY <1>1, JobIsJob DEF JobsCarryOn, EarnedNow
<1>3. /\ t \in Tokens /\ t.id = job[c].id /\ t.proof = job[c].secret /\ t.raced = job[c].raced
      /\ t.pwd = IF Exists(job[c].id) THEN accounts[job[c].id].hash ELSE None
  BY <1>1, <1>2 DEF Token, Tokens, CarriesOn, Exists, AccountsTypeOK, Account, Jobs
<1>4. /\ \A d \in Callers : job'[d] = IF d = c THEN Idle ELSE job[d]
      /\ job'[c].step = "idle" /\ ~Busy(job'[c])
  BY <1>1 DEF AccountsTypeOK, Idle, Busy
<1>5. AccountsTypeOK'
  BY <1>1, <1>3 DEF AccountsTypeOK
<1>6. JobsCarryOn'
  <2>1. CarriesOn(Idle)' /\ \A d \in Callers : CarriesOn(job[d])
    BY DEF JobsCarryOn, CarriesOn, Pending, Idle
  <2> QED
    BY <1>1, <1>4, <2>1 DEF JobsCarryOn, CarriesOn, Pending
<1>7. IdsAreNew'
  <2>1. t.id <= drawn
    BY <1>2, <1>3, AccountsAssumption DEF IdsAreNew, Tokens
  <2>2. \A d \in Callers \ {c} : job[d].step = "hashing" => job[d].id # t.id
    BY <1>2, <1>3 DEF IdsAreNew
  <2> QED
    BY <1>1, <1>4, <2>1, <2>2 DEF IdsAreNew, Exists
<1>8. HashesAreNew'
  <2>1. t.pwd # None => \E id \in DOMAIN accounts : t.pwd = accounts[id].hash
    BY <1>3 DEF Exists
  <2>2. \A d \in Callers : Pending(job[d]) => job[d].secret # None
    BY AccountsAssumption DEF JobsCarryOn, CarriesOn, Hashes
  <2>3. \A d \in Callers : Pending(job[d]) => t.pwd # job[d].secret
    BY <2>1, <2>2 DEF HashesAreNew
  <2>4. t.pwd # None => t.pwd.salt <= drawn
    BY <2>1 DEF HashesAreNew
  <2>5. \A d \in Callers : Pending(job'[d]) => d # c /\ Pending(job[d]) /\ job'[d] = job[d]
    BY <1>4 DEF Pending
  <2> QED
    BY <1>1, <2>3, <2>4, <2>5 DEF HashesAreNew
<1>9. IndexFollows' /\ FreeStaysFree' /\ EarnedNow'
  BY <1>1, <1>4 DEF IndexFollows, FreeStaysFree, EarnedNow, Earned, Named, Exists
<1>10. TokensFollowPassword'
  BY <1>1, <1>2, <1>3 DEF TokensFollowPassword, Exists, Matches, Earned
<1> QED
  BY <1>5, <1>6, <1>7, <1>8, <1>9, <1>10

\* The invariant: what callers have in hand fits the accounts, whoever came between.
THEOREM AccountsWellKept == Spec => []AccountsInv
<1>1. AccountsInv /\ [Next]_vars => AccountsInv'
  <2>1. SUFFICES ASSUME AccountsInv, [Next]_vars PROVE AccountsInv'
    OBVIOUS
  <2>2. CASE UNCHANGED vars \/ Tick
    BY <2>1, <2>2, IdleKeepsAccounts DEF vars, Tick, users
  <2>3. ASSUME NEW c \in Callers, Administer(c) PROVE AccountsInv'
    BY <2>1, <2>3, AskingKeepsAccounts, RenameKeepsAccounts, DeleteKeepsAccounts DEF Administer
  <2> QED
    BY <2>1, <2>2, <2>3, AskingKeepsAccounts, SigningInKeepsAccounts, CheckingKeepsAccounts,
       SaveKeepsAccounts, SetPasswordKeepsAccounts, MakeTokenKeepsAccounts DEF Next
<1> QED
  BY <1>1, InitAccounts, PTL DEF Spec

\* A name is one account's and is looked up to it, but for names of the memory engine
\* that were given out while another registration had found them free.
THEOREM NamesAreUnique == Spec => []OneNameOneAccount
<1>1. AccountsInv => OneNameOneAccount
  <2>1. SUFFICES ASSUME AccountsInv, NEW n \in Names \ contested
                 PROVE  Cardinality(Named(n)) <= 1 /\ \A id \in Named(n) : Lookup(n) = id
    BY DEF OneNameOneAccount
  <2>2. ASSUME NEW id \in Named(n) PROVE Named(n) = {id} /\ Lookup(n) = id
    <3>1. id \in DOMAIN accounts /\ id \in Nat
      BY <2>1, <2>2 DEF Named, AccountsInv, AccountsTypeOK
    <3>2. Named(n) = {id}
      BY <2>1, <2>2 DEF AccountsInv, IndexFollows, Named
    <3>3. engine = "memory" => byName[n] = id
      BY <2>1, <2>2 DEF AccountsInv, IndexFollows, Named
    <3> QED
      BY <3>1, <3>2, <3>3, AccountsAssumption DEF Lookup, FoundByIndex, FoundBySearch, Exists
  <2>3. Cardinality(Named(n)) \in {0, 1}
    <3>1. CASE Named(n) = {}
      BY <3>1, FS_EmptySet
    <3>2. CASE Named(n) # {}
      <4>1. PICK id \in Named(n) : TRUE
        BY <3>2
      <4>2. Named(n) = {id}
        BY <2>2, <4>1
      <4> QED
        BY <4>2, FS_Singleton
    <3> QED
      BY <3>1, <3>2
  <2> QED
    BY <2>2, <2>3
<1> QED
  BY <1>1, AccountsWellKept, PTL

\* A token that would be accepted was earned with the password the account has now, or
\* the password was changed while somebody was signing in.
THEOREM TokensAreEarned == Spec => []TokensFollowPassword
<1>1. AccountsInv => TokensFollowPassword
  BY DEF AccountsInv
<1> QED
  BY <1>1, AccountsWellKept, PTL

-----------------------------------------------------------------------------
(***************************************************************************)
(* The limiter of attempts to sign in.                                     *)
(*                                                                         *)
(* BackoffKept is not inductive: that no attempt was granted too early     *)
(* says nothing of the next.  As long as a name is blocked, its entry is   *)
(* in the map and says until when (BlocksKept); and a map that is as full  *)
(* as it may be has one entry for each key (LimiterMaps), so that it makes *)
(* room by dropping its oldest key only if it finds nothing stale.         *)
(***************************************************************************)

Entries == [key : Names, count : Nat, resetAt : Nat, failures : Nat,
            blockedUntil : Nat, lastFailureAt : Nat]
LimiterMaps ==
  {map \in Seq(Entries) : \A i, j \in DOMAIN map : map[i].key = map[j].key => i = j}

Blocks(map, n, b) == \E i \in DOMAIN map : map[i].key = n /\ map[i].blockedUntil = b
BlocksKept == \A n \in Names : now < due[n] => Blocks(limiter, n, due[n])

LimiterTypeOK ==
  /\ limiter \in LimiterMaps /\ Len(limiter) <= MaxEntries
  /\ now \in Nat /\ due \in [Names -> Nat]
BackoffInv == LimiterTypeOK /\ BlocksKept /\ BackoffKept

(* Loops *)

\* A non-empty set of natural numbers has a least member.
LEMMA HasLeast ==
  ASSUME NEW S \in SUBSET Nat, S # {}
  PROVE  \E n \in S : \A m \in S : n <= m
<1> DEFINE R == {ss \in Nat \X Nat : ss[1] < ss[2]}
<1>1. IsWellFoundedOn(R, Nat)
  BY NatLessThanWellFounded, Zenon DEF OpToRel
<1>2. PICK n \in S : \A m \in S : ~(<<m, n>> \in R)
  <2> HIDE DEF R
  <2> QED
    BY <1>1, WFMin, Zenon
<1>3. \A m \in S : ~(m < n)
  BY <1>2
<1> QED
  BY <1>3

\* What holds at first and from turn to turn holds in the end.
LEMMA LoopStays ==
  ASSUME NEW n \in Nat, NEW f, NEW S, f[0] \in S,
         \A i \in 1..n : f[i - 1] \in S => f[i] \in S
  PROVE  f[n] \in S
<1> DEFINE T == {i \in 0..n : f[i] \notin S}
<1> SUFFICES ASSUME T # {} PROVE FALSE
  OBVIOUS
<1>1. PICK m \in T : \A i \in T : m <= i
  <2>1. T \in SUBSET Nat
    OBVIOUS
  <2> HIDE DEF T
  <2> QED
    BY <2>1, HasLeast
<1>2. m \in 1..n /\ f[m] \notin S
  BY <1>1
<1>3. m - 1 \in 0..n /\ m - 1 \notin T
  BY <1>1, <1>2
<1> QED
  BY <1>2, <1>3

\* A loop of n turns can be gone through.
GoneThrough(n, start, step, g) ==
  /\ g = [i \in 0..n |-> g[i]] /\ g[0] = start
  /\ \A i \in 1..n : g[i] = step[<<i, g[i - 1]>>]

LEMMA LoopGoes ==
  ASSUME NEW n \in Nat, NEW S, NEW start \in S, NEW step \in [(1..n) \X S -> S]
  PROVE  \E g : GoneThrough(n, start, step, g)
<1> DEFINE IsRun(m, g) ==
             /\ g \in [0..m -> S] /\ g[0] = start
             /\ \A i \in 1..m : g[i] = step[<<i, g[i - 1]>>]
           T == {m \in 0..n : ~\E g : IsRun(m, g)}
<1>1. T = {}
  <2> SUFFICES ASSUME T # {} PROVE FALSE
    OBVIOUS
  <2>1. PICK m \in T : \A i \in T : m <= i
    <3>1. T \in SUBSET Nat
      OBVIOUS
    <3> HIDE DEF T
    <3> QED
      BY <3>1, HasLeast
  <2>2. m \in 0..n /\ ~\E g : IsRun(m, g)
    BY <2>1
  <2>3. m # 0
    <3> DEFINE g == [i \in 0..0 |-> start]
    <3>1. IsRun(0, g)
      OBVIOUS
    <3> QED
      BY <3>1, <2>2
  <2>4. m - 1 \in 0..n /\ m - 1 \notin T
    BY <2>1, <2>2, <2>3
  <2>5. PICK h : IsRun(m - 1, h)
    BY <2>4
  <2> DEFINE g == [i \in 0..m |-> IF i = m THEN step[<<m, h[m - 1]>>] ELSE h[i]]
  <2>6. h[m - 1] \in S
    BY <2>5, <2>2, <2>3
  <2>7. g \in [0..m -> S]
    <3>1. ASSUME NEW i \in 0..m PROVE g[i] \in S
      <4>1. CASE i = m
        BY <4>1, <2>2, <2>3, <2>6
      <4>2. CASE i # m
        BY <4>2, <2>2, <2>5
      <4> QED
        BY <4>1, <4>2
    <3> QED
      BY <3>1
  <2>8. g[0] = start
    BY <2>2, <2>3, <2>5
  <2>9. ASSUME NEW i \in 1..m PROVE g[i] = step[<<i, g[i - 1]>>]
    <3>1. i - 1 \in 0..m /\ i - 1 # m /\ i \in 0..m
      BY <2>2
    <3>2. g[i - 1] = h[i - 1]
      BY <3>1
    <3>3. CASE i = m
      BY <3>1, <3>2, <3>3
    <3>4. CASE i # m
      <4>1. i \in 1..(m - 1)
        BY <3>4, <2>2
      <4>2. g[i] = h[i]
        BY <3>1, <3>4
      <4> QED
        BY <4>1, <4>2, <3>2, <2>5
    <3> QED
      BY <3>3, <3>4
  <2>10. IsRun(m, g)
    <3> HIDE DEF g
    <3> QED
      BY <2>7, <2>8, <2>9
  <2> QED
    BY <2>10, <2>2
<1>2. PICK g : IsRun(n, g)
  <2>1. n \in 0..n
    OBVIOUS
  <2> HIDE DEF IsRun
  <2>2. n \notin T
    <3> HIDE DEF T
    <3> QED
      BY <1>1
  <2> QED
    BY <2>1, <2>2
<1> QED
  BY <1>2 DEF GoneThrough

\* The entry that a key has.
LEMMA OfIs ==
  ASSUME NEW map \in LimiterMaps, NEW n, Has(map, n)
  PROVE  /\ Place(map, n) \in DOMAIN map /\ map[Place(map, n)].key = n
         /\ \A i \in DOMAIN map : map[i].key = n => i = Place(map, n)
         /\ Of(map, n) = map[Place(map, n)] /\ Of(map, n) \in Entries /\ Of(map, n).key = n
         /\ \A b : Blocks(map, n, b) <=> Of(map, n).blockedUntil = b
<1>1. Place(map, n) \in DOMAIN map /\ map[Place(map, n)].key = n
  BY DEF Has, Place
<1>2. \A i \in DOMAIN map : map[i].key = n => i = Place(map, n)
  BY <1>1 DEF LimiterMaps
<1>3. Of(map, n) = map[Place(map, n)]
  BY DEF Of
<1>4. map \in Seq(Entries)
  BY DEF LimiterMaps
<1>5. Of(map, n) \in Entries
  BY <1>1, <1>3, <1>4, ElementOfSeq
<1>6. \A b : Blocks(map, n, b) <=> Of(map, n).blockedUntil = b
  BY <1>1, <1>2, <1>3, Zenon DEF Blocks
<1> QED
  BY <1>1, <1>2, <1>3, <1>5, <1>6

\* What an operation leaves of the entries: one for each key still, no more of them, and
\* of each name but some the one it had.
Keeps(map, after, most, but, least) ==
  /\ after \in LimiterMaps /\ Len(after) <= most
  /\ \A m \in Names \ but : \A b \in Nat : least <= b /\ Blocks(map, m, b) => Blocks(after, m, b)

\* An entry deleted.
LEMMA WithoutKeeps ==
  ASSUME NEW map \in LimiterMaps, NEW n
  PROVE  Keeps(map, Without(map, n), Len(map), {n}, 0) /\ ~Has(Without(map, n), n)
<1> DEFINE k == Place(map, n)
           N == Len(map)
           after == RemoveAt(map, k)
<1>1. map \in Seq(Entries) /\ N \in Nat /\ DOMAIN map = 1..N
  BY LenProperties DEF LimiterMaps
<1>2. CASE ~Has(map, n)
  BY <1>1, <1>2 DEF Without, Keeps
<1>3. CASE Has(map, n)
  <2>1. k \in 1..N /\ map[k].key = n /\ \A i \in 1..N : map[i].key = n => i = k
    BY <1>1, <1>3, OfIs
  <2> HIDE DEF k, N
  <2>2. \A i \in 1..N : map[i] \in Entries
    BY <1>1, ElementOfSeq DEF N
  <2>3. /\ SubSeq(map, 1, k - 1) \in Seq(Entries) /\ Len(SubSeq(map, 1, k - 1)) = k - 1
        /\ \A i \in 1..(k - 1) : SubSeq(map, 1, k - 1)[i] = map[i]
    <3>1. k - 1 \in Int /\ \A i \in 1..(k - 1) : map[i] \in Entries
      BY <1>1, <2>1, <2>2
    <3>2. \A i \in 1..(k - 1) : 1 + i - 1 = i /\ i \in 1..(k - 1 - 1 + 1)
      BY <1>1, <2>1
    <3> QED
      BY <1>1, <2>1, <3>1, <3>2, SubSeqProperties
  <2>4. /\ SubSeq(map, k + 1, N) \in Seq(Entries) /\ Len(SubSeq(map, k + 1, N)) = N - k
        /\ \A i \in 1..(N - k) : SubSeq(map, k + 1, N)[i] = map[k + i]
    <3>1. k + 1 \in Int /\ N \in Int /\ \A i \in (k + 1)..N : map[i] \in Entries
      BY <1>1, <2>1, <2>2
    <3>2. \A i \in 1..(N - k) : k + 1 + i - 1 = k + i /\ i \in 1..(N - (k + 1) + 1)
      BY <1>1, <2>1
    <3>3. IF k + 1 <= N THEN N - (k + 1) + 1 = N - k ELSE 0 = N - k
      BY <1>1, <2>1
    <3> QED
      BY <3>1, <3>2, <3>3, SubSeqProperties
  <2>5. /\ after \in Seq(Entries) /\ Len(after) = N - 1
        /\ \A i \in 1..(N - 1) : after[i] = IF i < k THEN map[i] ELSE map[i + 1]
    <3> DEFINE s == SubSeq(map, 1, k - 1)
               t == SubSeq(map, k + 1, N)
    <3>1. after = s \o t
      BY DEF RemoveAt, N
    <3> HIDE DEF s, t, after
    <3>2. /\ s \in Seq(Entries) /\ Len(s) = k - 1 /\ \A i \in 1..(k - 1) : s[i] = map[i]
      BY <2>3 DEF s
    <3>3. /\ t \in Seq(Entries) /\ Len(t) = N - k /\ \A i \in 1..(N - k) : t[i] = map[k + i]
      BY <2>4 DEF t
    <3>4. /\ after \in Seq(Entries) /\ Len(after) = N - 1
          /\ \A i \in 1..(N - 1) : after[i] = IF i <= k - 1 THEN s[i] ELSE t[i - (k - 1)]
      <4>1. Len(s) + Len(t) = N - 1
        BY <1>1, <2>1, <3>2, <3>3
      <4>2. /\ s \o t \in Seq(Entries) /\ Len(s \o t) = Len(s) + Len(t)
            /\ \A i \in 1..(Len(s) + Len(t)) :
                 (s \o t)[i] = IF i <= Len(s) THEN s[i] ELSE t[i - Len(s)]
        BY <3>2, <3>3, ConcatProperties
      <4>3. Len(s) = k - 1
        BY <3>2
      <4> QED
        BY <3>1, <4>1, <4>2, <4>3
    <3>5. ASSUME NEW i \in 1..(N - 1)
          PROVE  after[i] = IF i < k THEN map[i] ELSE map[i + 1]
      <4>1. CASE i < k
        BY <4>1, <1>1, <2>1, <3>2, <3>4
      <4>2. CASE ~(i < k)
        <5>1. i - (k - 1) \in 1..(N - k) /\ k + (i - (k - 1)) = i + 1
          BY <4>2, <1>1, <2>1
        <5>2. t[i - (k - 1)] = map[i + 1]
          BY <5>1, <3>3
        <5>3. after[i] = t[i - (k - 1)]
          BY <4>2, <1>1, <2>1, <3>4
        <5> QED
          BY <4>2, <5>2, <5>3
      <4> QED
        BY <4>1, <4>2
    <3> QED
      BY <3>4, <3>5
  <2> HIDE DEF after
  <2>6. DOMAIN after = 1..(N - 1)
    BY <2>5, LenProperties
  <2>7. ASSUME NEW i \in 1..(N - 1)
        PROVE  LET o == IF i < k THEN i ELSE i + 1
               IN  o \in 1..N /\ o # k /\ after[i] = map[o]
    BY <1>1, <2>1, <2>5
  <2>8. after \in LimiterMaps
    <3> SUFFICES ASSUME NEW i \in 1..(N - 1), NEW j \in 1..(N - 1), after[i].key = after[j].key
                 PROVE  i = j
      BY <2>5, <2>6 DEF LimiterMaps
    <3> DEFINE o == IF i < k THEN i ELSE i + 1
               q == IF j < k THEN j ELSE j + 1
    <3>1. o \in 1..N /\ q \in 1..N /\ map[o].key = map[q].key
      BY <2>7
    <3>2. o = q
      BY <3>1, <1>1 DEF LimiterMaps
    <3> QED
      BY <3>2, <1>1, <2>1
  <2>9. ASSUME NEW i \in 1..N, i # k PROVE \E j \in 1..(N - 1) : after[j] = map[i]
    <3> DEFINE j == IF i < k THEN i ELSE i - 1
    <3>1. j \in 1..(N - 1) /\ (IF j < k THEN j ELSE j + 1) = i
      BY <1>1, <2>1, <2>9
    <3> QED
      BY <3>1, <2>7
  <2>10. \A m \in Names \ {n} : \A b \in Nat : Blocks(map, m, b) => Blocks(after, m, b)
    BY <1>1, <2>1, <2>6, <2>9 DEF Blocks
  <2>11. ~Has(after, n)
    BY <2>1, <2>6, <2>7 DEF Has
  <2>12. Without(map, n) = after
    BY <1>3 DEF Without, after, k
  <2> QED
    BY <1>1, <2>5, <2>8, <2>10, <2>11, <2>12 DEF Keeps, N
<1> QED
  BY <1>2, <1>3

\* An entry exchanged for another of its key.
LEMMA WithKeeps ==
  ASSUME NEW map \in LimiterMaps, NEW e \in Entries
  PROVE  /\ Keeps(map, With(map, e), Len(map), {e.key}, 0)
         /\ Has(map, e.key) => Blocks(With(map, e), e.key, e.blockedUntil)
<1> DEFINE N == Len(map)
           after == With(map, e)
<1>1. map \in Seq(Entries) /\ N \in Nat /\ DOMAIN map = 1..N
  BY LenProperties DEF LimiterMaps
<1>2. \A i \in 1..N : map[i] \in Entries
  BY <1>1, ElementOfSeq
<1>3. after = [i \in 1..N |-> IF map[i].key = e.key THEN e ELSE map[i]]
  BY <1>1 DEF With
<1>4. after \in Seq(Entries) /\ Len(after) = N
  <2>1. after \in [1..N -> Entries]
    BY <1>2, <1>3
  <2> HIDE DEF after, N
  <2> QED
    BY <1>1, <2>1
<1>5. \A i \in 1..N : after[i].key = map[i].key
  BY <1>3
<1>6. DOMAIN after = 1..N
  BY <1>3
<1> HIDE DEF after
<1>7. after \in LimiterMaps
  BY <1>1, <1>4, <1>5, <1>6 DEF LimiterMaps
<1>8. \A m \in Names \ {e.key} : \A b \in Nat : Blocks(map, m, b) => Blocks(after, m, b)
  BY <1>1, <1>3, <1>6 DEF Blocks
<1>9. Has(map, e.key) => Blocks(after, e.key, e.blockedUntil)
  BY <1>1, <1>3, <1>6 DEF Blocks, Has
<1>10. Len(after) <= Len(map)
  BY <1>1, <1>4
<1> QED
  BY <1>7, <1>8, <1>9, <1>10 DEF Keeps, after

\* What the cleanup leaves: all that is not stale, in its order.
LEMMA CleanedKeeps ==
  ASSUME NEW map \in LimiterMaps, NEW time \in Nat
  PROVE  /\ Keeps(map, Cleaned(map, time), Len(map), {}, time + 1)
         /\ \A n : Has(Cleaned(map, time), n) => Has(map, n)
         /\ Len(Cleaned(map, time)) = Len(map) =>
              (\A i \in DOMAIN map : ~Stale(map[i], time)) /\ Cleaned(map, time) = map
<1> DEFINE N == Len(map)
           S == Seq(Entries)
           kept[i \in 0..N] ==
             IF i = 0 THEN << >>
             ELSE IF Stale(map[i], time) THEN kept[i - 1] ELSE Append(kept[i - 1], map[i])
           step == [is \in (1..N) \X S |->
                      IF Stale(map[is[1]], time) THEN is[2] ELSE Append(is[2], map[is[1]])]
<1>1. map \in Seq(Entries) /\ N \in Nat /\ DOMAIN map = 1..N
  BY LenProperties DEF LimiterMaps
<1>2. \A i \in 1..N : map[i] \in Entries
  BY <1>1, ElementOfSeq
<1>3. \A i \in 1..N, s \in S : Append(s, map[i]) \in S
  BY <1>2, AppendProperties
<1>4. step \in [(1..N) \X S -> S]
  BY <1>3
<1>5. << >> \in S
  OBVIOUS
<1>6. PICK g : GoneThrough(N, << >>, step, g)
  <2> DEFINE start == << >>
  <2>1. start \in S
    OBVIOUS
  <2> HIDE DEF step, N, start, S
  <2>2. \E g : GoneThrough(N, start, step, g)
    BY <1>1, <1>4, <2>1, LoopGoes
  <2> QED
    BY <2>2 DEF start
<1>7. /\ g = [i \in 0..N |-> g[i]] /\ g[0] = << >>
      /\ \A i \in 1..N : g[i] = step[<<i, g[i - 1]>>]
  BY <1>6 DEF GoneThrough
<1>8. \A i \in 0..N : g[i] \in S
  <2>1. \A i \in 1..N : g[i - 1] \in S => g[i] \in S
    <3> SUFFICES ASSUME NEW i \in 1..N, g[i - 1] \in S PROVE g[i] \in S
      OBVIOUS
    <3>1. <<i, g[i - 1]>> \in (1..N) \X S
      OBVIOUS
    <3> HIDE DEF step, N, S
    <3> QED
      BY <3>1, <1>4, <1>7
  <2>2. ASSUME NEW m \in 0..N PROVE g[m] \in S
    <3>1. m \in Nat /\ g[0] \in S
      BY <1>1, <1>5, <1>7
    <3>2. \A i \in 1..m : g[i - 1] \in S => g[i] \in S
      BY <1>1, <2>1
    <3> HIDE DEF N, S
    <3> QED
      BY <3>1, <3>2, LoopStays
  <2> QED
    BY <2>2
<1>9. g = [i \in 0..N |->
             IF i = 0 THEN << >>
             ELSE IF Stale(map[i], time) THEN g[i - 1] ELSE Append(g[i - 1], map[i])]
  <2>1. ASSUME NEW i \in 0..N
        PROVE  g[i] = IF i = 0 THEN << >>
                      ELSE IF Stale(map[i], time) THEN g[i - 1] ELSE Append(g[i - 1], map[i])
    <3>1. CASE i = 0
      BY <3>1, <1>7
    <3>2. CASE i # 0
      <4>1. i \in 1..N /\ i - 1 \in 0..N
        BY <3>2, <1>1
      <4>2. <<i, g[i - 1]>> \in (1..N) \X S
        BY <4>1, <1>8
      <4>3. step[<<i, g[i - 1]>>] =
              IF Stale(map[i], time) THEN g[i - 1] ELSE Append(g[i - 1], map[i])
        BY <4>2
      <4> HIDE DEF step
      <4> QED
        BY <3>2, <4>1, <4>3, <1>7
    <3> QED
      BY <3>1, <3>2
  <2> QED
    BY <2>1, <1>7
<1>10. kept = [i \in 0..N |->
                 IF i = 0 THEN << >>
                 ELSE IF Stale(map[i], time) THEN kept[i - 1] ELSE Append(kept[i - 1], map[i])]
  BY <1>9
<1>11. Cleaned(map, time) = kept[N]
  BY DEF Cleaned
<1> HIDE DEF kept, step
<1>12. /\ kept[0] = << >>
       /\ \A i \in 1..N : kept[i] = IF Stale(map[i], time) THEN kept[i - 1]
                                    ELSE Append(kept[i - 1], map[i])
  <2>1. 0 \in 0..N
    BY <1>1
  <2>2. \A i \in 1..N : i \in 0..N /\ i # 0
    BY <1>1
  <2> QED
    BY <2>1, <2>2, <1>10
\* What is kept when i entries were looked at.
<1> DEFINE KeptTo(i, s) ==
             /\ s \in S /\ Len(s) <= i
             /\ \A j \in DOMAIN s : \E k \in 1..i : s[j] = map[k]
             /\ \A j, k \in DOMAIN s : s[j].key = s[k].key => j = k
             /\ \A k \in 1..i : ~Stale(map[k], time) => \E j \in DOMAIN s : s[j] = map[k]
             /\ Len(s) = i => \A k \in 1..i : ~Stale(map[k], time) /\ s[k] = map[k]
<1>13. KeptTo(0, << >>)
  <2>1. Len(<< >>) = 0 /\ DOMAIN << >> = {} /\ 1..0 = {}
    OBVIOUS
  <2> QED
    BY <2>1, <1>5
<1>14. ASSUME NEW i \in 1..N, NEW s, KeptTo(i - 1, s)
       PROVE  KeptTo(i, IF Stale(map[i], time) THEN s ELSE Append(s, map[i]))
  <2>1. i \in Nat /\ i - 1 \in Nat /\ 1..i = (1..(i - 1)) \cup {i} /\ i \notin 1..(i - 1)
    BY <1>1
  <2>2. s \in S /\ Len(s) \in Nat /\ DOMAIN s = 1..Len(s) /\ Len(s) <= i - 1
    BY <1>14, LenProperties
  <2>3. CASE Stale(map[i], time)
    <3>1. Len(s) <= i /\ Len(s) # i
      <4>1. \A x \in Nat : x <= i - 1 => x <= i /\ x # i
        BY <2>1
      <4> QED
        BY <2>2, <4>1, Zenon
    <3>2. KeptTo(i, s)
      BY <1>14, <2>1, <2>3, <3>1
    <3> QED
      BY <2>3, <3>2
  <2>4. CASE ~Stale(map[i], time)
    <3> DEFINE t == Append(s, map[i])
               M == Len(s)
    <3>1. /\ t \in S /\ Len(t) = M + 1 /\ M \in Nat /\ DOMAIN t = 1..(M + 1)
          /\ \A j \in 1..M : t[j] = s[j]
          /\ t[M + 1] = map[i]
      BY <1>2, <2>2, AppendProperties, LenProperties
    <3> HIDE DEF t, S, M
    <3>2. M <= i - 1 /\ DOMAIN s = 1..M
      BY <2>2 DEF M
    <3>3. M + 1 <= i /\ 1..(M + 1) = (1..M) \cup {M + 1}
      BY <2>1, <3>1, <3>2
    <3>4. ASSUME NEW j \in DOMAIN t PROVE \E k \in 1..i : t[j] = map[k]
      BY <1>14, <2>1, <3>1, <3>2, <3>3
    <3>5. \A j \in 1..M : s[j].key # map[i].key
      <4> SUFFICES ASSUME NEW j \in 1..M, s[j].key = map[i].key PROVE FALSE
        OBVIOUS
      <4>1. PICK k \in 1..(i - 1) : s[j] = map[k]
        BY <1>14, <3>2
      <4>2. k \in 1..N /\ k # i
        BY <1>1
      <4> QED
        BY <4>1, <4>2, <1>1 DEF LimiterMaps
    <3>6. ASSUME NEW j \in DOMAIN t, NEW k \in DOMAIN t, t[j].key = t[k].key PROVE j = k
      <4>1. CASE j \in 1..M /\ k \in 1..M
        <5>1. s[j].key = s[k].key
          BY <4>1, <3>1, <3>6
        <5> QED
          BY <4>1, <5>1, <3>2, <1>14
      <4>2. CASE j = M + 1 /\ k = M + 1
        BY <4>2
      <4>3. CASE j \in 1..M /\ k = M + 1
        BY <4>3, <3>1, <3>5, <3>6
      <4>4. CASE k \in 1..M /\ j = M + 1
        BY <4>4, <3>1, <3>5, <3>6
      <4> QED
        BY <4>1, <4>2, <4>3, <4>4, <3>1, <3>3
    <3>7. ASSUME NEW k \in 1..i, ~Stale(map[k], time) PROVE \E j \in DOMAIN t : t[j] = map[k]
      <4>1. CASE k = i
        BY <4>1, <3>1, <3>3
      <4>2. CASE k # i
        <5>1. k \in 1..(i - 1)
          BY <4>2, <2>1
        <5>2. PICK j \in DOMAIN s : s[j] = map[k]
          BY <5>1, <3>7, <1>14
        <5> QED
          BY <5>2, <3>1, <3>2, <3>3
      <4> QED
        BY <4>1, <4>2
    <3>8. ASSUME Len(t) = i, NEW k \in 1..i PROVE ~Stale(map[k], time) /\ t[k] = map[k]
      <4>1. M = i - 1
        BY <3>1, <3>8, <2>1
      <4>2. CASE k = i
        BY <4>1, <4>2, <2>4, <3>1, <2>1
      <4>3. CASE k # i
        <5>1. k \in 1..M /\ k \in 1..(i - 1)
          BY <4>1, <4>3, <2>1
        <5>2. ~Stale(map[k], time) /\ s[k] = map[k]
          BY <5>1, <4>1, <1>14 DEF M
        <5> QED
          BY <5>1, <5>2, <3>1
      <4> QED
        BY <4>2, <4>3
    <3>9. Len(t) <= i
      BY <3>1, <3>3
    <3>10. KeptTo(i, t)
      BY <3>1, <3>4, <3>6, <3>7, <3>8, <3>9
    <3> QED
      BY <2>4, <3>10 DEF t
  <2> QED
    BY <2>3, <2>4
<1>15. KeptTo(N, kept[N])
  <2> DEFINE T == {is \in (0..N) \X {kept[i] : i \in 0..N} : KeptTo(is[1], is[2])}
             pair == [i \in 0..N |-> <<i, kept[i]>>]
  <2> HIDE DEF KeptTo
  <2>1. 0 \in 0..N /\ \A i \in 1..N : i \in 0..N /\ i - 1 \in 0..N
    BY <1>1
  <2>2. pair[0] \in T
    BY <2>1, <1>12, <1>13
  <2>3. ASSUME NEW i \in 1..N, pair[i - 1] \in T PROVE pair[i] \in T
    <3>1. KeptTo(i - 1, kept[i - 1])
      BY <2>1, <2>3
    <3>2. KeptTo(i, IF Stale(map[i], time) THEN kept[i - 1] ELSE Append(kept[i - 1], map[i]))
      BY <3>1, <1>14
    <3>3. KeptTo(i, kept[i])
      BY <3>2, <1>12
    <3> QED
      BY <2>1, <3>3
  <2>4. pair[N] \in T
    <3> HIDE DEF pair, T, N
    <3> QED
      BY <1>1, <2>2, <2>3, LoopStays
  <2>5. N \in 0..N
    BY <1>1
  <2> QED
    BY <2>4, <2>5
<1> DEFINE after == Cleaned(map, time)
<1>16. KeptTo(N, after)
  BY <1>11, <1>15
<1> HIDE DEF after
<1>17. after \in Seq(Entries) /\ Len(after) <= N /\ DOMAIN after = 1..Len(after)
  BY <1>16, LenProperties
<1>18. after \in LimiterMaps
  BY <1>16, <1>17 DEF LimiterMaps
<1>19. ASSUME NEW m \in Names, NEW b \in Nat, time + 1 <= b, Blocks(map, m, b)
       PROVE  Blocks(after, m, b)
  <2>1. PICK i \in 1..N : map[i].key = m /\ map[i].blockedUntil = b
    BY <1>1, <1>19 DEF Blocks
  <2>2. ~Stale(map[i], time)
    BY <1>19, <2>1 DEF Stale
  <2>3. PICK j \in DOMAIN after : after[j] = map[i]
    BY <1>16, <2>2
  <2> QED
    BY <2>1, <2>3 DEF Blocks
<1>20. \A n : Has(after, n) => Has(map, n)
  BY <1>1, <1>16 DEF Has
<1>21. ASSUME Len(after) = N PROVE (\A i \in DOMAIN map : ~Stale(map[i], time)) /\ after = map
  <2>1. \A i \in 1..N : ~Stale(map[i], time) /\ after[i] = map[i]
    BY <1>16, <1>21
  <2> QED
    BY <1>1, <1>17, <1>21, <2>1, SeqEqual
<1> QED
  BY <1>17, <1>18, <1>19, <1>20, <1>21 DEF Keeps, after

\* Who keeps what another kept keeps it.
LEMMA KeepsOn ==
  ASSUME NEW map, NEW mid, NEW after, NEW most, NEW more, NEW but, NEW least \in Nat,
         NEW lower \in Nat, lower <= least,
         Keeps(map, mid, more, but, least), Keeps(mid, after, most, but, lower)
  PROVE  Keeps(map, after, most, but, least)
<1> SUFFICES ASSUME NEW m \in Names \ but, NEW b \in Nat, least <= b, Blocks(map, m, b)
             PROVE  Blocks(after, m, b)
  BY DEF Keeps
<1>1. Blocks(mid, m, b) /\ lower <= b
  BY DEF Keeps
<1> QED
  BY <1>1 DEF Keeps

\* One that does not keep the oldest.
LEMMA TailKeeps ==
  ASSUME NEW map \in LimiterMaps, map # << >>
  PROVE  /\ Keeps(map, Tail(map), Len(map) - 1, {map[1].key}, 0)
         /\ \A n : Has(Tail(map), n) => Has(map, n)
<1>1. map \in Seq(Entries) /\ Len(map) \in Nat /\ DOMAIN map = 1..Len(map) /\ Len(map) # 0
  BY LenProperties, EmptySeq DEF LimiterMaps
<1> DEFINE N == Len(map)
           t == Tail(map)
<1>2. /\ t \in Seq(Entries) /\ Len(t) = N - 1
      /\ \A i \in 1..Len(t) : t[i] = map[i + 1]
  BY <1>1, HeadTailProperties
<1>3. DOMAIN t = 1..(N - 1)
  BY <1>2, LenProperties
<1> HIDE DEF t, N
<1>4. N \in Nat /\ N # 0 /\ DOMAIN map = 1..N /\ \A i \in 1..(N - 1) : t[i] = map[i + 1]
  BY <1>1, <1>2 DEF N
<1>5. t \in LimiterMaps
  <2> SUFFICES ASSUME NEW i \in 1..(N - 1), NEW j \in 1..(N - 1), t[i].key = t[j].key
               PROVE  i = j
    BY <1>2, <1>3 DEF LimiterMaps
  <2>1. i + 1 \in 1..N /\ j + 1 \in 1..N /\ map[i + 1].key = map[j + 1].key
    BY <1>4
  <2>2. i + 1 = j + 1
    BY <2>1, <1>4 DEF LimiterMaps
  <2> QED
    BY <2>2, <1>4
<1>6. ASSUME NEW m \in Names \ {map[1].key}, NEW b \in Nat, Blocks(map, m, b)
      PROVE  Blocks(t, m, b)
  <2>1. PICK i \in 1..N : map[i].key = m /\ map[i].blockedUntil = b
    BY <1>4, <1>6 DEF Blocks
  <2>2. i # 1
    BY <2>1
  <2>3. i - 1 \in 1..(N - 1) /\ (i - 1) + 1 = i
    BY <2>2, <1>4
  <2>4. t[i - 1] = map[i]
    BY <2>3, <1>4
  <2> QED
    BY <2>1, <2>3, <2>4, <1>3 DEF Blocks
<1>7. ASSUME NEW n, Has(t, n) PROVE Has(map, n)
  <2>1. PICK i \in 1..(N - 1) : t[i].key = n
    BY <1>7, <1>3 DEF Has
  <2>2. i + 1 \in 1..N /\ map[i + 1].key = n
    BY <2>1, <1>4
  <2> QED
    BY <2>2, <1>4 DEF Has
<1>8. Len(t) <= N - 1
  BY <1>2, <1>4 DEF N
<1> QED
  BY <1>5, <1>6, <1>7, <1>8 DEF Keeps, t, N

\* An entry added behind the others.
LEMMA AppendKeeps ==
  ASSUME NEW map \in LimiterMaps, NEW e \in Entries, ~Has(map, e.key)
  PROVE  /\ Keeps(map, Append(map, e), Len(map) + 1, {}, 0)
         /\ Has(Append(map, e), e.key)
<1> DEFINE N == Len(map)
           t == Append(map, e)
<1>1. map \in Seq(Entries) /\ N \in Nat /\ DOMAIN map = 1..N
  BY LenProperties DEF LimiterMaps
<1>2. /\ t \in Seq(Entries) /\ Len(t) = N + 1
      /\ \A i \in 1..N : t[i] = map[i]
      /\ t[N + 1] = e
  BY <1>1, AppendProperties
<1>3. DOMAIN t = 1..(N + 1)
  BY <1>2, LenProperties
<1> HIDE DEF t, N
<1>4. 1..(N + 1) = (1..N) \cup {N + 1}
  BY <1>1
<1>5. t \in LimiterMaps
  <2> SUFFICES ASSUME NEW i \in 1..(N + 1), NEW j \in 1..(N + 1), t[i].key = t[j].key
               PROVE  i = j
    BY <1>2, <1>3 DEF LimiterMaps
  <2>1. \A k \in 1..N : t[k].key # e.key
    BY <1>1, <1>2 DEF Has
  <2>2. CASE i \in 1..N /\ j \in 1..N
    BY <2>2, <1>1, <1>2 DEF LimiterMaps
  <2> QED
    BY <2>1, <2>2, <1>2, <1>4
<1>6. \A m \in Names, b \in Nat : Blocks(map, m, b) => Blocks(t, m, b)
  BY <1>1, <1>2, <1>3, <1>4 DEF Blocks
<1>7. Has(t, e.key)
  BY <1>2, <1>3, <1>4 DEF Has
<1>8. Len(t) <= N + 1
  BY <1>1, <1>2
<1> QED
  BY <1>5, <1>6, <1>7, <1>8 DEF Keeps, t, N

\* Whom a map makes room with: nobody who is blocked, unless it is full and nothing in
\* it is stale.
LEMMA InsertedKeeps ==
  ASSUME NEW map \in LimiterMaps, Len(map) <= MaxEntries, NEW e \in Entries, ~Has(map, e.key),
         NEW time \in Nat
  PROVE  LET out == IF Len(map) >= MaxEntries /\ \A i \in DOMAIN map : ~Stale(map[i], time)
                    THEN {map[1].key} ELSE {}
         IN  /\ Keeps(map, Inserted(map, e, time), MaxEntries, out, time + 1)
             /\ Has(Inserted(map, e, time), e.key)
<1> DEFINE clean == IF Len(map) >= MaxEntries THEN Cleaned(map, time) ELSE map
           room == IF Len(clean) >= MaxEntries THEN Tail(clean) ELSE clean
           out == IF Len(map) >= MaxEntries /\ \A i \in DOMAIN map : ~Stale(map[i], time)
                  THEN {map[1].key} ELSE {}
<1>1. MaxEntries \in Nat /\ MaxEntries >= 1 /\ Len(map) \in Nat
  BY LimiterAssumption, LenProperties DEF LimiterMaps
<1>2. Inserted(map, e, time) = Append(room, e)
  BY DEF Inserted
<1>3. /\ Keeps(map, clean, Len(map), {}, time + 1)
      /\ \A n : Has(clean, n) => Has(map, n)
  <2>1. CASE Len(map) >= MaxEntries
    BY <2>1, CleanedKeeps
  <2>2. CASE ~(Len(map) >= MaxEntries)
    BY <2>2, <1>1 DEF Keeps
  <2> QED
    BY <2>1, <2>2
<1>4. /\ Keeps(map, room, MaxEntries - 1, out, time + 1)
      /\ \A n : Has(room, n) => Has(map, n)
  <2>1. clean \in LimiterMaps /\ Len(clean) \in Nat /\ Len(clean) <= Len(map)
    BY <1>3, LenProperties DEF Keeps, LimiterMaps
  <2>2. CASE ~(Len(clean) >= MaxEntries)
    <3>1. Len(clean) <= MaxEntries - 1
      BY <1>1, <2>1, <2>2
    <3> HIDE DEF clean, out
    <3> QED
      BY <1>3, <2>2, <3>1 DEF Keeps
  <2>3. CASE Len(clean) >= MaxEntries
    <3>1. Len(map) >= MaxEntries /\ Len(clean) = Len(map) /\ Len(map) = MaxEntries
      BY <1>1, <2>1, <2>3
    <3>2. clean = Cleaned(map, time)
      BY <3>1
    <3>3. (\A i \in DOMAIN map : ~Stale(map[i], time)) /\ clean = map
      BY <3>1, <3>2, CleanedKeeps
    <3>4. out = {map[1].key} /\ room = Tail(map)
      BY <3>1, <3>3
    <3>5. map # << >>
      BY <3>1, <1>1
    <3>6. Keeps(map, Tail(map), Len(map) - 1, {map[1].key}, 0)
      BY <3>5, TailKeeps
    <3>7. \A n : Has(Tail(map), n) => Has(map, n)
      BY <3>5, TailKeeps
    <3> HIDE DEF room, clean, out
    <3>8. Keeps(map, room, MaxEntries - 1, out, time + 1)
      BY <3>1, <3>4, <3>6 DEF Keeps
    <3> QED
      BY <3>4, <3>7, <3>8
  <2> QED
    BY <2>2, <2>3
<1> HIDE DEF room, clean, out
<1>5. room \in LimiterMaps /\ ~Has(room, e.key) /\ Len(room) <= MaxEntries - 1 /\ Len(room) \in Nat
  BY <1>4, LenProperties DEF Keeps, LimiterMaps
<1>6. /\ Keeps(room, Append(room, e), Len(room) + 1, {}, 0)
      /\ Has(Append(room, e), e.key)
  BY <1>5, AppendKeeps
<1>7. Keeps(room, Append(room, e), MaxEntries, out, 0)
  <2>1. \A x \in Nat : x <= Len(room) + 1 => x <= MaxEntries
    BY <1>1, <1>5
  <2>2. Len(Append(room, e)) \in Nat
    BY <1>6, LenProperties DEF Keeps, LimiterMaps
  <2> QED
    BY <1>6, <2>1, <2>2 DEF Keeps
<1>8. Keeps(map, Append(room, e), MaxEntries, out, time + 1)
  <2>1. time + 1 \in Nat /\ 0 \in Nat /\ 0 <= time + 1
    OBVIOUS
  <2> QED
    BY <2>1, <1>4, <1>7, KeepsOn
<1> QED
  BY <1>2, <1>6, <1>8 DEF out

\* Asking whether a key is limited leaves all who are blocked.
LEMMA LookedKeeps ==
  ASSUME NEW map \in LimiterMaps, NEW n \in Names, NEW time \in Nat
  PROVE  Keeps(map, Looked(map, n, time), Len(map), {}, time + 1)
<1>1. Len(map) \in Nat
  BY LenProperties DEF LimiterMaps
<1>2. CASE ~Has(map, n) \/ Of(map, n).blockedUntil > time \/ Of(map, n).resetAt > time
  BY <1>1, <1>2 DEF Looked, Keeps
<1>3. CASE ~(~Has(map, n) \/ Of(map, n).blockedUntil > time \/ Of(map, n).resetAt > time)
  <2> DEFINE e == Of(map, n)
  <2>1. /\ e \in Entries /\ e.key = n /\ ~(e.blockedUntil > time)
        /\ \A b : Blocks(map, n, b) <=> e.blockedUntil = b
    BY <1>3, OfIs
  <2> HIDE DEF e
  <2>2. e.blockedUntil \in Nat
    BY <2>1 DEF Entries
  <2>3. \A b \in Nat : time + 1 <= b => ~Blocks(map, n, b)
    BY <2>1, <2>2
  <2>4. CASE Forgiven(e, time)
    <3>1. Looked(map, n, time) = Without(map, n)
      BY <1>3, <2>4 DEF Looked, e
    <3> QED
      BY <3>1, <2>3, WithoutKeeps DEF Keeps
  <2>5. CASE ~Forgiven(e, time)
    <3> DEFINE f == [e EXCEPT !.count = 0, !.resetAt = time + Window]
    <3>1. Looked(map, n, time) = With(map, f)
      BY <1>3, <2>5 DEF Looked, e
    <3>2. f \in Entries /\ f.key = n
      <4>1. time + Window \in Nat
        BY LimiterAssumption
      <4>2. e \in Entries /\ e.key = n
        BY <2>1
      <4> QED
        BY <4>1, <4>2 DEF Entries
    <3> HIDE DEF f
    <3>3. Keeps(map, With(map, f), Len(map), {n}, 0)
      BY <3>2, WithKeeps
    <3> QED
      BY <3>1, <3>3, <2>3 DEF Keeps
  <2> QED
    BY <2>4, <2>5
<1> QED
  BY <1>2, <1>3

\* Consuming an attempt leaves all who are blocked, but for the key that makes room.
LEMMA ConsumedKeeps ==
  ASSUME NEW map \in LimiterMaps, Len(map) <= MaxEntries, NEW n \in Names, NEW time \in Nat
  PROVE  LET seen == Looked(map, n, time)
             out == IF /\ Len(seen) >= MaxEntries /\ ~Has(seen, n)
                       /\ \A i \in DOMAIN seen : ~Stale(seen[i], time)
                    THEN {seen[1].key} ELSE {}
         IN  Keeps(map, Consumed(map, n, time), MaxEntries, out, time + 1)
<1> DEFINE seen == Looked(map, n, time)
           out == IF /\ Len(seen) >= MaxEntries /\ ~Has(seen, n)
                     /\ \A i \in DOMAIN seen : ~Stale(seen[i], time)
                  THEN {seen[1].key} ELSE {}
           after == Consumed(map, n, time)
<1>1. Keeps(map, seen, Len(map), {}, time + 1)
  BY LookedKeeps
<1>2. after = IF Has(seen, n) THEN With(seen, [Of(seen, n) EXCEPT !.count = @ + 1])
              ELSE Inserted(seen, Entry(n, time), time)
  BY DEF Consumed
<1> HIDE DEF seen, after
<1>3. /\ seen \in LimiterMaps /\ Len(seen) <= MaxEntries /\ Len(seen) \in Nat
      /\ MaxEntries \in Nat /\ Len(map) \in Nat
  <2>1. /\ seen \in LimiterMaps /\ Len(seen) <= Len(map) /\ Len(seen) \in Nat /\ Len(map) \in Nat
    BY <1>1, LenProperties DEF Keeps, LimiterMaps
  <2> QED
    BY <2>1, LimiterAssumption
<1>4. Keeps(seen, after, MaxEntries, out, time + 1)
  <2>1. CASE Has(seen, n)
    <3> DEFINE e == Of(seen, n)
               f == [e EXCEPT !.count = @ + 1]
    <3>1. e \in Entries /\ e.key = n /\ \A b : Blocks(seen, n, b) <=> e.blockedUntil = b
      BY <1>3, <2>1, OfIs
    <3> HIDE DEF e
    <3>2. f \in Entries /\ f.key = n /\ f.blockedUntil = e.blockedUntil
      BY <3>1 DEF Entries
    <3>3. after = With(seen, f)
      BY <1>2, <2>1 DEF e
    <3> HIDE DEF f
    <3>4. Keeps(seen, after, Len(seen), {n}, 0) /\ Blocks(after, n, e.blockedUntil)
      BY <1>3, <2>1, <3>2, <3>3, WithKeeps
    <3>5. Len(after) <= MaxEntries
      <4>1. Len(after) \in Nat
        BY <3>4, LenProperties DEF Keeps, LimiterMaps
      <4> QED
        BY <1>3, <3>4, <4>1 DEF Keeps
    <3>6. \A m \in Names : \A b \in Nat : Blocks(seen, m, b) => Blocks(after, m, b)
      BY <3>1, <3>4 DEF Keeps
    <3> QED
      BY <3>4, <3>5, <3>6 DEF Keeps
  <2>2. CASE ~Has(seen, n)
    <3>1. Entry(n, time) \in Entries /\ Entry(n, time).key = n
      <4>1. time + Window \in Nat
        BY LimiterAssumption
      <4> QED
        BY <4>1 DEF Entry, Entries
    <3>2. out = IF Len(seen) >= MaxEntries /\ \A i \in DOMAIN seen : ~Stale(seen[i], time)
                THEN {seen[1].key} ELSE {}
      BY <2>2
    <3> HIDE DEF out
    <3> QED
      BY <1>2, <1>3, <2>2, <3>1, <3>2, InsertedKeeps
  <2> QED
    BY <2>1, <2>2
<1> HIDE DEF out
<1>5. Keeps(map, seen, Len(map), out, time + 1)
  BY <1>1 DEF Keeps
<1> QED
  BY <1>4, <1>5, KeepsOn DEF out, seen, after

\* How long a key is blocked is a time.
LEMMA BackoffTyped ==
  ASSUME NEW n \in Nat, n >= MaxFailures
  PROVE  Backoff(n) \in Nat
<1> DEFINE N == n - MaxFailures
           long[more \in 0..N] == IF more = 0 THEN InitialBackoff ELSE 2 * long[more - 1]
           step == [is \in (1..N) \X Nat |-> 2 * is[2]]
<1>1. N \in Nat /\ InitialBackoff \in Nat /\ MaxBackoff \in Nat
  BY LimiterAssumption
<1>2. step \in [(1..N) \X Nat -> Nat]
  OBVIOUS
<1>3. PICK g : GoneThrough(N, InitialBackoff, step, g)
  <2> HIDE DEF step, N
  <2> QED
    BY <1>1, <1>2, LoopGoes
<1>4. /\ g = [i \in 0..N |-> g[i]] /\ g[0] = InitialBackoff
      /\ \A i \in 1..N : g[i] = step[<<i, g[i - 1]>>]
  BY <1>3 DEF GoneThrough
<1>5. \A i \in 0..N : g[i] \in Nat
  <2>1. \A i \in 1..N : g[i - 1] \in Nat => g[i] \in Nat
    <3> SUFFICES ASSUME NEW i \in 1..N, g[i - 1] \in Nat PROVE g[i] \in Nat
      OBVIOUS
    <3>1. <<i, g[i - 1]>> \in (1..N) \X Nat
      OBVIOUS
    <3> HIDE DEF step, N
    <3> QED
      BY <3>1, <1>2, <1>4
  <2>2. ASSUME NEW m \in 0..N PROVE g[m] \in Nat
    <3>1. m \in Nat /\ g[0] \in Nat
      BY <1>1, <1>4
    <3>2. \A i \in 1..m : g[i - 1] \in Nat => g[i] \in Nat
      BY <1>1, <2>1
    <3> HIDE DEF N
    <3> QED
      BY <3>1, <3>2, LoopStays
  <2> QED
    BY <2>2
<1>6. g = [more \in 0..N |-> IF more = 0 THEN InitialBackoff ELSE 2 * g[more - 1]]
  <2>1. ASSUME NEW i \in 0..N
        PROVE  g[i] = IF i = 0 THEN InitialBackoff ELSE 2 * g[i - 1]
    <3>1. CASE i = 0
      BY <3>1, <1>4
    <3>2. CASE i # 0
      <4>1. i \in 1..N /\ i - 1 \in 0..N
        BY <3>2, <1>1
      <4>2. <<i, g[i - 1]>> \in (1..N) \X Nat
        BY <4>1, <1>5
      <4>3. step[<<i, g[i - 1]>>] = 2 * g[i - 1]
        BY <4>2
      <4> HIDE DEF step
      <4> QED
        BY <3>2, <4>1, <4>3, <1>4
    <3> QED
      BY <3>1, <3>2
  <2> QED
    BY <2>1, <1>4
<1>7. long = [more \in 0..N |-> IF more = 0 THEN InitialBackoff ELSE 2 * long[more - 1]]
  BY <1>6
<1> HIDE DEF long, step
<1>8. long[N] \in Nat
  <2>1. long[0] \in Nat
    BY <1>1, <1>7
  <2>2. ASSUME NEW i \in 1..N, long[i - 1] \in Nat PROVE long[i] \in Nat
    <3>1. i \in 0..N /\ i # 0
      BY <1>1
    <3>2. long[i] = 2 * long[i - 1]
      BY <1>7, <3>1
    <3> QED
      BY <2>2, <3>2
  <2> HIDE DEF N
  <2> QED
    BY <1>1, <2>1, <2>2, LoopStays
<1>9. Backoff(n) = IF long[N] < MaxBackoff THEN long[N] ELSE MaxBackoff
  BY DEF Backoff, long
<1> QED
  BY <1>1, <1>8, <1>9

\* A failure recorded: the key has its entry, the others that are blocked keep theirs,
\* but for the key that makes room.
LEMMA FailedKeeps ==
  ASSUME NEW map \in LimiterMaps, Len(map) <= MaxEntries, NEW n \in Names, NEW time \in Nat
  PROVE  LET out == IF /\ Len(map) >= MaxEntries /\ ~Has(map, n)
                       /\ \A i \in DOMAIN map : ~Stale(map[i], time)
                    THEN {map[1].key} ELSE {}
         IN  /\ Keeps(map, Failed(map, n, time), MaxEntries, out \cup {n}, time + 1)
             /\ Has(Failed(map, n, time), n)
<1> DEFINE out == IF /\ Len(map) >= MaxEntries /\ ~Has(map, n)
                     /\ \A i \in DOMAIN map : ~Stale(map[i], time)
                  THEN {map[1].key} ELSE {}
           had == IF Has(map, n) THEN map ELSE Inserted(map, Entry(n, time), time)
           old == Of(had, n)
           over == Has(map, n) /\ old.resetAt <= time /\ old.blockedUntil <= time
           base == IF ~over THEN old
                   ELSE [old EXCEPT !.count = 1, !.resetAt = time + Window,
                           !.failures = IF time - old.lastFailureAt > MaxBackoff THEN 0 ELSE @]
           k == base.failures + 1
           e == [base EXCEPT !.failures = k, !.lastFailureAt = time,
                   !.blockedUntil = IF k >= MaxFailures THEN time + Backoff(k) ELSE @]
           after == Failed(map, n, time)
<1>1. after = With(had, e)
  BY DEF Failed
<1> HIDE DEF after
<1>2. time + Window \in Nat /\ MaxEntries \in Nat
  BY LimiterAssumption
<1>3. Keeps(map, had, MaxEntries, out, time + 1) /\ Has(had, n)
  <2>1. CASE Has(map, n)
    BY <2>1 DEF Keeps
  <2>2. CASE ~Has(map, n)
    <3>1. Entry(n, time) \in Entries /\ Entry(n, time).key = n
      BY <1>2 DEF Entry, Entries
    <3>2. /\ had = Inserted(map, Entry(n, time), time)
          /\ out = IF Len(map) >= MaxEntries /\ \A i \in DOMAIN map : ~Stale(map[i], time)
                   THEN {map[1].key} ELSE {}
      BY <2>2
    <3> HIDE DEF out, had
    <3> QED
      BY <2>2, <3>1, <3>2, InsertedKeeps
  <2> QED
    BY <2>1, <2>2
<1>4. had \in LimiterMaps /\ Len(had) <= MaxEntries
  BY <1>3 DEF Keeps
<1> HIDE DEF had, out
<1>5. old \in Entries /\ old.key = n
  BY <1>3, <1>4, OfIs
<1> HIDE DEF old, over
<1>6. base \in Entries /\ base.key = n
  BY <1>2, <1>5 DEF Entries
<1> HIDE DEF base
<1>7. k \in Nat
  BY <1>6 DEF Entries
<1>8. k >= MaxFailures => time + Backoff(k) \in Nat
  <2> SUFFICES ASSUME k >= MaxFailures PROVE time + Backoff(k) \in Nat
    OBVIOUS
  <2> HIDE DEF k
  <2>1. Backoff(k) \in Nat
    BY <1>7, BackoffTyped
  <2> QED
    BY <2>1
<1> HIDE DEF k
<1>9. e \in Entries /\ e.key = n
  BY <1>6, <1>7, <1>8 DEF Entries
<1> HIDE DEF e
<1>10. Keeps(had, after, Len(had), {n}, 0) /\ Blocks(after, n, e.blockedUntil)
  BY <1>1, <1>3, <1>4, <1>9, WithKeeps
<1>11. Keeps(had, after, MaxEntries, out \cup {n}, 0)
  <2>1. Len(had) \in Nat /\ Len(after) \in Nat
    BY <1>4, <1>10, LenProperties DEF Keeps, LimiterMaps
  <2>2. Len(after) <= MaxEntries
    BY <1>2, <1>4, <1>10, <2>1 DEF Keeps
  <2> QED
    BY <1>10, <2>2 DEF Keeps
<1>12. Keeps(map, had, MaxEntries, out \cup {n}, time + 1)
  BY <1>3 DEF Keeps
<1>13. Keeps(map, after, MaxEntries, out \cup {n}, time + 1)
  <2>1. time + 1 \in Nat /\ 0 \in Nat /\ 0 <= time + 1
    OBVIOUS
  <2> QED
    BY <2>1, <1>11, <1>12, KeepsOn
<1>14. Has(after, n)
  BY <1>10 DEF Blocks, Has
<1> QED
  BY <1>13, <1>14 DEF out, after

\* What a limiter that keeps the blocks of all but some makes of who is blocked, when
\* those are taken for blocked no more.
LEMMA KeepsBlocks ==
  ASSUME BackoffInv, NEW but, Keeps(limiter, limiter', MaxEntries, but, now + 1),
         now' = now, due' \in [Names -> Nat], ~early',
         \A m \in Names : now < due'[m] =>
           \/ m \notin but /\ due'[m] = due[m]
           \/ Blocks(limiter', m, due'[m])
  PROVE  BackoffInv'
<1>1. now \in Nat /\ due \in [Names -> Nat]
  BY DEF BackoffInv, LimiterTypeOK
<1>2. LimiterTypeOK'
  BY <1>1 DEF Keeps, LimiterTypeOK
<1>3. BlocksKept'
  <2> SUFFICES ASSUME NEW m \in Names, now < due'[m], m \notin but, due'[m] = due[m]
               PROVE  Blocks(limiter', m, due'[m])
    BY DEF BlocksKept, Blocks
  <2>1. Blocks(limiter, m, due[m])
    BY DEF BackoffInv, BlocksKept
  <2>2. due[m] \in Nat /\ now + 1 <= due[m]
    BY <1>1
  <2> QED
    BY <2>1, <2>2 DEF Keeps
<1>4. BackoffKept'
  BY DEF BackoffKept
<1> QED
  BY <1>2, <1>3, <1>4 DEF BackoffInv

\* Nobody who is blocked has an attempt granted.
LEMMA LoginKeepsBackoff ==
  ASSUME BackoffInv, NEW c \in Callers, NEW n \in Names, NEW pw, Login(c, n, pw)
  PROVE  BackoffInv'
<1>1. /\ limiter \in LimiterMaps /\ Len(limiter) <= MaxEntries /\ Len(limiter) \in Nat
      /\ now \in Nat /\ due \in [Names -> Nat] /\ ~early /\ now' = now
  BY LenProperties DEF BackoffInv, LimiterTypeOK, BackoffKept, LimiterMaps, Login
<1>2. Keeps(limiter, Looked(limiter, n, now), Len(limiter), {}, now + 1)
  BY <1>1, LookedKeeps
<1>3. CASE IsLimited(limiter, n, now)
  <2>1. limiter' = Looked(limiter, n, now) /\ due' = due /\ early' = early
    BY <1>3 DEF Login
  <2>2. Keeps(limiter, limiter', MaxEntries, {}, now + 1)
    <3>1. Len(limiter') \in Nat /\ MaxEntries \in Nat
      BY <1>2, <2>1, LenProperties, LimiterAssumption DEF Keeps, LimiterMaps
    <3> QED
      BY <1>1, <1>2, <2>1, <3>1 DEF Keeps
  <2> QED
    BY <1>1, <2>1, <2>2, KeepsBlocks
<1>4. CASE ~IsLimited(limiter, n, now)
  <2> DEFINE seen == Looked(limiter, n, now)
             out == IF /\ Len(seen) >= MaxEntries /\ ~Has(seen, n)
                       /\ \A i \in DOMAIN seen : ~Stale(seen[i], now)
                    THEN {seen[1].key} ELSE {}
  <2>1. /\ limiter' = Consumed(limiter, n, now) /\ due' = Spared(seen, n)
        /\ early' = (early \/ now < due[n])
    BY <1>4 DEF Login
  <2>2. Keeps(limiter, limiter', MaxEntries, out, now + 1)
    BY <1>1, <2>1, ConsumedKeeps
  <2>3. \/ out = {} /\ due' = due
        \/ out = {seen[1].key} /\ due' = [due EXCEPT ![seen[1].key] = 0]
    BY <2>1 DEF Spared
  <2> HIDE DEF seen, out
  <2>4. ~(now < due[n])
    <3> SUFFICES ASSUME now < due[n] PROVE FALSE
      OBVIOUS
    <3>1. Blocks(limiter, n, due[n])
      BY DEF BackoffInv, BlocksKept
    <3>2. Has(limiter, n)
      BY <3>1 DEF Blocks, Has
    <3>3. Of(limiter, n).blockedUntil = due[n]
      BY <1>1, <3>1, <3>2, OfIs
    <3>4. due[n] > now
      BY <1>1
    <3> QED
      BY <1>4, <3>2, <3>3, <3>4 DEF IsLimited
  <2>5. ~early'
    BY <1>1, <2>1, <2>4
  <2>6. due' \in [Names -> Nat]
    BY <1>1, <2>3
  <2>7. ASSUME NEW m \in Names, now < due'[m] PROVE m \notin out /\ due'[m] = due[m]
    BY <1>1, <2>3, <2>7
  <2> QED
    BY <1>1, <2>2, <2>5, <2>6, <2>7, KeepsBlocks
<1> QED
  BY <1>3, <1>4

\* Who failed is blocked until the entry says; who succeeded is blocked no more.
LEMMA ComparingKeepsBackoff ==
  ASSUME BackoffInv, AccountsInv, NEW c \in Callers, Compared(c) \/ Mismatched(c)
  PROVE  BackoffInv'
<1> DEFINE n == job[c].name
<1>1. /\ limiter \in LimiterMaps /\ Len(limiter) <= MaxEntries /\ Len(limiter) \in Nat
      /\ now \in Nat /\ due \in [Names -> Nat] /\ ~early /\ now' = now /\ early' = early
      /\ MaxEntries \in Nat
  BY LenProperties, LimiterAssumption
  DEF BackoffInv, LimiterTypeOK, BackoffKept, LimiterMaps, Compared, Mismatched
<1>2. n \in Names
  BY DEF AccountsInv, JobsCarryOn, CarriesOn, Compared, Mismatched
<1>3. CASE Compared(c)
  <2>1. limiter' = Without(limiter, n) /\ due' = [due EXCEPT ![n] = 0]
    BY <1>3 DEF Compared, Reset
  <2> HIDE DEF n
  <2>2. Keeps(limiter, Without(limiter, n), Len(limiter), {n}, 0)
    BY <1>1, WithoutKeeps
  <2>3. Keeps(limiter, limiter', MaxEntries, {n}, now + 1)
    <3>1. Len(limiter') \in Nat
      BY <2>1, <2>2, LenProperties DEF Keeps, LimiterMaps
    <3>2. \A b \in Nat : now + 1 <= b => 0 <= b
      OBVIOUS
    <3> QED
      BY <1>1, <2>1, <2>2, <3>1, <3>2 DEF Keeps
  <2>4. ASSUME NEW m \in Names, now < due'[m] PROVE m \notin {n} /\ due'[m] = due[m]
    BY <1>1, <1>2, <2>1, <2>4
  <2>5. due' \in [Names -> Nat]
    BY <1>1, <2>1
  <2> QED
    BY <1>1, <2>3, <2>4, <2>5, KeepsBlocks
<1>4. CASE Mismatched(c)
  <2> DEFINE out == IF /\ Len(limiter) >= MaxEntries /\ ~Has(limiter, n)
                       /\ \A i \in DOMAIN limiter : ~Stale(limiter[i], now)
                    THEN {limiter[1].key} ELSE {}
             until == Of(limiter', n).blockedUntil
  <2>1. limiter' = Failed(limiter, n, now) /\ due' = [Spared(limiter, n) EXCEPT ![n] = until]
    BY <1>4 DEF Mismatched
  <2>2. \/ out = {} /\ Spared(limiter, n) = due
        \/ out = {limiter[1].key} /\ Spared(limiter, n) = [due EXCEPT ![limiter[1].key] = 0]
    BY DEF Spared
  <2>3. Keeps(limiter, limiter', MaxEntries, out \cup {n}, now + 1) /\ Has(limiter', n)
    BY <1>1, <1>2, <2>1, FailedKeeps
  <2> HIDE DEF out, n
  <2>4. limiter' \in LimiterMaps
    BY <2>3 DEF Keeps
  <2>5. Of(limiter', n) \in Entries /\ Blocks(limiter', n, until)
    BY <2>3, <2>4, OfIs
  <2>6. until \in Nat
    BY <2>5 DEF Entries
  <2> HIDE DEF until
  <2>7. due' \in [Names -> Nat] /\ due'[n] = until
    BY <1>1, <1>2, <2>1, <2>2, <2>6
  <2>8. ASSUME NEW m \in Names, now < due'[m]
        PROVE  \/ m \notin out \cup {n} /\ due'[m] = due[m]
               \/ Blocks(limiter', m, due'[m])
    <3>1. CASE m = n
      BY <3>1, <2>5, <2>7
    <3>2. CASE m # n
      <4>1. due'[m] = Spared(limiter, n)[m]
        BY <1>1, <2>1, <2>2, <3>2
      <4> QED
        BY <1>1, <2>2, <2>8, <3>2, <4>1
    <3> QED
      BY <3>1, <3>2
  <2> QED
    BY <1>1, <2>3, <2>7, <2>8, KeepsBlocks
<1> QED
  BY <1>3, <1>4

\* Whoever does not ask the limiter leaves it, and time only ends blocks.
LEMMA OthersKeepBackoff ==
  ASSUME BackoffInv, UNCHANGED limits, now' = now \/ now' = now + 1
  PROVE  BackoffInv'
<1>1. now \in Nat /\ now' \in Nat /\ due \in [Names -> Nat]
  BY DEF BackoffInv, LimiterTypeOK
<1>2. LimiterTypeOK' /\ BackoffKept'
  BY <1>1 DEF BackoffInv, LimiterTypeOK, BackoffKept, limits
<1>3. BlocksKept'
  <2> SUFFICES ASSUME NEW m \in Names, now' < due[m] PROVE Blocks(limiter, m, due[m])
    BY DEF limits, BlocksKept, Blocks
  <2>1. now < due[m]
    BY <1>1
  <2> QED
    BY <2>1 DEF BackoffInv, BlocksKept
<1> QED
  BY <1>2, <1>3 DEF BackoffInv

\* No attempt is granted on a name that is blocked, unless somebody signed in under it
\* or its entry had to make room in a map in which nothing was stale.
THEOREM BackoffIsKept == Spec => []BackoffKept
<1>1. Init => BackoffInv
  <2> SUFFICES ASSUME Init PROVE BackoffInv
    OBVIOUS
  <2>1. << >> \in LimiterMaps /\ Len(<< >>) = 0
    BY DEF LimiterMaps
  <2>2. \A n \in Names : ~(now < due[n])
    BY DEF Init
  <2> QED
    BY <2>1, <2>2, LimiterAssumption
    DEF Init, BackoffInv, LimiterTypeOK, BlocksKept, BackoffKept
<1>2. BackoffInv /\ AccountsInv /\ [Next]_vars => BackoffInv'
  <2> SUFFICES ASSUME BackoffInv, AccountsInv, [Next]_vars PROVE BackoffInv'
    OBVIOUS
  <2>1. CASE UNCHANGED vars \/ Tick
    BY <2>1, OthersKeepBackoff DEF vars, limits, Tick
  <2>2. ASSUME NEW c \in Callers, NEW n \in Names, NEW pw \in Passwords,
               Register(c, n, pw) \/ Declare(c, n, pw)
        PROVE  BackoffInv'
    BY <2>2, OthersKeepBackoff DEF Register, Declare
  <2>3. ASSUME NEW c \in Callers, Administer(c) PROVE BackoffInv'
    BY <2>3, OthersKeepBackoff DEF Administer, AdminCreate, Rename, Delete
  <2>4. ASSUME NEW c \in Callers,
               \/ \E t \in tokens : TokenLogin(c, t)
               \/ Save(c) \/ SetPassword(c) \/ ReadHash(c) \/ CheckToken(c) \/ MakeToken(c)
        PROVE  BackoffInv'
    BY <2>4, OthersKeepBackoff
    DEF TokenLogin, Save, SetPassword, ReadHash, CheckToken, MakeToken
  <2> QED
    BY <2>1, <2>2, <2>3, <2>4, LoginKeepsBackoff, ComparingKeepsBackoff DEF Next
<1>3. BackoffInv => BackoffKept
  BY DEF BackoffInv
<1> QED
  BY <1>1, <1>2, <1>3, AccountsWellKept, PTL DEF Spec

-----------------------------------------------------------------------------
(***************************************************************************)
(* Administration, with either engine.                                     *)
(*                                                                         *)
(* SettingsStand is not inductive.  A request of the server merges with    *)
(* the handle the process keeps, so the handle has to be there as long as  *)
(* such a request is: HandlesKept.  PrivateStays is about rows as a user   *)
(* is shown them, by snapshot or by diff, under the settings of the        *)
(* moment; what carries it from step to step is in which partition a row   *)
(* lies, or was logged, and whose it is, whatever the settings: RowsApart. *)
(***************************************************************************)

Steps == {"get", "change", "read", "insert"}
Asked == {"create", "update", "declare", "put"}
Request ==
  [step : Steps, kind : Asked, route : {"remote", "direct", "own"},
   change : Changes \union {<<>>}, author : Users \union {Nothing},
   copy : Settings \union {Nothing}]
Rows == [owner : Users \union {Nothing}, secret : Users \union {Nothing}]

TableTypeOK ==
  /\ store \in Stores
  /\ stored \in Settings \union {Nothing}
  /\ cached \in Settings \union {Nothing}
  /\ promised \in Settings \union {Nothing}
  /\ task \in [Tasks -> {NoTask} \union Request]
  /\ rows \in [Partitions -> Rows \union {Nothing}]
  /\ changelog \subseteq [partition : Partitions, row : Rows]
  /\ strayed \in BOOLEAN

\* Only a change of settings comes to be made, and it is one that was asked for.
Asking(t) == task[t] # NoTask
ChangesAsked ==
  \A t \in Tasks : Asking(t) => \/ task[t].change \in Changes
                                \/ task[t].step = "get" /\ task[t].kind = "put"

\* Who has a copy got it from a table that is still there, and a request of the
\* server that works on the shared handle finds it in the process.
HandlesKept ==
  /\ store = "file" => cached = Nothing
  /\ stored = Nothing => cached = Nothing /\ promised = Nothing
  /\ promised = Nothing => stored = Nothing
  /\ \A t \in Tasks : Asking(t) /\ task[t].copy # Nothing =>
       stored # Nothing /\ (OwnHandle(t) \/ cached # Nothing)

\* A row of the shared partition is nobody's secret, and one of a user's own
\* partition is that user's, and so it was when it was logged.
Apart(p, row) ==
  IF p = Shared THEN row.secret = Nothing ELSE row.secret = p /\ row.owner = p
RowsApart ==
  /\ \A p \in Partitions : rows[p] # Nothing => Apart(p, rows[p])
  /\ \A e \in changelog : Apart(e.partition, e.row)

TableInv ==
  TableTypeOK /\ ChangesAsked /\ HandlesKept /\ SettingsStand /\ RowsApart

\* What a partial setting makes, of nothing or of settings, are settings.
LEMMA CreatedIsSettings ==
  ASSUME NEW change \in Changes
  PROVE  Created(change) \in Settings /\ Created(change) # Nothing
BY AdministrationAssumption DEF Created, Settings, NoLimit, Modes

LEMMA UpdatedIsSettings ==
  ASSUME NEW change \in Changes, NEW settings \in Settings
  PROVE  Updated(settings, change) \in Settings /\ Updated(settings, change) # Nothing
BY AdministrationAssumption DEF Updated, Settings, NoLimit, Modes

\* There are two engines.
LEMMA StoreIsOne ==
  ASSUME TableTypeOK
  PROVE  store = "file" \/ store = "sqlite"
BY AdministrationAssumption DEF TableTypeOK

\* The settings a server goes by are there if the table is.
LEMMA ViewIsSettings ==
  ASSUME TableTypeOK, HandlesKept
  PROVE  /\ View \in Settings \union {Nothing}
         /\ View = Nothing <=> stored = Nothing
BY DEF TableTypeOK, HandlesKept, View

\* The invariant holds when no server has started.
LEMMA InitTable == TableInit => TableInv
BY DEF TableInit, TableInv, TableTypeOK, ChangesAsked, HandlesKept, SettingsStand, RowsApart,
       Asking, Partitions

\* What a server or a request without effect on the table does keeps all of it.
LEMMA ServerKeepsTable ==
  ASSUME TableInv, Open \/ Listen \/ Close \/ Exit
  PROVE  TableInv'
<1> USE DEF TableInv, TableTypeOK, ChangesAsked, HandlesKept, SettingsStand, RowsApart, registry,
            data, Asking, OwnHandle
<1>1. CASE Open \/ Listen \/ Close
  BY <1>1 DEF Open, Listen, Close
<1>2. CASE Exit
  <2>1. \A t \in Tasks : task'[t] = NoTask \/ (task'[t] = task[t] /\ task[t].route = "direct")
    BY <1>2 DEF Exit
  <2>2. task' \in [Tasks -> {NoTask} \union Request]
    BY <1>2, <2>1 DEF Exit
  <2> QED
    BY <1>2, <2>1, <2>2 DEF Exit
<1> QED
  BY <1>1, <1>2

\* A new request has no copy and changes nothing yet.
LEMMA AskKeepsTable ==
  ASSUME TableInv, NEW t \in Tasks,
         \/ TablesCommand(t) \/ RecordsCommand(t)
         \/ \E change \in Changes, author \in Users \union {Nothing} :
              DeclareTable(t, change, author)
  PROVE  TableInv'
<1> USE DEF TableInv, TableTypeOK, registry, data
<1>1. PICK kind \in Asked, route \in {"remote", "direct", "own"},
           asks \in Changes \union {<<>>}, who \in Users \union {Nothing} :
        Asks(t, kind, route, asks, who) /\ (asks \in Changes \/ kind = "put")
  BY DEF TablesCommand, RecordsCommand, CreateTable, UpdateTable, PutRecord, DeclareTable,
         Route, Asked
<1>2. task' = [task EXCEPT ![t] =
        [step |-> "get", kind |-> kind, route |-> route, change |-> asks, author |-> who,
         copy |-> Nothing]]
  BY <1>1 DEF Asks
<1>3. task'[t] \in Request /\ task'[t].copy = Nothing /\ task'[t].step = "get"
      /\ task'[t].kind = kind /\ task'[t].change = asks
  BY <1>1, <1>2 DEF Request, Steps
<1>4. \A s \in Tasks : s # t => task'[s] = task[s]
  BY <1>2
<1>5. TableTypeOK'
  BY <1>1, <1>2, <1>3 DEF Asks
<1>6. ChangesAsked'
  BY <1>1, <1>3, <1>4 DEF ChangesAsked, Asking
<1>7. HandlesKept'
  BY <1>1, <1>3, <1>4 DEF HandlesKept, Asking, Asks, OwnHandle
<1> QED
  BY <1>1, <1>5, <1>6, <1>7 DEF Asks, SettingsStand, RowsApart

\* A request that has got the table has a handle to go by, its own or the server's.
LEMMA GetKeepsTable ==
  ASSUME TableInv, NEW t \in Tasks, GetTable(t)
  PROVE  TableInv'
<1> USE DEF TableInv, TableTypeOK, registry, data
<1>1. Asking(t) /\ task[t] \in Request /\ task[t].step = "get" /\ task[t].kind # "put"
  BY DEF GetTable, Asking, NoTask
<1>2. /\ Found(t) \in Settings \union {Nothing}
      /\ View \in Settings \union {Nothing}
      /\ Found(t) # Nothing => stored # Nothing
      /\ stored # Nothing => View # Nothing
  BY ViewIsSettings DEF Found
<1>3. cached' \in {cached, Kept(View)} /\ (cached' # cached => stored # Nothing)
      /\ (cached # Nothing => cached' # Nothing) /\ cached' \in Settings \union {Nothing}
  BY <1>2, StoreIsOne DEF GetTable, Kept, View, HandlesKept
<1>4. \A s \in Tasks : s # t => task'[s] = task[s]
  BY DEF GetTable
<1>5. CASE ~Reached(t) \/ (task[t].kind = "update" /\ Found(t) = Nothing)
  <2>1. task' = [task EXCEPT ![t] = NoTask] /\ cached' = cached
    BY <1>5 DEF GetTable
  <2> QED
    BY <2>1, <1>4 DEF GetTable, ChangesAsked, HandlesKept, SettingsStand, RowsApart, Asking,
                      OwnHandle
<1>6. CASE ~(~Reached(t) \/ (task[t].kind = "update" /\ Found(t) = Nothing))
  <2> DEFINE got == IF Looks(t) THEN Found(t) ELSE Nothing
  <2>1. task' = [task EXCEPT ![t] = [task[t] EXCEPT !.step = "change", !.copy = got]]
    BY <1>6 DEF GetTable
  <2>2. task'[t] = [task[t] EXCEPT !.step = "change", !.copy = got]
    BY <2>1
  <2>3. task'[t] \in Request /\ task'[t].copy = got /\ task'[t].route = task[t].route
        /\ task'[t].change = task[t].change
    BY <1>1, <1>2, <2>2 DEF Request, Steps
  <2>4. TableTypeOK'
    BY <1>3, <2>1, <2>3 DEF GetTable
  <2>5. ChangesAsked'
    BY <1>1, <1>4, <2>3 DEF ChangesAsked, Asking
  <2>6. cached' = IF Looks(t) /\ task[t].route # "direct" /\ stored # Nothing
                  THEN Kept(View) ELSE cached
    BY <1>6 DEF GetTable
  <2>7. HandlesKept'
    <3>1. task'[t].copy # Nothing => stored # Nothing /\ (OwnHandle(t)' \/ cached' # Nothing)
      BY <1>2, <2>3, <2>6, StoreIsOne DEF OwnHandle, Kept, GetTable
    <3> QED
      BY <1>3, <1>4, <3>1 DEF HandlesKept, OwnHandle, GetTable, Asking, Kept
  <2>8. SettingsStand'
    BY <1>2, <1>3 DEF SettingsStand, GetTable, Kept, View
  <2> QED
    BY <2>4, <2>5, <2>7, <2>8 DEF RowsApart, GetTable
<1> QED
  BY <1>5, <1>6

\* A change that is made works on settings of the moment, or else it has strayed.
LEMMA ChangeKeepsTable ==
  ASSUME TableInv, NEW t \in Tasks, ChangeTable(t)
  PROVE  TableInv'
<1> USE DEF TableInv, TableTypeOK, registry, data
<1>1. Asking(t) /\ task[t] \in Request /\ task[t].step = "change"
  BY DEF ChangeTable, Asking, NoTask
<1>2. task[t].change \in Changes
  BY <1>1 DEF ChangesAsked
<1>3. \A s \in Tasks : s # t => task'[s] = task[s]
  BY DEF ChangeTable, Fails, Makes, Breaks, AfterChange
<1>4. CASE Refused(t) \/ (task[t].copy = Nothing /\ stored # Nothing)
  <2>1. Fails(t) /\ UNCHANGED <<store, server, data, asked, puts, starts>>
    BY <1>4 DEF ChangeTable
  <2> QED
    BY <2>1, <1>3 DEF Fails, ChangesAsked, HandlesKept, SettingsStand, RowsApart, Asking,
                      OwnHandle
<1>5. CASE ~(Refused(t) \/ (task[t].copy = Nothing /\ stored # Nothing)) /\ Makes(t)
  <2> DEFINE made == IF task[t].copy = Nothing THEN Created(task[t].change)
                     ELSE Updated(Base(t), task[t].change)
             promise == IF task[t].copy = Nothing THEN Created(task[t].change)
                        ELSE Updated(promised, task[t].change)
  <2>1. /\ stored' = made /\ promised' = promise
        /\ cached' = IF task[t].route = "direct" THEN cached ELSE Kept(made)
        /\ UNCHANGED <<store, server, data, asked, puts, starts>>
        /\ strayed' = \/ strayed
                      \/ task[t].copy # Nothing /\ OwnHandle(t) /\ stored # task[t].copy
                      \/ task[t].route = "direct" /\ server # "up" /\ cached # Nothing
    BY <1>5 DEF ChangeTable, Makes, Stored
  <2>2. task[t].copy # Nothing => Base(t) \in Settings /\ promised \in Settings
    BY <1>1 DEF HandlesKept, Base, Request
  <2>3. made \in Settings /\ made # Nothing /\ promise \in Settings /\ promise # Nothing
    BY <1>2, <2>2, CreatedIsSettings, UpdatedIsSettings
  <2>4. task'[t] = NoTask \/ task'[t] = [task[t] EXCEPT !.step = "read"]
    BY <1>5 DEF Makes, AfterChange
  <2>5. task'[t] = NoTask \/ /\ task'[t] \in Request
                              /\ task'[t].change = task[t].change
                              /\ task'[t].copy = task[t].copy
                              /\ task'[t].route = task[t].route
    BY <1>1, <2>4 DEF Request, Steps
  <2>6. task' \in [Tasks -> {NoTask} \union Request]
    BY <1>3, <1>5, <2>5 DEF Makes, AfterChange
  <2>7. TableTypeOK'
    BY <2>1, <2>3, <2>6 DEF Kept
  <2>8. ChangesAsked'
    BY <1>2, <1>3, <2>5 DEF ChangesAsked, Asking
  <2>9. HandlesKept'
    <3>1. (store = "file" => cached' = Nothing) /\ (cached # Nothing => cached' # Nothing)
      BY <2>1, <2>3, StoreIsOne DEF HandlesKept, Kept
    <3>2. \A s \in Tasks : Asking(s)' => Asking(s) /\ task'[s].copy = task[s].copy
                                                  /\ OwnHandle(s)' = OwnHandle(s)
      BY <1>1, <1>3, <2>1, <2>5 DEF Asking, OwnHandle
    <3> QED
      BY <2>1, <2>3, <3>1, <3>2 DEF HandlesKept
  <2>10. SettingsStand'
    <3>1. SUFFICES ASSUME ~strayed' PROVE stored' = promised' /\ cached' \in {Nothing, stored'}
      BY DEF SettingsStand
    <3>2. stored = promised /\ cached \in {Nothing, stored}
      BY <2>1, <3>1 DEF SettingsStand
    <3>3. task[t].copy # Nothing => Base(t) = promised
      BY <1>1, <2>1, <3>1, <3>2 DEF Base, HandlesKept
    <3>4. task[t].route = "direct" => cached = Nothing
      BY <1>5, <2>1, <3>1 DEF Refused
    <3> QED
      BY <2>1, <3>3, <3>4 DEF Kept
  <2> QED
    BY <2>1, <2>7, <2>8, <2>9, <2>10 DEF RowsApart
<1>6. CASE Breaks(t)
  <2>1. /\ task' = [task EXCEPT ![t] = NoTask]
        /\ UNCHANGED <<store, server, data, stored, promised, asked, puts, starts>>
        /\ strayed' = (strayed \/ cached' # cached)
    BY <1>6 DEF ChangeTable, Breaks
  <2>2. task[t].copy # Nothing /\ ~OwnHandle(t) =>
          /\ cached' = Updated(cached, task[t].change)
          /\ cached # Nothing /\ cached' \in Settings /\ cached' # Nothing
    <3>1. task[t].copy # Nothing /\ ~OwnHandle(t) => cached \in Settings /\ cached # Nothing
      BY <1>1 DEF HandlesKept
    <3> QED
      BY <1>2, <1>6, <3>1, UpdatedIsSettings DEF Breaks
  <2>3. ~(task[t].copy # Nothing /\ ~OwnHandle(t)) => cached' = cached
    BY <1>6 DEF Breaks
  <2>4. TableTypeOK'
    BY <2>1, <2>2, <2>3
  <2>5. ChangesAsked'
    BY <1>3, <2>1 DEF ChangesAsked, Asking
  <2>6. HandlesKept'
    <3>1. /\ store = "file" => cached' = Nothing
          /\ stored = Nothing => cached' = Nothing
          /\ cached # Nothing => cached' # Nothing
      BY <2>2, <2>3 DEF HandlesKept, OwnHandle
    <3>2. \A s \in Tasks : Asking(s)' => Asking(s) /\ task'[s] = task[s]
                                                  /\ OwnHandle(s)' = OwnHandle(s)
      BY <1>3, <2>1 DEF Asking, OwnHandle
    <3> QED
      BY <2>1, <3>1, <3>2 DEF HandlesKept
  <2>7. SettingsStand'
    BY <2>1 DEF SettingsStand
  <2> QED
    BY <2>1, <2>4, <2>5, <2>6, <2>7 DEF RowsApart
<1> QED
  BY <1>4, <1>5, <1>6 DEF ChangeTable

\* Whatever the settings are and whoever puts the row, what is written in a user's
\* own partition is that user's, and marked so, and nothing else is marked.
LEMMA AppliesApart ==
  ASSUME TableTypeOK, RowsApart, NEW settings \in Settings \union {Nothing},
         NEW actor \in Users \union {Nothing}, Applies(settings, actor)
  PROVE  /\ rows' \in [Partitions -> Rows \union {Nothing}]
         /\ changelog' \subseteq [partition : Partitions, row : Rows]
         /\ RowsApart'
<1> DEFINE p == PartitionOf(settings, actor)
           new == Row(settings, actor, rows[p])
<1> USE DEF TableTypeOK, Partitions
<1>1. CASE UNCHANGED data
  BY <1>1 DEF RowsApart, data
<1>2. CASE ~UNCHANGED data
  <2>1. PICK row \in {rows[p], Nothing, new} :
          /\ settings # Nothing /\ rows' = [rows EXCEPT ![p] = row]
          /\ changelog' = changelog \union
               (IF row = Nothing THEN {} ELSE {[partition |-> p, row |-> row]})
    BY <1>2 DEF Applies
  <2>2. p \in Partitions /\ (p = Shared \/ (p = actor /\ p \in Users))
    BY DEF PartitionOf
  <2>3. new \in Rows
    BY <2>2 DEF Row, Rows
  <2>4. Apart(p, new)
    <3>1. CASE p = Shared
      BY <2>2, <3>1, AdministrationAssumption DEF PartitionOf, Row, Apart
    <3>2. CASE p # Shared
      BY <2>2, <3>2 DEF PartitionOf, Row, Apart, RowsApart
    <3> QED
      BY <3>1, <3>2
  <2> HIDE DEF new
  <2>5. row # Nothing => row \in Rows /\ Apart(p, row)
    BY <2>1, <2>2, <2>3, <2>4 DEF RowsApart
  <2> HIDE DEF p
  <2>6. /\ rows' \in [Partitions -> Rows \union {Nothing}]
        /\ changelog' \subseteq [partition : Partitions, row : Rows]
    BY <2>1, <2>2, <2>5
  <2>7. \A q \in Partitions : rows'[q] = IF q = p THEN row ELSE rows[q]
    BY <2>1, <2>2
  <2>8. \A e \in changelog' : e \in changelog \/ (row # Nothing /\ e.partition = p /\ e.row = row)
    BY <2>1
  <2>9. RowsApart'
    BY <2>5, <2>7, <2>8 DEF RowsApart, Apart
  <2> QED
    BY <2>6, <2>9
<1> QED
  BY <1>1, <1>2

\* A put leaves the registry alone, and the handle it makes says the same.
LEMMA PutsKeepTable ==
  ASSUME TableInv,
         \/ \E u \in Users : UserPut(u)
         \/ \E t \in Tasks : ApplyAdminChange(t) \/ ReadRows(t) \/ InsertRow(t)
  PROVE  TableInv'
<1> USE DEF TableInv, registry, data
<1>1. UNCHANGED <<store, stored, promised, strayed>>
  BY DEF UserPut, ApplyAdminChange, ReadRows, InsertRow
<1>2. cached' \in {cached, Kept(View)}
  BY DEF UserPut, ApplyAdminChange, ReadRows, InsertRow
<1>3. /\ cached' \in Settings \union {Nothing}
      /\ store = "file" => cached' = Nothing
      /\ stored = Nothing => cached' = Nothing
      /\ cached # Nothing => cached' # Nothing
      /\ cached' \in {Nothing, cached, stored}
  BY <1>2, ViewIsSettings, StoreIsOne DEF Kept, View, TableTypeOK, HandlesKept
<1>4. /\ task' \in [Tasks -> {NoTask} \union Request]
      /\ \A s \in Tasks : Asking(s)' => /\ Asking(s)
                                        /\ task'[s].copy = task[s].copy
                                        /\ task'[s].change = task[s].change
                                        /\ task'[s].route = task[s].route
                                        /\ task'[s].kind = task[s].kind
                                        /\ task[s].step = "get" => task'[s].step = "get"
  <2>1. CASE \E u \in Users : UserPut(u)
    BY <2>1 DEF UserPut, TableTypeOK, Asking
  <2>2. CASE \E t \in Tasks : ApplyAdminChange(t) \/ InsertRow(t)
    BY <2>2 DEF ApplyAdminChange, InsertRow, TableTypeOK, Asking
  <2>3. ASSUME NEW t \in Tasks, ReadRows(t)
        PROVE  <1>4!1 /\ <1>4!2
    <3>1. Asking(t) /\ task[t] \in Request /\ task[t].step = "read"
      BY <2>3 DEF ReadRows, Asking, NoTask, TableTypeOK
    <3>2. task' = [task EXCEPT ![t] = IF rows[Shared] # Nothing THEN NoTask
                                      ELSE [task[t] EXCEPT !.step = "insert"]]
      BY <2>3 DEF ReadRows
    <3>3. [task[t] EXCEPT !.step = "insert"] \in Request
      BY <3>1 DEF Request, Steps
    <3>4. task' \in [Tasks -> {NoTask} \union Request]
      BY <3>2, <3>3 DEF TableTypeOK
    <3>5. task'[t] = NoTask \/ task'[t] = [task[t] EXCEPT !.step = "insert"]
      BY <3>2 DEF TableTypeOK
    <3>6. \A s \in Tasks : s # t => task'[s] = task[s]
      BY <3>2 DEF TableTypeOK
    <3> QED
      BY <3>1, <3>4, <3>5, <3>6 DEF Asking, Request
  <2> QED
    BY <2>1, <2>2, <2>3
<1>5. /\ rows' \in [Partitions -> Rows \union {Nothing}]
      /\ changelog' \subseteq [partition : Partitions, row : Rows]
      /\ RowsApart'
  <2>1. ASSUME NEW u \in Users, UserPut(u) PROVE <1>5!1 /\ <1>5!2 /\ <1>5!3
    BY <2>1, AppliesApart, ViewIsSettings DEF UserPut
  <2>2. ASSUME NEW t \in Tasks, ApplyAdminChange(t) PROVE <1>5!1 /\ <1>5!2 /\ <1>5!3
    <3>1. task[t].author \in Users \union {Nothing}
      BY <2>2 DEF ApplyAdminChange, TableTypeOK, Request, NoTask
    <3>2. Found(t) \in Settings \union {Nothing}
      BY ViewIsSettings DEF Found, TableTypeOK
    <3>3. Applies(Found(t), task[t].author) \/ UNCHANGED data
      BY <2>2 DEF ApplyAdminChange
    <3> QED
      BY <3>1, <3>2, <3>3, AppliesApart DEF TableTypeOK, RowsApart
  <2>3. ASSUME NEW t \in Tasks, InsertRow(t) PROVE <1>5!1 /\ <1>5!2 /\ <1>5!3
    <3>1. task[t].author \in Users \union {Nothing}
      BY <2>3 DEF InsertRow, TableTypeOK, Request, NoTask
    <3> QED
      BY <2>3, <3>1, AppliesApart, ViewIsSettings DEF InsertRow
  <2>4. ASSUME NEW t \in Tasks, ReadRows(t) PROVE <1>5!1 /\ <1>5!2 /\ <1>5!3
    BY <2>4 DEF ReadRows, TableTypeOK, RowsApart
  <2> QED
    BY <2>1, <2>2, <2>3, <2>4
<1>6. TableTypeOK'
  BY <1>1, <1>3, <1>4, <1>5 DEF TableTypeOK
<1>7. ChangesAsked'
  BY <1>4 DEF ChangesAsked
<1>8. HandlesKept'
  BY <1>1, <1>3, <1>4 DEF HandlesKept, OwnHandle
<1>9. SettingsStand'
  BY <1>1, <1>3 DEF SettingsStand
<1> QED
  BY <1>5, <1>6, <1>7, <1>8, <1>9

\* The invariant: what is asked for and how far it has come fits the registry, the
\* server's handle says what the registry says, and rows lie where they belong.
THEOREM TableWellKept == TableSpec => []TableInv
<1>1. TableInv /\ [TableNext]_tableVars => TableInv'
  <2>1. SUFFICES ASSUME TableInv, [TableNext]_tableVars PROVE TableInv'
    OBVIOUS
  <2>2. CASE UNCHANGED tableVars
    BY <2>1, <2>2 DEF tableVars, TableInv, TableTypeOK, ChangesAsked, HandlesKept, SettingsStand,
                      RowsApart, Asking, OwnHandle
  <2>3. CASE TableNext
    BY <2>1, <2>3, AskKeepsTable, ServerKeepsTable, GetKeepsTable, ChangeKeepsTable,
       PutsKeepTable DEF TableNext
  <2> QED
    BY <2>1, <2>2, <2>3
<1> QED
  BY <1>1, InitTable, PTL DEF TableSpec

\* No change of settings is lost to another one that the server works on, and the
\* handle it goes by says what the registry says (updateSettings, getTable).
THEOREM SettingsStandAlways == TableSpec => []SettingsStand
<1>1. TableInv => SettingsStand
  BY DEF TableInv
<1> QED
  BY <1>1, TableWellKept, PTL

\* Rows that lie apart, and were logged apart, are shown to those alone who may read
\* them, whatever the settings were and are now: by snapshots (filter.ts:80-112)
\* always, by diffs (filter.ts:124-174) while the table is private or when
\* partitions have logs of their own (file.ts:239-256).
THEOREM PrivateStaysAlways == TableSpec => []PrivateStays
<1>1. TableInv => PrivateStays
  <2>1. SUFFICES ASSUME TableInv, NEW u \in Users
                 PROVE  /\ ForNobodyElse(u, SnapshotOf(u))
                        /\ store = "file" \/ View.mode = "private" => ForNobodyElse(u, DiffOf(u))
    BY DEF PrivateStays
  <2>2. ForNobodyElse(u, SnapshotOf(u))
    BY <2>1 DEF TableInv, RowsApart, Apart, SnapshotOf, ForNobodyElse, Partitions
  <2>3. ASSUME store = "file" \/ View.mode = "private", NEW row \in DiffOf(u)
        PROVE  row.secret \in {Nothing, u}
    <3>1. PICK e \in changelog : e.row = row /\ (store = "file" => e.partition \in {Shared, u})
      BY DEF DiffOf, LoggedFor
    <3>2. View.mode = "private" => row.owner = u
      BY DEF DiffOf, Readable
    <3>3. Apart(e.partition, row)
      BY <2>1, <3>1 DEF TableInv, RowsApart
    <3> QED
      BY <2>3, <3>1, <3>2, <3>3 DEF Apart
  <2> QED
    BY <2>2, <2>3 DEF ForNobodyElse
<1> QED
  BY <1>1, TableWellKept, PTL

-----------------------------------------------------------------------------
(***************************************************************************)
(* The lock file keeps servers and commands apart, for any number of       *)
(* processes and any crashes between two calls, until two attempts to take *)
(* the lock, or an attempt and a command, overlap.  From then on the lock  *)
(* is not exclusive (ServerLockRaces.cfg).                                 *)
(*                                                                         *)
(* ExclusiveInTurn alone is not inductive: that a process takes the lock   *)
(* only when nobody has it depends on what the file says of the holder, on *)
(* who else is between two calls, and on which inode is open for writing.  *)
(***************************************************************************)

\* Servers hold no lock when there is no file, and one that is there names them.
LEMMA NoFileNoHolder ==
  ASSUME FileNamesHolder, file = Missing
  PROVE  \A q \in Processes : pc[q] \notin Holding
BY DEF FileNamesHolder

\* A file that is stale, or one's own without holding the lock, has no holder.
LEMMA StaleNoHolder ==
  ASSUME TypeOK, FileNamesHolder, NEW p \in Processes, IsStale(p)
  PROVE  \A q \in Processes : pc[q] \notin Holding
BY LockAssumption DEF FileNamesHolder, IsStale, Alive, Holding

\* Who comes to the lock without overlapping is alone there.
LEMMA ComesAlone ==
  ASSUME NEW p, GoTo(p, "create") \/ GoTo(p, "check"), ~overlapped'
  PROVE  Alone(p)
BY DEF GoTo

\* The lock's invariant holds when nobody has started.
LEMMA LockInitInductive == LockInit => Inductive
BY DEF LockInit, Inductive, InTurn, AtLock, TypeOK, FileNamesHolder, OneAtATime, DescriptorIsFile,
       NoHolderFound, Inodes, States, Acquiring, Holding, Checking

\* Every step keeps the types; what a process writes and opens is its own.
LEMMA NextTypes ==
  ASSUME TypeOK, [LockNext]_lockVars
  PROVE  TypeOK'
<1> USE DEF TypeOK, States, Acquiring, Holding, Checking, GoTo, Unlink
<1>1. CASE UNCHANGED lockVars
  BY <1>1 DEF lockVars
<1>2. ASSUME NEW p \in Processes, Start(p) \/ CloseServer(p) \/ Closed(p)
      PROVE  TypeOK'
  BY <1>2 DEF Start, CloseServer, Closed
<1>3. ASSUME NEW p \in Processes, CreateFile(p) \/ Rewrite(p)
      PROVE  TypeOK'
  BY <1>3 DEF CreateFile, Rewrite, Creates, AfterExists
<1>4. ASSUME NEW p \in Processes, Write(p) \/ Read(p) \/ UnlinkStale(p)
      PROVE  TypeOK'
  BY <1>4 DEF Write, Read, UnlinkStale
<1>5. ASSUME NEW p \in Processes, Release(p) \/ UnlinkOwn(p)
      PROVE  TypeOK'
  BY <1>5 DEF Release, UnlinkOwn, AfterRelease
<1>6. ASSUME NEW p \in Processes,
             Command(p) \/ Check(p) \/ UnlinkForCommand(p) \/ EndCommand(p)
      PROVE  TypeOK'
  BY <1>6 DEF Command, Check, UnlinkForCommand, EndCommand
<1>7. ASSUME NEW p \in Processes, Crash(p) \/ Respawn(p)
      PROVE  TypeOK'
  BY <1>7 DEF Crash, Respawn
<1> QED
  BY <1>1, <1>2, <1>3, <1>4, <1>5, <1>6, <1>7 DEF LockNext, ServerNext, CommandNext

\* While nobody has overlapped, every step keeps the file and its holder in step.
LEMMA NextInTurn ==
  ASSUME TypeOK, InTurn, [LockNext]_lockVars, ~overlapped'
  PROVE  InTurn'
<1> USE DEF Acquiring, Holding, Checking, States, AtLock
<1>1. /\ TypeOK /\ FileNamesHolder /\ OneAtATime /\ DescriptorIsFile /\ NoHolderFound
  BY DEF InTurn
<1>2. CASE UNCHANGED lockVars
  BY <1>1, <1>2 DEF lockVars, InTurn, TypeOK, FileNamesHolder, OneAtATime,
                    DescriptorIsFile, NoHolderFound
<1>3. ASSUME NEW p \in Processes, Start(p) \/ Command(p) PROVE InTurn'
  <2>1. Alone(p)
    BY <1>3, ComesAlone DEF Start, Command
  <2> QED
    BY <1>1, <1>3, <2>1
       DEF Start, Command, Alone, GoTo, InTurn, TypeOK, FileNamesHolder, OneAtATime,
           DescriptorIsFile, NoHolderFound
<1>4. ASSUME NEW p \in Processes, CloseServer(p) \/ Closed(p) \/ EndCommand(p) \/ Respawn(p)
      PROVE  InTurn'
  BY <1>1, <1>4 DEF CloseServer, Closed, EndCommand, Respawn, GoTo, InTurn, TypeOK,
                    FileNamesHolder, OneAtATime, DescriptorIsFile, NoHolderFound
<1>5. ASSUME NEW p \in Processes, CreateFile(p) PROVE InTurn'
  <2>1. CASE file = Missing /\ Creates(p)
    <3>1. \A q \in Processes : pc[q] \notin Holding
      BY <1>1, <2>1, NoFileNoHolder
    <3> QED
      BY <1>1, <1>5, <2>1, <3>1, LockAssumption
         DEF CreateFile, Creates, GoTo, InTurn, TypeOK, FileNamesHolder, OneAtATime,
             DescriptorIsFile, NoHolderFound, Inodes
  <2>2. CASE file # Missing /\ GoTo(p, AfterExists(p)) /\ UNCHANGED <<file, pidIn, fd>>
    BY <1>1, <1>5, <2>2
       DEF CreateFile, AfterExists, GoTo, InTurn, TypeOK, FileNamesHolder, OneAtATime,
           DescriptorIsFile, NoHolderFound
  <2> QED BY <1>5, <2>1, <2>2 DEF CreateFile
<1>6. ASSUME NEW p \in Processes, Write(p) PROVE InTurn'
  BY <1>1, <1>6, LockAssumption
     DEF Write, GoTo, InTurn, TypeOK, FileNamesHolder, OneAtATime, DescriptorIsFile,
         NoHolderFound
<1>7. ASSUME NEW p \in Processes, Read(p) \/ Check(p) PROVE InTurn'
  <2>1. file = Missing \/ IsStale(p) \/ pidIn[file] = p
          => \A q \in Processes : pc[q] \notin Holding
    BY <1>1, <1>7, NoFileNoHolder, StaleNoHolder DEF Read, Check, FileNamesHolder
  <2> QED
    BY <1>1, <1>7, <2>1
       DEF Read, Check, GoTo, InTurn, TypeOK, FileNamesHolder, OneAtATime,
           DescriptorIsFile, NoHolderFound
<1>8. ASSUME NEW p \in Processes, UnlinkStale(p) \/ UnlinkForCommand(p) PROVE InTurn'
  BY <1>1, <1>8
     DEF UnlinkStale, UnlinkForCommand, Unlink, GoTo, InTurn, TypeOK, FileNamesHolder,
         OneAtATime, DescriptorIsFile, NoHolderFound
<1>9. ASSUME NEW p \in Processes, Rewrite(p) PROVE InTurn'
  BY <1>1, <1>9, LockAssumption
     DEF Rewrite, Creates, GoTo, InTurn, TypeOK, FileNamesHolder, OneAtATime,
         DescriptorIsFile, NoHolderFound, Inodes
<1>10. ASSUME NEW p \in Processes, Release(p) \/ UnlinkOwn(p) PROVE InTurn'
  <2>1. PICK state \in {"unlinkOwn", "closing", "create"} : GoTo(p, state)
    BY <1>10 DEF Release, UnlinkOwn, AfterRelease
  <2>2. state = "create" => Alone(p)
    BY <2>1, ComesAlone
  <2> QED
    BY <1>1, <1>10, <2>1, <2>2
       DEF Release, UnlinkOwn, AfterRelease, Alone, Unlink, GoTo, InTurn, TypeOK,
           FileNamesHolder, OneAtATime, DescriptorIsFile, NoHolderFound
<1>11. ASSUME NEW p \in Processes, Crash(p) PROVE InTurn'
  BY <1>1, <1>11
     DEF Crash, GoTo, InTurn, TypeOK, FileNamesHolder, OneAtATime, DescriptorIsFile,
         NoHolderFound
<1> QED
  BY <1>2, <1>3, <1>4, <1>5, <1>6, <1>7, <1>8, <1>9, <1>10, <1>11
     DEF LockNext, ServerNext, CommandNext

\* Every step keeps the lock's invariant.
LEMMA NextInductive ==
  ASSUME Inductive, [LockNext]_lockVars
  PROVE  Inductive'
<1>1. TypeOK'
  BY NextTypes DEF Inductive
<1>2. overlapped => overlapped'
  BY DEF LockNext, lockVars, ServerNext, CommandNext, Start, CreateFile, Creates, Write, Read,
         UnlinkStale, Rewrite, CloseServer, Release, UnlinkOwn, Closed, Command, Check,
         UnlinkForCommand, EndCommand, Crash, Respawn, GoTo
<1>3. CASE ~overlapped'
  BY <1>1, <1>2, <1>3, NextInTurn DEF Inductive
<1> QED BY <1>1, <1>3 DEF Inductive

\* Until attempts overlap, the file names the holder and nobody who goes on has
\* missed one (lock.ts:118-191).
THEOREM LockKept == LockSpec => []Inductive
<1>1. Inductive /\ [LockNext]_lockVars => Inductive'
  BY NextInductive
<1> QED BY LockInitInductive, <1>1, PTL DEF LockSpec

\* The lock is exclusive (lock.ts:110-111) until two attempts to get it overlap.
THEOREM LockExclusive == LockSpec => []ExclusiveInTurn
<1>1. Inductive => ExclusiveInTurn
  BY DEF Inductive, InTurn, FileNamesHolder, ExclusiveInTurn, Exclusive
<1> QED BY LockKept, <1>1, PTL

\* No command changes the data while another's server holds the lock (lock.ts:90),
\* until attempts or commands overlap.
THEOREM CommandsKeptOut == LockSpec => []CommandsStayOut
<1>1. Inductive => CommandsStayOut
  BY DEF Inductive, InTurn, NoHolderFound, CommandsStayOut
<1> QED BY LockKept, <1>1, PTL

=============================================================================
