-------------------------- MODULE MCAdministration --------------------------
(***************************************************************************)
(* The accounts of a server and a table of it, each with two who change    *)
(* it.  They share no state and no lock (__users__ and __tables__ in       *)
(* src/server/storage/file.ts), so TLC explores one or the other, as       *)
(* `about` says, and not what both together can do.                        *)
(***************************************************************************)
EXTENDS Accounts, Administration

CONSTANTS n1, n2, p1, p2, c1, c2, u1, u2, t1, t2

VARIABLE about

FirstAccount == [name |-> n1, pw |-> p1]
Partials == {[mode |-> "private"], [mode |-> "shared"], [max |-> 0], [max |-> 1]}

MCInit ==
  /\ about \in {"accounts", "table"} /\ Init /\ TableInit
  /\ about = "accounts" => store = "file"
  /\ about = "table" => engine = "memory"
MCNext ==
  \/ about = "accounts" /\ Next /\ UNCHANGED <<about, tableVars>>
  \/ about = "table" /\ TableNext /\ UNCHANGED <<about, vars>>
MCSpec == MCInit /\ [][MCNext]_<<about, vars, tableVars>>

\* Callers, users and tasks may change places: no definition tells them apart.
Alike == Permutations(Callers) \union Permutations(Users) \union Permutations(Tasks)
=============================================================================
