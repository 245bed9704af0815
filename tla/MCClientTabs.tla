--------------------------- MODULE MCClientTabs ---------------------------
(* Two tabs, two users. *)
EXTENDS ClientTabs, TLC
CONSTANTS t1, t2, u1, u2

TwoTabs == {t1, t2}
TwoUsers == {u1, u2}
KeepOrClear == {[clears |-> FALSE, remember |-> TRUE], [clears |-> TRUE, remember |-> FALSE]}
FirstGuarded == {1}

\* No tab and no user is named by the properties.
Alike == Permutations(TwoTabs) \cup Permutations(TwoUsers)
=============================================================================
