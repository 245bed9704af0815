--------------------------- MODULE MCClientStore ---------------------------
(***************************************************************************)
(* Two tabs: b1 has registered an index on the watched table, b2 has not.  *)
(***************************************************************************)
EXTENDS ClientStore, TLC

CONSTANTS b1, b2, t1, t2

TwoTabs == {b1, b2}
TwoTables == {t1, t2}
IndexedByOne == b1 :> {t1} @@ b2 :> {}
Ops == b1 :> 1 @@ b2 :> 1
Troubles == b1 :> 1 @@ b2 :> 1
Subscribed == {b2}
=============================================================================
