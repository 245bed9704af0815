--------------------------- MODULE MCFileStorage ---------------------------
(* Instances of FileStorage for TLC. *)
EXTENDS FileStorage

CONSTANTS mine, open, r1, r2, u1, w1, w2

\* The default settings of a table, and PUBLIC_READ_WRITE_PERMISSIONS.
MCSettings ==
  [t \in Tables |-> IF t = mine THEN Presets.userPrivate ELSE Presets.publicReadWrite]

Put(t, i, ts) == [table |-> t, id |-> i, op |-> "put", ts |-> ts, cid |-> 1]
Del(t, i, ts) == [table |-> t, id |-> i, op |-> "delete", ts |-> ts, cid |-> 1]

\* Two partitions; a change that may lose, and a deletion; two partitions with
\* a second change that the limit of one record may refuse.
MCBatches == {<<Put(open, r1, 1), Put(mine, r1, 2)>>,
              <<Put(open, r1, 2), Del(open, r1, 2)>>,
              <<Put(mine, r1, 1), Put(open, r2, 2)>>}
=============================================================================
