-------------------------- MODULE MCSqliteStorage --------------------------
(* Instances of SqliteStorage for TLC. *)
EXTENDS SqliteStorage, TLC

CONSTANTS private, open1, r1, r2, s1, s2, c1

\* The default settings, and those of PUBLIC_READ_PERMISSIONS
\* (src/shared/types/permissions.ts:38-63).
MCSettings ==
  [t \in Tables |-> IF t = private THEN Presets.userPrivate ELSE Presets.publicRead]

MCJobs == Server :> {s1, s2} @@ Command :> {c1}

\* Any change of one record, and two puts into a table that has room for one.
MCChange(op, t, i) == [op |-> op, table |-> t, id |-> i, ts |-> 1, cid |-> 1]
MCBatches ==
  {<<MCChange(op, t, r1)>> : op \in {"put", "delete"}, t \in Tables}
    \cup {<<MCChange("put", open1, r2), MCChange("put", open1, r1)>>}

MCSymmetry == Permutations({s1, s2})
=============================================================================
