-------------------------- MODULE MCServerSessions --------------------------
(* Instances of ServerSessions for TLC. *)
EXTENDS ServerSessions

CONSTANTS mine, open, u1, s1, s2

\* The default settings of a table, and PUBLIC_READ_WRITE_PERMISSIONS
MCSettings ==
  [t \in Tables |-> IF t = mine THEN Presets.userPrivate ELSE Presets.publicReadWrite]

MCBatches == {<<open>>, <<mine, open>>}
=============================================================================
