-------------------------- MODULE MCMemoryStorage --------------------------
(* Instances of MemoryStorage for TLC. *)
EXTENDS MemoryStorage

CONSTANTS private, open

\* The default settings, and those of PUBLIC_READ_PERMISSIONS
\* (src/shared/types/permissions.ts:38-63).
MCSettings == [t \in Tables |-> IF t = private THEN Presets.userPrivate ELSE Presets.publicRead]
=============================================================================
