---------------------------- MODULE MCServerLock ----------------------------
(* Instances of ServerLock for TLC: two processes, p1 and p2. *)
EXTENDS ServerLock

CONSTANTS p1, p2
=============================================================================
