-------------------------------- MODULE LWW --------------------------------
(***************************************************************************)
(* Last-write-wins conflict resolution (src/shared/clock.ts), the order    *)
(* on which every replica of a TetherDB record is meant to agree, and what *)
(* the server's loop over a change batch (applyChanges) makes of it.       *)
(*                                                                         *)
(* A change or a stored record carries a timestamp `ts` and the id `cid`   *)
(* of the client that made it.  Client ids are compared lexicographically  *)
(* by the code; here a client id is a natural number standing for its rank *)
(* in that order, 0 being the empty string the code puts for a missing id. *)
(***************************************************************************)
EXTENDS Integers, FiniteSets

\* What a store answers for an id it has nothing under (`undefined`).
NoRecord == [op |-> "none", ts |-> 0, cid |-> 0]

\* shouldOverwrite(incoming, existing)
ShouldOverwrite(incoming, existing) ==
  \/ existing.op = "none"
  \/ incoming.ts > existing.ts
  \/ incoming.ts = existing.ts /\ incoming.cid >= existing.cid

\* What is left of a change in the record it writes.
RecordOf(change) == [op |-> change.op, ts |-> change.ts, cid |-> change.cid]

(***************************************************************************)
(* A batch is a sequence of changes, or what is left of one when some are  *)
(* skipped: changes by their positions, each with the `key` it is for.     *)
(* The loop of applyChanges compares each change with what the changes     *)
(* before it have left under its key.  Since the order is total, that is   *)
(* to say that a change is applied when it beats the stored record and     *)
(* every earlier change of the batch for its key.                          *)
(***************************************************************************)
AppliedAt(reg, batch) ==
  {i \in DOMAIN batch :
     /\ ShouldOverwrite(batch[i], reg[batch[i].key])
     /\ \A j \in DOMAIN batch :
          j < i /\ batch[j].key = batch[i].key => ShouldOverwrite(batch[i], batch[j])}

AppliedTo(reg, batch, k) == {i \in AppliedAt(reg, batch) : batch[i].key = k}

\* The store after the batch: under each key the last change applied to it.
Merge(reg, batch) ==
  [k \in DOMAIN reg |->
     LET hits == AppliedTo(reg, batch, k)
     IN  IF hits = {} THEN reg[k]
         ELSE RecordOf(batch[CHOOSE i \in hits : \A j \in hits : j <= i])]

\* The sequence number the i-th change of the batch gets when applied.
SeqAt(reg, batch, seq, i) ==
  seq + Cardinality({j \in AppliedAt(reg, batch) : j <= i})

SeqAfter(reg, batch, seq) == seq + Cardinality(AppliedAt(reg, batch))

=============================================================================
