------------------------------ MODULE LWWStore ------------------------------
(***************************************************************************)
(* What a server storage engine promises the rest of the server: a map of  *)
(* last-write-wins registers in which a change batch takes effect all at   *)
(* once or not at all, and a global sequence number that only grows.  The  *)
(* detailed engines are shown to implement this specification.             *)
(***************************************************************************)
EXTENDS LWW

CONSTANTS Keys,          \* <<partition, table, id>>
          Batches,       \* the change batches that may take effect
          Timestamps     \* what the server's own clock may read

VARIABLES reg,           \* reg[k] is the record under key k
          seq,           \* the last sequence number given out
          batch          \* the batch that is being applied, changes by position

\* No batch: one without changes.
NoBatch == [i \in {} |-> NoRecord]

storeVars == <<reg, seq, batch>>

Init ==
  /\ reg = [k \in Keys |-> NoRecord]
  /\ seq = 0
  /\ batch = NoBatch

Offer ==
  /\ batch = NoBatch
  /\ batch' \in Batches
  /\ UNCHANGED <<reg, seq>>

\* The batch commits: every change of it that wins is applied, in order.
Commit ==
  /\ reg' = Merge(reg, batch)
  /\ seq' = SeqAfter(reg, batch, seq)
  /\ batch' = NoBatch

\* The batch is refused part-way: no record shows it, though the sequence
\* numbers given to its first changes are spent.
Refuse ==
  /\ seq' \in seq..(seq + Cardinality(DOMAIN batch))
  /\ batch' = NoBatch
  /\ UNCHANGED reg

\* A table or a user's partition is dropped with its records, and the
\* records of `buried` (those a deleted user shared) become tombstones.
Drop(dropped, buried, ts) ==
  /\ batch = NoBatch
  /\ buried \subseteq {k \in Keys : reg[k].op = "put"} \ dropped
  /\ reg' = [k \in Keys |->
               IF k \in dropped THEN NoRecord
               ELSE IF k \in buried
                    THEN [reg[k] EXCEPT !.op = "delete", !.ts = ts]
                    ELSE reg[k]]
  /\ seq' = seq + Cardinality(buried)
  /\ UNCHANGED batch

\* The engine is closed and forgets everything.
Forget ==
  /\ batch = NoBatch
  /\ reg' = [k \in Keys |-> NoRecord]
  /\ seq' = 0
  /\ UNCHANGED batch

Next ==
  \/ Offer \/ Commit \/ Refuse
  \/ \E dropped, buried \in SUBSET Keys, ts \in Timestamps : Drop(dropped, buried, ts)
  \/ Forget

Spec == Init /\ [][Next]_storeVars

=============================================================================
