---------------------------- MODULE TopicConsumer ----------------------------
(***************************************************************************)
(* What every consumer of the project promises of its topic (ADR-01, the   *)
(* "offset discipline" of internal/persist, internal/analysis/driver and   *)
(* internal/integrity/source): a record is settled by what is durable, a   *)
(* row in a table or a line in the log; what is settled stays settled; and *)
(* the group's offset moves forward only, over settled records. There are  *)
(* no buffers, processes or redeliveries here.                             *)
(***************************************************************************)
EXTENDS Integers

CONSTANT Partition

VARIABLES
  committed,  \* committed[p]: the group's committed offset
  settled     \* positions <<p, i>> whose record needs no more work

\* Records that need no work at all are settled from the beginning.
ConsumerInit == committed = [p \in Partition |-> 0]

Settle == settled \subseteq settled' /\ UNCHANGED committed

Advance ==
  /\ \A p \in Partition :
       /\ committed'[p] \in Int
       /\ committed[p] <= committed'[p]
       /\ \A i \in (committed[p] + 1)..committed'[p] : <<p, i>> \in settled
  /\ UNCHANGED settled

Consumer == ConsumerInit /\ [][Settle \/ Advance]_<<committed, settled>>
=============================================================================
