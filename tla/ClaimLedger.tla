----------------------------- MODULE ClaimLedger -----------------------------
(***************************************************************************)
(* What the integrity service promises about the events of a run, without  *)
(* topics, buffers, processes or restarts (ADR-27, ADR-28): every event    *)
(* has at most one owner, the rule whose finding is canonical. While the   *)
(* ledger is open to the stream phase, an event may get its strongest      *)
(* stream rule; then it is closed to that phase for good, and only events  *)
(* still without an owner may get their strongest batch rule. An owner is  *)
(* never taken away or replaced.                                           *)
(***************************************************************************)
EXTENDS IntegrityRule

CONSTANTS
  Event, None,
  Unknown,     \* events with a cell outside the inventory
  Deviant,     \* events rule 5 hits
  Impossible   \* events rule 2 hits

VARIABLES owner, stage

LedgerInit == owner = [e \in Event |-> None] /\ stage = "stream"

Unowned == {e \in Event : owner[e] = None}

\* One write may settle several events.
Settle(verdict, could) ==
  \E E \in SUBSET (Unowned \cap could) :
    /\ E # {}
    /\ owner' = [e \in Event |-> IF e \in E THEN verdict[e] ELSE owner[e]]
    /\ UNCHANGED stage

StreamVerdict == [e \in Event |-> IF e \in Unknown THEN Inventory ELSE TimeOrder]
BatchVerdict  == [e \in Event |-> IF e \in Deviant THEN Activity ELSE Velocity]

StreamSettles == stage = "stream" /\ Settle(StreamVerdict, Event)
Close         == stage = "stream" /\ stage' = "batch" /\ UNCHANGED owner
BatchSettles  == stage = "batch" /\
                 Settle(BatchVerdict, (Deviant \cup Impossible) \ Unknown)

LedgerNext == StreamSettles \/ Close \/ BatchSettles

Ledger == LedgerInit /\ [][LedgerNext]_<<owner, stage>>
=============================================================================
