---------------------------- MODULE FindingEngine ----------------------------
(***************************************************************************)
(* What the rule engine (internal/integrity/detector/engine.go) does with  *)
(* the hits of one event, and what the append-only findings table does     *)
(* with the rows it is handed. The stream phase and the batch phase use    *)
(* the same operators, as the two phases use the same Engine type.         *)
(*                                                                         *)
(* A hit is its rule; the hits of one event in one call are a set, because *)
(* a rule says at most once that an event is wrong and the table keeps one *)
(* row for each event and rule.                                            *)
(***************************************************************************)
EXTENDS IntegrityRule, FiniteSets

CONSTANTS
  Event,   \* event identities (UUIDv5: the same event always has the same one)
  None     \* no claim, no suppressor, SQL NULL

ASSUME NoneAssumption == None \notin Int

Claims == [Event -> EventAnchored \cup {None}]

\* The table's row: by = None is a canonical finding (suppressed_by IS NULL).
Finding == [event : Event,
            rule  : EventAnchored,
            by    : EventAnchored \cup {None},
            phase : {"stream", "batch"}]

NoClaims == [e \in Event |-> None]

Strongest(hits) ==
  CHOOSE r \in hits : \A s \in hits \ {r} : StrongerThan(r, s)

\* The rule that owns the event once the hits are resolved.
Winner(claims, e, hits) ==
  IF claims[e] = None THEN Strongest(hits) ELSE claims[e]

\* First claim wins: an owned event is never claimed again, not even by a
\* stronger rule.
ClaimFor(claims, e, hits) ==
  IF hits = {} THEN claims ELSE [claims EXCEPT ![e] = Winner(claims, e, hits)]

\* Mutant: every hit of an unowned event is canonical.
RowsAllCanonical(claims, e, hits, phase) ==
  {[event |-> e,
    rule  |-> h,
    by    |-> claims[e],
    phase |-> phase] : h \in hits}

\* Every hit becomes a row. The winner's row is canonical only when this call
\* made the claim; any other row names the winner as its suppressor.
Rows(claims, e, hits, phase) ==
  LET winner == Winner(claims, e, hits) IN
  {[event |-> e,
    rule  |-> h,
    by    |-> IF h = winner /\ claims[e] = None THEN None ELSE winner,
    phase |-> phase] : h \in hits}

-----------------------------------------------------------------------------
(* The findings table. *)

SameKey(f, g) == f.event = g.event /\ f.rule = g.rule

\* Row validation refuses the whole statement when one row names its own rule
\* as the suppressor.
Rejected(rows) == \E f \in rows : f.by = f.rule

\* INSERT ... ON CONFLICT DO NOTHING under UNIQUE (run, event, rule). Two rows
\* of one statement with the same key are equal unless the statement is
\* rejected: the suppressor is the event's claim, which never changes.
Inserted(table, rows) ==
  table \cup {f \in rows : \A g \in table : ~SameKey(f, g)}

CanonicalOf(table, e) ==
  {f.rule : f \in {g \in table : g.event = e /\ g.by = None}}

\* ADR-28/2, the promise of the claim ledger (claims.go:17): a corrupted record
\* has one best explanation, so no event has two canonical findings, however
\* the phases, restarts and redeliveries interleave.
AtMostOneCanonical(table) ==
  \A f, g \in table :
    f.event = g.event /\ f.by = None /\ g.by = None => f.rule = g.rule

\* ADR-28/4: a suppressed row is a label, not a filter. The rule it names must
\* itself stand in the table as the event's canonical finding, or the
\* confusion matrix would show a hit that lost to nothing.
SuppressorStored(table) ==
  \A f \in table : f.by # None =>
    \E g \in table : g.event = f.event /\ g.rule = f.by /\ g.by = None
=============================================================================
