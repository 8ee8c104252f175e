---------------------------- MODULE IntegrityRule ----------------------------
(***************************************************************************)
(* The five integrity rules shared by the injector and the detector        *)
(* (pkg/integrityrule/rule.go): identities, execution class, and the order *)
(* of evidence strength the rule engine uses to pick the canonical finding *)
(* of an event.                                                            *)
(***************************************************************************)
EXTENDS Integers, Sequences

Inventory  == 1   \* cell identity absent from the run's inventory
Velocity   == 2   \* kinematically impossible transition
TimeOrder  == 3   \* event time runs backwards in arrival order
Trajectory == 4   \* missing link; a run level indicator, never event anchored
Activity   == 5   \* device differs from the subscriber's modal device

Rule == 1..5

\* Strongest evidence first. This is not the numeric order.
All == <<Inventory, Activity, TimeOrder, Velocity, Trajectory>>

StrongerThan(r, s) ==
  \E i, j \in 1..5 : i < j /\ All[i] = r /\ All[j] = s

Class == [r \in Rule |->
            CASE r \in {Inventory, TimeOrder} -> "stream"
              [] r \in {Velocity, Activity}   -> "batch"
              [] OTHER                        -> "aggregate"]

EventAnchored == {r \in Rule : Class[r] # "aggregate"}
InClass(c)    == {r \in Rule : Class[r] = c}
=============================================================================
