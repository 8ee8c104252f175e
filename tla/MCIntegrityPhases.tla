-------------------------- MODULE MCIntegrityPhases --------------------------
(***************************************************************************)
(* One partition, two subscribers. Of sa: a1 is a clean record that both   *)
(* batch rules hit; a2 is shifted back and the batch rules hit it too (the *)
(* stronger rule comes second). Of sb: b1 names an unknown cell and rule 5 *)
(* hits it; b2 is hit by rule 2 alone.                                     *)
(***************************************************************************)
EXTENDS IntegrityPhases, TLC

CONSTANTS pa, sa, sb, a1, a2, b1, b2,
          Crashes, Sinks, Brokers, BatchCrashes, BatchSinks, Reruns

MCPartition  == {pa}
MCSubscriber == {sa, sb}
MCEvent      == {a1, a2, b1, b2}
MCProduce    == pa :> <<a1, a2, b1, b2>>
MCSubscriberOf == (a1 :> sa) @@ (a2 :> sa) @@ (b1 :> sb) @@ (b2 :> sb)
MCTimeOf == (a1 :> 2) @@ (a2 :> 1) @@ (b1 :> 2) @@ (b2 :> 3)
MCUnknown == {b1}
MCKind == [e \in MCEvent |-> "own"]
MCLimit == [crash |-> Crashes, session |-> 0, sink |-> Sinks,
            broker |-> Brokers, signal |-> 0]
MCScan == <<{a1, a2}, {b1, b2}>>
MCDeviant == {a1, a2, b1}
MCImpossible == {a1, a2, b2}
MCBatchLimit == [crash |-> BatchCrashes, sink |-> BatchSinks, rerun |-> Reruns]
=============================================================================
