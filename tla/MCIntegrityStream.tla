-------------------------- MODULE MCIntegrityStream --------------------------
(***************************************************************************)
(* Two partitions with one subscriber each.                                *)
(*   pa: a clean record at time 2, a record shifted back to time 1, and a  *)
(*       clean record at time 3; or, in the masked topic, a clean record   *)
(*       at time 3 and records at 1 and 2 that it overtakes both.          *)
(*   pb: another run's record stamped far ahead, a record at time 2 whose  *)
(*       unknown cell raises a hit that fails normalise, and a record both *)
(*       shifted to time 1 and from an unknown cell, which both rules hit. *)
(* BufferSize 2 makes Observe write in the middle of a batch; with 3 the   *)
(* write comes at the end of it.                                           *)
(***************************************************************************)
EXTENDS IntegrityStream, TLC

CONSTANTS pa, pb, sa, sb, a1, a2, a3, b1, b2, b3,
          Crashes, Sessions, Sinks, Brokers, Signals

MCPartition  == {pa, pb}
MCSubscriber == {sa, sb}
MCEvent      == {a1, a2, a3, b1, b2, b3}
MCProduce    == (pa :> <<a1, a2, a3>>) @@ (pb :> <<b1, b2, b3>>)
MCSubscriberOf == [e \in MCEvent |-> IF e \in {a1, a2, a3} THEN sa ELSE sb]
MCTimeOf == (a1 :> 2) @@ (a2 :> 1) @@ (a3 :> 3) @@ (b1 :> 9) @@ (b2 :> 2) @@ (b3 :> 1)
MCMaskedTimeOf == (a1 :> 3) @@ (a2 :> 1) @@ (a3 :> 2) @@ (b1 :> 9) @@ (b2 :> 2) @@ (b3 :> 1)
MCUnknown == {b2, b3}
MCKind == [e \in MCEvent |->
             CASE e = b1 -> "foreign" [] e = b2 -> "hollow" [] OTHER -> "own"]
MCLimit == [crash |-> Crashes, session |-> Sessions, sink |-> Sinks,
            broker |-> Brokers, signal |-> Signals]
=============================================================================
