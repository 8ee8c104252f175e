-------------------------- MODULE MCRecordPersister --------------------------
(***************************************************************************)
(* A topic of six records: four good ones, one that does not decode and    *)
(* one the database refuses. Chunks of two rows put the poisoned row       *)
(* first, last or alone, according to how the polls cut the topic.         *)
(***************************************************************************)
EXTENDS RecordPersister, TLC

CONSTANTS g1, g2, g3, g4, x, bad,
          Crashes, Sessions, Sinks, Brokers, Signals

MCEvent == {g1, g2, g3, g4, x, bad}
MCTopic == <<g1, bad, g2, x, g3, g4>>
MCKind  == [e \in MCEvent |->
              CASE e = x -> "garbled" [] e = bad -> "poison" [] OTHER -> "good"]
MCLimit == [crash |-> Crashes, session |-> Sessions, sink |-> Sinks,
            broker |-> Brokers, signal |-> Signals]
=============================================================================
