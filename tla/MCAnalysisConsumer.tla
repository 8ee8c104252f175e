-------------------------- MODULE MCAnalysisConsumer --------------------------
(***************************************************************************)
(* Three or four events of the sample and one record that is passed over.  *)
(* Two events fill the buffer, so that a poll can end with an empty buffer, *)
(* a full one, or one event left for the flush before the commit. A record *)
(* with malformed rows may follow: it meets the buffer half full and the   *)
(* end of a poll, and all that precedes it can be published without it.    *)
(***************************************************************************)
EXTENDS AnalysisConsumer, TLC

CONSTANTS e1, e2, e3, e4, bad, o,
          Crashes, Sessions, Sinks, Brokers, Signals

MCEvent == {e1, e2, e3, e4, bad, o}
MCTopic == <<e1, o, e2, e3, e4>>
MCTopicThenBad == <<e1, o, e2, e3, bad>>
MCAnalyzable == MCEvent \ {o}
MCUnwritable == {bad}
MCLimit == [crash |-> Crashes, session |-> Sessions, sink |-> Sinks,
            broker |-> Brokers, signal |-> Signals]
=============================================================================
