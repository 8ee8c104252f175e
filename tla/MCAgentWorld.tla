---------------------------- MODULE MCAgentWorld ----------------------------
(***************************************************************************)
(* Five agents on four workers: ranges of two, two, one and no agent. A    *)
(* state is the sequence of the updates it has gone through, so that two   *)
(* agents are equal only if they have the same history.                    *)
(***************************************************************************)
EXTENDS AgentWorld, Sequences

MCZero == <<>>
MCState == UNION {[1..n -> 0..AgentCount] : n \in 0..(Ticks + 1)}
MCInitial == [i \in Agent |-> <<i>>]
MCAdvance(s, t) ==
  IF s # MCZero /\ Len(s) <= Ticks /\ t <= AgentCount THEN Append(s, t) ELSE s
MCCovered(s) == s # MCZero /\ (s[1] + Len(s)) % 3 # 0
=============================================================================
