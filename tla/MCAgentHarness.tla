--------------------------- MODULE MCAgentHarness ---------------------------
(* The agent harness on small instances. *)
EXTENDS AgentHarness

\* Authors' clocks disagree with the order of arrival.
ReversedClocks == [e \in Events |-> 9 - e]

Symmetric == Permutations(Channels)
=============================================================================
