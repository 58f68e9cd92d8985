----------------------------- MODULE MCRtosLogo -----------------------------
(* Small instances of RtosLogo. *)
EXTENDS RtosLogo, FiniteSets, TLC

CONSTANTS a1, a2, r1

Budget(kinds, n) == [k \in FaultKinds |-> IF k \in kinds THEN n ELSE 0]
TwoAgents == {a1, a2}
OneRest == {r1}
AgentNames == Permutations(TwoAgents)
Usual == {"drop", "kill", "cut", "flash", "marker"}
OneFault == {Budget({k}, 1) : k \in Usual}
=============================================================================
