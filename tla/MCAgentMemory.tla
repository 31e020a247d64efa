---------------------------- MODULE MCAgentMemory ----------------------------
(* Small instances of AgentMemory for TLC. *)
EXTENDS AgentMemory

CONSTANTS r1, r2, r3, f1, f2, s1, s2

TwoRuns == {r1, r2}
ThreeRuns == {r1, r2, r3}
TwoFacts == {f1, f2}
AllAlike == TwoFacts \X TwoFacts
TwoSessions == {s1, s2}

Symmetry == Permutations(Runs) \cup Permutations(Facts)
=============================================================================
