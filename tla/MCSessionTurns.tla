--------------------------- MODULE MCSessionTurns ---------------------------
(* Small instances of SessionTurns for TLC. *)
EXTENDS SessionTurns, TLC

CONSTANTS p1, p2, p3, k1, k2

TwoProcs == {p1, p2}
ThreeProcs == {p1, p2, p3}
OneKey == {k1}
TwoKeys == {k1, k2}

\* Calls are interchangeable, and so are sessions.
Symmetry == Permutations(Procs) \cup Permutations(Keys)
=============================================================================
