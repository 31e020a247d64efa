--------------------------- MODULE MCActivityBus ---------------------------
(* Small instances of ActivityBus for TLC. *)
EXTENDS ActivityBus, TLC

CONSTANTS s1, s2, s3, h1, h2, h3

TwoSessions == {s1, s2}
ThreeSessions == {s1, s2, s3}
TwoSubscribers == {h1, h2}
OneSubscriber == {h1}
ThreeSubscribers == {h1, h2, h3}

\* Sessions are interchangeable, and so are subscribers.
Symmetry == Permutations(Sessions) \cup Permutations(Subscribers)
=============================================================================
