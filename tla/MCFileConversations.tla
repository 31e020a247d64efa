------------------------ MODULE MCFileConversations ------------------------
(* Small instances of FileConversations for TLC. *)
EXTENDS FileConversations, TLC

CONSTANTS c1, c2, i1, i2, o1, o2, o3, o4

TwoClients == {c1, c2}
TwoIds == {i1, i2}
FourObjects == {o1, o2, o3, o4}
AllFaults == {"kill", "write", "long"}

\* Clients and conversations are interchangeable.
Symmetry == Permutations(Clients) \cup Permutations(Ids)
=============================================================================
