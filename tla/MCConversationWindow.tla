------------------------ MODULE MCConversationWindow ------------------------
(* Small instances of ConversationWindow for TLC. *)
EXTENDS ConversationWindow, TokenCounter

MCMessages == [size : {0, 3, 8}, summary : {FALSE}] \cup [size : {3}, summary : {TRUE}]
UpToFive == UNION {[1..n -> MCMessages] : n \in 0..5}
MCBudgets == {-1, 0, 1, 2, 4, 5}
MCStoreBudgets == {0, 3}
=============================================================================
