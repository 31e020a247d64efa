---------------------------- MODULE TokenCounter ----------------------------
(***************************************************************************)
(* The default token counter (libs/counter): a quarter of the characters   *)
(* of the messages and of the arguments of their tool calls, but at least  *)
(* one for any character at all.  A message is its size in characters and  *)
(* its summary marker.                                                     *)
(***************************************************************************)
EXTENDS Integers, Sequences

MarkedSummary(msg) == msg.summary

TotalSize(w) ==
  LET total[i \in 0..Len(w)] == IF i = 0 THEN 0 ELSE total[i - 1] + w[i].size
  IN  total[Len(w)]

DefaultTokenCounter(w) ==
  LET total == TotalSize(w)
      tokens == total \div 4
  IN  IF tokens = 0 /\ total > 0 THEN 1 ELSE tokens
=============================================================================
