------------------------- MODULE ConversationWindow -------------------------
(***************************************************************************)
(* SelectWindow (components/memory/conversation.go), the window of a       *)
(* conversation a model is shown, behind GetWindow of every store: from    *)
(* the last summary on, cut to a token budget by bisection, always with    *)
(* the summary and the last message.  One action per probe of the loop;    *)
(* indices count from 0, as in the code.                                   *)
(***************************************************************************)
EXTENDS Integers, Sequences

CONSTANTS
  Messages,
  Conversations,    \* sequences of messages
  Budgets,          \* budgets asked for
  StoreBudgets,     \* MaxWindowTokens of the store
  IsSummary(_),     \* is a message a summary?
  Count(_)          \* the TokenCounter, on a sequence of messages

From(w, i) == SubSeq(w, i + 1, Len(w))   \* w[i:]

\* What remains of a window when its messages before the i-th go, its summary excepted.
Cut(w, i) == IF IsSummary(w[1]) /\ i > 0 THEN <<w[1]>> \o From(w, i) ELSE From(w, i)

\* A counter never counts less for more messages.
ASSUME WindowAssumption ==
  /\ Conversations \subseteq Seq(Messages)
  /\ Budgets \subseteq Int /\ StoreBudgets \subseteq Nat
  /\ \A m \in Conversations : \A k \in 0..(Len(m) - 1) : \A i \in 0..(Len(m) - k - 1) :
       /\ Count(Cut(From(m, k), i)) \in Nat
       /\ \A j \in i..(Len(m) - k - 1) : Count(Cut(From(m, k), j)) <= Count(Cut(From(m, k), i))

VARIABLES
  pc,       \* "idle", "searching" or "returned"
  msgs, budget, maxWindowTokens,
  window,   \* from the last summary on
  lo, hi,   \* of the bisection
  result

vars == <<pc, msgs, budget, maxWindowTokens, window, lo, hi, result>>

Init ==
  /\ pc = "idle"
  /\ msgs \in Conversations
  /\ budget \in Budgets
  /\ maxWindowTokens \in StoreBudgets
  /\ window = <<>> /\ lo = 0 /\ hi = 0
  /\ result = <<>>

-----------------------------------------------------------------------------
Summaries(m) == {i \in 1..Len(m) : IsSummary(m[i])}

\* Mutant: the first summary.
FirstSummaryIndex(m) ==
  IF Summaries(m) = {} THEN -1
  ELSE (CHOOSE i \in Summaries(m) : \A j \in Summaries(m) : i <= j) - 1

LastSummaryIndex(m) ==
  IF Summaries(m) = {} THEN -1
  ELSE (CHOOSE i \in Summaries(m) : \A j \in Summaries(m) : j <= i) - 1

StartOf(m) == IF LastSummaryIndex(m) >= 0 THEN LastSummaryIndex(m) ELSE 0

Cap == IF budget <= 0 THEN maxWindowTokens ELSE budget

\* The least the window is cut to: the last message, after the summary if any.
Least(w) == Cut(w, Len(w) - 1)

Return(w) == pc' = "returned" /\ result' = w

\* Everything up to the loop, with its early returns.
Begin ==
  /\ pc = "idle"
  /\ window' = From(msgs, StartOf(msgs))
  /\ LET w == window'
         n == Len(w)
         summed == IsSummary(w[1])
     IN  \/ /\ Cap <= 0 \/ n = 0
            /\ Return(w) /\ UNCHANGED <<lo, hi>>
         \/ /\ Cap > 0 /\ n > 0
            /\ Count(w) <= Cap \/ n = 1 \/ (summed /\ n = 2)
            /\ Return(w) /\ UNCHANGED <<lo, hi>>
         \/ /\ Cap > 0 /\ n > 1
            /\ Count(w) > Cap /\ ~(summed /\ n = 2)
            /\ Count(Least(w)) > Cap
            /\ Return(Least(w)) /\ UNCHANGED <<lo, hi>>
         \/ /\ Cap > 0 /\ n > 1
            /\ Count(w) > Cap /\ ~(summed /\ n = 2)
            /\ Count(Least(w)) <= Cap
            /\ pc' = "searching"
            /\ lo' = IF summed THEN 1 ELSE 0
            /\ hi' = n - 1
            /\ UNCHANGED result
  /\ UNCHANGED <<msgs, budget, maxWindowTokens>>

\* Mutant: the loop forgets to step over the middle.
ProbeStuck ==
  /\ pc = "searching" /\ lo < hi
  /\ LET mid == (lo + hi) \div 2 IN
     IF Count(Cut(window, mid)) <= Cap
     THEN hi' = mid /\ UNCHANGED lo
     ELSE lo' = mid /\ UNCHANGED hi
  /\ UNCHANGED <<pc, msgs, budget, maxWindowTokens, window, result>>

\* Mutant: the upper end goes one too far.
ProbePast ==
  /\ pc = "searching" /\ lo < hi
  /\ LET mid == (lo + hi) \div 2 IN
     IF Count(Cut(window, mid)) <= Cap
     THEN hi' = mid - 1 /\ UNCHANGED lo
     ELSE lo' = mid + 1 /\ UNCHANGED hi
  /\ UNCHANGED <<pc, msgs, budget, maxWindowTokens, window, result>>

\* One round of the loop.
Probe ==
  /\ pc = "searching" /\ lo < hi
  /\ LET mid == (lo + hi) \div 2 IN
     IF Count(Cut(window, mid)) <= Cap
     THEN hi' = mid /\ UNCHANGED lo
     ELSE lo' = mid + 1 /\ UNCHANGED hi
  /\ UNCHANGED <<pc, msgs, budget, maxWindowTokens, window, result>>

\* The loop is over.
Finish ==
  /\ pc = "searching" /\ ~(lo < hi)
  /\ Return(Cut(window, lo))
  /\ UNCHANGED <<msgs, budget, maxWindowTokens, window, lo, hi>>

Next == Begin \/ Probe \/ Finish

Spec == Init /\ [][Next]_vars

FairSpec == Spec /\ WF_vars(Next)

-----------------------------------------------------------------------------
(* Properties                                                              *)

TypeOK ==
  /\ pc \in {"idle", "searching", "returned"}
  /\ msgs \in Conversations /\ budget \in Budgets /\ maxWindowTokens \in StoreBudgets
  /\ window \in Seq(Messages) /\ result \in Seq(Messages)
  /\ hi \in Nat /\ lo \in 0..hi

\* The loop brackets the cut: everything below lo is too much, hi is not
\* (conversation.go:125-133, 153-163).
Bracketed ==
  pc = "searching" =>
    /\ Cap > 0
    /\ hi < Len(window)
    /\ IsSummary(window[1]) => lo > 0
    /\ \A i \in 0..(lo - 1) : Count(Cut(window, i)) > Cap
    /\ Count(Cut(window, hi)) <= Cap

\* Under its cap, the budget asked for or, where that is zero or below, the store's
\* own maximum, the window is the longest cut that fits, or, if none fits, the least:
\* it ends with the last message and keeps the summary.  Without a maximum either,
\* it is not cut (conversation.go:84-90).
LongestFit ==
  pc = "returned" =>
    LET w == From(msgs, StartOf(msgs)) IN
    \/ Cap <= 0 /\ result = w
    \/ Len(w) = 0 /\ result = w
    \/ /\ Cap > 0
       /\ \E i \in 0..(Len(w) - 1) :
            /\ result = Cut(w, i)
            /\ Count(Cut(w, i)) <= Cap \/ Cut(w, i) = Least(w)
            /\ \A j \in 0..(i - 1) : Count(Cut(w, j)) > Cap \/ Cut(w, j) = result

\* A window of a conversation that has summaries begins with the last of them
\* (conversation.go:84, 96-101).
BeginsAtLastSummary ==
  pc = "returned" =>
    /\ \A i \in 2..Len(result) : ~IsSummary(result[i])
    /\ Summaries(msgs) # {} => result # <<>> /\ IsSummary(result[1])

\* What the interface says: without a budget the window is not cut, only begun at the
\* last summary (conversation.go:51-53).  False of the code, which applies the maximum
\* of the store: see README.md, section 5.
UnbudgetedIsUncut ==
  pc = "returned" /\ budget <= 0 => result = From(msgs, StartOf(msgs))

\* The bisection ends (conversation.go:126-133).
Returns == <>(pc = "returned")
=============================================================================
