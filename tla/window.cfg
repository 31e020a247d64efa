SPECIFICATION FairSpec
CONSTANTS
  Messages <- MCMessages
  Conversations <- UpToFive
  Budgets <- MCBudgets
  StoreBudgets <- MCStoreBudgets
  IsSummary <- MarkedSummary
  Count <- DefaultTokenCounter
INVARIANTS LongestFit BeginsAtLastSummary
PROPERTIES Returns
CHECK_DEADLOCK FALSE
