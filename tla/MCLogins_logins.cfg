SPECIFICATION LimiterFairSpec
CONSTANTS
  Attempts = {r1, r2}
  Addresses = {a1, a2, a3}
  Nobody = Nobody
  MaxFailures = 2
  Window = 2
  SweepAbove = 1
INVARIANTS
  NothingForgotten
  BudgetHolds
PROPERTIES
  FreeAgain
