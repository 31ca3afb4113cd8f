SPECIFICATION MCSpec
CONSTANTS
  r1 = r1
  r2 = r2
  c1 = c1
  c2 = c2
  d1 = d1
  d2 = d2
  Returns <- MCReturns
  Replacement <- MCNone
  Requests <- MCRequests
  Hooks <- MCHooks
  Total = 2
  Amounts <- MCAmounts
  MaxDisputes = 1
  MaxFaults = 1
  Cases <- MCCase
  Clerks <- MCRequests
  MaxEntries = 5
  MaxFiles = 2
  MaxFilings = 1
  MaxOverlaps = 1
  MaxSlips = 1
CHECK_DEADLOCK FALSE
SYMMETRY MCSymmetry
INVARIANTS RefundedOnce QuietRefundIsConfirmed AloneFileIsWhole CostFollowsRuling
