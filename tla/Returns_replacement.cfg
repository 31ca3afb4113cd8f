SPECIFICATION MCSpec
CONSTANTS
  r1 = r1
  r2 = r2
  c1 = c1
  c2 = c2
  d1 = d1
  d2 = d2
  Returns <- MCReturns
  Replacement <- MCReturns
  Requests <- MCOneRequest
  Hooks <- MCHooks
  Total = 2
  Amounts <- MCUnit
  MaxDisputes = 1
  MaxFaults = 0
  Cases <- MCCase
  Clerks <- MCOneRequest
  MaxEntries = 1
  MaxFiles = 2
  MaxFilings = 1
  MaxOverlaps = 1
  MaxSlips = 0
CHECK_DEADLOCK FALSE
INVARIANT ApprovalMovesOn
