SPECIFICATION Spec
CONSTANTS
  c1 = c1
  c2 = c2
  d1 = d1
  d2 = d2
  p1 = p1
  cod = cod
  Cards <- MCOneCard
  Cash <- MCCash
  Clerks <- MCTwoClerks
  Hooks <- MCTwoHooks
  StaffTargets <- MCStaff
  Dashboard <- MCOneCard
  MaxFaults = 1
CHECK_DEADLOCK FALSE
SYMMETRY MCSymmetry
INVARIANTS RevenueIsRecognised RefundMeansReturned QuietStrandsOnlyBesideRefund
