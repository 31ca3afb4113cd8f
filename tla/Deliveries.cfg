\* Two refunds of one supplier order and two jobs at a time; two receives, so
\* that two mishaps are enough to fill the dead-letter queue.
SPECIFICATION MCFairSpec
CONSTANTS
  c1 = c1
  c2 = c2
  c3 = c3
  e1 = e1
  e2 = e2
  Events <- MCEvents
  Deliveries <- MCThree
  MaxFaults = 2
  MaxStops = 1
  Refunds <- MCEvents
  Jobs <- MCTwo
  MaxReceives = 2
  MaxMishaps = 2
INVARIANTS SerialFiledOnce SerialOutcomeIsTrue
PROPERTIES ClaimSpec EveryEventIsApplied
CHECK_DEADLOCK FALSE
