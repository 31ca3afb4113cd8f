\* One job at a time, one mishap.
SPECIFICATION MCSpec
CONSTANTS
  c1 = c1
  c2 = c2
  c3 = c3
  e1 = e1
  e2 = e2
  Events <- MCEvents
  Deliveries <- MCThree
  MaxFaults = 2
  MaxStops = 1
  Refunds <- MCEvents
  Jobs <- MCOne
  MaxReceives = 3
  MaxMishaps = 1
CHECK_DEADLOCK FALSE
INVARIANT FiledOnce
