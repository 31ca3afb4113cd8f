SPECIFICATION MCSpec
CONSTANTS
  c1 = c1
  c2 = c2
  c3 = c3
  Shoppers <- MCShoppers
  Variants <- MCVariants
  Tracked <- MCTracked
  Level <- MCLevel
  Coupons <- MCCoupons
  Promotions <- MCPromotions
  FirstOnly <- MCPromotions
  UsageLimit <- MCUsageLimit
  MaxUnits = 2
  MaxOrders = 2
  Clerks <- MCClerks
  Locations <- MCLocations
  Reservable <- MCQuantities
  Releasable <- MCQuantities
  Levels <- MCLevels
  MaxVersion = 3
SYMMETRY MCSymmetry
INVARIANTS ReservedCoversOrders SerialCartIsConserved SerialOffersAreCapped
PROPERTIES LedgerSpec
CHECK_DEADLOCK FALSE
