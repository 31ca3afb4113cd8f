SPECIFICATION MCSpec
CONSTANTS
  none = none
  None = none
  u1 = u1
  u2 = u2
  p1 = p1
  p2 = p2
  \* pricing
  Carts <- MCCarts
  Coupons <- MCCoupons
  Queues <- MCQueues
  Quotes <- MCQuotes
  \* pages
  Visitors <- MCUsers
  Items = {1, 2, 3}
  Newest <- MCNewest
  Featured = {1, 3}
  BestSelling <- MCBest
  Curated <- MCCurated
  CategoryOf <- MCCategory
  Everywhere = "everywhere"
  Strategies = {"NEW_ARRIVALS", "FEATURED", "BEST_SELLERS", "COLLECTION"}
  Sizes = {2}
  Lives = {0, 2}
  Positions = {1, 2}
  Nothing = Nothing
  MaxSections = 1
  MaxChanges = 2
  \* campaigns
  Editors <- MCUsers
  CampaignIds <- MCIds
  Children = {"a", "b"}
  Codes <- MCCodes
  Unsent = Unsent
  NoCode = NoCode
  NoDate = NoDate
  Dates = {1, 2}
  Bodies <- MCBodies
  MaxEdits = 4
  \* direct checkout
  Variants = {1, 2, 3}
  ColourOf <- MCColour
  SizeOf <- MCSize
  Mapped = {1, 2}
  Freights <- MCFreights
  Flat <- MCFlat
  Unknown = Unknown
  MaxDays = 14
  QuoteTTL = 2
  MaxQuotes = 2
  MaxTurns = 1
  \* electronics
  Slugs <- MCSlugs
  Branches = {"audio", "mice", "buds"}
  ParentAtFirst <- MCParent
  Searches <- MCSearches
  CjIds = {"cj1", "cj2"}
  Finds <- MCFinds
  CjCategoryOf <- MCCjCategory
  Goods = {1, 2}
  FiledAtFirst <- MCFiled
  Prices = {10, 20}
  PerCategory = 2
  Limit = 1
  MaxDepth = 3
  Absent = Absent
  MaxMoves = 2
  \* attributes
  VariantIds = {1}
  Staff <- MCUsers
  AttributeCodes <- MCAttributes
  Texts = {"one", "two"}
  Blank = Blank
  MaxRows = 7
  MaxWrites = 3
SYMMETRY MCSymmetry
CHECK_DEADLOCK FALSE
INVARIANT OrderedAsChosen
