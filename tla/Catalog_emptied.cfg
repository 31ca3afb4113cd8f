SPECIFICATION MCSpec
CONSTANTS
  None = None
  c1 = c1
  c2 = c2
  Stores = {"fashion", "beauty"}
  Rules = {"a", "b"}
  OwnerOf <- MCOwnerOf
  Products = {1, 2, 3}
  Variants = {1, 2, 3}
  Slugs = {"coat", "parka"}
  Clerks = {c1, c2}
  Kinds <- MCKinds
  Mixes <- MCMixes
  Markups = {50, 100}
  Minimums = {0, 800}
  Sales <- MCSales
  Items = {"coat"}
  Parts = {"s", "m"}
  NoId = NoId
  Offers <- MCEmptied
  ListPrice = 1000
  Given <- MCGiven
  Categories = {"men", "shoes", "boots"}
  Shoppers = {"s1"}
  MaxWalks = 1
  Absent = Absent
  Top = Top
  Looks = {"summer", "beach", "city"}
  Pieces <- MCPieces
  Curators = {c1, c2}
  MaxChanges = 4
  NoLook = NoLook
  Topmost = Topmost
  Pictures = {"front", "back", "worn"}
  Trims = {"red"}
  Product = Product
  OwnerOfPicture <- MCOwnerOfPicture
  Uploaders = {c1, c2}
  MaxUploads = 4
  NoPicture = NoPicture
  Shelves <- MCShelves
  Brands = {"acme", "bolt"}
  Colors = {"red", "blue"}
  Sizes = {"s", "m"}
  Prices = {10, 20}
  ListedCategories = {"men"}
  Anything = Anything
  Nobody = Nobody
  Shops <- SampleShops
  Accounts <- SampleAccounts
  Buyers <- SampleBuyers
  TopCategories <- SampleTopCategories
  Goods <- SampleGoods
  Hues <- SampleHues
  Guides <- SampleGuides
  Outfits <- SampleOutfits
  Campaigns <- SampleCampaigns
  Promos <- SamplePromos
  Orders <- SampleOrders
  Reviews <- SampleReviews
  Wishes <- SampleWishes
  Coupons <- SampleCoupons
  PinLimit = 1
  FeaturedLimit = 1
  MaxRuns = 2
INVARIANTS AlonePricesFollowRules
CHECK_DEADLOCK FALSE
