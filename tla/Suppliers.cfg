SPECIFICATION MCSpec
CONSTANTS
  c1 = c1
  c2 = c2
  p1 = p1
  p2 = p2
  t1 = t1
  t2 = t2
  Desks <- MCDesks
  MaxTries = 3
  MaxOrders = 2
  MaxFaults = 3
  Callers <- MCDesks
  Lives = {0, 1, 2, 5}
  AccessTTL = 4
  RefreshTTL = 6
  NoToken = NoToken
  Readers <- MCDesks
  PageTTL = 2
  CatalogTTL = 3
  MaxTime = 8
  Silence = Silence
  Workers <- MCDesks
  Period = 5
  Skew = 1
  LockTTL = 2
  MaxTicks = 3
  MaxMishaps = 2
  Tasks <- MCTasks
  Products <- MCProducts
  Chunk <- MCChunk
  Runners <- MCDesks
  MaxReceives = 2
  MaxOffers = 1
  MaxSyncFaults = 2
INVARIANTS CleanJobIsSettled SyncedIsImported RecordedIsReal SingleNothingDoubled CachedTokenWorks KeptWordIsRecent ResyncedOncePerTick
SYMMETRY MCSymmetry
CHECK_DEADLOCK FALSE
