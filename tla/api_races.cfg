SPECIFICATION ApiSpec
CONSTANTS
  m1 = m1
  m2 = m2
  Messages = {m1, m2}
  ListOrder <- OrderOf2
  Persistent = TRUE
  CacheWanted = TRUE
  BaseFaults <- NoMethod
  CacheFaults <- NoMethod
  Day = 1
  SweepInterval = 1
  DaysChoices <- OnePeriod
  DefaultDays = 2
  MaxTime = 2
  Handlers = {h1, h2}
  Selections <- AllOrOne
  Kinds = {"purge", "existing"}
SYMMETRY HandlerSymmetry
INVARIANTS CountedOnce PurgeComplete LiveIsReported
