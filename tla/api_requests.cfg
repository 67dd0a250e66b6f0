SPECIFICATION ApiSpec
CONSTANTS
  m1 = m1
  m2 = m2
  Messages = {m1, m2}
  ListOrder <- OrderOf2
  Persistent = TRUE
  CacheWanted = TRUE
  BaseFaults <- ListAndDelete
  CacheFaults <- StoreAndList
  Day = 1
  SweepInterval = 2
  DaysChoices <- Periods
  DefaultDays = 2
  MaxTime = 3
  Handlers = {h1}
  Selections <- AllOrOne
  Kinds = {"messages", "purge", "existing"}
INVARIANTS ApiTypeOK ListingFresh
PROPERTY RequestsAnswered
