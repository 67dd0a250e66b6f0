SPECIFICATION Spec
CONSTANTS
  m1 = m1
  m2 = m2
  m3 = m3
  Messages = {m1, m2, m3}
  ListOrder <- OrderOf3
  Persistent = TRUE
  CacheWanted = TRUE
  BaseFaults <- AllMethods
  CacheFaults <- NoMethod
  Day = 1
  SweepInterval = 2
  DaysChoices <- Periods
  DefaultDays = 2
  MaxTime = 4
INVARIANTS TypeOK NothingHidden DeletedStaysDeleted SweptIsClean
PROPERTY NeverComesBack
