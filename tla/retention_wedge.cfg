SPECIFICATION Spec
CONSTANTS
  m1 = m1
  m2 = m2
  m3 = m3
  Messages = {m1, m2}
  ListOrder <- OrderOf2
  Persistent = TRUE
  CacheWanted = TRUE
  BaseFaults <- DeleteAllOnly
  CacheFaults <- NoMethod
  Day = 1
  SweepInterval = 1
  DaysChoices <- Periods
  DefaultDays = 2
  MaxTime = 3
PROPERTY RetentionApplied
