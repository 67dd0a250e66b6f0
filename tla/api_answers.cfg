SPECIFICATION Spec
CONSTANTS
  Spellings <- Names
  Norm <- NameRank
  NoTag = NoTag
  DefaultLimit = 2
  MaxLimit = 2
  HalvesUp = {535, 665, 755, 795, 885, 975}
  Trim <- Trimmed
  Upper <- Uppered
  Invalid = Invalid
  Texts = {"", "host", "25", "465", "user"}
  Paged <- PagedCases
  Shown <- ShownCases
  Scored <- ScoredCases
  Released <- ReleasedCases
INVARIANT PagingMissesNothing
INVARIANT FoldersMatchListings
INVARIANT QualityIsJust
INVARIANT ReleaseKeepsPromise
