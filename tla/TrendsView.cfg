CONSTANTS
  p = p  q = q
  Series = {p, q}
  Defaults = {p}
  TagLists <- MCTagLists
  Presets <- MCPresets
  Filters <- MCFilters
  Base <- MCBase
  Ranges <- MCRanges
  Preload <- MCPreload
  None = None
  Start = 6
  CustomTimes = {5, 7}
  MaxTime = 7
  MaxRequests = 2
  MaxOps = 4
  MaxFailures = 1
SPECIFICATION FairSpec
INVARIANT TrendsInv
PROPERTY SelectionSurvives
PROPERTY TypedLimitsKept
PROPERTY LiveShowsAll
CHECK_DEADLOCK FALSE
