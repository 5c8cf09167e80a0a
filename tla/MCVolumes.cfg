CONSTANTS
  Names <- FourNames
  Reserved <- HiddenNames
  PoolOf <- ThinHasPool
  Lists <- SomeLists
  Blocks = {b1}
  MaxChanges = 2
  MaxUpdates = 3
  MaxPolls = 1
  MaxRenames = 1
SPECIFICATION Spec
CHECK_DEADLOCK FALSE
INVARIANT OnlyClashingNamesAreHidden
INVARIANT LinksLeadToThePool
INVARIANT BlockShowsItsVolume
