SPECIFICATION MoveSpec
CONSTANTS
  v1 = v1
  v2 = v2
  b1 = b1
  VGs = {v1, v2}
  Blocks = {b1}
  MaxChanges = 2
  HelperFails = FALSE
  HasVolumes <- OneWithVolumes
  Called = {}
  build_object_path <- OwnPaths
INVARIANT TypeOK
INVARIANT UpdateOutlivesShows
INVARIANT LinkedGroupListsDevice
INVARIANT PublishedIsInTable
INVARIANT CurrentWhenQuiet
