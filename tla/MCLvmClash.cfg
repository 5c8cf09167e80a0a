SPECIFICATION FairSpec
CONSTANTS
  v1 = v1
  v2 = v2
  b1 = b1
  VGs = {v1, v2}
  Blocks = {b1}
  MaxChanges = 1
  HelperFails = TRUE
  HasVolumes <- OneWithVolumes
  Called = {v2}
  build_object_path <- OnePath
INVARIANT LinkedGroupListsDevice
INVARIANT PublishedIsInTable
INVARIANT CurrentWhenQuiet
PROPERTY ColdplugEnds
