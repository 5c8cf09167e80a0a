SPECIFICATION FairSpec
CONSTANTS
  v1 = v1
  v2 = v2
  b1 = b1
  VGs = {v1, v2}
  Blocks = {b1}
  MaxChanges = 0
  HelperFails = TRUE
  HasVolumes <- AnyVolumes
  Called = {}
  build_object_path <- OwnPaths
PROPERTY WarmplugFollowsColdplug
