SPECIFICATION FairSpec
CONSTANTS
  Groups = {g1, g2}
  Volumes = {v1}
  NoVolume = none
  Calls = {k1}
CHECK_DEADLOCK FALSE
INVARIANT OnlyEarlyOrCancelledFault
INVARIANT AnsweredTwiceOnlyInDeath
PROPERTY AnsweredUnlessMissed
PROPERTY CallsAreAService
