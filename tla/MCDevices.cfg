SPECIFICATION Spec
CONSTANTS
  Devices = {d1, d2}
  VGs = {v1, v2}
  Calls = {k1, k2}
CHECK_DEADLOCK FALSE
INVARIANT ErasesAllOrNothing
INVARIANT AnswerTellsWhatHappened
PROPERTY UsedDevicesSurvive
