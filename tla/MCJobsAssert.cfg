SPECIFICATION Spec
CONSTANTS
  Jobs = {j1}
  MaxClients = 1
  MaxCalls = 2
  MaxOutput = 1
  PipeSize = 1
  CallerCancellables = FALSE
CHECK_DEADLOCK FALSE
INVARIANT CompletedJobHasObject
