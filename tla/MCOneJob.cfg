SPECIFICATION FairSpec
CONSTANTS
  Jobs = {j1}
  MaxClients = 1
  MaxCalls = 2
  MaxOutput = 3
  PipeSize = 1
  CallerCancellables = TRUE
CHECK_DEADLOCK FALSE
INVARIANT TypeOK
INVARIANT SuccessHasAllOutput
INVARIANT OnlyCancelFaults
INVARIANT ChildIsWatched
PROPERTY EveryJobIsReported
PROPERTY EveryChildIsReaped
PROPERTY CancelEndsTheCommand
