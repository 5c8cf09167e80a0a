SPECIFICATION Spec
CONSTANTS
  Jobs = {j1, j2}
  MaxClients = 1
  MaxCalls = 1
  MaxOutput = 1
  PipeSize = 1
  CallerCancellables = FALSE
SYMMETRY JobSymmetry
CHECK_DEADLOCK FALSE
INVARIANT JobsAreCounted
PROPERTY StopsOnlyWhenJobsAreDone
PROPERTY JobsAreAService
