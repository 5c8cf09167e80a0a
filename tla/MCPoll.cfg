SPECIFICATION FirstSpec
CONSTANTS
  a = a
  b = b
  Contents = {a, b}
  Pids = {1, 2, 3}
  MaxChanges = 2
  MaxCalls = 2
CHECK_DEADLOCK FALSE
INVARIANT TypeOK
INVARIANT RefsAreBalanced
INVARIANT OnePollRuns
INVARIANT OnlyPollsMislead
PROPERTY PollsAreShownInOrder
PROPERTY CallsAreServedInTheEnd
