SPECIFICATION FairSpec
CONSTANTS
  m1 = m1
  i1 = i1
  retry = retry
  none = none
  Messages <- MCMessages
  Injections <- MCMessages
  RetryMessage = retry
  NoMsg = none
  ToolKinds = {"server", "client"}
  ParallelModes <- BothModes
  TurnLimit = 2
  MaxCalls = 1
  Structured = TRUE
  StructRetries = 1
  HitlAfter = 2
  StopOnEmpty = TRUE
  HookStops = TRUE
  MaxAsked = 3
  MaxRuns = 2
  MaxCrashes = 1
INVARIANTS
  TcIdsUnique
PROPERTIES
  HistoryKept
  RunEnds
