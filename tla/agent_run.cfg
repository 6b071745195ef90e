SPECIFICATION Spec
CONSTANTS
  m1 = m1
  i1 = i1
  retry = retry
  none = none
  Messages <- MCMessages
  Injections <- MCMessages
  RetryMessage = retry
  NoMsg = none
  ToolKinds = {"server", "client", "elicit", "approval"}
  ParallelModes <- BothModes
  TurnLimit = 2
  MaxCalls = 2
  Structured = FALSE
  StructRetries = 1
  HitlAfter = 2
  StopOnEmpty = TRUE
  HookStops = TRUE
  MaxAsked = 3
  MaxRuns = 2
  MaxCrashes = 0
INVARIANTS
  LoopInv
  PausedIffPending
PROPERTIES
  CancelStopsWork
  FollowsPauseProtocol
