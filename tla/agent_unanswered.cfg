SPECIFICATION Spec
CONSTANTS
  m1 = m1
  i1 = i1
  retry = retry
  none = none
  Messages <- MCMessages
  Injections <- MCInjections
  RetryMessage = retry
  NoMsg = none
  ToolKinds = {"server", "client"}
  ParallelModes <- BothModes
  TurnLimit = 2
  MaxCalls = 2
  Structured = FALSE
  StructRetries = 1
  HitlAfter = 0
  StopOnEmpty = TRUE
  HookStops = FALSE
  MaxAsked = 3
  MaxRuns = 2
  MaxCrashes = 0
INVARIANTS
  EveryCallAnswered
