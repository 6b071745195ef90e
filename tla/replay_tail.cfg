\* One run whose events fit the buffer, and one reader.
SPECIFICATION ReplaySpec
CONSTANTS
  MaxRuns = 1
  Readers = {d1}
  MaxEvents = 3
  Retained = 3
INVARIANT ReplayComplete
CHECK_DEADLOCK FALSE
