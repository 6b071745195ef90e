CONSTANTS
    MaxFrames = 4
    MaxReplyEvents = 1
    BargeNeed = 2
    MaxPieces = 3
    MaxNotes = 1
    Langs <- MCLangs
    MaxTurns = 4
    Calls = {c1, c2}
    Replicas = 1
    Workers = 2
    MaxChunks = 2
    ThreadSafe = FALSE
    MaxRuns = 2
    Readers = {d1, d2}
    MaxEvents = 2
    Retained = 1
    Size = 3
    Budget = 2
    OwnTurns = 1
    MaxCalls = 2
    JobIds = {j1, j2, j3}
    MaxLoops = 2
    MaxChanges = 3
    MaxRetries = 1
    MaxSounds = 1
    MaxSaid = 2
SPECIFICATION MCSpec
INVARIANTS
    OnlySpeechCutsReply
    SpokenOnce
    StickyLanguage
    CompleteMeansAll
    ReplayOnce
    TurnsWithinBudget
    SharingScope
PROPERTIES
    InputEndEndsCall
    ReplyEnds
    EveryCallEnds
    ReaderEnds
    GroupAnswers
    DueJobsFire
    S2SCallEnds
CHECK_DEADLOCK FALSE
