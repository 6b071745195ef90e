CONSTANTS
    TurnsToFold = 2
    MaxParts = 2
    MaxRuns = 3
    MaxTurns = 6
    Clients = {c1, c2}
    FactKeys = {k1, k2, k3}
    FactValues = {v1, v2}
    MaxEntities = 2
    MaxOps = 3
    MaxWindowTurns = 2
    MaxTools = 2
    RawCosts = {1, 4}
    NoticeCost = 2
    Budgets = {3, 5, 7}
    OldestN = 1
    ToolNames = {t1, t2}
    SetNames = {a, b, s}
    Dotted = {t1}
    MaxIncludes = 2
    MaxDefines = 3
    MaxNames = 2
    StoredIds = {i1, i2, i3}
    Others = {i3}
    Foreign = {i2}
    Second = {i2}
    GroupIds = {i1, i2}
    Alike = {i3}
    Keep = 2
    RedisClients = {w1, w2}
    MaxWrites = 4
    PageSizes = {1, 2}
    Delegates = {d1, d2}
    MaxDelegations = 3
    MaxTurnsEach = 2
    Processes = {p1, p2}
    FileIds = {f1, f2}
    MaxFileOps = 4
    MaxIndex = 2
    MaxPieces = 2
    MaxText = 2
    MaxRetries = 1
    CallLimits = {0, 1}
    AllTools = {flat, app, skill, script}
    FlatTools = {flat}
    SkillTools = {skill, script}
    ScriptTools = {script}
    Packs = {{flat}, {app, skill}}
    MaxGrants = 3
    Collections = {l1, l2}
    ChunkSizes = {1, 3}
    Overlaps = {0, 1}
    MaxDoc = 4
    MaxTotal = 2
    Ingesters = {g1}
    CurSessions = {one}
    Intervals = {0, 2}
    DigestTurns = 2
    MaxCurTurns = 3
    MaxCurRuns = 2
    SkillNames = {n1, n2, n3}
    DashedNames = {n3}
    BeforeDashes <- MCBeforeDashes
    RetrievalK = 1
    Workers = {p1, p2}
    MaxSkillOps = 4
    ServerNames = {r1, r2}
    MediaProviders = {"mock", "nexus_server"}
    SideProviders = {"mock", "nexus_server"}
    GroupNames = {m1, m2}
    AgentNames = {e1}
    LooseNames = {o}
    RootNames = {m1, e1, o}
    MaxMembers = 2
SPECIFICATION MCSpec
INVARIANTS
    ToldOnce
    OnlyApprovedInjected
    SerialOpsKeepFacts
    NoNeedlessDrop
    ResolveIsReachable
    PagesCoverAll
    ViewKeepsTurns
    GoneMeansGone
    CallsAsSent
    GrantedStaysOffered
    IngestedIsFound
    ToldReachesPrompt
    
    ValidMeansItStarts
    CycleIsReported
PROPERTIES
    AlignedFoldKeeps
CHECK_DEADLOCK FALSE
