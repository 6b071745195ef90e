CONSTANTS
    Collections = {a, b}
    ChunkSizes = {2}
    Overlaps = {0, 1}
    MaxDoc = 2
    MaxTotal = 2
    Ingesters = {g}
SPECIFICATION RagSpec
INVARIANTS CollectionsApart
CHECK_DEADLOCK FALSE
