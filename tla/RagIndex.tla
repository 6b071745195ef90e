------------------------------ MODULE RagIndex -------------------------------
(***************************************************************************)
(* A knowledge base: documents cut into chunks, embedded, stored in the    *)
(* collection of whoever ingests them, and retrieved from it.  The memory  *)
(* provider keeps a list for each collection; pgvector keeps one table of  *)
(* rows by chunk id and inserts them one at a time.                        *)
(*                                                                         *)
(* A document is a sequence of characters of four kinds: "x" is part of a  *)
(* word, "break" a paragraph's or line's end, "stop" a sentence's end and  *)
(* "space" a blank.  A separator counts as one character.  A piece of a    *)
(* document is the set of the positions it shows.                          *)
(***************************************************************************)
EXTENDS Naturals, Sequences, SequencesExt, FiniteSets, FiniteSetsExt, Ordered

CONSTANTS
    Collections, \* of tenants, by scope and name
    ChunkSizes, Overlaps,
    MaxDoc,     \* bound: characters of a document
    MaxTotal,    \* bound: characters of all documents, but for a first one kept in memory
    Ingesters      \* tasks that ingest

ASSUME RagAssumption ==
    {MaxDoc, MaxTotal} \cup ChunkSizes \cup Overlaps \subseteq Nat /\ 0 \notin ChunkSizes

Chunkers == {"fixed", "recursive", "semantic", "none"}
Separators == <<"break", "stop", "space">>
Documents == UNION {[1 .. n -> {"x"} \cup ToSet(Separators)] : n \in 1 .. MaxDoc}
NoProvider == [provider |-> "none"]
NotIngesting == [state |-> "idle"]

VARIABLES
    rConfig,  \* [provider, chunker, size, overlap]
    rModel,   \* the embeddings in use, 1 or 2: they differ in dimension
    rDims,    \* _dims: the model each collection was ingested with, 0 if not known
    rStored,  \* memory: _data, the chunks of each collection
    rRows,    \* pgvector: chunk id -> [collection, model]; an id stands for a text
    rTask,    \* what each caller has still to insert
    rIngested, \* history: the documents each collection was given, and their chunks
    rGiven    \* characters given so far

ragVars == <<rConfig, rModel, rDims, rStored, rRows, rTask, rIngested, rGiven>>

RagInit ==
    /\ rConfig = NoProvider /\ rModel = 1
    /\ rDims = [c \in Collections |-> 0]
    /\ rStored = [c \in Collections |-> {}] /\ rRows = <<>>
    /\ rTask = [t \in Ingesters |-> NotIngesting]
    /\ rIngested = [c \in Collections |-> {}] /\ rGiven = 0

\* The provider of the configuration, with its chunker.
BuildProvider ==
    /\ rConfig = NoProvider
    /\ rConfig' \in [provider : {"in_memory", "pgvector"}, chunker : Chunkers,
                     size : ChunkSizes, overlap : Overlaps]
    /\ UNCHANGED <<rModel, rDims, rStored, rRows, rTask, rIngested, rGiven>>

-----------------------------------------------------------------------------
(* Cutting a document.  Pieces are told apart by where they end. *)

\* Mutant: the next chunk begins as far after the last one's end as it should before.
StepAfter(size, overlap) == size + overlap

Step(size, overlap) == IF size > overlap THEN size - overlap ELSE 1

\* chunk_text: a chunk begins a step after the one before, unless that reached the end.
FixedCut(text, size, overlap) ==
    LET step == Step(size, overlap)
        starts == {s \in {Min(text) + k * step : k \in 0 .. Max(text)} :
                      s <= Max(text) /\ (s = Min(text) \/ s - step + size <= Max(text))}
    IN {{i \in text : s <= i /\ i < s + size} : s \in starts}

\* Where a part of text.split(sep) begins: behind one of these.
Marks(doc, text, sep) == {0} \cup {i \in text : doc[i] = sep}

\* From the part behind b to the part behind c.
Between(doc, text, sep, b, c) ==
    {i \in text : b < i /\ \A j \in text : c < j /\ j <= i => doc[j] # sep}

\* The parts are put together again as long as they fit: an empty buffer, and one that
\* would be too long, is left for the next part.  Where the buffer of each part begins.
Buffers(doc, text, sep, size) ==
    LET marks == Marks(doc, text, sep)
        Buffer(b, c) == Between(doc, text, sep, b, c)
        begin[m \in marks] ==
            IF m = 0 THEN 0
            ELSE LET last == Max({c \in marks : c < m}) IN
                 IF \/ Buffer(begin[last], last) = {}
                    \/ Cardinality(Buffer(begin[last], m)) > size
                 THEN m ELSE begin[last]
    IN begin

\* A piece is what lies between the parts in a buffer; the separator behind it is lost.
PackedCut(doc, text, sep, size) ==
    LET marks == Marks(doc, text, sep)
        begin == Buffers(doc, text, sep, size)
        Along(m) == {c \in marks : begin[c] = begin[m]}
    IN {UNION {Between(doc, text, sep, b, c) : b, c \in Along(m)} : m \in marks} \ {{}}

CutAt(doc, pieces, sep, size) ==
    UNION {IF Cardinality(p) <= size THEN {p} ELSE PackedCut(doc, p, sep, size) : p \in pieces}

\* _recursive_split.  What is still too long when it was cut at a separator has it no
\* more, so the recursive calls go through the separators once.
RecursiveCut(doc, size) ==
    LET paragraphs == CutAt(doc, {DOMAIN doc}, Separators[1], size)
        sentences == CutAt(doc, paragraphs, Separators[2], size)
        words == CutAt(doc, sentences, Separators[3], size)
    IN UNION {FixedCut(p, size, 0) : p \in words}

Number(p, pieces) == Cardinality({q \in pieces : Max(q) < Max(p)})

\* _apply_overlap: a piece begins with the end of the one before.
WithOverlap(pieces, overlap) ==
    LET End(q) == {i \in q : i + overlap > Max(q)}
        Before(p) == {q \in pieces : Number(q, pieces) + 1 = Number(p, pieces)}
    IN {p \cup UNION {End(q) : q \in Before(p)} : p \in pieces}

Blank(kind) == kind \in {"break", "space"}

Sentence(doc, m) == Between(doc, DOMAIN doc, "stop", m, m)

\* Sentences end at a stop; those of blanks only are left out.
Sentences(doc) ==
    {m \in Marks(doc, DOMAIN doc, "stop") : \E i \in Sentence(doc, m) : ~Blank(doc[i])}

\* A sentence begins a group if it is not like the one before (alike has those that are)
\* or the group is full.  Where the group of each sentence begins.
Groups(doc, size, alike) ==
    LET begin[m \in Sentences(doc)] ==
            LET earlier == {c \in Sentences(doc) : c < m}
                group == {c \in earlier : c >= begin[Max(earlier)]}
            IN IF \/ earlier = {} \/ m \notin alike
                  \/ Cardinality(UNION {Sentence(doc, c) : c \in group}) >= size
               THEN m ELSE begin[Max(earlier)]
    IN begin

\* SemanticChunker
SemanticCut(doc, size, overlap, alike) ==
    LET begin == Groups(doc, size, alike)
        Along(m) == {c \in Sentences(doc) : begin[c] = begin[m]}
    IN IF Cardinality(Sentences(doc)) <= 1 THEN FixedCut(DOMAIN doc, size, overlap)
       ELSE {UNION {Sentence(doc, c) : c \in Along(m)} : m \in Sentences(doc)}

PiecesOf(doc, config, alike) ==
    CASE config.chunker = "fixed" -> FixedCut(DOMAIN doc, config.size, config.overlap)
      [] config.chunker = "recursive" ->
            WithOverlap(RecursiveCut(doc, config.size), config.overlap)
      [] config.chunker = "semantic" -> SemanticCut(doc, config.size, config.overlap, alike)
      [] config.chunker = "none" -> {DOMAIN doc}

\* A chunk's id stands for its number and its text; the recursive chunker leaves out blanks.
ChunksOf(doc, config, alike) ==
    LET pieces == PiecesOf(doc, config, alike)
    IN {[id |-> <<Number(p, pieces), AtPlaces(doc, p)>>, shows |-> p] :
          p \in {q \in pieces : config.chunker # "recursive" \/ \E i \in q : ~Blank(doc[i])}}

-----------------------------------------------------------------------------
(* Ingesting *)

\* Documents there is room for within the bounds.
Fitting ==
    {doc \in Documents : \/ rGiven + Len(doc) <= MaxTotal
                         \/ rGiven = 0 /\ rConfig.provider = "in_memory"}

\* The check of the dimension, where the collection's is known.
Admits(c) == rDims[c] \in {0, rModel}

Ingest(t, c, doc, alike) ==
    /\ rTask[t] = NotIngesting /\ doc \notin {e.doc : e \in rIngested[c]}
    /\ Admits(c) /\ rGiven' = rGiven + Len(doc)
    /\ LET chunks == ChunksOf(doc, rConfig, alike) IN
       /\ rDims' = [rDims EXCEPT ![c] = IF chunks = {} THEN @ ELSE rModel]
       /\ IF rConfig.provider = "in_memory"
          THEN /\ rStored' = [rStored EXCEPT ![c] = @ \cup chunks]
               /\ rIngested' = [rIngested EXCEPT ![c] = @ \cup {[doc |-> doc, chunks |-> chunks]}]
               /\ UNCHANGED rTask
          ELSE /\ rTask' = [rTask EXCEPT ![t] = [state |-> "inserting", collection |-> c,
                                                 doc |-> doc, all |-> chunks,
                                                 chunks |-> chunks]]
               /\ UNCHANGED <<rStored, rIngested>>
    /\ UNCHANGED <<rConfig, rModel, rRows>>

\* INSERT ... ON CONFLICT (id) DO UPDATE: a row stays in the collection it was in.
InsertRow(t) ==
    /\ rTask[t].state = "inserting"
    /\ \E chunk \in rTask[t].chunks :
          /\ \A other \in rTask[t].chunks : chunk.id[1] <= other.id[1]
          /\ LET row == [collection |-> IF chunk.id \in DOMAIN rRows
                                        THEN rRows[chunk.id].collection
                                        ELSE rTask[t].collection,
                         model |-> rModel]
             IN rRows' = [id \in DOMAIN rRows \cup {chunk.id} |->
                            IF id = chunk.id THEN row ELSE rRows[id]]
          /\ rTask' = [rTask EXCEPT ![t].chunks = @ \ {chunk}]
    /\ UNCHANGED <<rConfig, rModel, rDims, rStored, rIngested, rGiven>>

IngestReturns(t) ==
    /\ rTask[t].state = "inserting" /\ rTask[t].chunks = {}
    /\ rIngested' = [rIngested EXCEPT ![rTask[t].collection] =
                        @ \cup {[doc |-> rTask[t].doc, chunks |-> rTask[t].all]}]
    /\ rTask' = [rTask EXCEPT ![t] = NotIngesting]
    /\ UNCHANGED <<rConfig, rModel, rDims, rStored, rRows, rGiven>>

\* The connection fails; the rows inserted so far stay.
IngestFails(t) ==
    /\ rTask[t].state = "inserting" /\ rTask' = [rTask EXCEPT ![t] = NotIngesting]
    /\ UNCHANGED <<rConfig, rModel, rDims, rStored, rRows, rIngested, rGiven>>

\* A new provider object with other embeddings: pgvector's does not know the dimensions.
ChangeModel ==
    /\ rConfig # NoProvider /\ rModel = 1 /\ \A t \in Ingesters : rTask[t] = NotIngesting
    /\ rModel' = 2
    /\ rDims' = IF rConfig.provider = "pgvector" THEN [c \in Collections |-> 0] ELSE rDims
    /\ UNCHANGED <<rConfig, rStored, rRows, rTask, rIngested, rGiven>>

\* Either every sentence is like the one before or none is; only one chunker asks.
Alikes ==
    IF rConfig # NoProvider /\ rConfig.chunker = "semantic" THEN {{}, 0 .. MaxDoc} ELSE {{}}

RagNext ==
    \/ BuildProvider \/ ChangeModel
    \/ \E t \in Ingesters :
          \/ /\ rConfig # NoProvider
             /\ \E c \in Collections, doc \in Fitting, alike \in Alikes : Ingest(t, c, doc, alike)
          \/ InsertRow(t) \/ IngestReturns(t) \/ IngestFails(t)

-----------------------------------------------------------------------------
\* The ids of the chunks retrieve() finds in a collection when k is no limit.
Retrieved(c) ==
    IF rConfig.provider = "in_memory" THEN {chunk.id : chunk \in rStored[c]}
    ELSE {id \in DOMAIN rRows : rRows[id].collection = c}

\* Every word of what was ingested is in a chunk of it that is among the ids.
FoundAmong(e, ids) ==
    \A i \in DOMAIN e.doc :
        e.doc[i] = "x" => \E chunk \in e.chunks : i \in chunk.shows /\ chunk.id \in ids

\* What was ingested is found: however it was cut, every word of a document is in a chunk
\* that was stored; with the memory provider in the document's own collection (chunkers of
\* rag/chunking.py, ingest of rag/providers).
IngestedIsFound ==
    \A c \in Collections : \A e \in rIngested[c] :
        FoundAmong(e, IF rConfig.provider = "in_memory" THEN Retrieved(c) ELSE DOMAIN rRows)

\* The doc's claim that a collection is a bucket of its own: what was ingested into it is
\* found in it (docs/reference/rag.md:9).  pgvector keeps a row in its first collection.
CollectionsApart ==
    \A c \in Collections : \A e \in rIngested[c] : FoundAmong(e, Retrieved(c))

RagSpec == RagInit /\ [][RagNext]_ragVars
=============================================================================
