--------------------------- MODULE ContextProofs ----------------------------
(***************************************************************************)
(* What the model is given: no turn twice, however the turns are numbered, *)
(* and none lost while no run before was folded; as much of the history as *)
(* fits; the tools it was granted; the skills as they were stored; and the *)
(* facts of which the curator was shown the turns.                         *)
(***************************************************************************)
EXTENDS ContextFold, ContextWindow, ToolGrants, SkillStore, Curation, SequenceTheorems, FiniteSetTheorems, TLAPS

-----------------------------------------------------------------------------
(* Types                                                                   *)

\* The types, and what counting the turns needs.
Typed == TypeOK /\ IsFiniteSet(turns)

\* A session that was never used is well typed.
LEMMA InitType == Init => Typed
<1>1. <<>> \in Seq(SUBSET (1..MaxTurns))
  BY EmptySeq
<1>2. 0 \in 0..MaxTurns /\ 0 \in 0..MaxRuns /\ -1 \in Int /\ -1 >= -1
  BY FoldAssumption
<1>3. ASSUME Init PROVE TypeOK
  <2>1. /\ turns = {} /\ toFold = {} /\ through = -1 /\ pc = "idle"
        /\ idx = 0 /\ asked = FALSE /\ nTurns = 0 /\ nRuns = 0
    BY <1>3 DEF Init
  <2>2. summary \in Seq(SUBSET (1..MaxTurns))
    BY <1>1, <1>3 DEF Init
  <2>3. nTurns \in 0..MaxTurns /\ nRuns \in 0..MaxRuns
    BY <1>2, <2>1
  <2>4. through \in Int /\ through >= -1
    BY <1>2, <2>1
  <2> QED
    BY <2>1, <2>2, <2>3, <2>4 DEF TypeOK
<1>4. ASSUME Init PROVE IsFiniteSet(turns)
  BY <1>4, FS_EmptySet DEF Init
<1> QED
  BY <1>3, <1>4 DEF Typed

\* The text that is added, or cut off, leaves a summary.
LEMMA ExtendedType ==
  ASSUME TypeOK, NEW ids \in SUBSET (1..MaxTurns)
  PROVE  Extended(summary, ids) \in Seq(SUBSET (1..MaxTurns))
BY AppendProperties DEF TypeOK, Extended

\* What stays in the session was in it.
LEMMA RemainingType == Remaining(turns) \subseteq turns
BY DEF Remaining

\* Every step of the loop keeps the types.
LEMMA NextType == Typed /\ [Next]_vars => Typed'
<1> SUFFICES ASSUME Typed, [Next]_vars PROVE Typed'
  OBVIOUS
<1> USE FoldAssumption DEF Typed, TypeOK
<1>1. CASE UNCHANGED vars
  BY <1>1 DEF vars
<1>2. ASSUME NEW message \in BOOLEAN, Start(message) PROVE Typed'
  <2>1. Cardinality(turns) \in Nat
    BY FS_CardinalityType
  <2> QED
    BY <1>2, <2>1 DEF Start
<1>3. CASE KeepAll \/ Retry
  BY <1>3 DEF KeepAll, Retry
<1>4. CASE AskSummary
  BY <1>4 DEF AskSummary, Oldest, Foldable
<1>5. CASE Fold
  <2>1. turns' \subseteq turns /\ IsFiniteSet(turns')
    BY <1>5, RemainingType, FS_Subset DEF Fold
  <2>2. Ids(toFold) \in SUBSET (1..MaxTurns)
    BY DEF Ids, Turn
  <2>3. summary' \in Seq(SUBSET (1..MaxTurns))
    BY <1>5, <2>2, ExtendedType DEF Fold
  <2>4. FoldedIndices \subseteq Nat
    BY DEF FoldedIndices, Turn
  <2>5. through' \in Int /\ through' >= -1
    BY <1>5, <2>4 DEF Fold
  <2> QED
    BY <1>5, <2>1, <2>3, <2>5 DEF Fold
<1>6. CASE FoldFails
  BY <1>6 DEF FoldFails
<1>7. ASSUME NEW text \in BOOLEAN, AppendTurn(text) PROVE Typed'
  <2>1. nTurns + 1 \in 1..MaxTurns /\ idx + 1 \in Nat
    BY <1>7 DEF AppendTurn
  <2>2. [id |-> nTurns + 1, idx |-> idx, text |-> text] \in Turn
    BY <2>1 DEF Turn
  <2>3. turns' \subseteq Turn /\ toFold' \subseteq turns'
    BY <1>7, <2>2 DEF AppendTurn
  <2>4. IsFiniteSet(turns')
    BY <1>7, FS_AddElement DEF AppendTurn
  <2>5. /\ idx' \in Nat /\ nTurns' \in 0..MaxTurns /\ pc' = "build" /\ asked' = FALSE
        /\ UNCHANGED <<through, summary, nRuns>>
    BY <1>7, <2>1 DEF AppendTurn
  <2> QED
    BY <2>3, <2>4, <2>5
<1>8. CASE End
  BY <1>8 DEF End
<1> QED
  BY <1>1, <1>2, <1>3, <1>4, <1>5, <1>6, <1>7, <1>8 DEF Next

\* Every variable of the loop and its summariser keeps its type.
THEOREM TypeCorrect == Spec => []TypeOK
<1>1. Typed => TypeOK
  BY DEF Typed
<1> QED
  BY InitType, NextType, <1>1, PTL DEF Spec

-----------------------------------------------------------------------------
(* Nothing is told twice                                                   *)

\* A turn is known by its place in the conversation, and no place is taken
\* before its turn is appended.
Places ==
  /\ \A t \in turns : t.id <= nTurns
  /\ \A i \in DOMAIN summary : \A j \in summary[i] : j <= nTurns
  /\ \A s, t \in turns : s.id = t.id => s = t

\* Folding moves turns from the session to the summary.
LEMMA FoldTellsOnce == ASSUME Typed, Places, ToldOnce, Fold PROVE Places' /\ ToldOnce'
<1> USE DEF Typed, TypeOK
<1> DEFINE new == Ids(toFold)
<1>1. turns' = Remaining(turns) /\ nTurns' = nTurns /\ summary' = Extended(summary, new)
  BY DEF Fold
<1>2. turns' \subseteq turns /\ turns' \intersect toFold = {}
  BY <1>1 DEF Remaining, FoldedIndices
<1>3. new \subseteq 1..MaxTurns /\ \A j \in new : j <= nTurns
  BY DEF Ids, Places, Turn
<1>4. new \intersect Ids(turns') = {}
  BY <1>2 DEF Ids, Places
<1>5. \A i \in DOMAIN summary : summary[i] \intersect (new \union Ids(turns')) = {}
  BY <1>2 DEF ToldOnce, Summarised, Ids
<1>6. CASE summary' = summary
  BY <1>1, <1>2, <1>5, <1>6 DEF Places, ToldOnce, Summarised
<1>7. CASE summary' = Append(summary, new)
  <2>1. /\ Len(summary') = Len(summary) + 1
        /\ DOMAIN summary' = 1..Len(summary) + 1
        /\ DOMAIN summary = 1..Len(summary) /\ Len(summary) \in Nat
        /\ summary'[Len(summary) + 1] = new
        /\ \A i \in 1..Len(summary) : summary'[i] = summary[i]
    BY <1>3, <1>7, AppendProperties, LenProperties
  <2>2. \A i \in DOMAIN summary' : \/ i \in DOMAIN summary /\ summary'[i] = summary[i]
                                   \/ i = Len(summary) + 1 /\ summary'[i] = new
    BY <2>1
  <2>3. Places'
    BY <1>1, <1>2, <1>3, <2>2 DEF Places
  <2>4. Summarised' \intersect Ids(turns') = {}
    BY <1>4, <1>5, <2>2 DEF Summarised, Ids
  <2>5. \A i, j \in DOMAIN summary' : i # j => summary'[i] \intersect summary'[j] = {}
    BY <1>5, <2>2 DEF ToldOnce
  <2> QED
    BY <2>3, <2>4, <2>5 DEF ToldOnce, Ids
<1> QED
  BY <1>1, <1>6, <1>7 DEF Extended

\* A new turn takes a place of its own.
LEMMA AppendTellsOnce ==
  ASSUME Typed, Places, ToldOnce, NEW text \in BOOLEAN, AppendTurn(text)
  PROVE  Places' /\ ToldOnce'
<1> USE DEF Typed, TypeOK
<1> DEFINE new == [id |-> nTurns + 1, idx |-> idx, text |-> text]
<1>1. turns' = turns \union {new} /\ nTurns' = nTurns + 1 /\ summary' = summary
  BY DEF AppendTurn
<1>2. \A t \in turns : t.id \in Nat /\ t.id # new.id
  BY DEF Turn, Places
<1>3. \A i \in DOMAIN summary : new.id \notin summary[i]
        /\ \A j \in summary[i] : j \in Nat
  BY DEF Places
<1>4. Places'
  BY <1>1, <1>2, <1>3 DEF Places
<1>5. Summarised' \intersect Ids(turns') = {}
  BY <1>1, <1>3 DEF ToldOnce, Summarised, Ids
<1> QED
  BY <1>1, <1>4, <1>5 DEF ToldOnce, Ids

\* The other steps move no turn.
LEMMA NextTellsOnce == Typed /\ Places /\ ToldOnce /\ [Next]_vars => Places' /\ ToldOnce'
<1> SUFFICES ASSUME Typed, Places, ToldOnce, [Next]_vars PROVE Places' /\ ToldOnce'
  OBVIOUS
<1>1. CASE UNCHANGED <<turns, summary, nTurns>>
  BY <1>1 DEF Places, ToldOnce, Summarised
<1> QED
  BY <1>1, FoldTellsOnce, AppendTellsOnce
     DEF Next, Start, KeepAll, AskSummary, FoldFails, Retry, End, vars

\* A turn that the summary tells of has left the session, and is told of once.
THEOREM ToldOnceCorrect == Spec => []ToldOnce
<1>1. Init => Places /\ ToldOnce
  BY DEF Init, Places, ToldOnce, Summarised, Ids
<1> QED
  BY InitType, NextType, <1>1, NextTellsOnce, PTL DEF Spec

-----------------------------------------------------------------------------
(* Oldest first, while nothing was folded before the run                   *)

\* What was folded is below through, what is left is above it, and the turns
\* of a session nobody folded are numbered by their places.
InOrder ==
  /\ through + 1 <= nTurns
  /\ \A t \in turns : t.idx = t.id - 1 /\ through < t.idx
  /\ \A i \in Summarised : i <= through + 1

\* The turns being folded are foldable, and older than the others that are.
Chosen ==
  /\ toFold \subseteq Foldable
  /\ \A s \in toFold, t \in Foldable \ toFold : Before(s, t)

\* A session that was folded is shorter than its conversation, so the next
\* run cannot be aligned.
FoldCounted ==
  /\ through # -1 => Cardinality(turns) < nTurns
  /\ through = -1 => Cardinality(turns) = nTurns /\ (pc # "idle" => idx = nTurns)

Numbering ==
  /\ FoldCounted /\ Chosen
  /\ (pc = "fold") = (toFold # {})
  /\ Aligned \/ through = -1 => InOrder

\* Of any two turns, one comes before the other.
LEMMA BeforeOrders ==
  ASSUME Typed, Places, NEW s \in turns, NEW t \in turns, s # t
  PROVE  /\ Before(s, t) \/ Before(t, s)
         /\ ~(Before(s, t) /\ Before(t, s))
         /\ \A u \in turns : Before(u, s) /\ Before(s, t) => Before(u, t)
<1>1. \A u \in turns : u.id \in Nat /\ u.idx \in Nat
  BY DEF Typed, TypeOK, Turn
<1>2. s.id # t.id
  BY DEF Places
<1> QED
  BY <1>1, <1>2 DEF Before

\* Those taken from the front of the sorted turns come before the others.
LEMMA OldestChosen ==
  ASSUME Typed, Places, NEW s \in Oldest, NEW t \in Foldable \ Oldest
  PROVE  Before(s, t)
<1> DEFINE older(u) == {v \in Foldable : Before(v, u)}
<1>1. Foldable \subseteq turns /\ s \in Foldable /\ t \in Foldable /\ s # t
  BY DEF Foldable, Oldest
<1>2. IsFiniteSet(Foldable)
  BY <1>1, FS_Subset DEF Typed
<1>3. IsFiniteSet(older(s)) /\ IsFiniteSet(older(t))
  BY <1>2, FS_Subset
<1>4. /\ Cardinality(older(s)) \in Nat /\ Cardinality(older(t)) \in Nat
      /\ Cardinality(older(s)) < TurnsToFold /\ ~(Cardinality(older(t)) < TurnsToFold)
  BY <1>3, FS_CardinalityType DEF Oldest
<1>5. SUFFICES ASSUME Before(t, s) PROVE FALSE
  BY <1>1, BeforeOrders
<1>6. older(t) \subseteq older(s)
  BY <1>1, <1>5, BeforeOrders
<1>7. Cardinality(older(t)) <= Cardinality(older(s))
  BY <1>3, <1>6, FS_Subset
<1> HIDE DEF older
<1> QED
  BY <1>4, <1>7, FoldAssumption

\* Folding the front of an ordered session leaves it ordered.
LEMMA FoldInOrder == ASSUME Typed, Places, Chosen, InOrder, Fold PROVE InOrder'
<1> USE DEF Typed, TypeOK
<1>1. /\ turns' = Remaining(turns) /\ nTurns' = nTurns
      /\ summary' = Extended(summary, Ids(toFold))
      /\ through' \in FoldedIndices \union {through}
      /\ \A i \in FoldedIndices \union {through} : i <= through'
  BY DEF Fold
<1>2. /\ \A t \in turns : t.id \in Nat /\ t.idx \in Nat /\ t.idx = t.id - 1 /\ through < t.idx
      /\ toFold \subseteq turns /\ turns' \subseteq turns /\ turns' \intersect toFold = {}
      /\ Foldable = turns
  BY <1>1 DEF InOrder, Turn, Remaining, FoldedIndices, Foldable
<1>3. \A s \in toFold, t \in turns' : s.idx < t.idx
  BY <1>2 DEF Chosen, Before
<1>4. \A t \in turns' : t.idx = t.id - 1 /\ through' < t.idx
  BY <1>1, <1>2, <1>3 DEF FoldedIndices
<1>5. through' + 1 <= nTurns
  BY <1>1, <1>2 DEF FoldedIndices, Places, InOrder
<1>6. \A i \in Ids(toFold) : i <= through' + 1
  <2>1. SUFFICES ASSUME NEW s \in toFold PROVE s.id <= through' + 1
    BY DEF Ids
  <2>2. s.idx <= through' /\ s.idx = s.id - 1 /\ s.id \in Nat
    BY <1>1, <1>2 DEF FoldedIndices
  <2>3. through' \in Int
    BY <1>1, <1>2 DEF FoldedIndices
  <2> QED
    BY <2>2, <2>3
<1>7. Ids(toFold) \in SUBSET (1..MaxTurns)
  BY DEF Ids, Turn
<1>8. Summarised' \subseteq Summarised \union Ids(toFold)
  <2>1. CASE summary' = summary
    BY <2>1 DEF Summarised
  <2>2. CASE summary' = Append(summary, Ids(toFold))
    <3>1. \A i \in DOMAIN summary' : \/ i \in DOMAIN summary /\ summary'[i] = summary[i]
                                     \/ summary'[i] = Ids(toFold)
      BY <1>7, <2>2, AppendProperties, LenProperties
    <3> QED
      BY <3>1 DEF Summarised
  <2> QED
    BY <1>1, <2>1, <2>2 DEF Extended
<1>9. \A i \in Summarised : i \in Nat /\ i <= through + 1
  BY DEF InOrder, Summarised
<1>10. through <= through' /\ through' \in Int
  BY <1>1, <1>2 DEF FoldedIndices
<1>11. \A i \in Summarised' : i <= through' + 1
  BY <1>6, <1>8, <1>9, <1>10
<1> QED
  BY <1>1, <1>4, <1>5, <1>11 DEF InOrder

\* A fold makes the session shorter.
LEMMA FoldNumbering == ASSUME Typed, Places, Numbering, Fold PROVE Numbering'
<1> USE DEF Typed, TypeOK
<1>1. /\ pc = "fold" /\ pc' = "llm" /\ toFold' = {} /\ turns' = Remaining(turns)
      /\ nTurns' = nTurns /\ idx' = idx
      /\ through' \in FoldedIndices \union {through}
      /\ \A i \in FoldedIndices \union {through} : i <= through'
  BY DEF Fold
<1>2. PICK s \in toFold : TRUE
  BY <1>1 DEF Numbering
<1>3. s \in turns /\ s.idx \in Nat /\ s.idx \in FoldedIndices /\ s \notin turns'
  BY <1>1 DEF Turn, FoldedIndices, Remaining
<1>4. through' # -1
  BY <1>1, <1>3
<1>5. turns' \subseteq turns /\ turns' # turns
  BY <1>1, <1>3, RemainingType
<1>6. Cardinality(turns') < Cardinality(turns)
  <2>1. /\ IsFiniteSet(turns') /\ Cardinality(turns') <= Cardinality(turns)
        /\ Cardinality(turns) = Cardinality(turns') => turns = turns'
    BY <1>5, FS_Subset
  <2>2. Cardinality(turns) \in Nat /\ Cardinality(turns') \in Nat
    BY <2>1, FS_CardinalityType
  <2> QED
    BY <1>5, <2>1, <2>2
<1>7. Cardinality(turns) \in Nat /\ Cardinality(turns') \in Nat
  BY <1>5, FS_Subset, FS_CardinalityType
<1>8. FoldCounted'
  BY <1>1, <1>4, <1>6, <1>7 DEF Numbering, FoldCounted
<1>9. Chosen'
  BY <1>1 DEF Chosen
<1>10. Aligned' => InOrder'
  BY <1>1, FoldInOrder DEF Numbering, Aligned
<1> QED
  BY <1>1, <1>4, <1>8, <1>9, <1>10 DEF Numbering

\* A new turn makes session and conversation longer by one.
LEMMA AppendNumbering ==
  ASSUME Typed, Places, Numbering, NEW text \in BOOLEAN, AppendTurn(text)
  PROVE  Numbering'
<1> USE DEF Typed, TypeOK
<1> DEFINE new == [id |-> nTurns + 1, idx |-> idx, text |-> text]
<1>1. /\ pc = "llm" /\ pc' = "build" /\ turns' = turns \union {new} /\ nTurns' = nTurns + 1
      /\ idx' = idx + 1 /\ UNCHANGED <<through, summary, toFold>>
  BY DEF AppendTurn
<1>2. new \notin turns
  BY DEF Places
<1>3. Cardinality(turns') = Cardinality(turns) + 1 /\ Cardinality(turns) \in Nat
  BY <1>1, <1>2, FS_AddElement, FS_CardinalityType
<1>4. toFold' = {}
  BY <1>1 DEF Numbering
<1>5. FoldCounted'
  BY <1>1, <1>3 DEF Numbering, FoldCounted
<1>6. Chosen'
  BY <1>4 DEF Chosen
<1>7. ASSUME Aligned' \/ through' = -1 PROVE InOrder'
  <2>1. idx = nTurns
    BY <1>1, <1>7 DEF Aligned, Numbering, FoldCounted
  <2>2. InOrder
    BY <1>1, <2>1 DEF Numbering, Aligned
  <2>3. \A t \in turns' : t.idx = t.id - 1 /\ through < t.idx
    BY <1>1, <2>1, <2>2 DEF InOrder
  <2> QED
    BY <1>1, <2>2, <2>3 DEF InOrder, Summarised
<1> QED
  BY <1>1, <1>4, <1>5, <1>6, <1>7 DEF Numbering

\* A run that starts aligned starts from a session nobody folded.
LEMMA StartNumbering ==
  ASSUME Typed, Numbering, NEW message \in BOOLEAN, Start(message)
  PROVE  Numbering'
<1> USE DEF Typed, TypeOK
<1>1. /\ pc = "idle" /\ pc' = "build" /\ idx' = Cardinality(turns)
      /\ UNCHANGED <<turns, through, summary, toFold, nTurns>>
  BY DEF Start
<1>2. Cardinality(turns) \in Nat
  BY FS_CardinalityType
<1>3. ASSUME Aligned' PROVE through = -1
  BY <1>1, <1>2, <1>3 DEF Aligned, Numbering, FoldCounted
<1>4. FoldCounted'
  BY <1>1, <1>2 DEF Numbering, FoldCounted
<1>5. Chosen'
  BY <1>1 DEF Numbering, Chosen, Foldable, Before
<1>6. InOrder => InOrder'
  BY <1>1 DEF InOrder, Summarised
<1> QED
  BY <1>1, <1>3, <1>4, <1>5, <1>6 DEF Numbering

\* The other steps move no turn, or choose which to fold.
LEMMA NextNumbering ==
  Typed /\ Places /\ Numbering /\ [Next]_vars => Numbering'
<1> SUFFICES ASSUME Typed, Places, Numbering, [Next]_vars PROVE Numbering'
  OBVIOUS
<1>1. ASSUME UNCHANGED <<turns, through, summary, idx, nTurns>>, pc' # "idle" => pc # "idle",
             Chosen', (pc' = "fold") = (toFold' # {})
      PROVE  Numbering'
  <2>1. FoldCounted' /\ (InOrder => InOrder') /\ (Aligned' => Aligned)
    BY <1>1 DEF Numbering, FoldCounted, InOrder, Summarised, Aligned
  <2> QED
    BY <1>1, <2>1 DEF Numbering
<1>2. CASE UNCHANGED vars
  BY <1>1, <1>2 DEF vars, Numbering, Chosen, Foldable, Before
<1>3. CASE KeepAll \/ Retry
  BY <1>1, <1>3 DEF KeepAll, Retry, Numbering, Chosen, Foldable, Before
<1>4. CASE AskSummary
  <2>1. Oldest \subseteq Foldable /\ Oldest # {}
    BY <1>4 DEF AskSummary, Oldest
  <2>2. toFold' = Oldest /\ Foldable' = Foldable
    BY <1>4 DEF AskSummary, Foldable
  <2>3. Chosen'
    BY <2>1, <2>2, OldestChosen DEF Chosen, Before
  <2> QED
    BY <1>1, <1>4, <2>1, <2>2, <2>3 DEF AskSummary
<1>5. CASE FoldFails \/ End
  <2>1. toFold' = {} /\ pc' # "fold"
    BY <1>5 DEF FoldFails, End
  <2>2. Chosen'
    BY <2>1 DEF Chosen
  <2>3. CASE FoldFails
    BY <1>1, <2>1, <2>2, <2>3 DEF FoldFails
  <2>4. CASE End
    <3>1. UNCHANGED <<turns, through, summary, nTurns>> /\ pc' = "idle"
      BY <2>4 DEF End
    <3>2. FoldCounted' /\ ~Aligned' /\ (InOrder => InOrder')
      BY <3>1 DEF Numbering, FoldCounted, InOrder, Summarised, Aligned
    <3> QED
      BY <2>1, <2>2, <3>1, <3>2 DEF Numbering
  <2> QED
    BY <1>5, <2>3, <2>4
<1> QED
  BY <1>2, <1>3, <1>4, <1>5, StartNumbering, FoldNumbering, AppendNumbering DEF Next

\* A session starts with nothing folded.
LEMMA InitNumbering == Init => Numbering
<1> SUFFICES ASSUME Init PROVE Numbering
  OBVIOUS
<1>1. turns = {} /\ toFold = {} /\ summary = <<>> /\ nTurns = 0 /\ through = -1 /\ pc = "idle"
  BY DEF Init
<1>2. Cardinality(turns) = 0
  BY <1>1, FS_EmptySet
<1>3. DOMAIN summary = {}
  BY <1>1
<1> QED
  BY <1>1, <1>2, <1>3 DEF Numbering, FoldCounted, Chosen, InOrder, Summarised

\* While a run is aligned, all the session holds can be folded, is newer than
\* all that was folded, and has a number of its own.
THEOREM OldestFirstCorrect == Spec => []OldestFirst
<1>1. Typed /\ Places /\ Numbering => OldestFirst
  <2> SUFFICES ASSUME Typed, Places, InOrder, Aligned PROVE OldestFirst
    BY DEF Numbering, OldestFirst
  <2> USE DEF Typed, TypeOK
  <2>1. \A t \in turns : t.id \in Nat /\ t.idx \in Nat /\ t.idx = t.id - 1 /\ t.idx > through
    BY DEF InOrder, Turn
  <2>2. Foldable = turns
    BY <2>1 DEF Foldable
  <2>3. \A t \in turns : t.idx < idx
    BY <2>1 DEF Places, Aligned
  <2>4. \A i \in Summarised : i \in Nat /\ i <= through + 1
    BY DEF InOrder, Summarised
  <2>5. \A t \in turns : \A i \in Summarised : i < t.id
    BY <2>1, <2>4
  <2> QED
    BY <2>1, <2>2, <2>3, <2>5 DEF OldestFirst
<1>2. Init => Places /\ ToldOnce
  BY DEF Init, Places, ToldOnce, Summarised, Ids
<1> QED
  BY InitType, NextType, <1>1, <1>2, NextTellsOnce, InitNumbering, NextNumbering, PTL DEF Spec

\* While a run is aligned, only turns whose digest was summarised leave the
\* session.
THEOREM AlignedFoldKeepsCorrect == Spec => AlignedFoldKeeps
<1>1. Typed /\ Places /\ Numbering /\ [Next]_vars
        => [Aligned => turns \ turns' \subseteq toFold]_vars
  <2> SUFFICES ASSUME Typed, Places, Numbering, [Next]_vars, Aligned
               PROVE  turns \ turns' \subseteq toFold
    OBVIOUS
  <2>1. CASE turns \subseteq turns'
    BY <2>1
  <2>2. CASE Fold
    <3>1. InOrder
      BY DEF Numbering
    <3>2. SUFFICES ASSUME NEW t \in turns, NEW s \in toFold, t.idx = s.idx PROVE t \in toFold
      BY <2>2 DEF Fold, Remaining, FoldedIndices
    <3>3. s \in turns /\ s.id \in Nat /\ t.id \in Nat
      BY DEF Typed, TypeOK, Turn
    <3>4. s.id = t.id
      BY <3>1, <3>2, <3>3 DEF InOrder
    <3> QED
      BY <3>3, <3>4 DEF Places
  <2> QED
    BY <2>1, <2>2 DEF Next, Start, KeepAll, AskSummary, FoldFails, AppendTurn, Retry, End, vars
<1>2. Init => Places /\ ToldOnce
  BY DEF Init, Places, ToldOnce, Summarised, Ids
<1> QED
  BY InitType, NextType, <1>1, <1>2, NextTellsOnce, InitNumbering, NextNumbering, PTL
     DEF Spec, AlignedFoldKeeps

\* Turns leave the session only in the step that records that they were
\* folded, for any numbering.
THEOREM FoldIsAllOrNothingCorrect == Spec => FoldIsAllOrNothing
<1>1. Typed /\ Numbering /\ [Next]_vars
        => [~(turns \subseteq turns') => toFold # {} /\ through' > through]_vars
  <2> SUFFICES ASSUME Typed, Numbering, [Next]_vars, ~(turns \subseteq turns')
               PROVE  toFold # {} /\ through' > through
    OBVIOUS
  <2>1. Fold
    BY DEF Next, Start, KeepAll, AskSummary, FoldFails, AppendTurn, Retry, End, vars
  <2>2. PICK s \in toFold : TRUE
    BY <2>1 DEF Fold, Numbering
  <2>3. s.idx \in Nat /\ s.idx > through
    BY DEF Numbering, Chosen, Foldable, Typed, TypeOK, Turn
  <2>4. s.idx <= through' /\ through' \in Int /\ through \in Int
    <3>1. \A i \in FoldedIndices : i \in Nat
      BY DEF FoldedIndices, Typed, TypeOK, Turn
    <3>2. s.idx \in FoldedIndices
      BY DEF FoldedIndices
    <3> QED
      BY <2>1, <3>1, <3>2 DEF Fold, Typed, TypeOK
  <2> QED
    BY <2>2, <2>3, <2>4
<1>2. Init => Places /\ ToldOnce
  BY DEF Init, Places, ToldOnce, Summarised, Ids
<1> QED
  BY InitType, NextType, <1>1, <1>2, NextTellsOnce, InitNumbering, NextNumbering, PTL
     DEF Spec, FoldIsAllOrNothing

-----------------------------------------------------------------------------
(***************************************************************************)
(* ContextWindow.  While a window is built only raw results are degraded;  *)
(* and when the oldest turn goes, all of those it has left are, so what    *)
(* the turn would have cost with them is what it costs.                    *)
(***************************************************************************)
TurnNeeded ==
    cFirst > 1 => Cost(cFirst - 1, Degradable(cFirst - 1, {})) > cBudget

WindowInv ==
    /\ cFirst \in Nat \ {0}
    /\ cPhase \in {"building", "built"} => TurnNeeded
    /\ cPhase = "building" => \A c \in cDegraded : ~IsSummarised(c)
    /\ cPhase = "built" => Cost(cFirst, cDegraded) <= cBudget \/ cFirst > Len(cTurns)

\* The cost of a window depends on which of its own calls are degraded.
LEMMA SameCost ==
    ASSUME NEW first, NEW degraded, NEW others,
           \A c \in CallsFrom(first) : c \in degraded <=> c \in others
    PROVE  Cost(first, degraded) = Cost(first, others)
<1>1. \A c \in CallsFrom(first) : ToolCost(c, degraded) = ToolCost(c, others)
    BY DEF ToolCost
<1>2. [c \in CallsFrom(first) |-> ToolCost(c, degraded)]
        = [c \in CallsFrom(first) |-> ToolCost(c, others)]
    BY <1>1
<1> QED
    BY <1>2 DEF Cost

\* Nothing left to degrade: the window costs what it would with every raw result degraded.
LEMMA AllDegraded ==
    ASSUME Degradable(cFirst, cDegraded) = {}, \A c \in cDegraded : ~IsSummarised(c)
    PROVE  Cost(cFirst, cDegraded) = Cost(cFirst, Degradable(cFirst, {}))
<1>1. \A c \in CallsFrom(cFirst) : c \in cDegraded <=> c \in Degradable(cFirst, {})
    BY DEF Degradable
<1> QED
    BY <1>1, SameCost

LEMMA WindowStep == WindowInv /\ [WindowNext]_windowVars => WindowInv'
<1> SUFFICES ASSUME WindowInv, [WindowNext]_windowVars
             PROVE  WindowInv'
    OBVIOUS
<1>1. ASSUME cPhase' \notin {"building", "built"}, cFirst' \in {1, cFirst}
      PROVE  WindowInv'
    BY <1>1 DEF WindowInv
<1>2. CASE WindowTurn \/ Intercept \/ CompactBegin \/ CompactNext \/ CompactEnd \/ BuildUse
    BY <1>1, <1>2 DEF WindowTurn, Intercept, CompactBegin, CompactNext, CompactEnd, BuildUse
<1>3. CASE BuildBegin
    BY <1>3 DEF BuildBegin, WindowInv, TurnNeeded
\* While the window is built the session stays, and so does what a window costs.
<1>4. ASSUME UNCHANGED <<cTurns, cBudget, cAsks>>
      PROVE  /\ \A c : IsSummarised(c)' = IsSummarised(c)
             /\ \A first, degraded : Cost(first, degraded)' = Cost(first, degraded)
             /\ \A first : Degradable(first, {})' = Degradable(first, {})
    BY <1>4 DEF IsSummarised, Call, Cost, CallsFrom, ToolCost, Degradable
<1>5. CASE DegradeOldest
  <2>1. PICK c \in Degradable(cFirst, cDegraded) : cDegraded' = cDegraded \cup {c}
      BY <1>5 DEF DegradeOldest
  <2>2. cPhase = "building" /\ UNCHANGED <<cPhase, cTurns, cBudget, cAsks, cFirst>>
      BY <1>5 DEF DegradeOldest, OverBudget
  <2>3. ~IsSummarised(c)
      BY <2>1 DEF Degradable
  <2> QED
      BY <1>4, <2>1, <2>2, <2>3 DEF WindowInv, TurnNeeded
<1>6. CASE DropOldest
  <2>1. /\ cPhase = "building" /\ Cost(cFirst, cDegraded) > cBudget
        /\ Degradable(cFirst, cDegraded) = {} /\ cFirst' = cFirst + 1
        /\ UNCHANGED <<cPhase, cTurns, cBudget, cAsks, cDegraded>>
      BY <1>6 DEF DropOldest, OverBudget
  <2>2. Cost(cFirst, Degradable(cFirst, {})) > cBudget
      BY <2>1, AllDegraded DEF WindowInv
  <2>3. cFirst' \in Nat \ {0} /\ cFirst' - 1 = cFirst
      BY <2>1 DEF WindowInv
  <2>4. TurnNeeded'
      BY <1>4, <2>1, <2>2, <2>3 DEF TurnNeeded
  <2> QED
      BY <1>4, <2>1, <2>3, <2>4 DEF WindowInv
<1>7. CASE BuildEnd
    BY <1>4, <1>7 DEF BuildEnd, WindowInv, TurnNeeded
<1>8. CASE UNCHANGED windowVars
    BY <1>4, <1>8 DEF windowVars, WindowInv, TurnNeeded
<1> QED
    BY <1>2, <1>3, <1>5, <1>6, <1>7, <1>8 DEF WindowNext

(***************************************************************************)
(* A request is over budget only when all history is gone, and a turn is   *)
(* dropped only when it and what follows would not fit even with every raw *)
(* result replaced by the notice (ContextWindowBuilder.build), for any     *)
(* session, costs and budgets.                                             *)
(***************************************************************************)
THEOREM DropsAreNeeded == WindowSpec => []NoNeedlessDrop
<1>1. WindowInit => WindowInv
    BY DEF WindowInit, WindowInv, TurnNeeded
<1>2. WindowInv => NoNeedlessDrop
    BY DEF WindowInv, TurnNeeded, NoNeedlessDrop
<1> QED
    BY <1>1, <1>2, WindowStep, PTL DEF WindowSpec

-----------------------------------------------------------------------------
(***************************************************************************)
(* ToolGrants.  What was granted by name and not revoked is among the      *)
(* grants that the next run adds to its allow-list, and in the allow-list  *)
(* of this one; and what a turn offers is what the allow-list leaves of    *)
(* the registry.                                                           *)
(***************************************************************************)
KeptInv ==
    /\ aKept \subseteq aGranted
    /\ aRestricted => aKept \subseteq aAllowed

OfferInv == aFresh /\ aRestricted => aOffered = Offerable \cap aAllowed

GrantInv == KeptInv /\ OfferInv

LEMMA GrantsKept ==
    ASSUME KeptInv, [GrantNext]_grantVars
    PROVE  KeptInv'
<1> USE DEF KeptInv
<1>1. CASE BeginRun
  BY <1>1 DEF BeginRun, ResolveToolsets
<1>2. CASE OfferTools
  BY <1>2 DEF OfferTools
<1>3. CASE EndRun
  BY <1>3 DEF EndRun
<1>4. ASSUME NEW choice \in PackChoices, OverrideToolset(choice)
      PROVE  KeptInv'
  BY <1>4 DEF OverrideToolset
<1>5. ASSUME NEW t \in AllTools, AddTool(t)
      PROVE  KeptInv'
  BY <1>5 DEF AddTool
<1>6. ASSUME NEW t \in AllTools, GrantTools({t})
      PROVE  KeptInv'
  BY <1>6 DEF GrantTools
<1>7. ASSUME NEW t \in AllTools, RevokeTools({t})
      PROVE  KeptInv'
  BY <1>7 DEF RevokeTools
<1>8. ASSUME NEW pack \in Packs, GrantToolset(pack)
      PROVE  KeptInv'
  BY <1>8 DEF GrantToolset
<1>9. CASE UNCHANGED grantVars
  BY <1>9 DEF grantVars
<1> QED
  BY <1>1, <1>2, <1>3, <1>4, <1>5, <1>6, <1>7, <1>8, <1>9 DEF GrantNext

LEMMA OffersFollow ==
    ASSUME OfferInv, [GrantNext]_grantVars
    PROVE  OfferInv'
<1> USE DEF OfferInv, Offerable
<1>1. CASE BeginRun
  BY <1>1 DEF BeginRun
<1>2. CASE OfferTools
  <2>1. OfPlugins({}) = aRegistered
    BY DEF OfPlugins
  <2>2. aRestricted => FilterToolSchemas(aRegistered) = Offerable \cap aAllowed
    BY DEF FilterToolSchemas
  <2> QED
    BY <1>2, <2>1, <2>2 DEF OfferTools, Configuration
<1>3. CASE EndRun
  BY <1>3 DEF EndRun, Configuration
<1>4. ASSUME NEW choice \in PackChoices, OverrideToolset(choice)
      PROVE  OfferInv'
  BY <1>4 DEF OverrideToolset, Configuration
<1>5. ASSUME NEW t \in AllTools, AddTool(t)
      PROVE  OfferInv'
  BY <1>5 DEF AddTool
<1>6. ASSUME NEW t \in AllTools, GrantTools({t})
      PROVE  OfferInv'
  BY <1>6 DEF GrantTools
<1>7. ASSUME NEW t \in AllTools, RevokeTools({t})
      PROVE  OfferInv'
  BY <1>7 DEF RevokeTools
<1>8. ASSUME NEW pack \in Packs, GrantToolset(pack)
      PROVE  OfferInv'
  BY <1>8 DEF GrantToolset
<1>9. CASE UNCHANGED grantVars
  BY <1>9 DEF grantVars
<1> QED
  BY <1>1, <1>2, <1>3, <1>4, <1>5, <1>6, <1>7, <1>8, <1>9 DEF GrantNext

(***************************************************************************)
(* A tool granted by name is offered at every turn until it is revoked, in *)
(* later runs too, whatever toolset they override, unless it is one that   *)
(* the skills keep back.  (runner/agent_runner.py:577-623)                 *)
(***************************************************************************)
THEOREM GrantsAreOffered == GrantSpec => []GrantedStaysOffered
<1>1. GrantInit => GrantInv
  BY DEF GrantInit, GrantInv, KeptInv, OfferInv
<1>2. GrantInv /\ [GrantNext]_grantVars => GrantInv'
  BY GrantsKept, OffersFollow DEF GrantInv
<1>3. GrantInv => GrantedStaysOffered
  BY DEF GrantInv, KeptInv, OfferInv, GrantedStaysOffered
<1> QED
  BY <1>1, <1>2, <1>3, PTL DEF GrantSpec

-----------------------------------------------------------------------------
(***************************************************************************)
(* SkillStore.  As long as calls follow each other and nothing stored has  *)
(* dashes, at most one process is writing; the skills it has still to      *)
(* write are used once less in the files than in memory, and it read them  *)
(* as they are there.                                                      *)
(***************************************************************************)
Skills == [name : SkillNames, trigger : Triggers \cup {"none", "cut"}, marks : Nat,
           enabled : BOOLEAN, uses : Nat]
SkillMaps == UNION {[S -> Skills] : S \in SUBSET SkillNames}
SkillSets == {skills \in SkillMaps : \A n \in DOMAIN skills : skills[n].name = n}
SearchRecords == [state : {"writing"}, read : SkillMaps, left : SUBSET SkillNames,
                  found : SUBSET SkillNames, memory : SUBSET SkillNames]
Searches == {search \in SearchRecords : search.left \subseteq DOMAIN search.read}
Prompts == [memory : SUBSET SkillNames, files : SUBSET SkillNames, cut : BOOLEAN]

SkillTypeOK ==
    /\ sMemory \in SkillSets /\ sFiles \in SkillSets
    /\ sWorker \in [Workers -> {Resting} \cup Searches]
    /\ sPrompt \in [Workers -> Prompts]
    /\ sPlainly \in BOOLEAN

Agree(skill, other) ==
    /\ skill.name = other.name /\ skill.trigger = other.trigger
    /\ skill.enabled = other.enabled /\ skill.uses = other.uses

AllAgree(skills, others) ==
    /\ DOMAIN skills = DOMAIN others
    /\ \A n \in DOMAIN skills : Agree(skills[n], others[n])

\* A skill that is read back as it was written, but for quotation marks.
Undashed(skill) == skill.name \notin DashedNames /\ skill.trigger # "dashed"

AllUndashed(skills) == \A n \in DOMAIN skills : Undashed(skills[n])

\* What the files and the memory hold while a search writes back what it found.
HalfWritten(search, files, memory) ==
    /\ DOMAIN files = DOMAIN memory /\ search.left \subseteq DOMAIN files
    /\ search.found = search.memory
    /\ \A n \in DOMAIN files :
          IF n \in search.left
          THEN Agree(search.read[n], files[n]) /\ Agree(Used(files[n]), memory[n])
          ELSE Agree(files[n], memory[n])

StoresInv ==
    /\ AllUndashed(sFiles)
    /\ (\A w \in Workers : sWorker[w] = Resting) => AllAgree(sFiles, sMemory)
    /\ \A w \in Workers :
          sWorker[w] # Resting =>
             /\ \A v \in Workers \ {w} : sWorker[v] = Resting
             /\ HalfWritten(sWorker[w], sFiles, sMemory)

SamePrompt(prompt) ==
    /\ Cardinality(prompt.files) = Cardinality(prompt.memory)
    /\ ~prompt.cut => prompt.files = prompt.memory

PromptsInv == \A w \in Workers : SamePrompt(sPrompt[w])

SkillInv == SkillTypeOK /\ (sPlainly => StoresInv /\ PromptsInv)

\* A search is not at rest, and a worker that writes is in a search.
LEMMA WritingIsSearching ==
    ASSUME SkillTypeOK, NEW w \in Workers
    PROVE  /\ sWorker[w].state = "writing" => sWorker[w] \in Searches
           /\ sWorker[w] \in Searches => sWorker[w] # Resting /\ sWorker[w].state = "writing"
           /\ sWorker[w] # Resting => sWorker[w] \in Searches
<1>1. Resting.state = "idle"
  BY DEF Resting
<1>2. \A search \in Searches : search.state = "writing"
  BY DEF Searches, SearchRecords
<1> QED
  BY <1>1, <1>2 DEF SkillTypeOK

LEMMA SkillMapsAre ==
    /\ \A skills \in SkillMaps : /\ DOMAIN skills \subseteq SkillNames
                                 /\ skills \in [DOMAIN skills -> Skills]
                                 /\ \A n \in DOMAIN skills : skills[n] \in Skills
    /\ \A S \in SUBSET SkillNames : [S -> Skills] \subseteq SkillMaps
    /\ SkillSets \subseteq SkillMaps
    /\ \A skills \in SkillSets : \A n \in DOMAIN skills : skills[n].name = n
BY DEF SkillMaps, SkillSets

LEMMA PutIs ==
    ASSUME NEW skills \in SkillSets, NEW skill \in Skills
    PROVE  /\ Put(skills, skill) \in SkillSets
           /\ DOMAIN Put(skills, skill) = DOMAIN skills \cup {skill.name}
           /\ Put(skills, skill)[skill.name] = skill
           /\ \A m \in DOMAIN skills \ {skill.name} : Put(skills, skill)[m] = skills[m]
<1>0. skill.name \in SkillNames
  BY DEF Skills
<1> DEFINE n == skill.name
<1>1. Put(skills, skill) \in [DOMAIN skills \cup {n} -> Skills]
  BY SkillMapsAre DEF Put
<1>2. /\ Put(skills, skill)[n] = skill
      /\ \A m \in DOMAIN skills \ {n} : Put(skills, skill)[m] = skills[m]
  BY DEF Put
<1>3. DOMAIN Put(skills, skill) = DOMAIN skills \cup {n}
  BY DEF Put
<1>4. Put(skills, skill) \in SkillMaps
  BY <1>0, <1>1, SkillMapsAre
<1>5. \A m \in DOMAIN Put(skills, skill) : Put(skills, skill)[m].name = m
  BY <1>2, <1>3, SkillMapsAre
<1> QED
  BY <1>2, <1>3, <1>4, <1>5 DEF SkillSets

\* The same skill put into stores that agree leaves stores that agree.
LEMMA PutAgrees ==
    ASSUME NEW files \in SkillSets, NEW memory \in SkillSets, AllAgree(files, memory),
           NEW skill \in Skills, NEW other \in Skills, Agree(skill, other)
    PROVE  AllAgree(Put(files, skill), Put(memory, other))
<1>1. PICK n \in SkillNames : n = skill.name /\ n = other.name
  BY DEF Agree, Skills
<1>2. /\ DOMAIN Put(files, skill) = DOMAIN files \cup {n} /\ Put(files, skill)[n] = skill
      /\ \A m \in DOMAIN files \ {n} : Put(files, skill)[m] = files[m]
  <2>1. /\ DOMAIN Put(files, skill) = DOMAIN files \cup {skill.name}
        /\ Put(files, skill)[skill.name] = skill
        /\ \A m \in DOMAIN files \ {skill.name} : Put(files, skill)[m] = files[m]
    BY PutIs
  <2> QED
    BY <1>1, <2>1
<1>3. /\ DOMAIN Put(memory, other) = DOMAIN memory \cup {n} /\ Put(memory, other)[n] = other
      /\ \A m \in DOMAIN memory \ {n} : Put(memory, other)[m] = memory[m]
  <2>1. /\ DOMAIN Put(memory, other) = DOMAIN memory \cup {other.name}
        /\ Put(memory, other)[other.name] = other
        /\ \A m \in DOMAIN memory \ {other.name} : Put(memory, other)[m] = memory[m]
    BY PutIs
  <2> QED
    BY <1>1, <2>1
<1>4. DOMAIN files = DOMAIN memory /\ \A m \in DOMAIN files : Agree(files[m], memory[m])
  BY DEF AllAgree
<1>5. \A m \in DOMAIN Put(files, skill) : Agree(Put(files, skill)[m], Put(memory, other)[m])
  BY <1>2, <1>3, <1>4
<1> QED
  BY <1>2, <1>3, <1>4, <1>5 DEF AllAgree

LEMMA PutUndashed ==
    ASSUME NEW skills \in SkillSets, AllUndashed(skills), NEW skill \in Skills, Undashed(skill)
    PROVE  AllUndashed(Put(skills, skill))
<1>1. /\ DOMAIN Put(skills, skill) = DOMAIN skills \cup {skill.name}
      /\ Put(skills, skill)[skill.name] = skill
      /\ \A m \in DOMAIN skills \ {skill.name} : Put(skills, skill)[m] = skills[m]
  BY PutIs
<1> QED
  BY <1>1 DEF AllUndashed

\* What the operations on one skill do to it.
LEMMA UsedIs ==
    ASSUME NEW skill \in Skills
    PROVE  /\ Used(skill) \in Skills /\ Used(skill).uses = skill.uses + 1
           /\ Used(skill).name = skill.name /\ Used(skill).trigger = skill.trigger
           /\ Used(skill).enabled = skill.enabled
BY DEF Skills, Used

LEMMA OffIs ==
    ASSUME NEW skill \in Skills
    PROVE  /\ [skill EXCEPT !.enabled = FALSE] \in Skills
           /\ [skill EXCEPT !.enabled = FALSE].name = skill.name
           /\ [skill EXCEPT !.enabled = FALSE].trigger = skill.trigger
           /\ [skill EXCEPT !.enabled = FALSE].enabled = FALSE
           /\ [skill EXCEPT !.enabled = FALSE].uses = skill.uses
BY DEF Skills

LEMMA LearnedIs ==
    ASSUME NEW n \in SkillNames, NEW trigger \in Triggers \cup {"none", "cut"}
    PROVE  /\ Learned(n, trigger) \in Skills /\ Learned(n, trigger).name = n
           /\ Learned(n, trigger).trigger = trigger
BY DEF Learned, Skills

LEMMA ParseIs ==
    ASSUME NEW skill \in Skills
    PROVE  /\ Parse(skill) \in Skills
           /\ Undashed(skill) => Agree(Parse(skill), skill)
<1>1. CASE skill.name \in DashedNames /\ skill # Torn(skill.name)
  <2>1. BeforeDashes[skill.name] \in SkillNames
    BY <1>1, SkillAssumption
  <2>2. Parse(skill) \in Skills
    BY <1>1, <2>1, LearnedIs DEF Parse
  <2> QED
    BY <1>1, <2>2 DEF Undashed
<1>2. CASE ~(skill.name \in DashedNames /\ skill # Torn(skill.name)) /\ skill.trigger = "dashed"
  <2>1. Parse(skill) = Learned(skill.name, "cut") /\ skill.name \in SkillNames
    BY <1>2 DEF Parse, Skills
  <2> QED
    BY <1>2, <2>1, LearnedIs DEF Undashed
<1>3. CASE ~(skill.name \in DashedNames /\ skill # Torn(skill.name)) /\ skill.trigger # "dashed"
  <2>1. Parse(skill) = [skill EXCEPT !.marks = IF skill.trigger = "quoted"
                                               THEN skill.marks + 1 ELSE skill.marks]
    BY <1>3 DEF Parse
  <2> QED
    BY <2>1 DEF Skills, Agree
<1> QED
  BY <1>1, <1>2, <1>3

\* A skill in memory and what a reader makes of the file are found by the same queries.
LEMMA AgreeingAreFound ==
    ASSUME NEW files \in SkillSets, NEW memory \in SkillSets, AllAgree(files, memory),
           AllUndashed(files), NEW query \in SkillQueries
    PROVE  /\ Found(Parsed(files), query) = Found(memory, query)
           /\ \A n \in DOMAIN files : Agree(Parsed(files)[n], files[n])
<1>1. \A n \in DOMAIN files : Agree(Parsed(files)[n], files[n])
  BY SkillMapsAre, ParseIs DEF Parsed, AllUndashed
<1>2. Found(Parsed(files), query) = Found(memory, query)
  BY <1>1 DEF Found, AllAgree, Agree, MatchesSkill, Parsed
<1> QED
  BY <1>1, <1>2

LEMMA ParsedIs ==
    ASSUME NEW files \in SkillSets
    PROVE  Parsed(files) \in SkillMaps /\ DOMAIN Parsed(files) = DOMAIN files
<1>1. Parsed(files) \in [DOMAIN files -> Skills]
  BY SkillMapsAre, ParseIs DEF Parsed
<1> QED
  BY <1>1, SkillMapsAre

\* A call that both stores have finished at once.
LEMMA AtOnceKeeps ==
    ASSUME SkillInv, NEW w \in Workers, NEW dashes \in BOOLEAN, SkillCall(w, dashes),
           UNCHANGED <<sWorker, sPrompt>>, sMemory' \in SkillSets, sFiles' \in SkillSets,
           ~dashes /\ AllUndashed(sFiles) => AllUndashed(sFiles'),
           ~dashes /\ AllUndashed(sFiles) /\ AllAgree(sFiles, sMemory) =>
              AllAgree(sFiles', sMemory')
    PROVE  SkillInv'
BY DEF SkillInv, SkillTypeOK, StoresInv, PromptsInv, SkillCall

LEMMA UpsertKeeps ==
    ASSUME SkillInv, NEW w \in Workers, NEW n \in SkillNames, NEW trigger \in Triggers,
           Upsert(w, n, trigger)
    PROVE  SkillInv'
<1>0. sMemory \in SkillSets /\ sFiles \in SkillSets
  BY DEF SkillInv, SkillTypeOK
<1>1. PICK skill \in Skills : /\ skill = Learned(n, trigger) /\ skill.name = n
                              /\ skill.trigger = trigger
  BY LearnedIs
<1>2. PICK dashes \in BOOLEAN : dashes = (n \in DashedNames \/ trigger = "dashed")
  OBVIOUS
<1>3. /\ SkillCall(w, dashes) /\ UNCHANGED <<sWorker, sPrompt>>
      /\ sMemory' = Put(sMemory, skill) /\ sFiles' = Put(sFiles, skill)
  BY <1>1, <1>2 DEF Upsert
<1>4. sMemory' \in SkillSets /\ sFiles' \in SkillSets
  BY <1>0, <1>3, PutIs
<1>5. ~dashes /\ AllUndashed(sFiles) => AllUndashed(sFiles')
  BY <1>0, <1>1, <1>2, <1>3, PutUndashed DEF Undashed
<1>6. AllAgree(sFiles, sMemory) => AllAgree(sFiles', sMemory')
  <2>1. Agree(skill, skill)
    BY DEF Agree
  <2> QED
    BY <1>0, <1>3, <2>1, PutAgrees
<1> QED
  BY <1>3, <1>4, <1>5, <1>6, AtOnceKeeps

LEMMA DisableKeeps ==
    ASSUME SkillInv, NEW w \in Workers, NEW n \in SkillNames, Disable(w, n)
    PROVE  SkillInv'
<1>0. sMemory \in SkillSets /\ sFiles \in SkillSets
  BY DEF SkillInv, SkillTypeOK
<1>1. SkillCall(w, FALSE) /\ UNCHANGED <<sWorker, sPrompt>>
  BY DEF Disable
<1>2. CASE n \in DOMAIN sMemory
  <2>1. PICK off \in Skills : /\ off = [sMemory[n] EXCEPT !.enabled = FALSE]
                              /\ off.name = n /\ off.trigger = sMemory[n].trigger
                              /\ off.enabled = FALSE /\ off.uses = sMemory[n].uses
    <3>1. PICK skill \in Skills : skill = sMemory[n] /\ skill.name = n
      BY <1>0, <1>2, SkillMapsAre
    <3>2. PICK off \in Skills : /\ off = [skill EXCEPT !.enabled = FALSE]
                                /\ off.name = skill.name /\ off.trigger = skill.trigger
                                /\ off.enabled = FALSE /\ off.uses = skill.uses
      BY OffIs
    <3> QED
      BY <3>1, <3>2
  <2>2. sMemory' = [sMemory EXCEPT ![n] = off]
    <3>1. sMemory' = [sMemory EXCEPT ![n] = [sMemory[n] EXCEPT !.enabled = FALSE]]
      BY <1>2 DEF Disable
    <3> QED
      BY <2>1, <3>1
  <2>3. sMemory' = Put(sMemory, off)
    <3>1. sMemory \in [DOMAIN sMemory -> Skills]
      BY <1>0, SkillMapsAre
    <3>2. sMemory' = [m \in DOMAIN sMemory |-> IF m = n THEN off ELSE sMemory[m]]
      BY <2>2, <3>1
    <3>3. Put(sMemory, off) = [m \in DOMAIN sMemory |-> IF m = n THEN off ELSE sMemory[m]]
      BY <1>2, <2>1 DEF Put
    <3> QED
      BY <3>2, <3>3
  <2>4. sMemory' \in SkillSets
    BY <1>0, <2>3, PutIs
  <2>5. CASE n \in DOMAIN sFiles
    <3>1. Parse(sFiles[n]) \in Skills
          /\ (Undashed(sFiles[n]) => Agree(Parse(sFiles[n]), sFiles[n]))
          /\ sFiles[n].name = n
      BY <1>0, <2>5, SkillMapsAre, ParseIs
    <3>2. PICK written \in Skills :
             /\ written = [Parse(sFiles[n]) EXCEPT !.enabled = FALSE]
             /\ written.name = Parse(sFiles[n]).name /\ written.enabled = FALSE
             /\ written.trigger = Parse(sFiles[n]).trigger
             /\ written.uses = Parse(sFiles[n]).uses
      BY <3>1, OffIs
    <3>3. sFiles' = Put(sFiles, written)
      BY <2>5, <3>2 DEF Disable
    <3>4. ASSUME AllUndashed(sFiles) PROVE Undashed(written)
      BY <2>5, <3>1, <3>2, <3>4 DEF AllUndashed, Undashed, Agree
    <3>5. ASSUME AllUndashed(sFiles), AllAgree(sFiles, sMemory) PROVE Agree(written, off)
      BY <1>2, <2>1, <2>5, <3>1, <3>2, <3>5 DEF AllUndashed, AllAgree, Agree
    <3>6. AllUndashed(sFiles) => AllUndashed(sFiles')
      BY <1>0, <3>3, <3>4, PutUndashed
    <3>7. AllUndashed(sFiles) /\ AllAgree(sFiles, sMemory) => AllAgree(sFiles', sMemory')
      BY <1>0, <2>3, <3>3, <3>5, PutAgrees
    <3> QED
      BY <1>0, <1>1, <2>4, <3>3, <3>6, <3>7, PutIs, AtOnceKeeps
  <2>6. CASE n \notin DOMAIN sFiles
    <3>1. sFiles' = sFiles
      BY <2>6 DEF Disable
    <3> QED
      BY <1>0, <1>1, <1>2, <2>4, <2>6, <3>1, AtOnceKeeps DEF AllAgree
  <2> QED
    BY <2>5, <2>6
<1>3. CASE n \notin DOMAIN sMemory
  <2>1. sMemory' = sMemory
    BY <1>3 DEF Disable
  <2>2. CASE n \in DOMAIN sFiles
    <3>1. Parse(sFiles[n]) \in Skills
          /\ (Undashed(sFiles[n]) => Agree(Parse(sFiles[n]), sFiles[n]))
      BY <1>0, <2>2, SkillMapsAre, ParseIs
    <3>2. PICK written \in Skills :
             /\ written = [Parse(sFiles[n]) EXCEPT !.enabled = FALSE]
             /\ written.name = Parse(sFiles[n]).name
             /\ written.trigger = Parse(sFiles[n]).trigger
      BY <3>1, OffIs
    <3>3. sFiles' = Put(sFiles, written)
      BY <2>2, <3>2 DEF Disable
    <3>4. ASSUME AllUndashed(sFiles) PROVE Undashed(written)
      BY <2>2, <3>1, <3>2, <3>4 DEF AllUndashed, Undashed, Agree
    <3>5. AllUndashed(sFiles) => AllUndashed(sFiles')
      BY <1>0, <3>3, <3>4, PutUndashed
    <3> QED
      BY <1>0, <1>1, <1>3, <2>1, <2>2, <3>3, <3>5, PutIs, AtOnceKeeps DEF AllAgree
  <2>3. CASE n \notin DOMAIN sFiles
    <3>1. sFiles' = sFiles
      BY <2>3 DEF Disable
    <3> QED
      BY <1>0, <1>1, <2>1, <3>1, AtOnceKeeps
  <2> QED
    BY <2>2, <2>3
<1> QED
  BY <1>2, <1>3

LEMMA DeleteKeeps ==
    ASSUME SkillInv, NEW w \in Workers, NEW n \in SkillNames, DeleteSkill(w, n)
    PROVE  SkillInv'
<1>0. sMemory \in SkillSets /\ sFiles \in SkillSets
  BY DEF SkillInv, SkillTypeOK
<1>1. ASSUME NEW skills \in SkillSets, NEW S \in SUBSET DOMAIN skills
      PROVE  /\ Restrict(skills, S) \in SkillSets /\ DOMAIN Restrict(skills, S) = S
             /\ \A m \in S : Restrict(skills, S)[m] = skills[m]
  <2>1. Restrict(skills, S) \in [S -> Skills]
    BY <1>1, SkillMapsAre DEF Restrict
  <2>2. \A m \in S : Restrict(skills, S)[m] = skills[m]
    BY DEF Restrict
  <2>3. Restrict(skills, S) \in SkillMaps
    BY <2>1, SkillMapsAre
  <2> QED
    BY <2>1, <2>2, <2>3, SkillMapsAre DEF SkillSets
<1>2. /\ sMemory' = Restrict(sMemory, DOMAIN sMemory \ {n})
      /\ sFiles' = Restrict(sFiles, DOMAIN sFiles \ {n})
      /\ SkillCall(w, FALSE) /\ UNCHANGED <<sWorker, sPrompt>>
  BY DEF DeleteSkill
<1>3. /\ sMemory' \in SkillSets /\ DOMAIN sMemory' = DOMAIN sMemory \ {n}
      /\ \A m \in DOMAIN sMemory \ {n} : sMemory'[m] = sMemory[m]
  BY <1>0, <1>1, <1>2
<1>4. /\ sFiles' \in SkillSets /\ DOMAIN sFiles' = DOMAIN sFiles \ {n}
      /\ \A m \in DOMAIN sFiles \ {n} : sFiles'[m] = sFiles[m]
  BY <1>0, <1>1, <1>2
<1>5. AllAgree(sFiles, sMemory) => AllAgree(sFiles', sMemory')
  BY <1>3, <1>4 DEF AllAgree
<1>6. AllUndashed(sFiles) => AllUndashed(sFiles')
  BY <1>4 DEF AllUndashed
<1> QED
  BY <1>2, <1>3, <1>4, <1>5, <1>6, AtOnceKeeps

LEMMA BeginSearchKeeps ==
    ASSUME SkillInv, NEW w \in Workers, NEW query \in SkillQueries, BeginSearch(w, query)
    PROVE  SkillInv'
<1>0. sMemory \in SkillSets /\ sFiles \in SkillSets
  BY DEF SkillInv, SkillTypeOK
<1>1. PICK read \in SkillMaps : read = Parsed(sFiles) /\ DOMAIN read = DOMAIN sFiles
  BY <1>0, ParsedIs
<1>2. PICK found \in SUBSET SkillNames :
         found = Found(read, query) /\ found \subseteq DOMAIN read
  <2>1. Found(read, query) \subseteq DOMAIN read /\ DOMAIN read \subseteq SkillNames
    BY SkillMapsAre DEF Found
  <2> QED
    BY <2>1
<1>3. PICK known \in SUBSET SkillNames :
         known = Found(sMemory, query) /\ known \subseteq DOMAIN sMemory
  <2>1. Found(sMemory, query) \subseteq DOMAIN sMemory /\ DOMAIN sMemory \subseteq SkillNames
    BY <1>0, SkillMapsAre DEF Found
  <2> QED
    BY <2>1
<1>4. PICK search \in Searches :
         /\ search = [state |-> "writing", read |-> read, left |-> found, found |-> found,
                      memory |-> known]
         /\ search.read = read /\ search.left = found /\ search.found = found
         /\ search.memory = known /\ search # Resting
  <2> DEFINE new == [state |-> "writing", read |-> read, left |-> found, found |-> found,
                     memory |-> known]
  <2>1. new \in SearchRecords /\ new.left \subseteq DOMAIN new.read
    BY <1>1, <1>2, <1>3 DEF SearchRecords
  <2>2. new \in Searches
    BY <2>1 DEF Searches
  <2>3. new.state # Resting.state
    BY DEF Resting
  <2> QED
    BY <2>2, <2>3
<1>5. /\ sFiles' = sFiles /\ sPrompt' = sPrompt /\ sWorker' = [sWorker EXCEPT ![w] = search]
      /\ sMemory' = [n \in DOMAIN sMemory |-> IF n \in known THEN Used(sMemory[n])
                                                             ELSE sMemory[n]]
  BY <1>1, <1>2, <1>3, <1>4 DEF BeginSearch
<1>6. sPlainly' \in BOOLEAN /\ sWorker[w] = Resting
      /\ (sPlainly' => sPlainly /\ \A v \in Workers : sWorker[v] = Resting)
  BY DEF BeginSearch, SkillCall, SkillInv, SkillTypeOK
<1>7. sMemory' \in SkillSets /\ DOMAIN sMemory' = DOMAIN sMemory
      /\ \A n \in DOMAIN sMemory : sMemory'[n] = IF n \in known THEN Used(sMemory[n])
                                                                ELSE sMemory[n]
  <2>1. \A n \in DOMAIN sMemory : /\ sMemory'[n] \in Skills /\ sMemory'[n].name = n
                                  /\ sMemory'[n] = IF n \in known THEN Used(sMemory[n])
                                                                  ELSE sMemory[n]
    BY <1>0, <1>5, SkillMapsAre, UsedIs
  <2>2. sMemory' \in [DOMAIN sMemory -> Skills]
    BY <1>5, <2>1
  <2>3. sMemory' \in SkillMaps
    BY <1>0, <2>2, SkillMapsAre
  <2> QED
    BY <2>1, <2>2, <2>3 DEF SkillSets
<1>8. sWorker' \in [Workers -> {Resting} \cup Searches] /\ sWorker'[w] = search
      /\ \A v \in Workers \ {w} : sWorker'[v] = sWorker[v]
  BY <1>4, <1>5 DEF SkillInv, SkillTypeOK
<1>9. SkillTypeOK'
  BY <1>0, <1>5, <1>6, <1>7, <1>8 DEF SkillTypeOK, SkillInv
<1>10. ASSUME sPlainly' PROVE HalfWritten(search, sFiles, sMemory')
  <2>1. AllAgree(sFiles, sMemory) /\ AllUndashed(sFiles)
    BY <1>6, <1>10 DEF SkillInv, StoresInv
  <2>2. found = known /\ \A n \in DOMAIN sFiles : Agree(read[n], sFiles[n])
    BY <1>0, <1>1, <1>2, <1>3, <2>1, AgreeingAreFound
  <2>3. ASSUME NEW n \in DOMAIN sFiles
        PROVE  IF n \in found
               THEN Agree(read[n], sFiles[n]) /\ Agree(Used(sFiles[n]), sMemory'[n])
               ELSE Agree(sFiles[n], sMemory'[n])
    <3>1. n \in DOMAIN sMemory /\ Agree(sFiles[n], sMemory[n])
      BY <2>1 DEF AllAgree
    <3>2. sFiles[n] \in Skills /\ sMemory[n] \in Skills
      BY <1>0, <3>1, SkillMapsAre
    <3>3. Agree(Used(sFiles[n]), Used(sMemory[n]))
      BY <3>1, <3>2, UsedIs DEF Agree
    <3> QED
      BY <1>7, <2>2, <3>1, <3>3
  <2> QED
    BY <1>1, <1>2, <1>4, <1>7, <2>1, <2>2, <2>3 DEF HalfWritten, AllAgree
<1>11. ASSUME sPlainly' PROVE StoresInv' /\ PromptsInv'
  <2>1. AllUndashed(sFiles) /\ PromptsInv
    BY <1>6, <1>11 DEF SkillInv, StoresInv
  <2> QED
    BY <1>4, <1>5, <1>6, <1>8, <1>10, <1>11, <2>1 DEF StoresInv, PromptsInv
<1> QED
  BY <1>9, <1>11 DEF SkillInv

LEMMA WriteBackKeeps ==
    ASSUME SkillInv, NEW w \in Workers, NEW n \in SkillNames, WriteBack(w, n)
    PROVE  SkillInv'
<1>0. sMemory \in SkillSets /\ sFiles \in SkillSets
  BY DEF SkillInv, SkillTypeOK
<1>1. PICK search \in Searches : search = sWorker[w] /\ search # Resting
  BY WritingIsSearching DEF WriteBack, SkillInv
<1>2. n \in search.left /\ search.read[n] \in Skills
  BY <1>1, SkillMapsAre DEF Searches, SearchRecords, WriteBack
<1>3. PICK used \in Skills : /\ used = Used(search.read[n])
                             /\ used.name = search.read[n].name
                             /\ used.trigger = search.read[n].trigger
                             /\ used.enabled = search.read[n].enabled
                             /\ used.uses = search.read[n].uses + 1
  BY <1>2, UsedIs
<1>4. PICK next \in Searches : /\ next = [search EXCEPT !.left = search.left \ {n}]
                               /\ next.left = search.left \ {n} /\ next.read = search.read
                               /\ next.found = search.found /\ next.memory = search.memory
                               /\ next # Resting
  <2> DEFINE new == [search EXCEPT !.left = search.left \ {n}]
  <2>1. /\ new \in SearchRecords /\ new.left = search.left \ {n} /\ new.read = search.read
        /\ new.found = search.found /\ new.memory = search.memory /\ new.state = "writing"
    BY <1>1 DEF Searches, SearchRecords
  <2> HIDE DEF new
  <2>2. new \in Searches
    BY <2>1 DEF Searches
  <2>3. new # Resting
    BY <2>1 DEF Resting
  <2> QED
    BY <2>1, <2>2, <2>3 DEF new
<1>5. /\ sFiles' = Put(sFiles, used) /\ sWorker' = [sWorker EXCEPT ![w] = next]
      /\ UNCHANGED <<sMemory, sPrompt, sPlainly>>
  BY <1>1, <1>3, <1>4 DEF WriteBack
<1>6. sFiles' \in SkillSets
  BY <1>0, <1>5, PutIs
<1>7. sWorker' \in [Workers -> {Resting} \cup Searches] /\ sWorker'[w] = next
      /\ \A v \in Workers \ {w} : sWorker'[v] = sWorker[v]
  BY <1>4, <1>5 DEF SkillInv, SkillTypeOK
<1>8. SkillTypeOK'
  BY <1>0, <1>5, <1>6, <1>7 DEF SkillTypeOK, SkillInv
<1>9. ASSUME sPlainly PROVE HalfWritten(next, sFiles', sMemory) /\ AllUndashed(sFiles')
  <2>1. HalfWritten(search, sFiles, sMemory) /\ AllUndashed(sFiles)
    BY <1>1, <1>9 DEF SkillInv, StoresInv
  <2>2. n \in DOMAIN sFiles /\ Agree(search.read[n], sFiles[n])
        /\ Agree(Used(sFiles[n]), sMemory[n])
    BY <1>2, <2>1 DEF HalfWritten
  <2>3. sFiles[n] \in Skills /\ sFiles[n].name = n
    BY <1>0, <2>2, SkillMapsAre
  <2>4. used.name = n /\ Agree(used, sMemory[n]) /\ Undashed(used)
    BY <1>3, <2>1, <2>2, <2>3, UsedIs DEF Agree, AllUndashed, Undashed
  <2>5. /\ DOMAIN sFiles' = DOMAIN sFiles /\ sFiles'[n] = used
        /\ \A m \in DOMAIN sFiles \ {n} : sFiles'[m] = sFiles[m]
    BY <1>0, <1>5, <2>2, <2>4, PutIs
  <2>6. ASSUME NEW m \in DOMAIN sFiles \ {n}
        PROVE  IF m \in next.left
               THEN Agree(next.read[m], sFiles'[m]) /\ Agree(Used(sFiles'[m]), sMemory[m])
               ELSE Agree(sFiles'[m], sMemory[m])
    BY <1>4, <2>1, <2>5 DEF HalfWritten
  <2>7. AllUndashed(sFiles')
    BY <1>0, <1>5, <2>1, <2>4, PutUndashed
  <2> QED
    BY <1>4, <2>1, <2>4, <2>5, <2>6, <2>7 DEF HalfWritten
<1>10. ASSUME sPlainly PROVE StoresInv' /\ PromptsInv'
  <2>1. PromptsInv /\ \A v \in Workers \ {w} : sWorker[v] = Resting
    BY <1>1, <1>10 DEF SkillInv, StoresInv
  <2> QED
    BY <1>4, <1>5, <1>7, <1>9, <1>10, <2>1 DEF StoresInv, PromptsInv
<1> QED
  BY <1>5, <1>8, <1>10 DEF SkillInv

LEMMA SearchReturnsKeeps ==
    ASSUME SkillInv, NEW w \in Workers, SearchReturns(w)
    PROVE  SkillInv'
<1>1. PICK search \in Searches : search = sWorker[w] /\ search # Resting /\ search.left = {}
  BY WritingIsSearching DEF SearchReturns, SkillInv
<1>2. search.memory \in SUBSET SkillNames /\ search.found \in SUBSET SkillNames
  BY DEF Searches, SearchRecords
<1>3. PICK inMemory \in FirstOf(search.memory), inFiles \in FirstOf(search.found) :
         sPrompt' = [sPrompt EXCEPT ![w] = [memory |-> inMemory, files |-> inFiles,
                                            cut |-> inFiles # search.found]]
  BY <1>1 DEF SearchReturns
<1>4. PICK prompt \in Prompts :
         /\ prompt = [memory |-> inMemory, files |-> inFiles,
                      cut |-> inFiles # search.found]
         /\ prompt.memory = inMemory /\ prompt.files = inFiles
         /\ prompt.cut = (inFiles # search.found)
  <2>1. inMemory \in SUBSET SkillNames /\ inFiles \in SUBSET SkillNames
    BY <1>2 DEF FirstOf
  <2>2. (inFiles # search.found) \in BOOLEAN
    OBVIOUS
  <2>3. [memory |-> inMemory, files |-> inFiles, cut |-> inFiles # search.found] \in Prompts
    BY <2>1, <2>2 DEF Prompts
  <2> QED
    BY <2>3
<1>5. /\ sPrompt' \in [Workers -> Prompts] /\ sPrompt'[w] = prompt
      /\ \A v \in Workers \ {w} : sPrompt'[v] = sPrompt[v]
  BY <1>3, <1>4 DEF SkillInv, SkillTypeOK
<1>6. /\ sWorker' \in [Workers -> {Resting} \cup Searches] /\ sWorker'[w] = Resting
      /\ \A v \in Workers \ {w} : sWorker'[v] = sWorker[v]
      /\ UNCHANGED <<sMemory, sFiles, sPlainly>>
  BY DEF SearchReturns, SkillInv, SkillTypeOK
<1>7. SkillTypeOK'
  BY <1>5, <1>6 DEF SkillInv, SkillTypeOK
<1>8. ASSUME sPlainly PROVE StoresInv' /\ PromptsInv'
  <2>1. HalfWritten(search, sFiles, sMemory) /\ \A v \in Workers \ {w} : sWorker[v] = Resting
    BY <1>1, <1>8 DEF SkillInv, StoresInv
  <2>2. AllAgree(sFiles, sMemory) /\ search.memory = search.found
    BY <1>1, <2>1 DEF HalfWritten, AllAgree
  <2>3. SamePrompt(prompt)
    <3>1. CASE Cardinality(search.found) <= RetrievalK
      <4>1. inMemory = search.found /\ inFiles = search.found
        BY <2>2, <3>1 DEF FirstOf
      <4> QED
        BY <1>4, <4>1 DEF SamePrompt
    <3>2. CASE ~(Cardinality(search.found) <= RetrievalK)
      <4>1. Cardinality(inMemory) = RetrievalK /\ Cardinality(inFiles) = RetrievalK
        BY <2>2, <3>2 DEF FirstOf
      <4>2. inFiles # search.found
        BY <3>2, <4>1, SkillAssumption
      <4> QED
        BY <1>4, <4>1, <4>2 DEF SamePrompt
    <3> QED
      BY <3>1, <3>2
  <2>4. PromptsInv'
    BY <1>5, <1>8, <2>3 DEF SkillInv, PromptsInv
  <2> QED
    BY <1>6, <1>8, <2>1, <2>2, <2>4 DEF SkillInv, StoresInv
<1> QED
  BY <1>6, <1>7, <1>8 DEF SkillInv

LEMMA SkillStep ==
    ASSUME SkillInv, [SkillNext]_skillVars
    PROVE  SkillInv'
<1>1. ASSUME NEW w \in Workers, NEW n \in SkillNames, DieWriting(w, n)
      PROVE  SkillInv'
  <2>1. Torn(n) \in Skills
    BY LearnedIs DEF Torn
  <2>2. Put(sFiles, Torn(n)) \in SkillSets
    BY <2>1, PutIs DEF SkillInv, SkillTypeOK
  <2> QED
    BY <1>1, <2>2 DEF DieWriting, SkillInv, SkillTypeOK
<1>2. CASE UNCHANGED skillVars
  BY <1>2 DEF skillVars, SkillInv, SkillTypeOK, StoresInv, PromptsInv
<1> QED
  BY <1>1, <1>2, UpsertKeeps, DisableKeeps, DeleteKeeps, BeginSearchKeeps, WriteBackKeeps,
     SearchReturnsKeeps DEF SkillNext

(***************************************************************************)
(* The calls of one process after another leave both stores with the same  *)
(* skills, switched on or off and used as often, and put the same ones     *)
(* into a prompt that has room for them: for any number of processes,      *)
(* calls and places in the prompt, and any names and triggers without      *)
(* three dashes in a row.  (skills/store.py, InMemorySkillStore and        *)
(* FileSkillStore)                                                         *)
(***************************************************************************)
THEOREM SerialStoresAgree == SkillSpec => []StoresAgree
<1>1. SkillInit => SkillInv
  <2> SUFFICES ASSUME SkillInit
               PROVE  SkillInv
    OBVIOUS
  <2>1. NoSkills \in [{} -> Skills] /\ DOMAIN NoSkills = {}
    BY DEF NoSkills
  <2>2. NoSkills \in SkillSets
    BY <2>1, SkillMapsAre DEF SkillSets
  <2>3. NoPrompt \in Prompts /\ SamePrompt(NoPrompt)
    BY DEF NoPrompt, Prompts, SamePrompt
  <2> QED
    BY <2>1, <2>2, <2>3 DEF SkillInit, SkillInv, SkillTypeOK, StoresInv, PromptsInv,
                            AllAgree, AllUndashed
<1>2. SkillInv /\ [SkillNext]_skillVars => SkillInv'
  BY SkillStep
<1>3. SkillInv => StoresAgree
  BY DEF SkillInv, StoresInv, PromptsInv, SamePrompt, StoresAgree, AllAgree, Agree, SkillAnswer
<1> QED
  BY <1>1, <1>2, <1>3, PTL DEF SkillSpec

-----------------------------------------------------------------------------
(***************************************************************************)
(* Curation.  What was saved is in the store it is saved to, and a load    *)
(* that did not fail has brought what the stores to be injected held.  In  *)
(* a session that is never folded and alone, the number of a turn is its   *)
(* place, so the curator's last turn tells what it has seen.               *)
(***************************************************************************)
CurStores == {"default", "pending", "first", "second"}
CurConfigs == [each : BOOLEAN, interval : Intervals, end : BOOLEAN, approval : BOOLEAN,
               stores : Layouts]
CurRunRecords == [state : {"turn", "hook", "ending", "ended", "not curated"},
                  session : CurSessions, index : Nat,
                  status : {"running", "paused", "interrupted", "completed"}]

CurTypeOK ==
    /\ uConfig \in {NotConfigured} \cup CurConfigs
    /\ uRun \in {NotRunning} \cup CurRunRecords
    /\ uTurns \in [CurSessions -> Seq(Nat)]
    /\ uStored \in [CurStores -> SUBSET Nat]
    /\ uLast \in Nat \cup {NeverCurated}
    /\ uTold \in Nat
    /\ uConfig = NotConfigured => uRun = NotRunning /\ uSaved = {}

StoredInv ==
    /\ uConfig # NotConfigured => uSaved \subseteq uStored[PersistStoreName]
    /\ uRun # NotRunning /\ uLoaded => uMemory = Prefetch(uStored)

\* The numbers of a run: its next turn is the one after those stored.
Numbered(run, past) ==
    /\ run.state = "turn" => run.index = Len(past)
    /\ run.state = "hook" =>
          /\ run.index + 1 = Len(past)
          /\ uLast = run.index => Last(past) \in uShown
    /\ run.state = "ending" =>
          /\ run.index <= Len(past)
          /\ run.status = "completed" =>
                /\ run.index = Len(past) /\ run.index > 0
                /\ uLast = run.index - 1 => Last(past) \in uShown
    /\ run.state = "ended" /\ run.status = "completed" /\ uConfig.end =>
          Last(past) \in uShown

StraightInv ==
    uStraight =>
        /\ \A r, s \in CurSessions : uTurns[r] # <<>> /\ uTurns[s] # <<>> => r = s
        /\ uLast # NeverCurated => \E s \in CurSessions : uLast < Len(uTurns[s])
        /\ uRun # NotRunning =>
              /\ \A r \in CurSessions \ {uRun.session} : uTurns[r] = <<>>
              /\ Numbered(uRun, uTurns[uRun.session])

CurInv == CurTypeOK /\ StoredInv /\ StraightInv

\* The session of a run, and that a run is none.
LEMMA RunsAre ==
    ASSUME CurTypeOK
    PROVE  /\ uRun # NotRunning <=> uRun \in CurRunRecords
           /\ uRun.state \in {"turn", "hook", "ending", "ended", "not curated"} =>
                 uRun \in CurRunRecords
           /\ uRun # NotRunning => uConfig \in CurConfigs /\ uTurns[uRun.session] \in Seq(Nat)
<1>1. NotRunning.state = "idle"
  BY DEF NotRunning
<1>2. NotRunning \notin CurRunRecords
  BY <1>1 DEF CurRunRecords
<1> QED
  BY <1>1, <1>2 DEF CurTypeOK, CurRunRecords

LEMMA StoreNamed ==
    ASSUME uConfig \in CurConfigs
    PROVE  /\ PersistStoreName \in CurStores
           /\ \A stored \in [CurStores -> SUBSET Nat] :
                 /\ ~uConfig.approval
                 /\ uConfig.stores # <<>> => uConfig.stores[1].inject = "always"
                 => stored[PersistStoreName] \subseteq Prefetch(stored)
<1>1. uConfig.stores \in Layouts /\ uConfig.approval \in BOOLEAN
  BY DEF CurConfigs
<1>2. uConfig.stores # <<>> => /\ uConfig.stores[1].name \in CurStores
                               /\ uConfig.stores[1] \in ToSet(uConfig.stores)
  BY <1>1 DEF Layouts, CurStores, ToSet
<1>3. PersistStoreName \in CurStores
  BY <1>1, <1>2 DEF PersistStoreName, CurStores
<1>4. ASSUME NEW stored \in [CurStores -> SUBSET Nat], ~uConfig.approval,
             uConfig.stores # <<>> => uConfig.stores[1].inject = "always"
      PROVE  stored[PersistStoreName] \subseteq Prefetch(stored)
  <2>1. CASE uConfig.stores = <<>>
    BY <1>4, <2>1 DEF PersistStoreName, Prefetch
  <2>2. CASE uConfig.stores # <<>>
    <3>1. PersistStoreName = uConfig.stores[1].name
      BY <1>4, <2>2 DEF PersistStoreName
    <3>2. uConfig.stores[1] \in {x \in ToSet(uConfig.stores) : x.inject = "always"}
      BY <1>2, <1>4, <2>2
    <3> QED
      BY <2>2, <3>1, <3>2 DEF Prefetch
  <2> QED
    BY <2>1, <2>2
<1> QED
  BY <1>3, <1>4

\* A curation that is answered shows the last turn and saves to the store it should.
LEMMA CurationKeeps ==
    ASSUME CurTypeOK, StoredInv, uRun # NotRunning, uConfig' = uConfig,
           NEW past \in Seq(Nat), NEW index \in Nat, NEW atEnd \in BOOLEAN,
           NEW ok \in BOOLEAN, MaybeCurate(past, index, atEnd, ok)
    PROVE  /\ uLast' \in Nat \cup {NeverCurated} /\ uStored' \in [CurStores -> SUBSET Nat]
           /\ uSaved' \subseteq uStored'[PersistStoreName]
           /\ uLoaded' => uMemory' = Prefetch(uStored')
           /\ uShown \subseteq uShown'
           /\ uLast' = uLast \/ (uLast' = index /\ past # <<>> /\ Last(past) \in uShown')
           /\ ShouldTrigger(index, atEnd) /\ ok /\ past # <<>> => Last(past) \in uShown'
<1>1. Digest(past) \subseteq Nat
  BY DEF Digest
<1>2. past # <<>> => Last(past) \in Digest(past)
  <2> SUFFICES ASSUME past # <<>>
               PROVE  Last(past) \in Digest(past)
    OBVIOUS
  <2>1. Len(past) \in Nat /\ Len(past) > 0 /\ Len(past) \in DOMAIN past
    BY EmptySeq
  <2>2. DigestTurns \in Nat /\ DigestTurns > 0
    BY CurationAssumption
  <2> QED
    BY <2>1, <2>2 DEF Last, Digest
<1>3. uConfig \in CurConfigs /\ PersistStoreName \in CurStores
  BY RunsAre, StoreNamed
<1>4. uStored \in [CurStores -> SUBSET Nat] /\ uLast \in Nat \cup {NeverCurated}
      /\ uSaved \subseteq uStored[PersistStoreName]
  BY RunsAre, <1>3 DEF CurTypeOK, StoredInv
<1>5. CASE ~ShouldTrigger(index, atEnd)
  BY <1>4, <1>5 DEF MaybeCurate, NoCuration, StoredInv
<1>6. CASE ShouldTrigger(index, atEnd)
  <2>1. uLoaded' => uMemory' = Prefetch(uStored')
    BY <1>6 DEF MaybeCurate, LoadUserMemory
  <2>2. CASE ok /\ past # <<>>
    <3>1. uLast' = index /\ uShown' = uShown \cup Digest(past) /\ PersistEntities(past)
      BY <1>6, <2>2 DEF MaybeCurate, Curate
    <3>2. uStored' \in [CurStores -> SUBSET Nat] /\ uSaved' \subseteq uStored'[PersistStoreName]
      BY <1>1, <1>3, <1>4, <3>1 DEF PersistEntities
    <3> QED
      BY <1>2, <2>1, <2>2, <3>1, <3>2
  <2>3. CASE ~(ok /\ past # <<>>)
    BY <1>4, <1>6, <2>1, <2>3 DEF MaybeCurate, Curate
  <2> QED
    BY <2>2, <2>3
<1> QED
  BY <1>5, <1>6

LEMMA CurationStep ==
    ASSUME CurInv, [CurationNext]_curationVars
    PROVE  CurInv'
<1> USE DEF CurInv
<1>1. CASE ConfigureMemory
  <2>1. uConfig' \in CurConfigs /\ uSaved' = {} /\ uRun' = NotRunning
    BY <1>1 DEF ConfigureMemory, CurConfigs, CurTypeOK
  <2> QED
    BY <1>1, <2>1 DEF ConfigureMemory, CurTypeOK, StoredInv, StraightInv
<1>2. ASSUME NEW s \in CurSessions, StartRun(s)
      PROVE  CurInv'
  <2> DEFINE run == [state |-> "turn", session |-> s, index |-> Len(uTurns[s]),
                     status |-> "running"]
  <2>1. uRun' = run /\ run \in CurRunRecords /\ run.session = s /\ run.state = "turn"
        /\ run.index = Len(uTurns[s])
    BY <1>2 DEF StartRun, CurRunRecords, CurTypeOK
  <2> HIDE DEF run
  <2>2. CurTypeOK'
    BY <1>2, <2>1 DEF StartRun, CurTypeOK
  <2>3. StoredInv'
    BY <1>2 DEF StartRun, StoredInv, LoadUserMemory, PersistStoreName, Prefetch
  <2>4. StraightInv'
    BY <1>2, <2>1 DEF StartRun, StraightInv, Numbered
  <2> QED
    BY <2>2, <2>3, <2>4
<1>3. ASSUME NEW s \in CurSessions, FoldTurn(s)
      PROVE  CurInv'
  <2>1. uTurns[s] \in Seq(Nat) /\ uTurns[s] # <<>>
    BY <1>3, EmptySeq DEF FoldTurn, CurTypeOK
  <2>2. Tail(uTurns[s]) \in Seq(Nat)
    BY <2>1
  <2> QED
    BY <1>3, <2>2 DEF FoldTurn, CurTypeOK, StoredInv, StraightInv, PersistStoreName, Prefetch
<1>4. CASE TakeTurn
  <2> DEFINE s == uRun.session
             before == uTurns[s]
             past == Append(before, uTold + 1)
  <2>1. uRun \in CurRunRecords /\ uRun # NotRunning /\ uRun.state = "turn" /\ s \in CurSessions
        /\ uRun.index \in Nat /\ uConfig \in CurConfigs /\ uConfig' = uConfig
        /\ uStraight' = uStraight /\ uTold' = uTold + 1 /\ uTold \in Nat
    BY <1>4, RunsAre DEF TakeTurn, CurRunRecords, CurTypeOK
  <2>2. before \in Seq(Nat) /\ past \in Seq(Nat) /\ Len(past) = Len(before) + 1
        /\ past # <<>> /\ Len(before) \in Nat
    <3>1. before \in Seq(Nat) /\ uTold + 1 \in Nat
      BY <2>1 DEF CurTypeOK
    <3> HIDE DEF before
    <3>2. past \in Seq(Nat) /\ Len(past) = Len(before) + 1 /\ Len(before) \in Nat
      BY <3>1
    <3> HIDE DEF past
    <3> QED
      BY <3>1, <3>2, EmptySeq
  <2>3. uTurns' = [uTurns EXCEPT ![s] = past]
    BY <1>4 DEF TakeTurn
  <2> HIDE DEF past, before
  <2>4. uTurns' \in [CurSessions -> Seq(Nat)] /\ uTurns'[s] = past
        /\ \A r \in CurSessions \ {s} : uTurns'[r] = uTurns[r]
    BY <2>1, <2>2, <2>3 DEF CurTypeOK
  <2>5. uStraight => \A r \in CurSessions \ {s} : uTurns'[r] = <<>>
    BY <2>1, <2>4 DEF StraightInv
  <2>6. uStraight => uRun.index = Len(before)
                     /\ (uLast # NeverCurated => uLast < Len(before))
    <3> SUFFICES ASSUME uStraight
                 PROVE  uRun.index = Len(before)
                        /\ (uLast # NeverCurated => uLast < Len(before))
      OBVIOUS
    <3>1. uRun.index = Len(before)
      BY <2>1 DEF StraightInv, Numbered, before
    <3>2. ASSUME uLast # NeverCurated
          PROVE  uLast < Len(before)
      <4>1. PICK t \in CurSessions : uLast < Len(uTurns[t])
        BY <3>2 DEF StraightInv
      <4>2. CASE t = s
        BY <4>1, <4>2 DEF before
      <4>3. CASE t # s
        <5>1. uTurns[t] = <<>>
          BY <2>1, <4>3 DEF StraightInv
        <5>2. uLast \in Nat /\ Len(uTurns[t]) = 0
          BY <3>2, <5>1, EmptySeq DEF CurTypeOK
        <5> QED
          BY <4>1, <5>2
      <4> QED
        BY <4>2, <4>3
    <3> QED
      BY <3>1, <3>2
  <2>7. CASE uRun' = [uRun EXCEPT !.state = "ending", !.status = "paused"] /\ NoCuration
    <3>1. uRun' \in CurRunRecords /\ uRun'.session = s /\ uRun'.state = "ending"
          /\ uRun'.status = "paused" /\ uRun'.index = uRun.index
      BY <2>1, <2>7 DEF CurRunRecords
    <3>2. CurTypeOK'
      BY <2>1, <2>4, <2>7, <3>1 DEF CurTypeOK, NoCuration
    <3>3. StoredInv'
      BY <2>1, <2>7 DEF StoredInv, NoCuration, PersistStoreName, Prefetch
    <3>4. StraightInv'
      BY <2>1, <2>2, <2>4, <2>5, <2>6, <2>7, <3>1
         DEF StraightInv, NoCuration, Numbered, CurTypeOK
    <3> QED
      BY <3>2, <3>3, <3>4
  <2>8. ASSUME uRun' = [uRun EXCEPT !.state = "hook"],
               NEW ok \in BOOLEAN, MaybeCurate(past, uRun.index, FALSE, ok)
        PROVE  CurInv'
    <3>1. uRun' \in CurRunRecords /\ uRun'.session = s /\ uRun'.state = "hook"
          /\ uRun'.index = uRun.index
      BY <2>1, <2>8 DEF CurRunRecords
    <3>2. /\ uLast' \in Nat \cup {NeverCurated} /\ uStored' \in [CurStores -> SUBSET Nat]
          /\ uSaved' \subseteq uStored'[PersistStoreName]
          /\ uLoaded' => uMemory' = Prefetch(uStored')
          /\ uLast' = uLast \/ (uLast' = uRun.index /\ Last(past) \in uShown')
      BY <2>1, <2>2, <2>8, CurationKeeps
    <3>3. CurTypeOK'
      BY <2>1, <2>4, <3>1, <3>2, RunsAre DEF CurTypeOK
    <3>4. StoredInv'
      BY <2>1, <3>2 DEF StoredInv, PersistStoreName, Prefetch
    <3>5. StraightInv'
      <4> SUFFICES ASSUME uStraight
                   PROVE  StraightInv'
        BY <2>1 DEF StraightInv
      <4>1. uLast' # NeverCurated => uLast' < Len(uTurns'[s])
        BY <2>1, <2>2, <2>4, <2>6, <3>2 DEF CurTypeOK
      <4>2. uLast' = uRun'.index => Last(past) \in uShown'
        BY <2>1, <2>2, <2>6, <3>1, <3>2 DEF CurTypeOK, NeverCurated
      <4>3. Numbered(uRun, uTurns[s])'
        BY <2>1, <2>2, <2>4, <2>6, <3>1, <4>2 DEF Numbered
      <4> QED
        BY <2>1, <2>5, <3>1, <4>1, <4>3 DEF StraightInv
    <3> QED
      BY <3>3, <3>4, <3>5
  <2> QED
    BY <1>4, <2>7, <2>8 DEF TakeTurn, past, before
<1>5. CASE LeaveTurn
  <2>1. uRun \in CurRunRecords /\ uRun # NotRunning /\ uRun.state = "hook"
        /\ uTurns[uRun.session] \in Seq(Nat) /\ uRun.index \in Nat /\ uRun.index + 1 \in Nat
    <3>1. uRun \in CurRunRecords /\ uRun # NotRunning /\ uRun.state = "hook"
          /\ uTurns[uRun.session] \in Seq(Nat)
      BY <1>5, RunsAre DEF LeaveTurn
    <3>2. uRun.index \in Nat
      BY <3>1 DEF CurRunRecords
    <3> QED
      BY <3>1, <3>2
  <2>2. /\ uRun' \in CurRunRecords /\ uRun'.session = uRun.session
        /\ \/ /\ uRun'.state = "ending" /\ uRun'.index = uRun.index
              /\ uRun'.status \in {"interrupted", "paused"}
           \/ uRun'.state = "turn" /\ uRun'.index = uRun.index + 1
           \/ /\ uRun'.state = "ending" /\ uRun'.index = uRun.index + 1
              /\ uRun'.status = "completed"
    <3>1. CASE \E status \in {"interrupted", "paused"} :
                  uRun' = [uRun EXCEPT !.state = "ending", !.status = status]
      BY <2>1, <3>1 DEF CurRunRecords
    <3>2. ASSUME NEW index \in Nat, uRun' = [uRun EXCEPT !.state = "turn", !.index = index]
          PROVE  uRun' \in CurRunRecords /\ uRun'.session = uRun.session
                 /\ uRun'.state = "turn" /\ uRun'.index = index
      BY <2>1, <3>2 DEF CurRunRecords
    <3>3. ASSUME NEW index \in Nat,
                 uRun' = [uRun EXCEPT !.state = "ending", !.index = index, !.status = "completed"]
          PROVE  uRun' \in CurRunRecords /\ uRun'.session = uRun.session
                 /\ uRun'.state = "ending" /\ uRun'.index = index
                 /\ uRun'.status = "completed"
      BY <2>1, <3>3 DEF CurRunRecords
    <3>4. \/ \E status \in {"interrupted", "paused"} :
                uRun' = [uRun EXCEPT !.state = "ending", !.status = status]
          \/ uRun' = [uRun EXCEPT !.state = "turn", !.index = uRun.index + 1]
          \/ uRun' = [uRun EXCEPT !.state = "ending", !.index = uRun.index + 1,
                                  !.status = "completed"]
      BY <1>5 DEF LeaveTurn
    <3> QED
      BY <2>1, <3>1, <3>2, <3>3, <3>4
  <2>3. uRun.index \in Nat /\ Len(uTurns[uRun.session]) \in Nat
    BY <2>1
  <2>4. CurTypeOK' /\ StoredInv'
    BY <1>5, <2>1, <2>2, RunsAre DEF LeaveTurn, CurTypeOK, StoredInv, PersistStoreName, Prefetch
  <2>5. StraightInv'
    <3> SUFFICES ASSUME uStraight
                 PROVE  StraightInv'
      BY <1>5 DEF LeaveTurn, StraightInv
    <3>1. UNCHANGED <<uTurns, uLast, uShown, uStraight, uConfig>>
      BY <1>5 DEF LeaveTurn
    <3>2. Numbered(uRun, uTurns[uRun.session])
      BY <2>1 DEF StraightInv
    <3>3. Numbered(uRun, uTurns[uRun.session])'
      BY <2>1, <2>2, <2>3, <3>1, <3>2 DEF Numbered
    <3> QED
      BY <2>1, <2>2, <3>1, <3>3 DEF StraightInv
  <2> QED
    BY <2>4, <2>5
<1>6. CASE FailTurn \/ ReturnResult
  <2>1. /\ uRun' = NotRunning
        /\ UNCHANGED <<uConfig, uTurns, uLast, uStored, uMemory, uLoaded, uShown, uSaved,
                       uTold, uRuns, uStraight>>
    BY <1>6 DEF FailTurn, ReturnResult
  <2>2. CurTypeOK'
    BY <2>1 DEF CurTypeOK
  <2>3. StoredInv'
    BY <2>1 DEF StoredInv, PersistStoreName
  <2>4. StraightInv'
    BY <2>1 DEF StraightInv
  <2> QED
    BY <2>2, <2>3, <2>4
<1>7. CASE CancelRun
  <2>1. uRun \in CurRunRecords /\ uRun # NotRunning /\ uRun.state = "turn"
        /\ uTurns[uRun.session] \in Seq(Nat)
    BY <1>7, RunsAre DEF CancelRun
  <2>2. uRun' \in CurRunRecords /\ uRun'.session = uRun.session /\ uRun'.state = "ending"
        /\ uRun'.index = uRun.index /\ uRun'.status = "interrupted"
    BY <1>7, <2>1 DEF CancelRun, CurRunRecords
  <2>3. CurTypeOK' /\ StoredInv'
    BY <1>7, <2>1, <2>2, RunsAre DEF CancelRun, CurTypeOK, StoredInv, PersistStoreName, Prefetch
  <2>4. UNCHANGED <<uTurns, uLast, uShown, uStraight, uConfig>>
    BY <1>7 DEF CancelRun
  <2>5. uStraight => Numbered(uRun, uTurns[uRun.session])'
    <3>1. uStraight => uRun.index = Len(uTurns[uRun.session])
      BY <2>1 DEF StraightInv, Numbered
    <3>2. Len(uTurns[uRun.session]) \in Nat
      BY <2>1
    <3> QED
      BY <2>2, <2>4, <3>1, <3>2 DEF Numbered
  <2>6. StraightInv'
    BY <2>1, <2>2, <2>4, <2>5 DEF StraightInv
  <2> QED
    BY <2>3, <2>6
<1>8. CASE EndOfRun
  <2> DEFINE s == uRun.session
             past == uTurns[s]
  <2>1. uRun \in CurRunRecords /\ uRun # NotRunning /\ uRun.state = "ending"
        /\ s \in CurSessions /\ past \in Seq(Nat) /\ uRun.index \in Nat /\ Len(past) \in Nat
    <3>1. uRun \in CurRunRecords /\ uRun # NotRunning /\ uRun.state = "ending"
          /\ past \in Seq(Nat)
      BY <1>8, RunsAre DEF EndOfRun
    <3>2. s \in CurSessions /\ uRun.index \in Nat
      BY <3>1 DEF CurRunRecords
    <3> HIDE DEF past, s
    <3>3. Len(past) \in Nat
      BY <3>1
    <3> QED
      BY <3>1, <3>2, <3>3
  <2>2. PICK ok \in BOOLEAN : /\ MaybeCurate(past, FinalIndex, TRUE, ok)
                              /\ uRun' = [uRun EXCEPT !.state = IF ok THEN "ended" ELSE "not curated"]
    BY <1>8 DEF EndOfRun
  <2>3. UNCHANGED <<uConfig, uTurns, uTold, uStraight>>
    BY <1>8 DEF EndOfRun
  <2>4. uRun' \in CurRunRecords /\ uRun'.session = s /\ uRun'.index = uRun.index
        /\ uRun'.status = uRun.status
        /\ uRun'.state = IF ok THEN "ended" ELSE "not curated"
    BY <2>1, <2>2 DEF CurRunRecords
  <2>5. FinalIndex \in Nat /\ FinalIndex <= uRun.index
        /\ (uRun.index > 0 => FinalIndex = uRun.index - 1)
        /\ (uRun.index = 0 => FinalIndex = 0)
    BY <2>1 DEF FinalIndex
  <2>6. /\ uLast' \in Nat \cup {NeverCurated} /\ uStored' \in [CurStores -> SUBSET Nat]
        /\ uSaved' \subseteq uStored'[PersistStoreName]
        /\ uLoaded' => uMemory' = Prefetch(uStored')
        /\ uShown \subseteq uShown'
        /\ uLast' = uLast \/ (uLast' = FinalIndex /\ past # <<>> /\ Last(past) \in uShown')
        /\ ShouldTrigger(FinalIndex, TRUE) /\ ok /\ past # <<>> => Last(past) \in uShown'
    <3> HIDE DEF past
    <3> QED
      BY <2>1, <2>2, <2>3, <2>5, CurationKeeps
  <2>7. CurTypeOK'
    BY <2>1, <2>3, <2>4, <2>6, RunsAre DEF CurTypeOK
  <2>8. StoredInv'
    BY <2>1, <2>3, <2>6 DEF StoredInv, PersistStoreName, Prefetch
  <2>9. StraightInv'
    <3> SUFFICES ASSUME uStraight
                 PROVE  StraightInv'
      BY <2>3 DEF StraightInv
    <3>1. Numbered(uRun, past)
      BY <2>1 DEF StraightInv
    <3>2. past # <<>> => Len(past) > 0
      BY <2>1, EmptySeq
    <3>3. uLast' # NeverCurated => \E r \in CurSessions : uLast' < Len(uTurns'[r])
      <4>1. CASE uLast' = uLast
        BY <2>3, <4>1 DEF StraightInv
      <4>2. CASE uLast' # uLast
        <5>1. uLast' = FinalIndex /\ past # <<>> /\ Len(past) > 0
          BY <2>6, <3>2, <4>2
        <5>2. uRun.index <= Len(past)
          BY <2>1, <3>1 DEF Numbered
        <5>3. uLast' < Len(past)
          BY <2>1, <2>5, <5>1, <5>2
        <5> QED
          BY <2>1, <2>3, <5>3
      <4> QED
        BY <4>1, <4>2
    <3>4. ASSUME ok, uRun.status = "completed", uConfig.end
          PROVE  Last(past) \in uShown'
      <4>1. uRun.index = Len(past) /\ uRun.index > 0
            /\ (uLast = uRun.index - 1 => Last(past) \in uShown)
        BY <2>1, <3>1, <3>4 DEF Numbered
      <4>2. FinalIndex = uRun.index - 1 /\ past # <<>>
        BY <2>5, <4>1, EmptySeq
      <4>3. ShouldTrigger(FinalIndex, TRUE) <=> uLast # FinalIndex
        BY <3>4 DEF ShouldTrigger
      <4> QED
        BY <2>6, <3>4, <4>1, <4>2, <4>3
    <3>5. Numbered(uRun, uTurns[uRun.session])'
      BY <2>3, <2>4, <3>4 DEF Numbered
    <3> QED
      BY <2>1, <2>3, <2>4, <3>3, <3>5 DEF StraightInv
  <2> QED
    BY <2>7, <2>8, <2>9
<1>9. CASE UNCHANGED curationVars
  BY <1>9 DEF curationVars, CurTypeOK, StoredInv, StraightInv, Numbered, PersistStoreName, Prefetch
<1> QED
  BY <1>1, <1>2, <1>3, <1>4, <1>5, <1>6, <1>7, <1>8, <1>9 DEF CurationNext

(***************************************************************************)
(* Whatever the configuration, the sessions and the runs: a fact that a    *)
(* curation stored is injected from then on, where its store is to be and  *)
(* could be read; and the end of a run that is complete shows the curator  *)
(* its last turn.  (memory/curator.py:113-163, runner                      *)
(* _maybe_curate_after_turn)                                               *)
(***************************************************************************)
THEOREM ToldIsInjected == CurationSpec => []ToldReachesPrompt
<1>1. CurationInit => CurInv
  <2> SUFFICES ASSUME CurationInit
               PROVE  CurInv
    OBVIOUS
  <2>1. <<>> \in Seq(Nat)
    BY EmptySeq
  <2>2. CurTypeOK
    BY <2>1 DEF CurationInit, CurTypeOK, CurStores
  <2> QED
    BY <2>2 DEF CurationInit, CurInv, StoredInv, StraightInv
<1>2. CurInv /\ [CurationNext]_curationVars => CurInv'
  BY CurationStep
<1>3. CurInv => ToldReachesPrompt
  <2> SUFFICES ASSUME CurInv
               PROVE  ToldReachesPrompt
    OBVIOUS
  <2>1. SavedIsInjected
    <3> SUFFICES ASSUME uRun # NotRunning, uLoaded, ~uConfig.approval,
                        uConfig.stores # <<>> => uConfig.stores[1].inject = "always"
                 PROVE  uSaved \subseteq uMemory
      BY DEF SavedIsInjected
    <3>1. uConfig \in CurConfigs /\ uStored \in [CurStores -> SUBSET Nat]
          /\ uConfig # NotConfigured
      BY RunsAre DEF CurInv, CurTypeOK
    <3>2. uSaved \subseteq uStored[PersistStoreName] /\ uMemory = Prefetch(uStored)
      BY <3>1 DEF CurInv, StoredInv
    <3> QED
      BY <3>1, <3>2, StoreNamed
  <2>2. EndIsCurated
    BY DEF EndIsCurated, CurInv, StraightInv, Numbered
  <2> QED
    BY <2>1, <2>2 DEF ToldReachesPrompt
<1> QED
  BY <1>1, <1>2, <1>3, PTL DEF CurationSpec
=============================================================================
