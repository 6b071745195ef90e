---------------------------- MODULE ContextFold ----------------------------
(***************************************************************************)
(* The context summariser (context/summarizer.py) as the agent loop uses   *)
(* it, over the runs of one chat session.                                  *)
(*                                                                         *)
(* Before each LLM call the loop may fold the oldest turns of the session: *)
(* a digest of them goes to a summary LLM, its answer is appended to       *)
(* summary_text, and the turns leave the session.  What was folded is      *)
(* recorded by turn number only (summary_through_turn), while each run     *)
(* numbers its turns from the length of the session.                       *)
(***************************************************************************)
EXTENDS Integers, FiniteSets, Sequences

CONSTANTS
  TurnsToFold,  \* context_summary.turns_to_fold
  MaxParts,     \* max_summary_chars, in parts the summary LLM returned
  MaxRuns,      \* bound: runs of the session
  MaxTurns      \* bound: turns ever appended

ASSUME FoldAssumption ==
  /\ TurnsToFold \in Nat \ {0} /\ MaxParts \in Nat
  /\ MaxRuns \in Nat /\ MaxTurns \in Nat

VARIABLES
  turns,    \* the session's turns; the list has them in the order of their id
  through,  \* summary_through_turn
  summary,  \* summary_text: the turns each of its parts tells of
  pc,       \* where the loop stands
  idx,      \* session_turn_index
  asked,    \* the next turn of the run saves the user's message
  toFold,   \* the turns the summary LLM is being asked about
  nTurns,   \* turns ever appended
  nRuns     \* runs started

vars == <<turns, through, summary, pc, idx, asked, toFold, nTurns, nRuns>>

\* A turn: its place in the conversation, turn_index, and whether it has any
\* text for the digest (a turn of tool calls usually has none).
Turn == [id : 1..MaxTurns, idx : Nat, text : BOOLEAN]

\* _foldable_turns, and the order it sorts them in (the sort is stable).
Foldable == {t \in turns : t.idx > through}

Before(s, t) == s.idx < t.idx \/ (s.idx = t.idx /\ s.id < t.id)

\* foldable[:turns_to_fold]
Oldest == {t \in Foldable : Cardinality({s \in Foldable : Before(s, t)}) < TurnsToFold}

Init ==
  /\ turns = {} /\ through = -1 /\ summary = <<>>
  /\ pc = "idle" /\ idx = 0 /\ asked = FALSE /\ toFold = {}
  /\ nTurns = 0 /\ nRuns = 0

\* A run starts, with a user message or (after a pause) without one.
Start(message) ==
  /\ pc = "idle" /\ nRuns < MaxRuns
  /\ pc' = "build"
  /\ idx' = Cardinality(turns)
  /\ asked' = message
  /\ nRuns' = nRuns + 1
  /\ UNCHANGED <<turns, through, summary, toFold, nTurns>>

\* The context is built: below summarize_on of the window, with nothing to
\* fold, or with an empty digest, the turn goes on with all of it.
KeepAll ==
  /\ pc = "build"
  /\ pc' = "llm"
  /\ UNCHANGED <<turns, through, summary, idx, asked, toFold, nTurns, nRuns>>

\* The context is too full, and the digest of the oldest turns is sent.
AskSummary ==
  /\ pc = "build"
  /\ \E t \in Oldest : t.text
  /\ toFold' = Oldest
  /\ pc' = "fold"
  /\ UNCHANGED <<turns, through, summary, idx, asked, nTurns, nRuns>>

FoldedIndices == {t.idx : t \in toFold}

Ids(ts) == {t.id : t \in ts}

Extended(parts, ids) == IF Len(parts) < MaxParts THEN Append(parts, ids) ELSE parts

\* Mutants: the folded turns stay in the session; the turn that comes after
\* them leaves it too.
KeepFolded(ts) == ts
DropOneMore(ts) == {t \in ts : t.idx \notin FoldedIndices \union {i + 1 : i \in FoldedIndices}}

\* What stays in the session: folded_indices tells which turns do not.
Remaining(ts) == {t \in ts : t.idx \notin FoldedIndices}

\* The summary LLM answered: the text past max_summary_chars is cut off.
Fold ==
  /\ pc = "fold"
  /\ summary' = Extended(summary, Ids(toFold))
  /\ turns' = Remaining(turns)
  /\ through' \in FoldedIndices \union {through}
  /\ \A i \in FoldedIndices \union {through} : i <= through'
  /\ toFold' = {}
  /\ pc' = "llm"
  /\ UNCHANGED <<idx, asked, nTurns, nRuns>>

\* It raised, or its answer is empty: nothing is folded this time.
FoldFails ==
  /\ pc = "fold"
  /\ toFold' = {}
  /\ pc' = "llm"
  /\ UNCHANGED <<turns, through, summary, idx, asked, nTurns, nRuns>>

\* The LLM answers, its tools run, and the turn is appended.  The turn that
\* saves the user's message has text; another may be tool calls only.
AppendTurn(text) ==
  /\ pc = "llm" /\ nTurns < MaxTurns
  /\ asked => text
  /\ turns' = turns \union {[id |-> nTurns + 1, idx |-> idx, text |-> text]}
  /\ nTurns' = nTurns + 1
  /\ idx' = idx + 1
  /\ asked' = FALSE
  /\ pc' = "build"
  /\ UNCHANGED <<through, summary, toFold, nRuns>>

\* An answer of the wrong result type is asked for again, in the same turn.
Retry ==
  /\ pc = "llm"
  /\ pc' = "build"
  /\ UNCHANGED <<turns, through, summary, idx, asked, toFold, nTurns, nRuns>>

\* The run ends: answered, paused, cancelled, failed, or dead.
End ==
  /\ pc # "idle"
  /\ pc' = "idle"
  /\ idx' = 0 /\ asked' = FALSE /\ toFold' = {}
  /\ UNCHANGED <<turns, through, summary, nTurns, nRuns>>

Next ==
  \/ \E message \in BOOLEAN : Start(message)
  \/ KeepAll \/ AskSummary \/ Fold \/ FoldFails
  \/ \E text \in BOOLEAN : AppendTurn(text)
  \/ Retry \/ End

Spec == Init /\ [][Next]_vars

-----------------------------------------------------------------------------
(* Properties                                                              *)

\* Every variable holds a value of its type.
TypeOK ==
  /\ turns \subseteq Turn /\ toFold \subseteq turns
  /\ through \in Int /\ through >= -1
  /\ summary \in Seq(SUBSET (1..MaxTurns))
  /\ pc \in {"idle", "build", "fold", "llm"}
  /\ idx \in Nat /\ asked \in BOOLEAN
  /\ nTurns \in 0..MaxTurns /\ nRuns \in 0..MaxRuns

\* The turns summary_text tells of.
Summarised == UNION {summary[i] : i \in DOMAIN summary}

\* The model is never told a turn twice: a turn that the summary tells of has
\* left the session, and no two parts of the summary tell of the same turn.
ToldOnce ==
  /\ Summarised \intersect Ids(turns) = {}
  /\ \A i, j \in DOMAIN summary : i # j => summary[i] \intersect summary[j] = {}

\* The run numbers its turns as if nothing had been folded before it.
Aligned == pc # "idle" /\ idx = nTurns

\* While it does, every turn is folded in its turn: all that the session holds
\* can be folded, it is newer than all that was, and has a number of its own.
OldestFirst ==
  Aligned => /\ Foldable = turns
             /\ \A t \in turns : t.idx < idx /\ \A i \in Summarised : i < t.id
             /\ \A s, t \in turns : s.id < t.id => s.idx < t.idx

\* ... and only the turns whose digest was summarised leave the session.
AlignedFoldKeeps == [][Aligned => turns \ turns' \subseteq toFold]_vars

\* Turns leave the session in the step that records that they were folded: a
\* summary that does not come, or comes empty, costs nothing.
FoldIsAllOrNothing ==
  [][~(turns \subseteq turns') => toFold # {} /\ through' > through]_vars

\* summarize: "Fold oldest unfoldable turns into summary_text and remove them
\* from session": only turns whose digest was summarised leave it.
OnlyFoldedLeave == [][turns \ turns' \subseteq toFold]_vars
=============================================================================
