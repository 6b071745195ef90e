------------------------------ MODULE Curation -------------------------------
(***************************************************************************)
(* When the memory curator runs, which turns it is shown and how what it   *)
(* learns reaches the next request: a runner takes one run after another,  *)
(* asks should_trigger after each turn and at the end, and loads the facts *)
(* it injects at the start and after each curation.  The runner object,    *)
(* and with it _last_curated_turn, is kept from run to run.                *)
(*                                                                         *)
(* A turn is a number of its own and tells one fact, named by that number. *)
(* A store is default, pending, or one of the two named ones.              *)
(***************************************************************************)
EXTENDS Integers, Sequences, SequencesExt, FiniteSets

CONSTANTS
    CurSessions,   \* sessions the runner is used for
    Intervals,     \* of extraction_interval, 0 for none
    DigestTurns,   \* turns that fit into max_conversation_chars
    MaxCurTurns,   \* bound: turns of all sessions
    MaxCurRuns     \* bound: runs of the runner

ASSUME CurationAssumption ==
    Intervals \cup {DigestTurns, MaxCurTurns, MaxCurRuns} \subseteq Nat /\ DigestTurns > 0

\* Configured stores with the way each is injected; none means the default store.
Layouts == {<<>>,
            <<[name |-> "first", inject |-> "always"], [name |-> "second", inject |-> "always"]>>,
            <<[name |-> "first", inject |-> "on_recall"], [name |-> "second", inject |-> "always"]>>}

NotConfigured == [stores |-> "none"]
NotRunning == [state |-> "idle"]
NeverCurated == -1 \* None; no turn has this number

VARIABLES
    uConfig,   \* MemoryConfig: [each, interval, end, approval, stores]
    uTurns,    \* the turns of each session, oldest first
    uRun,      \* [state, session, index, status]
    uLast,     \* _last_curated_turn: an index, or NeverCurated
    uStored,   \* the facts in each store
    uMemory,   \* _user_memory, injected into every request
    uShown,    \* history: turns a curator that answered was shown
    uSaved,    \* history: facts a curation has stored
    uLoaded,   \* history: the last load of the memory did not fail
    uTold,     \* turns so far
    uRuns,     \* runs so far
    uStraight  \* history: one session only, and never folded

curationVars == <<uConfig, uTurns, uRun, uLast, uStored, uMemory, uShown,
                  uSaved, uLoaded, uTold, uRuns, uStraight>>

CurationInit ==
    /\ uConfig = NotConfigured /\ uRun = NotRunning /\ uLast = NeverCurated
    /\ uTurns = [s \in CurSessions |-> <<>>]
    /\ uStored = [n \in {"default", "pending", "first", "second"} |-> {}]
    /\ uMemory = {} /\ uShown = {} /\ uSaved = {}
    /\ uLoaded = TRUE /\ uTold = 0 /\ uRuns = 0 /\ uStraight = TRUE

ConfigureMemory ==
    /\ uConfig = NotConfigured
    /\ uConfig' \in [each : BOOLEAN, interval : Intervals, end : BOOLEAN,
                     approval : BOOLEAN, stores : Layouts]
    /\ UNCHANGED <<uTurns, uRun, uLast, uStored, uMemory, uShown, uSaved,
                   uLoaded, uTold, uRuns, uStraight>>

-----------------------------------------------------------------------------
(* The stores *)

\* What is injected: the default store, or every store to be injected always.
Prefetch(stored) ==
    IF uConfig.stores = <<>> THEN stored["default"]
    ELSE UNION {stored[s.name] : s \in {x \in ToSet(uConfig.stores) : x.inject = "always"}}

\* The memory is loaded anew from what is stored; a store that fails gives nothing.
LoadUserMemory(stored) ==
    \E ok \in BOOLEAN : uLoaded' = ok /\ uMemory' = IF ok THEN Prefetch(stored) ELSE {}

PersistStoreName ==
    IF uConfig.approval THEN "pending"
    ELSE IF uConfig.stores # <<>> THEN uConfig.stores[1].name ELSE "default"

\* The most recent turns that fit.
Digest(turns) ==
    {turns[i] : i \in {j \in DOMAIN turns : j + DigestTurns > Len(turns)}}

-----------------------------------------------------------------------------
(* The curator *)

\* should_trigger
ShouldTrigger(index, atEnd) ==
    IF atEnd THEN uConfig.end /\ uLast # index
    ELSE \/ uConfig.each
         \/ uConfig.interval > 0 /\ (index + 1) % uConfig.interval = 0

\* What an answer is used for: no fact, or all that was shown, stored unless the store fails.
PersistEntities(turns) ==
    \/ UNCHANGED <<uStored, uSaved>>
    \/ /\ uStored' = [uStored EXCEPT ![PersistStoreName] = @ \cup Digest(turns)]
       /\ uSaved' = uSaved \cup Digest(turns)

\* curate: without a conversation nothing is asked; the call fails and nothing changes, or it
\* is answered (ok).
Curate(turns, index, ok) ==
    IF ok /\ turns # <<>>
    THEN uLast' = index /\ uShown' = uShown \cup Digest(turns) /\ PersistEntities(turns)
    ELSE UNCHANGED <<uLast, uStored, uShown, uSaved>>

NoCuration == UNCHANGED <<uLast, uStored, uMemory, uLoaded, uShown, uSaved>>

\* Mutant: what a curation stored is not loaded until the next run.
CurateOnly(turns, index, atEnd, ok) ==
    IF ShouldTrigger(index, atEnd) THEN Curate(turns, index, ok) /\ UNCHANGED <<uMemory, uLoaded>>
    ELSE ok /\ NoCuration

\* _maybe_curate_after_turn, and the same at the end of the run: a curation and a load.
MaybeCurate(turns, index, atEnd, ok) ==
    IF ShouldTrigger(index, atEnd) THEN Curate(turns, index, ok) /\ LoadUserMemory(uStored')
    ELSE ok /\ NoCuration

-----------------------------------------------------------------------------
(* The runner *)

\* The turn number is the number of turns the session has.
StartRun(s) ==
    /\ uConfig # NotConfigured /\ uRun = NotRunning /\ uRuns < MaxCurRuns
    /\ uRun' = [state |-> "turn", session |-> s, index |-> Len(uTurns[s]), status |-> "running"]
    /\ LoadUserMemory(uStored) /\ uRuns' = uRuns + 1
    /\ uStraight' = (uStraight /\ \A r \in CurSessions \ {s} : uTurns[r] = <<>>)
    /\ UNCHANGED <<uConfig, uTurns, uLast, uStored, uShown, uSaved, uTold>>

\* The turn with its number is stored; a paused one stops the run and is not curated.
TakeTurn ==
    LET s == uRun.session
        turns == Append(uTurns[s], uTold + 1)
    IN
    /\ uRun.state = "turn" /\ uTold < MaxCurTurns
    /\ uTold' = uTold + 1 /\ uTurns' = [uTurns EXCEPT ![s] = turns]
    /\ \/ /\ uRun' = [uRun EXCEPT !.state = "ending", !.status = "paused"] /\ NoCuration
       \/ /\ uRun' = [uRun EXCEPT !.state = "hook"]
          /\ \E ok \in BOOLEAN : MaybeCurate(turns, uRun.index, FALSE, ok)
    /\ UNCHANGED <<uConfig, uRuns, uStraight>>

\* After the turn: the hook stops the run or it pauses for a person, and the number stays;
\* or the next turn follows, or the run is complete or at its limit, and the number goes on.
LeaveTurn ==
    /\ uRun.state = "hook"
    /\ \/ \E status \in {"interrupted", "paused"} :
             uRun' = [uRun EXCEPT !.state = "ending", !.status = status]
       \/ uRun' = [uRun EXCEPT !.state = "turn", !.index = @ + 1]
       \/ uRun' = [uRun EXCEPT !.state = "ending", !.index = @ + 1, !.status = "completed"]
    /\ UNCHANGED <<uConfig, uTurns, uLast, uStored, uMemory, uLoaded, uShown, uSaved,
                   uTold, uRuns, uStraight>>

\* The model fails or the turn took too long: the run ends in an error and is not curated.
FailTurn ==
    /\ uRun.state \in {"turn", "hook"} /\ uRun' = NotRunning
    /\ UNCHANGED <<uConfig, uTurns, uLast, uStored, uMemory, uLoaded, uShown, uSaved,
                   uTold, uRuns, uStraight>>

CancelRun ==
    /\ uRun.state = "turn"
    /\ uRun' = [uRun EXCEPT !.state = "ending", !.status = "interrupted"]
    /\ UNCHANGED <<uConfig, uTurns, uLast, uStored, uMemory, uLoaded, uShown, uSaved,
                   uTold, uRuns, uStraight>>

FinalIndex == IF uRun.index = 0 THEN 0 ELSE uRun.index - 1

EndOfRun ==
    /\ uRun.state = "ending"
    /\ \E ok \in BOOLEAN :
          /\ MaybeCurate(uTurns[uRun.session], FinalIndex, TRUE, ok)
          /\ uRun' = [uRun EXCEPT !.state = IF ok THEN "ended" ELSE "not curated"]
    /\ UNCHANGED <<uConfig, uTurns, uTold, uRuns, uStraight>>

ReturnResult ==
    /\ uRun.state \in {"ended", "not curated"} /\ uRun' = NotRunning
    /\ UNCHANGED <<uConfig, uTurns, uLast, uStored, uMemory, uLoaded, uShown, uSaved,
                   uTold, uRuns, uStraight>>

\* Between two runs the session is folded: its oldest turn is in the summary.
FoldTurn(s) ==
    /\ uRun = NotRunning /\ Len(uTurns[s]) > 1 /\ uRuns < MaxCurRuns
    /\ uTurns' = [uTurns EXCEPT ![s] = Tail(@)] /\ uStraight' = FALSE
    /\ UNCHANGED <<uConfig, uRun, uLast, uStored, uMemory, uLoaded, uShown, uSaved,
                   uTold, uRuns>>

CurationNext ==
    \/ ConfigureMemory
    \/ \E s \in CurSessions : StartRun(s) \/ FoldTurn(s)
    \/ TakeTurn \/ LeaveTurn \/ FailTurn \/ CancelRun \/ EndOfRun \/ ReturnResult

\* A fact a curation has stored is injected into every request from then on, if its store is
\* injected and could be read.
SavedIsInjected ==
    /\ uRun # NotRunning /\ uLoaded /\ ~uConfig.approval
    /\ uConfig.stores # <<>> => uConfig.stores[1].inject = "always"
    => uSaved \subseteq uMemory

\* With extract_at_end, a run that is complete and whose curator answers leaves no turn unseen:
\* its last turn was shown to the curator, after the turn or at the end.  It is stated for a
\* runner of one session that is not folded: elsewhere two turns may have one number, and a
\* run stopped by the hook asks about the turn before (runner, lines 1590-1608).
EndIsCurated ==
    /\ uRun # NotRunning /\ uRun.state = "ended" /\ uRun.status = "completed"
    /\ uConfig.end /\ uStraight
    => Last(uTurns[uRun.session]) \in uShown

\* Nothing a user told is lost on the way into the prompts that follow: the end of a run
\* shows the curator what it has not seen, and what it stored is injected
\* (memory/curator.py should_trigger and curate, runner _maybe_curate_after_turn).
ToldReachesPrompt == SavedIsInjected /\ EndIsCurated

CurationSpec == CurationInit /\ [][CurationNext]_curationVars
=============================================================================
