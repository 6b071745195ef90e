--------------------------- MODULE ContextWindow ---------------------------
(***************************************************************************)
(* What of a session reaches the model: the summaries of tool results (the *)
(* interceptor, which takes the model's own, and the compactor, which asks *)
(* for them), and ContextWindowBuilder.build, which fits the turns into    *)
(* the token budget.                                                       *)
(*                                                                         *)
(* Texts are their cost in tokens.  A turn is [user, tools]: whether it    *)
(* carries a user message, and its tool calls as [raw, summary].           *)
(***************************************************************************)
EXTENDS Naturals, Sequences, FiniteSets, Functions

CONSTANTS
    MaxWindowTurns,   \* bound: turns stored
    MaxTools,   \* bound: tool calls stored
    RawCosts,   \* costs a raw tool result may have
    NoticeCost, \* cost of the notice that stands for a degraded result
    Budgets,    \* token budgets
    OldestN     \* compact_oldest_n_tcs

ASSUME WindowAssumption ==
    /\ MaxWindowTurns \in Nat /\ MaxTools \in Nat
    /\ RawCosts \subseteq Nat /\ Budgets \subseteq Nat
    /\ NoticeCost \in Nat
    /\ OldestN \in Nat

VARIABLES
    cPhase,     \* idle, compacting, building, built
    cTurns,     \* session.turns
    cTargets,   \* the calls the compactor still has to ask about: <<turn, tool>>
    cBudget,    \* token_budget
    cAsks,      \* a current user message comes with the request
    cFirst,     \* turns_in_window begins here
    cDegraded   \* degraded_tc_ids

windowVars == <<cPhase, cTurns, cTargets, cBudget, cAsks, cFirst, cDegraded>>

WindowInit ==
    /\ cPhase = "idle"
    /\ cTurns = <<>> /\ cTargets = {}
    /\ cBudget = 0 /\ cAsks = FALSE /\ cFirst = 1 /\ cDegraded = {}

\* The tool calls of the turns from `first`, and their order.
CallsFrom(first) ==
    UNION {{t} \X DOMAIN cTurns[t].tools : t \in first .. Len(cTurns)}

Older(c, d) == c[1] < d[1] \/ (c[1] = d[1] /\ c[2] < d[2])

IsOldest(c, calls) == \A d \in calls : d = c \/ Older(c, d)

Call(c) == cTurns[c[1]].tools[c[2]]

\* _summary_text: an empty or "[]" summary, as old sessions have, is none.
IsSummarised(c) == Call(c).summary = "text"

(***************************************************************************)
(* The session: turns are stored, and results get summaries.               *)
(***************************************************************************)
WindowTurn ==
    /\ cPhase = "idle" /\ Len(cTurns) < MaxWindowTurns
    /\ \E user \in BOOLEAN, n \in 0 .. MaxTools - Cardinality(CallsFrom(1)) :
          \E tools \in [1 .. n -> [raw : RawCosts, summary : {"none", "legacy"}]] :
              cTurns' = Append(cTurns, [user |-> user, tools |-> tools])
    /\ UNCHANGED <<cPhase, cTargets, cBudget, cAsks, cFirst, cDegraded>>

Summarise(c) == cTurns' = [cTurns EXCEPT ![c[1]].tools[c[2]].summary = "text"]

\* The model names a call of this session in _context_updates, with a usable summary.
Intercept ==
    /\ cPhase = "idle"
    /\ \E c \in CallsFrom(1) : Summarise(c)
    /\ UNCHANGED <<cPhase, cTargets, cBudget, cAsks, cFirst, cDegraded>>

\* should_trigger, and the calls compact() chooses: no summary of any kind, oldest first.
CompactBegin ==
    /\ cPhase = "idle"
    /\ LET raw == {c \in CallsFrom(1) : Call(c).summary = "none"} IN
       /\ raw # {}
       /\ cTargets' = {c \in raw : Cardinality({d \in raw : Older(d, c)}) < OldestN}
    /\ cPhase' = "compacting"
    /\ UNCHANGED <<cTurns, cBudget, cAsks, cFirst, cDegraded>>

\* One call of the compactor's model; a failure or an empty answer leaves the result raw.
CompactNext ==
    /\ cPhase = "compacting"
    /\ \E c \in cTargets :
          /\ IsOldest(c, cTargets)
          /\ Summarise(c) \/ UNCHANGED cTurns
          /\ cTargets' = cTargets \ {c}
    /\ UNCHANGED <<cPhase, cBudget, cAsks, cFirst, cDegraded>>

CompactEnd ==
    /\ cPhase = "compacting" /\ cTargets = {}
    /\ cPhase' = "idle"
    /\ UNCHANGED <<cTurns, cTargets, cBudget, cAsks, cFirst, cDegraded>>

(***************************************************************************)
(* The request.                                                            *)
(***************************************************************************)

\* _render_tool_message
ToolCost(c, degraded) ==
    CASE c \in degraded -> NoticeCost
      [] c \notin degraded /\ IsSummarised(c) -> 1
      [] OTHER -> Call(c).raw

\* The system prompt, the assistant's message of every turn, the user messages and
\* the tool messages.
Cost(first, degraded) ==
    1 + (Len(cTurns) + 1 - first)
      + Cardinality({t \in first .. Len(cTurns) : cTurns[t].user})
      + (IF cAsks THEN 1 ELSE 0)
      + SumFunction([c \in CallsFrom(first) |-> ToolCost(c, degraded)])

\* The calls _degrade_oldest_tool may still mark.
Degradable(first, degraded) ==
    {c \in CallsFrom(first) : c \notin degraded /\ ~IsSummarised(c)}

BuildBegin ==
    /\ cPhase = "idle"
    /\ cBudget' \in Budgets
    /\ cAsks' \in BOOLEAN
    /\ cFirst' = 1 /\ cDegraded' = {}
    /\ cPhase' = "building"
    /\ UNCHANGED <<cTurns, cTargets>>

OverBudget == cPhase = "building" /\ Cost(cFirst, cDegraded) > cBudget

DegradeOldest ==
    /\ OverBudget
    /\ \E c \in Degradable(cFirst, cDegraded) :
          IsOldest(c, Degradable(cFirst, cDegraded)) /\ cDegraded' = cDegraded \cup {c}
    /\ UNCHANGED <<cPhase, cTurns, cTargets, cBudget, cAsks, cFirst>>

\* Mutant: turns are dropped while results could still be degraded.
DropAtOnce ==
    /\ OverBudget /\ cFirst <= Len(cTurns)
    /\ cFirst' = cFirst + 1
    /\ UNCHANGED <<cPhase, cTurns, cTargets, cBudget, cAsks, cDegraded>>

DropOldest ==
    /\ OverBudget /\ Degradable(cFirst, cDegraded) = {}
    /\ cFirst <= Len(cTurns)
    /\ cFirst' = cFirst + 1
    /\ UNCHANGED <<cPhase, cTurns, cTargets, cBudget, cAsks, cDegraded>>

\* It fits, or nothing is left to drop.  When no user message is left, the last one is
\* put back, which the budget does not count.
BuildEnd ==
    /\ cPhase = "building"
    /\ Cost(cFirst, cDegraded) <= cBudget \/ cFirst > Len(cTurns)
    /\ cPhase' = "built"
    /\ UNCHANGED <<cTurns, cTargets, cBudget, cAsks, cFirst, cDegraded>>

\* The request has been sent.
BuildUse ==
    /\ cPhase = "built"
    /\ cPhase' = "idle"
    /\ cBudget' = 0 /\ cAsks' = FALSE /\ cFirst' = 1 /\ cDegraded' = {}
    /\ UNCHANGED <<cTurns, cTargets>>

WindowNext ==
    \/ WindowTurn \/ Intercept
    \/ CompactBegin \/ CompactNext \/ CompactEnd
    \/ BuildBegin \/ DegradeOldest \/ DropOldest \/ BuildEnd \/ BuildUse

-----------------------------------------------------------------------------
(***************************************************************************)
(* The window is as large as the budget allows: a request is over budget   *)
(* only when all history is gone, and a turn is dropped only when it and   *)
(* what follows would not fit even with every raw result replaced by the   *)
(* notice.  So a tool result never costs the session a turn.               *)
(* (context/builder.py:332-369)                                            *)
(***************************************************************************)
NoNeedlessDrop ==
    cPhase = "built" =>
        /\ Cost(cFirst, cDegraded) <= cBudget \/ cFirst > Len(cTurns)
        /\ cFirst > 1 =>
              Cost(cFirst - 1, Degradable(cFirst - 1, {})) > cBudget

WindowSpec == WindowInit /\ [][WindowNext]_windowVars
=============================================================================
