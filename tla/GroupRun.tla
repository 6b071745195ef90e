------------------------------ MODULE GroupRun ------------------------------
(***************************************************************************)
(* One run of a group of agents: AgentOrchestrator with its three          *)
(* patterns, each blocking (run) or streaming (run_stream).                *)
(*                                                                         *)
(* A member is an agent or another group.  A member's run is its start,    *)
(* the facts it writes to its own RunContext, and its end with the turns   *)
(* it took; the events a stream forwards are left out.  A fact is known by *)
(* its writer: the contexts are sets of members.                           *)
(***************************************************************************)
EXTENDS Naturals, FiniteSets

CONSTANTS
    Size,       \* members, numbered in the configured order
    Budget,     \* the largest max_turns of a group
    OwnTurns,   \* max_turns of a member, which bounds it when it streams
    MaxCalls    \* bound: delegations of one supervisor run

ASSUME GroupAssumption ==
    /\ Size \in Nat \ {0}
    /\ Budget \in Nat /\ OwnTurns \in Nat /\ MaxCalls \in Nat

Members == 1 .. Size

Sharings == {"isolated", "inherit", "shared"}

VARIABLES
    gStatus,    \* idle, running, completed, failed, raised (to the caller)
    gPattern,   \* pipeline, parallel, supervisor
    gStreams,   \* run_stream
    gSharing,   \* context_sharing
    gNested,    \* the members that are groups
    gBudget,    \* the turn budget
    gTurns,     \* turns_used
    gContext,   \* the group's metadata and state; 0 is what the caller put there
    gMember,    \* Members -> [state, knows, limit]; the state is idle, running, over,
                \*   failed (raised) or lost (cancelled by the tool timeout)
    gAt,        \* the pipeline's next member, or the supervisor
    gCalls,     \* delegations so far
    gSpent      \* history: turns the members took

groupVars == <<gStatus, gPattern, gStreams, gSharing, gNested, gBudget, gTurns,
               gContext, gMember, gAt, gCalls, gSpent>>

config == <<gPattern, gStreams, gSharing, gNested, gBudget>>

GroupInit ==
    /\ gStatus = "idle" /\ gPattern = "pipeline" /\ gStreams = FALSE
    /\ gSharing = "inherit" /\ gNested = {}
    /\ gBudget = 0 /\ gTurns = 0 /\ gAt = 1 /\ gCalls = 0 /\ gSpent = 0
    /\ gContext = {0}
    /\ gMember = [m \in Members |-> [state |-> "idle", knows |-> {}, limit |-> 0]]

Running(m) == gMember[m].state = "running"

(***************************************************************************)
(* _sync_down and _sync_up.                                                *)
(***************************************************************************)
Down(m, context) ==
    IF gSharing = "isolated" THEN gMember[m].knows ELSE gMember[m].knows \cup context

\* Mutant: every member's facts come up.
UpAlways(m) == gContext \cup gMember[m].knows

Up(m) == IF gSharing = "shared" THEN gContext \cup gMember[m].knows ELSE gContext

\* The member starts with the context and at most `limit` turns.
Begin(m, context, limit) ==
    gMember' = [gMember EXCEPT ![m] = [state |-> "running",
                                       knows |-> Down(m, context),
                                       limit |-> limit]]

Ended(m, how) == gMember' = [gMember EXCEPT ![m].state = how]

\* An agent keeps to its limit.  A group may not: its parallel members each get
\* the whole of it.
Took(m) == 0 .. IF m \in gNested THEN 2 * gMember[m].limit ELSE gMember[m].limit

\* A nested group's stream forwards its members' final responses and then its own,
\* and each of them is counted.
Counted(m, turns) == IF gStreams /\ m \in gNested THEN 2 * turns ELSE turns

\* Mutant: the turns taken are not subtracted.
WholeBudget == gBudget

Remaining == gBudget - gTurns

\* _select_supervisor picks by name or takes the first; number 1 is the one it picked.
GroupStart ==
    /\ gStatus = "idle"
    /\ gPattern' \in {"pipeline", "parallel", "supervisor"}
    /\ gStreams' \in BOOLEAN
    /\ gSharing' \in Sharings
    /\ gNested' \in SUBSET Members
    /\ gBudget' \in IF gStreams' THEN {Budget} ELSE {0, Budget}
    /\ gAt' = 1
    /\ gStatus' = IF \/ gPattern' = "parallel" /\ ~gStreams' /\ gBudget' < 1
                     \/ gPattern' = "supervisor" /\ 1 \in gNested'
                     \/ gPattern' = "supervisor" /\ ~gStreams' /\ gBudget' = 0
                  THEN "failed" ELSE "running"
    /\ gMember' = [m \in Members |->
                     [gMember[m] EXCEPT !.knows =
                         IF gSharing' = "isolated" THEN {} ELSE gContext]]
    /\ UNCHANGED <<gTurns, gContext, gCalls, gSpent>>

\* A member writes a fact to its own context.
MemberWrites(m) ==
    /\ Running(m) /\ m \notin gMember[m].knows
    /\ gMember' = [gMember EXCEPT ![m].knows = @ \cup {m}]
    /\ UNCHANGED <<gStatus, config, gTurns, gContext, gAt, gCalls, gSpent>>

(***************************************************************************)
(* The pipeline.  Without streaming, the result of a nested group has no   *)
(* field cumulative_input_tokens_saved_by_rcs: reading it raises after the *)
(* turns are counted, and the pipeline fails.                              *)
(***************************************************************************)
InPipeline == gStatus = "running" /\ gPattern = "pipeline"

PipelineNext ==
    /\ InPipeline /\ gAt \in Members /\ ~Running(gAt)
    /\ gStreams \/ Remaining > 0
    /\ Begin(gAt, gContext, IF gStreams THEN OwnTurns ELSE Remaining)
    /\ UNCHANGED <<gStatus, config, gTurns, gContext, gAt, gCalls, gSpent>>

PipelineMemberOver ==
    /\ InPipeline /\ gAt \in Members /\ Running(gAt)
    /\ Ended(gAt, "over")
    /\ gContext' = Up(gAt)
    /\ gAt' = gAt + 1
    /\ \E turns \in Took(gAt) :
          /\ gTurns' = gTurns + Counted(gAt, turns)
          /\ gSpent' = gSpent + turns
    /\ gStatus' = IF gAt \in gNested /\ ~gStreams THEN "failed" ELSE gStatus
    /\ UNCHANGED <<config, gCalls>>

PipelineMemberRaises ==
    /\ InPipeline /\ gAt \in Members /\ Running(gAt)
    /\ Ended(gAt, "failed")
    /\ gStatus' = "failed"
    /\ \E turns \in Took(gAt) : gSpent' = gSpent + turns
    /\ UNCHANGED <<config, gTurns, gContext, gAt, gCalls>>

\* Mutant: a pipeline ends only after its last member.
PipelineEndsLast ==
    /\ InPipeline /\ gAt \notin Members
    /\ gStatus' = "completed"
    /\ UNCHANGED <<config, gTurns, gContext, gMember, gAt, gCalls, gSpent>>

\* All members have run, or the budget is used up.
PipelineEnds ==
    /\ InPipeline
    /\ \/ gAt \notin Members
       \/ gAt \in Members /\ ~Running(gAt) /\ ~gStreams /\ Remaining <= 0
    /\ gStatus' = "completed"
    /\ UNCHANGED <<config, gTurns, gContext, gMember, gAt, gCalls, gSpent>>

(***************************************************************************)
(* Members side by side, each with the whole budget; nothing is synced up. *)
(***************************************************************************)
InParallel == gStatus = "running" /\ gPattern = "parallel"

ParallelBegin(m) ==
    /\ InParallel /\ gMember[m].state = "idle"
    /\ Begin(m, gContext, IF gStreams THEN OwnTurns ELSE gBudget)
    /\ UNCHANGED <<gStatus, config, gTurns, gContext, gAt, gCalls, gSpent>>

\* A streamed result is read as an agent's: a nested group that failed has a status
\* no agent has, and reading it raises out of the stream.
ParallelOver(m) ==
    /\ InParallel /\ Running(m)
    /\ Ended(m, "over")
    /\ \E turns \in Took(m) :
          /\ gSpent' = gSpent + turns
          /\ gTurns' = gTurns + Counted(m, turns)
    /\ gStatus' \in IF gStreams /\ m \in gNested THEN {"running", "raised"} ELSE {"running"}
    /\ UNCHANGED <<config, gContext, gAt, gCalls>>

ParallelRaises(m) ==
    /\ InParallel /\ Running(m)
    /\ Ended(m, "failed")
    /\ \E turns \in Took(m) : gSpent' = gSpent + turns
    /\ UNCHANGED <<gStatus, config, gTurns, gContext, gAt, gCalls>>

\* Without streaming, the outcomes are read in the configured order, and the first
\* that is an exception, or a nested group's result, decides.
ParallelJoin ==
    /\ InParallel
    /\ \A m \in Members : gMember[m].state \in {"over", "failed"}
    /\ LET bad == {m \in Members : m \in gNested \/ gMember[m].state = "failed"} IN
       gStatus' = IF gStreams \/ bad = {} THEN "completed"
                  ELSE LET first == CHOOSE m \in bad : \A n \in bad : m <= n
                       IN  IF gMember[first].state = "failed" THEN "failed" ELSE "raised"
    /\ UNCHANGED <<config, gTurns, gContext, gMember, gAt, gCalls, gSpent>>

(***************************************************************************)
(* The supervisor gAt, whose tool calls delegate to the others.  A member  *)
(* is one runner: it is delegated to once at a time.                       *)
(***************************************************************************)
Supervised == gStatus = "running" /\ gPattern = "supervisor"

SupervisorBegins ==
    /\ Supervised /\ gMember[gAt].state = "idle"
    /\ Begin(gAt, gContext, IF Remaining > 0 THEN Remaining ELSE 1)
    /\ UNCHANGED <<gStatus, config, gTurns, gContext, gAt, gCalls, gSpent>>

\* With nothing remaining the tool answers that the budget is exhausted.
Delegate(m) ==
    /\ Supervised /\ Running(gAt) /\ m # gAt /\ ~Running(m)
    /\ gCalls < MaxCalls /\ Remaining > 0
    /\ gCalls' = gCalls + 1
    /\ gContext' = Up(gAt)
    /\ Begin(m, gContext', Remaining)
    /\ UNCHANGED <<gStatus, config, gTurns, gAt, gSpent>>

\* A nested group's result raises in the tool, before it is synced up.
DelegateOver(m) ==
    /\ Supervised /\ m # gAt /\ Running(m)
    /\ Ended(m, "over")
    /\ \E turns \in Took(m) :
          /\ gTurns' = gTurns + turns
          /\ gSpent' = gSpent + turns
    /\ gContext' = IF m \in gNested THEN gContext ELSE Up(m)
    /\ UNCHANGED <<gStatus, config, gAt, gCalls>>

\* The delegate raises, or the tool's 60 seconds pass: nothing is recorded.
DelegateFails(m) ==
    /\ Supervised /\ m # gAt /\ Running(m)
    /\ Ended(m, "failed") \/ Ended(m, "lost")
    /\ \E turns \in Took(m) : gSpent' = gSpent + turns
    /\ UNCHANGED <<gStatus, config, gTurns, gContext, gAt, gCalls>>

\* The supervisor awaits its tools, so no delegate is running.
SupervisorIdle == \A m \in Members \ {gAt} : ~Running(m)

SupervisorOver ==
    /\ Supervised /\ Running(gAt) /\ SupervisorIdle
    /\ Ended(gAt, "over")
    /\ gContext' = Up(gAt)
    /\ \E turns \in Took(gAt) :
          /\ gTurns' = gTurns + turns
          /\ gSpent' = gSpent + turns
    /\ gStatus' = "completed"
    /\ UNCHANGED <<config, gAt, gCalls>>

SupervisorRaises ==
    /\ Supervised /\ Running(gAt) /\ SupervisorIdle
    /\ Ended(gAt, "failed")
    /\ gStatus' = "failed"
    /\ \E turns \in Took(gAt) : gSpent' = gSpent + turns
    /\ UNCHANGED <<config, gTurns, gContext, gAt, gCalls>>

GroupNext ==
    \/ GroupStart
    \/ PipelineNext \/ PipelineMemberOver \/ PipelineMemberRaises \/ PipelineEnds
    \/ ParallelJoin
    \/ SupervisorBegins \/ SupervisorOver \/ SupervisorRaises
    \/ \E m \in Members :
          \/ MemberWrites(m)
          \/ ParallelBegin(m) \/ ParallelOver(m) \/ ParallelRaises(m)
          \/ Delegate(m) \/ DelegateOver(m) \/ DelegateFails(m)

\* The loop goes on, and every member's run, being bounded, ends.
GroupFairness ==
    /\ WF_groupVars(PipelineNext \/ PipelineMemberOver \/ PipelineEnds)
    /\ WF_groupVars(ParallelJoin)
    /\ WF_groupVars(SupervisorBegins \/ SupervisorOver)
    /\ \A m \in Members :
          WF_groupVars(ParallelBegin(m) \/ ParallelOver(m) \/ DelegateOver(m))

-----------------------------------------------------------------------------
(***************************************************************************)
(* The members of a blocking pipeline of agents share one budget: however  *)
(* they end, together they never take more turns than it.                  *)
(* (multiagent/orchestrator.py:247-296; docs/reference/multi-agent.md:33)  *)
(***************************************************************************)
TurnsWithinBudget ==
    (gPattern = "pipeline" /\ ~gStreams /\ gNested = {}) => gSpent <= gBudget

(***************************************************************************)
(* What one member writes another sees only under context_sharing: shared, *)
(* and never in a parallel group; an isolated member does not see what the *)
(* caller gave the group either; and in a shared pipeline a member that    *)
(* has begun knows all that the members before it have left.               *)
(* (multiagent/orchestrator.py:201-228; docs/reference/multi-agent.md:73)  *)
(***************************************************************************)
SharingScope ==
    /\ \A m \in Members :
          /\ (gSharing # "shared" \/ gPattern = "parallel") =>
                gMember[m].knows \subseteq {0, m}
          /\ gSharing = "isolated" => gMember[m].knows \subseteq {m}
    /\ (gSharing = "shared" /\ gPattern = "pipeline") =>
          \A m \in Members, n \in Members :
              (n < m /\ gMember[m].state # "idle") => gMember[n].knows \subseteq gMember[m].knows

(***************************************************************************)
(* A group's run comes to an end for its caller, whichever of its members  *)
(* raise, time out or are never reached.                                   *)
(* (multiagent/orchestrator.py:247-317, 457-496, 676-735)                  *)
(***************************************************************************)
GroupAnswers == gStatus = "running" ~> gStatus \in {"completed", "failed", "raised"}

GroupSpec == GroupInit /\ [][GroupNext]_groupVars /\ GroupFairness
=============================================================================
