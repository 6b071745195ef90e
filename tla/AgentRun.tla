------------------------------ MODULE AgentRun ------------------------------
(***************************************************************************)
(* The agent loop of nexus/runner/agent_runner.py: one AgentRunner driving *)
(* the runs of one persisted chat session, one run after another.          *)
(*                                                                         *)
(* A run is submitted, loads the stored session, and alternates LLM calls  *)
(* with the tools the model asks for.  Each turn is saved in two writes:   *)
(* save_session (counter and pending interactions), then append_turn (the  *)
(* turn record), and the session is loaded again.  The run may pause for   *)
(* the client, be cancelled, fail, be steered by the on_turn_end hook, or  *)
(* die between any two steps.                                              *)
(*                                                                         *)
(* store is the serialised session of a durable adapter (file, SQLite,     *)
(* Redis, PostgreSQL), sess the object the running loop holds.  The runner *)
(* is persistable, with its optional summarisers and the curator off.      *)
(***************************************************************************)
EXTENDS Integers, Sequences, FiniteSets

CONSTANTS
  Messages,       \* user messages a client may send
  Injections,     \* messages an on_turn_end hook may inject
  RetryMessage,   \* format_validation_retry_message(...)
  NoMsg,          \* no user message: "" or None
  ToolKinds,      \* kinds of tool registered, among AllToolKinds
  ParallelModes,  \* values of parallel_tool_calls the runs may be given
  TurnLimit,      \* min(turns.max_turns, max_turns)
  MaxCalls,       \* turns.max_tool_calls_per_turn, 0 for no limit
  Structured,     \* result_type is set
  StructRetries,  \* structured_output_max_retries
  HitlAfter,      \* turns.human_in_loop_after_turns, 0 for None
  StopOnEmpty,    \* turns.stop_on_empty_tool_calls
  HookStops,      \* the on_turn_end hook may return "stop"
  MaxAsked,       \* bound: tool calls in one LLM response
  MaxRuns,        \* bound: runs and resumes submitted
  MaxCrashes      \* bound: runs that die half way

AllToolKinds == {"server", "client", "elicit", "approval"}

Texts == Messages \union Injections \union {RetryMessage, NoMsg}

ASSUME TextAssumption ==
  /\ NoMsg \notin Messages \union Injections \union {RetryMessage}
  /\ RetryMessage \notin Messages \union Injections

ASSUME ConfigAssumption ==
  /\ ToolKinds \subseteq AllToolKinds
  /\ ParallelModes \subseteq BOOLEAN
  /\ TurnLimit \in Nat /\ MaxCalls \in Nat /\ StructRetries \in Nat
  /\ HitlAfter \in Nat /\ MaxAsked \in Nat
  /\ Structured \in BOOLEAN /\ StopOnEmpty \in BOOLEAN /\ HookStops \in BOOLEAN

\* The tc_id "HITL" of a human-in-the-loop pause.  The TC ids of tool calls
\* start at 1: next_tc_index increments the counter before it is read.
HITL == 0

VARIABLES
  store,      \* the session as the storage adapter holds it
  sess,       \* the session object of the running loop
  pc,         \* where the loop stands
  run,        \* the loop's local variables
  batch,      \* the tool calls of the turn and their records
  cancelReq,  \* _cancel_requested
  outcome,    \* the AgentRunResult of the last run
  nRuns,      \* runs submitted so far (bound)
  nCrashes    \* runs that died so far (bound)

vars == <<store, sess, pc, run, batch, cancelReq, outcome, nRuns, nCrashes>>

-----------------------------------------------------------------------------
(* Sessions, turns and tool calls                                          *)

Responses == {"", "result", "answer", "superseded"}

\* ToolCallRecord: its id and raw_response.
Call == [tc : Nat, resp : Responses]

\* TurnRecord: asked is the number of tool calls in the assistant message it
\* saves, calls the ToolCallRecords it saves beside that message.
Turn == [idx : Nat, user : Texts, asked : Nat, calls : Seq(Call)]

\* PendingInteraction.
Pending == [tc : Nat, kind : {"client_tool", "elicitation"}]

Session == [turns : Seq(Turn), pend : SUBSET Pending, tcc : Nat]

EmptySession == [turns |-> <<>>, pend |-> {}, tcc |-> 0]

Status == {"completed", "paused", "interrupted", "error", "max_turns_reached"}

\* The locals of _run_loop: current_user_message,
\* parallel_tool_calls, the turns it started from,
\* session_turn_index, run_turn_index, struct_retries_remaining and status.
Run == [msg : Texts, par : BOOLEAN, base : Nat, idx : Nat,
        used : Nat, retries : Nat, status : Status]

NoRun == [msg |-> NoMsg, par |-> FALSE, base |-> 0, idx |-> 0,
          used |-> 0, retries |-> 0, status |-> "completed"]

NoBatch == [calls |-> <<>>, recs |-> <<>>]

NoOutcome == [status |-> "none", used |-> 0, added |-> 0, par |-> FALSE, pend |-> {}]

\* The tool calls of T that wait under an id of ids get response r.
Respond(turns, ids, r) ==
  [i \in DOMAIN turns |->
     [turns[i] EXCEPT !.calls =
        [j \in DOMAIN turns[i].calls |->
           IF turns[i].calls[j].tc \in ids /\ turns[i].calls[j].resp = ""
             THEN [turns[i].calls[j] EXCEPT !.resp = r]
             ELSE turns[i].calls[j]]]]

TcsOf(pend) == {p.tc : p \in pend}

\* Mutant: the open interactions are answered but stay listed.
KeepPendingInteractions(s) ==
  [s EXCEPT !.turns = Respond(s.turns, TcsOf(s.pend), "superseded")]

\* A new user message ends whatever the paused run was waiting for.
ClosePendingInteractions(s) ==
  [s EXCEPT !.turns = Respond(s.turns, TcsOf(s.pend), "superseded"), !.pend = {}]

\* _limit_tool_calls
LimitToolCalls(asked) ==
  IF MaxCalls = 0 \/ Len(asked) <= MaxCalls THEN asked ELSE SubSeq(asked, 1, MaxCalls)

Paused(r) == r.tc # 0 /\ r.resp = ""

\* The record of a call that has not been handled yet.
Todo == [tc |-> 0, resp |-> ""]

\* use_parallel: several calls, none of them a client or an approval tool.
UseParallel ==
  /\ run.par
  /\ Len(batch.calls) > 1
  /\ \A i \in DOMAIN batch.calls : batch.calls[i] \notin {"client", "approval"}

Unhandled == {i \in DOMAIN batch.recs : batch.recs[i].tc = 0}

PausedAt == {i \in DOMAIN batch.recs : Paused(batch.recs[i])}

\* Sequential handling stops at the first call that pauses the run.
BatchDone == Unhandled = {} \/ (~UseParallel /\ PausedAt # {})

\* The records the turn keeps: both loops break after the first paused one.
KeptRecords ==
  IF PausedAt = {} THEN batch.recs
  ELSE SubSeq(batch.recs, 1, CHOOSE i \in PausedAt : \A j \in PausedAt : i <= j)

\* The TurnRecord of the turn: the user's message belongs to the first one.
NewTurn ==
  [idx |-> run.idx, user |-> IF run.used = 0 THEN run.msg ELSE NoMsg,
   asked |-> Len(batch.calls), calls |-> KeptRecords]

\* What the request in flight tells the model the users said.
RequestTexts ==
  {sess.turns[i].user : i \in DOMAIN sess.turns}
    \union (IF run.used = 0 THEN {run.msg} ELSE {})

-----------------------------------------------------------------------------
(* Leaving the loop                                                        *)

\* A break: the check after the loop may still replace the status.
Break(status, used) ==
  /\ pc' = "finish"
  /\ run' = [run EXCEPT !.used = used,
               !.status = IF used >= TurnLimit THEN "max_turns_reached" ELSE status]

\* RunCancelled, or another exception, is caught outside the loop.
Raise(status) ==
  /\ pc' = "finish"
  /\ run' = [run EXCEPT !.status = status]

-----------------------------------------------------------------------------
(* Submitting, resuming, cancelling                                        *)

\* run() or run_stream() is called with message m: nothing happens until the
\* event loop first steps the coroutine.
Submit(m, par) ==
  /\ pc = "idle" /\ nRuns < MaxRuns
  /\ pc' = "scheduled"
  /\ run' = [NoRun EXCEPT !.msg = m, !.par = par]
  /\ nRuns' = nRuns + 1
  /\ outcome' = NoOutcome
  /\ UNCHANGED <<store, sess, batch, cancelReq, nCrashes>>

\* resume() with results for the pending interactions in answered: every
\* pending interaction is dropped, those without a result keep an empty one.
Resume(answered, par) ==
  /\ pc = "idle" /\ nRuns < MaxRuns
  /\ store.pend # {}
  /\ answered \subseteq store.pend
  /\ store' = [store EXCEPT !.turns = Respond(store.turns, TcsOf(answered), "answer"),
                            !.pend = {}]
  /\ pc' = "scheduled"
  /\ run' = [NoRun EXCEPT !.par = par]
  /\ nRuns' = nRuns + 1
  /\ outcome' = NoOutcome
  /\ UNCHANGED <<sess, batch, cancelReq, nCrashes>>

\* cancel().  With no run in flight the flag is not modelled: Begin clears it.
Cancel ==
  /\ pc # "idle" /\ ~cancelReq
  /\ cancelReq' = TRUE
  /\ UNCHANGED <<store, sess, pc, run, batch, outcome, nRuns, nCrashes>>

\* The first step of _run_loop: clear the cancel flag, load the session (or
\* create it), close what a new message supersedes, save.
Begin ==
  /\ pc = "scheduled"
  /\ cancelReq' = FALSE
  /\ sess' = IF run.msg # NoMsg /\ store.pend # {}
               THEN ClosePendingInteractions(store) ELSE store
  /\ store' = sess'
  /\ run' = [run EXCEPT !.base = Len(store.turns), !.idx = Len(store.turns),
                        !.retries = StructRetries]
  /\ pc' = "loop"
  /\ UNCHANGED <<batch, outcome, nRuns, nCrashes>>

-----------------------------------------------------------------------------
(* A turn: the LLM call                                                    *)

\* The head of the while loop.
StartTurn ==
  /\ pc = "loop"
  /\ \/ run.used >= TurnLimit /\ Break(run.status, run.used)
     \/ run.used < TurnLimit /\ cancelReq /\ Raise("interrupted")
     \/ run.used < TurnLimit /\ ~cancelReq /\ pc' = "llm" /\ run' = run
  /\ UNCHANGED <<store, sess, batch, cancelReq, outcome, nRuns, nCrashes>>

\* The provider raises, or a streamed call meets the cancel flag.
CallFails ==
  /\ pc = "llm"
  /\ Raise("error") \/ (cancelReq /\ Raise("interrupted"))
  /\ UNCHANGED <<store, sess, batch, cancelReq, outcome, nRuns, nCrashes>>

\* Mutant: the retry counter is not decremented.
RetryForever ==
  /\ pc = "llm" /\ Structured
  /\ \/ /\ run.retries > 0
        /\ run' = [run EXCEPT !.msg = RetryMessage]
        /\ pc' = "loop"
     \/ run.retries = 0 /\ Raise("error")
  /\ UNCHANGED <<store, sess, batch, cancelReq, outcome, nRuns, nCrashes>>

\* A reply without tool calls that the result type rejects: ask again in the
\* same turn while retries last, fail afterwards.
ReplyInvalid ==
  /\ pc = "llm" /\ Structured
  /\ \/ /\ run.retries > 0
        /\ run' = [run EXCEPT !.retries = @ - 1, !.msg = RetryMessage]
        /\ pc' = "loop"
     \/ run.retries = 0 /\ Raise("error")
  /\ UNCHANGED <<store, sess, batch, cancelReq, outcome, nRuns, nCrashes>>

\* A reply without tool calls that is accepted.
ReplyText ==
  /\ pc = "llm"
  /\ pc' = "tools"
  /\ run' = [run EXCEPT !.retries = IF Structured THEN StructRetries ELSE @]
  /\ UNCHANGED <<store, sess, batch, cancelReq, outcome, nRuns, nCrashes>>

\* A reply asking for tools, of which the first MaxCalls are kept.
ReplyTools(calls) ==
  /\ pc = "llm"
  /\ pc' = "tools"
  /\ batch' = [calls |-> calls, recs |-> [i \in 1..Len(calls) |-> Todo]]
  /\ UNCHANGED <<store, sess, run, cancelReq, outcome, nRuns, nCrashes>>

-----------------------------------------------------------------------------
(* A turn: the tools                                                       *)

\* Mutant: sequential calls do not look at the cancel flag.
MayHandleCancelled(i) ==
  /\ pc = "tools" /\ i \in Unhandled
  /\ UseParallel \/ (PausedAt = {} /\ \A j \in Unhandled : i <= j)

\* Calls run one after another, or in any order under asyncio.gather.
MayHandle(i) ==
  /\ pc = "tools" /\ i \in Unhandled
  /\ UseParallel \/ (PausedAt = {} /\ ~cancelReq /\ \A j \in Unhandled : i <= j)

\* The tool runs here; an exception it raises becomes its response too.
RunServerTool(i) ==
  /\ MayHandle(i)
  /\ batch.calls[i] = "server"
  /\ sess' = [sess EXCEPT !.tcc = @ + 1]
  /\ batch' = [batch EXCEPT !.recs[i] =
                 [tc |-> sess.tcc + 1, resp |-> "result"]]
  /\ UNCHANGED <<store, pc, run, cancelReq, outcome, nRuns, nCrashes>>

\* The call waits for the client: it is recorded with an empty response.
DeferToClient(i) ==
  /\ MayHandle(i)
  /\ batch.calls[i] \in {"client", "elicit"}
  /\ sess' = [sess EXCEPT !.tcc = @ + 1,
                !.pend = @ \union {[tc |-> sess.tcc + 1,
                                    kind |-> IF batch.calls[i] = "client"
                                               THEN "client_tool" ELSE "elicitation"]}]
  /\ batch' = [batch EXCEPT !.recs[i] =
                 [tc |-> sess.tcc + 1, resp |-> ""]]
  /\ run' = [run EXCEPT !.status = "paused"]
  /\ UNCHANGED <<store, pc, cancelReq, outcome, nRuns, nCrashes>>

\* A tool that requires approval: PendingInteraction does not admit the kind
\* "approval", so building it raises and the run fails.
RejectApproval(i) ==
  /\ MayHandle(i)
  /\ batch.calls[i] = "approval"
  /\ sess' = [sess EXCEPT !.tcc = @ + 1]
  /\ Raise("error")
  /\ batch' = NoBatch
  /\ UNCHANGED <<store, cancelReq, outcome, nRuns, nCrashes>>

\* Between two sequential calls the flag is checked; the turn so far is lost.
CancelBetweenTools ==
  /\ pc = "tools" /\ ~BatchDone /\ ~UseParallel /\ cancelReq
  /\ Raise("interrupted")
  /\ batch' = NoBatch
  /\ UNCHANGED <<store, sess, cancelReq, outcome, nRuns, nCrashes>>

-----------------------------------------------------------------------------
(* A turn: persisting it                                                   *)

\* Mutant: the turn is appended without saving the session first.
SkipSaveState ==
  /\ pc = "tools" /\ BatchDone
  /\ pc' = "append"
  /\ UNCHANGED <<store, sess, run, batch, cancelReq, outcome, nRuns, nCrashes>>

\* _persist_turn_with_state, first write: the session without the new turn.
SaveState ==
  /\ pc = "tools" /\ BatchDone
  /\ store' = sess
  /\ pc' = "append"
  /\ UNCHANGED <<sess, run, batch, cancelReq, outcome, nRuns, nCrashes>>

\* Mutant: the session is not loaded again.
AppendWithoutReload ==
  /\ pc = "append"
  /\ store' = [store EXCEPT !.turns = Append(@, NewTurn)]
  /\ IF run.status = "paused" THEN Break("paused", run.used)
     ELSE pc' = "turnend" /\ run' = run
  /\ UNCHANGED <<sess, batch, cancelReq, outcome, nRuns, nCrashes>>

\* Second write: append_turn to the stored session, then load it again.  A
\* paused run ends here.
AppendTurn ==
  /\ pc = "append"
  /\ store' = [store EXCEPT !.turns = Append(@, NewTurn)]
  /\ sess' = store'
  /\ IF run.status = "paused" THEN Break("paused", run.used)
     ELSE pc' = "turnend" /\ run' = run
  /\ UNCHANGED <<batch, cancelReq, outcome, nRuns, nCrashes>>

\* The turn was a final answer.
FinalTurn == batch.calls = <<>> /\ StopOnEmpty

HumanInLoopDue == HitlAfter # 0 /\ run.used + 1 >= HitlAfter

\* on_turn_end returns "stop".
HookStop ==
  /\ pc = "turnend" /\ HookStops
  /\ Break("interrupted", run.used)
  /\ batch' = NoBatch
  /\ UNCHANGED <<store, sess, cancelReq, outcome, nRuns, nCrashes>>

\* on_turn_end injects a message, even after a final answer.
HookInject(m) ==
  /\ pc = "turnend"
  /\ run' = [run EXCEPT !.msg = m, !.idx = @ + 1, !.used = @ + 1]
  /\ pc' = "loop"
  /\ batch' = NoBatch
  /\ UNCHANGED <<store, sess, cancelReq, outcome, nRuns, nCrashes>>

\* Mutant: the paused turn is counted before the check of the turn limit.
PauseForHumanCounted ==
  /\ pc = "turnend" /\ HumanInLoopDue
  /\ sess' = [sess EXCEPT !.pend = @ \union {[tc |-> HITL, kind |-> "elicitation"]}]
  /\ store' = sess'
  /\ Break("paused", run.used + 1)
  /\ batch' = NoBatch
  /\ UNCHANGED <<cancelReq, outcome, nRuns, nCrashes>>

\* human_in_loop_after_turns is reached: pause and save.
PauseForHuman ==
  /\ pc = "turnend" /\ HumanInLoopDue
  /\ sess' = [sess EXCEPT !.pend = @ \union {[tc |-> HITL, kind |-> "elicitation"]}]
  /\ store' = sess'
  /\ Break("paused", run.used)
  /\ batch' = NoBatch
  /\ UNCHANGED <<cancelReq, outcome, nRuns, nCrashes>>

\* No decision and no pause: a final answer ends the run, a turn with tools
\* goes on unless it took longer than turn_timeout_seconds.
EndTurn ==
  /\ pc = "turnend" /\ ~HumanInLoopDue
  /\ \/ /\ FinalTurn
        /\ pc' = "finish"
        /\ run' = [run EXCEPT !.idx = @ + 1, !.used = @ + 1,
                     !.status = IF run.used + 1 >= TurnLimit
                                  THEN "max_turns_reached" ELSE @]
     \/ ~FinalTurn /\ Raise("error")
     \/ /\ ~FinalTurn
        /\ pc' = "loop"
        /\ run' = [run EXCEPT !.idx = @ + 1, !.used = @ + 1]
  /\ batch' = NoBatch
  /\ UNCHANGED <<store, sess, cancelReq, outcome, nRuns, nCrashes>>

\* The final save and the AgentRunResult.
Finish ==
  /\ pc = "finish"
  /\ store' = sess
  /\ outcome' = [status |-> run.status, used |-> run.used,
                 added |-> Len(sess.turns) - run.base,
                 par |-> run.par, pend |-> sess.pend]
  /\ pc' = "idle"
  /\ run' = NoRun /\ batch' = NoBatch /\ sess' = EmptySession
  /\ UNCHANGED <<cancelReq, nRuns, nCrashes>>

\* The process dies, or the task of the run is cancelled (CancelledError is
\* not caught): what was not saved is gone.
Crash ==
  /\ pc # "idle" /\ nCrashes < MaxCrashes
  /\ pc' = "idle"
  /\ nCrashes' = nCrashes + 1
  /\ outcome' = NoOutcome
  /\ run' = NoRun /\ batch' = NoBatch /\ sess' = EmptySession
  /\ UNCHANGED <<store, cancelReq, nRuns>>

-----------------------------------------------------------------------------
(* Specification                                                           *)

Init ==
  /\ store = EmptySession /\ sess = EmptySession
  /\ pc = "idle" /\ run = NoRun /\ batch = NoBatch
  /\ cancelReq = FALSE /\ outcome = NoOutcome
  /\ nRuns = 0 /\ nCrashes = 0

Requests ==
  {LimitToolCalls(asked) : asked \in UNION {[1..n -> ToolKinds] : n \in 1..MaxAsked}}

HandleTool ==
  \E i \in 1..MaxAsked : RunServerTool(i) \/ DeferToClient(i) \/ RejectApproval(i)

Client ==
  \/ \E m \in Messages, par \in ParallelModes : Submit(m, par)
  \/ \E answered \in SUBSET store.pend, par \in ParallelModes : Resume(answered, par)
  \/ Cancel

Reply == ReplyInvalid \/ ReplyText \/ CallFails \/ \E calls \in Requests : ReplyTools(calls)

TurnEnd ==
  \/ HookStop
  \/ \E m \in Injections : HookInject(m)
  \/ PauseForHuman
  \/ EndTurn

\* The steps of the run itself, which the event loop takes.
Loop ==
  \/ Begin \/ StartTurn \/ Reply \/ HandleTool \/ CancelBetweenTools
  \/ SaveState \/ AppendTurn \/ TurnEnd \/ Finish

\* Between runs the session rests in its store: only there may nothing happen.
Rest == pc = "idle" /\ UNCHANGED vars

Next == Client \/ Loop \/ Crash \/ Rest

Spec == Init /\ [][Next]_vars

\* The event loop keeps stepping a run it has started, and the LLM call and
\* the tools return or time out.
FairSpec == Spec /\ WF_vars(Loop)

-----------------------------------------------------------------------------
(* Properties                                                              *)

\* Every variable holds a value of its type.
TypeOK ==
  /\ store \in Session /\ sess \in Session
  /\ pc \in {"idle", "scheduled", "loop", "llm", "tools", "append", "turnend", "finish"}
  /\ run \in Run
  /\ batch \in [calls : Seq(ToolKinds), recs : Seq(Call)]
  /\ cancelReq \in BOOLEAN
  /\ outcome \in [status : Status \union {"none"}, used : Nat, added : Int,
                  par : BOOLEAN, pend : SUBSET Pending]
  /\ nRuns \in Nat /\ nCrashes \in Nat

\* The TC ids of the stored session are handed out once: no two stored calls
\* share one and the stored counter covers them all, whatever run was cut
\* short between saving the counter and appending the turn.
TcIdsUnique ==
  LET turns == store.turns IN
  /\ \A i \in DOMAIN turns : \A j \in DOMAIN turns[i].calls :
       /\ turns[i].calls[j].tc \in 1..store.tcc
       /\ \A k \in DOMAIN turns : \A l \in DOMAIN turns[k].calls :
            turns[i].calls[j].tc = turns[k].calls[l].tc => i = k /\ j = l
  /\ \A p \in store.pend : p.tc <= store.tcc

\* The stored turns are numbered 0, 1, 2, ... in the order they were appended.
TurnsNumbered == \A i \in DOMAIN store.turns : store.turns[i].idx = i - 1

\* A run reports "paused" exactly when it leaves something to answer: no
\* later check turns a pause into another status, no other end leaves one.
PausedIffPending ==
  outcome.status # "none" => (outcome.status = "paused" <=> outcome.pend # {})

\* turns_used against the turns the run stored: equal when the run went to
\* its end, one less when it was cut short after storing a turn.
TurnsAccounted ==
  outcome.status # "none" =>
    /\ outcome.added \in {outcome.used, outcome.used + 1}
    /\ outcome.status \in {"completed", "max_turns_reached"} => outcome.added = outcome.used
    /\ outcome.added <= TurnLimit

\* The stored history only grows: a stored turn never goes away, and nothing
\* in it changes but an empty response being filled in.
HistoryKept ==
  [][/\ Len(store.turns) <= Len(store'.turns)
     /\ \A i \in DOMAIN store.turns :
          LET old == store.turns[i]
              new == store'.turns[i]
          IN /\ [old EXCEPT !.calls = <<>>] = [new EXCEPT !.calls = <<>>]
             /\ DOMAIN old.calls = DOMAIN new.calls
             /\ \A j \in DOMAIN old.calls :
                  \/ old.calls[j] = new.calls[j]
                  \/ old.calls[j].resp = "" /\ [old.calls[j] EXCEPT !.resp = new.calls[j].resp]
                                                 = new.calls[j]]_store

\* The calls of the turn that nothing holds back any more: side by side all of
\* them from the reply on, as gather starts them without a look at the cancel
\* flag; one after another those taken up so far.
Begun ==
  IF pc # "tools" THEN {}
  ELSE IF UseParallel THEN DOMAIN batch.calls ELSE DOMAIN batch.recs \ Unhandled

\* Once a running run is asked to stop it sends no further request and takes
\* up no further call, with one exception: the reply to the request in flight
\* may still ask for calls side by side, and all of those run.
CancelStopsWork ==
  [][cancelReq /\ cancelReq' =>
       /\ pc' = "llm" => pc = "llm"
       /\ Begun' \subseteq Begun \/ (pc = "llm" /\ UseParallel')]_vars

\* The pending interactions of the stored session follow the protocol a
\* client is promised: fresh tickets, never mixed with older open ones.
Promise == INSTANCE PauseProtocol WITH
             Reusable <- HITL, open <- TcsOf(store.pend), issued <- store.tcc

FollowsPauseProtocol == Promise!Spec

\* Every run that is submitted ends: it reports a result or dies.
RunEnds == (pc = "scheduled") ~> (pc = "idle")

\* What the loop's session and locals say of the stored session at each point
\* of a run; from it the invariants above follow.
Waiting == run.used = 0 /\ run.status = "completed" /\ (run.msg = NoMsg => store.pend = {})

Asking ==
  /\ sess = store /\ store.pend = {}
  /\ run.status = "completed"
  /\ run.idx = Len(store.turns) /\ run.idx = run.base + run.used

Handling ==
  /\ sess.turns = store.turns /\ store.pend = {}
  /\ store.tcc <= sess.tcc
  /\ \A p \in sess.pend : p.tc \in (store.tcc + 1)..sess.tcc
  /\ run.status = IF sess.pend = {} THEN "completed" ELSE "paused"
  /\ PausedAt = {} => sess.pend = {}
  /\ DOMAIN batch.recs = DOMAIN batch.calls
  /\ run.idx = Len(store.turns) /\ run.idx = run.base + run.used

Appending ==
  /\ sess = store
  /\ run.status = IF store.pend = {} THEN "completed" ELSE "paused"
  /\ run.idx = Len(store.turns) /\ run.idx = run.base + run.used

Deciding ==
  /\ sess = store /\ store.pend = {}
  /\ run.status = "completed"
  /\ run.idx + 1 = Len(store.turns) /\ run.idx = run.base + run.used

Leaving ==
  /\ sess.turns = store.turns /\ sess.pend = store.pend /\ store.tcc <= sess.tcc
  /\ sess.pend # {} => store.tcc = sess.tcc
  /\ run.status = "paused" <=> sess.pend # {}
  /\ Len(store.turns) - run.base \in {run.used, run.used + 1}
  /\ run.status \in {"completed", "max_turns_reached"} =>
       Len(store.turns) = run.base + run.used
  /\ Len(store.turns) - run.base <= TurnLimit

LoopInv ==
  /\ pc = "scheduled" => Waiting
  /\ pc \in {"loop", "llm"} => Asking
  /\ pc = "tools" => Handling
  /\ pc = "append" => Appending
  /\ pc = "turnend" => Deciding
  /\ pc = "finish" => Leaving
  /\ pc \in {"idle", "scheduled", "loop", "llm"} => batch = NoBatch
  /\ pc = "loop" => run.used <= TurnLimit
  /\ pc \in {"llm", "tools", "append", "turnend"} => run.used < TurnLimit

\* The conversation sent to the model answers every call it shows: an
\* assistant message with tool calls is followed by a result for each.
EveryCallAnswered ==
  pc = "llm" => \A i \in DOMAIN sess.turns : Len(sess.turns[i].calls) = sess.turns[i].asked

\* The message an on_turn_end hook injects is in the next request.
CurrentMessageHeard == pc = "llm" /\ run.msg # NoMsg => run.msg \in RequestTexts

\* cancel() on a run that was started holds until the run has ended, even if
\* the event loop has not stepped it yet.
CancelKept == [][pc # "idle" /\ cancelReq => cancelReq']_vars
=============================================================================
