# A verification project for nexus

`nexus` is an agent framework: a runner that alternates LLM calls with tools over
a stored chat session, and around it context management, memory, multi-agent
groups, realtime voice pipelines and media-engine servers.  This directory models
the control of these parts, checks the models with TLC, and proves the main results
with TLAPS.

Sections: the system (1), the models (2), what is checked (3), the bounds (4),
fairness (5), what is proved (6), what the checks found (7), what is left out (8),
what remains (9).

## 1. The system

Paths are under `src/nexus/`.  The last column names the module that models the part.

| component | state | operations | talks to | module |
|---|---|---|---|---|
| agent loop, `runner/agent_runner.py`, with `session/models.py` | the session object, `_cancel_requested`, locals of `_run_loop` | `run`, `run_stream`, `resume`, `cancel`, `on_turn_end` | session adapter, LLM, tools, hook, summarisers, client | `AgentRun`, `PauseProtocol` |
| tool sets of a run, `runner/agent_runner.py`, `tools/` | `_allowed_tools`, `_runtime_granted_tools`; `_tools`, `_toolsets` | `define_toolset`, `grant_*`, `revoke_tools`, schemas of a turn | agent loop | `Toolsets`, `ToolGrants` |
| LLM call, `runner/`, `llm/` | the deltas of the answer, attempts | `chat`, `chat_stream`, retries, calls written in text | agent loop, provider | `LlmCall` |
| session adapters, `session/adapters/` | one stored document per session, row locks, lists, an index | `save_session`, `load_session`, `delete_session`, `append_turn`, `update_tc_summary`, `list_*` | several clients at once | `SessionStore`, `AtomicStore`, `SessionLists` |
| file paths and index, `storage/paths.py`, `session/adapters/file.py` | a file and its lock per session, one index | save, load, delete, locate | several processes | `SessionFiles` |
| group view, `session/aggregate.py` | none; reads the sessions of a group | four patterns | orchestrator's records | `SessionTree` |
| context summariser, `context/summarizer.py` | none of its own; rewrites the session | `should_trigger`, `summarize` | agent loop, a summary LLM | `ContextFold` |
| context window, `context/builder.py`, `rcs/`, `tools/interceptor.py` | `last_untrimmed_tokens`, summaries of tool results | build, degrade, drop, compact | agent loop, adapters | `ContextWindow` |
| long-term memory, `memory/` | a record of facts per user and store | `merge_entities`, approval, edits, curation | agent loop, several sessions of one user | `MemoryFacts`, `Curation` |
| orchestrator, `multiagent/orchestrator.py` | turn budget, shared state | pipeline, parallel, supervisor | many agent loops | `GroupRun` |
| manifest, `orchestration/` | the path of the walk | load, resolve | orchestrator | `Manifest` |
| realtime pipelines, `realtime/` | tasks, output queue, barge-in, languages | reader, reply, consumer; validation and set-up | agent loop, STT and TTS engines | `VoiceDuplex`, `VoiceReply`, `VoiceTurns`, `VoiceSetup` |
| speech-to-speech, `adapters/s2s/` | a socket, a sender task | `run_audio`, `run_text` | the model, tools | `SpeechToSpeech` |
| media servers, `server/` | replica pool, a queue and a stop flag per stream | `run_engine`, `stream_engine` | threads and the event loop | `EngineStream` |
| stream replay, `serve/` | a bounded event buffer per session | start, append, finish, replay, prune | HTTP clients that come back | `StreamReplay` |
| scheduler, `jobs/` | jobs, the background loop | save, delete, tick, start, stop | agent loop | `JobTicks` |
| knowledge base, `rag/` | chunks by collection | chunk, ingest, retrieve | tools | `RagIndex` |
| learned skills, `skills/store.py` | a table, or a directory of files | upsert, disable, delete, search | agent loop | `SkillStore` |
| channels, guardrails, MCP, CLI, evaluation | little or none | routing, checks, I/O | - | - |

What is hard, component by component, and what makes it correct:

* **Agent loop.**  A turn is saved in two writes (`save_session`, then
  `append_turn`), after which the session is loaded again; a run may die, be
  cancelled, fail or pause at every `await`; parallel tools take ids and append
  pending interactions in any order; a pause hands control to a client that may
  answer some of what is asked, or say something else.  Correct means: the loop
  never works on a session that is not the stored one; ids are never reused;
  history is only extended; a pause is reported exactly when something is open,
  and what is asked can be answered; a cancelled run takes up nothing more; each
  request tells the model what the user said; every run ends.
* **Adapters and files.**  `append_turn` is read-modify-write on a document that
  others save, delete and append to; an index is written apart from what it
  indexes, and a process may die between the two.  Correct means: an append is
  atomic, a deleted session stays deleted, what overwriting writers lose is the end of a
  history and never its middle, pages show every session once, "no such session" is true.
* **Summariser, context window.**  Turns leave the session by *number*, in a session
  that numbers its turns by *length*, across an LLM call that may fail; a request is
  cut to a budget.  Correct means: only what was summarised leaves, nothing is told
  twice, and no turn is dropped that would have fitted.
* **Memory and skills.**  Load, merge, cap and save without a lock; triggers that
  count turn numbers.  Correct means: no fact is lost by operations that do not
  overlap, none unapproved is injected, none the user told misses the next prompts.
* **Orchestrator.**  A turn budget shared by members; delegates side by side,
  time-outs that abandon one half way, contexts synchronised down and up.  Correct
  means: the budget holds, facts travel as configured, the caller is answered.
* **Realtime.**  Reader, reply and consumer tasks over one queue, with barge-in and
  with languages that several steps assign.  Correct means: only speech cuts a reply,
  what is said is what is shown, the language asked for is kept, every call ends.
* **Servers and replay.**  Threads and consumers that leave at any point; a
  buffer that is bounded, replaced and pruned while it is read.  Correct means:
  complete means all, nothing is sent twice, nobody waits for ever.

`PROJECT.json` lists the hazards of this code at their lines, with the properties
that cover them and, in a note, what such a property does not claim.

## 2. The models

```
   client --- Submit / Resume / Cancel ---> AgentRun ---implements--> PauseProtocol
                                              |  store / sess
                        one writer            |
   SessionStore  <--- save, append, load -----+      SessionStore --implements--> AtomicStore
   (many clients, five backends)                     (where the row is locked)
   ContextFold: the summariser between two turns of the loop, over many runs
```

### AgentRun - the agent loop

One action per step of `_run_loop` and its helpers; between two actions there is
an `await` where something else may happen.

| state | code |
|---|---|
| `store` | the serialised session of the adapter: turns, pending interactions, TC counter |
| `sess` | the session object of the running loop |
| `pc` | where the loop stands |
| `run` | the locals: current message, `parallel_tool_calls`, turns the run started from, `session_turn_index`, `run_turn_index`, retries, status |
| `batch` | `tool_requests` and `turn_tool_records` |
| `cancelReq` | `_cancel_requested` |
| `outcome` | the `AgentRunResult` |

| action | code |
|---|---|
| `Submit`, `Resume`, `Cancel` | `run`/`run_stream`, `resume`, `cancel` |
| `Begin` | first step: clear the flag, load or create, `_close_pending_interactions`, save |
| `StartTurn` | head of the `while`: turn limit, cancellation |
| `CallFails`, `ReplyInvalid`, `ReplyText`, `ReplyTools` | `_call_llm` and what is made of its answer: exception, structured-output retry, text, tools after `_limit_tool_calls` |
| `RunServerTool`, `DeferToClient`, `RejectApproval` | the branches of `_handle_tool` |
| `CancelBetweenTools` | `_raise_if_cancelled` between sequential tools |
| `SaveState`, `AppendTurn` | the two writes of `_persist_turn_with_state`, and the reload |
| `HookStop`, `HookInject`, `PauseForHuman`, `EndTurn` | the `on_turn_end` decision, `human_in_loop_after_turns`, the end of the turn |
| `Finish` | the final save and the result |
| `Crash` | the process dies, or the run's task is cancelled |

Data is abstracted to what the properties tell apart: a user message is a model
value, a tool its kind (`server`, `client`, `elicit`, `approval`), a response
one of *none, result, answer, superseded*.  The order in which parallel tools
finish is free.  A `break` meets the turn-limit check after the loop (`Break`), an
exception does not (`Raise`).  `RejectApproval` fails the run because
`PendingInteraction` does not admit the kind `approval`.

### PauseProtocol - what a client is promised

Two variables: the tickets that are open, and the last one issued.  `Ask` opens
fresh tickets when none is open; `Close` closes all of them together.  The ticket
of a human-in-the-loop pause repeats.  `AgentRun` implements it with
`open <- ids of store.pend`, `issued <- store.tcc`: the two writes of a turn, the
crash between them, `resume` and the superseding message are all steps of it.

### SessionStore - the durable adapters

Several clients of one stored session; `backend` is any of the five durable
adapters.  `Open`, `Save`, `Delete` are one step each; `append_turn` and
`update_tc_summary` are a `Read` and a `Write`, between which others act and the
client may `Die`.  `postgresql` and `base_sql` take the row's lock in between
(`SELECT ... FOR UPDATE`); the write of `sqlite` is an `UPDATE` that finds no row
when the session is gone; `file` and `redis` write with `save_session`, which
creates it; `file` and `base_sql` return before writing when the tool call is not
there (`NothingToWrite`).  A turn stands for its record and its tool call, a
summary for the `summarized_response` of that call.  The session is stored at
first, so the clients meet one that exists, was deleted, or was put back.

### AtomicStore - what `StorageAdapter` promises

The same operations, each in one step.  With a row lock every step of
`SessionStore` is a step of it or leaves it alone.

### ContextFold - the context summariser

`summarize` and its trigger, as the loop uses them over several runs.  A turn is
its place in the conversation, its `turn_index` and whether it has text for the
digest.  `Start` takes the first number from the number of turns in the session;
`AskSummary` chooses the oldest foldable turns and sends their digest; `Fold`
appends the answer to `summary_text`, removes turns by number and moves
`summary_through_turn`; `FoldFails` is an exception or an empty answer; `KeepAll`
is every early return.  Whether the context is full is a free choice, so the
results hold for every token count.

### VoiceDuplex, VoiceReply, VoiceTurns - the cascaded voice pipeline

Three questions of `realtime/pipelines/cascaded.py` that do not share state, each a
module of its own.

* **VoiceDuplex** is `_full_duplex`: a reader task (`dReader`) turns frames into VAD
  events and starts reply tasks (`dReplies`, the last is `response_task`), everything
  goes through `out_q` (`dQueue`), and the consumer (`dConsumer`) decides from the
  sentinels DONE and RESP_DONE when to return.  `ReadSpeechStart`, `ReadSpeechEnd`,
  `ReadOther` are the branches of the reader's loop, each with `_maybe_fire_barge_in`
  (`dPending`, `dBargeMs`); `ReadClose` and `ReadFail` its two ends; `ReplyBegins`,
  `ReplyEvent` and `ReplyOver` the task of a reply, which a cancellation ends only when it
  next runs; `ReplyNeverBegins` one that is cancelled before its first step, so that its
  `finally` never runs; `ConsumerGet` what the consumer does with each item;
  `ConsumerLeave` closes the generator, which cancels nothing at its first yield.
* **VoiceReply** is `_agent_stream`: `_read_llm` (`wLlm`) cuts the text into sentences,
  `_tts_worker` (`wTts`) speaks them, both feed `out` until each has said that it is
  done (`wRunning`).  A sentence is the range of the pieces of text it is made of, so
  that a gap, a repetition and a wrong order can be told.
* **VoiceTurns** is the language of a half-duplex call: `session_lang`, `forced_lang`
  and the reply's language, which identification, transcription, the words of the
  caller, an empty transcript and each failure assign in turn.  The default may be any
  language, as the validation only warns of one that is not allowed (`Clamps`, `Fallback`,
  `IndicFallbacks` are the three ways in which the code then picks another).

### VoiceSetup - from a configuration to a pipeline

`Check` is `realtime/validation.py` (references, engine languages, languages,
greeting) with what it logs; `BuildPipeline` refuses in strict mode or builds the
four adapters with the code's own rule for finding a server (`Resolves`,
`GrpcAdapter`); `BuildVoiceTeam` builds without either.  The two sides are separate
definitions because they are separate code.

### SpeechToSpeech - a call to a speech-to-speech model

Both adapters: the sender task (`xSender`), the generator (`xPump`), the socket and
the model.  The model is external: it answers what it is asked, may speak unasked, and
may lose the connection.  `SenderFinishes` is what a sender does when the audio is over
(openai commits and asks for a response, moshi closes the socket), `Leave` the
`finally` that cancels the sender and closes.

### EngineStream - calls of a media server

`run_engine` and `stream_engine` with the replica pool: a client coroutine
(`eClient`), a worker thread (`eWork`) that waits for the executor, then for the
replica's lock, and, for a stream, looks at the stop flag between chunks.  What a
thread hands over with `call_soon_threadsafe` arrives in order.

### StreamReplay - reattaching to a stream

The buffers are objects (`pBuffers`), the key of the session points at one of them
(`pCurrent`): a run writes to the one in place, a reader keeps the one it found.  All
readers of a buffer share one signal, and each clears it.  `Expire` is `_prune`;
`pSaved` is the `stream_seq` in the session from which the next run counts on.
The comprehensions of `replay`, and of `LlmCall`'s merged calls, are written with
**Ordered**, which says what a filtered list is by the places it keeps.

### GroupRun - a group of agents

The three patterns, blocking and streamed.  A member is its start, the facts it writes
and its end with the turns it took; contexts are sets of writers, so that `Down` and
`Up` are the context's `_sync_down` and `_sync_up`.  Delegates run side by side; a
delegate may be cancelled by the tool time-out (`lost`).  Members may be groups
(`gNested`), whose results in the blocking patterns raise, as the code's do.

### JobTicks - the scheduler

`Tick` takes a snapshot of the stored jobs, `JobOver` ends one and goes on to the next,
or ends the tick when it raises.  `start_background` may be called again, `stop`
cancels the loop it knows.

### MemoryFacts and Curation - long-term memory

**MemoryFacts** has one record per store, live and pending, and for each client the
operation it is in: a list of loads and saves that `MemoryLoad` and `MemorySave` work
off.  On the in-process store an operation is not interleaved, on a database it is.
`mIdeal` is the abstract record: each operation as one step.
**Curation** is the other half: after which turn and at which end `should_trigger`
says yes, which turns the digest holds, where approved and unapproved facts go, and
when the runner loads them again.  A turn tells one fact, so a fact is a turn.

### ContextWindow - what reaches the model

Texts are their cost in tokens.  `Intercept` and `CompactBegin`/`Next`/`End` put
summaries in place of tool results; `BuildBegin`, `DegradeOldest`, `DropOldest`,
`BuildEnd` are the loops of `ContextWindowBuilder.build`, one step per iteration, and
`BuildUse` the user message put back.

### LlmCall, Toolsets, ToolGrants - what a turn asks and offers

**LlmCall**: attempts with retries, the deltas of several calls merged by index into
`tool_calls_acc`, calls written out in text or reasoning, the limit, the message that
is saved.  **Toolsets**: named bundles, redefinition, and the walk
`resolve_toolset_tools` with its shared set of visited names, one step per call of it.
The calls to come are the list `xCalls`, the next one first; the function is synchronous,
so nothing is registered before `Return`.
**ToolGrants**: which tools a turn offers, from the plugins or from an allow-list that
each run computes and grants change; its own registration of skill tools included.

### SessionLists, SessionTree, SessionFiles - reading sessions back

**SessionLists** has the page of each of the six adapters as the code computes it
(sort, filter, cut in the code's order), the group members by prefix, and redis's index
written apart from its keys, which may run out by itself (`RedisIndexExpires`).  The query of
`base_sql` names no order, so a page of it is any of `BaseSqlPages`.  redis's SCAN is taken
to return each key once.  **SessionTree** has the records a supervisor leaves and
the views built of them; a node of a view is a member, the call it stands for and the set
of turns it shows.  **SessionFiles** has processes that empty and fill a
session file under its lock and the shared index under none, die in between, and
locate a session by the tenant and user the scope names, through the index, or by a scan,
which is made only when the scope names neither (`Hints`, `LookElsewhere`).

### RagIndex, SkillStore, Manifest

**RagIndex**: a document is a sequence of characters of four kinds, and a piece of it the
set of the positions it shows; each chunker says which sets it cuts (where a fixed chunk
begins, which parts between separators share a buffer, where a group of sentences begins).
Ingests overlap and fail between two rows; both providers.  **SkillStore**: the two skill
stores take the same calls, and the file store's parse damages what it reads back as the
code's does (quotation marks; three dashes in a row, in a name or a trigger); a search
finds skills with each store and cuts what it found to k, in an order of the store's own.  **Manifest**: the depth-first walk through groups with the names it is
inside of, against the graph of the groups.

### How the modules meet

`AgentRun` and `PauseProtocol`, `SessionStore` and `AtomicStore` are refinements.  The
other modules are parts that share no variable: the runner gives `ContextFold` its turn
numbers, `StreamReplay` its events, `Curation` its turns and `GroupRun` its members, and
each of these modules has just as much of the runner as it needs.  `MCStreams` puts side
by side the modules whose question is who is answered, `MCRecords` those whose question
is what is kept: at the start a behaviour chooses one `part` and takes steps of that
module only, so one run checks each as if alone.

## 3. What is checked

Runs that pass:

* `agent_run` - two runs of a session (or a run and its resume) with every kind of
  tool, both modes, the call limit, human-in-the-loop pauses, hook decisions and a
  cancellation at every step.  `LoopInv` says what the loop's session and locals
  tell of the stored session at each point; a missing reload breaks it.
  `PausedIffPending` (no later check hides a pause), `CancelStopsWork` (after a cancel no
  request and no call begins, except a batch side by side asked for by the reply that was
  under way), and `FollowsPauseProtocol`, the refinement of `PauseProtocol`.
* `agent_crash` - the same loop with structured-output retries and a death between
  any two steps: `TcIdsUnique` and `HistoryKept` although a turn takes two writes,
  and `RunEnds` (liveness).
* `session_store` - two clients with stale copies, deletes and deaths, on every
  backend: `RowLockIsAtomic` (the refinement of `AtomicStore`) for those with a row
  lock, `DeletedStaysDeleted` for those that update in place, and for all `LossesAreRollbacks`:
  a turn is lost only to a writer that had not read it, and what came after it with it.
* `streams` - what answers a caller:

| property | module | says |
|---|---|---|
| `OnlySpeechCutsReply` | VoiceDuplex | a reply is cut only by speech that has itself lasted long enough, and not by the end of the audio |
| `InputEndEndsCall` | VoiceDuplex | a call whose audio has ended ends, whichever sentinel is taken first, but for one whose last reply was cancelled before it began |
| `SpokenOnce` | VoiceReply | what is said is what is shown, in order, without gap or repetition, and all of it |
| `ReplyEnds` | VoiceReply | a reply ends although either of its tasks fails |
| `StickyLanguage` | VoiceTurns | replies stay in the language the caller asked for, and in the allowed ones; the one way out of these is a default that is not among them |
| `S2SCallEnds` | SpeechToSpeech | a call ends once its audio is over, its socket closed and its tool calls answered |
| `CompleteMeansAll` | EngineStream | who is told that a call is complete has every chunk, and nothing failed |
| `EveryCallEnds` | EngineStream | each call ends, though threads wait for locks and others left |
| `ReplayOnce` | StreamReplay | a reader is sent nothing twice, out of order, or that it has seen |
| `ReaderEnds` | StreamReplay | the reader of a finished buffer ends, though readers clear one signal |
| `TurnsWithinBudget` | GroupRun | the members of a blocking pipeline together keep to the budget |
| `SharingScope` | GroupRun | facts reach other members only as `context_sharing` says |
| `GroupAnswers` | GroupRun | a group's run ends for its caller, whoever raises or times out |
| `DueJobsFire` | JobTicks | a job that stays due fires, whatever comes, goes or fails after it |

* `records` - what is kept and how it is read back:

| property | module | says |
|---|---|---|
| `ToldOnce`, `AlignedFoldKeeps` | ContextFold | a turn is in one part of the summary or in the session; while a run numbers its turns as if nothing had been folded, only what was summarised leaves |
| `NoNeedlessDrop` | ContextWindow | no turn is dropped that would fit with its tool results degraded |
| `OnlyApprovedInjected` | MemoryFacts | with approval required, every injected fact was approved with its value |
| `SerialOpsKeepFacts` | MemoryFacts | operations that do not overlap or fail leave what they would as single steps |
| `ToldReachesPrompt` | Curation | the end of a completed run has shown the curator its last turn, and what was stored is injected |
| `ResolveIsReachable` | Toolsets | the walk finds exactly the tools of the bundles that the names lead to, cycles or not |
| `GrantedStaysOffered` | ToolGrants | a tool granted by name is offered until revoked, in later runs too |
| `CallsAsSent` | LlmCall | however deltas are mixed or cut, each call runs with its own arguments or none |
| `PagesCoverAll` | SessionLists | turning the pages shows every session once on the adapters whose queries name an order; a page that is long enough does on `base_sql` |
| `ViewKeepsTurns` | SessionTree | no view of a group shows a turn twice, whatever the supervisor calls; each shows every turn while delegations go by their registered names |
| `GoneMeansGone` | SessionFiles | "no such session" is true of some moment of the load, for scopes that name tenant and user, or neither |
| `IngestedIsFound` | RagIndex | every word of what was ingested is in a chunk that is stored |
| `StoresAgree` | SkillStore | calls one after another leave both stores with the same skills and find the same ones for a prompt, as long as no text has three dashes in a row |
| `ValidMeansItStarts` | VoiceSetup | an agent written plainly and validated without error is built |
| `CycleIsReported` | Manifest | a manifest resolves only without a loop, and a loop is reported only where there is one |

Several of these are stated with a condition (no overlap, one writer, plain spelling):
outside it the code does not keep them, and section 7 says what happens there.

Runs that are expected to find a violation, one per disagreement of section 7:
`agent_unanswered`, `agent_inject`, `agent_cancel`, `session_append`,
`context_lost`, `replay_tail`, `rag_collections`.

Every property of a passing run has a mutant in `PROJECT.json`: a plausible bug in
one definition (a dropped guard, a missing reset, a skipped write) with which TLC
finds that property violated.  The mutants stand beside what they mutate, marked
`Mutant`.

## 4. Bounds

The constants of `agent_run`, `agent_crash`, `session_store`:

| bound | value | why it is enough |
|---|---|---|
| `TurnLimit` | 2 | a first turn, a later turn, and the limit itself; the code tells only the first turn from the others |
| `MaxAsked`, `MaxCalls` | 3; 2 or 1 | a batch cut by the limit, and two calls that meet in a gather |
| `HitlAfter` | 2 | a pause that falls on the turn limit |
| `MaxRuns` | 2 | a run and what follows it: a resume, or a message that supersedes |
| `MaxCrashes` | 1 | a death at every step, followed by a run that meets what it left |
| `StructRetries` | 1 | a retry, and a retry refused |
| messages | 1, also injected | messages are only compared with the empty one and the retry |
| clients, turns (store) | 2, 2 | an interference needs two writers; an append by each |

Of `streams`:

| bound | value | why it is enough |
|---|---|---|
| `MaxFrames`, `BargeNeed`, `MaxReplyEvents` | 4, 2, 1 | a blip and then silence, or speech long enough to cut; a reply cut before and after its event, and before it began |
| `MaxPieces`, `MaxNotes` | 3, 1 | two sentences and a rest, with a tool call between |
| `Langs`, `MaxTurns` | 3, 4 | English, a default and another; a request, two turns that disagree with it, and another request |
| `Calls`, `Replicas`, `Workers`, `MaxChunks` | 2, 1, 2, 2 | two threads at one lock; a client that leaves between chunks |
| `MaxRuns`, `Readers`, `MaxEvents`, `Retained` | 2, 2, 2, 1 | a buffer replaced under a reader, one event dropped, two readers that clear each other's signal |
| `Size`, `Budget`, `OwnTurns`, `MaxCalls` | 3, 2, 1, 2 | a pipeline whose budget ends before its members; two delegates side by side |
| `JobIds`, `MaxLoops`, `MaxChanges` | 3, 2, 3 | a job before and after one that raises, a loop started again |
| `MaxRetries`, `MaxSounds`, `MaxSaid` | 1, 1, 2 | a connection refused once; a tool call and its answer |

In `streams` the fourth frame of a call is read only while its one reply has not begun;
two runs of a session are read by one client, or one run, whose buffer
does not expire while it writes, by two; a streamed group shares or inherits its
context, and only the second member is a group, in a group that shares.  Of the other
combinations none is excluded by the modules, and `SharingScope` and
`TurnsWithinBudget` are proved for all of them.

Of `records`:

| bound | value | why it is enough |
|---|---|---|
| `TurnsToFold`, `MaxParts` | 2, 2 (1 turn in `context_lost`) | a fold that leaves turns behind; a part kept, and text cut off |
| `MaxRuns`, `MaxTurns` (fold) | 3, 6 | numbers that repeat after a fold, then a fold of them |
| `MaxWindowTurns`, `MaxTools`, `RawCosts`, `NoticeCost`, `Budgets`, `OldestN` | 2, 2, {1,4}, 2, {3,5,7}, 1 | a notice cheaper and dearer than the result; budgets that keep all, some and none |
| `Clients`, `FactKeys`, `FactValues`, `MaxEntities`, `MaxOps` | 2, 3, 2, 2, 3 | overlap, an edit to another value, a record at its cap |
| `CurSessions`, `Intervals`, `DigestTurns`, `MaxCurTurns`, `MaxCurRuns` | 1, {0,2}, 2, 3, 2 | a turn beyond the digest, an interval across two runs |
| `ToolNames`, `SetNames`, `MaxIncludes`, `MaxDefines`, `MaxNames` | 2, 3, 2, 3, 2 | a bundle reached on two ways, a cycle closed by the third definition; two names expanded together |
| `AllTools`, `Packs`, `MaxGrants` | 4, 2, 3 | a tool of each kind; a grant, another run, a revocation |
| `MaxIndex`, `MaxPieces`, `MaxText`, `MaxRetries`, `CallLimits` | 2, 2, 2, 1, {0,1} | two calls whose deltas interleave, one of them cut |
| `StoredIds`, `MaxWrites`, `RedisClients`, `Keep`, `PageSizes` | 3, 4, 2, 2, {1,2} | pages of one and two, two clients between key and index, an eviction |
| `Delegates`, `MaxDelegations`, `MaxTurnsEach` | 2, 3, 2 | a delegate called twice |
| `Processes`, `FileIds`, `MaxFileOps` | 2, 2, 4 | a lost index entry, then a load; a torn file, then a load |
| `Collections`, `ChunkSizes`, `Overlaps`, `MaxDoc`, `MaxTotal`, `Ingesters` | 2, {1,3}, {0,1}, 4, 2, 1 | a chunk smaller and larger than its overlap and than a sentence |
| `SkillNames`, `DashedNames`, `RetrievalK`, `Workers`, `MaxSkillOps` | 3, 1, 1, 2, 4 | a search, a change and two more calls; two skills and a prompt with room for one; a name that is read back as another's |
| `ServerNames`, providers | 2, 2 | a reference that exists and one that does not |
| `GroupNames`, `AgentNames`, `LooseNames`, `RootNames`, `MaxMembers` | 2, 1, 1, 3, 2 | a self-loop, a loop of two, a group used twice |

Names that begin with `Max`, and `Budget` of `GroupRun` where it is the largest
`max_turns` tried, bound the models, except `MaxEntities`, `MaxCalls` of `AgentRun`
and `MaxRetries`, which are settings of the program like the rest.  `Rest`
lets the loop of `AgentRun` stand still between runs, so the deadlock check of its runs
says that a started run never gets stuck.  In `streams` and `records` calls and
requests come to their end and nothing follows, so these two are run without the
deadlock check; that nobody waits for ever is what their liveness properties say.

## 5. Fairness

All fairness is weak, and of steps only that the scheduler, a time-out or a promise of
the surroundings makes happen.

| formula | required of | because |
|---|---|---|
| `FairSpec`, `AgentRun` | `Loop`, the steps of a run | asyncio resumes a coroutine that is ready; LLM calls and tools return, by a time-out where one is set (`llm/adapters/litellm.py:276`, `tools/registry.py:480`) and by assumption otherwise: a tool that declares none and never returns blocks its run |
| `DuplexFairness` | the consumer's steps, the first step and the end of the current reply | the caller takes what it is given; a task that was created or cancelled is run; a reply is a bounded agent run |
| `ReplyFairness` | both tasks and the generator, the end of the agent's run | likewise; a synthesis ends or raises |
| `EngineFairness` | worker threads, the client's taking | threads are scheduled and an engine call ends; the lock need not be fair, since calls are finitely many |
| `ReplayFairness` | a reader's steps | clients take what they are sent |
| `GroupFairness` | the group's steps, the end of each member | a member is a bounded run, a delegate has a time-out |
| `JobFairness` | `Tick`, the end of a job | the interval passes, a job's run ends |
| `S2SFairness` | both tasks, the consumer, tools; the end of a response that was asked for | tools have time-outs; the model answers what it is asked |

Clients that submit, answer or leave, the hook's choices, cancellation, crashes, failures,
frames of audio, expiry, stops of the scheduler and what a model says unasked have none.
`RunEnds` then rests on the turn limit and on the retry counter, the only bound on rejected
structured answers, which are not counted as turns.  In `MCStreams` the fairness of all parts
is required of every behaviour; no action it names is enabled in a part that was not chosen.

## 6. What is proved

TLAPS checks these for every value of the constants that meets the assumptions: those
of the modules named `...Assumption`, which give the settings their types, say that the
empty, injected and retry messages are told apart, that a pool has a replica, that the cap
on a record and the limit of a page are positive, that the sessions are finitely many,
that the set of calls is finite, that there is a skill and a worker to use it, and that
English is a language and "no language" is none.  Eight modules hold the proofs; where one
holds those of several components, they share its lemmas.

* **AgentRunProofs.**  `TypeCorrect`; `LoopCorrect`, the inductive invariant
  `LoopInv`; from it `TurnsNumberedCorrect`, `PausedIffPendingCorrect`,
  `TurnsAccountedCorrect`, `PauseProtocolImplemented`; and `CancelStopsWorkCorrect`.
  None of the invariants is inductive alone: that a pause is reported exactly when
  something is open depends on the status agreeing with the pending list in each
  phase, and that in turn on `store.pend` being empty whenever the loop asks the
  model, which `Begin` establishes and which the reload after each append keeps.
  `LoopInv` has one part per phase (`Waiting`, `Asking`, `Handling`, `Appending`,
  `Deciding`, `Leaving`); the step lemmas go phase by phase.  The refinement needs
  one more fact: in `Handling` every pending ticket lies between the stored counter
  and the session's, so the save that makes them visible hands out fresh ones.
  Its second half has two properties of the stored session over its whole life.
  `HistoryKeptCorrect`: a step leaves the stored turns alone, fills in responses or
  appends one (`StoredTurns`, which needs `LoopInv`: what the loop saves is what it
  loaded), and each of these extends them.  `TcIdsUniqueCorrect`: the stored ids alone
  are no invariant, since a turn is appended to what another write has counted, so
  `BatchIds` speaks of the turn in progress: its records have ids of their own that no
  stored turn holds (`Minted`), sequential calls are handled from the first on
  (`InOrder`), and so every record the turn keeps has an id (`AllHandled`).

  `NoRunIsEndless` is what of `RunEnds` holds without fairness.  The rank of a run is the
  turns it has left, the stage of its turn, and within the stage the retries or the calls
  left.  Every step of the run takes the rank down the lexicographic order, which is
  well-founded, and a cancel leaves it alone (`RunDescends`); a crash ends the run.  A rejected reply costs a retry, and only an accepted reply gives retries
  back: that turn is then stored and counted.  `RunEnds` adds that the run is scheduled.
* **SessionProofs.**  `LockHeldCorrect`: between a locked read and its write,
  what was read is what is stored, because a writer waits for the lock and a reader
  without one cannot start.  `RowLockIsAtomicCorrect` follows: the write of what was
  read is the atomic operation on what is stored.
  `DeletedStaysDeletedCorrect` needs the lock for the backends that have one.
  `LossesAreRollbacksCorrect`, on every backend, from `BranchInv`: of the row, each client's
  copy and what each append or summary has read, any two that share a turn are the same up
  to it, and a turn that is about to be appended is nowhere else.  The histories are thus
  the branches of a tree; an append adds to the end of one and a save moves the row to
  another, so overwriting cuts a branch back but never leaves a gap or a turn twice.

  `GoneIsGone`: a process that looks for a session carries, as a history, all the states its
  file has had since; the present one is always among them (`SeesNow`).  A scope that names
  one of tenant and user is left out of the statement: the process then looks at a place
  where the file is not.

  `PagesShowAll`: each adapter cuts its pages from some list without doubles and shows of
  a page what some filter leaves (`CutFrom`), so the pages together show what the filter
  leaves of the list (`PagesOfList`: every place lies on one page and on no other); what is
  left is what was asked for.  Which list and which filter differ (`MemoryPages`,
  `FilePages`, `PostgresPages`, `BaseSqlPages`, `RedisPages`, `SqlitePages`).  sqlite sorts a
  batch of an owner's rows again, and a part of a sorted list, sorted, is itself
  (`PartIsOnly`).  `base_sql` is apart: of its pages only those that hold all rows are whole.
  redis needs `IndexKept`: a stored session is in its owner's index, about
  to be, or one that a delete or a death crossed.

  `ViewsShowTurnsOnce`, from `TreeInv`: the records the view takes for delegations are those
  under the bare name, and these are stamped as they are made, so in increasing order
  (`Stamped`; the records of real delegations are not, one that began first may end last).
  The spans from one to the next are therefore apart, and no turn is in two
  (`SpansApart`), wherever the cursors stand: what they count is not needed.
* **ContextProofs.**  `ToldOnceCorrect`, strengthened with `Places`: every turn
  that was ever appended is below `nTurns`, and its place is its own.  It holds
  whatever numbers the turns have, since a fold removes at least what it tells.
  `OldestFirstCorrect`, `AlignedFoldKeepsCorrect` and `FoldIsAllOrNothingCorrect` need
  `Numbering`: a session that was ever folded is shorter than its conversation
  (`FoldCounted`), so no later run can be aligned; in a session nobody folded each turn's
  number is its place (`InOrder`); and the turns being folded are older than the others
  (`Chosen`, by comparing how many turns come before each).

  `DropsAreNeeded`, from `WindowInv`: while a window is built only raw results are
  degraded, and the oldest turn goes only when none of those in the window is left
  (`AllDegraded`).  The cost it had then is the one it has with every raw result degraded
  (`SameCost`: equal calls are equal summands), and that was over the budget.

  `GrantsAreOffered`: what was granted and not revoked is in the grants that the next run
  adds, and in the allow-list of this one.  `SerialStoresAgree`: between two calls both stores
  hold the same skills, and while a search counts uses, the skills it has still to write to
  the files are the ones in which these lag behind the memory (`HalfWritten`).  What it finds
  is then the same set with either, and of one set as many are cut.
  `ToldIsInjected`: while sessions do not alternate, the curator's last number is one of a
  turn that exists, so the end of a completed run either finds it behind or finds its last
  turn shown (`Numbered`).
* **VoiceProofs.**  `Sticky`, from `TurnsInv`: what passes `_clamp_language` is allowed,
  whatever the default is (`ClampAllowed`), and once the caller has asked for a language it
  is the forced one and the last reply's.  What remains is the language an utterance is
  transcribed in after English gave no text, and that one nothing clamps.

  `SaidAsShown`: the reply keeps no list of the sentences it was cut into, so `ReplyInv`
  asserts that one exists: it covers the text shown so far without a gap (`Cut`), what was
  said is its beginning (`Said`), and what is in synthesis and in the sentence queue is the
  rest (`ToSay`).  The event queue carries text and audio of different sentences; a mark at
  each of its places says how many sentences will have been said, how much text shown and
  how many tasks still running when the consumer gets there (`Tracked`).  That every
  sentence comes after its text, and that the second `done` is the last entry, are then
  facts about neighbouring marks.

  `SpeechCuts`: in `DuplexInv` what the barge-in counter holds never exceeds the frames of
  the speech that is going on, so a cut needs that much speech of its own.  The marks are
  here, for each reply, the number of its events heard by then (`Delivered`): its
  `RESP_DONE` comes after all of them.  Where replies never overlapped only the last can
  end the call (`Alone`), and it has then been heard to its end.

  `ValidSetupStarts`: an error-free agent finds each server its roles name.
* **OrchestrationProofs.**  `PipelineBudget` and `SharedAsConfigured` from one invariant.  The
  budget needs `InBudget`: the member at work was given what the others left, and what
  was spent is what the group counted; this rests on `InOrder`, that a pipeline has one
  member at work.  Sharing needs `Scope`, that nothing comes up to the group's context
  unless it may, and again `InOrder`, that a member that has begun knows what those
  before it left.

  `CyclesAreReported` needs no induction over paths, because what a group leads to is
  "in every set that has its references and theirs" (`LeadTo`).  In `ManifestInv` all that
  is to come lies below every group on the stack (`Chained`), so a name met again is below
  itself.  Each reference of a group on the stack is resolved, further up, or still to come
  (`Accounted`), so when a group is left the groups resolved before are such a set, without
  it: it is not below itself (`DoneOk`).  The names on the stack differ, and a group in place
  stands on the one that has it as a member; with names of their own no group in place is
  taken for a loop.

  `ResolvesWhatIsReachable` likewise: a name leads to what is in every set that has it and
  that its bundles' includes do not leave (`Closing`).  In `ToolsetInv` a walk has visited,
  or has on its list, all that the visited bundles include, and nothing that is not in every
  such set (`WalkOf`).  When its list is empty, what it visited is therefore one of these sets
  and lies in all of them, so it is what the name leads to (`WalkEnds`); between two walks
  the tools found are those of the names walked so far (`BetweenWalks`).  That the visited
  names are shared within a walk and not between walks is what both halves need.
* **MemoryFactsProofs.**  `InjectedIsApproved`, for operations that overlap and fail.
  The strengthening speaks of operations in progress: what is about to be saved in the
  live store was read from there, or will be in the step before, and a fact to be put
  there is approved or still to be taken from the proposals (`Prepared`).  Since facts are
  never taken off the approved ones, a stale record is as good as a fresh one; that is
  why overlap may lose facts but never inject one.

  `SerialFacts`, for operations one after another.  `mIdeal` takes an operation as done
  when it begins, the stores only when it ends, so `Goal` relates the two at every rest of
  steps that an operation can have: what the rest makes of the stores is the ideal.  What is
  about to be saved is what the store holds (`InSync`), and a record with no key twice is
  the set of its facts (`NoTwice`), which makes merging and `pop` the set operations of the
  ideal (`MergedSet`, `WithoutSet`).  An approval is two changes; between them the live
  store is done and the proposals are not.

  `NoWordIsLost`: every cut of a document covers its words.  A word's place lies between two
  neighbouring separators, so in some buffer or group, whatever was packed with it
  (`BetweenCovers`, `PackedCovers`, `SemanticCovers`); what is cut again is covered piece by
  piece, and what is lost at a cut is a separator (`CutAtCovers`).  Fixed chunks cover since
  none begins later than the one before ends: the last of them that begins at or before a
  place has it (`FixedCovers`).  After that, `RagInv`: ids are only added, to a list or to
  the table, and an ingest that has still rows to insert accounts for the others
  (`Inserting`); a row that was another collection's stays, in that one.
* **StreamProofs.**  `CompleteIsWhole`, call by call: as long as the client listens,
  its queue is the chunks it is owed and then, once the worker is done, the outcome
  (`InQueue`); the stop flag is not set while it listens, so no chunk was left out.

  `EngineNeverStuck` is what of `EveryCallEnds` holds without fairness: as long as a client
  has no outcome, a step that the loop, the pool or an engine will take is possible.  A call
  that was submitted is in the executor's queue, with a thread, or over (`InLine`); if it is
  over its client has something to take (`InQueue`).  If no thread runs an engine, then no lock is
  held, so a thread that waits for one gets it; if none waits either, all threads are free.

  `NoEndIsMissed` is the same for `ReaderEnds`.  A reader waits only where its buffer is not
  finished and its signal not set (`Hears`): whoever finishes the buffer, or writes to it,
  sets the signal and wakes all who wait, and another reader can only clear it.

  `EachEventOnce`: a buffer with one writer holds increasing numbers, none above the
  writer's (`BufferInv`); what a reader has copied and not yet sent is increasing and above
  its cursor, which is the last number it was sent (`ReaderInv`).  A buffer that was replaced
  or shared by two writers promises nothing, nor does the theorem.  Sending what is newer than
  the cursor keeps order because the numbers of a finite set can be listed in order, each
  once (`Ordered`).

  `CallsReachTheLoop`: what was merged is at every delta, call by call, what the provider
  has asked for so far, and a new attempt begins with nothing merged (`AnswerInv`).
* **OrderedProofs.**  The lemmas about list comprehensions the others cite: what one keeps
  is a part of the list in its order (`AtPlacesIs`, `OnlyIs`), there is one way only to list a
  set of numbers upwards (`AscendingOnly`), and a part of a part is a part (`PartOfPart`).

`TypeOK`, `TurnsNumbered`, `TurnsAccounted`, `LockHeld`, `OldestFirst` and
`FoldIsAllOrNothing`, and `RunDescends`, `GoesOn` and `FinishIsHeard`, which say that
something can still be done, are only proved: no run checks them.

Every safety property that a passing run checks is proved.  Where a proof needs induction
over the natural numbers it takes a least counterexample (`WFMin` with
`NatLessThanWellFounded`; the induction rules of the library take an operator, which the
provers cannot instantiate), and sequences that are built by recursion in the code are
said by the places they keep.  Only model-checked: all liveness, which is out of the prover's
reach (`RunEnds`, `InputEndEndsCall`, `ReplyEnds`, `S2SCallEnds`, `EveryCallEnds`,
`ReaderEnds`, `GroupAnswers`, `DueJobsFire`).  That a walk over bundles ends is no property
at all: each step visits a name not visited yet, or takes a call off the list.

## 7. What the checks found

Each is a run that TLC ends with the steps that lead there.

* `agent_unanswered` - a sequential batch stops at its first pause, but the
  assistant message is saved with every call; after `resume` the ones behind it are
  sent with no result (`docs/reference/agent-runner.md:150` says always answered).
* `agent_inject` - a message the hook injects never reaches the model: only the
  first turn of a run adds the current message (`docs/reference/agent-runner.md:103`).
* `agent_cancel` - `cancel()` before the task's first step is forgotten
  (`docs/reference/agent-runner.md:94`).
* `session_append` - two appends through `sqlite` (likewise `file`, `redis`) may
  lose one (`session/adapters/base.py:74`, "Atomically append").
* `context_lost` - after a fold the next run reuses a turn number, and folding one
  of the two turns removes both, the other unsummarised (`context/summarizer.py:65`).
* `replay_tail` - `replay` looks at `done` after it has yielded what it found, so the
  last events of a run may never be sent (`serve/replay.py:98`).
* `rag_collections` - pgvector's upsert leaves a document's row in the collection it was
  first ingested into (`docs/reference/rag.md:9`).

Also met while reading the code, and modelled as it is:

* a structured-output retry on the first turn *replaces* the user's message in the
  request, and on a later turn is not sent at all;
* text given to `resume` for a human-in-the-loop pause is not stored
  (`docs/guides/runtime-control.md:315`);
* a tool that requires approval ends the run with an error
  (`docs/reference/tools.md:44` says it pauses);
* when parallel tools pause, only the records up to the first paused one are kept;
* `turns_used` is one less than the turns stored when a run is paused, stopped by
  the hook or times out; on the last turn `max_turns_reached` replaces `completed`;
* a cancel during a request whose reply asks for tools side by side starts all of them:
  nothing looks at the flag before the gather (`agent_runner.py:1384`);
* turns numbered at or below `summary_through_turn` are never folded again, and a
  digest with no text stops folding for good;
* an append through `file` or `redis` brings a deleted session back, and a stale
  `save_session` drops what others appended, on every adapter.

In the modules added around the loop:

* *Voice.*  Two replies overlap when a caller's speech is shorter than
  `barge_in_min_speech_ms` (`docs/reference/realtime-agents.md:318`); when DONE is taken
  before the events of a last reply, these are dropped.  The consumer waits for ever when the
  reader raises, and when the last reply is cancelled before its task has taken a step: its
  `finally` is then never entered, no RESP_DONE comes, and a DONE taken before the
  cancellation ran has found it still going (`cascaded.py:637`, 643, 699; `NoWordToCome`).
  A default language outside `allowed`, which the validation only warns of, is what an
  utterance taken for English that gave no text is transcribed and answered in
  (`cascaded.py:164`), against `docs/reference/realtime-agents.md:123`.  A noise turn with an empty transcript still sets
  `session_lang`.  Validation knows one spelling of the provider, does not look at the vad's
  reference, counts a `base_url` alone as an error though it resolves, and may raise while
  logging that there was no issue; a team is built without it and without the registry, so
  its `nexus_server` responders without a `base_url` cannot be built.
* *Speech to speech.*  The openai adapter returns at the first `response.done`, so what
  the model says after a tool call may not be heard; a sender's failure is not observed;
  moshi closes the socket when the input ends, before the last words.
* *Replay.*  The original client's disconnect ends the run.  Two runs of a session number
  their events alike; a run closed half way saves an older `stream_seq`, and its numbers
  repeat; the reader of a buffer that was replaced or expired waits until it leaves.
* *Groups.*  A nested group in a blocking pattern raises `AttributeError`
  (`orchestrator.py:289`, 482, 656) against the docstring at 86; turns taken side by side,
  in a supervisor or when streaming, pass `max_turns` (`docs/reference/multi-agent.md:33`);
  `first_complete` takes the first in the configured order (57); a supervisor's late
  `_sync_up` overwrites its delegates' values; a timed-out delegate's turns are not counted.
  A group in place that is named like one around it is reported as a cycle; one that is named
  like a declared group is excluded by assumption.
* *Scheduler.*  A job that raises ends the tick for those after it; `start_background`
  twice leaves a loop that `stop` does not know; a job deleted during a tick still fires.
* *Memory.*  Overlapping operations on a database lose or bring back facts;
  `_cap_entities` may drop a key just updated; an approval that races an edit deletes the
  newer proposal.  A turn of a paused or stopped run may be skipped by the curator
  (`memory.md:40`), since `_last_curated_turn` is never reset; an interval longer than the
  digest loses turns; existing facts are read from the namespace without suffix and
  written to the ones with it.
* *Context window.*  The user message put back is not counted against the budget; the
  notice may cost more than the result it stands for.
* *LLM call.*  Arguments that do not parse become `{}` and the tool runs without any;
  a stream is never retried, and its time-out covers only getting it; streamed answers
  drop calls without a name, whole ones keep them; streamed ids repeat each turn.
* *Tools.*  `grant_toolset` before `run` is lost
  (`docs/guides/porting-from-langgraph.md:272`); `revoke_tools` lasts until the next run;
  what runs is not checked against the allow-list; with `tool_plugins=[]` enabling skills,
  memory or RAG hides the tools of other plugins; a dotted name of nothing is a tool.
* *Sessions.*  sqlite's pages over several users repeat and skip sessions, its company
  filter comes after the limit, `base_sql` pages have no order, so turning them may repeat and skip sessions, redis's index is written
  apart from the key, and "_" in a prefix is a wildcard of LIKE.  Delegations are recorded as
  `supervisor.delegate_to_<m>`, which `aggregate.py:47` never recognises, so members are
  never nested.  An index being written counts as empty, and the next register writes back
  its own entry only.  A file load whose scope names only the tenant or only the user asks the
  index, and when that has lost the entry says the session is gone though its file is there
  (`file.py:69`, 154); a delete then removes nothing.
* *Knowledge base.*  `retrieve` always asks the configured collection, `ingest` takes any;
  ingesting again into memory duplicates chunks; after a restart pgvector has no `_dims` and
  scores a mismatch 0.0 where `docs/reference/rag.md:93` promises a `ValueError`.
* *Skills.*  The file store damages quoted triggers at each write; a name or trigger with
  `---` in it is cut there when the file is read back (`store.py:135`), and the skill may turn
  up under another's name; when more skills match than a prompt takes, the two stores may
  choose different ones (`store.py:76`, 175); an upsert enables a
  disabled skill and forgets its uses; uses are counted before the cut to k; overlapping
  processes enable a disabled skill or bring back a deleted one; a torn file is an empty,
  enabled skill.

## 8. What is not modelled

* In `AgentRun`: set-up of tools, skills and guardrails, events, token counts, runs that
  are not persisted.  The summariser, the curator and the window meet the loop in modules
  of their own, so `HistoryKept` is about a session nobody folds.
* In `SessionStore`: scopes, TTL, the archive, and torn writes (`write_text` is one step
  there; `SessionFiles` has it as two).  The in-memory adapter keeps objects by
  reference; its expiry, eviction and pages are in `SessionLists`.
* In `GroupRun`: two delegations of one batch to the same member, which run its runner twice
  at once (`orchestrator.py:620`); a member is one run there.
* In the voice modules: audio, transports, engine adapters and their connection retries,
  tenant pools.  In `EngineStream`: the pool's `unload` (it frees an engine in use,
  `server/pool.py:34`) and the services that use `run_engine` the same way.
* In `RagIndex` and `SkillStore`: ranking, fusion, reranking, its cut to k, the contextual
  prefix; discovery of skill folders, whose cache does not tell run contexts apart.
* Search over memory, vector providers, prompt texts, savings counts, schema generation.
* Channels (a webhook is one run; only the first message of a batch is handled, duplicate
  deliveries run twice, and nothing locks a session), guardrails (checks in turn, open
  when one fails; the sinks of `emitter.py:146` are iterated while they change), MCP,
  artifacts, evaluation, CLI and the rest of the configuration: routing, parsing and I/O
  with little state.

## 9. What remains

* Composition: the loop with the summariser, whose histories differ by what was folded;
  a pipeline of `GroupRun` whose members are `AgentRun`.
* Overlap: what the records promise to operations that do overlap, once the code says
  what it means to promise.
