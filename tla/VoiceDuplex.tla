---------------------------- MODULE VoiceDuplex ----------------------------
(***************************************************************************)
(* One full-duplex voice call: CascadedVoicePipeline._full_duplex.         *)
(*                                                                         *)
(* A reader task feeds audio frames to the VAD and starts a reply task at  *)
(* the end of every utterance; the reply tasks and the reader write to one *)
(* unbounded queue; the generator that owns the call (the consumer) yields *)
(* what it takes from the queue to its caller, and decides from the two    *)
(* sentinels DONE (no more audio) and RESP_DONE (a reply is over) when the *)
(* call ends.  Everything between two awaits is one action.                *)
(*                                                                         *)
(* A frame stands for one frame of audio, and barge_ms counts frames.      *)
(***************************************************************************)
EXTENDS Naturals, Sequences

CONSTANTS
    MaxFrames,      \* bound: frames of audio in the call
    MaxReplyEvents, \* bound: events one reply produces
    BargeNeed       \* barge_in_min_speech_ms, in frames

ASSUME DuplexAssumption ==
    /\ MaxFrames \in Nat
    /\ MaxReplyEvents \in Nat
    /\ BargeNeed \in Nat

VARIABLES
    dConsumer,  \* the generator: idle, opening (at its first yield), sending (at a later
                \* one), waiting (at out_q.get), ended
    dQueue,     \* out_q
    dReplies,   \* the reply tasks, in order of creation; response_task is the last
    dPending,   \* state["barge_pending"]
    dBargeMs,   \* state["barge_ms"]
    dInSpeech,  \* the VAD is between SPEECH_START and SPEECH_END
    dReader,    \* the reader task: idle, reading, closed (DONE is queued), failed, cancelled
    dFrames,    \* frames read so far
    dInputDone, \* state["input_done"]
    dSpoke,     \* history: frames of the present speech, 0 in silence
    dWaited,    \* history: DONE was taken while the current reply was still running
    dOverlap,   \* history: an utterance ended while a reply was still running
    dLeft       \* history: the caller closed the generator

duplexVars == <<dConsumer, dQueue, dReplies, dPending, dBargeMs, dInSpeech, dReader,
                dFrames, dInputDone, dSpoke, dWaited, dOverlap, dLeft>>

\* create_task: the task is scheduled, and begins when the event loop comes to it.
NewReply == [state |-> "running", began |-> FALSE, sent |-> 0, heard |-> 0,
             cutAfter |-> BargeNeed]

Current == Len(dReplies)

\* rt is not None and not rt.done(): a cancelled task is not done until it has run.
Responding == Current > 0 /\ dReplies[Current].state # "over"

Item(kind, r) == [kind |-> kind, reply |-> r]

DuplexInit ==
    /\ dConsumer = "idle" /\ dReader = "idle"
    /\ dQueue = <<>> /\ dReplies = <<>>
    /\ dPending = FALSE /\ dBargeMs = 0
    /\ dInSpeech = FALSE /\ dFrames = 0 /\ dSpoke = 0
    /\ dInputDone = FALSE
    /\ dWaited = FALSE /\ dOverlap = FALSE /\ dLeft = FALSE

(***************************************************************************)
(* The call opens: the greeting, when one is configured, is a reply task   *)
(* created before the reader, so that it begins before the first frame is  *)
(* read; then session_started is yielded.                                  *)
(***************************************************************************)
DuplexConnect ==
    /\ dConsumer = "idle"
    /\ \E greets \in BOOLEAN : dReplies' = IF greets THEN <<[NewReply EXCEPT !.began = TRUE]>> ELSE <<>>
    /\ dConsumer' = "opening"
    /\ dReader' = "reading"
    /\ UNCHANGED <<dQueue, dPending, dBargeMs, dInSpeech, dFrames, dInputDone,
                   dSpoke, dWaited, dOverlap, dLeft>>

(***************************************************************************)
(* _maybe_fire_barge_in, with the values barge_pending and barge_ms have   *)
(* just been given, after the items already put in this step.              *)
(***************************************************************************)
MaybeFireBargeIn(pending, ms, queue) ==
    IF Responding /\ pending /\ ms >= BargeNeed
    THEN /\ dPending' = FALSE
         /\ dQueue' = Append(queue, Item("barge_in", Current))
         /\ dReplies' = [dReplies EXCEPT ![Current].state = "cancelling",
                                         ![Current].cutAfter = dSpoke']
    ELSE /\ dPending' = pending
         /\ dQueue' = queue
         /\ UNCHANGED dReplies

ReadFrame ==
    /\ dReader = "reading" /\ dFrames < MaxFrames
    /\ dFrames' = dFrames + 1
    /\ UNCHANGED <<dConsumer, dReader, dInputDone, dWaited, dLeft>>

ReadSpeechStart ==
    /\ ReadFrame
    /\ ~dInSpeech /\ dInSpeech' = TRUE
    /\ dSpoke' = 1
    /\ dBargeMs' = IF Responding THEN 1 ELSE 0
    /\ MaybeFireBargeIn(Responding, 1, Append(dQueue, Item("speech_start", 0)))
    /\ UNCHANGED dOverlap

\* Mutant: a candidate for barge-in outlives the speech it began with.
ReadSpeechEndKeeps ==
    /\ ReadFrame
    /\ dInSpeech /\ dInSpeech' = FALSE
    /\ dSpoke' = 0
    /\ dReplies' = Append(dReplies, NewReply)
    /\ dOverlap' = (dOverlap \/ Responding)
    /\ UNCHANGED <<dQueue, dPending, dBargeMs>>

\* The new reply becomes response_task; a reply that is still running is left alone.
ReadSpeechEnd ==
    /\ ReadFrame
    /\ dInSpeech /\ dInSpeech' = FALSE
    /\ dSpoke' = 0
    /\ dPending' = FALSE /\ dBargeMs' = 0
    /\ dReplies' = Append(dReplies, NewReply)
    /\ dOverlap' = (dOverlap \/ Responding)
    /\ UNCHANGED dQueue

\* The VAD returns None, inside speech and in silence alike.
ReadOther ==
    /\ ReadFrame
    /\ dSpoke' = IF dInSpeech THEN dSpoke + 1 ELSE 0
    /\ IF dPending /\ Responding
       THEN /\ dBargeMs' = dBargeMs + 1
            /\ MaybeFireBargeIn(TRUE, dBargeMs + 1, dQueue)
       ELSE /\ dPending' = (dPending /\ Responding)
            /\ UNCHANGED <<dBargeMs, dQueue, dReplies>>
    /\ UNCHANGED <<dInSpeech, dOverlap>>

ReadClose ==
    /\ dReader = "reading"
    /\ dReader' = "closed"
    /\ dQueue' = Append(dQueue, Item("done", 0))
    /\ UNCHANGED <<dConsumer, dReplies, dPending, dBargeMs, dInSpeech, dFrames,
                   dInputDone, dSpoke, dWaited, dOverlap, dLeft>>

\* The transport or the VAD raises: the task ends without queueing DONE.
ReadFail ==
    /\ dReader = "reading"
    /\ dReader' = "failed"
    /\ UNCHANGED <<dConsumer, dQueue, dReplies, dPending, dBargeMs, dInSpeech, dFrames,
                   dInputDone, dSpoke, dWaited, dOverlap, dLeft>>

(***************************************************************************)
(* A reply task: run_response or run_initial.  A cancelled one takes no    *)
(* further event from the pipeline.  Every ending of a reply that began    *)
(* queues RESP_DONE; one cancelled before it began never enters the try,   *)
(* and is over without a word.                                             *)
(***************************************************************************)
ReplyBegins(r) ==
    /\ dReplies[r].state = "running" /\ ~dReplies[r].began
    /\ dReplies' = [dReplies EXCEPT ![r].began = TRUE]
    /\ UNCHANGED <<dConsumer, dQueue, dPending, dBargeMs, dInSpeech, dReader, dFrames,
                   dInputDone, dSpoke, dWaited, dOverlap, dLeft>>

ReplyNeverBegins(r) ==
    /\ dReplies[r].state = "cancelling" /\ ~dReplies[r].began
    /\ dReplies' = [dReplies EXCEPT ![r].state = "over"]
    /\ UNCHANGED <<dConsumer, dQueue, dPending, dBargeMs, dInSpeech, dReader, dFrames,
                   dInputDone, dSpoke, dWaited, dOverlap, dLeft>>

ReplyEvent(r) ==
    /\ dReplies[r].state = "running" /\ dReplies[r].began
    /\ dReplies[r].sent < MaxReplyEvents
    /\ dReplies' = [dReplies EXCEPT ![r].sent = @ + 1]
    /\ dQueue' = Append(dQueue, Item("event", r))
    /\ UNCHANGED <<dConsumer, dPending, dBargeMs, dInSpeech, dReader, dFrames,
                   dInputDone, dSpoke, dWaited, dOverlap, dLeft>>

\* Mutant: RESP_DONE is queued only by a reply that was not cancelled.
ReplyOverUnsaid(r) ==
    /\ dReplies[r].state \in {"running", "cancelling"} /\ dReplies[r].began
    /\ dReplies' = [dReplies EXCEPT ![r].state = "over"]
    /\ dQueue' = IF dReplies[r].state = "running"
                 THEN Append(dQueue, Item("resp_done", r)) ELSE dQueue
    /\ UNCHANGED <<dConsumer, dPending, dBargeMs, dInSpeech, dReader, dFrames,
                   dInputDone, dSpoke, dWaited, dOverlap, dLeft>>

ReplyOver(r) ==
    /\ dReplies[r].state \in {"running", "cancelling"} /\ dReplies[r].began
    /\ dReplies' = [dReplies EXCEPT ![r].state = "over"]
    /\ dQueue' = Append(dQueue, Item("resp_done", r))
    /\ UNCHANGED <<dConsumer, dPending, dBargeMs, dInSpeech, dReader, dFrames,
                   dInputDone, dSpoke, dWaited, dOverlap, dLeft>>

(***************************************************************************)
(* The consumer.  Leaving the loop, for whatever reason, cancels the       *)
(* reader and the current reply (the generator's finally); the first yield *)
(* stands before the try, and leaving there cancels nothing.               *)
(***************************************************************************)
CloseCall(replies) ==
    /\ dConsumer' = "ended"
    /\ dReader' = IF dReader = "reading" THEN "cancelled" ELSE dReader
    /\ dReplies' = IF Responding
                   THEN [replies EXCEPT ![Current].state = "cancelling"]
                   ELSE replies

ConsumerResume ==
    /\ dConsumer \in {"opening", "sending"}
    /\ dConsumer' = "waiting"
    /\ UNCHANGED <<dQueue, dReplies, dPending, dBargeMs, dInSpeech, dReader, dFrames,
                   dInputDone, dSpoke, dWaited, dOverlap, dLeft>>

ConsumerTakeDone ==
    /\ Head(dQueue).kind = "done"
    /\ dInputDone' = TRUE
    /\ dWaited' = Responding
    /\ IF Responding
       THEN UNCHANGED <<dConsumer, dReader, dReplies>>
       ELSE CloseCall(dReplies)

ConsumerTakeRespDone ==
    /\ Head(dQueue).kind = "resp_done"
    /\ IF dInputDone /\ ~Responding
       THEN CloseCall(dReplies)
       ELSE UNCHANGED <<dConsumer, dReader, dReplies>>
    /\ UNCHANGED <<dInputDone, dWaited>>

ConsumerTakeEvent ==
    /\ Head(dQueue).kind \in {"event", "barge_in", "speech_start"}
    /\ dConsumer' = "sending"
    /\ dReplies' = IF Head(dQueue).kind = "event"
                   THEN [dReplies EXCEPT ![Head(dQueue).reply].heard = @ + 1]
                   ELSE dReplies
    /\ UNCHANGED <<dReader, dInputDone, dWaited>>

ConsumerGet ==
    /\ dConsumer = "waiting" /\ dQueue # <<>>
    /\ dQueue' = Tail(dQueue)
    /\ ConsumerTakeDone \/ ConsumerTakeRespDone \/ ConsumerTakeEvent
    /\ UNCHANGED <<dPending, dBargeMs, dInSpeech, dFrames, dSpoke, dOverlap, dLeft>>

\* The transport is gone: the caller closes the generator at a yield.
ConsumerLeave ==
    /\ \/ dConsumer = "sending" /\ CloseCall(dReplies)
       \/ /\ dConsumer = "opening" /\ dConsumer' = "ended"
          /\ UNCHANGED <<dReader, dReplies>>
    /\ dLeft' = TRUE
    /\ UNCHANGED <<dQueue, dPending, dBargeMs, dInSpeech, dFrames, dInputDone,
                   dSpoke, dWaited, dOverlap>>

DuplexNext ==
    \/ DuplexConnect
    \/ ReadSpeechStart \/ ReadSpeechEnd \/ ReadOther \/ ReadClose \/ ReadFail
    \/ \E r \in DOMAIN dReplies :
          ReplyBegins(r) \/ ReplyNeverBegins(r) \/ ReplyEvent(r) \/ ReplyOver(r)
    \/ ConsumerResume \/ ConsumerGet \/ ConsumerLeave

(***************************************************************************)
(* The event loop runs every task that is ready, the caller takes what it  *)
(* is given, and a reply, being a bounded agent run, comes to an end.      *)
(***************************************************************************)
DuplexFairness ==
    /\ WF_duplexVars(ConsumerResume)
    /\ WF_duplexVars(ConsumerGet)
    /\ WF_duplexVars(Responding /\ (ReplyBegins(Current) \/ ReplyNeverBegins(Current)
                                                        \/ ReplyOver(Current)))

-----------------------------------------------------------------------------
(***************************************************************************)
(* The last reply was cancelled before it began, and DONE was taken before *)
(* the cancellation had run: no RESP_DONE will come.                       *)
(***************************************************************************)
NoWordToCome ==
    /\ dWaited
    /\ dReplies[Current].state = "over" /\ ~dReplies[Current].began

(***************************************************************************)
(* Once the caller's audio has ended, the call ends, whichever of DONE and *)
(* the last RESP_DONE the generator takes first: it is left waiting on an  *)
(* empty queue in one case only, that the last reply was cancelled before  *)
(* its task took a first step.  (cascaded.py:637-655, 698-715)             *)
(***************************************************************************)
InputEndEndsCall == dReader = "closed" ~> (dConsumer = "ended" \/ NoWordToCome)

(***************************************************************************)
(* A reply is cut only by speech that has itself lasted as long as         *)
(* barge_in_min_speech_ms: neither a blip, nor several blips added up, nor *)
(* the silence after one cancels what the agent is saying; and the end of  *)
(* the audio does not: a generator that learns of it while a reply is      *)
(* running ends only after yielding all that reply produced.  The second   *)
(* part is claimed of calls whose replies never overlapped; with an older  *)
(* reply still winding down, that one's RESP_DONE can end the call.        *)
(* (cascaded.py:625-686, 698-710)                                          *)
(***************************************************************************)
OnlySpeechCutsReply ==
    /\ \A r \in DOMAIN dReplies : dReplies[r].cutAfter >= BargeNeed
    /\ (dConsumer = "ended" /\ dWaited /\ ~dLeft /\ ~dOverlap)
          => dReplies[Current].heard = dReplies[Current].sent

DuplexSpec == DuplexInit /\ [][DuplexNext]_duplexVars /\ DuplexFairness
=============================================================================
