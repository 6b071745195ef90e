----------------------------- MODULE VoiceReply -----------------------------
(***************************************************************************)
(* One spoken reply: CascadedVoicePipeline._agent_stream.                  *)
(*                                                                         *)
(* Two tasks write to one queue: the first reads the agent's events and    *)
(* cuts the visible text into sentences, the second turns the sentences    *)
(* into audio, one at a time.  The generator yields what it takes from the *)
(* queue until both have said they are done.                               *)
(*                                                                         *)
(* A piece is the visible text of one content event: a sentence is the     *)
(* range of pieces it is made of.  Hidden reasoning and an event that      *)
(* shows nothing new change no state.  The audio of a sentence is one item.*)
(***************************************************************************)
EXTENDS Naturals, Sequences

CONSTANTS
    MaxPieces,  \* bound: pieces of visible text
    MaxNotes    \* bound: tool calls, tool results and error events

ASSUME ReplyAssumption == MaxPieces \in Nat /\ MaxNotes \in Nat

VARIABLES
    wCall,      \* the generator: idle, waiting, sending, finished, failed, left
    wSpeak,     \* do_speak
    wLlm,       \* _read_llm: idle, reading, over
    wTts,       \* _tts_worker: idle, ready, speaking, over
    wOut,       \* out
    wSentences, \* sentences
    wNow,       \* the sentence in synthesis, or NoSentence
    wShown,     \* pieces shown so far
    wFrom,      \* the first piece in sentence_buffer; wShown + 1 when it is empty
    wFinal,     \* the run's final_response carried text
    wNotes,     \* other events so far
    wRunning,   \* running
    wTexts,     \* history: pieces yielded
    wSaid       \* history: sentences whose audio was yielded

replyVars == <<wCall, wSpeak, wLlm, wTts, wOut, wSentences, wNow, wShown, wFrom,
               wFinal, wNotes, wRunning, wTexts, wSaid>>

NoSentence == [from |-> 0, to |-> 0]

\* The text of final_response, spoken when nothing else was.
FinalText == [from |-> 1, to |-> 0]

\* The None that ends the worker.
Close == [from |-> 0, to |-> 1]

Buffered == [from |-> wFrom, to |-> wShown]

Note(kind, sentence) == [kind |-> kind, sentence |-> sentence]

Put(kind) == wOut' = Append(wOut, Note(kind, NoSentence))

ReplyInit ==
    /\ wCall = "idle" /\ wLlm = "idle" /\ wTts = "idle"
    /\ wSpeak = FALSE /\ wFinal = FALSE
    /\ wOut = <<>> /\ wSentences = <<>> /\ wNow = NoSentence
    /\ wShown = 0 /\ wFrom = 1 /\ wNotes = 0 /\ wRunning = 0
    /\ wTexts = 0 /\ wSaid = <<>>

ReplyBegin ==
    /\ wCall = "idle"
    /\ wSpeak' \in BOOLEAN
    /\ wCall' = "waiting"
    /\ wLlm' = "reading"
    /\ wTts' = IF wSpeak' THEN "ready" ELSE "idle"
    /\ wRunning' = IF wSpeak' THEN 2 ELSE 1
    /\ UNCHANGED <<wOut, wSentences, wNow, wShown, wFrom, wFinal, wNotes, wTexts, wSaid>>

(***************************************************************************)
(* The agent's events.                                                     *)
(***************************************************************************)
LlmVars == <<wCall, wSpeak, wTts, wNow, wRunning, wTexts, wSaid>>

\* ends: the piece ends a sentence.
LlmContent ==
    /\ wLlm = "reading" /\ wShown < MaxPieces
    /\ wShown' = wShown + 1
    /\ Put("text")
    /\ \E ends \in BOOLEAN :
          IF wSpeak /\ ends
          THEN /\ wSentences' = Append(wSentences, [from |-> wFrom, to |-> wShown'])
               /\ wFrom' = wShown' + 1
          ELSE UNCHANGED <<wSentences, wFrom>>
    /\ UNCHANGED <<wLlm, wFinal, wNotes, LlmVars>>

\* Mutant: the buffer is not emptied.
LlmToolCallKeeps ==
    /\ wLlm = "reading" /\ wNotes < MaxNotes
    /\ wNotes' = wNotes + 1
    /\ Put("note")
    /\ wSentences' = IF wSpeak /\ wFrom <= wShown THEN Append(wSentences, Buffered)
                     ELSE wSentences
    /\ UNCHANGED <<wLlm, wFrom, wShown, wFinal, LlmVars>>

\* Text before a tool call is complete: it is spoken while the tool runs.
LlmToolCall ==
    /\ wLlm = "reading" /\ wNotes < MaxNotes
    /\ wNotes' = wNotes + 1
    /\ Put("note")
    /\ IF wSpeak /\ wFrom <= wShown
       THEN /\ wSentences' = Append(wSentences, Buffered)
            /\ wFrom' = wShown + 1
       ELSE UNCHANGED <<wSentences, wFrom>>
    /\ UNCHANGED <<wLlm, wShown, wFinal, LlmVars>>

\* tool_result and error events are passed on.
LlmNote ==
    /\ wLlm = "reading" /\ wNotes < MaxNotes
    /\ wNotes' = wNotes + 1
    /\ Put("note")
    /\ UNCHANGED <<wLlm, wSentences, wFrom, wShown, wFinal, LlmVars>>

LlmFinal ==
    /\ wLlm = "reading"
    /\ wFinal' \in BOOLEAN
    /\ UNCHANGED <<wLlm, wOut, wSentences, wFrom, wShown, wNotes, LlmVars>>

\* The partial sentence, or the final text.
Leftover ==
    (IF wSpeak /\ wFrom <= wShown THEN <<Buffered>> ELSE <<>>)
        \o (IF wSpeak /\ wShown = 0 /\ wFinal THEN <<FinalText>> ELSE <<>>)

\* The None that ends the worker comes last; the mutant is Leftover without it.
LastSentences == Leftover \o <<Close>>

\* The stream ends.
LlmEnd ==
    /\ wLlm = "reading"
    /\ wLlm' = "over"
    /\ wFrom' = wShown + 1
    /\ wSentences' = wSentences \o LastSentences
    /\ Put("done")
    /\ UNCHANGED <<wShown, wFinal, wNotes, LlmVars>>

\* The run raises: the worker's None is not queued.
LlmFail ==
    /\ wLlm = "reading"
    /\ wLlm' = "over"
    /\ wOut' = wOut \o <<Note("exc", NoSentence), Note("done", NoSentence)>>
    /\ UNCHANGED <<wSentences, wFrom, wShown, wFinal, wNotes, LlmVars>>

(***************************************************************************)
(* The speech worker.                                                      *)
(***************************************************************************)
TtsVars == <<wCall, wSpeak, wLlm, wShown, wFrom, wFinal, wNotes, wRunning, wTexts, wSaid>>

TtsTake ==
    /\ wTts = "ready" /\ wSentences # <<>>
    /\ wSentences' = Tail(wSentences)
    /\ IF Head(wSentences) = Close
       THEN /\ wTts' = "over"
            /\ Put("done")
            /\ UNCHANGED wNow
       ELSE /\ wTts' = "speaking"
            /\ wNow' = Head(wSentences)
            /\ UNCHANGED wOut
    /\ UNCHANGED TtsVars

TtsSpeak ==
    /\ wTts = "speaking"
    /\ wTts' = "ready"
    /\ wOut' = Append(wOut, Note("audio", wNow))
    /\ wNow' = NoSentence
    /\ UNCHANGED <<wSentences, TtsVars>>

TtsFail ==
    /\ wTts = "speaking"
    /\ wTts' = "over"
    /\ wOut' = wOut \o <<Note("exc", NoSentence), Note("done", NoSentence)>>
    /\ wNow' = NoSentence
    /\ UNCHANGED <<wSentences, TtsVars>>

(***************************************************************************)
(* The generator.  Leaving it cancels both tasks and waits for them.       *)
(***************************************************************************)
LeaveReply(how) ==
    /\ wCall' = how
    /\ wLlm' = "over"
    /\ wTts' = "over"

ReplyTake ==
    /\ wCall = "waiting" /\ wOut # <<>>
    /\ wOut' = Tail(wOut)
    /\ LET item == Head(wOut) IN
       \/ /\ item.kind = "done"
          /\ wRunning' = wRunning - 1
          /\ IF wRunning = 1 THEN LeaveReply("finished") ELSE UNCHANGED <<wCall, wLlm, wTts>>
          /\ UNCHANGED <<wTexts, wSaid>>
       \/ /\ item.kind = "exc"
          /\ LeaveReply("failed")
          /\ UNCHANGED <<wRunning, wTexts, wSaid>>
       \/ /\ item.kind \in {"text", "audio", "note"}
          /\ wCall' = "sending"
          /\ wTexts' = IF item.kind = "text" THEN wTexts + 1 ELSE wTexts
          /\ wSaid' = IF item.kind = "audio" THEN Append(wSaid, item.sentence) ELSE wSaid
          /\ UNCHANGED <<wLlm, wTts, wRunning>>
    /\ UNCHANGED <<wSpeak, wSentences, wNow, wShown, wFrom, wFinal, wNotes>>

ReplyResume ==
    /\ wCall = "sending"
    /\ wCall' = "waiting"
    /\ UNCHANGED <<wSpeak, wLlm, wTts, wOut, wSentences, wNow, wShown, wFrom, wFinal,
                   wNotes, wRunning, wTexts, wSaid>>

\* A barge-in cancels the reply at any await, or its caller closes it.
ReplyLeave ==
    /\ wCall \in {"waiting", "sending"}
    /\ LeaveReply("left")
    /\ UNCHANGED <<wSpeak, wOut, wSentences, wNow, wShown, wFrom, wFinal, wNotes,
                   wRunning, wTexts, wSaid>>

LlmStep == LlmContent \/ LlmToolCall \/ LlmNote \/ LlmFinal \/ LlmEnd \/ LlmFail

ReplyNext ==
    \/ ReplyBegin
    \/ LlmStep
    \/ TtsTake \/ TtsSpeak \/ TtsFail
    \/ ReplyTake \/ ReplyResume \/ ReplyLeave

(***************************************************************************)
(* Both tasks are scheduled, the agent's run and a synthesis come to an    *)
(* end, and the caller takes what it is given.                             *)
(***************************************************************************)
ReplyFairness ==
    /\ WF_replyVars(LlmEnd)
    /\ WF_replyVars(TtsTake)
    /\ WF_replyVars(TtsSpeak)
    /\ WF_replyVars(ReplyTake)
    /\ WF_replyVars(ReplyResume)

-----------------------------------------------------------------------------
(***************************************************************************)
(* What is said is what is shown: the audio never runs ahead of the text,  *)
(* follows it sentence after sentence without a gap or a repetition, and,  *)
(* when the reply ends by itself, covers all of it; a reply that shows no  *)
(* text says the final response or nothing.  (cascaded.py:344-454)         *)
(***************************************************************************)
SpokenOnce ==
    /\ \A i \in DOMAIN wSaid :
          \/ wSaid[i] = FinalText /\ wSaid = <<FinalText>> /\ wShown = 0
          \/ /\ wSaid[i].from = IF i = 1 THEN 1 ELSE wSaid[i - 1].to + 1
             /\ wSaid[i].to \in wSaid[i].from .. wTexts
    /\ (wCall = "finished" /\ wSpeak) =>
          IF wShown = 0 THEN wFinal <=> wSaid # <<>>
          ELSE wSaid # <<>> /\ wSaid[Len(wSaid)].to = wShown

(***************************************************************************)
(* A reply ends: the generator is not left waiting for a task that is over *)
(* or that waits for a sentence nobody will queue, also when the run or    *)
(* the synthesis raises.  (cascaded.py:406, 426-454)                       *)
(***************************************************************************)
ReplyEnds == wCall \in {"waiting", "sending"} ~> wCall \in {"finished", "failed", "left"}

ReplySpec == ReplyInit /\ [][ReplyNext]_replyVars /\ ReplyFairness
=============================================================================
