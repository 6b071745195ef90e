--------------------------- MODULE SpeechToSpeech ----------------------------
(***************************************************************************)
(* A call to a speech-to-speech model over one socket: a sender task       *)
(* passes the caller's audio on, and the generator takes what the model    *)
(* sends, runs the tools it asks for and gives everything to its consumer. *)
(* Two adapters: "openai" ends with the model's first whole response,      *)
(* "moshi" when the socket closes, which its sender does when the audio    *)
(* is over.                                                                *)
(*                                                                         *)
(* External: the model answers what it is asked, may answer speech unasked,*)
(* and the connection may be lost.                                         *)
(***************************************************************************)
EXTENDS Naturals, Sequences

CONSTANTS
    MaxRetries,     \* connect_with_retry
    MaxSounds,      \* bound: frames of the caller
    MaxSaid         \* bound: messages of the model other than the ends of responses

ASSUME S2SAssumption == MaxRetries \in Nat /\ MaxSounds \in Nat /\ MaxSaid \in Nat

VARIABLES
    xCall,      \* [adapter, text]: the adapter, and run_text instead of run_audio
    xStage,     \* "new", "opening", "backoff", "running", "leaving", "ended"
    xAttempt,
    xSocket,    \* "none", "open", "closed", "lost"
    xSender,    \* "none", "reading", "sending", "last" (what it does when the audio is over), "over"
    xInput,     \* the caller's audio: "on", "ended", "failed"
    xSounds,    \* frames read so far
    xOwed,      \* responses the model was asked for and has not ended
    xInbox,     \* messages of the model that the generator has not taken
    xSaid,      \* messages of the model so far
    xPump,      \* the generator: "give first", "wait", "give", "give call", "tool",
                \* "give result", "answer", "give last"
    xAsked, xAnswered,  \* tool calls taken, and their outputs sent
    xEnd        \* why it ended: "none", "done", "error", "closed", "raised", "left",
                \* "forgotten": closed where moshi does not look after its sender

s2sVars == <<xCall, xStage, xAttempt, xSocket, xSender, xInput, xSounds, xOwed, xInbox,
             xSaid, xPump, xAsked, xAnswered, xEnd>>

TheModel == <<xOwed, xInbox, xSaid>>
TheAudio == <<xSender, xInput, xSounds>>
TheTools == <<xAsked, xAnswered>>
Opening == <<xCall, xAttempt>>

S2SInit ==
    /\ xCall \in [adapter : {"openai", "moshi"}, text : BOOLEAN]
    /\ xStage = "new" /\ xAttempt = 0 /\ xSocket = "none" /\ xSender = "none"
    /\ xInput = "on" /\ xSounds = 0 /\ xOwed = 0 /\ xInbox = <<>> /\ xSaid = 0
    /\ xPump = "wait" /\ xAsked = 0 /\ xAnswered = 0 /\ xEnd = "none"

OpenAI == xCall.adapter = "openai"

-----------------------------------------------------------------------------
(* Connecting *)

\* moshi has no text turns, and says so.
S2SCall ==
    /\ xStage = "new"
    /\ IF xCall.text /\ ~OpenAI THEN xStage' = "ended" /\ xEnd' = "error"
       ELSE xStage' = "opening" /\ UNCHANGED xEnd
    /\ UNCHANGED <<Opening, xSocket, TheAudio, TheModel, TheTools, xPump>>

\* The socket is open and configured; run_text has asked for its response.
Connected ==
    /\ xStage = "opening"
    /\ xStage' = "running" /\ xSocket' = "open" /\ xAttempt' = 0
    /\ xSender' = IF xCall.text THEN "none" ELSE "reading"
    /\ xOwed' = IF xCall.text THEN 1 ELSE 0
    /\ xPump' = IF OpenAI THEN "wait" ELSE "give first"
    /\ UNCHANGED <<xCall, xInput, xSounds, xInbox, xSaid, TheTools, xEnd>>

\* Only openai tries again.
ConnectFails ==
    /\ xStage = "opening"
    /\ xAttempt' = xAttempt + 1
    /\ IF OpenAI /\ xAttempt < MaxRetries THEN xStage' = "backoff" /\ UNCHANGED xEnd
       ELSE xStage' = "ended" /\ xEnd' = "raised"
    /\ UNCHANGED <<xCall, xSocket, TheAudio, TheModel, TheTools, xPump>>

ConnectAgain ==
    /\ xStage = "backoff" /\ xStage' = "opening"
    /\ UNCHANGED <<Opening, xSocket, TheAudio, TheModel, TheTools, xPump, xEnd>>

-----------------------------------------------------------------------------
(* The sender *)

Goes == xStage = "running" \/ xEnd = "forgotten"

\* The next frame of the caller, the end of the audio, or the transport raises.
SenderReads ==
    /\ Goes /\ xSender = "reading"
    /\ \/ /\ xSounds < MaxSounds /\ xSounds' = xSounds + 1
          /\ xSender' = "sending" /\ UNCHANGED xInput
       \/ xSender' = "last" /\ xInput' = "ended" /\ UNCHANGED xSounds
       \/ /\ xSender' = IF OpenAI THEN "over" ELSE "last"
          /\ xInput' = "failed" /\ UNCHANGED xSounds
    /\ UNCHANGED <<Opening, xStage, xSocket, TheModel, TheTools, xPump, xEnd>>

\* Nobody looks at the exception of a sender that could not send.
SenderSends ==
    /\ Goes /\ xSender = "sending"
    /\ xSender' = IF xSocket = "open" THEN "reading" ELSE IF OpenAI THEN "over" ELSE "last"
    /\ UNCHANGED <<Opening, xStage, xSocket, xInput, xSounds, TheModel, TheTools, xPump, xEnd>>

Closed == IF xSocket = "open" THEN "closed" ELSE xSocket

\* Mutant: moshi's socket stays open when the audio is over.
SenderStops ==
    /\ Goes /\ xSender = "last" /\ xSender' = "over"
    /\ xOwed' = IF OpenAI /\ xSocket = "open" THEN xOwed + 1 ELSE xOwed
    /\ UNCHANGED <<Opening, xStage, xSocket, xInput, xSounds, xInbox, xSaid, TheTools, xPump,
                   xEnd>>

\* openai commits the audio and asks for a response; moshi closes the socket.
SenderFinishes ==
    /\ Goes /\ xSender = "last" /\ xSender' = "over"
    /\ IF OpenAI
       THEN /\ xOwed' = IF xSocket = "open" THEN xOwed + 1 ELSE xOwed
            /\ UNCHANGED xSocket
       ELSE xSocket' = Closed /\ UNCHANGED xOwed
    /\ UNCHANGED <<Opening, xStage, xInput, xSounds, xInbox, xSaid, TheTools, xPump, xEnd>>

-----------------------------------------------------------------------------
(* The model and the connection: external *)

Receives(message) ==
    /\ xStage = "running" /\ xSocket = "open"
    /\ xInbox' = Append(xInbox, message)
    /\ UNCHANGED <<Opening, xStage, xSocket, TheAudio, TheTools, xPump, xEnd>>

\* Sounds or text, a tool call, or an error; moshi knows no tools.
ModelSays ==
    /\ xSaid < MaxSaid /\ xSaid' = xSaid + 1
    /\ \E kind \in {"sound", "error"} \cup (IF OpenAI THEN {"call"} ELSE {}) : Receives(kind)
    /\ UNCHANGED xOwed

\* A response is whole: one that was asked for, or one to speech it heard pause.
ModelEndsResponse ==
    /\ OpenAI
    /\ \/ xOwed > 0 /\ xOwed' = xOwed - 1 /\ UNCHANGED xSaid
       \/ xSounds > 0 /\ xSaid < MaxSaid /\ xSaid' = xSaid + 1 /\ UNCHANGED xOwed
    /\ Receives("done")

ConnectionLost ==
    /\ xStage = "running" /\ xSocket = "open" /\ xSocket' = "lost"
    /\ UNCHANGED <<Opening, xStage, TheAudio, TheModel, TheTools, xPump, xEnd>>

-----------------------------------------------------------------------------
(* The generator *)

Leave(why) == xStage' = "leaving" /\ xEnd' = why

\* The next message.  An error ends an openai call.
PumpTakes ==
    /\ xStage = "running" /\ xPump = "wait" /\ xInbox # <<>>
    /\ xInbox' = Tail(xInbox)
    /\ xAsked' = IF Head(xInbox) = "call" THEN xAsked + 1 ELSE xAsked
    /\ xPump' = CASE Head(xInbox) = "call" -> "give call"
                  [] OpenAI /\ Head(xInbox) \in {"done", "error"} -> "give last"
                  [] OTHER -> "give"
    /\ xEnd' = IF OpenAI /\ Head(xInbox) \in {"done", "error"} THEN Head(xInbox) ELSE xEnd
    /\ UNCHANGED <<Opening, xStage, xSocket, TheAudio, xOwed, xSaid, xAnswered>>

\* The socket is closed and everything taken: the loop ends, or raises.
PumpSeesEnd ==
    /\ xStage = "running" /\ xPump = "wait" /\ xInbox = <<>> /\ xSocket # "open"
    /\ Leave(IF xSocket = "lost" THEN "raised" ELSE "closed")
    /\ UNCHANGED <<Opening, xSocket, TheAudio, TheModel, TheTools, xPump>>

\* The consumer asks for the next event ...
ConsumerAsks ==
    /\ xStage = "running"
    /\ \/ xPump \in {"give", "give first"} /\ xPump' = "wait" /\ UNCHANGED <<xStage, xEnd>>
       \/ xPump = "give call" /\ xPump' = "tool" /\ UNCHANGED <<xStage, xEnd>>
       \/ xPump = "give result" /\ xPump' = "answer" /\ UNCHANGED <<xStage, xEnd>>
       \/ xPump = "give last" /\ Leave(xEnd) /\ UNCHANGED xPump
    /\ UNCHANGED <<Opening, xSocket, TheAudio, TheModel, TheTools>>

\* ... or closes the generator.
ConsumerCloses ==
    /\ xStage = "running"
    /\ \/ xPump \in {"give", "give call", "give result", "give last"} /\ Leave("left")
       \/ xPump = "give first" /\ Leave("forgotten")
    /\ UNCHANGED <<Opening, xSocket, TheAudio, TheModel, TheTools, xPump>>

\* _tool_executor: what a tool raises is the text of its result.
ToolEnds ==
    /\ xStage = "running" /\ xPump = "tool" /\ xPump' = "give result"
    /\ UNCHANGED <<Opening, xStage, xSocket, TheAudio, TheModel, TheTools, xEnd>>

\* The output goes to the model, and a response is asked for.
PumpAnswers ==
    /\ xStage = "running" /\ xPump = "answer"
    /\ IF xSocket = "open"
       THEN /\ xAnswered' = xAnswered + 1 /\ xOwed' = xOwed + 1 /\ xPump' = "wait"
            /\ UNCHANGED <<xStage, xEnd>>
       ELSE Leave("raised") /\ UNCHANGED <<xAnswered, xOwed, xPump>>
    /\ UNCHANGED <<Opening, xSocket, TheAudio, xInbox, xSaid, xAsked>>

\* The sender is cancelled: moshi's closes the socket on its way out.
SenderUnwinds ==
    /\ xStage \in {"leaving", "ended"} /\ xEnd # "forgotten"
    /\ xSender \in {"reading", "sending", "last"} /\ xSender' = "over"
    /\ xSocket' \in (IF OpenAI THEN {xSocket} ELSE IF xSender = "last" THEN {xSocket, Closed}
                     ELSE {Closed})
    /\ UNCHANGED <<Opening, xStage, xInput, xSounds, TheModel, TheTools, xPump, xEnd>>

\* openai closes the socket while its sender unwinds, moshi after it has.
Unwound == OpenAI \/ xSender = "over" \/ xEnd = "forgotten"

CloseSocket ==
    /\ xStage = "leaving" /\ xSocket = "open" /\ Unwound
    /\ xSocket' = Closed
    /\ UNCHANGED <<Opening, xStage, TheAudio, TheModel, TheTools, xPump, xEnd>>

CallOver ==
    /\ xStage = "leaving" /\ xSocket # "open" /\ Unwound
    /\ xStage' = "ended"
    /\ UNCHANGED <<Opening, xSocket, TheAudio, TheModel, TheTools, xPump, xEnd>>

S2SNext ==
    \/ S2SCall \/ Connected \/ ConnectFails \/ ConnectAgain
    \/ SenderReads \/ SenderSends \/ SenderFinishes
    \/ ModelSays \/ ModelEndsResponse \/ ConnectionLost
    \/ PumpTakes \/ PumpSeesEnd \/ ConsumerAsks \/ ConsumerCloses
    \/ ToolEnds \/ PumpAnswers \/ SenderUnwinds \/ CloseSocket \/ CallOver

(***************************************************************************)
(* Both tasks are scheduled, the consumer takes what it is given, a tool   *)
(* has its timeout, and the model ends the responses it was asked for.     *)
(***************************************************************************)
S2SFairness ==
    /\ WF_s2sVars(SenderSends)
    /\ WF_s2sVars(SenderFinishes)
    /\ WF_s2sVars(SenderUnwinds)
    /\ WF_s2sVars(PumpTakes)
    /\ WF_s2sVars(PumpSeesEnd)
    /\ WF_s2sVars(ConsumerAsks)
    /\ WF_s2sVars(ToolEnds)
    /\ WF_s2sVars(PumpAnswers)
    /\ WF_s2sVars(CloseSocket)
    /\ WF_s2sVars(CallOver)
    /\ WF_s2sVars(xOwed > 0 /\ ModelEndsResponse)

-----------------------------------------------------------------------------
(***************************************************************************)
(* A call ends once its audio is over, and a text turn ends: the generator *)
(* is not left waiting on the socket.  moshi ends too when the audio       *)
(* raises; openai then waits for a response it never asked for.  When it   *)
(* has ended the socket is not open, and a call that came to its end has   *)
(* answered every tool call it took from the model.                        *)
(* (adapters/s2s/openai_realtime.py:171-190, adapters/s2s/moshi.py:92-137) *)
(***************************************************************************)
S2SCallEnds ==
    /\ \/ xInput = "ended" \/ (xInput = "failed" /\ ~OpenAI)
       \/ (xStage = "running" /\ xCall.text)
       ~> xStage = "ended"
    /\ [](xStage = "ended" => xSocket # "open" /\ (xEnd = "done" => xAnswered = xAsked))

S2SSpec == S2SInit /\ [][S2SNext]_s2sVars /\ S2SFairness
=============================================================================
