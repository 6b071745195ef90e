----------------------------- MODULE MCStreams ------------------------------
(***************************************************************************)
(* What answers a caller and must come to an end, checked side by side: a  *)
(* behaviour chooses a part at the start and takes its steps only.         *)
(***************************************************************************)
EXTENDS VoiceDuplex, VoiceReply, VoiceTurns, EngineStream, StreamReplay,
        GroupRun, JobTicks, SpeechToSpeech

VARIABLE part

vars ==
    <<part, duplexVars, replyVars, turnVars, engineVars, replayVars,
      groupVars, jobVars, s2sVars>>

MCInit ==
    /\ part \in {"duplex", "reply", "turns", "engine", "two runs",
                 "two readers", "group", "jobs", "speech"}
    /\ DuplexInit
    /\ ReplyInit
    /\ TurnsInit
    /\ EngineInit
    /\ ReplayInit
    /\ GroupInit
    /\ JobInit
    /\ S2SInit
    \* What a part that was not chosen would start from is of no account.
    /\ part = "speech" \/ (xCall.text /\ ~OpenAI)

\* Two runs of the session, of which one client reads.
TwoRuns ==
    /\ ReplayNext
    /\ \A d \in Readers \ {CHOOSE e \in Readers : TRUE} : pReaders'[d].state = "new"

\* One run, whose buffer stays until it has ended, and all readers.
TwoReaders ==
    /\ ReplayNext
    /\ \A r \in Runs \ {1} : pRuns'[r].state = "new"
    /\ pCurrent' = 0 => pCurrent = 0

\* The last frame is read only while the one reply there is has not begun.
ShortCalls ==
    /\ DuplexNext
    /\ (dFrames < MaxFrames /\ dFrames' = MaxFrames) => Current = 1 /\ ~dReplies[1].began

\* Streams share or inherit, and groups whose second member is a group share.
SomeGroups ==
    /\ GroupNext
    /\ gNested' \subseteq {2}
    /\ gStreams' => gSharing' # "isolated"
    /\ gNested' # {} => gSharing' = "shared"

\* The variables of the parts that were not chosen stay as they are.
Rests(names, v) == IF part \in names THEN TRUE ELSE UNCHANGED v

OthersRest ==
    /\ Rests({"duplex"}, duplexVars)
    /\ Rests({"reply"}, replyVars)
    /\ Rests({"turns"}, turnVars)
    /\ Rests({"engine"}, engineVars)
    /\ Rests({"two runs", "two readers"}, replayVars)
    /\ Rests({"group"}, groupVars)
    /\ Rests({"jobs"}, jobVars)
    /\ Rests({"speech"}, s2sVars)

MCNext ==
    /\ UNCHANGED part /\ OthersRest
    /\ \/ part = "duplex" /\ ShortCalls
       \/ part = "reply" /\ ReplyNext
       \/ part = "turns" /\ TurnsNext
       \/ part = "engine" /\ EngineNext
       \/ part = "two runs" /\ TwoRuns
       \/ part = "two readers" /\ TwoReaders
       \/ part = "group" /\ SomeGroups
       \/ part = "jobs" /\ JobNext
       \/ part = "speech" /\ S2SNext

\* No action that a fairness condition names is enabled in a part not chosen, so the
\* fairness of every part may be required of all behaviours.
MCSpec ==
    /\ MCInit /\ [][MCNext]_vars
    /\ DuplexFairness /\ ReplyFairness /\ EngineFairness /\ ReplayFairness
    /\ GroupFairness /\ JobFairness /\ S2SFairness

MCLangs == {"en", "hi", "ta"}
=============================================================================
