----------------------------- MODULE VoiceTurns -----------------------------
(***************************************************************************)
(* The languages of one half-duplex call: RealtimeSession.run_audio, the   *)
(* loop of process_audio_stream and process_utterance, of a pipeline with  *)
(* language identification.  (Without it the pipeline keeps no language.)  *)
(*                                                                         *)
(* The call is one task, so an utterance is one action: identification,    *)
(* transcription, the choice of the reply's language, and the reply, whose *)
(* own events are the subject of VoiceReply.                               *)
(***************************************************************************)
EXTENDS Naturals, FiniteSets

CONSTANTS
    Langs,      \* codes the identification may return; "en" is English
    MaxTurns    \* bound: utterances in the call

ASSUME TurnsAssumption == "en" \in Langs /\ MaxTurns \in Nat

NoLang == "none"

ASSUME NoLangAssumption == NoLang \notin Langs

VARIABLES
    tCall,      \* idle, greeting, listening, over
    tAllowed,   \* languages.allowed
    tDefault,   \* languages.default: the check only warns when it is not allowed
    tSession,   \* session_lang
    tForced,    \* forced_lang
    tReply,     \* metadata["reply_language"], for the agent's prompt and the voice
    tTurns,     \* utterances so far
    tAsked      \* history: the language of the caller's last request

turnVars == <<tCall, tAllowed, tDefault, tSession, tForced, tReply, tTurns, tAsked>>

TurnsInit ==
    /\ tCall = "idle"
    /\ tAllowed = {} /\ tDefault = NoLang
    /\ tSession = NoLang /\ tForced = NoLang /\ tReply = NoLang
    /\ tTurns = 0 /\ tAsked = NoLang

\* _clamp_language: what it may return.  Any allowed language stands in when the default
\* is not allowed either.
Clamps(code) ==
    IF code \in tAllowed THEN {code} ELSE IF tDefault \in tAllowed THEN {tDefault} ELSE tAllowed

\* _language_fallback
Fallback ==
    CASE tForced # NoLang -> tForced
      [] tForced = NoLang /\ tSession # NoLang -> tSession
      [] OTHER -> tDefault

\* _indic_fallback_language: a default as it is configured, or an allowed language, by the
\* order of their names.
IndicFallbacks ==
    IF tDefault # "en" THEN {tDefault} ELSE tAllowed \ {"en"}

TurnsConnect ==
    /\ tCall = "idle"
    /\ tAllowed' \in (SUBSET Langs) \ {{}}
    /\ tDefault' \in Langs
    /\ \E greets \in BOOLEAN : tCall' = IF greets THEN "greeting" ELSE "listening"
    /\ UNCHANGED <<tSession, tForced, tReply, tTurns, tAsked>>

(***************************************************************************)
(* run_initial_response before the first frame: the metadata are seeded,   *)
(* then overwritten with the greeting's own language when it has one.      *)
(***************************************************************************)
TurnsGreet ==
    /\ tCall = "greeting"
    /\ tSession' \in Clamps(tDefault)
    /\ tReply' \in UNION {Clamps(l) : l \in Langs}
    /\ tCall' = "listening"
    /\ UNCHANGED <<tAllowed, tDefault, tForced, tTurns, tAsked>>

\* The identification answers any language, or fails and the fallback stands in.
Identified == Langs \cup {Fallback}

(***************************************************************************)
(* The transcript of an utterance detected as `lang`, and the language it  *)
(* is finally taken to be in: English comes with the identification, or a  *)
(* second transcription in another language is tried, whose failure is     *)
(* swallowed.                                                              *)
(***************************************************************************)
Transcribed(lang) ==
    IF lang = "en" THEN {"en"} \cup IndicFallbacks ELSE {lang}

\* The end of an utterance: the agent may have ended the call (ivr_terminal).
AfterTurn ==
    /\ tTurns' = tTurns + 1
    /\ tCall' \in {"listening", "over"}
    /\ UNCHANGED <<tAllowed, tDefault>>

TurnNothing(detected) ==
    /\ tSession' = detected
    /\ AfterTurn
    /\ UNCHANGED <<tForced, tReply, tAsked>>

\* The words ask for one of the allowed languages.
TurnRequest(requested) ==
    /\ tForced' \in Clamps(requested)
    /\ tSession' = tForced' /\ tReply' = tForced'
    /\ tAsked' = requested
    /\ AfterTurn

TurnForced ==
    /\ tForced # NoLang
    /\ tReply' = tForced
    /\ tSession' = tForced
    /\ AfterTurn
    /\ UNCHANGED <<tForced, tAsked>>

\* Mutant: the language identified counts, whatever was asked for.
TurnDetectedAnyway(lang) ==
    /\ tReply' = lang
    /\ tSession' = lang
    /\ AfterTurn
    /\ UNCHANGED <<tForced, tAsked>>

TurnDetected(lang) ==
    /\ tForced = NoLang
    /\ tReply' = lang
    /\ tSession' = lang
    /\ AfterTurn
    /\ UNCHANGED <<tForced, tAsked>>

\* A transcription that raises, other than the second one, ends the call.
TurnFails(detected) ==
    /\ detected # "en"
    /\ tSession' = detected
    /\ tCall' = "over"
    /\ UNCHANGED <<tAllowed, tDefault, tForced, tReply, tTurns, tAsked>>

Utterance ==
    /\ tCall = "listening" /\ tTurns < MaxTurns
    /\ \E identified \in Identified : \E detected \in Clamps(identified) :
          \/ TurnNothing(detected)
          \/ \E requested \in tAllowed : TurnRequest(requested)
          \/ TurnForced
          \/ \E lang \in Transcribed(detected) : TurnDetected(lang)
          \/ TurnFails(detected)

\* The caller hangs up between utterances, or the audio ends.
HangUp ==
    /\ tCall \in {"greeting", "listening"}
    /\ tCall' = "over"
    /\ UNCHANGED <<tAllowed, tDefault, tSession, tForced, tReply, tTurns, tAsked>>

TurnsNext == TurnsConnect \/ TurnsGreet \/ Utterance \/ HangUp

-----------------------------------------------------------------------------
(***************************************************************************)
(* Once the caller has asked for a language, every later reply is in it,   *)
(* until the next request, whatever is identified, misheard or not heard   *)
(* in between, and it is one the agent may use.  Before that a reply may   *)
(* leave the allowed languages in one case only: the default itself is not *)
(* allowed, English is, and an utterance taken for English gave no text,   *)
(* so that it is transcribed in the default language, which nothing clamps *)
(* (cascaded.py:146-171, 502-567; docs/reference/realtime-agents.md:123    *)
(* says that replies are clamped, without exception).                      *)
(***************************************************************************)
StickyLanguage ==
    /\ tAsked # NoLang => tReply = tAsked /\ tReply \in tAllowed
    /\ tReply \notin tAllowed \cup {NoLang} =>
          tReply = tDefault /\ tDefault # "en" /\ "en" \in tAllowed

TurnsSpec == TurnsInit /\ [][TurnsNext]_turnVars
=============================================================================
