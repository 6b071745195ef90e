------------------------------- MODULE LlmCall -------------------------------
(***************************************************************************)
(* One call of the LLM: asking the provider, with retries when the answer  *)
(* comes as a whole, putting a streamed answer together from its deltas,   *)
(* and what the loop makes of it: tool calls written out in the text are   *)
(* taken for calls, calls over the limit are left out, and the message     *)
(* that is saved always says something.                                    *)
(*                                                                         *)
(* A call is the index the provider gives it.  The pieces of its arguments *)
(* are numbered, so that one in the wrong place or the wrong call shows.   *)
(* Text is a sequence of words, blanks and written-out calls: a block, one *)
(* that names no function, or one in the second syntax ("gemma").          *)
(***************************************************************************)
EXTENDS Naturals, Sequences, SequencesExt, FiniteSets, Ordered

CONSTANTS
    MaxIndex,   \* bound: calls the provider asks for
    MaxPieces,   \* bound: pieces of the arguments of a call
    MaxText,    \* bound: pieces of text, and of reasoning
    MaxRetries, \* max_retries of the provider's configuration
    CallLimits  \* values of max_tool_calls_per_turn, 0 for none

ASSUME LlmAssumption ==
    {MaxIndex, MaxPieces, MaxText, MaxRetries} \cup CallLimits \subseteq Nat

Pieces == {"word", "blank", "block", "unnamed", "gemma"}
Indexes == 1 .. MaxIndex

VARIABLES
    cStreamed,  \* chat_stream or chat
    cState,     \* idle, asking, waiting (to retry), answering, answered, failed, cancelled
    cTries,     \* attempts that failed
    cAsked,     \* history: what the provider asked for, Indexes -> [named, parts]
    cText,      \* the text so far
    cThought,   \* the reasoning so far
    cAcc,       \* tool_calls_acc: index -> [name, args], the deltas merged
    cShown,     \* content events the caller was given
    cCancel,    \* cancel() was called
    cCut,       \* history: calls whose arguments the provider did not finish
    cReply      \* [calls, text, message, limit], once answered

callVars == <<cStreamed, cState, cTries, cAsked, cText, cThought, cAcc, cShown,
              cCancel, cCut, cReply>>

NoReply == [calls |-> <<>>, text |-> <<>>, message |-> "none", limit |-> 0]

CallInit ==
    /\ cStreamed \in BOOLEAN /\ cState = "idle" /\ cTries = 0
    /\ cAsked = <<>> /\ cText = <<>> /\ cThought = <<>>
    /\ cAcc = <<>> /\ cShown = 0
    /\ cCancel = FALSE /\ cCut = {} /\ cReply = NoReply

Answer == <<cAsked, cText, cThought, cAcc, cShown, cCut, cReply>>

-----------------------------------------------------------------------------
Ask ==
    /\ \/ cState = "idle"
       \/ cState = "waiting"
    /\ cState' = "asking"
    /\ UNCHANGED <<cStreamed, cTries, cCancel, Answer>>

ProviderAnswers ==
    /\ cState = "asking"
    /\ cState' = "answering"
    /\ UNCHANGED <<cStreamed, cTries, cCancel, Answer>>

\* An error or the timeout, until the stream or the whole answer is there.  Only a whole
\* answer is asked for again.
ProviderFails ==
    /\ \/ cState = "asking"
       \/ cState = "answering" /\ ~cStreamed
    /\ cTries' = cTries + 1
    /\ cState' = IF ~cStreamed /\ cTries < MaxRetries THEN "waiting" ELSE "failed"
    /\ cAsked' = <<>> /\ cText' = <<>> /\ cThought' = <<>>
    /\ UNCHANGED <<cStreamed, cCancel, cAcc, cShown, cCut, cReply>>

\* The stream breaks off; what was shown stays shown.
StreamFails ==
    /\ cState = "answering" /\ cStreamed
    /\ cState' = "failed"
    /\ UNCHANGED <<cStreamed, cTries, cCancel, Answer>>

Cancel ==
    /\ ~cCancel /\ cCancel' = TRUE
    /\ UNCHANGED <<cStreamed, cState, cTries, Answer>>

\* The loop looks at the flag when a chunk arrives.
ChunkAfterCancel ==
    /\ cState = "answering" /\ cStreamed /\ cCancel
    /\ cState' = "cancelled"
    /\ UNCHANGED <<cStreamed, cTries, cCancel, Answer>>

Arrives == cState = "answering" /\ ~(cStreamed /\ cCancel)

-----------------------------------------------------------------------------
(* Deltas.  Several calls may be under way at once. *)

\* Mutant: a delta belongs to the call that was begun last.
MergeToLatest(acc, i, delta) ==
    LET at == IF delta.begins THEN i ELSE Len(cAsked)
        entry == IF at \in DOMAIN acc THEN acc[at] ELSE [name |-> 0, args |-> <<>>]
    IN [j \in DOMAIN acc \cup {at} |->
          IF j # at THEN acc[j]
          ELSE [name |-> IF delta.name # 0 THEN delta.name ELSE entry.name,
                args |-> entry.args \o delta.args]]

\* _merge_tool_call_delta
MergeDelta(acc, i, delta) ==
    LET entry == IF i \in DOMAIN acc THEN acc[i] ELSE [name |-> 0, args |-> <<>>] IN
    [j \in DOMAIN acc \cup {i} |->
        IF j # i THEN acc[j]
        ELSE [name |-> IF delta.name # 0 THEN delta.name ELSE entry.name,
              args |-> entry.args \o delta.args]]

AccWith(i, delta) == IF cStreamed THEN MergeDelta(cAcc, i, delta) ELSE cAcc

\* The next call, with its name or, from some models, without.
CallBegins(named) ==
    /\ Arrives /\ Len(cAsked) < MaxIndex
    /\ LET i == Len(cAsked) + 1 IN
       /\ cAsked' = Append(cAsked, [named |-> named, parts |-> 0])
       /\ cAcc' = AccWith(i, [begins |-> TRUE, name |-> IF named THEN i ELSE 0, args |-> <<>>])
    /\ UNCHANGED <<cStreamed, cState, cTries, cText, cThought, cShown, cCancel, cCut, cReply>>

CallGoesOn(i) ==
    /\ Arrives /\ i \in DOMAIN cAsked /\ cAsked[i].parts < MaxPieces
    /\ cAsked' = [cAsked EXCEPT ![i].parts = @ + 1]
    /\ cAcc' = AccWith(i, [begins |-> FALSE, name |-> 0,
                           args |-> <<<<i, cAsked[i].parts + 1>>>>])
    /\ UNCHANGED <<cStreamed, cState, cTries, cText, cThought, cShown, cCancel, cCut, cReply>>

TextArrives(piece) ==
    /\ Arrives /\ Len(cText) < MaxText
    /\ cText' = Append(cText, piece)
    /\ cShown' = IF cStreamed THEN cShown + 1 ELSE cShown
    /\ UNCHANGED <<cStreamed, cState, cTries, cAsked, cThought, cAcc, cCancel, cCut, cReply>>

ThoughtArrives(piece) ==
    /\ Arrives /\ cThought = <<>>
    /\ cThought' = <<piece>>
    /\ UNCHANGED <<cStreamed, cState, cTries, cAsked, cText, cAcc, cShown, cCancel, cCut, cReply>>

-----------------------------------------------------------------------------
(* What the loop makes of it *)

\* Arguments that do not parse, for instance cut off at max_tokens, become none.
Input(i, args, cut) == IF i \in cut THEN <<>> ELSE args

\* _tool_calls_from_accumulated: by index, the nameless left out.
FromDeltas(cut) ==
    LET named == Ascending({i \in DOMAIN cAcc : cAcc[i].name # 0})
    IN [k \in DOMAIN named |->
          [name |-> cAcc[named[k]].name, args |-> Input(named[k], cAcc[named[k]].args, cut)]]

\* _parse_tool_calls: as they are listed, a name missing or not.
FromMessage(cut) ==
    [i \in DOMAIN cAsked |->
        [name |-> IF cAsked[i].named THEN i ELSE 0,
         args |-> Input(i, [p \in 1 .. cAsked[i].parts |-> <<i, p>>], cut)]]

Written(text, kinds) == AtPlaces(text, {k \in DOMAIN text : text[k] \in kinds})
WrittenCalls(text, kind) ==
    [k \in DOMAIN Written(text, {kind}) |-> [name |-> kind, args |-> <<>>]]

\* extract_tool_calls_from_text: all blocks leave the text once one of them names a
\* function; the second syntax counts if there is none.
Extract(text) ==
    IF Written(text, {"block"}) # <<>>
    THEN [calls |-> WrittenCalls(text, "block"), rest |-> Written(text, {"word", "blank", "gemma"})]
    ELSE [calls |-> WrittenCalls(text, "gemma"),
          rest |-> IF Written(text, {"gemma"}) = <<>> THEN text
                   ELSE Written(text, {"word", "blank", "unnamed"})]

\* promote_content_tool_calls: native calls first, then the text, then the reasoning.
Promote(native) ==
    CASE native # <<>> -> [calls |-> native, text |-> cText]
      [] native = <<>> /\ Extract(cText).calls # <<>> ->
            [calls |-> Extract(cText).calls, text |-> Extract(cText).rest]
      [] native = <<>> /\ Extract(cText).calls = <<>> ->
            [calls |-> Extract(cThought).calls, text |-> cText]

Limited(calls, limit) ==
    IF limit = 0 \/ Len(calls) <= limit THEN calls ELSE SubSeq(calls, 1, limit)

Says(text) == \E k \in DOMAIN text : text[k] # "blank"

\* build_assistant_llm_message
Message(calls, text) ==
    CASE calls # <<>> -> "calls"
      [] calls = <<>> /\ Says(text) -> "text"
      [] calls = <<>> /\ ~Says(text) -> "placeholder"

\* The provider is through, or has stopped in the middle of some calls.
AnswerEnds(cut, limit) ==
    /\ cState = "answering"
    /\ cut \subseteq {i \in DOMAIN cAsked : cAsked[i].parts # 0}
    /\ cState' = "answered" /\ cCut' = cut
    /\ LET native == IF cStreamed THEN FromDeltas(cut) ELSE FromMessage(cut)
           promoted == Promote(native)
           calls == Limited(promoted.calls, limit)
       IN cReply' = [calls |-> calls, text |-> promoted.text,
                     limit |-> limit,
                     message |-> Message(calls, promoted.text)]
    /\ UNCHANGED <<cStreamed, cTries, cAsked, cText, cThought, cAcc, cShown, cCancel>>

CallNext ==
    \/ Ask \/ ProviderAnswers \/ ProviderFails \/ StreamFails \/ Cancel \/ ChunkAfterCancel
    \/ \E named \in BOOLEAN : CallBegins(named)
    \/ \E i \in Indexes : CallGoesOn(i)
    \/ \E piece \in Pieces : TextArrives(piece) \/ ThoughtArrives(piece)
    \/ \E cut \in SUBSET Indexes, limit \in CallLimits : AnswerEnds(cut, limit)

-----------------------------------------------------------------------------
\* The calls of the answer, as the provider meant them.
Meant == Ascending({i \in DOMAIN cAsked : cAsked[i].named \/ ~cStreamed})

(***************************************************************************)
(* However the deltas of several calls are mixed, the calls that run are   *)
(* the provider's, in its order and each with its own arguments or, where  *)
(* those were cut off, with none; calls written out in the text or the     *)
(* reasoning run only if there are no others; and the message that is      *)
(* saved has calls or says something.                                      *)
(* (runner/agent_runner.py:82-120, llm/content_tool_calls.py:117-187)      *)
(***************************************************************************)
CallsAsSent ==
    cState = "answered" =>
        /\ LET all == cReply.limit = 0 \/ Len(Meant) <= cReply.limit
               count == IF all THEN Len(Meant) ELSE cReply.limit
           IN Meant # <<>> =>
                /\ Len(cReply.calls) = count
                /\ \A k \in 1 .. count :
                      LET i == Meant[k] IN
                      /\ cReply.calls[k].name = IF cAsked[i].named THEN i ELSE 0
                      /\ cReply.calls[k].args =
                            IF i \in cCut THEN <<>>
                            ELSE [p \in 1 .. cAsked[i].parts |-> <<i, p>>]
        /\ Meant = <<>> =>
              \A k \in DOMAIN cReply.calls : cReply.calls[k].name \in {"block", "gemma"}
        /\ cReply.calls # <<>> \/ Says(cReply.text) \/ cReply.message = "placeholder"

CallSpec == CallInit /\ [][CallNext]_callVars
=============================================================================
