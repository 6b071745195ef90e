----------------------------- MODULE VoiceProofs -----------------------------
(***************************************************************************)
(* A voice call, for any number of turns, replies, frames and events: the  *)
(* language of its replies, what one reply says of what it shows, and what *)
(* may cut a reply and end the call; and that a setup of which no error is *)
(* found starts.                                                           *)
(***************************************************************************)
EXTENDS VoiceTurns, VoiceReply, VoiceDuplex, VoiceSetup, SequenceTheorems, TLAPS

-----------------------------------------------------------------------------
(* VoiceTurns                                                              *)

\* The one language outside the allowed ones that a reply can be in.
Stray(l) == l = tDefault /\ tDefault # "en" /\ "en" \in tAllowed

\* A language the call may remember.
Usable(l) == l \in tAllowed \cup {NoLang} \/ Stray(l)

(***************************************************************************)
(* What the clamping keeps: every language remembered is allowed, or none, *)
(* or the stray default; the language asked for is an allowed one, the one *)
(* forced and that of the last reply.                                      *)
(***************************************************************************)
TurnsInv ==
    /\ tAllowed \subseteq Langs
    /\ tCall \in {"idle", "greeting", "listening", "over"}
    /\ Usable(tReply) /\ tForced \in tAllowed \cup {NoLang}
    /\ tCall \in {"idle", "greeting"} =>
          tForced = NoLang /\ tReply = NoLang /\ tAsked = NoLang
    /\ tCall \in {"greeting", "listening"} => tAllowed # {}
    /\ tAsked # NoLang => tForced = tAsked /\ tReply = tAsked /\ tAsked \in tAllowed
    /\ tForced # NoLang => tAsked = tForced

\* What _clamp_language returns is allowed, whatever it is given.
LEMMA ClampAllowed ==
    ASSUME NEW l
    PROVE  Clamps(l) \subseteq tAllowed
BY DEF Clamps

\* The language an utterance is finally taken to be in is allowed or the stray default.
LEMMA TranscribedUsable ==
    ASSUME NEW d \in tAllowed, NEW l \in Transcribed(d)
    PROVE  Usable(l)
BY DEF Transcribed, IndicFallbacks, Usable, Stray

LEMMA TurnsInitially == TurnsInit => TurnsInv
BY DEF TurnsInit, TurnsInv, Usable

\* One utterance.
LEMMA UtteranceKeeps == TurnsInv /\ Utterance => TurnsInv'
<1> SUFFICES ASSUME TurnsInv, Utterance
             PROVE  TurnsInv'
    OBVIOUS
<1> USE NoLangAssumption
<1>1. tCall = "listening"
    BY DEF Utterance
<1>0. PICK identified \in Identified : \E d \in Clamps(identified) :
          \/ TurnNothing(d)
          \/ \E requested \in tAllowed : TurnRequest(requested)
          \/ TurnForced
          \/ \E lang \in Transcribed(d) : TurnDetected(lang)
          \/ TurnFails(d)
    BY DEF Utterance
<1>2. PICK d \in Clamps(identified) :
          \/ TurnNothing(d)
          \/ \E requested \in tAllowed : TurnRequest(requested)
          \/ TurnForced
          \/ \E lang \in Transcribed(d) : TurnDetected(lang)
          \/ TurnFails(d)
    BY <1>0
<1>3. d \in tAllowed
    BY <1>2, ClampAllowed
<1>4. CASE TurnNothing(d)
    BY <1>1, <1>4 DEF TurnNothing, AfterTurn, TurnsInv, Usable, Stray
<1>5. CASE \E requested \in tAllowed : TurnRequest(requested)
  <2>1. PICK requested \in tAllowed : TurnRequest(requested)
      BY <1>5
  <2>2. Clamps(requested) = {requested}
      BY DEF Clamps
  <2> QED
      BY <1>1, <2>1, <2>2 DEF TurnRequest, AfterTurn, TurnsInv, Usable
<1>6. CASE TurnForced
    BY <1>1, <1>6 DEF TurnForced, AfterTurn, TurnsInv, Usable
<1>7. CASE \E lang \in Transcribed(d) : TurnDetected(lang)
  <2>1. PICK lang \in Transcribed(d) : TurnDetected(lang)
      BY <1>7
  <2>2. Usable(lang)
      BY <1>3, TranscribedUsable
  <2>3. tAsked = NoLang
      BY <2>1 DEF TurnDetected, TurnsInv
  <2> QED
      BY <1>1, <2>1, <2>2, <2>3 DEF TurnDetected, AfterTurn, TurnsInv, Usable, Stray
<1>8. CASE TurnFails(d)
    BY <1>1, <1>8 DEF TurnFails, TurnsInv, Usable, Stray
<1> QED
    BY <1>2, <1>4, <1>5, <1>6, <1>7, <1>8

LEMMA TurnsStep == TurnsInv /\ [TurnsNext]_turnVars => TurnsInv'
<1> SUFFICES ASSUME TurnsInv, [TurnsNext]_turnVars
             PROVE  TurnsInv'
    OBVIOUS
<1>1. CASE TurnsConnect
    BY <1>1, NoLangAssumption DEF TurnsConnect, TurnsInv, Usable
<1>2. CASE TurnsGreet
  <2>1. tReply' \in tAllowed
      BY <1>2, ClampAllowed DEF TurnsGreet
  <2> QED
      BY <1>2, <2>1 DEF TurnsGreet, TurnsInv, Usable
<1>3. CASE Utterance
    BY <1>3, UtteranceKeeps
<1>4. CASE HangUp
    BY <1>4 DEF HangUp, TurnsInv, Usable, Stray
<1>5. CASE UNCHANGED turnVars
    BY <1>5 DEF turnVars, TurnsInv, Usable, Stray
<1> QED
    BY <1>1, <1>2, <1>3, <1>4, <1>5 DEF TurnsNext

LEMMA TurnsInvSuffices == TurnsInv => StickyLanguage
BY NoLangAssumption DEF TurnsInv, Usable, Stray, StickyLanguage

(***************************************************************************)
(* The language a caller asked for holds until the next request, and a     *)
(* reply is in an allowed language, or in the default when it is not one   *)
(* and an utterance taken for English gave no text: for any languages,     *)
(* configuration and number of turns (process_utterance, _clamp_language,  *)
(* _language_fallback, _indic_fallback_language).                          *)
(***************************************************************************)
THEOREM Sticky == TurnsSpec => []StickyLanguage
<1>1. TurnsSpec => []TurnsInv
    BY TurnsInitially, TurnsStep, PTL DEF TurnsSpec
<1> QED
    BY <1>1, TurnsInvSuffices, PTL

-----------------------------------------------------------------------------
(***************************************************************************)
(* VoiceReply.  The invariant speaks of two histories that no variable     *)
(* holds: all the sentences the text was cut into, and, for every place in *)
(* the queue, the marks: how many sentences and pieces the generator will  *)
(* have yielded, and how many tasks it will wait for, when it gets there.  *)
(***************************************************************************)
Ranges == [from : Nat, to : Nat]
ItemKinds == {"text", "note", "audio", "done", "exc"}
ReplyItems == [kind : ItemKinds, sentence : Ranges]
Marks == [said : Nat, shown : Nat, left : Nat]

\* What taking an item makes of a mark.
Seen(m, item) ==
    [said |-> IF item.kind = "audio" THEN m.said + 1 ELSE m.said,
     shown |-> IF item.kind = "text" THEN m.shown + 1 ELSE m.shown,
     left |-> IF item.kind = "done" THEN m.left - 1 ELSE m.left]

\* An item comes from a task that is still waited for; audio is of the next sentence, and
\* all its text is there before it.
Fits(all, m, item) ==
    /\ m.left >= 1
    /\ item.kind = "audio" =>
          /\ m.said + 1 \in 1 .. Len(all)
          /\ item.sentence = all[m.said + 1]
          /\ item.sentence.to <= m.shown

Tracked(all, marks, out) ==
    /\ marks \in Seq(Marks) /\ Len(marks) = Len(out) + 1
    /\ \A p \in 1 .. Len(out) : Fits(all, marks[p], out[p])
    /\ \A p \in 1 .. Len(out) : marks[p + 1] = Seen(marks[p], out[p])

LEMMA SeenIsMark ==
    ASSUME NEW m \in Marks, NEW item \in ReplyItems, m.left >= 1
    PROVE  Seen(m, item) \in Marks
BY DEF Seen, Marks

LastOf(marks) == marks[Len(marks)]
Marked(marks, item) == Append(marks, Seen(LastOf(marks), item))

LEMMA TrackedPut ==
    ASSUME NEW all, NEW out, out \in Seq(ReplyItems), NEW marks, Tracked(all, marks, out),
           NEW item, item \in ReplyItems, Fits(all, LastOf(marks), item)
    PROVE  /\ Tracked(all, Marked(marks, item), Append(out, item))
           /\ Marked(marks, item)[1] = marks[1]
           /\ LastOf(Marked(marks, item)) = Seen(LastOf(marks), item)
<1> DEFINE m == LastOf(marks)
           next == Marked(marks, item)
<1>0. m = marks[Len(marks)] /\ next = Append(marks, Seen(m, item)) /\ Fits(all, m, item)
  BY DEF LastOf, Marked
<1> HIDE DEF m, next
<1>1. /\ marks \in Seq(Marks) /\ Len(marks) = Len(out) + 1 /\ Len(out) \in Nat
  BY DEF Tracked
<1>2. m \in Marks
  BY <1>0, <1>1
<1>3. Seen(m, item) \in Marks
  BY <1>0, <1>2, SeenIsMark DEF Fits
<1>4. /\ next \in Seq(Marks) /\ Len(next) = Len(out) + 2
      /\ next[Len(out) + 2] = Seen(m, item)
      /\ \A p \in 1 .. Len(out) + 1 : next[p] = marks[p]
  BY <1>0, <1>1, <1>3
<1>5. /\ Append(out, item) \in Seq(ReplyItems) /\ Len(Append(out, item)) = Len(out) + 1
      /\ Append(out, item)[Len(out) + 1] = item
      /\ \A p \in 1 .. Len(out) : Append(out, item)[p] = out[p]
  OBVIOUS
<1>6. ASSUME NEW p \in 1 .. Len(out) + 1
      PROVE  /\ Fits(all, next[p], Append(out, item)[p])
             /\ next[p + 1] = Seen(next[p], Append(out, item)[p])
  <2>1. CASE p \in 1 .. Len(out)
    <3>1. p + 1 \in 1 .. Len(out) + 1
      BY <1>1, <2>1
    <3>2. next[p] = marks[p] /\ next[p + 1] = marks[p + 1] /\ Append(out, item)[p] = out[p]
      BY <1>4, <1>5, <2>1, <3>1
    <3> QED
      BY <2>1, <3>2 DEF Tracked
  <2>2. CASE p = Len(out) + 1
    <3>1. next[p] = m /\ next[p + 1] = Seen(m, item) /\ Append(out, item)[p] = item
      BY <1>0, <1>1, <1>4, <1>5, <2>2
    <3> QED
      BY <1>0, <3>1
  <2> QED
    BY <1>1, <2>1, <2>2
<1>7. next[1] = marks[1] /\ next[Len(next)] = Seen(m, item) /\ Len(next) = Len(out) + 1 + 1
  BY <1>1, <1>4
<1> QED
  BY <1>4, <1>5, <1>6, <1>7 DEF Tracked, LastOf, m, next

LEMMA TrackedTake ==
    ASSUME NEW all, NEW out \in Seq(ReplyItems), NEW marks, Tracked(all, marks, out), out # <<>>
    PROVE  /\ Tracked(all, Tail(marks), Tail(out))
           /\ Tail(marks)[1] = Seen(marks[1], Head(out)) /\ Fits(all, marks[1], Head(out))
           /\ LastOf(Tail(marks)) = LastOf(marks)
<1>1. /\ marks \in Seq(Marks) /\ Len(marks) = Len(out) + 1 /\ Len(out) \in Nat
      /\ Len(out) >= 1
  BY EmptySeq DEF Tracked
<1>2. marks # <<>>
  BY <1>1, EmptySeq
<1>3. /\ Tail(marks) \in Seq(Marks) /\ Len(Tail(marks)) = Len(out)
      /\ \A p \in 1 .. Len(out) : Tail(marks)[p] = marks[p + 1]
  BY <1>1, <1>2, HeadTailProperties
<1>4. /\ Tail(out) \in Seq(ReplyItems) /\ Len(Tail(out)) = Len(out) - 1 /\ Head(out) = out[1]
      /\ \A p \in 1 .. Len(out) - 1 : Tail(out)[p] = out[p + 1]
  BY HeadTailProperties
<1>5. ASSUME NEW p \in 1 .. Len(out) - 1
      PROVE  /\ Fits(all, Tail(marks)[p], Tail(out)[p])
             /\ Tail(marks)[p + 1] = Seen(Tail(marks)[p], Tail(out)[p])
  <2>1. p \in 1 .. Len(out) /\ p + 1 \in 1 .. Len(out)
    BY <1>1
  <2>2. /\ Tail(marks)[p] = marks[p + 1] /\ Tail(marks)[p + 1] = marks[(p + 1) + 1]
        /\ Tail(out)[p] = out[p + 1]
    BY <1>3, <1>4, <2>1
  <2> QED
    BY <2>1, <2>2 DEF Tracked
<1>6. 1 \in 1 .. Len(out) /\ Len(out) \in 1 .. Len(out) /\ 1 + 1 = 2
  BY <1>1
<1>7. Tail(marks)[1] = Seen(marks[1], Head(out)) /\ Fits(all, marks[1], Head(out))
  <2>1. Tail(marks)[1] = marks[1 + 1]
    BY <1>3, <1>6
  <2> QED
    BY <1>4, <1>6, <2>1 DEF Tracked
<1>8. LastOf(Tail(marks)) = LastOf(marks)
  BY <1>1, <1>3, <1>6 DEF LastOf
<1>9. Len(Tail(marks)) = Len(Tail(out)) + 1
  BY <1>1, <1>3, <1>4
<1> QED
  BY <1>3, <1>4, <1>5, <1>7, <1>8, <1>9 DEF Tracked

\* More sentences at the end change nothing for those before.
LEMMA TrackedMore ==
    ASSUME NEW all \in Seq(Ranges), NEW more \in Seq(Ranges), NEW marks,
           NEW out \in Seq(ReplyItems), Tracked(all, marks, out), Len(more) >= Len(all),
           \A i \in 1 .. Len(all) : more[i] = all[i]
    PROVE  Tracked(more, marks, out)
<1>1. ASSUME NEW p \in 1 .. Len(out)
      PROVE  Fits(more, marks[p], out[p])
  <2>1. Fits(all, marks[p], out[p])
    BY DEF Tracked
  <2>2. Len(all) \in Nat /\ Len(more) \in Nat
    OBVIOUS
  <2> QED
    BY <2>1, <2>2 DEF Fits
<1> QED
  BY <1>1 DEF Tracked

\* The sentences follow each other from the first piece on, none empty.
Sequential(all, shown) ==
    \A i \in 1 .. Len(all) :
        /\ all[i].from = IF i = 1 THEN 1 ELSE all[i - 1].to + 1
        /\ all[i].from <= all[i].to /\ all[i].to <= shown

Covered(all) == IF all = <<>> THEN 0 ELSE all[Len(all)].to

LEMMA SequentialMore ==
    ASSUME NEW all \in Seq(Ranges), NEW shown \in Nat, Sequential(all, shown),
           NEW r \in Ranges, NEW after \in Nat, shown <= after,
           r.from = Covered(all) + 1, r.from <= r.to, r.to <= after
    PROVE  /\ Append(all, r) \in Seq(Ranges) /\ Sequential(Append(all, r), after)
           /\ Covered(Append(all, r)) = r.to
<1>1. /\ Append(all, r) \in Seq(Ranges) /\ Len(Append(all, r)) = Len(all) + 1
      /\ Append(all, r)[Len(all) + 1] = r /\ Len(all) \in Nat
      /\ \A i \in 1 .. Len(all) : Append(all, r)[i] = all[i]
  OBVIOUS
<1>2. Append(all, r) # <<>>
  BY <1>1, EmptySeq
<1>3. Covered(Append(all, r)) = r.to
  BY <1>1, <1>2 DEF Covered
<1>4. ASSUME NEW i \in 1 .. Len(all) + 1
      PROVE  /\ Append(all, r)[i].from = IF i = 1 THEN 1 ELSE Append(all, r)[i - 1].to + 1
             /\ Append(all, r)[i].from <= Append(all, r)[i].to
             /\ Append(all, r)[i].to <= after
  <2>1. CASE i \in 1 .. Len(all)
    <3>1. all[i] \in Ranges /\ (i # 1 => i - 1 \in 1 .. Len(all))
      BY <1>1, <2>1
    <3>2. all[i].to \in Nat /\ all[i].to <= shown
      BY <2>1, <3>1 DEF Ranges, Sequential
    <3> QED
      BY <1>1, <2>1, <3>1, <3>2 DEF Sequential
  <2>2. CASE i = Len(all) + 1
    <3>1. CASE all = <<>>
      <4>1. i = 1
        BY <1>1, <2>2, <3>1, EmptySeq
      <4> QED
        BY <1>1, <2>2, <3>1, <4>1 DEF Covered
    <3>2. CASE all # <<>>
      <4>1. Len(all) >= 1 /\ i - 1 = Len(all) /\ i # 1
        BY <1>1, <2>2, <3>2, EmptySeq
      <4>2. Append(all, r)[i - 1] = all[Len(all)]
        BY <1>1, <4>1
      <4> QED
        BY <1>1, <2>2, <3>2, <4>1, <4>2 DEF Covered
    <3> QED
      BY <3>1, <3>2
  <2> QED
    BY <1>1, <2>1, <2>2
<1> QED
  BY <1>1, <1>3, <1>4 DEF Sequential

\* The sentences that wait are those after the first ones.
InLine(all, base, rest) ==
    /\ base \in 0 .. Len(all) /\ Len(rest) = Len(all) - base
    /\ \A j \in 1 .. Len(rest) : rest[j] = all[base + j]

LEMMA InLineMore ==
    ASSUME NEW all \in Seq(Ranges), NEW rest \in Seq(Ranges), NEW base, InLine(all, base, rest),
           NEW r \in Ranges
    PROVE  InLine(Append(all, r), base, Append(rest, r))
<1>1. /\ Len(Append(all, r)) = Len(all) + 1 /\ Append(all, r)[Len(all) + 1] = r
      /\ \A i \in 1 .. Len(all) : Append(all, r)[i] = all[i]
  OBVIOUS
<1>2. /\ Len(Append(rest, r)) = Len(rest) + 1 /\ Append(rest, r)[Len(rest) + 1] = r
      /\ \A i \in 1 .. Len(rest) : Append(rest, r)[i] = rest[i]
  OBVIOUS
<1>3. Len(all) \in Nat /\ Len(rest) \in Nat /\ base \in Nat /\ base <= Len(all)
      /\ Len(rest) = Len(all) - base
  BY DEF InLine
<1>4. ASSUME NEW j \in 1 .. Len(rest) + 1
      PROVE  Append(rest, r)[j] = Append(all, r)[base + j]
  <2>1. CASE j \in 1 .. Len(rest)
    <3>1. base + j \in 1 .. Len(all)
      BY <1>3, <2>1
    <3> QED
      BY <1>1, <1>2, <2>1, <3>1 DEF InLine
  <2>2. CASE j = Len(rest) + 1
    <3>1. base + j = Len(all) + 1
      BY <1>3, <2>2
    <3> QED
      BY <1>1, <1>2, <2>2, <3>1
  <2> QED
    BY <1>3, <2>1, <2>2
<1>5. base \in 0 .. Len(all) + 1 /\ Len(rest) + 1 = (Len(all) + 1) - base
  BY <1>3
<1> QED
  BY <1>1, <1>2, <1>4, <1>5 DEF InLine

LEMMA InLineTake ==
    ASSUME NEW all \in Seq(Ranges), NEW rest \in Seq(Ranges), NEW base, InLine(all, base, rest),
           rest # <<>>
    PROVE  /\ base + 1 \in 1 .. Len(all) /\ Head(rest) = all[base + 1]
           /\ InLine(all, base + 1, Tail(rest))
<1>1. Len(all) \in Nat /\ Len(rest) \in Nat /\ base \in Nat /\ base <= Len(all)
      /\ Len(rest) = Len(all) - base
  BY DEF InLine
<1>2. Len(rest) >= 1
  BY <1>1, EmptySeq
<1>3. /\ Tail(rest) \in Seq(Ranges) /\ Len(Tail(rest)) = Len(rest) - 1 /\ Head(rest) = rest[1]
      /\ \A j \in 1 .. Len(rest) - 1 : Tail(rest)[j] = rest[j + 1]
  BY HeadTailProperties
<1>4. ASSUME NEW j \in 1 .. Len(rest) - 1
      PROVE  Tail(rest)[j] = all[(base + 1) + j]
  <2>1. j + 1 \in 1 .. Len(rest) /\ base + (j + 1) = (base + 1) + j
    BY <1>1
  <2> QED
    BY <1>3, <2>1 DEF InLine
<1>5. 1 \in 1 .. Len(rest) /\ base + 1 \in 1 .. Len(all) /\ base + 1 \in 0 .. Len(all)
      /\ Len(rest) - 1 = Len(all) - (base + 1)
  BY <1>1, <1>2
<1>6. Head(rest) = all[base + 1]
  BY <1>3, <1>5 DEF InLine
<1> QED
  BY <1>3, <1>4, <1>5, <1>6 DEF InLine

-----------------------------------------------------------------------------
ReplyTypeOK ==
    /\ wCall \in {"idle", "waiting", "sending", "finished", "failed", "left"}
    /\ wSpeak \in BOOLEAN /\ wFinal \in BOOLEAN
    /\ wLlm \in {"idle", "reading", "over"}
    /\ wTts \in {"idle", "ready", "speaking", "over"}
    /\ wOut \in Seq(ReplyItems) /\ wSentences \in Seq(Ranges) /\ wNow \in Ranges
    /\ wShown \in Nat /\ wFrom \in Nat /\ wTexts \in Nat
    /\ wSaid \in Seq(Ranges)

Unbegun ==
    /\ wLlm = "idle" /\ wTts = "idle"
    /\ wOut = <<>> /\ wSentences = <<>> /\ wSaid = <<>>
    /\ wShown = 0 /\ wFrom = 1 /\ wTexts = 0

UnderWay == wCall \in {"waiting", "sending"}

\* Tasks that have still to say that they are done.
Working ==
    (IF wLlm = "reading" THEN 1 ELSE 0) + (IF wTts \in {"ready", "speaking"} THEN 1 ELSE 0)

\* The text is cut up to the buffer; the final text only when there was no other.
Cut(all) ==
    /\ all \in Seq(Ranges)
    /\ wSpeak \/ all = <<>>
    /\ \/ Sequential(all, wShown)
       \/ all = <<FinalText>> /\ wShown = 0 /\ wLlm = "over"
    /\ wLlm = "reading" /\ wSpeak => wFrom = Covered(all) + 1

\* All of it is cut.
Complete(all) ==
    wSpeak => Covered(all) = wShown /\ (wShown = 0 => (wFinal <=> all # <<>>))

\* What was said are the first sentences, after their text.
Said(all) ==
    /\ Len(wSaid) <= Len(all)
    /\ \A i \in 1 .. Len(wSaid) : wSaid[i] = all[i] /\ wSaid[i].to <= wTexts

Raised == \E p \in 1 .. Len(wOut) : wOut[p].kind = "exc"

\* The worker has a sentence in synthesis, and the others wait; the None comes last.
ToSay(all, said) ==
    \E base \in Nat, rest \in Seq(Ranges) :
        /\ base = IF wTts = "speaking" THEN said + 1 ELSE said
        /\ InLine(all, base, rest)
        /\ wTts = "speaking" => wNow = all[base]
        /\ \/ wSentences = rest
           \/ wSentences = Append(rest, Close) /\ wLlm = "over" /\ Complete(all)

\* m: the mark at the end of the queue.
Ahead(all, m) ==
    /\ m.shown = wShown /\ m.left = Working
    /\ wTts \in {"ready", "speaking"} => ToSay(all, m.said)
    /\ wLlm = "over" => Raised \/ Complete(all)
    /\ wTts = "over" => Raised \/ (wLlm = "over" /\ Complete(all) /\ m.said = Len(all))

Queued(all, marks) ==
    /\ Tracked(all, marks, wOut)
    /\ marks[1] = [said |-> Len(wSaid), shown |-> wTexts, left |-> wRunning]
    /\ wLlm # "idle" /\ (wSpeak <=> wTts # "idle")
    /\ Ahead(all, LastOf(marks))

ReplyInv ==
    /\ ReplyTypeOK
    /\ wCall = "idle" => Unbegun
    /\ wCall # "idle" =>
          \E all \in Seq(Ranges) :
              /\ Cut(all) /\ Said(all)
              /\ UnderWay => \E marks \in Seq(Marks) : Queued(all, marks)
              /\ ~UnderWay => wLlm = "over" /\ wTts = "over"
              /\ wCall = "finished" => Complete(all) /\ Len(wSaid) = Len(all)

\* A sentence is not the None, and ends where text has been shown.
LEMMA CutBounds ==
    ASSUME ReplyTypeOK, NEW all, Cut(all), NEW i \in 1 .. Len(all)
    PROVE  all[i] \in Ranges /\ all[i] # Close /\ all[i].to <= wShown
<1>1. all \in Seq(Ranges) /\ Len(all) \in Nat
  BY DEF Cut
<1>2. all[i] \in Ranges /\ (i # 1 => i - 1 \in 1 .. Len(all) /\ all[i - 1] \in Ranges)
  BY <1>1
<1>3. CASE Sequential(all, wShown)
  <2>1. all[i].from # 0
    <3>1. CASE i = 1
      BY <1>3, <3>1 DEF Sequential
    <3>2. CASE i # 1
      <4>1. all[i - 1].to \in Nat
        BY <1>2, <3>2 DEF Ranges
      <4> QED
        BY <1>3, <3>2, <4>1 DEF Sequential
    <3> QED
      BY <3>1, <3>2
  <2> QED
    BY <1>2, <1>3, <2>1 DEF Sequential, Close
<1>4. CASE all = <<FinalText>> /\ wShown = 0
  <2>1. all[i] = FinalText
    BY <1>1, <1>4
  <2> QED
    BY <1>2, <1>4, <2>1 DEF FinalText, Close
<1> QED
  BY <1>3, <1>4 DEF Cut

LEMMA RaisedStays ==
    ASSUME ReplyTypeOK, NEW item \in ReplyItems, wOut' = Append(wOut, item)
    PROVE  Raised \/ item.kind = "exc" => Raised'
<1>1. /\ Len(wOut') = Len(wOut) + 1 /\ wOut'[Len(wOut) + 1] = item /\ Len(wOut) \in Nat
      /\ \A p \in 1 .. Len(wOut) : wOut'[p] = wOut[p]
  BY DEF ReplyTypeOK
<1>2. Len(wOut) + 1 \in 1 .. Len(wOut) + 1 /\ \A p \in 1 .. Len(wOut) : p \in 1 .. Len(wOut) + 1
  BY <1>1
<1> QED
  BY <1>1, <1>2 DEF Raised

\* A task that has something to do is that of a reply under way.
LEMMA AtWork ==
    ASSUME ReplyInv, wLlm = "reading" \/ wTts \in {"ready", "speaking"} \/ UnderWay
    PROVE  /\ UnderWay /\ wCall \notin {"idle", "finished"}
           /\ \E all \in Seq(Ranges), marks \in Seq(Marks) :
                 Cut(all) /\ Said(all) /\ Queued(all, marks)
<1>1. wCall # "idle"
  BY DEF ReplyInv, Unbegun, UnderWay
<1>2. PICK all \in Seq(Ranges) :
              /\ Cut(all) /\ Said(all)
              /\ UnderWay => \E marks \in Seq(Marks) : Queued(all, marks)
              /\ ~UnderWay => wLlm = "over" /\ wTts = "over"
  BY <1>1 DEF ReplyInv
<1>3. UnderWay
  BY <1>2
<1> QED
  BY <1>2, <1>3 DEF UnderWay

\* What the mark at the end of the queue is.
LEMMA LastMark ==
    ASSUME ReplyTypeOK, NEW all, NEW marks, Queued(all, marks)
    PROVE  /\ LastOf(marks) \in Marks /\ Ahead(all, LastOf(marks))
           /\ Tracked(all, marks, wOut) /\ wOut \in Seq(ReplyItems)
<1>1. marks \in Seq(Marks) /\ Len(marks) = Len(wOut) + 1 /\ Len(wOut) \in Nat
  BY DEF Queued, Tracked, ReplyTypeOK
<1> QED
  BY <1>1 DEF Queued, ReplyTypeOK, LastOf

LEMMA LlmPuts ==
    ASSUME ReplyInv, wLlm = "reading",
           NEW item \in ReplyItems, item.kind \in {"text", "note"}, wOut' = Append(wOut, item),
           wShown' = IF item.kind = "text" THEN wShown + 1 ELSE wShown,
           \/ UNCHANGED <<wSentences, wFrom>>
           \/ /\ wSpeak /\ wFrom <= wShown'
              /\ wSentences' = Append(wSentences, [from |-> wFrom, to |-> wShown'])
              /\ wFrom' = wShown' + 1,
           UNCHANGED <<wLlm, wFinal, wCall, wSpeak, wTts, wNow, wRunning, wTexts, wSaid>>
    PROVE  ReplyInv'
<1>1. PICK all \in Seq(Ranges), marks \in Seq(Marks) :
         Cut(all) /\ Said(all) /\ Queued(all, marks)
  BY AtWork
<1>2. ReplyTypeOK /\ UnderWay /\ wCall \notin {"idle", "finished"}
  BY AtWork DEF ReplyInv
<1>3. PICK m : m = LastOf(marks)
  OBVIOUS
<1>4. m \in Marks /\ Ahead(all, m) /\ Tracked(all, marks, wOut) /\ wOut \in Seq(ReplyItems)
  BY <1>1, <1>2, <1>3, LastMark
<1>5. m.shown = wShown /\ m.left = Working /\ m.left >= 1
  BY <1>4 DEF Ahead, Working
<1>6. PICK next : next = Marked(marks, item)
  OBVIOUS
<1>7. /\ Tracked(all, next, wOut') /\ next[1] = marks[1] /\ LastOf(next) = Seen(m, item)
  <2>1. Fits(all, m, item)
    BY <1>5 DEF Fits
  <2> QED
    BY <1>3, <1>4, <1>6, <2>1, TrackedPut
<1>8. PICK n : n = Seen(m, item)
  OBVIOUS
<1>9. n.said = m.said /\ n.shown = wShown' /\ n.left = Working' /\ Working' = Working
  BY <1>5, <1>8 DEF Seen, Working
<1>10. wShown \in Nat /\ wShown' \in Nat /\ wShown <= wShown' /\ wFrom \in Nat
  BY <1>2 DEF ReplyTypeOK
<1>11. Sequential(all, wShown) /\ (wSpeak => wFrom = Covered(all) + 1)
  BY <1>1 DEF Cut
<1>12. Raised => Raised'
  BY <1>2, RaisedStays
<1>13. wOut' \in Seq(ReplyItems)
  BY <1>4
<1>14. next \in Seq(Marks)
  BY <1>7 DEF Tracked
<1>15. CASE UNCHANGED <<wSentences, wFrom>>
  <2>1. ReplyTypeOK'
    BY <1>2, <1>10, <1>13, <1>15 DEF ReplyTypeOK
  <2>2. Sequential(all, wShown')
    <3>1. ASSUME NEW i \in 1 .. Len(all)
          PROVE  all[i].to \in Nat
      <4>1. all[i] \in Ranges
        OBVIOUS
      <4> QED
        BY <4>1 DEF Ranges
    <3> QED
      BY <1>10, <1>11, <3>1 DEF Sequential
  <2>3. Cut(all)'
    BY <1>1, <1>11, <1>15, <2>2 DEF Cut
  <2>4. Said(all)'
    BY <1>1 DEF Said
  <2>5. Ahead(all, n)'
    <3>1. wTts \in {"ready", "speaking"} => ToSay(all, n.said)'
      BY <1>4, <1>9, <1>15 DEF Ahead, ToSay
    <3> QED
      BY <1>4, <1>9, <1>12, <3>1 DEF Ahead
  <2>6. Queued(all, next)'
    BY <1>1, <1>7, <1>8, <2>5 DEF Queued
  <2> QED
    BY <1>2, <1>14, <2>1, <2>3, <2>4, <2>6 DEF ReplyInv, UnderWay
<1>16. CASE /\ wSpeak /\ wFrom <= wShown'
            /\ wSentences' = Append(wSentences, [from |-> wFrom, to |-> wShown'])
            /\ wFrom' = wShown' + 1
  <2>1. PICK r : r = [from |-> wFrom, to |-> wShown']
    OBVIOUS
  <2>2. r \in Ranges /\ r.from = wFrom /\ r.to = wShown'
    BY <1>10, <2>1 DEF Ranges
  <2>3. PICK more : more = Append(all, r)
    OBVIOUS
  <2>4. more \in Seq(Ranges) /\ Sequential(more, wShown') /\ Covered(more) = wShown'
    BY <1>10, <1>11, <1>16, <2>2, <2>3, SequentialMore
  <2>5. /\ Len(more) = Len(all) + 1 /\ Len(all) \in Nat
        /\ \A i \in 1 .. Len(all) : more[i] = all[i]
    BY <2>2, <2>3
  <2>6. wSentences' \in Seq(Ranges) /\ wFrom' \in Nat
    BY <1>2, <1>10, <1>16, <2>1, <2>2 DEF ReplyTypeOK
  <2>7. ReplyTypeOK'
    BY <1>2, <1>10, <1>13, <2>6 DEF ReplyTypeOK
  <2>8. Cut(more)'
    BY <1>16, <2>4 DEF Cut
  <2>9. Said(more)'
    <3>1. Len(wSaid) \in Nat /\ Len(wSaid) <= Len(all)
      BY <1>1, <1>2 DEF Said, ReplyTypeOK
    <3>2. \A i \in 1 .. Len(wSaid) : more[i] = all[i]
      BY <2>5, <3>1
    <3> QED
      BY <1>1, <2>5, <3>1, <3>2 DEF Said
  <2>10. ASSUME wTts \in {"ready", "speaking"}
         PROVE  ToSay(more, n.said)'
    <3>1. PICK base \in Nat, rest \in Seq(Ranges) :
            /\ base = IF wTts = "speaking" THEN m.said + 1 ELSE m.said
            /\ InLine(all, base, rest)
            /\ wTts = "speaking" => wNow = all[base]
            /\ wSentences = rest
      BY <1>4, <2>10 DEF Ahead, ToSay
    <3>2. InLine(more, base, Append(rest, r)) /\ Append(rest, r) \in Seq(Ranges)
      BY <2>2, <2>3, <3>1, InLineMore
    <3>3. wTts = "speaking" => wNow = more[base]
      <4>1. wTts = "speaking" => base \in 1 .. Len(all)
        BY <1>4, <3>1 DEF InLine, Marks
      <4> QED
        BY <2>5, <3>1, <4>1
    <3>4. wSentences' = Append(rest, r)
      BY <1>16, <2>1, <3>1
    <3> QED
      BY <1>9, <3>1, <3>2, <3>3, <3>4 DEF ToSay
  <2>11. Ahead(more, n)'
    BY <1>4, <1>9, <1>12, <2>10 DEF Ahead
  <2>12. Tracked(more, next, wOut')
    <3>1. Len(more) >= Len(all)
      BY <2>5
    <3> QED
      BY <1>7, <1>13, <2>4, <2>5, <3>1, TrackedMore
  <2>13. Queued(more, next)'
    BY <1>1, <1>7, <1>8, <2>11, <2>12 DEF Queued
  <2> QED
    BY <1>2, <1>14, <2>4, <2>7, <2>8, <2>9, <2>13 DEF ReplyInv, UnderWay
<1> QED
  BY <1>15, <1>16

LEMMA ConcatOne ==
    ASSUME NEW T, NEW s \in Seq(T), NEW x \in T
    PROVE  s \o <<x>> = Append(s, x)
<1>1. <<x>> \in Seq(T) /\ Len(<<x>>) = 1 /\ <<x>>[1] = x /\ Len(s) \in Nat
  OBVIOUS
<1>2. /\ s \o <<x>> \in Seq(T) /\ Len(s \o <<x>>) = Len(s) + Len(<<x>>)
      /\ \A i \in 1 .. Len(s) + Len(<<x>>) :
            (s \o <<x>>)[i] = IF i <= Len(s) THEN s[i] ELSE <<x>>[i - Len(s)]
  BY <1>1, ConcatProperties
<1>3. /\ Append(s, x) \in Seq(T) /\ Len(Append(s, x)) = Len(s) + 1
      /\ \A i \in 1 .. Len(s) + 1 : Append(s, x)[i] = IF i <= Len(s) THEN s[i] ELSE x
  BY <1>1
<1>4. ASSUME NEW i \in 1 .. Len(s) + 1
      PROVE  (s \o <<x>>)[i] = Append(s, x)[i]
  <2>1. i <= Len(s) \/ i - Len(s) = 1
    BY <1>1
  <2> QED
    BY <1>1, <1>2, <1>3, <2>1
<1> QED
  BY <1>1, <1>2, <1>3, <1>4, SeqEqual

LEMMA ConcatTwo ==
    ASSUME NEW T, NEW s \in Seq(T), NEW x \in T, NEW y \in T
    PROVE  s \o (<<x>> \o <<y>>) = Append(Append(s, x), y)
<1>1. <<x>> \in Seq(T) /\ <<y>> \in Seq(T)
  OBVIOUS
<1>2. s \o (<<x>> \o <<y>>) = (s \o <<x>>) \o <<y>>
  BY <1>1, ConcatAssociative
<1>3. s \o <<x>> = Append(s, x) /\ Append(s, x) \in Seq(T)
  BY ConcatOne
<1> QED
  BY <1>2, <1>3, ConcatOne

LEMMA SequentialEmpty ==
    ASSUME NEW all \in Seq(Ranges), NEW shown \in Nat, Sequential(all, shown)
    PROVE  /\ Covered(all) \in Nat /\ Covered(all) <= shown
           /\ shown = 0 => all = <<>>
<1>1. CASE all = <<>>
  BY <1>1 DEF Covered
<1>2. CASE all # <<>>
  <2>1. Len(all) \in Nat /\ Len(all) >= 1
    BY <1>2, EmptySeq
  <2>2. 1 \in 1 .. Len(all) /\ Len(all) \in 1 .. Len(all)
    BY <2>1
  <2>3. all[1] \in Ranges /\ all[Len(all)] \in Ranges
    BY <2>2
  <2>4. all[1].to \in Nat /\ all[Len(all)].to \in Nat
    BY <2>3 DEF Ranges
  <2>5. 1 <= all[1].to /\ all[1].to <= shown /\ all[Len(all)].to <= shown
    BY <2>2 DEF Sequential
  <2> QED
    BY <1>2, <2>4, <2>5 DEF Covered
<1> QED
  BY <1>1, <1>2

\* What the end of the stream adds: the sentences are complete then.
LEMMA LeftoverCompletes ==
    ASSUME ReplyTypeOK, NEW all, Cut(all), wLlm = "reading"
    PROVE  \E more \in Seq(Ranges) :
              /\ \/ more = all /\ wSentences \o LastSentences = Append(wSentences, Close)
                 \/ \E r \in Ranges :
                       /\ wSpeak /\ more = Append(all, r)
                       /\ wSentences \o LastSentences = Append(Append(wSentences, r), Close)
              /\ Complete(more)
              /\ Sequential(more, wShown) \/ (more = <<FinalText>> /\ wShown = 0)
<1>1. /\ wShown \in Nat /\ wFrom \in Nat /\ wSentences \in Seq(Ranges)
      /\ wSpeak \in BOOLEAN /\ wFinal \in BOOLEAN
  BY DEF ReplyTypeOK
<1>2. /\ all \in Seq(Ranges) /\ Sequential(all, wShown) /\ (wSpeak => wFrom = Covered(all) + 1)
  BY DEF Cut
<1>3. Covered(all) \in Nat /\ Covered(all) <= wShown /\ (wShown = 0 => all = <<>>)
  BY <1>1, <1>2, SequentialEmpty
<1>4. Close \in Ranges /\ FinalText \in Ranges
  BY DEF Close, FinalText, Ranges
<1>5. <<>> \in Seq(Ranges) /\ <<Close>> \in Seq(Ranges)
  BY <1>4
<1>6. CASE wSpeak /\ wFrom <= wShown
  <2>1. PICK r : r = Buffered
    OBVIOUS
  <2>2. r \in Ranges /\ r.from = wFrom /\ r.to = wShown
    BY <1>1, <2>1 DEF Buffered, Ranges
  <2>3. wShown # 0
    BY <1>2, <1>3, <1>6
  <2>4. LastSentences = <<r>> \o <<Close>>
    <3>1. LastSentences = (<<r>> \o <<>>) \o <<Close>>
      BY <1>6, <2>1, <2>3 DEF LastSentences, Leftover
    <3>2. <<r>> \in Seq(Ranges)
      BY <2>2
    <3>3. <<r>> \o <<>> = <<r>>
      BY <3>2, ConcatEmptySeq
    <3> QED
      BY <3>1, <3>3
  <2>5. wSentences \o LastSentences = Append(Append(wSentences, r), Close)
    BY <1>1, <1>4, <2>2, <2>4, ConcatTwo
  <2>6. /\ Append(all, r) \in Seq(Ranges) /\ Sequential(Append(all, r), wShown)
        /\ Covered(Append(all, r)) = wShown
    <3>1. r.from = Covered(all) + 1 /\ r.from <= r.to /\ r.to <= wShown /\ wShown <= wShown
      BY <1>1, <1>2, <1>6, <2>2
    <3>2. /\ Append(all, r) \in Seq(Ranges) /\ Sequential(Append(all, r), wShown)
          /\ Covered(Append(all, r)) = r.to
      BY <1>1, <1>2, <2>2, <3>1, SequentialMore
    <3> QED
      BY <2>2, <3>2
  <2>7. Complete(Append(all, r))
    BY <2>3, <2>6 DEF Complete
  <2> QED
    BY <1>6, <2>2, <2>5, <2>6, <2>7
<1>7. CASE wSpeak /\ ~(wFrom <= wShown) /\ wShown = 0 /\ wFinal
  <2>1. all = <<>>
    BY <1>3, <1>7
  <2>2. LastSentences = <<FinalText>> \o <<Close>>
    <3>1. LastSentences = (<<>> \o <<FinalText>>) \o <<Close>>
      BY <1>7 DEF LastSentences, Leftover
    <3>2. <<FinalText>> \in Seq(Ranges)
      BY <1>4
    <3>3. <<>> \o <<FinalText>> = <<FinalText>>
      BY <3>2, ConcatEmptySeq
    <3> QED
      BY <3>1, <3>3
  <2>3. wSentences \o LastSentences = Append(Append(wSentences, FinalText), Close)
    <3>1. PICK r : r = FinalText
      OBVIOUS
    <3>2. wSentences \o (<<r>> \o <<Close>>) = Append(Append(wSentences, r), Close)
      BY <1>1, <1>4, <3>1, ConcatTwo
    <3> QED
      BY <2>2, <3>1, <3>2
  <2>4. Append(all, FinalText) = <<FinalText>>
    BY <1>4, <2>1
  <2>5. /\ <<FinalText>> \in Seq(Ranges) /\ <<FinalText>> # <<>> /\ Len(<<FinalText>>) = 1
        /\ <<FinalText>>[1] = FinalText /\ FinalText.to = 0
    BY <1>4 DEF FinalText
  <2>6. Covered(<<FinalText>>) = 0
    BY <2>5 DEF Covered
  <2>7. Complete(<<FinalText>>)
    BY <1>7, <2>5, <2>6 DEF Complete
  <2> QED
    BY <1>4, <1>7, <2>3, <2>4, <2>5, <2>7
<1>8. CASE ~wSpeak \/ (~(wFrom <= wShown) /\ ~(wShown = 0 /\ wFinal))
  <2>1. Leftover = <<>>
    <3>1. Leftover = <<>> \o <<>>
      BY <1>8 DEF Leftover
    <3> QED
      BY <1>5, <3>1, ConcatEmptySeq
  <2>2. LastSentences = <<Close>>
    <3>1. <<>> \o <<Close>> = <<Close>>
      BY <1>5, ConcatEmptySeq
    <3> QED
      BY <2>1, <3>1 DEF LastSentences
  <2>3. wSentences \o LastSentences = Append(wSentences, Close)
    BY <1>1, <1>4, <2>2, ConcatOne
  <2>4. wSpeak => Covered(all) = wShown
    BY <1>1, <1>2, <1>3, <1>8
  <2>5. wSpeak /\ wShown = 0 => (wFinal <=> all # <<>>)
    BY <1>3, <1>8, <1>1, <1>2
  <2>6. Complete(all)
    BY <2>4, <2>5 DEF Complete
  <2> QED
    BY <1>2, <2>3, <2>6
<1> QED
  BY <1>1, <1>6, <1>7, <1>8

LEMMA LlmEndKeeps ==
    ASSUME ReplyInv, LlmEnd
    PROVE  ReplyInv'
<1>1. /\ wLlm = "reading" /\ wLlm' = "over" /\ wFrom' = wShown + 1
      /\ wSentences' = wSentences \o LastSentences
      /\ wOut' = Append(wOut, Note("done", NoSentence))
      /\ UNCHANGED <<wShown, wFinal, wCall, wSpeak, wTts, wNow, wRunning, wTexts, wSaid>>
  BY DEF LlmEnd, LlmVars, Put
<1>2. PICK all \in Seq(Ranges), marks \in Seq(Marks) :
         Cut(all) /\ Said(all) /\ Queued(all, marks)
  BY <1>1, AtWork
<1>3. ReplyTypeOK /\ UnderWay /\ wCall \notin {"idle", "finished"}
  BY <1>1, AtWork DEF ReplyInv
<1>4. PICK m : m = LastOf(marks)
  OBVIOUS
<1>5. m \in Marks /\ Ahead(all, m) /\ Tracked(all, marks, wOut) /\ wOut \in Seq(ReplyItems)
  BY <1>2, <1>3, <1>4, LastMark
<1>6. m.shown = wShown /\ m.left = Working /\ m.left >= 1
  BY <1>1, <1>5 DEF Ahead, Working
<1>7. PICK item : item = Note("done", NoSentence)
  OBVIOUS
<1>8. item \in ReplyItems /\ item.kind = "done"
  BY <1>7 DEF Note, NoSentence, ReplyItems, ItemKinds, Ranges
<1>9. PICK next : next = Marked(marks, item)
  OBVIOUS
<1>10. Tracked(all, next, wOut') /\ next[1] = marks[1] /\ LastOf(next) = Seen(m, item)
  <2>1. Fits(all, m, item)
    BY <1>6, <1>8 DEF Fits
  <2>2. wOut' = Append(wOut, item)
    BY <1>1, <1>7
  <2> QED
    <3>1. /\ Tracked(all, next, Append(wOut, item)) /\ next[1] = marks[1]
          /\ LastOf(next) = Seen(m, item)
      BY <1>4, <1>5, <1>8, <1>9, <2>1, TrackedPut
    <3> QED
      BY <2>2, <3>1
<1>11. PICK n : n = Seen(m, item)
  OBVIOUS
<1>12. n.said = m.said /\ n.shown = wShown /\ n.left = Working'
  <2>1. Working' = Working - 1
    BY <1>1 DEF Working
  <2> QED
    BY <1>6, <1>8, <1>11, <2>1 DEF Seen
<1>13. PICK more \in Seq(Ranges) :
              /\ \/ more = all /\ wSentences \o LastSentences = Append(wSentences, Close)
                 \/ \E r \in Ranges :
                       /\ wSpeak /\ more = Append(all, r)
                       /\ wSentences \o LastSentences = Append(Append(wSentences, r), Close)
              /\ Complete(more)
              /\ Sequential(more, wShown) \/ (more = <<FinalText>> /\ wShown = 0)
  BY <1>1, <1>2, <1>3, LeftoverCompletes
<1>14. Close \in Ranges
  BY DEF Close, Ranges
<1>15. /\ Len(more) >= Len(all) /\ Len(all) \in Nat /\ Len(more) \in Nat
       /\ \A i \in 1 .. Len(all) : more[i] = all[i]
  BY <1>13
<1>16. ReplyTypeOK'
  <2>1. wSentences' \in Seq(Ranges)
    <3>1. wSentences \in Seq(Ranges)
      BY <1>3 DEF ReplyTypeOK
    <3>2. Append(wSentences, Close) \in Seq(Ranges)
      BY <1>14, <3>1
    <3>3. ASSUME NEW r \in Ranges
          PROVE  Append(Append(wSentences, r), Close) \in Seq(Ranges)
      <4>1. Append(wSentences, r) \in Seq(Ranges)
        BY <3>1
      <4> QED
        BY <1>14, <4>1
    <3> QED
      BY <1>1, <1>13, <3>2, <3>3
  <2>2. wOut' \in Seq(ReplyItems)
    BY <1>1, <1>5, <1>7, <1>8
  <2>3. wFrom' \in Nat
    BY <1>1, <1>3 DEF ReplyTypeOK
  <2> QED
    BY <1>1, <1>3, <2>1, <2>2, <2>3 DEF ReplyTypeOK
<1>17. Complete(more)'
  BY <1>1, <1>13 DEF Complete
<1>18. Cut(more)'
  <2>1. wSpeak \/ more = <<>>
    BY <1>2, <1>13 DEF Cut
  <2> QED
    BY <1>1, <1>13, <2>1 DEF Cut
<1>19. Said(more)'
  <2>1. Len(wSaid) \in Nat /\ Len(wSaid) <= Len(all)
    BY <1>2, <1>3 DEF Said, ReplyTypeOK
  <2>2. \A i \in 1 .. Len(wSaid) : more[i] = all[i]
    BY <1>15, <2>1
  <2> QED
    BY <1>1, <1>2, <1>15, <2>1, <2>2 DEF Said
<1>20. ASSUME wTts \in {"ready", "speaking"}
       PROVE  ToSay(more, n.said)'
  <2>1. PICK base \in Nat, rest \in Seq(Ranges) :
            /\ base = IF wTts = "speaking" THEN m.said + 1 ELSE m.said
            /\ InLine(all, base, rest)
            /\ wTts = "speaking" => wNow = all[base]
            /\ wSentences = rest
    BY <1>1, <1>5, <1>20 DEF Ahead, ToSay
  <2>2. PICK left \in Seq(Ranges) : InLine(more, base, left) /\ wSentences' = Append(left, Close)
    <3>1. CASE more = all /\ wSentences \o LastSentences = Append(wSentences, Close)
      BY <1>1, <2>1, <3>1
    <3>2. ASSUME NEW r \in Ranges, more = Append(all, r),
                 wSentences \o LastSentences = Append(Append(wSentences, r), Close)
          PROVE  \E left \in Seq(Ranges) :
                    InLine(more, base, left) /\ wSentences' = Append(left, Close)
      <4>1. InLine(more, base, Append(rest, r)) /\ Append(rest, r) \in Seq(Ranges)
        BY <2>1, <3>2, InLineMore
      <4> QED
        BY <1>1, <2>1, <3>2, <4>1
    <3> QED
      BY <1>13, <3>1, <3>2
  <2>3. wTts = "speaking" => wNow = more[base]
    <3>1. wTts = "speaking" => base \in 1 .. Len(all)
      BY <1>5, <2>1 DEF InLine, Marks
    <3> QED
      BY <1>15, <2>1, <3>1
  <2> QED
    BY <1>1, <1>12, <1>17, <2>1, <2>2, <2>3 DEF ToSay
<1>21. Raised => Raised'
  BY <1>1, <1>3, <1>7, <1>8, RaisedStays
<1>22. Ahead(more, n)'
  BY <1>1, <1>5, <1>12, <1>17, <1>20, <1>21 DEF Ahead
<1>23. Tracked(more, next, wOut')
  <2>1. wOut' \in Seq(ReplyItems)
    BY <1>16 DEF ReplyTypeOK
  <2> QED
    BY <1>10, <1>13, <1>15, <2>1, TrackedMore
<1>24. Queued(more, next)'
  BY <1>1, <1>2, <1>10, <1>11, <1>22, <1>23 DEF Queued
<1>25. next \in Seq(Marks)
  BY <1>10 DEF Tracked
<1> QED
  BY <1>1, <1>3, <1>13, <1>16, <1>18, <1>19, <1>24, <1>25 DEF ReplyInv, UnderWay

\* A task that raises: its error is queued, then that it is done.
LEMMA TaskRaises ==
    ASSUME ReplyInv,
           wOut' = wOut \o <<Note("exc", NoSentence), Note("done", NoSentence)>>,
           \/ wLlm = "reading" /\ wLlm' = "over" /\ UNCHANGED <<wTts, wNow>>
           \/ wTts = "speaking" /\ wTts' = "over" /\ wNow' = NoSentence /\ UNCHANGED wLlm,
           UNCHANGED <<wSentences, wFrom, wShown, wFinal, wCall, wSpeak, wRunning, wTexts, wSaid>>
    PROVE  ReplyInv'
<1>1. PICK all \in Seq(Ranges), marks \in Seq(Marks) :
         Cut(all) /\ Said(all) /\ Queued(all, marks)
  BY AtWork
<1>2. ReplyTypeOK /\ UnderWay /\ wCall \notin {"idle", "finished"}
  BY AtWork DEF ReplyInv
<1>3. PICK m : m = LastOf(marks)
  OBVIOUS
<1>4. m \in Marks /\ Ahead(all, m) /\ Tracked(all, marks, wOut) /\ wOut \in Seq(ReplyItems)
  BY <1>1, <1>2, <1>3, LastMark
<1>5. m.shown = wShown /\ m.left = Working /\ m.left >= 1
  BY <1>4 DEF Ahead, Working
<1>6. PICK exc, done : exc = Note("exc", NoSentence) /\ done = Note("done", NoSentence)
  OBVIOUS
<1>7. exc \in ReplyItems /\ exc.kind = "exc" /\ done \in ReplyItems /\ done.kind = "done"
  BY <1>6 DEF Note, NoSentence, ReplyItems, ItemKinds, Ranges
<1>8. PICK out : out = Append(wOut, exc)
  OBVIOUS
<1>9. out \in Seq(ReplyItems) /\ wOut' = Append(out, done)
  <2>1. <<exc, done>> = <<exc>> \o <<done>>
    <3>1. <<exc>> \in Seq(ReplyItems) /\ Len(<<exc>>) = 1 /\ <<exc>>[1] = exc
      BY <1>7
    <3>2. <<exc>> \o <<done>> = Append(<<exc>>, done)
      BY <1>7, <3>1, ConcatOne
    <3>3. /\ <<exc, done>> \in Seq(ReplyItems) /\ Len(<<exc, done>>) = 2
          /\ <<exc, done>>[1] = exc /\ <<exc, done>>[2] = done
      BY <1>7
    <3>4. /\ Append(<<exc>>, done) \in Seq(ReplyItems) /\ Len(Append(<<exc>>, done)) = 2
          /\ Append(<<exc>>, done)[1] = exc /\ Append(<<exc>>, done)[2] = done
      BY <1>7, <3>1
    <3>5. \A i \in 1 .. 2 : <<exc, done>>[i] = Append(<<exc>>, done)[i]
      <4>1. \A i \in 1 .. 2 : i = 1 \/ i = 2
        OBVIOUS
      <4> QED
        BY <3>3, <3>4, <4>1
    <3>6. <<exc, done>> = Append(<<exc>>, done)
      BY <3>3, <3>4, <3>5, SeqEqual
    <3> QED
      BY <3>2, <3>6
  <2>2. wOut \o (<<exc>> \o <<done>>) = Append(Append(wOut, exc), done)
    BY <1>4, <1>7, ConcatTwo
  <2> QED
    BY <1>4, <1>6, <1>7, <1>8, <2>1, <2>2
<1>10. PICK first, next : first = Marked(marks, exc) /\ next = Marked(first, done)
  OBVIOUS
<1>11. PICK n : n = Seen(m, exc)
  OBVIOUS
<1>12. Tracked(all, first, out) /\ first[1] = marks[1] /\ LastOf(first) = n
  <2>1. Fits(all, m, exc)
    BY <1>5, <1>7 DEF Fits
  <2> QED
    BY <1>3, <1>4, <1>7, <1>8, <1>10, <1>11, <2>1, TrackedPut
<1>13. n.said = m.said /\ n.shown = m.shown /\ n.left = m.left
  BY <1>7, <1>11 DEF Seen
<1>14. PICK k : k = Seen(n, done)
  OBVIOUS
<1>15. Tracked(all, next, wOut') /\ next[1] = marks[1] /\ LastOf(next) = k
  <2>1. Fits(all, n, done)
    BY <1>5, <1>7, <1>13 DEF Fits
  <2> QED
    <3>1. /\ Tracked(all, next, Append(out, done)) /\ next[1] = first[1]
          /\ LastOf(next) = Seen(n, done)
      BY <1>7, <1>9, <1>10, <1>12, <2>1, TrackedPut
    <3> QED
      BY <1>9, <1>12, <1>14, <3>1
<1>16. k.said = m.said /\ k.shown = wShown /\ k.left = Working'
  <2>1. Working' = Working - 1
    BY DEF Working
  <2> QED
    BY <1>5, <1>7, <1>13, <1>14, <2>1 DEF Seen
<1>17. Raised'
  <2>1. /\ Len(wOut) \in Nat /\ Len(wOut') = Len(wOut) + 2
        /\ wOut'[Len(wOut) + 1] = exc
    BY <1>4, <1>7, <1>8, <1>9
  <2>2. Len(wOut) + 1 \in 1 .. Len(wOut')
    BY <2>1
  <2> QED
    BY <1>7, <2>1, <2>2 DEF Raised
<1>18. ReplyTypeOK'
  <2>1. wOut' \in Seq(ReplyItems)
    <3>1. Append(out, done) \in Seq(ReplyItems)
      BY <1>7, <1>9
    <3> QED
      BY <1>9, <3>1
  <2>2. wNow' \in Ranges
    BY <1>2 DEF ReplyTypeOK, NoSentence, Ranges
  <2> QED
    BY <1>2, <2>1, <2>2 DEF ReplyTypeOK
<1>19. Cut(all)' /\ Said(all)'
  BY <1>1 DEF Cut, Said
<1>20. wTts' \in {"ready", "speaking"} => ToSay(all, k.said)'
  <2> SUFFICES ASSUME wTts' \in {"ready", "speaking"}
               PROVE  ToSay(all, k.said)'
    OBVIOUS
  <2>1. wTts' = wTts /\ wNow' = wNow /\ wLlm = "reading"
    OBVIOUS
  <2>2. PICK base \in Nat, rest \in Seq(Ranges) :
            /\ base = IF wTts = "speaking" THEN m.said + 1 ELSE m.said
            /\ InLine(all, base, rest)
            /\ wTts = "speaking" => wNow = all[base]
            /\ wSentences = rest
    BY <1>4, <2>1 DEF Ahead, ToSay
  <2> QED
    BY <1>16, <2>1, <2>2 DEF ToSay
<1>21. Ahead(all, k)'
  BY <1>16, <1>17, <1>20 DEF Ahead
<1>22. Queued(all, next)'
  BY <1>1, <1>15, <1>21 DEF Queued
<1>23. next \in Seq(Marks)
  BY <1>15 DEF Tracked
<1> QED
  BY <1>2, <1>18, <1>19, <1>22, <1>23 DEF ReplyInv, UnderWay

LEMMA LlmFinalKeeps ==
    ASSUME ReplyInv, LlmFinal
    PROVE  ReplyInv'
<1>1. /\ wLlm = "reading" /\ wFinal' \in BOOLEAN
      /\ UNCHANGED <<wLlm, wOut, wSentences, wFrom, wShown, wCall, wSpeak, wTts, wNow,
                     wRunning, wTexts, wSaid>>
  BY DEF LlmFinal, LlmVars
<1>2. PICK all \in Seq(Ranges), marks \in Seq(Marks) :
         Cut(all) /\ Said(all) /\ Queued(all, marks)
  BY <1>1, AtWork
<1>3. ReplyTypeOK /\ UnderWay /\ wCall \notin {"idle", "finished"}
  BY <1>1, AtWork DEF ReplyInv
<1>4. PICK m : m = LastOf(marks)
  OBVIOUS
<1>5. m \in Marks /\ Ahead(all, m)
  BY <1>2, <1>3, <1>4, LastMark
<1>6. ReplyTypeOK'
  BY <1>1, <1>3 DEF ReplyTypeOK
<1>7. Cut(all)' /\ Said(all)'
  BY <1>1, <1>2 DEF Cut, Said
<1>8. wTts \in {"ready", "speaking"} => ToSay(all, m.said)'
  BY <1>1, <1>5 DEF Ahead, ToSay
<1>9. Ahead(all, m)'
  BY <1>1, <1>5, <1>8 DEF Ahead, Working, Raised
<1>10. Queued(all, marks)'
  BY <1>1, <1>2, <1>4, <1>9 DEF Queued
<1> QED
  BY <1>1, <1>3, <1>6, <1>7, <1>10 DEF ReplyInv, UnderWay

LEMMA LlmKeeps ==
    ASSUME ReplyInv, LlmStep
    PROVE  ReplyInv'
<1>1. ReplyTypeOK
  BY DEF ReplyInv
<1>2. /\ Note("text", NoSentence) \in ReplyItems /\ Note("text", NoSentence).kind = "text"
      /\ Note("note", NoSentence) \in ReplyItems /\ Note("note", NoSentence).kind = "note"
  BY DEF Note, NoSentence, ReplyItems, ItemKinds, Ranges
<1>3. CASE LlmContent
  <2>1. PICK item : item = Note("text", NoSentence)
    OBVIOUS
  <2>2. item \in ReplyItems /\ item.kind = "text"
    BY <1>2, <2>1
  <2>3. /\ wLlm = "reading" /\ wShown' = wShown + 1 /\ wOut' = Append(wOut, item)
        /\ UNCHANGED <<wLlm, wFinal, wCall, wSpeak, wTts, wNow, wRunning, wTexts, wSaid>>
    BY <1>3, <2>1 DEF LlmContent, LlmVars, Put
  <2>4. \/ UNCHANGED <<wSentences, wFrom>>
        \/ /\ wSpeak
           /\ wSentences' = Append(wSentences, [from |-> wFrom, to |-> wShown'])
           /\ wFrom' = wShown' + 1
    BY <1>3 DEF LlmContent
  <2>5. wSpeak => wFrom <= wShown'
    <3>1. PICK all \in Seq(Ranges) : Cut(all)
      BY <2>3, AtWork
    <3>2. Sequential(all, wShown) /\ (wSpeak => wFrom = Covered(all) + 1)
      BY <2>3, <3>1 DEF Cut
    <3>3. wShown \in Nat
      BY <1>1 DEF ReplyTypeOK
    <3>4. Covered(all) \in Nat /\ Covered(all) <= wShown
      BY <3>2, <3>3, SequentialEmpty
    <3> QED
      BY <2>3, <3>2, <3>3, <3>4
  <2> QED
    BY <2>2, <2>3, <2>4, <2>5, LlmPuts
<1>4. CASE LlmToolCall
  <2>1. PICK item : item = Note("note", NoSentence)
    OBVIOUS
  <2>2. item \in ReplyItems /\ item.kind = "note"
    BY <1>2, <2>1
  <2>3. /\ wLlm = "reading" /\ wShown' = wShown /\ wOut' = Append(wOut, item)
        /\ UNCHANGED <<wLlm, wFinal, wCall, wSpeak, wTts, wNow, wRunning, wTexts, wSaid>>
    BY <1>4, <2>1 DEF LlmToolCall, LlmVars, Put
  <2>4. \/ UNCHANGED <<wSentences, wFrom>>
        \/ /\ wSpeak /\ wFrom <= wShown'
           /\ wSentences' = Append(wSentences, [from |-> wFrom, to |-> wShown'])
           /\ wFrom' = wShown' + 1
    BY <1>4, <2>3 DEF LlmToolCall, Buffered
  <2> QED
    BY <2>2, <2>3, <2>4, LlmPuts
<1>5. CASE LlmNote
  <2>1. PICK item : item = Note("note", NoSentence)
    OBVIOUS
  <2>2. item \in ReplyItems /\ item.kind = "note"
    BY <1>2, <2>1
  <2>3. /\ wLlm = "reading" /\ wShown' = wShown /\ wOut' = Append(wOut, item)
        /\ UNCHANGED <<wSentences, wFrom>>
        /\ UNCHANGED <<wLlm, wFinal, wCall, wSpeak, wTts, wNow, wRunning, wTexts, wSaid>>
    BY <1>5, <2>1 DEF LlmNote, LlmVars, Put
  <2> QED
    BY <2>2, <2>3, LlmPuts
<1>6. CASE LlmFail
  <2>1. /\ wOut' = wOut \o <<Note("exc", NoSentence), Note("done", NoSentence)>>
        /\ wLlm = "reading" /\ wLlm' = "over" /\ UNCHANGED <<wTts, wNow>>
        /\ UNCHANGED <<wSentences, wFrom, wShown, wFinal, wCall, wSpeak, wRunning, wTexts, wSaid>>
    BY <1>6 DEF LlmFail, LlmVars
  <2> QED
    BY <2>1, TaskRaises
<1> QED
  BY <1>3, <1>4, <1>5, <1>6, LlmFinalKeeps, LlmEndKeeps DEF LlmStep

\* The worker takes a sentence to say.
LEMMA TakesSentence ==
    ASSUME ReplyInv, wTts = "ready", NEW all \in Seq(Ranges), NEW marks \in Seq(Marks),
           Cut(all), Said(all), Queued(all, marks),
           NEW left \in Seq(Ranges), InLine(all, LastOf(marks).said + 1, left),
           wNow' = all[LastOf(marks).said + 1],
           \/ wSentences' = left
           \/ wSentences' = Append(left, Close) /\ wLlm = "over" /\ Complete(all),
           wTts' = "speaking", UNCHANGED <<wOut, TtsVars>>
    PROVE  ReplyInv'
<1>1. ReplyTypeOK /\ UnderWay /\ wCall \notin {"idle", "finished"}
  BY AtWork DEF ReplyInv
<1>2. PICK m : m = LastOf(marks)
  OBVIOUS
<1>3. m \in Marks /\ Ahead(all, m)
  BY <1>1, <1>2, LastMark
<1>4. m.said + 1 \in Nat /\ m.said + 1 \in 1 .. Len(all)
  BY <1>2, <1>3 DEF InLine, Marks
<1>5. UNCHANGED <<wOut, wCall, wSpeak, wLlm, wShown, wFrom, wFinal, wRunning, wTexts, wSaid>>
  BY DEF TtsVars
<1>6. Complete(all) => Complete(all)'
  BY <1>5 DEF Complete
<1>7. ReplyTypeOK'
  <2>1. wNow' \in Ranges
    BY <1>2, <1>4
  <2>2. wSentences' \in Seq(Ranges)
    <3>1. Close \in Ranges
      BY DEF Close, Ranges
    <3> QED
      BY <3>1
  <2> QED
    BY <1>1, <1>5, <2>1, <2>2 DEF ReplyTypeOK
<1>8. Cut(all)' /\ Said(all)'
  BY <1>5 DEF Cut, Said
<1>9. ToSay(all, m.said)'
  BY <1>2, <1>4, <1>5, <1>6 DEF ToSay
<1>10. Ahead(all, m)'
  BY <1>3, <1>5, <1>6, <1>9 DEF Ahead, Working, Raised
<1>11. Queued(all, marks)'
  BY <1>2, <1>5, <1>10 DEF Queued
<1> QED
  BY <1>1, <1>5, <1>7, <1>8, <1>11 DEF ReplyInv, UnderWay

LEMMA TtsTakeKeeps ==
    ASSUME ReplyInv, TtsTake
    PROVE  ReplyInv'
<1>1. /\ wTts = "ready" /\ wSentences # <<>> /\ wSentences' = Tail(wSentences)
      /\ UNCHANGED <<wCall, wSpeak, wLlm, wShown, wFrom, wFinal, wRunning, wTexts, wSaid>>
  BY DEF TtsTake, TtsVars
<1>2. /\ Head(wSentences) = Close =>
            /\ wTts' = "over" /\ wNow' = wNow
            /\ wOut' = Append(wOut, Note("done", NoSentence))
      /\ Head(wSentences) # Close =>
            wTts' = "speaking" /\ wNow' = Head(wSentences) /\ UNCHANGED <<wOut, TtsVars>>
  BY DEF TtsTake, Put
<1>3. PICK all \in Seq(Ranges), marks \in Seq(Marks) :
         Cut(all) /\ Said(all) /\ Queued(all, marks)
  BY <1>1, AtWork
<1>4. ReplyTypeOK /\ UnderWay /\ wCall \notin {"idle", "finished"}
  BY <1>1, AtWork DEF ReplyInv
<1>5. PICK m : m = LastOf(marks)
  OBVIOUS
<1>6. m \in Marks /\ Ahead(all, m) /\ Tracked(all, marks, wOut) /\ wOut \in Seq(ReplyItems)
  BY <1>3, <1>4, <1>5, LastMark
<1>7. m.shown = wShown /\ m.left = Working /\ m.left >= 1
  BY <1>1, <1>6 DEF Ahead, Working
<1>8. PICK rest \in Seq(Ranges) :
         /\ InLine(all, m.said, rest)
         /\ \/ wSentences = rest
            \/ wSentences = Append(rest, Close) /\ wLlm = "over" /\ Complete(all)
  BY <1>1, <1>6 DEF Ahead, ToSay
<1>9. Close \in Ranges
  BY DEF Close, Ranges
<1>10. CASE rest # <<>>
  <2>1. /\ m.said + 1 \in 1 .. Len(all) /\ Head(rest) = all[m.said + 1]
        /\ InLine(all, m.said + 1, Tail(rest))
    BY <1>8, <1>10, InLineTake
  <2>2. Head(rest) # Close
    BY <1>3, <1>4, <2>1, CutBounds
  <2>3. /\ Head(wSentences) = Head(rest)
        /\ \/ wSentences' = Tail(rest)
           \/ wSentences' = Append(Tail(rest), Close) /\ wLlm = "over" /\ Complete(all)
    <3>1. CASE wSentences = rest
      BY <1>1, <3>1
    <3>2. CASE wSentences = Append(rest, Close) /\ wLlm = "over" /\ Complete(all)
      <4>1. /\ Head(Append(rest, Close)) = Head(rest)
            /\ Tail(Append(rest, Close)) = Append(Tail(rest), Close)
        BY <1>9, <1>10, HeadTailAppend
      <4> QED
        BY <1>1, <3>2, <4>1
    <3> QED
      BY <1>8, <3>1, <3>2
  <2>4. Tail(rest) \in Seq(Ranges)
    BY <1>10, HeadTailProperties
  <2> QED
    BY <1>1, <1>2, <1>3, <1>5, <2>1, <2>2, <2>3, <2>4, TakesSentence
<1>11. CASE rest = <<>>
  <2>1. wSentences = Append(rest, Close) /\ wLlm = "over" /\ Complete(all)
    BY <1>1, <1>8, <1>11
  <2>2. Head(wSentences) = Close
    BY <1>9, <1>11, <2>1
  <2>3. m.said = Len(all)
    BY <1>6, <1>8, <1>11, EmptySeq DEF InLine, Marks
  <2>4. PICK item : item = Note("done", NoSentence)
    OBVIOUS
  <2>5. item \in ReplyItems /\ item.kind = "done"
    BY <2>4 DEF Note, NoSentence, ReplyItems, ItemKinds, Ranges
  <2>6. wTts' = "over" /\ wNow' = wNow /\ wOut' = Append(wOut, item)
    BY <1>2, <2>2, <2>4
  <2>7. PICK next : next = Marked(marks, item)
    OBVIOUS
  <2>8. /\ Tracked(all, next, wOut') /\ next[1] = marks[1] /\ LastOf(next) = Seen(m, item)
    <3>1. Fits(all, m, item)
      BY <1>7, <2>5 DEF Fits
    <3>2. /\ Tracked(all, next, Append(wOut, item)) /\ next[1] = marks[1]
          /\ LastOf(next) = Seen(m, item)
      BY <1>5, <1>6, <2>5, <2>7, <3>1, TrackedPut
    <3> QED
      BY <2>6, <3>2
  <2>9. PICK n : n = Seen(m, item)
    OBVIOUS
  <2>10. n.said = m.said /\ n.shown = wShown /\ n.left = Working'
    <3>1. Working' = Working - 1
      BY <1>1, <2>6 DEF Working
    <3> QED
      BY <1>7, <2>5, <2>9, <3>1 DEF Seen
  <2>11. ReplyTypeOK'
    <3>1. wSentences' \in Seq(Ranges)
      BY <1>1, <1>4, HeadTailProperties DEF ReplyTypeOK
    <3>2. wOut' \in Seq(ReplyItems)
      BY <1>6, <2>5, <2>6
    <3> QED
      BY <1>1, <1>4, <2>6, <3>1, <3>2 DEF ReplyTypeOK
  <2>12. Cut(all)' /\ Said(all)'
    BY <1>1, <1>3 DEF Cut, Said
  <2>13. Complete(all)'
    BY <1>1, <2>1 DEF Complete
  <2>14. Ahead(all, n)'
    BY <1>1, <2>1, <2>3, <2>6, <2>10, <2>13 DEF Ahead
  <2>15. Queued(all, next)'
    BY <1>1, <1>3, <2>6, <2>8, <2>9, <2>14 DEF Queued
  <2>16. next \in Seq(Marks)
    BY <2>8 DEF Tracked
  <2> QED
    BY <1>1, <1>4, <2>11, <2>12, <2>15, <2>16 DEF ReplyInv, UnderWay
<1> QED
  BY <1>10, <1>11

LEMMA TtsSpeakKeeps ==
    ASSUME ReplyInv, TtsSpeak
    PROVE  ReplyInv'
<1>1. /\ wTts = "speaking" /\ wTts' = "ready" /\ wOut' = Append(wOut, Note("audio", wNow))
      /\ wNow' = NoSentence /\ wSentences' = wSentences
      /\ UNCHANGED <<wCall, wSpeak, wLlm, wShown, wFrom, wFinal, wRunning, wTexts, wSaid>>
  BY DEF TtsSpeak, TtsVars
<1>2. PICK all \in Seq(Ranges), marks \in Seq(Marks) :
         Cut(all) /\ Said(all) /\ Queued(all, marks)
  BY <1>1, AtWork
<1>3. ReplyTypeOK /\ UnderWay /\ wCall \notin {"idle", "finished"}
  BY <1>1, AtWork DEF ReplyInv
<1>4. PICK m : m = LastOf(marks)
  OBVIOUS
<1>5. m \in Marks /\ Ahead(all, m) /\ Tracked(all, marks, wOut) /\ wOut \in Seq(ReplyItems)
  BY <1>2, <1>3, <1>4, LastMark
<1>6. m.shown = wShown /\ m.left = Working /\ m.left >= 1
  BY <1>1, <1>5 DEF Ahead, Working
<1>7. PICK rest \in Seq(Ranges) :
         /\ InLine(all, m.said + 1, rest) /\ wNow = all[m.said + 1]
         /\ \/ wSentences = rest
            \/ wSentences = Append(rest, Close) /\ wLlm = "over" /\ Complete(all)
  BY <1>1, <1>5 DEF Ahead, ToSay
<1>8. m.said + 1 \in Nat /\ m.said + 1 \in 1 .. Len(all)
  BY <1>5, <1>7 DEF InLine, Marks
<1>9. wNow \in Ranges /\ wNow.to <= wShown
  BY <1>2, <1>3, <1>7, <1>8, CutBounds
<1>10. PICK item : item = Note("audio", wNow)
  OBVIOUS
<1>11. item \in ReplyItems /\ item.kind = "audio" /\ item.sentence = wNow
  BY <1>9, <1>10 DEF Note, ReplyItems, ItemKinds
<1>12. PICK next : next = Marked(marks, item)
  OBVIOUS
<1>13. Tracked(all, next, wOut') /\ next[1] = marks[1] /\ LastOf(next) = Seen(m, item)
  <2>1. Fits(all, m, item)
    BY <1>6, <1>7, <1>8, <1>9, <1>11 DEF Fits
  <2>2. /\ Tracked(all, next, Append(wOut, item)) /\ next[1] = marks[1]
        /\ LastOf(next) = Seen(m, item)
    BY <1>4, <1>5, <1>11, <1>12, <2>1, TrackedPut
  <2> QED
    BY <1>1, <1>10, <2>2
<1>14. PICK n : n = Seen(m, item)
  OBVIOUS
<1>15. n.said = m.said + 1 /\ n.shown = wShown /\ n.left = Working'
  <2>1. Working' = Working
    BY <1>1 DEF Working
  <2> QED
    BY <1>6, <1>11, <1>14, <2>1 DEF Seen
<1>16. ReplyTypeOK'
  <2>1. wOut' \in Seq(ReplyItems)
    BY <1>1, <1>5, <1>10, <1>11
  <2>2. wNow' \in Ranges
    BY <1>1 DEF NoSentence, Ranges
  <2> QED
    BY <1>1, <1>3, <2>1, <2>2 DEF ReplyTypeOK
<1>17. Cut(all)' /\ Said(all)'
  BY <1>1, <1>2 DEF Cut, Said
<1>18. Complete(all) => Complete(all)'
  BY <1>1 DEF Complete
<1>19. ToSay(all, n.said)'
  BY <1>1, <1>7, <1>8, <1>15, <1>18 DEF ToSay
<1>20. Raised => Raised'
  BY <1>1, <1>3, <1>10, <1>11, RaisedStays
<1>21. Ahead(all, n)'
  BY <1>1, <1>5, <1>15, <1>18, <1>19, <1>20 DEF Ahead
<1>22. Queued(all, next)'
  BY <1>1, <1>2, <1>13, <1>14, <1>21 DEF Queued
<1>23. next \in Seq(Marks)
  BY <1>13 DEF Tracked
<1> QED
  BY <1>1, <1>3, <1>16, <1>17, <1>22, <1>23 DEF ReplyInv, UnderWay

LEMMA TtsFailKeeps ==
    ASSUME ReplyInv, TtsFail
    PROVE  ReplyInv'
<1>1. /\ wTts = "speaking" /\ wTts' = "over" /\ wNow' = NoSentence /\ UNCHANGED wLlm
      /\ wOut' = wOut \o <<Note("exc", NoSentence), Note("done", NoSentence)>>
      /\ UNCHANGED <<wSentences, wFrom, wShown, wFinal, wCall, wSpeak, wRunning, wTexts, wSaid>>
  BY DEF TtsFail, TtsVars
<1> QED
  BY <1>1, TaskRaises

\* The generator takes an item: what comes after the first one stays as it was seen.
LEMMA ReplyTakeKeeps ==
    ASSUME ReplyInv, ReplyTake
    PROVE  ReplyInv'
<1>1. PICK item : item = Head(wOut)
  OBVIOUS
<1>2. /\ wCall = "waiting" /\ wOut # <<>> /\ wOut' = Tail(wOut)
      /\ UNCHANGED <<wSpeak, wSentences, wNow, wShown, wFrom, wFinal>>
      /\ \/ /\ item.kind = "done" /\ wRunning' = wRunning - 1
            /\ wRunning = 1 => wCall' = "finished" /\ wLlm' = "over" /\ wTts' = "over"
            /\ wRunning # 1 => UNCHANGED <<wCall, wLlm, wTts>>
            /\ UNCHANGED <<wTexts, wSaid>>
         \/ /\ item.kind = "exc"
            /\ wCall' = "failed" /\ wLlm' = "over" /\ wTts' = "over"
            /\ UNCHANGED <<wTexts, wSaid>>
         \/ /\ item.kind \in {"text", "audio", "note"} /\ wCall' = "sending"
            /\ wTexts' = IF item.kind = "text" THEN wTexts + 1 ELSE wTexts
            /\ wSaid' = IF item.kind = "audio" THEN Append(wSaid, item.sentence) ELSE wSaid
            /\ UNCHANGED <<wLlm, wTts, wRunning>>
  BY <1>1 DEF ReplyTake, LeaveReply
<1>3. PICK all \in Seq(Ranges), marks \in Seq(Marks) :
         Cut(all) /\ Said(all) /\ Queued(all, marks)
  BY <1>2, AtWork DEF UnderWay
<1>4. ReplyTypeOK
  BY DEF ReplyInv
<1>5. PICK m, first : m = LastOf(marks) /\ first = marks[1]
  OBVIOUS
<1>6. m \in Marks /\ Ahead(all, m) /\ Tracked(all, marks, wOut) /\ wOut \in Seq(ReplyItems)
  BY <1>3, <1>4, <1>5, LastMark
<1>7. first = [said |-> Len(wSaid), shown |-> wTexts, left |-> wRunning]
  BY <1>3, <1>5 DEF Queued
<1>8. PICK after : after = Tail(marks)
  OBVIOUS
<1>9. /\ Tracked(all, after, wOut') /\ after[1] = Seen(first, item) /\ Fits(all, first, item)
      /\ LastOf(after) = m
  <2>1. /\ Tracked(all, after, Tail(wOut)) /\ after[1] = Seen(marks[1], Head(wOut))
        /\ Fits(all, marks[1], Head(wOut)) /\ LastOf(after) = LastOf(marks)
    BY <1>2, <1>6, <1>8, TrackedTake
  <2> QED
    BY <1>1, <1>2, <1>5, <2>1
<1>10. after \in Seq(Marks) /\ after[1] \in Marks
  <2>1. after \in Seq(Marks) /\ Len(after) = Len(wOut') + 1 /\ wOut' \in Seq(ReplyItems)
    BY <1>2, <1>6, <1>9, HeadTailProperties DEF Tracked
  <2>2. Len(wOut') \in Nat
    BY <2>1
  <2> QED
    BY <2>1, <2>2
<1>11. wOut' \in Seq(ReplyItems) /\ item \in ReplyItems
  BY <1>1, <1>2, <1>6, HeadTailProperties
<1>12. wTexts \in Nat /\ Len(wSaid) \in Nat /\ wSaid \in Seq(Ranges) /\ wShown \in Nat
  BY <1>4 DEF ReplyTypeOK
<1>13. wRunning >= 1
  BY <1>7, <1>9 DEF Fits
\* The words that were said are said after what they say is shown.
<1>14. /\ wSaid' \in Seq(Ranges) /\ wTexts' \in Nat /\ Said(all)'
       /\ (item.kind = "audio" => Len(wSaid') = Len(wSaid) + 1)
  <2>1. CASE item.kind # "audio"
    <3>1. wSaid' = wSaid /\ wTexts' \in Nat /\ wTexts <= wTexts'
      BY <1>2, <1>12, <2>1
    <3>2. ASSUME NEW i \in 1 .. Len(wSaid)
          PROVE  wSaid[i] = all[i] /\ wSaid[i].to <= wTexts'
      <4>1. wSaid[i] \in Ranges
        BY <1>12
      <4>2. wSaid[i].to \in Nat
        BY <4>1 DEF Ranges
      <4> QED
        BY <1>3, <1>12, <3>1, <4>2 DEF Said
    <3> QED
      BY <1>3, <1>12, <2>1, <3>1, <3>2 DEF Said
  <2>2. CASE item.kind = "audio"
    <3>1. wSaid' = Append(wSaid, item.sentence) /\ wTexts' = wTexts
      BY <1>2, <2>2
    <3>2. /\ Len(wSaid) + 1 \in 1 .. Len(all)
          /\ item.sentence = all[Len(wSaid) + 1]
          /\ item.sentence.to <= wTexts
      BY <1>7, <1>9, <2>2 DEF Fits
    <3>3. item.sentence \in Ranges
      BY <3>2
    <3>4. /\ wSaid' \in Seq(Ranges) /\ Len(wSaid') = Len(wSaid) + 1
          /\ wSaid'[Len(wSaid) + 1] = item.sentence
          /\ \A i \in 1 .. Len(wSaid) : wSaid'[i] = wSaid[i]
      BY <1>12, <3>1, <3>3
    <3>5. ASSUME NEW i \in 1 .. Len(wSaid) + 1
          PROVE  wSaid'[i] = all[i] /\ wSaid'[i].to <= wTexts
      <4>1. CASE i \in 1 .. Len(wSaid)
        BY <1>3, <3>4, <4>1 DEF Said
      <4>2. CASE i = Len(wSaid) + 1
        BY <3>2, <3>4, <4>2
      <4> QED
        BY <1>12, <4>1, <4>2
    <3> QED
      BY <1>12, <3>1, <3>2, <3>4, <3>5 DEF Said
  <2> QED
    BY <2>1, <2>2
<1>15. Cut(all)'
  <2>1. wLlm' = "reading" => wLlm = "reading"
    BY <1>2
  <2>2. wLlm = "over" => wLlm' = "over"
    BY <1>2
  <2> QED
    BY <1>2, <1>3, <2>1, <2>2 DEF Cut
<1>16. Complete(all) => Complete(all)'
  BY <1>2 DEF Complete
<1>17. CASE item.kind = "done" /\ wRunning = 1
  <2>1. wCall' = "finished" /\ wLlm' = "over" /\ wTts' = "over" /\ UNCHANGED <<wTexts, wSaid>>
    BY <1>2, <1>17
  <2>2. after[1].left = 0 /\ after[1].said = Len(wSaid)
    BY <1>7, <1>9, <1>17 DEF Seen
  <2>3. wOut' = <<>>
    <3>1. SUFFICES ASSUME wOut' # <<>>
                   PROVE  FALSE
      OBVIOUS
    <3>2. Len(wOut') \in Nat /\ Len(wOut') # 0
      BY <1>11, <3>1, EmptySeq
    <3>3. 1 \in 1 .. Len(wOut')
      BY <3>2
    <3>4. after[1].left >= 1
      BY <1>9, <3>3 DEF Tracked, Fits
    <3> QED
      BY <2>2, <3>4
  <2>4. Len(after) = 1
    BY <1>9, <2>3, EmptySeq DEF Tracked
  <2>5. m.left = 0 /\ m.said = Len(wSaid)
    BY <1>9, <2>2, <2>4 DEF LastOf
  <2>6. Working = 0
    BY <1>6, <2>5 DEF Ahead
  <2>7. wLlm = "over" /\ wTts \in {"idle", "over"}
    BY <1>3, <1>4, <2>6 DEF Working, Queued, ReplyTypeOK
  <2>8. ~Raised
    <3>1. Len(wOut) = 1 /\ wOut[1] = item
      <4>1. Len(wOut') = Len(wOut) - 1 /\ Len(wOut) \in Nat /\ wOut[1] = item
        BY <1>1, <1>2, <1>6, HeadTailProperties
      <4>2. Len(wOut') = 0
        BY <2>3, EmptySeq
      <4> QED
        BY <4>1, <4>2
    <3>2. ASSUME NEW p \in 1 .. Len(wOut)
          PROVE  wOut[p].kind = "done"
      <4>1. p = 1
        BY <3>1
      <4> QED
        BY <1>17, <3>1, <4>1
    <3> QED
      BY <3>2 DEF Raised
  <2>9. Complete(all)
    BY <1>6, <2>7, <2>8 DEF Ahead
  <2>10. Len(wSaid) = Len(all)
    <3>1. CASE wTts = "over"
      BY <1>6, <2>5, <2>8, <3>1 DEF Ahead
    <3>2. CASE wTts = "idle"
      <4>1. all = <<>>
        BY <1>3, <3>2 DEF Queued, Cut
      <4>2. Len(all) = 0
        BY <4>1, EmptySeq
      <4> QED
        BY <1>3, <1>12, <4>2 DEF Said
    <3> QED
      BY <2>7, <3>1, <3>2
  <2>11. ReplyTypeOK'
    BY <1>2, <1>4, <1>11, <2>1 DEF ReplyTypeOK
  <2> QED
    BY <1>14, <1>15, <1>16, <2>1, <2>9, <2>10, <2>11 DEF ReplyInv, UnderWay
<1>18. CASE item.kind = "exc"
  <2>1. wCall' = "failed" /\ wLlm' = "over" /\ wTts' = "over" /\ UNCHANGED <<wTexts, wSaid>>
    BY <1>2, <1>18
  <2>2. ReplyTypeOK'
    BY <1>2, <1>4, <1>11, <2>1 DEF ReplyTypeOK
  <2> QED
    BY <1>14, <1>15, <2>1, <2>2 DEF ReplyInv, UnderWay
<1>19. CASE item.kind # "exc" /\ ~(item.kind = "done" /\ wRunning = 1)
  <2>1. UNCHANGED <<wLlm, wTts>> /\ wCall' \in {"waiting", "sending"}
    BY <1>2, <1>19
  <2>2. ReplyTypeOK'
    BY <1>2, <1>4, <1>11, <1>14, <2>1 DEF ReplyTypeOK
  <2>3. after[1] = [said |-> Len(wSaid'), shown |-> wTexts', left |-> wRunning']
    <3>1. Seen(first, item) =
             [said |-> IF item.kind = "audio" THEN Len(wSaid) + 1 ELSE Len(wSaid),
              shown |-> IF item.kind = "text" THEN wTexts + 1 ELSE wTexts,
              left |-> IF item.kind = "done" THEN wRunning - 1 ELSE wRunning]
      BY <1>7 DEF Seen
    <3>2. Len(wSaid') = IF item.kind = "audio" THEN Len(wSaid) + 1 ELSE Len(wSaid)
      BY <1>2, <1>14
    <3>3. wTexts' = IF item.kind = "text" THEN wTexts + 1 ELSE wTexts
      BY <1>2
    <3>4. wRunning' = IF item.kind = "done" THEN wRunning - 1 ELSE wRunning
      BY <1>2, <1>19
    <3> QED
      BY <1>9, <3>1, <3>2, <3>3, <3>4
  <2>4. Raised => Raised'
    <3>1. SUFFICES ASSUME NEW p \in 1 .. Len(wOut), wOut[p].kind = "exc"
                   PROVE  Raised'
      BY DEF Raised
    <3>2. /\ wOut[1] = item /\ Len(wOut') = Len(wOut) - 1 /\ Len(wOut) \in Nat
          /\ \A i \in 1 .. Len(wOut) - 1 : wOut'[i] = wOut[i + 1]
      BY <1>1, <1>2, <1>6, HeadTailProperties
    <3>3. p # 1
      BY <1>19, <3>1, <3>2
    <3>4. p - 1 \in 1 .. Len(wOut) - 1 /\ (p - 1) + 1 = p
      BY <3>2, <3>3
    <3>5. wOut'[p - 1].kind = "exc"
      BY <3>1, <3>2, <3>4
    <3> QED
      BY <3>2, <3>4, <3>5 DEF Raised
  <2>5. wTts \in {"ready", "speaking"} => ToSay(all, m.said)'
    BY <1>2, <1>6, <1>16, <2>1 DEF Ahead, ToSay
  <2>6. Ahead(all, m)'
    BY <1>2, <1>6, <1>16, <2>1, <2>4, <2>5 DEF Ahead, Working
  <2>7. Queued(all, after)'
    BY <1>2, <1>3, <1>9, <2>1, <2>3, <2>6 DEF Queued
  <2> QED
    BY <1>10, <1>14, <1>15, <2>1, <2>2, <2>7 DEF ReplyInv, UnderWay
<1> QED
  BY <1>17, <1>18, <1>19

LEMMA ReplyResumeKeeps ==
    ASSUME ReplyInv, ReplyResume
    PROVE  ReplyInv'
<1>1. /\ wCall = "sending" /\ wCall' = "waiting"
      /\ UNCHANGED <<wSpeak, wLlm, wTts, wOut, wSentences, wNow, wShown, wFrom, wFinal,
                     wRunning, wTexts, wSaid>>
  BY DEF ReplyResume
<1>2. PICK all \in Seq(Ranges), marks \in Seq(Marks) :
         Cut(all) /\ Said(all) /\ Queued(all, marks)
  BY <1>1, AtWork DEF UnderWay
<1>3. ReplyTypeOK'
  BY <1>1 DEF ReplyInv, ReplyTypeOK
<1>4. Cut(all)' /\ Said(all)'
  BY <1>1, <1>2 DEF Cut, Said
<1>5. PICK m : m = LastOf(marks)
  OBVIOUS
<1>6. Ahead(all, m)
  BY <1>2, <1>5 DEF Queued
<1>7. wTts \in {"ready", "speaking"} => ToSay(all, m.said)'
  BY <1>1, <1>6 DEF Ahead, ToSay, Complete
<1>8. Ahead(all, m)'
  BY <1>1, <1>6, <1>7 DEF Ahead, Working, Raised, Complete
<1>9. Queued(all, marks)'
  BY <1>1, <1>2, <1>5, <1>8 DEF Queued
<1> QED
  BY <1>1, <1>3, <1>4, <1>9 DEF ReplyInv, UnderWay

LEMMA ReplyLeaveKeeps ==
    ASSUME ReplyInv, ReplyLeave
    PROVE  ReplyInv'
<1>1. /\ UnderWay /\ wCall' = "left" /\ wLlm' = "over" /\ wTts' = "over"
      /\ UNCHANGED <<wSpeak, wOut, wSentences, wNow, wShown, wFrom, wFinal, wRunning,
                     wTexts, wSaid>>
  BY DEF ReplyLeave, LeaveReply, UnderWay
<1>2. PICK all \in Seq(Ranges) : Cut(all) /\ Said(all)
  BY <1>1, AtWork
<1>3. ReplyTypeOK'
  BY <1>1 DEF ReplyInv, ReplyTypeOK
<1>4. Cut(all)' /\ Said(all)'
  BY <1>1, <1>2 DEF Cut, Said
<1> QED
  BY <1>1, <1>3, <1>4 DEF ReplyInv, UnderWay

LEMMA ReplyBeginKeeps ==
    ASSUME ReplyInv, ReplyBegin
    PROVE  ReplyInv'
<1>1. /\ wSpeak' \in BOOLEAN /\ wCall' = "waiting" /\ wLlm' = "reading"
      /\ wTts' = (IF wSpeak' THEN "ready" ELSE "idle")
      /\ wRunning' = (IF wSpeak' THEN 2 ELSE 1)
      /\ UNCHANGED <<wOut, wSentences, wNow, wShown, wFrom, wFinal, wTexts, wSaid>>
  BY DEF ReplyBegin
<1>2. Unbegun /\ ReplyTypeOK
  BY DEF ReplyInv, ReplyBegin
<1>3. wOut' = <<>> /\ wSentences' = <<>> /\ wSaid' = <<>> /\ wShown' = 0 /\ wFrom' = 1 /\ wTexts' = 0
  BY <1>1, <1>2 DEF Unbegun
<1>4. ReplyTypeOK'
  BY <1>1, <1>2 DEF ReplyTypeOK
<1>5. PICK all \in Seq(Ranges) : all = <<>>
  <2>1. <<>> \in Seq(Ranges)
    OBVIOUS
  <2> QED
    BY <2>1
<1>6. Len(all) = 0 /\ Len(wSaid') = 0 /\ Len(wOut') = 0 /\ Covered(all) = 0
  BY <1>3, <1>5, EmptySeq DEF Covered
<1>7. Cut(all)' /\ Said(all)'
  <2>1. Sequential(all, 0)
    BY <1>6 DEF Sequential
  <2> QED
    BY <1>3, <1>5, <1>6, <2>1 DEF Cut, Said
<1>8. PICK m : m = [said |-> 0, shown |-> 0, left |-> wRunning']
  OBVIOUS
<1>9. m \in Marks /\ m.said = 0 /\ m.shown = 0 /\ m.left = wRunning'
  BY <1>1, <1>8 DEF Marks
<1>10. PICK marks \in Seq(Marks) : marks = <<m>>
  <2>1. <<m>> \in Seq(Marks)
    BY <1>9
  <2> QED
    BY <2>1
<1>11. Len(marks) = 1 /\ marks[1] = m /\ LastOf(marks) = m
  BY <1>10 DEF LastOf
<1>12. Tracked(all, marks, wOut')
  BY <1>6, <1>11 DEF Tracked
<1>13. wTts' \in {"ready", "speaking"} => ToSay(all, m.said)'
  <2>1. PICK rest \in Seq(Ranges) : rest = <<>>
    <3>1. <<>> \in Seq(Ranges)
      OBVIOUS
    <3> QED
      BY <3>1
  <2>2. InLine(all, 0, rest)
    BY <1>6, <2>1, EmptySeq DEF InLine
  <2> QED
    BY <1>1, <1>3, <1>9, <2>1, <2>2 DEF ToSay
<1>14. Ahead(all, m)'
  BY <1>1, <1>3, <1>9, <1>13 DEF Ahead, Working
<1>15. Queued(all, marks)'
  BY <1>1, <1>3, <1>6, <1>8, <1>11, <1>12, <1>14 DEF Queued
<1> QED
  BY <1>1, <1>4, <1>7, <1>15 DEF ReplyInv, UnderWay

LEMMA ReplyStarts == ReplyInit => ReplyInv
<1> SUFFICES ASSUME ReplyInit PROVE ReplyInv
  OBVIOUS
<1>1. ReplyTypeOK
  <2>1. <<>> \in Seq(ReplyItems) /\ <<>> \in Seq(Ranges)
    OBVIOUS
  <2>2. NoSentence \in Ranges
    BY DEF NoSentence, Ranges
  <2> QED
    BY <2>1, <2>2 DEF ReplyInit, ReplyTypeOK
<1> QED
  BY <1>1 DEF ReplyInit, ReplyInv, Unbegun, UnderWay

LEMMA ReplyKeeps == ReplyInv /\ [ReplyNext]_replyVars => ReplyInv'
<1> SUFFICES ASSUME ReplyInv, [ReplyNext]_replyVars
             PROVE  ReplyInv'
  OBVIOUS
<1>1. CASE ReplyNext
  BY <1>1, ReplyBeginKeeps, LlmKeeps, TtsTakeKeeps, TtsSpeakKeeps, TtsFailKeeps,
     ReplyTakeKeeps, ReplyResumeKeeps, ReplyLeaveKeeps DEF ReplyNext
<1>2. CASE UNCHANGED replyVars
  <2>1. UNCHANGED <<wCall, wSpeak, wLlm, wTts, wOut, wSentences, wNow, wShown, wFrom,
                    wFinal, wRunning, wTexts, wSaid>>
    BY <1>2 DEF replyVars
  <2>2. ReplyTypeOK'
    BY <2>1 DEF ReplyInv, ReplyTypeOK
  <2>3. CASE wCall = "idle"
    BY <2>1, <2>2, <2>3 DEF ReplyInv, Unbegun, UnderWay
  <2>4. CASE wCall # "idle"
    <3>1. PICK all \in Seq(Ranges) :
              /\ Cut(all) /\ Said(all)
              /\ UnderWay => \E marks \in Seq(Marks) : Queued(all, marks)
              /\ ~UnderWay => wLlm = "over" /\ wTts = "over"
              /\ wCall = "finished" => Complete(all) /\ Len(wSaid) = Len(all)
      BY <2>4 DEF ReplyInv
    <3>2. Cut(all)' /\ Said(all)' /\ (Complete(all) => Complete(all)')
      BY <2>1, <3>1 DEF Cut, Said, Complete
    <3>3. ASSUME NEW marks \in Seq(Marks), Queued(all, marks)
          PROVE  Queued(all, marks)'
      <4>1. PICK m : m = LastOf(marks)
        OBVIOUS
      <4>2. Ahead(all, m)
        BY <3>3, <4>1 DEF Queued
      <4>3. wTts \in {"ready", "speaking"} => ToSay(all, m.said)'
        BY <2>1, <3>2, <4>2 DEF Ahead, ToSay
      <4>4. Ahead(all, m)'
        BY <2>1, <3>2, <4>2, <4>3 DEF Ahead, Working, Raised
      <4> QED
        BY <2>1, <3>3, <4>1, <4>4 DEF Queued
    <3> QED
      BY <2>1, <2>2, <2>4, <3>1, <3>2, <3>3 DEF ReplyInv, UnderWay
  <2> QED
    BY <2>3, <2>4
<1> QED
  BY <1>1, <1>2

\* The audio that was taken is that of the first sentences, so it follows the text.
LEMMA ReplySays == ReplyInv => SpokenOnce
<1> SUFFICES ASSUME ReplyInv PROVE SpokenOnce
  OBVIOUS
<1>1. /\ wSaid \in Seq(Ranges) /\ Len(wSaid) \in Nat /\ DOMAIN wSaid = 1 .. Len(wSaid)
      /\ wTexts \in Nat /\ wShown \in Nat
  BY DEF ReplyInv, ReplyTypeOK
<1>2. CASE wCall = "idle"
  <2>1. wSaid = <<>>
    BY <1>2 DEF ReplyInv, Unbegun
  <2>2. DOMAIN wSaid = {}
    BY <1>1, <2>1, EmptySeq
  <2> QED
    BY <1>2, <2>2 DEF SpokenOnce
<1>3. CASE wCall # "idle"
  <2>1. PICK all \in Seq(Ranges) :
            /\ Cut(all) /\ Said(all)
            /\ wCall = "finished" => Complete(all) /\ Len(wSaid) = Len(all)
    BY <1>3 DEF ReplyInv
  <2>2. Len(all) \in Nat /\ Len(wSaid) <= Len(all)
    BY <2>1 DEF Said
  <2>3. ASSUME NEW i \in 1 .. Len(wSaid)
        PROVE  /\ wSaid[i] = all[i] /\ wSaid[i].to <= wTexts /\ i \in 1 .. Len(all)
               /\ all[i].from \in Nat /\ all[i].to \in Nat
    <3>1. i \in 1 .. Len(all)
      BY <1>1, <2>2
    <3>2. all[i] \in Ranges
      BY <3>1
    <3> QED
      BY <2>1, <3>1, <3>2 DEF Said, Ranges
  <2>4. ASSUME NEW i \in DOMAIN wSaid
        PROVE  \/ wSaid[i] = FinalText /\ wSaid = <<FinalText>> /\ wShown = 0
               \/ /\ wSaid[i].from = IF i = 1 THEN 1 ELSE wSaid[i - 1].to + 1
                  /\ wSaid[i].to \in wSaid[i].from .. wTexts
    <3>1. i \in 1 .. Len(wSaid)
      BY <1>1
    <3>2. CASE Sequential(all, wShown)
      <4>1. /\ all[i].from = IF i = 1 THEN 1 ELSE all[i - 1].to + 1
            /\ all[i].from <= all[i].to
        BY <2>3, <3>1, <3>2 DEF Sequential
      <4>2. i # 1 => i - 1 \in 1 .. Len(wSaid)
        BY <1>1, <3>1
      <4>3. i # 1 => wSaid[i - 1] = all[i - 1]
        BY <2>3, <4>2
      <4>4. wSaid[i].to \in wSaid[i].from .. wTexts
        BY <1>1, <2>3, <3>1, <4>1
      <4> QED
        BY <2>3, <3>1, <4>1, <4>3, <4>4
    <3>3. CASE all = <<FinalText>> /\ wShown = 0
      <4>1. Len(all) = 1 /\ all[1] = FinalText
        BY <3>3
      <4>2. Len(wSaid) = 1 /\ i = 1
        BY <1>1, <2>2, <3>1, <4>1
      <4>3. wSaid[1] = FinalText
        BY <2>3, <4>1, <4>2
      <4>4. wSaid = all
        <5>1. \A j \in 1 .. Len(wSaid) : wSaid[j] = all[j]
          BY <2>3
        <5> QED
          BY <1>1, <4>1, <4>2, <5>1, SeqEqual
      <4> QED
        BY <3>3, <4>2, <4>3, <4>4
    <3> QED
      BY <2>1, <3>2, <3>3 DEF Cut
  <2>5. ASSUME wCall = "finished", wSpeak
        PROVE  IF wShown = 0 THEN wFinal <=> wSaid # <<>>
               ELSE wSaid # <<>> /\ wSaid[Len(wSaid)].to = wShown
    <3>1. Complete(all) /\ Len(wSaid) = Len(all)
      BY <2>1, <2>5
    <3>2. wSaid # <<>> <=> all # <<>>
      BY <1>1, <3>1, EmptySeq
    <3>3. CASE wShown = 0
      BY <2>5, <3>1, <3>2, <3>3 DEF Complete
    <3>4. CASE wShown # 0
      <4>1. Covered(all) = wShown
        BY <2>5, <3>1 DEF Complete
      <4>2. all # <<>> /\ all[Len(all)].to = wShown
        BY <3>4, <4>1 DEF Covered
      <4>3. Len(wSaid) \in 1 .. Len(wSaid)
        BY <1>1, <3>2, <4>2, EmptySeq
      <4>4. wSaid[Len(wSaid)] = all[Len(all)]
        BY <2>3, <3>1, <4>3
      <4> QED
        BY <3>2, <3>4, <4>2, <4>4
    <3> QED
      BY <3>3, <3>4
  <2> QED
    BY <2>4, <2>5 DEF SpokenOnce
<1> QED
  BY <1>2, <1>3

(***************************************************************************)
(* The audio of a reply follows its text, sentence after sentence, without *)
(* a gap or a repetition, never ahead of it; a reply that ends by itself   *)
(* has said all it showed.  (cascaded.py:344-454, _agent_stream)           *)
(***************************************************************************)
THEOREM SaidAsShown == ReplySpec => []SpokenOnce
<1>1. ReplyInit => ReplyInv
  BY ReplyStarts
<1>2. ReplyInv /\ [ReplyNext]_replyVars => ReplyInv'
  BY ReplyKeeps
<1>3. ReplyInv => SpokenOnce
  BY ReplySays
<1> QED
  BY <1>1, <1>2, <1>3, PTL DEF ReplySpec

-----------------------------------------------------------------------------
(***************************************************************************)
(* VoiceDuplex.  The marks are again a history that no variable holds: for *)
(* one reply, and every place in the queue, how many of its events the     *)
(* generator will have yielded when it gets there.                         *)
(***************************************************************************)
QueueEntries ==
    [kind : {"event", "resp_done", "done", "barge_in", "speech_start"}, reply : Nat]
Replies ==
    [state : {"running", "cancelling", "over"}, began : BOOLEAN, sent : Nat, heard : Nat,
     cutAfter : Nat]

EventOf(entry, r) == entry.kind = "event" /\ entry.reply = r
EndOf(entry, r) == entry.kind = "resp_done" /\ entry.reply = r

\* The events of reply r in the queue are those sent and not heard, and its end comes
\* after all of them.
Counts(r, heard, sent, queue, marks) ==
    /\ Len(marks) = Len(queue) + 1 /\ marks[1] = heard /\ marks[Len(queue) + 1] = sent
    /\ \A p \in 1 .. Len(queue) :
          /\ marks[p + 1] = IF EventOf(queue[p], r) THEN marks[p] + 1 ELSE marks[p]
          /\ EndOf(queue[p], r) => marks[p] = sent

Delivered(r, heard, sent, queue) ==
    \E marks \in Seq(Nat) : Counts(r, heard, sent, queue, marks)

Channel(queue, replies) ==
    /\ \A p \in 1 .. Len(queue) :
          /\ queue[p].kind \in {"event", "resp_done"} => queue[p].reply \in 1 .. Len(replies)
          /\ queue[p].kind = "resp_done" => replies[queue[p].reply].state = "over"
    /\ \A r \in 1 .. Len(replies) : Delivered(r, replies[r].heard, replies[r].sent, queue)

PastDone(queue, p) == \E q \in 1 .. Len(queue) : q < p /\ queue[q].kind = "done"

\* Replies that never overlapped: only the last is not over, and only its end can come
\* after the end of the audio.
Alone(queue, replies, ended) ==
    /\ \A r \in 1 .. Len(replies) : r # Len(replies) => replies[r].state = "over"
    /\ \A p \in 1 .. Len(queue) :
          (queue[p].kind = "resp_done" /\ (ended \/ PastDone(queue, p)))
              => queue[p].reply = Len(replies)

DuplexTypeOK ==
    /\ dConsumer \in {"idle", "opening", "sending", "waiting", "ended"}
    /\ dReader \in {"idle", "reading", "closed", "failed", "cancelled"}
    /\ dQueue \in Seq(QueueEntries) /\ dReplies \in Seq(Replies)
    /\ dBargeMs \in Nat /\ dSpoke \in Nat
    /\ dPending \in BOOLEAN /\ dInSpeech \in BOOLEAN /\ dInputDone \in BOOLEAN
    /\ dWaited \in BOOLEAN /\ dOverlap \in BOOLEAN /\ dLeft \in BOOLEAN

DoneQueued == \E p \in 1 .. Len(dQueue) : dQueue[p].kind = "done"

DuplexInv ==
    /\ DuplexTypeOK
    /\ dConsumer = "idle" => dReader = "idle" /\ dQueue = <<>> /\ dReplies = <<>>
    /\ dPending => dInSpeech /\ dBargeMs <= dSpoke
    /\ \A r \in 1 .. Len(dReplies) : dReplies[r].cutAfter >= BargeNeed
    /\ Channel(dQueue, dReplies)
    /\ ~dOverlap => Alone(dQueue, dReplies, dInputDone)
    /\ dInputDone \/ DoneQueued => dReader = "closed"
    /\ dConsumer = "ended" /\ ~dLeft => dReader # "reading"
    /\ dConsumer = "ended" /\ ~dLeft => ~Responding
    /\ dConsumer = "ended" /\ dWaited /\ ~dLeft /\ ~dOverlap =>
          Current > 0 /\ dReplies[Current].heard = dReplies[Current].sent

\* An entry is put.
LEMMA Extended ==
    ASSUME NEW T, NEW s \in Seq(T), NEW x \in T
    PROVE  /\ Append(s, x) \in Seq(T) /\ Len(Append(s, x)) = Len(s) + 1 /\ Len(s) \in Nat
           /\ \A p \in 1 .. Len(s) : Append(s, x)[p] = s[p]
           /\ Append(s, x)[Len(s) + 1] = x
           /\ \A p \in 1 .. Len(s) + 1 : p \in 1 .. Len(s) \/ p = Len(s) + 1
OBVIOUS

\* One is taken.
LEMMA Shortened ==
    ASSUME NEW T, NEW s \in Seq(T), s # <<>>
    PROVE  /\ Tail(s) \in Seq(T) /\ Len(Tail(s)) = Len(s) - 1 /\ Head(s) = s[1]
           /\ Len(s) \in Nat /\ Len(s) >= 1
           /\ \A p \in 1 .. Len(s) - 1 : p + 1 \in 1 .. Len(s) /\ Tail(s)[p] = s[p + 1]
<1>1. Len(s) \in Nat /\ Len(s) >= 1
  BY EmptySeq
<1> QED
  BY <1>1, HeadTailProperties

LEMMA CountsPut ==
    ASSUME NEW queue \in Seq(QueueEntries), NEW entry \in QueueEntries, NEW r, NEW heard \in Nat,
           NEW sent \in Nat, Delivered(r, heard, sent, queue),
           EventOf(entry, r) => \A p \in 1 .. Len(queue) : ~EndOf(queue[p], r)
    PROVE  Delivered(r, heard, IF EventOf(entry, r) THEN sent + 1 ELSE sent,
                     Append(queue, entry))
<1>1. PICK marks \in Seq(Nat) : Counts(r, heard, sent, queue, marks)
  BY DEF Delivered
<1>2. PICK after \in Nat : after = IF EventOf(entry, r) THEN sent + 1 ELSE sent
  OBVIOUS
<1>3. PICK more, next : more = Append(queue, entry) /\ next = Append(marks, after)
  OBVIOUS
<1>4. /\ Len(more) = Len(queue) + 1 /\ Len(queue) \in Nat
      /\ \A p \in 1 .. Len(queue) : more[p] = queue[p]
      /\ more[Len(queue) + 1] = entry
      /\ \A p \in 1 .. Len(queue) + 1 : p \in 1 .. Len(queue) \/ p = Len(queue) + 1
  BY <1>3, Extended
<1>5. Len(marks) = Len(queue) + 1
  BY <1>1 DEF Counts
<1>6. /\ next \in Seq(Nat) /\ Len(next) = Len(queue) + 1 + 1
      /\ \A p \in 1 .. Len(queue) + 1 : next[p] = marks[p]
      /\ next[Len(queue) + 1 + 1] = after
  BY <1>3, <1>5, Extended
<1>7. ASSUME NEW p \in 1 .. Len(more)
      PROVE  /\ next[p + 1] = IF EventOf(more[p], r) THEN next[p] + 1 ELSE next[p]
             /\ EndOf(more[p], r) => next[p] = after
  <2>1. CASE p \in 1 .. Len(queue)
    <3>1. p \in 1 .. Len(queue) + 1 /\ p + 1 \in 1 .. Len(queue) + 1
      BY <1>4, <2>1
    <3>2. next[p] = marks[p] /\ next[p + 1] = marks[p + 1] /\ more[p] = queue[p]
      BY <1>4, <1>6, <2>1, <3>1
    <3>3. EndOf(queue[p], r) => after = sent
      BY <1>2, <2>1
    <3> QED
      BY <1>1, <2>1, <3>2, <3>3 DEF Counts
  <2>2. CASE p = Len(queue) + 1
    <3>1. /\ next[p] = sent /\ next[p + 1] = after /\ more[p] = entry
          /\ ~(EventOf(entry, r) /\ EndOf(entry, r))
      BY <1>1, <1>4, <1>6, <2>2 DEF Counts, EventOf, EndOf
    <3> QED
      BY <1>2, <3>1
  <2> QED
    BY <1>4, <2>1, <2>2
<1>8. next[1] = heard /\ Len(next) = Len(more) + 1 /\ next[Len(more) + 1] = after
  <2>1. 1 \in 1 .. Len(queue) + 1
    BY <1>4
  <2> QED
    BY <1>1, <1>4, <1>6, <2>1 DEF Counts
<1>9. Counts(r, heard, after, more, next)
  BY <1>7, <1>8 DEF Counts
<1> QED
  BY <1>2, <1>3, <1>6, <1>9 DEF Delivered

LEMMA CountsTake ==
    ASSUME NEW queue \in Seq(QueueEntries), queue # <<>>, NEW r, NEW heard \in Nat,
           NEW sent \in Nat, Delivered(r, heard, sent, queue)
    PROVE  /\ Delivered(r, IF EventOf(Head(queue), r) THEN heard + 1 ELSE heard, sent,
                        Tail(queue))
           /\ EndOf(Head(queue), r) => heard = sent
<1>1. PICK marks \in Seq(Nat) : Counts(r, heard, sent, queue, marks)
  BY DEF Delivered
<1>2. PICK after : after = IF EventOf(Head(queue), r) THEN heard + 1 ELSE heard
  OBVIOUS
<1>3. PICK left, next : left = Tail(queue) /\ next = Tail(marks)
  OBVIOUS
<1>4. /\ Len(left) = Len(queue) - 1 /\ Head(queue) = queue[1] /\ Len(queue) \in Nat
      /\ Len(queue) >= 1
      /\ \A p \in 1 .. Len(queue) - 1 : p + 1 \in 1 .. Len(queue) /\ left[p] = queue[p + 1]
  BY <1>3, Shortened
<1>5. Len(marks) = Len(queue) + 1 /\ marks # <<>>
  BY <1>1, <1>4, EmptySeq DEF Counts
<1>6. /\ next \in Seq(Nat) /\ Len(next) = Len(queue)
      /\ \A p \in 1 .. Len(queue) : next[p] = marks[p + 1]
  BY <1>3, <1>4, <1>5, Shortened
<1>7. 1 \in 1 .. Len(queue) /\ Len(queue) \in 1 .. Len(queue) /\ Len(left) + 1 = Len(queue)
  BY <1>4
<1>8. next[1] = after /\ (EndOf(Head(queue), r) => heard = sent)
  <2>1. next[1] = marks[1 + 1]
    BY <1>6, <1>7
  <2> QED
    BY <1>1, <1>2, <1>4, <1>7, <2>1 DEF Counts
<1>9. ASSUME NEW p \in 1 .. Len(left)
      PROVE  /\ next[p + 1] = IF EventOf(left[p], r) THEN next[p] + 1 ELSE next[p]
             /\ EndOf(left[p], r) => next[p] = sent
  <2>1. p \in 1 .. Len(queue) /\ p + 1 \in 1 .. Len(queue) /\ left[p] = queue[p + 1]
    BY <1>4
  <2>2. next[p] = marks[p + 1] /\ next[p + 1] = marks[(p + 1) + 1]
    BY <1>6, <2>1
  <2> QED
    BY <1>1, <2>1, <2>2 DEF Counts
<1>10. Len(next) = Len(left) + 1 /\ next[Len(left) + 1] = sent
  <2>1. next[Len(queue)] = marks[Len(queue) + 1]
    BY <1>6, <1>7
  <2>2. next[Len(left) + 1] = next[Len(queue)]
    BY <1>7
  <2> QED
    BY <1>1, <1>6, <1>7, <2>1, <2>2 DEF Counts
<1>11. Counts(r, after, sent, left, next)
  BY <1>8, <1>9, <1>10 DEF Counts
<1> QED
  BY <1>2, <1>3, <1>6, <1>8, <1>11 DEF Delivered

\* A reply that has produced nothing.
LEMMA CountsNone ==
    ASSUME NEW queue \in Seq(QueueEntries), NEW r,
           \A p \in 1 .. Len(queue) : ~EventOf(queue[p], r) /\ ~EndOf(queue[p], r)
    PROVE  Delivered(r, 0, 0, queue)
<1>1. PICK marks : marks = [p \in 1 .. Len(queue) + 1 |-> 0]
  OBVIOUS
<1>2. Len(queue) \in Nat
  OBVIOUS
<1>3. marks \in [1 .. Len(queue) + 1 -> Nat]
  BY <1>1
<1>4. marks \in Seq(Nat) /\ Len(marks) = Len(queue) + 1
  BY <1>2, <1>3
<1>5. \A p \in 1 .. Len(queue) : marks[p] = 0 /\ marks[p + 1] = 0
  BY <1>1, <1>2
<1>6. marks[1] = 0 /\ marks[Len(queue) + 1] = 0
  BY <1>1, <1>2
<1>7. Counts(r, 0, 0, queue, marks)
  BY <1>4, <1>5, <1>6 DEF Counts
<1> QED
  BY <1>4, <1>7 DEF Delivered

LEMMA ReplyFields ==
    ASSUME NEW replies \in Seq(Replies), NEW r \in 1 .. Len(replies)
    PROVE  replies[r].heard \in Nat /\ replies[r].sent \in Nat /\ replies[r] \in Replies
<1>1. replies[r] \in Replies
  OBVIOUS
<1> QED
  BY <1>1 DEF Replies

\* The reader puts something.
LEMMA ChannelPut ==
    ASSUME NEW queue \in Seq(QueueEntries), NEW replies \in Seq(Replies), Channel(queue, replies),
           NEW entry \in QueueEntries, entry.kind \notin {"event", "resp_done"}
    PROVE  Append(queue, entry) \in Seq(QueueEntries) /\ Channel(Append(queue, entry), replies)
<1>1. /\ Append(queue, entry) \in Seq(QueueEntries)
      /\ Len(Append(queue, entry)) = Len(queue) + 1
      /\ \A p \in 1 .. Len(queue) : Append(queue, entry)[p] = queue[p]
      /\ Append(queue, entry)[Len(queue) + 1] = entry
      /\ \A p \in 1 .. Len(queue) + 1 : p \in 1 .. Len(queue) \/ p = Len(queue) + 1
  BY Extended
<1>2. ASSUME NEW r \in 1 .. Len(replies)
      PROVE  Delivered(r, replies[r].heard, replies[r].sent, Append(queue, entry))
  <2>1. Delivered(r, replies[r].heard, replies[r].sent, queue) /\ ~EventOf(entry, r)
    BY DEF Channel, EventOf
  <2> QED
    BY <2>1, ReplyFields, CountsPut
<1> QED
  BY <1>1, <1>2 DEF Channel

\* Replies change their state only.
LEMMA ChannelState ==
    ASSUME NEW queue, NEW replies, Channel(queue, replies),
           NEW others, Len(others) = Len(replies),
           \A r \in 1 .. Len(replies) :
              /\ others[r].heard = replies[r].heard /\ others[r].sent = replies[r].sent
              /\ replies[r].state = "over" => others[r].state = "over"
    PROVE  Channel(queue, others)
BY DEF Channel

LEMMA NewIsReply == NewReply \in Replies /\ NewReply.heard = 0 /\ NewReply.sent = 0
                    /\ NewReply.cutAfter = BargeNeed /\ NewReply.state = "running"
                    /\ [NewReply EXCEPT !.began = TRUE] \in Replies
BY DuplexAssumption DEF NewReply, Replies

\* A reply begins.
LEMMA ChannelNew ==
    ASSUME NEW queue \in Seq(QueueEntries), NEW replies \in Seq(Replies), Channel(queue, replies)
    PROVE  Channel(queue, Append(replies, NewReply))
<1>1. PICK more : more = Append(replies, NewReply)
  OBVIOUS
<1>2. /\ Len(more) = Len(replies) + 1 /\ Len(replies) \in Nat
      /\ \A r \in 1 .. Len(replies) : more[r] = replies[r]
      /\ more[Len(replies) + 1] = NewReply
      /\ \A r \in 1 .. Len(replies) + 1 : r \in 1 .. Len(replies) \/ r = Len(replies) + 1
  BY <1>1, NewIsReply, Extended
<1>3. ASSUME NEW p \in 1 .. Len(queue)
      PROVE  /\ queue[p].kind \in {"event", "resp_done"} => queue[p].reply \in 1 .. Len(replies)
             /\ queue[p].kind = "resp_done" => replies[queue[p].reply].state = "over"
  BY DEF Channel
<1>4. Delivered(Len(replies) + 1, 0, 0, queue)
  <2>1. \A p \in 1 .. Len(queue) :
            ~EventOf(queue[p], Len(replies) + 1) /\ ~EndOf(queue[p], Len(replies) + 1)
    <3>1. Len(replies) + 1 \notin 1 .. Len(replies)
      BY <1>2
    <3> QED
      BY <1>3, <3>1 DEF EventOf, EndOf
  <2> QED
    BY <2>1, CountsNone
<1>5. ASSUME NEW r \in 1 .. Len(replies) + 1
      PROVE  Delivered(r, more[r].heard, more[r].sent, queue)
  <2>1. CASE r \in 1 .. Len(replies)
    BY <1>2, <2>1 DEF Channel
  <2>2. CASE r = Len(replies) + 1
    BY <1>2, <1>4, <2>2, NewIsReply
  <2> QED
    BY <1>2, <2>1, <2>2
<1>6. \A i \in 1 .. Len(replies) : i \in 1 .. Len(replies) + 1
  BY <1>2
<1> QED
  BY <1>1, <1>2, <1>3, <1>5, <1>6 DEF Channel

\* Reply r queues an event or its end.
LEMMA ChannelReply ==
    ASSUME NEW queue \in Seq(QueueEntries), NEW replies \in Seq(Replies), Channel(queue, replies),
           NEW r \in 1 .. Len(replies), replies[r].state # "over",
           NEW others \in Seq(Replies), Len(others) = Len(replies),
           \A i \in 1 .. Len(replies) : i # r => others[i] = replies[i],
           others[r].heard = replies[r].heard,
           NEW entry \in QueueEntries,
           \/ EventOf(entry, r) /\ others[r].sent = replies[r].sent + 1
           \/ EndOf(entry, r) /\ others[r].sent = replies[r].sent /\ others[r].state = "over"
    PROVE  Append(queue, entry) \in Seq(QueueEntries) /\ Channel(Append(queue, entry), others)
<1>1. PICK more : more = Append(queue, entry)
  OBVIOUS
<1>2. /\ more \in Seq(QueueEntries) /\ Len(more) = Len(queue) + 1
      /\ \A p \in 1 .. Len(queue) : more[p] = queue[p]
      /\ more[Len(queue) + 1] = entry
      /\ \A p \in 1 .. Len(queue) + 1 : p \in 1 .. Len(queue) \/ p = Len(queue) + 1
  BY <1>1, Extended
<1>3. ASSUME NEW p \in 1 .. Len(queue)
      PROVE  /\ queue[p].kind \in {"event", "resp_done"} => queue[p].reply \in 1 .. Len(replies)
             /\ queue[p].kind = "resp_done" => replies[queue[p].reply].state = "over"
  BY DEF Channel
<1>4. \A p \in 1 .. Len(queue) : ~EndOf(queue[p], r)
  BY <1>3 DEF EndOf
<1>5. ASSUME NEW i \in 1 .. Len(others)
      PROVE  Delivered(i, others[i].heard, others[i].sent, more)
  <2>1. Delivered(i, replies[i].heard, replies[i].sent, queue)
    BY DEF Channel
  <2>2. replies[i].heard \in Nat /\ replies[i].sent \in Nat
    BY ReplyFields
  <2>3. EventOf(entry, i) => i = r
    BY DEF EventOf, EndOf
  <2>4. Delivered(i, replies[i].heard,
                  IF EventOf(entry, i) THEN replies[i].sent + 1 ELSE replies[i].sent, more)
    BY <1>1, <1>4, <2>1, <2>2, <2>3, CountsPut
  <2>5. ~(EventOf(entry, r) /\ EndOf(entry, r))
    BY DEF EventOf, EndOf
  <2> QED
    BY <2>3, <2>4, <2>5
<1>6. ASSUME NEW p \in 1 .. Len(queue) + 1
      PROVE  /\ more[p].kind \in {"event", "resp_done"} => more[p].reply \in 1 .. Len(others)
             /\ more[p].kind = "resp_done" => others[more[p].reply].state = "over"
  <2>1. CASE p \in 1 .. Len(queue)
    <3>1. queue[p].kind = "resp_done" => queue[p].reply # r
      BY <1>4, <2>1 DEF EndOf
    <3> QED
      BY <1>2, <1>3, <2>1, <3>1
  <2>2. CASE p = Len(queue) + 1
    BY <1>2, <2>2 DEF EventOf, EndOf
  <2> QED
    BY <1>2, <2>1, <2>2
<1> QED
  BY <1>1, <1>2, <1>5, <1>6 DEF Channel

\* The generator takes an entry: an event is heard, an end comes after all of them.
LEMMA ChannelTake ==
    ASSUME NEW queue \in Seq(QueueEntries), NEW replies \in Seq(Replies), Channel(queue, replies),
           queue # <<>>,
           NEW others \in Seq(Replies), Len(others) = Len(replies),
           \A i \in 1 .. Len(replies) :
              /\ others[i].sent = replies[i].sent
              /\ others[i].heard = IF EventOf(Head(queue), i) THEN replies[i].heard + 1
                                   ELSE replies[i].heard
              /\ replies[i].state = "over" => others[i].state = "over"
    PROVE  /\ Tail(queue) \in Seq(QueueEntries) /\ Channel(Tail(queue), others)
           /\ Head(queue).kind = "resp_done" =>
                 /\ Head(queue).reply \in 1 .. Len(replies)
                 /\ replies[Head(queue).reply].heard = replies[Head(queue).reply].sent
<1>1. PICK left, first : left = Tail(queue) /\ first = Head(queue)
  OBVIOUS
<1>2. /\ left \in Seq(QueueEntries) /\ Len(left) = Len(queue) - 1 /\ first = queue[1]
      /\ Len(queue) \in Nat /\ Len(queue) >= 1
      /\ \A p \in 1 .. Len(queue) - 1 : p + 1 \in 1 .. Len(queue) /\ left[p] = queue[p + 1]
  BY <1>1, Shortened
<1>3. ASSUME NEW p \in 1 .. Len(queue)
      PROVE  /\ queue[p].kind \in {"event", "resp_done"} => queue[p].reply \in 1 .. Len(replies)
             /\ queue[p].kind = "resp_done" => replies[queue[p].reply].state = "over"
  BY DEF Channel
<1>4. ASSUME NEW i \in 1 .. Len(replies)
      PROVE  /\ Delivered(i, others[i].heard, others[i].sent, left)
             /\ EndOf(first, i) => replies[i].heard = replies[i].sent
  <2>1. Delivered(i, replies[i].heard, replies[i].sent, queue)
    BY DEF Channel
  <2>2. replies[i].heard \in Nat /\ replies[i].sent \in Nat
    BY ReplyFields
  <2>3. /\ Delivered(i, IF EventOf(Head(queue), i) THEN replies[i].heard + 1
                        ELSE replies[i].heard, replies[i].sent, Tail(queue))
        /\ EndOf(Head(queue), i) => replies[i].heard = replies[i].sent
    BY <2>1, <2>2, CountsTake
  <2> QED
    BY <1>1, <2>3
<1>5. first.kind = "resp_done" =>
          first.reply \in 1 .. Len(replies) /\ replies[first.reply].heard = replies[first.reply].sent
  <2>1. 1 \in 1 .. Len(queue)
    BY <1>2
  <2> QED
    BY <1>2, <1>3, <1>4, <2>1 DEF EndOf
<1>6. ASSUME NEW p \in 1 .. Len(left)
      PROVE  /\ left[p].kind \in {"event", "resp_done"} => left[p].reply \in 1 .. Len(others)
             /\ left[p].kind = "resp_done" => others[left[p].reply].state = "over"
  <2>1. p + 1 \in 1 .. Len(queue) /\ left[p] = queue[p + 1]
    BY <1>2
  <2> QED
    BY <1>3, <2>1
<1> QED
  BY <1>1, <1>2, <1>4, <1>5, <1>6 DEF Channel

LEMMA AlonePut ==
    ASSUME NEW queue \in Seq(QueueEntries), NEW replies, NEW ended, Alone(queue, replies, ended),
           NEW entry \in QueueEntries, entry.kind = "resp_done" => entry.reply = Len(replies)
    PROVE  Alone(Append(queue, entry), replies, ended)
<1>1. PICK more : more = Append(queue, entry)
  OBVIOUS
<1>2. /\ Len(more) = Len(queue) + 1 /\ Len(queue) \in Nat
      /\ \A p \in 1 .. Len(queue) : more[p] = queue[p]
      /\ more[Len(queue) + 1] = entry
      /\ \A p \in 1 .. Len(queue) + 1 : p \in 1 .. Len(queue) \/ p = Len(queue) + 1
  BY <1>1, Extended
<1>3. ASSUME NEW p \in 1 .. Len(queue) + 1, more[p].kind = "resp_done",
             ended \/ PastDone(more, p)
      PROVE  more[p].reply = Len(replies)
  <2>1. CASE p \in 1 .. Len(queue)
    <3>1. ended \/ PastDone(queue, p)
      <4>1. ASSUME NEW q \in 1 .. Len(more), q < p, more[q].kind = "done"
            PROVE  PastDone(queue, p)
        <5>1. q \in 1 .. Len(queue)
          BY <1>2, <2>1, <4>1
        <5> QED
          BY <1>2, <4>1, <5>1 DEF PastDone
      <4> QED
        BY <1>3, <4>1 DEF PastDone
    <3> QED
      BY <1>2, <1>3, <2>1, <3>1 DEF Alone
  <2>2. CASE p = Len(queue) + 1
    BY <1>2, <1>3, <2>2
  <2> QED
    BY <1>2, <2>1, <2>2
<1> QED
  BY <1>1, <1>2, <1>3 DEF Alone

LEMMA AloneState ==
    ASSUME NEW queue, NEW replies, NEW ended, Alone(queue, replies, ended),
           NEW others, Len(others) = Len(replies),
           \A r \in 1 .. Len(replies) :
              replies[r].state = "over" => others[r].state = "over"
    PROVE  Alone(queue, others, ended)
BY DEF Alone

LEMMA AloneTake ==
    ASSUME NEW queue \in Seq(QueueEntries), queue # <<>>, NEW replies, NEW ended,
           Alone(queue, replies, ended), NEW after, after => ended \/ Head(queue).kind = "done"
    PROVE  Alone(Tail(queue), replies, after)
<1>1. PICK left, first : left = Tail(queue) /\ first = Head(queue)
  OBVIOUS
<1>2. /\ Len(left) = Len(queue) - 1 /\ first = queue[1] /\ Len(queue) \in Nat
      /\ Len(queue) >= 1
      /\ \A p \in 1 .. Len(queue) - 1 : p + 1 \in 1 .. Len(queue) /\ left[p] = queue[p + 1]
  BY <1>1, Shortened
<1>3. ASSUME NEW p \in 1 .. Len(left), left[p].kind = "resp_done",
             after \/ PastDone(left, p)
      PROVE  left[p].reply = Len(replies)
  <2>1. p + 1 \in 1 .. Len(queue) /\ left[p] = queue[p + 1]
    BY <1>2
  <2>2. ended \/ PastDone(queue, p + 1)
    <3>1. CASE after
      <4>1. 1 \in 1 .. Len(queue) /\ 1 < p + 1
        BY <1>2
      <4> QED
        BY <1>1, <1>2, <3>1, <4>1 DEF PastDone
    <3>2. ASSUME NEW q \in 1 .. Len(left), q < p, left[q].kind = "done"
          PROVE  PastDone(queue, p + 1)
      <4>1. q + 1 \in 1 .. Len(queue) /\ left[q] = queue[q + 1] /\ q + 1 < p + 1
        BY <1>2, <3>2
      <4> QED
        BY <3>2, <4>1 DEF PastDone
    <3> QED
      BY <1>3, <3>1, <3>2 DEF PastDone
  <2> QED
    BY <1>3, <2>1, <2>2 DEF Alone
<1> QED
  BY <1>1, <1>3 DEF Alone

LEMMA AloneNew ==
    ASSUME NEW queue, NEW replies \in Seq(Replies),
           \A r \in 1 .. Len(replies) : replies[r].state = "over",
           \A p \in 1 .. Len(queue) : queue[p].kind # "done"
    PROVE  Alone(queue, Append(replies, NewReply), FALSE)
<1>1. PICK more : more = Append(replies, NewReply)
  OBVIOUS
<1>2. /\ Len(more) = Len(replies) + 1 /\ Len(replies) \in Nat
      /\ \A r \in 1 .. Len(replies) : more[r] = replies[r]
      /\ \A r \in 1 .. Len(replies) + 1 : r \in 1 .. Len(replies) \/ r = Len(replies) + 1
  BY <1>1, NewIsReply, Extended
<1> QED
  BY <1>1, <1>2 DEF Alone, PastDone

-----------------------------------------------------------------------------
LEMMA DuplexStarts == DuplexInit => DuplexInv
<1> SUFFICES ASSUME DuplexInit PROVE DuplexInv
  OBVIOUS
<1>1. <<>> \in Seq(QueueEntries) /\ <<>> \in Seq(Replies)
  OBVIOUS
<1>2. Len(dQueue) = 0 /\ Len(dReplies) = 0
  BY <1>1, EmptySeq DEF DuplexInit
<1>3. DuplexTypeOK
  BY <1>1 DEF DuplexInit, DuplexTypeOK
<1>4. Channel(dQueue, dReplies) /\ Alone(dQueue, dReplies, dInputDone) /\ ~DoneQueued
  BY <1>2 DEF Channel, Alone, DoneQueued
<1> QED
  BY <1>2, <1>3, <1>4 DEF DuplexInit, DuplexInv

\* What is left to show of a step of the reader.
LEMMA ReaderKeeps ==
    ASSUME DuplexInv, dReader = "reading",
           UNCHANGED <<dConsumer, dInputDone, dWaited, dLeft>>,
           DuplexTypeOK',
           dPending' => dInSpeech' /\ dBargeMs' <= dSpoke',
           \A r \in 1 .. Len(dReplies') : dReplies'[r].cutAfter >= BargeNeed,
           Channel(dQueue', dReplies'),
           ~dOverlap' => Alone(dQueue', dReplies', FALSE),
           DoneQueued' => dReader' = "closed"
    PROVE  DuplexInv'
<1>1. dConsumer # "idle" /\ (dConsumer = "ended" => dLeft) /\ ~dInputDone
  BY DEF DuplexInv
<1>2. dInputDone' = FALSE
  BY <1>1 DEF DuplexTypeOK
<1> QED
  BY <1>1, <1>2 DEF DuplexInv

\* A cut reply was cut by speech that lasted long enough.
LEMMA BargeInKeeps ==
    ASSUME DuplexTypeOK, dSpoke' \in Nat, NEW pending \in BOOLEAN, NEW ms \in Nat,
           NEW queue \in Seq(QueueEntries), Channel(queue, dReplies),
           ~dOverlap => Alone(queue, dReplies, FALSE),
           \A r \in 1 .. Len(dReplies) : dReplies[r].cutAfter >= BargeNeed,
           pending => ms <= dSpoke',
           MaybeFireBargeIn(pending, ms, queue)
    PROVE  /\ dQueue' \in Seq(QueueEntries) /\ dReplies' \in Seq(Replies)
           /\ Channel(dQueue', dReplies')
           /\ ~dOverlap => Alone(dQueue', dReplies', FALSE)
           /\ \A r \in 1 .. Len(dReplies') : dReplies'[r].cutAfter >= BargeNeed
           /\ dPending' \in BOOLEAN /\ (dPending' => pending)
           /\ \/ dQueue' = queue
              \/ \E entry \in QueueEntries : entry.kind = "barge_in" /\ dQueue' = Append(queue, entry)
<1>1. dReplies \in Seq(Replies) /\ Len(dReplies) \in Nat
  BY DEF DuplexTypeOK
<1>2. CASE Responding /\ pending /\ ms >= BargeNeed
  <2>1. PICK r : r = Current
    OBVIOUS
  <2>2. r \in 1 .. Len(dReplies)
    BY <1>1, <1>2, <2>1 DEF Responding, Current
  <2>3. /\ dPending' = FALSE /\ dQueue' = Append(queue, Item("barge_in", r))
        /\ dReplies' = [dReplies EXCEPT ![r].state = "cancelling", ![r].cutAfter = dSpoke']
    BY <1>2, <2>1 DEF MaybeFireBargeIn
  <2>4. PICK entry : entry = Item("barge_in", r)
    OBVIOUS
  <2>5. entry \in QueueEntries /\ entry.kind = "barge_in"
    BY <1>1, <2>2, <2>4 DEF Item, QueueEntries
  <2>6. PICK one : one = [dReplies[r] EXCEPT !.state = "cancelling", !.cutAfter = dSpoke']
    OBVIOUS
  <2>7. /\ one \in Replies /\ one.heard = dReplies[r].heard /\ one.sent = dReplies[r].sent
        /\ one.cutAfter = dSpoke'
    BY <1>1, <2>2, <2>6, ReplyFields DEF Replies
  <2>8. dReplies' = [dReplies EXCEPT ![r] = one]
    BY <1>1, <2>2, <2>3, <2>6
  <2>9. /\ dReplies' \in Seq(Replies) /\ Len(dReplies') = Len(dReplies)
        /\ dReplies'[r] = one /\ \A i \in 1 .. Len(dReplies) : i # r => dReplies'[i] = dReplies[i]
    BY <1>1, <2>2, <2>7, <2>8
  <2>10. dReplies[r].state # "over"
    BY <1>2, <2>1 DEF Responding
  <2>11. Channel(queue, dReplies') /\ (~dOverlap => Alone(queue, dReplies', FALSE))
    <3>1. \A i \in 1 .. Len(dReplies) :
              /\ dReplies'[i].heard = dReplies[i].heard /\ dReplies'[i].sent = dReplies[i].sent
              /\ dReplies[i].state = "over" => dReplies'[i].state = "over"
      BY <2>7, <2>9, <2>10
    <3> QED
      BY <2>9, <3>1, ChannelState, AloneState
  <2>12. /\ Channel(Append(queue, entry), dReplies') /\ Append(queue, entry) \in Seq(QueueEntries)
         /\ ~dOverlap => Alone(Append(queue, entry), dReplies', FALSE)
    BY <2>5, <2>9, <2>11, ChannelPut, AlonePut
  <2>13. dSpoke' >= BargeNeed
    BY <1>2, DuplexAssumption
  <2>14. \A i \in 1 .. Len(dReplies') : dReplies'[i].cutAfter >= BargeNeed
    BY <2>7, <2>9, <2>13
  <2> QED
    BY <2>3, <2>4, <2>5, <2>9, <2>12, <2>14
<1>3. CASE ~(Responding /\ pending /\ ms >= BargeNeed)
  <2>1. dPending' = pending /\ dQueue' = queue /\ dReplies' = dReplies
    BY <1>3 DEF MaybeFireBargeIn
  <2> QED
    BY <1>1, <2>1
<1> QED
  BY <1>2, <1>3

LEMMA SpeechStartKeeps ==
    ASSUME DuplexInv, ReadSpeechStart
    PROVE  DuplexInv'
<1>1. /\ dReader = "reading" /\ dReader' = "reading" /\ dInSpeech' = TRUE /\ dSpoke' = 1
      /\ dBargeMs' = (IF Responding THEN 1 ELSE 0)
      /\ MaybeFireBargeIn(Responding, 1, Append(dQueue, Item("speech_start", 0)))
      /\ UNCHANGED <<dConsumer, dInputDone, dWaited, dLeft, dOverlap>>
  BY DEF ReadSpeechStart, ReadFrame
<1>2. DuplexTypeOK /\ Channel(dQueue, dReplies) /\ ~dInputDone /\ ~DoneQueued
  BY <1>1 DEF DuplexInv
<1>3. PICK entry : entry = Item("speech_start", 0)
  OBVIOUS
<1>4. entry \in QueueEntries /\ entry.kind = "speech_start"
  BY <1>3 DEF Item, QueueEntries
<1>5. PICK queue : queue = Append(dQueue, entry)
  OBVIOUS
<1>6. ~dOverlap => Alone(dQueue, dReplies, FALSE)
  <2>1. dInputDone = FALSE
    BY <1>2 DEF DuplexTypeOK
  <2> QED
    BY <2>1 DEF DuplexInv
<1>7. dQueue \in Seq(QueueEntries) /\ dReplies \in Seq(Replies)
  BY <1>2 DEF DuplexTypeOK
<1>8. /\ queue \in Seq(QueueEntries) /\ Channel(queue, dReplies)
      /\ ~dOverlap => Alone(queue, dReplies, FALSE)
  BY <1>2, <1>4, <1>5, <1>6, <1>7, ChannelPut, AlonePut
<1>9. Responding \in BOOLEAN /\ 1 \in Nat /\ dSpoke' \in Nat /\ 1 <= dSpoke'
  BY <1>1 DEF Responding
<1>10. PICK pending \in BOOLEAN : pending = Responding
  BY <1>9
<1>11. MaybeFireBargeIn(pending, 1, queue)
  BY <1>1, <1>3, <1>5, <1>10
<1>12. \A r \in 1 .. Len(dReplies) : dReplies[r].cutAfter >= BargeNeed
  BY DEF DuplexInv
<1>13. /\ dQueue' \in Seq(QueueEntries) /\ dReplies' \in Seq(Replies)
       /\ Channel(dQueue', dReplies')
       /\ ~dOverlap => Alone(dQueue', dReplies', FALSE)
       /\ \A r \in 1 .. Len(dReplies') : dReplies'[r].cutAfter >= BargeNeed
       /\ dPending' \in BOOLEAN /\ (dPending' => pending)
       /\ \/ dQueue' = queue
          \/ \E e \in QueueEntries : e.kind = "barge_in" /\ dQueue' = Append(queue, e)
  BY <1>2, <1>8, <1>9, <1>11, <1>12, BargeInKeeps
<1>14. dPending' => dInSpeech' /\ dBargeMs' <= dSpoke'
  BY <1>1, <1>10, <1>13
<1>15. DuplexTypeOK'
  BY <1>1, <1>2, <1>13 DEF DuplexTypeOK
<1>16. ~DoneQueued'
  <2>1. /\ Len(queue) = Len(dQueue) + 1 /\ Len(dQueue) \in Nat
        /\ \A p \in 1 .. Len(dQueue) : queue[p] = dQueue[p]
        /\ queue[Len(dQueue) + 1] = entry
        /\ \A p \in 1 .. Len(dQueue) + 1 : p \in 1 .. Len(dQueue) \/ p = Len(dQueue) + 1
    BY <1>4, <1>5, <1>7, Extended
  <2>2. \A p \in 1 .. Len(queue) : queue[p].kind # "done"
    BY <1>2, <1>4, <2>1 DEF DoneQueued
  <2>3. ASSUME NEW e \in QueueEntries, e.kind = "barge_in", dQueue' = Append(queue, e)
        PROVE  ~DoneQueued'
    <3>1. /\ Len(dQueue') = Len(queue) + 1
          /\ \A p \in 1 .. Len(queue) : dQueue'[p] = queue[p]
          /\ dQueue'[Len(queue) + 1] = e
          /\ \A p \in 1 .. Len(queue) + 1 : p \in 1 .. Len(queue) \/ p = Len(queue) + 1
      BY <1>8, <2>3, Extended
    <3> QED
      BY <2>2, <2>3, <3>1 DEF DoneQueued
  <2> QED
    BY <1>13, <2>2, <2>3 DEF DoneQueued
<1> QED
  BY <1>1, <1>13, <1>14, <1>15, <1>16, ReaderKeeps

\* The entries of a longer queue are not DONE when neither the old nor the new ones are.
LEMMA NoDone ==
    ASSUME NEW queue \in Seq(QueueEntries), \A p \in 1 .. Len(queue) : queue[p].kind # "done",
           NEW entry \in QueueEntries, entry.kind # "done"
    PROVE  \A p \in 1 .. Len(Append(queue, entry)) : Append(queue, entry)[p].kind # "done"
BY Extended

LEMMA SpeechEndKeeps ==
    ASSUME DuplexInv, ReadSpeechEnd
    PROVE  DuplexInv'
<1>1. /\ dReader = "reading" /\ dReader' = "reading" /\ dInSpeech' = FALSE /\ dSpoke' = 0
      /\ dPending' = FALSE /\ dBargeMs' = 0
      /\ dReplies' = Append(dReplies, NewReply) /\ dOverlap' = (dOverlap \/ Responding)
      /\ UNCHANGED <<dConsumer, dInputDone, dWaited, dLeft, dQueue>>
  BY DEF ReadSpeechEnd, ReadFrame
<1>2. /\ DuplexTypeOK /\ Channel(dQueue, dReplies) /\ ~dInputDone /\ ~DoneQueued
      /\ dQueue \in Seq(QueueEntries) /\ dReplies \in Seq(Replies)
  BY <1>1 DEF DuplexInv, DuplexTypeOK
<1>3. /\ dReplies' \in Seq(Replies) /\ Len(dReplies') = Len(dReplies) + 1
      /\ Len(dReplies) \in Nat
      /\ \A r \in 1 .. Len(dReplies) : dReplies'[r] = dReplies[r]
      /\ dReplies'[Len(dReplies) + 1] = NewReply
      /\ \A r \in 1 .. Len(dReplies) + 1 : r \in 1 .. Len(dReplies) \/ r = Len(dReplies) + 1
  BY <1>1, <1>2, NewIsReply, Extended
<1>4. Channel(dQueue', dReplies')
  BY <1>1, <1>2, ChannelNew
<1>5. DuplexTypeOK'
  <2>1. dOverlap' \in BOOLEAN
    BY <1>1, <1>2 DEF DuplexTypeOK, Responding
  <2> QED
    BY <1>1, <1>2, <1>3, <2>1 DEF DuplexTypeOK
<1>6. \A r \in 1 .. Len(dReplies') : dReplies'[r].cutAfter >= BargeNeed
  <2>1. \A r \in 1 .. Len(dReplies) : dReplies[r].cutAfter >= BargeNeed
    BY DEF DuplexInv
  <2>2. NewReply.cutAfter >= BargeNeed
    BY NewIsReply, DuplexAssumption
  <2> QED
    BY <1>3, <2>1, <2>2
<1>7. ~dOverlap' => Alone(dQueue', dReplies', FALSE)
  <2> SUFFICES ASSUME ~dOverlap, ~Responding
               PROVE  Alone(dQueue, Append(dReplies, NewReply), FALSE)
    BY <1>1
  <2>1. ASSUME NEW r \in 1 .. Len(dReplies)
        PROVE  dReplies[r].state = "over"
    <3>1. r # Len(dReplies) => dReplies[r].state = "over"
      BY DEF DuplexInv, Alone
    <3>2. r = Len(dReplies) => dReplies[r].state = "over"
      BY <1>3 DEF Responding, Current
    <3> QED
      BY <3>1, <3>2
  <2> QED
    BY <1>2, <2>1, AloneNew DEF DoneQueued
<1>8. ~DoneQueued'
  BY <1>1, <1>2 DEF DoneQueued
<1> QED
  BY <1>1, <1>4, <1>5, <1>6, <1>7, <1>8, ReaderKeeps

LEMMA OtherKeeps ==
    ASSUME DuplexInv, ReadOther
    PROVE  DuplexInv'
<1>1. /\ dReader = "reading" /\ dReader' = "reading"
      /\ dSpoke' = (IF dInSpeech THEN dSpoke + 1 ELSE 0)
      /\ UNCHANGED <<dConsumer, dInputDone, dWaited, dLeft, dOverlap, dInSpeech>>
  BY DEF ReadOther, ReadFrame
<1>2. /\ DuplexTypeOK /\ Channel(dQueue, dReplies) /\ ~dInputDone /\ ~DoneQueued
      /\ dQueue \in Seq(QueueEntries) /\ dReplies \in Seq(Replies) /\ dInputDone = FALSE
      /\ \A r \in 1 .. Len(dReplies) : dReplies[r].cutAfter >= BargeNeed
      /\ ~dOverlap => Alone(dQueue, dReplies, FALSE)
  BY <1>1 DEF DuplexInv, DuplexTypeOK
<1>3. dPending => dInSpeech /\ dBargeMs <= dSpoke
  BY DEF DuplexInv
<1>4. dSpoke \in Nat /\ dBargeMs \in Nat /\ dSpoke' \in Nat
  BY <1>1, <1>2 DEF DuplexTypeOK
<1>5. CASE dPending /\ Responding
  <2>1. dBargeMs' = dBargeMs + 1 /\ MaybeFireBargeIn(TRUE, dBargeMs + 1, dQueue)
    BY <1>5 DEF ReadOther
  <2>2. dBargeMs + 1 \in Nat /\ dBargeMs + 1 <= dSpoke' /\ dInSpeech
    BY <1>1, <1>3, <1>4, <1>5
  <2>3. /\ dQueue' \in Seq(QueueEntries) /\ dReplies' \in Seq(Replies)
        /\ Channel(dQueue', dReplies')
        /\ ~dOverlap => Alone(dQueue', dReplies', FALSE)
        /\ \A r \in 1 .. Len(dReplies') : dReplies'[r].cutAfter >= BargeNeed
        /\ dPending' \in BOOLEAN /\ (dPending' => TRUE)
        /\ \/ dQueue' = dQueue
           \/ \E e \in QueueEntries : e.kind = "barge_in" /\ dQueue' = Append(dQueue, e)
    BY <1>2, <1>4, <2>1, <2>2, BargeInKeeps
  <2>4. DuplexTypeOK'
    BY <1>1, <1>2, <1>4, <2>1, <2>2, <2>3 DEF DuplexTypeOK
  <2>5. ~DoneQueued'
    <3>1. \A p \in 1 .. Len(dQueue) : dQueue[p].kind # "done"
      BY <1>2 DEF DoneQueued
    <3>2. \A p \in 1 .. Len(dQueue') : dQueue'[p].kind # "done"
      <4>1. ASSUME NEW e \in QueueEntries, e.kind = "barge_in", dQueue' = Append(dQueue, e)
            PROVE  \A p \in 1 .. Len(dQueue') : dQueue'[p].kind # "done"
        BY <1>2, <3>1, <4>1, NoDone
      <4> QED
        BY <2>3, <3>1, <4>1
    <3> QED
      BY <3>2 DEF DoneQueued
  <2>6. dPending' => dInSpeech' /\ dBargeMs' <= dSpoke'
    BY <1>1, <2>1, <2>2
  <2> QED
    BY <1>1, <2>3, <2>4, <2>5, <2>6, ReaderKeeps
<1>6. CASE ~(dPending /\ Responding)
  <2>1. dPending' = FALSE /\ UNCHANGED <<dBargeMs, dQueue, dReplies>>
    BY <1>2, <1>6 DEF ReadOther, DuplexTypeOK
  <2>2. DuplexTypeOK'
    BY <1>1, <1>2, <1>4, <2>1 DEF DuplexTypeOK
  <2>3. ~DoneQueued'
    BY <1>2, <2>1 DEF DoneQueued
  <2> QED
    BY <1>1, <1>2, <2>1, <2>2, <2>3, ReaderKeeps
<1> QED
  BY <1>5, <1>6

LEMMA ReadCloseKeeps ==
    ASSUME DuplexInv, ReadClose
    PROVE  DuplexInv'
<1>1. /\ dReader = "reading" /\ dReader' = "closed"
      /\ dQueue' = Append(dQueue, Item("done", 0))
      /\ UNCHANGED <<dConsumer, dReplies, dPending, dBargeMs, dInSpeech, dInputDone, dSpoke,
                     dWaited, dOverlap, dLeft>>
  BY DEF ReadClose
<1>2. /\ DuplexTypeOK /\ Channel(dQueue, dReplies) /\ dInputDone = FALSE
      /\ dQueue \in Seq(QueueEntries) /\ dReplies \in Seq(Replies)
      /\ \A r \in 1 .. Len(dReplies) : dReplies[r].cutAfter >= BargeNeed
      /\ ~dOverlap => Alone(dQueue, dReplies, FALSE)
      /\ dPending => dInSpeech /\ dBargeMs <= dSpoke
  BY <1>1 DEF DuplexInv, DuplexTypeOK
<1>3. PICK entry : entry = Item("done", 0)
  OBVIOUS
<1>4. entry \in QueueEntries /\ entry.kind = "done"
  BY <1>3 DEF Item, QueueEntries
<1>5. /\ Append(dQueue, entry) \in Seq(QueueEntries) /\ Channel(Append(dQueue, entry), dReplies)
      /\ ~dOverlap => Alone(Append(dQueue, entry), dReplies, FALSE)
  BY <1>2, <1>4, ChannelPut, AlonePut
<1>6. DuplexTypeOK'
  BY <1>1, <1>2, <1>3, <1>5 DEF DuplexTypeOK
<1> QED
  BY <1>1, <1>2, <1>3, <1>5, <1>6, ReaderKeeps

LEMMA ReadFailKeeps ==
    ASSUME DuplexInv, ReadFail
    PROVE  DuplexInv'
<1>1. /\ dReader = "reading" /\ dReader' = "failed"
      /\ UNCHANGED <<dConsumer, dQueue, dReplies, dPending, dBargeMs, dInSpeech, dInputDone,
                     dSpoke, dWaited, dOverlap, dLeft>>
  BY DEF ReadFail
<1>2. /\ DuplexTypeOK /\ Channel(dQueue, dReplies) /\ dInputDone = FALSE /\ ~DoneQueued
      /\ \A r \in 1 .. Len(dReplies) : dReplies[r].cutAfter >= BargeNeed
      /\ ~dOverlap => Alone(dQueue, dReplies, FALSE)
      /\ dPending => dInSpeech /\ dBargeMs <= dSpoke
  BY <1>1 DEF DuplexInv, DuplexTypeOK
<1>3. DuplexTypeOK' /\ ~DoneQueued'
  BY <1>1, <1>2 DEF DuplexTypeOK, DoneQueued
<1> QED
  BY <1>1, <1>2, <1>3, ReaderKeeps

\* An event of a reply, or its end.
LEMMA ReplyPuts ==
    ASSUME DuplexInv, NEW r \in DOMAIN dReplies, dReplies[r].state # "over",
           NEW one \in Replies, one.heard = dReplies[r].heard,
           one.cutAfter = dReplies[r].cutAfter, NEW entry \in QueueEntries,
           \/ EventOf(entry, r) /\ one.sent = dReplies[r].sent + 1 /\ one.state = dReplies[r].state
           \/ EndOf(entry, r) /\ one.sent = dReplies[r].sent /\ one.state = "over",
           dReplies' = [dReplies EXCEPT ![r] = one],
           dQueue' = Append(dQueue, entry),
           UNCHANGED <<dConsumer, dPending, dBargeMs, dInSpeech, dReader,
                       dInputDone, dSpoke, dWaited, dOverlap, dLeft>>
    PROVE  DuplexInv'
<1>1. /\ DuplexTypeOK /\ Channel(dQueue, dReplies)
      /\ dQueue \in Seq(QueueEntries) /\ dReplies \in Seq(Replies) /\ Len(dReplies) \in Nat
      /\ DOMAIN dReplies = 1 .. Len(dReplies)
      /\ \A i \in 1 .. Len(dReplies) : dReplies[i].cutAfter >= BargeNeed
      /\ dPending => dInSpeech /\ dBargeMs <= dSpoke
  BY DEF DuplexInv, DuplexTypeOK
<1>2. r \in 1 .. Len(dReplies)
  BY <1>1
<1>3. dConsumer # "idle"
  <2>1. dReplies # <<>>
    BY <1>1, <1>2, EmptySeq
  <2> QED
    BY <2>1 DEF DuplexInv
<1>4. /\ dReplies' \in Seq(Replies) /\ Len(dReplies') = Len(dReplies) /\ dReplies'[r] = one
      /\ \A i \in 1 .. Len(dReplies) : i # r => dReplies'[i] = dReplies[i]
  BY <1>1, <1>2
<1>5. dQueue' \in Seq(QueueEntries) /\ Channel(dQueue', dReplies')
  <2>1. /\ Append(dQueue, entry) \in Seq(QueueEntries) /\ Channel(Append(dQueue, entry), dReplies')
    BY <1>1, <1>2, <1>4, ChannelReply
  <2> QED
    BY <2>1
<1>6. DuplexTypeOK'
  BY <1>1, <1>4, <1>5 DEF DuplexTypeOK
<1>7. \A i \in 1 .. Len(dReplies') : dReplies'[i].cutAfter >= BargeNeed
  BY <1>1, <1>4
<1>8. ~dOverlap => /\ r = Len(dReplies)
                   /\ Alone(dQueue', dReplies', dInputDone)
  <2> SUFFICES ASSUME ~dOverlap
               PROVE  r = Len(dReplies) /\ Alone(dQueue', dReplies', dInputDone)
    OBVIOUS
  <2>1. Alone(dQueue, dReplies, dInputDone)
    BY DEF DuplexInv
  <2>2. r = Len(dReplies)
    BY <1>2, <2>1 DEF Alone
  <2>3. entry.kind = "resp_done" => entry.reply = Len(dReplies)
    BY <2>2 DEF EventOf, EndOf
  <2>4. Alone(Append(dQueue, entry), dReplies, dInputDone)
    BY <1>1, <2>1, <2>3, AlonePut
  <2>5. \A i \in 1 .. Len(dReplies) : dReplies[i].state = "over" => dReplies'[i].state = "over"
    BY <1>4
  <2>6. Alone(dQueue', dReplies', dInputDone)
    BY <1>4, <2>4, <2>5, AloneState
  <2> QED
    BY <2>2, <2>6
<1>9. DoneQueued' => DoneQueued
  <2>1. /\ Len(dQueue') = Len(dQueue) + 1
        /\ \A p \in 1 .. Len(dQueue) : dQueue'[p] = dQueue[p]
        /\ dQueue'[Len(dQueue) + 1] = entry
        /\ \A p \in 1 .. Len(dQueue) + 1 : p \in 1 .. Len(dQueue) \/ p = Len(dQueue) + 1
    BY <1>1, Extended
  <2>2. entry.kind # "done"
    BY DEF EventOf, EndOf
  <2> QED
    BY <2>1, <2>2 DEF DoneQueued
<1>10. Responding' => Responding
  <2>1. Current' = Current
    BY <1>4 DEF Current
  <2>2. CASE Current = r
    BY <1>2, <2>1, <2>2 DEF Responding
  <2>3. CASE Current # r
    <3>1. Current > 0 => dReplies'[Current] = dReplies[Current]
      BY <1>1, <1>4, <2>3 DEF Current
    <3> QED
      BY <2>1, <3>1 DEF Responding
  <2> QED
    BY <2>2, <2>3
<1>11. dConsumer = "ended" /\ ~dLeft => dOverlap
  <2>1. dConsumer = "ended" /\ ~dLeft => ~Responding
    BY DEF DuplexInv
  <2>2. r = Len(dReplies) => Responding
    BY <1>2 DEF Responding, Current
  <2> QED
    BY <1>8, <2>1, <2>2
<1>12. (dInputDone \/ DoneQueued => dReader = "closed") /\ (dConsumer = "ended" /\ ~dLeft => dReader # "reading")
       /\ (dConsumer = "ended" /\ ~dLeft => ~Responding)
  BY DEF DuplexInv
<1> QED
  BY <1>1, <1>3, <1>5, <1>6, <1>7, <1>8, <1>9, <1>10, <1>11, <1>12 DEF DuplexInv

\* A reply begins, or is over without having begun: nothing is queued.
LEMMA ReplyTurns ==
    ASSUME DuplexInv, NEW r \in DOMAIN dReplies, ReplyBegins(r) \/ ReplyNeverBegins(r)
    PROVE  DuplexInv'
<1>1. /\ DuplexTypeOK /\ Channel(dQueue, dReplies)
      /\ dReplies \in Seq(Replies) /\ Len(dReplies) \in Nat
      /\ \A i \in 1 .. Len(dReplies) : dReplies[i].cutAfter >= BargeNeed
      /\ ~dOverlap => Alone(dQueue, dReplies, dInputDone)
  BY DEF DuplexInv, DuplexTypeOK
<1>2. r \in 1 .. Len(dReplies) /\ dReplies # <<>>
  BY <1>1, EmptySeq
<1>3. PICK one : \/ one = [dReplies[r] EXCEPT !.began = TRUE] /\ ReplyBegins(r)
                 \/ one = [dReplies[r] EXCEPT !.state = "over"] /\ ReplyNeverBegins(r)
  OBVIOUS
<1>4. /\ dReplies[r].state # "over" /\ dReplies' = [dReplies EXCEPT ![r] = one]
      /\ UNCHANGED <<dConsumer, dQueue, dPending, dBargeMs, dInSpeech, dReader, dInputDone,
                     dSpoke, dWaited, dOverlap, dLeft>>
  BY <1>3 DEF ReplyBegins, ReplyNeverBegins
<1>5. /\ one \in Replies /\ one.heard = dReplies[r].heard /\ one.sent = dReplies[r].sent
      /\ one.cutAfter = dReplies[r].cutAfter
  BY <1>1, <1>2, <1>3, ReplyFields DEF Replies
<1>6. /\ dReplies' \in Seq(Replies) /\ Len(dReplies') = Len(dReplies) /\ dReplies'[r] = one
      /\ \A i \in 1 .. Len(dReplies) : i # r => dReplies'[i] = dReplies[i]
  BY <1>1, <1>2, <1>4, <1>5
<1>7. \A i \in 1 .. Len(dReplies) :
         /\ dReplies'[i].heard = dReplies[i].heard /\ dReplies'[i].sent = dReplies[i].sent
         /\ dReplies'[i].cutAfter = dReplies[i].cutAfter
         /\ dReplies[i].state = "over" => dReplies'[i].state = "over"
  BY <1>4, <1>5, <1>6
<1>8. Channel(dQueue', dReplies') /\ (~dOverlap => Alone(dQueue', dReplies', dInputDone'))
  <2>1. Channel(dQueue, dReplies')
    BY <1>1, <1>6, <1>7, ChannelState
  <2>2. ~dOverlap => Alone(dQueue, dReplies', dInputDone)
    BY <1>1, <1>6, <1>7, AloneState
  <2> QED
    BY <1>4, <2>1, <2>2
<1>9. DuplexTypeOK' /\ (DoneQueued' => DoneQueued) /\ Current' = Current
  BY <1>1, <1>4, <1>6 DEF DuplexTypeOK, DoneQueued, Current
<1>10. Responding' => Responding
  BY <1>1, <1>2, <1>4, <1>7, <1>9 DEF Responding, Current
<1>11. Current > 0 => dReplies'[Current].heard = dReplies[Current].heard
                      /\ dReplies'[Current].sent = dReplies[Current].sent
  BY <1>1, <1>7 DEF Current
<1>12. /\ dConsumer # "idle"
       /\ dPending => dInSpeech /\ dBargeMs <= dSpoke
       /\ dInputDone \/ DoneQueued => dReader = "closed"
       /\ dConsumer = "ended" /\ ~dLeft => dReader # "reading"
       /\ dConsumer = "ended" /\ ~dLeft => ~Responding
       /\ dConsumer = "ended" /\ dWaited /\ ~dLeft /\ ~dOverlap =>
             Current > 0 /\ dReplies[Current].heard = dReplies[Current].sent
  BY <1>2 DEF DuplexInv
<1>13. \A i \in 1 .. Len(dReplies') : dReplies'[i].cutAfter >= BargeNeed
  BY <1>1, <1>6, <1>7
<1>14. dConsumer' = "ended" /\ dWaited' /\ ~dLeft' /\ ~dOverlap' =>
          Current' > 0 /\ dReplies'[Current'].heard = dReplies'[Current'].sent
  BY <1>4, <1>9, <1>11, <1>12
<1>15. /\ dConsumer' # "idle"
       /\ dPending' => dInSpeech' /\ dBargeMs' <= dSpoke'
       /\ dInputDone' \/ DoneQueued' => dReader' = "closed"
       /\ dConsumer' = "ended" /\ ~dLeft' => dReader' # "reading"
       /\ dConsumer' = "ended" /\ ~dLeft' => ~Responding'
       /\ ~dOverlap' => Alone(dQueue', dReplies', dInputDone')
  BY <1>4, <1>8, <1>9, <1>10, <1>12
<1> QED
  BY <1>8, <1>9, <1>13, <1>14, <1>15 DEF DuplexInv

LEMMA RepliesKeep ==
    ASSUME DuplexInv, NEW r \in DOMAIN dReplies,
           ReplyBegins(r) \/ ReplyNeverBegins(r) \/ ReplyEvent(r) \/ ReplyOver(r)
    PROVE  DuplexInv'
<1>1. dReplies \in Seq(Replies) /\ DOMAIN dReplies = 1 .. Len(dReplies) /\ r \in Nat
  BY DEF DuplexInv, DuplexTypeOK
<1>2. dReplies[r] \in Replies /\ dReplies[r].sent \in Nat
  BY <1>1, ReplyFields
<1>3. CASE ReplyEvent(r)
  <2>1. PICK one : one = [dReplies[r] EXCEPT !.sent = dReplies[r].sent + 1]
    OBVIOUS
  <2>2. /\ one \in Replies /\ one.heard = dReplies[r].heard /\ one.sent = dReplies[r].sent + 1
        /\ one.state = dReplies[r].state /\ one.cutAfter = dReplies[r].cutAfter
    BY <1>2, <2>1 DEF Replies
  <2>3. PICK entry : entry = Item("event", r)
    OBVIOUS
  <2>4. entry \in QueueEntries /\ EventOf(entry, r)
    BY <1>1, <2>3 DEF Item, QueueEntries, EventOf
  <2>5. /\ dReplies[r].state # "over" /\ dReplies' = [dReplies EXCEPT ![r] = one]
        /\ dQueue' = Append(dQueue, entry)
        /\ UNCHANGED <<dConsumer, dPending, dBargeMs, dInSpeech, dReader, dInputDone, dSpoke,
                       dWaited, dOverlap, dLeft>>
    BY <1>3, <2>1, <2>3 DEF ReplyEvent
  <2> QED
    BY <2>2, <2>4, <2>5, ReplyPuts
<1>4. CASE ReplyOver(r)
  <2>1. PICK one : one = [dReplies[r] EXCEPT !.state = "over"]
    OBVIOUS
  <2>2. /\ one \in Replies /\ one.heard = dReplies[r].heard /\ one.sent = dReplies[r].sent
        /\ one.state = "over" /\ one.cutAfter = dReplies[r].cutAfter
    BY <1>2, <2>1 DEF Replies
  <2>3. PICK entry : entry = Item("resp_done", r)
    OBVIOUS
  <2>4. entry \in QueueEntries /\ EndOf(entry, r)
    BY <1>1, <2>3 DEF Item, QueueEntries, EndOf
  <2>5. /\ dReplies[r].state # "over" /\ dReplies' = [dReplies EXCEPT ![r] = one]
        /\ dQueue' = Append(dQueue, entry)
        /\ UNCHANGED <<dConsumer, dPending, dBargeMs, dInSpeech, dReader, dInputDone, dSpoke,
                       dWaited, dOverlap, dLeft>>
    BY <1>4, <2>1, <2>3 DEF ReplyOver
  <2> QED
    BY <2>2, <2>4, <2>5, ReplyPuts
<1> QED
  BY <1>3, <1>4, ReplyTurns

\* What is left to show of a step that takes an entry.
LEMMA TakeKeeps ==
    ASSUME DuplexInv, dConsumer = "waiting", dQueue # <<>>, dQueue' = Tail(dQueue),
           UNCHANGED <<dPending, dBargeMs, dInSpeech, dSpoke, dOverlap, dLeft>>,
           dConsumer' \in {"sending", "waiting", "ended"},
           dReader' = IF dConsumer' = "ended" /\ dReader = "reading" THEN "cancelled" ELSE dReader,
           dReplies' \in Seq(Replies), Len(dReplies') = Len(dReplies),
           \A i \in 1 .. Len(dReplies) :
              /\ dReplies'[i].sent = dReplies[i].sent
              /\ dReplies'[i].heard = IF EventOf(Head(dQueue), i) THEN dReplies[i].heard + 1
                                      ELSE dReplies[i].heard
              /\ dReplies'[i].state = dReplies[i].state
              /\ dReplies'[i].cutAfter = dReplies[i].cutAfter,
           dInputDone' = (dInputDone \/ Head(dQueue).kind = "done"),
           dWaited' \in BOOLEAN,
           dConsumer' = "ended" => ~Responding,
           (dConsumer' = "ended" /\ dWaited') =>
               dInputDone /\ Head(dQueue).kind = "resp_done" /\ dReplies' = dReplies
    PROVE  DuplexInv'
<1>1. /\ DuplexTypeOK /\ Channel(dQueue, dReplies)
      /\ dQueue \in Seq(QueueEntries) /\ dReplies \in Seq(Replies) /\ Len(dReplies) \in Nat
      /\ \A i \in 1 .. Len(dReplies) : dReplies[i].cutAfter >= BargeNeed
      /\ dPending => dInSpeech /\ dBargeMs <= dSpoke
      /\ dInputDone \/ DoneQueued => dReader = "closed"
      /\ ~dOverlap => Alone(dQueue, dReplies, dInputDone)
  BY DEF DuplexInv, DuplexTypeOK
<1>2. /\ Tail(dQueue) \in Seq(QueueEntries) /\ Channel(Tail(dQueue), dReplies')
      /\ Head(dQueue).kind = "resp_done" =>
            /\ Head(dQueue).reply \in 1 .. Len(dReplies)
            /\ dReplies[Head(dQueue).reply].heard = dReplies[Head(dQueue).reply].sent
  BY <1>1, ChannelTake
<1>3. ~dOverlap => Alone(Tail(dQueue), dReplies', dInputDone')
  <2> SUFFICES ASSUME ~dOverlap
               PROVE  Alone(Tail(dQueue), dReplies', dInputDone')
    OBVIOUS
  <2>1. Alone(Tail(dQueue), dReplies, dInputDone')
    BY <1>1, AloneTake
  <2>2. \A i \in 1 .. Len(dReplies) : dReplies[i].state = "over" => dReplies'[i].state = "over"
    OBVIOUS
  <2> QED
    BY <2>1, <2>2, AloneState
<1>4. /\ Len(dQueue') = Len(dQueue) - 1 /\ Head(dQueue) = dQueue[1]
      /\ Len(dQueue) \in Nat /\ Len(dQueue) >= 1
      /\ \A p \in 1 .. Len(dQueue) - 1 : p + 1 \in 1 .. Len(dQueue) /\ dQueue'[p] = dQueue[p + 1]
  BY <1>1, Shortened
<1>5. DoneQueued' => DoneQueued
  BY <1>4 DEF DoneQueued
<1>6. Head(dQueue).kind = "done" => DoneQueued
  <2>1. 1 \in 1 .. Len(dQueue)
    BY <1>4
  <2> QED
    BY <1>4, <2>1 DEF DoneQueued
<1>7. dInputDone' \/ DoneQueued' => dReader' = "closed"
  BY <1>1, <1>5, <1>6
<1>8. DuplexTypeOK'
  <2>1. dInputDone' \in BOOLEAN
    BY <1>1 DEF DuplexTypeOK
  <2>2. dReader' \in {"idle", "reading", "closed", "failed", "cancelled"}
    BY <1>1 DEF DuplexTypeOK
  <2> QED
    BY <1>1, <1>2, <2>1, <2>2 DEF DuplexTypeOK
<1>9. Responding' => Responding
  <2>1. Current' = Current
    BY DEF Current
  <2>2. Current > 0 => dReplies'[Current].state = dReplies[Current].state
    BY <1>1 DEF Current
  <2> QED
    BY <2>1, <2>2 DEF Responding
<1>10. dConsumer' = "ended" /\ dWaited' /\ ~dLeft /\ ~dOverlap =>
          Current' > 0 /\ dReplies'[Current'].heard = dReplies'[Current'].sent
  <2> SUFFICES ASSUME dConsumer' = "ended", dWaited', ~dOverlap
               PROVE  Current' > 0 /\ dReplies'[Current'].heard = dReplies'[Current'].sent
    OBVIOUS
  <2>1. dInputDone /\ Head(dQueue).kind = "resp_done" /\ dReplies' = dReplies
    OBVIOUS
  <2>2. Head(dQueue).reply = Len(dReplies)
    <3>1. 1 \in 1 .. Len(dQueue)
      BY <1>4
    <3> QED
      BY <1>1, <1>4, <2>1, <3>1 DEF Alone
  <2> QED
    BY <1>1, <1>2, <2>1, <2>2 DEF Current
<1>11. \A i \in 1 .. Len(dReplies') : dReplies'[i].cutAfter >= BargeNeed
  BY <1>1
<1> QED
  BY <1>1, <1>2, <1>3, <1>7, <1>8, <1>9, <1>10, <1>11 DEF DuplexInv

LEMMA GetKeeps ==
    ASSUME DuplexInv, ConsumerGet
    PROVE  DuplexInv'
<1>1. /\ dConsumer = "waiting" /\ dQueue # <<>> /\ dQueue' = Tail(dQueue)
      /\ UNCHANGED <<dPending, dBargeMs, dInSpeech, dSpoke, dOverlap, dLeft>>
  BY DEF ConsumerGet
<1>2. /\ dQueue \in Seq(QueueEntries) /\ dReplies \in Seq(Replies) /\ Len(dReplies) \in Nat
      /\ Channel(dQueue, dReplies) /\ dInputDone \in BOOLEAN /\ dWaited \in BOOLEAN
  BY DEF DuplexInv, DuplexTypeOK
<1>3. PICK first : first = Head(dQueue)
  OBVIOUS
<1>4. CASE ConsumerTakeDone
  <2>1. /\ first.kind = "done" /\ dInputDone' = TRUE /\ dWaited' = Responding
        /\ dReplies' = dReplies /\ dConsumer' \in {"waiting", "ended"}
        /\ dConsumer' = "ended" => ~Responding
        /\ dReader' = IF dConsumer' = "ended" /\ dReader = "reading" THEN "cancelled" ELSE dReader
    BY <1>1, <1>3, <1>4 DEF ConsumerTakeDone, CloseCall
  <2>2. \A i \in 1 .. Len(dReplies) : ~EventOf(first, i)
    BY <2>1 DEF EventOf
  <2>3. dWaited' \in BOOLEAN /\ ~(dConsumer' = "ended" /\ dWaited')
    BY <2>1 DEF Responding
  <2> QED
    BY <1>1, <1>2, <1>3, <2>1, <2>2, <2>3, TakeKeeps
<1>5. CASE ConsumerTakeRespDone
  <2>1. /\ first.kind = "resp_done" /\ dInputDone' = dInputDone /\ dWaited' = dWaited
        /\ dReplies' = dReplies /\ dConsumer' \in {"waiting", "ended"}
        /\ dConsumer' = "ended" => ~Responding /\ dInputDone
        /\ dReader' = IF dConsumer' = "ended" /\ dReader = "reading" THEN "cancelled" ELSE dReader
    BY <1>1, <1>3, <1>5 DEF ConsumerTakeRespDone, CloseCall
  <2>2. \A i \in 1 .. Len(dReplies) : ~EventOf(first, i)
    BY <2>1 DEF EventOf
  <2> QED
    BY <1>1, <1>2, <1>3, <2>1, <2>2, TakeKeeps
<1>6. CASE ConsumerTakeEvent
  <2>1. /\ first.kind \in {"event", "barge_in", "speech_start"}
        /\ dConsumer' = "sending"
        /\ UNCHANGED <<dReader, dInputDone, dWaited>>
        /\ dReplies' = IF first.kind = "event"
                       THEN [dReplies EXCEPT ![first.reply].heard = @ + 1] ELSE dReplies
    BY <1>3, <1>6 DEF ConsumerTakeEvent
  <2>2. CASE first.kind # "event"
    <3>1. \A i \in 1 .. Len(dReplies) : ~EventOf(first, i)
      BY <2>2 DEF EventOf
    <3> QED
      BY <1>1, <1>2, <1>3, <2>1, <2>2, <3>1, TakeKeeps
  <2>3. CASE first.kind = "event"
    <3>1. PICK r : r = first.reply
      OBVIOUS
    <3>2. r \in 1 .. Len(dReplies)
      <4>1. Len(dQueue) >= 1 /\ first = dQueue[1] /\ Len(dQueue) \in Nat
        BY <1>1, <1>2, <1>3, Shortened
      <4>2. 1 \in 1 .. Len(dQueue)
        BY <4>1
      <4> QED
        BY <1>2, <2>3, <3>1, <4>1, <4>2 DEF Channel
    <3>3. PICK one : one = [dReplies[r] EXCEPT !.heard = dReplies[r].heard + 1]
      OBVIOUS
    <3>4. dReplies[r] \in Replies /\ dReplies[r].heard \in Nat
      BY <1>2, <3>2, ReplyFields
    <3>5. /\ one \in Replies /\ one.heard = dReplies[r].heard + 1 /\ one.sent = dReplies[r].sent
          /\ one.state = dReplies[r].state /\ one.cutAfter = dReplies[r].cutAfter
      BY <3>3, <3>4 DEF Replies
    <3>6. dReplies' = [dReplies EXCEPT ![r] = one]
      BY <2>1, <2>3, <3>1, <3>3
    <3>7. /\ dReplies' \in Seq(Replies) /\ Len(dReplies') = Len(dReplies)
          /\ dReplies'[r] = one
          /\ \A i \in 1 .. Len(dReplies) : i # r => dReplies'[i] = dReplies[i]
      BY <1>2, <3>2, <3>5, <3>6
    <3>8. \A i \in 1 .. Len(dReplies) :
              /\ dReplies'[i].sent = dReplies[i].sent
              /\ dReplies'[i].heard = IF EventOf(first, i) THEN dReplies[i].heard + 1
                                      ELSE dReplies[i].heard
              /\ dReplies'[i].state = dReplies[i].state
              /\ dReplies'[i].cutAfter = dReplies[i].cutAfter
      BY <2>3, <3>1, <3>5, <3>7 DEF EventOf
    <3> QED
      BY <1>1, <1>2, <1>3, <2>1, <2>3, <3>7, <3>8, TakeKeeps
  <2> QED
    BY <2>2, <2>3
<1> QED
  BY <1>4, <1>5, <1>6 DEF ConsumerGet

LEMMA ResumeKeeps ==
    ASSUME DuplexInv, ConsumerResume
    PROVE  DuplexInv'
<1>1. /\ dConsumer \in {"opening", "sending"} /\ dConsumer' = "waiting"
      /\ UNCHANGED <<dQueue, dReplies, dPending, dBargeMs, dInSpeech, dReader, dInputDone,
                     dSpoke, dWaited, dOverlap, dLeft>>
  BY DEF ConsumerResume
<1>2. DuplexTypeOK'
  BY <1>1 DEF DuplexInv, DuplexTypeOK
<1> QED
  BY <1>1, <1>2 DEF DuplexInv, DoneQueued

LEMMA LeaveKeeps ==
    ASSUME DuplexInv, ConsumerLeave
    PROVE  DuplexInv'
<1>1. /\ dConsumer' = "ended" /\ dLeft' = TRUE
      /\ \/ dReplies' = dReplies
         \/ Responding /\ dReplies' = [dReplies EXCEPT ![Current].state = "cancelling"]
      /\ dReader' = dReader \/ (dReader = "reading" /\ dReader' = "cancelled")
      /\ UNCHANGED <<dQueue, dPending, dBargeMs, dInSpeech, dInputDone, dSpoke, dWaited,
                     dOverlap>>
  BY DEF ConsumerLeave, CloseCall
<1>2. /\ DuplexTypeOK /\ Channel(dQueue, dReplies)
      /\ dReplies \in Seq(Replies) /\ Len(dReplies) \in Nat
      /\ \A i \in 1 .. Len(dReplies) : dReplies[i].cutAfter >= BargeNeed
      /\ dPending => dInSpeech /\ dBargeMs <= dSpoke
      /\ dInputDone \/ DoneQueued => dReader = "closed"
      /\ ~dOverlap => Alone(dQueue, dReplies, dInputDone)
  BY DEF DuplexInv, DuplexTypeOK
<1>3. /\ dReplies' \in Seq(Replies) /\ Len(dReplies') = Len(dReplies)
      /\ \A i \in 1 .. Len(dReplies) :
            /\ dReplies'[i].heard = dReplies[i].heard /\ dReplies'[i].sent = dReplies[i].sent
            /\ dReplies'[i].cutAfter = dReplies[i].cutAfter
            /\ dReplies[i].state = "over" => dReplies'[i].state = "over"
  <2>1. CASE Responding /\ dReplies' = [dReplies EXCEPT ![Current].state = "cancelling"]
    <3>1. PICK r : r = Current
      OBVIOUS
    <3>2. r \in 1 .. Len(dReplies) /\ dReplies[r].state # "over"
      BY <1>2, <2>1, <3>1 DEF Responding, Current
    <3>3. PICK one : one = [dReplies[r] EXCEPT !.state = "cancelling"]
      OBVIOUS
    <3>4. /\ one \in Replies /\ one.heard = dReplies[r].heard /\ one.sent = dReplies[r].sent
          /\ one.cutAfter = dReplies[r].cutAfter
      BY <1>2, <3>2, <3>3, ReplyFields DEF Replies
    <3>5. dReplies' = [dReplies EXCEPT ![r] = one]
      BY <2>1, <3>1, <3>3
    <3>6. /\ dReplies' \in Seq(Replies) /\ Len(dReplies') = Len(dReplies)
          /\ dReplies'[r] = one
          /\ \A i \in 1 .. Len(dReplies) : i # r => dReplies'[i] = dReplies[i]
      BY <1>2, <3>2, <3>4, <3>5
    <3> QED
      BY <3>2, <3>4, <3>6
  <2>2. CASE dReplies' = dReplies
    BY <1>2, <2>2
  <2> QED
    BY <1>1, <2>1, <2>2
<1>4. Channel(dQueue', dReplies') /\ (~dOverlap => Alone(dQueue', dReplies', dInputDone'))
  <2>1. Channel(dQueue, dReplies')
    BY <1>2, <1>3, ChannelState
  <2>2. ~dOverlap => Alone(dQueue, dReplies', dInputDone)
    BY <1>2, <1>3, AloneState
  <2> QED
    BY <1>1, <2>1, <2>2
<1>5. DuplexTypeOK'
  BY <1>1, <1>2, <1>3 DEF DuplexTypeOK
<1>6. dInputDone' \/ DoneQueued' => dReader' = "closed"
  BY <1>1, <1>2 DEF DoneQueued
<1>7. \A i \in 1 .. Len(dReplies') : dReplies'[i].cutAfter >= BargeNeed
  BY <1>2, <1>3
<1> QED
  BY <1>1, <1>2, <1>4, <1>5, <1>6, <1>7 DEF DuplexInv

LEMMA ConnectKeeps ==
    ASSUME DuplexInv, DuplexConnect
    PROVE  DuplexInv'
<1>1. /\ dConsumer = "idle" /\ dConsumer' = "opening" /\ dReader' = "reading"
      /\ dReplies' = <<[NewReply EXCEPT !.began = TRUE]>> \/ dReplies' = <<>>
      /\ UNCHANGED <<dQueue, dPending, dBargeMs, dInSpeech, dInputDone, dSpoke, dWaited,
                     dOverlap, dLeft>>
  BY DEF DuplexConnect
<1>2. /\ DuplexTypeOK /\ dReader = "idle" /\ dQueue = <<>> /\ dReplies = <<>>
      /\ Channel(dQueue, dReplies) /\ ~dInputDone /\ ~DoneQueued /\ dInputDone = FALSE
      /\ dQueue \in Seq(QueueEntries) /\ dReplies \in Seq(Replies)
      /\ dPending => dInSpeech /\ dBargeMs <= dSpoke
      /\ ~dOverlap => Alone(dQueue, dReplies, FALSE)
  BY <1>1 DEF DuplexInv, DuplexTypeOK
<1>3. Len(dReplies) = 0 /\ Len(dQueue) = 0
  BY <1>2, EmptySeq
<1>4. Append(dReplies, NewReply) = <<NewReply>>
  BY <1>2
<1>5. /\ dReplies' \in Seq(Replies) /\ Channel(dQueue, dReplies')
      /\ \A i \in 1 .. Len(dReplies') : dReplies'[i].cutAfter >= BargeNeed
      /\ ~dOverlap => Alone(dQueue, dReplies', FALSE)
  <2>1. CASE dReplies' = <<[NewReply EXCEPT !.began = TRUE]>>
    <3>1. Channel(dQueue, Append(dReplies, NewReply))
      BY <1>2, ChannelNew
    <3>2. Alone(dQueue, Append(dReplies, NewReply), FALSE)
      <4>1. \A i \in 1 .. Len(dReplies) : dReplies[i].state = "over"
        BY <1>3
      <4>2. \A p \in 1 .. Len(dQueue) : dQueue[p].kind # "done"
        BY <1>3
      <4> QED
        BY <1>2, <4>1, <4>2, AloneNew
    <3>3. PICK one : one = [NewReply EXCEPT !.began = TRUE]
      OBVIOUS
    <3>4. /\ one \in Replies /\ one.heard = NewReply.heard /\ one.sent = NewReply.sent
          /\ one.state = NewReply.state /\ one.cutAfter >= BargeNeed
      BY <3>3, NewIsReply, DuplexAssumption DEF NewReply
    <3>5. PICK first : first = <<NewReply>>
      OBVIOUS
    <3>6. /\ dReplies' = <<one>> /\ dReplies' \in Seq(Replies) /\ Len(dReplies') = 1
          /\ Len(first) = 1 /\ first[1] = NewReply /\ dReplies'[1] = one
      BY <2>1, <3>3, <3>4, <3>5
    <3>7. /\ Len(dReplies') = Len(first)
          /\ \A i \in 1 .. Len(first) :
                /\ dReplies'[i].heard = first[i].heard /\ dReplies'[i].sent = first[i].sent
                /\ first[i].state = "over" => dReplies'[i].state = "over"
      BY <3>4, <3>6
    <3>8. Channel(dQueue, dReplies') /\ Alone(dQueue, dReplies', FALSE)
      BY <1>4, <3>1, <3>2, <3>5, <3>7, ChannelState, AloneState
    <3>9. \A i \in 1 .. Len(dReplies') : dReplies'[i].cutAfter >= BargeNeed
      <4>1. one.cutAfter >= BargeNeed /\ Len(dReplies') = 1 /\ dReplies'[1] = one
        BY <3>4, <3>6
      <4> QED
        BY <4>1
    <3> QED
      BY <3>6, <3>8, <3>9
  <2>2. CASE dReplies' = <<>>
    <3>1. dReplies' = dReplies
      BY <1>2, <2>2
    <3>2. \A i \in 1 .. Len(dReplies) : dReplies[i].cutAfter >= BargeNeed
      BY <1>3
    <3> QED
      BY <1>2, <3>1, <3>2
  <2> QED
    BY <1>1, <2>1, <2>2
<1>6. DuplexTypeOK'
  BY <1>1, <1>2, <1>5 DEF DuplexTypeOK
<1>7. ~DoneQueued'
  BY <1>1, <1>2 DEF DoneQueued
<1> QED
  BY <1>1, <1>2, <1>5, <1>6, <1>7 DEF DuplexInv

LEMMA DuplexKeeps == DuplexInv /\ [DuplexNext]_duplexVars => DuplexInv'
<1> SUFFICES ASSUME DuplexInv, [DuplexNext]_duplexVars
             PROVE  DuplexInv'
  OBVIOUS
<1>1. CASE DuplexNext
  BY <1>1, ConnectKeeps, SpeechStartKeeps, SpeechEndKeeps, OtherKeeps, ReadCloseKeeps,
     ReadFailKeeps, RepliesKeep, ResumeKeeps, GetKeeps, LeaveKeeps DEF DuplexNext
<1>2. CASE UNCHANGED duplexVars
  <2>1. DuplexTypeOK' /\ (DoneQueued' => DoneQueued) /\ (Responding' => Responding)
    BY <1>2 DEF duplexVars, DuplexInv, DuplexTypeOK, DoneQueued, Responding, Current
  <2> QED
    BY <1>2, <2>1 DEF duplexVars, DuplexInv, Current
<1> QED
  BY <1>1, <1>2

(***************************************************************************)
(* Only speech that has itself lasted long enough cuts a reply, and the    *)
(* end of the audio does not: the generator ends after the last of the     *)
(* reply's events.  For any number of frames, replies and events.          *)
(* (cascaded.py:625-686, 698-710, _maybe_fire_barge_in)                    *)
(***************************************************************************)
THEOREM SpeechCuts == DuplexSpec => []OnlySpeechCutsReply
<1>1. DuplexInv => OnlySpeechCutsReply
  <2>1. DuplexInv => DOMAIN dReplies = 1 .. Len(dReplies)
    BY DEF DuplexInv, DuplexTypeOK
  <2> QED
    BY <2>1 DEF DuplexInv, OnlySpeechCutsReply
<1> QED
  BY <1>1, DuplexStarts, DuplexKeeps, PTL DEF DuplexSpec

-----------------------------------------------------------------------------
(***************************************************************************)
(* VoiceSetup.  The roles of an agent that was configured, and what the    *)
(* stages say of it: an agent written plainly of which no error was found  *)
(* is neither lost in the log nor by an adapter.                           *)
(***************************************************************************)
Roles == {"stt", "tts", "vad", "lid"}

\* A role that is absent or mocked names no server; others name one or none.
AgentRoles(setup) ==
    /\ DOMAIN setup.roles = Roles
    /\ \A role \in Roles :
          setup.roles[role].provider = "absent" => setup.roles[role].ref = NoRef

StageInv ==
    /\ vStage \in {"idle", "configured", "checked", "built", "refused", "failed", "crashed"}
    /\ vStage \in {"idle", "configured", "checked"} => ~vTeam
    /\ vStage # "idle" => AgentRoles(vSetup)
    /\ vStage = "checked" /\ vStrict => Errors(vSetup) = {}

SetupInv == StageInv /\ ValidMeansItStarts

\* The references that Nexus servers are looked up by were validated.
LEMMA NoErrorsFindsServers ==
    ASSUME NEW setup, AgentRoles(setup), Plain(setup), Errors(setup) = {},
           NEW role \in Checked
    PROVE  /\ setup.roles[role].ref # NoRef => ServerOf(setup, role)
           /\ Adapts(setup.roles[role], setup.servers)
<1> DEFINE e == setup.roles[role]
<1>1. RefIssues(setup, role) = {}
  BY DEF Errors
<1>2. e.provider = "nexus_server" => e.ref # NoRef /\ e.ref \in setup.servers
  <2>1. e.provider = "nexus_server" /\ e.ref = NoRef =>
           <<role, "missing_ref">> \in RefIssues(setup, role)
    BY DEF RefIssues
  <2>2. e.provider = "nexus_server" /\ e.ref # NoRef /\ e.ref \notin setup.servers =>
           <<role, "unknown_ref">> \in RefIssues(setup, role)
    BY DEF RefIssues
  <2> QED
    BY <1>1, <2>1, <2>2
<1>3. e.provider \in {"absent", "mock", "nexus_server"}
      /\ (e.provider \in {"absent", "mock"} => e.ref = NoRef)
  BY DEF Plain, AgentRoles, Roles, Checked
<1> QED
  BY <1>2, <1>3 DEF ServerOf, Adapts, GrpcAdapter, HasTarget, Resolves

LEMMA LogHolds ==
    ASSUME NEW setup, AgentRoles(setup), Plain(setup)
    PROVE  ~LogFails(setup)
BY NoErrorsFindsServers DEF LogFails

LEMMA SetupStep ==
    ASSUME SetupInv, [SetupNext]_setupVars
    PROVE  SetupInv'
<1>1. CASE Configure
  <2>1. PICK stt \in Entries(MediaProviders), tts \in Entries(MediaProviders),
             vad \in Entries(SideProviders), lid \in Entries(SideProviders) \cup {NoEntry},
             talk \in Talks, servers \in {{}, {CHOOSE s \in ServerNames : TRUE}} :
           vSetup' = [roles |-> [stt |-> stt, tts |-> tts, vad |-> vad, lid |-> lid],
                      talk |-> talk, servers |-> servers]
    BY <1>1 DEF Configure
  <2>2. \A e \in Entries(MediaProviders) \cup Entries(SideProviders) : e.provider # "absent"
    BY VoiceSetupAssumption DEF Entries
  <2>3. NoEntry.ref = NoRef
    BY DEF NoEntry
  <2>4. AgentRoles(vSetup')
    BY <2>1, <2>2, <2>3 DEF AgentRoles, Roles
  <2> QED
    BY <1>1, <2>4 DEF Configure, SetupInv, StageInv, ValidMeansItStarts
<1>2. CASE Check
  <2>1. vStage = "configured" /\ ~vTeam /\ vSetup' = vSetup /\ vTeam' = vTeam
        /\ AgentRoles(vSetup)
    BY <1>2 DEF Check, SetupInv, StageInv
  <2>2. /\ LogFails(vSetup) => vStage' = "crashed"
        /\ ~LogFails(vSetup) /\ vStrict' /\ Errors(vSetup) # {} => vStage' = "refused"
        /\ ~LogFails(vSetup) /\ ~(vStrict' /\ Errors(vSetup) # {}) => vStage' = "checked"
    BY <1>2 DEF Check
  <2>3. Plain(vSetup) => ~LogFails(vSetup)
    BY <2>1, LogHolds
  <2>4. ValidMeansItStarts'
    BY <2>1, <2>2, <2>3 DEF ValidMeansItStarts
  <2>5. StageInv'
    BY <2>1, <2>2 DEF StageInv
  <2> QED
    BY <2>4, <2>5 DEF SetupInv
<1>3. CASE BuildPipeline
  <2>1. vStage = "checked" /\ ~vTeam /\ vSetup' = vSetup /\ vTeam' = vTeam
        /\ vStrict' = vStrict /\ AgentRoles(vSetup) /\ (vStrict => Errors(vSetup) = {})
    BY <1>3 DEF BuildPipeline, Adapters, SetupInv, StageInv
  <2>2. vStage' \in {"built", "failed"}
        /\ (vStage' = "failed" => \E role \in Roles :
                                     ~Adapts(vSetup.roles[role], vSetup.servers))
    BY <1>3, <2>1 DEF BuildPipeline, Adapters, AgentRoles
  <2>3. Plain(vSetup) /\ Errors(vSetup) = {} => vStage' = "built"
    <3>1. Plain(vSetup) => Adapts(vSetup.roles["vad"], vSetup.servers)
      BY DEF Plain
    <3> QED
      BY <2>1, <2>2, <3>1, NoErrorsFindsServers DEF Roles, Checked
  <2>4. ValidMeansItStarts'
    BY <2>1, <2>2, <2>3 DEF ValidMeansItStarts
  <2>5. StageInv'
    BY <2>1, <2>2 DEF StageInv
  <2> QED
    BY <2>4, <2>5 DEF SetupInv
<1>4. CASE BuildVoiceTeam
  <2>1. vTeam' = TRUE /\ vStage' \in {"built", "failed"} /\ vSetup' = vSetup
        /\ vStage = "configured"
    BY <1>4 DEF BuildVoiceTeam, Adapters
  <2> QED
    BY <2>1 DEF SetupInv, StageInv, ValidMeansItStarts
<1>5. CASE UNCHANGED setupVars
  BY <1>5 DEF setupVars, SetupInv, StageInv, ValidMeansItStarts
<1> QED
  BY <1>1, <1>2, <1>3, <1>4, <1>5 DEF SetupNext

(***************************************************************************)
(* A voice agent written plainly and without an error of the validation    *)
(* gets its pipeline; with one, and in strict mode, it is refused before   *)
(* an adapter is built.  For all servers and providers.                    *)
(* (realtime/validation.py, realtime/runtime.py build_pipeline)            *)
(***************************************************************************)
THEOREM ValidSetupStarts == SetupSpec => []ValidMeansItStarts
<1>1. SetupInit => SetupInv
  BY DEF SetupInit, SetupInv, StageInv, ValidMeansItStarts
<1>2. SetupInv /\ [SetupNext]_setupVars => SetupInv'
  BY SetupStep
<1>3. SetupInv => ValidMeansItStarts
  BY DEF SetupInv
<1> QED
  BY <1>1, <1>2, <1>3, PTL DEF SetupSpec
=============================================================================
