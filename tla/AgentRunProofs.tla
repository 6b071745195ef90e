--------------------------- MODULE AgentRunProofs ---------------------------
(***************************************************************************)
(* Theorems about AgentRun, for every value of its constants.              *)
(***************************************************************************)
EXTENDS AgentRun, SequenceTheorems, FiniteSetTheorems, WellFoundedInduction, TLAPS

-----------------------------------------------------------------------------
(* Lemmas about the operators                                              *)

\* A set of naturals that is not empty has a least element.
LEMMA LeastNat ==
  ASSUME NEW T, T \subseteq Nat, T # {}
  PROVE  \E x \in T : \A y \in T : x <= y
<1>1. PICK x \in T : \A y \in T : <<y, x>> \notin OpToRel(<, Nat)
  BY WFMin, NatLessThanWellFounded
<1>2. ASSUME NEW y \in T PROVE x <= y
  <2>1. x \in Nat /\ y \in Nat
    OBVIOUS
  <2>2. ~ (y < x)
    BY <1>1, <2>1 DEF OpToRel
  <2> QED
    BY <2>1, <2>2
<1> QED
  BY <1>2

\* Filling in responses keeps the turns and changes nothing else in them.
LEMMA RespondKeeps ==
  ASSUME NEW turns \in Seq(Turn), NEW ids, NEW r \in Responses
  PROVE  /\ Respond(turns, ids, r) \in Seq(Turn)
         /\ Len(Respond(turns, ids, r)) = Len(turns)
         /\ \A i \in DOMAIN turns : Respond(turns, ids, r)[i].idx = turns[i].idx
<1> DEFINE Answered(c) == IF c.tc \in ids /\ c.resp = "" THEN [c EXCEPT !.resp = r] ELSE c
           NewCalls(i) == [j \in DOMAIN turns[i].calls |-> Answered(turns[i].calls[j])]
           R == [i \in DOMAIN turns |-> [turns[i] EXCEPT !.calls = NewCalls(i)]]
<1>1. Respond(turns, ids, r) = R
  BY DEF Respond
<1>2. ASSUME NEW c \in Call PROVE Answered(c) \in Call
  BY <1>2 DEF Call
<1>3. ASSUME NEW i \in DOMAIN turns PROVE turns[i] \in Turn
  BY <1>3, ElementOfSeq, LenProperties
<1>4. ASSUME NEW i \in DOMAIN turns PROVE NewCalls(i) \in Seq(Call)
  <2>1. turns[i].calls \in Seq(Call)
    BY <1>3 DEF Turn
  <2>2. \A j \in 1..Len(turns[i].calls) : Answered(turns[i].calls[j]) \in Call
    BY <2>1, <1>2, ElementOfSeq
  <2>3. DOMAIN turns[i].calls = 1..Len(turns[i].calls) /\ Len(turns[i].calls) \in Nat
    BY <2>1, LenProperties
  <2> HIDE DEF Answered
  <2> QED
    BY <2>2, <2>3, IsASeq
<1>5. ASSUME NEW i \in DOMAIN turns
      PROVE  /\ [turns[i] EXCEPT !.calls = NewCalls(i)] \in Turn
             /\ [turns[i] EXCEPT !.calls = NewCalls(i)].idx = turns[i].idx
  <2> HIDE DEF NewCalls
  <2> QED
    BY <1>3, <1>4 DEF Turn
<1>6. DOMAIN turns = 1..Len(turns) /\ Len(turns) \in Nat
  BY LenProperties
<1>7. R \in Seq(Turn) /\ Len(R) = Len(turns)
  <2> HIDE DEF NewCalls
  <2>1. R \in [1..Len(turns) -> Turn]
    BY <1>5, <1>6
  <2> HIDE DEF R
  <2> QED
    BY <1>6, <2>1
<1> HIDE DEF NewCalls
<1> QED
  BY <1>1, <1>5, <1>7

\* The calls a turn is given are calls to registered tools.
LEMMA RequestsType == \A calls \in Requests : calls \in Seq(ToolKinds)
<1> SUFFICES ASSUME NEW n \in 1..MaxAsked, NEW asked \in [1..n -> ToolKinds]
             PROVE  LimitToolCalls(asked) \in Seq(ToolKinds)
  BY DEF Requests
<1>1. asked \in Seq(ToolKinds) /\ Len(asked) = n
  BY ConfigAssumption
<1>2. CASE MaxCalls = 0 \/ Len(asked) <= MaxCalls
  BY <1>1, <1>2 DEF LimitToolCalls
<1>3. CASE ~ (MaxCalls = 0 \/ Len(asked) <= MaxCalls)
  <2>1. MaxCalls \in Nat /\ 1 <= MaxCalls /\ MaxCalls <= Len(asked)
    BY <1>1, <1>3, ConfigAssumption
  <2>2. SubSeq(asked, 1, MaxCalls) \in Seq(ToolKinds)
    BY <1>1, <2>1, SubSeqProperties
  <2> QED
    BY <1>3, <2>2 DEF LimitToolCalls
<1> QED
  BY <1>2, <1>3

\* The records a turn keeps are an initial part of those made.
LEMMA KeptRecordsType ==
  ASSUME TypeOK
  PROVE  KeptRecords \in Seq(Call)
<1>1. batch.recs \in Seq(Call) /\ DOMAIN batch.recs = 1..Len(batch.recs) /\ Len(batch.recs) \in Nat
  BY LenProperties DEF TypeOK
<1>2. CASE PausedAt = {}
  BY <1>1, <1>2 DEF KeptRecords
<1>3. CASE PausedAt # {}
  <2> DEFINE First == CHOOSE i \in PausedAt : \A j \in PausedAt : i <= j
  <2>1. PausedAt \subseteq 1..Len(batch.recs)
    BY <1>1 DEF PausedAt
  <2>2. \E i \in PausedAt : \A j \in PausedAt : i <= j
    <3>1. PausedAt \subseteq Nat
      BY <1>1, <2>1
    <3> QED
      BY <1>3, <3>1, LeastNat
  <2>3. First \in 1..Len(batch.recs)
    BY <2>1, <2>2
  <2>4. SubSeq(batch.recs, 1, First) \in Seq(Call)
    <3> HIDE DEF First
    <3>1. First \in Int
      BY <1>1, <2>3
    <3>2. ASSUME NEW i \in 1..First PROVE batch.recs[i] \in Call
      <4>1. i \in 1..Len(batch.recs)
        BY <1>1, <2>3
      <4> QED
        BY <1>1, <4>1, ElementOfSeq
    <3> QED
      BY <3>1, <3>2, SubSeqProperties
  <2> QED
    BY <1>3, <2>4 DEF KeptRecords
<1> QED
  BY <1>2, <1>3

\* The TurnRecord is well typed, and numbered by session_turn_index.
LEMMA NewTurnType ==
  ASSUME TypeOK
  PROVE  NewTurn \in Turn /\ NewTurn.idx = run.idx
<1>1. Len(batch.calls) \in Nat
  BY LenProperties DEF TypeOK
<1>2. run.idx \in Nat /\ run.msg \in Texts /\ NoMsg \in Texts
  BY DEF TypeOK, Run, Texts
<1> QED
  BY <1>1, <1>2, KeptRecordsType DEF NewTurn, Turn

\* Leaving the loop keeps the locals well typed.
LEMMA LeaveType ==
  ASSUME TypeOK, NEW st \in Status, NEW used \in Nat, Break(st, used) \/ Raise(st)
  PROVE  run' \in Run /\ pc' = "finish"
BY DEF TypeOK, Break, Raise, Run, Status

-----------------------------------------------------------------------------
(* Types                                                                   *)

\* The empty session, run, batch and outcome have their types.
LEMMA ConstantsType ==
  /\ EmptySession \in Session
  /\ NoRun \in Run
  /\ NoBatch \in [calls : Seq(ToolKinds), recs : Seq(Call)]
  /\ NoOutcome \in [status : Status \union {"none"}, used : Nat, added : Int,
                     par : BOOLEAN, pend : SUBSET Pending]
<1>1. <<>> \in Seq(Turn) /\ <<>> \in Seq(ToolKinds) /\ <<>> \in Seq(Call)
  BY EmptySeq
<1>2. EmptySession \in Session
  BY <1>1 DEF EmptySession, Session
<1>3. NoMsg \in Texts
  BY DEF Texts
<1>4. NoRun \in Run
  BY <1>3 DEF NoRun, Run, Status
<1>5. NoBatch \in [calls : Seq(ToolKinds), recs : Seq(Call)]
  BY <1>1 DEF NoBatch
<1> QED
  BY <1>2, <1>4, <1>5 DEF NoOutcome

\* A runner that was never used is well typed.
LEMMA InitType == Init => TypeOK
<1> SUFFICES ASSUME Init PROVE TypeOK
  OBVIOUS
<1>1. store \in Session /\ sess \in Session
  BY ConstantsType DEF Init
<1>2. run \in Run /\ batch \in [calls : Seq(ToolKinds), recs : Seq(Call)]
  BY ConstantsType DEF Init
<1> QED
  BY <1>1, <1>2, ConstantsType DEF Init, TypeOK

\* The client's steps.
LEMMA ClientType == TypeOK /\ Client => TypeOK'
<1> SUFFICES ASSUME TypeOK, Client PROVE TypeOK'
  OBVIOUS
<1> USE DEF TypeOK
<1>1. ASSUME NEW m \in Messages, NEW par \in ParallelModes, Submit(m, par) PROVE TypeOK'
  <2>1. par \in BOOLEAN /\ m \in Texts /\ NoMsg \in Texts
    BY ConfigAssumption DEF Texts
  <2>2. run' \in Run
    BY <1>1, <2>1 DEF Submit, NoRun, Run, Status
  <2>3. outcome' = NoOutcome /\ nRuns' \in Nat /\ pc' = "scheduled"
    BY <1>1 DEF Submit
  <2> QED
    BY <1>1, <2>2, <2>3 DEF Submit, NoOutcome
<1>2. ASSUME NEW answered \in SUBSET store.pend, NEW par \in ParallelModes,
             Resume(answered, par)
      PROVE  TypeOK'
  <2>1. par \in BOOLEAN /\ NoMsg \in Texts
    BY ConfigAssumption DEF Texts
  <2>2. run' \in Run
    BY <1>2, <2>1 DEF Resume, NoRun, Run, Status
  <2>3. Respond(store.turns, TcsOf(answered), "answer") \in Seq(Turn)
    BY RespondKeeps DEF Session, Responses
  <2>4. store' \in Session
    BY <1>2, <2>3 DEF Resume, Session
  <2>5. outcome' = NoOutcome /\ nRuns' \in Nat /\ pc' = "scheduled"
    BY <1>2 DEF Resume
  <2> QED
    BY <1>2, <2>2, <2>4, <2>5 DEF Resume, NoOutcome
<1>3. ASSUME Cancel PROVE TypeOK'
  BY <1>3 DEF Cancel
<1> QED
  BY <1>1, <1>2, <1>3 DEF Client

\* The first step of a run, and the model's replies.
LEMMA ReplyType == TypeOK /\ (Begin \/ StartTurn \/ Reply) => TypeOK'
<1> SUFFICES ASSUME TypeOK, Begin \/ StartTurn \/ Reply PROVE TypeOK'
  OBVIOUS
<1> USE DEF TypeOK
<1>1. CASE Begin
  <2>1. ClosePendingInteractions(store) \in Session
    <3>1. Respond(store.turns, TcsOf(store.pend), "superseded") \in Seq(Turn)
      BY RespondKeeps DEF Session, Responses
    <3> QED
      BY <3>1 DEF ClosePendingInteractions, Session
  <2>2. store' \in Session /\ sess' \in Session
    BY <1>1, <2>1 DEF Begin
  <2>3. Len(store.turns) \in Nat
    BY LenProperties DEF Session
  <2>4. run' \in Run
    BY <1>1, <2>3, ConfigAssumption DEF Begin, Run
  <2> QED
    BY <1>1, <2>2, <2>4 DEF Begin
<1>2. CASE StartTurn
  <2>1. run.status \in Status /\ run.used \in Nat
    BY DEF Run
  <2>2. run' \in Run /\ pc' \in {"finish", "llm"}
    BY <1>2, <2>1, LeaveType DEF StartTurn, Status
  <2> QED
    BY <1>2, <2>2 DEF StartTurn
<1>3. CASE CallFails
  <2>1. run' \in Run /\ pc' = "finish"
    BY <1>3, LeaveType DEF CallFails, Status
  <2> QED
    BY <1>3, <2>1 DEF CallFails
<1>4. CASE ReplyInvalid
  <2>1. run' \in Run /\ pc' \in {"finish", "loop"}
    <3>1. CASE run.retries > 0 /\ run' = [run EXCEPT !.retries = @ - 1, !.msg = RetryMessage]
                 /\ pc' = "loop"
      <4>1. run.retries - 1 \in Nat /\ RetryMessage \in Texts
        BY <3>1 DEF Run, Texts
      <4> QED
        BY <3>1, <4>1 DEF Run
    <3>2. CASE Raise("error")
      BY <3>2, LeaveType DEF Status
    <3> QED
      BY <1>4, <3>1, <3>2 DEF ReplyInvalid
  <2> QED
    BY <1>4, <2>1 DEF ReplyInvalid
<1>5. CASE ReplyText
  <2>1. run' \in Run
    BY <1>5, ConfigAssumption DEF ReplyText, Run
  <2> QED
    BY <1>5, <2>1 DEF ReplyText
<1>6. ASSUME NEW calls \in Requests, ReplyTools(calls) PROVE TypeOK'
  <2>1. calls \in Seq(ToolKinds) /\ Len(calls) \in Nat
    BY RequestsType, LenProperties
  <2>2. Todo \in Call
    BY DEF Todo, Call, Responses
  <2>3. [i \in 1..Len(calls) |-> Todo] \in Seq(Call)
    BY <2>1, <2>2
  <2>4. batch' \in [calls : Seq(ToolKinds), recs : Seq(Call)]
    BY <1>6, <2>1, <2>3 DEF ReplyTools
  <2> QED
    BY <1>6, <2>4 DEF ReplyTools
<1> QED
  BY <1>1, <1>2, <1>3, <1>4, <1>5, <1>6 DEF Reply

\* Putting a record in its place.
LEMMA SetRecordType ==
  ASSUME TypeOK, NEW i \in DOMAIN batch.recs, NEW c \in Call
  PROVE  [batch EXCEPT !.recs[i] = c] \in [calls : Seq(ToolKinds), recs : Seq(Call)]
<1>1. batch.recs \in Seq(Call) /\ DOMAIN batch.recs = 1..Len(batch.recs)
  BY LenProperties DEF TypeOK
<1>2. [batch.recs EXCEPT ![i] = c] \in Seq(Call)
  BY <1>1, ExceptSeq
<1> QED
  BY <1>2 DEF TypeOK

\* The tools.
LEMMA ToolsType == TypeOK /\ (HandleTool \/ CancelBetweenTools) => TypeOK'
<1> SUFFICES ASSUME TypeOK, HandleTool \/ CancelBetweenTools PROVE TypeOK'
  OBVIOUS
<1>0. sess.tcc \in Nat /\ sess.tcc + 1 \in Nat
  BY DEF TypeOK, Session
<1>1. ASSUME NEW i \in 1..MaxAsked, RunServerTool(i) PROVE TypeOK'
  <2>1. i \in DOMAIN batch.recs
    BY <1>1 DEF RunServerTool, MayHandle, Unhandled
  <2>2. [tc |-> sess.tcc + 1, resp |-> "result"] \in Call
    BY <1>0 DEF Call, Responses
  <2>3. batch' \in [calls : Seq(ToolKinds), recs : Seq(Call)]
    BY <1>1, <2>1, <2>2, SetRecordType DEF RunServerTool
  <2>4. sess' \in Session
    BY <1>0, <1>1 DEF RunServerTool, Session, TypeOK
  <2> QED
    BY <1>1, <2>3, <2>4 DEF RunServerTool, TypeOK
<1>2. ASSUME NEW i \in 1..MaxAsked, DeferToClient(i) PROVE TypeOK'
  <2>1. i \in DOMAIN batch.recs
    BY <1>2 DEF DeferToClient, MayHandle, Unhandled
  <2>2. [tc |-> sess.tcc + 1, resp |-> ""] \in Call
    BY <1>0 DEF Call, Responses
  <2>3. batch' \in [calls : Seq(ToolKinds), recs : Seq(Call)]
    BY <1>2, <2>1, <2>2, SetRecordType DEF DeferToClient
  <2> DEFINE p == [tc |-> sess.tcc + 1, kind |-> IF batch.calls[i] = "client"
                                                 THEN "client_tool" ELSE "elicitation"]
  <2>4. sess' \in Session
    <3>1. p \in Pending
      BY <1>0 DEF Pending
    <3>2. sess' = [sess EXCEPT !.tcc = sess.tcc + 1, !.pend = sess.pend \union {p}]
      BY <1>2 DEF DeferToClient
    <3> HIDE DEF p
    <3> QED
      BY <1>0, <3>1, <3>2 DEF Session, TypeOK
  <2>5. run' \in Run
    BY <1>2 DEF DeferToClient, Run, Status, TypeOK
  <2> QED
    BY <1>2, <2>3, <2>4, <2>5 DEF DeferToClient, TypeOK
<1>3. ASSUME NEW i \in 1..MaxAsked, RejectApproval(i) PROVE TypeOK'
  <2>1. sess' \in Session
    BY <1>0, <1>3 DEF RejectApproval, Session, TypeOK
  <2>2. run' \in Run /\ pc' = "finish"
    BY <1>3, LeaveType DEF RejectApproval, Status
  <2>3. batch' \in [calls : Seq(ToolKinds), recs : Seq(Call)]
    BY <1>3, ConstantsType DEF RejectApproval
  <2> QED
    BY <1>3, <2>1, <2>2, <2>3 DEF RejectApproval, TypeOK
<1>4. CASE CancelBetweenTools
  <2>1. run' \in Run /\ pc' = "finish"
    BY <1>4, LeaveType DEF CancelBetweenTools, Status
  <2>2. batch' \in [calls : Seq(ToolKinds), recs : Seq(Call)]
    BY <1>4, ConstantsType DEF CancelBetweenTools
  <2> QED
    BY <1>4, <2>1, <2>2 DEF CancelBetweenTools, TypeOK
<1> QED
  BY <1>1, <1>2, <1>3, <1>4 DEF HandleTool

\* Persisting a turn.
LEMMA PersistType == TypeOK /\ (SaveState \/ AppendTurn) => TypeOK'
<1> SUFFICES ASSUME TypeOK, SaveState \/ AppendTurn PROVE TypeOK'
  OBVIOUS
<1>1. CASE SaveState
  BY <1>1 DEF SaveState, TypeOK
<1>2. CASE AppendTurn
  <2>1. Append(store.turns, NewTurn) \in Seq(Turn)
    BY NewTurnType, AppendProperties DEF TypeOK, Session
  <2>2. store' \in Session /\ sess' \in Session
    BY <1>2, <2>1 DEF AppendTurn, TypeOK, Session
  <2>3. run.used \in Nat /\ "paused" \in Status
    BY DEF TypeOK, Run, Status
  <2>4. run' \in Run /\ pc' \in {"finish", "turnend"}
    BY <1>2, <2>3, LeaveType DEF AppendTurn, TypeOK
  <2> QED
    BY <1>2, <2>2, <2>4 DEF AppendTurn, TypeOK
<1> QED
  BY <1>1, <1>2

\* The end of a turn.
LEMMA TurnEndType == TypeOK /\ TurnEnd => TypeOK'
<1> SUFFICES ASSUME TypeOK, TurnEnd PROVE TypeOK'
  OBVIOUS
<1>0. /\ run \in Run /\ run.used \in Nat /\ run.used + 1 \in Nat /\ run.idx + 1 \in Nat
      /\ run.status \in Status
      /\ {"paused", "error", "interrupted", "max_turns_reached"} \subseteq Status
  BY DEF TypeOK, Run, Status
<1>1. CASE HookStop
  <2>1. run' \in Run /\ pc' = "finish"
    BY <1>0, <1>1, LeaveType DEF HookStop
  <2> QED
    BY <1>1, <2>1, ConstantsType DEF HookStop, TypeOK
<1>2. ASSUME NEW m \in Injections, HookInject(m) PROVE TypeOK'
  <2>1. run' \in Run
    BY <1>0, <1>2 DEF HookInject, Run, Texts
  <2> QED
    BY <1>2, <2>1, ConstantsType DEF HookInject, TypeOK
<1>3. CASE PauseForHuman
  <2>1. run' \in Run /\ pc' = "finish"
    BY <1>0, <1>3, LeaveType DEF PauseForHuman
  <2>2. [tc |-> HITL, kind |-> "elicitation"] \in Pending
    BY DEF Pending, HITL
  <2>3. sess' \in Session
    BY <1>3, <2>2 DEF PauseForHuman, TypeOK, Session
  <2> QED
    BY <1>3, <2>1, <2>3, ConstantsType DEF PauseForHuman, TypeOK
<1>4. CASE EndTurn
  <2>1. run' \in Run /\ pc' \in {"finish", "loop"}
    <3>1. CASE Raise("error")
      BY <1>0, <3>1, LeaveType
    <3>2. CASE ~Raise("error")
      BY <1>0, <1>4, <3>2 DEF EndTurn, Run
    <3> QED
      BY <3>1, <3>2
  <2> QED
    BY <1>4, <2>1, ConstantsType DEF EndTurn, TypeOK
<1> QED
  BY <1>1, <1>2, <1>3, <1>4 DEF TurnEnd

\* The end of a run.
LEMMA RunEndType == TypeOK /\ (Finish \/ Crash) => TypeOK'
<1> SUFFICES ASSUME TypeOK, Finish \/ Crash PROVE TypeOK'
  OBVIOUS
<1>1. CASE Finish
  <2>1. run.base \in Nat /\ Len(sess.turns) \in Nat
    BY LenProperties DEF TypeOK, Run, Session
  <2>2. outcome' \in [status : Status \union {"none"}, used : Nat, added : Int,
                      par : BOOLEAN, pend : SUBSET Pending]
    BY <1>1, <2>1 DEF Finish, TypeOK, Run, Session
  <2> QED
    BY <1>1, <2>2, ConstantsType DEF Finish, TypeOK
<1>2. CASE Crash
  BY <1>2, ConstantsType DEF Crash, TypeOK
<1> QED
  BY <1>1, <1>2

\* Every step of the client, the loop or a crash keeps the types.
LEMMA NextType == TypeOK /\ [Next]_vars => TypeOK'
<1> SUFFICES ASSUME TypeOK, [Next]_vars PROVE TypeOK'
  OBVIOUS
<1>1. CASE UNCHANGED vars
  BY <1>1 DEF vars, TypeOK
<1> QED
  BY <1>1, ClientType, ReplyType, ToolsType, PersistType, TurnEndType, RunEndType
     DEF Next, Loop, Rest

\* Every variable of the runner keeps its type.
THEOREM TypeCorrect == Spec => []TypeOK
BY InitType, NextType, PTL DEF Spec

-----------------------------------------------------------------------------
(* Where the loop stands: LoopInv is inductive                             *)

\* The numbers the steps below reason about.
LEMMA Numbers ==
  ASSUME TypeOK
  PROVE  /\ Len(store.turns) \in Nat /\ Len(sess.turns) \in Nat
         /\ run.used \in Nat /\ run.idx \in Nat /\ run.base \in Nat
         /\ store.tcc \in Nat /\ sess.tcc \in Nat
         /\ TurnLimit \in Nat
BY ConfigAssumption, LenProperties DEF TypeOK, Session, Run

\* What leaving the loop leaves of the locals.
LEMMA LeaveFields ==
  ASSUME TypeOK
  PROVE  /\ \A st : Raise(st) => /\ pc' = "finish" /\ run'.status = st
                                 /\ run'.used = run.used /\ run'.base = run.base
         /\ \A st, used : Break(st, used) =>
              /\ pc' = "finish" /\ run'.used = used /\ run'.base = run.base
              /\ used >= TurnLimit => run'.status = "max_turns_reached"
              /\ ~ (used >= TurnLimit) => run'.status = st
BY DEF TypeOK, Run, Raise, Break

\* Submitting needs a loop that rests, resuming drops what waits, and a cancel
\* request disturbs nothing the loop relies on.
LEMMA ClientLoop == TypeOK /\ LoopInv /\ Client => LoopInv'
<1> SUFFICES ASSUME TypeOK, LoopInv, Client PROVE LoopInv'
  OBVIOUS
<1>1. ASSUME NEW m \in Messages, NEW par \in ParallelModes, Submit(m, par) PROVE LoopInv'
  <2>1. Waiting'
    BY <1>1, TextAssumption DEF Submit, Waiting, NoRun
  <2> QED
    BY <1>1, <2>1 DEF Submit, LoopInv
<1>2. ASSUME NEW answered \in SUBSET store.pend, NEW par \in ParallelModes,
             Resume(answered, par)
      PROVE  LoopInv'
  <2>1. Waiting'
    BY <1>2 DEF Resume, Waiting, NoRun, TypeOK, Session
  <2> QED
    BY <1>2, <2>1 DEF Resume, LoopInv
<1>3. CASE Cancel
  BY <1>3 DEF Cancel, LoopInv, Waiting, Asking, Handling, Appending, Deciding, Leaving, PausedAt
<1> QED
  BY <1>1, <1>2, <1>3 DEF Client

\* The first step of a run leaves no interaction open.
LEMMA BeginLoop == TypeOK /\ LoopInv /\ Begin => LoopInv'
<1> SUFFICES ASSUME TypeOK, LoopInv, Begin PROVE LoopInv'
  OBVIOUS
<1>1. Waiting
  BY DEF LoopInv, Begin
<1>2. Len(ClosePendingInteractions(store).turns) = Len(store.turns)
      /\ ClosePendingInteractions(store).pend = {}
  <2>1. Len(Respond(store.turns, TcsOf(store.pend), "superseded")) = Len(store.turns)
    BY RespondKeeps DEF TypeOK, Session, Responses
  <2> QED
    BY <2>1 DEF ClosePendingInteractions, TypeOK, Session
<1>3. sess' = store' /\ store'.pend = {} /\ Len(store'.turns) = Len(store.turns)
  BY <1>1, <1>2 DEF Begin, Waiting
<1>4. Asking' /\ run'.used = 0 /\ pc' = "loop"
  <2>1. /\ run'.idx = Len(store.turns) /\ run'.base = Len(store.turns)
        /\ run'.used = 0 /\ run'.status = "completed" /\ pc' = "loop"
    BY <1>1 DEF Begin, Waiting, TypeOK, Run
  <2> QED
    BY <1>3, <2>1, Numbers DEF Asking
<1>5. batch' = NoBatch
  BY DEF Begin, LoopInv
<1>6. run'.used <= TurnLimit
  BY <1>4, ConfigAssumption
<1> QED
  BY <1>4, <1>5, <1>6 DEF LoopInv

\* A run may leave from the top of the loop, or during its LLM call.
LEMMA AskingLeaves ==
  ASSUME TypeOK, Asking, UNCHANGED <<store, sess>>, run.used <= TurnLimit,
         run'.used = run.used, run'.base = run.base, run'.status # "paused"
  PROVE  Leaving'
<1>1. sess' = store' /\ store' = store /\ store.pend = {}
  BY DEF Asking
<1>2. Len(store.turns) = run.base + run.used
  BY DEF Asking
<1>3. Len(store.turns) - run.base = run.used
  BY <1>2, Numbers
<1>4. store'.tcc <= sess'.tcc
  BY <1>1, Numbers
<1> QED
  BY <1>1, <1>2, <1>3, <1>4 DEF Leaving

\* The head of the loop and the model's replies keep what the loop relies on.
LEMMA ReplyLoop == TypeOK /\ LoopInv /\ (StartTurn \/ Reply) => LoopInv'
<1> SUFFICES ASSUME TypeOK, LoopInv, StartTurn \/ Reply PROVE LoopInv'
  OBVIOUS
<1>0. Asking /\ batch = NoBatch /\ UNCHANGED <<store, sess>>
  BY DEF LoopInv, StartTurn, Reply, CallFails, ReplyInvalid, ReplyText, ReplyTools
\* An exception leaves the loop without the turn.
<1>1. ASSUME NEW st \in {"error", "interrupted"}, Raise(st), run.used <= TurnLimit
      PROVE  LoopInv'
  <2>0. /\ pc' = "finish" /\ run'.status = st
        /\ run'.used = run.used /\ run'.base = run.base
    BY <1>1, LeaveFields
  <2>1. Leaving'
    BY <1>0, <1>1, <2>0, AskingLeaves
  <2> QED
    BY <2>0, <2>1 DEF LoopInv
<1>2. CASE StartTurn
  <2>0. run.used <= TurnLimit
    BY <1>2 DEF StartTurn, LoopInv
  <2>1. CASE run.used >= TurnLimit /\ Break(run.status, run.used)
    <3>0. /\ pc' = "finish" /\ run'.status = "max_turns_reached"
          /\ run'.used = run.used /\ run'.base = run.base
      BY <2>1, LeaveFields
    <3>1. Leaving'
      BY <1>0, <2>0, <3>0, AskingLeaves
    <3> QED
      BY <3>0, <3>1 DEF LoopInv
  <2>2. CASE Raise("interrupted")
    BY <1>1, <2>0, <2>2
  <2>3. CASE run.used < TurnLimit /\ pc' = "llm" /\ run' = run
    <3>1. Asking'
      BY <1>0, <2>3 DEF Asking
    <3>2. batch' = NoBatch
      BY <1>0, <1>2 DEF StartTurn
    <3> QED
      BY <2>3, <3>1, <3>2 DEF LoopInv
  <2> QED
    BY <1>2, <2>1, <2>2, <2>3 DEF StartTurn
<1>3. CASE Reply
  <2>0. pc = "llm" /\ run.used < TurnLimit
    BY <1>3 DEF Reply, CallFails, ReplyInvalid, ReplyText, ReplyTools, LoopInv
  <2>1. ASSUME NEW st \in {"error", "interrupted"}, Raise(st) PROVE LoopInv'
    BY <1>1, <2>0, <2>1, Numbers
  <2>2. CASE CallFails
    BY <2>1, <2>2 DEF CallFails
  <2>3. CASE ReplyInvalid
    <3>1. CASE Raise("error")
      BY <2>1, <3>1
    <3>2. CASE ~Raise("error")
      <4>1. /\ pc' = "loop" /\ batch' = NoBatch
            /\ run'.used = run.used /\ run'.idx = run.idx /\ run'.base = run.base
            /\ run'.status = run.status
        BY <1>0, <2>3, <3>2 DEF ReplyInvalid, TypeOK, Run
      <4>2. Asking'
        BY <1>0, <4>1 DEF Asking
      <4>3. run'.used <= TurnLimit
        BY <2>0, <4>1, Numbers
      <4> QED
        BY <4>1, <4>2, <4>3 DEF LoopInv
    <3> QED
      BY <3>1, <3>2
  <2>4. CASE ReplyText
    <3>1. /\ batch' = NoBatch /\ pc' = "tools"
          /\ run'.used = run.used /\ run'.idx = run.idx /\ run'.base = run.base
          /\ run'.status = run.status
      BY <2>4 DEF ReplyText, TypeOK, Run, LoopInv
    <3>2. Handling'
      <4>1. store'.tcc <= sess'.tcc
        BY <1>0, Numbers DEF Asking
      <4>2. DOMAIN batch'.recs = DOMAIN batch'.calls
        BY <3>1 DEF NoBatch
      <4> QED
        BY <1>0, <3>1, <4>1, <4>2 DEF Asking, Handling
    <3> QED
      BY <2>0, <3>1, <3>2 DEF LoopInv
  <2>5. ASSUME NEW calls \in Requests, ReplyTools(calls) PROVE LoopInv'
    <3>1. DOMAIN batch'.recs = DOMAIN batch'.calls
      BY <2>5, RequestsType, LenProperties DEF ReplyTools
    <3>2. pc' = "tools" /\ run' = run
      BY <2>5 DEF ReplyTools
    <3>3. store'.tcc <= sess'.tcc
      BY <1>0, Numbers DEF Asking
    <3>4. Handling'
      BY <1>0, <3>1, <3>2, <3>3 DEF Asking, Handling
    <3> QED
      BY <2>0, <3>2, <3>4 DEF LoopInv
  <2> QED
    BY <1>3, <2>2, <2>3, <2>4, <2>5 DEF Reply
<1> QED
  BY <1>2, <1>3

\* A run may leave between two tools, when none of them paused it.
LEMMA HandlingLeaves ==
  ASSUME TypeOK, Handling, sess.pend = {}, run.used < TurnLimit, store' = store,
         sess'.turns = sess.turns, sess'.pend = {}, sess.tcc <= sess'.tcc, sess'.tcc \in Nat,
         run'.used = run.used, run'.base = run.base, run'.status \in {"error", "interrupted"}
  PROVE  Leaving'
<1>1. /\ sess'.turns = store'.turns /\ store'.pend = {}
      /\ Len(store.turns) = run.base + run.used
  BY DEF Handling
<1>2. Len(store.turns) - run.base = run.used /\ run.used <= TurnLimit
  BY <1>1, Numbers
<1>3. store'.tcc <= sess'.tcc
  BY Numbers DEF Handling
<1> QED
  BY <1>1, <1>2, <1>3 DEF Leaving

\* A tool call moves only the loop's session, and "paused" is set with the
\* interaction that explains it.
LEMMA ToolsLoop == TypeOK /\ LoopInv /\ (HandleTool \/ CancelBetweenTools) => LoopInv'
<1> SUFFICES ASSUME TypeOK, LoopInv, HandleTool \/ CancelBetweenTools PROVE LoopInv'
  OBVIOUS
<1>0. pc = "tools" /\ Handling /\ run.used < TurnLimit
  BY DEF HandleTool, RunServerTool, DeferToClient, RejectApproval, CancelBetweenTools,
         MayHandle, LoopInv
<1>1. ASSUME NEW i \in 1..MaxAsked, MayHandle(i)
      PROVE  /\ i \in DOMAIN batch.recs /\ i \in DOMAIN batch.calls
             /\ i \notin PausedAt
             /\ ~UseParallel => PausedAt = {}
  <2>1. i \in DOMAIN batch.recs /\ batch.recs[i].tc = 0
    BY <1>1 DEF MayHandle, Unhandled
  <2> QED
    BY <1>0, <1>1, <2>1 DEF Handling, PausedAt, Paused, MayHandle
\* A server tool pauses nothing.
<1>2. ASSUME NEW i \in 1..MaxAsked, RunServerTool(i) PROVE LoopInv'
  <2>0. MayHandle(i)
    BY <1>2 DEF RunServerTool
  <2>1. /\ sess'.turns = sess.turns /\ sess'.pend = sess.pend
        /\ sess'.tcc = sess.tcc + 1 /\ store' = store /\ run' = run /\ pc' = "tools"
    BY <1>0, <1>2 DEF RunServerTool, TypeOK, Session
  <2>2. /\ batch'.calls = batch.calls /\ DOMAIN batch'.recs = DOMAIN batch.recs
        /\ \A j \in DOMAIN batch.recs : j # i => batch'.recs[j] = batch.recs[j]
    BY <1>2 DEF RunServerTool, TypeOK
  <2>3. PausedAt \subseteq PausedAt'
    BY <1>1, <2>0, <2>2 DEF PausedAt, Paused
  <2>4. /\ store'.tcc <= sess'.tcc
        /\ \A p \in sess'.pend : p.tc \in (store'.tcc + 1)..sess'.tcc
    BY <1>0, <2>1, Numbers DEF Handling
  <2>5. Handling'
    BY <1>0, <2>1, <2>2, <2>3, <2>4 DEF Handling
  <2> QED
    BY <1>0, <2>1, <2>5 DEF LoopInv
\* A deferred call pauses the run and is listed under its fresh id.
<1>3. ASSUME NEW i \in 1..MaxAsked, DeferToClient(i) PROVE LoopInv'
  <2>0. MayHandle(i)
    BY <1>3 DEF DeferToClient
  <2> DEFINE kind == IF batch.calls[i] = "client" THEN "client_tool" ELSE "elicitation"
             p == [tc |-> sess.tcc + 1, kind |-> kind]
  <2>1. /\ sess'.turns = sess.turns /\ sess'.pend = sess.pend \union {p}
        /\ sess'.tcc = sess.tcc + 1 /\ store' = store /\ pc' = "tools"
    <3>1. sess' = [sess EXCEPT !.tcc = sess.tcc + 1, !.pend = sess.pend \union {p}]
      BY <1>3 DEF DeferToClient
    <3>2. UNCHANGED <<store, pc>>
      BY <1>3 DEF DeferToClient
    <3> HIDE DEF p
    <3> QED
      BY <1>0, <3>1, <3>2 DEF TypeOK, Session
  <2>2. /\ batch'.calls = batch.calls /\ DOMAIN batch'.recs = DOMAIN batch.recs
        /\ batch'.recs[i] = [tc |-> sess.tcc + 1, resp |-> ""]
    BY <1>1, <1>3, <2>0 DEF DeferToClient, TypeOK
  <2>3. i \in PausedAt'
    <3>1. sess.tcc + 1 # 0
      BY Numbers
    <3>2. ASSUME NEW n, NEW c, c = [tc |-> n, resp |-> ""] PROVE c.tc = n /\ c.resp = ""
      BY <3>2
    <3>3. batch'.recs[i].tc = sess.tcc + 1 /\ batch'.recs[i].resp = ""
      BY <2>2, <3>2
    <3> QED
      BY <1>1, <2>0, <2>2, <3>1, <3>3 DEF PausedAt, Paused
  <2>4. /\ run'.status = "paused" /\ run'.idx = run.idx
        /\ run'.base = run.base /\ run'.used = run.used
    BY <1>3 DEF DeferToClient, TypeOK, Run
  <2>5. /\ store'.tcc <= sess'.tcc
        /\ \A q \in sess'.pend : q.tc \in (store'.tcc + 1)..sess'.tcc
    <3>1. p.tc = sess.tcc + 1
      OBVIOUS
    <3> HIDE DEF p
    <3> QED
      BY <1>0, <2>1, <3>1, Numbers DEF Handling
  <2>6. sess'.pend # {}
    BY <2>1
  <2>7. Handling'
    BY <1>0, <2>1, <2>2, <2>3, <2>4, <2>5, <2>6 DEF Handling
  <2> QED
    BY <1>0, <2>1, <2>4, <2>7 DEF LoopInv
\* Approval tools are handled one by one, so nothing is pending yet.
<1>4. ASSUME NEW i \in 1..MaxAsked, RejectApproval(i) PROVE LoopInv'
  <2>0. MayHandle(i) /\ batch.calls[i] = "approval"
    BY <1>4 DEF RejectApproval
  <2>1. ~UseParallel
    BY <1>1, <2>0 DEF UseParallel
  <2>2. sess.pend = {}
    BY <1>0, <1>1, <2>0, <2>1 DEF Handling
  <2>3. /\ sess'.turns = sess.turns /\ sess'.pend = sess.pend
        /\ sess'.tcc = sess.tcc + 1 /\ store' = store
    BY <1>4 DEF RejectApproval, TypeOK, Session
  <2>4. /\ pc' = "finish" /\ run'.status = "error"
        /\ run'.used = run.used /\ run'.base = run.base
    BY <1>4, LeaveFields DEF RejectApproval
  <2>5. sess.tcc <= sess'.tcc /\ sess'.tcc \in Nat
    BY <2>3, Numbers
  <2>6. Leaving'
    BY <1>0, <2>2, <2>3, <2>4, <2>5, HandlingLeaves
  <2> QED
    BY <2>4, <2>6 DEF LoopInv
<1>5. CASE CancelBetweenTools
  <2>1. sess.pend = {}
    BY <1>0, <1>5 DEF CancelBetweenTools, BatchDone, Handling
  <2>2. /\ pc' = "finish" /\ run'.status = "interrupted"
        /\ run'.used = run.used /\ run'.base = run.base
    BY <1>5, LeaveFields DEF CancelBetweenTools
  <2>3. store' = store /\ sess' = sess /\ sess.tcc <= sess.tcc
    BY <1>5, Numbers DEF CancelBetweenTools
  <2>4. Leaving'
    BY <1>0, <2>1, <2>2, <2>3, Numbers, HandlingLeaves
  <2> QED
    BY <2>2, <2>4 DEF LoopInv
<1> QED
  BY <1>2, <1>3, <1>4, <1>5 DEF HandleTool

\* The two writes of a turn bring the loop's session and the store together.
LEMMA PersistLoop == TypeOK /\ LoopInv /\ (SaveState \/ AppendTurn) => LoopInv'
<1> SUFFICES ASSUME TypeOK, LoopInv, SaveState \/ AppendTurn PROVE LoopInv'
  OBVIOUS
<1>1. CASE SaveState
  <2>1. pc' = "append" /\ run' = run /\ sess' = sess /\ store' = sess
    BY <1>1 DEF SaveState
  <2>2. Handling /\ run.used < TurnLimit
    BY <1>1 DEF SaveState, LoopInv
  <2>3. Appending'
    BY <2>1, <2>2 DEF Handling, Appending
  <2> QED
    BY <2>1, <2>2, <2>3 DEF LoopInv
<1>2. CASE AppendTurn
  <2>0. Appending /\ run.used < TurnLimit
    BY <1>2 DEF AppendTurn, LoopInv
  <2>1. /\ store'.turns = Append(store.turns, NewTurn)
        /\ store'.pend = store.pend /\ store'.tcc = store.tcc
        /\ sess' = store'
    BY <1>2 DEF AppendTurn, TypeOK, Session
  <2>2. Len(store'.turns) = Len(store.turns) + 1
    BY <2>1, NewTurnType, AppendProperties DEF TypeOK, Session
  <2>3. CASE run.status = "paused"
    <3>1. /\ pc' = "finish" /\ run'.status = "paused"
          /\ run'.used = run.used /\ run'.base = run.base
      <4>1. Break("paused", run.used) /\ ~ (run.used >= TurnLimit)
        BY <1>2, <2>0, <2>3, Numbers DEF AppendTurn
      <4> QED
        BY <4>1, LeaveFields
    <3>2. sess'.pend = store'.pend /\ sess'.pend # {} /\ store'.tcc = sess'.tcc
      BY <2>0, <2>1, <2>3 DEF Appending
    <3>3. Len(store.turns) = run.base + run.used
      BY <2>0 DEF Appending
    <3>4. Len(store'.turns) - run'.base = run'.used + 1 /\ run'.used + 1 <= TurnLimit
      BY <2>0, <2>2, <3>1, <3>3, Numbers
    <3>5. store'.tcc <= sess'.tcc
      BY <2>1, Numbers
    <3>6. Leaving'
      BY <2>1, <3>1, <3>2, <3>4, <3>5 DEF Leaving
    <3> QED
      BY <3>1, <3>6 DEF LoopInv
  <2>4. CASE run.status # "paused"
    <3>1. pc' = "turnend" /\ run' = run
      BY <1>2, <2>4 DEF AppendTurn
    <3>2. store'.pend = {} /\ run'.status = "completed" /\ run.idx = Len(store.turns)
          /\ run.idx = run.base + run.used
      BY <2>0, <2>1, <2>4, <3>1 DEF Appending
    <3>3. Deciding'
      BY <2>1, <2>2, <3>1, <3>2, Numbers DEF Deciding
    <3> QED
      BY <2>0, <3>1, <3>3 DEF LoopInv
  <2> QED
    BY <2>3, <2>4
<1> QED
  BY <1>1, <1>2

\* A run may leave after a turn that it has not counted.
LEMMA DecidingLeaves ==
  ASSUME TypeOK, Deciding, run.used < TurnLimit, sess' = store',
         store'.turns = store.turns, store'.tcc = store.tcc,
         run'.used = run.used, run'.base = run.base,
         run'.status \in {"error", "interrupted", "paused"},
         run'.status = "paused" <=> store'.pend # {}
  PROVE  Leaving'
<1>1. Len(store.turns) = run.base + run.used + 1
  BY Numbers DEF Deciding
<1>2. Len(store'.turns) - run'.base = run'.used + 1
  BY <1>1, Numbers
<1>3. run'.used + 1 <= TurnLimit
  BY Numbers
<1>4. store'.tcc <= sess'.tcc
  BY Numbers
<1> QED
  BY <1>2, <1>3, <1>4 DEF Leaving

\* The hook, the human-in-the-loop check and the end of a turn count the turn
\* once or leave the loop.
LEMMA TurnEndLoop == TypeOK /\ LoopInv /\ TurnEnd => LoopInv'
<1> SUFFICES ASSUME TypeOK, LoopInv, TurnEnd PROVE LoopInv'
  OBVIOUS
<1>0. /\ pc = "turnend" /\ Deciding /\ run.used < TurnLimit
      /\ batch' = NoBatch
  BY DEF TurnEnd, HookStop, HookInject, PauseForHuman, EndTurn, LoopInv
\* Whatever goes on to the next turn counts this one.
<1>1. ASSUME UNCHANGED <<store, sess>>, run'.status = run.status, run'.base = run.base,
             run'.idx = run.idx + 1, run'.used = run.used + 1, pc' = "loop"
      PROVE  LoopInv'
  <2>1. /\ Len(store.turns) = run.idx + 1 /\ run.idx = run.base + run.used
        /\ sess = store /\ store.pend = {} /\ run.status = "completed"
    BY <1>0 DEF Deciding
  <2>2. run'.idx = Len(store.turns) /\ run'.idx = run'.base + run'.used
    BY <1>1, <2>1, Numbers
  <2>3. Asking'
    BY <1>1, <2>1, <2>2 DEF Asking
  <2>4. run'.used <= TurnLimit
    BY <1>0, <1>1, Numbers
  <2> QED
    BY <1>0, <1>1, <2>3, <2>4 DEF LoopInv
<1>2. CASE HookStop
  <2>1. UNCHANGED <<store, sess>> /\ Break("interrupted", run.used)
        /\ ~ (run.used >= TurnLimit)
    BY <1>0, <1>2, Numbers DEF HookStop
  <2>2. /\ pc' = "finish" /\ run'.status = "interrupted"
        /\ run'.used = run.used /\ run'.base = run.base
    BY <2>1, LeaveFields
  <2>3. store.pend = {} /\ sess = store
    BY <1>0 DEF Deciding
  <2>4. Leaving'
    BY <1>0, <2>1, <2>2, <2>3, DecidingLeaves
  <2> QED
    BY <2>2, <2>4 DEF LoopInv
<1>3. ASSUME NEW m \in Injections, HookInject(m) PROVE LoopInv'
  BY <1>1, <1>3 DEF HookInject, TypeOK, Run
<1>4. CASE PauseForHuman
  <2>1. sess' = store' /\ Break("paused", run.used) /\ ~ (run.used >= TurnLimit)
    BY <1>0, <1>4, Numbers DEF PauseForHuman
  <2>2. /\ pc' = "finish" /\ run'.status = "paused"
        /\ run'.used = run.used /\ run'.base = run.base
    BY <2>1, LeaveFields
  <2>3. store'.turns = store.turns /\ store'.tcc = store.tcc /\ store'.pend # {}
    BY <1>0, <1>4 DEF PauseForHuman, Deciding, TypeOK, Session
  <2>4. Leaving'
    BY <1>0, <2>1, <2>2, <2>3, DecidingLeaves
  <2> QED
    BY <2>2, <2>4 DEF LoopInv
<1>5. CASE EndTurn
  <2>0. UNCHANGED <<store, sess>> /\ store.pend = {} /\ sess = store
        /\ run.status = "completed"
    BY <1>0, <1>5 DEF EndTurn, Deciding
  \* A final answer.
  <2>1. CASE /\ pc' = "finish"
             /\ run' = [run EXCEPT !.idx = @ + 1, !.used = @ + 1,
                          !.status = IF run.used + 1 >= TurnLimit
                                       THEN "max_turns_reached" ELSE @]
    <3>1. /\ run'.base = run.base /\ run'.used = run.used + 1
          /\ run'.status \in {"completed", "max_turns_reached"}
      BY <2>0, <2>1 DEF TypeOK, Run
    <3>2. run.idx + 1 = Len(store.turns) /\ run.idx = run.base + run.used
      BY <1>0 DEF Deciding
    <3>3. Len(store.turns) = run'.base + run'.used /\ run'.used <= TurnLimit
          /\ run'.used \in Nat
      <4>1. run'.used \in Nat /\ run'.used <= TurnLimit
        BY <1>0, <3>1, Numbers
      <4>2. Len(store.turns) = run.base + (run.used + 1)
        BY <3>2, Numbers
      <4> QED
        BY <3>1, <4>1, <4>2
    <3>4. Len(store.turns) - run'.base = run'.used
      BY <3>1, <3>3, Numbers
    <3>5. store'.tcc <= sess'.tcc
      BY <2>0, Numbers
    <3>6. Leaving'
      BY <2>0, <3>1, <3>3, <3>4, <3>5 DEF Leaving
    <3> QED
      BY <2>1, <3>6 DEF LoopInv
  <2>2. CASE Raise("error")
    <3>1. /\ pc' = "finish" /\ run'.status = "error"
          /\ run'.used = run.used /\ run'.base = run.base
      BY <2>2, LeaveFields
    <3>2. Leaving'
      BY <1>0, <2>0, <3>1, DecidingLeaves
    <3> QED
      BY <3>1, <3>2 DEF LoopInv
  <2>3. CASE pc' = "loop" /\ run' = [run EXCEPT !.idx = @ + 1, !.used = @ + 1]
    BY <1>1, <2>0, <2>3 DEF TypeOK, Run
  <2> QED
    BY <1>5, <2>1, <2>2, <2>3 DEF EndTurn
<1> QED
  BY <1>2, <1>3, <1>4, <1>5 DEF TurnEnd

\* A run that has ended, or died, leaves the loop at rest.
LEMMA RunEndLoop == TypeOK /\ LoopInv /\ (Finish \/ Crash) => LoopInv'
BY DEF Finish, Crash, LoopInv

\* A runner that was never used is at rest.
LEMMA InitLoop == Init => LoopInv
BY DEF Init, LoopInv

\* Every step keeps what the loop relies on.
LEMMA NextLoop == TypeOK /\ LoopInv /\ [Next]_vars => LoopInv'
<1> SUFFICES ASSUME TypeOK, LoopInv, [Next]_vars PROVE LoopInv'
  OBVIOUS
<1>1. CASE UNCHANGED vars
  BY <1>1 DEF vars, LoopInv, Waiting, Asking, Handling, Appending, Deciding, Leaving, PausedAt
<1> QED
  BY <1>1, ClientLoop, BeginLoop, ReplyLoop, ToolsLoop, PersistLoop, TurnEndLoop, RunEndLoop
     DEF Next, Loop, Rest

\* The loop, its session and the stored session agree at every step.
THEOREM LoopCorrect == Spec => []LoopInv
<1>1. TypeOK /\ LoopInv /\ [Next]_vars => (TypeOK /\ LoopInv)'
  BY NextType, NextLoop
<1> QED
  BY InitType, InitLoop, <1>1, PTL DEF Spec

-----------------------------------------------------------------------------
(* What the invariant gives                                                *)

\* Every step leaves the stored turns alone, fills in responses, or appends
\* the turn that comes next.
LEMMA StoredTurns ==
  ASSUME TypeOK, LoopInv, [Next]_vars
  PROVE  \/ store'.turns = store.turns
         \/ \E ids : \E r \in Responses : store'.turns = Respond(store.turns, ids, r)
         \/ /\ store'.turns = Append(store.turns, NewTurn)
            /\ AppendTurn /\ run.idx = Len(store.turns)
<1> USE DEF TypeOK, Session
<1>1. CASE UNCHANGED vars
  BY <1>1 DEF vars
<1>2. CASE Client
  <2>1. ASSUME NEW answered \in SUBSET store.pend, NEW par \in ParallelModes,
               Resume(answered, par)
        PROVE  \E ids : \E r \in Responses : store'.turns = Respond(store.turns, ids, r)
    BY <2>1 DEF Resume, Responses
  <2> QED
    BY <1>2, <2>1 DEF Client, Submit, Cancel
<1>3. CASE Begin
  <2>1. CASE store' = store
    BY <2>1
  <2>2. CASE store' = ClosePendingInteractions(store)
    BY <2>2 DEF ClosePendingInteractions, Responses
  <2> QED
    BY <1>3, <2>1, <2>2 DEF Begin
<1>4. CASE StartTurn \/ Reply \/ HandleTool \/ CancelBetweenTools \/ Crash \/ Rest
  BY <1>4 DEF StartTurn, Reply, CallFails, ReplyInvalid, ReplyText, ReplyTools, HandleTool,
              RunServerTool, DeferToClient, RejectApproval, CancelBetweenTools, Crash, Rest, vars
<1>5. CASE SaveState
  BY <1>5 DEF SaveState, LoopInv, Handling
<1>6. CASE AppendTurn
  BY <1>6 DEF AppendTurn, LoopInv, Appending
<1>7. CASE TurnEnd
  BY <1>7 DEF TurnEnd, HookStop, HookInject, PauseForHuman, EndTurn, LoopInv, Deciding
<1>8. CASE Finish
  BY <1>8 DEF Finish, LoopInv, Leaving
<1> QED
  BY <1>1, <1>2, <1>3, <1>4, <1>5, <1>6, <1>7, <1>8 DEF Next, Loop

\* Only append_turn adds a turn, and its number is the length before it.
LEMMA TurnsNumberedStep ==
  ASSUME TypeOK, LoopInv, TurnsNumbered, [Next]_vars
  PROVE  TurnsNumbered'
<1>0. store.turns \in Seq(Turn) /\ DOMAIN store.turns = 1..Len(store.turns)
      /\ Len(store.turns) \in Nat
  BY LenProperties DEF TypeOK, Session
<1>1. CASE store'.turns = store.turns
  BY <1>1 DEF TurnsNumbered
<1>2. ASSUME NEW ids, NEW r \in Responses, store'.turns = Respond(store.turns, ids, r)
      PROVE  TurnsNumbered'
  <2>1. DOMAIN store'.turns = DOMAIN store.turns
    BY <1>2 DEF Respond
  <2> QED
    BY <1>0, <1>2, <2>1, RespondKeeps DEF TurnsNumbered
<1>3. CASE store'.turns = Append(store.turns, NewTurn) /\ run.idx = Len(store.turns)
  <2>1. NewTurn \in Turn /\ NewTurn.idx = Len(store.turns)
    BY <1>3, NewTurnType
  <2>2. /\ DOMAIN store'.turns = 1..(Len(store.turns) + 1)
        /\ \A i \in 1..Len(store.turns) : store'.turns[i] = store.turns[i]
        /\ store'.turns[Len(store.turns) + 1] = NewTurn
    BY <1>0, <1>3, <2>1, AppendProperties, LenProperties
  <2>3. ASSUME NEW i \in DOMAIN store'.turns PROVE store'.turns[i].idx = i - 1
    <3>1. CASE i \in 1..Len(store.turns)
      BY <1>0, <2>2, <3>1 DEF TurnsNumbered
    <3>2. CASE i = Len(store.turns) + 1
      BY <1>0, <2>1, <2>2, <3>2
    <3> QED
      BY <1>0, <2>2, <3>1, <3>2
  <2> QED
    BY <2>3 DEF TurnsNumbered
<1> QED
  BY <1>1, <1>2, <1>3, StoredTurns

\* The turns of a session are numbered in the order they are stored.
THEOREM TurnsNumberedCorrect == Spec => []TurnsNumbered
<1>1. Init => TurnsNumbered
  BY DEF Init, EmptySession, TurnsNumbered
<1>2. TypeOK /\ LoopInv /\ TurnsNumbered /\ [Next]_vars => TurnsNumbered'
  BY TurnsNumberedStep
<1> QED
  BY TypeCorrect, LoopCorrect, <1>1, <1>2, PTL DEF Spec

\* Only Finish reports a result.
LEMMA OutcomeStep ==
  ASSUME TypeOK, LoopInv, [Next]_vars, ~Finish
  PROVE  outcome' = outcome \/ outcome' = NoOutcome
<1>1. CASE Next
  BY <1>1 DEF Next, Client, Submit, Resume, Cancel, Loop, Begin, StartTurn, Reply, CallFails,
       ReplyInvalid, ReplyText, ReplyTools, HandleTool, RunServerTool, DeferToClient,
       RejectApproval, CancelBetweenTools, SaveState, AppendTurn, TurnEnd, HookStop,
       HookInject, PauseForHuman, EndTurn, Crash, Rest, vars
<1> QED
  BY <1>1 DEF vars

\* A run reports "paused" exactly when it leaves something to answer.
THEOREM PausedIffPendingCorrect == Spec => []PausedIffPending
<1>1. Init => PausedIffPending
  BY DEF Init, NoOutcome, PausedIffPending
<1>2. TypeOK /\ LoopInv /\ PausedIffPending /\ [Next]_vars => PausedIffPending'
  <2> SUFFICES ASSUME TypeOK, LoopInv, PausedIffPending, [Next]_vars
               PROVE  PausedIffPending'
    OBVIOUS
  <2>1. CASE Finish
    <3>1. Leaving /\ outcome'.status = run.status /\ outcome'.pend = sess.pend
      BY <2>1 DEF Finish, LoopInv
    <3> QED
      BY <3>1 DEF Leaving, PausedIffPending
  <2>2. CASE ~Finish
    BY <2>2, OutcomeStep DEF PausedIffPending, NoOutcome
  <2> QED
    BY <2>1, <2>2
<1> QED
  BY TypeCorrect, LoopCorrect, <1>1, <1>2, PTL DEF Spec

\* turns_used counts the stored turns of the run, but for a last one cut short.
THEOREM TurnsAccountedCorrect == Spec => []TurnsAccounted
<1>1. Init => TurnsAccounted
  BY DEF Init, NoOutcome, TurnsAccounted
<1>2. TypeOK /\ LoopInv /\ TurnsAccounted /\ [Next]_vars => TurnsAccounted'
  <2> SUFFICES ASSUME TypeOK, LoopInv, TurnsAccounted, [Next]_vars
               PROVE  TurnsAccounted'
    OBVIOUS
  <2>1. CASE Finish
    <3>1. /\ Leaving /\ outcome'.status = run.status /\ outcome'.used = run.used
          /\ outcome'.added = Len(sess.turns) - run.base
      BY <2>1 DEF Finish, LoopInv
    <3>2. sess.turns = store.turns
      BY <3>1 DEF Leaving
    <3>3. run.status \in {"completed", "max_turns_reached"} =>
            Len(store.turns) - run.base = run.used
      BY <3>1, Numbers DEF Leaving
    <3> QED
      BY <3>1, <3>2, <3>3 DEF Leaving, TurnsAccounted
  <2>2. CASE ~Finish
    BY <2>2, OutcomeStep DEF TurnsAccounted, NoOutcome
  <2> QED
    BY <2>1, <2>2
<1> QED
  BY TypeCorrect, LoopCorrect, <1>1, <1>2, PTL DEF Spec

-----------------------------------------------------------------------------
(* What the client is promised about pending interactions                  *)

\* A save that lists interactions for the first time asks fresh questions; the
\* other steps leave the stored ones alone, or close them.
LEMMA PendingStep ==
  ASSUME TypeOK, LoopInv, [Next]_vars
  PROVE  \/ store'.pend = store.pend /\ store'.tcc = store.tcc
         \/ store'.pend = {} /\ store'.tcc = store.tcc
         \/ /\ store.pend = {} /\ store.tcc <= store'.tcc /\ store'.tcc \in Nat
            /\ \A p \in store'.pend : p.tc \in (store.tcc + 1)..store'.tcc \union {HITL}
<1>1. CASE UNCHANGED vars
  BY <1>1 DEF vars
<1>2. CASE Client
  BY <1>2 DEF Client, Submit, Resume, Cancel, TypeOK, Session
<1>3. CASE Begin
  BY <1>3 DEF Begin, ClosePendingInteractions, TypeOK, Session
<1>4. CASE StartTurn \/ Reply \/ HandleTool \/ CancelBetweenTools \/ Crash \/ Rest
  BY <1>4 DEF StartTurn, Reply, CallFails, ReplyInvalid, ReplyText, ReplyTools, HandleTool,
              RunServerTool, DeferToClient, RejectApproval, CancelBetweenTools, Crash, Rest, vars
<1>5. CASE SaveState
  BY <1>5, Numbers DEF SaveState, LoopInv, Handling
<1>6. CASE AppendTurn
  BY <1>6 DEF AppendTurn, TypeOK, Session
<1>7. CASE PauseForHuman
  <2>1. /\ store'.pend = {[tc |-> HITL, kind |-> "elicitation"]}
        /\ store.pend = {} /\ store'.tcc = store.tcc
    BY <1>7 DEF PauseForHuman, LoopInv, Deciding, TypeOK, Session
  <2> QED
    BY <2>1, Numbers
<1>8. CASE HookStop \/ EndTurn \/ \E m \in Injections : HookInject(m)
  BY <1>8 DEF HookStop, HookInject, EndTurn
<1>9. CASE Finish
  <2>1. /\ store'.pend = store.pend /\ store'.tcc = sess.tcc /\ store.tcc <= sess.tcc
        /\ store.pend # {} => store.tcc = sess.tcc
    BY <1>9 DEF Finish, LoopInv, Leaving
  <2> QED
    BY <2>1, Numbers
<1> QED
  BY <1>1, <1>2, <1>3, <1>4, <1>5, <1>6, <1>7, <1>8, <1>9 DEF Next, Loop, TurnEnd

\* The stored pending interactions follow PauseProtocol.
THEOREM PauseProtocolImplemented == Spec => FollowsPauseProtocol
<1>1. Init => Promise!Init
  BY DEF Init, EmptySession, Promise!Init, TcsOf
<1>2. TypeOK /\ LoopInv /\ [Next]_vars => [Promise!Next]_(Promise!vars)
  <2> SUFFICES ASSUME TypeOK, LoopInv, [Next]_vars PROVE [Promise!Next]_(Promise!vars)
    OBVIOUS
  <2>1. CASE store'.pend = store.pend /\ store'.tcc = store.tcc
    BY <2>1 DEF Promise!vars, TcsOf
  <2>2. CASE store'.pend = {} /\ store'.tcc = store.tcc
    BY <2>2 DEF Promise!Next, Promise!Close, TcsOf
  <2>3. CASE /\ store.pend = {} /\ store.tcc <= store'.tcc /\ store'.tcc \in Nat
             /\ \A p \in store'.pend : p.tc \in (store.tcc + 1)..store'.tcc \union {HITL}
    <3>1. TcsOf(store.pend) = {}
      BY <2>3 DEF TcsOf
    <3>2. TcsOf(store'.pend) \subseteq (store.tcc + 1)..store'.tcc \union {HITL}
      BY <2>3 DEF TcsOf
    <3>3. store'.tcc >= store.tcc
      BY <2>3, Numbers
    <3> QED
      BY <2>3, <3>1, <3>2, <3>3 DEF Promise!Next, Promise!Ask, TcsOf
  <2> QED
    BY <2>1, <2>2, <2>3, PendingStep
<1> QED
  BY TypeCorrect, LoopCorrect, <1>1, <1>2, PTL DEF Spec, FollowsPauseProtocol, Promise!Spec

-----------------------------------------------------------------------------
(* Cancelling                                                              *)

\* Once it is asked to stop a run starts no request and takes up no further
\* call, except that the reply to the request in flight may still start a
\* batch of calls side by side.
THEOREM CancelStopsWorkCorrect == Spec => CancelStopsWork
<1>1. ASSUME TypeOK, LoopInv, [Next]_vars, cancelReq, cancelReq'
      PROVE  /\ pc' = "llm" => pc = "llm"
             /\ Begun' \subseteq Begun \/ (pc = "llm" /\ UseParallel')
  <2>0. pc' # "tools" => Begun' = {}
    BY DEF Begun
  <2>1. CASE UNCHANGED vars
    BY <2>1 DEF vars, Begun, UseParallel, Unhandled
  <2>2. CASE Client
    <3>1. CASE Cancel
      BY <1>1, <3>1 DEF Cancel
    <3>2. CASE ~Cancel
      BY <2>0, <2>2, <3>2 DEF Client, Submit, Resume
    <3> QED
      BY <3>1, <3>2
  <2>3. CASE Begin
    BY <1>1, <2>3 DEF Begin
  <2>4. CASE StartTurn
    BY <1>1, <2>0, <2>4 DEF StartTurn, Break, Raise
  <2>5. CASE CallFails \/ ReplyInvalid
    BY <2>0, <2>5 DEF CallFails, ReplyInvalid, Raise
  <2>6. CASE ReplyText
    <3>1. batch' = NoBatch
      BY <1>1, <2>6 DEF ReplyText, LoopInv
    <3>2. DOMAIN batch'.recs = {} /\ DOMAIN batch'.calls = {}
      BY <3>1 DEF NoBatch
    <3>3. Begun' = {}
      BY <3>2 DEF Begun
    <3> QED
      BY <2>6, <3>3 DEF ReplyText
  <2>7. ASSUME NEW calls \in Requests, ReplyTools(calls)
        PROVE  /\ pc' = "llm" => pc = "llm"
               /\ Begun' \subseteq Begun \/ (pc = "llm" /\ UseParallel')
    <3>1. \A i \in DOMAIN batch'.recs : batch'.recs[i].tc = 0
      BY <2>7 DEF ReplyTools, Todo
    <3>2. ~UseParallel' => Begun' = {}
      BY <3>1 DEF Begun, Unhandled
    <3> QED
      BY <2>7, <3>2 DEF ReplyTools
  <2>8. CASE HandleTool
    <3> SUFFICES ASSUME pc' = "tools"
                 PROVE  Begun' \subseteq Begun
      BY <1>1, <2>0, <2>8 DEF HandleTool, RunServerTool, DeferToClient, RejectApproval, Raise
    <3>1. UseParallel /\ pc = "tools"
      BY <1>1, <2>8 DEF HandleTool, RunServerTool, DeferToClient, RejectApproval, MayHandle
    <3>2. batch'.calls = batch.calls /\ run'.par = run.par
      BY <1>1, <2>8 DEF HandleTool, RunServerTool, DeferToClient, RejectApproval, Raise, TypeOK, Run
    <3>3. UseParallel' = UseParallel
      BY <3>2 DEF UseParallel
    <3> QED
      BY <3>1, <3>2, <3>3 DEF Begun
  <2>9. CASE CancelBetweenTools
    BY <2>0, <2>9 DEF CancelBetweenTools, Raise
  <2>10. CASE SaveState
    BY <2>0, <2>10 DEF SaveState
  <2>11. CASE AppendTurn
    BY <2>0, <2>11 DEF AppendTurn, Break
  <2>12. CASE TurnEnd
    BY <2>0, <2>12 DEF TurnEnd, HookStop, HookInject, PauseForHuman, EndTurn, Break, Raise
  <2>13. CASE Finish \/ Crash
    BY <2>0, <2>13 DEF Finish, Crash
  <2>14. CASE Rest
    BY <2>14, <2>1 DEF Rest
  <2> QED
    BY <1>1, <2>1, <2>2, <2>3, <2>4, <2>5, <2>6, <2>7, <2>8, <2>9, <2>10, <2>11, <2>12,
       <2>13, <2>14 DEF Next, Loop, Reply
<1> QED
  BY TypeCorrect, LoopCorrect, <1>1, PTL DEF Spec, CancelStopsWork

-----------------------------------------------------------------------------
(***************************************************************************)
(* The stored session over its whole life: history is only extended, and   *)
(* tool-call ids are handed out once although a turn takes two writes and  *)
(* a run may die between them.                                             *)
(***************************************************************************)

-----------------------------------------------------------------------------
(* Filling in responses                                                    *)

\* What Respond makes of one call, and of one turn.
Filled(c, ids, r) == IF c.tc \in ids /\ c.resp = "" THEN [c EXCEPT !.resp = r] ELSE c

FilledTurn(t, ids, r) ==
  [t EXCEPT !.calls = [j \in DOMAIN t.calls |-> Filled(t.calls[j], ids, r)]]

LEMMA RespondIsFilled ==
  ASSUME NEW turns, NEW ids, NEW r
  PROVE  /\ DOMAIN Respond(turns, ids, r) = DOMAIN turns
         /\ \A i \in DOMAIN turns : Respond(turns, ids, r)[i] = FilledTurn(turns[i], ids, r)
BY DEF Respond, FilledTurn, Filled

\* A call keeps its id, and its response unless it was empty.
LEMMA FilledCall ==
  ASSUME NEW c \in Call, NEW ids, NEW r \in Responses
  PROVE  /\ Filled(c, ids, r) \in Call /\ Filled(c, ids, r).tc = c.tc
         /\ \/ c = Filled(c, ids, r)
            \/ c.resp = "" /\ [c EXCEPT !.resp = Filled(c, ids, r).resp] = Filled(c, ids, r)
BY DEF Filled, Call

\* A turn keeps everything but the responses of its calls.
LEMMA FilledTurnFields ==
  ASSUME NEW t \in Turn, NEW ids, NEW r
  PROVE  /\ [t EXCEPT !.calls = <<>>] = [FilledTurn(t, ids, r) EXCEPT !.calls = <<>>]
         /\ DOMAIN FilledTurn(t, ids, r).calls = DOMAIN t.calls
         /\ \A j \in DOMAIN t.calls :
              FilledTurn(t, ids, r).calls[j] = Filled(t.calls[j], ids, r)
<1> DEFINE calls == [j \in DOMAIN t.calls |-> Filled(t.calls[j], ids, r)]
<1>1. FilledTurn(t, ids, r) = [t EXCEPT !.calls = calls]
  BY DEF FilledTurn
<1>2. FilledTurn(t, ids, r).calls = calls
  <2> HIDE DEF calls
  <2> QED
    BY <1>1 DEF Turn
<1>3. [t EXCEPT !.calls = <<>>] = [FilledTurn(t, ids, r) EXCEPT !.calls = <<>>]
  <2> HIDE DEF calls
  <2> QED
    BY <1>1 DEF Turn
<1> QED
  BY <1>2, <1>3

\* The calls of turns have their type.
LEMMA CallsOfTurns ==
  ASSUME NEW turns \in Seq(Turn), NEW i \in DOMAIN turns
  PROVE  /\ turns[i] \in Turn /\ turns[i].calls \in Seq(Call)
         /\ \A j \in DOMAIN turns[i].calls : turns[i].calls[j] \in Call
<1>1. turns[i] \in Turn
  BY ElementOfSeq, LenProperties
<1>2. turns[i].calls \in Seq(Call)
  BY <1>1 DEF Turn
<1>3. \A j \in DOMAIN turns[i].calls : turns[i].calls[j] \in Call
  BY <1>2, ElementOfSeq, LenProperties
<1> QED
  BY <1>1, <1>2, <1>3

-----------------------------------------------------------------------------
(* History                                                                 *)

\* new is old, but for empty responses that were filled in.
Extends(old, new) ==
  /\ [old EXCEPT !.calls = <<>>] = [new EXCEPT !.calls = <<>>]
  /\ DOMAIN old.calls = DOMAIN new.calls
  /\ \A j \in DOMAIN old.calls :
       \/ old.calls[j] = new.calls[j]
       \/ old.calls[j].resp = "" /\ [old.calls[j] EXCEPT !.resp = new.calls[j].resp]
                                      = new.calls[j]

\* A turn with responses filled in extends the turn.
LEMMA FilledExtends ==
  ASSUME NEW t \in Turn, \A j \in DOMAIN t.calls : t.calls[j] \in Call,
         NEW ids, NEW r \in Responses
  PROVE  Extends(t, FilledTurn(t, ids, r))
<1> DEFINE ft == FilledTurn(t, ids, r)
<1>1. /\ [t EXCEPT !.calls = <<>>] = [ft EXCEPT !.calls = <<>>]
      /\ DOMAIN ft.calls = DOMAIN t.calls
      /\ \A j \in DOMAIN t.calls : ft.calls[j] = Filled(t.calls[j], ids, r)
  BY FilledTurnFields
<1>2. ASSUME NEW j \in DOMAIN t.calls
      PROVE  \/ t.calls[j] = ft.calls[j]
             \/ t.calls[j].resp = "" /\ [t.calls[j] EXCEPT !.resp = ft.calls[j].resp]
                                          = ft.calls[j]
  <2>1. t.calls[j] \in Call /\ ft.calls[j] = Filled(t.calls[j], ids, r)
    BY <1>1
  <2>2. PICK c \in Call : c = t.calls[j]
    BY <2>1
  <2>3. PICK f : f = ft.calls[j]
    OBVIOUS
  <2>4. f = Filled(c, ids, r)
    BY <2>1, <2>2, <2>3
  <2>5. c = f \/ (c.resp = "" /\ [c EXCEPT !.resp = f.resp] = f)
    BY <2>4, FilledCall
  <2> HIDE DEF ft
  <2> QED
    BY <2>2, <2>3, <2>5
<1> HIDE DEF ft
<1>3. Extends(t, ft)
  BY <1>1, <1>2 DEF Extends
<1> QED
  BY <1>3 DEF ft

\* A turn extends itself.
LEMMA ExtendsItself == ASSUME NEW t PROVE Extends(t, t)
BY DEF Extends

\* Of the three things a step may do to the stored turns, each extends them.
LEMMA HistoryStep ==
  ASSUME TypeOK, LoopInv, [Next]_vars
  PROVE  /\ Len(store.turns) <= Len(store'.turns)
         /\ \A i \in DOMAIN store.turns : Extends(store.turns[i], store'.turns[i])
<1>0. /\ store.turns \in Seq(Turn) /\ DOMAIN store.turns = 1..Len(store.turns)
      /\ Len(store.turns) \in Nat
  BY LenProperties DEF TypeOK, Session
<1>1. CASE store'.turns = store.turns
  BY <1>0, <1>1, ExtendsItself
<1>2. ASSUME NEW ids, NEW r \in Responses, store'.turns = Respond(store.turns, ids, r)
      PROVE  /\ Len(store.turns) <= Len(store'.turns)
             /\ \A i \in DOMAIN store.turns : Extends(store.turns[i], store'.turns[i])
  <2>1. Len(store'.turns) = Len(store.turns)
    BY <1>0, <1>2, RespondKeeps
  <2>2. ASSUME NEW i \in DOMAIN store.turns PROVE Extends(store.turns[i], store'.turns[i])
    <3>1. store.turns[i] \in Turn /\ \A j \in DOMAIN store.turns[i].calls :
                                       store.turns[i].calls[j] \in Call
      BY <1>0, CallsOfTurns
    <3>2. store'.turns[i] = FilledTurn(store.turns[i], ids, r)
      BY <1>2, RespondIsFilled
    <3> QED
      BY <3>1, <3>2, FilledExtends
  <2> QED
    BY <1>0, <2>1, <2>2
<1>3. CASE store'.turns = Append(store.turns, NewTurn)
  <2>1. /\ Len(store'.turns) = Len(store.turns) + 1
        /\ \A i \in 1..Len(store.turns) : store'.turns[i] = store.turns[i]
    BY <1>0, <1>3, NewTurnType, AppendProperties
  <2>2. \A i \in DOMAIN store.turns : Extends(store.turns[i], store'.turns[i])
    BY <1>0, <2>1, ExtendsItself
  <2> QED
    BY <1>0, <2>1, <2>2
<1> QED
  BY <1>1, <1>2, <1>3, StoredTurns

\* A stored turn never goes away, and nothing in it changes but an empty response being
\* filled in: a save never puts back an older session (runner/agent_runner.py:271, 320).
THEOREM HistoryKeptCorrect == Spec => HistoryKept
<1>1. TypeOK /\ LoopInv /\ [Next]_vars =>
        /\ Len(store.turns) <= Len(store'.turns)
        /\ \A i \in DOMAIN store.turns : Extends(store.turns[i], store'.turns[i])
  BY HistoryStep
<1>2. TypeOK /\ LoopInv /\ [Next]_vars =>
        [/\ Len(store.turns) <= Len(store'.turns)
         /\ \A i \in DOMAIN store.turns :
              LET old == store.turns[i]
                  new == store'.turns[i]
              IN /\ [old EXCEPT !.calls = <<>>] = [new EXCEPT !.calls = <<>>]
                 /\ DOMAIN old.calls = DOMAIN new.calls
                 /\ \A j \in DOMAIN old.calls :
                      \/ old.calls[j] = new.calls[j]
                      \/ old.calls[j].resp = "" /\ [old.calls[j] EXCEPT !.resp = new.calls[j].resp]
                                                     = new.calls[j]]_store
  BY <1>1 DEF Extends
<1> QED
  BY TypeCorrect, LoopCorrect, <1>2, PTL DEF Spec, HistoryKept
-----------------------------------------------------------------------------
(* Tool-call ids                                                           *)

\* The ids of the calls of turns are handed out once, up to n.
Fits(turns, n) ==
  \A i \in DOMAIN turns : \A j \in DOMAIN turns[i].calls :
    /\ turns[i].calls[j].tc \in 1..n
    /\ \A k \in DOMAIN turns : \A l \in DOMAIN turns[k].calls :
         turns[i].calls[j].tc = turns[k].calls[l].tc => i = k /\ j = l

\* The records made so far have ids of their own, up to n, that no turn holds.
Minted(recs, turns, n) ==
  /\ \A i \in DOMAIN recs : recs[i].tc <= n
  /\ \A i \in DOMAIN recs : \A j \in DOMAIN recs :
       recs[i].tc # 0 /\ recs[i].tc = recs[j].tc => i = j
  /\ \A i \in DOMAIN recs : recs[i].tc # 0 =>
       \A k \in DOMAIN turns : \A l \in DOMAIN turns[k].calls :
         turns[k].calls[l].tc # recs[i].tc

\* Calls that do not run side by side are handled from the first to the last.
InOrder ==
  ~UseParallel =>
    \A i \in Unhandled : \A j \in DOMAIN batch.recs : i <= j => batch.recs[j].tc = 0

AllHandled == \A i \in DOMAIN KeptRecords : KeptRecords[i].tc # 0

StoreIds == Fits(store.turns, store.tcc) /\ \A p \in store.pend : p.tc <= store.tcc

BatchIds ==
  /\ pc \in {"tools", "append"} => Minted(batch.recs, store.turns, sess.tcc)
  /\ pc = "tools" => InOrder
  /\ pc = "append" => AllHandled

\* A larger counter covers the same ids.
LEMMA FitsMore ==
  ASSUME NEW turns, NEW n \in Nat, NEW m \in Nat, n <= m, Fits(turns, n)
  PROVE  Fits(turns, m)
BY DEF Fits

\* A turn with responses filled in has the same calls, under the same ids.
LEMMA FilledIds ==
  ASSUME NEW t \in Turn, \A j \in DOMAIN t.calls : t.calls[j] \in Call,
         NEW ids, NEW r \in Responses
  PROVE  /\ DOMAIN FilledTurn(t, ids, r).calls = DOMAIN t.calls
         /\ \A j \in DOMAIN t.calls : FilledTurn(t, ids, r).calls[j].tc = t.calls[j].tc
<1> DEFINE ft == FilledTurn(t, ids, r)
<1>1. /\ [t EXCEPT !.calls = <<>>] = [ft EXCEPT !.calls = <<>>]
      /\ DOMAIN ft.calls = DOMAIN t.calls
      /\ \A j \in DOMAIN t.calls : ft.calls[j] = Filled(t.calls[j], ids, r)
  BY FilledTurnFields
<1>2. ASSUME NEW j \in DOMAIN t.calls PROVE ft.calls[j].tc = t.calls[j].tc
  <2>1. t.calls[j] \in Call /\ ft.calls[j] = Filled(t.calls[j], ids, r)
    BY <1>1
  <2>2. PICK c \in Call : c = t.calls[j]
    BY <2>1
  <2>3. Filled(c, ids, r).tc = c.tc
    BY FilledCall
  <2> HIDE DEF ft
  <2> QED
    BY <2>1, <2>2, <2>3
<1> HIDE DEF ft
<1>3. DOMAIN ft.calls = DOMAIN t.calls /\ \A j \in DOMAIN t.calls : ft.calls[j].tc = t.calls[j].tc
  BY <1>1, <1>2
<1> QED
  BY <1>3 DEF ft

\* Filling in responses keeps the ids.
LEMMA FitsRespond ==
  ASSUME NEW turns \in Seq(Turn), NEW ids, NEW r \in Responses, NEW n \in Nat, Fits(turns, n)
  PROVE  Fits(Respond(turns, ids, r), n)
<1> DEFINE new == Respond(turns, ids, r)
<1>1. DOMAIN new = DOMAIN turns /\ \A i \in DOMAIN turns : new[i] = FilledTurn(turns[i], ids, r)
  BY RespondIsFilled
<1>2. ASSUME NEW i \in DOMAIN turns
      PROVE  /\ DOMAIN new[i].calls = DOMAIN turns[i].calls
             /\ \A j \in DOMAIN turns[i].calls : new[i].calls[j].tc = turns[i].calls[j].tc
  <2>1. /\ turns[i] \in Turn
        /\ \A j \in DOMAIN turns[i].calls : turns[i].calls[j] \in Call
    BY CallsOfTurns
  <2>2. PICK t \in Turn : t = turns[i]
    BY <2>1
  <2>3. \A j \in DOMAIN t.calls : t.calls[j] \in Call
    BY <2>1, <2>2
  <2>4. /\ DOMAIN FilledTurn(t, ids, r).calls = DOMAIN t.calls
        /\ \A j \in DOMAIN t.calls : FilledTurn(t, ids, r).calls[j].tc = t.calls[j].tc
    BY <2>3, FilledIds
  <2>5. new[i] = FilledTurn(t, ids, r)
    BY <1>1, <2>2
  <2> HIDE DEF new
  <2> QED
    BY <2>2, <2>4, <2>5
<1> HIDE DEF new
<1>3. Fits(new, n)
  BY <1>1, <1>2 DEF Fits
<1> QED
  BY <1>3 DEF new

\* A turn whose ids are new and within the counter may be appended.
LEMMA FitsAppend ==
  ASSUME NEW turns \in Seq(Turn), NEW t \in Turn, NEW n \in Nat, Fits(turns, n),
         \A j \in DOMAIN t.calls : t.calls[j].tc \in 1..n,
         \A j \in DOMAIN t.calls : \A l \in DOMAIN t.calls :
           t.calls[j].tc = t.calls[l].tc => j = l,
         \A j \in DOMAIN t.calls : \A k \in DOMAIN turns : \A l \in DOMAIN turns[k].calls :
           turns[k].calls[l].tc # t.calls[j].tc
  PROVE  Fits(Append(turns, t), n)
<1> DEFINE new == Append(turns, t)
<1>0. DOMAIN turns = 1..Len(turns) /\ Len(turns) \in Nat
  BY LenProperties
<1>1. /\ DOMAIN new = 1..(Len(turns) + 1)
      /\ \A i \in 1..Len(turns) : new[i] = turns[i]
      /\ new[Len(turns) + 1] = t
  BY <1>0, AppendProperties, LenProperties
<1> HIDE DEF new
<1>2. ASSUME NEW i \in DOMAIN new, NEW j \in DOMAIN new[i].calls
      PROVE  new[i].calls[j].tc \in 1..n
  <2>1. CASE i \in 1..Len(turns)
    BY <1>0, <1>1, <2>1 DEF Fits
  <2>2. CASE i = Len(turns) + 1
    BY <1>1, <2>2
  <2> QED
    BY <1>0, <1>1, <2>1, <2>2
<1>3. ASSUME NEW i \in DOMAIN new, NEW j \in DOMAIN new[i].calls,
             NEW k \in DOMAIN new, NEW l \in DOMAIN new[k].calls,
             new[i].calls[j].tc = new[k].calls[l].tc
      PROVE  i = k /\ j = l
  <2>1. CASE i \in 1..Len(turns) /\ k \in 1..Len(turns)
    BY <1>0, <1>1, <1>3, <2>1 DEF Fits
  <2>2. CASE i = Len(turns) + 1 /\ k = Len(turns) + 1
    BY <1>1, <1>3, <2>2
  <2>3. CASE i = Len(turns) + 1 /\ k \in 1..Len(turns)
    <3>1. new[i] = t /\ new[k] = turns[k] /\ k \in DOMAIN turns
      BY <1>0, <1>1, <2>3
    <3>2. turns[k].calls[l].tc # t.calls[j].tc
      BY <1>3, <3>1
    <3> QED
      BY <1>3, <3>1, <3>2
  <2>4. CASE i \in 1..Len(turns) /\ k = Len(turns) + 1
    <3>1. new[k] = t /\ new[i] = turns[i] /\ i \in DOMAIN turns
      BY <1>0, <1>1, <2>4
    <3>2. turns[i].calls[j].tc # t.calls[l].tc
      BY <1>3, <3>1
    <3> QED
      BY <1>3, <3>1, <3>2
  <2> QED
    BY <1>0, <1>1, <2>1, <2>2, <2>3, <2>4
<1>4. Fits(new, n)
  BY <1>2, <1>3 DEF Fits
<1> QED
  BY <1>4 DEF new

\* The records a turn keeps are the first ones, up to the first that pauses the run.
LEMMA KeptRecordsPrefix ==
  ASSUME TypeOK
  PROVE  /\ DOMAIN KeptRecords \subseteq DOMAIN batch.recs
         /\ \A i \in DOMAIN KeptRecords : KeptRecords[i] = batch.recs[i]
         /\ PausedAt # {} => \E f \in PausedAt : \A i \in DOMAIN KeptRecords : i <= f
<1>1. /\ batch.recs \in Seq(Call) /\ DOMAIN batch.recs = 1..Len(batch.recs)
      /\ Len(batch.recs) \in Nat
  BY LenProperties DEF TypeOK
<1>2. CASE PausedAt = {}
  BY <1>1, <1>2 DEF KeptRecords
<1>3. CASE PausedAt # {}
  <2> DEFINE First == CHOOSE i \in PausedAt : \A j \in PausedAt : i <= j
  <2>1. PausedAt \subseteq 1..Len(batch.recs)
    BY <1>1 DEF PausedAt
  <2>2. \E i \in PausedAt : \A j \in PausedAt : i <= j
    <3>1. PausedAt \subseteq Nat
      BY <1>1, <2>1
    <3> QED
      BY <1>3, <3>1, LeastNat
  <2>3. First \in PausedAt /\ First \in 1..Len(batch.recs)
    BY <2>1, <2>2
  <2>4. KeptRecords = SubSeq(batch.recs, 1, First)
    BY <1>3 DEF KeptRecords
  <2> HIDE DEF First
  <2>5. First \in Nat
    BY <1>1, <2>3
  <2>6. /\ DOMAIN KeptRecords = 1..First
        /\ \A i \in 1..First : KeptRecords[i] = batch.recs[i]
    BY <1>1, <2>3, <2>4, <2>5
  <2>7. \A i \in DOMAIN KeptRecords : i <= First
    BY <2>5, <2>6
  <2>8. DOMAIN KeptRecords \subseteq DOMAIN batch.recs
    BY <1>1, <2>3, <2>6
  <2> QED
    BY <2>3, <2>6, <2>7, <2>8
<1> QED
  BY <1>2, <1>3
\* The turn being saved holds new ids.
LEMMA NewTurnIds ==
  ASSUME TypeOK, Minted(batch.recs, store.turns, sess.tcc), AllHandled
  PROVE  /\ \A j \in DOMAIN NewTurn.calls : NewTurn.calls[j].tc \in 1..sess.tcc
         /\ \A j \in DOMAIN NewTurn.calls : \A l \in DOMAIN NewTurn.calls :
              NewTurn.calls[j].tc = NewTurn.calls[l].tc => j = l
         /\ \A j \in DOMAIN NewTurn.calls :
              \A k \in DOMAIN store.turns : \A l \in DOMAIN store.turns[k].calls :
                store.turns[k].calls[l].tc # NewTurn.calls[j].tc
<1>1. NewTurn.calls = KeptRecords
  BY DEF NewTurn
<1>2. ASSUME NEW j \in DOMAIN KeptRecords
      PROVE  /\ j \in DOMAIN batch.recs /\ KeptRecords[j] = batch.recs[j]
             /\ KeptRecords[j].tc \in Nat /\ KeptRecords[j].tc # 0
  <2>1. KeptRecords[j] \in Call
    BY KeptRecordsType, ElementOfSeq, LenProperties
  <2> QED
    BY <2>1, KeptRecordsPrefix DEF AllHandled, Call
<1>3. sess.tcc \in Nat
  BY DEF TypeOK, Session
<1>4. ASSUME NEW j \in DOMAIN KeptRecords PROVE KeptRecords[j].tc \in 1..sess.tcc
  BY <1>2, <1>3 DEF Minted
<1>5. ASSUME NEW j \in DOMAIN KeptRecords, NEW l \in DOMAIN KeptRecords,
             KeptRecords[j].tc = KeptRecords[l].tc
      PROVE  j = l
  BY <1>2, <1>5 DEF Minted
<1>6. ASSUME NEW j \in DOMAIN KeptRecords, NEW k \in DOMAIN store.turns,
             NEW l \in DOMAIN store.turns[k].calls
      PROVE  store.turns[k].calls[l].tc # KeptRecords[j].tc
  BY <1>2 DEF Minted
<1> QED
  BY <1>1, <1>4, <1>5, <1>6

\* Whatever a step writes, the stored ids stay unique.
LEMMA StoreIdsStep ==
  ASSUME TypeOK, LoopInv, StoreIds, BatchIds, [Next]_vars
  PROVE  StoreIds'
<1>0. store.turns \in Seq(Turn) /\ store.tcc \in Nat /\ store'.tcc \in Nat
  BY PendingStep DEF TypeOK, Session
<1>1. store.tcc <= store'.tcc
  BY <1>0, PendingStep
<1>2. \A p \in store'.pend : p.tc <= store'.tcc
  BY <1>0, PendingStep DEF StoreIds, HITL
<1>3. CASE store'.turns = store.turns
  BY <1>0, <1>1, <1>2, <1>3, FitsMore DEF StoreIds
<1>4. ASSUME NEW ids, NEW r \in Responses, store'.turns = Respond(store.turns, ids, r)
      PROVE  StoreIds'
  <2>1. Fits(store'.turns, store.tcc)
    BY <1>0, <1>4, FitsRespond DEF StoreIds
  <2> QED
    BY <1>0, <1>1, <1>2, <2>1, FitsMore DEF StoreIds
<1>5. CASE AppendTurn /\ store'.turns = Append(store.turns, NewTurn)
  <2>1. /\ Minted(batch.recs, store.turns, sess.tcc) /\ AllHandled
        /\ sess.tcc = store.tcc
    BY <1>5 DEF AppendTurn, BatchIds, LoopInv, Appending
  <2>2. NewTurn \in Turn
    BY NewTurnType
  <2>3. Fits(Append(store.turns, NewTurn), store.tcc)
    BY <1>0, <2>1, <2>2, NewTurnIds, FitsAppend DEF StoreIds
  <2> QED
    BY <1>0, <1>1, <1>2, <1>5, <2>3, FitsMore DEF StoreIds
<1> QED
  BY <1>3, <1>4, <1>5, StoredTurns

\* Handling call i gives it the next id.
LEMMA MintStep ==
  ASSUME TypeOK, LoopInv, StoreIds, BatchIds, NEW i \in 1..MaxAsked,
         RunServerTool(i) \/ DeferToClient(i)
  PROVE  BatchIds'
<1>1. /\ pc = "tools" /\ pc' = "tools" /\ store' = store /\ batch'.calls = batch.calls
      /\ sess'.tcc = sess.tcc + 1 /\ run'.par = run.par
      /\ i \in Unhandled /\ (UseParallel \/ \A j \in Unhandled : i <= j)
      /\ \E resp : batch'.recs = [batch.recs EXCEPT ![i] = [tc |-> sess.tcc + 1, resp |-> resp]]
  <2>1. sess \in Session /\ run \in Run /\ batch \in [calls : Seq(ToolKinds), recs : Seq(Call)]
    BY DEF TypeOK
  <2>2. CASE RunServerTool(i)
    <3>1. batch' = [batch EXCEPT !.recs[i] = [tc |-> sess.tcc + 1, resp |-> "result"]]
      BY <2>2 DEF RunServerTool
    <3>2. /\ batch'.calls = batch.calls
          /\ batch'.recs = [batch.recs EXCEPT ![i] = [tc |-> sess.tcc + 1, resp |-> "result"]]
      BY <2>1, <3>1
    <3>3. sess'.tcc = sess.tcc + 1
      BY <2>1, <2>2 DEF RunServerTool, Session
    <3> QED
      BY <2>2, <3>2, <3>3 DEF RunServerTool, MayHandle
  <2>3. CASE DeferToClient(i)
    <3>1. batch' = [batch EXCEPT !.recs[i] = [tc |-> sess.tcc + 1, resp |-> ""]]
      BY <2>3 DEF DeferToClient
    <3>2. /\ batch'.calls = batch.calls
          /\ batch'.recs = [batch.recs EXCEPT ![i] = [tc |-> sess.tcc + 1, resp |-> ""]]
      BY <2>1, <3>1
    <3>3. sess'.tcc = sess.tcc + 1
      BY <2>1, <2>3 DEF DeferToClient, Session
    <3>4. run'.par = run.par
      BY <2>1, <2>3 DEF DeferToClient, Run
    <3> QED
      BY <2>3, <3>2, <3>3, <3>4 DEF DeferToClient, MayHandle
  <2> QED
    BY <2>2, <2>3
<1>2. /\ Minted(batch.recs, store.turns, sess.tcc) /\ InOrder /\ Fits(store.turns, store.tcc)
      /\ store.tcc \in Nat /\ sess.tcc \in Nat /\ store.tcc <= sess.tcc
  BY <1>1 DEF BatchIds, StoreIds, LoopInv, Handling, TypeOK, Session
<1>3. /\ batch.recs \in Seq(Call) /\ DOMAIN batch.recs = 1..Len(batch.recs)
      /\ Len(batch.recs) \in Nat
  BY LenProperties DEF TypeOK
<1>4. ASSUME NEW j \in DOMAIN batch.recs PROVE batch.recs[j].tc \in Nat
  <2>1. batch.recs[j] \in Call
    BY <1>3, ElementOfSeq
  <2> QED
    BY <2>1 DEF Call
<1>5. i \in DOMAIN batch.recs
  BY <1>1 DEF Unhandled
<1>6. /\ DOMAIN batch'.recs = DOMAIN batch.recs
      /\ batch'.recs[i].tc = sess.tcc + 1
      /\ \A j \in DOMAIN batch.recs : j # i => batch'.recs[j] = batch.recs[j]
  BY <1>1, <1>5
<1>7. Minted(batch'.recs, store.turns, sess.tcc + 1)
  <2>1. \A j \in DOMAIN batch'.recs : batch'.recs[j].tc <= sess.tcc + 1
    BY <1>2, <1>4, <1>6 DEF Minted
  <2>2. ASSUME NEW j \in DOMAIN batch'.recs, NEW k \in DOMAIN batch'.recs,
               batch'.recs[j].tc # 0, batch'.recs[j].tc = batch'.recs[k].tc
        PROVE  j = k
    <3>1. \A l \in DOMAIN batch.recs : batch.recs[l].tc # sess.tcc + 1
      BY <1>2, <1>4 DEF Minted
    <3> QED
      BY <1>2, <1>6, <2>2, <3>1 DEF Minted
  <2>3. ASSUME NEW j \in DOMAIN batch'.recs, batch'.recs[j].tc # 0,
               NEW k \in DOMAIN store.turns, NEW l \in DOMAIN store.turns[k].calls
        PROVE  store.turns[k].calls[l].tc # batch'.recs[j].tc
    <3>1. CASE j = i
      BY <1>2, <1>6, <3>1 DEF Fits
    <3>2. CASE j # i
      BY <1>2, <1>6, <2>3, <3>2 DEF Minted
    <3> QED
      BY <3>1, <3>2
  <2> QED
    BY <2>1, <2>2, <2>3 DEF Minted
<1>8. UseParallel' <=> UseParallel
  BY <1>1 DEF UseParallel
<1>9. InOrder'
  <2> SUFFICES ASSUME ~UseParallel, NEW k \in Unhandled', NEW j \in DOMAIN batch'.recs, k <= j
               PROVE  batch'.recs[j].tc = 0
    BY <1>8 DEF InOrder
  <2>1. k \in DOMAIN batch.recs /\ k # i /\ batch.recs[k].tc = 0
    BY <1>2, <1>6 DEF Unhandled
  <2>2. k \in Unhandled
    BY <2>1 DEF Unhandled
  <2>3. i <= k /\ i # k /\ i \in Nat /\ k \in Nat /\ j \in Nat
    BY <1>1, <1>3, <1>5, <1>6, <2>1, <2>2
  <2>4. j # i
    BY <2>3
  <2> QED
    BY <1>2, <1>6, <2>2, <2>4 DEF InOrder
<1> QED
  BY <1>1, <1>7, <1>9 DEF BatchIds

\* Once the batch is done, every record the turn keeps has been handled.
LEMMA DoneHandled ==
  ASSUME TypeOK, InOrder, BatchDone
  PROVE  AllHandled
<1>1. /\ batch.recs \in Seq(Call) /\ DOMAIN batch.recs = 1..Len(batch.recs)
      /\ Len(batch.recs) \in Nat
  BY LenProperties DEF TypeOK
<1>2. CASE Unhandled = {}
  BY <1>2, KeptRecordsPrefix DEF AllHandled, Unhandled
<1>3. CASE ~UseParallel /\ PausedAt # {}
  <2>1. PICK f \in PausedAt : \A i \in DOMAIN KeptRecords : i <= f
    BY <1>3, KeptRecordsPrefix
  <2>2. f \in DOMAIN batch.recs /\ batch.recs[f].tc # 0
    BY DEF PausedAt, Paused
  <2>3. ASSUME NEW i \in DOMAIN KeptRecords, KeptRecords[i].tc = 0 PROVE FALSE
    <3>1. i \in DOMAIN batch.recs /\ batch.recs[i].tc = 0 /\ i <= f
      BY <2>1, <2>3, KeptRecordsPrefix
    <3>2. i \in Unhandled
      BY <3>1 DEF Unhandled
    <3> QED
      BY <1>3, <2>2, <3>1, <3>2 DEF InOrder
  <2> QED
    BY <2>3 DEF AllHandled
<1> QED
  BY <1>2, <1>3 DEF BatchDone

\* What the turn in progress knows of its ids.
LEMMA BatchIdsStep ==
  ASSUME TypeOK, LoopInv, StoreIds, BatchIds, [Next]_vars
  PROVE  BatchIds'
<1>1. CASE UNCHANGED vars \/ Cancel \/ Rest
  <2>1. pc' = pc /\ batch' = batch /\ store' = store /\ sess' = sess /\ run' = run
    BY <1>1 DEF vars, Cancel, Rest
  <2>2. InOrder' <=> InOrder
    BY <2>1 DEF InOrder, Unhandled, UseParallel
  <2>3. AllHandled' <=> AllHandled
    BY <2>1 DEF AllHandled, KeptRecords, PausedAt
  <2> QED
    BY <2>1, <2>2, <2>3 DEF BatchIds
<1>2. CASE pc' \notin {"tools", "append"}
  BY <1>2 DEF BatchIds
<1>3. ASSUME NEW m \in Messages, NEW par \in ParallelModes, Submit(m, par) PROVE BatchIds'
  BY <1>2, <1>3 DEF Submit
<1>4. ASSUME NEW answered \in SUBSET store.pend, NEW par \in ParallelModes,
             Resume(answered, par)
      PROVE  BatchIds'
  BY <1>2, <1>4 DEF Resume
<1>5. CASE Begin \/ StartTurn \/ CallFails \/ ReplyInvalid \/ CancelBetweenTools \/ Finish \/ Crash
  BY <1>2, <1>5 DEF Begin, StartTurn, CallFails, ReplyInvalid, CancelBetweenTools, Finish, Crash,
                    Break, Raise
<1>6. CASE ReplyText
  <2>1. pc' = "tools" /\ batch'.recs = <<>>
    BY <1>6 DEF ReplyText, LoopInv, NoBatch
  <2>2. Minted(<<>>, store'.turns, sess'.tcc)
    BY DEF Minted
  <2> QED
    BY <2>1, <2>2 DEF BatchIds, InOrder
<1>7. ASSUME NEW calls \in Requests, ReplyTools(calls) PROVE BatchIds'
  <2>1. /\ pc' = "tools" /\ store' = store /\ sess' = sess
        /\ batch'.recs = [i \in 1..Len(calls) |-> Todo]
    BY <1>7 DEF ReplyTools
  <2>2. sess.tcc \in Nat
    BY DEF TypeOK, Session
  <2>3. \A i \in DOMAIN batch'.recs : batch'.recs[i].tc = 0
    <3>1. Todo.tc = 0
      BY DEF Todo
    <3> QED
      BY <2>1, <3>1
  <2>4. Minted(batch'.recs, store'.turns, sess'.tcc)
    BY <2>1, <2>2, <2>3 DEF Minted
  <2> QED
    BY <2>1, <2>3, <2>4 DEF BatchIds, InOrder
<1>8. ASSUME NEW i \in 1..MaxAsked, RejectApproval(i) PROVE BatchIds'
  BY <1>2, <1>8 DEF RejectApproval, Raise
<1>9. CASE SaveState
  <2>1. /\ pc' = "append" /\ store'.turns = store.turns /\ sess' = sess /\ batch' = batch
        /\ Minted(batch.recs, store.turns, sess.tcc) /\ InOrder /\ BatchDone
    BY <1>9 DEF SaveState, LoopInv, Handling, BatchIds
  <2>2. AllHandled
    BY <2>1, DoneHandled
  <2>3. AllHandled'
    BY <2>1, <2>2 DEF AllHandled, KeptRecords, PausedAt
  <2> QED
    BY <2>1, <2>3 DEF BatchIds
<1>10. CASE AppendTurn \/ TurnEnd
  <2>1. CASE AppendTurn
    BY <1>2, <2>1 DEF AppendTurn, Break
  <2>2. ASSUME NEW m \in Injections, HookInject(m) PROVE BatchIds'
    BY <1>2, <2>2 DEF HookInject, Break
  <2>3. CASE HookStop \/ PauseForHuman
    BY <1>2, <2>3 DEF HookStop, PauseForHuman, Break
  <2>4. CASE EndTurn
    BY <1>2, <2>4 DEF EndTurn, Raise
  <2> QED
    BY <1>10, <2>1, <2>2, <2>3, <2>4 DEF TurnEnd
<1>11. CASE Client
  BY <1>1, <1>3, <1>4, <1>11 DEF Client
<1>12. CASE Reply
  BY <1>5, <1>6, <1>7, <1>12 DEF Reply
<1>13. CASE HandleTool
  BY <1>8, <1>13, MintStep DEF HandleTool
<1> QED
  BY <1>1, <1>5, <1>9, <1>10, <1>11, <1>12, <1>13 DEF Next, Loop

\* Tool-call ids are handed out once, over any number of runs and whatever run dies between
\* saving the counter and appending the turn (runner/agent_runner.py:1274, 271, 320).
THEOREM TcIdsUniqueCorrect == Spec => []TcIdsUnique
<1>1. Init => StoreIds /\ BatchIds
  BY DEF Init, EmptySession, StoreIds, BatchIds, Fits
<1>2. TypeOK /\ LoopInv /\ StoreIds /\ BatchIds /\ [Next]_vars => StoreIds' /\ BatchIds'
  BY StoreIdsStep, BatchIdsStep
<1>3. StoreIds => TcIdsUnique
  BY DEF StoreIds, Fits, TcIdsUnique
<1>4. Spec => [](StoreIds /\ BatchIds)
  BY TypeCorrect, LoopCorrect, <1>1, <1>2, PTL DEF Spec
<1> QED
  BY <1>3, <1>4, PTL

-----------------------------------------------------------------------------
(* Getting on                                                              *)

Stage == [scheduled |-> 5, loop |-> 4, llm |-> 4, tools |-> 3, append |-> 2, turnend |-> 1,
          finish |-> 0]

\* What a run has still to do where it stands: replies that may be rejected, or calls to
\* be handled.
Within ==
  CASE pc = "loop" -> 2 * run.retries + 1
    [] pc = "llm" -> 2 * run.retries
    [] pc = "tools" -> Cardinality(Unhandled)
    [] OTHER -> 0

\* What it has to do in all: turns, stages of the turn, steps of the stage.
Rank == <<TurnLimit - run.used, Stage[pc], Within>>

Ranks == [1 .. 3 -> Nat]

\* The first place in which two ranks differ tells which is lower.
RankOrder == LexProductOrdering(OpToRel(<, Nat), Nat, 3)

\* A run in progress comes closer to its end with every step of its own; no other step
\* takes it further from it.
RunDescends ==
  [][pc # "idle" /\ pc' # "idle" =>
       IF Loop THEN <<Rank', Rank>> \in RankOrder ELSE Rank' = Rank]_vars

LEMMA RankOrderIsWellFounded == IsWellFoundedOn(RankOrder, Ranks)
<1>1. 3 \in Nat
  OBVIOUS
<1> QED
  BY <1>1, NatLessThanWellFounded, WFLexProductOrdering DEF RankOrder, Ranks

LEMMA LowerIs ==
  ASSUME NEW a \in Nat, NEW b \in Nat, NEW c \in Nat, NEW d \in Nat, NEW e \in Nat, NEW f \in Nat,
         a < d \/ (a = d /\ (b < e \/ (b = e /\ c < f)))
  PROVE  <<<<a, b, c>>, <<d, e, f>>>> \in RankOrder
<1> DEFINE r == <<a, b, c>>
           s == <<d, e, f>>
           R == OpToRel(<, Nat)
<1>1. /\ r \in [1 .. 3 -> Nat] /\ s \in [1 .. 3 -> Nat]
      /\ r[1] = a /\ r[2] = b /\ r[3] = c /\ s[1] = d /\ s[2] = e /\ s[3] = f
  OBVIOUS
<1> HIDE DEF r, s
<1>2. \A k, l \in Nat : k < l => <<k, l>> \in R
  BY DEF OpToRel
<1> HIDE DEF R
<1>3. \E j \in 1 .. 3 : (\A i \in 1 .. j - 1 : r[i] = s[i]) /\ <<r[j], s[j]>> \in R
  <2>1. CASE a < d
    <3>1. <<r[1], s[1]>> \in R /\ 1 .. 1 - 1 = {} /\ 1 \in 1 .. 3
      BY <1>1, <1>2, <2>1
    <3> QED
      BY <3>1
  <2>2. CASE a = d /\ b < e
    <3>1. <<r[2], s[2]>> \in R /\ 1 .. 2 - 1 = {1} /\ 2 \in 1 .. 3 /\ r[1] = s[1]
      BY <1>1, <1>2, <2>2
    <3> QED
      BY <3>1
  <2>3. CASE a = d /\ b = e /\ c < f
    <3>1. <<r[3], s[3]>> \in R /\ 1 .. 3 - 1 = {1, 2} /\ 3 \in 1 .. 3
          /\ r[1] = s[1] /\ r[2] = s[2]
      BY <1>1, <1>2, <2>3
    <3> QED
      BY <3>1
  <2> QED
    BY <2>1, <2>2, <2>3
<1>4. <<r, s>> \in [1 .. 3 -> Nat] \X [1 .. 3 -> Nat]
  BY <1>1
<1>5. <<r, s>>[1] = r /\ <<r, s>>[2] = s
  OBVIOUS
<1>6. <<r, s>> \in LexProductOrdering(R, Nat, 3)
  <2>1. \E j \in 1 .. 3 : /\ \A i \in 1 .. j - 1 : <<r, s>>[1][i] = <<r, s>>[2][i]
                          /\ <<<<r, s>>[1][j], <<r, s>>[2][j]>> \in R
    BY <1>3, <1>5
  <2> QED
    BY <1>4, <2>1 DEF LexProductOrdering
<1> QED
  BY <1>6 DEF RankOrder, R, r, s

\* The calls of a batch that wait are finitely many.
LEMMA UnhandledFinite == TypeOK => IsFiniteSet(Unhandled) /\ Cardinality(Unhandled) \in Nat
<1> SUFFICES ASSUME TypeOK
             PROVE  IsFiniteSet(Unhandled)
  BY FS_CardinalityType
<1>1. DOMAIN batch.recs = 1 .. Len(batch.recs) /\ Len(batch.recs) \in Nat
  BY LenProperties DEF TypeOK
<1>2. 1 \in Int /\ Len(batch.recs) \in Int
  BY <1>1
<1>3. IsFiniteSet(1 .. Len(batch.recs))
  BY <1>2, FS_Interval
<1>4. Unhandled \in SUBSET (1 .. Len(batch.recs))
  BY <1>1 DEF Unhandled
<1> QED
  BY <1>3, <1>4, FS_Subset

\* The parts of a run's rank are natural numbers.
RankIsNumbers ==
  /\ TurnLimit - run.used \in Nat
  /\ Stage[pc] \in Nat
  /\ Within \in Nat

LEMMA RankIs == TypeOK /\ LoopInv /\ pc # "idle" => RankIsNumbers
<1> SUFFICES ASSUME TypeOK, LoopInv, pc # "idle"
             PROVE  RankIsNumbers
  OBVIOUS
<1>1. run.used <= TurnLimit
  <2>1. CASE pc = "scheduled"
    BY <2>1, ConfigAssumption DEF LoopInv, Waiting
  <2>2. CASE pc = "finish"
    BY <2>2, Numbers DEF LoopInv, Leaving
  <2>3. CASE pc \in {"loop", "llm", "tools", "append", "turnend"}
    BY <2>3, Numbers DEF LoopInv
  <2> QED
    BY <2>1, <2>2, <2>3 DEF TypeOK
<1>2. TurnLimit - run.used \in Nat
  BY <1>1, Numbers
<1>3. Stage[pc] \in Nat
  BY DEF TypeOK, Stage
<1>4. Within \in Nat
  <2>1. run.retries \in Nat /\ Cardinality(Unhandled) \in Nat
    BY UnhandledFinite DEF TypeOK, Run
  <2> QED
    BY <2>1 DEF Within
<1> QED
  BY <1>2, <1>3, <1>4 DEF RankIsNumbers

\* The ways to come closer to the end.
LEMMA Closer ==
  ASSUME TypeOK, LoopInv, pc # "idle", (TypeOK /\ LoopInv)', pc' # "idle",
         \/ run'.used > run.used
         \/ run'.used = run.used /\ Stage[pc'] < Stage[pc]
         \/ run'.used = run.used /\ pc' = pc /\ Within' < Within
         \/ run'.used = run.used /\ {pc, pc'} = {"loop", "llm"} /\ Within' < Within
  PROVE  <<Rank', Rank>> \in RankOrder
<1>1. /\ TurnLimit - run.used \in Nat /\ Stage[pc] \in Nat /\ Within \in Nat
      /\ run.used \in Nat /\ TurnLimit \in Nat
  BY RankIs, Numbers DEF RankIsNumbers
<1>2. /\ TurnLimit - run'.used \in Nat /\ Stage[pc'] \in Nat /\ Within' \in Nat
  <2>1. (TypeOK /\ LoopInv /\ pc # "idle" => RankIsNumbers)'
    BY RankIs, PTL
  <2> QED
    BY <2>1 DEF RankIsNumbers
<1>3. run'.used \in Nat
  BY DEF TypeOK, Run
<1>4. {pc, pc'} = {"loop", "llm"} => Stage[pc'] = Stage[pc]
  BY DEF Stage
<1>5. Rank = <<TurnLimit - run.used, Stage[pc], Within>>
      /\ Rank' = <<TurnLimit - run'.used, Stage[pc'], Within'>>
  BY DEF Rank
<1> DEFINE a == TurnLimit - run'.used
           d == TurnLimit - run.used
<1>6. (run'.used > run.used => a < d) /\ (run'.used = run.used => a = d)
  BY <1>1, <1>3
<1>7. a < d \/ (a = d /\ (Stage[pc'] < Stage[pc] \/ (Stage[pc'] = Stage[pc] /\ Within' < Within)))
  <2> HIDE DEF a, d
  <2> QED
    BY <1>4, <1>6
<1> QED
  BY <1>1, <1>2, <1>5, <1>7, LowerIs

\* next_tc_index counts before it is read.
LEMMA NextTcIs == ASSUME TypeOK PROVE sess.tcc + 1 # 0
<1>1. \A n \in Nat : n + 1 # 0
  OBVIOUS
<1> QED
  BY <1>1, Numbers

\* A call that is handled has an id, so one fewer waits.
LEMMA HandledOnce ==
  ASSUME TypeOK, TypeOK', NEW i \in Unhandled,
         DOMAIN batch'.recs = DOMAIN batch.recs, batch'.recs[i].tc # 0,
         \A j \in DOMAIN batch.recs : j # i => batch'.recs[j] = batch.recs[j]
  PROVE  Cardinality(Unhandled') < Cardinality(Unhandled)
<1>1. Unhandled' = Unhandled \ {i}
  BY DEF Unhandled
<1>2. IsFiniteSet(Unhandled) /\ Cardinality(Unhandled) \in Nat
  BY UnhandledFinite
<1>3. Cardinality(Unhandled \ {i}) = Cardinality(Unhandled) - 1
  BY <1>2, FS_RemoveElement
<1> QED
  BY <1>1, <1>2, <1>3

\* Before the turn, and while the model is asked.
LEMMA AskingDescends ==
  ASSUME TypeOK, LoopInv, (TypeOK /\ LoopInv)', Begin \/ StartTurn \/ Reply
  PROVE  <<Rank', Rank>> \in RankOrder
<1>1. pc # "idle" /\ pc' # "idle" /\ run.retries \in Nat /\ run'.used = run.used
  BY DEF Begin, StartTurn, Reply, CallFails, ReplyInvalid, ReplyText, ReplyTools, Raise,
         Break, TypeOK, Run
<1>2. CASE Begin
  <2>1. Stage[pc'] < Stage[pc]
    BY <1>2 DEF Begin, Stage
  <2> QED
    BY <1>1, <2>1, Closer
<1>3. CASE StartTurn
  <2>1. CASE pc' = "finish"
    <3>1. Stage[pc'] < Stage[pc]
      BY <1>3, <2>1 DEF StartTurn, Stage
    <3> QED
      BY <1>1, <3>1, Closer
  <2>2. CASE pc' = "llm"
    <3>1. pc = "loop" /\ run' = run
      BY <1>3, <2>2 DEF StartTurn, Break, Raise
    <3>2. Within = 2 * run.retries + 1 /\ Within' = 2 * run.retries
      BY <2>2, <3>1 DEF Within
    <3>3. Within' < Within
      BY <1>1, <3>2
    <3> QED
      BY <1>1, <2>2, <3>1, <3>3, Closer
  <2> QED
    BY <1>3, <2>1, <2>2 DEF StartTurn, Break, Raise
<1>4. CASE Reply
  <2>1. pc = "llm"
    BY <1>4 DEF Reply, CallFails, ReplyInvalid, ReplyText, ReplyTools
  <2>2. CASE pc' \in {"tools", "finish"}
    <3>1. Stage[pc'] < Stage[pc]
      BY <2>1, <2>2 DEF Stage
    <3> QED
      BY <1>1, <3>1, Closer
  <2>3. CASE pc' = "loop"
    <3>1. run.retries > 0 /\ run'.retries = run.retries - 1
      BY <1>4, <2>3 DEF Reply, CallFails, ReplyInvalid, ReplyText, ReplyTools, Raise, TypeOK, Run
    <3>2. Within = 2 * run.retries /\ Within' = 2 * run'.retries + 1
      BY <2>1, <2>3 DEF Within
    <3>3. Within' < Within
      BY <1>1, <3>1, <3>2
    <3> QED
      BY <1>1, <2>1, <2>3, <3>3, Closer
  <2> QED
    BY <1>4, <2>2, <2>3 DEF Reply, CallFails, ReplyInvalid, ReplyText, ReplyTools, Raise
<1> QED
  BY <1>2, <1>3, <1>4

\* While calls are handled.
LEMMA HandlingDescends ==
  ASSUME TypeOK, LoopInv, (TypeOK /\ LoopInv)', HandleTool \/ CancelBetweenTools
  PROVE  <<Rank', Rank>> \in RankOrder
<1>1. pc = "tools" /\ pc' \in {"tools", "finish"} /\ run'.used = run.used
  BY DEF HandleTool, RunServerTool, DeferToClient, RejectApproval, MayHandle,
         CancelBetweenTools, Raise, TypeOK, Run
<1>2. CASE pc' = "finish"
  <2>1. Stage[pc'] < Stage[pc]
    BY <1>1, <1>2 DEF Stage
  <2> QED
    BY <1>1, <1>2, <2>1, Closer
<1>3. CASE pc' = "tools"
  <2>1. PICK i \in 1 .. MaxAsked : RunServerTool(i) \/ DeferToClient(i)
    BY <1>3 DEF HandleTool, RejectApproval, CancelBetweenTools, Raise
  <2>2. i \in Unhandled /\ i \in DOMAIN batch.recs
    BY <2>1 DEF RunServerTool, DeferToClient, MayHandle, Unhandled
  <2>3. PICK r \in {"result", ""} :
           batch' = [batch EXCEPT !.recs[i] = [tc |-> sess.tcc + 1, resp |-> r]]
    BY <2>1 DEF RunServerTool, DeferToClient
  <2>4. /\ DOMAIN batch'.recs = DOMAIN batch.recs
        /\ batch'.recs[i] = [tc |-> sess.tcc + 1, resp |-> r]
        /\ \A j \in DOMAIN batch.recs : j # i => batch'.recs[j] = batch.recs[j]
    BY <2>2, <2>3 DEF TypeOK
  <2>5. batch'.recs[i].tc # 0
    <3>1. ASSUME NEW n, NEW c, c = [tc |-> n, resp |-> r]
          PROVE  c.tc = n
      BY <3>1
    <3> QED
      BY <2>4, <3>1, NextTcIs
  <2>6. Cardinality(Unhandled') < Cardinality(Unhandled)
    BY <2>2, <2>4, <2>5, HandledOnce
  <2>7. Within = Cardinality(Unhandled) /\ Within' = Cardinality(Unhandled')
    BY <1>1, <1>3 DEF Within
  <2> QED
    BY <1>1, <1>3, <2>6, <2>7, Closer
<1> QED
  BY <1>1, <1>2, <1>3

\* When the turn is stored and after it.
LEMMA TurnDescends ==
  ASSUME TypeOK, LoopInv, (TypeOK /\ LoopInv)', SaveState \/ AppendTurn \/ TurnEnd
  PROVE  <<Rank', Rank>> \in RankOrder
<1>1. run.used \in Nat
  BY Numbers
<1>2. /\ pc # "idle" /\ pc' # "idle"
      /\ \/ run'.used = run.used /\ Stage[pc'] < Stage[pc]
         \/ run'.used = run.used + 1
  <2>1. ASSUME NEW status, NEW used, Break(status, used)
        PROVE  pc' = "finish" /\ run'.used = used
    BY <2>1, LeaveFields
  <2>2. CASE SaveState
    BY <2>2 DEF SaveState, Stage
  <2>3. CASE AppendTurn
    <3>1. pc = "append" /\ pc' \in {"turnend", "finish"} /\ run'.used = run.used
      BY <2>1, <2>3 DEF AppendTurn
    <3> QED
      BY <3>1 DEF Stage
  <2>4. CASE HookStop \/ PauseForHuman
    <3>1. pc = "turnend" /\ pc' = "finish" /\ run'.used = run.used
      BY <2>1, <2>4 DEF HookStop, PauseForHuman
    <3> QED
      BY <3>1 DEF Stage
  <2>5. ASSUME NEW m \in Injections, HookInject(m)
        PROVE  run'.used = run.used + 1 /\ pc = "turnend" /\ pc' = "loop"
    BY <2>5 DEF HookInject, TypeOK, Run
  <2>6. CASE EndTurn
    <3>1. pc = "turnend" /\ pc' \in {"finish", "loop"}
      BY <2>6 DEF EndTurn, Raise
    <3>2. run'.used = run.used + 1 \/ (run'.used = run.used /\ pc' = "finish")
      BY <2>6 DEF EndTurn, Raise, TypeOK, Run
    <3> QED
      BY <3>1, <3>2 DEF Stage
  <2> QED
    BY <2>2, <2>3, <2>5, <2>6, <2>4 DEF TurnEnd
<1>3. run'.used = run.used + 1 => run'.used > run.used
  BY <1>1
<1> QED
  BY <1>2, <1>3, Closer

LEMMA LoopDescends ==
  ASSUME TypeOK, LoopInv, (TypeOK /\ LoopInv)', Loop, pc # "idle", pc' # "idle"
  PROVE  <<Rank', Rank>> \in RankOrder
BY AskingDescends, HandlingDescends, TurnDescends DEF Loop, Finish

LEMMA OthersStay ==
  ASSUME [Next]_vars, ~Loop, pc # "idle", pc' # "idle"
  PROVE  Rank' = Rank
<1>1. UNCHANGED <<pc, run, batch>>
  BY DEF Next, Client, Submit, Resume, Cancel, Crash, Rest, vars
<1> QED
  BY <1>1 DEF Rank, Within, Unhandled

(***************************************************************************)
(* No run goes on for ever, whatever the model answers, the hook decides   *)
(* and the client does meanwhile: each step of a run takes it down an      *)
(* order in which nothing descends without end.  A rejected reply costs a  *)
(* retry, which only an accepted one gives back, and that turn is then     *)
(* stored and counted; a call handled is not handled again.                *)
(* (_run_loop, runner/agent_runner.py:870-1560)                            *)
(***************************************************************************)
THEOREM NoRunIsEndless == IsWellFoundedOn(RankOrder, Ranks) /\ (Spec => RunDescends)
<1>1. TypeOK /\ LoopInv /\ (TypeOK /\ LoopInv)' /\ [Next]_vars =>
        [pc # "idle" /\ pc' # "idle" =>
           IF Loop THEN <<Rank', Rank>> \in RankOrder ELSE Rank' = Rank]_vars
  BY LoopDescends, OthersStay
<1>2. Spec => RunDescends
  BY <1>1, TypeCorrect, LoopCorrect, PTL DEF Spec, RunDescends
<1> QED
  BY <1>2, RankOrderIsWellFounded
=============================================================================
