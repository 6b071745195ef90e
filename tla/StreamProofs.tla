---------------------------- MODULE StreamProofs ----------------------------
(***************************************************************************)
(* Streams that are cut in pieces and put together again, for every value  *)
(* of the constants: a call of a media engine, a session's events replayed *)
(* to readers that come and go, and an answer of the LLM.                  *)
(***************************************************************************)
EXTENDS EngineStream, StreamReplay, LlmCall, OrderedProofs, FiniteSetTheorems, SequenceTheorems, TLAPS

-----------------------------------------------------------------------------
(***************************************************************************)
(* EngineStream.  A complete call is a whole one: for any calls, replicas, *)
(* threads and number of chunks, with engines that lock and engines that   *)
(* do not.                                                                 *)
(***************************************************************************)

Items == {"chunk", "exc", "end"}
ClientStates == {"new", "waiting", "sending", "got", "failed", "gone"}
WorkStates == {"none", "queued", "locking", "running", "closing", "over"}

EngineTypeOK ==
    /\ eClient \in [Calls -> ClientStates]
    /\ eWork \in [Calls -> WorkStates]
    /\ eIsStream \in [Calls -> BOOLEAN]
    /\ eStop \in [Calls -> BOOLEAN]
    /\ eRaised \in [Calls -> BOOLEAN]
    /\ eQueue \in [Calls -> Seq(Items)]
    /\ eMade \in [Calls -> Nat] /\ eTaken \in [Calls -> Nat]
    /\ eBacklog \in Seq(Calls)

\* Chunks the engine has made and the client has not taken.
Owed(c) == eMade[c] - eTaken[c]

Listening(c) == eClient[c] \in {"new", "waiting", "sending"}

\* While the client listens, its queue is what it is owed, then the outcome if the
\* worker is done.
InQueue(c) ==
    Listening(c) =>
        /\ ~eStop[c]
        /\ Owed(c) \in Nat /\ Owed(c) <= Len(eQueue[c])
        /\ \A i \in 1 .. Owed(c) : eQueue[c][i] = "chunk"
        /\ eWork[c] # "over" => Len(eQueue[c]) = Owed(c)
        /\ eWork[c] = "over" =>
              /\ Len(eQueue[c]) > Owed(c)
              /\ eQueue[c][Owed(c) + 1] = IF eRaised[c] THEN "exc" ELSE "end"

\* Before the call nothing runs, and before its end nothing has raised.
Begun(c) ==
    /\ eClient[c] = "new" => eWork[c] = "none"
    /\ eWork[c] \notin {"closing", "over"} => ~eRaised[c]

\* What the client was told.
Told(c) == eClient[c] = "got" => /\ eWork[c] = "over"
                                 /\ ~eRaised[c] /\ eTaken[c] = eMade[c]

CallInv(c) == InQueue(c) /\ Begun(c) /\ Told(c)

EngineInv == EngineTypeOK /\ \A c \in Calls : CallInv(c)

-----------------------------------------------------------------------------
\* What a call's invariant reads.
OfCall(c) ==
    <<eClient[c], eWork[c], eStop[c], eRaised[c], eQueue[c], eMade[c], eTaken[c]>>

LEMMA OthersKeep ==
    ASSUME NEW c \in Calls, CallInv(c), UNCHANGED OfCall(c)
    PROVE  CallInv(c)'
BY DEF CallInv, InQueue, Begun, Told, Listening, Owed, OfCall

LEMMA EngineInitially == EngineInit => EngineInv
<1> SUFFICES ASSUME EngineInit
             PROVE  EngineInv
    OBVIOUS
<1>1. EngineTypeOK
    BY DEF EngineInit, EngineTypeOK, ClientStates, WorkStates
<1>2. ASSUME NEW c \in Calls
      PROVE  CallInv(c)
    BY DEF EngineInit, CallInv, InQueue, Begun, Told, Listening, Owed
<1> QED
    BY <1>1, <1>2 DEF EngineInv

LEMMA ClientCallKeeps ==
    ASSUME EngineInv, NEW c \in Calls, ClientCall(c)
    PROVE  EngineInv'
<1>1. EngineTypeOK'
    BY AppendProperties DEF EngineInv, EngineTypeOK, ClientCall, ClientStates, WorkStates
<1>2. CallInv(c)'
    BY DEF EngineInv, EngineTypeOK, CallInv, InQueue, Begun, Told, Listening, Owed, ClientCall
<1>3. ASSUME NEW d \in Calls, d # c
      PROVE  CallInv(d)'
  <2>1. UNCHANGED OfCall(d)
      BY <1>3 DEF EngineInv, EngineTypeOK, ClientCall, OfCall
  <2> QED
      BY <2>1, OthersKeep DEF EngineInv
<1> QED
    BY <1>1, <1>2, <1>3 DEF EngineInv

\* The client takes a chunk, or the outcome after the last chunk.
LEMMA ClientTakeKeeps ==
    ASSUME EngineInv, NEW c \in Calls, ClientTake(c)
    PROVE  EngineInv'
<1> DEFINE item == Head(eQueue[c])
<1>1. /\ eQueue[c] \in Seq(Items) /\ eQueue[c] # <<>> /\ item \in Items
      /\ item = eQueue[c][1] /\ Len(eQueue[c]) \in Nat /\ Len(eQueue[c]) > 0
      /\ Tail(eQueue[c]) \in Seq(Items) /\ Len(Tail(eQueue[c])) = Len(eQueue[c]) - 1
      /\ \A i \in 1 .. Len(Tail(eQueue[c])) : Tail(eQueue[c])[i] = eQueue[c][i + 1]
    BY HeadTailProperties, LenProperties DEF EngineInv, EngineTypeOK, ClientTake
<1>2. /\ eClient[c] = "waiting"
      /\ eQueue' = [eQueue EXCEPT ![c] = Tail(@)]
      /\ eClient' = [eClient EXCEPT ![c] = After[item]]
      /\ eTaken' = [eTaken EXCEPT ![c] = IF item = "chunk" THEN @ + 1 ELSE @]
      /\ eStop' = [eStop EXCEPT ![c] = item # "chunk" /\ eIsStream[c]]
      /\ UNCHANGED <<eWork, eIsStream, eRaised, eMade, eBacklog>>
    BY DEF ClientTake
<1>3. /\ InQueue(c) /\ Begun(c) /\ Listening(c) /\ EngineTypeOK
      /\ Owed(c) \in Nat /\ eMade[c] \in Nat /\ eTaken[c] \in Nat
    BY <1>2 DEF EngineInv, EngineTypeOK, CallInv, InQueue, Listening
<1> HIDE DEF item
<1>4. EngineTypeOK'
    BY <1>1, <1>2, <1>3 DEF EngineTypeOK, After, Items, ClientStates
<1>5. eQueue'[c] = Tail(eQueue[c])
    BY <1>2, <1>3 DEF EngineTypeOK
<1>6. CallInv(c)'
  <2>1. CASE Owed(c) > 0
    <3>1. item = "chunk"
        BY <1>1, <1>3, <2>1 DEF InQueue
    <3>2. /\ eClient'[c] = "sending" /\ ~eStop'[c] /\ eTaken'[c] = eTaken[c] + 1
        BY <1>2, <1>3, <3>1 DEF EngineTypeOK, After
    <3>3. Owed(c)' = Owed(c) - 1
        BY <1>2, <1>3, <3>2 DEF Owed
    <3> DEFINE n == Owed(c)
    <3>4. n \in Nat /\ n > 0 /\ n - 1 \in Nat /\ Owed(c)' = n - 1 /\ n <= Len(eQueue[c])
        BY <1>3, <2>1, <3>3 DEF InQueue
    <3>5. \A i \in 1 .. n : eQueue[c][i] = "chunk"
        BY <1>3 DEF InQueue
    <3>6. \A i \in 1 .. n - 1 : eQueue'[c][i] = "chunk"
      <4>1. ASSUME NEW i \in 1 .. n - 1
            PROVE  i \in 1 .. Len(Tail(eQueue[c])) /\ i + 1 \in 1 .. n
          BY <1>1, <3>4
      <4> QED
          BY <1>1, <1>5, <3>5, <4>1
    <3>7. eWork[c] # "over" => Len(eQueue'[c]) = n - 1
        BY <1>1, <1>3, <1>5 DEF InQueue
    <3>8. ASSUME eWork[c] = "over"
          PROVE  /\ Len(eQueue'[c]) > n - 1
                 /\ eQueue'[c][(n - 1) + 1] = IF eRaised[c] THEN "exc" ELSE "end"
      <4>1. /\ Len(eQueue[c]) > n
            /\ eQueue[c][n + 1] = IF eRaised[c] THEN "exc" ELSE "end"
          BY <1>3, <3>8 DEF InQueue
      <4>2. n \in 1 .. Len(Tail(eQueue[c])) /\ (n - 1) + 1 = n
          BY <1>1, <3>4, <4>1
      <4> QED
          BY <1>1, <1>5, <3>4, <4>1, <4>2
    <3>9. n - 1 <= Len(eQueue'[c])
        BY <1>1, <1>5, <3>4
    <3> HIDE DEF n
    <3>10. InQueue(c)'
      <4>1. /\ ~eStop'[c] /\ Owed(c)' \in Nat /\ Owed(c)' <= Len(eQueue'[c])
            /\ \A i \in 1 .. Owed(c)' : eQueue'[c][i] = "chunk"
          BY <3>2, <3>4, <3>6, <3>9
      <4>2. /\ eWork'[c] # "over" => Len(eQueue'[c]) = Owed(c)'
            /\ eWork'[c] = "over" =>
                  /\ Len(eQueue'[c]) > Owed(c)'
                  /\ eQueue'[c][Owed(c)' + 1] = IF eRaised'[c] THEN "exc" ELSE "end"
          BY <1>2, <3>4, <3>7, <3>8
      <4> QED
          BY <4>1, <4>2 DEF InQueue
    <3> QED
        BY <1>2, <1>3, <3>2, <3>10 DEF CallInv, Begun, Told
  <2>2. CASE Owed(c) = 0
    <3>1. eWork[c] = "over" /\ item = IF eRaised[c] THEN "exc" ELSE "end"
        BY <1>1, <1>3, <2>2 DEF InQueue
    <3>2. /\ eClient'[c] = IF eRaised[c] THEN "failed" ELSE "got"
          /\ eTaken'[c] = eTaken[c]
        BY <1>2, <1>3, <3>1 DEF EngineTypeOK, After
    <3>3. eTaken[c] = eMade[c]
        BY <1>3, <2>2 DEF Owed
    <3> QED
        BY <1>2, <3>1, <3>2, <3>3 DEF CallInv, InQueue, Listening, Begun, Told
  <2> QED
      BY <1>3, <2>1, <2>2
<1>7. ASSUME NEW d \in Calls, d # c
      PROVE  CallInv(d)'
  <2>1. UNCHANGED OfCall(d)
      BY <1>2, <1>3, <1>7 DEF EngineTypeOK, OfCall
  <2> QED
      BY <2>1, OthersKeep DEF EngineInv
<1> QED
    BY <1>4, <1>6, <1>7 DEF EngineInv

LEMMA ClientResumeKeeps ==
    ASSUME EngineInv, NEW c \in Calls, ClientResume(c)
    PROVE  EngineInv'
<1>1. EngineTypeOK'
    BY DEF EngineInv, EngineTypeOK, ClientResume, ClientStates
<1>2. CallInv(c)'
    BY DEF EngineInv, EngineTypeOK, CallInv, InQueue, Begun, Told, Listening, Owed, ClientResume
<1>3. ASSUME NEW d \in Calls, d # c
      PROVE  CallInv(d)'
  <2>1. UNCHANGED OfCall(d)
      BY <1>3 DEF EngineInv, EngineTypeOK, ClientResume, OfCall
  <2> QED
      BY <2>1, OthersKeep DEF EngineInv
<1> QED
    BY <1>1, <1>2, <1>3 DEF EngineInv

LEMMA ClientLeaveKeeps ==
    ASSUME EngineInv, NEW c \in Calls, ClientLeave(c)
    PROVE  EngineInv'
<1>1. /\ eClient' = [eClient EXCEPT ![c] = "gone"]
      /\ eStop' = [eStop EXCEPT ![c] = eIsStream[c]]
      /\ eWork' = [eWork EXCEPT ![c] = "over"] \/ eWork' = eWork
      /\ UNCHANGED <<eIsStream, eRaised, eQueue, eMade, eTaken, eBacklog>>
    BY DEF ClientLeave
<1>2. EngineTypeOK'
    BY <1>1 DEF EngineInv, EngineTypeOK, ClientStates, WorkStates
<1>3. eClient'[c] = "gone" /\ (eWork'[c] = eWork[c] \/ eWork'[c] = "over")
    BY <1>1 DEF EngineInv, EngineTypeOK
<1>4. CallInv(c)'
    BY <1>1, <1>3 DEF EngineInv, CallInv, InQueue, Begun, Told, Listening
<1>5. ASSUME NEW d \in Calls, d # c
      PROVE  CallInv(d)'
  <2>1. UNCHANGED OfCall(d)
      BY <1>1, <1>5 DEF EngineInv, EngineTypeOK, OfCall
  <2> QED
      BY <2>1, OthersKeep DEF EngineInv
<1> QED
    BY <1>2, <1>4, <1>5 DEF EngineInv

-----------------------------------------------------------------------------
LEMMA WorkerStartKeeps ==
    ASSUME EngineInv, WorkerStart
    PROVE  EngineInv'
<1>1. PICK c \in Calls : c = Head(eBacklog) /\ Tail(eBacklog) \in Seq(Calls)
    BY HeadTailProperties DEF EngineInv, EngineTypeOK, WorkerStart
<1>2. /\ eWork' = [eWork EXCEPT ![c] = IF @ = "queued" THEN "locking" ELSE @]
      /\ eBacklog' = Tail(eBacklog)
      /\ UNCHANGED <<eClient, eIsStream, eStop, eRaised, eQueue, eMade, eTaken>>
    BY <1>1 DEF WorkerStart
<1>3. EngineTypeOK'
    BY <1>1, <1>2 DEF EngineInv, EngineTypeOK, WorkStates
<1>4. eWork'[c] = IF eWork[c] = "queued" THEN "locking" ELSE eWork[c]
    BY <1>2 DEF EngineInv, EngineTypeOK
<1>5. CallInv(c)'
    BY <1>2, <1>4 DEF EngineInv, CallInv, InQueue, Begun, Told, Listening, Owed
<1>6. ASSUME NEW d \in Calls, d # c
      PROVE  CallInv(d)'
  <2>1. UNCHANGED OfCall(d)
      BY <1>2, <1>6 DEF EngineInv, EngineTypeOK, OfCall
  <2> QED
      BY <2>1, OthersKeep DEF EngineInv
<1> QED
    BY <1>3, <1>5, <1>6 DEF EngineInv

LEMMA WorkerRunsKeep ==
    ASSUME EngineInv, NEW c \in Calls, WorkerLock(c) \/ WorkerLeave(c)
    PROVE  EngineInv'
<1>1. /\ eWork[c] \in {"locking", "running"}
      /\ \/ eWork' = [eWork EXCEPT ![c] = "running"] /\ eRaised' = eRaised
         \/ /\ eWork' = [eWork EXCEPT ![c] = "closing"]
            /\ \E raises \in BOOLEAN : eRaised' = [eRaised EXCEPT ![c] = raises]
      /\ UNCHANGED <<eClient, eIsStream, eStop, eQueue, eMade, eTaken, eBacklog>>
    BY DEF WorkerLock, WorkerLeave
<1>2. EngineTypeOK'
    BY <1>1 DEF EngineInv, EngineTypeOK, WorkStates
<1>3. \/ eWork'[c] = "running" /\ eRaised'[c] = eRaised[c]
      \/ eWork'[c] = "closing"
    BY <1>1 DEF EngineInv, EngineTypeOK
<1>4. CallInv(c)'
    BY <1>1, <1>3 DEF EngineInv, CallInv, InQueue, Begun, Told, Listening, Owed
<1>5. ASSUME NEW d \in Calls, d # c
      PROVE  CallInv(d)'
  <2>1. UNCHANGED OfCall(d)
      BY <1>1, <1>5 DEF EngineInv, EngineTypeOK, OfCall
  <2> QED
      BY <2>1, OthersKeep DEF EngineInv
<1> QED
    BY <1>2, <1>4, <1>5 DEF EngineInv

\* A chunk is owed and queued, unless the client has gone.
LEMMA WorkerChunkKeeps ==
    ASSUME EngineInv, NEW c \in Calls, WorkerChunk(c)
    PROVE  EngineInv'
<1>1. /\ eWork[c] = "running"
      /\ eMade' = [eMade EXCEPT ![c] = @ + 1]
      /\ \/ /\ eStop[c] /\ eQueue' = eQueue
            /\ eWork' = [eWork EXCEPT ![c] = "closing"]
         \/ /\ ~eStop[c] /\ eWork' = eWork
            /\ eQueue' = [eQueue EXCEPT ![c] = Append(@, "chunk")]
      /\ UNCHANGED <<eClient, eIsStream, eStop, eRaised, eTaken, eBacklog>>
    BY DEF WorkerChunk
<1>2. /\ EngineTypeOK /\ CallInv(c)
      /\ eQueue[c] \in Seq(Items) /\ eMade[c] \in Nat /\ eTaken[c] \in Nat
    BY DEF EngineInv, EngineTypeOK
<1>3. /\ Append(eQueue[c], "chunk") \in Seq(Items)
      /\ Len(eQueue[c]) \in Nat
      /\ Len(Append(eQueue[c], "chunk")) = Len(eQueue[c]) + 1
      /\ \A i \in 1 .. Len(eQueue[c]) : Append(eQueue[c], "chunk")[i] = eQueue[c][i]
      /\ Append(eQueue[c], "chunk")[Len(eQueue[c]) + 1] = "chunk"
    BY <1>2, AppendProperties, LenProperties DEF Items
<1>4. EngineTypeOK'
  <2>1. eMade' \in [Calls -> Nat]
      BY <1>1, <1>2 DEF EngineTypeOK
  <2>2. eQueue' \in [Calls -> Seq(Items)]
      BY <1>1, <1>2, <1>3 DEF EngineTypeOK
  <2>3. eWork' \in [Calls -> WorkStates]
      BY <1>1, <1>2 DEF EngineTypeOK, WorkStates
  <2> QED
      BY <1>1, <1>2, <2>1, <2>2, <2>3 DEF EngineTypeOK
<1>5. CallInv(c)'
  <2>1. CASE ~Listening(c)
    <3>1. eClient[c] # "new" /\ eClient'[c] = eClient[c] /\ eClient[c] # "got"
        BY <1>1, <1>2, <2>1 DEF CallInv, Listening, Told
    <3>2. eWork'[c] \in {"running", "closing"} /\ ~eRaised'[c]
        BY <1>1, <1>2 DEF EngineTypeOK, CallInv, Begun
    <3> QED
        BY <1>1, <2>1, <3>1, <3>2 DEF CallInv, InQueue, Begun, Told, Listening
  <2>2. CASE Listening(c)
    <3>1. /\ ~eStop[c] /\ eWork' = eWork
          /\ eQueue'[c] = Append(eQueue[c], "chunk")
          /\ Len(eQueue[c]) = Owed(c) /\ Owed(c) \in Nat
          /\ \A i \in 1 .. Owed(c) : eQueue[c][i] = "chunk"
        BY <1>1, <1>2, <2>2 DEF EngineTypeOK, CallInv, InQueue
    <3>2. Owed(c)' = Owed(c) + 1
        BY <1>1, <1>2 DEF EngineTypeOK, Owed
    <3> DEFINE n == Owed(c)
    <3>3. n \in Nat /\ Owed(c)' = n + 1 /\ Len(eQueue'[c]) = n + 1
        BY <1>3, <3>1, <3>2
    <3>4. \A i \in 1 .. n + 1 : eQueue'[c][i] = "chunk"
      <4>1. ASSUME NEW i \in 1 .. n + 1
            PROVE  i \in 1 .. n \/ i = n + 1
          BY <3>3
      <4> QED
          BY <1>3, <3>1, <4>1
    <3> HIDE DEF n
    <3>5. InQueue(c)'
        BY <1>1, <3>1, <3>3, <3>4 DEF InQueue
    <3> QED
        BY <1>1, <1>2, <3>1, <3>5 DEF CallInv, Begun, Told
  <2> QED
      BY <2>1, <2>2
<1>6. ASSUME NEW d \in Calls, d # c
      PROVE  CallInv(d)'
  <2>1. UNCHANGED OfCall(d)
      BY <1>1, <1>2, <1>6 DEF EngineTypeOK, OfCall
  <2> QED
      BY <2>1, OthersKeep DEF EngineInv
<1> QED
    BY <1>4, <1>5, <1>6 DEF EngineInv

\* The outcome comes after the chunks, a failure before END.
LEMMA WorkerFinishKeeps ==
    ASSUME EngineInv, NEW c \in Calls, WorkerFinish(c)
    PROVE  EngineInv'
<1>1. /\ eWork[c] = "closing"
      /\ eWork' = [eWork EXCEPT ![c] = "over"]
      /\ eQueue' = [eQueue EXCEPT ![c] = @ \o Closing(c)]
      /\ UNCHANGED <<eClient, eIsStream, eStop, eRaised, eMade, eTaken, eBacklog>>
    BY DEF WorkerFinish
<1>2. EngineTypeOK /\ CallInv(c) /\ eQueue[c] \in Seq(Items)
    BY DEF EngineInv, EngineTypeOK
<1>3. /\ Closing(c) \in Seq(Items) /\ Len(Closing(c)) \in {1, 2}
      /\ Closing(c)[1] = IF eRaised[c] THEN "exc" ELSE "end"
  <2>1. CASE eRaised[c]
    <3>1. Closing(c) = <<"exc", "end">>
        BY <2>1 DEF Closing
    <3> QED
        BY <2>1, <3>1 DEF Items
  <2>2. CASE ~eRaised[c]
    <3>1. Closing(c) = <<"end">>
        BY <2>2 DEF Closing
    <3> QED
        BY <2>2, <3>1 DEF Items
  <2> QED
      BY <2>1, <2>2
<1>4. /\ eQueue[c] \o Closing(c) \in Seq(Items)
      /\ Len(eQueue[c]) \in Nat
      /\ Len(eQueue[c] \o Closing(c)) = Len(eQueue[c]) + Len(Closing(c))
      /\ \A i \in 1 .. Len(eQueue[c]) + Len(Closing(c)) :
            (eQueue[c] \o Closing(c))[i] =
                IF i <= Len(eQueue[c]) THEN eQueue[c][i]
                ELSE Closing(c)[i - Len(eQueue[c])]
    BY <1>2, <1>3, ConcatProperties, LenProperties
<1>5. EngineTypeOK'
    BY <1>1, <1>2, <1>4 DEF EngineTypeOK, WorkStates
<1>6. eQueue'[c] = eQueue[c] \o Closing(c) /\ eWork'[c] = "over"
    BY <1>1, <1>2 DEF EngineTypeOK
<1>7. ASSUME Listening(c)
      PROVE  InQueue(c)'
  <2> DEFINE n == Owed(c)
  <2>1. /\ ~eStop[c] /\ n \in Nat /\ Len(eQueue[c]) = n
        /\ \A i \in 1 .. n : eQueue[c][i] = "chunk"
      BY <1>1, <1>2, <1>7 DEF CallInv, InQueue
  <2>2. Owed(c)' = n
      BY <1>1 DEF Owed
  <2>3. \A i \in 1 .. n : eQueue'[c][i] = "chunk"
    <3>1. ASSUME NEW i \in 1 .. n
          PROVE  i \in 1 .. Len(eQueue[c]) + Len(Closing(c)) /\ i <= Len(eQueue[c])
        BY <1>3, <2>1
    <3> QED
        BY <1>4, <1>6, <2>1, <3>1
  <2>4. /\ Len(eQueue'[c]) > n
        /\ eQueue'[c][n + 1] = IF eRaised[c] THEN "exc" ELSE "end"
    <3>1. /\ n + 1 \in 1 .. Len(eQueue[c]) + Len(Closing(c))
          /\ ~(n + 1 <= Len(eQueue[c])) /\ (n + 1) - Len(eQueue[c]) = 1
        BY <1>3, <2>1
    <3> QED
        BY <1>3, <1>4, <1>6, <2>1, <3>1
  <2>5. Len(eQueue'[c]) >= n
      BY <1>3, <1>4, <1>6, <2>1
  <2> HIDE DEF n
  <2> QED
      BY <1>1, <1>6, <2>1, <2>2, <2>3, <2>4, <2>5 DEF InQueue
<1>8. CallInv(c)'
    BY <1>1, <1>2, <1>6, <1>7 DEF CallInv, InQueue, Begun, Told, Listening
<1>9. ASSUME NEW d \in Calls, d # c
      PROVE  CallInv(d)'
  <2>1. UNCHANGED OfCall(d)
      BY <1>1, <1>2, <1>9 DEF EngineTypeOK, OfCall
  <2> QED
      BY <2>1, OthersKeep DEF EngineInv
<1> QED
    BY <1>5, <1>8, <1>9 DEF EngineInv

LEMMA EngineStep == EngineInv /\ [EngineNext]_engineVars => EngineInv'
<1> SUFFICES ASSUME EngineInv, [EngineNext]_engineVars
             PROVE  EngineInv'
    OBVIOUS
<1>1. CASE WorkerStart
    BY <1>1, WorkerStartKeeps
<1>2. ASSUME NEW c \in Calls,
             ClientCall(c) \/ ClientTake(c) \/ ClientResume(c) \/ ClientLeave(c)
      PROVE  EngineInv'
    BY <1>2, ClientCallKeeps, ClientTakeKeeps, ClientResumeKeeps, ClientLeaveKeeps
<1>3. ASSUME NEW c \in Calls,
             WorkerLock(c) \/ WorkerChunk(c) \/ WorkerLeave(c) \/ WorkerFinish(c)
      PROVE  EngineInv'
    BY <1>3, WorkerRunsKeep, WorkerChunkKeeps, WorkerFinishKeeps
<1>4. CASE UNCHANGED engineVars
  <2>1. EngineTypeOK'
      BY <1>4 DEF engineVars, EngineInv, EngineTypeOK
  <2>2. ASSUME NEW c \in Calls
        PROVE  CallInv(c)'
    <3>1. UNCHANGED OfCall(c)
        BY <1>4 DEF engineVars, OfCall
    <3> QED
        BY <3>1, OthersKeep DEF EngineInv
  <2> QED
      BY <2>1, <2>2 DEF EngineInv
<1> QED
    BY <1>1, <1>2, <1>3, <1>4 DEF EngineNext

(***************************************************************************)
(* A client that is told its call is complete has all the engine made, and *)
(* the engine did not fail (stream_engine, run_engine).                    *)
(***************************************************************************)
THEOREM CompleteIsWhole == EngineSpec => []CompleteMeansAll
<1>1. EngineSpec => []EngineInv
    BY EngineInitially, EngineStep, PTL DEF EngineSpec
<1>2. EngineInv => CompleteMeansAll
    BY DEF EngineInv, CallInv, Told, CompleteMeansAll
<1> QED
    BY <1>1, <1>2, PTL

\* A call that was submitted is with a thread or still in the executor's queue.
InLine(c) ==
    /\ eClient[c] \in {"waiting", "sending"} => eWork[c] # "none"
    /\ eWork[c] = "queued" => \E i \in DOMAIN eBacklog : eBacklog[i] = c

AllInLine == \A c \in Calls : InLine(c)

\* Some step that is never put off for ever can be taken.
CanGoOn ==
    \/ eBacklog # <<>> /\ Cardinality(Busy) < Workers
    \/ \E c \in Calls : eClient[c] = "waiting" /\ eQueue[c] # <<>>
    \/ \E c \in Calls : eClient[c] = "sending"
    \/ \E c \in Calls : eWork[c] = "locking" /\ LockFree(c)
    \/ \E c \in Calls : eWork[c] \in {"running", "closing"}

\* While a client has no outcome, not everyone waits for someone else.
GoesOn == \A c \in Calls : eClient[c] \in {"waiting", "sending"} => CanGoOn

LEMMA QueueingKeepsLine ==
    ASSUME EngineTypeOK, AllInLine, NEW c \in Calls, ClientCall(c)
    PROVE  AllInLine'
<1>1. /\ eBacklog' = Append(eBacklog, c) /\ eBacklog \in Seq(Calls) /\ Len(eBacklog) \in Nat
      /\ Len(eBacklog') = Len(eBacklog) + 1 /\ eBacklog'[Len(eBacklog) + 1] = c
      /\ DOMAIN eBacklog = 1 .. Len(eBacklog) /\ DOMAIN eBacklog' = 1 .. Len(eBacklog) + 1
      /\ \A i \in 1 .. Len(eBacklog) : eBacklog'[i] = eBacklog[i]
  BY AppendProperties, LenProperties DEF EngineTypeOK, ClientCall
<1>2. /\ eWork'[c] = "queued"
      /\ \A d \in Calls : d # c => eWork'[d] = eWork[d] /\ eClient'[d] = eClient[d]
  BY DEF EngineTypeOK, ClientCall
<1>3. Len(eBacklog) + 1 \in DOMAIN eBacklog'
  BY <1>1
<1>4. InLine(c)'
  BY <1>1, <1>2, <1>3 DEF InLine
<1>5. ASSUME NEW d \in Calls, d # c
      PROVE  InLine(d)'
  <2>1. \A i \in DOMAIN eBacklog : i \in DOMAIN eBacklog' /\ eBacklog'[i] = eBacklog[i]
    BY <1>1
  <2> QED
    BY <1>2, <1>5, <2>1 DEF AllInLine, InLine
<1> QED
  BY <1>4, <1>5 DEF AllInLine

LEMMA StartingKeepsLine ==
    ASSUME EngineTypeOK, AllInLine, WorkerStart
    PROVE  AllInLine'
<1>1. PICK first : first = Head(eBacklog)
  OBVIOUS
<1>2. /\ eBacklog \in Seq(Calls) /\ eBacklog # <<>> /\ eBacklog' = Tail(eBacklog)
      /\ first = eBacklog[1] /\ first \in Calls /\ Len(eBacklog) \in Nat /\ Len(eBacklog) >= 1
      /\ Len(eBacklog') = Len(eBacklog) - 1 /\ eBacklog' \in Seq(Calls)
      /\ \A i \in 1 .. Len(eBacklog) - 1 : eBacklog'[i] = eBacklog[i + 1]
  BY <1>1, HeadTailProperties, EmptySeq DEF EngineTypeOK, WorkerStart
<1>3. eWork' = [eWork EXCEPT ![first] = IF @ = "queued" THEN "locking" ELSE @]
      /\ eClient' = eClient /\ eWork \in [Calls -> WorkStates]
  BY <1>1 DEF EngineTypeOK, WorkerStart
<1>4. /\ eWork'[first] # "queued" /\ (eWork[first] # "none" => eWork'[first] # "none")
      /\ \A d \in Calls : d # first => eWork'[d] = eWork[d]
  BY <1>2, <1>3
<1>5. InLine(first)'
  BY <1>2, <1>3, <1>4 DEF AllInLine, InLine
<1>6. ASSUME NEW d \in Calls, d # first
      PROVE  InLine(d)'
  <2>1. ASSUME NEW i \in DOMAIN eBacklog, eBacklog[i] = d
        PROVE  i - 1 \in DOMAIN eBacklog' /\ eBacklog'[i - 1] = d
    <3>1. i \in 1 .. Len(eBacklog) /\ i # 1
      BY <1>2, <1>6, <2>1, LenProperties
    <3>2. i - 1 \in 1 .. Len(eBacklog) - 1 /\ (i - 1) + 1 = i
      BY <1>2, <3>1
    <3> QED
      BY <1>2, <2>1, <3>2, LenProperties
  <2> QED
    BY <1>3, <1>4, <1>6, <2>1 DEF AllInLine, InLine
<1> QED
  BY <1>5, <1>6 DEF AllInLine

\* No other step puts a call in the executor's queue or takes one from it.
LEMMA OthersKeepLine ==
    ASSUME EngineTypeOK, AllInLine, eBacklog' = eBacklog,
           \A c \in Calls : /\ eWork'[c] = "queued" => eWork[c] = "queued"
                            /\ eWork'[c] = "none" => eWork[c] = "none"
                            /\ eClient'[c] \in {"waiting", "sending"} =>
                                  eClient[c] \in {"waiting", "sending"}
    PROVE  AllInLine'
BY DEF AllInLine, InLine

LEMMA LineStep == EngineInv /\ AllInLine /\ [EngineNext]_engineVars => AllInLine'
<1> SUFFICES ASSUME EngineInv, AllInLine, [EngineNext]_engineVars
             PROVE  AllInLine'
  OBVIOUS
<1>1. EngineTypeOK
  BY DEF EngineInv
<1>2. CASE WorkerStart
  BY <1>1, <1>2, StartingKeepsLine
<1>3. ASSUME NEW c \in Calls, ClientCall(c)
      PROVE  AllInLine'
  BY <1>1, <1>3, QueueingKeepsLine
<1>4. ASSUME NEW c \in Calls, ClientTake(c) \/ ClientResume(c) \/ ClientLeave(c)
      PROVE  AllInLine'
  <2>1. /\ eBacklog' = eBacklog
        /\ eWork' = eWork \/ eWork' = [eWork EXCEPT ![c] = "over"]
        /\ eClient[c] \in {"waiting", "sending"} /\ \E s : eClient' = [eClient EXCEPT ![c] = s]
    BY <1>4 DEF ClientTake, ClientResume, ClientLeave
  <2>2. \A d \in Calls : /\ eWork'[d] = eWork[d] \/ eWork'[d] = "over"
                         /\ d # c => eClient'[d] = eClient[d]
    BY <1>1, <2>1 DEF EngineTypeOK
  <2> QED
    BY <1>1, <2>1, <2>2, OthersKeepLine
<1>5. ASSUME NEW c \in Calls,
             WorkerLock(c) \/ WorkerChunk(c) \/ WorkerLeave(c) \/ WorkerFinish(c)
      PROVE  AllInLine'
  <2>1. /\ eBacklog' = eBacklog /\ eClient' = eClient
        /\ \/ eWork' = eWork
           \/ \E s \in {"running", "closing", "over"} : eWork' = [eWork EXCEPT ![c] = s]
    BY <1>5 DEF WorkerLock, WorkerChunk, WorkerLeave, WorkerFinish
  <2>2. \A d \in Calls : eWork'[d] = eWork[d] \/ eWork'[d] \in {"running", "closing", "over"}
    BY <1>1, <2>1 DEF EngineTypeOK
  <2> QED
    BY <1>1, <2>1, <2>2, OthersKeepLine
<1>6. CASE UNCHANGED engineVars
  BY <1>6 DEF engineVars, AllInLine, InLine
<1> QED
  BY <1>2, <1>3, <1>4, <1>5, <1>6 DEF EngineNext

LEMMA SomeoneMoves == EngineInv /\ AllInLine => GoesOn
<1> SUFFICES ASSUME EngineInv, AllInLine, NEW c \in Calls,
                    eClient[c] \in {"waiting", "sending"}, ~CanGoOn
             PROVE  FALSE
  BY DEF GoesOn
<1>1. EngineTypeOK /\ InQueue(c) /\ InLine(c)
  BY DEF EngineInv, CallInv, AllInLine
<1>2. eClient[c] = "waiting" /\ eQueue[c] = <<>>
  BY DEF CanGoOn
<1>3. eWork[c] # "over"
  <2>1. Listening(c) /\ Len(eQueue[c]) = 0
    BY <1>2 DEF Listening
  <2> QED
    BY <1>1, <2>1 DEF InQueue
<1>4. \A d \in Calls : eWork[d] \notin {"running", "closing"}
  BY DEF CanGoOn
<1>5. \A d \in Calls : eWork[d] # "locking"
  BY <1>4 DEF CanGoOn, LockFree
<1>6. eWork[c] = "queued"
  BY <1>1, <1>2, <1>3, <1>4, <1>5 DEF EngineTypeOK, WorkStates, InLine
<1>7. eBacklog # <<>>
  BY <1>1, <1>6 DEF InLine
<1>8. Cardinality(Busy) = 0
  <2>1. Busy = {}
    BY <1>4, <1>5 DEF Busy
  <2> QED
    BY <2>1, FS_EmptySet
<1> QED
  BY <1>7, <1>8, EngineAssumption DEF CanGoOn

(***************************************************************************)
(* As long as a client waits for its answer or is sent a chunk, some step  *)
(* of the loop, of a thread or of an engine can be taken: threads that     *)
(* wait for a replica's lock, calls in line for a thread and clients that  *)
(* wait for both never all wait for each other, however few the threads.   *)
(* (server/services/base.py:66-117, server/pool.py:48-52)                  *)
(***************************************************************************)
THEOREM EngineNeverStuck == EngineSpec => []GoesOn
<1>1. EngineInit => AllInLine
  BY DEF EngineInit, AllInLine, InLine
<1> QED
  BY <1>1, EngineInitially, EngineStep, LineStep, SomeoneMoves, PTL DEF EngineSpec

-----------------------------------------------------------------------------
(***************************************************************************)
(* StreamReplay.  The events of a buffer that one run wrote increase, and  *)
(* none is above the run's number; so what a reader has still to be sent   *)
(* increases and is above its cursor, whenever it took it from the buffer. *)
(***************************************************************************)
ReplayBuffers == [events : Seq(Nat), done : BOOLEAN, signal : BOOLEAN, writers : SUBSET Runs]
ReaderStates == {"new", "refused", "attached", "failed", "sending", "waiting", "woken",
                 "over", "left"}
ReplayReaders == [state : ReaderStates, buffer : Nat, after : Nat, cursor : Nat,
                  pending : Seq(Nat), got : Seq(Nat)]

ReplayTypeOK ==
    /\ pBuffers \in Seq(ReplayBuffers)
    /\ pCurrent \in 0 .. Len(pBuffers)
    /\ pRuns \in [Runs -> [state : {"new", "open", "over"}, seq : Nat]]
    /\ pMade \in Nat /\ pSaved \in Nat
    /\ pReaders \in [Readers -> ReplayReaders]
    /\ \A d \in Readers : pReaders[d].buffer \in 0 .. Len(pBuffers)

Increasing(s) == \A i, j \in DOMAIN s : i < j => s[i] < s[j]

\* At most one run.
Lone(writers) == \A q, r \in writers : q = r

BufferInv(buffer, runs) ==
    /\ \A r \in buffer.writers : runs[r].state # "new"
    /\ buffer.writers = {} => buffer.events = <<>>
    /\ Lone(buffer.writers) =>
          /\ Increasing(buffer.events)
          /\ \A i \in DOMAIN buffer.events, r \in buffer.writers :
                buffer.events[i] <= runs[r].seq

\* Events that may be sent to a reader that has seen those up to the cursor.
Follows(pending, cursor) == Increasing(pending) /\ \A k \in DOMAIN pending : pending[k] > cursor

SentInOrder(reader) ==
    /\ \A i \in DOMAIN reader.got :
          reader.got[i] > IF i = 1 THEN reader.after ELSE reader.got[i - 1]
    /\ reader.cursor = IF reader.got = <<>> THEN reader.after ELSE reader.got[Len(reader.got)]

ReaderInv(reader) ==
    /\ reader.state \in {"new", "attached"} => reader.buffer = 0
    /\ reader.state \in {"sending", "waiting", "woken"} => reader.buffer # 0
    /\ reader.state = "new" => reader.got = <<>> /\ reader.pending = <<>>
    /\ reader.buffer = 0 \/ Lone(pBuffers[reader.buffer].writers) =>
          SentInOrder(reader) /\ Follows(reader.pending, reader.cursor)

BuffersInv == \A b \in 1 .. Len(pBuffers) : BufferInv(pBuffers[b], pRuns)
ReadersInv == \A d \in Readers : ReaderInv(pReaders[d])
ReplayInv == ReplayTypeOK /\ BuffersInv /\ ReadersInv

LEMMA LoneWriters ==
    ASSUME NEW writers \in SUBSET Runs, Cardinality(writers) <= 1
    PROVE  Lone(writers)
<1>1. MaxRuns \in Int /\ 1 \in Int
  BY ReplayAssumption
<1>2. IsFiniteSet(Runs)
  BY <1>1, FS_Interval DEF Runs
<1>3. IsFiniteSet(writers) /\ Cardinality(writers) \in Nat
  BY <1>2, FS_Subset, FS_CardinalityType
<1>4. CASE Cardinality(writers) = 0
  BY <1>3, <1>4, FS_EmptySet DEF Lone
<1>5. CASE Cardinality(writers) = 1
  BY <1>3, <1>5, FS_Singleton DEF Lone
<1> QED
  BY <1>3, <1>4, <1>5

LEMMA SnapshotFollows ==
    ASSUME NEW buffer \in ReplayBuffers, NEW cursor \in Nat
    PROVE  /\ Snapshot(buffer, cursor) \in Seq(Nat)
           /\ Increasing(buffer.events) => Follows(Snapshot(buffer, cursor), cursor)
<1> DEFINE events == buffer.events
           places == {i \in DOMAIN events : events[i] > cursor}
           pending == Snapshot(buffer, cursor)
<1>1. events \in Seq(Nat)
  BY DEF ReplayBuffers
<1>2. pending = AtPlaces(events, places) /\ places \in SUBSET DOMAIN events
      /\ \A p \in places : events[p] > cursor
  BY DEF Snapshot
<1> HIDE DEF events, places, pending
<1>3. /\ pending \in Seq(Nat)
      /\ \A k \in DOMAIN pending : \E p \in places : pending[k] = events[p]
      /\ \A j, k \in DOMAIN pending :
            j < k => \E p, q \in places : p < q /\ pending[j] = events[p] /\ pending[k] = events[q]
  BY <1>1, <1>2, AtPlacesIs
<1>4. Increasing(events) => Increasing(pending)
  BY <1>2, <1>3 DEF Increasing
<1>5. \A k \in DOMAIN pending : pending[k] > cursor
  BY <1>2, <1>3
<1> QED
  BY <1>3, <1>4, <1>5 DEF Follows, events, pending

\* One event is sent: the first of those pending.
LEMMA YieldKeeps ==
    ASSUME NEW reader \in ReplayReaders, NEW pending \in Seq(Nat), pending # <<>>
    PROVE  LET next == [reader EXCEPT !.state = "sending", !.pending = Tail(pending),
                                      !.cursor = Head(pending),
                                      !.got = Append(@, Head(pending))]
           IN  /\ next \in ReplayReaders /\ next.buffer = reader.buffer
               /\ next.state = "sending"
               /\ SentInOrder(reader) /\ Follows(pending, reader.cursor) =>
                     SentInOrder(next) /\ Follows(next.pending, next.cursor)
<1> DEFINE event == Head(pending)
           next == [reader EXCEPT !.state = "sending", !.pending = Tail(pending),
                                  !.cursor = event, !.got = Append(@, event)]
<1>1. /\ event \in Nat /\ Tail(pending) \in Seq(Nat) /\ event = pending[1]
      /\ Len(pending) \in Nat /\ Len(pending) >= 1 /\ Len(Tail(pending)) = Len(pending) - 1
      /\ \A k \in 1 .. Len(pending) - 1 : Tail(pending)[k] = pending[k + 1]
  BY EmptySeq, HeadTailProperties
<1>2. reader.got \in Seq(Nat) /\ Len(reader.got) \in Nat
  BY DEF ReplayReaders
<1>3. /\ Append(reader.got, event) \in Seq(Nat)
      /\ Len(Append(reader.got, event)) = Len(reader.got) + 1
      /\ Append(reader.got, event)[Len(reader.got) + 1] = event
      /\ \A i \in 1 .. Len(reader.got) : Append(reader.got, event)[i] = reader.got[i]
  BY <1>1, <1>2
<1> HIDE DEF event
<1>4. /\ next \in ReplayReaders /\ next.state = "sending" /\ next.buffer = reader.buffer
      /\ next.after = reader.after /\ next.cursor = event
      /\ next.pending = Tail(pending) /\ next.got = Append(reader.got, event)
  BY <1>1, <1>3 DEF ReplayReaders, ReaderStates
<1> HIDE DEF next
<1>5. ASSUME SentInOrder(reader), Follows(pending, reader.cursor)
      PROVE  SentInOrder(next)
  <2>1. event > reader.cursor
    BY <1>1, <1>5 DEF Follows
  <2>2. next.got # <<>> /\ next.got[Len(next.got)] = event
    <3>1. next.got \in Seq(Nat) /\ Len(next.got) = Len(reader.got) + 1 /\ Len(next.got) # 0
      BY <1>2, <1>3, <1>4
    <3>2. next.got # <<>>
      BY <3>1, EmptySeq
    <3> QED
      BY <1>3, <1>4, <3>1, <3>2
  <2>3. ASSUME NEW i \in DOMAIN next.got
        PROVE  next.got[i] > IF i = 1 THEN next.after ELSE next.got[i - 1]
    <3>1. DOMAIN next.got = 1 .. Len(reader.got) + 1 /\ DOMAIN reader.got = 1 .. Len(reader.got)
      BY <1>2, <1>3, <1>4
    <3>2. CASE i \in 1 .. Len(reader.got)
      <4>1. reader.got[i] > IF i = 1 THEN reader.after ELSE reader.got[i - 1]
        BY <1>5, <3>1, <3>2 DEF SentInOrder
      <4>2. i = 1 \/ i - 1 \in 1 .. Len(reader.got)
        BY <1>2, <3>2
      <4>3. next.got[i] = reader.got[i] /\ (i # 1 => next.got[i - 1] = reader.got[i - 1])
        BY <1>3, <1>4, <3>2, <4>2
      <4> QED
        BY <1>4, <4>1, <4>3
    <3>3. CASE i = Len(reader.got) + 1
      <4>1. CASE reader.got = <<>>
        BY <1>3, <1>4, <1>5, <2>1, <3>3, <4>1, EmptySeq DEF SentInOrder
      <4>2. CASE reader.got # <<>>
        <5>1. Len(reader.got) >= 1
          BY <1>2, <4>2, EmptySeq
        <5> QED
          BY <1>2, <1>3, <1>4, <1>5, <2>1, <3>3, <4>2, <5>1 DEF SentInOrder
      <4> QED
        BY <4>1, <4>2
    <3> QED
      BY <1>2, <3>1, <3>2, <3>3
  <2> QED
    BY <1>4, <2>2, <2>3 DEF SentInOrder
<1>6. ASSUME Follows(pending, reader.cursor)
      PROVE  Follows(next.pending, next.cursor)
  <2>1. DOMAIN next.pending = 1 .. Len(pending) - 1 /\ DOMAIN pending = 1 .. Len(pending)
    BY <1>1, <1>4
  <2>2. ASSUME NEW k \in DOMAIN next.pending
        PROVE  k + 1 \in DOMAIN pending /\ next.pending[k] = pending[k + 1]
    BY <1>1, <1>4, <2>1
  <2>3. Increasing(next.pending)
    BY <1>6, <2>1, <2>2 DEF Increasing, Follows
  <2>4. \A k \in DOMAIN next.pending : next.pending[k] > event
    BY <1>1, <1>6, <2>1, <2>2 DEF Increasing, Follows
  <2> QED
    BY <1>4, <2>3, <2>4 DEF Follows
<1> QED
  BY <1>4, <1>5, <1>6 DEF next, event

LEMMA ReplayInit_ == ReplayInit => ReplayInv
<1> SUFFICES ASSUME ReplayInit
             PROVE  ReplayInv
  OBVIOUS
<1>1. pBuffers = <<>> /\ Len(pBuffers) = 0 /\ pBuffers \in Seq(ReplayBuffers)
  BY DEF ReplayInit
<1>2. <<>> \in Seq(Nat)
  OBVIOUS
<1> DEFINE reader == [state |-> "new", buffer |-> 0, after |-> 0, cursor |-> 0,
                      pending |-> <<>>, got |-> <<>>]
<1>3. reader \in ReplayReaders /\ reader.buffer = 0
  BY <1>2 DEF ReplayReaders, ReaderStates
<1>4. ReaderInv(reader)
  <2>1. /\ reader.state = "new" /\ reader.got = <<>> /\ reader.pending = <<>>
        /\ reader.after = reader.cursor
        /\ DOMAIN <<>> = {}
    OBVIOUS
  <2> HIDE DEF reader
  <2> QED
    BY <1>3, <2>1 DEF ReaderInv, SentInOrder, Follows, Increasing
<1> HIDE DEF reader
<1>5. \A d \in Readers : pReaders[d] = reader
  BY DEF ReplayInit, reader
<1>6. pReaders \in [Readers -> ReplayReaders]
  BY <1>3 DEF ReplayInit, reader
<1>7. pRuns \in [Runs -> [state : {"new", "open", "over"}, seq : Nat]]
  BY DEF ReplayInit
<1>8. pCurrent = 0 /\ pMade = 0 /\ pSaved = 0
  BY DEF ReplayInit
<1>9. ReplayTypeOK
  BY <1>1, <1>3, <1>5, <1>6, <1>7, <1>8 DEF ReplayTypeOK
<1>10. BuffersInv
  BY <1>1 DEF BuffersInv
<1>11. ReadersInv
  BY <1>4, <1>5 DEF ReadersInv
<1> QED
  BY <1>9, <1>10, <1>11 DEF ReplayInv

\* A record of one run's progress; what the runs' other fields allow does not matter.
RunRecords == [state : {"new", "open", "over"}, seq : Nat]

\* What the deque keeps of a list that increases increases, and is of the list.
LEMMA KeepIs ==
    ASSUME NEW events \in Seq(Nat), events # <<>>
    PROVE  /\ Keep(events) \in Seq(Nat)
           /\ Increasing(events) => Increasing(Keep(events))
           /\ \A i \in DOMAIN Keep(events) : \E j \in DOMAIN events : Keep(events)[i] = events[j]
<1>1. Len(events) \in Nat /\ Len(events) >= 1
  BY EmptySeq
<1> DEFINE from == IF Len(events) > Retained THEN 2 ELSE 1
<1>2. from \in 1 .. Len(events) + 1 /\ from \in Nat /\ from >= 1 /\ from <= 2
  BY <1>1, ReplayAssumption
<1>3. Keep(events) = SubSeq(events, from, Len(events))
  BY DEF Keep
<1> HIDE DEF from
<1>4. /\ Keep(events) \in Seq(Nat)
      /\ Len(Keep(events)) = IF from <= Len(events) THEN Len(events) - from + 1 ELSE 0
      /\ \A i \in 1 .. Len(events) - from + 1 : Keep(events)[i] = events[from + i - 1]
  BY <1>1, <1>2, <1>3, SubSeqProperties
<1>5. ASSUME NEW i \in DOMAIN Keep(events)
      PROVE  from + i - 1 \in DOMAIN events /\ Keep(events)[i] = events[from + i - 1] /\ i \in Nat
  <2>1. DOMAIN Keep(events) = 1 .. Len(Keep(events)) /\ DOMAIN events = 1 .. Len(events)
    BY <1>4
  <2>2. i \in 1 .. Len(events) - from + 1
    BY <1>1, <1>2, <1>4, <2>1
  <2>3. Keep(events)[i] = events[from + i - 1]
    BY <1>4, <2>2
  <2>4. from + i - 1 \in 1 .. Len(events) /\ i \in Nat
    BY <1>1, <1>2, <2>2
  <2> QED
    BY <2>1, <2>3, <2>4
<1>6. Increasing(events) => Increasing(Keep(events))
  <2> SUFFICES ASSUME Increasing(events), NEW i \in DOMAIN Keep(events),
                      NEW j \in DOMAIN Keep(events), i < j
               PROVE  Keep(events)[i] < Keep(events)[j]
    BY DEF Increasing
  <2>1. i \in Nat /\ j \in Nat
    BY <1>5
  <2>2. from + i - 1 < from + j - 1
    BY <1>2, <2>1
  <2> QED
    BY <1>5, <2>2 DEF Increasing
<1> QED
  BY <1>4, <1>5, <1>6

\* A new number above the others, appended, then the oldest dropped.
LEMMA RecordKeeps ==
    ASSUME NEW buffer \in ReplayBuffers, NEW runs \in [Runs -> RunRecords], NEW r \in Runs,
           BufferInv(buffer, runs), runs[r].state = "open",
           NEW next \in [Runs -> RunRecords],
           next = [runs EXCEPT ![r].seq = @ + 1]
    PROVE  LET written == [buffer EXCEPT !.events = Keep(Append(@, next[r].seq)),
                                         !.signal = TRUE, !.writers = @ \cup {r}]
           IN  written \in ReplayBuffers /\ BufferInv(written, next)
<1> DEFINE seq == next[r].seq
           events == Append(buffer.events, seq)
           written == [buffer EXCEPT !.events = Keep(Append(@, next[r].seq)),
                                     !.signal = TRUE, !.writers = @ \cup {r}]
<1>1. /\ seq \in Nat /\ runs[r].seq \in Nat /\ seq = runs[r].seq + 1 /\ next[r].state = "open"
      /\ \A q \in Runs : q # r => next[q] = runs[q]
  BY DEF RunRecords
<1> HIDE DEF seq
<1>2. /\ buffer.events \in Seq(Nat) /\ buffer.writers \in SUBSET Runs
      /\ written.events = Keep(events) /\ written.writers = buffer.writers \cup {r}
      /\ written.signal = TRUE /\ written.done = buffer.done /\ buffer.done \in BOOLEAN
  BY DEF ReplayBuffers, seq
<1>3. /\ events \in Seq(Nat) /\ Len(buffer.events) \in Nat
      /\ Len(events) = Len(buffer.events) + 1 /\ events[Len(events)] = seq
      /\ \A i \in 1 .. Len(buffer.events) : events[i] = buffer.events[i]
      /\ DOMAIN buffer.events = 1 .. Len(buffer.events) /\ DOMAIN events = 1 .. Len(events)
  BY <1>1, <1>2
<1>4. events # <<>>
  BY <1>3, EmptySeq
<1> HIDE DEF events
<1>5. /\ Keep(events) \in Seq(Nat)
      /\ Increasing(events) => Increasing(Keep(events))
      /\ \A i \in DOMAIN Keep(events) : \E j \in DOMAIN events : Keep(events)[i] = events[j]
  BY <1>3, <1>4, KeepIs
<1>6. written \in ReplayBuffers
  BY <1>2, <1>5 DEF ReplayBuffers, events, seq
<1> HIDE DEF written
<1>7. \A q \in written.writers : next[q].state # "new"
  BY <1>1, <1>2 DEF BufferInv
<1>8. ASSUME Lone(written.writers)
      PROVE  /\ Increasing(written.events)
             /\ \A i \in DOMAIN written.events, q \in written.writers :
                   written.events[i] <= next[q].seq
  <2>1. Lone(buffer.writers) /\ written.writers = {r}
    BY <1>2, <1>8 DEF Lone
  <2>2. \A i \in DOMAIN buffer.events : buffer.events[i] < seq
    <3>1. CASE buffer.writers = {}
      BY <1>3, <3>1, EmptySeq DEF BufferInv
    <3>2. CASE buffer.writers = {r}
      <4>1. \A i \in DOMAIN buffer.events : buffer.events[i] <= runs[r].seq
                                            /\ buffer.events[i] \in Nat
        BY <1>2, <2>1, <3>2 DEF BufferInv
      <4> QED
        BY <1>1, <4>1
    <3> QED
      BY <1>2, <2>1, <3>1, <3>2
  <2>3. Increasing(buffer.events)
    BY <2>1 DEF BufferInv
  <2>4. /\ \A j \in DOMAIN events : j \in DOMAIN buffer.events \/ j = Len(events)
        /\ \A j \in DOMAIN buffer.events : j < Len(events) /\ events[j] = buffer.events[j]
                                            /\ events[j] \in Nat
    BY <1>2, <1>3
  <2>5. \A j \in DOMAIN events : events[j] <= seq
    BY <1>1, <1>3, <2>2, <2>4
  <2>6. ASSUME NEW i \in DOMAIN events, NEW j \in DOMAIN events, i < j
        PROVE  events[i] < events[j]
    <3>1. i \in DOMAIN buffer.events
      BY <1>3, <2>4, <2>6
    <3>2. CASE j \in DOMAIN buffer.events
      BY <2>3, <2>4, <2>6, <3>1, <3>2 DEF Increasing
    <3>3. CASE j = Len(events)
      BY <1>3, <2>2, <2>4, <3>1, <3>3
    <3> QED
      BY <2>4, <3>2, <3>3
  <2>7. Increasing(events)
    BY <2>6 DEF Increasing
  <2> QED
    BY <1>2, <1>5, <2>1, <2>5, <2>7 DEF seq
<1> QED
  BY <1>2, <1>6, <1>7, <1>8 DEF BufferInv, written

(***************************************************************************)
(* A step of the runs or of the clock: buffers get writers, never lose     *)
(* them, and the readers change their state alone, and never back to new.  *)
(***************************************************************************)
Grows(buffer, next) == buffer.writers \subseteq next.writers

LEMMA ReadersStand ==
    ASSUME ReplayTypeOK, ReadersInv,
           pBuffers' \in Seq(ReplayBuffers), Len(pBuffers') >= Len(pBuffers),
           \A b \in 1 .. Len(pBuffers) : Grows(pBuffers[b], pBuffers'[b]),
           pReaders' \in [Readers -> ReplayReaders],
           \A d \in Readers :
              /\ pReaders'[d].state \in {"new", "attached"} =>
                    pReaders'[d].state = pReaders[d].state
              /\ pReaders'[d].state \in {"sending", "waiting", "woken"} =>
                    pReaders[d].state \in {"sending", "waiting", "woken"}
              /\ pReaders'[d].buffer = pReaders[d].buffer
              /\ pReaders'[d].after = pReaders[d].after
              /\ pReaders'[d].cursor = pReaders[d].cursor
              /\ pReaders'[d].pending = pReaders[d].pending
              /\ pReaders'[d].got = pReaders[d].got
    PROVE  /\ \A d \in Readers : pReaders'[d].buffer \in 0 .. Len(pBuffers')
           /\ ReadersInv'
<1>1. \A d \in Readers : pReaders[d].buffer \in 0 .. Len(pBuffers)
  BY DEF ReplayTypeOK
<1>2. Len(pBuffers) \in Nat /\ Len(pBuffers') \in Nat
  BY DEF ReplayTypeOK
<1>3. \A d \in Readers : pReaders'[d].buffer \in 0 .. Len(pBuffers')
  BY <1>1, <1>2
<1>4. ASSUME NEW d \in Readers
      PROVE  ReaderInv(pReaders[d])'
  <2>1. ReaderInv(pReaders[d])
    BY DEF ReadersInv
  <2> DEFINE b == pReaders[d].buffer
  <2>2. b = 0 \/ b \in 1 .. Len(pBuffers)
    BY <1>1, <1>2
  <2>3. b # 0 /\ Lone(pBuffers'[b].writers) => Lone(pBuffers[b].writers)
    BY <2>2 DEF Lone, Grows
  <2> QED
    BY <2>1, <2>3 DEF ReaderInv, SentInOrder, Follows
<1> QED
  BY <1>3, <1>4 DEF ReadersInv

LEMMA WokenIs ==
    ASSUME ReplayTypeOK, NEW b
    PROVE  /\ Woken(b) \in [Readers -> ReplayReaders]
           /\ \A d \in Readers :
                 /\ Woken(b)[d].state \in {"new", "attached"} =>
                       Woken(b)[d].state = pReaders[d].state
                 /\ Woken(b)[d].state \in {"sending", "waiting", "woken"} =>
                       pReaders[d].state \in {"sending", "waiting", "woken"}
                 /\ Woken(b)[d].buffer = pReaders[d].buffer
                 /\ Woken(b)[d].after = pReaders[d].after
                 /\ Woken(b)[d].cursor = pReaders[d].cursor
                 /\ Woken(b)[d].pending = pReaders[d].pending
                 /\ Woken(b)[d].got = pReaders[d].got
<1>1. ASSUME NEW reader \in ReplayReaders
      PROVE  LET next == [reader EXCEPT !.state = "woken"]
             IN  /\ next \in ReplayReaders /\ next.state = "woken"
                 /\ next.buffer = reader.buffer /\ next.after = reader.after
                 /\ next.cursor = reader.cursor /\ next.pending = reader.pending
                 /\ next.got = reader.got
  BY DEF ReplayReaders, ReaderStates
<1>2. \A d \in Readers : pReaders[d] \in ReplayReaders
  BY DEF ReplayTypeOK
<1> QED
  BY <1>1, <1>2 DEF Woken

LEMMA StreamStartKeeps ==
    ASSUME ReplayInv, NEW r \in Runs, StreamStart(r)
    PROVE  ReplayInv'
<1> USE DEF ReplayInv
<1>1. /\ pBuffers \in Seq(ReplayBuffers) /\ Len(pBuffers) \in Nat
      /\ pRuns \in [Runs -> RunRecords] /\ pReaders \in [Readers -> ReplayReaders]
      /\ pMade \in Nat /\ pSaved \in Nat
  BY DEF ReplayTypeOK, RunRecords
<1>2. /\ pRuns[r].state = "new" /\ pBuffers' = Append(pBuffers, NewBuffer)
      /\ pCurrent' = Len(pBuffers') /\ pMade' = pMade /\ pSaved' = pSaved /\ pReaders' = pReaders
      /\ pRuns' = [pRuns EXCEPT ![r].state = "open", ![r].seq = pSaved]
  BY DEF StreamStart
<1>3. NewBuffer \in ReplayBuffers /\ NewBuffer.writers = {} /\ NewBuffer.events = <<>>
  BY DEF NewBuffer, ReplayBuffers
<1>4. /\ pBuffers' \in Seq(ReplayBuffers) /\ Len(pBuffers') = Len(pBuffers) + 1
      /\ pBuffers'[Len(pBuffers) + 1] = NewBuffer
      /\ \A b \in 1 .. Len(pBuffers) : pBuffers'[b] = pBuffers[b]
  BY <1>1, <1>2, <1>3
<1>5. /\ pRuns' \in [Runs -> RunRecords] /\ pRuns'[r].state = "open"
      /\ \A q \in Runs : q # r => pRuns'[q] = pRuns[q]
  BY <1>1, <1>2 DEF RunRecords
<1>6. BuffersInv'
  <2>1. \A b \in 1 .. Len(pBuffers) : BufferInv(pBuffers[b], pRuns')
    <3>1. ASSUME NEW b \in 1 .. Len(pBuffers)
          PROVE  BufferInv(pBuffers[b], pRuns')
      <4>1. BufferInv(pBuffers[b], pRuns) /\ pBuffers[b].writers \in SUBSET Runs
        <5>1. pBuffers[b] \in ReplayBuffers
          BY <1>1
        <5> QED
          BY <5>1 DEF BuffersInv, ReplayBuffers
      <4>2. r \notin pBuffers[b].writers
        BY <1>2, <4>1 DEF BufferInv
      <4>3. \A q \in pBuffers[b].writers : pRuns'[q] = pRuns[q]
        BY <1>5, <4>1, <4>2
      <4> QED
        BY <4>1, <4>3 DEF BufferInv
    <3> QED
      BY <3>1
  <2>2. BufferInv(NewBuffer, pRuns')
    BY <1>3 DEF BufferInv, Increasing
  <2>3. \A b \in 1 .. Len(pBuffers) + 1 : b \in 1 .. Len(pBuffers) \/ b = Len(pBuffers) + 1
    BY <1>1
  <2> QED
    BY <1>4, <2>1, <2>2, <2>3 DEF BuffersInv
<1>7. /\ \A d \in Readers : pReaders'[d].buffer \in 0 .. Len(pBuffers')
      /\ ReadersInv'
  <2>1. \A b \in 1 .. Len(pBuffers) : Grows(pBuffers[b], pBuffers'[b])
    BY <1>4 DEF Grows
  <2>2. Len(pBuffers') >= Len(pBuffers)
    BY <1>1, <1>4
  <2> QED
    BY <1>1, <1>2, <1>4, <2>1, <2>2, ReadersStand
<1>8. pCurrent' \in 0 .. Len(pBuffers')
  BY <1>1, <1>2, <1>4
<1>9. ReplayTypeOK'
  BY <1>1, <1>2, <1>4, <1>5, <1>7, <1>8 DEF ReplayTypeOK, RunRecords
<1> QED
  BY <1>6, <1>7, <1>9

LEMMA StreamEventKeeps ==
    ASSUME ReplayInv, NEW r \in Runs, StreamEvent(r)
    PROVE  ReplayInv'
<1> USE DEF ReplayInv
<1> DEFINE present == IF pCurrent = 0 THEN Append(pBuffers, NewBuffer) ELSE pBuffers
           b == IF pCurrent = 0 THEN Len(present) ELSE pCurrent
           buffer == present[b]
           written == [buffer EXCEPT !.events = Keep(Append(@, pRuns'[r].seq)),
                                     !.signal = TRUE, !.writers = @ \cup {r}]
<1>1. /\ pBuffers \in Seq(ReplayBuffers) /\ Len(pBuffers) \in Nat
      /\ pRuns \in [Runs -> RunRecords] /\ pReaders \in [Readers -> ReplayReaders]
      /\ pMade \in Nat /\ pSaved \in Nat /\ pCurrent \in 0 .. Len(pBuffers)
  BY DEF ReplayTypeOK, RunRecords
<1>2. /\ pRuns[r].state = "open" /\ pMade' = pMade + 1 /\ pSaved' = pSaved
      /\ pRuns' = [pRuns EXCEPT ![r].seq = @ + 1]
      /\ pCurrent' = b /\ pReaders' = Woken(b)
  BY DEF StreamEvent
<1>3. NewBuffer \in ReplayBuffers /\ NewBuffer.writers = {} /\ NewBuffer.events = <<>>
  BY DEF NewBuffer, ReplayBuffers
<1>4. /\ present \in Seq(ReplayBuffers) /\ Len(present) \in Nat /\ Len(present) >= Len(pBuffers)
      /\ \A c \in 1 .. Len(pBuffers) : present[c] = pBuffers[c]
      /\ \A c \in 1 .. Len(present) : c \in 1 .. Len(pBuffers) \/ present[c] = NewBuffer
      /\ b \in 1 .. Len(present)
  <2>1. /\ Append(pBuffers, NewBuffer) \in Seq(ReplayBuffers)
        /\ Len(Append(pBuffers, NewBuffer)) = Len(pBuffers) + 1
        /\ Append(pBuffers, NewBuffer)[Len(pBuffers) + 1] = NewBuffer
        /\ \A c \in 1 .. Len(pBuffers) : Append(pBuffers, NewBuffer)[c] = pBuffers[c]
    BY <1>1, <1>3
  <2>2. CASE pCurrent = 0
    BY <1>1, <2>1, <2>2
  <2>3. CASE pCurrent # 0
    BY <1>1, <2>3
  <2> QED
    BY <2>2, <2>3
<1>5. pBuffers' = [present EXCEPT ![b] = written]
  <2>1. pBuffers' = [present EXCEPT ![b].events = Keep(Append(@, pRuns'[r].seq)),
                                    ![b].signal = TRUE, ![b].writers = @ \cup {r}]
    BY DEF StreamEvent
  <2> HIDE DEF present, b
  <2>2. b \in DOMAIN present
    BY <1>4
  <2> QED
    BY <2>1, <2>2
<1> HIDE DEF present, b
<1>6. pRuns' \in [Runs -> RunRecords]
      /\ \A q \in Runs : pRuns'[q].state = pRuns[q].state /\ pRuns'[q].seq >= pRuns[q].seq
      /\ \A p \in Runs : pRuns[p].seq \in Nat /\ pRuns'[p].seq \in Nat
  BY <1>1, <1>2 DEF RunRecords
<1>7. \A c \in 1 .. Len(present) : BufferInv(present[c], pRuns) /\ present[c] \in ReplayBuffers
  <2>1. BufferInv(NewBuffer, pRuns)
    BY <1>3 DEF BufferInv, Increasing
  <2> QED
    BY <1>4, <2>1 DEF BuffersInv
<1>8. written \in ReplayBuffers /\ BufferInv(written, pRuns')
  <2>1. /\ buffer \in ReplayBuffers /\ BufferInv(buffer, pRuns)
        /\ pRuns \in [Runs -> RunRecords] /\ pRuns[r].state = "open"
        /\ pRuns' \in [Runs -> RunRecords] /\ pRuns' = [pRuns EXCEPT ![r].seq = @ + 1]
    BY <1>1, <1>2, <1>4, <1>6, <1>7
  <2> HIDE DEF buffer
  <2> QED
    BY <2>1, RecordKeeps
<1>9. written.writers = buffer.writers \cup {r}
  BY <1>4, <1>7 DEF ReplayBuffers
<1> HIDE DEF written
<1>10. /\ pBuffers' \in Seq(ReplayBuffers) /\ Len(pBuffers') = Len(present)
       /\ pBuffers'[b] = written
       /\ \A c \in 1 .. Len(present) : c # b => pBuffers'[c] = present[c]
  BY <1>4, <1>5, <1>8
<1>11. BuffersInv'
  <2>1. ASSUME NEW c \in 1 .. Len(present), c # b
        PROVE  BufferInv(present[c], pRuns')
    <3>1. BufferInv(present[c], pRuns) /\ present[c].writers \in SUBSET Runs
          /\ present[c].events \in Seq(Nat)
      BY <1>7 DEF ReplayBuffers
    <3>2. ASSUME NEW i \in DOMAIN present[c].events, NEW q \in present[c].writers,
                 present[c].events[i] <= pRuns[q].seq
          PROVE  present[c].events[i] <= pRuns'[q].seq
      <4>1. present[c].events[i] \in Nat /\ q \in Runs
        BY <3>1
      <4> QED
        BY <1>6, <3>2, <4>1
    <3> QED
      BY <1>6, <3>1, <3>2 DEF BufferInv
  <2> QED
    BY <1>8, <1>10, <2>1 DEF BuffersInv
<1>12. \A c \in 1 .. Len(pBuffers) : Grows(pBuffers[c], pBuffers'[c])
  <2>1. ASSUME NEW c \in 1 .. Len(pBuffers)
        PROVE  Grows(pBuffers[c], pBuffers'[c])
    <3>1. c \in 1 .. Len(present) /\ present[c] = pBuffers[c]
      BY <1>1, <1>4
    <3>2. CASE c = b
      BY <1>9, <1>10, <3>1, <3>2 DEF Grows
    <3>3. CASE c # b
      BY <1>10, <3>1, <3>3 DEF Grows
    <3> QED
      BY <3>2, <3>3
  <2> QED
    BY <2>1
<1>13. /\ \A d \in Readers : pReaders'[d].buffer \in 0 .. Len(pBuffers')
       /\ ReadersInv'
  <2>1. Len(pBuffers') >= Len(pBuffers)
    BY <1>4, <1>10
  <2> QED
    BY <1>2, <1>10, <1>12, <2>1, ReadersStand, WokenIs
<1>14. ReplayTypeOK'
  <2>1. pReaders' \in [Readers -> ReplayReaders]
    BY <1>2, WokenIs
  <2>2. pCurrent' \in 0 .. Len(pBuffers') /\ pMade' \in Nat /\ pSaved' \in Nat
    BY <1>1, <1>2, <1>4, <1>10
  <2> QED
    BY <1>6, <1>10, <1>13, <2>1, <2>2 DEF ReplayTypeOK, RunRecords
<1> QED
  BY <1>11, <1>13, <1>14

\* The buffers as they were, but for their flags.
LEMMA BuffersStand ==
    ASSUME ReplayInv, pBuffers' \in Seq(ReplayBuffers), Len(pBuffers') = Len(pBuffers),
           \A b \in 1 .. Len(pBuffers) : /\ pBuffers'[b].writers = pBuffers[b].writers
                                         /\ pBuffers'[b].events = pBuffers[b].events,
           \A r \in Runs : pRuns'[r].seq = pRuns[r].seq
                           /\ (pRuns'[r].state = "new" => pRuns[r].state = "new")
    PROVE  BuffersInv' /\ \A b \in 1 .. Len(pBuffers) : Grows(pBuffers[b], pBuffers'[b])
<1>1. ASSUME NEW b \in 1 .. Len(pBuffers)
      PROVE  BufferInv(pBuffers[b], pRuns)' /\ Grows(pBuffers[b], pBuffers'[b])
  <2>1. pBuffers[b] \in ReplayBuffers
    BY DEF ReplayInv, ReplayTypeOK
  <2>2. BufferInv(pBuffers[b], pRuns) /\ pBuffers[b].writers \in SUBSET Runs
    BY <2>1 DEF ReplayInv, BuffersInv, ReplayBuffers
  <2> QED
    BY <2>2 DEF BufferInv, Grows
<1> QED
  BY <1>1 DEF BuffersInv

LEMMA StreamEndKeeps ==
    ASSUME ReplayInv, NEW r \in Runs, StreamEnd(r)
    PROVE  ReplayInv'
<1> USE DEF ReplayInv
<1>1. /\ pBuffers \in Seq(ReplayBuffers) /\ Len(pBuffers) \in Nat
      /\ pRuns \in [Runs -> RunRecords] /\ pReaders \in [Readers -> ReplayReaders]
      /\ pMade \in Nat /\ pSaved \in Nat /\ pCurrent \in 0 .. Len(pBuffers)
  BY DEF ReplayTypeOK, RunRecords
<1>2. /\ pRuns' = [pRuns EXCEPT ![r].state = "over"] /\ FinishBuffer
      /\ pSaved' \in pSaved .. pRuns[r].seq \cup {pRuns[r].seq}
      /\ pCurrent' = pCurrent /\ pMade' = pMade
  BY DEF StreamEnd
<1>3. /\ pRuns' \in [Runs -> RunRecords]
      /\ \A q \in Runs : pRuns'[q].seq = pRuns[q].seq
                         /\ (pRuns'[q].state = "new" => pRuns[q].state = "new")
      /\ \A q \in Runs : pRuns[q].seq \in Nat
  BY <1>1, <1>2 DEF RunRecords
<1>4. pSaved' \in Nat
  BY <1>1, <1>2, <1>3
<1>5. /\ pBuffers' \in Seq(ReplayBuffers) /\ Len(pBuffers') = Len(pBuffers)
      /\ \A b \in 1 .. Len(pBuffers) : /\ pBuffers'[b].writers = pBuffers[b].writers
                                       /\ pBuffers'[b].events = pBuffers[b].events
  <2>1. CASE pCurrent = 0
    BY <1>1, <1>2, <2>1 DEF FinishBuffer
  <2>2. CASE pCurrent # 0
    <3>1. pCurrent \in 1 .. Len(pBuffers)
      BY <1>1, <2>2
    <3>2. ASSUME NEW buffer \in ReplayBuffers
          PROVE  LET next == [buffer EXCEPT !.done = TRUE, !.signal = TRUE]
                 IN  next \in ReplayBuffers /\ next.writers = buffer.writers
                     /\ next.events = buffer.events
      BY DEF ReplayBuffers
    <3> DEFINE next == [pBuffers[pCurrent] EXCEPT !.done = TRUE, !.signal = TRUE]
    <3>3. pBuffers' = [pBuffers EXCEPT ![pCurrent] = next]
      <4>1. pBuffers' = [pBuffers EXCEPT ![pCurrent].done = TRUE, ![pCurrent].signal = TRUE]
        BY <1>2, <2>2 DEF FinishBuffer
      <4>2. pCurrent \in DOMAIN pBuffers
        BY <1>1, <3>1
      <4> QED
        BY <4>1, <4>2
    <3>4. pBuffers[pCurrent] \in ReplayBuffers
      BY <1>1, <3>1
    <3>5. next \in ReplayBuffers /\ next.writers = pBuffers[pCurrent].writers
          /\ next.events = pBuffers[pCurrent].events
      BY <3>2, <3>4
    <3> HIDE DEF next
    <3> QED
      BY <1>1, <3>1, <3>3, <3>5
  <2> QED
    BY <2>1, <2>2
<1>6. /\ pReaders' \in [Readers -> ReplayReaders]
      /\ \A d \in Readers :
              /\ pReaders'[d].state \in {"new", "attached"} =>
                    pReaders'[d].state = pReaders[d].state
              /\ pReaders'[d].state \in {"sending", "waiting", "woken"} =>
                    pReaders[d].state \in {"sending", "waiting", "woken"}
              /\ pReaders'[d].buffer = pReaders[d].buffer
              /\ pReaders'[d].after = pReaders[d].after
              /\ pReaders'[d].cursor = pReaders[d].cursor
              /\ pReaders'[d].pending = pReaders[d].pending
              /\ pReaders'[d].got = pReaders[d].got
  <2>1. pReaders' = pReaders \/ pReaders' = Woken(pCurrent)
    BY <1>2 DEF FinishBuffer
  <2> QED
    BY <1>1, <2>1, WokenIs
<1>7. BuffersInv' /\ \A b \in 1 .. Len(pBuffers) : Grows(pBuffers[b], pBuffers'[b])
  BY <1>3, <1>5, BuffersStand
<1>8. /\ \A d \in Readers : pReaders'[d].buffer \in 0 .. Len(pBuffers')
      /\ ReadersInv'
  <2>1. Len(pBuffers') >= Len(pBuffers)
    BY <1>1, <1>5
  <2> QED
    BY <1>5, <1>6, <1>7, <2>1, ReadersStand
<1>9. ReplayTypeOK'
  BY <1>1, <1>2, <1>3, <1>4, <1>5, <1>6, <1>8 DEF ReplayTypeOK, RunRecords
<1> QED
  BY <1>7, <1>8, <1>9

LEMMA ExpireKeeps ==
    ASSUME ReplayInv, Expire
    PROVE  ReplayInv'
<1>1. /\ UNCHANGED <<pBuffers, pRuns, pMade, pSaved, pReaders>> /\ pCurrent' = 0
      /\ Len(pBuffers) \in Nat
  BY DEF Expire, ReplayInv, ReplayTypeOK
<1>2. pCurrent' \in 0 .. Len(pBuffers)
  BY <1>1
<1> QED
  BY <1>1, <1>2 DEF ReplayInv, ReplayTypeOK, BuffersInv, ReadersInv, ReaderInv, BufferInv

\* A step of one reader.
LEMMA ReaderMoves ==
    ASSUME ReplayInv, NEW d \in Readers, NEW next \in ReplayReaders,
           next.buffer \in 0 .. Len(pBuffers), ReaderInv(next),
           pReaders' = [pReaders EXCEPT ![d] = next],
           pBuffers' \in Seq(ReplayBuffers), Len(pBuffers') = Len(pBuffers),
           \A b \in 1 .. Len(pBuffers) : /\ pBuffers'[b].writers = pBuffers[b].writers
                                         /\ pBuffers'[b].events = pBuffers[b].events,
           UNCHANGED <<pCurrent, pRuns, pMade, pSaved>>
    PROVE  ReplayInv'
<1>1. /\ Len(pBuffers) \in Nat /\ pReaders \in [Readers -> ReplayReaders]
      /\ \A e \in Readers : pReaders[e].buffer \in 0 .. Len(pBuffers)
      /\ \A e \in Readers : ReaderInv(pReaders[e])
  BY DEF ReplayInv, ReplayTypeOK, ReadersInv
<1>2. BuffersInv'
  BY BuffersStand
<1>3. pReaders' \in [Readers -> ReplayReaders]
  BY <1>1
<1>4. ASSUME NEW e \in Readers
      PROVE  pReaders'[e].buffer \in 0 .. Len(pBuffers') /\ ReaderInv(pReaders[e])'
  <2>1. PICK reader : reader = pReaders'[e]
    OBVIOUS
  <2>2. reader.buffer \in 0 .. Len(pBuffers) /\ ReaderInv(reader)
    BY <1>1, <2>1
  <2>3. reader.buffer = 0 \/ pBuffers'[reader.buffer].writers = pBuffers[reader.buffer].writers
    BY <1>1, <2>2
  <2> QED
    BY <2>1, <2>2, <2>3 DEF ReaderInv
<1> QED
  BY <1>2, <1>3, <1>4 DEF ReplayInv, ReplayTypeOK, ReadersInv

LEMMA AttachKeeps ==
    ASSUME ReplayInv, NEW d \in Readers, Attach(d)
    PROVE  ReplayInv'
<1>1. /\ pReaders[d] \in ReplayReaders /\ ReaderInv(pReaders[d]) /\ Len(pBuffers) \in Nat
      /\ pRuns \in [Runs -> RunRecords] /\ pBuffers \in Seq(ReplayBuffers)
      /\ pReaders \in [Readers -> ReplayReaders]
  BY DEF ReplayInv, ReplayTypeOK, ReadersInv, RunRecords
<1>2. PICK after \in 0 .. MaxEvents + 1, state \in {"refused", "attached"} :
         pReaders' = [pReaders EXCEPT ![d].state = state, ![d].after = after, ![d].cursor = after]
  BY DEF Attach
<1>3. after \in Nat
  BY <1>2, ReplayAssumption
<1>5. PICK next : next = [pReaders[d] EXCEPT !.state = state, !.after = after, !.cursor = after]
  OBVIOUS
<1>6. pReaders' = [pReaders EXCEPT ![d] = next]
  BY <1>1, <1>2, <1>5
<1>7. /\ next \in ReplayReaders /\ next.state = state /\ next.after = after /\ next.cursor = after
      /\ next.buffer = pReaders[d].buffer /\ next.pending = pReaders[d].pending
      /\ next.got = pReaders[d].got
  <2>1. PICK reader : reader = pReaders[d]
    OBVIOUS
  <2>2. reader \in ReplayReaders /\ state \in {"refused", "attached"} /\ after \in Nat
    BY <1>1, <1>2, <1>3, <2>1
  <2>3. next = [reader EXCEPT !.state = state, !.after = after, !.cursor = after]
    BY <1>5, <2>1
  <2>4. /\ next \in ReplayReaders /\ next.state = state /\ next.after = after
        /\ next.cursor = after /\ next.buffer = reader.buffer /\ next.pending = reader.pending
        /\ next.got = reader.got
    BY <2>2, <2>3 DEF ReplayReaders, ReaderStates
  <2> QED
    BY <2>1, <2>4
<1>8. next.buffer = 0 /\ next.got = <<>> /\ next.pending = <<>> /\ next.state # "new"
  BY <1>1, <1>2, <1>7 DEF Attach, ReaderInv
<1>9. DOMAIN next.got = {} /\ DOMAIN next.pending = {}
  BY <1>8
<1>10. ReaderInv(next)
  BY <1>7, <1>8, <1>9 DEF ReaderInv, SentInOrder, Follows, Increasing
<1>11. UNCHANGED <<pBuffers, pCurrent, pRuns, pMade, pSaved>>
  BY DEF Attach
<1>12. next.buffer \in 0 .. Len(pBuffers)
  BY <1>1, <1>8
<1> QED
  BY <1>1, <1>6, <1>7, <1>10, <1>11, <1>12, ReaderMoves

\* A reader looks at its buffer: it is sent what follows its cursor, or rests.
LEMMA FollowMoves ==
    ASSUME NEW d \in Readers, pReaders \in [Readers -> ReplayReaders],
           NEW reader \in ReplayReaders, NEW buffer \in ReplayBuffers,
           reader.state \notin {"new", "attached"} \/ reader.buffer # 0,
           Lone(buffer.writers) => Increasing(buffer.events),
           Lone(buffer.writers) => SentInOrder(reader) /\ Follows(reader.pending, reader.cursor),
           \/ Follow(d, reader, buffer)
           \/ reader.pending # <<>> /\ Yield(d, reader, reader.pending)
           \/ Rest(d, reader, buffer)
    PROVE  \E next \in ReplayReaders :
              /\ pReaders' = [pReaders EXCEPT ![d] = next]
              /\ next.buffer = reader.buffer
              /\ next.state \notin {"new", "attached"}
              /\ Lone(buffer.writers) => SentInOrder(next) /\ Follows(next.pending, next.cursor)
<1>1. ASSUME NEW pending \in Seq(Nat), pending # <<>>, Yield(d, reader, pending),
             Lone(buffer.writers) => Follows(pending, reader.cursor)
      PROVE  \E next \in ReplayReaders :
              /\ pReaders' = [pReaders EXCEPT ![d] = next]
              /\ next.buffer = reader.buffer
              /\ next.state \notin {"new", "attached"}
              /\ Lone(buffer.writers) => SentInOrder(next) /\ Follows(next.pending, next.cursor)
  <2>1. PICK next : next = [reader EXCEPT !.state = "sending", !.pending = Tail(pending),
                                          !.cursor = Head(pending),
                                          !.got = Append(@, Head(pending))]
    OBVIOUS
  <2>2. pReaders' = [pReaders EXCEPT ![d] = next]
    BY <1>1, <2>1 DEF Yield
  <2>3. /\ next \in ReplayReaders /\ next.buffer = reader.buffer /\ next.state = "sending"
        /\ SentInOrder(reader) /\ Follows(pending, reader.cursor) =>
              SentInOrder(next) /\ Follows(next.pending, next.cursor)
    BY <1>1, <2>1, YieldKeeps
  <2> QED
    BY <1>1, <2>2, <2>3
<1>2. ASSUME Rest(d, reader, buffer)
      PROVE  \E next \in ReplayReaders :
              /\ pReaders' = [pReaders EXCEPT ![d] = next]
              /\ next.buffer = reader.buffer
              /\ next.state \notin {"new", "attached"}
              /\ Lone(buffer.writers) => SentInOrder(next) /\ Follows(next.pending, next.cursor)
  <2>1. PICK s : s = CASE buffer.done -> "over"
                       [] ~buffer.done /\ buffer.signal -> "woken"
                       [] OTHER -> "waiting"
    OBVIOUS
  <2>2. s \in {"over", "woken", "waiting"}
    BY <2>1
  <2>3. PICK next : next = [reader EXCEPT !.state = s]
    OBVIOUS
  <2>4. pReaders' = [pReaders EXCEPT ![d] = next]
    BY <1>2, <2>1, <2>3 DEF Rest
  <2>5. /\ next \in ReplayReaders /\ next.state = s /\ next.buffer = reader.buffer
        /\ next.got = reader.got /\ next.pending = reader.pending
        /\ next.cursor = reader.cursor /\ next.after = reader.after
    BY <2>2, <2>3 DEF ReplayReaders, ReaderStates
  <2> QED
    BY <2>2, <2>4, <2>5 DEF SentInOrder
<1>3. CASE Follow(d, reader, buffer)
  <2> DEFINE pending == Snapshot(buffer, reader.cursor)
  <2>1. reader.cursor \in Nat
    BY DEF ReplayReaders
  <2>2. pending \in Seq(Nat) /\ (Increasing(buffer.events) => Follows(pending, reader.cursor))
    BY <2>1, SnapshotFollows
  <2>3. \/ pending # <<>> /\ Yield(d, reader, pending)
        \/ Rest(d, reader, buffer)
    BY <1>3 DEF Follow
  <2> HIDE DEF pending
  <2> QED
    BY <1>1, <1>2, <2>2, <2>3
<1>4. reader.pending \in Seq(Nat)
  BY DEF ReplayReaders
<1> QED
  BY <1>1, <1>2, <1>3, <1>4

\* A reader that holds a buffer.
LEMMA HeldBuffer ==
    ASSUME ReplayInv, NEW d \in Readers, pReaders[d].buffer # 0
    PROVE  LET buffer == pBuffers[pReaders[d].buffer]
           IN  /\ buffer \in ReplayBuffers
               /\ pReaders[d].buffer \in 1 .. Len(pBuffers)
               /\ pReaders[d].state \notin {"new", "attached"}
               /\ Lone(buffer.writers) =>
                     /\ Increasing(buffer.events)
                     /\ SentInOrder(pReaders[d])
                     /\ Follows(pReaders[d].pending, pReaders[d].cursor)
<1>1. /\ pBuffers \in Seq(ReplayBuffers) /\ pReaders[d].buffer \in 0 .. Len(pBuffers)
      /\ Len(pBuffers) \in Nat /\ ReaderInv(pReaders[d])
  BY DEF ReplayInv, ReplayTypeOK, ReadersInv
<1>2. pReaders[d].buffer \in 1 .. Len(pBuffers)
  BY <1>1
<1>3. BufferInv(pBuffers[pReaders[d].buffer], pRuns)
      /\ pBuffers[pReaders[d].buffer] \in ReplayBuffers
  BY <1>1, <1>2 DEF ReplayInv, BuffersInv
<1> QED
  BY <1>1, <1>2, <1>3 DEF ReaderInv, BufferInv

LEMMA OpenReplayKeeps ==
    ASSUME ReplayInv, NEW d \in Readers, OpenReplay(d)
    PROVE  ReplayInv'
<1>1. /\ pReaders[d] \in ReplayReaders /\ ReaderInv(pReaders[d]) /\ Len(pBuffers) \in Nat
      /\ pBuffers \in Seq(ReplayBuffers) /\ pReaders \in [Readers -> ReplayReaders]
      /\ pCurrent \in 0 .. Len(pBuffers)
  BY DEF ReplayInv, ReplayTypeOK, ReadersInv
<1>2. /\ pReaders[d].state = "attached" /\ UNCHANGED <<pBuffers, pCurrent, pRuns, pMade, pSaved>>
  BY DEF OpenReplay
<1>3. /\ pReaders[d].buffer = 0 /\ SentInOrder(pReaders[d])
      /\ Follows(pReaders[d].pending, pReaders[d].cursor)
  BY <1>1, <1>2 DEF ReaderInv
<1>4. CASE pCurrent = 0
  <2>1. PICK next : next = [pReaders[d] EXCEPT !.state = "failed"]
    OBVIOUS
  <2>2. pReaders' = [pReaders EXCEPT ![d] = next]
    BY <1>1, <1>4, <2>1 DEF OpenReplay
  <2>3. /\ next \in ReplayReaders /\ next.state = "failed" /\ next.buffer = pReaders[d].buffer
        /\ next.got = pReaders[d].got /\ next.pending = pReaders[d].pending
        /\ next.cursor = pReaders[d].cursor /\ next.after = pReaders[d].after
    BY <1>1, <2>1 DEF ReplayReaders, ReaderStates
  <2>4. ReaderInv(next) /\ next.buffer \in 0 .. Len(pBuffers)
    BY <1>1, <1>3, <2>3 DEF ReaderInv, SentInOrder
  <2> QED
    BY <1>1, <1>2, <2>2, <2>3, <2>4, ReaderMoves
<1>5. CASE pCurrent # 0
  <2>1. PICK reader : reader = [pReaders[d] EXCEPT !.buffer = pCurrent]
    OBVIOUS
  <2>2. pCurrent \in 1 .. Len(pBuffers) /\ pCurrent \in Nat
    BY <1>1, <1>5
  <2>3. /\ reader \in ReplayReaders /\ reader.buffer = pCurrent
        /\ reader.got = pReaders[d].got /\ reader.pending = pReaders[d].pending
        /\ reader.cursor = pReaders[d].cursor /\ reader.after = pReaders[d].after
    BY <1>1, <2>1, <2>2 DEF ReplayReaders
  <2>4. PICK buffer : buffer = pBuffers[pCurrent]
    OBVIOUS
  <2>5. buffer \in ReplayBuffers /\ BufferInv(buffer, pRuns)
    BY <1>1, <2>2, <2>4 DEF ReplayInv, BuffersInv
  <2>6. Lone(buffer.writers) => Increasing(buffer.events)
    BY <2>5 DEF BufferInv
  <2>7. SentInOrder(reader) /\ Follows(reader.pending, reader.cursor)
    BY <1>3, <2>3 DEF SentInOrder
  <2>8. Follow(d, reader, buffer)
    BY <1>5, <2>1, <2>4 DEF OpenReplay
  <2>9. PICK next \in ReplayReaders :
              /\ pReaders' = [pReaders EXCEPT ![d] = next]
              /\ next.buffer = reader.buffer
              /\ next.state \notin {"new", "attached"}
              /\ Lone(buffer.writers) => SentInOrder(next) /\ Follows(next.pending, next.cursor)
    BY <1>1, <1>5, <2>3, <2>5, <2>6, <2>7, <2>8, FollowMoves
  <2>10. ReaderInv(next) /\ next.buffer \in 0 .. Len(pBuffers)
    BY <1>1, <1>5, <2>3, <2>4, <2>9 DEF ReaderInv
  <2> QED
    BY <1>1, <1>2, <2>9, <2>10, ReaderMoves
<1> QED
  BY <1>4, <1>5

LEMMA ReaderResumeKeeps ==
    ASSUME ReplayInv, NEW d \in Readers, ReaderResume(d)
    PROVE  ReplayInv'
<1>1. /\ pReaders[d] \in ReplayReaders /\ ReaderInv(pReaders[d]) /\ Len(pBuffers) \in Nat
      /\ pBuffers \in Seq(ReplayBuffers) /\ pReaders \in [Readers -> ReplayReaders]
  BY DEF ReplayInv, ReplayTypeOK, ReadersInv
<1>2. /\ pReaders[d].state = "sending" /\ UNCHANGED <<pBuffers, pCurrent, pRuns, pMade, pSaved>>
  BY DEF ReaderResume
<1>3. pReaders[d].buffer # 0
  BY <1>1, <1>2 DEF ReaderInv
<1>4. PICK reader, buffer : reader = pReaders[d] /\ buffer = pBuffers[pReaders[d].buffer]
  OBVIOUS
<1>5. /\ buffer \in ReplayBuffers /\ reader.buffer \in 1 .. Len(pBuffers)
      /\ reader.state \notin {"new", "attached"} /\ reader.buffer # 0
      /\ Lone(buffer.writers) => Increasing(buffer.events)
      /\ Lone(buffer.writers) => SentInOrder(reader) /\ Follows(reader.pending, reader.cursor)
  BY <1>3, <1>4, HeldBuffer
<1>6. \/ reader.pending # <<>> /\ Yield(d, reader, reader.pending)
      \/ Rest(d, reader, buffer)
  BY <1>4 DEF ReaderResume
<1>7. PICK next \in ReplayReaders :
              /\ pReaders' = [pReaders EXCEPT ![d] = next]
              /\ next.buffer = reader.buffer
              /\ next.state \notin {"new", "attached"}
              /\ Lone(buffer.writers) => SentInOrder(next) /\ Follows(next.pending, next.cursor)
  BY <1>1, <1>4, <1>5, <1>6, FollowMoves
<1>8. ReaderInv(next) /\ next.buffer \in 0 .. Len(pBuffers)
  BY <1>1, <1>4, <1>5, <1>7 DEF ReaderInv
<1> QED
  BY <1>1, <1>2, <1>7, <1>8, ReaderMoves

LEMMA ReaderWakeKeeps ==
    ASSUME ReplayInv, NEW d \in Readers, ReaderWake(d)
    PROVE  ReplayInv'
<1>1. /\ pReaders[d] \in ReplayReaders /\ ReaderInv(pReaders[d]) /\ Len(pBuffers) \in Nat
      /\ pBuffers \in Seq(ReplayBuffers) /\ pReaders \in [Readers -> ReplayReaders]
  BY DEF ReplayInv, ReplayTypeOK, ReadersInv
<1>2. /\ pReaders[d].state = "woken" /\ UNCHANGED <<pCurrent, pRuns, pMade, pSaved>>
  BY DEF ReaderWake
<1>3. pReaders[d].buffer # 0
  BY <1>1, <1>2 DEF ReaderInv
<1>4. PICK reader, buffer, b : /\ reader = pReaders[d] /\ b = reader.buffer
                              /\ buffer = pBuffers[b]
  OBVIOUS
<1>5. /\ buffer \in ReplayBuffers /\ b \in 1 .. Len(pBuffers)
      /\ reader.state \notin {"new", "attached"} /\ b # 0
      /\ Lone(buffer.writers) => Increasing(buffer.events)
      /\ Lone(buffer.writers) => SentInOrder(reader) /\ Follows(reader.pending, reader.cursor)
  BY <1>3, <1>4, HeldBuffer
<1>6. PICK cleared : cleared = [buffer EXCEPT !.signal = FALSE]
  OBVIOUS
<1>7. cleared \in ReplayBuffers /\ cleared.writers = buffer.writers /\ cleared.events = buffer.events
  BY <1>5, <1>6 DEF ReplayBuffers
<1>8. pBuffers' = [pBuffers EXCEPT ![b] = cleared]
  BY <1>1, <1>4, <1>5, <1>6 DEF ReaderWake
<1>9. /\ pBuffers' \in Seq(ReplayBuffers) /\ Len(pBuffers') = Len(pBuffers)
      /\ pBuffers'[b] = cleared
      /\ \A c \in 1 .. Len(pBuffers) : /\ pBuffers'[c].writers = pBuffers[c].writers
                                       /\ pBuffers'[c].events = pBuffers[c].events
  BY <1>1, <1>4, <1>5, <1>7, <1>8
<1>10. Follow(d, reader, cleared)
  BY <1>4, <1>9 DEF ReaderWake
<1>11. PICK next \in ReplayReaders :
              /\ pReaders' = [pReaders EXCEPT ![d] = next]
              /\ next.buffer = reader.buffer
              /\ next.state \notin {"new", "attached"}
              /\ Lone(cleared.writers) => SentInOrder(next) /\ Follows(next.pending, next.cursor)
  BY <1>1, <1>4, <1>5, <1>7, <1>10, FollowMoves
<1>12. ReaderInv(next) /\ next.buffer \in 0 .. Len(pBuffers)
  BY <1>1, <1>4, <1>5, <1>7, <1>11 DEF ReaderInv
<1> QED
  BY <1>1, <1>2, <1>9, <1>11, <1>12, ReaderMoves

LEMMA ReaderLeaveKeeps ==
    ASSUME ReplayInv, NEW d \in Readers, ReaderLeave(d)
    PROVE  ReplayInv'
<1>1. /\ pReaders[d] \in ReplayReaders /\ ReaderInv(pReaders[d]) /\ Len(pBuffers) \in Nat
      /\ pBuffers \in Seq(ReplayBuffers) /\ pReaders \in [Readers -> ReplayReaders]
      /\ pReaders[d].buffer \in 0 .. Len(pBuffers)
  BY DEF ReplayInv, ReplayTypeOK, ReadersInv
<1>2. UNCHANGED <<pBuffers, pCurrent, pRuns, pMade, pSaved>>
  BY DEF ReaderLeave
<1>3. PICK next : next = [pReaders[d] EXCEPT !.state = "left"]
  OBVIOUS
<1>4. pReaders' = [pReaders EXCEPT ![d] = next]
  BY <1>1, <1>3 DEF ReaderLeave
<1>5. /\ next \in ReplayReaders /\ next.state = "left" /\ next.buffer = pReaders[d].buffer
      /\ next.got = pReaders[d].got /\ next.pending = pReaders[d].pending
      /\ next.cursor = pReaders[d].cursor /\ next.after = pReaders[d].after
  BY <1>1, <1>3 DEF ReplayReaders, ReaderStates
<1>6. ReaderInv(next) /\ next.buffer \in 0 .. Len(pBuffers)
  BY <1>1, <1>5 DEF ReaderInv, SentInOrder
<1> QED
  BY <1>1, <1>2, <1>4, <1>5, <1>6, ReaderMoves

\* Every step keeps the invariant.
LEMMA ReplayStep == ReplayInv /\ [ReplayNext]_replayVars => ReplayInv'
<1> SUFFICES ASSUME ReplayInv, [ReplayNext]_replayVars
             PROVE  ReplayInv'
  OBVIOUS
<1>1. CASE UNCHANGED replayVars
  BY <1>1 DEF replayVars, ReplayInv, ReplayTypeOK, BuffersInv, ReadersInv, ReaderInv,
                    BufferInv
<1>2. ASSUME NEW r \in Runs, StreamStart(r) \/ StreamEvent(r) \/ StreamEnd(r)
      PROVE  ReplayInv'
  BY <1>2, StreamStartKeeps, StreamEventKeeps, StreamEndKeeps
<1>3. ASSUME NEW d \in Readers,
             Attach(d) \/ OpenReplay(d) \/ ReaderResume(d) \/ ReaderWake(d) \/ ReaderLeave(d)
      PROVE  ReplayInv'
  BY <1>3, AttachKeeps, OpenReplayKeeps, ReaderResumeKeeps, ReaderWakeKeeps,
     ReaderLeaveKeeps
<1> QED
  BY <1>1, <1>2, <1>3, ExpireKeeps DEF ReplayNext

(***************************************************************************)
(* A reader is sent no event twice, none out of order and none it says it  *)
(* has seen, however the runs, the clock and the other readers step in     *)
(* between, for any number of readers and any size of the buffer.          *)
(***************************************************************************)
THEOREM EachEventOnce == ReplaySpec => []ReplayOnce
<1>1. ReplayInv => ReplayOnce
  <2> SUFFICES ASSUME ReplayInv, NEW d \in Readers, Reading(d),
                      Cardinality(pBuffers[pReaders[d].buffer].writers) <= 1
               PROVE  SentInOrder(pReaders[d])
    BY DEF ReplayOnce, SentInOrder
  <2>1. pReaders[d].buffer # 0
    BY DEF Reading
  <2>2. pBuffers[pReaders[d].buffer] \in ReplayBuffers
        /\ (Lone(pBuffers[pReaders[d].buffer].writers) => SentInOrder(pReaders[d]))
    BY <2>1, HeldBuffer
  <2>3. pBuffers[pReaders[d].buffer].writers \in SUBSET Runs
    BY <2>2 DEF ReplayBuffers
  <2> QED
    BY <2>2, <2>3, LoneWriters
<1> QED
  BY <1>1, ReplayStep, ReplayInit_, PTL DEF ReplaySpec

\* A reader that waits has nothing to wake up for, and none has stopped halfway.
Hears(reader, buffers) ==
    reader.buffer # 0 =>
        /\ reader.state \in {"sending", "waiting", "woken", "over", "left"}
        /\ reader.state = "waiting" =>
              ~buffers[reader.buffer].done /\ ~buffers[reader.buffer].signal

AllHear == \A d \in Readers : Hears(pReaders[d], pBuffers)

\* The reader of a finished buffer has ended, or can go on.
FinishIsHeard ==
    \A d \in Readers :
        (Reading(d) /\ pBuffers[pReaders[d].buffer].done) =>
            pReaders[d].state \in {"sending", "woken", "over", "left"}

\* Buffers may be written to, if those who wait for one are woken.
LEMMA WakingIsHeard ==
    ASSUME ReplayTypeOK, AllHear, NEW b,
           pReaders' = Woken(b),
           \A c \in 1 .. Len(pBuffers) : c # b => pBuffers'[c] = pBuffers[c]
    PROVE  AllHear'
<1>1. ASSUME NEW d \in Readers
      PROVE  Hears(pReaders[d], pBuffers)'
  <2>1. pReaders[d] \in ReplayReaders /\ Hears(pReaders[d], pBuffers)
        /\ (pReaders[d].buffer = 0 \/ pReaders[d].buffer \in 1 .. Len(pBuffers))
    BY DEF ReplayTypeOK, AllHear
  <2>2. CASE pReaders[d].state = "waiting" /\ pReaders[d].buffer = b
    <3>1. pReaders'[d] = [pReaders[d] EXCEPT !.state = "woken"]
      BY <2>2 DEF Woken
    <3>2. pReaders'[d].state = "woken"
      BY <2>1, <3>1 DEF ReplayReaders
    <3> QED
      BY <3>2 DEF Hears
  <2>3. CASE ~(pReaders[d].state = "waiting" /\ pReaders[d].buffer = b)
    <3>1. pReaders'[d] = pReaders[d]
      BY <2>3 DEF Woken
    <3> QED
      BY <2>1, <2>3, <3>1 DEF Hears
  <2> QED
    BY <2>2, <2>3
<1> QED
  BY <1>1 DEF AllHear

\* A reader moves; of the buffers, signals may be cleared.
LEMMA MovingIsHeard ==
    ASSUME ReplayTypeOK, AllHear, NEW d \in Readers, NEW next,
           pReaders' = [pReaders EXCEPT ![d] = next],
           Hears(next, pBuffers'),
           \A c \in 1 .. Len(pBuffers) : /\ pBuffers'[c].done = pBuffers[c].done
                                         /\ pBuffers'[c].signal => pBuffers[c].signal
    PROVE  AllHear'
<1>1. ASSUME NEW e \in Readers
      PROVE  Hears(pReaders[e], pBuffers)'
  <2>1. CASE e = d
    BY <2>1 DEF ReplayTypeOK
  <2>2. CASE e # d
    <3>1. /\ pReaders'[e] = pReaders[e] /\ Hears(pReaders[e], pBuffers)
          /\ pReaders[e].buffer = 0 \/ pReaders[e].buffer \in 1 .. Len(pBuffers)
      BY <2>2 DEF ReplayTypeOK, AllHear
    <3> QED
      BY <3>1 DEF Hears
  <2> QED
    BY <2>1, <2>2
<1> QED
  BY <1>1 DEF AllHear

\* A reader that finds its buffer finished ends; one that finds the signal does not wait.
LEMMA RestingHears ==
    ASSUME NEW d \in Readers, pReaders \in [Readers -> ReplayReaders],
           NEW reader \in ReplayReaders, NEW b, reader.buffer = b, NEW buffers,
           buffers[b] \in ReplayBuffers,
           \/ Follow(d, reader, buffers[b])
           \/ reader.pending # <<>> /\ Yield(d, reader, reader.pending)
           \/ Rest(d, reader, buffers[b])
    PROVE  \E next : /\ pReaders' = [pReaders EXCEPT ![d] = next]
                     /\ Hears(next, buffers)
<1> DEFINE buffer == buffers[b]
<1>1. ASSUME NEW pending, Yield(d, reader, pending)
      PROVE  \E next : /\ pReaders' = [pReaders EXCEPT ![d] = next]
                       /\ Hears(next, buffers)
  <2>1. PICK next : next = [reader EXCEPT !.state = "sending", !.pending = Tail(pending),
                                          !.cursor = Head(pending),
                                          !.got = Append(@, Head(pending))]
    OBVIOUS
  <2>2. next.state = "sending"
    BY <2>1 DEF ReplayReaders
  <2>3. pReaders' = [pReaders EXCEPT ![d] = next]
    BY <1>1, <2>1 DEF Yield
  <2> QED
    BY <2>2, <2>3 DEF Hears
<1>2. ASSUME Rest(d, reader, buffer)
      PROVE  \E next : /\ pReaders' = [pReaders EXCEPT ![d] = next]
                       /\ Hears(next, buffers)
  <2>1. PICK s : s = CASE buffer.done -> "over"
                       [] ~buffer.done /\ buffer.signal -> "woken"
                       [] OTHER -> "waiting"
    OBVIOUS
  <2>2. /\ s \in {"over", "woken", "waiting"}
        /\ s = "waiting" => ~buffer.done /\ ~buffer.signal
    BY <2>1
  <2>3. PICK next : next = [reader EXCEPT !.state = s]
    OBVIOUS
  <2>4. next.state = s /\ next.buffer = b
    BY <2>3 DEF ReplayReaders
  <2>5. pReaders' = [pReaders EXCEPT ![d] = next]
    BY <1>2, <2>1, <2>3 DEF Rest
  <2> QED
    BY <2>2, <2>4, <2>5 DEF Hears
<1> QED
  BY <1>1, <1>2 DEF Follow

LEMMA RunsAreHeard ==
    ASSUME ReplayInv, AllHear, NEW r \in Runs, StreamStart(r) \/ StreamEvent(r) \/ StreamEnd(r)
    PROVE  AllHear'
<1>1. /\ ReplayTypeOK /\ Len(pBuffers) \in Nat /\ pBuffers \in Seq(ReplayBuffers)
      /\ pCurrent \in 0 .. Len(pBuffers)
      /\ \A d \in Readers : pReaders[d].buffer = 0 \/ pReaders[d].buffer \in 1 .. Len(pBuffers)
  BY DEF ReplayInv, ReplayTypeOK
<1>2. LET present == Append(pBuffers, NewBuffer)
      IN  /\ Len(present) = Len(pBuffers) + 1 /\ DOMAIN present = 1 .. Len(pBuffers) + 1
          /\ \A c \in 1 .. Len(pBuffers) : present[c] = pBuffers[c]
  BY <1>1
<1>3. CASE StreamStart(r)
  <2>1. pReaders' = pReaders /\ \A c \in 1 .. Len(pBuffers) : pBuffers'[c] = pBuffers[c]
    BY <1>2, <1>3 DEF StreamStart
  <2> QED
    BY <1>1, <2>1 DEF AllHear, Hears
<1>4. CASE StreamEvent(r)
  <2> DEFINE present == IF pCurrent = 0 THEN Append(pBuffers, NewBuffer) ELSE pBuffers
             b == IF pCurrent = 0 THEN Len(present) ELSE pCurrent
  <2>1. /\ pReaders' = Woken(b)
        /\ pBuffers' = [present EXCEPT ![b].events = Keep(Append(@, pRuns'[r].seq)),
                                       ![b].signal = TRUE, ![b].writers = @ \cup {r}]
    BY <1>4 DEF StreamEvent
  <2>2. \A c \in 1 .. Len(pBuffers) : c \in DOMAIN present /\ present[c] = pBuffers[c]
    BY <1>1, <1>2
  <2> HIDE DEF present, b
  <2>3. \A c \in 1 .. Len(pBuffers) : c # b => pBuffers'[c] = pBuffers[c]
    BY <2>1, <2>2
  <2> QED
    BY <1>1, <2>1, <2>3, WakingIsHeard
<1>5. CASE StreamEnd(r)
  <2>1. CASE pCurrent = 0
    <3>1. UNCHANGED <<pBuffers, pReaders>>
      BY <1>5, <2>1 DEF StreamEnd, FinishBuffer
    <3> QED
      BY <3>1 DEF AllHear, Hears
  <2>2. CASE pCurrent # 0
    <3>1. /\ pReaders' = Woken(pCurrent)
          /\ pBuffers' = [pBuffers EXCEPT ![pCurrent].done = TRUE, ![pCurrent].signal = TRUE]
      BY <1>5, <2>2 DEF StreamEnd, FinishBuffer
    <3>2. \A c \in 1 .. Len(pBuffers) : c # pCurrent => pBuffers'[c] = pBuffers[c]
      BY <1>1, <3>1
    <3> QED
      BY <1>1, <3>1, <3>2, WakingIsHeard
  <2> QED
    BY <2>1, <2>2
<1> QED
  BY <1>3, <1>4, <1>5

LEMMA ReadersHear ==
    ASSUME ReplayInv, AllHear, NEW d \in Readers,
           Attach(d) \/ OpenReplay(d) \/ ReaderResume(d) \/ ReaderWake(d) \/ ReaderLeave(d)
    PROVE  AllHear'
<1>1. /\ ReplayTypeOK /\ Len(pBuffers) \in Nat /\ pBuffers \in Seq(ReplayBuffers)
      /\ pCurrent \in 0 .. Len(pBuffers) /\ pReaders \in [Readers -> ReplayReaders]
      /\ pReaders[d] \in ReplayReaders /\ ReaderInv(pReaders[d]) /\ Hears(pReaders[d], pBuffers)
  BY DEF ReplayInv, ReplayTypeOK, ReadersInv, AllHear
<1>2. CASE Attach(d)
  <2>1. PICK after \in 0 .. MaxEvents + 1, state \in {"refused", "attached"} :
           pReaders' = [pReaders EXCEPT ![d].state = state, ![d].after = after,
                                        ![d].cursor = after]
    BY <1>2 DEF Attach
  <2>2. PICK next : next = [pReaders[d] EXCEPT !.state = state, !.after = after, !.cursor = after]
    OBVIOUS
  <2>3. pReaders' = [pReaders EXCEPT ![d] = next] /\ pBuffers' = pBuffers
    BY <1>1, <1>2, <2>1, <2>2 DEF Attach
  <2>4. next.buffer = 0
    <3>1. pReaders[d].buffer = 0
      BY <1>1, <1>2 DEF Attach, ReaderInv
    <3> QED
      BY <1>1, <2>2, <3>1 DEF ReplayReaders
  <2> QED
    BY <1>1, <2>3, <2>4, MovingIsHeard DEF Hears
<1>3. CASE OpenReplay(d) /\ pCurrent = 0
  <2>1. PICK next : next = [pReaders[d] EXCEPT !.state = "failed"]
    OBVIOUS
  <2>2. pBuffers' = pBuffers /\ pReaders' = [pReaders EXCEPT ![d] = next]
    BY <1>1, <1>3, <2>1 DEF OpenReplay
  <2>3. next.buffer = 0
    BY <1>1, <1>3, <2>1 DEF OpenReplay, ReaderInv, ReplayReaders
  <2> QED
    BY <1>1, <2>2, <2>3, MovingIsHeard DEF Hears
<1>4. CASE OpenReplay(d) /\ pCurrent # 0
  <2>1. PICK reader : reader = [pReaders[d] EXCEPT !.buffer = pCurrent]
    OBVIOUS
  <2>2. reader \in ReplayReaders /\ reader.buffer = pCurrent
    <3>1. pCurrent \in Nat
      BY <1>1
    <3> QED
      BY <1>1, <2>1, <3>1 DEF ReplayReaders
  <2>3. pBuffers' = pBuffers /\ Follow(d, reader, pBuffers[pCurrent])
    BY <1>4, <2>1 DEF OpenReplay
  <2>4. pBuffers[pCurrent] \in ReplayBuffers
    BY <1>1, <1>4
  <2>5. PICK next : pReaders' = [pReaders EXCEPT ![d] = next] /\ Hears(next, pBuffers)
    BY <1>1, <2>2, <2>3, <2>4, RestingHears
  <2> QED
    BY <1>1, <2>3, <2>5, MovingIsHeard
<1>5. CASE ReaderResume(d)
  <2>1. pReaders[d].buffer # 0
    BY <1>1, <1>5 DEF ReaderResume, ReaderInv
  <2>2. PICK b : b = pReaders[d].buffer
    OBVIOUS
  <2>3. pBuffers[b] \in ReplayBuffers
    BY <2>1, <2>2, HeldBuffer
  <2>4. /\ pBuffers' = pBuffers
        /\ \/ pReaders[d].pending # <<>> /\ Yield(d, pReaders[d], pReaders[d].pending)
           \/ Rest(d, pReaders[d], pBuffers[b])
    BY <1>5, <2>2 DEF ReaderResume
  <2>5. PICK next : pReaders' = [pReaders EXCEPT ![d] = next] /\ Hears(next, pBuffers)
    BY <1>1, <2>2, <2>3, <2>4, RestingHears
  <2> QED
    BY <1>1, <2>4, <2>5, MovingIsHeard
<1>6. CASE ReaderWake(d)
  <2>1. pReaders[d].buffer # 0
    BY <1>1, <1>6 DEF ReaderWake, ReaderInv
  <2>2. PICK b : b = pReaders[d].buffer
    OBVIOUS
  <2>3. pBuffers[b] \in ReplayBuffers /\ b \in 1 .. Len(pBuffers)
    BY <2>1, <2>2, HeldBuffer
  <2>4. PICK cleared : cleared = [pBuffers[b] EXCEPT !.signal = FALSE]
    OBVIOUS
  <2>5. cleared \in ReplayBuffers /\ cleared.done = pBuffers[b].done /\ ~cleared.signal
    BY <2>3, <2>4 DEF ReplayBuffers
  <2>6. pBuffers' = [pBuffers EXCEPT ![b] = cleared]
    BY <1>1, <1>6, <2>2, <2>3, <2>4 DEF ReaderWake
  <2>7. /\ pBuffers'[b] = cleared
        /\ \A c \in 1 .. Len(pBuffers) : /\ pBuffers'[c].done = pBuffers[c].done
                                         /\ pBuffers'[c].signal => pBuffers[c].signal
    BY <1>1, <2>3, <2>5, <2>6
  <2>8. Follow(d, pReaders[d], pBuffers'[b])
    BY <1>6, <2>2 DEF ReaderWake
  <2>9. PICK next : pReaders' = [pReaders EXCEPT ![d] = next] /\ Hears(next, pBuffers')
    BY <1>1, <2>2, <2>5, <2>7, <2>8, RestingHears
  <2> QED
    BY <1>1, <2>7, <2>9, MovingIsHeard
<1>7. CASE ReaderLeave(d)
  <2>1. PICK next : next = [pReaders[d] EXCEPT !.state = "left"]
    OBVIOUS
  <2>2. pBuffers' = pBuffers /\ pReaders' = [pReaders EXCEPT ![d] = next]
    BY <1>1, <1>7, <2>1 DEF ReaderLeave
  <2>3. next.state = "left"
    BY <1>1, <2>1 DEF ReplayReaders
  <2> QED
    BY <1>1, <2>2, <2>3, MovingIsHeard DEF Hears
<1> QED
  BY <1>2, <1>3, <1>4, <1>5, <1>6, <1>7

(***************************************************************************)
(* No reader misses the end of its buffer: once the buffer is finished, a  *)
(* reader of it has ended or has a step of its own to take, although one   *)
(* event object serves them all and each that wakes clears it.             *)
(* (serve/replay.py:35-46, 107-115)                                        *)
(***************************************************************************)
THEOREM NoEndIsMissed == ReplaySpec => []FinishIsHeard
<1>1. ReplayInit => AllHear
  <2>1. ASSUME ReplayInit, NEW d \in Readers
        PROVE  pReaders[d].buffer = 0
    BY <2>1 DEF ReplayInit
  <2> QED
    BY <2>1 DEF AllHear, Hears
<1>2. ReplayInv /\ AllHear /\ [ReplayNext]_replayVars => AllHear'
  <2>1. Expire \/ UNCHANGED replayVars => UNCHANGED <<pReaders, pBuffers>>
    BY DEF Expire, replayVars
  <2>2. AllHear /\ UNCHANGED <<pReaders, pBuffers>> => AllHear'
    BY DEF AllHear, Hears
  <2> QED
    BY <2>1, <2>2, RunsAreHeard, ReadersHear DEF ReplayNext
<1>3. AllHear => FinishIsHeard
  BY DEF AllHear, Hears, FinishIsHeard, Reading
<1> QED
  BY <1>1, <1>2, <1>3, ReplayStep, ReplayInit_, PTL DEF ReplaySpec

-----------------------------------------------------------------------------
(***************************************************************************)
(* LlmCall.  While an answer is put together, what was merged from the     *)
(* deltas is, call by call, what the provider has asked for so far; and    *)
(* nothing of an earlier attempt is left when the next one is made.        *)
(***************************************************************************)
Args(i, parts) == [p \in 1 .. parts |-> <<i, p>>]
NameOf(i) == IF cAsked[i].named THEN i ELSE 0

AskedCalls == [named : BOOLEAN, parts : Nat]

CallTypeOK ==
    /\ cStreamed \in BOOLEAN
    /\ cAsked \in Seq(AskedCalls)
    /\ cText \in Seq(Pieces) /\ cThought \in Seq(Pieces)

MergedSoFar ==
    /\ DOMAIN cAcc = DOMAIN cAsked
    /\ \A i \in DOMAIN cAsked : /\ cAcc[i].name = NameOf(i)
                                /\ cAcc[i].args = Args(i, cAsked[i].parts)

AnswerInv ==
    /\ CallTypeOK
    /\ cState \in {"idle", "asking", "waiting"} => cAsked = <<>> /\ cAcc = <<>>
    /\ IF cStreamed THEN MergedSoFar ELSE cAcc = <<>>
    /\ CallsAsSent

LEMMA LimitedIs ==
    ASSUME NEW T, NEW calls \in Seq(T), NEW limit \in Nat
    PROVE  /\ Limited(calls, limit) \in Seq(T)
           /\ Len(Limited(calls, limit)) =
                 IF limit = 0 \/ Len(calls) <= limit THEN Len(calls) ELSE limit
           /\ \A k \in 1 .. Len(Limited(calls, limit)) :
                 k \in 1 .. Len(calls) /\ Limited(calls, limit)[k] = calls[k]
<1>1. Len(calls) \in Nat
  OBVIOUS
<1>2. CASE limit = 0 \/ Len(calls) <= limit
  BY <1>2 DEF Limited
<1>3. CASE ~(limit = 0 \/ Len(calls) <= limit)
  <2>1. Limited(calls, limit) = SubSeq(calls, 1, limit)
    BY <1>3 DEF Limited
  <2>2. 1 \in Int /\ limit \in Int /\ \A i \in 1 .. limit : calls[i] \in T
    BY <1>1, <1>3
  <2>3. /\ SubSeq(calls, 1, limit) \in Seq(T)
        /\ Len(SubSeq(calls, 1, limit)) = IF 1 <= limit THEN limit - 1 + 1 ELSE 0
        /\ \A i \in 1 .. limit - 1 + 1 : SubSeq(calls, 1, limit)[i] = calls[1 + i - 1]
    BY <2>2, SubSeqProperties
  <2>4. Len(Limited(calls, limit)) = limit
    BY <1>3, <2>1, <2>3
  <2>5. \A k \in 1 .. limit : k \in 1 .. Len(calls) /\ k \in 1 .. limit - 1 + 1 /\ 1 + k - 1 = k
    BY <1>1, <1>3
  <2> QED
    BY <1>3, <2>1, <2>3, <2>4, <2>5
<1> QED
  BY <1>2, <1>3

\* What is written out in the text is called by one of the two syntaxes.
LEMMA WrittenIs ==
    ASSUME NEW text \in Seq(Pieces)
    PROVE  \E n \in Nat : /\ Extract(text).calls \in [1 .. n -> {[name |-> "block", args |-> <<>>],
                                                              [name |-> "gemma", args |-> <<>>]}]
<1>1. ASSUME NEW kind \in {"block", "gemma"}
      PROVE  \E n \in Nat :
                WrittenCalls(text, kind) \in [1 .. n -> {[name |-> "block", args |-> <<>>],
                                                       [name |-> "gemma", args |-> <<>>]}]
  <2> DEFINE places == {k \in DOMAIN text : text[k] \in {kind}}
             kept == AtPlaces(text, places)
  <2>1. places \in SUBSET DOMAIN text
    OBVIOUS
  <2>2. kept \in Seq(Pieces)
    BY <2>1, AtPlacesIs
  <2>3. WrittenCalls(text, kind) = [k \in DOMAIN kept |-> [name |-> kind, args |-> <<>>]]
    BY DEF WrittenCalls, Written
  <2> HIDE DEF kept
  <2>4. DOMAIN kept = 1 .. Len(kept) /\ Len(kept) \in Nat
    BY <2>2
  <2> QED
    BY <2>3, <2>4
<1>2. Extract(text).calls \in {WrittenCalls(text, "block"), WrittenCalls(text, "gemma")}
  BY DEF Extract
<1> QED
  BY <1>1, <1>2

\* The whole answer's calls, before the text is looked at.
LEMMA NativeIs ==
    ASSUME AnswerInv, NEW cut
    PROVE  LET native == IF cStreamed THEN FromDeltas(cut) ELSE FromMessage(cut)
           IN  \E n \in Nat :
                 /\ Len(Meant) = n /\ DOMAIN Meant = 1 .. n
                 /\ Meant = <<>> <=> n = 0
                 /\ DOMAIN native = 1 .. n
                 /\ native = [k \in 1 .. n |-> [name |-> NameOf(Meant[k]),
                                               args |-> Input(Meant[k],
                                                              Args(Meant[k], cAsked[Meant[k]].parts),
                                                              cut)]]
                 /\ \A k \in 1 .. n : Meant[k] \in DOMAIN cAsked
<1> DEFINE S == {i \in DOMAIN cAsked : cAsked[i].named \/ ~cStreamed}
           native == IF cStreamed THEN FromDeltas(cut) ELSE FromMessage(cut)
<1>1. /\ cAsked \in Seq(AskedCalls) /\ Len(cAsked) \in Nat
      /\ DOMAIN cAsked = 1 .. Len(cAsked) /\ cStreamed \in BOOLEAN
  BY DEF AnswerInv, CallTypeOK
<1>2. IsFiniteSet(S) /\ S \in SUBSET Nat
  <2>1. 1 \in Int /\ Len(cAsked) \in Int
    BY <1>1
  <2>2. IsFiniteSet(1 .. Len(cAsked)) /\ S \in SUBSET (1 .. Len(cAsked))
    BY <1>1, <2>1, FS_Interval
  <2> HIDE DEF S
  <2>3. 1 .. Len(cAsked) \in SUBSET Nat
    BY <1>1
  <2> QED
    BY <2>2, <2>3, FS_Subset
<1>3. Meant = Ascending(S)
  BY DEF Meant
<1> DEFINE n == Cardinality(S)
<1>4. n \in Nat /\ Meant \in [1 .. n -> S]
  <2> HIDE DEF S
  <2> QED
    BY <1>2, <1>3, AscendingIs
<1>5. S \subseteq DOMAIN cAsked
  OBVIOUS
<1>6. native = [k \in 1 .. n |-> [name |-> NameOf(Meant[k]),
                                 args |-> Input(Meant[k], Args(Meant[k], cAsked[Meant[k]].parts),
                                                cut)]]
  <2>1. CASE cStreamed
    <3>1. MergedSoFar
      BY <2>1 DEF AnswerInv
    <3>2. {i \in DOMAIN cAcc : cAcc[i].name # 0} = S
      BY <1>1, <2>1, <3>1 DEF MergedSoFar, NameOf
    <3>3. native = [k \in DOMAIN Meant |-> [name |-> cAcc[Meant[k]].name,
                                           args |-> Input(Meant[k], cAcc[Meant[k]].args, cut)]]
      BY <1>3, <2>1, <3>2 DEF FromDeltas
    <3>4. DOMAIN Meant = 1 .. n /\ \A k \in 1 .. n : Meant[k] \in DOMAIN cAsked
      BY <1>4, <1>5
    <3>5. \A k \in 1 .. n : /\ cAcc[Meant[k]].name = NameOf(Meant[k])
                            /\ cAcc[Meant[k]].args = Args(Meant[k], cAsked[Meant[k]].parts)
      BY <3>1, <3>4 DEF MergedSoFar
    <3> HIDE DEF native, n
    <3> QED
      BY <3>3, <3>4, <3>5
  <2>2. CASE ~cStreamed
    <3>1. S = 1 .. Len(cAsked)
      BY <1>1, <2>2
    <3>2. Meant = [k \in 1 .. Len(cAsked) |-> k]
      BY <1>1, <1>3, <3>1, AscendingInterval
    <3>3. n = Len(cAsked)
      <4>1. 1 \in Int /\ Len(cAsked) \in Int
        BY <1>1
      <4>2. Cardinality(1 .. Len(cAsked)) = IF 1 > Len(cAsked) THEN 0 ELSE Len(cAsked) - 1 + 1
        BY <4>1, FS_Interval
      <4>3. n = Cardinality(1 .. Len(cAsked))
        BY <3>1
      <4> HIDE DEF n
      <4> QED
        BY <1>1, <4>2, <4>3
    <3>4. native = [i \in 1 .. Len(cAsked) |->
                      [name |-> NameOf(i), args |-> Input(i, Args(i, cAsked[i].parts), cut)]]
      BY <1>1, <2>2 DEF FromMessage, NameOf, Args
    <3>5. \A k \in 1 .. n : Meant[k] = k
      BY <3>2, <3>3
    <3> HIDE DEF native, n
    <3> QED
      BY <3>3, <3>4, <3>5
  <2> QED
    BY <1>1, <2>1, <2>2
<1> HIDE DEF native, n, S
<1>7. Meant \in Seq(S) /\ Len(Meant) = n /\ DOMAIN Meant = 1 .. n
  BY <1>4
<1>8. Meant = <<>> <=> n = 0
  BY <1>4, <1>7, EmptySeq
<1> QED
  BY <1>4, <1>5, <1>6, <1>7, <1>8 DEF native

LEMMA AnswerEndsKeeps ==
    ASSUME AnswerInv, NEW cut, NEW limit \in CallLimits, AnswerEnds(cut, limit)
    PROVE  CallsAsSent'
<1> DEFINE native == IF cStreamed THEN FromDeltas(cut) ELSE FromMessage(cut)
           promoted == Promote(native)
           calls == Limited(promoted.calls, limit)
<1>1. /\ cCut' = cut
      /\ cReply' = [calls |-> calls, text |-> promoted.text, limit |-> limit,
                    message |-> Message(calls, promoted.text)]
      /\ UNCHANGED <<cStreamed, cAsked>>
  BY DEF AnswerEnds
<1>2. Meant' = Meant
  BY <1>1 DEF Meant
<1>3. limit \in Nat
  BY LlmAssumption
<1>4. PICK n \in Nat :
         /\ Len(Meant) = n /\ DOMAIN Meant = 1 .. n
         /\ Meant = <<>> <=> n = 0
         /\ DOMAIN native = 1 .. n
         /\ native = [k \in 1 .. n |-> [name |-> NameOf(Meant[k]),
                                       args |-> Input(Meant[k],
                                                      Args(Meant[k], cAsked[Meant[k]].parts),
                                                      cut)]]
         /\ \A k \in 1 .. n : Meant[k] \in DOMAIN cAsked
  BY NativeIs
<1>5. native \in Seq({native[k] : k \in 1 .. n}) /\ Len(native) = n
      /\ \A k \in 1 .. n :
            /\ native[k].name = NameOf(Meant[k])
            /\ native[k].args = Input(Meant[k], Args(Meant[k], cAsked[Meant[k]].parts), cut)
  <2> HIDE DEF native
  <2>1. native \in [1 .. n -> {native[k] : k \in 1 .. n}]
    BY <1>4
  <2>2. native \in Seq({native[k] : k \in 1 .. n}) /\ Len(native) = n
    BY <2>1
  <2> QED
    BY <1>4, <2>2
<1>6. native = <<>> <=> n = 0
  <2> HIDE DEF native
  <2> QED
    BY <1>5, EmptySeq
<1> HIDE DEF native
<1>7. CASE n # 0
  <2>1. promoted.calls = native
    BY <1>6, <1>7 DEF Promote
  <2> DEFINE count == IF limit = 0 \/ n <= limit THEN n ELSE limit
  <2>2. Len(calls) = count /\ \A k \in 1 .. count : calls[k] = native[k] /\ k \in 1 .. n
    <3>1. /\ Len(Limited(native, limit)) =
                  IF limit = 0 \/ Len(native) <= limit THEN Len(native) ELSE limit
          /\ \A k \in 1 .. Len(Limited(native, limit)) :
                k \in 1 .. Len(native) /\ Limited(native, limit)[k] = native[k]
      BY <1>3, <1>5, LimitedIs
    <3>2. calls = Limited(native, limit)
      BY <2>1
    <3> HIDE DEF calls
    <3> QED
      BY <1>5, <3>1, <3>2
  <2>3. calls # <<>>
    <3>1. count # 0
      BY <1>7
    <3> QED
      BY <2>2, <3>1
  <2> HIDE DEF calls
  <2>4. \A k \in 1 .. count :
           /\ calls[k].name = IF cAsked[Meant[k]].named THEN Meant[k] ELSE 0
           /\ calls[k].args = IF Meant[k] \in cut THEN <<>>
                              ELSE [p \in 1 .. cAsked[Meant[k]].parts |-> <<Meant[k], p>>]
    BY <1>5, <2>2 DEF NameOf, Input, Args
  <2>5. cReply'.calls = calls /\ cReply'.limit = limit
    BY <1>1
  <2> HIDE DEF promoted
  <2> QED
    BY <1>1, <1>2, <1>4, <1>7, <2>2, <2>3, <2>4, <2>5 DEF CallsAsSent
<1>8. CASE n = 0
  <2> DEFINE W == {[name |-> "block", args |-> <<>>], [name |-> "gemma", args |-> <<>>]}
  <2>1. native = <<>>
    BY <1>6, <1>8
  <2>2. promoted.calls \in {Extract(cText).calls, Extract(cThought).calls}
    BY <2>1 DEF Promote
  <2>3. PICK m \in Nat : promoted.calls \in [1 .. m -> W]
    <3>1. cText \in Seq(Pieces) /\ cThought \in Seq(Pieces)
      BY DEF AnswerInv, CallTypeOK
    <3> QED
      BY <2>2, <3>1, WrittenIs
  <2> HIDE DEF promoted
  <2>4. promoted.calls \in Seq(W) /\ Len(promoted.calls) = m
    BY <2>3
  <2>5. calls \in Seq(W)
    BY <1>3, <2>4, LimitedIs
  <2> HIDE DEF calls
  <2>6. \A k \in DOMAIN calls : calls[k] \in W
    BY <2>5
  <2>7. \A k \in DOMAIN calls : calls[k].name \in {"block", "gemma"}
    BY <2>6
  <2>8. calls # <<>> \/ Says(promoted.text) \/ Message(calls, promoted.text) = "placeholder"
    BY DEF Message
  <2>9. /\ cReply'.calls = calls /\ cReply'.text = promoted.text
        /\ cReply'.message = Message(calls, promoted.text)
    BY <1>1
  <2>10. cReply'.calls # <<>> \/ Says(cReply'.text) \/ cReply'.message = "placeholder"
    BY <2>8, <2>9
  <2>11. Meant' = <<>>
    BY <1>2, <1>4, <1>8
  <2> QED
    BY <2>7, <2>9, <2>10, <2>11 DEF CallsAsSent, Says
<1> QED
  BY <1>7, <1>8

\* Another piece of an answer: the merged deltas stay what was asked for.
LEMMA CallBeginsKeeps ==
    ASSUME AnswerInv, NEW named \in BOOLEAN, CallBegins(named)
    PROVE  AnswerInv'
<1> DEFINE i == Len(cAsked) + 1
           call == [named |-> named, parts |-> 0]
           delta == [begins |-> TRUE, name |-> IF named THEN i ELSE 0, args |-> <<>>]
<1>1. /\ cState = "answering" /\ cAsked' = Append(cAsked, call)
      /\ cAcc' = AccWith(i, delta)
      /\ UNCHANGED <<cStreamed, cState, cText, cThought, cCut, cReply>>
  BY DEF CallBegins, Arrives
<1>2. /\ cAsked \in Seq(AskedCalls) /\ Len(cAsked) \in Nat
      /\ DOMAIN cAsked = 1 .. Len(cAsked) /\ cStreamed \in BOOLEAN
  BY DEF AnswerInv, CallTypeOK
<1>3. call \in AskedCalls /\ call.named = named /\ call.parts = 0
  BY DEF AskedCalls
<1> HIDE DEF call
<1>4. /\ cAsked' \in Seq(AskedCalls)
      /\ DOMAIN cAsked' = DOMAIN cAsked \cup {i} /\ cAsked'[i] = call
      /\ \A j \in DOMAIN cAsked : cAsked'[j] = cAsked[j]
      /\ i \in Nat /\ i # 0 /\ i \notin DOMAIN cAsked
  BY <1>1, <1>2, <1>3
<1>5. IF cStreamed THEN MergedSoFar' ELSE cAcc' = <<>>
  <2>1. CASE ~cStreamed
    BY <1>1, <2>1 DEF AccWith, AnswerInv
  <2>2. CASE cStreamed
    <3>1. MergedSoFar
      BY <2>2 DEF AnswerInv
    <3>2. i \notin DOMAIN cAcc
      BY <1>4, <3>1 DEF MergedSoFar
    <3>3. cAcc' = [j \in DOMAIN cAcc \cup {i} |->
                     IF j # i THEN cAcc[j]
                     ELSE [name |-> IF delta.name # 0 THEN delta.name ELSE 0,
                           args |-> <<>> \o delta.args]]
      BY <1>1, <2>2, <3>2 DEF AccWith, MergeDelta
    <3>4. delta.args = <<>> /\ delta.name = IF named THEN i ELSE 0
      OBVIOUS
    <3>5. <<>> \o delta.args = <<>>
      BY <3>4
    <3> HIDE DEF delta, i
    <3>6. /\ DOMAIN cAcc' = DOMAIN cAsked \cup {i}
          /\ cAcc'[i].name = IF named THEN i ELSE 0
          /\ cAcc'[i].args = <<>>
          /\ \A j \in DOMAIN cAsked : cAcc'[j] = cAcc[j]
      BY <1>4, <3>1, <3>3, <3>4, <3>5 DEF MergedSoFar
    <3>7. Args(i, 0) = <<>>
      BY DEF Args
    <3>8. ASSUME NEW j \in DOMAIN cAsked'
          PROVE  /\ cAcc'[j].name = IF cAsked'[j].named THEN j ELSE 0
                 /\ cAcc'[j].args = Args(j, cAsked'[j].parts)
      <4>1. CASE j = i
        BY <1>3, <1>4, <3>6, <3>7, <4>1
      <4>2. CASE j \in DOMAIN cAsked
        BY <1>4, <3>1, <3>6, <4>2 DEF MergedSoFar, NameOf
      <4> QED
        BY <1>4, <4>1, <4>2
    <3> QED
      BY <1>4, <2>2, <3>6, <3>8 DEF MergedSoFar, NameOf
  <2> QED
    BY <1>2, <2>1, <2>2
<1> QED
  BY <1>1, <1>4, <1>5 DEF AnswerInv, CallTypeOK, CallsAsSent

LEMMA CallGoesOnKeeps ==
    ASSUME AnswerInv, NEW i \in Indexes, CallGoesOn(i)
    PROVE  AnswerInv'
<1> DEFINE parts == cAsked[i].parts
           delta == [begins |-> FALSE, name |-> 0, args |-> <<<<i, parts + 1>>>>]
<1>1. /\ cState = "answering" /\ i \in DOMAIN cAsked
      /\ cAsked' = [cAsked EXCEPT ![i].parts = @ + 1]
      /\ cAcc' = AccWith(i, delta)
      /\ UNCHANGED <<cStreamed, cState, cText, cThought, cCut, cReply>>
  BY DEF CallGoesOn, Arrives
<1>2. /\ cAsked \in Seq(AskedCalls) /\ cStreamed \in BOOLEAN
      /\ cAsked[i] \in AskedCalls
  <2>1. cAsked \in Seq(AskedCalls) /\ cStreamed \in BOOLEAN
    BY DEF AnswerInv, CallTypeOK
  <2> QED
    BY <1>1, <2>1
<1>3. /\ parts \in Nat
      /\ cAsked' \in Seq(AskedCalls) /\ DOMAIN cAsked' = DOMAIN cAsked
      /\ cAsked'[i].named = cAsked[i].named /\ cAsked'[i].parts = parts + 1
      /\ \A j \in DOMAIN cAsked : j # i => cAsked'[j] = cAsked[j]
  <2>1. PICK call : call = [cAsked[i] EXCEPT !.parts = @ + 1]
    OBVIOUS
  <2>2. parts \in Nat
    BY <1>2 DEF AskedCalls
  <2>3. call \in AskedCalls /\ call.named = cAsked[i].named
        /\ call.parts = parts + 1
    BY <1>2, <2>1, <2>2 DEF AskedCalls
  <2>4. cAsked' = [cAsked EXCEPT ![i] = call]
    BY <1>1, <2>1
  <2>5. cAsked[i].named = call.named
    BY <2>3
  <2>6. cAsked' \in Seq(AskedCalls) /\ DOMAIN cAsked' = DOMAIN cAsked
    <3>1. cAsked \in [1 .. Len(cAsked) -> AskedCalls] /\ Len(cAsked) \in Nat
      BY <1>2
    <3>2. cAsked' \in [1 .. Len(cAsked) -> AskedCalls]
      BY <2>3, <2>4, <3>1
    <3> QED
      BY <3>1, <3>2
  <2>7. cAsked'[i] = call /\ \A j \in DOMAIN cAsked : j # i => cAsked'[j] = cAsked[j]
    BY <1>1, <1>2, <2>4
  <2> HIDE DEF parts
  <2> QED
    BY <2>2, <2>3, <2>5, <2>6, <2>7
<1>4. IF cStreamed THEN MergedSoFar' ELSE cAcc' = <<>>
  <2>1. CASE ~cStreamed
    BY <1>1, <2>1 DEF AccWith, AnswerInv
  <2>2. CASE cStreamed
    <3>1. MergedSoFar
      BY <2>2 DEF AnswerInv
    <3>2. /\ i \in DOMAIN cAcc /\ cAcc[i].name = NameOf(i) /\ cAcc[i].args = Args(i, parts)
      BY <1>1, <3>1 DEF MergedSoFar
    <3>3. cAcc' = [j \in DOMAIN cAcc \cup {i} |->
                     IF j # i THEN cAcc[j]
                     ELSE [name |-> IF delta.name # 0 THEN delta.name ELSE cAcc[i].name,
                           args |-> cAcc[i].args \o delta.args]]
      BY <1>1, <2>2, <3>2 DEF AccWith, MergeDelta
    <3>4. delta.name = 0 /\ delta.args = <<<<i, parts + 1>>>>
      OBVIOUS
    <3> HIDE DEF delta
    <3> HIDE DEF parts
    <3>5. /\ DOMAIN cAcc' = DOMAIN cAsked /\ cAcc'[i].name = cAcc[i].name
          /\ cAcc'[i].args = cAcc[i].args \o delta.args
          /\ \A j \in DOMAIN cAsked : j # i => cAcc'[j] = cAcc[j]
      <4>1. PICK entry : entry = [name |-> IF delta.name # 0 THEN delta.name ELSE cAcc[i].name,
                                  args |-> cAcc[i].args \o delta.args]
        OBVIOUS
      <4>2. entry.name = cAcc[i].name /\ entry.args = cAcc[i].args \o delta.args
        BY <3>4, <4>1
      <4>3. cAcc' = [j \in DOMAIN cAcc \cup {i} |-> IF j # i THEN cAcc[j] ELSE entry]
        BY <3>3, <4>1
      <4>4. DOMAIN cAcc = DOMAIN cAsked
        BY <3>1 DEF MergedSoFar
      <4> QED
        BY <1>1, <4>2, <4>3, <4>4
    <3>6. Args(i, parts) \o <<<<i, parts + 1>>>> = Args(i, parts + 1)
      <4>1. Args(i, parts) \in Seq({<<i, p>> : p \in Nat}) /\ Len(Args(i, parts)) = parts
        BY <1>3 DEF Args
      <4>2. <<<<i, parts + 1>>>> \in Seq({<<i, p>> : p \in Nat})
            /\ Len(<<<<i, parts + 1>>>>) = 1 /\ <<<<i, parts + 1>>>>[1] = <<i, parts + 1>>
        BY <1>3
      <4> DEFINE both == Args(i, parts) \o <<<<i, parts + 1>>>>
      <4>3. /\ both \in Seq({<<i, p>> : p \in Nat}) /\ Len(both) = parts + 1
            /\ \A p \in 1 .. parts + 1 :
                  both[p] = IF p <= parts THEN Args(i, parts)[p] ELSE <<i, parts + 1>>
        <5>1. PICK s, t : s = Args(i, parts) /\ t = <<<<i, parts + 1>>>>
          OBVIOUS
        <5>2. /\ s \in Seq({<<i, p>> : p \in Nat}) /\ t \in Seq({<<i, p>> : p \in Nat})
              /\ Len(s) = parts /\ Len(t) = 1 /\ t[1] = <<i, parts + 1>>
          BY <4>1, <4>2, <5>1
        <5>3. /\ s \o t \in Seq({<<i, p>> : p \in Nat}) /\ Len(s \o t) = Len(s) + Len(t)
              /\ \A p \in 1 .. Len(s) + Len(t) :
                    (s \o t)[p] = IF p <= Len(s) THEN s[p] ELSE t[p - Len(s)]
          BY <5>2, ConcatProperties
        <5>4. ASSUME NEW p \in 1 .. parts + 1
              PROVE  (s \o t)[p] = IF p <= parts THEN s[p] ELSE <<i, parts + 1>>
          <6>1. p <= parts \/ p - parts = 1
            BY <1>3
          <6> QED
            BY <5>2, <5>3, <6>1
        <5>5. both = s \o t
          BY <5>1
        <5> QED
          BY <5>1, <5>2, <5>3, <5>4, <5>5
      <4>4. \A p \in 1 .. parts : Args(i, parts)[p] = <<i, p>>
        BY DEF Args
      <4> HIDE DEF both
      <4>5. \A p \in 1 .. parts + 1 : both[p] = <<i, p>>
        <5>1. ASSUME NEW p \in 1 .. parts + 1
              PROVE  both[p] = <<i, p>>
          <6>1. CASE p <= parts
            <7>1. p \in 1 .. parts
              BY <1>3, <6>1
            <7> QED
              BY <4>3, <4>4, <6>1, <7>1
          <6>2. CASE p = parts + 1
            BY <1>3, <4>3, <6>2
          <6> QED
            BY <1>3, <6>1, <6>2
        <5> QED
          BY <5>1
      <4>6. DOMAIN both = 1 .. parts + 1 /\ both = [p \in DOMAIN both |-> both[p]]
        BY <4>3
      <4>7. both = [p \in 1 .. parts + 1 |-> <<i, p>>]
        BY <4>5, <4>6
      <4> QED
        BY <4>7 DEF both, Args
    <3>7. ASSUME NEW j \in DOMAIN cAsked'
          PROVE  /\ cAcc'[j].name = IF cAsked'[j].named THEN j ELSE 0
                 /\ cAcc'[j].args = Args(j, cAsked'[j].parts)
      <4>1. CASE j = i
        BY <1>3, <3>2, <3>4, <3>5, <3>6, <4>1 DEF NameOf
      <4>2. CASE j # i
        BY <1>3, <3>1, <3>5, <4>2 DEF MergedSoFar, NameOf
      <4> QED
        BY <4>1, <4>2
    <3> QED
      BY <1>3, <2>2, <3>5, <3>7 DEF MergedSoFar, NameOf
  <2> QED
    BY <1>2, <2>1, <2>2
<1> QED
  BY <1>1, <1>3, <1>4 DEF AnswerInv, CallTypeOK, CallsAsSent

\* A step that leaves the answer alone, and is not its end.
LEMMA AnswerStands ==
    ASSUME AnswerInv,
           UNCHANGED <<cStreamed, cAsked, cText, cThought, cAcc, cCut, cReply>>,
           cState' = "answered" => cState = "answered",
           cState' \in {"idle", "asking", "waiting"} =>
              cState \in {"idle", "asking", "waiting"}
    PROVE  AnswerInv'
<1>1. Meant' = Meant
  BY DEF Meant
<1>2. CallsAsSent'
  BY <1>1 DEF AnswerInv, CallsAsSent, Says
<1>3. MergedSoFar' <=> MergedSoFar
  BY DEF MergedSoFar, NameOf
<1> QED
  BY <1>2, <1>3 DEF AnswerInv, CallTypeOK

(***************************************************************************)
(* The calls that run are the provider's, in its order, each with its own  *)
(* arguments, however the deltas were mixed and whatever attempts failed   *)
(* before, for any number of calls, pieces and retries.                    *)
(***************************************************************************)
THEOREM CallsReachTheLoop == CallSpec => []CallsAsSent
<1>1. CallInit => AnswerInv
  BY DEF CallInit, AnswerInv, CallTypeOK, MergedSoFar, CallsAsSent
<1>2. ASSUME AnswerInv, [CallNext]_callVars
      PROVE  AnswerInv'
  <2>1. CASE UNCHANGED callVars
    BY <1>2, <2>1, AnswerStands DEF callVars
  <2>2. CASE Ask \/ ProviderAnswers \/ StreamFails \/ Cancel \/ ChunkAfterCancel
    BY <1>2, <2>2, AnswerStands DEF Ask, ProviderAnswers, StreamFails, Cancel,
                                    ChunkAfterCancel, Answer
  <2>3. CASE ProviderFails
    <3>1. /\ cAsked' = <<>> /\ cText' = <<>> /\ cThought' = <<>> /\ cAcc' = cAcc
          /\ cStreamed' = cStreamed /\ cState' \in {"waiting", "failed"}
          /\ cAcc = <<>>
      BY <1>2, <2>3 DEF ProviderFails, AnswerInv
    <3> QED
      BY <1>2, <3>1 DEF AnswerInv, CallTypeOK, MergedSoFar, CallsAsSent
  <2>4. ASSUME NEW piece \in Pieces, TextArrives(piece) \/ ThoughtArrives(piece)
        PROVE  AnswerInv'
    <3>1. /\ cState = "answering" /\ UNCHANGED <<cStreamed, cState, cAsked, cAcc, cCut, cReply>>
          /\ cText' \in {cText, Append(cText, piece)} /\ cThought' \in {cThought, <<piece>>}
      BY <2>4 DEF TextArrives, ThoughtArrives, Arrives
    <3>2. cText' \in Seq(Pieces) /\ cThought' \in Seq(Pieces)
      <4>1. cText \in Seq(Pieces) /\ cThought \in Seq(Pieces)
        BY <1>2 DEF AnswerInv, CallTypeOK
      <4>2. Append(cText, piece) \in Seq(Pieces) /\ <<piece>> \in Seq(Pieces)
        BY <4>1
      <4> QED
        BY <3>1, <4>1, <4>2
    <3> QED
      BY <1>2, <3>1, <3>2 DEF AnswerInv, CallTypeOK, MergedSoFar, NameOf, CallsAsSent
  <2>5. ASSUME NEW cut \in SUBSET Indexes, NEW limit \in CallLimits, AnswerEnds(cut, limit)
        PROVE  AnswerInv'
    <3>1. CallsAsSent'
      BY <1>2, <2>5, AnswerEndsKeeps
    <3>2. cState' = "answered" /\ UNCHANGED <<cStreamed, cAsked, cText, cThought, cAcc>>
      BY <2>5 DEF AnswerEnds
    <3> QED
      BY <1>2, <3>1, <3>2 DEF AnswerInv, CallTypeOK, MergedSoFar, NameOf
  <2> QED
    BY <1>2, <2>1, <2>2, <2>3, <2>4, <2>5, CallBeginsKeeps, CallGoesOnKeeps DEF CallNext
<1>3. AnswerInv => CallsAsSent
  BY DEF AnswerInv
<1> QED
  BY <1>1, <1>2, <1>3, PTL DEF CallSpec
=============================================================================
