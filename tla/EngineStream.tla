---------------------------- MODULE EngineStream ----------------------------
(***************************************************************************)
(* Calls of a media engine server: run_engine, stream_engine and the       *)
(* replica pool, as the speech service uses them.                          *)
(*                                                                         *)
(* A client's coroutine on the event loop picks a replica and submits a    *)
(* blocking engine call to the loop's thread pool.  The worker thread      *)
(* takes the replica's call lock, and, for a stream, pushes every chunk to *)
(* the client's queue; the client may go away at any time.  What a worker  *)
(* pushes reaches the queue in order (call_soon_threadsafe).               *)
(***************************************************************************)
EXTENDS Naturals, Sequences, FiniteSets

CONSTANTS
    Calls,      \* the clients' calls
    Replicas,   \* replicas in the pool
    Workers,    \* threads of the loop's default executor
    MaxChunks,  \* bound: chunks the engine makes for one call
    ThreadSafe  \* the engine class handles concurrent calls itself

ASSUME EngineAssumption ==
    /\ IsFiniteSet(Calls)
    /\ Replicas \in Nat \ {0}
    /\ Workers \in Nat \ {0}
    /\ MaxChunks \in Nat
    /\ ThreadSafe \in BOOLEAN

VARIABLES
    eClient,    \* Calls -> new, waiting, sending, got, failed, gone
    eWork,      \* Calls -> none, queued, locking, running, closing, over
    eIsStream,  \* Calls -> StreamSynthesize, not Synthesize
    eReplica,   \* Calls -> the replica the call was given
    eStop,      \* Calls -> the stream's stop flag
    eRaised,    \* Calls -> the engine raised
    eQueue,     \* Calls -> the client's queue
    eMade,      \* Calls -> chunks the engine has made
    eTaken,     \* Calls -> chunks the client has taken
    eBacklog,   \* the executor's queue of submitted calls
    eIndex      \* the pool's round-robin index

engineVars == <<eClient, eWork, eIsStream, eReplica, eStop, eRaised, eQueue, eMade,
                eTaken, eBacklog, eIndex>>

EngineInit ==
    /\ eClient = [c \in Calls |-> "new"]
    /\ eWork = [c \in Calls |-> "none"]
    /\ eIsStream = [c \in Calls |-> FALSE]
    /\ eReplica = [c \in Calls |-> 0]
    /\ eStop = [c \in Calls |-> FALSE]
    /\ eRaised = [c \in Calls |-> FALSE]
    /\ eQueue = [c \in Calls |-> <<>>]
    /\ eMade = [c \in Calls |-> 0]
    /\ eTaken = [c \in Calls |-> 0]
    /\ eBacklog = <<>>
    /\ eIndex = 0

(***************************************************************************)
(* The client's side.                                                      *)
(***************************************************************************)

\* Acquire a replica, then submit the work to the executor.
ClientCall(c) ==
    /\ eClient[c] = "new"
    /\ eReplica' = [eReplica EXCEPT ![c] = eIndex % Replicas]
    /\ eIndex' = eIndex + 1
    /\ \E streams \in BOOLEAN : eIsStream' = [eIsStream EXCEPT ![c] = streams]
    /\ eWork' = [eWork EXCEPT ![c] = "queued"]
    /\ eBacklog' = Append(eBacklog, c)
    /\ eClient' = [eClient EXCEPT ![c] = "waiting"]
    /\ UNCHANGED <<eStop, eRaised, eQueue, eMade, eTaken>>

\* What an item of the queue means to the client.
After == [chunk |-> "sending", exc |-> "failed", end |-> "got"]

ClientTake(c) ==
    /\ eClient[c] = "waiting" /\ eQueue[c] # <<>>
    /\ eQueue' = [eQueue EXCEPT ![c] = Tail(@)]
    /\ LET item == Head(eQueue[c]) IN
       /\ eClient' = [eClient EXCEPT ![c] = After[item]]
       /\ eTaken' = [eTaken EXCEPT ![c] = IF item = "chunk" THEN @ + 1 ELSE @]
       /\ eStop' = [eStop EXCEPT ![c] = item # "chunk" /\ eIsStream[c]]
    /\ UNCHANGED <<eWork, eIsStream, eReplica, eRaised, eMade, eBacklog, eIndex>>

\* The transport has taken the chunk.
ClientResume(c) ==
    /\ eClient[c] = "sending"
    /\ eClient' = [eClient EXCEPT ![c] = "waiting"]
    /\ UNCHANGED <<eWork, eIsStream, eReplica, eStop, eRaised, eQueue, eMade, eTaken, eBacklog, eIndex>>

\* The client cancels.  A stream sets its flag; a single call that no thread
\* has taken yet is withdrawn, one that runs is left to run.
ClientLeave(c) ==
    /\ eClient[c] \in {"waiting", "sending"}
    /\ eClient' = [eClient EXCEPT ![c] = "gone"]
    /\ eStop' = [eStop EXCEPT ![c] = eIsStream[c]]
    /\ IF eWork[c] = "queued" /\ ~eIsStream[c]
       THEN eWork' = [eWork EXCEPT ![c] = "over"]
       ELSE UNCHANGED eWork
    /\ UNCHANGED <<eIsStream, eReplica, eRaised, eQueue, eMade, eTaken, eBacklog, eIndex>>

(***************************************************************************)
(* The worker's side.                                                      *)
(***************************************************************************)
Busy == {c \in Calls : eWork[c] \in {"locking", "running", "closing"}}

\* A thread passes over a call that was withdrawn.
WorkerStart ==
    /\ eBacklog # <<>> /\ Cardinality(Busy) < Workers
    /\ eWork' = [eWork EXCEPT ![Head(eBacklog)] = IF @ = "queued" THEN "locking" ELSE @]
    /\ eBacklog' = Tail(eBacklog)
    /\ UNCHANGED <<eClient, eIsStream, eReplica, eStop, eRaised, eQueue, eMade, eTaken, eIndex>>

\* _call_lock: the running calls hold their replica's lock.
LockFree(c) ==
    ThreadSafe \/ \A d \in Calls : eWork[d] = "running" => eReplica[d] # eReplica[c]

WorkerLock(c) ==
    /\ eWork[c] = "locking" /\ LockFree(c)
    /\ eWork' = [eWork EXCEPT ![c] = "running"]
    /\ UNCHANGED <<eClient, eIsStream, eReplica, eStop, eRaised, eQueue, eMade, eTaken, eBacklog, eIndex>>

\* The generator yields; the flag is looked at before the chunk is pushed.
WorkerChunk(c) ==
    /\ eWork[c] = "running" /\ eIsStream[c] /\ eMade[c] < MaxChunks
    /\ eMade' = [eMade EXCEPT ![c] = @ + 1]
    /\ IF eStop[c]
       THEN /\ eWork' = [eWork EXCEPT ![c] = "closing"]
            /\ UNCHANGED eQueue
       ELSE /\ eQueue' = [eQueue EXCEPT ![c] = Append(@, "chunk")]
            /\ UNCHANGED eWork
    /\ UNCHANGED <<eClient, eIsStream, eReplica, eStop, eRaised, eTaken, eBacklog, eIndex>>

\* The engine returns or raises, and the lock is released.
WorkerLeave(c) ==
    /\ eWork[c] = "running"
    /\ eWork' = [eWork EXCEPT ![c] = "closing"]
    /\ \E raises \in BOOLEAN : eRaised' = [eRaised EXCEPT ![c] = raises]
    /\ UNCHANGED <<eClient, eIsStream, eReplica, eStop, eQueue, eMade, eTaken,
                   eBacklog, eIndex>>

\* Mutants: the failure is logged and END pushed; END is pushed only after a failure.
ClosingQuietly(c) == <<"end">>
ClosingFailed(c) == IF eRaised[c] THEN <<"exc">> ELSE <<>>

\* The exception, if any, and END; for a single call, the future's outcome.
Closing(c) == IF eRaised[c] THEN <<"exc", "end">> ELSE <<"end">>

WorkerFinish(c) ==
    /\ eWork[c] = "closing"
    /\ eWork' = [eWork EXCEPT ![c] = "over"]
    /\ eQueue' = [eQueue EXCEPT ![c] = @ \o Closing(c)]
    /\ UNCHANGED <<eClient, eIsStream, eReplica, eStop, eRaised, eMade, eTaken,
                   eBacklog, eIndex>>

EngineNext ==
    \/ WorkerStart
    \/ \E c \in Calls :
          \/ ClientCall(c) \/ ClientTake(c) \/ ClientResume(c) \/ ClientLeave(c)
          \/ WorkerLock(c) \/ WorkerChunk(c) \/ WorkerLeave(c) \/ WorkerFinish(c)

(***************************************************************************)
(* The loop and the threads are scheduled, a client takes what it is sent, *)
(* and an engine call comes to an end.  The lock is not a fair one: with   *)
(* finitely many calls a thread that waits for it still gets it.           *)
(***************************************************************************)
EngineFairness ==
    /\ WF_engineVars(WorkerStart)
    /\ \A c \in Calls :
          /\ WF_engineVars(ClientTake(c))
          /\ WF_engineVars(ClientResume(c))
          /\ WF_engineVars(WorkerLock(c))
          /\ WF_engineVars(WorkerLeave(c))
          /\ WF_engineVars(WorkerFinish(c))

-----------------------------------------------------------------------------
(***************************************************************************)
(* A client that is told its call is complete has every chunk the engine   *)
(* made, and the engine did not fail: a failure is never taken for the     *)
(* end, nor the end taken before the chunks.                               *)
(* (server/services/base.py:94-117)                                        *)
(***************************************************************************)
CompleteMeansAll ==
    \A c \in Calls : eClient[c] = "got" => ~eRaised[c] /\ eTaken[c] = eMade[c]

(***************************************************************************)
(* Every call ends for its client, although threads that wait for a lock   *)
(* keep others from starting and calls of clients that left still run.     *)
(* (server/services/base.py:66-117, server/pool.py:48-52)                  *)
(***************************************************************************)
EveryCallEnds ==
    \A c \in Calls : eClient[c] = "waiting" ~> eClient[c] \in {"got", "failed", "gone"}

EngineSpec == EngineInit /\ [][EngineNext]_engineVars /\ EngineFairness
=============================================================================
