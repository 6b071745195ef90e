---------------------------- MODULE StreamReplay ----------------------------
(***************************************************************************)
(* The streams of one session: StreamReplayBuffer, buffered_stream, and    *)
(* the two routes that use them.                                           *)
(*                                                                         *)
(* A run streams to the client that asked for it and records its events in *)
(* the buffer kept under the session's key.  Other clients may attach to   *)
(* that buffer with the last number they have seen.  A buffer is an object *)
(* of its own: a reader keeps the one it found, while the run, which knows *)
(* only the key, writes to the one in place.  A step ends where the code   *)
(* yields or waits.                                                        *)
(***************************************************************************)
EXTENDS Naturals, Sequences, FiniteSets, Ordered

CONSTANTS
    MaxRuns,    \* bound: streamed runs of the session
    Readers,    \* clients that reattach
    MaxEvents,  \* bound: events of all runs
    Retained    \* max_events_per_session

ASSUME ReplayAssumption ==
    /\ IsFiniteSet(Readers)
    /\ MaxRuns \in Nat /\ MaxEvents \in Nat
    /\ Retained \in Nat \ {0}

\* Runs are numbered in the order they begin.
Runs == 1 .. MaxRuns

VARIABLES
    pBuffers,   \* the buffers made so far
    pCurrent,   \* the index of the one under the key, 0 when there is none
    pRuns,      \* Runs -> [state: new, open, over; seq]
    pMade,      \* events so far
    pSaved,     \* the stream_seq stored with the session
    pReaders    \* Readers -> the state of the request

replayVars == <<pBuffers, pCurrent, pRuns, pMade, pSaved, pReaders>>

\* writers: history, the runs that wrote to the buffer.
NewBuffer == [events |-> <<>>, done |-> FALSE, signal |-> FALSE, writers |-> {}]

ReplayInit ==
    /\ pBuffers = <<>> /\ pCurrent = 0 /\ pMade = 0 /\ pSaved = 0
    /\ pRuns = [r \in Runs |-> [state |-> "new", seq |-> 0]]
    /\ pReaders = [d \in Readers |->
                     [state |-> "new", buffer |-> 0, after |-> 0, cursor |-> 0,
                      pending |-> <<>>, got |-> <<>>]]

\* The signal of buffer b is set: whoever waits on it will be resumed.
Woken(b) ==
    [d \in Readers |->
        IF pReaders[d].state = "waiting" /\ pReaders[d].buffer = b
        THEN [pReaders[d] EXCEPT !.state = "woken"] ELSE pReaders[d]]

(***************************************************************************)
(* The runs.  The router starts the buffer before the run's first step;    *)
(* the run takes its numbers up from the session.                          *)
(***************************************************************************)
StreamStart(r) ==
    /\ pRuns[r].state = "new"
    /\ r > 1 => pRuns[r - 1].state # "new"
    /\ pRuns' = [pRuns EXCEPT ![r].state = "open", ![r].seq = pSaved]
    /\ pBuffers' = Append(pBuffers, NewBuffer)
    /\ pCurrent' = Len(pBuffers')
    /\ UNCHANGED <<pMade, pSaved, pReaders>>

\* The deque drops from the left.
Keep(events) ==
    SubSeq(events, IF Len(events) > Retained THEN 2 ELSE 1, Len(events))

\* An event is recorded, in a new buffer when the key has none any more.
StreamEvent(r) ==
    /\ pRuns[r].state = "open" /\ pMade < MaxEvents
    /\ pRuns' = [pRuns EXCEPT ![r].seq = @ + 1]
    /\ pMade' = pMade + 1
    /\ LET present == IF pCurrent = 0 THEN Append(pBuffers, NewBuffer) ELSE pBuffers
           b == IF pCurrent = 0 THEN Len(present) ELSE pCurrent
       IN  /\ pBuffers' = [present EXCEPT
                              ![b].events = Keep(Append(@, pRuns'[r].seq)),
                              ![b].signal = TRUE,
                              ![b].writers = @ \cup {r}]
           /\ pCurrent' = b
           /\ pReaders' = Woken(b)
    /\ UNCHANGED pSaved

\* Mutant: the readers that wait are not told.
FinishUnsignalled ==
    /\ pBuffers' = IF pCurrent = 0 THEN pBuffers
                   ELSE [pBuffers EXCEPT ![pCurrent].done = TRUE]
    /\ UNCHANGED pReaders

FinishBuffer ==
    IF pCurrent = 0
    THEN UNCHANGED <<pBuffers, pReaders>>
    ELSE /\ pBuffers' = [pBuffers EXCEPT ![pCurrent].done = TRUE,
                                         ![pCurrent].signal = TRUE]
         /\ pReaders' = Woken(pCurrent)

\* The run ends, or its client's connection drops, which closes the generator:
\* the numbers saved are then those of the last turn stored.
StreamEnd(r) ==
    /\ pRuns[r].state = "open"
    /\ pRuns' = [pRuns EXCEPT ![r].state = "over"]
    /\ FinishBuffer
    /\ pSaved' \in pSaved .. pRuns[r].seq \cup {pRuns[r].seq}
    /\ UNCHANGED <<pCurrent, pMade>>

\* The buffer has been quiet for ttl_seconds: the next access does not find it.
Expire ==
    /\ pCurrent # 0
    /\ pCurrent' = 0
    /\ UNCHANGED <<pBuffers, pRuns, pMade, pSaved, pReaders>>

(***************************************************************************)
(* A client that reattaches.                                               *)
(***************************************************************************)

\* The route: 404 without a buffer, 409 when what follows `after` is gone.  The number is
\* whatever the client sends.
Attach(d) ==
    /\ pReaders[d].state = "new"
    /\ \E after \in 0 .. MaxEvents + 1 :
          pReaders' = [pReaders EXCEPT
              ![d].state =
                  IF pCurrent = 0 THEN "refused"
                  ELSE LET kept == pBuffers[pCurrent].events IN
                       IF kept # <<>> /\ after # 0 /\ after + 1 < Head(kept)
                       THEN "refused" ELSE "attached",
              ![d].after = after,
              ![d].cursor = after]
    /\ UNCHANGED <<pBuffers, pCurrent, pRuns, pMade, pSaved>>

\* One event is yielded.
Yield(d, reader, pending) ==
    pReaders' = [pReaders EXCEPT ![d] = [reader EXCEPT !.state = "sending",
                                                       !.pending = Tail(pending),
                                                       !.cursor = Head(pending),
                                                       !.got = Append(@, Head(pending))]]

\* Nothing is pending: the reader ends, or waits (not at all if the signal is set).
Rest(d, reader, buffer) ==
    pReaders' = [pReaders EXCEPT
        ![d] = [reader EXCEPT !.state = CASE buffer.done -> "over"
                                          [] ~buffer.done /\ buffer.signal -> "woken"
                                          [] OTHER -> "waiting"]]

\* Mutant: the event at the cursor is sent again.
SnapshotFrom(buffer, cursor) ==
    AtPlaces(buffer.events, {i \in DOMAIN buffer.events : buffer.events[i] >= cursor})

\* What follows the cursor, at this moment.
Snapshot(buffer, cursor) ==
    AtPlaces(buffer.events, {i \in DOMAIN buffer.events : buffer.events[i] > cursor})

Follow(d, reader, buffer) ==
    LET pending == Snapshot(buffer, reader.cursor)
    IN  IF pending # <<>> THEN Yield(d, reader, pending) ELSE Rest(d, reader, buffer)

\* replay() begins when the response is first iterated, after the checks.
OpenReplay(d) ==
    /\ pReaders[d].state = "attached"
    /\ IF pCurrent = 0
       THEN pReaders' = [pReaders EXCEPT ![d].state = "failed"]
       ELSE Follow(d, [pReaders[d] EXCEPT !.buffer = pCurrent], pBuffers[pCurrent])
    /\ UNCHANGED <<pBuffers, pCurrent, pRuns, pMade, pSaved>>

\* The client has taken the event.
ReaderResume(d) ==
    /\ pReaders[d].state = "sending"
    /\ IF pReaders[d].pending # <<>>
       THEN Yield(d, pReaders[d], pReaders[d].pending)
       ELSE Rest(d, pReaders[d], pBuffers[pReaders[d].buffer])
    /\ UNCHANGED <<pBuffers, pCurrent, pRuns, pMade, pSaved>>

\* wait() returns, and clears the signal for every reader.
ReaderWake(d) ==
    /\ pReaders[d].state = "woken"
    /\ LET b == pReaders[d].buffer IN
       /\ pBuffers' = [pBuffers EXCEPT ![b].signal = FALSE]
       /\ Follow(d, pReaders[d], pBuffers'[b])
    /\ UNCHANGED <<pCurrent, pRuns, pMade, pSaved>>

ReaderLeave(d) ==
    /\ pReaders[d].state \in {"attached", "sending", "waiting", "woken"}
    /\ pReaders' = [pReaders EXCEPT ![d].state = "left"]
    /\ UNCHANGED <<pBuffers, pCurrent, pRuns, pMade, pSaved>>

ReplayNext ==
    \/ \E r \in Runs : StreamStart(r) \/ StreamEvent(r) \/ StreamEnd(r)
    \/ Expire
    \/ \E d \in Readers :
          Attach(d) \/ OpenReplay(d) \/ ReaderResume(d) \/ ReaderWake(d) \/ ReaderLeave(d)

\* The loop resumes a reader that can go on, and clients take what they are sent.
ReplayFairness ==
    \A d \in Readers :
        /\ WF_replayVars(OpenReplay(d))
        /\ WF_replayVars(ReaderResume(d))
        /\ WF_replayVars(ReaderWake(d))

-----------------------------------------------------------------------------
Reading(d) == pReaders[d].buffer # 0

(***************************************************************************)
(* A reader is sent no event twice, none out of order, and none it says it *)
(* has seen, in whatever pieces it finds them and whoever clears the       *)
(* signal.  The property is claimed of a buffer that one run wrote: two    *)
(* runs of a session at a time number their events alike.                  *)
(* (serve/replay.py:97-115)                                                *)
(***************************************************************************)
ReplayOnce ==
    \A d \in Readers :
        (Reading(d) /\ Cardinality(pBuffers[pReaders[d].buffer].writers) <= 1) =>
            \A i \in DOMAIN pReaders[d].got :
                pReaders[d].got[i] >
                    IF i = 1 THEN pReaders[d].after ELSE pReaders[d].got[i - 1]

(***************************************************************************)
(* The reader of a buffer that is finished ends: it does not miss the      *)
(* signal, although one event object serves every reader and any of them   *)
(* clears it.  (serve/replay.py:35-46, 107-115)                            *)
(***************************************************************************)
ReaderEnds ==
    \A d \in Readers :
        (Reading(d) /\ pBuffers[pReaders[d].buffer].done)
            ~> pReaders[d].state \in {"over", "left"}

(***************************************************************************)
(* "Yield buffered events after *after_seq*, then follow the run until it  *)
(* ends" (serve/replay.py:98): a reader that has ended by itself was sent  *)
(* every event its buffer holds after the one it named.                    *)
(***************************************************************************)
ReplayComplete ==
    \A d \in Readers :
        pReaders[d].state = "over" =>
            LET events == Snapshot(pBuffers[pReaders[d].buffer], pReaders[d].after)
            IN  \A i \in DOMAIN events :
                    \E j \in DOMAIN pReaders[d].got : pReaders[d].got[j] = events[i]

ReplaySpec == ReplayInit /\ [][ReplayNext]_replayVars /\ ReplayFairness
=============================================================================
