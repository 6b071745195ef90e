---------------------------- MODULE MemoryFacts ----------------------------
(***************************************************************************)
(* The long-term facts of one user: CrossSessionMemoryStore, the memory    *)
(* tools over it, with human approval or without, and the curator's write. *)
(*                                                                         *)
(* A namespace holds one record, a dictionary that keeps the order in      *)
(* which its keys came.  Every operation is a series of loads and saves of *)
(* whole records.  The in-process store never suspends, so an operation on *)
(* it is not interleaved with another; on SQLite, PostgreSQL and Redis     *)
(* other clients come in between.  Facts are injected from the live store. *)
(***************************************************************************)
EXTENDS Naturals, Sequences, SequencesExt

CONSTANTS
    Clients,        \* sessions and people working on the user's facts
    FactKeys,
    FactValues,
    MaxEntities,    \* max_entities
    MaxOps          \* bound: operations

ASSUME MemoryAssumption ==
    /\ MaxEntities \in Nat \ {0}
    /\ MaxOps \in Nat

Stores == {"live", "pending"}

VARIABLES
    mReady,     \* the configuration has been chosen
    mApproval,  \* require_approval
    mShared,    \* the store is a database, not the in-process one
    mStore,     \* Stores -> the record, a sequence of [key, value]
    mOp,        \* Clients -> the operation in progress
    mCount,     \* operations begun
    mApproved,  \* history: facts a person has approved
    mIdeal,     \* history: Stores -> the facts, had every operation been one step
    mClean      \* history: none overlapped, failed or ran into the cap

memoryVars == <<mReady, mApproval, mShared, mStore, mOp, mCount, mApproved, mIdeal,
                mClean>>

Fact(k, v) == [key |-> k, value |-> v]

\* todo: the steps left, each a load or a save; view: the record last loaded.
NoOp == [todo |-> <<>>, key |-> "none", value |-> "none", view |-> <<>>]

MemoryInit ==
    /\ mReady = FALSE /\ mApproval = FALSE /\ mShared = FALSE
    /\ mStore = [s \in Stores |-> <<>>]
    /\ mOp = [c \in Clients |-> NoOp]
    /\ mCount = 0 /\ mApproved = {} /\ mClean = TRUE
    /\ mIdeal = [s \in Stores |-> {}]

MemoryConfigure ==
    /\ ~mReady
    /\ mReady' = TRUE
    /\ mApproval' \in BOOLEAN
    /\ mShared' \in BOOLEAN
    /\ UNCHANGED <<mStore, mOp, mCount, mApproved, mIdeal, mClean>>

(***************************************************************************)
(* Records.                                                                *)
(***************************************************************************)
Has(record, k) == \E i \in DOMAIN record : record[i].key = k

Position(record, k) == CHOOSE i \in DOMAIN record : record[i].key = k

ValueOf(record, k) == record[Position(record, k)].value

\* pop(key), of a record that has it
Without(record, k) == RemoveAt(record, Position(record, k))

\* Mutant: the new facts take the place of the old.
Overwritten(record, k, v) == <<Fact(k, v)>>

\* {**existing, **entities}: a key that is there keeps its place.
Merged(record, k, v) ==
    IF Has(record, k)
    THEN [i \in DOMAIN record |-> IF record[i].key = k THEN Fact(k, v) ELSE record[i]]
    ELSE Append(record, Fact(k, v))

\* _cap_entities keeps the last ones.
Cap(record) ==
    IF Len(record) <= MaxEntities THEN record
    ELSE SubSeq(record, Len(record) - MaxEntities + 1, Len(record))

Set(facts, k, v) == {f \in facts : f.key # k} \cup {Fact(k, v)}

Drop(facts, k) == {f \in facts : f.key # k}

(***************************************************************************)
(* The operations.  A step is [do, store]: "load" reads the record, "need" *)
(* reads it and ends the operation when the key is not in it, "take" also  *)
(* takes the key's value; "put" and "cut" save the record last read with   *)
(* the key set or deleted.                                                 *)
(***************************************************************************)
Do(do, store) == [do |-> do, store |-> store]

\* Mutant: approval is asked for nowhere.
WriteTargetLive(store) == store

\* _write_store and _persist_store_name
WriteTarget(store) == IF mApproval THEN "pending" ELSE store

\* merge_entities
Merge(store) == <<Do("load", store), Do("put", store)>>

\* remove; _delete_kv
Delete(store) == <<Do("need", store), Do("cut", store)>>

Write == Merge(WriteTarget("live"))
Approve == <<Do("take", "pending")>> \o Merge("live") \o Delete("pending")
Reject == <<Do("need", "pending")>> \o Delete("pending")
Edit == <<Do("need", "pending")>> \o Merge("pending")

\* What the operation means for the facts.
Ideal(todo, k, v) ==
    CASE todo = Write -> [mIdeal EXCEPT ![WriteTarget("live")] = Set(@, k, v)]
      [] todo = Delete("live") -> [mIdeal EXCEPT !["live"] = Drop(@, k)]
      [] todo = Approve ->
           LET approved == {f \in mIdeal["pending"] : f.key = k} IN
           [mIdeal EXCEPT
               !["live"] = IF approved = {} THEN @ ELSE Drop(@, k) \cup approved,
               !["pending"] = Drop(@, k)]
      [] todo = Reject -> [mIdeal EXCEPT !["pending"] = Drop(@, k)]
      [] todo = Edit ->
           [mIdeal EXCEPT !["pending"] =
               IF \E f \in @ : f.key = k THEN Set(@, k, v) ELSE @]

Busy(c) == mOp[c].todo # <<>>

MemoryOp(c, todo, k, v) ==
    /\ mReady /\ mCount < MaxOps /\ ~Busy(c)
    /\ mShared \/ \A d \in Clients : ~Busy(d)    \* the in-process store does not suspend
    /\ mCount' = mCount + 1
    /\ mOp' = [mOp EXCEPT ![c] = [todo |-> todo, key |-> k, value |-> v, view |-> <<>>]]
    /\ mIdeal' = Ideal(todo, k, v)
    /\ mClean' = (mClean /\ \A d \in Clients : ~Busy(d))
    /\ UNCHANGED <<mReady, mApproval, mShared, mStore, mApproved>>

\* The tool, and the curator with what it extracted: the same merge.
MemoryWrite(c) ==
    \E k \in FactKeys, v \in FactValues : MemoryOp(c, Write, k, v)
MemoryRemove(c) == \E k \in FactKeys : MemoryOp(c, Delete("live"), k, "none")
\* The human tools are there when approval is required.
MemoryApprove(c) == mApproval /\ \E k \in FactKeys : MemoryOp(c, Approve, k, "none")
MemoryReject(c) == mApproval /\ \E k \in FactKeys : MemoryOp(c, Reject, k, "none")
MemoryEdit(c) ==
    mApproval /\ \E k \in FactKeys, v \in FactValues : MemoryOp(c, Edit, k, v)

\* The rest of an operation, with what it has read.
Loaded(op, record, value) ==
    [todo |-> Tail(op.todo), key |-> op.key, value |-> value, view |-> record]

MemoryLoad(c) ==
    /\ Busy(c)
    /\ LET op == mOp[c]
           step == Head(op.todo)
           record == mStore[step.store]
           value == IF step.do = "take" THEN ValueOf(record, op.key) ELSE op.value
       IN  /\ step.do \in {"load", "need", "take"}
           /\ IF step.do # "load" /\ ~Has(record, op.key)
              THEN /\ mOp' = [mOp EXCEPT ![c] = NoOp]
                   /\ UNCHANGED mApproved
              ELSE /\ mOp' = [mOp EXCEPT ![c] = Loaded(op, record, value)]
                   /\ mApproved' = IF step.do = "take"
                                   THEN mApproved \cup {Fact(op.key, value)}
                                   ELSE mApproved
    /\ UNCHANGED <<mReady, mApproval, mShared, mStore, mCount, mIdeal, mClean>>

MemorySave(c) ==
    /\ Busy(c)
    /\ LET op == mOp[c]
           step == Head(op.todo)
           put == Merged(op.view, op.key, op.value)
       IN  /\ step.do \in {"put", "cut"}
           /\ mStore' = [mStore EXCEPT ![step.store] =
                            IF step.do = "put" THEN Cap(put) ELSE Without(op.view, op.key)]
           /\ mClean' = (mClean /\ (step.do = "put" => Len(put) <= MaxEntities))
           /\ mOp' = [mOp EXCEPT ![c] = IF Len(op.todo) = 1 THEN NoOp
                                        ELSE [op EXCEPT !.todo = Tail(@)]]
    /\ UNCHANGED <<mReady, mApproval, mShared, mCount, mApproved, mIdeal>>

\* The database does not answer: what was saved stays.
MemoryFail(c) ==
    /\ Busy(c) /\ mShared
    /\ mOp' = [mOp EXCEPT ![c] = NoOp]
    /\ mClean' = FALSE
    /\ UNCHANGED <<mReady, mApproval, mShared, mStore, mCount, mApproved, mIdeal>>

MemoryNext ==
    \/ MemoryConfigure
    \/ \E c \in Clients :
          \/ MemoryWrite(c) \/ MemoryRemove(c)
          \/ MemoryApprove(c) \/ MemoryReject(c) \/ MemoryEdit(c)
          \/ MemoryLoad(c) \/ MemorySave(c) \/ MemoryFail(c)

-----------------------------------------------------------------------------
(***************************************************************************)
(* Where approval is required, no fact is injected that a person has not   *)
(* approved with the value it has, whatever the agent and the curator      *)
(* write, and whatever overlaps or fails on the way.                       *)
(* (memory/plugin.py:57-60, 175-193; memory/curator.py:170-175)            *)
(***************************************************************************)
OnlyApprovedInjected ==
    mApproval => \A i \in DOMAIN mStore["live"] : mStore["live"][i] \in mApproved

(***************************************************************************)
(* As long as no two operations overlap, none fails and the cap is not     *)
(* reached, both stores hold what the operations, each taken as one step,  *)
(* have made of them, and no key twice.                                    *)
(* (memory/cross_session_store.py:121-148; memory/plugin.py:87-285)        *)
(***************************************************************************)
SerialOpsKeepFacts ==
    (mClean /\ \A c \in Clients : ~Busy(c)) =>
        \A s \in Stores :
            /\ ToSet(mStore[s]) = mIdeal[s]
            /\ \A i, j \in DOMAIN mStore[s] :
                  mStore[s][i].key = mStore[s][j].key => i = j

MemorySpec == MemoryInit /\ [][MemoryNext]_memoryVars
=============================================================================
