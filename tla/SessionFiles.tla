---------------------------- MODULE SessionFiles ----------------------------
(***************************************************************************)
(* The file adapter of several processes: a JSON file per session, under   *)
(* its owner's directory and behind a file lock, and one index of all      *)
(* sessions that tells where a session is to a client that does not say    *)
(* whose it is.                                                            *)
(*                                                                         *)
(* Writing a file empties it first.  The index is read and written back    *)
(* with no lock between processes, and one that does not parse counts as   *)
(* empty.  A load whose scope names nobody and that misses the index looks *)
(* for the session in every file; one whose scope names the tenant or the  *)
(* user only looks where a session without the other would be.  Sessions   *)
(* here have both.                                                         *)
(***************************************************************************)
EXTENDS Naturals, FiniteSets

CONSTANTS Processes, FileIds, MaxFileOps

ASSUME FileAssumption == MaxFileOps \in Nat

NoFile == "none"
TornFile == "torn"

VARIABLES
    fFile,      \* FileIds -> "none", "torn" or "whole"
    fLock,      \* FileIds -> the process that holds the session's lock, or "free"
    fIndex,     \* what a reader makes of the index: a set of ids
    fAt,        \* Processes -> what the process does: [step, id, ...]
    fOps        \* operations so far

fileVars == <<fFile, fLock, fIndex, fAt, fOps>>

StoreRests(p) == fAt[p].step = "rest"
AtRest == [step |-> "rest"]

\* What the scope of a call says of the owner: tenant and user, one of them, nothing.
Hints == {"both", "one", "none"}

FileInit ==
    /\ fFile = [id \in FileIds |-> NoFile] /\ fLock = [id \in FileIds |-> "free"]
    /\ fIndex = {} /\ fOps = 0
    /\ fAt = [p \in Processes |-> AtRest]

BeginOp(p, task) ==
    /\ StoreRests(p) /\ fOps < MaxFileOps
    /\ fOps' = fOps + 1
    /\ fAt' = [fAt EXCEPT ![p] = task]

GoTo(p, task) == fAt' = [fAt EXCEPT ![p] = task] /\ UNCHANGED fOps

\* What a load must have seen by now: the file of its session changes under it.
Seen(id, now) ==
    [p \in Processes |->
        IF fAt[p].step \in {"load", "scan"} /\ fAt[p].id = id
        THEN [fAt[p] EXCEPT !.seen = @ \cup {now}] ELSE fAt[p]]

\* The process goes on to task, the file of id turns into now.
ChangeFile(p, id, now, task) ==
    /\ fFile' = [fFile EXCEPT ![id] = now]
    /\ fAt' = [Seen(id, now) EXCEPT ![p] = task]

-----------------------------------------------------------------------------
(* save_session: lock, empty the file, write it, unlock, register. *)

SaveFile(p, id) ==
    /\ StoreRests(p) /\ fOps < MaxFileOps /\ fLock[id] = "free"
    /\ fOps' = fOps + 1
    /\ fLock' = [fLock EXCEPT ![id] = p]
    /\ ChangeFile(p, id, TornFile, [step |-> "write", id |-> id])
    /\ UNCHANGED fIndex

WriteFile(p) ==
    /\ fAt[p].step = "write"
    /\ ChangeFile(p, fAt[p].id, "whole", [step |-> "register", id |-> fAt[p].id])
    /\ fLock' = [fLock EXCEPT ![fAt[p].id] = "free"]
    /\ UNCHANGED <<fIndex, fOps>>

\* register_session and unregister_session: read, empty, write.
ReadForRegister(p) ==
    /\ fAt[p].step = "register"
    /\ GoTo(p, [step |-> "empty", index |-> fIndex \cup {fAt[p].id}])
    /\ UNCHANGED <<fFile, fLock, fIndex>>

ReadForUnregister(p) ==
    /\ fAt[p].step = "unregister"
    /\ GoTo(p, [step |-> "empty", index |-> fIndex \ {fAt[p].id}])
    /\ UNCHANGED <<fFile, fLock, fIndex>>

\* An index being written does not parse, and counts as empty.
EmptyIndex(p) ==
    /\ fAt[p].step = "empty"
    /\ fIndex' = {}
    /\ GoTo(p, [step |-> "fill", index |-> fAt[p].index])
    /\ UNCHANGED <<fFile, fLock>>

FillIndex(p) ==
    /\ fAt[p].step = "fill"
    /\ fIndex' = fAt[p].index
    /\ GoTo(p, AtRest)
    /\ UNCHANGED <<fFile, fLock>>

-----------------------------------------------------------------------------
(* load_session; the lock of the place it looks at is held while reading *)

LoadFile(p, id, hint) ==
    /\ BeginOp(p, [step |-> "load", id |-> id, hint |-> hint, seen |-> {fFile[id]}])
    /\ UNCHANGED <<fFile, fLock, fIndex>>

AnswerLoad(p, result) ==
    GoTo(p, [step |-> "loaded", id |-> fAt[p].id, hint |-> fAt[p].hint,
           seen |-> fAt[p].seen, result |-> result])

\* Where the session is: told by the client, or by the index.
Located(p) == fAt[p].hint = "both" \/ fAt[p].id \in fIndex

ReadLocated(p) ==
    /\ fAt[p].step = "load" /\ Located(p) /\ fLock[fAt[p].id] = "free"
    /\ fFile[fAt[p].id] # NoFile \/ fAt[p].hint # "none"
    /\ AnswerLoad(p, IF fFile[fAt[p].id] = TornFile THEN "error" ELSE fFile[fAt[p].id])
    /\ UNCHANGED <<fFile, fLock, fIndex>>

\* Not in the index, and half a hint: there is no file where it is looked for, and
\* nowhere else is looked.
LookElsewhere(p) ==
    /\ fAt[p].step = "load" /\ ~Located(p) /\ fAt[p].hint = "one"
    /\ AnswerLoad(p, NoFile)
    /\ UNCHANGED <<fFile, fLock, fIndex>>

\* Mutant: what the index does not know is not there.
NoScan(p) ==
    /\ fAt[p].step = "load" /\ fAt[p].hint = "none"
    /\ fAt[p].id \in fIndex => fFile[fAt[p].id] = NoFile /\ fLock[fAt[p].id] = "free"
    /\ AnswerLoad(p, NoFile)
    /\ UNCHANGED <<fFile, fLock, fIndex>>

\* No hint, and not in the index or not where the index says: every file is looked at.
BeginScan(p) ==
    /\ fAt[p].step = "load" /\ fAt[p].hint = "none"
    /\ fAt[p].id \in fIndex => fFile[fAt[p].id] = NoFile /\ fLock[fAt[p].id] = "free"
    /\ GoTo(p, [fAt[p] EXCEPT !.step = "scan"])
    /\ UNCHANGED <<fFile, fLock, fIndex>>

\* The scan reads without the lock and passes over what does not parse; what it finds
\* it registers, and then answers.
ScanForSession(p) ==
    /\ fAt[p].step = "scan"
    /\ IF fFile[fAt[p].id] = "whole" THEN GoTo(p, [step |-> "register", id |-> fAt[p].id])
       ELSE AnswerLoad(p, NoFile)
    /\ UNCHANGED <<fFile, fLock, fIndex>>

ReturnLoad(p) == fAt[p].step = "loaded" /\ GoTo(p, AtRest) /\ UNCHANGED <<fFile, fLock, fIndex>>

-----------------------------------------------------------------------------
DeleteFile(p, id) ==
    /\ StoreRests(p) /\ fOps < MaxFileOps /\ fLock[id] = "free"
    /\ fOps' = fOps + 1
    /\ ChangeFile(p, id, NoFile, [step |-> "unregister", id |-> id])
    /\ UNCHANGED <<fLock, fIndex>>

\* Without a full hint and missed by the index the session is deleted where it is not.
DeleteElsewhere(p, id) ==
    /\ id \notin fIndex
    /\ BeginOp(p, [step |-> "unregister", id |-> id])
    /\ UNCHANGED <<fFile, fLock, fIndex>>

\* The process dies; the system gives up its locks.
StoreDies(p) ==
    /\ ~StoreRests(p)
    /\ fLock' = [id \in FileIds |-> IF fLock[id] = p THEN "free" ELSE fLock[id]]
    /\ GoTo(p, AtRest)
    /\ UNCHANGED <<fFile, fIndex>>

FileNext ==
    \E p \in Processes :
        \/ \E id \in FileIds :
              \/ SaveFile(p, id) \/ DeleteFile(p, id) \/ DeleteElsewhere(p, id)
              \/ \E hint \in Hints : LoadFile(p, id, hint)
        \/ WriteFile(p) \/ ReadForRegister(p) \/ ReadForUnregister(p)
        \/ EmptyIndex(p) \/ FillIndex(p)
        \/ ReadLocated(p) \/ LookElsewhere(p) \/ BeginScan(p) \/ ScanForSession(p)
        \/ ReturnLoad(p) \/ StoreDies(p)

-----------------------------------------------------------------------------
(***************************************************************************)
(* A load that answers "no such session", upon which the runner would      *)
(* begin a new one under that id, tells the truth of some moment of the    *)
(* load: with tenant and user named there was no file, whoever was         *)
(* writing; with neither, no complete one, whatever other processes made   *)
(* of the index.  (Then a session that is being saved, or was torn by a    *)
(* crash, may count as gone.)  With one of the two named nothing is        *)
(* promised: a session the index has lost is then said to be gone although *)
(* its file is there (LookElsewhere).                                      *)
(* (session/adapters/file.py:59-79, 143-189, storage/paths.py:124-152)     *)
(***************************************************************************)
GoneMeansGone ==
    \A p \in Processes :
        fAt[p].step = "loaded" /\ fAt[p].result = NoFile =>
            /\ fAt[p].hint = "both" => NoFile \in fAt[p].seen
            /\ fAt[p].hint = "none" => fAt[p].seen \cap {NoFile, TornFile} # {}

FileSpec == FileInit /\ [][FileNext]_fileVars
=============================================================================
