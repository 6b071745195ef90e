---------------------------- MODULE SessionStore ----------------------------
(***************************************************************************)
(* The durable session adapters (session/adapters/file.py, redis.py,       *)
(* sqlite.py, postgresql.py and base_sql.py), for one session and several  *)
(* clients: runners, compactors and servers that share the storage.        *)
(*                                                                         *)
(* append_turn and update_tc_summary read the stored session, change it    *)
(* and write it back.  postgresql and base_sql hold the row locked in      *)
(* between; the others hold nothing, and write what they read: sqlite with *)
(* an UPDATE, file and redis with save_session.  A write is one step: the  *)
(* database or the file lock makes it so while the writer lives.           *)
(***************************************************************************)
EXTENDS Naturals, Sequences

CONSTANTS
  Clients,   \* tasks and processes that use the session
  NoClient,  \* no client holds the row lock
  Turns,     \* turns to append, each by one call
  NoTurn,    \* no turn
  Backends   \* the adapters considered, among AllBackends

AllBackends == {"file", "redis", "sqlite", "postgresql", "base_sql"}

ASSUME StoreAssumption ==
  /\ NoClient \notin Clients /\ NoTurn \notin Turns
  /\ Backends \subseteq AllBackends

VARIABLES
  backend,  \* the adapter in use
  row,      \* the stored session
  copy,     \* the session object each client holds
  tx,       \* the read-modify-write each client is in the middle of
  lock,     \* the client that holds the row (SELECT ... FOR UPDATE)
  fresh     \* turns no append_turn was called with yet

vars == <<backend, row, copy, tx, lock, fresh>>

\* The adapter promise: the same operations, each in one step.
Atomic == INSTANCE AtomicStore

Row == [exists : BOOLEAN, turns : Seq(Turns), sums : SUBSET Turns]

Absent == [exists |-> FALSE, turns |-> <<>>, sums |-> {}]
Fresh == [exists |-> TRUE, turns |-> <<>>, sums |-> {}]
NoTx == [op |-> "none", turn |-> NoTurn, seen |-> Absent]

Tx == {NoTx} \union [op : {"append", "summarise"}, turn : Turns, seen : Row]

TurnSet(r) == {r.turns[i] : i \in DOMAIN r.turns}

\* What a mutation writes back; a summary of an unknown call changes nothing.
WithTurn(r, t) == [r EXCEPT !.turns = Append(@, t)]
WithSummary(r, t) == IF t \in TurnSet(r) THEN [r EXCEPT !.sums = @ \union {t}] ELSE r

Mutated(t) == IF t.op = "append" THEN WithTurn(t.seen, t.turn) ELSE WithSummary(t.seen, t.turn)

\* SELECT ... FOR UPDATE
Locking == backend \in {"postgresql", "base_sql"}

\* Statements that write wait for the row.
Unlocked == Locking => lock = NoClient

Init ==
  /\ backend \in Backends
  /\ row = Fresh
  /\ copy = [c \in Clients |-> Absent]
  /\ tx = [c \in Clients |-> NoTx]
  /\ lock = NoClient
  /\ fresh = Turns

\* load_session; a caller that finds no session builds a new one to save.
Open(c) ==
  /\ tx[c] = NoTx
  /\ copy' = [copy EXCEPT ![c] = IF row.exists THEN row ELSE Fresh]
  /\ UNCHANGED <<backend, row, tx, lock, fresh>>

\* save_session: the whole session, whatever was stored since it was read.
Save(c) ==
  /\ tx[c] = NoTx /\ copy[c].exists /\ Unlocked
  /\ row' = copy[c]
  /\ UNCHANGED <<backend, copy, tx, lock, fresh>>

\* delete_session
Delete(c) ==
  /\ tx[c] = NoTx /\ Unlocked
  /\ row' = Absent
  /\ UNCHANGED <<backend, copy, tx, lock, fresh>>

\* Mutant: the row is read without FOR UPDATE.
ReadUnlocked(c, op, t) ==
  /\ tx[c] = NoTx
  /\ row.exists /\ Unlocked
  /\ tx' = [tx EXCEPT ![c] = [op |-> op, turn |-> t, seen |-> row]]
  /\ UNCHANGED lock

\* The read of a read-modify-write, which waits for the row's lock.
Read(c, op, t) ==
  /\ tx[c] = NoTx
  /\ row.exists /\ Unlocked
  /\ tx' = [tx EXCEPT ![c] = [op |-> op, turn |-> t, seen |-> row]]
  /\ lock' = IF Locking THEN c ELSE lock

\* append_turn: a session that is not there is only logged.
AppendTurn(c, t) ==
  /\ t \in fresh
  /\ fresh' = fresh \ {t}
  /\ \/ Read(c, "append", t)
     \/ tx[c] = NoTx /\ ~row.exists /\ UNCHANGED <<tx, lock>>
  /\ UNCHANGED <<backend, row, copy>>

\* update_tc_summary, for a tool call of a turn the caller's session has.
UpdateTcSummary(c, t) ==
  /\ t \in TurnSet(copy[c])
  /\ Read(c, "summarise", t)
  /\ UNCHANGED <<backend, row, copy, fresh>>

\* Mutant: the UPDATE of sqlite inserts a row that is missing.
Upsert(c) ==
  /\ tx[c] # NoTx
  /\ row' = Mutated(tx[c])
  /\ tx' = [tx EXCEPT ![c] = NoTx]
  /\ lock' = NoClient
  /\ UNCHANGED <<backend, copy, fresh>>

\* An UPDATE finds no row when the session was deleted meanwhile, and file and
\* base_sql do not write when the tool call is not there.
NothingToWrite(c) ==
  \/ backend = "sqlite" /\ ~row.exists
  \/ /\ backend \in {"file", "base_sql"} /\ tx[c].op = "summarise"
     /\ tx[c].turn \notin TurnSet(tx[c].seen)

\* Mutant: the write adds the turns stored since the read, after its own.
WriteAndMerge(c) ==
  /\ tx[c] # NoTx
  /\ row' = IF NothingToWrite(c) THEN row
            ELSE LET new == Mutated(tx[c])
                     Missing(t) == t \notin TurnSet(new)
                 IN [new EXCEPT !.turns = @ \o SelectSeq(row.turns, Missing)]
  /\ tx' = [tx EXCEPT ![c] = NoTx]
  /\ lock' = NoClient
  /\ UNCHANGED <<backend, copy, fresh>>

\* The write.  save_session puts a deleted session back.
Write(c) ==
  /\ tx[c] # NoTx
  /\ row' = IF NothingToWrite(c) THEN row ELSE Mutated(tx[c])
  /\ tx' = [tx EXCEPT ![c] = NoTx]
  /\ lock' = NoClient
  /\ UNCHANGED <<backend, copy, fresh>>

\* The client dies; a transaction it had open is rolled back.
Die(c) ==
  /\ copy' = [copy EXCEPT ![c] = Absent]
  /\ tx' = [tx EXCEPT ![c] = NoTx]
  /\ lock' = IF lock = c THEN NoClient ELSE lock
  /\ UNCHANGED <<backend, row, fresh>>

Client(c) ==
  \/ Open(c) \/ Save(c) \/ Delete(c) \/ Write(c) \/ Die(c)
  \/ \E t \in Turns : AppendTurn(c, t) \/ UpdateTcSummary(c, t)

Next == \E c \in Clients : Client(c)

Spec == Init /\ [][Next]_vars

-----------------------------------------------------------------------------
(* Properties                                                              *)

TypeOK ==
  /\ backend \in Backends
  /\ row \in Row
  /\ copy \in [Clients -> Row]
  /\ tx \in [Clients -> Tx]
  /\ lock \in Clients \union {NoClient}
  /\ fresh \subseteq Turns

\* Every session that is stored, or that a client holds or has read.
Held == {row} \union {copy[c] : c \in Clients} \union {tx[c].seen : c \in Clients}

\* Where two sessions share a turn they are the same up to it.
SamePast(r, s) ==
  \A i \in DOMAIN r.turns, j \in DOMAIN s.turns :
    r.turns[i] = s.turns[j] => i = j /\ \A k \in 1..i : r.turns[k] = s.turns[k]

\* No session anyone holds has a turn twice, or one without those it was
\* appended after.
PastsAgree == \A r, s \in Held : SamePast(r, s)

\* A turn leaves the stored session by a delete, a save_session or, without
\* the row lock, by an append or a summary that read before it was there.
LostToStaleWrite(t) ==
  \/ row' = Absent
  \/ \E c \in Clients : tx[c] = NoTx /\ row' = copy[c]
  \/ \E c \in Clients : /\ ~Locking /\ tx[c] # NoTx
                       /\ t \notin TurnSet(tx[c].seen) /\ row' = Mutated(tx[c])

\* What is lost when clients overwrite each other with saves, deletes and
\* overlapping appends: always the end of a history, never a turn out of its
\* middle, and only to a writer that had not read it.
LossesAreRollbacks ==
  [][/\ PastsAgree'
     /\ \A t \in TurnSet(row) \ TurnSet(row') : LostToStaleWrite(t)]_vars

\* With the row locked from the read to the write, append_turn and
\* update_tc_summary of postgresql and base_sql are atomic, among all the other operations.
RowLockIsAtomic == [][Locking => Atomic!Next \/ UNCHANGED <<row, copy>>]_vars

\* In sqlite, postgresql and base_sql a session that was deleted comes back only by a
\* save_session, never by the tail of an append or a summary.
DeletedStaysDeleted ==
  [][~row.exists /\ row'.exists /\ backend \in {"sqlite", "postgresql", "base_sql"} =>
       \E c \in Clients : tx[c] = NoTx /\ copy[c].exists /\ row' = copy[c] /\ tx' = tx]_vars

\* With the row locked nothing comes between a read and its write: what a
\* client is about to change is what the database holds.
LockHeld ==
  Locking => \A c \in Clients : tx[c] # NoTx =>
               lock = c /\ tx[c].seen = row /\ row.exists

\* StorageAdapter.append_turn: "Atomically append a turn to a session."
AppendIsAtomic == [][Atomic!Next \/ UNCHANGED <<row, copy>>]_vars
=============================================================================
