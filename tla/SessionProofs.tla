---------------------------- MODULE SessionProofs ----------------------------
(***************************************************************************)
(* Sessions as the adapters keep them, for any number of clients and       *)
(* turns: why the row lock of postgresql and base_sql makes append_turn    *)
(* and update_tc_summary atomic, what a process finds in the session files *)
(* of several, what the pages of a list show, and what the view of a group *)
(* shows of its members' turns.                                            *)
(***************************************************************************)
EXTENDS SessionStore, SessionFiles, SessionLists, SessionTree, OrderedProofs,
        SequenceTheorems, FiniteSetTheorems, WellFoundedInduction, TLAPS

-----------------------------------------------------------------------------
(* Types                                                                   *)

\* The sessions and the transaction that stand for "none" have their types.
LEMMA ConstantsType == Absent \in Row /\ Fresh \in Row /\ NoTx \in Tx
<1>1. <<>> \in Seq(Turns)
  BY EmptySeq
<1> QED
  BY <1>1 DEF Absent, Fresh, Row, Tx

\* What append_turn and update_tc_summary write back is a session.
LEMMA MutatedType ==
  ASSUME NEW t \in Tx, t # NoTx
  PROVE  Mutated(t) \in Row
<1>1. t.seen \in Row /\ t.seen.turns \in Seq(Turns) /\ t.turn \in Turns
  BY DEF Tx, Row
<1>2. Append(t.seen.turns, t.turn) \in Seq(Turns)
  BY <1>1, AppendProperties
<1>3. WithTurn(t.seen, t.turn) \in Row
  BY <1>1, <1>2 DEF WithTurn, Row
<1>4. WithSummary(t.seen, t.turn) \in Row
  BY <1>1 DEF WithSummary, Row
<1> QED
  BY <1>3, <1>4 DEF Mutated

\* Before any operation the variables have their types.
LEMMA InitType == Init => TypeOK
BY ConstantsType DEF Init, TypeOK

\* Every operation, and a client's death, keeps the types.
LEMMA NextType == TypeOK /\ [Next]_vars => TypeOK'
<1> SUFFICES ASSUME TypeOK, [Next]_vars PROVE TypeOK'
  OBVIOUS
<1>1. CASE UNCHANGED vars
  BY <1>1 DEF vars, TypeOK
<1>2. ASSUME NEW c \in Clients, Client(c) PROVE TypeOK'
  <2>0. tx[c] \in Tx /\ copy[c] \in Row
    BY DEF TypeOK
  <2>1. CASE Open(c)
    BY <2>1, ConstantsType DEF Open, TypeOK
  <2>2. CASE Save(c) \/ Delete(c)
    BY <2>0, <2>2, ConstantsType DEF Save, Delete, TypeOK
  <2>3. CASE Write(c)
    <3>1. Mutated(tx[c]) \in Row
      BY <2>0, <2>3, MutatedType DEF Write
    <3> QED
      BY <2>3, <3>1, ConstantsType DEF Write, TypeOK
  <2>4. CASE Die(c)
    BY <2>4, ConstantsType DEF Die, TypeOK
  <2>5. ASSUME NEW t \in Turns, NEW op \in {"append", "summarise"}, Read(c, op, t)
        PROVE  tx' \in [Clients -> Tx] /\ lock' \in Clients \union {NoClient}
    <3>1. [op |-> op, turn |-> t, seen |-> row] \in Tx
      BY DEF Tx, TypeOK
    <3> QED
      BY <2>5, <3>1 DEF Read, TypeOK
  <2>6. ASSUME NEW t \in Turns, AppendTurn(c, t) PROVE TypeOK'
    BY <2>5, <2>6 DEF AppendTurn, TypeOK
  <2>7. ASSUME NEW t \in Turns, UpdateTcSummary(c, t) PROVE TypeOK'
    BY <2>5, <2>7 DEF UpdateTcSummary, TypeOK
  <2> QED
    BY <1>2, <2>1, <2>2, <2>3, <2>4, <2>6, <2>7 DEF Client
<1> QED
  BY <1>1, <1>2 DEF Next

\* Every variable of the store keeps its type.
THEOREM TypeCorrect == Spec => []TypeOK
BY InitType, NextType, PTL DEF Spec

-----------------------------------------------------------------------------
(* The row lock                                                            *)

\* Nobody is between a read and a write at the start.
LEMMA LockHeldInit == Init => LockHeld
BY DEF Init, LockHeld

\* Writes wait for the lock, and only its holder is between a read and a write.
LEMMA LockHeldNext == TypeOK /\ LockHeld /\ [Next]_vars => LockHeld'
<1> SUFFICES ASSUME TypeOK, LockHeld, [Next]_vars PROVE LockHeld'
  OBVIOUS
<1>1. CASE UNCHANGED vars
  BY <1>1 DEF vars, LockHeld, Locking
<1>0. tx \in [Clients -> Tx] /\ NoClient \notin Clients
  BY StoreAssumption DEF TypeOK
<1>2. ASSUME NEW c \in Clients, Client(c) PROVE LockHeld'
  <2> USE DEF LockHeld, Locking
  <2>1. CASE Open(c)
    BY <2>1 DEF Open
  \* A save or a delete finds the row unlocked: nobody is between read and write.
  <2>2. CASE Save(c) \/ Delete(c)
    BY <1>0, <2>2 DEF Save, Delete, Unlocked
  <2>3. CASE Write(c)
    <3>1. ASSUME NEW d \in Clients, Locking, tx'[d] # NoTx PROVE FALSE
      <4>1. tx[d] # NoTx /\ d # c /\ tx[c] # NoTx
        BY <1>0, <2>3, <3>1 DEF Write
      <4> QED
        BY <2>3, <3>1, <4>1 DEF Write
    <3> QED
      BY <2>3, <3>1 DEF Write
  <2>4. CASE Die(c)
    BY <1>0, <2>4 DEF Die
  <2>5. ASSUME NEW t \in Turns, AppendTurn(c, t) \/ UpdateTcSummary(c, t) PROVE LockHeld'
    BY <1>0, <2>5 DEF AppendTurn, UpdateTcSummary, Read, Unlocked
  <2> QED
    BY <1>2, <2>1, <2>2, <2>3, <2>4, <2>5 DEF Client
<1> QED
  BY <1>1, <1>2 DEF Next

\* Between a read and its write nobody else touches the row.
THEOREM LockHeldCorrect == Spec => []LockHeld
<1> QED
  BY TypeCorrect, LockHeldInit, LockHeldNext, PTL DEF Spec

\* With the lock held from read to write, each step is an atomic operation
\* or leaves the stored session alone.
LEMMA LockedStep ==
  ASSUME TypeOK, LockHeld, [Next]_vars, Locking
  PROVE  Atomic!Next \/ UNCHANGED <<row, copy>>
<1>1. CASE UNCHANGED vars
  BY <1>1 DEF vars
<1>2. ASSUME NEW c \in Clients, Client(c) PROVE Atomic!Next \/ UNCHANGED <<row, copy>>
  <2>1. CASE Open(c)
    <3>1. Atomic!Open(c)
      BY <2>1 DEF Open, Atomic!Open, Fresh, Atomic!Fresh
    <3> QED
      BY <3>1 DEF Atomic!Next
  <2>2. CASE Save(c)
    <3>1. Atomic!Save(c)
      BY <2>2 DEF Save, Atomic!Save
    <3> QED
      BY <3>1 DEF Atomic!Next
  <2>3. CASE Delete(c)
    <3>1. Atomic!Delete
      BY <2>3 DEF Delete, Atomic!Delete, Absent, Atomic!Absent
    <3> QED
      BY <3>1 DEF Atomic!Next
  \* The write changes the row its transaction has seen: one atomic operation.
  <2>4. CASE Write(c)
    <3>1. tx[c].seen = row /\ row.exists /\ tx[c].op \in {"append", "summarise"}
          /\ tx[c].turn \in Turns
      <4>1. tx[c] \in Tx /\ tx[c] # NoTx
        BY <2>4 DEF TypeOK, Write
      <4> QED
        BY <4>1 DEF Tx, LockHeld
    <3>2. row' \in {row, Mutated(tx[c])} /\ UNCHANGED copy
      BY <2>4 DEF Write
    <3>0. CASE row' = row
      BY <3>0, <3>2
    <3>3. CASE tx[c].op = "append" /\ row' # row
      <4>1. Atomic!AppendTurn(tx[c].turn)
        BY <3>1, <3>2, <3>3 DEF Mutated, WithTurn, Atomic!AppendTurn, Atomic!WithTurn
      <4> QED
        BY <3>1, <4>1 DEF Atomic!Next
    <3>4. CASE tx[c].op = "summarise" /\ row' # row
      <4>1. Atomic!Summarise(tx[c].turn)
        BY <3>1, <3>2, <3>4 DEF Mutated, WithSummary, TurnSet,
             Atomic!Summarise, Atomic!WithSummary, Atomic!TurnSet
      <4> QED
        BY <3>1, <4>1 DEF Atomic!Next
    <3> QED
      BY <3>0, <3>1, <3>3, <3>4
  <2>5. CASE Die(c)
    <3>1. Atomic!Drop(c)
      BY <2>5 DEF Die, Atomic!Drop, Absent, Atomic!Absent
    <3> QED
      BY <3>1 DEF Atomic!Next
  <2>6. ASSUME NEW t \in Turns, AppendTurn(c, t) \/ UpdateTcSummary(c, t)
        PROVE  UNCHANGED <<row, copy>>
    BY <2>6 DEF AppendTurn, UpdateTcSummary
  <2> QED
    BY <1>2, <2>1, <2>2, <2>3, <2>4, <2>5, <2>6 DEF Client
<1> QED
  BY <1>1, <1>2 DEF Next

\* Every step of the locking adapter is a step of the atomic store.
THEOREM RowLockIsAtomicCorrect == Spec => RowLockIsAtomic
<1>1. TypeOK /\ LockHeld /\ [Next]_vars => (Locking => Atomic!Next \/ UNCHANGED <<row, copy>>)
  BY LockedStep
<1> QED
  BY TypeCorrect, LockHeldCorrect, <1>1, PTL DEF Spec, RowLockIsAtomic

-----------------------------------------------------------------------------
(* A deleted session                                                       *)

\* A session that is not there comes back only by a client's save of its copy: the
\* read of an append or a summary needs the row, the lock keeps it until the write,
\* and the UPDATE of sqlite finds nothing.
LEMMA DeletedStep ==
  ASSUME TypeOK, LockHeld, [Next]_vars, ~row.exists, row'.exists,
         backend \in {"sqlite", "postgresql", "base_sql"}
  PROVE  \E c \in Clients : tx[c] = NoTx /\ copy[c].exists /\ row' = copy[c] /\ tx' = tx
<1>1. PICK c \in Clients : Client(c)
  <2>1. row' # row
    OBVIOUS
  <2> QED
    BY <2>1 DEF Next, vars
<1>2. CASE Open(c) \/ Die(c) \/ \E t \in Turns : AppendTurn(c, t) \/ UpdateTcSummary(c, t)
  BY <1>2 DEF Open, Die, AppendTurn, UpdateTcSummary
<1>3. CASE Save(c)
  BY <1>3 DEF Save
<1>4. CASE Delete(c)
  BY <1>4 DEF Delete, Absent
<1>5. CASE Write(c)
  <2>1. Locking => FALSE
    BY <1>5 DEF LockHeld, Write
  <2>2. backend = "sqlite"
    BY <2>1 DEF Locking
  <2> QED
    BY <1>5, <2>2 DEF Write, NothingToWrite
<1> QED
  BY <1>1, <1>2, <1>3, <1>4, <1>5 DEF Client

\* In the adapters that update in place no append and no summary brings back a
\* session that was deleted.
THEOREM DeletedStaysDeletedCorrect == Spec => DeletedStaysDeleted
<1>1. TypeOK /\ LockHeld /\ [Next]_vars =>
        (~row.exists /\ row'.exists /\ backend \in {"sqlite", "postgresql", "base_sql"} =>
           \E c \in Clients : tx[c] = NoTx /\ copy[c].exists /\ row' = copy[c] /\ tx' = tx)
  BY DeletedStep
<1> QED
  BY TypeCorrect, LockHeldCorrect, <1>1, PTL DEF Spec, DeletedStaysDeleted

-----------------------------------------------------------------------------
(* What a stale write loses                                                *)

\* The clients between the read and the write of an append, and the turns no
\* session has yet: those not taken up and those being appended.
Appenders == {c \in Clients : tx[c].op = "append"}
Ahead == fresh \union {tx[c].turn : c \in Appenders}

\* Sessions share their pasts because each turn is appended once: a turn that
\* is still ahead is in no session, and is one client's to append.
BranchInv ==
  /\ PastsAgree
  /\ \A r \in Held : TurnSet(r) \cap Ahead = {}
  /\ \A c \in Appenders : tx[c].turn \notin fresh
  /\ \A c, d \in Appenders : tx[c].turn = tx[d].turn => c = d

LEMMA NothingShared == \A r : SamePast(Absent, r) /\ SamePast(r, Absent)
                              /\ SamePast(Fresh, r) /\ SamePast(r, Fresh)
BY DEF SamePast, Absent, Fresh

LEMMA HeldType == TypeOK => Held \subseteq Row
BY ConstantsType DEF TypeOK, Held, Tx, NoTx

LEMMA BranchInit == Init => BranchInv
<1> SUFFICES ASSUME Init PROVE BranchInv
  OBVIOUS
<1>1. Held \subseteq {Absent, Fresh}
  BY DEF Init, Held, NoTx
<1>2. Appenders = {}
  BY DEF Init, Appenders, NoTx
<1>3. TurnSet(Absent) = {} /\ TurnSet(Fresh) = {}
  BY DEF TurnSet, Absent, Fresh
<1> QED
  BY <1>1, <1>2, <1>3, NothingShared DEF BranchInv, PastsAgree

\* A turn that neither session has may be appended to one of them, ...
LEMMA AppendKeepsPast ==
  ASSUME NEW r \in Row, NEW s \in Row, NEW t \in Turns, t \notin TurnSet(r), t \notin TurnSet(s),
         SamePast(r, s), SamePast(s, r)
  PROVE  SamePast(WithTurn(r, t), s) /\ SamePast(s, WithTurn(r, t))
<1>1. PICK n \in Nat : n = Len(r.turns) /\ DOMAIN r.turns = 1..n
  BY LenProperties DEF Row
<1>2. PICK w : w = WithTurn(r, t).turns
  OBVIOUS
<1>3. /\ DOMAIN w = 1..(n + 1) /\ w[n + 1] = t
      /\ \A k \in 1..n : w[k] = r.turns[k]
  BY <1>1, <1>2, AppendProperties DEF WithTurn, Row
<1>4. PICK m \in Nat : DOMAIN s.turns = 1..m
  BY LenProperties DEF Row
<1>5. \A j \in 1..m : s.turns[j] # t
  BY <1>4 DEF TurnSet
<1>6. \A i \in 1..(n + 1), j \in 1..m : w[i] = s.turns[j] => i \in 1..n
  BY <1>3, <1>5
<1>7. \A i \in 1..n : \A k \in 1..i : k \in 1..n
  OBVIOUS
<1>8. ASSUME NEW i \in 1..(n + 1), NEW j \in 1..m, w[i] = s.turns[j]
      PROVE  i = j /\ \A k \in 1..i : w[k] = s.turns[k]
  <2>1. i \in 1..n /\ w[i] = r.turns[i]
    BY <1>3, <1>6, <1>8
  <2>2. i = j /\ \A k \in 1..i : r.turns[k] = s.turns[k]
    BY <1>1, <1>4, <1>8, <2>1 DEF SamePast
  <2> QED
    BY <1>3, <1>7, <2>1, <2>2
<1> QED
  BY <1>2, <1>3, <1>4, <1>8 DEF SamePast

\* ... and the longer session still has no turn twice.
LEMMA AppendKeepsOwnPast ==
  ASSUME NEW r \in Row, NEW t \in Turns, t \notin TurnSet(r), SamePast(r, r)
  PROVE  SamePast(WithTurn(r, t), WithTurn(r, t))
<1>1. PICK n \in Nat : n = Len(r.turns) /\ DOMAIN r.turns = 1..n
  BY LenProperties DEF Row
<1>2. PICK w : w = WithTurn(r, t).turns
  OBVIOUS
<1>3. /\ DOMAIN w = 1..(n + 1) /\ w[n + 1] = t
      /\ \A k \in 1..n : w[k] = r.turns[k]
  BY <1>1, <1>2, AppendProperties DEF WithTurn, Row
<1>4. \A i \in 1..n : w[i] # t
  BY <1>1, <1>3 DEF TurnSet
<1>5. \A i, j \in 1..n : w[i] = w[j] => i = j
  BY <1>1, <1>3 DEF SamePast
<1>6. \A i, j \in 1..(n + 1) : w[i] = w[j] => i = j
  BY <1>3, <1>4, <1>5
<1> QED
  BY <1>2, <1>3, <1>6 DEF SamePast

\* A summary leaves the turns as they are.
LEMMA SummaryKeepsTurns ==
  ASSUME NEW r \in Row, NEW t
  PROVE  WithSummary(r, t).turns = r.turns
BY DEF WithSummary, Row

\* What a client writes back shares the past of what it had read.
LEMMA MutatedKeepsPast ==
  ASSUME TypeOK, BranchInv, NEW c \in Clients, tx[c] # NoTx
  PROVE  /\ \A s \in Held : SamePast(Mutated(tx[c]), s) /\ SamePast(s, Mutated(tx[c]))
         /\ SamePast(Mutated(tx[c]), Mutated(tx[c]))
         /\ \A t \in TurnSet(Mutated(tx[c])) :
              t \in TurnSet(tx[c].seen) \/ (c \in Appenders /\ t = tx[c].turn)
<1>1. /\ tx[c].seen \in Held /\ tx[c].seen \in Row
      /\ tx[c].turn \in Turns /\ tx[c].op \in {"append", "summarise"}
  BY DEF TypeOK, Tx, Held
<1>2. \A s \in Held : s \in Row /\ SamePast(tx[c].seen, s) /\ SamePast(s, tx[c].seen)
  BY <1>1, HeldType DEF BranchInv, PastsAgree
<1>3. CASE tx[c].op = "append"
  <2>1. c \in Appenders /\ tx[c].turn \in Ahead
    BY <1>3 DEF Appenders, Ahead
  <2>2. \A s \in Held : tx[c].turn \notin TurnSet(s)
    BY <2>1 DEF BranchInv
  <2>3. Mutated(tx[c]) = WithTurn(tx[c].seen, tx[c].turn)
    BY <1>3 DEF Mutated
  <2>4. \A t \in TurnSet(WithTurn(tx[c].seen, tx[c].turn)) :
          t \in TurnSet(tx[c].seen) \/ t = tx[c].turn
    <3>1. PICK n \in Nat : n = Len(tx[c].seen.turns) /\ DOMAIN tx[c].seen.turns = 1..n
      BY <1>1, LenProperties DEF Row
    <3>2. PICK w : w = WithTurn(tx[c].seen, tx[c].turn).turns
      OBVIOUS
    <3>3. /\ DOMAIN w = 1..(n + 1) /\ w[n + 1] = tx[c].turn
          /\ \A k \in 1..n : w[k] = tx[c].seen.turns[k]
      BY <1>1, <3>1, <3>2, AppendProperties DEF WithTurn, Row
    <3>4. \A k \in 1..(n + 1) : k \in 1..n \/ k = n + 1
      OBVIOUS
    <3> QED
      BY <3>1, <3>2, <3>3, <3>4 DEF TurnSet
  <2> QED
    BY <1>1, <1>2, <2>1, <2>2, <2>3, <2>4, AppendKeepsPast, AppendKeepsOwnPast
<1>4. CASE tx[c].op = "summarise"
  <2>1. Mutated(tx[c]).turns = tx[c].seen.turns
    BY <1>1, <1>4, SummaryKeepsTurns DEF Mutated
  <2> QED
    BY <1>1, <1>2, <2>1 DEF SamePast, TurnSet
<1> QED
  BY <1>1, <1>3, <1>4

LEMMA BranchNext == TypeOK /\ BranchInv /\ [Next]_vars => BranchInv'
<1> SUFFICES ASSUME TypeOK, BranchInv, [Next]_vars PROVE BranchInv'
  OBVIOUS
<1>1. CASE UNCHANGED vars
  <2>1. Held' = Held /\ Ahead' = Ahead /\ Appenders' = Appenders
    BY <1>1 DEF vars, Held, Ahead, Appenders
  <2> QED
    BY <1>1, <2>1 DEF vars, BranchInv, PastsAgree
<1>2. ASSUME NEW c \in Clients, Client(c) PROVE BranchInv'
  <2>0. tx \in [Clients -> Tx] /\ copy \in [Clients -> Row]
    BY DEF TypeOK
  \* A client that appends was doing so before, or takes up a fresh turn.
  <2>1. /\ fresh' \subseteq fresh
        /\ \A d \in Appenders' :
             \/ (d \in Appenders /\ tx'[d] = tx[d] /\ (Write(c) => d # c))
             \/ (d = c /\ tx'[d].turn \in fresh \ fresh')
    <3>1. CASE Open(c) \/ Save(c) \/ Delete(c)
      BY <3>1 DEF Open, Save, Delete, Write, Appenders
    <3>2. CASE Write(c) \/ Die(c)
      <4>1. \A d \in Clients : tx'[d] = IF d = c THEN NoTx ELSE tx[d]
        BY <2>0, <3>2 DEF Write, Die
      <4> QED
        BY <3>2, <4>1 DEF Write, Die, Appenders, NoTx
    <3>3. ASSUME NEW t \in Turns, AppendTurn(c, t)
          PROVE  /\ fresh' = fresh \ {t} /\ t \in fresh /\ tx[c] = NoTx
                 /\ \A d \in Clients : tx'[d] = tx[d] \/ (d = c /\ tx'[d].turn = t)
      <4>1. Read(c, "append", t) \/ (tx[c] = NoTx /\ tx' = tx)
        BY <3>3 DEF AppendTurn
      <4>2. CASE Read(c, "append", t)
        <5>1. \A d \in Clients : tx'[d] = IF d = c THEN [op |-> "append", turn |-> t, seen |-> row]
                                                    ELSE tx[d]
          BY <2>0, <4>2 DEF Read
        <5> QED
          BY <3>3, <4>2, <5>1 DEF AppendTurn, Read
      <4> QED
        BY <3>3, <4>1, <4>2 DEF AppendTurn
    <3>4. ASSUME NEW t \in Turns, UpdateTcSummary(c, t)
          PROVE  /\ fresh' = fresh /\ tx[c] = NoTx
                 /\ \A d \in Clients : tx'[d] = tx[d] \/ tx'[d].op = "summarise"
      BY <2>0, <3>4 DEF UpdateTcSummary, Read
    <3>5. CASE \E t \in Turns : AppendTurn(c, t)
      <4>1. PICK t \in Turns : AppendTurn(c, t)
        BY <3>5
      <4>2. ~Write(c)
        BY <3>3, <4>1 DEF Write
      <4> QED
        BY <3>3, <4>1, <4>2 DEF Appenders
    <3>6. CASE \E t \in Turns : UpdateTcSummary(c, t)
      <4>1. PICK t \in Turns : UpdateTcSummary(c, t)
        BY <3>6
      <4>2. ~Write(c)
        BY <3>4, <4>1 DEF Write
      <4> QED
        BY <3>4, <4>1, <4>2 DEF Appenders
    <3> QED
      BY <1>2, <3>1, <3>2, <3>5, <3>6 DEF Client
  <2>2. /\ Ahead' \subseteq Ahead
        /\ \A d \in Appenders' : tx'[d].turn \notin fresh'
        /\ \A d, e \in Appenders' : tx'[d].turn = tx'[e].turn => d = e
    BY <2>1 DEF BranchInv, Ahead
  <2>3. \A r \in Held' : \/ r \in Held \/ r \in {Absent, Fresh}
                        \/ (Write(c) /\ r = Mutated(tx[c]))
    <3>0. row \in Held /\ \A d \in Clients : copy[d] \in Held /\ tx[d].seen \in Held
      BY DEF Held
    <3>1. row' \in Held \/ row' \in {Absent, Fresh} \/ (Write(c) /\ row' = Mutated(tx[c]))
      BY <1>2, <3>0 DEF Client, Open, Save, Delete, Write, Die, AppendTurn, UpdateTcSummary
    <3>2. \A d \in Clients : copy'[d] \in Held \/ copy'[d] \in {Absent, Fresh}
      BY <1>2, <2>0, <3>0 DEF Client, Open, Save, Delete, Write, Die, AppendTurn, UpdateTcSummary
    <3>3. \A d \in Clients : tx'[d] = tx[d] \/ tx'[d] = NoTx \/ tx'[d].seen = row
      BY <1>2, <2>0 DEF Client, Open, Save, Delete, Write, Die, AppendTurn, UpdateTcSummary, Read
    <3>4. \A d \in Clients : tx'[d].seen \in Held \/ tx'[d].seen \in {Absent, Fresh}
      BY <3>0, <3>3 DEF NoTx
    <3>5. \A r \in Held' : r = row' \/ \E d \in Clients : r = copy'[d] \/ r = tx'[d].seen
      BY DEF Held
    <3> SUFFICES ASSUME NEW r \in Held'
                 PROVE  \/ r \in Held \/ r \in {Absent, Fresh}
                        \/ (Write(c) /\ r = Mutated(tx[c]))
      OBVIOUS
    <3>6. CASE r = row'
      BY <3>1, <3>6
    <3>7. CASE \E d \in Clients : r = copy'[d] \/ r = tx'[d].seen
      BY <3>2, <3>4, <3>7
    <3> QED
      BY <3>5, <3>6, <3>7
  <2>4. Write(c) => tx[c] # NoTx /\ tx[c].seen \in Held
    BY DEF Write, Held
  <2>5. ASSUME NEW r \in Held', NEW s \in Held'
        PROVE  SamePast(r, s)
    BY <2>3, <2>4, MutatedKeepsPast, NothingShared DEF BranchInv, PastsAgree
  <2>6. ASSUME NEW r \in Held'
        PROVE  TurnSet(r) \cap Ahead' = {}
    <3>1. CASE r \in Held
      BY <2>2, <3>1 DEF BranchInv
    <3>2. CASE r \in {Absent, Fresh}
      BY <3>2 DEF Absent, Fresh, TurnSet
    <3>3. CASE Write(c) /\ r = Mutated(tx[c])
      <4>1. \A t \in TurnSet(r) :
              t \in TurnSet(tx[c].seen) \/ (c \in Appenders /\ t = tx[c].turn)
        BY <2>4, <3>3, MutatedKeepsPast
      <4>2. TurnSet(tx[c].seen) \cap Ahead' = {}
        BY <2>2, <2>4, <3>3 DEF BranchInv
      <4>3. c \in Appenders => tx[c].turn \notin Ahead'
        <5>1. fresh' = fresh
          BY <3>3 DEF Write
        <5>2. \A d \in Appenders' : d \in Appenders /\ tx'[d] = tx[d] /\ d # c
          BY <2>1, <3>3, <5>1
        <5> QED
          BY <5>1, <5>2 DEF BranchInv, Ahead
      <4> QED
        BY <4>1, <4>2, <4>3
    <3> QED
      BY <2>3, <3>1, <3>2, <3>3
  <2> QED
    BY <2>2, <2>5, <2>6 DEF BranchInv, PastsAgree
<1> QED
  BY <1>1, <1>2 DEF Next

\* A step drops turns only as LossesAreRollbacks says: with the row lock the
\* writer has read what it overwrites.
LEMMA LossStep ==
  ASSUME TypeOK, LockHeld, [Next]_vars,
         NEW t \in TurnSet(row), t \notin TurnSet(row')
  PROVE  LostToStaleWrite(t)
<1>1. row' # row
  OBVIOUS
<1>2. PICK c \in Clients : Client(c)
  BY <1>1 DEF Next, vars
<1>3. CASE Save(c)
  BY <1>3 DEF Save, LostToStaleWrite
<1>4. CASE Delete(c)
  BY <1>4 DEF Delete, LostToStaleWrite
<1>5. CASE Write(c)
  <2>1. tx[c] # NoTx /\ row' = Mutated(tx[c])
    BY <1>1, <1>5 DEF Write
  <2>2. tx[c].seen \in Row /\ tx[c].turn \in Turns
    BY <2>1 DEF TypeOK, Tx
  <2>3. TurnSet(tx[c].seen) \subseteq TurnSet(Mutated(tx[c]))
    <3>1. TurnSet(tx[c].seen) \subseteq TurnSet(WithTurn(tx[c].seen, tx[c].turn))
      BY <2>2, AppendProperties, LenProperties DEF WithTurn, TurnSet, Row
    <3>2. TurnSet(WithSummary(tx[c].seen, tx[c].turn)) = TurnSet(tx[c].seen)
      BY <2>2, SummaryKeepsTurns DEF TurnSet
    <3> QED
      BY <3>1, <3>2 DEF Mutated
  <2>4. t \notin TurnSet(tx[c].seen)
    BY <2>1, <2>3
  <2>5. ~Locking
    BY <2>1, <2>4 DEF LockHeld
  <2> QED
    BY <2>1, <2>4, <2>5 DEF LostToStaleWrite
<1> QED
  BY <1>1, <1>2, <1>3, <1>4, <1>5 DEF Client, Open, Die, AppendTurn, UpdateTcSummary

\* Whoever overwrites whom, what is lost is the end of a history, and is lost
\* to a writer that had not read it.
THEOREM LossesAreRollbacksCorrect == Spec => LossesAreRollbacks
<1>1. TypeOK /\ LockHeld /\ BranchInv' /\ [Next]_vars =>
        /\ PastsAgree'
        /\ \A t \in TurnSet(row) \ TurnSet(row') : LostToStaleWrite(t)
  BY LossStep DEF BranchInv
<1> QED
  BY TypeCorrect, LockHeldCorrect, BranchInit, BranchNext, <1>1, PTL
     DEF Spec, LossesAreRollbacks

-----------------------------------------------------------------------------
(***************************************************************************)
(* SessionFiles.  A load that has not answered yet has seen the session's  *)
(* file as it is now: what it saw at the start, and every change since.    *)
(***************************************************************************)
FileStates == {NoFile, TornFile, "whole"}

FileTasks ==
    {AtRest}
    \cup [step : {"write", "register", "unregister"}, id : FileIds]
    \cup [step : {"empty", "fill"}, index : SUBSET FileIds]
    \cup [step : {"load", "scan"}, id : FileIds, hint : Hints, seen : SUBSET FileStates]
    \cup [step : {"loaded"}, id : FileIds, hint : Hints, seen : SUBSET FileStates,
          result : FileStates \cup {"error"}]

FileTypeOK ==
    /\ fFile \in [FileIds -> FileStates]
    /\ fIndex \subseteq FileIds
    /\ fAt \in [Processes -> FileTasks]

SeesNow(task) ==
    /\ task.step \in {"load", "scan"} => fFile[task.id] \in task.seen
    /\ task.step = "scan" => task.hint = "none"

ToldTruly(task) ==
    task.step = "loaded" /\ task.result = NoFile =>
        /\ task.hint = "both" => NoFile \in task.seen
        /\ task.hint = "none" => task.seen \cap {NoFile, TornFile} # {}

FileInv == FileTypeOK /\ \A p \in Processes : SeesNow(fAt[p]) /\ ToldTruly(fAt[p])

\* The steps of the tasks tell their kinds apart.
LEMMA TaskKinds ==
    ASSUME NEW task \in FileTasks
    PROVE  /\ task.step \in {"write", "register", "unregister", "load", "scan", "loaded"} =>
                 task.id \in FileIds
           /\ task.step \in {"empty", "fill"} => task.index \subseteq FileIds
           /\ task.step \in {"load", "scan"} =>
                 task \in [step : {"load", "scan"}, id : FileIds, hint : Hints,
                           seen : SUBSET FileStates]
<1>1. CASE task = AtRest
  BY <1>1 DEF AtRest
<1>2. CASE task \in [step : {"write", "register", "unregister"}, id : FileIds]
  BY <1>2
<1>3. CASE task \in [step : {"empty", "fill"}, index : SUBSET FileIds]
  BY <1>3
<1>4. CASE task \in [step : {"load", "scan"}, id : FileIds, hint : Hints,
                     seen : SUBSET FileStates]
  BY <1>4
<1>5. CASE task \in [step : {"loaded"}, id : FileIds, hint : Hints,
                     seen : SUBSET FileStates, result : FileStates \cup {"error"}]
  BY <1>5
<1> QED
  BY <1>1, <1>2, <1>3, <1>4, <1>5 DEF FileTasks

\* A process that takes up a task, or goes on to the next, while no file changes.
LEMMA GoToKeeps ==
    ASSUME FileInv, NEW p \in Processes, NEW task \in FileTasks,
           fFile' = fFile, fIndex' \subseteq FileIds, fAt' = [fAt EXCEPT ![p] = task],
           SeesNow(task), ToldTruly(task)
    PROVE  FileInv'
<1>1. FileTypeOK'
  BY DEF FileInv, FileTypeOK
<1>2. ASSUME NEW q \in Processes
      PROVE  (SeesNow(fAt[q]) /\ ToldTruly(fAt[q]))'
  <2>1. CASE q = p
    BY <2>1 DEF FileInv, FileTypeOK, SeesNow, ToldTruly
  <2>2. CASE q # p
    BY <2>2 DEF FileInv, FileTypeOK, SeesNow, ToldTruly
  <2> QED
    BY <2>1, <2>2
<1> QED
  BY <1>1, <1>2 DEF FileInv

\* A file changes, and the loads of its session see it.
LEMMA ChangeKeeps ==
    ASSUME FileInv, NEW p \in Processes, NEW id \in FileIds, NEW now \in FileStates,
           NEW task \in [step : {"write", "register", "unregister"}, id : FileIds],
           ChangeFile(p, id, now, task), fIndex' = fIndex
    PROVE  FileInv'
<1> DEFINE Saw(q) == fAt[q].step \in {"load", "scan"} /\ fAt[q].id = id
<1>1. task \in FileTasks /\ task.step \notin {"load", "scan", "loaded"}
  BY DEF FileTasks
<1>2. fFile' = [fFile EXCEPT ![id] = now] /\ fFile' \in [FileIds -> FileStates]
  BY DEF ChangeFile, FileInv, FileTypeOK
<1>3. ASSUME NEW q \in Processes, q # p
      PROVE  /\ fAt[q] \in FileTasks
             /\ ~Saw(q) => fAt'[q] = fAt[q]
             /\ Saw(q) => fAt'[q] = [fAt[q] EXCEPT !.seen = @ \cup {now}]
  BY <1>3 DEF ChangeFile, Seen, FileInv, FileTypeOK
<1>4. fAt' = [q \in Processes |-> fAt'[q]] /\ fAt'[p] = task
  BY DEF ChangeFile, Seen
<1>5. ASSUME NEW q \in Processes
      PROVE  fAt'[q] \in FileTasks /\ (SeesNow(fAt[q]) /\ ToldTruly(fAt[q]))'
  <2>1. CASE q = p
    BY <2>1, <1>1, <1>4 DEF SeesNow, ToldTruly
  <2>2. CASE q # p /\ ~Saw(q)
    <3>1. fAt'[q] = fAt[q] /\ fAt[q] \in FileTasks
      BY <2>2, <1>3
    <3>2. SeesNow(fAt[q]) /\ ToldTruly(fAt[q])
      BY DEF FileInv
    <3>3. fAt[q].step \in {"load", "scan"} =>
             fAt[q].id \in FileIds /\ fFile'[fAt[q].id] = fFile[fAt[q].id]
      BY <2>2, <3>1, <1>2, TaskKinds DEF FileInv, FileTypeOK
    <3> QED
      BY <3>1, <3>2, <3>3 DEF SeesNow, ToldTruly
  <2>3. CASE q # p /\ Saw(q)
    <3>1. PICK t \in FileTasks : t = fAt[q] /\ fAt'[q] = [t EXCEPT !.seen = @ \cup {now}]
                                 /\ t.step \in {"load", "scan"} /\ t.id = id
      BY <2>3, <1>3
    <3>2. t \in [step : {"load", "scan"}, id : FileIds, hint : Hints,
                 seen : SUBSET FileStates]
      BY <3>1, TaskKinds
    <3>3. /\ fAt'[q] \in [step : {"load", "scan"}, id : FileIds, hint : Hints,
                          seen : SUBSET FileStates]
          /\ fAt'[q].id = id /\ now \in fAt'[q].seen
          /\ fAt'[q].step = t.step /\ fAt'[q].hint = t.hint
      BY <3>1, <3>2
    <3>4. t.step = "scan" => t.hint = "none"
      BY <3>1 DEF FileInv, SeesNow
    <3>5. fAt'[q] \in FileTasks
      BY <3>3 DEF FileTasks
    <3> QED
      BY <3>1, <3>3, <3>4, <3>5, <1>2 DEF SeesNow, ToldTruly, FileInv, FileTypeOK
  <2> QED
    BY <2>1, <2>2, <2>3
<1>6. fAt' \in [Processes -> FileTasks]
  BY <1>4, <1>5
<1> QED
  BY <1>2, <1>5, <1>6 DEF FileInv, FileTypeOK

LEMMA FileStep ==
    ASSUME FileInv, [FileNext]_fileVars
    PROVE  FileInv'
<1>1. ASSUME NEW p \in Processes, NEW id \in FileIds, SaveFile(p, id)
      PROVE  FileInv'
  BY <1>1, ChangeKeeps DEF SaveFile, FileStates
<1>2. ASSUME NEW p \in Processes, NEW id \in FileIds, DeleteFile(p, id)
      PROVE  FileInv'
  BY <1>2, ChangeKeeps DEF DeleteFile, FileStates
<1>3. ASSUME NEW p \in Processes, NEW id \in FileIds, NEW hint \in Hints,
             LoadFile(p, id, hint)
      PROVE  FileInv'
  <2> DEFINE task == [step |-> "load", id |-> id, hint |-> hint, seen |-> {fFile[id]}]
  <2>1. task \in FileTasks /\ SeesNow(task) /\ ToldTruly(task)
    BY DEF FileTasks, SeesNow, ToldTruly, FileInv, FileTypeOK
  <2>2. fAt' = [fAt EXCEPT ![p] = task] /\ fFile' = fFile /\ fIndex' \subseteq FileIds
    BY <1>3 DEF LoadFile, BeginOp, FileInv, FileTypeOK
  <2> HIDE DEF task
  <2> QED
    BY <2>1, <2>2, GoToKeeps
<1>4. ASSUME NEW p \in Processes, WriteFile(p)
      PROVE  FileInv'
  <2>1. fAt[p].id \in FileIds
    BY <1>4, TaskKinds DEF WriteFile, FileInv, FileTypeOK
  <2> QED
    BY <1>4, <2>1, ChangeKeeps DEF WriteFile, FileStates
<1>5. ASSUME NEW p \in Processes, ReadForRegister(p) \/ ReadForUnregister(p)
      PROVE  FileInv'
  <2>1. fAt[p].id \in FileIds
    BY <1>5, TaskKinds DEF ReadForRegister, ReadForUnregister, FileInv, FileTypeOK
  <2>2. PICK index \in SUBSET FileIds : GoTo(p, [step |-> "empty", index |-> index])
    BY <1>5, <2>1 DEF ReadForRegister, ReadForUnregister, FileInv, FileTypeOK
  <2> DEFINE task == [step |-> "empty", index |-> index]
  <2>3. task \in FileTasks /\ SeesNow(task) /\ ToldTruly(task)
    BY DEF FileTasks, SeesNow, ToldTruly
  <2>4. fAt' = [fAt EXCEPT ![p] = task] /\ fFile' = fFile /\ fIndex' \subseteq FileIds
    BY <1>5, <2>2 DEF ReadForRegister, ReadForUnregister, GoTo, FileInv, FileTypeOK
  <2> HIDE DEF task
  <2> QED
    BY <2>3, <2>4, GoToKeeps
<1>6. ASSUME NEW p \in Processes, EmptyIndex(p)
      PROVE  FileInv'
  <2> DEFINE task == [step |-> "fill", index |-> fAt[p].index]
  <2>1. fAt[p].index \subseteq FileIds
    BY <1>6, TaskKinds DEF EmptyIndex, FileInv, FileTypeOK
  <2>2. task \in FileTasks /\ SeesNow(task) /\ ToldTruly(task)
    BY <2>1 DEF FileTasks, SeesNow, ToldTruly
  <2> QED
    BY <1>6, <2>2, GoToKeeps DEF EmptyIndex, GoTo
<1>7. ASSUME NEW p \in Processes, FillIndex(p) \/ ReturnLoad(p) \/ StoreDies(p)
      PROVE  FileInv'
  <2>1. fIndex' \subseteq FileIds
    BY <1>7, TaskKinds DEF FillIndex, ReturnLoad, StoreDies, FileInv, FileTypeOK
  <2>2. AtRest \in FileTasks /\ SeesNow(AtRest) /\ ToldTruly(AtRest)
    BY DEF FileTasks, SeesNow, ToldTruly, AtRest
  <2> QED
    BY <1>7, <2>1, <2>2, GoToKeeps DEF FillIndex, ReturnLoad, StoreDies, GoTo
<1>8. ASSUME NEW p \in Processes, fAt[p].step \in {"load", "scan"}
      PROVE  /\ fAt[p].id \in FileIds /\ fAt[p].hint \in Hints
             /\ fAt[p].seen \in SUBSET FileStates /\ fFile[fAt[p].id] \in fAt[p].seen
             /\ fFile[fAt[p].id] \in FileStates
             /\ fAt[p].step = "scan" => fAt[p].hint = "none"
  <2>1. fAt[p] \in FileTasks
    BY DEF FileInv, FileTypeOK
  <2>2. fAt[p] \in [step : {"load", "scan"}, id : FileIds, hint : Hints,
                    seen : SUBSET FileStates]
    BY <1>8, <2>1, TaskKinds
  <2> QED
    BY <1>8, <2>2 DEF FileInv, FileTypeOK, SeesNow
<1>9. ASSUME NEW p \in Processes, NEW result \in FileStates \cup {"error"},
             AnswerLoad(p, result), fAt[p].step \in {"load", "scan"},
             result = NoFile => \/ fFile[fAt[p].id] = NoFile
                                \/ fAt[p].hint = "none" /\ fFile[fAt[p].id] = TornFile
                                \/ fAt[p].hint = "one",
             fFile' = fFile, fIndex' = fIndex
      PROVE  FileInv'
  <2> DEFINE task == [step |-> "loaded", id |-> fAt[p].id, hint |-> fAt[p].hint,
                      seen |-> fAt[p].seen, result |-> result]
  <2>1. task \in FileTasks
    BY <1>8, <1>9 DEF FileTasks
  <2>2. SeesNow(task)
    BY DEF SeesNow
  <2>3. ToldTruly(task)
    BY <1>8, <1>9 DEF ToldTruly
  <2>4. fAt' = [fAt EXCEPT ![p] = task] /\ fFile' = fFile /\ fIndex' \subseteq FileIds
    BY <1>9 DEF AnswerLoad, GoTo, FileInv, FileTypeOK
  <2> HIDE DEF task
  <2> QED
    BY <2>1, <2>2, <2>3, <2>4, GoToKeeps
<1>10. ASSUME NEW p \in Processes, ReadLocated(p)
       PROVE  FileInv'
  <2>1. fFile[fAt[p].id] \in FileStates
    BY <1>8, <1>10 DEF ReadLocated
  <2> QED
    BY <1>9, <1>10, <2>1 DEF ReadLocated, NoFile, FileStates
<1>11. ASSUME NEW p \in Processes, BeginScan(p)
       PROVE  FileInv'
  <2> DEFINE task == [fAt[p] EXCEPT !.step = "scan"]
  <2>1. fAt[p] \in FileTasks
    BY DEF FileInv, FileTypeOK
  <2>2. fAt[p] \in [step : {"load", "scan"}, id : FileIds, hint : Hints,
                    seen : SUBSET FileStates]
    BY <1>11, <2>1, TaskKinds DEF BeginScan
  <2>3. /\ task \in [step : {"load", "scan"}, id : FileIds, hint : Hints,
                     seen : SUBSET FileStates]
        /\ task.id = fAt[p].id /\ task.hint = fAt[p].hint /\ task.seen = fAt[p].seen
        /\ task.step = "scan"
    BY <2>2
  <2>4. fAt' = [fAt EXCEPT ![p] = task] /\ fFile' = fFile /\ fIndex' \subseteq FileIds
        /\ fAt[p].hint = "none"
    BY <1>11 DEF BeginScan, GoTo, FileInv, FileTypeOK
  <2> HIDE DEF task
  <2>5. task \in FileTasks /\ SeesNow(task) /\ ToldTruly(task)
    BY <1>8, <1>11, <2>3, <2>4 DEF BeginScan, FileTasks, SeesNow, ToldTruly
  <2> QED
    BY <2>4, <2>5, GoToKeeps
<1>12. ASSUME NEW p \in Processes, ScanForSession(p)
       PROVE  FileInv'
  <2>1. CASE fFile[fAt[p].id] = "whole"
    <3> DEFINE task == [step |-> "register", id |-> fAt[p].id]
    <3>1. task \in FileTasks /\ SeesNow(task) /\ ToldTruly(task)
      BY <1>8, <1>12 DEF ScanForSession, FileTasks, SeesNow, ToldTruly
    <3>2. fAt' = [fAt EXCEPT ![p] = task] /\ fFile' = fFile /\ fIndex' \subseteq FileIds
      BY <1>12, <2>1 DEF ScanForSession, GoTo, FileInv, FileTypeOK
    <3> HIDE DEF task
    <3> QED
      BY <3>1, <3>2, GoToKeeps
  <2>2. CASE fFile[fAt[p].id] # "whole"
    <3>1. AnswerLoad(p, NoFile) /\ fAt[p].step = "scan" /\ fFile' = fFile /\ fIndex' = fIndex
      BY <1>12, <2>2 DEF ScanForSession
    <3>2. fFile[fAt[p].id] \in {NoFile, TornFile} /\ fAt[p].hint = "none"
      BY <1>8, <2>2, <3>1 DEF FileStates
    <3> QED
      BY <1>9, <3>1, <3>2 DEF FileStates
  <2> QED
    BY <2>1, <2>2
<1>14. ASSUME NEW p \in Processes, LookElsewhere(p)
       PROVE  FileInv'
  BY <1>9, <1>14 DEF LookElsewhere, FileStates
<1>15. ASSUME NEW p \in Processes, NEW id \in FileIds, DeleteElsewhere(p, id)
       PROVE  FileInv'
  <2> DEFINE task == [step |-> "unregister", id |-> id]
  <2>1. task \in FileTasks /\ SeesNow(task) /\ ToldTruly(task)
    BY DEF FileTasks, SeesNow, ToldTruly
  <2>2. fAt' = [fAt EXCEPT ![p] = task] /\ fFile' = fFile /\ fIndex' \subseteq FileIds
    BY <1>15 DEF DeleteElsewhere, BeginOp, FileInv, FileTypeOK
  <2> HIDE DEF task
  <2> QED
    BY <2>1, <2>2, GoToKeeps
<1>13. CASE UNCHANGED fileVars
  BY <1>13 DEF fileVars, FileInv, FileTypeOK, SeesNow, ToldTruly
<1> QED
  BY <1>1, <1>2, <1>3, <1>4, <1>5, <1>6, <1>7, <1>10,
     <1>11, <1>12, <1>13, <1>14, <1>15 DEF FileNext

(***************************************************************************)
(* A load answers that there is no such session only if, at some moment of *)
(* the load, there was none: no file when tenant and user are named, no    *)
(* complete one when neither is, whatever other processes made of the      *)
(* index and the files.  (A scope that names one of them is left out.)     *)
(* (session/adapters/file.py:143-189, storage/paths.py:124-152)            *)
(***************************************************************************)
THEOREM GoneIsGone == FileSpec => []GoneMeansGone
<1>1. FileInit => FileInv
  BY DEF FileInit, FileInv, FileTypeOK, FileStates, FileTasks, SeesNow, ToldTruly, AtRest
<1>2. FileInv /\ [FileNext]_fileVars => FileInv'
  BY FileStep
<1>3. FileInv => GoneMeansGone
  BY DEF FileInv, ToldTruly, GoneMeansGone
<1> QED
  BY <1>1, <1>2, <1>3, PTL DEF FileSpec

-----------------------------------------------------------------------------
(***************************************************************************)
(* SessionLists.                                                           *)
(***************************************************************************)
LEMMA SliceIs ==
    ASSUME NEW T, NEW s \in Seq(T), NEW offset \in Nat, NEW limit \in Nat
    PROVE  /\ Slice(s, offset, limit) \in Seq(T)
           /\ \A e : e \in Range(Slice(s, offset, limit)) <=>
                 \E p \in DOMAIN s : offset < p /\ p <= offset + limit /\ s[p] = e
           /\ IsInjective(s) => IsInjective(Slice(s, offset, limit))
<1> DEFINE from == offset + 1
           to == IF offset + limit < Len(s) THEN offset + limit ELSE Len(s)
           x == Slice(s, offset, limit)
<1>1. /\ from \in Nat /\ to \in Nat /\ Len(s) \in Nat /\ DOMAIN s = 1 .. Len(s)
      /\ \A p \in from .. to : p \in DOMAIN s
      /\ \A p \in DOMAIN s : p \in Nat /\ (offset < p /\ p <= offset + limit <=> p \in from .. to)
  BY LenProperties
<1>2. x = SubSeq(s, from, to)
  BY DEF Slice
<1>3. \A p \in from .. to : s[p] \in T
  BY <1>1, ElementOfSeq
<1> HIDE DEF x, from, to
<1>4. /\ SubSeq(s, from, to) \in Seq(T)
      /\ Len(SubSeq(s, from, to)) = IF from <= to THEN to - from + 1 ELSE 0
      /\ \A i \in 1 .. to - from + 1 : SubSeq(s, from, to)[i] = s[from + i - 1]
  BY <1>1, <1>3, SubSeqProperties
<1>5. x \in Seq(T) /\ DOMAIN x = 1 .. Len(x) /\ Len(x) \in Nat
  BY <1>2, <1>4, LenProperties
<1>6. \A i \in DOMAIN x : /\ i \in 1 .. to - from + 1 /\ from + i - 1 \in from .. to
                          /\ x[i] = s[from + i - 1]
  BY <1>1, <1>2, <1>4, <1>5
<1>7. \A p \in from .. to : p - from + 1 \in DOMAIN x /\ from + (p - from + 1) - 1 = p
  BY <1>1, <1>2, <1>4, <1>5
<1>8. ASSUME NEW e
      PROVE  e \in Range(x) <=> \E p \in DOMAIN s : offset < p /\ p <= offset + limit /\ s[p] = e
  <2>1. ASSUME e \in Range(x) PROVE \E p \in from .. to : s[p] = e
    <3>1. PICK i \in DOMAIN x : x[i] = e
      BY <2>1 DEF Range
    <3> QED
      BY <1>6, <3>1
  <2>2. ASSUME NEW p \in from .. to, s[p] = e PROVE e \in Range(x)
    <3>1. x[p - from + 1] = e
      BY <1>6, <1>7, <2>2
    <3> QED
      BY <1>7, <3>1 DEF Range
  <2> QED
    BY <1>1, <2>1, <2>2
<1>9. ASSUME IsInjective(s) PROVE IsInjective(x)
  <2> SUFFICES ASSUME NEW i \in DOMAIN x, NEW j \in DOMAIN x, x[i] = x[j] PROVE i = j
    BY DEF IsInjective
  <2>1. s[from + i - 1] = s[from + j - 1] /\ from + i - 1 \in DOMAIN s /\ from + j - 1 \in DOMAIN s
    BY <1>1, <1>6
  <2>2. from + i - 1 = from + j - 1
    BY <1>9, <2>1 DEF IsInjective
  <2>3. i \in Nat /\ j \in Nat /\ from \in Nat
    BY <1>1, <1>5
  <2> HIDE DEF from
  <2> QED
    BY <2>2, <2>3
<1> QED
  BY <1>5, <1>8, <1>9 DEF x

LEMMA SliceHas ==
    ASSUME NEW T, NEW s \in Seq(T), NEW offset \in Nat, NEW limit \in Nat, NEW e
    PROVE  e \in Range(Slice(s, offset, limit)) <=>
               \E p \in DOMAIN s : offset < p /\ p <= offset + limit /\ s[p] = e
<1>1. /\ Slice(s, offset, limit) \in Seq(T)
      /\ \A x : x \in Range(Slice(s, offset, limit)) <=>
             \E p \in DOMAIN s : offset < p /\ p <= offset + limit /\ s[p] = x
      /\ IsInjective(s) => IsInjective(Slice(s, offset, limit))
  BY SliceIs
<1> QED
  BY <1>1

LEMMA SliceKept ==
    ASSUME NEW T, NEW s \in Seq(T), IsInjective(s), NEW limit \in Nat \ {0}
    PROVE  \A offset \in Nat : /\ Slice(s, offset, limit) \in Seq(T)
                               /\ IsInjective(Slice(s, offset, limit))
                               /\ Range(Slice(s, offset, limit)) \subseteq Range(s)
                               /\ Range(Slice(s, offset, limit)) \subseteq T
<1> SUFFICES ASSUME NEW offset \in Nat
             PROVE  /\ Slice(s, offset, limit) \in Seq(T)
                    /\ IsInjective(Slice(s, offset, limit))
                    /\ Range(Slice(s, offset, limit)) \subseteq Range(s)
                    /\ Range(Slice(s, offset, limit)) \subseteq T
  OBVIOUS
<1> DEFINE x == Slice(s, offset, limit)
<1>1. limit \in Nat
  OBVIOUS
<1>2. x \in Seq(T) /\ IsInjective(x)
  BY <1>1, SliceIs
<1>3. \A e : e \in Range(x) => \E p \in DOMAIN s : s[p] = e
  BY <1>1, SliceHas
<1>4. \A p \in DOMAIN s : s[p] \in T
  BY LenProperties, ElementOfSeq
<1> HIDE DEF x
<1>5. Range(x) \subseteq Range(s) /\ Range(x) \subseteq T
  BY <1>3, <1>4 DEF Range
<1> QED
  BY <1>2, <1>5 DEF x

LEMMA ReverseIs ==
    ASSUME NEW T, NEW s \in Seq(T)
    PROVE  /\ Reverse(s) \in Seq(T)
           /\ Range(Reverse(s)) = Range(s)
           /\ IsInjective(s) => IsInjective(Reverse(s))
<1> DEFINE n == Len(s)
           r == Reverse(s)
<1>1. n \in Nat /\ DOMAIN s = 1 .. n /\ \A p \in 1 .. n : s[p] \in T
  BY LenProperties, ElementOfSeq
<1>2. r = [i \in 1 .. n |-> s[(n - i) + 1]]
  BY DEF Reverse
<1> HIDE DEF n, r
<1>3. \A i \in 1 .. n : (n - i) + 1 \in 1 .. n /\ (n - ((n - i) + 1)) + 1 = i
  BY <1>1
<1>4. r \in Seq(T) /\ DOMAIN r = 1 .. n /\ \A i \in 1 .. n : r[i] = s[(n - i) + 1]
  BY <1>1, <1>2, <1>3
<1>5. Range(r) = Range(s)
  <2>1. \A i \in 1 .. n : r[(n - i) + 1] = s[i] /\ (n - i) + 1 \in 1 .. n
    BY <1>3, <1>4
  <2>2. \A i \in 1 .. n : \E j \in 1 .. n : r[j] = s[i]
    BY <2>1
  <2>3. \A i \in 1 .. n : \E j \in 1 .. n : s[j] = r[i]
    BY <1>3, <1>4
  <2>4. DOMAIN r = 1 .. n /\ DOMAIN s = 1 .. n
    BY <1>1, <1>4
  <2>5. \A e : e \in Range(r) <=> \E j \in 1 .. n : r[j] = e
    BY <2>4 DEF Range
  <2>6. \A e : e \in Range(s) <=> \E j \in 1 .. n : s[j] = e
    BY <2>4 DEF Range
  <2>7. \A e : e \in Range(r) <=> e \in Range(s)
    <3> HIDE DEF r
    <3> QED
      BY <2>2, <2>3, <2>5, <2>6
  <2> QED
    BY <2>7
<1>6. ASSUME IsInjective(s), NEW i \in 1 .. n, NEW j \in 1 .. n, r[i] = r[j]
      PROVE  i = j
  <2>1. (n - i) + 1 = (n - j) + 1
    BY <1>1, <1>3, <1>4, <1>6 DEF IsInjective
  <2> QED
    BY <1>1, <2>1
<1> QED
  BY <1>4, <1>5, <1>6 DEF r, IsInjective

\* Every place of a list is on one page.
LEMMA SomePage ==
    ASSUME NEW limit \in Nat \ {0}, NEW p \in Nat \ {0}
    PROVE  \E i \in 1 .. p : (i - 1) * limit < p /\ p <= (i - 1) * limit + limit
<1> DEFINE S == {i \in Nat \ {0} : p <= i * limit}
<1>1. p <= p * limit
  <2>1. limit - 1 \in Nat /\ p * limit = p + p * (limit - 1) /\ p * (limit - 1) \in Nat
    OBVIOUS
  <2> QED
    BY <2>1
<1>2. p \in S /\ S \subseteq Nat
  BY <1>1
<1>3. PICK i \in S : \A j \in S : ~(<<j, i>> \in OpToRel(<, Nat))
  BY <1>2, WFMin, NatLessThanWellFounded
<1>4. \A j \in S : ~(j < i)
  BY <1>2, <1>3 DEF OpToRel
<1>5. i \in Nat \ {0} /\ p <= i * limit /\ i <= p
  BY <1>2, <1>4
<1>6. (i - 1) * limit = i * limit - limit /\ (i - 1) * limit \in Nat /\ i * limit \in Nat
  BY <1>5
<1>7. (i - 1) * limit < p
  <2>1. CASE i = 1
    BY <2>1
  <2>2. CASE i # 1
    <3>1. i - 1 \in Nat \ {0} /\ i - 1 < i
      BY <1>5, <2>2
    <3>2. ~(p <= (i - 1) * limit)
      BY <1>4, <3>1
    <3> QED
      BY <1>6, <3>2
  <2> QED
    BY <2>1, <2>2
<1> HIDE DEF S
<1> QED
  BY <1>5, <1>6, <1>7

LEMMA OnePage ==
    ASSUME NEW limit \in Nat, NEW p \in Nat, NEW i \in Nat \ {0}, NEW j \in Nat \ {0},
           (i - 1) * limit < p, p <= (i - 1) * limit + limit,
           (j - 1) * limit < p, p <= (j - 1) * limit + limit
    PROVE  i = j
<1>1. ASSUME NEW a \in Nat \ {0}, NEW b \in Nat \ {0}, a < b
      PROVE  (a - 1) * limit + limit <= (b - 1) * limit
  <2>1. PICK d \in Nat : b = a + d /\ d >= 1
    <3>1. b - a \in Nat /\ b = a + (b - a) /\ b - a >= 1
      BY <1>1
    <3> QED
      BY <3>1
  <2>2. (b - 1) * limit = (a - 1) * limit + limit + (d - 1) * limit
    BY <2>1
  <2>3. d - 1 \in Nat /\ (d - 1) * limit \in Nat /\ (a - 1) * limit \in Nat
    BY <2>1
  <2> QED
    BY <2>2, <2>3
<1>2. (i - 1) * limit \in Nat /\ (j - 1) * limit \in Nat
  OBVIOUS
<1>3. ~(i < j) /\ ~(j < i)
  <2>1. CASE i < j
    BY <1>1, <1>2, <2>1
  <2>2. CASE j < i
    BY <1>1, <1>2, <2>2
  <2> QED
    BY <2>1, <2>2
<1> QED
  BY <1>3

\* Every member is shown, and at one place.
ShownOnce(shown, members) ==
    /\ {x.id : x \in shown} = members
    /\ \A x, y \in shown : x.id = y.id => x = y

\* The pages of a list, of which F is left.
ArePages(page, s, F, limit) ==
    \A i \in 1 .. Cardinality(StoredIds) :
        /\ IsInjective(page[i])
        /\ Range(page[i]) = Range(Slice(s, (i - 1) * limit, limit)) \cap F

\* Pages cut from a list, and filtered then, show what the filter leaves of the list, once.
LEMMA PagesOfList ==
    ASSUME NEW s \in Seq(StoredIds), IsInjective(s), NEW limit \in Nat \ {0}, NEW F,
           NEW page, ArePages(page, s, F, limit),
           NEW shown, shown = UNION {PlacesOn(page[i], i) : i \in 1 .. Cardinality(StoredIds)}
    PROVE  ShownOnce(shown, Range(s) \cap F)
<1> DEFINE N == Cardinality(StoredIds)
<1>1. /\ DOMAIN s = 1 .. Len(s) /\ Len(s) \in Nat /\ N \in Nat /\ Len(s) <= N
  <2>1. DOMAIN s = 1 .. Len(s) /\ Len(s) \in Nat /\ s \in [1 .. Len(s) -> StoredIds]
    BY LenProperties
  <2>2. s \in Injection(1 .. Len(s), StoredIds)
    BY <2>1 DEF Injection, IsInjective
  <2>3. Cardinality(1 .. Len(s)) <= N
    BY <2>2, FS_Injection, ListAssumption
  <2>4. 1 \in Int /\ Len(s) \in Int
    BY <2>1
  <2>5. Cardinality(1 .. Len(s)) = IF 1 > Len(s) THEN 0 ELSE Len(s) - 1 + 1
    BY <2>4, FS_Interval
  <2>6. N \in Nat
    BY FS_CardinalityType, ListAssumption
  <2> HIDE DEF N
  <2> QED
    BY <2>1, <2>3, <2>5, <2>6
<1>0. /\ limit \in Nat
      /\ \A i \in 1 .. N : /\ IsInjective(page[i])
                          /\ Range(page[i]) = Range(Slice(s, (i - 1) * limit, limit)) \cap F
  BY DEF ArePages
<1>2. \A i \in 1 .. N : \A e : e \in Range(page[i]) <=>
          e \in F /\ \E p \in 1 .. Len(s) : /\ (i - 1) * limit < p
                                            /\ p <= (i - 1) * limit + limit
                                            /\ s[p] = e
  <2> SUFFICES ASSUME NEW i \in 1 .. N, NEW e
               PROVE  e \in Range(page[i]) <=>
                        e \in F /\ \E p \in 1 .. Len(s) : /\ (i - 1) * limit < p
                                                          /\ p <= (i - 1) * limit + limit
                                                          /\ s[p] = e
    OBVIOUS
  <2>1. i - 1 \in Nat /\ (i - 1) * limit \in Nat
    OBVIOUS
  <2>2. PICK offset \in Nat : offset = (i - 1) * limit
    BY <2>1
  <2>3. \A x : x \in Range(Slice(s, offset, limit)) <=>
            \E p \in DOMAIN s : offset < p /\ p <= offset + limit /\ s[p] = x
    BY <1>0, SliceHas
  <2>4. Range(page[i]) = Range(Slice(s, offset, limit)) \cap F
    BY <1>0, <2>2
  <2> QED
    BY <1>1, <2>2, <2>3, <2>4
<1>3. \A x \in shown : \E i \in 1 .. N : \E k \in DOMAIN page[i] :
          x = [page |-> i, place |-> k, id |-> page[i][k]]
  BY DEF PlacesOn
<1>4. \A i \in 1 .. N : \A k \in DOMAIN page[i] :
          [page |-> i, place |-> k, id |-> page[i][k]] \in shown
  BY DEF PlacesOn
<1>5. ASSUME NEW x \in shown PROVE x.id \in Range(s) \cap F
  <2>0. PICK i \in 1 .. N : \E k \in DOMAIN page[i] : x = [page |-> i, place |-> k, id |-> page[i][k]]
    BY <1>3
  <2>1. PICK k \in DOMAIN page[i] : x = [page |-> i, place |-> k, id |-> page[i][k]]
    BY <2>0
  <2>2. x.id \in Range(page[i])
    BY <2>1 DEF Range
  <2> QED
    BY <1>1, <1>2, <2>2 DEF Range
<1>6. ASSUME NEW e \in Range(s) \cap F PROVE \E x \in shown : x.id = e
  <2>1. PICK p \in 1 .. Len(s) : s[p] = e
    BY <1>1 DEF Range
  <2>0. p \in Nat \ {0}
    BY <1>1
  <2>2. PICK i \in 1 .. p : (i - 1) * limit < p /\ p <= (i - 1) * limit + limit
    BY <2>0, SomePage
  <2>3. i \in 1 .. N
    BY <1>1
  <2>4. e \in Range(page[i])
    BY <1>2, <2>1, <2>2, <2>3
  <2>5. PICK k \in DOMAIN page[i] : page[i][k] = e
    BY <2>4 DEF Range
  <2>6. PICK x : x = [page |-> i, place |-> k, id |-> page[i][k]]
    OBVIOUS
  <2>7. x \in shown /\ x.id = e
    BY <1>4, <2>3, <2>5, <2>6
  <2> QED
    BY <2>7
<1>7. ASSUME NEW x \in shown, NEW y \in shown, x.id = y.id PROVE x = y
  <2>a. PICK i \in 1 .. N : \E k \in DOMAIN page[i] : x = [page |-> i, place |-> k, id |-> page[i][k]]
    BY <1>3
  <2>1. PICK k \in DOMAIN page[i] : x = [page |-> i, place |-> k, id |-> page[i][k]]
    BY <2>a
  <2>b. PICK j \in 1 .. N : \E l \in DOMAIN page[j] : y = [page |-> j, place |-> l, id |-> page[j][l]]
    BY <1>3
  <2>2. PICK l \in DOMAIN page[j] : y = [page |-> j, place |-> l, id |-> page[j][l]]
    BY <2>b
  <2>3. page[i][k] = x.id /\ page[j][l] = x.id
    BY <1>7, <2>1, <2>2
  <2>4. x.id \in Range(page[i]) /\ x.id \in Range(page[j])
    BY <2>3 DEF Range
  <2>5. PICK p \in 1 .. Len(s) : (i - 1) * limit < p /\ p <= (i - 1) * limit + limit /\ s[p] = x.id
    BY <1>2, <2>4
  <2>6. PICK r \in 1 .. Len(s) : (j - 1) * limit < r /\ r <= (j - 1) * limit + limit /\ s[r] = x.id
    BY <1>2, <2>4
  <2>7. p = r
    BY <1>1, <2>5, <2>6 DEF IsInjective
  <2>8. i \in Nat \ {0} /\ j \in Nat \ {0} /\ limit \in Nat /\ p \in Nat
    BY <1>1
  <2>9. i = j
    BY <2>5, <2>6, <2>7, <2>8, OnePage
  <2>10. k = l
    BY <1>0, <2>3, <2>9 DEF IsInjective
  <2> QED
    BY <2>1, <2>2, <2>9, <2>10
<1> QED
  BY <1>5, <1>6, <1>7 DEF ShownOnce

-----------------------------------------------------------------------------
\* What the pages are cut from: the sessions as last updated, and as made.
ListsKept ==
    /\ lTouched \in Seq(StoredIds) /\ IsInjective(lTouched)
    /\ lMade \in Seq(StoredIds) /\ IsInjective(lMade)
    /\ Listed \subseteq Range(lMade)

LEMMA NewestFirstIs ==
    ASSUME ListsKept
    PROVE  /\ NewestFirst \in Seq(StoredIds) /\ IsInjective(NewestFirst)
           /\ Range(NewestFirst) = Listed /\ Listed \subseteq StoredIds
<1>1. lTouched \in Seq(StoredIds) /\ IsInjective(lTouched) /\ Range(lTouched) = Listed
  BY DEF ListsKept, Listed
<1>2. Listed \subseteq StoredIds
  <2>1. \A i \in DOMAIN lTouched : lTouched[i] \in StoredIds
    BY <1>1, LenProperties, ElementOfSeq
  <2> QED
    BY <2>1 DEF Listed, Range
<1> QED
  BY <1>1, <1>2, ReverseIs DEF NewestFirst

\* A filter takes ids, whatever the query.
LEMMA MatchingIs ==
    ASSUME NEW q
    PROVE  /\ OfOwner(q) \subseteq StoredIds /\ OfCompany(q) \subseteq StoredIds
           /\ OfAgent(q) \subseteq StoredIds
           /\ Matching(q) = OfOwner(q) \cap OfCompany(q) \cap OfAgent(q)
BY DEF OfOwner, OfCompany, OfAgent, Matching

\* The pages of a query are cut from s, and F of each is shown.
CutFrom(s, F, q, limit) ==
    \A offset \in Nat : /\ IsInjective(Page(q, offset, limit))
                        /\ Range(Page(q, offset, limit)) = Range(Slice(s, offset, limit)) \cap F

\* The pages show what was asked for, each once.
Covered(q, limit) == ShownOnce(Shown(q, limit), Asked(q))

LEMMA PagesShown ==
    ASSUME NEW s \in Seq(StoredIds), IsInjective(s), NEW limit \in Nat \ {0}, NEW F, NEW q,
           CutFrom(s, F, q, limit), Range(s) \cap F = Asked(q)
    PROVE  Covered(q, limit)
<1> DEFINE N == Cardinality(StoredIds)
           page == [i \in 1 .. N |-> Page(q, (i - 1) * limit, limit)]
<1>1. \A i \in 1 .. N : page[i] = Page(q, (i - 1) * limit, limit) /\ (i - 1) * limit \in Nat
  OBVIOUS
<1>2. Shown(q, limit) = UNION {PlacesOn(page[i], i) : i \in 1 .. N}
  BY <1>1 DEF Shown
<1> HIDE DEF page
<1>3. ArePages(page, s, F, limit)
  <2> SUFFICES ASSUME NEW i \in 1 .. N
               PROVE  /\ IsInjective(page[i])
                      /\ Range(page[i]) = Range(Slice(s, (i - 1) * limit, limit)) \cap F
    BY DEF ArePages
  <2>1. PICK offset \in Nat : offset = (i - 1) * limit /\ page[i] = Page(q, offset, limit)
    BY <1>1
  <2>2. /\ IsInjective(Page(q, offset, limit))
        /\ Range(Page(q, offset, limit)) = Range(Slice(s, offset, limit)) \cap F
    BY DEF CutFrom
  <2> QED
    BY <2>1, <2>2
<1>4. PICK shown : shown = Shown(q, limit)
  OBVIOUS
<1>5. /\ s \in Seq(StoredIds) /\ IsInjective(s) /\ limit \in Nat \ {0}
      /\ shown = UNION {PlacesOn(page[i], i) : i \in 1 .. Cardinality(StoredIds)}
      /\ ArePages(page, s, F, limit)
  BY <1>2, <1>3, <1>4
<1>6. ShownOnce(shown, Range(s) \cap F)
  BY <1>5, PagesOfList
<1> QED
  BY <1>4, <1>6 DEF Covered

LEMMA PlainlyCut ==
    ASSUME NEW s \in Seq(StoredIds), IsInjective(s), NEW limit \in Nat \ {0}, NEW q,
           \A offset \in Nat : Page(q, offset, limit) = Slice(s, offset, limit)
    PROVE  CutFrom(s, StoredIds, q, limit)
<1> SUFFICES ASSUME NEW offset \in Nat
             PROVE  /\ IsInjective(Page(q, offset, limit))
                    /\ Range(Page(q, offset, limit)) = Range(Slice(s, offset, limit)) \cap StoredIds
  BY DEF CutFrom
<1>1. PICK x : x = Slice(s, offset, limit) /\ x = Page(q, offset, limit)
  OBVIOUS
<1>2. IsInjective(x) /\ Range(x) \subseteq StoredIds
  BY <1>1, SliceKept
<1> QED
  BY <1>1, <1>2

LEMMA FilteredAfter ==
    ASSUME NEW s \in Seq(StoredIds), IsInjective(s), NEW limit \in Nat \ {0}, NEW q, NEW F,
           \A offset \in Nat : Page(q, offset, limit) = Only(Slice(s, offset, limit), F)
    PROVE  CutFrom(s, F, q, limit)
<1> SUFFICES ASSUME NEW offset \in Nat
             PROVE  /\ IsInjective(Page(q, offset, limit))
                    /\ Range(Page(q, offset, limit)) = Range(Slice(s, offset, limit)) \cap F
  BY DEF CutFrom
<1>1. PICK x : x = Slice(s, offset, limit) /\ Page(q, offset, limit) = Only(x, F)
  OBVIOUS
<1>2. x \in Seq(StoredIds) /\ IsInjective(x)
  BY <1>1, SliceKept
<1>3. IsInjective(Only(x, F)) /\ Range(Only(x, F)) = Range(x) \cap F
  BY <1>2, OnlyIs
<1> QED
  BY <1>1, <1>3

\* memory, and redis without an owner: filtered, then cut.
LEMMA MemoryPages ==
    ASSUME ListsKept, NEW q, NEW limit \in Nat \ {0},
           \A offset \in Nat : Page(q, offset, limit) = MemoryPage(q, offset, limit)
    PROVE  Covered(q, limit)
<1> DEFINE s == Only(NewestFirst, Matching(q))
<1>1. s \in Seq(StoredIds) /\ IsInjective(s) /\ Range(s) = Listed \cap Matching(q)
  BY NewestFirstIs, OnlyIs
<1>2. \A offset \in Nat : Page(q, offset, limit) = Slice(s, offset, limit)
  BY DEF MemoryPage
<1> HIDE DEF s
<1>3. CutFrom(s, StoredIds, q, limit)
  BY <1>1, <1>2, PlainlyCut
<1>4. Range(s) \cap StoredIds = Asked(q)
  BY <1>1, NewestFirstIs DEF Asked
<1> QED
  BY <1>1, <1>3, <1>4, PagesShown

LEMMA FilePages ==
    ASSUME ListsKept, NEW q, NEW limit \in Nat \ {0}, lBackend = "file"
    PROVE  Covered(q, limit)
<1> DEFINE files == Only(NewestFirst, OfOwner(q))
           s == Only(files, OfCompany(q) \cap OfAgent(q))
<1>1. files \in Seq(StoredIds) /\ IsInjective(files) /\ Range(files) = Listed \cap OfOwner(q)
  BY NewestFirstIs, OnlyIs
<1>2. \A offset \in Nat : Page(q, offset, limit) = Slice(s, offset, limit)
  BY DEF Page, FilePage
<1> HIDE DEF files
<1>3. /\ s \in Seq(StoredIds) /\ IsInjective(s)
      /\ Range(s) = Range(files) \cap (OfCompany(q) \cap OfAgent(q))
  BY <1>1, OnlyIs
<1> HIDE DEF s
<1>4. CutFrom(s, StoredIds, q, limit)
  BY <1>2, <1>3, PlainlyCut
<1>5. Range(s) \cap StoredIds = Asked(q)
  BY <1>1, <1>3, NewestFirstIs, MatchingIs DEF Asked
<1> QED
  BY <1>3, <1>4, <1>5, PagesShown

LEMMA PostgresPages ==
    ASSUME ListsKept, NEW q, NEW limit \in Nat \ {0}, lBackend = "postgresql"
    PROVE  Covered(q, limit)
<1> DEFINE s == Only(NewestFirst, OfOwner(q) \cap OfAgent(q))
<1>1. /\ s \in Seq(StoredIds) /\ IsInjective(s)
      /\ Range(s) = Listed \cap (OfOwner(q) \cap OfAgent(q))
  BY NewestFirstIs, OnlyIs
<1>2. \A offset \in Nat : Page(q, offset, limit) = Only(Slice(s, offset, limit), OfCompany(q))
  BY DEF Page, PostgresPage, SqlPage
<1> HIDE DEF s
<1>3. CutFrom(s, OfCompany(q), q, limit)
  BY <1>1, <1>2, FilteredAfter
<1>4. Range(s) \cap OfCompany(q) = Asked(q)
  BY <1>1, MatchingIs DEF Asked
<1> QED
  BY <1>1, <1>3, <1>4, PagesShown

\* base_sql, whatever order the rows lie in.
LEMMA BaseSqlShows ==
    ASSUME ListsKept, NEW q, NEW limit \in Nat \ {0}, NEW page \in BaseSqlPages(q, 0, limit)
    PROVE  /\ IsInjective(page) /\ Range(page) \subseteq Asked(q)
           /\ Cardinality(BaseSqlRows(q)) <= limit => Range(page) = Asked(q)
<1>1. PICK R : R = BaseSqlRows(q)
  OBVIOUS
<1>2. R = Listed \cap OfOwner(q) \cap OfCompany(q) /\ R \subseteq StoredIds
  BY <1>1, NewestFirstIs DEF BaseSqlRows
<1>3. IsFiniteSet(R) /\ Cardinality(R) \in Nat
  BY <1>2, FS_Subset, FS_CardinalityType, ListAssumption
<1>4. PICK n \in Nat : n = Cardinality(R)
  BY <1>3
<1>5. PICK rows \in SetToSeqs(R) :
        page = Only(NewestFirst, Range(Slice(rows, 0, limit)) \cap OfAgent(q))
  BY <1>1 DEF BaseSqlPages
<1>6. rows \in [1 .. n -> R] /\ \A i, j \in 1 .. n : i # j => rows[i] # rows[j]
  BY <1>4, <1>5 DEF SetToSeqs
<1>7. rows \in Seq(R) /\ IsInjective(rows) /\ DOMAIN rows = 1 .. n
  BY <1>6 DEF IsInjective
<1>8. Range(rows) = R
  <2>1. 1 \in Int /\ n \in Int
    OBVIOUS
  <2>2. Cardinality(1 .. n) = IF 1 > n THEN 0 ELSE n - 1 + 1
    BY <2>1, FS_Interval
  <2>3. Cardinality(1 .. n) = Cardinality(R)
    BY <1>4, <2>2
  <2>4. rows \in Injection(1 .. n, R)
    BY <1>6, <1>7 DEF Injection
  <2>5. rows \in Surjection(1 .. n, R)
    BY <1>3, <2>3, <2>4, FS_Injection
  <2>6. \A e \in R : \E i \in 1 .. n : rows[i] = e
    BY <2>5 DEF Surjection
  <2> QED
    BY <1>6, <2>6 DEF Range
<1>9. PICK cut : cut = Range(Slice(rows, 0, limit))
  OBVIOUS
<1>10. \A e : e \in cut <=> \E p \in 1 .. n : 0 < p /\ p <= 0 + limit /\ rows[p] = e
  BY <1>7, <1>9, SliceHas
<1>11. cut \subseteq R /\ (n <= limit => cut = R)
  <2>1. \A p \in 1 .. n : rows[p] \in R /\ 0 < p /\ (n <= limit => p <= 0 + limit)
    BY <1>6
  <2>2. \A e \in R : \E p \in 1 .. n : rows[p] = e
    BY <1>7, <1>8 DEF Range
  <2> QED
    BY <1>10, <2>1, <2>2
<1>12. IsInjective(page) /\ Range(page) = Listed \cap (cut \cap OfAgent(q))
  <2>1. NewestFirst \in Seq(StoredIds) /\ IsInjective(NewestFirst) /\ Range(NewestFirst) = Listed
    BY NewestFirstIs
  <2>2. PICK S : S = cut \cap OfAgent(q)
    OBVIOUS
  <2>3. page = Only(NewestFirst, S)
    BY <1>5, <1>9, <2>2
  <2> QED
    BY <2>1, <2>2, <2>3, OnlyIs
<1>13. R \cap OfAgent(q) = Asked(q)
  BY <1>2, MatchingIs DEF Asked
<1> QED
  BY <1>1, <1>2, <1>4, <1>11, <1>12, <1>13

\* With an owner the index of redis is paged, and it holds every session of the owner's.
LEMMA RedisPages ==
    ASSUME ListsKept, NEW q, NEW limit \in Nat \ {0}, lBackend = "redis", "owner" \in q,
           Asked(q) \subseteq lIndex
    PROVE  Covered(q, limit)
<1> DEFINE made == Only(lMade, lIndex \ Others)
<1>1. /\ made \in Seq(StoredIds) /\ IsInjective(made)
      /\ Range(made) = Range(lMade) \cap (lIndex \ Others)
  BY OnlyIs DEF ListsKept
<1>2. Indexed = Reverse(made)
  BY DEF Indexed
<1> HIDE DEF made
<1>3. /\ Indexed \in Seq(StoredIds) /\ IsInjective(Indexed)
      /\ Range(Indexed) = Range(lMade) \cap (lIndex \ Others)
  BY <1>1, <1>2, ReverseIs
<1>4. \A offset \in Nat : Page(q, offset, limit) =
                              Only(Slice(Indexed, offset, limit), Listed \cap Matching(q))
  BY DEF Page, RedisPage
<1>5. CutFrom(Indexed, Listed \cap Matching(q), q, limit)
  BY <1>3, <1>4, FilteredAfter
<1>6. Matching(q) \subseteq StoredIds \ Others
  BY DEF Matching, OfOwner
<1>7. Range(Indexed) \cap (Listed \cap Matching(q)) = Asked(q)
  BY <1>3, <1>6 DEF Asked, ListsKept
<1> QED
  BY <1>3, <1>5, <1>7, PagesShown

\* The first rows of a list are a part of it, and a page of the list lies in them.
LEMMA FirstRows ==
    ASSUME NEW T, NEW s \in Seq(T), NEW offset \in Nat, NEW limit \in Nat
    PROVE  /\ IsPart(Slice(s, 0, offset + limit), s)
           /\ Range(Slice(Slice(s, 0, offset + limit), offset, limit)) = Range(Slice(s, offset, limit))
<1> DEFINE n == offset + limit
           m == IF n < Len(s) THEN n ELSE Len(s)
           first == Slice(s, 0, n)
<1>1. /\ n \in Nat /\ Len(s) \in Nat /\ m \in 0 .. Len(s) /\ DOMAIN s = 1 .. Len(s)
      /\ \A p \in 1 .. Len(s) : p <= n <=> p \in 1 .. m
  BY LenProperties
<1>2. first = SubSeq(s, 1, m)
  <2>1. 0 + 1 = 1 /\ 0 + n = n
    BY <1>1
  <2> QED
    BY <2>1 DEF Slice
<1>3. IsPart(first, s)
  <2> HIDE DEF m, first
  <2> QED
    BY <1>1, <1>2, BeginningIsPart
<1>4. first \in Seq(T)
  BY <1>1, SliceIs
<1>5. DOMAIN first = 1 .. m /\ \A p \in 1 .. m : first[p] = s[p]
  <2> HIDE DEF m
  <2>1. SubSeq(s, 1, m) = [p \in 1 .. m |-> s[p]]
    BY <1>1
  <2> QED
    BY <1>2, <2>1
<1> HIDE DEF first, n, m
<1>6. \A e : e \in Range(Slice(first, offset, limit)) <=>
                \E p \in DOMAIN first : offset < p /\ p <= offset + limit /\ first[p] = e
  BY <1>4, SliceHas
<1>7. \A e : e \in Range(Slice(s, offset, limit)) <=>
                \E p \in DOMAIN s : offset < p /\ p <= offset + limit /\ s[p] = e
  BY SliceHas
<1>8. \A p : p \in DOMAIN first => p \in DOMAIN s /\ first[p] = s[p]
  BY <1>1, <1>5
<1>9. \A p \in DOMAIN s : p <= offset + limit => p \in DOMAIN first
  BY <1>1, <1>5 DEF n
<1>10. Range(Slice(first, offset, limit)) = Range(Slice(s, offset, limit))
  <2>1. ASSUME NEW e
        PROVE  e \in Range(Slice(first, offset, limit)) <=> e \in Range(Slice(s, offset, limit))
    BY <1>6, <1>7, <1>8, <1>9
  <2> QED
    BY <2>1
<1> QED
  BY <1>3, <1>10 DEF first, n

\* An owner's database is read as far as the page goes, and what it gave is sorted again.
LEMMA SqlitePages ==
    ASSUME ListsKept, NEW q, NEW limit \in Nat \ {0}, lBackend = "sqlite",
           "owner" \in q, "company" \notin q
    PROVE  Covered(q, limit)
<1> DEFINE rows == Only(NewestFirst, StoredIds \ Others)
           s == Only(rows, OfOwner(q) \cap OfAgent(q))
           first(offset) == Slice(s, 0, offset + limit)
<1>1. /\ rows \in Seq(StoredIds) /\ IsInjective(rows) /\ IsPart(rows, NewestFirst)
      /\ Range(rows) = Listed \cap (StoredIds \ Others)
  BY NewestFirstIs, OnlyIs
<1>2. \A offset \in Nat :
          Page(q, offset, limit) =
              Slice(Only(NewestFirst, Range(Only(first(offset), OfCompany(q)))), offset, limit)
  BY DEF Page, SqlitePage, SqlPage
<1> HIDE DEF rows
<1>3. /\ s \in Seq(StoredIds) /\ IsInjective(s) /\ IsPart(s, rows)
      /\ Range(s) = Range(rows) \cap (OfOwner(q) \cap OfAgent(q))
  BY <1>1, OnlyIs
<1> HIDE DEF s
<1>4. IsPart(s, NewestFirst)
  BY <1>1, <1>3, NewestFirstIs, PartOfPart
<1>5. OfCompany(q) = StoredIds
  BY DEF OfCompany
<1>6. ASSUME NEW offset \in Nat
      PROVE  /\ IsInjective(Page(q, offset, limit))
             /\ Range(Page(q, offset, limit)) = Range(Slice(s, offset, limit)) \cap StoredIds
  <2>1. PICK x : x = first(offset)
    OBVIOUS
  <2>2. limit \in Nat /\ offset + limit \in Nat
    OBVIOUS
  <2>3. IsPart(x, s) /\ Range(Slice(x, offset, limit)) = Range(Slice(s, offset, limit))
    BY <1>3, <2>1, <2>2, FirstRows
  <2>4. IsPart(x, NewestFirst)
    BY <1>4, <2>3, NewestFirstIs, PartOfPart
  <2>5. x \in Seq(StoredIds) /\ IsInjective(x)
    BY <1>3, <2>3, PartIs
  <2>6. \A i \in DOMAIN x : x[i] \in StoredIds
    BY <2>5, LenProperties, ElementOfSeq
  <2>7. Range(Only(x, OfCompany(q))) = Range(x)
    <3>1. Range(Only(x, OfCompany(q))) = Range(x) \cap OfCompany(q)
      BY <2>5, OnlyIs
    <3>2. Range(x) \subseteq StoredIds
      BY <2>6 DEF Range
    <3> QED
      BY <1>5, <3>1, <3>2
  <2>8. Only(NewestFirst, Range(x)) = x
    BY <2>4, NewestFirstIs, PartIsOnly
  <2>9. Page(q, offset, limit) = Slice(x, offset, limit)
    BY <1>2, <2>1, <2>7, <2>8
  <2>10. IsInjective(Slice(x, offset, limit)) /\ Range(Slice(x, offset, limit)) \subseteq StoredIds
    BY <2>5, SliceKept
  <2> QED
    BY <2>3, <2>9, <2>10
<1>7. CutFrom(s, StoredIds, q, limit)
  BY <1>6 DEF CutFrom
<1>8. Range(s) \cap StoredIds = Asked(q)
  <2>1. OfOwner(q) = StoredIds \ Others
    BY DEF OfOwner
  <2> QED
    BY <1>1, <1>3, <1>5, <2>1, MatchingIs, NewestFirstIs DEF Asked
<1> QED
  BY <1>3, <1>7, <1>8, PagesShown

-----------------------------------------------------------------------------
(***************************************************************************)
(* What every write keeps.                                                 *)
(***************************************************************************)
LEMMA LeftOutIs ==
    ASSUME NEW s \in Seq(StoredIds), IsInjective(s), NEW id
    PROVE  /\ LeftOut(s, id) \in Seq(StoredIds) /\ IsInjective(LeftOut(s, id))
           /\ Range(LeftOut(s, id)) = Range(s) \ {id}
<1>1. \A i \in DOMAIN s : s[i] \in StoredIds
  BY LenProperties, ElementOfSeq
<1>2. Range(s) \subseteq StoredIds
  BY <1>1 DEF Range
<1>3. PICK S : S = StoredIds \ {id}
  OBVIOUS
<1>4. /\ Only(s, S) \in Seq(StoredIds) /\ IsInjective(Only(s, S))
      /\ Range(Only(s, S)) = Range(s) \cap S
  BY OnlyIs
<1> QED
  BY <1>2, <1>3, <1>4 DEF LeftOut

LEMMA AppendIs ==
    ASSUME NEW s \in Seq(StoredIds), IsInjective(s), NEW id \in StoredIds, id \notin Range(s)
    PROVE  /\ Append(s, id) \in Seq(StoredIds) /\ IsInjective(Append(s, id))
           /\ Range(Append(s, id)) = Range(s) \cup {id}
<1> DEFINE x == Append(s, id)
<1>1. /\ x \in Seq(StoredIds) /\ Len(x) = Len(s) + 1 /\ Len(s) \in Nat
      /\ \A i \in 1 .. Len(s) : x[i] = s[i]
      /\ x[Len(s) + 1] = id
  BY AppendProperties, LenProperties
<1>2. DOMAIN s = 1 .. Len(s) /\ DOMAIN x = 1 .. Len(s) + 1
  BY <1>1, LenProperties
<1> HIDE DEF x
<1>3. \A i \in DOMAIN x : i \in DOMAIN s \/ i = Len(s) + 1
  BY <1>1, <1>2
<1>4. \A i \in DOMAIN s : i \in DOMAIN x /\ x[i] = s[i] /\ s[i] # id
  BY <1>1, <1>2 DEF Range
<1>5. Len(s) + 1 \in DOMAIN x
  BY <1>1, <1>2
<1>6. IsInjective(x)
  BY <1>1, <1>3, <1>4 DEF IsInjective
<1>7. Range(x) = Range(s) \cup {id}
  BY <1>1, <1>3, <1>4, <1>5 DEF Range
<1> QED
  BY <1>1, <1>6, <1>7 DEF x

LEMMA TailIs ==
    ASSUME NEW s \in Seq(StoredIds), IsInjective(s), Len(s) > 0
    PROVE  /\ Tail(s) \in Seq(StoredIds) /\ IsInjective(Tail(s))
           /\ Range(Tail(s)) \subseteq Range(s)
<1> DEFINE x == Tail(s)
<1>1. Len(s) \in Nat /\ DOMAIN s = 1 .. Len(s) /\ s # <<>>
  BY LenProperties, EmptySeq
<1>2. /\ x \in Seq(StoredIds) /\ Len(x) = Len(s) - 1
      /\ \A i \in 1 .. Len(x) : x[i] = s[i + 1]
  BY <1>1, HeadTailProperties
<1>3. DOMAIN x = 1 .. Len(x)
  BY <1>2, LenProperties
<1> HIDE DEF x
<1>4. \A i \in DOMAIN x : i \in Nat /\ i + 1 \in DOMAIN s /\ x[i] = s[i + 1]
  BY <1>1, <1>2, <1>3
<1>5. Range(x) \subseteq Range(s)
  BY <1>4 DEF Range
<1>6. ASSUME NEW i \in DOMAIN x, NEW j \in DOMAIN x, x[i] = x[j] PROVE i = j
  <2>1. i + 1 = j + 1
    BY <1>4, <1>6 DEF IsInjective
  <2> QED
    BY <1>4, <2>1
<1>7. IsInjective(x)
  BY <1>6 DEF IsInjective
<1> QED
  BY <1>2, <1>5, <1>7 DEF x

\* A session deleted or past its time is stored no more, and its place among the made stays.
LEMMA RemovedKeeps ==
    ASSUME ListsKept, NEW id, lTouched' = LeftOut(lTouched, id), lMade' = lMade
    PROVE  ListsKept' /\ Listed' = Listed \ {id}
<1>1. /\ lTouched' \in Seq(StoredIds) /\ IsInjective(lTouched')
      /\ Range(lTouched') = Range(lTouched) \ {id}
  BY LeftOutIs DEF ListsKept
<1>2. Listed' = Listed \ {id}
  BY <1>1 DEF Listed
<1> QED
  BY <1>1, <1>2 DEF ListsKept

\* A session saved is the one last updated, and made now unless it was stored.
LEMMA StoredKeeps ==
    ASSUME ListsKept, NEW id \in StoredIds, Stored(id)
    PROVE  ListsKept' /\ Listed' \subseteq Listed \cup {id}
<1> DEFINE left == LeftOut(lTouched, id)
           touched == Append(left, id)
           made == Append(LeftOut(lMade, id), id)
<1>1. /\ left \in Seq(StoredIds) /\ IsInjective(left)
      /\ Range(left) = Range(lTouched) \ {id}
  BY LeftOutIs DEF ListsKept
<1>2. /\ touched \in Seq(StoredIds) /\ IsInjective(touched)
      /\ Range(touched) = Range(lTouched) \cup {id}
  BY <1>1, AppendIs
<1>3. Range(touched) = Listed \cup {id} /\ Len(touched) \in Nat
  BY <1>2, LenProperties DEF Listed
<1>4. lTouched' = IF lBackend = "memory" /\ Len(touched) > Keep THEN Tail(touched) ELSE touched
  BY DEF Stored, EvictIfNeeded
<1> HIDE DEF left, touched
<1>5. /\ lTouched' \in Seq(StoredIds) /\ IsInjective(lTouched')
      /\ Range(lTouched') \subseteq Listed \cup {id}
  <2>1. CASE lTouched' = touched
    BY <1>2, <1>3, <2>1
  <2>2. CASE lTouched' # touched
    <3>1. lTouched' = Tail(touched) /\ Len(touched) > Keep
      BY <1>4, <2>2
    <3>2. Len(touched) > 0
      BY <1>3, <3>1, ListAssumption
    <3>3. /\ Tail(touched) \in Seq(StoredIds) /\ IsInjective(Tail(touched))
          /\ Range(Tail(touched)) \subseteq Range(touched)
      BY <1>2, <3>2, TailIs
    <3> QED
      BY <1>3, <3>1, <3>3
  <2> QED
    BY <2>1, <2>2
<1>6. Listed' \subseteq Listed \cup {id}
  BY <1>5 DEF Listed
<1>7. /\ lMade' \in Seq(StoredIds) /\ IsInjective(lMade')
      /\ Listed \cup {id} \subseteq Range(lMade')
  <2>1. CASE id \in Listed
    BY <2>1 DEF Stored, ListsKept
  <2>2. CASE id \notin Listed
    <3>1. /\ LeftOut(lMade, id) \in Seq(StoredIds) /\ IsInjective(LeftOut(lMade, id))
          /\ Range(LeftOut(lMade, id)) = Range(lMade) \ {id}
      BY LeftOutIs DEF ListsKept
    <3>2. /\ made \in Seq(StoredIds) /\ IsInjective(made)
          /\ Range(made) = (Range(lMade) \ {id}) \cup {id}
      BY <3>1, AppendIs
    <3>3. lMade' = made
      BY <2>2 DEF Stored
    <3> QED
      BY <3>2, <3>3 DEF ListsKept
  <2> QED
    BY <2>1, <2>2
<1> QED
  BY <1>5, <1>6, <1>7 DEF ListsKept

-----------------------------------------------------------------------------
ListTask ==
    {NoTask} \cup [do : {"index", "unindex"}, id : StoredIds]
             \cup [do : {"delete"}, id : StoredIds, seen : BOOLEAN]

\* redis: a stored session is in its owner's index, about to be, or one that a delete
\* or a death crossed; and only such a one is taken out of the index while stored.
IndexKept ==
    lBackend = "redis" =>
        /\ \A id \in Listed \ lCrossed :
              id \in lIndex \/ \E w \in RedisClients : lAt[w] = [do |-> "index", id |-> id]
        /\ \A w \in RedisClients :
              lAt[w].do = "unindex" /\ lAt[w].id \in Listed => lAt[w].id \in lCrossed

ListInv ==
    /\ lBackend \in ListBackends /\ lAt \in [RedisClients -> ListTask]
    /\ ListsKept /\ IndexKept

LEMMA TaskIs ==
    ASSUME NEW t \in ListTask
    PROVE  /\ t.do \in {"nothing", "index", "unindex", "delete"}
           /\ t.do = "nothing" <=> t = NoTask
           /\ t.do \in {"index", "unindex"} => t = [do |-> t.do, id |-> t.id] /\ t.id \in StoredIds
           /\ t.do = "delete" => t.id \in StoredIds
BY DEF ListTask, NoTask

\* At the start nothing is stored.
LEMMA ListStarts == ListInit => ListInv
<1> SUFFICES ASSUME ListInit PROVE ListInv
  OBVIOUS
<1>1. <<>> \in Seq(StoredIds) /\ IsInjective(<<>>) /\ Range(<<>>) = {}
  BY EmptySeq DEF IsInjective, Range
<1>2. lTouched = <<>> /\ lMade = <<>> /\ lAt = [w \in RedisClients |-> NoTask]
  BY DEF ListInit
<1>3. ListsKept /\ Listed = {}
  BY <1>1, <1>2 DEF ListsKept, Listed
<1>4. \A w \in RedisClients : lAt[w] = NoTask /\ lAt[w].do = "nothing"
  BY <1>2 DEF NoTask
<1>5. IndexKept
  BY <1>3, <1>4 DEF IndexKept
<1>6. lAt \in [RedisClients -> ListTask]
  BY <1>2 DEF ListTask
<1> QED
  BY <1>3, <1>5, <1>6 DEF ListInit, ListInv

\* Every save, delete, step of the redis client and death keeps it.
LEMMA ListStep == ListInv /\ [ListNext]_listVars => ListInv'
<1> SUFFICES ASSUME ListInv, [ListNext]_listVars PROVE ListInv'
  OBVIOUS
<1> USE DEF ListInv
<1>0. \A w \in RedisClients : lAt[w] \in ListTask
  OBVIOUS
<1>1. ASSUME NEW id \in StoredIds, SaveRow(id) PROVE ListInv'
  <2>1. ListsKept' /\ lBackend' = lBackend /\ lBackend # "redis" /\ lAt' = lAt
    BY <1>1, StoredKeeps DEF SaveRow, OneWrite
  <2> QED
    BY <2>1 DEF IndexKept
<1>2. ASSUME NEW id \in StoredIds, DeleteRow(id) PROVE ListInv'
  <2>1. ListsKept' /\ lBackend' = lBackend /\ lBackend # "redis" /\ lAt' = lAt
    BY <1>2, RemovedKeeps DEF DeleteRow, OneWrite
  <2> QED
    BY <2>1 DEF IndexKept
<1>3. ASSUME NEW id \in StoredIds, Expire(id) PROVE ListInv'
  <2>1. ListsKept' /\ Listed' = Listed \ {id}
    BY <1>3, RemovedKeeps DEF Expire
  <2>2. lBackend' = lBackend /\ lAt' = lAt /\ lIndex' = lIndex /\ lCrossed' = lCrossed
    BY <1>3 DEF Expire
  <2> QED
    BY <2>1, <2>2 DEF IndexKept
<1>4. ASSUME NEW w \in RedisClients, NEW id \in StoredIds, RedisSet(w, id) PROVE ListInv'
  <2> DEFINE task == [do |-> "index", id |-> id]
  <2>1. ListsKept' /\ Listed' \subseteq Listed \cup {id}
    BY <1>4, StoredKeeps DEF RedisSet
  <2>2. /\ lBackend' = lBackend /\ lBackend = "redis" /\ lAt[w] = NoTask /\ lIndex' = lIndex
        /\ lAt' = [lAt EXCEPT ![w] = task]
        /\ lCrossed' = IF \E v \in RedisClients : lAt[v] = [do |-> "unindex", id |-> id]
                       THEN lCrossed \cup {id} ELSE lCrossed
    BY <1>4 DEF RedisSet, OneWrite
  <2>3. task \in ListTask /\ task.do = "index" /\ NoTask # [do |-> "index", id |-> id]
    BY DEF ListTask, NoTask
  <2>4. \A v \in RedisClients : lAt'[v] = IF v = w THEN task ELSE lAt[v]
    BY <2>2
  <2>5. lCrossed \subseteq lCrossed'
    BY <2>2
  <2>6. \A x : NoTask # [do |-> "index", id |-> x]
    BY DEF NoTask
  <2>7. ASSUME NEW x \in Listed' \ lCrossed'
        PROVE  x \in lIndex' \/ \E v \in RedisClients : lAt'[v] = [do |-> "index", id |-> x]
    <3>1. CASE x = id
      BY <2>4, <3>1
    <3>2. CASE x # id
      <4>1. x \in lIndex \/ \E v \in RedisClients : lAt[v] = [do |-> "index", id |-> x]
        BY <2>1, <2>2, <2>5, <3>2 DEF IndexKept
      <4> QED
        BY <2>2, <2>4, <2>6, <4>1
    <3> QED
      BY <3>1, <3>2
  <2>8. ASSUME NEW v \in RedisClients, lAt'[v].do = "unindex", lAt'[v].id \in Listed'
        PROVE  lAt'[v].id \in lCrossed'
    <3>1. v # w /\ lAt'[v] = lAt[v]
      BY <2>3, <2>4, <2>8
    <3>2. CASE lAt[v].id = id
      <4>1. lAt[v] = [do |-> "unindex", id |-> id]
        BY <1>0, <2>8, <3>1, <3>2, TaskIs
      <4> QED
        BY <2>2, <3>1, <3>2, <4>1
    <3>3. CASE lAt[v].id # id
      BY <2>1, <2>2, <2>5, <2>8, <3>1, <3>3 DEF IndexKept
    <3> QED
      BY <3>2, <3>3
  <2>9. IndexKept'
    BY <2>7, <2>8 DEF IndexKept
  <2> HIDE DEF task
  <2> QED
    BY <2>1, <2>2, <2>3, <2>9
<1>5. ASSUME NEW w \in RedisClients, NEW id \in StoredIds, RedisDeleteLoad(w, id) PROVE ListInv'
  <2> DEFINE task == [do |-> "delete", id |-> id, seen |-> id \in Listed]
  <2>1. /\ lBackend' = lBackend /\ lAt[w] = NoTask /\ lIndex' = lIndex /\ lCrossed' = lCrossed
        /\ lAt' = [lAt EXCEPT ![w] = task] /\ lTouched' = lTouched /\ lMade' = lMade
    BY <1>5 DEF RedisDeleteLoad, OneWrite
  <2>2. task \in ListTask /\ task.do = "delete"
    BY DEF ListTask
  <2>3. \A x : NoTask # [do |-> "index", id |-> x]
    BY DEF NoTask
  <2> HIDE DEF task
  <2>4. \A v \in RedisClients : lAt'[v] = IF v = w THEN task ELSE lAt[v]
    BY <2>1
  <2>5. ListsKept' /\ Listed' = Listed
    BY <2>1 DEF ListsKept, Listed
  <2>6. IndexKept'
    BY <2>1, <2>2, <2>3, <2>4, <2>5 DEF IndexKept
  <2> QED
    BY <2>1, <2>2, <2>5, <2>6
<1>6. ASSUME NEW w \in RedisClients, RedisIndex(w) PROVE ListInv'
  <2>1. /\ lBackend' = lBackend /\ lAt[w].do = "index" /\ lIndex' = lIndex \cup {lAt[w].id}
        /\ lCrossed' = lCrossed
        /\ lAt' = [lAt EXCEPT ![w] = NoTask] /\ lTouched' = lTouched /\ lMade' = lMade
    BY <1>6 DEF RedisIndex
  <2>2. NoTask \in ListTask /\ NoTask.do = "nothing"
    BY DEF ListTask, NoTask
  <2>3. \A v \in RedisClients : lAt'[v] = IF v = w THEN NoTask ELSE lAt[v]
    BY <2>1
  <2>4. ListsKept' /\ Listed' = Listed
    BY <2>1 DEF ListsKept, Listed
  <2>5. \A x : lAt[w] = [do |-> "index", id |-> x] => x \in lIndex'
    BY <2>1
  <2>6. IndexKept'
    BY <2>1, <2>2, <2>3, <2>4, <2>5 DEF IndexKept
  <2> QED
    BY <2>1, <2>2, <2>4, <2>6
<1>7. ASSUME NEW w \in RedisClients, RedisDelete(w) PROVE ListInv'
  <2> DEFINE task == [do |-> "unindex", id |-> lAt[w].id]
             next == IF lAt[w].seen THEN task ELSE NoTask
  <2>1. /\ lBackend' = lBackend /\ lAt[w].do = "delete" /\ lIndex' = lIndex
        /\ lCrossed' = lCrossed
        /\ lAt' = [lAt EXCEPT ![w] = next]
        /\ lTouched' = LeftOut(lTouched, lAt[w].id) /\ lMade' = lMade
    BY <1>7 DEF RedisDelete
  <2>2. next \in ListTask /\ (next.do = "unindex" => next.id = lAt[w].id)
    <3>1. lAt[w].id \in StoredIds
      BY <1>0, <2>1, TaskIs
    <3> QED
      BY <3>1 DEF ListTask, NoTask
  <2>3. ListsKept' /\ Listed' = Listed \ {lAt[w].id}
    BY <2>1, RemovedKeeps
  <2> HIDE DEF next
  <2>4. \A v \in RedisClients : lAt'[v] = IF v = w THEN next ELSE lAt[v]
    BY <2>1
  <2>5. \A x : lAt[w] # [do |-> "index", id |-> x]
    BY <2>1
  <2>6. IndexKept'
    BY <2>1, <2>2, <2>3, <2>4, <2>5 DEF IndexKept
  <2> QED
    BY <2>1, <2>2, <2>3, <2>6
<1>8. ASSUME NEW w \in RedisClients, RedisUnindex(w) PROVE ListInv'
  <2>1. /\ lBackend' = lBackend /\ lAt[w].do = "unindex" /\ lIndex' = lIndex \ {lAt[w].id}
        /\ lCrossed' = lCrossed
        /\ lAt' = [lAt EXCEPT ![w] = NoTask] /\ lTouched' = lTouched /\ lMade' = lMade
    BY <1>8 DEF RedisUnindex
  <2>2. NoTask \in ListTask /\ NoTask.do = "nothing"
    BY DEF ListTask, NoTask
  <2>3. \A v \in RedisClients : lAt'[v] = IF v = w THEN NoTask ELSE lAt[v]
    BY <2>1
  <2>4. ListsKept' /\ Listed' = Listed
    BY <2>1 DEF ListsKept, Listed
  <2>5. \A x : lAt[w] # [do |-> "index", id |-> x]
    BY <2>1
  <2>6. lBackend = "redis" /\ lAt[w].id \in Listed => lAt[w].id \in lCrossed
    BY <2>1 DEF IndexKept
  <2>7. IndexKept'
    BY <2>1, <2>2, <2>3, <2>4, <2>5, <2>6 DEF IndexKept
  <2> QED
    BY <2>1, <2>2, <2>4, <2>7
<1>9. ASSUME NEW w \in RedisClients, WriterDies(w) PROVE ListInv'
  <2>1. /\ lBackend' = lBackend /\ lIndex' = lIndex
        /\ lCrossed' = IF lAt[w].do = "index" THEN lCrossed \cup {lAt[w].id} ELSE lCrossed
        /\ lAt' = [lAt EXCEPT ![w] = NoTask] /\ lTouched' = lTouched /\ lMade' = lMade
    BY <1>9 DEF WriterDies
  <2>2. NoTask \in ListTask /\ NoTask.do = "nothing"
    BY DEF ListTask, NoTask
  <2>3. \A v \in RedisClients : lAt'[v] = IF v = w THEN NoTask ELSE lAt[v]
    BY <2>1
  <2>4. ListsKept' /\ Listed' = Listed
    BY <2>1 DEF ListsKept, Listed
  <2>5. \A x : lAt[w] = [do |-> "index", id |-> x] => x \in lCrossed'
    BY <2>1
  <2>6. lCrossed \subseteq lCrossed'
    BY <2>1
  <2>7. IndexKept'
    BY <2>1, <2>2, <2>3, <2>4, <2>5, <2>6 DEF IndexKept
  <2> QED
    BY <2>1, <2>2, <2>4, <2>7
<1>10. CASE UNCHANGED listVars
  BY <1>10 DEF listVars, ListsKept, IndexKept, Listed
<1>11. ASSUME NEW owned, RedisIndexExpires(owned) PROVE ListInv'
  <2>1. /\ lBackend' = lBackend /\ lIndex' = lIndex \ owned /\ lCrossed' = lCrossed
        /\ lAt' = lAt /\ lTouched' = lTouched /\ lMade' = lMade
    BY <1>11 DEF RedisIndexExpires
  <2>2. ListsKept' /\ Listed' = Listed
    BY <2>1 DEF ListsKept, Listed
  <2>3. \A id \in Listed \cap owned :
          id \in lCrossed \/ \E w \in RedisClients : lAt[w] = [do |-> "index", id |-> id]
    BY <1>11 DEF RedisIndexExpires
  <2>4. IndexKept'
    BY <2>1, <2>2, <2>3 DEF IndexKept
  <2> QED
    BY <2>1, <2>2, <2>4
<1> QED
  BY <1>1, <1>2, <1>3, <1>4, <1>5, <1>6, <1>7, <1>8, <1>9, <1>10, <1>11 DEF ListNext

\* Whatever the adapter, its pages show what was asked for.
LEMMA PagesFollow == ListInv => PagesCoverAll
<1> SUFFICES ASSUME ListInv, NEW q \in Queries, NEW limit \in PageSizes
             PROVE  /\ IndexWhole(q) /\ InOrder(q) => Covered(q, limit)
                    /\ lBackend = "base_sql" =>
                          \A page \in BaseSqlPages(q, 0, limit) :
                             /\ IsInjective(page) /\ Range(page) \subseteq Asked(q)
                             /\ Cardinality(BaseSqlRows(q)) <= limit => Range(page) = Asked(q)
  BY DEF PagesCoverAll, Covered, ShownOnce
<1>1. ListsKept /\ IndexKept /\ lBackend \in ListBackends /\ limit \in Nat \ {0}
  BY ListAssumption DEF ListInv
<1>6. \A page \in BaseSqlPages(q, 0, limit) :
         /\ IsInjective(page) /\ Range(page) \subseteq Asked(q)
         /\ Cardinality(BaseSqlRows(q)) <= limit => Range(page) = Asked(q)
  BY <1>1, BaseSqlShows
<1> SUFFICES ASSUME IndexWhole(q), lBackend # "base_sql",
                    lBackend = "sqlite" => "owner" \in q /\ "company" \notin q
             PROVE  Covered(q, limit)
  BY <1>6 DEF InOrder
<1>2. CASE lBackend = "memory"
  BY <1>1, <1>2, MemoryPages DEF Page
<1>3. CASE lBackend = "file"
  BY <1>1, <1>3, FilePages
<1>4. CASE lBackend = "sqlite"
  BY <1>1, <1>4, SqlitePages
<1>5. CASE lBackend = "postgresql"
  BY <1>1, <1>5, PostgresPages
<1>7. CASE lBackend = "redis" /\ "owner" \notin q
  <2>1. \A offset \in Nat : Page(q, offset, limit) = MemoryPage(q, offset, limit)
    BY <1>7 DEF Page, RedisPage
  <2> QED
    BY <1>1, <2>1, MemoryPages
<1>8. CASE lBackend = "redis" /\ "owner" \in q
  <2>1. lCrossed = {} /\ \A w \in RedisClients : lAt[w] = NoTask
    BY <1>8 DEF IndexWhole
  <2>2. \A x : NoTask # [do |-> "index", id |-> x]
    BY DEF NoTask
  <2>3. Asked(q) \subseteq lIndex
    BY <1>1, <1>8, <2>1, <2>2 DEF IndexKept, Asked
  <2> QED
    BY <1>1, <1>8, <2>3, RedisPages
<1> QED
  BY <1>1, <1>2, <1>3, <1>4, <1>5, <1>7, <1>8 DEF ListBackends

(***************************************************************************)
(* list_sessions of every adapter, with any number of sessions and clients *)
(* and any limit: the pages of a query, nothing changing meanwhile, show   *)
(* every session asked for and none twice, though file, postgresql and     *)
(* redis filter what they have cut and sqlite sorts it again (but for the  *)
(* queries and states PagesCoverAll leaves out); base_sql, whose rows have *)
(* no order, shows no other session, none twice on a page, and all of them *)
(* on a page they fit on.                                                  *)
(***************************************************************************)
THEOREM PagesShowAll == ListSpec => []PagesCoverAll
<1>1. ListSpec => []ListInv
  BY ListStarts, ListStep, PTL DEF ListSpec
<1> QED
  BY <1>1, PagesFollow, PTL

-----------------------------------------------------------------------------
(* The view of a supervisor group.                                         *)

CallRecords == [member : Delegates, at : Nat, bare : BOOLEAN]

\* The bare records are stamped in the order they are kept in, for nothing passes between
\* the call and its record; the others when they end, which leaves the bare ones alone.
Stamped(calls) ==
    \A i, j \in DOMAIN calls :
        i < j /\ calls[i].bare /\ calls[j].bare => calls[i].at < calls[j].at

TreeInv ==
    /\ vClock \in Nat
    /\ vTurns \in [Delegates -> Seq(Nat)]
    /\ vCalls \in Seq(CallRecords)
    /\ vRunning \in [Delegates -> Nat]
    /\ \A m \in Delegates :
          vRunning[m] # 0 => vRunning[m] \in DOMAIN vCalls /\ ~vCalls[vRunning[m]].bare
    /\ \A i \in DOMAIN vCalls : vCalls[i].bare => vCalls[i].at < vClock
    /\ Stamped(vCalls)

LEMMA TreeStarts == TreeInit => TreeInv
<1> SUFFICES ASSUME TreeInit
             PROVE  TreeInv
  OBVIOUS
<1>1. vCalls \in Seq(CallRecords) /\ DOMAIN vCalls = {}
  BY EmptySeq DEF TreeInit
<1>2. vTurns \in [Delegates -> Seq(Nat)]
  BY EmptySeq DEF TreeInit
<1> QED
  BY <1>1, <1>2 DEF TreeInit, TreeInv, Stamped

\* A call more, which is not at work before: the others keep their places.
LEMMA CallAdded ==
    ASSUME TreeInv, NEW call \in CallRecords, vCalls' = Append(vCalls, call),
           vClock' \in Nat, vClock <= vClock',
           call.bare => call.at = vClock /\ vClock < vClock',
           vTurns' = vTurns, vRunning' \in [Delegates -> Nat],
           \A m \in Delegates : \/ vRunning'[m] = vRunning[m]
                                \/ vRunning'[m] = Len(vCalls) + 1 /\ ~call.bare
    PROVE  TreeInv'
<1> DEFINE n == Len(vCalls)
<1>1. vCalls \in Seq(CallRecords) /\ DOMAIN vCalls = 1 .. n /\ n \in Nat
  BY DEF TreeInv
<1>2. /\ vCalls' \in Seq(CallRecords)
      /\ DOMAIN vCalls' = 1 .. n + 1
      /\ vCalls'[n + 1] = call
      /\ \A i \in 1 .. n : vCalls'[i] = vCalls[i]
  BY <1>1, AppendProperties
<1>3. \A i \in 1 .. n : vCalls[i].at \in Nat
  <2>1. \A i \in 1 .. n : vCalls[i] \in CallRecords
    BY <1>1
  <2> QED
    BY <2>1 DEF CallRecords
<1> HIDE DEF n
<1>4. \A i \in DOMAIN vCalls' : vCalls'[i].bare => vCalls'[i].at < vClock'
  <2> TAKE i \in DOMAIN vCalls'
  <2>1. CASE i = n + 1
    BY <1>2, <2>1 DEF TreeInv
  <2>2. CASE i \in 1 .. n
    BY <1>1, <1>2, <1>3, <2>2 DEF TreeInv
  <2> QED
    BY <1>1, <1>2, <2>1, <2>2
<1>5. Stamped(vCalls')
  <2> SUFFICES ASSUME NEW i \in 1 .. n + 1, NEW j \in 1 .. n + 1, i < j,
                      vCalls'[i].bare, vCalls'[j].bare
               PROVE  vCalls'[i].at < vCalls'[j].at
    BY <1>2 DEF Stamped
  <2>1. i \in 1 .. n
    BY <1>1
  <2>2. CASE j = n + 1
    BY <1>1, <1>2, <2>1, <2>2 DEF TreeInv
  <2>3. CASE j \in 1 .. n
    BY <1>1, <1>2, <2>1, <2>3 DEF TreeInv, Stamped
  <2>4. j = n + 1 \/ j \in 1 .. n
    BY <1>1
  <2> QED
    BY <2>2, <2>3, <2>4
<1>6. \A m \in Delegates :
         vRunning'[m] # 0 => vRunning'[m] \in DOMAIN vCalls' /\ ~vCalls'[vRunning'[m]].bare
  <2> TAKE m \in Delegates
  <2>1. CASE vRunning'[m] = vRunning[m]
    BY <1>1, <1>2, <2>1 DEF TreeInv
  <2>2. CASE vRunning'[m] = n + 1 /\ ~call.bare
    BY <1>1, <1>2, <2>2
  <2> QED
    BY <2>1, <2>2 DEF n
<1> QED
  BY <1>2, <1>4, <1>5, <1>6 DEF TreeInv

LEMMA BeginDelegationKeeps ==
    ASSUME TreeInv, NEW m \in Delegates, BeginDelegation(m)
    PROVE  TreeInv'
<1> DEFINE call == [member |-> m, at |-> 0, bare |-> FALSE]
<1>1. /\ call \in CallRecords /\ ~call.bare /\ vCalls' = Append(vCalls, call)
      /\ vClock' = vClock /\ vClock \in Nat /\ vTurns' = vTurns
  BY DEF BeginDelegation, TreeInv, CallRecords
<1>2. Len(vCalls) + 1 \in Nat
  BY LenProperties DEF TreeInv
<1>3. /\ vRunning' \in [Delegates -> Nat]
      /\ \A d \in Delegates :
            vRunning'[d] = vRunning[d] \/ vRunning'[d] = Len(vCalls) + 1
  BY <1>2 DEF BeginDelegation, TreeInv
<1> HIDE DEF call
<1> QED
  BY <1>1, <1>3, CallAdded

LEMMA MisnamedCallKeeps ==
    ASSUME TreeInv, NEW m \in Delegates, MisnamedCall(m)
    PROVE  TreeInv'
<1> DEFINE call == [member |-> m, at |-> vClock, bare |-> TRUE]
<1>1. /\ call \in CallRecords /\ call.at = vClock /\ vCalls' = Append(vCalls, call)
      /\ vClock \in Nat /\ vClock' = vClock + 1 /\ vTurns' = vTurns /\ vRunning' = vRunning
      /\ vRunning \in [Delegates -> Nat]
  BY DEF MisnamedCall, LaterOn, TreeInv, CallRecords
<1>2. vClock' \in Nat /\ vClock <= vClock' /\ vClock < vClock'
  BY <1>1
<1> HIDE DEF call
<1> QED
  BY <1>1, <1>2, CallAdded

LEMMA DelegateTurnKeeps ==
    ASSUME TreeInv, NEW m \in Delegates, DelegateTurn(m)
    PROVE  TreeInv'
<1>1. /\ vTurns' = [vTurns EXCEPT ![m] = Append(@, vClock)]
      /\ vClock' = vClock + 1 /\ vCalls' = vCalls /\ vRunning' = vRunning
  BY DEF DelegateTurn, LaterOn
<1>2. Append(vTurns[m], vClock) \in Seq(Nat)
  BY AppendProperties DEF TreeInv
<1>3. vTurns' \in [Delegates -> Seq(Nat)] /\ vClock' \in Nat
  BY <1>1, <1>2 DEF TreeInv
<1>4. \A i \in DOMAIN vCalls : vCalls[i].at \in Nat
  <2>1. \A i \in DOMAIN vCalls : vCalls[i] \in CallRecords
    BY DEF TreeInv
  <2> QED
    BY <2>1 DEF CallRecords
<1>5. \A i \in DOMAIN vCalls : vCalls[i].bare => vCalls[i].at < vClock'
  BY <1>1, <1>4 DEF TreeInv
<1> QED
  BY <1>1, <1>3, <1>5 DEF TreeInv

LEMMA EndDelegationKeeps ==
    ASSUME TreeInv, NEW m \in Delegates, EndDelegation(m)
    PROVE  TreeInv'
<1> DEFINE r == vRunning[m]
<1>1. /\ r \in DOMAIN vCalls /\ ~vCalls[r].bare
      /\ vCalls' = [vCalls EXCEPT ![r].at = vClock]
      /\ vRunning' = [vRunning EXCEPT ![m] = 0]
      /\ vClock' = vClock + 1 /\ vTurns' = vTurns
  BY DEF EndDelegation, LaterOn, TreeInv
<1> HIDE DEF r
<1>2. \A i \in DOMAIN vCalls : vCalls[i] \in CallRecords
  BY DEF TreeInv
<1>3. /\ DOMAIN vCalls' = DOMAIN vCalls
      /\ \A i \in DOMAIN vCalls : i # r => vCalls'[i] = vCalls[i]
      /\ vCalls'[r] \in CallRecords /\ ~vCalls'[r].bare
  BY <1>1, <1>2 DEF TreeInv, CallRecords
<1>4. vCalls' \in Seq(CallRecords)
  <2>1. [vCalls EXCEPT ![r] = vCalls'[r]] \in Seq(CallRecords)
    BY <1>1, <1>3, ExceptSeq DEF TreeInv
  <2>2. vCalls' = [vCalls EXCEPT ![r] = vCalls'[r]]
    BY <1>1, <1>3
  <2> QED
    BY <2>1, <2>2
<1>5. \A i \in DOMAIN vCalls : vCalls'[i].bare => i # r /\ vCalls'[i] = vCalls[i]
  BY <1>3
<1>6. \A i \in DOMAIN vCalls' : vCalls'[i].bare => vCalls'[i].at < vClock'
  <2> TAKE i \in DOMAIN vCalls'
  <2> HAVE vCalls'[i].bare
  <2>1. vCalls'[i] = vCalls[i] /\ vCalls[i].at \in Nat /\ vCalls[i].at < vClock /\ vClock \in Nat
    BY <1>2, <1>3, <1>5 DEF TreeInv, CallRecords
  <2> QED
    BY <1>1, <2>1
<1>7. Stamped(vCalls')
  BY <1>3, <1>5 DEF Stamped, TreeInv
<1>8. vRunning' \in [Delegates -> Nat] /\ vClock' \in Nat
  BY <1>1 DEF TreeInv
<1>9. \A d \in Delegates :
         vRunning'[d] # 0 => vRunning'[d] \in DOMAIN vCalls' /\ ~vCalls'[vRunning'[d]].bare
  <2> TAKE d \in Delegates
  <2> HAVE vRunning'[d] # 0
  <2>1. vRunning'[d] = vRunning[d]
    BY <1>1 DEF TreeInv
  <2>2. vRunning[d] \in DOMAIN vCalls /\ ~vCalls[vRunning[d]].bare
    BY <2>1 DEF TreeInv
  <2> QED
    BY <1>3, <2>1, <2>2
<1> QED
  BY <1>1, <1>4, <1>6, <1>7, <1>8, <1>9 DEF TreeInv

LEMMA TreeStep == TreeInv /\ [TreeNext]_treeVars => TreeInv'
<1> SUFFICES ASSUME TreeInv, [TreeNext]_treeVars
             PROVE  TreeInv'
  OBVIOUS
<1>1. CASE UNCHANGED treeVars
  BY <1>1 DEF treeVars, TreeInv
<1>2. CASE TreeNext
  BY <1>2, BeginDelegationKeeps, DelegateTurnKeeps, EndDelegationKeeps, MisnamedCallKeeps
     DEF TreeNext
<1> QED
  BY <1>1, <1>2

-----------------------------------------------------------------------------
(* The calls taken for delegations are bare ones, so the spans of time from *)
(* one to the next lie apart.                                               *)

LEMMA DelegateCallsAre ==
    ASSUME TreeInv
    PROVE  /\ DelegateCalls \in Seq(CallRecords)
           /\ DOMAIN DelegateCalls = 1 .. Len(DelegateCalls) /\ Len(DelegateCalls) \in Nat
           /\ \A i \in DOMAIN DelegateCalls :
                 DelegateCalls[i].member \in Delegates /\ DelegateCalls[i].at \in Nat
           /\ \A i, j \in DOMAIN DelegateCalls :
                 i < j => DelegateCalls[i].at < DelegateCalls[j].at
           /\ (\A i \in DOMAIN vCalls : ~vCalls[i].bare) => DelegateCalls = <<>>
<1> DEFINE places == {i \in DOMAIN vCalls : IsDelegation(vCalls[i])}
<1>1. /\ vCalls \in Seq(CallRecords) /\ places \in SUBSET DOMAIN vCalls
      /\ \A p \in places : vCalls[p].bare
      /\ DelegateCalls = AtPlaces(vCalls, places)
      /\ (\A i \in DOMAIN vCalls : ~vCalls[i].bare) => places = {}
  BY DEF TreeInv, IsDelegation, DelegateCalls
<1> HIDE DEF places
<1>2. /\ DelegateCalls \in Seq(CallRecords)
      /\ DelegateCalls = <<>> <=> places = {}
      /\ \A j, k \in DOMAIN DelegateCalls :
            j < k => \E p, q \in places : /\ p < q
                                          /\ DelegateCalls[j] = vCalls[p]
                                          /\ DelegateCalls[k] = vCalls[q]
  BY <1>1, AtPlacesIs
<1>3. DOMAIN DelegateCalls = 1 .. Len(DelegateCalls) /\ Len(DelegateCalls) \in Nat
  BY <1>2, LenProperties
<1>4. \A i \in DOMAIN DelegateCalls : DelegateCalls[i] \in CallRecords
  BY <1>2
<1>5. ASSUME NEW i \in DOMAIN DelegateCalls, NEW j \in DOMAIN DelegateCalls, i < j
      PROVE  DelegateCalls[i].at < DelegateCalls[j].at
  <2>1. PICK p \in places, q \in places :
           p < q /\ DelegateCalls[i] = vCalls[p] /\ DelegateCalls[j] = vCalls[q]
    BY <1>2, <1>5
  <2>2. p \in DOMAIN vCalls /\ q \in DOMAIN vCalls /\ vCalls[p].bare /\ vCalls[q].bare
    BY <1>1
  <2> QED
    BY <2>1, <2>2 DEF TreeInv, Stamped
<1> QED
  BY <1>1, <1>2, <1>3, <1>4, <1>5 DEF CallRecords

\* Wherever the cursor is, a call's turns are its member's, from its time to the next call's.
LEMMA TurnsFromAre ==
    ASSUME TreeInv, NEW i \in DOMAIN DelegateCalls, NEW cursor, NEW t \in TurnsFrom(i, cursor)
    PROVE  /\ t \in Nat /\ t >= DelegateCalls[i].at
           /\ i < Len(DelegateCalls) => t < DelegateCalls[i + 1].at
<1> DEFINE turns == vTurns[DelegateCalls[i].member]
<1>1. turns \in Seq(Nat)
  BY DelegateCallsAre DEF TreeInv
<1>2. \A k \in DOMAIN turns : turns[k] \in Nat
  BY <1>1
<1> QED
  BY <1>2 DEF TurnsFrom

LEMMA SpansApart ==
    ASSUME TreeInv, NEW i \in DOMAIN DelegateCalls, NEW j \in DOMAIN DelegateCalls, i < j,
           NEW c, NEW d
    PROVE  TurnsFrom(i, c) \cap TurnsFrom(j, d) = {}
<1> SUFFICES ASSUME NEW t, t \in TurnsFrom(i, c), t \in TurnsFrom(j, d)
             PROVE  FALSE
  OBVIOUS
<1>1. /\ DOMAIN DelegateCalls = 1 .. Len(DelegateCalls) /\ Len(DelegateCalls) \in Nat
      /\ \A k \in DOMAIN DelegateCalls : DelegateCalls[k].at \in Nat
      /\ \A k, l \in DOMAIN DelegateCalls : k < l => DelegateCalls[k].at < DelegateCalls[l].at
  BY DelegateCallsAre
<1>2. i < Len(DelegateCalls) /\ i + 1 \in DOMAIN DelegateCalls /\ (i + 1 = j \/ i + 1 < j)
  BY <1>1
<1>3. t \in Nat /\ t < DelegateCalls[i + 1].at
  BY <1>2, TurnsFromAre
<1>4. t >= DelegateCalls[j].at
  BY TurnsFromAre
<1>5. DelegateCalls[i + 1].at <= DelegateCalls[j].at
  BY <1>1, <1>2
<1>6. DelegateCalls[i + 1].at \in Nat /\ DelegateCalls[j].at \in Nat
  BY <1>1, <1>2
<1> QED
  BY <1>3, <1>4, <1>5, <1>6

LEMMA ChildrenApart ==
    ASSUME TreeInv
    PROVE  NoTurnTwice(Children)
<1> SUFFICES ASSUME NEW n \in Children, NEW k \in Children, n # k
             PROVE  n.turns \cap k.turns = {}
  BY DEF NoTurnTwice
<1>1. PICK i \in DOMAIN DelegateCalls : n = Child(i)
  BY DEF Children
<1>2. PICK j \in DOMAIN DelegateCalls : k = Child(j)
  BY DEF Children
<1>3. i < j \/ j < i
  BY <1>1, <1>2, DelegateCallsAre
<1>4. PICK c, d : n.turns = TurnsFrom(i, c) /\ k.turns = TurnsFrom(j, d)
  BY <1>1, <1>2 DEF Child
<1> QED
  BY <1>3, <1>4, SpansApart

LEMMA OneEachApart ==
    ASSUME NEW S
    PROVE  /\ NoTurnTwice(OneEach(S))
           /\ \A n \in OneEach(S) : n.member \in S
BY DEF NoTurnTwice, OneEach, Whole

LEMMA OneEachShowsAll == TreeInv => EveryTurn(OneEach(Delegates))
<1> SUFFICES ASSUME TreeInv, NEW m \in Delegates, NEW t \in ToSet(vTurns[m])
             PROVE  \E n \in OneEach(Delegates) : n.member = m /\ t \in n.turns
  BY DEF EveryTurn
<1>1. vTurns[m] # <<>>
  BY DEF ToSet
<1>2. Whole(m) \in OneEach(Delegates)
  BY <1>1 DEF OneEach, HasSession
<1> QED
  BY <1>2 DEF Whole

LEMMA TreeOnce == TreeInv => NoTurnTwice(SupervisorTree)
<1> SUFFICES ASSUME TreeInv, NEW n \in SupervisorTree, NEW k \in SupervisorTree,
                    n # k, n.member = k.member
             PROVE  n.turns \cap k.turns = {}
  BY DEF NoTurnTwice
<1> DEFINE Unnamed == OneEach(Delegates \ Named)
<1>1. \A c \in Children : c.member \in Named
  BY DEF Children, Child, Named
<1>2. \A o \in Unnamed : o.member \notin Named
  BY OneEachApart
<1>3. (n \in Children /\ k \in Children) \/ (n \in Unnamed /\ k \in Unnamed)
  BY <1>1, <1>2 DEF SupervisorTree
<1>4. NoTurnTwice(Children) /\ NoTurnTwice(Unnamed)
  BY ChildrenApart, OneEachApart
<1> HIDE DEF Unnamed
<1> QED
  BY <1>3, <1>4 DEF NoTurnTwice

LEMMA TreeShowsAll ==
    ASSUME TreeInv, \A i \in DOMAIN vCalls : ~vCalls[i].bare
    PROVE  EveryTurn(SupervisorTree)
<1>1. DelegateCalls = <<>>
  BY DelegateCallsAre
<1>2. DOMAIN DelegateCalls = {}
  BY <1>1
<1>3. Delegates \ Named = Delegates
  BY <1>2 DEF Named
<1>4. OneEach(Delegates) \subseteq SupervisorTree
  BY <1>3 DEF SupervisorTree
<1> QED
  BY <1>4, OneEachShowsAll DEF EveryTurn

LEMMA ViewIs ==
    ASSUME NEW pattern \in ViewPatterns
    PROVE  GroupView(pattern) \in {SupervisorTree, OneEach(Delegates)}
<1>1. ResolvePattern(pattern) \in {"supervisor", "pipeline", "unknown"}
  BY DEF ResolvePattern, ViewPatterns
<1> QED
  BY <1>1 DEF GroupView, PipelineTree, ChronologicalTree

LEMMA StampsKeepTurns == TreeInv => ViewKeepsTurns
<1> SUFFICES ASSUME TreeInv, NEW pattern \in ViewPatterns
             PROVE  /\ NoTurnTwice(GroupView(pattern))
                    /\ (\A i \in DOMAIN vCalls : ~vCalls[i].bare) =>
                          EveryTurn(GroupView(pattern))
  BY DEF ViewKeepsTurns
<1>1. CASE GroupView(pattern) = SupervisorTree
  BY <1>1, TreeOnce, TreeShowsAll
<1>2. CASE GroupView(pattern) = OneEach(Delegates)
  BY <1>2, OneEachApart, OneEachShowsAll
<1> QED
  BY <1>1, <1>2, ViewIs

(***************************************************************************)
(* The view of a group shows no turn twice, and while delegations are      *)
(* called by their registered names it shows every turn, for any members,  *)
(* turns and calls in any order: the calls it takes for delegations are    *)
(* stamped one after another, so the spans it cuts a member's turns by lie *)
(* apart.  (session/aggregate.py:44-155)                                   *)
(***************************************************************************)
THEOREM ViewsShowTurnsOnce == TreeSpec => []ViewKeepsTurns
<1>1. TreeInit => TreeInv
  BY TreeStarts
<1>2. TreeInv /\ [TreeNext]_treeVars => TreeInv'
  BY TreeStep
<1>3. TreeInv => ViewKeepsTurns
  BY StampsKeepTurns
<1> QED
  BY <1>1, <1>2, <1>3, PTL DEF TreeSpec
=============================================================================
