----------------------------- MODULE AtomicStore -----------------------------
(***************************************************************************)
(* What StorageAdapter (session/adapters/base.py) promises of one stored   *)
(* session: append_turn and update_tc_summary change it in one step, and   *)
(* save_session replaces it by the copy its caller holds.                  *)
(***************************************************************************)
EXTENDS Sequences

CONSTANTS Clients, Turns

VARIABLES
  row,   \* the stored session
  copy   \* the session object each client holds

vars == <<row, copy>>

\* A session: whether there is one, its turns, and those whose tool response
\* has a summary.
Absent == [exists |-> FALSE, turns |-> <<>>, sums |-> {}]
Fresh == [exists |-> TRUE, turns |-> <<>>, sums |-> {}]

TurnSet(r) == {r.turns[i] : i \in DOMAIN r.turns}

WithTurn(r, t) == [r EXCEPT !.turns = Append(@, t)]
WithSummary(r, t) == IF t \in TurnSet(r) THEN [r EXCEPT !.sums = @ \union {t}] ELSE r

Init == row = Fresh /\ copy = [c \in Clients |-> Absent]

\* load_session, or the new session a caller creates when there is none.
Open(c) ==
  /\ copy' = [copy EXCEPT ![c] = IF row.exists THEN row ELSE Fresh]
  /\ UNCHANGED row

Save(c) == copy[c].exists /\ row' = copy[c] /\ UNCHANGED copy

\* The client goes away.
Drop(c) == copy' = [copy EXCEPT ![c] = Absent] /\ UNCHANGED row

AppendTurn(t) == row.exists /\ row' = WithTurn(row, t) /\ UNCHANGED copy

Summarise(t) == row.exists /\ row' = WithSummary(row, t) /\ UNCHANGED copy

Delete == row' = Absent /\ UNCHANGED copy

Next ==
  \/ \E c \in Clients : Open(c) \/ Save(c) \/ Drop(c)
  \/ \E t \in Turns : AppendTurn(t) \/ Summarise(t)
  \/ Delete

Spec == Init /\ [][Next]_vars
=============================================================================
