---------------------------- MODULE PauseProtocol ----------------------------
(***************************************************************************)
(* What a client of a chat session is promised about interactions that     *)
(* pause a run: every question carries a ticket that was never used, no    *)
(* question is asked while others are open, and all that are open close    *)
(* together, by the client's results or by its next message.               *)
(***************************************************************************)
EXTENDS Naturals

CONSTANT Reusable   \* the ticket of a human-in-the-loop pause, which repeats

VARIABLES
  open,    \* tickets the client is asked to answer
  issued   \* the last ticket handed out

vars == <<open, issued>>

Init == open = {} /\ issued = 0

\* A turn hands out the tickets after issued, and asks for some of them.
Ask ==
  /\ open = {}
  /\ issued' \in Nat /\ issued' >= issued
  /\ open' \subseteq (issued + 1)..issued' \union {Reusable}

Close ==
  /\ open' = {}
  /\ issued' = issued

Next == Ask \/ Close

Spec == Init /\ [][Next]_vars
=============================================================================
