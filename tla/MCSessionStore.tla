--------------------------- MODULE MCSessionStore ---------------------------
(* SessionStore with small constants for TLC. *)
EXTENDS SessionStore
CONSTANTS c1, c2, t1, t2
MCClients == {c1, c2}
MCTurns == {t1, t2}
=============================================================================
