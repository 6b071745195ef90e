----------------------------- MODULE MCAgentRun -----------------------------
(* AgentRun with small constants for TLC. *)
EXTENDS AgentRun
CONSTANTS m1, i1, retry, none
MCMessages == {m1}
MCInjections == {i1}
BothModes == {TRUE, FALSE}
=============================================================================
