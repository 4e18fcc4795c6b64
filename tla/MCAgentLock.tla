----------------------------- MODULE MCAgentLock ------------------------------
(* Small instances of AgentLock for TLC.                                     *)
EXTENDS AgentLock

CONSTANTS a, b, c
===============================================================================
