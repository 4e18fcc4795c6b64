------------------------------- MODULE MCDoctor -------------------------------
(* Small instances of Doctor for TLC.                                        *)
EXTENDS Doctor

CONSTANTS m1, m2, agent1, smoke1, c1, c2

\* A machine with its agent and a smoke publish; there may be peers.
OneHome == [p \in {agent1, smoke1} |-> m1]

\* A machine with its agent.
SoloHome == [p \in {agent1} |-> m1]

\* Everything can fail except the abort of a rebase.
AllButAbort == Faults \ {"abort"}

\* What may fail where two machines race.
RaceFaults == {"abort", "pull", "write"}

\* Bound: only where doctor is run does the work go on.
QuietPeers == \A m \in Machines \ {Where} : world[m] = c1
===============================================================================
