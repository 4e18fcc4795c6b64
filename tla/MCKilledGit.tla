------------------------------ MODULE MCKilledGit -----------------------------
(* Small instances of KilledGit for TLC.                                     *)
EXTENDS KilledGit

CONSTANTS m1, m2, agent1, agent2, c1, c2

\* One machine and its agent.
SoloHome == [p \in {agent1} |-> m1]

\* Two machines, one agent each.
TwoHomes == [p \in {agent1, agent2} |-> IF p = agent1 THEN m1 ELSE m2]

\* The faults that go with the kills.
KillFaults == {"crash", "deadline", "pull", "push", "write"}

\* What leaves a rebase half done, and what keeps it from being ended.
RebaseFaults == {"abort", "pull", "crash"}

OnlyDeadline == {"deadline"}
===============================================================================
