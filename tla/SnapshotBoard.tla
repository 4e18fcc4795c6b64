---------------------------- MODULE SnapshotBoard ----------------------------
(* What the state repository promises to the machines that share it: a board *)
(* with one snapshot per machine.  Only the owner's publish replaces its     *)
(* entry, and the timestamp of an entry never goes back.                     *)
EXTENDS Naturals

CONSTANTS Machines,   \* the machines that share the state repository
          Contents,   \* what a scan can report, as opaque values
          None        \* "no snapshot yet"

Snapshots == [content : Contents, at : Nat]

VARIABLE board        \* the latest published snapshot of every machine

Init == board = [m \in Machines |-> None]

\* A publish of machine m: its entry is replaced by a snapshot that is no
\* older, and every other entry stays.
Publish(m) ==
    /\ board'[m] \in Snapshots
    /\ board[m] # None => board[m].at <= board'[m].at
    /\ board' = [board EXCEPT ![m] = board'[m]]

Next == \E m \in Machines : Publish(m)

Spec == Init /\ [][Next]_board
===============================================================================
