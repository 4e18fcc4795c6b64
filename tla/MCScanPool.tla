------------------------------ MODULE MCScanPool ------------------------------
(* Small instances of ScanPool for TLC.                                      *)
EXTENDS ScanPool

\* The second repository needs attention.
OneUnfinished == {2}
===============================================================================
