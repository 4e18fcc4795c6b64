---------------------------- MODULE MCStickyConfig ----------------------------
(* The instances of StickyConfig that TLC checks: all of its constants are    *)
(* model values or numbers, given in the configuration files.                 *)
EXTENDS StickyConfig, TLC

Symmetric == Permutations(Procs) \cup Permutations(Repos)
===============================================================================
