-------------------------------- MODULE MCWalk --------------------------------
(* Small instances of Walk for TLC.                                          *)
EXTENDS Walk
===============================================================================
