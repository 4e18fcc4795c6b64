------------------------------ MODULE MCCadence -------------------------------
(* Small instances of Cadence for TLC.                                       *)
EXTENDS Cadence
===============================================================================
