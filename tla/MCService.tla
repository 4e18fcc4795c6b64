------------------------------ MODULE MCService -------------------------------
(* Small instances of Service for TLC.                                       *)
EXTENDS Service

Both == {"linux", "windows"}

LinuxOnly == {"linux"}
===============================================================================
