----------------------------- MODULE MCExtension ------------------------------
(* Small instances of Extension for TLC.                                     *)
EXTENDS Extension

CONSTANTS e1, e2
===============================================================================
