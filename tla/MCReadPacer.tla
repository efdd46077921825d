----------------------------- MODULE MCReadPacer ------------------------------
(* A small instance of ReadPacer for TLC.                                     *)
EXTENDS ReadPacer

CONSTANTS r1, r2, r3
===============================================================================
