---------------------------- MODULE MCTicketPlacement --------------------------
(* Instances of TicketPlacement for TLC.                                      *)
EXTENDS TicketPlacement, TLC

CONSTANTS h1, h2

Symmetry == Permutations(Handlers)
===============================================================================
