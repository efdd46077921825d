---------------------------- MODULE MCArenaRounds ------------------------------
(* Small instances of ArenaRounds for TLC: two rounds of one match, or one    *)
(* round of two.                                                              *)
EXTENDS ArenaRounds

CONSTANTS m1, m2, p1, t1

InTurn   == [m \in Matches |-> IF m = m1 THEN 1 ELSE 2]
AtOnce   == [m \in Matches |-> 1]
BothOfP1 == [p \in Players |-> {m1, m2}]
===============================================================================
