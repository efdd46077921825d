-------------------------- MODULE MCSheetsReadBroker ---------------------------
(* A small instance of SheetsReadBroker for TLC.                              *)
EXTENDS SheetsReadBroker

CONSTANTS k1, k2, t1, r1, r2, w1

\* Every key is a read of the same tab.
OneTab == [k \in Keys |-> t1]
===============================================================================
