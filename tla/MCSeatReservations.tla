-------------------------- MODULE MCSeatReservations --------------------------
(* Small instances of SeatReservations for TLC.                               *)
EXTENDS SeatReservations, TLC

CONSTANTS c1, c2, u1, u2, k1, k2

ClerkOps    == {"reserve", "release", "extend"}
DailyOps    == {"remind", "expire"}
LedgerOps   == ClerkOps \cup DailyOps
HoldOps     == ClerkOps \cup {"expire", "unlink"}
LiveOps     == {"reserve", "expire", "setspots"}

Symmetry == Permutations(Clans) \cup Permutations(Recruits) \cup Permutations(Commands)
===============================================================================
