------------------------------ MODULE ResultBook -------------------------------
(* What a tournament promises about its results: a match is unplayed,         *)
(* reported, contested or final; a result moves only where the rules allow    *)
(* it, and once it is final only while its round is being corrected; a round  *)
(* closes over final results.  The promise ends when the tables are written   *)
(* over from an outdated copy.                                                *)
CONSTANTS Matches, Rounds, RoundOf

VARIABLES book,    \* state and result of each match
          phase,   \* of each round
          spoilt   \* has an outdated copy been written?

vars == <<book, phase, spoilt>>

Playing == {"open", "correction"}

\* Where the result of a match may go.
Lawful(m) ==
    /\ phase[RoundOf[m]] \in Playing
    /\ \/ /\ book[m].state = "unplayed"
          /\ book'[m].state \in {"reported", "contested", "final"}
       \/ /\ book[m].state = "reported"
          /\ book'[m].state \in {"contested", "final"}
       \/ /\ book[m].state = "contested"
          /\ book'[m].state \in {"final", "unplayed"}
       \/ /\ book[m].state = "final"
          /\ phase[RoundOf[m]] = "correction"
          /\ book'[m].state \in {"final", "unplayed"}

Results == \A m \in Matches : book'[m] = book[m] \/ Lawful(m)

\* Results move; draws made with a participant who leaves are withdrawn.
Play ==
    /\ Results
    /\ \A r \in Rounds : phase'[r] = phase[r] \/ (phase[r] = "drawn" /\ phase'[r] = "none")
    /\ UNCHANGED spoilt

\* A round is drawn, opened, closed over final results, or reopened.
Shift(r) ==
    /\ \/ phase[r] = "none"   /\ phase'[r] = "drawn"
       \/ phase[r] = "drawn"  /\ phase'[r] = "open"
       \/ phase[r] = "closed" /\ phase'[r] = "correction"
       \/ /\ phase[r] \in Playing /\ phase'[r] = "closed"
          /\ \A m \in Matches : RoundOf[m] = r => book[m].state = "final"
    /\ \A q \in Rounds \ {r} : phase'[q] = phase[q]
    /\ UNCHANGED <<book, spoilt>>

Spoil == spoilt' = TRUE

Init ==
    /\ \A m \in Matches : book[m].state = "unplayed"
    /\ \A r \in Rounds : phase[r] \in {"none", "open"}
    /\ spoilt = FALSE

Next == Play \/ (\E r \in Rounds : Shift(r)) \/ Spoil

Spec == Init /\ [][Next]_vars
===============================================================================
