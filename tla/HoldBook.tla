------------------------------- MODULE HoldBook -------------------------------
(* What the Reservations tab promises the people who audit it: the book of    *)
(* seat holds only grows, a hold never changes the recruit or the clan it was *)
(* written for, and a hold that was closed never becomes active again.        *)
(* SeatReservations implements this book (shared/sheets/reservations.py is    *)
(* the only writer of the tab).                                               *)
EXTENDS Naturals, Sequences

CONSTANTS Clans, Recruits, Dates

VARIABLE holds

Closings == {"released", "expired"}

Hold == [recruit : Recruits, clan : Clans,
         status : {"active"} \cup Closings, until : Dates]

Init == holds = << >>

\* A new hold is entered, always active, always at the end of the book.
Enter(u, c, d) ==
    holds' = Append(holds, [recruit |-> u, clan |-> c,
                            status |-> "active", until |-> d])

\* A hold is closed.  Nothing is promised about a hold closed twice: the last
\* closing is the one that remains.
Close(i, s) == holds' = [holds EXCEPT ![i].status = s]

\* The last day of a hold is moved.
Postpone(i, d) == holds' = [holds EXCEPT ![i].until = d]

Next ==
    \/ \E u \in Recruits, c \in Clans, d \in Dates : Enter(u, c, d)
    \/ \E i \in DOMAIN holds, s \in Closings : Close(i, s)
    \/ \E i \in DOMAIN holds, d \in Dates : Postpone(i, d)

Spec == Init /\ [][Next]_holds
===============================================================================
