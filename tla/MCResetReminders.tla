-------------------------- MODULE MCResetReminders --------------------------
(* Two rows with different cycles: one is announced two ticks ahead, the    *)
(* other one tick ahead.                                                    *)
EXTENDS ResetReminders

MCFirst == <<1, 2>>
MCCycle == <<4, 5>>
MCLead  == <<2, 1>>
=============================================================================
