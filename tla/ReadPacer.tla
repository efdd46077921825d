------------------------------- MODULE ReadPacer -------------------------------
(* The pacer in front of every physical read of Google Sheets: four priority  *)
(* queues of waiters and one worker task that grants a waiter at a time, no   *)
(* more often than the read budget allows, urgent waiters first, with a rule  *)
(* against starving the others.                                               *)
(*                                                                            *)
(* Everything runs on one event loop and the worker lets others run only      *)
(* while it sleeps: no other action is enabled while it is running.           *)
(*                                                                            *)
(* Source: shared/sheets/read_broker.py, class _PriorityPacer.                *)
EXTENDS Integers, Sequences, FiniteSets

CONSTANTS
    Waiters,     \* reads that ask for a grant, each any number of times
    BurstLimit,  \* _URGENT_BURST_LIMIT
    Interval,    \* time between two grants
    MayClose     \* may the broker be closed?

ASSUME PacerAssumption ==
    /\ BurstLimit \in Nat \ {0}
    /\ Interval \in Nat \ {0}
    /\ MayClose \in BOOLEAN

\* CRITICAL, HIGH, NORMAL, BACKGROUND.
Priorities == 0..3
Urgent     == {0, 1}
Lower      == {2, 3}

VARIABLES
    queue,    \* the waiters of each priority, in order of arrival
    waiting,  \* waiters whose future is not resolved
    worker,   \* "none", "created", "running" or "asleep"
    hand,     \* {} or the waiter the worker has taken off its queue
    gap,      \* time since the last grant, counted up to Interval
    streak,   \* urgent grants in a row, counted up to BurstLimit
    passed,   \* urgent grants in a row made over the head of a lower waiter,
              \* counted up to BurstLimit + 1
    closed

vars == <<queue, waiting, worker, hand, gap, streak, passed, closed>>

Taken == [waiter : Waiters, priority : Priorities, delay : 0..Interval]

Queued(w)   == \E p \in Priorities : \E i \in DOMAIN queue[p] : queue[p][i] = w
InHand(w)   == \E h \in hand : h.waiter = w
LowerQueued == \E p \in Lower : queue[p] # << >>

\* While the worker runs no other coroutine does.
Yielded == worker # "running"

-------------------------------------------------------------------------------

Acquire(w, p) ==
    /\ Yielded /\ ~closed
    /\ w \notin waiting /\ ~Queued(w) /\ ~InHand(w)
    /\ queue' = [queue EXCEPT ![p] = Append(@, w)]
    /\ waiting' = waiting \cup {w}
    /\ worker' = IF worker = "none" THEN "created" ELSE worker
    /\ UNCHANGED <<hand, gap, streak, passed, closed>>

\* The reader that waits is cancelled.  Its waiter stays where it is.
Cancel(w) ==
    /\ Yielded
    /\ w \in waiting
    /\ waiting' = waiting \ {w}
    /\ UNCHANGED <<queue, worker, hand, gap, streak, passed, closed>>

\* Mutants of PickPriority: the burst limit missed by one; no rule at all.
PickPriorityLate(s) ==
    LET open   == {p \in Priorities : queue[p] # << >>}
        forced == IF s > BurstLimit /\ open \cap Lower # {}
                  THEN open \cap Lower ELSE open
    IN  CHOOSE p \in forced : \A q \in forced : p <= q
PickPriorityStrict(s) ==
    LET open == {p \in Priorities : queue[p] # << >>}
    IN  CHOOSE p \in open : \A q \in open : p <= q

\* The priority served next: the most urgent one, but after a full burst of
\* urgent grants the first lower one if there is any.
PickPriority(s) ==
    LET open   == {p \in Priorities : queue[p] # << >>}
        forced == IF s >= BurstLimit /\ open \cap Lower # {}
                  THEN open \cap Lower ELSE open
    IN  CHOOSE p \in forced : \A q \in forced : p <= q

\* Mutants of Take: it sleeps a tick too long; it does not sleep.
TakeLong ==
    /\ worker \in {"created", "running"} /\ hand = {}
    /\ \E p \in Priorities : queue[p] # << >>
    /\ LET p == PickPriority(streak)
           w == Head(queue[p])
       IN  /\ queue' = [queue EXCEPT ![p] = Tail(@)]
           /\ hand' = IF w \in waiting
                      THEN {[waiter |-> w, priority |-> p, delay |-> Interval - gap + 1]}
                      ELSE {}
           /\ worker' = IF w \in waiting /\ gap < Interval THEN "asleep" ELSE "running"
    /\ passed' = IF \E p \in Lower : queue'[p] # << >> THEN passed ELSE 0
    /\ UNCHANGED <<waiting, gap, streak, closed>>
TakeAtOnce ==
    /\ worker \in {"created", "running"} /\ hand = {}
    /\ \E p \in Priorities : queue[p] # << >>
    /\ LET p == PickPriority(streak)
           w == Head(queue[p])
       IN  /\ queue' = [queue EXCEPT ![p] = Tail(@)]
           /\ hand' = IF w \in waiting
                      THEN {[waiter |-> w, priority |-> p, delay |-> Interval - gap]}
                      ELSE {}
           /\ worker' = "running"
    /\ passed' = IF \E p \in Lower : queue'[p] # << >> THEN passed ELSE 0
    /\ UNCHANGED <<waiting, gap, streak, closed>>

\* The part of the loop up to the sleep: the worker takes the next waiter off
\* its queue, skips it if it is cancelled, sleeps for the rest of the interval.
Take ==
    /\ worker \in {"created", "running"} /\ hand = {}
    /\ \E p \in Priorities : queue[p] # << >>
    /\ LET p == PickPriority(streak)
           w == Head(queue[p])
       IN  /\ queue' = [queue EXCEPT ![p] = Tail(@)]
           /\ hand' = IF w \in waiting
                      THEN {[waiter |-> w, priority |-> p, delay |-> Interval - gap]}
                      ELSE {}
           /\ worker' = IF w \in waiting /\ gap < Interval THEN "asleep" ELSE "running"
    /\ passed' = IF \E p \in Lower : queue'[p] # << >> THEN passed ELSE 0
    /\ UNCHANGED <<waiting, gap, streak, closed>>

\* Mutant of Finish: the worker ends although lower waiters are left.
FinishUrgent ==
    /\ worker \in {"created", "running"} /\ hand = {}
    /\ \A p \in Urgent : queue[p] = << >>
    /\ worker' = "none"
    /\ UNCHANGED <<queue, waiting, hand, gap, streak, passed, closed>>

\* Nobody is left to serve: the task ends.
Finish ==
    /\ worker \in {"created", "running"} /\ hand = {}
    /\ \A p \in Priorities : queue[p] = << >>
    /\ worker' = "none"
    /\ UNCHANGED <<queue, waiting, hand, gap, streak, passed, closed>>

\* The rest of the loop, after the sleep or without one.  A waiter cancelled
\* during the sleep still uses up the slot.
Grant ==
    /\ \E h \in hand :
           LET urgent == h.priority \in Urgent IN
           /\ h.delay = 0 \/ worker = "running"
           /\ waiting' = waiting \ {h.waiter}
           /\ streak' = IF ~urgent THEN 0
                        ELSE IF streak < BurstLimit THEN streak + 1 ELSE streak
           /\ passed' = IF ~(urgent /\ LowerQueued) THEN 0
                        ELSE IF passed <= BurstLimit THEN passed + 1 ELSE passed
    /\ gap' = 0
    /\ hand' = {}
    /\ worker' = "running"
    /\ UNCHANGED <<queue, closed>>

\* Time passes, for the gap since the last grant and for the sleeping worker.
Tick ==
    /\ Yielded
    /\ gap < Interval
    /\ gap' = gap + 1
    /\ hand' = {[h EXCEPT !.delay = IF @ > 0 THEN @ - 1 ELSE 0] : h \in hand}
    /\ UNCHANGED <<queue, waiting, worker, streak, passed, closed>>

\* close cancels the worker and every waiter still in a queue.
Close ==
    /\ MayClose /\ Yielded /\ ~closed
    /\ closed' = TRUE
    /\ worker' = "none"
    /\ hand' = {}
    /\ queue' = [p \in Priorities |-> << >>]
    /\ waiting' = {w \in waiting : ~Queued(w)}
    /\ passed' = 0
    /\ UNCHANGED <<gap, streak>>

-------------------------------------------------------------------------------

Init ==
    /\ queue = [p \in Priorities |-> << >>]
    /\ waiting = {}
    /\ worker = "none"
    /\ hand = {}
    /\ gap = Interval
    /\ streak = 0
    /\ passed = 0
    /\ closed = FALSE

Next ==
    \/ \E w \in Waiters :
           \/ Cancel(w)
           \/ \E p \in Priorities : Acquire(w, p)
    \/ Take
    \/ Finish
    \/ Grant
    \/ Tick
    \/ Close

Spec == Init /\ [][Next]_vars

\* The event loop runs the worker when it is created and when its sleep is over,
\* and time passes.
FairSpec == Spec /\ WF_vars(Take \/ Finish \/ Grant) /\ WF_vars(Tick)

-------------------------------------------------------------------------------

TypeOK ==
    /\ queue \in [Priorities -> Seq(Waiters)]
    /\ waiting \in SUBSET Waiters
    /\ worker \in {"none", "created", "running", "asleep"}
    /\ hand \in SUBSET Taken
    /\ gap \in 0..Interval
    /\ streak \in 0..BurstLimit
    /\ passed \in 0..(BurstLimit + 1)
    /\ closed \in BOOLEAN

\* The read budget: a waiter leaves the worker's hand, granted or cancelled in the
\* sleep, only when a whole interval has passed since the one before, and starts
\* the next interval: no two grants are closer, not even in the same instant, also
\* when the worker ended in between and another one was created.
Paced == [][hand # {} /\ hand' = {} /\ ~closed' => gap = Interval /\ gap' = 0]_vars

\* The anti-starvation rule: while lower waiters wait, at most BurstLimit urgent
\* ones are granted before one of them is.
BurstBounded == passed <= BurstLimit

\* Until the pacer is closed, a waiter is queued or in the hand of a worker that
\* will come round to it.  (A waiter in the hand of the worker that close cancels
\* is never answered.)
NobodyForgotten ==
    ~closed => \A w \in waiting : (Queued(w) \/ InHand(w)) /\ worker # "none"

\* A read that waits at NORMAL priority is granted, whatever keeps arriving,
\* unless the pacer is closed meanwhile.
NormalServed ==
    \A w \in Waiters :
        w \in waiting /\ (\E i \in DOMAIN queue[2] : queue[2][i] = w)
            ~> w \notin waiting \/ closed
===============================================================================
