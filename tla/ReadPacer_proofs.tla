--------------------------- MODULE ReadPacer_proofs ----------------------------
(* What TLAPS proves of ReadPacer for every set of reads, burst limit and     *)
(* interval.                                                                  *)
EXTENDS ReadPacer, TLAPS

-------------------------------------------------------------------------------
(* The inductive invariant.                                                   *)

\* The worker holds at most one waiter, only while it is running or asleep, and
\* will sleep exactly until the interval since the last grant is over.
HandOK ==
    /\ \A h1, h2 \in hand : h1 = h2
    /\ hand # {} => worker \in {"running", "asleep"}
    /\ worker = "asleep" => hand # {}
    /\ \A h \in hand : h.delay = Interval - gap
    /\ hand # {} /\ worker = "running" => gap = Interval

\* The burst in progress: an urgent waiter was only taken while the lower ones
\* could still be passed over once more.
BurstOK ==
    /\ passed <= streak
    /\ \A h \in hand : h.priority \in Urgent => passed < BurstLimit

Inv == TypeOK /\ HandOK /\ BurstOK

-------------------------------------------------------------------------------

LEMMA Constants == BurstLimit \in Nat /\ BurstLimit > 0 /\ Interval \in Nat /\ Interval > 0
BY PacerAssumption

\* A set of priorities that is not empty has a least element.
LEMMA LeastPriority ==
    ASSUME NEW S, S \subseteq Priorities, S # {}
    PROVE  \E p \in S : \A q \in S : p <= q
<1>1. CASE 0 \in S
    BY <1>1 DEF Priorities
<1>2. CASE 0 \notin S /\ 1 \in S
    BY <1>2 DEF Priorities
<1>3. CASE 0 \notin S /\ 1 \notin S /\ 2 \in S
    BY <1>3 DEF Priorities
<1>4. CASE 0 \notin S /\ 1 \notin S /\ 2 \notin S
    <2>1. \A x \in S : x = 3
        BY <1>4 DEF Priorities
    <2>2. PICK x \in S : x = 3
        BY <2>1
    <2> QED
        BY <2>1, <2>2
<1> QED
    BY <1>1, <1>2, <1>3, <1>4

\* The priority picked has a waiter, and after a full burst it is not urgent
\* unless no lower waiter is queued.
LEMMA Picked ==
    ASSUME NEW s \in Nat, \E p \in Priorities : queue[p] # << >>
    PROVE  /\ PickPriority(s) \in Priorities
           /\ queue[PickPriority(s)] # << >>
           /\ PickPriority(s) \in Urgent /\ LowerQueued => s < BurstLimit
<1> DEFINE open   == {p \in Priorities : queue[p] # << >>}
           forced == IF s >= BurstLimit /\ open \cap Lower # {}
                     THEN open \cap Lower ELSE open
<1>1. forced \subseteq open /\ open \subseteq Priorities /\ forced # {}
    OBVIOUS
<1>2. \E p \in forced : \A q \in forced : p <= q
    BY <1>1, LeastPriority
<1>3. PickPriority(s) \in forced
    BY <1>2 DEF PickPriority
<1>4. PickPriority(s) \in Urgent => PickPriority(s) \notin Lower
    BY DEF Urgent, Lower
<1>5. LowerQueued => open \cap Lower # {}
    BY DEF LowerQueued, Lower, Priorities
<1> QED
    BY <1>1, <1>3, <1>4, <1>5, Constants

LEMMA InitInv == Init => Inv
<1> SUFFICES ASSUME Init PROVE Inv
    OBVIOUS
<1>0. /\ waiting = {} /\ hand = {} /\ worker = "none"
      /\ gap = Interval /\ streak = 0 /\ passed = 0 /\ closed = FALSE
    BY Zenon DEF Init
<1>1. TypeOK
    <2>1. << >> \in Seq(Waiters)
        OBVIOUS
    <2>2. queue \in [Priorities -> Seq(Waiters)]
        BY <2>1, Zenon DEF Init
    <2>3. /\ waiting \in SUBSET Waiters /\ hand \in SUBSET Taken
          /\ worker \in {"none", "created", "running", "asleep"}
          /\ gap \in 0..Interval /\ streak \in 0..BurstLimit
          /\ passed \in 0..(BurstLimit + 1)
        BY <1>0, Constants
    <2>4. closed \in BOOLEAN
        BY <1>0, Zenon
    <2> QED
        BY <2>2, <2>3, <2>4, Zenon DEF TypeOK
<1> QED
    BY <1>0, <1>1, Constants DEF Inv, HandOK, BurstOK

-------------------------------------------------------------------------------
(* One lemma per action.                                                      *)

LEMMA AcquireKeepsInv ==
    ASSUME Inv, NEW w \in Waiters, NEW p \in Priorities, Acquire(w, p)
    PROVE  Inv'
<1>1. TypeOK'
    BY DEF Inv, TypeOK, Acquire
<1>2. HandOK'
    BY DEF Inv, HandOK, TypeOK, Acquire
<1>3. BurstOK'
    BY DEF Inv, BurstOK, TypeOK, Acquire
<1> QED
    BY <1>1, <1>2, <1>3 DEF Inv

LEMMA CancelKeepsInv ==
    ASSUME Inv, NEW w \in Waiters, Cancel(w)
    PROVE  Inv'
BY DEF Inv, TypeOK, HandOK, BurstOK, Cancel

LEMMA TakeKeepsInv ==
    ASSUME Inv, Take
    PROVE  Inv'
<1> DEFINE p == PickPriority(streak)
           w == Head(queue[p])
           h == [waiter |-> w, priority |-> p, delay |-> Interval - gap]
<1>0. /\ queue' = [queue EXCEPT ![p] = Tail(@)]
      /\ hand' = IF w \in waiting THEN {h} ELSE {}
      /\ worker' = IF w \in waiting /\ gap < Interval THEN "asleep" ELSE "running"
      /\ passed' = IF \E q \in Lower : queue'[q] # << >> THEN passed ELSE 0
      /\ UNCHANGED <<waiting, gap, streak, closed>>
    BY Zenon DEF Take
<1>1. /\ p \in Priorities /\ queue[p] # << >>
      /\ p \in Urgent /\ LowerQueued => streak < BurstLimit
    <2>1. streak \in Nat
        BY Constants DEF Inv, TypeOK
    <2> QED
        BY <2>1, Picked DEF Take
<1> HIDE DEF p
<1>2. /\ queue[p] \in Seq(Waiters) /\ w \in Waiters /\ Tail(queue[p]) \in Seq(Waiters)
      /\ gap \in 0..Interval
    BY <1>1 DEF Inv, TypeOK
<1>3. h \in Taken /\ h.delay = Interval - gap /\ h.priority = p
    BY <1>1, <1>2, Constants DEF Taken
<1>5. passed' \in {passed, 0}
    BY <1>0
<1> HIDE DEF h, w
<1>6. TypeOK'
    BY <1>1, <1>2, <1>3, <1>0, <1>5, Constants DEF Inv, TypeOK
<1>7. HandOK'
    BY <1>0, <1>2, <1>3, Constants DEF HandOK
<1>8. p \in Urgent => passed' < BurstLimit
    <2>1. CASE LowerQueued
        BY <1>1, <1>5, <2>1, Constants DEF Inv, BurstOK, TypeOK
    <2>2. CASE ~LowerQueued
        <3>1. \A q \in Lower : queue'[q] = << >> \/ q = p
            BY <1>1, <1>0, <2>2 DEF Inv, TypeOK, LowerQueued, Lower, Priorities
        <3>2. p \in Urgent => p \notin Lower
            BY DEF Urgent, Lower
        <3> QED
            BY <1>0, <3>1, <3>2, Constants
    <2> QED
        BY <2>1, <2>2
<1>9. BurstOK'
    BY <1>3, <1>0, <1>5, <1>8, Constants DEF Inv, BurstOK, TypeOK
<1> QED
    BY <1>6, <1>7, <1>9 DEF Inv

LEMMA FinishKeepsInv ==
    ASSUME Inv, Finish
    PROVE  Inv'
<1>1. TypeOK' /\ HandOK'
    BY DEF Inv, TypeOK, HandOK, Finish
<1> QED
    BY <1>1 DEF Inv, BurstOK, Finish

LEMMA GrantKeepsInv ==
    ASSUME Inv, Grant
    PROVE  Inv'
<1>1. PICK h \in hand :
          LET urgent == h.priority \in Urgent IN
          /\ waiting' = waiting \ {h.waiter}
          /\ streak' = IF ~urgent THEN 0
                       ELSE IF streak < BurstLimit THEN streak + 1 ELSE streak
          /\ passed' = IF ~(urgent /\ LowerQueued) THEN 0
                       ELSE IF passed <= BurstLimit THEN passed + 1 ELSE passed
    BY DEF Grant
<1>2. /\ streak \in 0..BurstLimit /\ passed \in 0..(BurstLimit + 1) /\ passed <= streak
      /\ h.priority \in Urgent => passed < BurstLimit
    BY DEF Inv, TypeOK, BurstOK
<1>3. gap' = 0 /\ hand' = {} /\ worker' = "running" /\ queue' = queue /\ closed' = closed
    BY DEF Grant
<1>4. /\ streak' \in 0..BurstLimit /\ passed' \in 0..(BurstLimit + 1)
      /\ passed' <= streak'
    BY <1>1, <1>2, Constants
<1> QED
    BY <1>1, <1>3, <1>4, Constants DEF Inv, TypeOK, HandOK, BurstOK

LEMMA TickKeepsInv ==
    ASSUME Inv, Tick
    PROVE  Inv'
<1> DEFINE Older(h) == [h EXCEPT !.delay = IF @ > 0 THEN @ - 1 ELSE 0]
<1>1. gap \in 0..Interval /\ gap < Interval /\ gap' = gap + 1
      /\ hand' = {Older(h) : h \in hand}
    BY DEF Inv, TypeOK, Tick
<1>2. ASSUME NEW h \in hand
      PROVE  /\ Older(h) \in Taken /\ Older(h).delay = Interval - gap'
             /\ Older(h).priority = h.priority
    <2>1. h \in Taken /\ h.delay = Interval - gap
        BY DEF Inv, TypeOK, HandOK
    <2>2. h.delay > 0 /\ h.delay - 1 \in 0..Interval /\ h.delay - 1 = Interval - gap'
        BY <1>1, <2>1, Constants
    <2>3. Older(h) = [h EXCEPT !.delay = h.delay - 1]
        BY <2>2
    <2> QED
        BY <2>1, <2>2, <2>3 DEF Taken
<1> HIDE DEF Older
<1>3. TypeOK'
    BY <1>1, <1>2, Constants DEF Inv, TypeOK, Tick
<1>4. HandOK'
    BY <1>1, <1>2 DEF Inv, HandOK, Tick, Yielded
<1>5. BurstOK'
    BY <1>1, <1>2 DEF Inv, BurstOK, Tick
<1> QED
    BY <1>3, <1>4, <1>5 DEF Inv

LEMMA CloseKeepsInv ==
    ASSUME Inv, Close
    PROVE  Inv'
<1>1. TypeOK'
    BY Constants DEF Inv, TypeOK, Close, Priorities
<1>2. HandOK'
    BY DEF HandOK, Close
<1>3. BurstOK'
    BY DEF Inv, TypeOK, BurstOK, Close
<1> QED
    BY <1>1, <1>2, <1>3 DEF Inv

LEMMA StepKeepsInv == Inv /\ [Next]_vars => Inv'
<1> SUFFICES ASSUME Inv, [Next]_vars PROVE Inv'
    OBVIOUS
<1>1. CASE UNCHANGED vars
    BY <1>1 DEF Inv, TypeOK, HandOK, BurstOK, vars
<1> QED
    BY <1>1, AcquireKeepsInv, CancelKeepsInv, TakeKeepsInv, FinishKeepsInv,
       GrantKeepsInv, TickKeepsInv, CloseKeepsInv DEF Next

LEMMA Invariance == Spec => []Inv
BY InitInv, StepKeepsInv, PTL DEF Spec

-------------------------------------------------------------------------------
(* The theorems.                                                              *)

\* Every variable keeps its type: the sleep computed by the worker is never
\* longer than the interval, and never negative.
THEOREM TypeCorrect == Spec => []TypeOK
<1>1. Inv => TypeOK
    BY DEF Inv
<1> QED
    BY <1>1, Invariance, PTL

\* The anti-starvation rule, for every burst limit: no more than BurstLimit urgent
\* reads overtake the lower ones that wait.
THEOREM BurstsAreBounded == Spec => []BurstBounded
<1>1. Inv => BurstBounded
    BY Constants DEF Inv, TypeOK, BurstOK, BurstBounded
<1> QED
    BY <1>1, Invariance, PTL

\* The read budget, for every interval: a waiter is granted only when a whole
\* interval has passed since the grant before, and starts the next interval.
THEOREM GrantsArePaced == Spec => Paced
<1>1. Inv /\ [Next]_vars =>
          [hand # {} /\ hand' = {} /\ ~closed' => gap = Interval /\ gap' = 0]_vars
    <2> SUFFICES ASSUME Inv, Next, hand # {}, hand' = {}, ~closed'
                 PROVE  gap = Interval /\ gap' = 0
        BY DEF vars
    <2>1. gap \in 0..Interval
        BY DEF Inv, TypeOK
    <2>2. CASE Grant
        <3>1. PICK h \in hand : h.delay = 0 \/ worker = "running"
            BY <2>2 DEF Grant
        <3>2. h.delay = Interval - gap /\ (worker = "running" => gap = Interval)
            BY DEF Inv, HandOK
        <3> QED
            BY <2>1, <2>2, <3>1, <3>2, Constants DEF Grant
    <2>3. CASE Tick
        <3>1. PICK h \in hand : TRUE
            OBVIOUS
        <3>2. [h EXCEPT !.delay = IF @ > 0 THEN @ - 1 ELSE 0] \in hand'
            BY <2>3, <3>1 DEF Tick
        <3> QED
            BY <3>2
    <2>4. CASE \/ \E w \in Waiters : Cancel(w) \/ \E p \in Priorities : Acquire(w, p)
               \/ Take \/ Finish \/ Close
        BY <2>4 DEF Cancel, Acquire, Take, Finish, Close
    <2> QED
        BY <2>2, <2>3, <2>4 DEF Next
<1> QED
    BY <1>1, Invariance, PTL DEF Spec, Paced

-------------------------------------------------------------------------------
(* Nobody is forgotten while the pacer is open.                               *)

\* A waiter is in a queue or in the hand, and a pacer without a worker is empty.
Kept ==
    /\ \A w \in waiting : Queued(w) \/ InHand(w)
    /\ worker = "none" => \A p \in Priorities : queue[p] = << >>

LEMMA StepKeepsKept ==
    ASSUME Inv, Inv', closed \/ Kept, [Next]_vars
    PROVE  closed' \/ Kept'
<1>1. CASE closed
    BY <1>1 DEF Next, vars, Acquire, Cancel, Take, Finish, Grant, Tick, Close
<1> SUFFICES ASSUME Kept PROVE closed' \/ Kept'
    BY <1>1
<1>2. \A q \in Priorities : queue[q] \in Seq(Waiters)
    BY DEF Inv, TypeOK
<1>3. ASSUME NEW w \in Waiters, NEW p \in Priorities, Acquire(w, p)
      PROVE  Kept'
    <2>1. queue' = [queue EXCEPT ![p] = Append(@, w)] /\ queue \in [Priorities -> Seq(Waiters)]
        BY <1>3 DEF Acquire, Inv, TypeOK
    <2>2. /\ Len(queue[p]) \in Nat /\ DOMAIN queue'[p] = 1..(Len(queue[p]) + 1)
          /\ queue'[p][Len(queue[p]) + 1] = w
          /\ \A i \in DOMAIN queue[p] : i \in DOMAIN queue'[p] /\ queue'[p][i] = queue[p][i]
        BY <1>2, <2>1
    <2>3. Queued(w)' /\ \A v : Queued(v) => Queued(v)'
        BY <2>1, <2>2 DEF Queued
    <2>4. \A v \in waiting' : Queued(v)' \/ InHand(v)'
        BY <1>3, <2>3 DEF Acquire, Kept, InHand
    <2> QED
        BY <1>3, <2>4 DEF Acquire, Kept
<1>4. ASSUME NEW w \in Waiters, Cancel(w)
      PROVE  Kept'
    BY <1>4 DEF Cancel, Kept, Queued, InHand
<1>5. CASE Take
    <2> DEFINE p == PickPriority(streak)
    <2>1. p \in Priorities /\ queue[p] # << >>
        <3>1. streak \in Nat
            BY Constants DEF Inv, TypeOK
        <3> QED
            BY <1>5, <3>1, Picked DEF Take
    <2>2. /\ queue' = [queue EXCEPT ![p] = Tail(@)] /\ queue \in [Priorities -> Seq(Waiters)]
          /\ hand = {} /\ waiting' = waiting /\ worker' # "none"
        BY <1>5 DEF Take, Inv, TypeOK
    <2>4. Head(queue[p]) \in waiting => \E h \in hand' : h.waiter = Head(queue[p])
        <3> DEFINE h == [waiter |-> Head(queue[p]), priority |-> p, delay |-> Interval - gap]
        <3>1. Head(queue[p]) \in waiting => hand' = {h}
            BY <1>5, Zenon DEF Take
        <3>2. h.waiter = Head(queue[p])
            OBVIOUS
        <3> HIDE DEF h
        <3> QED
            BY <3>1, <3>2, Zenon
    <2> HIDE DEF p
    <2>3. ASSUME NEW v \in waiting PROVE Queued(v)' \/ InHand(v)'
        <3>1. PICK q \in Priorities : \E i \in DOMAIN queue[q] : queue[q][i] = v
            BY <2>2, <2>3 DEF Kept, Queued, InHand
        <3>2. PICK i \in DOMAIN queue[q] : queue[q][i] = v
            BY <3>1
        <3>3. CASE q # p
            <4>1. queue'[q] = queue[q]
                BY <2>2, <3>3
            <4> QED
                BY <3>2, <4>1, Zenon DEF Queued
        <3>4. CASE q = p /\ i = 1
            <4>1. v = Head(queue[p])
                BY <1>2, <2>1, <3>2, <3>4
            <4> QED
                BY <2>3, <2>4, <4>1 DEF InHand
        <3>5. CASE q = p /\ i # 1
            <4>1. i - 1 \in DOMAIN Tail(queue[p]) /\ Tail(queue[p])[i - 1] = v
                BY <1>2, <2>1, <3>2, <3>5
            <4>2. queue'[p] = Tail(queue[p])
                BY <2>1, <2>2
            <4> QED
                BY <2>1, <4>1, <4>2, Zenon DEF Queued
        <3> QED
            BY <3>3, <3>4, <3>5
    <2> QED
        BY <2>2, <2>3 DEF Kept
<1>6. CASE Finish
    BY <1>6 DEF Finish, Kept, Queued, InHand
<1>7. CASE Grant
    BY <1>7 DEF Grant, Kept, Queued, InHand, Inv, HandOK
<1>8. CASE Tick
    <2> DEFINE Older(h) == [h EXCEPT !.delay = IF @ > 0 THEN @ - 1 ELSE 0]
    <2>1. hand' = {Older(h) : h \in hand} /\ UNCHANGED <<queue, waiting, worker>>
        BY <1>8 DEF Tick
    <2>2. \A h \in hand : Older(h).waiter = h.waiter
        BY DEF Inv, TypeOK, Taken
    <2> HIDE DEF Older
    <2>3. \A v : InHand(v) => InHand(v)'
        BY <2>1, <2>2 DEF InHand
    <2> QED
        BY <2>1, <2>3 DEF Kept, Queued
<1>9. CASE Close
    BY <1>9 DEF Close
<1>10. CASE UNCHANGED vars
    BY <1>10 DEF vars, Kept, Queued, InHand
<1> QED
    BY <1>3, <1>4, <1>5, <1>6, <1>7, <1>8, <1>9, <1>10 DEF Next

\* While the broker is not closed, every read that waits for a grant is in a queue
\* or in the worker's hand and there is a worker to serve it: no wake-up is lost.
THEOREM NoReadForgotten == Spec => []NobodyForgotten
<1>1. Init => closed \/ Kept
    BY DEF Init, Kept
<1>2. Inv /\ Inv' /\ (closed \/ Kept) /\ [Next]_vars => (closed \/ Kept)'
    BY StepKeepsKept
<1>3. Inv /\ (closed \/ Kept) => NobodyForgotten
    <2> SUFFICES ASSUME Inv, Kept, NEW w \in waiting PROVE worker # "none"
        BY DEF NobodyForgotten, Kept
    <2>1. Queued(w) => worker # "none"
        BY DEF Kept, Queued
    <2>2. InHand(w) => worker # "none"
        BY DEF InHand, Inv, HandOK
    <2> QED
        BY <2>1, <2>2 DEF Kept
<1> QED
    BY <1>1, <1>2, <1>3, Invariance, PTL DEF Spec
===============================================================================
