------------------------ MODULE ResetReminders_proofs ------------------------
(***************************************************************************)
(* Proofs about the reset reminders, for any rows, schedules, delays and   *)
(* bounds: types, the refinement of Announcements by the cells of the tab, *)
(* the due-time job that stays armed, that a repeated post has cost a      *)
(* fault, that the schedule passes over no open reset, and that an         *)
(* undisturbed bot announces each reset before it happens.  The refinement *)
(* and the repeats need reminders that are sent at most one cycle ahead:   *)
(* with a longer lead the tab could hold a schedule that is still open and *)
(* behind what it says was posted.                                         *)
(***************************************************************************)
EXTENDS ResetReminders, FiniteSetTheorems, WellFoundedInduction, TLAPS

LEMMA Constants ==
    /\ NRows \in Nat \ {0} /\ MaxTime \in Nat /\ MaxOcc \in Nat \ {0} /\ MaxFaults \in Nat
    /\ RetryDelay \in Nat \ {0} /\ ReloadDelay \in Nat \ {0}
    /\ None \notin Int
    /\ \A r \in Rows : First[r] \in Nat /\ Cycle[r] \in Nat /\ Lead[r] \in Nat
    /\ \A r \in Rows : Due(r, MaxOcc) > MaxTime
BY ReminderConstants

-----------------------------------------------------------------------------
(* Numbers and dates.                                                      *)

\* A set of natural numbers has a least one.  Two of them are in the order of
\* the intervals they bound, and finite sets are well-founded by inclusion.
LEMMA EarlierExists ==
    ASSUME NEW S \in SUBSET Nat, S # {}
    PROVE  Earlier(S) \in S /\ \A u \in S : Earlier(S) <= u
<1> DEFINE T == {0..n : n \in S}
           R == StrictSubsetOrdering(Nat)
<1>1. T \subseteq FiniteSubsetsOf(Nat)
    <2>1. \A n \in Nat : IsFiniteSet(0..n) /\ 0..n \in SUBSET Nat
        BY FS_Interval
    <2> QED
        BY <2>1 DEF FiniteSubsetsOf
<1>2. T # {}
    OBVIOUS
<1>3. IsWellFoundedOn(R, FiniteSubsetsOf(Nat))
    BY FS_StrictSubsetOrderingWellFounded
<1> HIDE DEF T, R
<1>4. PICK x \in T : \A y \in T : ~(<<y, x>> \in R)
    BY <1>1, <1>2, <1>3, WFMin
<1>5. PICK n \in S : x = 0..n
    BY DEF T
<1>6. \A m \in S : n <= m
    <2> SUFFICES ASSUME NEW m \in S, m < n PROVE FALSE
        OBVIOUS
    <2>1. 0..m \in T
        BY DEF T
    <2>2. 0..m \subseteq 0..n /\ n \in 0..n /\ n \notin 0..m
        OBVIOUS
    <2>3. 0..m \in SUBSET Nat /\ 0..n \in SUBSET Nat
        OBVIOUS
    <2>4. <<0..m, x>> \in R
        BY <1>5, <2>2, <2>3 DEF R, StrictSubsetOrdering
    <2> QED
        BY <1>4, <2>1, <2>4
<1> QED
    BY <1>6 DEF Earlier

LEMMA DueIsInt == \A r \in Rows : \A k \in Int : Due(r, k) \in Int /\ Reset(r, k) \in Int
<1>1. \A k, c \in Int : (k - 1) * c \in Int
    OBVIOUS
<1> QED
    BY <1>1, Constants DEF Due, Reset

LEMMA DueIsNat == \A r \in Rows : \A k \in 1..MaxOcc : Due(r, k) \in Nat
<1>1. \A k, c \in Nat : k * c \in Nat
    OBVIOUS
<1>2. \A k \in 1..MaxOcc : k - 1 \in Nat
    OBVIOUS
<1> QED
    BY <1>1, <1>2, Constants DEF Due

\* A later occurrence is due a cycle later or more.
LEMMA DueSteps ==
    ASSUME NEW r \in Rows, NEW j \in Int, NEW k \in Int, j < k
    PROVE  Due(r, j) + Cycle[r] <= Due(r, k)
<1>1. \A c \in Nat : \A a, b \in Int : a + 1 <= b => a * c + c <= b * c
    <2> SUFFICES ASSUME NEW c \in Nat, NEW a \in Int, NEW b \in Int, a + 1 <= b
                 PROVE  a * c + c <= b * c
        OBVIOUS
    <2>1. \A x, y \in Nat : x * y \in Nat
        OBVIOUS
    <2>2. (b - a - 1) * c \in Nat
        BY <2>1
    <2>3. (b - a - 1) * c = b * c - a * c - c
        OBVIOUS
    <2> QED
        BY <2>2, <2>3
<1>2. (j - 1) * Cycle[r] + Cycle[r] <= (k - 1) * Cycle[r]
    BY <1>1, Constants
<1>3. (j - 1) * Cycle[r] \in Int /\ (k - 1) * Cycle[r] \in Int
    BY Constants
<1> QED
    BY <1>2, <1>3, Constants DEF Due

LEMMA NextOccurrence ==
    ASSUME NEW r \in Rows, NEW t \in 0..MaxTime
    PROVE  /\ FromAnchor(r, t) \in 1..MaxOcc
           /\ \A k \in 1..MaxOcc : Advanced(r, k, t) \in 1..MaxOcc /\ Following(k) \in 1..MaxOcc
<1>1. Due(r, MaxOcc) \in Int /\ Due(r, MaxOcc) >= t /\ Reset(r, MaxOcc) > t
    BY Constants, DueIsInt DEF Reset
<1>2. FromAnchor(r, t) \in 1..MaxOcc
    <2> DEFINE S == {k \in 1..MaxOcc : Due(r, k) >= t}
    <2>1. S \in SUBSET Nat /\ MaxOcc \in S
        BY <1>1, Constants
    <2>2. Earlier(S) \in S
        <3> HIDE DEF S
        <3> QED
            BY <2>1, EarlierExists
    <2> QED
        BY <2>2 DEF FromAnchor
<1>3. ASSUME NEW k \in 1..MaxOcc
      PROVE  Advanced(r, k, t) \in 1..MaxOcc /\ Following(k) \in 1..MaxOcc
    <2> DEFINE S == {j \in k..MaxOcc : Reset(r, j) > t}
    <2>1. S \in SUBSET Nat /\ MaxOcc \in S
        BY <1>1, Constants
    <2>2. Earlier(S) \in S
        <3> HIDE DEF S
        <3> QED
            BY <2>1, EarlierExists
    <2>3. Following(k) \in 1..MaxOcc
        BY Constants DEF Following
    <2> QED
        BY <2>2, <2>3 DEF Advanced
<1> QED
    BY <1>2, <1>3

\* What the job is armed for and when the tab is read again are dates.
LEMMA DatesType ==
    ASSUME NEW c \in [Rows -> Row], NEW l \in BOOLEAN, NEW t \in 0..MaxTime
    PROVE  /\ LoadAfter(c, t) \in DueTimes
           /\ EarliestCachedDue(c, l) \in DueTimes \cup {None}
           /\ EarliestCachedDue(c, l) # None <=> l /\ \E r \in Rows : c[r].next # 0
           /\ t + RetryDelay \in DueTimes
<1>1. Scheduled(c) \subseteq {Due(r, k) : r \in Rows, k \in 1..MaxOcc}
      /\ Scheduled(c) \subseteq Nat
    <2>1. \A r \in Rows : c[r].next # 0 => c[r].next \in 1..MaxOcc
        BY DEF Row, Occ
    <2> QED
        BY <2>1, DueIsNat DEF Scheduled
<1>2. \A S \in SUBSET Scheduled(c) : S # {} => Earlier(S) \in Scheduled(c)
    BY <1>1, EarlierExists
<1>3. t + ReloadDelay \in DueTimes /\ t + RetryDelay \in DueTimes
    BY Constants DEF DueTimes
<1>4. Scheduled(c) \subseteq DueTimes
    BY <1>1 DEF DueTimes
<1>5. LoadAfter(c, t) \in DueTimes
    <2> DEFINE future == {d \in Scheduled(c) : d > t}
    <2>1. future \in SUBSET Scheduled(c)
        OBVIOUS
    <2> HIDE DEF future
    <2>2. (IF future = {} THEN t + ReloadDelay ELSE Earlier(future)) \in DueTimes
        BY <2>1, <1>2, <1>3, <1>4
    <2> QED
        BY <2>2 DEF LoadAfter, future
<1>6. None \notin Scheduled(c)
    BY <1>1, Constants
<1>7. Scheduled(c) # {} <=> \E r \in Rows : c[r].next # 0
    BY DEF Scheduled
<1> QED
    BY <1>2, <1>3, <1>4, <1>5, <1>6, <1>7 DEF EarliestCachedDue

-----------------------------------------------------------------------------
(* The invariant.                                                          *)

LeadWithinCycle == \A r \in Rows : Lead[r] <= Cycle[r]

Proc == [owner: {"none", "job", "reconcile"}, step: Steps,
         row: 1..(NRows + 1), now: 0..MaxTime, occ: Occ]

Writing == {"sent", "next", "msg"}

\* About to post, the row is open and not posted; having posted, the last
\* message, the memory and the cells to write speak of the same occurrence.
ProcOK ==
    /\ proc.now <= now
    /\ Locked =>
           /\ proc.step # "load" => loaded
           /\ proc.step = "send" \/ proc.step \in Writing => proc.row \in Rows
           /\ proc.step = "send" =>
                  /\ cache[proc.row].next \in 1..MaxOcc
                  /\ Due(proc.row, cache[proc.row].next) <= proc.now
                  /\ LeadWithinCycle => cache[proc.row].sent < cache[proc.row].next
           /\ proc.step \in Writing => proc.occ \in 1..MaxOcc
           /\ proc.step = "sent" =>
                  /\ Due(proc.row, proc.occ) <= proc.now
                  /\ posts[proc.row] # <<>>
                  /\ posts[proc.row][Len(posts[proc.row])] = proc.occ
                  /\ cache[proc.row].sent = proc.occ
                  /\ LeadWithinCycle => sheet[proc.row].sent < proc.occ

\* What was posted was due, for the processing under way too; the memory knows
\* of it before the tab does, and a schedule in memory is in the tab.
RowOK(r) ==
    /\ LeadWithinCycle /\ loaded => sheet[r].sent <= cache[r].sent
    /\ \A k \in {sheet[r].sent, cache[r].sent} : k # 0 =>
           /\ Due(r, k) <= now
           /\ Locked => Due(r, k) <= proc.now
    /\ cache[r].next # 0 => sheet[r].next # 0

ArmedOK == job.state = "run" \/ job.next # None => loaded /\ \E r \in Rows : cache[r].next # 0

OwnerOK == proc.owner = "job" => job.state = "run"

Inv == TypeOK /\ ProcOK /\ (\A r \in Rows : RowOK(r)) /\ ArmedOK /\ OwnerOK

LEMMA InitInv == Init => Inv
<1> SUFFICES ASSUME Init PROVE Inv
    OBVIOUS
<1>1. 0 \in Occ /\ 1 \in Occ /\ 0 \in 0..MaxTime /\ 0 \in 0..MaxFaults
      /\ 1 \in 1..(NRows + 1)
    BY Constants DEF Occ
<1>2. NoRecords \in [Rows -> Row]
    BY <1>1 DEF NoRecords, Row
<1>3. sheet \in [Rows -> Row] /\ \A r \in Rows : sheet[r].sent = 0
    BY <1>1 DEF Init, Row
<1>4. Idle \in Proc /\ Idle.owner = "none" /\ Idle.now = 0
    BY <1>1 DEF Idle, Proc, Steps
<1>5. posts \in [Rows -> Seq(Occ)] /\ live \in [Rows -> SUBSET Nat]
    BY DEF Init
<1>6. job \in [state: {"off", "wait", "run"}, next: DueTimes \cup {None}]
    BY DEF Init
<1>7. TypeOK
    BY <1>1, <1>2, <1>3, <1>4, <1>5, <1>6 DEF Init, TypeOK, Proc
<1>8. \A r \in Rows : RowOK(r)
    BY <1>3, <1>4 DEF Init, RowOK, NoRecords
<1> QED
    BY <1>4, <1>7, <1>8 DEF Init, Inv, ProcOK, ArmedOK, OwnerOK, Locked

-----------------------------------------------------------------------------
(* Steps that leave the records alone.                                     *)

LEMMA QuietKeeps ==
    ASSUME Inv, UNCHANGED <<now, sheet, loaded, cache>>, TypeOK', ArmedOK', OwnerOK',
           \/ proc' = Idle
           \/ /\ proc'.step \in {"row", "load"}
              /\ proc'.step = "row" => loaded
              /\ proc'.now = now \/ (Locked /\ proc'.now = proc.now)
    PROVE  Inv'
<1>1. now \in 0..MaxTime /\ proc.now \in 0..MaxTime /\ proc.now <= now
    BY DEF Inv, TypeOK, ProcOK
<1>2. Idle.owner = "none" /\ Idle.now = 0
    BY DEF Idle
<1>3. ProcOK'
    BY <1>1, <1>2 DEF ProcOK, Locked, Writing
<1>4. ASSUME NEW r \in Rows PROVE RowOK(r)'
    <2>1. RowOK(r)
        BY DEF Inv
    <2> QED
        BY <1>1, <1>2, <2>1 DEF RowOK, Locked
<1> QED
    BY <1>3, <1>4 DEF Inv

LEMMA IdleType == Idle \in Proc
BY Constants DEF Idle, Proc, Steps, Occ

\* The job when it is armed at the end of a callback or by the reconcile.
LEMMA RearmType ==
    ASSUME Inv, NEW due, due = EarliestCachedDue(cache, loaded), Rearm(due) \/ At(due),
           UNCHANGED <<loaded, cache>>
    PROVE  /\ job' \in [state: {"off", "wait", "run"}, next: DueTimes \cup {None}]
           /\ ArmedOK'
           /\ job.state = "run" \/ job.next # None => job'.next # None
           /\ At(due) /\ job.state = "run" => job'.state = "run"
<1>1. /\ due \in DueTimes \cup {None}
      /\ due # None <=> loaded /\ \E r \in Rows : cache[r].next # 0
      /\ now + RetryDelay \in DueTimes
    BY DatesType DEF Inv, TypeOK
<1>2. now + RetryDelay # None
    BY Constants DEF Inv, TypeOK
<1>3. job.state \in {"off", "wait", "run"}
    BY DEF Inv, TypeOK
<1>4. CASE Rearm(due)
    <2> DEFINE n == IF due # None /\ due <= now THEN now + RetryDelay ELSE due
    <2>1. job' = [state |-> "wait", next |-> n]
        BY <1>4 DEF Rearm
    <2>2. n \in DueTimes \cup {None} /\ (n # None <=> due # None)
        BY <1>1, <1>2
    <2> HIDE DEF n
    <2> QED
        BY <2>1, <2>2, <1>1, <1>4 DEF Inv, ArmedOK, At
<1>5. CASE At(due)
    <2> DEFINE st == IF job.state = "off" THEN "wait" ELSE job.state
    <2>1. job' = [state |-> st, next |-> due] /\ st \in {"wait", "run"}
          /\ (st = "run" <=> job.state = "run")
        BY <1>3, <1>5 DEF At
    <2> HIDE DEF st
    <2> QED
        BY <2>1, <1>1 DEF Inv, ArmedOK
<1> QED
    BY <1>4, <1>5

LEMMA BeginType ==
    ASSUME Inv, NEW owner \in {"job", "reconcile"}, NEW after, Begin(owner, after)
    PROVE  /\ proc' \in Proc /\ proc'.now = now
           /\ proc'.step \in {"row", "load"} /\ (proc'.step = "row" => loaded)
<1> DEFINE st == IF after # None /\ now < after /\ loaded THEN "row" ELSE "load"
<1>1. st \in {"row", "load"} /\ (st = "row" => loaded)
    OBVIOUS
<1>2. now \in 0..MaxTime
    BY DEF Inv, TypeOK
<1>3. proc' = [owner |-> owner, row |-> 1, now |-> now, occ |-> 0, step |-> st]
    BY DEF Begin
<1> HIDE DEF st
<1> QED
    BY <1>1, <1>2, <1>3, Constants DEF Proc, Steps, Occ

LEMMA DueJobKeeps == ASSUME Inv, DueJob PROVE Inv'
<1>1. UNCHANGED <<now, sheet, loaded, cache, loadAfter, posts, live, faults>>
    BY DEF DueJob, store
<1>2. CASE Rearm(EarliestCachedDue(cache, loaded)) /\ UNCHANGED proc /\ Locked
    <2>1. job' \in [state: {"off", "wait", "run"}, next: DueTimes \cup {None}] /\ ArmedOK'
        BY <1>1, <1>2, RearmType
    <2>2. TypeOK'
        BY <1>1, <1>2, <2>1 DEF Inv, TypeOK
    <2>3. OwnerOK'
        BY <1>2 DEF DueJob, Inv, OwnerOK
    <2> QED
        BY <1>1, <1>2, <2>1, <2>2, <2>3 DEF Inv, ProcOK, RowOK, Locked
<1>3. CASE job' = [state |-> "run", next |-> None] /\ Begin("job", loadAfter)
    <2>1. ArmedOK' /\ OwnerOK'
        BY <1>1, <1>3 DEF DueJob, Inv, ArmedOK, OwnerOK
    <2>2. /\ proc' \in Proc /\ proc'.now = now
          /\ proc'.step \in {"row", "load"} /\ (proc'.step = "row" => loaded)
        BY <1>3, BeginType
    <2>3. TypeOK'
        BY <1>1, <1>3, <2>2 DEF Inv, TypeOK, Proc
    <2> QED
        BY <1>1, <2>1, <2>2, <2>3, QuietKeeps
<1> QED
    BY <1>2, <1>3 DEF DueJob

LEMMA ReconcileKeeps == ASSUME Inv, Reconcile PROVE Inv'
<1>1. UNCHANGED <<now, sheet, loaded, cache, posts, live, faults>> /\ loadAfter' = None
    BY DEF Reconcile
<1>2. CASE At(EarliestCachedDue(cache, loaded)) /\ UNCHANGED proc
    <2>1. job' \in [state: {"off", "wait", "run"}, next: DueTimes \cup {None}] /\ ArmedOK'
        BY <1>1, <1>2, RearmType
    <2>2. TypeOK'
        BY <1>1, <1>2, <2>1 DEF Inv, TypeOK
    <2>3. OwnerOK'
        BY <1>1, <1>2, RearmType DEF Inv, OwnerOK
    <2> QED
        BY <1>1, <1>2, <2>1, <2>2, <2>3 DEF Inv, ProcOK, RowOK, Locked
<1>3. CASE Begin("reconcile", None) /\ UNCHANGED job
    <2>1. ArmedOK' /\ OwnerOK'
        BY <1>1, <1>3 DEF Inv, ArmedOK, OwnerOK, Begin
    <2>2. /\ proc' \in Proc /\ proc'.now = now
          /\ proc'.step \in {"row", "load"} /\ (proc'.step = "row" => loaded)
        BY <1>3, BeginType
    <2>3. TypeOK'
        BY <1>1, <1>3, <2>2 DEF Inv, TypeOK, Proc
    <2> QED
        BY <1>1, <2>1, <2>2, <2>3, QuietKeeps
<1> QED
    BY <1>2, <1>3 DEF Reconcile

\* The lock is released, with the job armed again by its owner.
LEMMA FinishKeeps ==
    ASSUME Inv, Finish, UNCHANGED <<now, store, posts, live>>, faults' \in 0..MaxFaults
    PROVE  Inv'
<1>1. proc' = Idle /\ UNCHANGED <<loaded, cache>>
      /\ (Rearm(EarliestCachedDue(cache, loaded)) \/ At(EarliestCachedDue(cache, loaded)))
    BY DEF Finish, store
<1>2. job' \in [state: {"off", "wait", "run"}, next: DueTimes \cup {None}] /\ ArmedOK'
    BY <1>1, RearmType
<1>3. TypeOK'
    BY <1>1, <1>2, IdleType DEF Inv, TypeOK, store, Proc
<1>4. OwnerOK'
    BY <1>1 DEF OwnerOK, Idle
<1> QED
    BY <1>1, <1>2, <1>3, <1>4, QuietKeeps DEF store

LEMMA FaultType == ASSUME Inv, Fault PROVE faults' \in 0..MaxFaults
<1>1. faults \in 0..MaxFaults /\ faults < MaxFaults /\ faults' = faults + 1
    BY DEF Inv, TypeOK, Fault
<1> QED
    BY <1>1, Constants

\* The processing goes on to a row, or to the end of the rows.
LEMMA RowsType ==
    ASSUME Inv, NEW r \in Rows, proc.row = r
    PROVE  /\ NextRow => proc' \in Proc /\ proc'.step = "row" /\ proc'.now = proc.now
                         /\ proc'.owner = proc.owner
           /\ \A s \in Steps, k \in Occ :
                  [proc EXCEPT !.step = s, !.occ = k] \in Proc
           /\ \A s \in Steps : [proc EXCEPT !.step = s] \in Proc
<1>1. proc \in Proc /\ r + 1 \in 1..(NRows + 1) /\ 0 \in Occ
    BY Constants DEF Inv, TypeOK, Proc, Rows, Occ
<1> QED
    BY <1>1 DEF NextRow, Proc, Steps

LEMMA DoneKeeps == ASSUME Inv, Done PROVE Inv'
BY FinishKeeps DEF Done, Inv, TypeOK

LEMMA LoadFailKeeps == ASSUME Inv, LoadFail PROVE Inv'
<1>1. /\ faults' \in 0..MaxFaults /\ Locked
      /\ UNCHANGED <<now, sheet, loaded, cache, posts, live>>
    BY FaultType DEF LoadFail
<1>2. CASE loaded /\ loadAfter' = LoadAfter(cache, proc.now)
           /\ proc' = [proc EXCEPT !.step = "row"] /\ UNCHANGED job
    <2>1. loadAfter' \in DueTimes
        BY <1>2, DatesType DEF Inv, TypeOK
    <2>2. proc' \in Proc /\ proc'.step = "row" /\ proc'.now = proc.now
        BY <1>2 DEF Inv, TypeOK, Proc, Steps
    <2>3. TypeOK'
        BY <1>1, <1>2, <2>1, <2>2 DEF Inv, TypeOK, Proc
    <2>4. ArmedOK' /\ OwnerOK'
        BY <1>1, <1>2 DEF Inv, ArmedOK, OwnerOK, TypeOK
    <2> QED
        BY <1>1, <1>2, <2>2, <2>3, <2>4, QuietKeeps
<1>3. CASE UNCHANGED loadAfter /\ Finish
    BY <1>1, <1>3, FinishKeeps DEF store
<1> QED
    BY <1>2, <1>3 DEF LoadFail

LEMMA UnexpectedKeeps == ASSUME Inv, Unexpected PROVE Inv'
<1>1. /\ faults' \in 0..MaxFaults /\ proc' = Idle
      /\ UNCHANGED <<now, sheet, loaded, cache, loadAfter, posts, live>>
    BY FaultType DEF Unexpected, store
<1>2. /\ job' \in [state: {"off", "wait", "run"}, next: DueTimes \cup {None}]
      /\ job' = job \/ job'.next # None
    <2>1. now + RetryDelay \in DueTimes /\ now + RetryDelay # None
        <3>1. now \in 0..MaxTime /\ cache \in [Rows -> Row] /\ loaded \in BOOLEAN
            BY DEF Inv, TypeOK
        <3> QED
            BY <3>1, DatesType, Constants
    <2> QED
        BY <2>1 DEF Unexpected, Inv, TypeOK
<1>3. TypeOK'
    BY <1>1, <1>2, IdleType DEF Inv, TypeOK, Proc
<1>4. ArmedOK' /\ OwnerOK'
    BY <1>1 DEF Unexpected, Inv, ArmedOK, OwnerOK, Idle
<1> QED
    BY <1>1, <1>3, <1>4, QuietKeeps

LEMMA CrashKeeps == ASSUME Inv, Crash PROVE Inv'
<1>1. /\ faults' \in 0..MaxFaults /\ proc' = Idle /\ loaded' = FALSE /\ cache' = NoRecords
      /\ loadAfter' = None /\ job' = [state |-> "off", next |-> None]
      /\ UNCHANGED <<now, sheet, posts, live>>
    BY FaultType DEF Crash
<1>2. NoRecords \in [Rows -> Row]
    BY Constants DEF NoRecords, Row, Occ
<1>3. TypeOK'
    BY <1>1, <1>2, IdleType DEF Inv, TypeOK, Proc
<1>4. \A r \in Rows : RowOK(r)'
    BY <1>1 DEF Inv, RowOK, NoRecords, Locked, Idle
<1>5. ProcOK'
    BY <1>1 DEF Inv, TypeOK, ProcOK, Locked, Idle
<1> QED
    BY <1>1, <1>3, <1>4, <1>5 DEF Inv, ArmedOK, OwnerOK, Idle

LEMMA TickKeeps == ASSUME Inv, Tick PROVE Inv'
<1>1. /\ faults' \in 0..MaxFaults
      /\ UNCHANGED <<sheet, loaded, cache, loadAfter, proc, job, posts, live>>
    BY FaultType DEF Tick, Inv, TypeOK, store
<1>2. now' \in 0..MaxTime /\ \A t \in Int : t <= now => t <= now'
    BY Constants DEF Tick, Inv, TypeOK
<1>3. TypeOK'
    BY <1>1, <1>2 DEF Inv, TypeOK
<1>4. proc.now \in Int /\ proc.now <= now
    BY DEF Inv, TypeOK, ProcOK
<1>5. ProcOK'
    BY <1>1, <1>2, <1>4 DEF Inv, ProcOK, Locked
<1>6. ASSUME NEW r \in Rows PROVE RowOK(r)'
    <2>1. \A k \in {sheet[r].sent, cache[r].sent} : Due(r, k) \in Int
        BY DueIsInt DEF Inv, TypeOK, Row, Occ
    <2>2. RowOK(r)
        BY DEF Inv
    <2> QED
        BY <2>1, <2>2, <1>1, <1>2 DEF RowOK, Locked
<1> QED
    BY <1>1, <1>3, <1>5, <1>6 DEF Inv, ArmedOK, OwnerOK

-----------------------------------------------------------------------------
(* Steps of the processing that change the records.                        *)

LEMMA LoadKeeps == ASSUME Inv, Load PROVE Inv'
<1>1. /\ loaded' = TRUE /\ cache' = sheet /\ loadAfter' = LoadAfter(sheet, proc.now)
      /\ proc' = [proc EXCEPT !.step = "row"] /\ Locked
      /\ UNCHANGED <<now, sheet, job, posts, live, faults>>
    BY DEF Load
<1>2. /\ sheet \in [Rows -> Row] /\ proc.now \in 0..MaxTime /\ proc \in Proc
    BY DEF Inv, TypeOK, Proc
<1>3. loadAfter' \in DueTimes
    BY <1>1, <1>2, DatesType
<1>4. /\ proc' \in Proc /\ proc'.step = "row" /\ proc'.now = proc.now
      /\ proc'.owner = proc.owner
    BY <1>1, <1>2 DEF Proc, Steps
<1>5. TypeOK'
    BY <1>1, <1>2, <1>3, <1>4 DEF Inv, TypeOK, Proc
<1>6. ProcOK'
    BY <1>1, <1>4 DEF Inv, ProcOK, Locked, Writing
<1>7. ASSUME NEW r \in Rows PROVE RowOK(r)'
    <2>1. RowOK(r) /\ sheet[r].sent \in Int
        BY <1>2 DEF Inv, Row, Occ
    <2> QED
        BY <2>1, <1>1, <1>4 DEF RowOK, Locked
<1>8. ArmedOK'
    BY <1>1 DEF Inv, ArmedOK, RowOK
<1> QED
    BY <1>1, <1>4, <1>5, <1>6, <1>7, <1>8 DEF Inv, OwnerOK

LEMMA NotDueKeeps == ASSUME Inv, NEW r \in Rows, NotDue(r) PROVE Inv'
<1>1. /\ proc' \in Proc /\ proc'.step = "row" /\ proc'.now = proc.now
      /\ proc'.owner = proc.owner
      /\ Locked /\ loaded /\ UNCHANGED <<now, store, job, posts, live, faults>>
    BY RowsType DEF NotDue, AtRow, Inv, ProcOK
<1>2. TypeOK' /\ ArmedOK' /\ OwnerOK'
    BY <1>1 DEF Inv, TypeOK, Proc, store, ArmedOK, OwnerOK
<1> QED
    BY <1>1, <1>2, QuietKeeps DEF store

LEMMA NoTargetKeeps == ASSUME Inv, NEW r \in Rows, NoTarget(r) PROVE Inv'
<1>1. /\ proc' \in Proc /\ proc'.step = "row" /\ proc'.now = proc.now
      /\ proc'.owner = proc.owner
      /\ Locked /\ loaded /\ UNCHANGED <<now, store, job, posts, live>>
      /\ faults' \in 0..MaxFaults
    BY RowsType, FaultType DEF NoTarget, Postable, AtRow, Inv, ProcOK
<1>2. TypeOK' /\ ArmedOK' /\ OwnerOK'
    BY <1>1 DEF Inv, TypeOK, Proc, store, ArmedOK, OwnerOK
<1> QED
    BY <1>1, <1>2, QuietKeeps DEF store

\* A corrected schedule is a later occurrence.
LEMMA CorrectedType ==
    ASSUME Inv, NEW r \in Rows, AtRow(r)
    PROVE  Corrected(r) \in 1..MaxOcc
<1>1. cache[r].next = 0 \/ cache[r].next \in 1..MaxOcc
    BY DEF Inv, TypeOK, Row, Occ
<1>2. proc.now \in 0..MaxTime
    BY DEF Inv, TypeOK
<1> QED
    BY <1>1, <1>2, NextOccurrence DEF Corrected

\* What a change of the schedules alone leaves in order.
LEMMA RescheduleKeeps ==
    ASSUME Inv, NEW r \in Rows, AtRow(r), NextRow,
           UNCHANGED <<now, loaded, job, posts, live>>, faults' \in 0..MaxFaults,
           sheet' \in {sheet, [sheet EXCEPT ![r].next = Corrected(r)]},
           \/ UNCHANGED <<cache, loadAfter>>
           \/ /\ cache' = [cache EXCEPT ![r].next = Corrected(r)]
              /\ loadAfter' = LoadAfter(cache', proc.now)
              /\ sheet' # sheet \/ sheet[r].next # 0
    PROVE  Inv'
<1>1. /\ proc' \in Proc /\ proc'.step = "row" /\ proc'.now = proc.now
      /\ proc'.owner = proc.owner /\ Locked /\ loaded /\ proc.now \in 0..MaxTime
    BY RowsType DEF AtRow, Inv, ProcOK, TypeOK
<1>2. Corrected(r) \in 1..MaxOcc /\ Corrected(r) \in Occ /\ Corrected(r) # 0
    BY CorrectedType DEF Occ
<1>3. /\ sheet \in [Rows -> Row] /\ cache \in [Rows -> Row]
    BY DEF Inv, TypeOK
<1>4. /\ sheet' \in [Rows -> Row]
      /\ \A q \in Rows : /\ sheet'[q].sent = sheet[q].sent
                         /\ sheet[q].next # 0 => sheet'[q].next # 0
      /\ sheet' # sheet => sheet'[r].next # 0
    <2>1. CASE sheet' = sheet
        BY <1>3, <2>1
    <2>2. CASE sheet' = [sheet EXCEPT ![r].next = Corrected(r)]
        BY <1>2, <1>3, <2>2 DEF Row
    <2> QED
        BY <2>1, <2>2
<1>5. /\ cache' \in [Rows -> Row]
      /\ \A q \in Rows : /\ cache'[q].sent = cache[q].sent
                         /\ cache[q].next # 0 => cache'[q].next # 0
                         /\ q # r => cache'[q].next = cache[q].next
    BY <1>2, <1>3 DEF Row
<1>6. loadAfter' \in DueTimes \cup {None}
    <2>1. LoadAfter(cache', proc.now) \in DueTimes
        BY <1>1, <1>5, DatesType
    <2> QED
        BY <2>1 DEF Inv, TypeOK
<1>7. TypeOK'
    BY <1>1, <1>4, <1>5, <1>6 DEF Inv, TypeOK, Proc
<1>8. ProcOK'
    BY <1>1 DEF Inv, ProcOK, Locked, Writing
<1>9. ASSUME NEW q \in Rows PROVE RowOK(q)'
    <2>1. RowOK(q)
        BY DEF Inv
    <2>2. cache'[q].next # 0 => sheet'[q].next # 0
        BY <2>1, <1>4, <1>5 DEF RowOK
    <2> QED
        BY <2>1, <2>2, <1>1, <1>4, <1>5 DEF RowOK, Locked
<1>10. ArmedOK' /\ OwnerOK'
    BY <1>1, <1>5 DEF Inv, ArmedOK, OwnerOK
<1> QED
    BY <1>7, <1>8, <1>9, <1>10 DEF Inv

LEMMA CorrectKeeps == ASSUME Inv, NEW r \in Rows, Correct(r) PROVE Inv'
<1>1. /\ sheet' = [sheet EXCEPT ![r].next = Corrected(r)]
      /\ cache' = [cache EXCEPT ![r].next = Corrected(r)]
      /\ loadAfter' = LoadAfter(cache', proc.now)
      /\ AtRow(r) /\ NextRow /\ UNCHANGED <<now, loaded, job, posts, live, faults>>
    BY DEF Correct
<1>2. sheet' # sheet \/ sheet[r].next # 0
    <2>1. Corrected(r) # 0 /\ sheet'[r].next = Corrected(r)
        BY <1>1, CorrectedType DEF Inv, TypeOK, Row
    <2> QED
        BY <2>1
<1>3. faults' \in 0..MaxFaults
    BY <1>1 DEF Inv, TypeOK
<1> QED
    BY <1>1, <1>2, <1>3, RescheduleKeeps

LEMMA CorrectFailKeeps == ASSUME Inv, NEW r \in Rows, CorrectFail(r) PROVE Inv'
BY RescheduleKeeps, FaultType DEF CorrectFail

\* A message of row r, once Discord has it.
LEMMA PostedType ==
    ASSUME Inv, NEW r \in Rows, NEW k \in 1..MaxOcc, Posted(r, k)
    PROVE  /\ posts' \in [Rows -> Seq(Occ)] /\ live' \in [Rows -> SUBSET Nat]
           /\ posts'[r] # <<>> /\ posts'[r][Len(posts'[r])] = k
           /\ Len(posts[r]) + 1 \in Nat
<1>1. /\ posts \in [Rows -> Seq(Occ)] /\ live \in [Rows -> SUBSET Nat] /\ k \in Occ
    BY DEF Inv, TypeOK, Occ
<1>2. /\ posts' = [posts EXCEPT ![r] = Append(posts[r], k)]
      /\ live' = [live EXCEPT ![r] = live[r] \cup {Len(posts[r]) + 1}]
    BY DEF Posted
<1>3. \A s \in Seq(Occ) : /\ Append(s, k) \in Seq(Occ) /\ Append(s, k) # <<>>
                          /\ Append(s, k)[Len(Append(s, k))] = k
                          /\ Len(s) + 1 \in Nat
    <2> SUFFICES ASSUME NEW s \in Seq(Occ)
                 PROVE  /\ Append(s, k) \in Seq(Occ) /\ Append(s, k) # <<>>
                        /\ Append(s, k)[Len(Append(s, k))] = k
                        /\ Len(s) + 1 \in Nat
        OBVIOUS
    <2>1. Append(s, k) \in Seq(Occ) /\ Len(Append(s, k)) = Len(s) + 1 /\ Len(s) \in Nat
        BY <1>1
    <2>2. Append(s, k)[Len(s) + 1] = k
        BY <1>1
    <2>3. Append(s, k) # <<>>
        BY <2>1
    <2> QED
        BY <2>1, <2>2, <2>3
<1> QED
    BY <1>1, <1>2, <1>3

LEMMA DeleteOldKeeps == ASSUME Inv, NEW r \in Rows, DeleteOld(r) PROVE Inv'
<1>1. /\ proc' = [proc EXCEPT !.step = "send"] /\ Locked /\ proc.row = r
      /\ proc.step = "row" /\ UNCHANGED <<now, store, job, posts>>
      /\ ~ScheduleOnly(r) /\ Open(r, cache[r].next, proc.now)
    BY DEF DeleteOld, Postable, AtRow
<1>2. live' \in [Rows -> SUBSET Nat] /\ faults' \in 0..MaxFaults
    BY FaultType DEF DeleteOld, Inv, TypeOK
<1>3. /\ proc' \in Proc /\ proc'.step = "send" /\ proc'.now = proc.now
      /\ proc'.owner = proc.owner /\ proc'.row = r
    BY <1>1 DEF Inv, TypeOK, Proc, Steps
<1>4. TypeOK'
    BY <1>1, <1>2, <1>3 DEF Inv, TypeOK, Proc, store
<1>5. /\ cache[r].next \in 1..MaxOcc /\ Due(r, cache[r].next) <= proc.now
      /\ proc.now < Reset(r, cache[r].next) /\ cache[r].sent # cache[r].next
      /\ cache[r].sent \in Occ /\ proc.now \in Int /\ loaded
    <2>1. cache[r].next # 0 /\ cache[r].next \in Occ /\ cache[r].sent \in Occ
          /\ proc.now \in Int /\ loaded
        BY <1>1 DEF Open, Inv, TypeOK, Row, ProcOK
    <2>2. Due(r, cache[r].next) <= proc.now /\ proc.now < Reset(r, cache[r].next)
        BY <1>1 DEF Open
    <2>3. Due(r, cache[r].next) \in Int
        BY <2>1, DueIsInt DEF Occ
    <2>4. cache[r].sent # cache[r].next
        BY <1>1, <2>1, <2>2, <2>3 DEF ScheduleOnly
    <2> QED
        BY <2>1, <2>2, <2>4 DEF Occ
<1>6. LeadWithinCycle => cache[r].sent < cache[r].next
    <2> SUFFICES ASSUME LeadWithinCycle, cache[r].next < cache[r].sent PROVE FALSE
        BY <1>5 DEF Occ
    <2>1. Due(r, cache[r].next) + Cycle[r] <= Due(r, cache[r].sent)
        BY <1>5, DueSteps DEF Occ
    <2>2. Due(r, cache[r].sent) <= proc.now
        BY <1>1, <1>5 DEF Inv, RowOK, Occ
    <2>3. Lead[r] <= Cycle[r]
        BY DEF LeadWithinCycle
    <2>4. /\ Due(r, cache[r].next) \in Int /\ Due(r, cache[r].sent) \in Int
          /\ Lead[r] \in Int /\ Cycle[r] \in Int
        BY <1>5, DueIsInt, Constants DEF Occ
    <2>5. proc.now < Due(r, cache[r].next) + Lead[r]
        BY <1>5 DEF Reset
    <2> QED
        BY <1>5, <2>1, <2>2, <2>3, <2>4, <2>5
<1>7. ProcOK'
    BY <1>1, <1>3, <1>5, <1>6 DEF Inv, ProcOK, Locked, Writing, store
<1>8. ASSUME NEW q \in Rows PROVE RowOK(q)'
    BY <1>1, <1>3 DEF Inv, RowOK, Locked, store
<1> QED
    BY <1>1, <1>3, <1>4, <1>7, <1>8 DEF Inv, ArmedOK, OwnerOK, store

LEMMA SendKeeps == ASSUME Inv, NEW r \in Rows, Send(r) PROVE Inv'
<1> DEFINE k == cache[r].next
           m == Len(posts[r]) + 1
<1>1. /\ proc' = [proc EXCEPT !.step = "sent", !.occ = k] /\ Locked /\ proc.row = r
      /\ proc.step = "send" /\ Posted(r, k)
      /\ cache' = [cache EXCEPT ![r] = [next |-> Following(k), sent |-> k, msg |-> m]]
      /\ loadAfter' = LoadAfter(cache', proc.now)
      /\ UNCHANGED <<now, sheet, loaded, job, faults>>
    BY DEF Send, OnRow
<1>2. /\ k \in 1..MaxOcc /\ k \in Occ /\ Due(r, k) <= proc.now /\ loaded
      /\ LeadWithinCycle => cache[r].sent < k
      /\ cache[r].sent \in Occ /\ sheet[r].sent \in Occ
      /\ proc.now \in 0..MaxTime /\ now \in 0..MaxTime /\ proc.now <= now
    BY <1>1 DEF Inv, TypeOK, ProcOK, Row, Occ
<1>3. /\ posts' \in [Rows -> Seq(Occ)] /\ live' \in [Rows -> SUBSET Nat]
      /\ posts'[r] # <<>> /\ posts'[r][Len(posts'[r])] = k /\ m \in Nat
    BY <1>1, <1>2, PostedType
<1>4. Following(k) \in 1..MaxOcc
    <2>1. 0 \in 0..MaxTime
        BY Constants
    <2> QED
        BY <2>1, <1>2, NextOccurrence
<1> HIDE DEF k, m
<1>5. /\ cache' \in [Rows -> Row]
      /\ cache'[r].sent = k /\ cache'[r].next # 0
      /\ \A q \in Rows : q # r => cache'[q] = cache[q]
    BY <1>1, <1>2, <1>3, <1>4 DEF Inv, TypeOK, Row, Occ
<1>6. /\ proc' \in Proc /\ proc'.step = "sent" /\ proc'.now = proc.now
      /\ proc'.owner = proc.owner /\ proc'.row = r /\ proc'.occ = k
    BY <1>1, <1>2 DEF Inv, TypeOK, Proc, Steps
<1>7. loadAfter' \in DueTimes
    BY <1>1, <1>2, <1>5, DatesType
<1>8. TypeOK'
    BY <1>1, <1>3, <1>5, <1>6, <1>7 DEF Inv, TypeOK, Proc
<1>9. LeadWithinCycle => sheet[r].sent < k
    BY <1>2 DEF Inv, RowOK, Occ
<1>10. ProcOK'
    BY <1>1, <1>2, <1>3, <1>5, <1>6, <1>9 DEF Inv, ProcOK, Locked, Writing
<1>11. RowOK(r)'
    <2>1. RowOK(r)
        BY DEF Inv
    <2>2. sheet[r].next # 0
        BY <1>2, <2>1 DEF RowOK, k
    <2>3. LeadWithinCycle => sheet[r].sent <= k
        BY <1>2, <1>9 DEF Occ
    <2>4. Due(r, k) <= now
        <3>1. Due(r, k) \in Int
            BY <1>2, DueIsInt
        <3> QED
            BY <3>1, <1>2
    <2> QED
        BY <2>1, <2>2, <2>3, <2>4, <1>1, <1>2, <1>5, <1>6 DEF RowOK, Locked
<1>12. ASSUME NEW q \in Rows, q # r PROVE RowOK(q)'
    BY <1>1, <1>5, <1>6, <1>12 DEF Inv, RowOK, Locked
<1> QED
    BY <1>1, <1>5, <1>6, <1>8, <1>10, <1>11, <1>12 DEF Inv, ArmedOK, OwnerOK

LEMMA SendFailKeeps == ASSUME Inv, NEW r \in Rows, SendFail(r) PROVE Inv'
<1>1. /\ proc' \in Proc /\ proc'.step = "row" /\ proc'.now = proc.now
      /\ proc'.owner = proc.owner
      /\ Locked /\ loaded /\ UNCHANGED <<now, store, job>>
      /\ faults' \in 0..MaxFaults
    BY RowsType, FaultType DEF SendFail, OnRow, Inv, ProcOK
<1>2. posts' \in [Rows -> Seq(Occ)] /\ live' \in [Rows -> SUBSET Nat]
    <2>1. cache[r].next \in 1..MaxOcc
        BY DEF SendFail, OnRow, Inv, ProcOK
    <2> QED
        BY <2>1, PostedType DEF SendFail, Inv, TypeOK
<1>3. TypeOK' /\ ArmedOK' /\ OwnerOK'
    BY <1>1, <1>2 DEF Inv, TypeOK, Proc, store, ArmedOK, OwnerOK
<1> QED
    BY <1>1, <1>3, QuietKeeps DEF store

\* What a cell writes is of the type of its column, and only the first cell
\* writes what was sent.
LEMMA CellType ==
    ASSUME Inv, NEW r \in Rows, NEW step \in Writing, OnRow(r, step)
    PROVE  /\ Cell(r, step) \in Row
           /\ Cell(r, step).sent = IF step = "sent" THEN proc.occ ELSE sheet[r].sent
           /\ sheet[r].next # 0 => Cell(r, step).next # 0
<1>1. /\ proc.occ \in 1..MaxOcc /\ proc.occ \in Occ /\ sheet[r] \in Row /\ Len(posts[r]) \in Nat
      /\ proc.now \in 0..MaxTime
    BY DEF OnRow, Inv, TypeOK, ProcOK, Occ
<1>2. Following(proc.occ) \in 1..MaxOcc /\ Following(proc.occ) \in Occ
    <2>1. Following(proc.occ) \in 1..MaxOcc
        BY <1>1, NextOccurrence
    <2> QED
        BY <2>1, <1>1 DEF Occ
<1>3. CASE step = "sent"
    BY <1>1, <1>3 DEF Cell, Row
<1>4. CASE step = "next"
    <2>1. Cell(r, step) = [sheet[r] EXCEPT !.next = Following(proc.occ)]
        BY <1>4 DEF Cell
    <2> QED
        BY <1>1, <1>2, <1>4, <2>1 DEF Row
<1>5. CASE step = "msg"
    <2>1. Cell(r, step) = [sheet[r] EXCEPT !.msg = Len(posts[r])]
        BY <1>5 DEF Cell
    <2> QED
        BY <1>1, <1>5, <2>1 DEF Row
<1> QED
    BY <1>3, <1>4, <1>5 DEF Writing

\* A cell that was written or not, with the processing at its next step.
LEMMA CellKeeps ==
    ASSUME Inv, NEW r \in Rows, NEW step \in Writing, OnRow(r, step),
           sheet' \in {sheet, [sheet EXCEPT ![r] = Cell(r, step)]},
           UNCHANGED <<now, loaded, cache, loadAfter, job, posts, live>>,
           faults' \in 0..MaxFaults,
           proc' \in Proc, proc'.now = proc.now, proc'.owner = proc.owner,
           \/ proc'.step = "row"
           \/ proc'.step \in {"next", "msg"} /\ proc'.row = r /\ proc'.occ = proc.occ
    PROVE  Inv'
<1>1. /\ Locked /\ loaded /\ proc.row = r /\ proc.step = step
      /\ proc.occ \in 1..MaxOcc /\ proc.now <= now /\ proc.now \in 0..MaxTime
      /\ sheet \in [Rows -> Row]
    BY DEF OnRow, Inv, TypeOK, ProcOK, Writing
<1>2. /\ sheet' \in [Rows -> Row]
      /\ \A q \in Rows : q # r => sheet'[q] = sheet[q]
      /\ sheet'[r].sent = sheet[r].sent \/ (step = "sent" /\ sheet'[r].sent = proc.occ)
      /\ sheet[r].next # 0 => sheet'[r].next # 0
    BY <1>1, CellType
<1>3. TypeOK'
    BY <1>2 DEF Inv, TypeOK, Proc
<1>4. ProcOK'
    BY <1>1 DEF Inv, ProcOK, Locked, Writing
<1>5. RowOK(r)'
    <2>1. RowOK(r)
        BY DEF Inv
    <2>2. CASE sheet'[r].sent = sheet[r].sent
        BY <2>1, <2>2, <1>1, <1>2 DEF RowOK, Locked
    <2>3. CASE step = "sent" /\ sheet'[r].sent = proc.occ
        <3>1. cache[r].sent = proc.occ
            BY <1>1, <2>3 DEF Inv, ProcOK
        <3> QED
            BY <2>1, <2>3, <3>1, <1>1, <1>2 DEF RowOK, Locked
    <2> QED
        BY <1>2, <2>2, <2>3
<1>6. ASSUME NEW q \in Rows, q # r PROVE RowOK(q)'
    BY <1>1, <1>2, <1>6 DEF Inv, RowOK, Locked
<1> QED
    BY <1>3, <1>4, <1>5, <1>6 DEF Inv, ArmedOK, OwnerOK

LEMMA WriteCellKeeps ==
    ASSUME Inv, NEW r \in Rows, NEW step \in Writing,
           WriteCell(r, step) \/ WriteCellFail(r, step)
    PROVE  Inv'
<1>1. /\ OnRow(r, step) /\ proc.row = r /\ proc \in Proc
      /\ UNCHANGED <<now, loaded, cache, loadAfter, job, posts, live>>
      /\ sheet' \in {sheet, [sheet EXCEPT ![r] = Cell(r, step)]}
    BY DEF WriteCell, WriteCellFail, OnRow, Inv, TypeOK, Proc
<1>2. faults' \in 0..MaxFaults
    BY FaultType DEF WriteCell, WriteCellFail, Inv, TypeOK
<1>3. /\ proc' \in Proc /\ proc'.now = proc.now /\ proc'.owner = proc.owner
      /\ \/ proc'.step = "row"
         \/ proc'.step \in {"next", "msg"} /\ proc'.row = r /\ proc'.occ = proc.occ
    <2>1. CASE NextRow
        BY <1>1, <2>1, RowsType
    <2>2. CASE \E s \in {"next", "msg"} : proc' = [proc EXCEPT !.step = s]
        BY <1>1, <2>2 DEF Proc, Steps
    <2> QED
        BY <2>1, <2>2 DEF WriteCell, WriteCellFail
<1> QED
    BY <1>1, <1>2, <1>3, CellKeeps

-----------------------------------------------------------------------------

LEMMA StepKeeps == Inv /\ [Next]_vars => Inv'
<1> SUFFICES ASSUME Inv, [Next]_vars PROVE Inv'
    OBVIOUS
<1>1. CASE UNCHANGED vars
    BY <1>1 DEF vars, store, Inv, TypeOK, ProcOK, RowOK, ArmedOK, OwnerOK, Locked
<1>2. CASE Processing
    <2>1. ASSUME NEW r \in Rows, RowStep(r) PROVE Inv'
        BY <2>1, NotDueKeeps, CorrectKeeps, DeleteOldKeeps, SendKeeps, WriteCellKeeps
        DEF RowStep, Writing
    <2> QED
        BY <1>2, <2>1, LoadKeeps, DoneKeeps DEF Processing
<1>3. CASE \E r \in Rows : RowFault(r)
    <2>1. ASSUME NEW r \in Rows, RowFault(r) PROVE Inv'
        BY <2>1, CorrectFailKeeps, NoTargetKeeps, SendFailKeeps, WriteCellKeeps
        DEF RowFault, Writing
    <2> QED
        BY <1>3, <2>1
<1>4. CASE LoadFail \/ Unexpected \/ DueJob \/ Reconcile \/ Crash \/ Tick
    BY <1>4, LoadFailKeeps, UnexpectedKeeps, DueJobKeeps, ReconcileKeeps, CrashKeeps, TickKeeps
<1> QED
    BY <1>1, <1>2, <1>3, <1>4 DEF Next

LEMMA InvHolds == Spec => []Inv
BY InitInv, StepKeeps, PTL DEF Spec

\* Every variable keeps its type: the job is armed for dates only, and the cells
\* hold occurrences.
THEOREM TypeCorrect == Spec => []TypeOK
<1>1. Inv => TypeOK
    BY DEF Inv
<1> QED
    BY <1>1, InvHolds, PTL

-----------------------------------------------------------------------------
(* The tab keeps the promise of Announcements.                             *)

Recorded == [r \in Rows |-> sheet[r].sent]

\* The announcement of a row is a step of the promise.
LEMMA PostIsAnnounce ==
    ASSUME Inv, LeadWithinCycle, NEW r \in Rows, OnRow(r, "send"),
           Posted(r, cache[r].next), UNCHANGED sheet
    PROVE  Book!Next
<1>1. cache[r].next \in 1..MaxOcc /\ cache[r].sent < cache[r].next /\ loaded
    BY DEF OnRow, Inv, ProcOK
<1>2. sheet[r].sent <= cache[r].sent /\ sheet[r].sent \in Occ /\ cache[r].sent \in Occ
    BY <1>1 DEF Inv, RowOK, TypeOK, Row
<1>3. cache[r].next > sheet[r].sent
    BY <1>1, <1>2 DEF Occ
<1>4. Book!Announce(r)
    BY <1>1, <1>3 DEF Book!Announce, Posted
<1> QED
    BY <1>4 DEF Book!Next

\* The first of the three cells records the last announcement, the other two
\* record nothing.
LEMMA CellIsRecord ==
    ASSUME Inv, LeadWithinCycle, NEW r \in Rows, NEW step \in Writing, OnRow(r, step),
           sheet' \in {sheet, [sheet EXCEPT ![r] = Cell(r, step)]}, UNCHANGED posts
    PROVE  Book!Next \/ UNCHANGED <<posts, Recorded>>
<1>1. sheet \in [Rows -> Row] /\ proc.step = step /\ Locked /\ proc.row = r
    BY DEF OnRow, Inv, TypeOK
<1>2. CASE \A q \in Rows : sheet'[q].sent = sheet[q].sent
    BY <1>2 DEF Recorded
<1>3. CASE /\ step = "sent" /\ sheet' = [sheet EXCEPT ![r] = Cell(r, step)]
    <2>1. /\ posts[r] # <<>> /\ posts[r][Len(posts[r])] = proc.occ
          /\ sheet[r].sent < proc.occ /\ proc.occ \in Int /\ sheet[r].sent \in Int
        BY <1>1, <1>3 DEF Inv, ProcOK, TypeOK, Row, Occ
    <2>2. Cell(r, step).sent = proc.occ
        BY <1>3, CellType
    <2>3. Recorded' = [Recorded EXCEPT ![r] = proc.occ]
        BY <1>1, <1>3, <2>2 DEF Recorded
    <2>4. Book!Record(r)
        BY <2>1, <2>3 DEF Book!Record, Recorded
    <2> QED
        BY <2>4 DEF Book!Next
<1>4. \/ step = "sent" /\ sheet' = [sheet EXCEPT ![r] = Cell(r, step)]
      \/ \A q \in Rows : sheet'[q].sent = sheet[q].sent
    BY <1>1, CellType
<1> QED
    BY <1>2, <1>3, <1>4

LEMMA StepIsBook ==
    ASSUME Inv, LeadWithinCycle, [Next]_vars
    PROVE  Book!Next \/ UNCHANGED <<posts, Recorded>>
<1>1. sheet \in [Rows -> Row]
    BY DEF Inv, TypeOK
<1>2. CASE UNCHANGED <<posts, sheet>>
    BY <1>2 DEF Recorded
<1>3. ASSUME NEW r \in Rows, Correct(r) \/ CorrectFail(r)
      PROVE  UNCHANGED <<posts, Recorded>>
    <2>1. UNCHANGED posts /\ \A q \in Rows : sheet'[q].sent = sheet[q].sent
        BY <1>1, <1>3 DEF Correct, CorrectFail, Row
    <2> QED
        BY <2>1 DEF Recorded
<1>4. ASSUME NEW r \in Rows, Send(r) \/ SendFail(r)
      PROVE  Book!Next \/ UNCHANGED <<posts, Recorded>>
    BY <1>2, <1>4, PostIsAnnounce DEF Send, SendFail, store
<1>5. ASSUME NEW r \in Rows, NEW step \in Writing, WriteCell(r, step) \/ WriteCellFail(r, step)
      PROVE  Book!Next \/ UNCHANGED <<posts, Recorded>>
    BY <1>5, CellIsRecord DEF WriteCell, WriteCellFail
<1>6. ASSUME NEW r \in Rows, NotDue(r) \/ NoTarget(r) \/ DeleteOld(r)
      PROVE  UNCHANGED <<posts, sheet>>
    BY <1>6 DEF NotDue, NoTarget, DeleteOld, store
<1>7. CASE \/ Load \/ Done \/ LoadFail \/ Unexpected \/ DueJob \/ Reconcile \/ Crash \/ Tick
           \/ UNCHANGED vars
    <2>1. UNCHANGED <<posts, sheet>>
        BY <1>7 DEF Load, Done, LoadFail, Unexpected, DueJob, Reconcile, Crash, Tick, vars, store
    <2> QED
        BY <2>1, <1>2
<1> QED
    BY <1>2, <1>3, <1>4, <1>5, <1>6, <1>7 DEF Next, Processing, RowStep, RowFault, Writing

\* With reminders at most a cycle ahead, the cells last_sent are a book of
\* announcements, through failed calls, half-written rows, retries, reloads,
\* restarts and reconciles.
THEOREM AnnouncementsKept == ASSUME LeadWithinCycle PROVE Spec => KeepsAnnouncements
<1>1. Init => Book!Init
    <2>1. ASSUME Init PROVE [r \in Rows |-> sheet[r].sent] = [r \in Rows |-> 0]
        BY <2>1 DEF Init
    <2> QED
        BY <2>1 DEF Init, Book!Init
<1>2. Inv /\ [Next]_vars => [Book!Next]_(Book!vars)
    BY StepIsBook DEF Book!vars, Recorded
<1> QED
    BY <1>1, <1>2, InvHolds, PTL DEF Spec, KeepsAnnouncements, Book!Spec

-----------------------------------------------------------------------------
(* The job stays armed.                                                    *)

\* Finishing, retrying or arming for another time leaves no armed or running job
\* without a next time.
THEOREM JobStaysArmed == Spec => StaysArmed
<1>1. ASSUME Inv, Next, job.state = "run" \/ job.next # None
      PROVE  job'.state \in {"off", "run"} \/ job'.next # None
    <2>1. ASSUME Rearm(EarliestCachedDue(cache, loaded)) \/ At(EarliestCachedDue(cache, loaded)),
                 UNCHANGED <<loaded, cache>>
          PROVE  job'.next # None
        BY <1>1, <2>1, RearmType
    <2>2. CASE DueJob \/ Reconcile \/ Done \/ LoadFail
        BY <1>1, <2>1, <2>2 DEF DueJob, Reconcile, Done, LoadFail, Finish, store
    <2>3. CASE Unexpected
        <3>1. now + RetryDelay # None
            BY <1>1, Constants DEF Inv, TypeOK
        <3> QED
            BY <1>1, <2>3, <3>1 DEF Unexpected
    <2>4. CASE Crash
        BY <2>4 DEF Crash
    <2>5. CASE Load \/ Tick
        BY <1>1, <2>5 DEF Load, Tick, store, Inv, TypeOK
    <2>6. ASSUME NEW r \in Rows, RowStep(r) \/ RowFault(r) PROVE UNCHANGED job
        BY <2>6 DEF RowStep, RowFault, NotDue, Correct, DeleteOld, Send, WriteCell, CorrectFail,
           NoTarget, SendFail, WriteCellFail
    <2> QED
        BY <1>1, <2>2, <2>3, <2>4, <2>5, <2>6 DEF Next, Processing, Inv, TypeOK
<1>2. Inv /\ [Next]_vars =>
          [job.state = "run" \/ job.next # None =>
               job'.state \in {"off", "run"} \/ job'.next # None]_vars
    BY <1>1
<1> QED
    BY <1>2, InvHolds, PTL DEF Spec, StaysArmed
-----------------------------------------------------------------------------
(* Repeats are paid for.  Until the tab holds an occurrence in last_sent, or  *)
(* the processing is about to write it there, every message of it so far was  *)
(* followed by a fault; afterwards no more of them are sent.                  *)

Number(r, k) == Cardinality(PostsOf(r, k))

Entered(r, k) ==
    \/ sheet[r].sent >= k
    \/ Locked /\ proc.step = "sent" /\ proc.row = r /\ proc.occ = k

PaidFor(r, k) == Number(r, k) <= 1 + faults /\ (Entered(r, k) \/ Number(r, k) <= faults)

PaidInv == Inv /\ \A r \in Rows, k \in 1..MaxOcc : PaidFor(r, k)

LEMMA NumberType ==
    ASSUME Inv
    PROVE  \A r \in Rows : \A k : IsFiniteSet(PostsOf(r, k)) /\ Number(r, k) \in Nat
<1>1. \A r \in Rows : posts[r] \in Seq(Occ)
    BY DEF Inv, TypeOK
<1>2. \A r \in Rows : Len(posts[r]) \in Nat /\ DOMAIN posts[r] = 1..Len(posts[r])
    BY <1>1
<1>3. \A r \in Rows : IsFiniteSet(DOMAIN posts[r])
    BY <1>2, FS_Interval
<1>4. \A r \in Rows : \A k : PostsOf(r, k) \subseteq DOMAIN posts[r]
    BY DEF PostsOf
<1> QED
    BY <1>3, <1>4, FS_Subset, FS_CardinalityType DEF Number

\* A message is one more of its occurrence, and of no other.
LEMMA PostedAdds ==
    ASSUME Inv, NEW r \in Rows, NEW k \in 1..MaxOcc, Posted(r, k)
    PROVE  \E n : /\ \A q \in Rows : \A j :
                         PostsOf(q, j)' = IF q = r /\ j = k THEN PostsOf(q, j) \cup {n}
                                          ELSE PostsOf(q, j)
                  /\ \A j : n \notin PostsOf(r, j)
<1> DEFINE n == Len(posts[r]) + 1
<1>1. /\ posts \in [Rows -> Seq(Occ)] /\ k \in Occ
      /\ posts' = [posts EXCEPT ![r] = Append(posts[r], k)]
    BY DEF Inv, TypeOK, Occ, Posted
<1>2. posts[r] \in Seq(Occ) /\ posts'[r] = Append(posts[r], k)
    BY <1>1
<1>3. /\ DOMAIN posts'[r] = DOMAIN posts[r] \cup {n} /\ n \notin DOMAIN posts[r]
      /\ posts'[r][n] = k /\ \A i \in DOMAIN posts[r] : posts'[r][i] = posts[r][i]
    <2>1. \A s \in Seq(Occ) :
              LET m == Len(s) + 1 IN
              /\ DOMAIN Append(s, k) = DOMAIN s \cup {m} /\ m \notin DOMAIN s
              /\ Append(s, k)[m] = k /\ \A i \in DOMAIN s : Append(s, k)[i] = s[i]
        <3> SUFFICES ASSUME NEW s \in Seq(Occ)
                     PROVE  /\ DOMAIN Append(s, k) = DOMAIN s \cup {Len(s) + 1}
                            /\ Len(s) + 1 \notin DOMAIN s
                            /\ Append(s, k)[Len(s) + 1] = k
                            /\ \A i \in DOMAIN s : Append(s, k)[i] = s[i]
            OBVIOUS
        <3>1. Len(s) \in Nat /\ DOMAIN s = 1..Len(s) /\ Len(Append(s, k)) = Len(s) + 1
              /\ Append(s, k) \in Seq(Occ)
            BY <1>1
        <3>2. DOMAIN Append(s, k) = 1..(Len(s) + 1)
            BY <3>1
        <3> QED
            BY <1>1, <3>1, <3>2
    <2> QED
        BY <1>2, <2>1
<1> HIDE DEF n
<1>4. \A q \in Rows : \A j :
          PostsOf(q, j)' = IF q = r /\ j = k THEN PostsOf(q, j) \cup {n} ELSE PostsOf(q, j)
    <2>1. \A q \in Rows : q # r => posts'[q] = posts[q]
        BY <1>1
    <2> QED
        BY <1>3, <2>1 DEF PostsOf
<1>5. \A j : n \notin PostsOf(r, j)
    BY <1>3 DEF PostsOf
<1> QED
    BY <1>4, <1>5

LEMMA PostedCounts ==
    ASSUME Inv, NEW r \in Rows, NEW k \in 1..MaxOcc, Posted(r, k)
    PROVE  \A q \in Rows : \A j :
               /\ q = r /\ j = k => Number(q, j)' = Number(q, j) + 1
               /\ ~(q = r /\ j = k) => Number(q, j)' = Number(q, j)
<1>1. PICK n : /\ \A q \in Rows : \A j :
                      PostsOf(q, j)' = IF q = r /\ j = k THEN PostsOf(q, j) \cup {n}
                                       ELSE PostsOf(q, j)
               /\ \A j : n \notin PostsOf(r, j)
    BY PostedAdds
<1>2. \A q \in Rows : \A j : IsFiniteSet(PostsOf(q, j))
    BY NumberType
<1> QED
    BY <1>1, <1>2, FS_AddElement DEF Number

\* A step posts for the next occurrence of a row, or nothing.
LEMMA StepPosts ==
    ASSUME Inv, [Next]_vars
    PROVE  \/ UNCHANGED posts
           \/ \E r \in Rows : /\ Send(r) \/ SendFail(r)
                              /\ cache[r].next \in 1..MaxOcc /\ Posted(r, cache[r].next)
<1>1. UNCHANGED posts \/ \E r \in Rows : Send(r) \/ SendFail(r)
    BY DEF Next, Processing, RowStep, RowFault, Load, Done, NotDue, Correct, DeleteOld,
       WriteCell, LoadFail, Unexpected, CorrectFail, NoTarget, WriteCellFail, DueJob,
       Reconcile, Crash, Tick, vars
<1>2. ASSUME NEW r \in Rows, Send(r) \/ SendFail(r)
      PROVE  /\ UNCHANGED posts \/ Posted(r, cache[r].next)
             /\ cache[r].next \in 1..MaxOcc
    BY <1>2 DEF Send, SendFail, OnRow, Inv, ProcOK
<1> QED
    BY <1>1, <1>2

\* A message that was sent stays sent.
LEMMA PostsStay ==
    ASSUME Inv, [Next]_vars
    PROVE  \A r \in Rows : \A k : PostsOf(r, k) \subseteq PostsOf(r, k)'
<1>1. CASE UNCHANGED posts
    BY <1>1 DEF PostsOf
<1>2. ASSUME NEW q \in Rows, NEW j \in 1..MaxOcc, Posted(q, j)
      PROVE  \A r \in Rows : \A k : PostsOf(r, k) \subseteq PostsOf(r, k)'
    BY <1>2, PostedAdds
<1> QED
    BY <1>1, <1>2, StepPosts

\* Faults are counted, and only a fault leaves an occurrence that was about to
\* be entered.
LEMMA FaultsCount ==
    ASSUME Inv, [Next]_vars
    PROVE  faults' = faults \/ faults' = faults + 1
BY DEF Inv, Next, Processing, RowStep, RowFault, Load, Done, NotDue, Correct, DeleteOld, Send,
   WriteCell, LoadFail, Unexpected, CorrectFail, NoTarget, SendFail, WriteCellFail, DueJob,
   Reconcile, Crash, Tick, Fault, vars

\* What the tab says was sent never goes back.
LEMMA SentGrows ==
    ASSUME Inv, LeadWithinCycle, [Next]_vars, NEW r \in Rows
    PROVE  sheet'[r].sent >= sheet[r].sent
<1>1. \A q \in Rows : sheet[q].sent \in Int
    BY DEF Inv, TypeOK, Row, Occ
<1>2. CASE UNCHANGED Recorded
    <2>1. Recorded'[r] = Recorded[r]
        BY <1>2
    <2> QED
        BY <1>1, <2>1 DEF Recorded
<1>3. ASSUME NEW q \in Rows, Book!Record(q) PROVE sheet'[r].sent >= sheet[r].sent
    <2>1. /\ posts[q][Len(posts[q])] > sheet[q].sent
          /\ Recorded' = [Recorded EXCEPT ![q] = posts[q][Len(posts[q])]]
        BY <1>3 DEF Book!Record, Recorded
    <2>2. Recorded'[r] = IF r = q THEN posts[q][Len(posts[q])] ELSE sheet[r].sent
        BY <2>1 DEF Recorded
    <2>3. Recorded'[r] = sheet'[r].sent
        BY DEF Recorded
    <2>4. posts[q][Len(posts[q])] \in Int
        <3>1. posts[q] # <<>> /\ posts[q] \in Seq(Occ)
            BY <1>3 DEF Book!Record, Inv, TypeOK
        <3>2. \A s \in Seq(Occ) : s # <<>> => s[Len(s)] \in Occ
            OBVIOUS
        <3>3. posts[q][Len(posts[q])] \in Occ
            BY <3>1, <3>2
        <3> QED
            BY <3>3 DEF Occ
    <2> QED
        BY <1>1, <2>1, <2>2, <2>3, <2>4
<1>4. ASSUME NEW q \in Rows, Book!Announce(q) PROVE UNCHANGED Recorded
    BY <1>4 DEF Book!Announce, Recorded
<1> QED
    BY <1>2, <1>3, <1>4, StepIsBook DEF Book!Next

LEMMA EnteredStays ==
    ASSUME Inv, LeadWithinCycle, [Next]_vars, NEW r \in Rows, NEW k \in 1..MaxOcc,
           Entered(r, k)
    PROVE  Entered(r, k)' \/ faults' = faults + 1
<1>1. sheet'[r].sent >= sheet[r].sent /\ sheet[r].sent \in Int
    BY SentGrows DEF Inv, TypeOK, Row, Occ
<1>2. CASE sheet[r].sent >= k
    <2>1. TypeOK'
        BY StepKeeps DEF Inv
    <2>2. sheet'[r].sent \in Int
        BY <2>1 DEF TypeOK, Row, Occ
    <2> QED
        BY <1>1, <1>2, <2>2 DEF Entered
<1>3. CASE Locked /\ proc.step = "sent" /\ proc.row = r /\ proc.occ = k
    <2>1. CASE UNCHANGED proc
        BY <1>3, <2>1 DEF Entered, Locked
    <2>2. CASE WriteCell(r, "sent")
        <3>1. Cell(r, "sent").sent = k /\ sheet \in [Rows -> Row]
            BY <1>3, <2>2, CellType DEF WriteCell, Writing, Inv, TypeOK
        <3>2. sheet'[r].sent = k
            BY <2>2, <3>1 DEF WriteCell
        <3> QED
            BY <3>2 DEF Entered
    <2>3. CASE Fault
        BY <2>3 DEF Fault
    <2>4. UNCHANGED proc \/ WriteCell(r, "sent") \/ Fault
        BY <1>3 DEF Next, Processing, RowStep, RowFault, Load, Done, NotDue, Correct, DeleteOld,
           Postable, AtRow, OnRow, Send, WriteCell, LoadFail, Unexpected, CorrectFail, NoTarget,
           SendFail, WriteCellFail, DueJob, Reconcile, Crash, Tick, vars
    <2> QED
        BY <2>1, <2>2, <2>3, <2>4
<1> QED
    BY <1>2, <1>3 DEF Entered

\* A message is sent for an occurrence that is not entered, and enters it; one
\* that may have been sent by a call that raised is paid for.
LEMMA SendIsPaid ==
    ASSUME Inv, LeadWithinCycle, NEW r \in Rows, NEW k \in 1..MaxOcc, k = cache[r].next,
           Send(r) \/ SendFail(r)
    PROVE  /\ ~Entered(r, k)
           /\ Posted(r, k) \/ UNCHANGED posts
           /\ Send(r) => Entered(r, k)' /\ faults' = faults
           /\ SendFail(r) => faults' = faults + 1
<1>1. OnRow(r, "send") /\ (Posted(r, k) \/ UNCHANGED posts)
    BY DEF Send, SendFail
<1>2. sheet[r].sent < k
    <2>1. cache[r].sent < k /\ sheet[r].sent <= cache[r].sent
        BY <1>1 DEF OnRow, Inv, ProcOK, RowOK
    <2>2. sheet[r].sent \in Int /\ cache[r].sent \in Int
        BY DEF Inv, TypeOK, Row, Occ
    <2> QED
        BY <2>1, <2>2
<1>3. ~Entered(r, k)
    BY <1>1, <1>2 DEF Entered, OnRow, Inv, TypeOK, Row, Occ
<1>4. Send(r) => Entered(r, k)' /\ faults' = faults
    <2> SUFFICES ASSUME Send(r) PROVE Entered(r, k)' /\ faults' = faults
        OBVIOUS
    <2>1. proc' = [proc EXCEPT !.step = "sent", !.occ = k] /\ faults' = faults
        BY DEF Send
    <2> QED
        BY <1>1, <2>1 DEF Entered, OnRow, Locked, Inv, TypeOK
<1> QED
    BY <1>1, <1>3, <1>4 DEF SendFail, Fault

LEMMA StepKeepsPaid ==
    ASSUME PaidInv, LeadWithinCycle, [Next]_vars
    PROVE  PaidInv'
<1>1. /\ Inv /\ Inv' /\ (faults' = faults \/ faults' = faults + 1)
      /\ faults \in Nat /\ \A r \in Rows, k \in 1..MaxOcc : Number(r, k) \in Nat
    BY StepKeeps, FaultsCount, NumberType DEF PaidInv, Inv, TypeOK
<1>2. SUFFICES ASSUME NEW r \in Rows, NEW k \in 1..MaxOcc PROVE PaidFor(r, k)'
    BY <1>1 DEF PaidInv
<1>3. PaidFor(r, k) /\ (Entered(r, k) => Entered(r, k)' \/ faults' = faults + 1)
    BY <1>1, EnteredStays DEF PaidInv
<1>4. CASE Number(r, k)' = Number(r, k)
    BY <1>1, <1>3, <1>4 DEF PaidFor
<1>5. ASSUME NEW q \in Rows, Send(q) \/ SendFail(q) PROVE PaidFor(r, k)'
    <2>1. PICK j \in 1..MaxOcc : j = cache[q].next
        BY <1>1, <1>5 DEF Send, SendFail, OnRow, Inv, ProcOK
    <2>2. /\ ~Entered(q, j) /\ (Posted(q, j) \/ UNCHANGED posts)
          /\ Send(q) => Entered(q, j)' /\ faults' = faults
          /\ SendFail(q) => faults' = faults + 1
        BY <1>1, <1>5, <2>1, SendIsPaid
    <2>3. CASE Posted(q, j) /\ r = q /\ k = j
        <3>1. Number(r, k)' = Number(r, k) + 1
            BY <1>1, <2>3, PostedCounts
        <3> QED
            BY <1>1, <1>3, <1>5, <2>2, <2>3, <3>1 DEF PaidFor
    <2>4. CASE UNCHANGED posts \/ ~(r = q /\ k = j)
        <3>1. Number(r, k)' = Number(r, k)
            <4>1. CASE UNCHANGED posts
                BY <4>1 DEF Number, PostsOf
            <4>2. CASE Posted(q, j) /\ ~(r = q /\ k = j)
                BY <1>1, <4>2, PostedCounts
            <4> QED
                BY <2>2, <2>4, <4>1, <4>2
        <3> QED
            BY <1>4, <3>1
    <2> QED
        BY <2>2, <2>3, <2>4
<1>6. UNCHANGED posts \/ \E q \in Rows : Send(q) \/ SendFail(q)
    BY <1>1, StepPosts
<1>7. UNCHANGED posts => Number(r, k)' = Number(r, k)
    BY DEF Number, PostsOf
<1> QED
    BY <1>4, <1>5, <1>6, <1>7

\* With reminders at most a cycle ahead, an occurrence is announced at most once
\* more often than calls failed, the bot was slow or was restarted.
THEOREM RepeatsArePaidFor == ASSUME LeadWithinCycle PROVE Spec => []RepeatsPaidFor
<1>1. Init => PaidInv
    <2> SUFFICES ASSUME Init PROVE PaidInv
        OBVIOUS
    <2>1. \A r \in Rows : \A k : PostsOf(r, k) = {}
        BY DEF Init, PostsOf
    <2>2. \A r \in Rows : \A k : Number(r, k) = 0 /\ faults = 0
        BY <2>1, FS_EmptySet DEF Number, Init
    <2> QED
        BY <2>2, InitInv DEF PaidInv, PaidFor
<1>2. PaidInv /\ [Next]_vars => PaidInv'
    BY StepKeepsPaid
<1>3. PaidInv => RepeatsPaidFor
    BY DEF PaidInv, PaidFor, RepeatsPaidFor, Number
<1> QED
    BY <1>1, <1>2, <1>3, PTL DEF Spec
-----------------------------------------------------------------------------
(* The schedule passes over nothing that is open.  A correction that reached  *)
(* the tab in a call that raised leaves the tab ahead of the memory, until    *)
(* the row is corrected again, to the same occurrence or a later one.         *)

Over(r, k) == PostsOf(r, k) # {} \/ Reset(r, k) <= now

\* Its reset was over when the processing under way began.
Passed(r, k) == Reset(r, k) <= now /\ (Locked => Reset(r, k) <= proc.now)

Handling(r) == Locked /\ proc.row = r /\ proc.step \in {"send"} \cup Writing

KnownOK == \A r \in Rows : \A k \in {sheet[r].sent, cache[r].sent} : k # 0 => PostsOf(r, k) # {}

AheadOK(r) ==
    LET n == sheet[r].next
        m == cache[r].next
    IN  /\ loaded /\ n # 0 /\ m # 0 =>
               /\ \A k \in n..(m - 1) : Over(r, k)
               /\ \/ n <= m
                  \/ ~Handling(r) /\ \/ \A k \in m..(n - 1) : Passed(r, k)
                                     \/ cache[r].sent = m /\ n = m + 1
        /\ Locked /\ proc.row = r /\ proc.step \in Writing => m = Following(proc.occ)

ScheduleInv == Inv /\ KnownOK /\ \A r \in Rows : AheadOK(r)

\* A correction goes past what is over, and past an occurrence the sheet says was
\* posted; a correction of the same row that landed before went no further.
LEMMA CorrectedAhead ==
    ASSUME Inv, NEW r \in Rows, AtRow(r), ScheduleOnly(r), cache[r].next # 0
    PROVE  LET m == cache[r].next
               j == Corrected(r)
           IN  /\ m \in 1..MaxOcc /\ j \in 1..MaxOcc /\ j > m
               /\ \/ \A k \in m..(j - 1) : Reset(r, k) <= proc.now
                  \/ cache[r].sent = m /\ j = m + 1
               /\ \A n \in Occ :
                      \/ \A k \in m..(n - 1) : Reset(r, k) <= proc.now
                      \/ n <= m + 1
                      => n <= j
<1> DEFINE m == cache[r].next
           j == Corrected(r)
           t == proc.now
<1>1. /\ m \in 1..MaxOcc /\ t \in 0..MaxTime /\ j \in 1..MaxOcc /\ MaxOcc \in Nat
      /\ Due(r, MaxOcc) > MaxTime /\ MaxTime \in Nat
    <2>1. cache[r] \in Row /\ t \in 0..MaxTime
        BY DEF Inv, TypeOK
    <2>2. m \in 1..MaxOcc
        BY <2>1 DEF Row, Occ
    <2>3. j \in 1..MaxOcc
        BY CorrectedType
    <2> QED
        BY <2>1, <2>2, <2>3, Constants
<1>2. \A k \in Int : Due(r, k) \in Int /\ Reset(r, k) \in Int
    BY DueIsInt
<1>3. CASE t >= Reset(r, m)
    <2> DEFINE S == {i \in m..MaxOcc : Reset(r, i) > t}
    <2>1. j = Earlier(S)
        BY <1>1, <1>3 DEF Corrected, Advanced
    <2>2. S \in SUBSET Nat /\ MaxOcc \in S
        BY <1>1, <1>2, Constants DEF Reset
    <2>3. j \in S /\ \A i \in S : j <= i
        <3> HIDE DEF S, j
        <3> QED
            BY <2>1, <2>2, EarlierExists
    <2> HIDE DEF j
    <2>4. j \in m..MaxOcc /\ Reset(r, j) > t /\ j # m
        BY <1>1, <1>2, <1>3, <2>3
    <2>5. \A k \in m..(j - 1) : Reset(r, k) <= t
        <3> SUFFICES ASSUME NEW k \in m..(j - 1), Reset(r, k) > t PROVE FALSE
            BY <1>1, <1>2
        <3>1. k \in S
            BY <1>1, <2>4
        <3> QED
            BY <1>1, <2>3, <2>4, <3>1
    <2>6. ASSUME NEW n \in Occ, j < n
          PROVE  ~(\A k \in m..(n - 1) : Reset(r, k) <= t) /\ n > m + 1
        BY <1>1, <1>2, <2>4, <2>6 DEF Occ
    <2> HIDE DEF m
    <2>7. \A n \in Occ : (\A k \in m..(n - 1) : Reset(r, k) <= t) \/ n <= m + 1 => n <= j
        BY <1>1, <2>6 DEF Occ
    <2>8. j > m
        BY <1>1, <2>4
    <2> QED
        BY <1>1, <2>5, <2>7, <2>8 DEF j, m
<1>4. CASE t < Reset(r, m)
    <2>1. cache[r].sent = m /\ t >= Due(r, m)
        BY <1>1, <1>2, <1>4 DEF ScheduleOnly
    <2>2. m # MaxOcc /\ m < MaxOcc
        <3> HIDE DEF m, j, t
        <3>1. t \in Int /\ t <= MaxTime /\ Due(r, m) \in Int /\ Due(r, MaxOcc) \in Int
            BY <1>1, <1>2
        <3>2. Due(r, m) # Due(r, MaxOcc)
            BY <1>1, <2>1, <3>1
        <3> QED
            BY <1>1, <3>2
    <2>3. j = m + 1
        BY <1>1, <1>2, <1>4, <2>2 DEF Corrected, Following
    <2> HIDE DEF j
    <2>4. ASSUME NEW n \in Occ, j < n
          PROVE  ~(\A k \in m..(n - 1) : Reset(r, k) <= t) /\ n > m + 1
        BY <1>1, <1>2, <1>4, <2>3, <2>4 DEF Occ
    <2> HIDE DEF m
    <2>5. \A n \in Occ : (\A k \in m..(n - 1) : Reset(r, k) <= t) \/ n <= m + 1 => n <= j
        BY <1>1, <2>3, <2>4 DEF Occ
    <2> QED
        BY <1>1, <2>1, <2>3, <2>5 DEF j, m
<1> QED
    BY <1>1, <1>2, <1>3, <1>4

\* Nothing about the row changes but the clock and where the processing is.
LEMMA QuietAhead ==
    ASSUME Inv, [Next]_vars, NEW r \in Rows, AheadOK(r),
           sheet'[r].next = sheet[r].next, cache'[r].next = cache[r].next,
           cache'[r].sent = cache[r].sent, loaded' = loaded,
           Locked' => proc'.now = now \/ (Locked /\ proc'.now = proc.now),
           Handling(r)' => Handling(r) \/ sheet[r].next <= cache[r].next,
           Locked' /\ proc'.row = r /\ proc'.step \in Writing =>
               Locked /\ proc.row = r /\ proc.step \in Writing /\ proc'.occ = proc.occ
    PROVE  AheadOK(r)'
<1>1. /\ now \in Int /\ now' \in Int /\ now <= now'
      /\ proc.now \in Int /\ sheet[r].next \in Int /\ cache[r].next \in Int
    <2>1. now \in 0..MaxTime /\ now' \in 0..MaxTime /\ now' \in {now, now + 1}
        BY StepKeeps DEF Inv, TypeOK, Next, Processing, RowStep, RowFault, Load, Done, NotDue,
           Correct, DeleteOld, Send, WriteCell, LoadFail, Unexpected, CorrectFail, NoTarget,
           SendFail, WriteCellFail, DueJob, Reconcile, Crash, Tick, vars
    <2> QED
        BY <2>1 DEF Inv, TypeOK, Row, Occ
<1>2. \A k \in Int : Reset(r, k) \in Int
    BY DueIsInt
<1>3. \A k \in Int : Over(r, k) => Over(r, k)'
    BY <1>1, <1>2, PostsStay DEF Over
<1>4. \A k \in Int : Passed(r, k) => Passed(r, k)'
    BY <1>1, <1>2 DEF Passed
<1> QED
    BY <1>1, <1>3, <1>4 DEF AheadOK

LEMMA CorrectAhead ==
    ASSUME ScheduleInv, Inv', NEW r \in Rows, Correct(r) \/ CorrectFail(r),
           sheet' # sheet \/ Correct(r)
    PROVE  AheadOK(r)'
<1> DEFINE m == cache[r].next
           j == Corrected(r)
<1>1. /\ AtRow(r) /\ ScheduleOnly(r) /\ Locked /\ loaded /\ UNCHANGED <<now, posts, loaded>>
      /\ sheet' = [sheet EXCEPT ![r].next = j] /\ sheet \in [Rows -> Row]
      /\ cache \in [Rows -> Row] /\ proc.now \in 0..MaxTime /\ proc.now <= now
      /\ now \in 0..MaxTime
    BY DEF Correct, CorrectFail, AtRow, ScheduleInv, Inv, TypeOK, ProcOK
<1>2. sheet'[r].next = j /\ j \in 1..MaxOcc
    BY <1>1, CorrectedType DEF ScheduleInv, Row
<1>3. proc'.step = "row" /\ proc'.now = proc.now
    BY <1>1, RowsType DEF Correct, CorrectFail, AtRow, ScheduleInv
<1>4. CASE Correct(r)
    <2>1. cache'[r].next = j
        BY <1>1, <1>4 DEF Correct, Row
    <2> HIDE DEF j
    <2>2. ~(proc'.step \in Writing)
        BY <1>3 DEF Writing
    <2> QED
        BY <1>2, <2>1, <2>2 DEF AheadOK
<1>5. CASE UNCHANGED cache
    <2>1. ASSUME m # 0
          PROVE  /\ j > m /\ m \in 1..MaxOcc
                 /\ \/ \A k \in m..(j - 1) : Reset(r, k) <= proc.now
                    \/ cache[r].sent = m /\ j = m + 1
        BY <1>1, <2>1, CorrectedAhead DEF ScheduleInv
    <2> HIDE DEF j, m
    <2>2. \A k \in Int : Reset(r, k) \in Int
        BY DueIsInt
    <2>3. \A k \in Int : Reset(r, k) <= proc.now => Passed(r, k)'
        BY <1>1, <1>3, <2>2 DEF Passed
    <2>4. ~Handling(r)' /\ ~(proc'.step \in Writing)
        BY <1>3 DEF Handling, Writing
    <2>5. cache'[r].next = m /\ cache'[r].sent = cache[r].sent
        BY <1>5 DEF m
    <2> QED
        BY <1>2, <2>1, <2>3, <2>4, <2>5 DEF AheadOK
<1> QED
    BY <1>4, <1>5 DEF CorrectFail

LEMMA SendAhead == ASSUME ScheduleInv, Inv', NEW r \in Rows, Send(r) PROVE AheadOK(r)'
<1>1. PICK m \in 1..MaxOcc : m = cache[r].next
    BY DEF Send, OnRow, ScheduleInv, Inv, ProcOK
<1>2. PICK n \in Occ : n = sheet[r].next
    BY DEF ScheduleInv, Inv, TypeOK, Row
<1>3. /\ OnRow(r, "send") /\ loaded /\ Posted(r, m)
      /\ UNCHANGED <<now, sheet, loaded>>
      /\ now \in 0..MaxTime
      /\ proc' = [proc EXCEPT !.step = "sent", !.occ = m]
      /\ cache'[r].next = Following(m)
    BY <1>1 DEF Send, OnRow, ScheduleInv, Inv, TypeOK, ProcOK, Row
<1>4. PICK i \in {m, m + 1} : cache'[r].next = i /\ i = Following(m)
    BY <1>3 DEF Following
<1>5. proc'.occ = m
    BY <1>3 DEF ScheduleInv, Inv, TypeOK
<1>6. PICK x : \A q \in Rows : \A j :
          PostsOf(q, j)' = IF q = r /\ j = m THEN PostsOf(q, j) \cup {x} ELSE PostsOf(q, j)
    BY <1>3, PostedAdds DEF ScheduleInv
<1>7. \A k \in Int : Over(r, k) => Over(r, k)'
    BY <1>3, <1>6 DEF Over
<1>8. Over(r, m)'
    BY <1>6 DEF Over
<1>9. n # 0 => n <= m /\ \A k \in n..(m - 1) : Over(r, k)
    BY <1>1, <1>2, <1>3 DEF AheadOK, ScheduleInv, Handling, OnRow
<1>10. n # 0 => n <= i /\ \A k \in n..(i - 1) : Over(r, k)'
    <2> SUFFICES ASSUME n # 0 PROVE n <= i /\ \A k \in n..(i - 1) : Over(r, k)'
        OBVIOUS
    <2>1. n <= i /\ \A k \in n..(i - 1) : k \in n..(m - 1) \/ k = m
        BY <1>9 DEF Occ
    <2>2. \A k \in n..(m - 1) : Over(r, k)'
        BY <1>7, <1>9
    <2> QED
        BY <1>8, <2>1, <2>2
<1>11. sheet'[r].next = n
    BY <1>2, <1>3
<1> QED
    BY <1>4, <1>5, <1>10, <1>11 DEF AheadOK

\* The cell of the schedule takes what the memory holds already.
LEMMA NextCell ==
    ASSUME ScheduleInv, NEW r \in Rows,
           WriteCell(r, "next") \/ (WriteCellFail(r, "next") /\ sheet' # sheet)
    PROVE  sheet'[r].next = cache[r].next /\ loaded
<1>1. /\ OnRow(r, "next") /\ sheet' = [sheet EXCEPT ![r] = Cell(r, "next")]
      /\ sheet \in [Rows -> Row]
    BY DEF WriteCell, WriteCellFail, ScheduleInv, Inv, TypeOK
<1>2. Cell(r, "next") = [sheet[r] EXCEPT !.next = Following(proc.occ)] /\ sheet[r] \in Row
    BY <1>1 DEF Cell
<1>3. sheet'[r].next = Following(proc.occ)
    BY <1>1, <1>2 DEF Row
<1> QED
    BY <1>1, <1>3 DEF ScheduleInv, AheadOK, OnRow, Writing, Inv, ProcOK

\* How one cell of a row leaves the schedules of the tab.
LEMMA CellSchedule ==
    ASSUME Inv, NEW q \in Rows, NEW step \in Writing,
           WriteCell(q, step) \/ WriteCellFail(q, step)
    PROVE  /\ \A r \in Rows : (r # q \/ step # "next" \/ sheet' = sheet) =>
                                 sheet'[r].next = sheet[r].next
           /\ UNCHANGED <<now, loaded, cache, posts>> /\ OnRow(q, step)
           /\ proc'.now = proc.now /\ proc'.owner = proc.owner
           /\ \/ proc'.step = "row"
              \/ proc'.step \in {"next", "msg"} /\ proc'.row = q /\ proc'.occ = proc.occ
<1>1. /\ OnRow(q, step) /\ proc.row = q /\ proc \in Proc
      /\ UNCHANGED <<now, loaded, cache, loadAfter, job, posts, live>>
      /\ sheet' \in {sheet, [sheet EXCEPT ![q] = Cell(q, step)]}
      /\ sheet \in [Rows -> Row]
    BY DEF WriteCell, WriteCellFail, OnRow, Inv, TypeOK, Proc
<1>2. /\ proc'.now = proc.now /\ proc'.owner = proc.owner
      /\ \/ proc'.step = "row"
         \/ proc'.step \in {"next", "msg"} /\ proc'.row = q /\ proc'.occ = proc.occ
    <2>1. CASE NextRow
        BY <1>1, <2>1, RowsType
    <2>2. CASE \E s \in {"next", "msg"} : proc' = [proc EXCEPT !.step = s]
        BY <1>1, <2>2 DEF Proc, Steps
    <2> QED
        BY <2>1, <2>2 DEF WriteCell, WriteCellFail
<1>3. step # "next" => Cell(q, step).next = sheet[q].next
    <2>1. sheet[q] \in Row
        BY <1>1
    <2>2. CASE step = "sent"
        BY <2>1, <2>2 DEF Cell, Row
    <2>3. CASE step = "msg"
        <3>1. Cell(q, step) = [sheet[q] EXCEPT !.msg = Len(posts[q])]
            BY <2>3 DEF Cell
        <3> QED
            BY <2>1, <3>1 DEF Row
    <2> QED
        BY <2>2, <2>3 DEF Writing
<1> QED
    BY <1>1, <1>2, <1>3

LEMMA StepAhead ==
    ASSUME ScheduleInv, [Next]_vars, NEW r \in Rows
    PROVE  AheadOK(r)'
<1>1. Inv /\ Inv' /\ AheadOK(r) /\ sheet \in [Rows -> Row] /\ cache \in [Rows -> Row]
    BY StepKeeps DEF ScheduleInv, Inv, TypeOK
<1>2. CASE DueJob \/ Reconcile \/ LoadFail \/ Done \/ Unexpected \/ Tick \/ UNCHANGED vars
    <2>1. UNCHANGED <<sheet, cache, loaded>>
        BY <1>2 DEF DueJob, Reconcile, LoadFail, Done, Unexpected, Tick, vars, store
    <2>2. \/ proc' = Idle \/ proc' = proc
          \/ proc'.step \in {"row", "load"} /\ (proc'.now = now \/ (Locked /\ proc'.now = proc.now))
        <3>1. CASE DueJob \/ Reconcile
            BY <1>1, <1>2, <3>1, BeginType DEF DueJob, Reconcile
        <3>2. CASE LoadFail
            BY <1>1, <3>2 DEF LoadFail, Finish, Inv, TypeOK
        <3>3. CASE Done \/ Unexpected \/ Tick \/ UNCHANGED vars
            BY <3>3 DEF Done, Finish, Unexpected, Tick, vars
        <3> QED
            BY <1>2, <3>1, <3>2, <3>3
    <2>3. Idle.owner = "none"
        BY DEF Idle
    <2>4. /\ Locked' => proc'.now = now \/ (Locked /\ proc'.now = proc.now)
          /\ Handling(r)' => Handling(r)
          /\ Locked' /\ proc'.row = r /\ proc'.step \in Writing =>
                Locked /\ proc.row = r /\ proc.step \in Writing /\ proc'.occ = proc.occ
        BY <2>2, <2>3 DEF Locked, Handling, Writing
    <2> QED
        BY <1>1, <2>1, <2>4, QuietAhead
<1>3. ASSUME NEW q \in Rows, NotDue(q) \/ NoTarget(q) \/ SendFail(q) PROVE AheadOK(r)'
    <2>1. /\ UNCHANGED <<sheet, cache, loaded>> /\ Locked
          /\ proc'.step = "row" /\ proc'.now = proc.now
        BY <1>1, <1>3, RowsType DEF NotDue, NoTarget, SendFail, Postable, AtRow, OnRow, store
    <2> QED
        BY <1>1, <2>1, QuietAhead DEF Handling, Writing
<1>4. ASSUME NEW q \in Rows, DeleteOld(q) PROVE AheadOK(r)'
    <2>1. /\ UNCHANGED <<sheet, cache, loaded>> /\ Locked /\ proc.row = q
          /\ proc'.step = "send" /\ proc'.now = proc.now /\ proc'.row = q
          /\ proc.step = "row" /\ ~ScheduleOnly(q) /\ loaded /\ proc.now \in 0..MaxTime
          /\ Open(q, cache[q].next, proc.now)
        BY <1>1, <1>4 DEF DeleteOld, Postable, AtRow, store, Inv, TypeOK, ProcOK
    <2>2. ASSUME q = r PROVE sheet[r].next <= cache[r].next
        <3> DEFINE n == sheet[r].next
                   m == cache[r].next
        <3>1. n \in Occ /\ m \in Occ /\ m # 0
            BY <1>1, <2>1, <2>2 DEF Row, ScheduleOnly
        <3>2. n # 0
            BY <1>1, <3>1 DEF Inv, RowOK
        <3>3. Due(r, m) \in Int /\ Reset(r, m) \in Int
            BY <3>1, DueIsInt DEF Occ
        <3>4. proc.now < Reset(r, m) /\ cache[r].sent # m
            BY <2>1, <2>2, <3>1, <3>3 DEF ScheduleOnly, Open
        <3>5. ~Passed(r, m)
            BY <2>1, <3>3, <3>4 DEF Passed
        <3>6. n <= m \/ \A k \in m..(n - 1) : Passed(r, k)
            BY <1>1, <2>1, <3>1, <3>2, <3>4 DEF AheadOK
        <3> HIDE DEF n, m
        <3>7. n <= m
            BY <3>1, <3>5, <3>6 DEF Occ
        <3> QED
            BY <3>7 DEF n, m
    <2>3. Handling(r)' => sheet[r].next <= cache[r].next
        BY <2>1, <2>2 DEF Handling
    <2> QED
        BY <1>1, <2>1, <2>3, QuietAhead DEF Writing
<1>5. ASSUME NEW q \in Rows, NEW step \in Writing, WriteCell(q, step) \/ WriteCellFail(q, step)
      PROVE  AheadOK(r)'
    <2>1. /\ \A p \in Rows : (p # q \/ step # "next" \/ sheet' = sheet) =>
                                 sheet'[p].next = sheet[p].next
          /\ UNCHANGED <<now, loaded, cache, posts>> /\ OnRow(q, step)
          /\ proc'.now = proc.now /\ proc'.owner = proc.owner
          /\ \/ proc'.step = "row"
             \/ proc'.step \in {"next", "msg"} /\ proc'.row = q /\ proc'.occ = proc.occ
        BY <1>1, <1>5, CellSchedule
    <2>2. CASE r # q \/ step # "next" \/ sheet' = sheet
        BY <1>1, <2>1, <2>2, QuietAhead DEF Handling, Writing, OnRow
    <2>3. CASE r = q /\ step = "next" /\ sheet' # sheet
        <3>1. sheet'[r].next = cache'[r].next
            BY <1>5, <2>1, <2>3, NextCell
        <3>2. cache[r].next \in Int
            BY <1>1 DEF Row, Occ
        <3>3. Locked' /\ proc'.row = r /\ proc'.step \in Writing => cache'[r].next = Following(proc'.occ)
            BY <1>1, <2>1, <2>3 DEF AheadOK, OnRow, Writing
        <3> QED
            BY <2>1, <3>1, <3>2, <3>3 DEF AheadOK
    <2> QED
        BY <2>2, <2>3
<1>6. ASSUME NEW q \in Rows, Correct(q) \/ CorrectFail(q) PROVE AheadOK(r)'
    <2>1. CASE q = r /\ (sheet' # sheet \/ Correct(r))
        BY <1>1, <1>6, <2>1, CorrectAhead
    <2>2. CASE q # r \/ (sheet' = sheet /\ CorrectFail(r))
        <3>1. /\ UNCHANGED loaded /\ Locked /\ proc'.step = "row" /\ proc'.now = proc.now
            BY <1>1, <1>6, RowsType DEF Correct, CorrectFail, AtRow
        <3>2. /\ sheet'[r].next = sheet[r].next /\ cache'[r].next = cache[r].next
              /\ cache'[r].sent = cache[r].sent
            BY <1>1, <1>6, <2>2 DEF Correct, CorrectFail
        <3> QED
            BY <1>1, <3>1, <3>2, QuietAhead DEF Handling, Writing
    <2> QED
        BY <1>6, <2>1, <2>2
<1>7. ASSUME NEW q \in Rows, Send(q) PROVE AheadOK(r)'
    <2>1. CASE q = r
        BY <1>1, <1>7, <2>1, SendAhead
    <2>2. CASE q # r
        <3>1. /\ UNCHANGED <<sheet, loaded>> /\ Locked /\ proc'.now = proc.now /\ proc'.row = q
              /\ cache'[r] = cache[r]
            BY <1>1, <1>7, <2>2 DEF Send, OnRow, Inv, TypeOK
        <3> QED
            BY <1>1, <2>2, <3>1, QuietAhead DEF Handling
    <2> QED
        BY <2>1, <2>2
<1>8. CASE Load
    <2>1. cache' = sheet' /\ proc'.step = "row"
        BY <1>1, <1>8 DEF Load, Inv, TypeOK
    <2>2. sheet'[r].next \in Int
        BY <1>1 DEF Inv, TypeOK, Row, Occ
    <2> QED
        BY <2>1, <2>2 DEF AheadOK, Writing
<1>9. CASE Crash
    BY <1>9 DEF Crash, AheadOK, Idle, Locked
<1> QED
    BY <1>2, <1>3, <1>4, <1>5, <1>6, <1>7, <1>8, <1>9
    DEF Next, Processing, RowStep, RowFault, Writing

LEMMA PostedSays ==
    ASSUME Inv, NEW r \in Rows, NEW k \in 1..MaxOcc, Posted(r, k)
    PROVE  PostsOf(r, k)' # {}
<1>1. PICK x : /\ \A q \in Rows : \A j :
                      PostsOf(q, j)' = IF q = r /\ j = k THEN PostsOf(q, j) \cup {x}
                                       ELSE PostsOf(q, j)
               /\ \A j : x \notin PostsOf(r, j)
    BY PostedAdds
<1> QED
    BY <1>1

\* What the tab or the memory says was sent, was sent.
LEMMA StepKnown == ASSUME Inv, KnownOK, [Next]_vars PROVE KnownOK'
<1>1. Inv' /\ sheet \in [Rows -> Row] /\ cache \in [Rows -> Row]
    BY StepKeeps DEF Inv, TypeOK
<1>2. SUFFICES ASSUME NEW r \in Rows
               PROVE  \A k \in {sheet'[r].sent, cache'[r].sent} : k # 0 => PostsOf(r, k)' # {}
    BY DEF KnownOK
<1>3. \A k \in {0, sheet[r].sent, cache[r].sent} : k # 0 => PostsOf(r, k)' # {}
    BY PostsStay DEF KnownOK
<1>4. ASSUME NEW q \in Rows, Correct(q) \/ CorrectFail(q)
      PROVE  sheet'[r].sent = sheet[r].sent /\ cache'[r].sent = cache[r].sent
    BY <1>1, <1>4 DEF Correct, CorrectFail, Row
<1>5. ASSUME NEW q \in Rows, Send(q)
      PROVE  \A k \in {sheet'[r].sent, cache'[r].sent} : k # 0 => PostsOf(r, k)' # {}
    <2>1. PICK m \in 1..MaxOcc : m = cache[q].next
        BY <1>5 DEF Send, OnRow, Inv, ProcOK
    <2>2. /\ UNCHANGED sheet
          /\ cache'[r].sent = cache[r].sent \/ (cache'[r].sent = m /\ r = q)
        BY <1>1, <1>5, <2>1 DEF Send
    <2>3. PostsOf(q, m)' # {}
        <3>1. Posted(q, m)
            BY <1>5, <2>1 DEF Send
        <3> QED
            BY <3>1, PostedSays
    <2> QED
        BY <1>3, <2>2, <2>3
<1>6. ASSUME NEW q \in Rows, NEW step \in Writing, WriteCell(q, step) \/ WriteCellFail(q, step)
      PROVE  \A k \in {sheet'[r].sent, cache'[r].sent} : k # 0 => PostsOf(r, k)' # {}
    <2>1. /\ OnRow(q, step) /\ UNCHANGED <<cache, posts>>
          /\ sheet' \in {sheet, [sheet EXCEPT ![q] = Cell(q, step)]}
        BY <1>6 DEF WriteCell, WriteCellFail
    <2>2. Cell(q, step).sent = IF step = "sent" THEN proc.occ ELSE sheet[q].sent
        BY <2>1, CellType
    <2>3. \/ sheet'[r].sent = sheet[r].sent
          \/ r = q /\ step = "sent" /\ sheet'[r].sent = proc.occ
        BY <1>1, <2>1, <2>2
    <2>4. step = "sent" => cache[q].sent = proc.occ
        BY <2>1 DEF OnRow, Inv, ProcOK
    <2> QED
        BY <1>3, <2>1, <2>3, <2>4
<1>7. CASE UNCHANGED <<sheet, cache>>
    BY <1>3, <1>7
<1>8. CASE Load \/ Crash
    <2>1. UNCHANGED sheet /\ (cache' = sheet \/ cache' = NoRecords)
        BY <1>8 DEF Load, Crash
    <2> QED
        BY <1>3, <2>1 DEF NoRecords
<1>9. \/ UNCHANGED <<sheet, cache>> \/ Load \/ Crash
      \/ \E q \in Rows : \/ Correct(q) \/ CorrectFail(q) \/ Send(q)
                         \/ \E step \in Writing : WriteCell(q, step) \/ WriteCellFail(q, step)
    BY DEF Next, Processing, RowStep, RowFault, Done, NotDue, DeleteOld, LoadFail, Unexpected,
       NoTarget, SendFail, DueJob, Reconcile, Tick, vars, store, Writing
<1> QED
    BY <1>3, <1>4, <1>5, <1>6, <1>7, <1>8, <1>9

\* Only a correction and the cell of the schedule move it.
LEMMA MovesOverOnly ==
    ASSUME ScheduleInv, [Next]_vars, NEW r \in Rows, sheet[r].next # 0,
           loaded => cache[r].next # 0
    PROVE  /\ sheet'[r].next >= sheet[r].next
           /\ \A k \in sheet[r].next..(sheet'[r].next - 1) : Over(r, k)
<1> DEFINE n == sheet[r].next
           m == cache[r].next
           j == Corrected(r)
<1>1. /\ Inv /\ AheadOK(r) /\ n \in Occ /\ m \in Occ
      /\ sheet \in [Rows -> Row] /\ now \in 0..MaxTime /\ proc.now \in 0..MaxTime
      /\ proc.now <= now /\ \A k \in Int : Reset(r, k) \in Int
    BY DueIsInt DEF ScheduleInv, Inv, TypeOK, Row, ProcOK
<1>2. CASE sheet'[r].next = n
    <2>1. n..(n - 1) = {}
        BY <1>1 DEF Occ
    <2> HIDE DEF n
    <2> QED
        BY <1>1, <1>2, <2>1 DEF Occ, n
<1>3. CASE Correct(r) \/ CorrectFail(r)
    <2>1. /\ AtRow(r) /\ ScheduleOnly(r) /\ Locked /\ loaded /\ m # 0
          /\ sheet'[r].next \in {n, j}
        <3>1. AtRow(r) /\ ScheduleOnly(r) /\ Locked /\ loaded
            BY <1>1, <1>3 DEF Correct, CorrectFail, AtRow, Inv, ProcOK
        <3>2. sheet'[r].next \in {n, j}
            <4> HIDE DEF j
            <4> QED
                BY <1>1, <1>3 DEF Correct, CorrectFail, Row, j
        <3> QED
            BY <3>1, <3>2
    <2>2. /\ m \in 1..MaxOcc /\ j \in 1..MaxOcc /\ j > m
          /\ \/ \A k \in m..(j - 1) : Reset(r, k) <= proc.now
             \/ cache[r].sent = m /\ j = m + 1
          /\ \/ \A k \in m..(n - 1) : Reset(r, k) <= proc.now
             \/ n <= m + 1
             => n <= j
        BY <1>1, <2>1, CorrectedAhead
    <2>3. m # 0 /\ cache[r].sent = m => Over(r, m)
        BY DEF ScheduleInv, KnownOK, Over
    <2>4. n # 0
        OBVIOUS
    <2> HIDE DEF n, m, j
    <2>5. /\ \A k \in n..(m - 1) : Over(r, k)
          /\ n <= m \/ (\A k \in m..(n - 1) : Reset(r, k) <= proc.now) \/ n = m + 1
        BY <1>1, <2>1, <2>4 DEF AheadOK, Passed, n, m
    <2>6. n <= j
        BY <1>1, <2>2, <2>5 DEF Occ
    <2>7. \A k \in m..(j - 1) : Over(r, k)
        <3>1. CASE \A k \in m..(j - 1) : Reset(r, k) <= proc.now
            BY <1>1, <2>2, <3>1 DEF Over
        <3>2. CASE cache[r].sent = m /\ j = m + 1
            <4>1. \A k \in m..(j - 1) : k = m
                BY <2>2, <3>2
            <4> QED
                BY <2>1, <2>3, <3>2, <4>1
        <3> QED
            BY <2>2, <3>1, <3>2
    <2>8. \A k \in n..(j - 1) : k \in n..(m - 1) \/ k \in m..(j - 1)
        BY <1>1, <2>2 DEF Occ
    <2>9. CASE sheet'[r].next = j
        BY <2>5, <2>6, <2>7, <2>8, <2>9 DEF n
    <2> QED
        BY <1>2, <2>1, <2>9
<1>4. CASE (WriteCell(r, "next") \/ WriteCellFail(r, "next")) /\ sheet' # sheet
    <2>1. sheet'[r].next = m /\ loaded /\ m # 0
        BY <1>4, NextCell
    <2>2. Handling(r)
        BY <1>4 DEF WriteCell, WriteCellFail, OnRow, Handling, Writing
    <2> QED
        BY <1>1, <2>1, <2>2 DEF AheadOK
<1>5. ASSUME NEW q \in Rows, Correct(q) \/ CorrectFail(q), q # r PROVE sheet'[r].next = n
    BY <1>1, <1>5 DEF Correct, CorrectFail
<1>6. ASSUME NEW q \in Rows, NEW step \in Writing, WriteCell(q, step) \/ WriteCellFail(q, step),
             r # q \/ step # "next" \/ sheet' = sheet
      PROVE  sheet'[r].next = n
    BY <1>1, <1>6, CellSchedule
<1>7. \/ UNCHANGED sheet
      \/ \E q \in Rows : \/ Correct(q) \/ CorrectFail(q)
                         \/ \E step \in Writing : WriteCell(q, step) \/ WriteCellFail(q, step)
    BY DEF Next, Processing, RowStep, RowFault, Load, Done, NotDue, DeleteOld, LoadFail,
       Unexpected, NoTarget, Send, SendFail, DueJob, Reconcile, Crash, Tick, vars, store, Writing
<1> HIDE DEF n
<1>8. UNCHANGED sheet => sheet'[r].next = n
    BY DEF n
<1> QED
    BY <1>2, <1>3, <1>4, <1>5, <1>6, <1>7, <1>8

\* The schedule in the tab goes forward, past what was posted or is over, through
\* corrections, cells that fail, reloads and restarts.
THEOREM ScheduleNeverSkips == Spec => NeverSkipsOpen
<1>1. Init => ScheduleInv
    <2> SUFFICES ASSUME Init PROVE ScheduleInv
        OBVIOUS
    <2>1. \A r \in Rows : sheet[r].sent = 0 /\ cache[r].sent = 0
        BY DEF Init, NoRecords
    <2>2. ~loaded /\ ~Locked
        BY DEF Init, Idle, Locked
    <2> QED
        BY <2>1, <2>2, InitInv DEF ScheduleInv, KnownOK, AheadOK
<1>2. ScheduleInv /\ [Next]_vars => ScheduleInv'
    <2>1. ASSUME ScheduleInv, [Next]_vars PROVE Inv' /\ KnownOK' /\ \A r \in Rows : AheadOK(r)'
        BY <2>1, StepKeeps, StepKnown, StepAhead DEF ScheduleInv
    <2> QED
        BY <2>1 DEF ScheduleInv
<1>3. ScheduleInv /\ [Next]_vars =>
          [\A r \in Rows : sheet[r].next # 0 /\ (loaded => cache[r].next # 0) =>
               /\ sheet'[r].next >= sheet[r].next
               /\ \A k \in sheet[r].next..(sheet'[r].next - 1) :
                      PostsOf(r, k) # {} \/ Reset(r, k) <= now]_vars
    BY MovesOverOnly DEF Over
<1> QED
    BY <1>1, <1>2, <1>3, PTL DEF Spec, NeverSkipsOpen
-----------------------------------------------------------------------------
(* Nothing is late while every call succeeds and the bot keeps up: the job is *)
(* due no later than the first row, and a processing ends within its tick.    *)

\* The processing under way is done with the row, but for the cells to write.
Handled(r) ==
    Locked /\ proc.step # "load" /\ (r < proc.row \/ (r = proc.row /\ proc.step \in Writing))

\* The clock does not pass a processing, nor an armed job, nor a bot that starts.
WakeOK ==
    /\ job.state = "off" => now = 0
    /\ job.state = "off" /\ ~Locked => ~loaded
    /\ job.state = "run" => proc.owner = "job"
    /\ Locked => proc.now = now /\ (proc.step = "load" => proc.row = 1)
    /\ ~loaded => now = 0 /\ \A r \in Rows : sheet[r].next \in {0, 1}
    /\ (~Locked /\ job.state # "off") \/ proc.owner = "job" =>
           loaded /\ \A r \in Rows : cache[r].next # 0
    /\ ~Locked /\ job.state = "wait" =>
           /\ job.next # None
           /\ job.next <= now \/ \A r \in Rows : job.next <= Due(r, cache[r].next)

\* What is behind the schedule was posted, what is ahead is not over due, and
\* what the job has handled is due later.
TimelyOK(r) ==
    LET n == sheet[r].next
        m == cache[r].next
    IN  loaded =>
            /\ m = 0 => now = 0 /\ n = 0
            /\ m # 0 =>
                   /\ Due(r, m) >= now
                   /\ \A k \in 1..(m - 1) : PostsOf(r, k) # {} \/ Lead[r] = 0
                   /\ n = m \/ (Locked /\ proc.row = r /\ proc.step \in {"sent", "next"})
            /\ Handled(r) => m # 0 /\ (proc.owner = "job" => Due(r, m) > now)

InTimeInv == ScheduleInv /\ (faults = 0 => WakeOK /\ \A r \in Rows : TimelyOK(r))

\* A step without a fault.
LEMMA Undisturbed ==
    ASSUME Inv, [Next]_vars, faults' = 0
    PROVE  /\ faults = 0
           /\ \/ UNCHANGED vars \/ Load \/ Done \/ DueJob \/ Reconcile
              \/ Tick /\ ~Ready
              \/ \E r \in Rows : RowStep(r)
<1>1. ~Fault /\ (faults' = faults \/ faults' = faults + 1) /\ faults \in Nat
    BY FaultsCount DEF Fault, Inv, TypeOK
<1>2. ASSUME NEW r \in Rows PROVE ~RowFault(r)
    BY <1>1 DEF RowFault, CorrectFail, NoTarget, SendFail, WriteCellFail
<1> QED
    BY <1>1, <1>2 DEF Next, Processing, LoadFail, Unexpected, Crash, Tick

\* The row as it was, before a processing that is no further with it.
LEMMA TimelyStays ==
    ASSUME Inv, [Next]_vars, NEW r \in Rows, TimelyOK(r),
           sheet'[r].next = sheet[r].next, cache'[r].next = cache[r].next, loaded' = loaded,
           now' = now, Handled(r)' => Handled(r) /\ (proc'.owner = "job" => proc.owner = "job"),
           Locked /\ proc.row = r /\ proc.step \in {"sent", "next"} =>
               \/ Locked' /\ proc'.row = r /\ proc'.step \in {"sent", "next"}
               \/ sheet[r].next = cache[r].next
    PROVE  TimelyOK(r)'
<1>1. \A k : PostsOf(r, k) # {} => PostsOf(r, k)' # {}
    BY PostsStay
<1> QED
    BY <1>1 DEF TimelyOK

LEMMA DueDates == ASSUME Inv, job.next # None PROVE job.next \in Nat
<1>1. \A r \in Rows : \A k \in 1..MaxOcc : Due(r, k) \in Nat
    BY DueIsNat
<1> QED
    BY <1>1, Constants DEF Inv, TypeOK, DueTimes

\* What is armed when every row has a schedule: the first due time.
LEMMA EarliestIsFirst ==
    ASSUME Inv, loaded, \A r \in Rows : cache[r].next # 0
    PROVE  LET due == EarliestCachedDue(cache, loaded) IN
           /\ due \in Nat /\ due # None
           /\ \A r \in Rows : due <= Due(r, cache[r].next)
           /\ \E r \in Rows : due = Due(r, cache[r].next)
<1> DEFINE S == Scheduled(cache)
<1>1. S = {Due(r, cache[r].next) : r \in Rows}
    BY DEF Scheduled
<1>2. S \in SUBSET Nat /\ S # {}
    <2>1. \A r \in Rows : cache[r].next \in 1..MaxOcc
        BY DEF Inv, TypeOK, Row, Occ
    <2>2. 1 \in Rows
        BY Constants DEF Rows
    <2> QED
        BY <1>1, <2>1, <2>2, DueIsNat
<1> HIDE DEF S
<1>3. Earlier(S) \in S /\ \A u \in S : Earlier(S) <= u
    BY <1>2, EarlierExists
<1>4. EarliestCachedDue(cache, loaded) = Earlier(S)
    BY <1>2 DEF EarliestCachedDue, S
<1>5. PICK due \in S : due = EarliestCachedDue(cache, loaded) /\ \A u \in S : due <= u
    BY <1>3, <1>4
<1>6. due \in Nat /\ due # None
    BY <1>2, Constants
<1>7. \A r \in Rows : due <= Due(r, cache[r].next)
    BY <1>1, <1>5
<1>8. \E r \in Rows : due = Due(r, cache[r].next)
    BY <1>1
<1> QED
    BY <1>5, <1>6, <1>7, <1>8

LEMMA TickInTime ==
    ASSUME InTimeInv, Inv', faults = 0, Tick, ~Ready
    PROVE  WakeOK' /\ \A r \in Rows : TimelyOK(r)'
<1>1. /\ Inv /\ WakeOK /\ ~Locked /\ job.state = "wait" /\ loaded
      /\ \A r \in Rows : cache[r].next # 0 /\ TimelyOK(r)
    BY DEF InTimeInv, ScheduleInv, Ready, WakeOK, Inv, TypeOK, Locked
<1>2. now' = now + 1 /\ now \in Nat /\ UNCHANGED <<sheet, loaded, cache, proc, job, posts>>
    BY <1>1 DEF Tick, store, Inv, TypeOK
<1>3. job.next \in Nat /\ job.next > now
    BY <1>1, <1>2, DueDates DEF Ready, WakeOK
<1>4. \A r \in Rows : job.next <= Due(r, cache[r].next)
    BY <1>1, <1>2, <1>3 DEF WakeOK
<1>5. WakeOK'
    BY <1>1, <1>2, <1>4 DEF WakeOK, Locked
<1>6. ASSUME NEW r \in Rows PROVE TimelyOK(r)'
    <2>1. Due(r, cache[r].next) \in Int
        BY <1>1, DueIsInt DEF Inv, TypeOK, Row, Occ
    <2>2. Due(r, cache[r].next) >= now + 1
        BY <1>2, <1>3, <1>4, <2>1
    <2> QED
        BY <1>1, <1>2, <2>2 DEF TimelyOK, Handled, Locked, PostsOf
<1> QED
    BY <1>5, <1>6

LEMMA WakingInTime ==
    ASSUME InTimeInv, [Next]_vars, faults = 0, DueJob \/ Reconcile
    PROVE  WakeOK' /\ \A r \in Rows : TimelyOK(r)'
<1>1. /\ Inv /\ WakeOK /\ \A r \in Rows : TimelyOK(r)
      /\ UNCHANGED <<now, sheet, loaded, cache>>
    BY DEF InTimeInv, ScheduleInv, DueJob, Reconcile, store
<1>2. CASE Locked
    <2>1. /\ UNCHANGED proc
          /\ job'.state = job.state \/ (job'.state = "wait" /\ job.state # "run")
        BY <1>1, <1>2 DEF DueJob, Reconcile, Rearm, At, Inv, TypeOK
    <2>2. WakeOK'
        BY <1>1, <1>2, <2>1 DEF WakeOK, Locked
    <2> QED
        BY <1>1, <2>1, <2>2, TimelyStays DEF Handled, Locked
<1>3. CASE ~Locked
    <2>1. /\ proc'.owner \in {"job", "reconcile"} /\ proc'.row = 1 /\ proc'.now = now
          /\ proc'.step \in {"row", "load"}
          /\ proc'.owner = "job" => job'.state = "run" /\ job.state = "wait"
          /\ proc'.owner = "reconcile" => job' = job
        BY <1>3 DEF DueJob, Reconcile, Begin
    <2>2. job.state # "run"
        BY <1>1, <1>3 DEF WakeOK, Locked
    <2>3. WakeOK'
        BY <1>1, <1>3, <2>1, <2>2 DEF WakeOK, Locked
    <2>4. ASSUME NEW r \in Rows PROVE ~Handled(r)'
        BY <2>1 DEF Handled, Writing, Rows
    <2> QED
        BY <1>1, <1>3, <2>3, <2>4, TimelyStays
<1> QED
    BY <1>2, <1>3

LEMMA LoadInTime ==
    ASSUME InTimeInv, Inv', faults = 0, Load
    PROVE  WakeOK' /\ \A r \in Rows : TimelyOK(r)'
<1>1. /\ Inv /\ WakeOK /\ \A r \in Rows : TimelyOK(r) /\ RowOK(r) /\ sheet[r].next \in Occ
      /\ UNCHANGED <<now, sheet, posts, job>> /\ loaded' = TRUE /\ cache' = sheet
      /\ Locked /\ proc.step = "load"
      /\ now \in Nat /\ proc.row = 1
    BY DEF InTimeInv, ScheduleInv, Load, Inv, TypeOK, WakeOK, Row
<1>2. /\ proc'.owner = proc.owner /\ proc'.row = 1 /\ proc'.now = proc.now
      /\ proc'.step = "row"
    BY <1>1 DEF Load, Inv, TypeOK
<1>3. proc.owner = "job" => \A r \in Rows : sheet[r].next # 0
    BY <1>1 DEF WakeOK, RowOK
<1>4. WakeOK'
    BY <1>1, <1>2, <1>3 DEF WakeOK, Locked
<1>5. ASSUME NEW r \in Rows PROVE TimelyOK(r)'
    <2> DEFINE n == sheet[r].next
    <2>1. ~Handled(r)'
        BY <1>2 DEF Handled, Writing, Rows
    <2>2. n = 0 => now = 0
        BY <1>1 DEF WakeOK, TimelyOK, RowOK
    <2>3. n # 0 => Due(r, n) >= now /\ \A k \in 1..(n - 1) : PostsOf(r, k) # {} \/ Lead[r] = 0
        <3>1. CASE loaded
            BY <1>1, <3>1 DEF TimelyOK, RowOK
        <3>2. CASE ~loaded
            <4>1. now = 0 /\ n \in {0, 1}
                BY <1>1, <3>2 DEF WakeOK
            <4>2. Due(r, 1) \in Nat
                BY DueIsNat, Constants
            <4> QED
                BY <4>1, <4>2
        <3> QED
            BY <3>1, <3>2
    <2> QED
        BY <1>1, <2>1, <2>2, <2>3 DEF TimelyOK, PostsOf
<1> QED
    BY <1>4, <1>5

LEMMA DoneInTime ==
    ASSUME InTimeInv, [Next]_vars, faults = 0, Done
    PROVE  WakeOK' /\ \A r \in Rows : TimelyOK(r)'
<1>1. /\ Inv /\ WakeOK /\ \A r \in Rows : TimelyOK(r)
      /\ UNCHANGED <<now, sheet, loaded, cache>> /\ loaded
      /\ Locked /\ proc.step = "row" /\ now \in Nat
    BY DEF InTimeInv, ScheduleInv, Done, store, Inv, TypeOK, ProcOK
<1>2. \A r \in Rows : cache[r].next # 0 /\ (proc.owner = "job" => Due(r, cache[r].next) > now)
    <2>1. \A r \in Rows : r < proc.row
        BY Constants DEF Done, Rows
    <2> QED
        BY <1>1, <2>1 DEF TimelyOK, Handled
<1>3. PICK due \in Nat : /\ due # None /\ due = EarliestCachedDue(cache, loaded)
                         /\ \A r \in Rows : due <= Due(r, cache[r].next)
                         /\ \E r \in Rows : due = Due(r, cache[r].next)
    BY <1>1, <1>2, EarliestIsFirst
<1>4. proc' = Idle /\ ~Locked'
    BY DEF Done, Finish, Locked, Idle
<1>5. job'.state = "wait" /\ job'.next = due
    <2>1. CASE proc.owner = "job" /\ Rearm(due)
        <3>1. due > now
            BY <1>2, <1>3, <2>1
        <3>2. ~(due <= now)
            BY <1>1, <3>1
        <3> QED
            BY <2>1, <3>2 DEF Rearm
    <2>2. CASE proc.owner = "reconcile" /\ At(due)
        BY <1>1, <2>2 DEF At, WakeOK, Inv, TypeOK
    <2> QED
        BY <1>3, <2>1, <2>2 DEF Done, Finish
<1>6. WakeOK'
    BY <1>1, <1>2, <1>3, <1>4, <1>5 DEF WakeOK, Idle
<1>7. ASSUME NEW r \in Rows PROVE TimelyOK(r)'
    BY <1>1, <1>4, TimelyStays DEF Handled
<1> QED
    BY <1>6, <1>7

\* What a step of a row leaves of the waking up.
LEMMA RowWakes ==
    ASSUME InTimeInv, faults = 0, NEW r \in Rows, RowStep(r), Inv',
           cache[r].next # 0 => cache'[r].next # 0
    PROVE  WakeOK'
<1>1. /\ Inv /\ WakeOK /\ Locked /\ proc.row = r /\ proc.step # "load"
      /\ cache \in [Rows -> Row] /\ loaded
    BY DEF InTimeInv, ScheduleInv, RowStep, NotDue, Correct, DeleteOld, Send, WriteCell,
       Postable, AtRow, OnRow, Inv, TypeOK, ProcOK
<1>2. /\ UNCHANGED <<now, loaded, job>>
      /\ \A q \in Rows : q # r => cache'[q] = cache[q]
    BY <1>1 DEF RowStep, NotDue, Correct, DeleteOld, Send, WriteCell, store
<1>3. proc'.owner = proc.owner /\ proc'.now = proc.now /\ proc'.step # "load"
    BY <1>1 DEF RowStep, NotDue, Correct, DeleteOld, Send, WriteCell, NextRow, Inv, TypeOK
<1> QED
    BY <1>1, <1>2, <1>3 DEF WakeOK, Locked
\* The rows that a step of another row, or a step that posts nothing, leaves as
\* they are: they are settled, and handled only as far as they were.
LEMMA OthersInTime ==
    ASSUME InTimeInv, [Next]_vars, faults = 0, NEW r \in Rows, RowStep(r),
           NEW q \in Rows, q # r
    PROVE  TimelyOK(q)'
<1>1. /\ Inv /\ TimelyOK(q) /\ Locked /\ proc.row = r /\ proc.step # "load"
      /\ sheet \in [Rows -> Row] /\ cache \in [Rows -> Row]
    BY DEF InTimeInv, ScheduleInv, RowStep, NotDue, Correct, DeleteOld, Send, WriteCell,
       Postable, AtRow, OnRow, Inv, TypeOK
<1>2. UNCHANGED <<now, loaded>> /\ sheet'[q] = sheet[q] /\ cache'[q] = cache[q]
    BY <1>1 DEF RowStep, NotDue, Correct, DeleteOld, Send, WriteCell, store
<1>3. proc'.owner = proc.owner /\ proc'.row \in {r, r + 1}
      /\ (proc'.row = r + 1 => proc'.step = "row")
    <2>1. proc \in Proc /\ r + 1 # r
        BY <1>1 DEF Inv, TypeOK, Proc, Rows
    <2>2. CASE NextRow
        BY <1>1, <2>1, <2>2 DEF NextRow, Proc
    <2>3. CASE \E s \in Steps : proc' = [proc EXCEPT !.step = s]
        BY <1>1, <2>1, <2>3 DEF Proc
    <2>4. CASE Send(r)
        BY <1>1, <2>1, <2>4 DEF Send, Proc
    <2> QED
        BY <2>2, <2>3, <2>4 DEF RowStep, NotDue, Correct, DeleteOld, WriteCell, Steps
<1>4. Handled(q)' => Handled(q)
    BY <1>1, <1>3 DEF Handled, Writing, Rows
<1> QED
    BY <1>1, <1>2, <1>3, <1>4, TimelyStays

LEMMA NotDueInTime ==
    ASSUME InTimeInv, [Next]_vars, faults = 0, NEW r \in Rows, NotDue(r)
    PROVE  TimelyOK(r)'
<1>1. /\ Inv /\ WakeOK /\ TimelyOK(r) /\ UNCHANGED <<now, sheet, loaded, cache>>
      /\ Locked /\ proc.step = "row" /\ proc.row = r /\ loaded /\ cache[r].next # 0
      /\ proc.now = now /\ now < Due(r, cache[r].next)
    BY DEF InTimeInv, ScheduleInv, NotDue, AtRow, store, Inv, ProcOK, WakeOK
<1>2. Due(r, cache[r].next) \in Int /\ now \in Int
    BY DueIsInt DEF InTimeInv, ScheduleInv, Inv, TypeOK, Row, Occ
<1>3. Due(r, cache[r].next) > now
    BY <1>1, <1>2
<1>4. \A k : PostsOf(r, k) # {} => PostsOf(r, k)' # {}
    BY <1>1, PostsStay
<1> QED
    BY <1>1, <1>3, <1>4 DEF TimelyOK

\* A correction goes past an occurrence that is over or posted: the next one is
\* due after now, and a first date is not over due.
LEMMA CorrectInTime ==
    ASSUME InTimeInv, [Next]_vars, faults = 0, NEW r \in Rows, Correct(r)
    PROVE  TimelyOK(r)' /\ cache'[r].next # 0
<1>1. PICK m \in Occ : m = cache[r].next
    BY DEF InTimeInv, ScheduleInv, Inv, TypeOK, Row
<1>2. PICK j \in 1..MaxOcc : j = Corrected(r)
    BY CorrectedType DEF Correct, InTimeInv, ScheduleInv
<1>3. /\ Inv /\ KnownOK /\ WakeOK /\ TimelyOK(r) /\ AtRow(r) /\ ScheduleOnly(r)
      /\ Locked /\ proc.step = "row" /\ proc.row = r /\ loaded /\ proc.now = now
      /\ now \in 0..MaxTime /\ UNCHANGED <<now, loaded, posts>>
      /\ sheet \in [Rows -> Row] /\ cache \in [Rows -> Row]
    BY DEF InTimeInv, ScheduleInv, Correct, AtRow, WakeOK, Inv, TypeOK, ProcOK
<1>4. sheet'[r].next = j /\ cache'[r].next = j
    BY <1>2, <1>3 DEF Correct, Row
<1>5. proc'.owner = proc.owner
    BY <1>3 DEF Correct, NextRow, Inv, TypeOK
<1>6. \A k \in Int : Due(r, k) \in Int /\ Reset(r, k) = Due(r, k) + Lead[r]
    BY DueIsInt DEF Reset
<1>7. CASE m = 0
    <2>1. now = 0 /\ proc.owner # "job"
        BY <1>1, <1>3, <1>7 DEF TimelyOK, WakeOK
    <2>2. j = 1
        <3> DEFINE S == {k \in 1..MaxOcc : Due(r, k) >= 0}
        <3>1. j = Earlier(S)
            BY <1>1, <1>2, <1>3, <1>7, <2>1 DEF Corrected, FromAnchor
        <3>2. 1 \in S /\ S \in SUBSET Nat
            BY DueIsNat, Constants
        <3> HIDE DEF S
        <3>3. j <= 1
            BY <3>1, <3>2, EarlierExists
        <3> QED
            BY <1>2, <3>3
    <2>3. Due(r, 1) \in Nat
        BY DueIsNat, Constants
    <2>4. cache'[r].next = 1 /\ sheet'[r].next = 1 /\ now' = 0 /\ proc'.owner # "job"
        BY <1>3, <1>4, <1>5, <2>1, <2>2
    <2>5. \A k \in 1..(1 - 1) : FALSE
        OBVIOUS
    <2> QED
        BY <2>3, <2>4, <2>5 DEF TimelyOK
<1>8. CASE m # 0
    <2>1. /\ j > m /\ m \in 1..MaxOcc
          /\ \/ \A k \in m..(j - 1) : Reset(r, k) <= now
             \/ cache[r].sent = m /\ j = m + 1
        BY <1>1, <1>2, <1>3, <1>8, CorrectedAhead
    <2>2. /\ Due(r, m) >= now /\ \A k \in 1..(m - 1) : PostsOf(r, k) # {} \/ Lead[r] = 0
        BY <1>1, <1>3, <1>8 DEF TimelyOK
    <2>3. Due(r, j) > now
        <3>1. Due(r, m) + Cycle[r] <= Due(r, j)
            BY <2>1, DueSteps
        <3>2. Cycle[r] \in Nat /\ Cycle[r] # 0
            BY ReminderConstants
        <3> QED
            BY <1>3, <1>6, <2>1, <2>2, <3>1, <3>2
    <2>4. \A k \in 1..(j - 1) : PostsOf(r, k) # {} \/ Lead[r] = 0
        <3>1. CASE cache[r].sent = m /\ j = m + 1
            <4>1. PostsOf(r, m) # {}
                BY <1>3, <2>1, <3>1 DEF KnownOK
            <4>2. \A k \in 1..(j - 1) : k \in 1..(m - 1) \/ k = m
                BY <2>1, <3>1
            <4> QED
                BY <2>2, <4>1, <4>2
        <3>2. CASE \A k \in m..(j - 1) : Reset(r, k) <= now
            <4>1. Reset(r, m) <= now
                BY <2>1, <3>2
            <4>2. Lead[r] \in Nat
                BY Constants
            <4>3. Lead[r] = 0
                BY <1>3, <1>6, <2>1, <2>2, <4>1, <4>2
            <4> QED
                BY <4>3
        <3> QED
            BY <2>1, <3>1, <3>2
    <2>5. \A k : PostsOf(r, k)' = PostsOf(r, k)
        BY <1>3 DEF PostsOf
    <2>6. Due(r, j) >= now
        BY <1>3, <1>6, <2>3
    <2> QED
        BY <1>3, <1>4, <2>3, <2>4, <2>5, <2>6 DEF TimelyOK
<1> QED
    BY <1>4, <1>7, <1>8

LEMMA DeleteInTime ==
    ASSUME InTimeInv, [Next]_vars, faults = 0, NEW r \in Rows, DeleteOld(r)
    PROVE  TimelyOK(r)'
<1>1. /\ Inv /\ TimelyOK(r) /\ UNCHANGED <<now, sheet, loaded, cache>>
      /\ Locked /\ proc.step = "row" /\ proc.row = r
      /\ proc' = [proc EXCEPT !.step = "send"]
    BY DEF InTimeInv, ScheduleInv, DeleteOld, Postable, AtRow, store
<1>2. proc'.step = "send" /\ proc'.row = r
    BY <1>1 DEF Inv, TypeOK
<1>3. ~Handled(r)'
    BY <1>2 DEF Handled, Writing, Rows
<1> QED
    BY <1>1, <1>3, TimelyStays

\* A message goes out at its due time, and the next one is due later.
LEMMA SendInTime ==
    ASSUME InTimeInv, [Next]_vars, faults = 0, NEW r \in Rows, Send(r)
    PROVE  TimelyOK(r)' /\ cache'[r].next # 0
<1>1. PICK m \in 1..MaxOcc : m = cache[r].next
    BY DEF Send, OnRow, InTimeInv, ScheduleInv, Inv, ProcOK
<1>2. /\ Inv /\ WakeOK /\ TimelyOK(r) /\ OnRow(r, "send") /\ loaded /\ Posted(r, m)
      /\ Locked /\ proc.step = "send" /\ proc.row = r
      /\ UNCHANGED <<now, sheet, loaded>> /\ proc.now = now /\ now \in 0..MaxTime
      /\ proc' = [proc EXCEPT !.step = "sent", !.occ = m]
      /\ cache'[r].next = Following(m) /\ Due(r, m) <= now
    BY <1>1 DEF Send, OnRow, InTimeInv, ScheduleInv, Inv, TypeOK, ProcOK, Row, WakeOK
<1>3. /\ proc'.owner = proc.owner /\ proc'.row = r /\ proc'.step = "sent" /\ Locked'
    BY <1>2 DEF Inv, TypeOK, Locked
<1>4. \A k \in Int : Due(r, k) \in Int
    BY DueIsInt
<1>5. Following(m) = m + 1
    <2>1. Due(r, MaxOcc) > MaxTime /\ MaxTime \in Nat /\ MaxOcc \in Nat
        BY Constants
    <2>2. Due(r, m) # Due(r, MaxOcc)
        BY <1>2, <1>4, <2>1
    <2>3. m < MaxOcc
        BY <2>1, <2>2
    <2> QED
        BY <2>3 DEF Following
<1>6. Due(r, m + 1) > now /\ Due(r, m + 1) >= now
    <2>1. Due(r, m) + Cycle[r] <= Due(r, m + 1)
        BY DueSteps
    <2>2. Cycle[r] \in Nat /\ Cycle[r] # 0
        BY ReminderConstants
    <2>3. Due(r, m) >= now
        BY <1>1, <1>2 DEF TimelyOK
    <2> QED
        BY <1>2, <1>4, <2>1, <2>2, <2>3
<1>7. \A k \in 1..m : PostsOf(r, k)' # {} \/ Lead[r] = 0
    <2>1. \A k \in 1..(m - 1) : PostsOf(r, k) # {} \/ Lead[r] = 0
        BY <1>1, <1>2 DEF TimelyOK
    <2>2. \A k : PostsOf(r, k) # {} => PostsOf(r, k)' # {}
        BY <1>2, PostsStay
    <2>3. PostsOf(r, m)' # {}
        BY <1>2, PostedSays
    <2>4. \A k \in 1..m : k \in 1..(m - 1) \/ k = m
        OBVIOUS
    <2> QED
        BY <2>1, <2>2, <2>3, <2>4
<1>8. (m + 1) - 1 = m /\ m + 1 # 0
    OBVIOUS
<1>9. PICK i \in Int : i = m + 1
    OBVIOUS
<1>10. cache'[r].next = i /\ i # 0 /\ Due(r, i) > now /\ Due(r, i) >= now /\ i - 1 = m
    BY <1>2, <1>5, <1>6, <1>8, <1>9
<1> QED
    BY <1>2, <1>3, <1>7, <1>10 DEF TimelyOK

LEMMA CellInTime ==
    ASSUME InTimeInv, [Next]_vars, faults = 0, NEW r \in Rows, NEW step \in Writing,
           WriteCell(r, step)
    PROVE  TimelyOK(r)' /\ cache'[r].next = cache[r].next
<1>1. /\ Inv /\ ScheduleInv /\ TimelyOK(r) /\ loaded
    BY DEF InTimeInv, ScheduleInv, WriteCell, OnRow, Inv, ProcOK, Writing
<1>2. /\ step # "next" \/ sheet' = sheet => sheet'[r].next = sheet[r].next
      /\ UNCHANGED <<now, loaded, cache, posts>> /\ OnRow(r, step)
      /\ proc'.owner = proc.owner
    BY <1>1, CellSchedule
<1>3. Handled(r)
    BY <1>2 DEF Handled, OnRow, Writing
<1>4. \/ sheet'[r].next = cache[r].next
      \/ step = "sent" /\ sheet'[r].next = sheet[r].next
    <2>1. CASE step = "next"
        BY <1>1, <2>1, NextCell
    <2>2. CASE step = "msg"
        BY <1>1, <1>2, <1>3, <2>2 DEF TimelyOK, OnRow
    <2>3. CASE step = "sent"
        BY <1>2, <2>3
    <2> QED
        BY <2>1, <2>2, <2>3 DEF Writing
<1>5. step = "sent" => Locked' /\ proc'.row = r /\ proc'.step = "next"
    BY <1>2 DEF WriteCell, OnRow, Locked, Inv, TypeOK, InTimeInv, ScheduleInv
<1>6. \A k : PostsOf(r, k)' = PostsOf(r, k)
    BY <1>2 DEF PostsOf
<1> QED
    BY <1>1, <1>2, <1>3, <1>4, <1>5, <1>6 DEF TimelyOK

LEMMA StepInTime ==
    ASSUME InTimeInv, [Next]_vars
    PROVE  InTimeInv'
<1>1. Inv /\ ScheduleInv
    BY DEF InTimeInv, ScheduleInv
<1>2. Inv' /\ ScheduleInv'
    <2>1. Inv' /\ KnownOK' /\ \A r \in Rows : AheadOK(r)'
        BY <1>1, StepKeeps, StepKnown, StepAhead DEF ScheduleInv
    <2> QED
        BY <2>1 DEF ScheduleInv
<1>3. SUFFICES ASSUME faults' = 0 PROVE WakeOK' /\ \A r \in Rows : TimelyOK(r)'
    BY <1>2 DEF InTimeInv
<1>4. faults = 0 /\ WakeOK /\ \A r \in Rows : TimelyOK(r)
    BY <1>1, <1>3, Undisturbed DEF InTimeInv
<1>5. CASE UNCHANGED vars
    BY <1>4, <1>5 DEF vars, store, WakeOK, TimelyOK, Handled, Locked, PostsOf
<1>6. ASSUME NEW r \in Rows, RowStep(r)
      PROVE  WakeOK' /\ \A q \in Rows : TimelyOK(q)'
    <2>1. TimelyOK(r)' /\ (cache[r].next # 0 => cache'[r].next # 0)
        <3>1. CASE NotDue(r) \/ DeleteOld(r)
            <4>1. UNCHANGED cache
                BY <3>1 DEF NotDue, DeleteOld, store
            <4> QED
                BY <1>4, <3>1, <4>1, NotDueInTime, DeleteInTime
        <3>2. CASE Correct(r)
            BY <1>4, <3>2, CorrectInTime
        <3>3. CASE Send(r)
            BY <1>4, <3>3, SendInTime
        <3>4. ASSUME NEW step \in Writing, WriteCell(r, step)
              PROVE  TimelyOK(r)' /\ (cache[r].next # 0 => cache'[r].next # 0)
            BY <1>4, <3>4, CellInTime
        <3> QED
            BY <1>6, <3>1, <3>2, <3>3, <3>4 DEF RowStep, Writing
    <2>2. WakeOK'
        BY <1>2, <1>4, <1>6, <2>1, RowWakes
    <2>3. ASSUME NEW q \in Rows, q # r PROVE TimelyOK(q)'
        BY <1>4, <1>6, <2>3, OthersInTime
    <2> QED
        BY <2>1, <2>2, <2>3
<1>7. CASE Tick /\ ~Ready
    BY <1>2, <1>4, <1>7, TickInTime
<1>8. CASE DueJob \/ Reconcile
    BY <1>4, <1>8, WakingInTime
<1>9. CASE Load
    BY <1>2, <1>4, <1>9, LoadInTime
<1>10. CASE Done
    BY <1>4, <1>10, DoneInTime
<1> QED
    BY <1>1, <1>3, <1>5, <1>6, <1>7, <1>8, <1>9, <1>10, Undisturbed

\* While every call succeeds and the bot keeps up, a reset that has a lead is
\* announced before it happens, whoever wakes the processing.
THEOREM ResetsPostedInTime == Spec => []PostedInTime
<1>1. Init => InTimeInv
    <2> SUFFICES ASSUME Init PROVE InTimeInv
        OBVIOUS
    <2>1. /\ \A r \in Rows : sheet[r].sent = 0 /\ cache[r].sent = 0 /\ sheet[r].next \in {0, 1}
          /\ ~loaded /\ ~Locked /\ now = 0 /\ job.state = "off" /\ proc.owner = "none"
        BY DEF Init, NoRecords, Idle, Locked
    <2>2. ScheduleInv
        BY <2>1, InitInv DEF ScheduleInv, KnownOK, AheadOK
    <2>3. WakeOK /\ \A r \in Rows : TimelyOK(r)
        BY <2>1 DEF WakeOK, TimelyOK
    <2> QED
        BY <2>2, <2>3 DEF InTimeInv
<1>2. InTimeInv /\ [Next]_vars => InTimeInv'
    BY StepInTime
<1>3. InTimeInv => PostedInTime
    <2> SUFFICES ASSUME InTimeInv, NEW r \in Rows, NEW k \in 1..MaxOcc,
                        Reset(r, k) <= now, faults = 0, Lead[r] # 0
                 PROVE  PostsOf(r, k) # {}
        BY DEF PostedInTime
    <2>1. /\ WakeOK /\ TimelyOK(r) /\ now \in Nat /\ Due(r, k) \in Nat
          /\ cache[r].next \in Occ
          /\ Lead[r] \in Nat \ {0} /\ Reset(r, k) = Due(r, k) + Lead[r]
        BY DueIsNat, Constants DEF InTimeInv, ScheduleInv, Inv, TypeOK, Row, Reset
    <2>2. now # 0
        BY <2>1
    <2>3. loaded /\ cache[r].next # 0
        BY <2>1, <2>2 DEF WakeOK, TimelyOK
    <2>4. PICK m \in 1..MaxOcc : m = cache[r].next
        BY <2>1, <2>3 DEF Occ
    <2>5. Due(r, m) >= now /\ Due(r, m) \in Nat
        BY <2>1, <2>3, <2>4, DueIsNat DEF TimelyOK
    <2>6. ~(m <= k)
        <3> SUFFICES ASSUME m <= k PROVE FALSE
            OBVIOUS
        <3>1. CASE m = k
            BY <2>1, <2>5, <3>1
        <3>2. CASE m < k
            <4>1. Due(r, m) + Cycle[r] <= Due(r, k) /\ Cycle[r] \in Nat
                BY <3>2, DueSteps, Constants
            <4> QED
                BY <2>1, <2>5, <4>1
        <3> QED
            BY <3>1, <3>2
    <2>7. k \in 1..(m - 1)
        BY <2>6
    <2> QED
        BY <2>1, <2>3, <2>4, <2>7 DEF TimelyOK
<1> QED
    BY <1>1, <1>2, <1>3, PTL DEF Spec

=============================================================================
