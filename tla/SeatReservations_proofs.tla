------------------------ MODULE SeatReservations_proofs ------------------------
(* What TLAPS proves of SeatReservations for every number of clans, recruits, *)
(* commands, days, faults and crashes.                                        *)
EXTENDS SeatReservations, TLAPS, FiniteSetTheorems, SequenceTheorems,
        WellFoundedInduction

USE DEF ghosts

-------------------------------------------------------------------------------
(* The inductive invariant.                                                   *)

\* What a coroutine may rely on, given the length of the ledger: the rows it is
\* about to write exist, and it knows its clan and its recruit when it uses them.
Fits(r, n) ==
    /\ r.step \in {"mark", "date"} => r.rows # {} /\ r.rows \subseteq 1..n
    /\ r.step \notin {"idle", "mark", "rPlan"} \/ r.op = "release" => r.clan \in Clans
    /\ r.step \in {"count", "talk", "check", "append"} => r.recruit \in Recruits

AllFit == \A f \in Flows : Fits(flow[f], Len(ledger))

Inv == TypeOK /\ AllFit

-------------------------------------------------------------------------------
(* Operators.                                                                 *)

\* The row a loop takes first is one of its rows.
LEMMA FirstIsMember ==
    ASSUME NEW S, S \subseteq Nat, S # {}
    PROVE  First(S) \in S
<1>1. PICK m \in S : \A k \in S : <<k, m>> \notin OpToRel(<, Nat)
    BY WFMin, NatLessThanWellFounded, Zenon
<1>2. \A k \in S : ~(k < m)
    BY <1>1, Zenon DEF OpToRel
<1>3. \A k \in S : m <= k
    BY <1>2
<1> QED
    BY <1>3, Zenon DEF First

\* The number of active rows of a clan is a natural number.
LEMMA CountIsNat ==
    ASSUME ledger \in Seq(Hold), NEW c
    PROVE  Cardinality(ActiveIn(c)) \in Nat
<1>1. Len(ledger) \in Nat /\ DOMAIN ledger = 1..Len(ledger)
    OBVIOUS
<1>2. IsFiniteSet(1..Len(ledger))
    BY <1>1, FS_Interval
<1>3. ActiveIn(c) \subseteq 1..Len(ledger)
    BY <1>1 DEF ActiveIn, Active
<1> QED
    BY <1>2, <1>3, FS_Subset, FS_CardinalityType

\* Planned and written availability cells stay natural numbers.
LEMMA CellsTyped ==
    ASSUME NEW row \in Cells, NEW new \in Cells
    PROVE  /\ \A n \in Nat : Recomputed(row, n) \in Cells
           /\ \A d \in Int : Adjusted(row, d) \in Cells
           /\ \A s \in Steps : Written(s, row, new) \in Cells
           /\ Adjustment(row, new) \in Cells
           /\ Base(row) \in Nat
<1>1. Base(row) \in Nat
    BY DEF Base, Cells
<1>2. \A n \in Int : Clamp(n) \in Nat
    BY DEF Clamp
<1>3. ASSUME NEW n \in Nat PROVE Recomputed(row, n) \in Cells
    <2>1. Base(row) - n \in Int
        BY <1>1
    <2>2. Clamp(Base(row) - n) \in Nat
        BY <1>2, <2>1
    <2> QED
        BY <2>2 DEF Recomputed, Cells
<1>4. ASSUME NEW d \in Int PROVE Adjusted(row, d) \in Cells
    <2>1. Base(row) + d \in Int
        BY <1>1
    <2>2. Clamp(Base(row) + d) \in Nat
        BY <1>2, <2>1
    <2> QED
        BY <2>2 DEF Adjusted, Cells
<1>5. \A s \in Steps : Written(s, row, new) \in Cells
    BY DEF Written, Cells
<1>6. Adjustment(row, new) \in Cells
    BY DEF Adjustment, Cells
<1> QED
    BY <1>1, <1>3, <1>4, <1>5, <1>6

LEMMA IdleFits == Idle \in Coroutine /\ \A n \in Nat : Fits(Idle, n)
<1>1. 0 \in Dates
    BY SeatAssumption DEF Dates
<1>2. << >> \in Seq(Hold)
    OBVIOUS
<1> QED
    BY <1>1, <1>2 DEF Idle, Coroutine, Steps, BlankRow, Cells, Fits

\* A coroutine that has finished a clan is again one that fits.
LEMMA NextClanFits ==
    ASSUME NEW r \in Coroutine, NEW n \in Nat, r.op = "release" => r.clan \in Clans
    PROVE  NextClan(r) \in Coroutine /\ Fits(NextClan(r), n)
<1>1. CASE r.clans = {}
    BY <1>1, IdleFits DEF NextClan
<1>2. CASE r.clans # {}
    BY <1>2 DEF NextClan, Coroutine, Steps, Fits
<1> QED
    BY <1>1, <1>2

\* The same for one that has finished a row.
LEMMA NextRowFits ==
    ASSUME NEW r \in Coroutine, NEW n \in Nat, r.step = "mark",
           r.rows \subseteq 1..n, r.op = "release" => r.clan \in Clans
    PROVE  NextRow(r) \in Coroutine /\ Fits(NextRow(r), n)
<1>1. CASE r.rows # {}
    BY <1>1 DEF NextRow, Fits
<1>2. CASE r.rows = {} /\ r.op = "release"
    BY <1>2 DEF NextRow, Coroutine, Steps, Fits
<1>3. CASE r.rows = {} /\ r.op # "release"
    BY <1>3, NextClanFits DEF NextRow
<1> QED
    BY <1>1, <1>2, <1>3

-------------------------------------------------------------------------------
(* Steps of the ledger and of the coroutines.                                 *)

\* A step of the book keeps the ledger a sequence of holds and never shortens it.
LEMMA BookStepTyped ==
    ASSUME ledger \in Seq(Hold), [Book!Next]_ledger
    PROVE  ledger' \in Seq(Hold) /\ Len(ledger) \in Nat /\ Len(ledger') \in Nat
           /\ Len(ledger) <= Len(ledger')
<1>1. CASE UNCHANGED ledger
    BY <1>1
<1>2. ASSUME NEW u \in Recruits, NEW c \in Clans, NEW d \in Dates,
             Book!Enter(u, c, d)
      PROVE  ledger' \in Seq(Hold) /\ Len(ledger') = Len(ledger) + 1
    <2> DEFINE h == [recruit |-> u, clan |-> c, status |-> "active", until |-> d]
    <2>1. h \in Hold
        BY DEF Hold, Statuses
    <2>2. ledger' = Append(ledger, h)
        BY <1>2 DEF Book!Enter
    <2> HIDE DEF h
    <2> QED
        BY <2>1, <2>2
<1>3. ASSUME NEW i \in DOMAIN ledger, NEW s \in Book!Closings, Book!Close(i, s)
      PROVE  ledger' \in Seq(Hold) /\ Len(ledger') = Len(ledger)
    <2>1. ledger[i] \in Hold
        OBVIOUS
    <2>2. [ledger[i] EXCEPT !.status = s] \in Hold
        BY <2>1 DEF Hold, Statuses, Book!Closings
    <2> QED
        BY <1>3, <2>2 DEF Book!Close
<1>4. ASSUME NEW i \in DOMAIN ledger, NEW d \in Dates, Book!Postpone(i, d)
      PROVE  ledger' \in Seq(Hold) /\ Len(ledger') = Len(ledger)
    <2>1. ledger[i] \in Hold
        OBVIOUS
    <2>2. [ledger[i] EXCEPT !.until = d] \in Hold
        BY <2>1 DEF Hold
    <2> QED
        BY <1>4, <2>2 DEF Book!Postpone
<1> QED
    BY <1>1, <1>2, <1>3, <1>4 DEF Book!Next

\* One coroutine moves and the ledger has not become shorter: all still fit.
LEMMA FlowStep ==
    ASSUME Inv, NEW f \in Flows, NEW r \in Coroutine,
           flow' = [flow EXCEPT ![f] = r],
           [Book!Next]_ledger, Fits(r, Len(ledger'))
    PROVE  flow' \in [Flows -> Coroutine] /\ AllFit'
<1>1. Len(ledger) \in Nat /\ Len(ledger') \in Nat /\ Len(ledger) <= Len(ledger')
    BY BookStepTyped DEF Inv, TypeOK
<1>2. ASSUME NEW g \in Flows PROVE Fits(flow'[g], Len(ledger'))
    <2>1. CASE g = f
        BY <2>1 DEF Inv, TypeOK
    <2>2. CASE g # f
        <3>1. flow'[g] = flow[g] /\ flow[g] \in Coroutine /\ Fits(flow[g], Len(ledger))
            BY <2>2 DEF Inv, TypeOK, AllFit
        <3> QED
            BY <1>1, <3>1 DEF Fits, Coroutine
    <2> QED
        BY <2>1, <2>2
<1> QED
    BY <1>2 DEF AllFit, Inv, TypeOK

-------------------------------------------------------------------------------
(* The six actions that write the Reservations tab write it as the book says. *)

LEMMA AppendIsEnter ==
    ASSUME NEW r \in Coroutine, r.recruit \in Recruits, r.clan \in Clans,
           ledger' = Append(ledger, NewHold(r))
    PROVE  Book!Next
<1>1. Book!Enter(r.recruit, r.clan, r.until)
    BY DEF Book!Enter, NewHold
<1>2. r.until \in Dates
    BY DEF Coroutine
<1> QED
    BY <1>1, <1>2 DEF Book!Next

\* A coroutine about to write a row writes one that exists.
LEMMA NextRowExists ==
    ASSUME Inv, NEW f \in Flows, flow[f].step \in {"mark", "date"}
    PROVE  First(flow[f].rows) \in flow[f].rows \cap DOMAIN ledger
<1>1. flow[f].rows # {} /\ flow[f].rows \subseteq 1..Len(ledger)
    BY DEF Inv, AllFit, Fits
<1>2. DOMAIN ledger = 1..Len(ledger) /\ Len(ledger) \in Nat
    BY DEF Inv, TypeOK
<1>3. First(flow[f].rows) \in flow[f].rows
    BY <1>1, <1>2, FirstIsMember
<1> QED
    BY <1>1, <1>2, <1>3

LEMMA StatusWriteIsClose ==
    ASSUME Inv, NEW f \in Flows, flow[f].step = "mark",
           ledger' = [ledger EXCEPT ![First(flow[f].rows)].status = Verdict(flow[f].op)]
    PROVE  Book!Next
<1>1. Verdict(flow[f].op) \in Book!Closings
    BY DEF Verdict, Book!Closings
<1>2. First(flow[f].rows) \in DOMAIN ledger
    BY NextRowExists
<1>3. Book!Close(First(flow[f].rows), Verdict(flow[f].op))
    BY DEF Book!Close
<1> QED
    BY <1>1, <1>2, <1>3 DEF Book!Next

LEMMA DateWriteIsPostpone ==
    ASSUME Inv, NEW f \in Flows, flow[f].step = "date",
           ledger' = [ledger EXCEPT ![First(flow[f].rows)].until = flow[f].until]
    PROVE  Book!Next
<1>1. flow[f].until \in Dates
    BY DEF Inv, TypeOK, Coroutine
<1>2. First(flow[f].rows) \in DOMAIN ledger
    BY NextRowExists
<1>3. Book!Postpone(First(flow[f].rows), flow[f].until)
    BY DEF Book!Postpone
<1> QED
    BY <1>1, <1>2, <1>3 DEF Book!Next

LEMMA ProgressIsBook ==
    ASSUME Inv, NEW f \in Flows, Progress(f)
    PROVE  [Book!Next]_ledger
<1> DEFINE r == flow[f]
<1>1. r \in Coroutine /\ Fits(r, Len(ledger))
    BY DEF Inv, TypeOK, AllFit
<1>2. ASSUME r.step = "append" PROVE r.recruit \in Recruits /\ r.clan \in Clans
    BY <1>1, <1>2 DEF Fits
<1>3. CASE ReserveAppend(f)
    BY <1>1, <1>2, <1>3, AppendIsEnter DEF ReserveAppend
<1>4. CASE ReserveAppendFail(f)
    BY <1>1, <1>2, <1>4, AppendIsEnter DEF ReserveAppendFail
<1>5. CASE ExtendWrite(f)
    BY <1>5, DateWriteIsPostpone DEF ExtendWrite
<1>6. CASE ExtendFail(f)
    BY <1>6, DateWriteIsPostpone DEF ExtendFail
<1>7. CASE Mark(f)
    BY <1>7, StatusWriteIsClose DEF Mark
<1>8. CASE MarkFail(f)
    BY <1>8, StatusWriteIsClose DEF MarkFail
<1>9. CASE \/ ReserveCount(f) \/ ReserveConfirm(f) \/ ReserveAbort(f) \/ ReserveCheck(f)
           \/ AdjustPlan(f) \/ AdjustWrite(f) \/ AdjustPatch(f) \/ AdjustFail(f)
           \/ RecomputePlan(f) \/ RecomputeCount(f)
           \/ WriteOpen(f) \/ WriteSeen(f) \/ WriteCount(f)
           \/ RecomputePatch(f) \/ RecomputeFail(f)
    BY <1>9 DEF ReserveCount, ReserveConfirm, ReserveAbort, ReserveCheck,
        AdjustPlan, AdjustWrite, AdjustPatch, AdjustFail,
        RecomputePlan, RecomputeCount, WriteOpen, WriteSeen, WriteCount, WriteStep,
        RecomputePatch, RecomputeFail
<1> QED
    BY <1>3, <1>4, <1>5, <1>6, <1>7, <1>8, <1>9 DEF Progress

LEMMA StepIsBook ==
    ASSUME Inv, [Next]_vars
    PROVE  [Book!Next]_ledger
<1>1. CASE Begin
    BY <1>1 DEF Begin, ReserveStart, ReleaseStart, ExtendStart, SetSpots,
        ReminderStart, AutoreleaseStart, UnlinkStart
<1>2. CASE World
    BY <1>2 DEF World, RefreshRead, RefreshStore, ManualEdit, NextDay, Crash
<1>3. CASE \E f \in Flows : Progress(f)
    BY <1>3, ProgressIsBook
<1>4. CASE UNCHANGED vars
    BY <1>4 DEF vars
<1> QED
    BY <1>1, <1>2, <1>3, <1>4 DEF Next

-------------------------------------------------------------------------------
(* Every step keeps the invariant.                                            *)

\* The parts of the type that are not the ledger or the coroutines.
RestTyped ==
    /\ sheet \in [Clans -> Cells]
    /\ cache \in [Clans -> Cells]
    /\ refresh \in SUBSET [Clans -> Cells]
    /\ day \in Dates
    /\ ran \in [{"reminder", "autorelease"} -> Dates]
    /\ pending \in SUBSET Clans
    /\ phantom \in SUBSET (Nat \ {0})
    /\ behind \in SUBSET Flows
    /\ stale \in SUBSET Clans
    /\ spent \in [{"commands", "edits", "faults", "crashes"} -> Nat]

\* A step whose coroutine fits and whose other variables are typed keeps Inv.
LEMMA Assemble ==
    ASSUME Inv, [Book!Next]_ledger, RestTyped',
           NEW f \in Flows, NEW r \in Coroutine,
           flow' = [flow EXCEPT ![f] = r], Fits(r, Len(ledger'))
    PROVE  Inv'
<1>1. ledger' \in Seq(Hold)
    BY BookStepTyped DEF Inv, TypeOK
<1>2. flow' \in [Flows -> Coroutine] /\ AllFit'
    BY FlowStep
<1> QED
    BY <1>1, <1>2 DEF Inv, TypeOK, RestTyped

LEMMA Bounds == /\ MaxDay \in Nat /\ MaxSeats \in Nat /\ MinSeats \in Nat
                /\ 0 \in Dates /\ Dates \subseteq Nat
                /\ Commands \subseteq Flows /\ Jobs \subseteq Flows
                /\ << >> \in Seq(Hold)
BY SeatAssumption DEF Dates, Flows

LEMMA IssueTyped ==
    ASSUME Inv, Issue \/ Fault
    PROVE  spent' \in [{"commands", "edits", "faults", "crashes"} -> Nat]
BY DEF Inv, TypeOK, Issue, Fault

\* A change of a clan's rows leaves the bookkeeping typed.
LEMMA RowsChangeTyped ==
    ASSUME RestTyped, NEW c \in Clans, NEW known, RowsChange(c, known)
    PROVE  pending' \in SUBSET Clans /\ behind' \in SUBSET Flows
BY DEF RestTyped, RowsChange, Counters

LEMMA InitInv == Init => Inv
<1> SUFFICES ASSUME Init PROVE Inv
    OBVIOUS
<1>1. ledger \in Seq(Hold) /\ Len(ledger) = 0
    BY DEF Init
<1>2. sheet \in [Clans -> Cells] /\ cache \in [Clans -> Cells]
    BY Bounds DEF Init, Cells
<1>3. flow \in [Flows -> Coroutine] /\ AllFit
    BY <1>1, IdleFits DEF Init, AllFit
<1>4. /\ refresh \in SUBSET [Clans -> Cells]
      /\ day \in Dates
      /\ ran \in [{"reminder", "autorelease"} -> Dates]
      /\ pending \in SUBSET Clans
      /\ phantom \in SUBSET (Nat \ {0})
      /\ behind \in SUBSET Flows
      /\ stale \in SUBSET Clans
      /\ spent \in [{"commands", "edits", "faults", "crashes"} -> Nat]
    BY Bounds DEF Init
<1> QED
    BY <1>1, <1>2, <1>3, <1>4 DEF Inv, TypeOK

LEMMA RowClanTyped ==
    ASSUME ledger \in Seq(Hold), NEW i \in DOMAIN ledger
    PROVE  ledger[i].clan \in Clans
<1>1. ledger[i] \in Hold
    OBVIOUS
<1> QED
    BY <1>1 DEF Hold

LEMMA BeginKeepsInv ==
    ASSUME Inv, Begin
    PROVE  Inv'
<1>1. /\ ledger \in Seq(Hold) /\ Len(ledger) \in Nat /\ DOMAIN ledger = 1..Len(ledger)
      /\ RestTyped
    BY DEF Inv, TypeOK, RestTyped
<1>2. Active \subseteq 1..Len(ledger) /\ Active \subseteq Nat \ {0}
    BY <1>1 DEF Active
<1>3. \A i \in Active : ledger[i].clan \in Clans
    BY RowClanTyped DEF Inv, TypeOK, Active
<1>4. ASSUME NEW f \in Commands, NEW u \in Recruits, NEW c \in Clans,
             ReserveStart(f, u, c)
      PROVE  Inv'
    <2> DEFINE r == [Idle EXCEPT !.op = "reserve", !.step = "count",
                                 !.recruit = u, !.clan = c, !.row = cache[c]]
    <2>1. r \in Coroutine /\ \A n \in Nat : Fits(r, n)
        BY <1>1, Bounds DEF Idle, Coroutine, Operations, Steps, Fits, RestTyped
    <2>2. flow' = [flow EXCEPT ![f] = r] /\ RestTyped' /\ ledger' = ledger
        BY <1>1, <1>4, IssueTyped DEF ReserveStart, Start, RestTyped
    <2> HIDE DEF r
    <2> QED
        BY <1>1, <2>1, <2>2, Assemble, Bounds
<1>5. ASSUME NEW f \in Commands, NEW u \in Recruits, NEW c \in Clans,
             ReleaseStart(f, u, c)
      PROVE  Inv'
    <2> DEFINE r == [Idle EXCEPT !.op = "release", !.step = "mark",
                                 !.recruit = u, !.clan = c,
                                 !.rows = Matches(u, c), !.clans = {c}]
    <2>1. Matches(u, c) \subseteq 1..Len(ledger) /\ Matches(u, c) \subseteq Nat \ {0}
        BY <1>2 DEF Matches, ActiveFor, ActiveIn
    <2>2. Matches(u, c) # {}
        BY <1>5, FS_EmptySet DEF ReleaseStart
    <2>3. r \in Coroutine /\ Fits(r, Len(ledger))
        BY <2>1, <2>2, Bounds DEF Idle, BlankRow, Cells, Coroutine, Operations, Steps, Fits
    <2>4. flow' = [flow EXCEPT ![f] = r] /\ RestTyped' /\ ledger' = ledger
        BY <1>1, <1>5, IssueTyped DEF ReleaseStart, Start, RestTyped
    <2> HIDE DEF r
    <2> QED
        BY <2>3, <2>4, Assemble, Bounds
<1>6. ASSUME NEW f \in Commands, NEW u \in Recruits, NEW c \in Clans, NEW d \in Dates,
             ExtendStart(f, u, c, d)
      PROVE  Inv'
    <2> DEFINE r == [Idle EXCEPT !.op = "extend", !.step = "date",
                                 !.recruit = u, !.clan = c, !.until = d,
                                 !.rows = Matches(u, c)]
    <2>1. Matches(u, c) \subseteq 1..Len(ledger) /\ Matches(u, c) \subseteq Nat \ {0}
        BY <1>2 DEF Matches, ActiveFor, ActiveIn
    <2>2. Matches(u, c) # {}
        BY <1>6, FS_EmptySet DEF ExtendStart
    <2>3. r \in Coroutine /\ Fits(r, Len(ledger))
        BY <2>1, <2>2, Bounds DEF Idle, BlankRow, Cells, Coroutine, Operations, Steps, Fits
    <2>4. flow' = [flow EXCEPT ![f] = r] /\ RestTyped' /\ ledger' = ledger
        BY <1>1, <1>6, IssueTyped DEF ExtendStart, Start, RestTyped
    <2> HIDE DEF r
    <2> QED
        BY <2>3, <2>4, Assemble, Bounds
<1>7. ASSUME NEW f \in Commands, NEW c \in Clans, NEW v \in 0..MaxSeats, SetSpots(f, c, v)
      PROVE  Inv'
    <2> DEFINE new == Adjusted(cache[c], v - Base(cache[c]))
               r   == [Idle EXCEPT !.op = "setspots", !.step = "aWrite", !.clan = c,
                                   !.row = new]
    <2>1. cache[c] \in Cells
        BY <1>1 DEF RestTyped
    <2>2. Base(cache[c]) \in Nat
        BY <2>1, CellsTyped
    <2>3. v - Base(cache[c]) \in Int
        BY <2>2, Bounds
    <2>4. new \in Cells
        BY <2>1, <2>3, CellsTyped
    <2>5. flow' = [flow EXCEPT ![f] = r] /\ RestTyped' /\ ledger' = ledger
        BY <1>1, <1>7, IssueTyped DEF SetSpots, Start, RestTyped
    <2> HIDE DEF new
    <2>6. r \in Coroutine /\ Fits(r, Len(ledger))
        BY <2>4, Bounds DEF Idle, Coroutine, Operations, Steps, Fits
    <2> HIDE DEF r
    <2> QED
        BY <2>5, <2>6, Assemble, Bounds
<1>8. CASE ReminderStart
    <2> DEFINE r == [Idle EXCEPT !.op = "remind", !.step = "rPlan",
                                 !.clans = {ledger[i].clan : i \in DueToday}]
    <2>1. r \in Coroutine /\ Fits(r, Len(ledger))
        BY <1>3, Bounds DEF Idle, BlankRow, Cells, Coroutine, Operations, Steps, Fits, DueToday
    <2>2. flow' = [flow EXCEPT !["reminder"] = r] /\ RestTyped' /\ ledger' = ledger
        BY <1>1, <1>8, Bounds DEF ReminderStart, Daily, Start, RestTyped, Dates
    <2>3. "reminder" \in Flows
        BY Bounds DEF Jobs
    <2> HIDE DEF r
    <2> QED
        BY <2>1, <2>2, <2>3, Assemble
<1>9. CASE AutoreleaseStart
    <2> DEFINE r == [Idle EXCEPT !.op = "expire", !.step = "mark", !.rows = Overdue,
                                 !.book = ledger]
    <2>1. r \in Coroutine /\ Fits(r, Len(ledger))
        BY <1>1, <1>2, <1>9, Bounds
        DEF AutoreleaseStart, Idle, BlankRow, Cells, Coroutine, Operations, Steps, Fits, Overdue
    <2>2. flow' = [flow EXCEPT !["autorelease"] = r] /\ RestTyped' /\ ledger' = ledger
        BY <1>1, <1>9, Bounds DEF AutoreleaseStart, Daily, Start, RestTyped, Dates
    <2>3. "autorelease" \in Flows
        BY Bounds DEF Jobs
    <2> HIDE DEF r
    <2> QED
        BY <2>1, <2>2, <2>3, Assemble
<1>10. ASSUME NEW u \in Recruits, UnlinkStart(u)
       PROVE  Inv'
    <2> DEFINE r == [Idle EXCEPT !.op = "unlink", !.step = "mark", !.rows = ActiveFor(u)]
    <2>1. r \in Coroutine /\ Fits(r, Len(ledger))
        BY <1>2, <1>10, Bounds
        DEF UnlinkStart, Idle, BlankRow, Cells, Coroutine, Operations, Steps, Fits, ActiveFor
    <2>2. flow' = [flow EXCEPT !["idlewatch"] = r] /\ RestTyped' /\ ledger' = ledger
        BY <1>1, <1>10 DEF UnlinkStart, Start, RestTyped
    <2>3. "idlewatch" \in Flows
        BY Bounds DEF Jobs
    <2> HIDE DEF r
    <2> QED
        BY <2>1, <2>2, <2>3, Assemble
<1> QED
    BY <1>4, <1>5, <1>6, <1>7, <1>8, <1>9, <1>10 DEF Begin

LEMMA WorldKeepsInv ==
    ASSUME Inv, World
    PROVE  Inv'
<1>1. Len(ledger) \in Nat /\ RestTyped /\ ledger' = ledger
    BY DEF Inv, TypeOK, RestTyped, World, RefreshRead, RefreshStore, ManualEdit,
           NextDay, Crash
<1>2. CASE flow' = flow /\ RestTyped'
    BY <1>1, <1>2 DEF Inv, TypeOK, RestTyped, AllFit
<1>3. CASE RefreshRead
    BY <1>1, <1>2, <1>3 DEF RefreshRead, RestTyped
<1>4. CASE RefreshStore
    BY <1>1, <1>2, <1>4 DEF RefreshStore, RestTyped
<1>5. ASSUME NEW c \in Clans, NEW v \in 0..MaxSeats, ManualEdit(c, v)
      PROVE  Inv'
    <2>1. [sheet[c] EXCEPT !.manual = v] \in Cells
        <3>1. sheet[c] \in Cells /\ v \in Nat
            BY <1>1, Bounds DEF RestTyped
        <3> QED
            BY <3>1 DEF Cells
    <2>2. sheet' \in [Clans -> Cells]
        BY <1>1, <1>5, <2>1 DEF ManualEdit, RestTyped
    <2>3. spent' \in [{"commands", "edits", "faults", "crashes"} -> Nat]
        BY <1>1, <1>5 DEF ManualEdit, RestTyped
    <2> QED
        BY <1>1, <1>2, <1>5, <2>2, <2>3 DEF ManualEdit, RestTyped
<1>6. CASE NextDay
    <2>1. day' \in Dates
        BY <1>1, <1>6, Bounds DEF NextDay, RestTyped, Dates
    <2> QED
        BY <1>1, <1>2, <1>6, <2>1 DEF NextDay, RestTyped
<1>7. CASE Crash
    <2>1. flow' \in [Flows -> Coroutine] /\ AllFit'
        BY <1>1, <1>7, IdleFits DEF Crash, AllFit
    <2>2. spent' \in [{"commands", "edits", "faults", "crashes"} -> Nat]
        BY <1>1, <1>7 DEF Crash, RestTyped
    <2>3. RestTyped'
        BY <1>1, <1>7, <2>2 DEF Crash, RestTyped
    <2> QED
        BY <1>1, <2>1, <2>3 DEF Inv, TypeOK, RestTyped
<1> QED
    BY <1>3, <1>4, <1>5, <1>6, <1>7 DEF World

LEMMA ProgressKeepsInv ==
    ASSUME Inv, NEW f \in Flows, Progress(f)
    PROVE  Inv'
<1> DEFINE r == flow[f]
<1>1. /\ ledger \in Seq(Hold) /\ Len(ledger) \in Nat
      /\ RestTyped
      /\ r \in Coroutine /\ Fits(r, Len(ledger))
    BY DEF Inv, TypeOK, RestTyped, AllFit
<1>2. [Book!Next]_ledger
    BY ProgressIsBook
<1>3. ledger' \in Seq(Hold) /\ Len(ledger') \in Nat /\ Len(ledger) <= Len(ledger')
    BY <1>1, <1>2, BookStepTyped
<1>4. ASSUME NEW q \in Coroutine, Goto(f, q), Fits(q, Len(ledger')), RestTyped'
      PROVE  Inv'
    BY <1>2, <1>4, Assemble DEF Goto
<1>5. Fits(r, Len(ledger')) /\ r.row \in Cells /\ r.count \in Nat /\ r.rows \subseteq Nat \ {0}
    BY <1>1, <1>3 DEF Fits, Coroutine
<1>6. \A q : Cardinality(ActiveIn(q)) \in Nat
    BY <1>1, CountIsNat
<1>7. ASSUME Fault PROVE spent' \in [{"commands", "edits", "faults", "crashes"} -> Nat]
    BY <1>7, IssueTyped
<1>8. ASSUME r.step \notin {"idle", "mark", "rPlan"} PROVE r.clan \in Clans
    BY <1>1, <1>8 DEF Fits
<1>9. r.op = "release" => r.clan \in Clans
    BY <1>1 DEF Fits
<1>10. Idle \in Coroutine /\ Fits(Idle, Len(ledger'))
    BY <1>3, IdleFits
<1>11. /\ r.op = "release" => r.clan \in Clans
       /\ NextClan(r) \in Coroutine /\ Fits(NextClan(r), Len(ledger'))
    BY <1>1, <1>3, <1>9, NextClanFits
<1>12. \A n \in Nat : Recomputed(r.row, n) \in Cells /\ Recomputed(r.row, n + 1) \in Cells
    <2>1. \A n \in Nat : Recomputed(r.row, n) \in Cells
        BY <1>5, CellsTyped
    <2>2. \A n \in Nat : n + 1 \in Nat
        OBVIOUS
    <2> QED
        BY <2>1, <2>2
<1> HIDE DEF r
<1>20. CASE ReserveCount(f)
    <2> DEFINE q == [r EXCEPT !.step = "talk", !.count = Cardinality(ActiveIn(r.clan))]
    <2>1. q \in Coroutine /\ Fits(q, Len(ledger'))
        BY <1>1, <1>5, <1>6, <1>20 DEF r, ReserveCount, Coroutine, Steps, Fits
    <2>2. Goto(f, q) /\ RestTyped'
        BY <1>1, <1>20 DEF r, ReserveCount, RestTyped
    <2> QED
        BY <1>4, <2>1, <2>2
<1>21. CASE ReserveConfirm(f)
    <2>1. PICK d \in day..MaxDay :
              Goto(f, [r EXCEPT !.step = "check", !.until = d])
        BY <1>21 DEF r, ReserveConfirm
    <2>2. d \in Dates
        BY <1>1, Bounds DEF RestTyped, Dates
    <2> DEFINE q == [r EXCEPT !.step = "check", !.until = d]
    <2>3. q \in Coroutine /\ Fits(q, Len(ledger'))
        BY <1>1, <1>5, <1>21, <2>2 DEF r, ReserveConfirm, Coroutine, Steps, Fits
    <2>4. RestTyped'
        BY <1>1, <1>21 DEF ReserveConfirm, RestTyped
    <2> QED
        BY <1>4, <2>1, <2>3, <2>4
<1>22. CASE ReserveAbort(f)
    BY <1>1, <1>4, <1>10, <1>22 DEF ReserveAbort, RestTyped
<1>23. CASE ReserveCheck(f)
    <2> DEFINE q == [r EXCEPT !.step = "append", !.book = ledger]
    <2>1. q \in Coroutine /\ Fits(q, Len(ledger'))
        BY <1>1, <1>5, <1>23 DEF r, ReserveCheck, Coroutine, Steps, Fits
    <2>2. (Goto(f, q) \/ Goto(f, Idle)) /\ RestTyped'
        BY <1>1, <1>23 DEF r, ReserveCheck, RestTyped
    <2> QED
        BY <1>4, <1>10, <2>1, <2>2
<1>24. CASE ReserveAppend(f)
    <2> DEFINE row == Recomputed(r.row, r.count + 1)
               q   == [r EXCEPT !.step = "wOpen", !.rows = {}, !.book = << >>,
                                !.row = row]
    <2>1. row \in Cells
        BY <1>5, <1>12
    <2>2. Goto(f, q)
        BY <1>24 DEF r, ReserveAppend
    <2>3. r.clan \in Clans
        BY <1>8, <1>24 DEF r, ReserveAppend
    <2>4. RestTyped'
        BY <1>1, <1>24, <2>3, RowsChangeTyped DEF r, ReserveAppend, RestTyped
    <2> HIDE DEF row
    <2>5. << >> \in Seq(Hold)
        OBVIOUS
    <2>6. q \in Coroutine /\ Fits(q, Len(ledger'))
        BY <1>1, <2>1, <2>3, <2>5 DEF Coroutine, Steps, Fits
    <2> QED
        BY <1>4, <2>2, <2>4, <2>6
<1>25. CASE ReserveAppendFail(f)
    <2>1. PICK landed \in Landings, retry \in BOOLEAN :
              LET mine == IF landed THEN r.rows \cup {Len(ledger) + 1} ELSE r.rows IN
              /\ IF landed THEN RowsChange(r.clan, {}) ELSE UNCHANGED <<pending, behind>>
              /\ phantom' = IF retry THEN phantom ELSE phantom \cup mine
              /\ Goto(f, IF retry THEN [r EXCEPT !.rows = mine] ELSE Idle)
        BY <1>25 DEF r, ReserveAppendFail
    <2> DEFINE mine == IF landed THEN r.rows \cup {Len(ledger) + 1} ELSE r.rows
               q    == [r EXCEPT !.rows = mine]
    <2>2. mine \subseteq Nat \ {0}
        BY <1>1, <1>5
    <2>3. r.step = "append" /\ r.clan \in Clans
        BY <1>8, <1>25 DEF r, ReserveAppendFail
    <2>4. /\ pending' \in SUBSET Clans /\ behind' \in SUBSET Flows
          /\ phantom' \in SUBSET (Nat \ {0})
        BY <1>1, <2>1, <2>2, <2>3, RowsChangeTyped DEF RestTyped
    <2>7. RestTyped'
        BY <1>1, <1>7, <1>25, <2>4 DEF r, ReserveAppendFail, RestTyped
    <2>5. Goto(f, q) \/ Goto(f, Idle)
        BY <2>1
    <2> HIDE DEF mine
    <2>6. q \in Coroutine /\ Fits(q, Len(ledger'))
        BY <1>1, <1>5, <2>2, <2>3 DEF Coroutine, Steps, Fits
    <2> QED
        BY <1>4, <1>10, <2>5, <2>6, <2>7
<1>26. CASE ExtendWrite(f)
    BY <1>1, <1>4, <1>10, <1>26 DEF ExtendWrite, RestTyped
<1>27. CASE ExtendFail(f)
    BY <1>1, <1>4, <1>7, <1>10, <1>27 DEF ExtendFail, RestTyped
<1>28. CASE Mark(f) \/ MarkFail(f)
    <2> DEFINE i == First(r.rows)
    <2>1. r.step = "mark" /\ i \in DOMAIN ledger
        BY <1>28, NextRowExists DEF r, Mark, MarkFail
    <2>2. ledger[i].clan \in Clans
        BY <1>1, <2>1, RowClanTyped
    <2>3. RestTyped'
        BY <1>1, <1>7, <1>28, <2>2, RowsChangeTyped DEF r, Mark, MarkFail, RestTyped
    <2> DEFINE p == [r EXCEPT !.rows = @ \ {i}]
               q == [r EXCEPT !.rows = @ \ {i},
                              !.clans = IF r.op = "expire" THEN @ \cup {ledger[i].clan} ELSE @]
    <2>4. Goto(f, NextRow(p)) \/ Goto(f, NextRow(q)) \/ Goto(f, Idle)
        BY <1>28 DEF r, Mark, MarkFail, Marked
    <2>5. r.rows \subseteq 1..Len(ledger')
        BY <1>5, <2>1 DEF Fits
    <2> HIDE DEF i
    <2>6. /\ p \in Coroutine /\ p.step = "mark" /\ p.rows \subseteq 1..Len(ledger')
          /\ p.op = "release" => p.clan \in Clans
        BY <1>1, <1>5, <1>9, <2>1, <2>5 DEF Coroutine
    <2>7. /\ q \in Coroutine /\ q.step = "mark" /\ q.rows \subseteq 1..Len(ledger')
          /\ q.op = "release" => q.clan \in Clans
        BY <1>1, <1>5, <1>9, <2>1, <2>2, <2>5 DEF Coroutine
    <2> HIDE DEF p, q
    <2>8. /\ NextRow(p) \in Coroutine /\ Fits(NextRow(p), Len(ledger'))
          /\ NextRow(q) \in Coroutine /\ Fits(NextRow(q), Len(ledger'))
        BY <1>3, <2>6, <2>7, NextRowFits
    <2> QED
        BY <1>4, <1>10, <2>3, <2>4, <2>8
<1>29. CASE AdjustPlan(f)
    <2> DEFINE row == Adjusted(cache[r.clan], 1)
               q   == [r EXCEPT !.step = "aWrite", !.row = row]
    <2>1. r.clan \in Clans
        BY <1>8, <1>29 DEF r, AdjustPlan
    <2>2. cache[r.clan] \in Cells
        BY <1>1, <2>1 DEF RestTyped
    <2>3. row \in Cells
        BY <2>2, CellsTyped
    <2>4. Goto(f, q) /\ RestTyped'
        BY <1>1, <1>29 DEF r, AdjustPlan, RestTyped
    <2> HIDE DEF row
    <2>5. q \in Coroutine /\ Fits(q, Len(ledger'))
        BY <1>1, <2>1, <2>3 DEF Coroutine, Steps, Fits
    <2> QED
        BY <1>4, <2>4, <2>5
<1>30. CASE AdjustWrite(f)
    <2> DEFINE q == [r EXCEPT !.step = "aPatch"]
    <2>1. r.clan \in Clans
        BY <1>8, <1>30 DEF r, AdjustWrite
    <2>2. Adjustment(sheet[r.clan], r.row) \in Cells
        BY <1>1, <1>5, <2>1, CellsTyped DEF RestTyped
    <2>3. sheet' = [sheet EXCEPT ![r.clan] = Adjustment(sheet[r.clan], r.row)]
        BY <1>30 DEF r, AdjustWrite
    <2>4. RestTyped' /\ Goto(f, q)
        BY <1>1, <1>30, <2>2, <2>3 DEF r, AdjustWrite, RestTyped
    <2>5. q \in Coroutine /\ Fits(q, Len(ledger'))
        BY <1>1, <2>1 DEF Coroutine, Steps, Fits
    <2> QED
        BY <1>4, <2>4, <2>5
<1>31. CASE AdjustPatch(f)
    <2>1. RestTyped' /\ Goto(f, NextClan(r))
        BY <1>1, <1>5, <1>31 DEF r, AdjustPatch, RestTyped
    <2> QED
        BY <1>4, <1>11, <2>1
<1>32. CASE AdjustFail(f)
    <2>1. r.clan \in Clans
        BY <1>8, <1>32 DEF r, AdjustFail
    <2>2. Adjustment(sheet[r.clan], r.row) \in Cells
        BY <1>1, <1>5, <2>1, CellsTyped DEF RestTyped
    <2>3. \/ sheet' = [sheet EXCEPT ![r.clan] = Adjustment(sheet[r.clan], r.row)]
          \/ sheet' = sheet
        BY <1>32 DEF r, AdjustFail
    <2>4. RestTyped' /\ Goto(f, NextClan(r))
        BY <1>1, <1>7, <1>32, <2>2, <2>3 DEF r, AdjustFail, RestTyped
    <2> QED
        BY <1>4, <1>11, <2>4
<1>33. CASE RecomputePlan(f)
    <2>1. PICK c \in r.clans :
              Goto(f, [r EXCEPT !.step = "rCount", !.clan = c, !.clans = @ \ {c},
                                !.row = cache[c]])
        BY <1>33 DEF r, RecomputePlan
    <2> DEFINE q == [r EXCEPT !.step = "rCount", !.clan = c, !.clans = @ \ {c},
                              !.row = cache[c]]
    <2>2. c \in Clans /\ cache[c] \in Cells
        BY <1>1 DEF Coroutine, RestTyped
    <2>3. q \in Coroutine /\ Fits(q, Len(ledger'))
        BY <1>1, <2>2 DEF Coroutine, Steps, Fits
    <2>4. RestTyped'
        BY <1>1, <1>33 DEF RecomputePlan, RestTyped
    <2> QED
        BY <1>4, <2>1, <2>3, <2>4
<1>34. CASE RecomputeCount(f)
    <2> DEFINE row == Recomputed(r.row, Cardinality(ActiveIn(r.clan)))
               q   == [r EXCEPT !.step = "wOpen", !.row = row]
    <2>1. r.clan \in Clans
        BY <1>8, <1>34 DEF r, RecomputeCount
    <2>2. row \in Cells
        BY <1>6, <1>12
    <2>3. Goto(f, q) /\ RestTyped'
        BY <1>1, <1>34 DEF r, RecomputeCount, RestTyped
    <2> HIDE DEF row
    <2>4. q \in Coroutine /\ Fits(q, Len(ledger'))
        BY <1>1, <2>1, <2>2 DEF Coroutine, Steps, Fits
    <2> QED
        BY <1>4, <2>3, <2>4
<1>35. ASSUME NEW step \in {"wOpen", "wSeen", "wCount"},
              NEW after \in {"wSeen", "wCount", "patch"}, WriteStep(f, step, after),
              stale' \in SUBSET Clans
       PROVE  Inv'
    <2> DEFINE q == [r EXCEPT !.step = after]
    <2>1. r.clan \in Clans /\ step \in Steps
        BY <1>8, <1>35 DEF r, WriteStep, Steps
    <2>2. Written(step, sheet[r.clan], r.row) \in Cells
        BY <1>1, <1>5, <2>1, CellsTyped DEF RestTyped
    <2>3. sheet' = [sheet EXCEPT ![r.clan] = Written(step, sheet[r.clan], r.row)]
        BY <1>35 DEF r, WriteStep
    <2>4. RestTyped' /\ Goto(f, q)
        BY <1>1, <1>35, <2>2, <2>3 DEF r, WriteStep, RestTyped
    <2>5. q \in Coroutine /\ Fits(q, Len(ledger'))
        BY <1>1, <2>1 DEF Coroutine, Steps, Fits
    <2> QED
        BY <1>4, <2>4, <2>5
<1>36. CASE WriteOpen(f) \/ WriteSeen(f) \/ WriteCount(f)
    <2>1. r.clan \in Clans
        BY <1>8, <1>36 DEF r, WriteOpen, WriteSeen, WriteCount, WriteStep
    <2>2. stale' \in SUBSET Clans
        BY <1>1, <1>36, <2>1 DEF r, WriteOpen, WriteSeen, WriteCount, Overtaken, RestTyped
    <2> QED
        BY <1>35, <1>36, <2>2 DEF WriteOpen, WriteSeen, WriteCount
<1>37. CASE RecomputePatch(f)
    <2>1. r.clan \in Clans
        BY <1>8, <1>37 DEF r, RecomputePatch
    <2>2. stale' \in SUBSET Clans
        BY <1>1, <1>37, <2>1 DEF r, RecomputePatch, Overtaken, RestTyped
    <2>3. RestTyped' /\ Goto(f, NextClan(r))
        BY <1>1, <1>5, <1>37, <2>2 DEF r, RecomputePatch, RestTyped
    <2> QED
        BY <1>4, <1>11, <2>3
<1>38. CASE RecomputeFail(f)
    <2> DEFINE q == [r EXCEPT !.step = "wOpen"]
    <2>1. r.clan \in Clans /\ r.step \in Steps
        BY <1>8, <1>38 DEF r, RecomputeFail, Steps
    <2>2. Written(r.step, sheet[r.clan], r.row) \in Cells
        BY <1>1, <1>5, <2>1, CellsTyped DEF RestTyped
    <2>3. \/ sheet' = [sheet EXCEPT ![r.clan] = Written(r.step, sheet[r.clan], r.row)]
          \/ sheet' = sheet
        BY <1>38 DEF r, RecomputeFail
    <2>6. stale' \in SUBSET Clans
        BY <1>1, <1>38, <2>1 DEF r, RecomputeFail, Overtaken, RestTyped
    <2>4. RestTyped' /\ (Goto(f, NextClan(r)) \/ Goto(f, q))
        BY <1>1, <1>7, <1>38, <2>2, <2>3, <2>6 DEF r, RecomputeFail, RestTyped
    <2>5. q \in Coroutine /\ Fits(q, Len(ledger'))
        BY <1>1, <2>1 DEF Coroutine, Steps, Fits
    <2> QED
        BY <1>4, <1>11, <2>4, <2>5
<1> QED
    BY <1>20, <1>21, <1>22, <1>23, <1>24, <1>25, <1>26, <1>27, <1>28, <1>29, <1>30,
       <1>31, <1>32, <1>33, <1>34, <1>36, <1>37, <1>38
    DEF Progress

LEMMA StepKeepsInv == Inv /\ [Next]_vars => Inv'
<1> SUFFICES ASSUME Inv, [Next]_vars PROVE Inv'
    OBVIOUS
<1>1. CASE UNCHANGED vars
    BY <1>1 DEF Inv, TypeOK, AllFit, vars
<1> QED
    BY <1>1, BeginKeepsInv, ProgressKeepsInv, WorldKeepsInv DEF Next

LEMMA Invariance == Spec => []Inv
BY InitInv, StepKeepsInv, PTL DEF Spec

-------------------------------------------------------------------------------
(* The theorems.                                                              *)

\* Every variable keeps its type in every behaviour: in particular no loop ever
\* writes a row that is not there, and the open seats never fall below zero.
THEOREM TypeCorrect == Spec => []TypeOK
<1>1. Inv => TypeOK
    BY DEF Inv
<1> QED
    BY <1>1, Invariance, PTL

\* Whatever interleaves, fails, crashes or lands late, the Reservations tab is a
\* HoldBook: no blind cell write loses, re-assigns or revives a hold.
THEOREM KeepsBook == Spec => KeepsHoldBook
<1>1. Init => Book!Init
    BY DEF Init, Book!Init
<1>2. Inv /\ [Next]_vars => [Book!Next]_ledger
    BY StepIsBook
<1> QED
    BY <1>1, <1>2, Invariance, PTL DEF Spec, KeepsHoldBook, Book!Spec

-------------------------------------------------------------------------------
(* The duplicate check and the append of a !reserve are two awaits.  What is   *)
(* on file at the check cannot become a second hold: a row never changes its  *)
(* recruit and never becomes active again, so a hold that the recruit has at  *)
(* the append and had not at the check stands behind the book that was read.  *)

Early == {"count", "talk", "check", "append"}

\* Only commands reserve, and one that is about to append has seen no row of its
\* recruit: those that there are were appended after it had read the ledger.
Checked ==
    \A f \in Flows :
        /\ flow[f].step \in Early => f \in Commands
        /\ flow[f].step = "append" =>
               /\ flow[f].book \in Seq(Hold) /\ Len(flow[f].book) <= Len(ledger)
               /\ \A i \in ActiveFor(flow[f].recruit) : i > Len(flow[f].book)

CheckInv == Inv /\ Checked

\* Where an early step of a coroutine comes from.
CameFrom(g) ==
    \/ g \in Commands /\ flow'[g].step = "count"
    \/ /\ flow[g].step \in Early /\ flow'[g].recruit = flow[g].recruit
       /\ flow'[g].step = "append" =>
              \/ flow[g].step = "append" /\ flow'[g].book = flow[g].book
              \/ /\ ActiveFor(flow[g].recruit) = {}
                 /\ flow'[g].book = ledger /\ UNCHANGED ledger

LEMMA NextClanIsLate ==
    ASSUME NEW r \in Coroutine
    PROVE  /\ NextClan(r).step \notin Early
           /\ r.step = "mark" => NextRow(r).step \notin Early
BY DEF NextClan, NextRow, Idle, Coroutine, Early

LEMMA EarlySteps ==
    ASSUME Inv, [Next]_vars, NEW g \in Flows, flow'[g].step \in Early
    PROVE  CameFrom(g)
<1>1. flow \in [Flows -> Coroutine]
    BY DEF Inv, TypeOK
<1>2. CASE flow'[g] = flow[g]
    BY <1>2 DEF CameFrom
<1>3. CASE Begin
    <2>1. ASSUME NEW f \in Flows, NEW op, NEW q, Start(f, op, q),
                 (q.step = "count" /\ f \in Commands) \/ q.step \notin Early
          PROVE  CameFrom(g)
        <3>1. flow'[g] = flow[g] \/ (g = f /\ flow'[g] = q)
            BY <1>1, <2>1 DEF Start
        <3> QED
            BY <1>2, <2>1, <3>1 DEF CameFrom
    <2>2. Commands \subseteq Flows /\ Jobs \subseteq Flows
        BY DEF Flows
    <2>3. ASSUME NEW f \in Commands, NEW u \in Recruits, NEW c \in Clans,
                 \/ ReserveStart(f, u, c)
                 \/ ReleaseStart(f, u, c)
                 \/ \E d \in Dates : ExtendStart(f, u, c, d)
          PROVE  CameFrom(g)
        BY <2>1, <2>2, <2>3 DEF ReserveStart, ReleaseStart, ExtendStart, Idle, Early
    <2>4. ASSUME NEW f \in Commands, NEW c \in Clans, NEW v \in 0..MaxSeats, SetSpots(f, c, v)
          PROVE  CameFrom(g)
        BY <2>1, <2>2, <2>4 DEF SetSpots, Idle, Early
    <2>5. CASE ReminderStart \/ AutoreleaseStart \/ \E u \in Recruits : UnlinkStart(u)
        BY <2>1, <2>2, <2>5 DEF ReminderStart, AutoreleaseStart, UnlinkStart, Idle, Early, Jobs
    <2> QED
        BY <1>3, <2>3, <2>4, <2>5 DEF Begin
<1>4. CASE World
    BY <1>2, <1>4 DEF World, RefreshRead, RefreshStore, ManualEdit, NextDay, Crash,
        Idle, Early
<1>5. ASSUME NEW f \in Flows, Progress(f) PROVE CameFrom(g)
    <2> DEFINE r == flow[f]
    <2>1. r \in Coroutine /\ Idle.step = "idle"
        BY <1>1 DEF Idle
    <2>2. CASE f # g
        <3>1. \E q : flow' = [flow EXCEPT ![f] = q]
            BY <1>5 DEF Progress, Goto, ReserveCount, ReserveConfirm, ReserveAbort,
               ReserveCheck, ReserveAppend, ReserveAppendFail, ExtendWrite, ExtendFail,
               Mark, MarkFail, AdjustPlan, AdjustWrite, AdjustPatch, AdjustFail,
               RecomputePlan, RecomputeCount, WriteOpen, WriteSeen, WriteCount,
               WriteStep, RecomputePatch, RecomputeFail
        <3> QED
            BY <1>1, <1>2, <2>2, <3>1
    <2>3. CASE f = g
        <3>0. \A q : Goto(f, q) => flow'[g] = q
            BY <1>1, <2>3 DEF Goto
        <3>1. CASE ReserveCount(f) \/ ReserveConfirm(f) \/ ReserveAbort(f) \/ ReserveCheck(f)
            <4>1. \/ flow'[g] = Idle
                  \/ flow'[g] = [r EXCEPT !.step = "talk", !.count = Cardinality(ActiveIn(r.clan))]
                  \/ \E d : flow'[g] = [r EXCEPT !.step = "check", !.until = d]
                  \/ /\ flow'[g] = [r EXCEPT !.step = "append", !.book = ledger]
                     /\ ActiveFor(r.recruit) = {}
                BY <3>0, <3>1 DEF ReserveCount, ReserveConfirm, ReserveAbort, ReserveCheck
            <4>2. r.step \in Early /\ UNCHANGED ledger
                BY <3>1 DEF ReserveCount, ReserveConfirm, ReserveAbort, ReserveCheck, Early
            <4> QED
                BY <2>1, <2>3, <4>1, <4>2 DEF Early, CameFrom, Coroutine
        <3>2. CASE ReserveAppend(f) \/ ReserveAppendFail(f)
            <4>1. \/ flow'[g] = Idle
                  \/ \E row : flow'[g] = [r EXCEPT !.step = "wOpen", !.rows = {},
                                                    !.book = << >>, !.row = row]
                  \/ \E mine : flow'[g] = [r EXCEPT !.rows = mine]
                BY <3>0, <3>2 DEF ReserveAppend, ReserveAppendFail
            <4>2. r.step = "append"
                BY <3>2 DEF ReserveAppend, ReserveAppendFail
            <4> QED
                BY <2>1, <2>3, <4>1, <4>2 DEF Early, CameFrom, Coroutine
        <3>3. CASE ExtendWrite(f) \/ ExtendFail(f) \/ AdjustPlan(f) \/ AdjustWrite(f)
                   \/ AdjustPatch(f) \/ AdjustFail(f) \/ RecomputePlan(f)
                   \/ RecomputeCount(f) \/ WriteOpen(f) \/ WriteSeen(f) \/ WriteCount(f)
                   \/ RecomputePatch(f) \/ RecomputeFail(f)
            <4>1. \/ flow'[g] = Idle
                  \/ flow'[g] = NextClan(r)
                  \/ \E row : flow'[g] = [r EXCEPT !.step = "aWrite", !.row = row]
                  \/ \E row : flow'[g] = [r EXCEPT !.step = "wOpen", !.row = row]
                  \/ \E c : flow'[g] = [r EXCEPT !.step = "rCount", !.clan = c,
                                                 !.clans = @ \ {c}, !.row = cache[c]]
                  \/ \E s \in {"aPatch", "wOpen", "wSeen", "wCount", "patch"} :
                         flow'[g] = [r EXCEPT !.step = s]
                BY <3>0, <3>3 DEF ExtendWrite, ExtendFail,
                   AdjustPlan, AdjustWrite, AdjustPatch, AdjustFail, RecomputePlan,
                   RecomputeCount, WriteOpen, WriteSeen, WriteCount, WriteStep,
                   RecomputePatch, RecomputeFail
            <4>2. NextClan(r).step \notin Early
                BY <2>1, NextClanIsLate
            <4>3. flow'[g].step \notin Early
                BY <2>1, <4>1, <4>2 DEF Early, Coroutine
            <4> QED
                BY <4>3
        <3>4. CASE Mark(f) \/ MarkFail(f)
            <4> DEFINE i == First(r.rows)
                       p == [r EXCEPT !.rows = @ \ {i}]
                       q == [r EXCEPT !.rows = @ \ {i},
                                      !.clans = IF r.op = "expire" THEN @ \cup {ledger[i].clan}
                                                ELSE @]
            <4>1. r.step = "mark" /\ ledger[i].clan \in Clans
                BY <3>4, NextRowExists, RowClanTyped DEF Mark, MarkFail, Inv, TypeOK
            <4>2. flow'[g] \in {NextRow(p), NextRow(q), Idle}
                BY <1>1, <2>3, <3>4 DEF Mark, MarkFail, Marked, Goto
            <4>3. p \in Coroutine /\ q \in Coroutine /\ p.step = "mark" /\ q.step = "mark"
                BY <2>1, <4>1 DEF Coroutine
            <4> HIDE DEF p, q
            <4> QED
                BY <2>1, <4>2, <4>3, NextClanIsLate DEF Early
        <3> QED
            BY <1>5, <3>1, <3>2, <3>3, <3>4 DEF Progress
    <2> QED
        BY <2>2, <2>3
<1>6. CASE UNCHANGED vars
    BY <1>2, <1>6 DEF vars
<1> QED
    BY <1>3, <1>4, <1>5, <1>6 DEF Next

\* The rows that are there keep their recruit, and none becomes active again.
LEMMA RowsStay ==
    ASSUME ledger \in Seq(Hold), [Book!Next]_ledger
    PROVE  /\ ledger' \in Seq(Hold) /\ Len(ledger) \in Nat /\ Len(ledger') \in Nat
           /\ Len(ledger) <= Len(ledger')
           /\ DOMAIN ledger = 1..Len(ledger) /\ DOMAIN ledger' = 1..Len(ledger')
           /\ \A i \in DOMAIN ledger :
                  /\ ledger'[i].recruit = ledger[i].recruit
                  /\ ledger'[i].status = "active" => ledger[i].status = "active"
<1>1. /\ ledger' \in Seq(Hold) /\ Len(ledger) \in Nat /\ Len(ledger') \in Nat
      /\ Len(ledger) <= Len(ledger')
      /\ DOMAIN ledger = 1..Len(ledger) /\ DOMAIN ledger' = 1..Len(ledger')
    BY BookStepTyped
<1> DEFINE Stays == \A i \in DOMAIN ledger :
                  /\ ledger'[i].recruit = ledger[i].recruit
                  /\ ledger'[i].status = "active" => ledger[i].status = "active"
<1>2. CASE UNCHANGED ledger
    BY <1>2
<1>3. ASSUME NEW u \in Recruits, NEW c \in Clans, NEW d \in Dates, Book!Enter(u, c, d)
      PROVE  Stays
    <2>1. \A i \in DOMAIN ledger : ledger'[i] = ledger[i]
        BY <1>3 DEF Book!Enter
    <2> QED
        BY <2>1
<1>4. ASSUME NEW i \in DOMAIN ledger, NEW s \in Book!Closings, Book!Close(i, s)
      PROVE  Stays
    BY <1>4 DEF Book!Close, Book!Closings, Hold
<1>5. ASSUME NEW i \in DOMAIN ledger, NEW d \in Dates, Book!Postpone(i, d)
      PROVE  Stays
    BY <1>5 DEF Book!Postpone, Hold
<1>6. Stays
    BY <1>2, <1>3, <1>4, <1>5 DEF Book!Next
<1> QED
    BY <1>1, <1>6

LEMMA StepKeepsCheck ==
    ASSUME CheckInv, [Next]_vars
    PROVE  CheckInv'
<1>1. Inv /\ Inv' /\ ledger \in Seq(Hold) /\ [Book!Next]_ledger
    BY StepKeepsInv, StepIsBook DEF CheckInv, Inv, TypeOK
<1>2. ASSUME NEW g \in Flows, flow'[g].step \in Early PROVE g \in Commands
    BY <1>1, <1>2, EarlySteps DEF CameFrom, CheckInv, Checked
<1>3. ASSUME NEW g \in Flows, flow'[g].step = "append"
      PROVE  /\ flow'[g].book \in Seq(Hold) /\ Len(flow'[g].book) <= Len(ledger')
             /\ \A i \in (ActiveFor(flow[g].recruit))' : i > Len(flow'[g].book)
    <2>1. CameFrom(g) /\ flow'[g].step # "count"
        BY <1>1, <1>3, EarlySteps DEF Early
    <2>2. CASE flow[g].step = "append" /\ flow'[g].book = flow[g].book
        <3>1. /\ flow[g].book \in Seq(Hold) /\ Len(flow[g].book) <= Len(ledger)
              /\ \A i \in ActiveFor(flow[g].recruit) : i > Len(flow[g].book)
            BY <2>2 DEF CheckInv, Checked
        <3>2. flow'[g].recruit = flow[g].recruit
            BY <2>1 DEF CameFrom
        <3>3. Len(flow[g].book) \in Nat /\ flow'[g].book = flow[g].book
            BY <2>2, <3>1
        <3>4. ASSUME NEW i \in (ActiveFor(flow[g].recruit))' PROVE i > Len(flow[g].book)
            <4>1. /\ i \in DOMAIN ledger' /\ ledger'[i].status = "active"
                  /\ ledger'[i].recruit = flow[g].recruit
                BY <3>2, <3>4 DEF ActiveFor, Active
            <4>2. CASE i \in DOMAIN ledger
                <5>1. i \in ActiveFor(flow[g].recruit)
                    BY <1>1, <4>1, <4>2, RowsStay DEF ActiveFor, Active
                <5> QED
                    BY <3>1, <5>1
            <4>3. CASE i \notin DOMAIN ledger
                <5>1. i > Len(ledger)
                    BY <1>1, <4>1, <4>3, RowsStay
                <5> QED
                    BY <1>1, <3>1, <3>3, <4>1, <5>1, RowsStay
            <4> QED
                BY <4>2, <4>3
        <3>5. Len(flow[g].book) <= Len(ledger')
            BY <1>1, <3>1, <3>3, RowsStay
        <3> QED
            BY <3>1, <3>3, <3>4, <3>5
    <2>3. CASE /\ ActiveFor(flow[g].recruit) = {}
               /\ flow'[g].book = ledger /\ UNCHANGED ledger
        <3>1. flow'[g].recruit = flow[g].recruit
            BY <2>1 DEF CameFrom
        <3>2. (ActiveFor(flow[g].recruit))' = {}
            BY <2>3, <3>1 DEF ActiveFor, Active
        <3> QED
            BY <1>1, <2>3, <3>2
    <2> QED
        BY <1>3, <2>1, <2>2, <2>3 DEF CameFrom
<1> QED
    BY <1>1, <1>2, <1>3 DEF CheckInv, Checked

\* The ledger only becomes longer by the append of a !reserve.
LEMMA OnlyAppendsGrow ==
    ASSUME Inv, [Next]_vars, Len(ledger') > Len(ledger)
    PROVE  \E f \in Flows : /\ flow[f].step = "append"
                            /\ ledger' = Append(ledger, NewHold(flow[f]))
<1>1. ledger \in Seq(Hold) /\ Len(ledger) \in Nat
    BY DEF Inv, TypeOK
<1>2. ~UNCHANGED ledger
    BY <1>1
<1>3. PICK f \in Flows : Progress(f)
    BY <1>2 DEF Next, Begin, World, vars, ReserveStart, ReleaseStart, ExtendStart,
       SetSpots, ReminderStart, AutoreleaseStart, UnlinkStart, RefreshRead,
       RefreshStore, ManualEdit, NextDay, Crash
<1>4. ExtendWrite(f) \/ ExtendFail(f) \/ Mark(f) \/ MarkFail(f) => Len(ledger') = Len(ledger)
    BY <1>1 DEF ExtendWrite, ExtendFail, Mark, MarkFail
<1>5. CASE ReserveAppend(f) \/ ReserveAppendFail(f)
    BY <1>2, <1>5 DEF ReserveAppend, ReserveAppendFail
<1>6. CASE \/ ReserveCount(f) \/ ReserveConfirm(f) \/ ReserveAbort(f) \/ ReserveCheck(f)
           \/ AdjustPlan(f) \/ AdjustWrite(f) \/ AdjustPatch(f) \/ AdjustFail(f)
           \/ RecomputePlan(f) \/ RecomputeCount(f)
           \/ WriteOpen(f) \/ WriteSeen(f) \/ WriteCount(f)
           \/ RecomputePatch(f) \/ RecomputeFail(f)
    BY <1>2, <1>6 DEF ReserveCount, ReserveConfirm, ReserveAbort, ReserveCheck,
       AdjustPlan, AdjustWrite, AdjustPatch, AdjustFail, RecomputePlan,
       RecomputeCount, WriteOpen, WriteSeen, WriteCount, WriteStep,
       RecomputePatch, RecomputeFail
<1> QED
    BY <1>1, <1>3, <1>4, <1>5, <1>6 DEF Progress

\* Whatever interleaves, fails or lands late, a recruit gets a second hold only
\* if the first was appended after the duplicate check of the second.
THEOREM SecondHoldsAreRaces == Spec => SecondHoldUnseen
<1>1. Init => CheckInv
    <2> SUFFICES ASSUME Init PROVE CheckInv
        OBVIOUS
    <2>1. Inv
        BY InitInv
    <2>2. \A f \in Flows : flow[f].step = "idle"
        BY DEF Init, Idle
    <2> QED
        BY <2>1, <2>2 DEF CheckInv, Checked, Early
<1>2. CheckInv /\ [Next]_vars => CheckInv'
    BY StepKeepsCheck
<1>3. CheckInv /\ [Next]_vars =>
          [Len(ledger') > Len(ledger) =>
               \E f \in Commands :
                   /\ flow[f].step = "append"
                   /\ flow[f].recruit = ledger'[Len(ledger')].recruit
                   /\ \A i \in ActiveFor(flow[f].recruit) : i > Len(flow[f].book)]_vars
    <2> SUFFICES ASSUME CheckInv, [Next]_vars, Len(ledger') > Len(ledger)
                 PROVE  \E f \in Commands :
                            /\ flow[f].step = "append"
                            /\ flow[f].recruit = ledger'[Len(ledger')].recruit
                            /\ \A i \in ActiveFor(flow[f].recruit) : i > Len(flow[f].book)
        OBVIOUS
    <2>1. PICK f \in Flows : /\ flow[f].step = "append"
                             /\ ledger' = Append(ledger, NewHold(flow[f]))
        BY OnlyAppendsGrow DEF CheckInv
    <2>2. f \in Commands /\ \A i \in ActiveFor(flow[f].recruit) : i > Len(flow[f].book)
        BY <2>1 DEF CheckInv, Checked, Early
    <2>3. ledger \in Seq(Hold)
        BY DEF CheckInv, Inv, TypeOK
    <2>4. ledger'[Len(ledger')] = NewHold(flow[f])
        BY <2>1, <2>3
    <2>5. flow[f].recruit = ledger'[Len(ledger')].recruit
        BY <2>4 DEF NewHold
    <2> QED
        BY <2>1, <2>2, <2>5
<1> QED
    BY <1>1, <1>2, <1>3, PTL DEF Spec, SecondHoldUnseen
===============================================================================
