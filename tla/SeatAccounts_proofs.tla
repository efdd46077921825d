-------------------------- MODULE SeatAccounts_proofs --------------------------
(* What TLAPS proves of the accounts that SeatReservations keeps beside the   *)
(* ledger: that every change of it is recomputed, that the reserved count of  *)
(* a clan is right unless the ledger has overtaken it, and that a hold is     *)
(* expired early only if its day was moved behind the job's back.             *)
EXTENDS SeatReservations_proofs

USE DEF ghosts

-------------------------------------------------------------------------------
(* What every step does to the coroutines.                                    *)

\* A coroutine that goes on was busy, and nobody else moves.
LEMMA ProgressMovesOne ==
    ASSUME Inv, NEW f \in Flows, Progress(f)
    PROVE  /\ flow[f].step # "idle"
           /\ flow' \in [Flows -> Coroutine]
           /\ \A g \in Flows : g # f => flow'[g] = flow[g]
           /\ UNCHANGED <<refresh, day>>
<1>1. flow \in [Flows -> Coroutine] /\ flow' \in [Flows -> Coroutine]
    BY ProgressKeepsInv DEF Inv, TypeOK
<1>2. \E q : flow' = [flow EXCEPT ![f] = q]
    BY DEF Progress, Goto, ReserveCount, ReserveConfirm, ReserveAbort,
       ReserveCheck, ReserveAppend, ReserveAppendFail, ExtendWrite, ExtendFail,
       Mark, MarkFail, AdjustPlan, AdjustWrite, AdjustPatch, AdjustFail,
       RecomputePlan, RecomputeCount, WriteOpen, WriteSeen, WriteCount,
       WriteStep, RecomputePatch, RecomputeFail
<1>3. flow[f].step # "idle" /\ UNCHANGED <<refresh, day>>
    BY DEF Progress, ReserveCount, ReserveConfirm, ReserveAbort,
       ReserveCheck, ReserveAppend, ReserveAppendFail, ExtendWrite, ExtendFail,
       Mark, MarkFail, AdjustPlan, AdjustWrite, AdjustPatch, AdjustFail,
       RecomputePlan, RecomputeCount, WriteOpen, WriteSeen, WriteCount,
       WriteStep, RecomputePatch, RecomputeFail
<1> QED
    BY <1>1, <1>2, <1>3

\* The steps that no failed call and no restart takes.
Smooth(f) ==
    \/ ReserveCount(f) \/ ReserveConfirm(f) \/ ReserveAbort(f) \/ ReserveCheck(f)
    \/ ReserveAppend(f) \/ ExtendWrite(f) \/ Mark(f)
    \/ AdjustPlan(f) \/ AdjustWrite(f) \/ AdjustPatch(f)
    \/ RecomputePlan(f) \/ RecomputeCount(f)
    \/ WriteOpen(f) \/ WriteSeen(f) \/ WriteCount(f) \/ RecomputePatch(f)

\* The count of failures and restarts never goes back, so a calm state is only
\* reached from a calm one, by a smooth step.
LEMMA CalmBefore ==
    ASSUME Inv, [Next]_vars, Calm'
    PROVE  /\ Calm /\ ~Crash
           /\ \A f \in Flows : Progress(f) => Smooth(f)
<1>1. spent \in [{"commands", "edits", "faults", "crashes"} -> Nat]
    BY DEF Inv, TypeOK
<1>2. spent.faults \in Nat /\ spent.crashes \in Nat
    BY <1>1
<1>3. ~Fault /\ ~Crash
    BY <1>1, <1>2 DEF Fault, Crash, Calm
<1>4. \A f \in Flows : Progress(f) => Smooth(f)
    BY <1>3 DEF Progress, Smooth, ReserveAppendFail, ExtendFail, MarkFail,
       AdjustFail, RecomputeFail
<1>5. ASSUME Begin PROVE Calm
    BY <1>1, <1>2, <1>5 DEF Begin, ReserveStart, ReleaseStart, ExtendStart, SetSpots,
       ReminderStart, AutoreleaseStart, UnlinkStart, Issue, Calm
<1>6. ASSUME World PROVE Calm
    BY <1>1, <1>2, <1>3, <1>6 DEF World, RefreshRead, RefreshStore, ManualEdit, NextDay, Calm
<1>7. ASSUME NEW f \in Flows, Progress(f) PROVE Calm
    BY <1>4, <1>7 DEF Smooth, ReserveCount, ReserveConfirm, ReserveAbort,
       ReserveCheck, ReserveAppend, ExtendWrite, Mark, AdjustPlan, AdjustWrite,
       AdjustPatch, RecomputePlan, RecomputeCount, WriteOpen, WriteSeen,
       WriteCount, WriteStep, RecomputePatch, Calm
<1>8. ASSUME UNCHANGED vars PROVE Calm
    BY <1>8 DEF vars, Calm
<1> QED
    BY <1>3, <1>4, <1>5, <1>6, <1>7, <1>8 DEF Next

\* A coroutine begins at the first step of its operation, with what it has just
\* read: a reserve keeps the cached row of its clan, a release the matching rows.
Fresh(q) ==
    \/ q.op = "reserve" /\ q.step = "count" /\ q.row = cache[q.clan]
    \/ q.op = "release" /\ q.step = "mark" /\ q.rows \subseteq ActiveIn(q.clan)
    \/ q.op = "setspots" /\ q.step = "aWrite"
    \/ q.op \in {"extend", "remind", "expire", "unlink"} /\ q.step \in {"date", "mark", "rPlan"}

LEMMA Beginnings ==
    ASSUME Begin
    PROVE  /\ \E f \in Flows : \E q : Start(f, q.op, q) /\ Fresh(q)
           /\ UNCHANGED <<ledger, sheet, cache, refresh, day, ghosts>>
<1>1. UNCHANGED <<ledger, sheet, cache, refresh, day, ghosts>>
    BY DEF Begin, ReserveStart, ReleaseStart, ExtendStart, SetSpots, ReminderStart,
       AutoreleaseStart, UnlinkStart
<1>2. Commands \subseteq Flows /\ Jobs \subseteq Flows
    BY DEF Flows
<1> DEFINE Goal == \E f \in Flows : \E q : Start(f, q.op, q) /\ Fresh(q)
<1>3. ASSUME NEW f \in Flows, NEW q, Start(f, q.op, q), Fresh(q) PROVE Goal
    BY <1>3
<1> HIDE DEF Goal
<1>4. ASSUME NEW f \in Commands, NEW u \in Recruits, NEW c \in Clans, ReserveStart(f, u, c)
      PROVE  Goal
    <2> DEFINE q == [Idle EXCEPT !.op = "reserve", !.step = "count",
                                 !.recruit = u, !.clan = c, !.row = cache[c]]
    <2>1. Start(f, "reserve", q)
        BY <1>4 DEF ReserveStart
    <2>2. Fresh(q) /\ q.op = "reserve"
        BY DEF Idle, Fresh
    <2> HIDE DEF q
    <2> QED
        BY <1>2, <1>3, <2>1, <2>2
<1>5. ASSUME NEW f \in Commands, NEW u \in Recruits, NEW c \in Clans, ReleaseStart(f, u, c)
      PROVE  Goal
    <2> DEFINE q == [Idle EXCEPT !.op = "release", !.step = "mark",
                                 !.recruit = u, !.clan = c,
                                 !.rows = Matches(u, c), !.clans = {c}]
    <2>1. Start(f, "release", q)
        BY <1>5 DEF ReleaseStart
    <2>2. Fresh(q) /\ q.op = "release"
        BY DEF Idle, Fresh, Matches
    <2> HIDE DEF q
    <2> QED
        BY <1>2, <1>3, <2>1, <2>2
<1>6. ASSUME NEW f \in Commands, NEW u \in Recruits, NEW c \in Clans, NEW d \in Dates,
             ExtendStart(f, u, c, d)
      PROVE  Goal
    <2> DEFINE q == [Idle EXCEPT !.op = "extend", !.step = "date",
                                 !.recruit = u, !.clan = c, !.until = d,
                                 !.rows = Matches(u, c)]
    <2>1. Start(f, "extend", q)
        BY <1>6 DEF ExtendStart
    <2>2. Fresh(q) /\ q.op = "extend"
        BY DEF Idle, Fresh
    <2> HIDE DEF q
    <2> QED
        BY <1>2, <1>3, <2>1, <2>2
<1>7. ASSUME NEW f \in Commands, NEW c \in Clans, NEW v \in 0..MaxSeats, SetSpots(f, c, v)
      PROVE  Goal
    <2> DEFINE q == [Idle EXCEPT !.op = "setspots", !.step = "aWrite", !.clan = c,
                                 !.row = Adjusted(cache[c], v - Base(cache[c]))]
    <2>1. Start(f, "setspots", q)
        BY <1>7 DEF SetSpots
    <2>2. Fresh(q) /\ q.op = "setspots"
        BY DEF Idle, Fresh
    <2> HIDE DEF q
    <2> QED
        BY <1>2, <1>3, <2>1, <2>2
<1>8. ASSUME ReminderStart PROVE Goal
    <2> DEFINE q == [Idle EXCEPT !.op = "remind", !.step = "rPlan",
                                 !.clans = {ledger[i].clan : i \in DueToday}]
    <2>1. Start("reminder", "remind", q)
        BY <1>8 DEF ReminderStart
    <2>2. Fresh(q) /\ q.op = "remind"
        BY DEF Idle, Fresh
    <2> HIDE DEF q
    <2> QED
        BY <1>2, <1>3, <2>1, <2>2 DEF Jobs
<1>9. ASSUME AutoreleaseStart PROVE Goal
    <2> DEFINE q == [Idle EXCEPT !.op = "expire", !.step = "mark", !.rows = Overdue,
                                 !.book = ledger]
    <2>1. Start("autorelease", "expire", q)
        BY <1>9 DEF AutoreleaseStart
    <2>2. Fresh(q) /\ q.op = "expire"
        BY DEF Idle, Fresh
    <2> HIDE DEF q
    <2> QED
        BY <1>2, <1>3, <2>1, <2>2 DEF Jobs
<1>10. ASSUME NEW u \in Recruits, UnlinkStart(u) PROVE Goal
    <2> DEFINE q == [Idle EXCEPT !.op = "unlink", !.step = "mark", !.rows = ActiveFor(u)]
    <2>1. Start("idlewatch", "unlink", q)
        BY <1>10 DEF UnlinkStart
    <2>2. Fresh(q) /\ q.op = "unlink"
        BY DEF Idle, Fresh
    <2> HIDE DEF q
    <2> QED
        BY <1>2, <1>3, <2>1, <2>2 DEF Jobs
<1>11. Goal
    BY <1>4, <1>5, <1>6, <1>7, <1>8, <1>9, <1>10 DEF Begin
<1> QED
    BY <1>1, <1>11 DEF Goal

-------------------------------------------------------------------------------
(* What a coroutine knows of its own errand.                                  *)

\* The steps of a recompute that has taken a clan, and those of an adjustment.
Planned   == {"rCount", "wOpen", "wSeen", "wCount", "patch"}
Adjusting == {"aPlan", "aWrite", "aPatch"}

\* Each step belongs to its operations, and a release still has to recompute the
\* clan of the rows it closes until it has taken that clan.
Tidy(r, rows) ==
    /\ r.op \in Ops \cup {"none"}
    /\ r.step \in Early => r.op = "reserve"
    /\ r.step = "date" => r.op = "extend"
    /\ r.step = "mark" => r.op \in {"release", "expire", "unlink"}
    /\ r.step \in Adjusting => r.op \in {"release", "setspots"}
    /\ r.step \in Early \cup {"idle", "date"} => r.clans = {}
    /\ r.op = "reserve" => r.clans = {} /\ r.step # "rCount"
    /\ r.op = "release" => r.clans = IF r.step \in Planned THEN {} ELSE {r.clan}
    /\ r.op = "release" /\ r.step = "mark" => \A i \in r.rows : rows[i].clan = r.clan

AllTidy == \A f \in Flows : Tidy(flow[f], ledger)

LEMMA IdleIsTidy == \A rows : Tidy(Idle, rows)
BY DEF Idle, Tidy, Early, Adjusting

LEMMA NextClanTidy ==
    ASSUME NEW r \in Coroutine, NEW rows, r.op \in Ops \cup {"none"},
           r.op = "reserve" => r.clans = {},
           r.op = "release" => r.clans \in {{}, {r.clan}}
    PROVE  Tidy(NextClan(r), rows)
<1>1. CASE r.clans = {}
    BY <1>1, IdleIsTidy DEF NextClan
<1>2. CASE r.clans # {}
    BY <1>2 DEF NextClan, Coroutine, Tidy, Early, Adjusting, Planned
<1> QED
    BY <1>1, <1>2

LEMMA NextRowTidy ==
    ASSUME NEW r \in Coroutine, NEW rows, Tidy(r, rows), r.step = "mark"
    PROVE  Tidy(NextRow(r), rows)
<1>1. CASE r.rows # {}
    BY <1>1 DEF NextRow
<1>2. CASE r.rows = {} /\ r.op = "release"
    BY <1>2 DEF NextRow, Coroutine, Tidy, Early, Adjusting, Planned
<1>3. CASE r.rows = {} /\ r.op # "release"
    <2>1. Tidy(NextClan(r), rows)
        BY <1>3, NextClanTidy DEF Tidy
    <2> QED
        BY <1>3, <2>1 DEF NextRow
<1> QED
    BY <1>1, <1>2, <1>3

\* A row of the ledger stays where it is and keeps its clan.
LEMMA RowsKeepClan ==
    ASSUME ledger \in Seq(Hold), [Book!Next]_ledger
    PROVE  \A i \in DOMAIN ledger : i \in DOMAIN ledger' /\ ledger'[i].clan = ledger[i].clan
<1>1. ASSUME NEW u \in Recruits, NEW c \in Clans, NEW d \in Dates, Book!Enter(u, c, d)
      PROVE  \A i \in DOMAIN ledger : i \in DOMAIN ledger' /\ ledger'[i] = ledger[i]
    BY <1>1 DEF Book!Enter
<1>2. ASSUME NEW i \in DOMAIN ledger, NEW s, Book!Close(i, s)
      PROVE  \A j \in DOMAIN ledger : j \in DOMAIN ledger' /\ ledger'[j].clan = ledger[j].clan
    BY <1>2 DEF Book!Close, Hold
<1>3. ASSUME NEW i \in DOMAIN ledger, NEW d, Book!Postpone(i, d)
      PROVE  \A j \in DOMAIN ledger : j \in DOMAIN ledger' /\ ledger'[j].clan = ledger[j].clan
    BY <1>3 DEF Book!Postpone, Hold
<1> QED
    BY <1>1, <1>2, <1>3 DEF Book!Next

\* One coroutine moves to a tidy state: all stay tidy.
LEMMA TidyFlows ==
    ASSUME Inv, AllTidy, [Next]_vars, NEW f \in Flows, NEW q, Tidy(q, ledger'),
           \A g \in Flows : flow'[g] = IF g = f THEN q ELSE flow[g]
    PROVE  AllTidy'
<1>1. ledger \in Seq(Hold) /\ [Book!Next]_ledger
    BY StepIsBook DEF Inv, TypeOK
<1>2. ASSUME NEW g \in Flows, g # f PROVE Tidy(flow[g], ledger')
    <2>1. Tidy(flow[g], ledger) /\ Fits(flow[g], Len(ledger))
        BY DEF AllTidy, Inv, AllFit
    <2>2. flow[g].step = "mark" => flow[g].rows \subseteq DOMAIN ledger
        BY <1>1, <2>1 DEF Fits
    <2> QED
        BY <1>1, <2>1, <2>2, RowsKeepClan DEF Tidy
<1> QED
    BY <1>2 DEF AllTidy

LEMMA BeginKeepsTidy ==
    ASSUME Inv, AllTidy, Begin
    PROVE  AllTidy'
<1>1. ASSUME NEW f \in Flows, NEW op, NEW q, Start(f, op, q), Tidy(q, ledger')
      PROVE  AllTidy'
    <2>1. flow \in [Flows -> Coroutine]
        BY DEF Inv, TypeOK
    <2>2. \A g \in Flows : flow'[g] = IF g = f THEN q ELSE flow[g]
        BY <1>1, <2>1 DEF Start
    <2> QED
        BY <1>1, <2>2, TidyFlows DEF Next
<1>2. Commands \subseteq Flows /\ Jobs \subseteq Flows
    BY DEF Flows
<1>3. ASSUME NEW f \in Commands, NEW u \in Recruits, NEW c \in Clans,
             ReserveStart(f, u, c)
      PROVE  AllTidy'
    <2> DEFINE q == [Idle EXCEPT !.op = "reserve", !.step = "count",
                                 !.recruit = u, !.clan = c, !.row = cache[c]]
    <2>1. Start(f, "reserve", q)
        BY <1>3 DEF ReserveStart
    <2>2. Tidy(q, ledger')
        BY <2>1 DEF Start, Idle, Tidy, Early, Adjusting
    <2> QED
        BY <1>1, <1>2, <2>1, <2>2
<1>4. ASSUME NEW f \in Commands, NEW u \in Recruits, NEW c \in Clans,
             ReleaseStart(f, u, c)
      PROVE  AllTidy'
    <2> DEFINE q == [Idle EXCEPT !.op = "release", !.step = "mark",
                                 !.recruit = u, !.clan = c,
                                 !.rows = Matches(u, c), !.clans = {c}]
    <2>1. Start(f, "release", q) /\ ledger' = ledger
        BY <1>4 DEF ReleaseStart
    <2>2. \A i \in Matches(u, c) : ledger[i].clan = c
        BY DEF Matches, ActiveIn
    <2>3. Tidy(q, ledger')
        BY <2>1, <2>2 DEF Start, Idle, Tidy, Early, Adjusting, Planned
    <2> QED
        BY <1>1, <1>2, <2>1, <2>3
<1>5. ASSUME NEW f \in Commands, NEW u \in Recruits, NEW c \in Clans, NEW d \in Dates,
             ExtendStart(f, u, c, d)
      PROVE  AllTidy'
    <2> DEFINE q == [Idle EXCEPT !.op = "extend", !.step = "date",
                                 !.recruit = u, !.clan = c, !.until = d,
                                 !.rows = Matches(u, c)]
    <2>1. Start(f, "extend", q)
        BY <1>5 DEF ExtendStart
    <2>2. Tidy(q, ledger')
        BY <2>1 DEF Start, Idle, Tidy, Early, Adjusting
    <2> QED
        BY <1>1, <1>2, <2>1, <2>2
<1>6. ASSUME NEW f \in Commands, NEW c \in Clans, NEW v \in 0..MaxSeats, SetSpots(f, c, v)
      PROVE  AllTidy'
    <2> DEFINE q == [Idle EXCEPT !.op = "setspots", !.step = "aWrite", !.clan = c,
                                 !.row = Adjusted(cache[c], v - Base(cache[c]))]
    <2>1. Start(f, "setspots", q)
        BY <1>6 DEF SetSpots
    <2>2. Tidy(q, ledger')
        BY <2>1 DEF Start, Idle, Tidy, Early, Adjusting
    <2> QED
        BY <1>1, <1>2, <2>1, <2>2
<1>7. CASE ReminderStart
    <2> DEFINE q == [Idle EXCEPT !.op = "remind", !.step = "rPlan",
                                 !.clans = {ledger[i].clan : i \in DueToday}]
    <2>1. Start("reminder", "remind", q)
        BY <1>7 DEF ReminderStart
    <2>2. Tidy(q, ledger')
        BY <2>1 DEF Start, Idle, Tidy, Early, Adjusting
    <2> QED
        BY <1>1, <1>2, <2>1, <2>2 DEF Jobs
<1>8. CASE AutoreleaseStart
    <2> DEFINE q == [Idle EXCEPT !.op = "expire", !.step = "mark", !.rows = Overdue,
                                 !.book = ledger]
    <2>1. Start("autorelease", "expire", q)
        BY <1>8 DEF AutoreleaseStart
    <2>2. Tidy(q, ledger')
        BY <2>1 DEF Start, Idle, Tidy, Early, Adjusting
    <2> QED
        BY <1>1, <1>2, <2>1, <2>2 DEF Jobs
<1>9. ASSUME NEW u \in Recruits, UnlinkStart(u)
      PROVE  AllTidy'
    <2> DEFINE q == [Idle EXCEPT !.op = "unlink", !.step = "mark", !.rows = ActiveFor(u)]
    <2>1. Start("idlewatch", "unlink", q)
        BY <1>9 DEF UnlinkStart
    <2>2. Tidy(q, ledger')
        BY <2>1 DEF Start, Idle, Tidy, Early, Adjusting
    <2> QED
        BY <1>1, <1>2, <2>1, <2>2 DEF Jobs
<1> QED
    BY <1>3, <1>4, <1>5, <1>6, <1>7, <1>8, <1>9 DEF Begin

LEMMA ProgressKeepsTidy ==
    ASSUME Inv, AllTidy, NEW f \in Flows, Progress(f)
    PROVE  AllTidy'
<1> DEFINE r == flow[f]
           q == flow'[f]
<1>1. flow \in [Flows -> Coroutine] /\ r \in Coroutine /\ Tidy(r, ledger)
    BY DEF Inv, TypeOK, AllTidy
<1>2. SUFFICES Tidy(q, ledger')
    <2>1. \A g \in Flows : flow'[g] = IF g = f THEN q ELSE flow[g]
        BY ProgressMovesOne
    <2> QED
        BY <2>1, TidyFlows DEF Next
<1>3. \A p : Goto(f, p) => q = p
    BY <1>1 DEF Goto
<1>4. CASE ReserveCount(f) \/ ReserveConfirm(f) \/ ReserveAbort(f) \/ ReserveCheck(f)
           \/ ReserveAppend(f) \/ ReserveAppendFail(f) \/ ExtendWrite(f) \/ ExtendFail(f)
    <2>1. \/ q = Idle
          \/ q = [r EXCEPT !.step = "talk", !.count = Cardinality(ActiveIn(r.clan))]
          \/ \E d : q = [r EXCEPT !.step = "check", !.until = d]
          \/ q = [r EXCEPT !.step = "append", !.book = ledger]
          \/ \E row : q = [r EXCEPT !.step = "wOpen", !.rows = {}, !.book = << >>,
                                    !.row = row]
          \/ \E mine : q = [r EXCEPT !.rows = mine]
        BY <1>3, <1>4 DEF ReserveCount, ReserveConfirm, ReserveAbort, ReserveCheck,
           ReserveAppend, ReserveAppendFail, ExtendWrite, ExtendFail
    <2>2. r.step \in Early \/ q = Idle
        BY <1>3, <1>4 DEF ReserveCount, ReserveConfirm, ReserveAbort, ReserveCheck,
           ReserveAppend, ReserveAppendFail, ExtendWrite, ExtendFail, Early
    <2>3. CASE r.step \in Early /\ q # Idle
        <3>1. r.op = "reserve" /\ r.clans = {} /\ r.op \in Ops \cup {"none"}
            BY <1>1, <2>3 DEF Tidy
        <3>2. q.op = r.op /\ q.clans = r.clans /\ q.step \in Early \cup {"wOpen"}
            BY <1>1, <2>1, <2>3 DEF Coroutine, Early
        <3> QED
            BY <3>1, <3>2 DEF Tidy, Early, Adjusting
    <2> QED
        BY <2>2, <2>3, IdleIsTidy
<1>5. CASE AdjustPlan(f) \/ AdjustWrite(f)
    <2>1. \/ \E row : q = [r EXCEPT !.step = "aWrite", !.row = row]
          \/ q = [r EXCEPT !.step = "aPatch"]
        BY <1>3, <1>5 DEF AdjustPlan, AdjustWrite
    <2>2. r.step \in Adjusting
        BY <1>5 DEF AdjustPlan, AdjustWrite, Adjusting
    <2> QED
        BY <1>1, <2>1, <2>2 DEF Tidy, Coroutine, Early, Adjusting, Planned
<1>6. CASE RecomputePlan(f)
    <2>1. PICK c \in r.clans : q = [r EXCEPT !.step = "rCount", !.clan = c,
                                             !.clans = @ \ {c}, !.row = cache[c]]
        BY <1>3, <1>6 DEF RecomputePlan
    <2>2. r.step = "rPlan"
        BY <1>6 DEF RecomputePlan
    <2> QED
        BY <1>1, <2>1, <2>2 DEF Tidy, Coroutine, Early, Adjusting, Planned
<1>7. CASE RecomputeCount(f) \/ WriteOpen(f) \/ WriteSeen(f) \/ WriteCount(f)
           \/ (RecomputeFail(f) /\ Goto(f, [r EXCEPT !.step = "wOpen"]))
    <2>1. \/ \E row : q = [r EXCEPT !.step = "wOpen", !.row = row]
          \/ \E s \in {"wOpen", "wSeen", "wCount", "patch"} : q = [r EXCEPT !.step = s]
        BY <1>3, <1>7 DEF RecomputeCount, WriteOpen, WriteSeen, WriteCount, WriteStep
    <2>2. r.step \in Planned
        BY <1>7 DEF RecomputeCount, WriteOpen, WriteSeen, WriteCount, WriteStep,
           RecomputeFail, Planned
    <2> QED
        BY <1>1, <2>1, <2>2 DEF Tidy, Coroutine, Early, Adjusting, Planned
<1>8. CASE AdjustPatch(f) \/ AdjustFail(f) \/ RecomputePatch(f)
           \/ (RecomputeFail(f) /\ Goto(f, NextClan(r)))
    <2>1. q = NextClan(r)
        BY <1>3, <1>8 DEF AdjustPatch, AdjustFail, RecomputePatch
    <2> QED
        BY <1>1, <2>1, NextClanTidy DEF Tidy
<1>9. CASE Mark(f) \/ MarkFail(f)
    <2> DEFINE i == First(r.rows)
               s == [r EXCEPT !.rows = @ \ {i}]
               t == [r EXCEPT !.rows = @ \ {i},
                              !.clans = IF r.op = "expire" THEN @ \cup {ledger[i].clan}
                                        ELSE @]
    <2>1. r.step = "mark" /\ ledger[i].clan \in Clans
        BY <1>9, NextRowExists, RowClanTyped DEF Mark, MarkFail, Inv, TypeOK
    <2>2. q \in {NextRow(s), NextRow(t), Idle}
        BY <1>3, <1>9 DEF Mark, MarkFail, Marked
    <2>3. s \in Coroutine /\ t \in Coroutine /\ s.step = "mark" /\ t.step = "mark"
        BY <1>1, <2>1 DEF Coroutine
    <2>4. \A j \in r.rows : ledger'[j].clan = ledger[j].clan
        <3>1. ledger \in Seq(Hold) /\ [Book!Next]_ledger
            BY ProgressIsBook DEF Inv, TypeOK
        <3>2. r.rows \subseteq DOMAIN ledger
            BY <2>1, <3>1 DEF Inv, AllFit, Fits
        <3> QED
            BY <3>1, <3>2, RowsKeepClan
    <2>5. Tidy(s, ledger') /\ Tidy(t, ledger')
        BY <1>1, <2>1, <2>4 DEF Tidy, Coroutine, Early, Adjusting, Planned
    <2> HIDE DEF s, t
    <2> QED
        BY <2>2, <2>3, <2>5, NextRowTidy, IdleIsTidy
<1> QED
    BY <1>4, <1>5, <1>6, <1>7, <1>8, <1>9 DEF Progress, RecomputeFail

LEMMA StepKeepsTidy ==
    ASSUME Inv, AllTidy, [Next]_vars
    PROVE  AllTidy'
<1>1. CASE World
    <2>1. UNCHANGED ledger /\ (UNCHANGED flow \/ flow' = [f \in Flows |-> Idle])
        BY <1>1 DEF World, RefreshRead, RefreshStore, ManualEdit, NextDay, Crash
    <2> QED
        BY <2>1, IdleIsTidy DEF AllTidy
<1>2. CASE UNCHANGED vars
    BY <1>2 DEF vars, AllTidy
<1> QED
    BY <1>1, <1>2, BeginKeepsTidy, ProgressKeepsTidy DEF Next
-------------------------------------------------------------------------------
(* Every change is recomputed.  A clan whose rows have changed is owed a      *)
(* recompute by some coroutine; the debt moves from the clans still to take   *)
(* to the clan in hand, and only the end of the recompute settles it.         *)

Owed(r) == r.clans \cup (IF r.step \in Planned THEN {r.clan} ELSE {})

Covered == Calm => \A c \in pending : \E f \in Flows : c \in Owed(flow[f])

DebtInv == Inv /\ AllTidy /\ Covered

LEMMA NextClanOwes ==
    ASSUME NEW r \in Coroutine
    PROVE  /\ Owed(NextClan(r)) = r.clans
           /\ r.step = "mark" => Owed(NextRow(r)) = r.clans
BY DEF NextClan, NextRow, Owed, Idle, Coroutine, Planned

LEMMA ProgressKeepsCovered ==
    ASSUME DebtInv, NEW f \in Flows, Progress(f), "unlink" \notin Ops, Calm'
    PROVE  \A c \in pending' : \E g \in Flows : c \in Owed(flow'[g])
<1> DEFINE r == flow[f]
           q == flow'[f]
<1>1. /\ Inv /\ AllTidy /\ Calm /\ Smooth(f)
      /\ \A c \in pending : \E g \in Flows : c \in Owed(flow[g])
      /\ flow \in [Flows -> Coroutine] /\ r \in Coroutine /\ Tidy(r, ledger)
    BY CalmBefore DEF Next, DebtInv, Inv, TypeOK, AllTidy, Covered
<1>2. SUFFICES \A c \in pending' : c \in Owed(q) \/ (c \in pending /\ c \notin Owed(r))
    BY <1>1, ProgressMovesOne
<1>3. \A p : Goto(f, p) => q = p
    BY <1>1 DEF Goto
<1>4. CASE ReserveCount(f) \/ ReserveConfirm(f) \/ ReserveAbort(f) \/ ReserveCheck(f)
           \/ ExtendWrite(f)
    <2>1. pending' = pending /\ r.step \in Early \cup {"date"}
        BY <1>4 DEF ReserveCount, ReserveConfirm, ReserveAbort, ReserveCheck,
           ExtendWrite, Early
    <2>2. Owed(r) = {}
        BY <1>1, <2>1 DEF Owed, Tidy, Early, Planned
    <2> QED
        BY <2>1, <2>2
<1>5. CASE ReserveAppend(f)
    <2>1. /\ pending' = pending \cup {r.clan} /\ r.step = "append"
          /\ \E row : q = [r EXCEPT !.step = "wOpen", !.rows = {}, !.book = << >>,
                                    !.row = row]
        BY <1>3, <1>5 DEF ReserveAppend, RowsChange
    <2>2. r.clan \in Owed(q)
        BY <1>1, <2>1 DEF Owed, Coroutine, Planned
    <2>3. Owed(r) = {}
        BY <1>1, <2>1 DEF Owed, Tidy, Early, Planned
    <2> QED
        BY <2>1, <2>2, <2>3
<1>6. CASE Mark(f)
    <2> DEFINE i == First(r.rows)
               t == [r EXCEPT !.rows = @ \ {i},
                              !.clans = IF r.op = "expire" THEN @ \cup {ledger[i].clan}
                                        ELSE @]
    <2>1. r.step = "mark" /\ pending' = pending \cup {ledger[i].clan} /\ q = NextRow(t)
        BY <1>3, <1>6 DEF Mark, Marked, RowsChange
    <2>2. i \in r.rows /\ ledger[i].clan \in Clans
        BY <1>1, <2>1, NextRowExists, RowClanTyped DEF Inv, TypeOK
    <2>3. t \in Coroutine /\ t.step = "mark"
        BY <1>1, <2>1, <2>2 DEF Coroutine
    <2>4. r.op \in {"release", "expire"}
        BY <1>1, <2>1 DEF Tidy
    <2>5. ledger[i].clan \in t.clans /\ r.clans \subseteq t.clans
        BY <1>1, <2>1, <2>2, <2>4 DEF Tidy, Coroutine, Planned
    <2>6. Owed(q) = t.clans /\ Owed(r) = r.clans
        <3> HIDE DEF t
        <3> QED
            BY <2>1, <2>3, NextClanOwes DEF Owed, Planned
    <2> QED
        BY <2>1, <2>5, <2>6
<1>7. CASE AdjustPlan(f) \/ AdjustWrite(f) \/ RecomputeCount(f) \/ WriteOpen(f)
           \/ WriteSeen(f) \/ WriteCount(f)
    <2>1. /\ pending' = pending
          /\ \/ \E row : q = [r EXCEPT !.step = "aWrite", !.row = row]
             \/ \E row : q = [r EXCEPT !.step = "wOpen", !.row = row]
             \/ \E s \in {"aPatch", "wSeen", "wCount", "patch"} : q = [r EXCEPT !.step = s]
        BY <1>3, <1>7 DEF AdjustPlan, AdjustWrite, RecomputeCount, WriteOpen,
           WriteSeen, WriteCount, WriteStep
    <2>2. q.clans = r.clans /\ q.clan = r.clan
        BY <1>1, <2>1 DEF Coroutine
    <2>3. q.step \in Planned \/ r.step \notin Planned
        BY <1>1, <1>3, <1>7 DEF AdjustPlan, AdjustWrite, RecomputeCount, WriteOpen,
           WriteSeen, WriteCount, WriteStep, Planned, Coroutine
    <2> QED
        BY <2>1, <2>2, <2>3 DEF Owed
<1>8. CASE AdjustPatch(f)
    <2>1. pending' = pending /\ q = NextClan(r) /\ r.step = "aPatch"
        BY <1>3, <1>8 DEF AdjustPatch
    <2> QED
        BY <1>1, <2>1, NextClanOwes DEF Owed, Planned
<1>9. CASE RecomputePlan(f)
    <2>1. PICK c \in r.clans : q = [r EXCEPT !.step = "rCount", !.clan = c,
                                             !.clans = @ \ {c}, !.row = cache[c]]
        BY <1>3, <1>9 DEF RecomputePlan
    <2>2. pending' = pending /\ r.step = "rPlan"
        BY <1>9 DEF RecomputePlan
    <2> QED
        BY <1>1, <2>1, <2>2 DEF Owed, Planned, Coroutine
<1>10. CASE RecomputePatch(f)
    <2>1. pending' = pending \ {r.clan} /\ q = NextClan(r)
        BY <1>3, <1>10 DEF RecomputePatch
    <2> QED
        BY <1>1, <2>1, NextClanOwes DEF Owed
<1> QED
    BY <1>1, <1>4, <1>5, <1>6, <1>7, <1>8, <1>9, <1>10 DEF Smooth

LEMMA StepKeepsDebt ==
    ASSUME DebtInv, [Next]_vars, "unlink" \notin Ops
    PROVE  DebtInv'
<1>1. Inv' /\ AllTidy' /\ flow \in [Flows -> Coroutine]
    BY StepKeepsInv, StepKeepsTidy DEF DebtInv, Inv, TypeOK
<1>2. SUFFICES ASSUME Calm'
               PROVE  \A c \in pending' : \E f \in Flows : c \in Owed(flow'[f])
    BY <1>1 DEF DebtInv, Covered
<1>3. Calm /\ ~Crash /\ \A c \in pending : \E f \in Flows : c \in Owed(flow[f])
    BY <1>2, CalmBefore DEF DebtInv, Covered
<1>4. CASE Begin
    <2>1. PICK f, op, q : Start(f, op, q)
        BY <1>4 DEF Begin, ReserveStart, ReleaseStart, ExtendStart, SetSpots,
           ReminderStart, AutoreleaseStart, UnlinkStart
    <2>2. pending' = pending
        BY <1>4 DEF Begin, ReserveStart, ReleaseStart, ExtendStart, SetSpots,
           ReminderStart, AutoreleaseStart, UnlinkStart
    <2>3. Owed(Idle) = {}
        BY DEF Owed, Idle, Planned
    <2>4. \A g \in Flows : Owed(flow[g]) # {} => flow'[g] = flow[g]
        BY <1>1, <2>1, <2>3 DEF Start
    <2> QED
        BY <1>3, <2>2, <2>4
<1>5. CASE World
    BY <1>3, <1>5 DEF World, RefreshRead, RefreshStore, ManualEdit, NextDay
<1>6. CASE UNCHANGED vars
    BY <1>3, <1>6 DEF vars
<1>7. CASE \E f \in Flows : Progress(f)
    BY <1>2, <1>7, ProgressKeepsCovered
<1> QED
    BY <1>4, <1>5, <1>6, <1>7 DEF Next

\* In the initial state nobody is on an errand.
LEMMA InitTidy == Init => Inv /\ AllTidy
BY InitInv, IdleIsTidy DEF Init, AllTidy

\* However many coroutines interleave: as long as no call fails and the bot is
\* not restarted, every change of a clan's rows is followed by a recompute of
\* that clan before the bot is at rest.  The idle watcher's unlink recomputes
\* nothing, so it is the exception.
THEOREM ChangesAreRecomputed ==
    ASSUME "unlink" \notin Ops
    PROVE  Spec => []EveryChangeRecomputed
<1>1. Init => DebtInv
    BY InitTidy DEF DebtInv, Covered, Init
<1>2. DebtInv /\ [Next]_vars => DebtInv'
    BY StepKeepsDebt
<1>3. DebtInv => EveryChangeRecomputed
    <2> SUFFICES ASSUME DebtInv, AtRest, Calm PROVE pending = {}
        BY DEF EveryChangeRecomputed
    <2>1. \A f \in Flows : flow[f].step = "idle"
        BY DEF AtRest, Busy
    <2>2. \A f \in Flows : Owed(flow[f]) = {}
        BY <2>1 DEF DebtInv, AllTidy, Tidy, Owed, Planned
    <2> QED
        BY <2>2 DEF DebtInv, Covered
<1> QED
    BY <1>1, <1>2, <1>3, PTL DEF Spec

-------------------------------------------------------------------------------
(* Early expiries.  The auto-release run lists the overdue rows first and     *)
(* closes them one by one; what it has listed was due when it read it.        *)

DueOK == flow["autorelease"].step = "mark" =>
             \A i \in flow["autorelease"].rows :
                 /\ flow["autorelease"].book[i].until \in Dates
                 /\ flow["autorelease"].book[i].until <= day

DueInv == Inv /\ DueOK

\* Only a mark gives a row that is there a status.
LEMMA OnlyMarksClose ==
    ASSUME Inv, NEW f \in Flows, Progress(f), NEW i \in DOMAIN ledger,
           ledger'[i].status # ledger[i].status
    PROVE  flow[f].step = "mark" /\ i = First(flow[f].rows)
<1>1. ledger \in Seq(Hold) /\ ledger[i] \in Hold
    BY DEF Inv, TypeOK
<1>2. ~UNCHANGED ledger
    OBVIOUS
<1>3. ~\E h : ledger' = Append(ledger, h)
    BY <1>1
<1>4. CASE Mark(f) \/ MarkFail(f)
    <2>1. flow[f].step = "mark" /\ First(flow[f].rows) \in DOMAIN ledger
        BY <1>4, NextRowExists DEF Mark, MarkFail
    <2>2. ASSUME NEW s, ledger' = [ledger EXCEPT ![First(flow[f].rows)].status = s]
          PROVE  i = First(flow[f].rows)
        BY <1>1, <2>2 DEF Hold
    <2> QED
        BY <1>2, <1>4, <2>1, <2>2 DEF Mark, MarkFail
<1>5. ~(ExtendWrite(f) \/ ExtendFail(f))
    <2>1. ASSUME NEW d, ledger' = [ledger EXCEPT ![First(flow[f].rows)].until = d]
          PROVE  FALSE
        BY <1>1, <2>1 DEF Hold
    <2> QED
        BY <1>2, <2>1 DEF ExtendWrite, ExtendFail
<1> QED
    BY <1>2, <1>3, <1>4, <1>5 DEF Progress, ReserveCount, ReserveConfirm,
       ReserveAbort, ReserveCheck, ReserveAppend, ReserveAppendFail, AdjustPlan,
       AdjustWrite, AdjustPatch, AdjustFail, RecomputePlan, RecomputeCount,
       WriteOpen, WriteSeen, WriteCount, WriteStep, RecomputePatch, RecomputeFail

\* A coroutine that has rows left to close had them before, from the same book.
LEMMA StillMarking ==
    ASSUME Inv, NEW f \in Flows, Progress(f), flow'[f].step = "mark"
    PROVE  /\ flow[f].step = "mark" /\ flow'[f].rows \subseteq flow[f].rows
           /\ flow'[f].book = flow[f].book
<1> DEFINE r == flow[f]
           q == flow'[f]
<1>1. flow \in [Flows -> Coroutine] /\ r \in Coroutine
    BY DEF Inv, TypeOK
<1>2. \A p : Goto(f, p) => q = p
    BY <1>1 DEF Goto
<1>3. NextClan(r).step # "mark" /\ Idle.step # "mark"
    BY <1>1 DEF NextClan, Idle, Coroutine
<1>4. CASE Mark(f) \/ MarkFail(f)
    <2> DEFINE i == First(r.rows)
               s == [r EXCEPT !.rows = @ \ {i}]
               t == [r EXCEPT !.rows = @ \ {i},
                              !.clans = IF r.op = "expire" THEN @ \cup {ledger[i].clan}
                                        ELSE @]
    <2>1. r.step = "mark" /\ ledger[i].clan \in Clans
        BY <1>4, NextRowExists, RowClanTyped DEF Mark, MarkFail, Inv, TypeOK
    <2>2. q \in {NextRow(s), NextRow(t), Idle}
        BY <1>2, <1>4 DEF Mark, MarkFail, Marked
    <2>3. s \in Coroutine /\ t \in Coroutine
        BY <1>1, <2>1 DEF Coroutine
    <2>4. /\ s.rows \subseteq r.rows /\ t.rows \subseteq r.rows
          /\ s.book = r.book /\ t.book = r.book
        BY <1>1 DEF Coroutine
    <2>5. \A p \in Coroutine : NextRow(p).step = "mark" => NextRow(p) = p
        BY DEF NextRow, NextClan, Coroutine, Idle
    <2> HIDE DEF s, t
    <2> QED
        BY <1>3, <2>1, <2>2, <2>3, <2>4, <2>5
<1>5. CASE ~(Mark(f) \/ MarkFail(f))
    <2>1. \/ q = Idle
          \/ q = NextClan(r)
          \/ \E s \in {"talk", "check", "append", "wOpen", "aWrite", "aPatch", "rCount",
                       "wSeen", "wCount", "patch"} : q.step = s
          \/ r.step = "append" /\ \E mine : q = [r EXCEPT !.rows = mine]
        BY <1>1, <1>2, <1>5 DEF Progress, ReserveCount, ReserveConfirm, ReserveAbort,
           ReserveCheck, ReserveAppend, ReserveAppendFail, ExtendWrite, ExtendFail,
           AdjustPlan, AdjustWrite, AdjustPatch, AdjustFail,
           RecomputePlan, RecomputeCount, WriteOpen, WriteSeen, WriteCount,
           WriteStep, RecomputePatch, RecomputeFail, Coroutine
    <2> QED
        BY <1>1, <1>3, <2>1 DEF Coroutine
<1> QED
    BY <1>4, <1>5

LEMMA StepKeepsDue ==
    ASSUME DueInv, [Next]_vars
    PROVE  DueInv'
<1> DEFINE a == "autorelease"
<1>1. /\ Inv /\ Inv' /\ flow \in [Flows -> Coroutine] /\ a \in Flows
      /\ ledger \in Seq(Hold) /\ day \in Nat /\ Dates \subseteq Nat
    BY StepKeepsInv, Bounds DEF DueInv, Inv, TypeOK, Jobs
<1>2. SUFFICES ASSUME flow'[a].step = "mark"
               PROVE  \A i \in flow'[a].rows : /\ flow'[a].book[i].until \in Dates
                                               /\ flow'[a].book[i].until <= day'
    BY <1>1 DEF DueInv, DueOK
<1>3. CASE Begin
    <2>1. PICK f, op, q : Start(f, op, q)
        BY <1>3 DEF Begin, ReserveStart, ReleaseStart, ExtendStart, SetSpots,
           ReminderStart, AutoreleaseStart, UnlinkStart
    <2>2. UNCHANGED <<ledger, day>>
        BY <1>3 DEF Begin, ReserveStart, ReleaseStart, ExtendStart, SetSpots,
           ReminderStart, AutoreleaseStart, UnlinkStart
    <2>3. CASE flow'[a] = flow[a]
        BY <1>2, <2>2, <2>3 DEF DueInv, DueOK
    <2>4. CASE flow'[a] # flow[a]
        <3>0. \A g, p, t : g # a => ~Start(g, p, t)
            BY <1>1, <2>4 DEF Start
        <3>1. AutoreleaseStart
            BY <1>3, <3>0, SeatAssumption DEF Begin, ReserveStart, ReleaseStart,
               ExtendStart, SetSpots, ReminderStart, UnlinkStart, Jobs
        <3>2. flow'[a].rows = Overdue /\ flow'[a].book = ledger
            BY <1>1, <3>1 DEF AutoreleaseStart, Start, Idle
        <3>3. \A i \in DOMAIN ledger : ledger[i] \in Hold
            BY <1>1
        <3>4. \A i \in Overdue : ledger[i].until \in Dates /\ ledger[i].until <= day
            BY <3>3 DEF Overdue, Active, Hold
        <3> QED
            BY <2>2, <3>2, <3>4
    <2> QED
        BY <2>3, <2>4
<1>4. CASE World
    <2>1. day <= day' /\ day' \in Nat
        BY <1>1, <1>4 DEF World, RefreshRead, RefreshStore, ManualEdit, NextDay, Crash
    <2>2. flow' = flow
        BY <1>1, <1>2, <1>4 DEF World, RefreshRead, RefreshStore, ManualEdit, NextDay,
           Crash, Idle
    <2>3. \A i \in flow[a].rows : /\ flow[a].book[i].until \in Dates
                                 /\ flow[a].book[i].until <= day
        BY <1>2, <2>2 DEF DueInv, DueOK
    <2>4. \A n \in Dates : n <= day => n <= day'
        BY <1>1, <2>1
    <2> HIDE DEF a
    <2> QED
        BY <2>2, <2>3, <2>4
<1>5. ASSUME NEW f \in Flows, Progress(f)
      PROVE  \A i \in flow'[a].rows : /\ flow'[a].book[i].until \in Dates
                                      /\ flow'[a].book[i].until <= day'
    <2>1. /\ flow[a].step = "mark" /\ flow'[a].rows \subseteq flow[a].rows
          /\ flow'[a].book = flow[a].book /\ day' = day
        BY <1>1, <1>2, <1>5, ProgressMovesOne, StillMarking
    <2> QED
        BY <2>1 DEF DueInv, DueOK
<1>6. CASE UNCHANGED vars
    BY <1>2, <1>6 DEF vars, DueInv, DueOK
<1> QED
    BY <1>3, <1>4, <1>5, <1>6 DEF Next

\* Whatever interleaves, fails or restarts, the auto-release job expires a hold
\* before its day only if that day was moved after the job had listed the row.
THEOREM EarlyExpiriesAreRaces == Spec => EarlyExpiryUnseen
<1>1. Init => DueInv
    BY InitInv DEF DueInv, Init, DueOK, Idle, Flows, Jobs
<1>2. DueInv /\ [Next]_vars => DueInv'
    BY StepKeepsDue
<1>3. DueInv /\ [Next]_vars =>
          [\A i \in Active :
              /\ flow["autorelease"] # flow'["autorelease"]
              /\ ledger'[i].status = "expired"
              => \/ ledger[i].until <= day
                 \/ ledger[i].until # flow["autorelease"].book[i].until]_vars
    <2> SUFFICES ASSUME DueInv, Next, NEW i \in Active,
                        flow["autorelease"] # flow'["autorelease"],
                        ledger'[i].status = "expired"
                 PROVE  \/ ledger[i].until <= day
                        \/ ledger[i].until # flow["autorelease"].book[i].until
        OBVIOUS
    <2>1. i \in DOMAIN ledger /\ ledger[i].status # ledger'[i].status
        BY DEF Active
    <2>2. PICK f \in Flows : Progress(f)
        BY <2>1 DEF Next, Begin, World, ReserveStart, ReleaseStart, ExtendStart,
           SetSpots, ReminderStart, AutoreleaseStart, UnlinkStart, RefreshRead,
           RefreshStore, ManualEdit, NextDay, Crash
    <2>3. f = "autorelease"
        BY <2>2, ProgressMovesOne DEF DueInv, Flows, Jobs
    <2>4. flow[f].step = "mark" /\ i = First(flow[f].rows)
        BY <2>1, <2>2, OnlyMarksClose DEF DueInv
    <2>5. i \in flow[f].rows
        BY <2>4, NextRowExists DEF DueInv
    <2> QED
        BY <2>3, <2>4, <2>5 DEF DueInv, DueOK
<1> QED
    BY <1>1, <1>2, <1>3, PTL DEF Spec, EarlyExpiryUnseen

-------------------------------------------------------------------------------
(* Counts agree.  What a coroutine has counted is right until the ledger      *)
(* changes behind it; AH is right once such a count is written, and the end   *)
(* of a recompute finds it right or written over from an overtaken count.     *)

Held(c) == Cardinality(ActiveIn(c))

CountRight(g) ==
    LET r == flow[g] IN
    g \notin behind =>
        /\ r.step \in {"talk", "check", "append"} => r.count = Held(r.clan)
        /\ r.step \in {"wOpen", "wSeen", "wCount", "patch"} => r.row.count = Held(r.clan)
        /\ r.step = "patch" =>
               sheet[r.clan].count = Held(r.clan) \/ r.clan \in stale

ClansRight == \A c \in Clans \ (pending \cup stale) : sheet[c].count = Held(c)

CountOK == ClansRight /\ \A g \in Flows : CountRight(g)

CountInv == Inv /\ AllTidy /\ CountOK

LEMMA ActiveFinite ==
    ASSUME ledger \in Seq(Hold)
    PROVE  \A c : IsFiniteSet(ActiveIn(c)) /\ Held(c) \in Nat
<1>1. Len(ledger) \in Nat /\ DOMAIN ledger = 1..Len(ledger)
    OBVIOUS
<1>2. IsFiniteSet(1..Len(ledger))
    BY <1>1, FS_Interval
<1>3. \A c : ActiveIn(c) \subseteq 1..Len(ledger)
    BY <1>1 DEF ActiveIn, Active
<1> QED
    BY <1>2, <1>3, FS_Subset, FS_CardinalityType DEF Held

\* A new row counts in its clan and nowhere else.
LEMMA AppendCounts ==
    ASSUME ledger \in Seq(Hold), NEW h \in Hold, h.status = "active",
           ledger' = Append(ledger, h)
    PROVE  /\ Held(h.clan)' = Held(h.clan) + 1
           /\ \A c : c # h.clan => Held(c)' = Held(c)
<1> DEFINE n == Len(ledger) + 1
<1>1. /\ Len(ledger) \in Nat /\ DOMAIN ledger = 1..Len(ledger)
      /\ DOMAIN ledger' = 1..n /\ ledger'[n] = h
      /\ \A i \in 1..Len(ledger) : ledger'[i] = ledger[i]
    BY AppendProperties
<1>2. n \notin DOMAIN ledger /\ DOMAIN ledger' = DOMAIN ledger \cup {n}
    BY <1>1
<1>3. \A c : ActiveIn(c)' = IF c = h.clan THEN ActiveIn(c) \cup {n} ELSE ActiveIn(c)
    BY <1>1, <1>2 DEF ActiveIn, Active
<1>4. n \notin ActiveIn(h.clan)
    BY <1>2 DEF ActiveIn, Active
<1>5. IsFiniteSet(ActiveIn(h.clan))
    BY ActiveFinite
<1> QED
    BY <1>3, <1>4, <1>5, FS_AddElement DEF Held

\* A status that is written takes the row out of the count of its clan only.
LEMMA CloseCounts ==
    ASSUME ledger \in Seq(Hold), NEW i \in DOMAIN ledger, NEW s, s # "active",
           ledger' = [ledger EXCEPT ![i].status = s]
    PROVE  \A c : /\ Held(c)' = IF i \in ActiveIn(c) THEN Held(c) - 1 ELSE Held(c)
                  /\ ActiveIn(c)' = ActiveIn(c) \ {i}
                  /\ c # ledger[i].clan => Held(c)' = Held(c)
<1>1. /\ Len(ledger) \in Nat /\ DOMAIN ledger = 1..Len(ledger)
      /\ DOMAIN ledger' = DOMAIN ledger
      /\ \A j \in DOMAIN ledger : ledger[j] \in Hold
    OBVIOUS
<1>2. /\ ledger'[i].status = s /\ ledger'[i].clan = ledger[i].clan
      /\ \A j \in DOMAIN ledger : j # i => ledger'[j] = ledger[j]
    BY <1>1 DEF Hold
<1>3. \A c : ActiveIn(c)' = ActiveIn(c) \ {i}
    BY <1>1, <1>2 DEF ActiveIn, Active
<1>4. \A c : IsFiniteSet(ActiveIn(c))
    BY ActiveFinite
<1>5. \A c : c # ledger[i].clan => i \notin ActiveIn(c)
    BY DEF ActiveIn
<1> QED
    BY <1>3, <1>4, <1>5, FS_RemoveElement DEF Held

\* A day that is written counts nothing.
LEMMA PostponeCounts ==
    ASSUME ledger \in Seq(Hold), NEW i \in DOMAIN ledger, NEW d,
           ledger' = [ledger EXCEPT ![i].until = d]
    PROVE  \A c : ActiveIn(c)' = ActiveIn(c) /\ Held(c)' = Held(c)
<1>1. DOMAIN ledger' = DOMAIN ledger /\ \A j \in DOMAIN ledger : ledger[j] \in Hold
    OBVIOUS
<1>2. \A j \in DOMAIN ledger : /\ ledger'[j].status = ledger[j].status
                               /\ ledger'[j].clan = ledger[j].clan
    BY <1>1 DEF Hold
<1>3. \A c : ActiveIn(c)' = ActiveIn(c)
    BY <1>1, <1>2 DEF ActiveIn, Active
<1> QED
    BY <1>3 DEF Held

\* The steps at which a coroutine has nothing counted.
Uncounted == {"idle", "count", "date", "mark", "rPlan", "rCount"} \cup Adjusting

LEMMA NextIsUncounted ==
    ASSUME NEW r \in Coroutine
    PROVE  /\ Idle.step \in Uncounted /\ NextClan(r).step \in Uncounted
           /\ r.step = "mark" => NextRow(r).step \in Uncounted
BY DEF NextClan, NextRow, Idle, Coroutine, Uncounted, Adjusting

LEMMA UncountedIsRight ==
    ASSUME NEW f \in Flows, flow'[f].step \in Uncounted
    PROVE  CountRight(f)'
BY DEF CountRight, Uncounted, Adjusting

\* What a step of f does to the counts: nothing, rows of clan c come or go, AH
\* is written, or the recompute ends.
Quiet(f) ==
    /\ \A c : Held(c)' = Held(c)
    /\ \A c \in Clans : sheet'[c].count = sheet[c].count
    /\ UNCHANGED <<pending, stale>>
    /\ behind \ {f} \subseteq behind'

RowsMove(f, c) ==
    /\ \A d : d # c => Held(d)' = Held(d)
    /\ UNCHANGED <<sheet, stale>>
    /\ pending' = pending \cup {c}
    /\ behind \subseteq behind' /\ Counters(c) \ {f} \subseteq behind'

CountWrite(f) ==
    LET r == flow[f] IN
    /\ r.step = "wCount" /\ r.clan \in Clans
    /\ \A c : Held(c)' = Held(c)
    /\ \A c \in Clans :
           sheet'[c].count = IF c = r.clan THEN r.row.count ELSE sheet[c].count
    /\ UNCHANGED <<pending, behind>>
    /\ IF f \in behind THEN stale' = stale \cup {r.clan}
       ELSE stale' = stale \/ stale' = stale \ {r.clan}

Ended(f) ==
    LET r == flow[f] IN
    /\ r.step = "patch" /\ r.clan \in Clans
    /\ \A c : Held(c)' = Held(c)
    /\ UNCHANGED sheet
    /\ pending' = pending \ {r.clan}
    /\ behind' = behind \ {f}
    /\ stale' = IF f \in behind THEN stale \cup {r.clan} ELSE stale

\* Whichever it is, the clans and the other coroutines stay right.
LEMMA OthersStayRight ==
    ASSUME Inv, CountOK, NEW f \in Flows,
           \A g \in Flows : g # f => flow'[g] = flow[g],
           \/ Quiet(f) \/ (\E c : RowsMove(f, c)) \/ CountWrite(f) \/ Ended(f)
    PROVE  ClansRight' /\ \A g \in Flows : g # f => CountRight(g)'
<1>1. ASSUME NEW g \in Flows PROVE flow[g].step = "patch" => flow[g].clan \in Clans
    BY DEF Inv, AllFit, Fits
<1>2. CASE Quiet(f)
    BY <1>1, <1>2 DEF CountOK, ClansRight, CountRight, Quiet
<1>3. ASSUME NEW c, RowsMove(f, c)
      PROVE  ClansRight' /\ \A g \in Flows : g # f => CountRight(g)'
    <2>1. ClansRight'
        BY <1>3 DEF CountOK, ClansRight, RowsMove
    <2>2. ASSUME NEW g \in Flows, g # f, g \notin behind' PROVE CountRight(g)'
        <3>1. flow'[g] = flow[g] /\ g \notin behind /\ g \notin Counters(c)
            BY <1>3, <2>2 DEF RowsMove
        <3>2. CASE flow[g].clan = c
            BY <3>1, <3>2 DEF Counters, Counted, CountRight
        <3>3. CASE flow[g].clan # c
            BY <1>3, <3>1, <3>3 DEF CountOK, CountRight, RowsMove
        <3> QED
            BY <3>2, <3>3
    <2>3. \A g \in Flows : g \in behind' => CountRight(g)'
        BY DEF CountRight
    <2> QED
        BY <2>1, <2>2, <2>3
<1>4. CASE CountWrite(f)
    <2>1. f \notin behind => flow[f].row.count = Held(flow[f].clan)
        BY <1>4 DEF CountOK, CountRight, CountWrite
    <2>2. ClansRight'
        BY <1>4, <2>1 DEF CountOK, ClansRight, CountWrite
    <2>3. ASSUME NEW g \in Flows, g # f PROVE CountRight(g)'
        <3>1. flow'[g] = flow[g] /\ CountRight(g)
            BY <2>3 DEF CountOK
        <3>2. CASE flow[g].clan = flow[f].clan
            BY <1>4, <2>1, <3>1, <3>2 DEF CountRight, CountWrite
        <3>3. CASE flow[g].clan # flow[f].clan
            BY <1>1, <1>4, <3>1, <3>3 DEF CountRight, CountWrite
        <3> QED
            BY <3>2, <3>3
    <2> QED
        BY <2>2, <2>3
<1>5. CASE Ended(f)
    <2>1. f \notin behind => \/ sheet[flow[f].clan].count = Held(flow[f].clan)
                             \/ flow[f].clan \in stale
        BY <1>5 DEF CountOK, CountRight, Ended
    <2>2. ClansRight'
        BY <1>5, <2>1 DEF CountOK, ClansRight, Ended
    <2>3. ASSUME NEW g \in Flows, g # f PROVE CountRight(g)'
        BY <1>5, <2>3 DEF CountOK, CountRight, Ended
    <2> QED
        BY <2>2, <2>3
<1> QED
    BY <1>2, <1>3, <1>4, <1>5

LEMMA ProgressKeepsCount ==
    ASSUME CountInv, NEW f \in Flows, Progress(f)
    PROVE  CountOK'
<1> DEFINE r == flow[f]
           q == flow'[f]
           Effect == Quiet(f) \/ (\E c : RowsMove(f, c)) \/ CountWrite(f) \/ Ended(f)
<1>1. /\ Inv /\ CountRight(f)
      /\ flow \in [Flows -> Coroutine] /\ r \in Coroutine /\ Tidy(r, ledger)
      /\ ledger \in Seq(Hold) /\ sheet \in [Clans -> Cells] /\ r.row \in Cells
    BY DEF CountInv, CountOK, Inv, TypeOK, AllTidy, Coroutine
<1>2. r.step \in {"append", "wOpen", "wSeen", "wCount", "patch"} => r.clan \in Clans
    BY <1>1 DEF Inv, AllFit, Fits
<1>3. SUFFICES Effect /\ CountRight(f)'
    BY ProgressMovesOne, OthersStayRight DEF CountInv, CountOK
<1>4. \A p : Goto(f, p) => q = p
    BY <1>1 DEF Goto
<1>5. UNCHANGED ledger => \A c : Held(c)' = Held(c)
    BY DEF Held, ActiveIn, Active
<1>6. q \in {Idle, NextClan(r)} => CountRight(f)'
    BY <1>1, NextIsUncounted, UncountedIsRight
<1>7. CASE ReserveCount(f) \/ RecomputeCount(f)
    <2>1. Quiet(f)
        BY <1>5, <1>7 DEF ReserveCount, RecomputeCount, Quiet
    <2>2. \/ q = [r EXCEPT !.step = "talk", !.count = Held(r.clan)]
          \/ q = [r EXCEPT !.step = "wOpen", !.row = Recomputed(r.row, Held(r.clan))]
        BY <1>4, <1>7 DEF ReserveCount, RecomputeCount, Held
    <2>3. Recomputed(r.row, Held(r.clan)).count = Held(r.clan)
        BY <1>1 DEF Recomputed, Cells
    <2>4. /\ q.clan = r.clan
          /\ \/ q.step = "talk" /\ q.count = Held(r.clan)
             \/ q.step = "wOpen" /\ q.row.count = Held(r.clan)
        BY <1>1, <2>2, <2>3 DEF Coroutine
    <2>5. CountRight(f)'
        BY <2>1, <2>4 DEF CountRight, Quiet
    <2> QED
        BY <2>1, <2>5
<1>8. CASE ReserveConfirm(f) \/ ReserveAbort(f) \/ ReserveCheck(f)
    <2>1. Quiet(f) /\ behind' = behind
        BY <1>5, <1>8 DEF ReserveConfirm, ReserveAbort, ReserveCheck, Quiet
    <2>2. \/ q = Idle
          \/ r.step = "talk" /\ \E d : q = [r EXCEPT !.step = "check", !.until = d]
          \/ r.step = "check" /\ q = [r EXCEPT !.step = "append", !.book = ledger]
        BY <1>4, <1>8 DEF ReserveConfirm, ReserveAbort, ReserveCheck
    <2>3. \/ q = Idle
          \/ /\ q.clan = r.clan /\ q.count = r.count
             /\ r.step \in {"talk", "check"} /\ q.step \in {"check", "append"}
        BY <1>1, <2>2 DEF Coroutine
    <2>4. CountRight(f)'
        BY <1>1, <1>6, <2>1, <2>3 DEF CountRight, Quiet
    <2> QED
        BY <2>1, <2>4
<1>9. CASE AdjustPlan(f) \/ RecomputePlan(f)
    <2>1. Quiet(f)
        BY <1>5, <1>9 DEF AdjustPlan, RecomputePlan, Quiet
    <2>2. q.step \in {"aWrite", "rCount"}
        BY <1>1, <1>4, <1>9 DEF AdjustPlan, RecomputePlan, Coroutine
    <2>3. CountRight(f)'
        BY <2>2, UncountedIsRight DEF Uncounted, Adjusting
    <2> QED
        BY <2>1, <2>3
<1>10. ASSUME NEW k, k = r.clan, r.step = "append", ledger' = Append(ledger, NewHold(r))
       PROVE  /\ k \in Clans /\ Held(k)' = Held(k) + 1
              /\ \A c : c # k => Held(c)' = Held(c)
    <2>1. PICK h : h = NewHold(r)
        OBVIOUS
    <2>2. h \in Hold /\ h.status = "active" /\ h.clan = k /\ k \in Clans
        BY <1>1, <1>10, <2>1 DEF NewHold, Inv, AllFit, Fits, Hold, Statuses, Coroutine
    <2>3. ledger' = Append(ledger, h)
        BY <1>10, <2>1
    <2> QED
        BY <1>1, <2>2, <2>3, AppendCounts
<1>11. CASE ReserveAppend(f)
    <2>1. /\ ledger' = Append(ledger, NewHold(r)) /\ r.step = "append"
          /\ RowsChange(r.clan, {f}) /\ UNCHANGED <<sheet, stale>>
          /\ q = [r EXCEPT !.step = "wOpen", !.rows = {}, !.book = << >>,
                           !.row = Recomputed(@, r.count + 1)]
        BY <1>4, <1>11 DEF ReserveAppend
    <2> PICK k : k = r.clan
        OBVIOUS
    <2>2. k \in Clans /\ RowsMove(f, k) /\ Held(k)' = Held(k) + 1
        BY <1>10, <2>1 DEF RowsMove, RowsChange
    <2>3. Recomputed(r.row, r.count + 1).count = r.count + 1
        BY <1>1 DEF Recomputed, Cells
    <2>4. q.clan = k /\ q.step = "wOpen" /\ q.row.count = r.count + 1
        BY <1>1, <2>1, <2>3 DEF Coroutine
    <2>5. CountRight(f)'
        BY <1>1, <2>1, <2>2, <2>4 DEF CountRight, RowsMove
    <2> QED
        BY <2>2, <2>5
<1>12. CASE ReserveAppendFail(f)
    <2>1. /\ r.step = "append" /\ UNCHANGED <<sheet, stale>>
          /\ q = Idle \/ \E mine : q = [r EXCEPT !.rows = mine]
          /\ \/ UNCHANGED <<ledger, pending, behind>>
             \/ ledger' = Append(ledger, NewHold(r)) /\ RowsChange(r.clan, {})
        BY <1>4, <1>12 DEF ReserveAppendFail
    <2>2. \/ q = Idle
          \/ q.clan = r.clan /\ q.step = "append" /\ q.count = r.count
        BY <1>1, <2>1 DEF Coroutine
    <2>3. CASE UNCHANGED <<ledger, pending, behind>>
        <3>1. Quiet(f)
            BY <1>5, <2>1, <2>3 DEF Quiet
        <3>2. CountRight(f)'
            BY <1>1, <1>6, <2>1, <2>2, <2>3, <3>1 DEF CountRight, Quiet
        <3> QED
            BY <3>1, <3>2
    <2>4. CASE ledger' = Append(ledger, NewHold(r)) /\ RowsChange(r.clan, {})
        <3> PICK k : k = r.clan
            OBVIOUS
        <3>1. RowsMove(f, k)
            BY <1>10, <2>1, <2>4 DEF RowsMove, RowsChange
        <3>2. f \in behind'
            BY <2>1, <2>4 DEF RowsChange, Counters, Counted
        <3>3. CountRight(f)'
            BY <3>2 DEF CountRight
        <3> QED
            BY <3>1, <3>3
    <2> QED
        BY <2>1, <2>3, <2>4
<1>13. CASE Mark(f) \/ MarkFail(f)
    <2> DEFINE i == First(r.rows)
               s == [r EXCEPT !.rows = @ \ {i}]
               t == [r EXCEPT !.rows = @ \ {i},
                              !.clans = IF r.op = "expire" THEN @ \cup {ledger[i].clan}
                                        ELSE @]
    <2>1. /\ r.step = "mark" /\ UNCHANGED <<sheet, stale>>
          /\ q \in {NextRow(s), NextRow(t), Idle}
          /\ \/ UNCHANGED <<ledger, pending, behind>>
             \/ /\ ledger' = [ledger EXCEPT ![i].status = Verdict(r.op)]
                /\ RowsChange(ledger[i].clan, {})
        BY <1>4, <1>13 DEF Mark, MarkFail, Marked
    <2>2. i \in DOMAIN ledger /\ ledger[i].clan \in Clans /\ Verdict(r.op) # "active"
        BY <1>1, <2>1, NextRowExists, RowClanTyped DEF Verdict
    <2>3. s \in Coroutine /\ t \in Coroutine /\ s.step = "mark" /\ t.step = "mark"
        BY <1>1, <2>1, <2>2 DEF Coroutine
    <2>4. q.step \in Uncounted
        <3> HIDE DEF s, t
        <3> QED
            BY <1>1, <2>1, <2>3, NextIsUncounted
    <2>5. CountRight(f)'
        BY <2>4, UncountedIsRight
    <2>6. CASE UNCHANGED <<ledger, pending, behind>>
        BY <1>5, <2>1, <2>5, <2>6 DEF Quiet
    <2>7. CASE /\ ledger' = [ledger EXCEPT ![i].status = Verdict(r.op)]
               /\ RowsChange(ledger[i].clan, {})
        <3>1. \A c : c # ledger[i].clan => Held(c)' = Held(c)
            BY <1>1, <2>2, <2>7, CloseCounts
        <3>2. RowsMove(f, ledger[i].clan)
            BY <2>1, <2>7, <3>1 DEF RowsMove, RowsChange
        <3> QED
            BY <2>5, <3>2
    <2> QED
        BY <2>1, <2>6, <2>7
<1>14. CASE ExtendWrite(f) \/ ExtendFail(f)
    <2>1. /\ r.step = "date" /\ UNCHANGED <<sheet, pending, behind, stale>> /\ q = Idle
          /\ \/ UNCHANGED ledger
             \/ ledger' = [ledger EXCEPT ![First(r.rows)].until = r.until]
        BY <1>4, <1>14 DEF ExtendWrite, ExtendFail
    <2>2. First(r.rows) \in DOMAIN ledger
        BY <1>1, <2>1, NextRowExists
    <2>3. \A c : Held(c)' = Held(c)
        BY <1>1, <1>5, <2>1, <2>2, PostponeCounts
    <2> QED
        BY <1>6, <2>1, <2>3 DEF Quiet
<1>15. CASE AdjustWrite(f) \/ AdjustPatch(f) \/ AdjustFail(f)
    <2>1. /\ UNCHANGED <<ledger, pending, behind, stale>>
          /\ sheet' = sheet \/ sheet' = [sheet EXCEPT ![r.clan] = Adjustment(@, r.row)]
          /\ q = NextClan(r) \/ q = [r EXCEPT !.step = "aPatch"]
        BY <1>4, <1>15 DEF AdjustWrite, AdjustPatch, AdjustFail
    <2>2. \A c \in Clans : sheet'[c].count = sheet[c].count
        <3>1. CASE sheet' = sheet
            BY <3>1
        <3>2. CASE sheet' = [sheet EXCEPT ![r.clan] = Adjustment(@, r.row)]
            BY <1>1, <3>2 DEF Adjustment, Cells
        <3> QED
            BY <2>1, <3>1, <3>2
    <2>3. CountRight(f)'
        <3>1. CASE q = NextClan(r)
            BY <1>6, <3>1
        <3>2. CASE q = [r EXCEPT !.step = "aPatch"]
            <4>1. q.step \in Uncounted
                BY <1>1, <3>2 DEF Coroutine, Uncounted, Adjusting
            <4> QED
                BY <4>1, UncountedIsRight
        <3> QED
            BY <2>1, <3>1, <3>2
    <2> QED
        BY <1>5, <2>1, <2>2, <2>3 DEF Quiet
<1>16. CASE WriteOpen(f) \/ WriteSeen(f)
    <2>1. /\ UNCHANGED <<ledger, pending, behind, stale>> /\ r.step \in {"wOpen", "wSeen"}
          /\ sheet' = [sheet EXCEPT ![r.clan] = Written(r.step, @, r.row)]
          /\ \E s \in {"wSeen", "wCount"} : q = [r EXCEPT !.step = s]
        BY <1>4, <1>16 DEF WriteOpen, WriteSeen, WriteStep
    <2>2. \A c \in Clans : sheet'[c].count = sheet[c].count
        BY <1>1, <2>1 DEF Written, Cells
    <2>3. q.clan = r.clan /\ q.row = r.row /\ q.step \in {"wSeen", "wCount"}
        BY <1>1, <2>1 DEF Coroutine
    <2>4. CountRight(f)'
        BY <1>1, <1>5, <2>1, <2>3 DEF CountRight
    <2> QED
        BY <1>5, <2>1, <2>2, <2>4 DEF Quiet
<1>17. ASSUME r.step = "wCount",
              sheet' = [sheet EXCEPT ![r.clan] = Written("wCount", @, r.row)]
       PROVE  \A c \in Clans :
                  sheet'[c].count = IF c = r.clan THEN r.row.count ELSE sheet[c].count
    BY <1>1, <1>17 DEF Written, Cells
<1>18. CASE WriteCount(f)
    <2>1. /\ UNCHANGED <<ledger, pending, behind>> /\ r.step = "wCount"
          /\ sheet' = [sheet EXCEPT ![r.clan] = Written("wCount", @, r.row)]
          /\ stale' = IF f \in behind THEN stale \cup {r.clan} ELSE stale \ {r.clan}
          /\ q = [r EXCEPT !.step = "patch"]
        BY <1>4, <1>18 DEF WriteCount, WriteStep, Overtaken
    <2>2. CountWrite(f)
        BY <1>2, <1>5, <1>17, <2>1 DEF CountWrite
    <2>3. q.clan = r.clan /\ q.row = r.row /\ q.step = "patch"
        BY <1>1, <2>1 DEF Coroutine
    <2>4. CountRight(f)'
        BY <1>1, <2>1, <2>2, <2>3 DEF CountRight, CountWrite
    <2> QED
        BY <2>2, <2>4
<1>19. CASE RecomputePatch(f)
    <2>1. /\ UNCHANGED <<ledger, sheet>> /\ q = NextClan(r) /\ r.step = "patch"
          /\ pending' = pending \ {r.clan} /\ behind' = behind \ {f}
          /\ stale' = IF f \in behind THEN stale \cup {r.clan} ELSE stale
        BY <1>4, <1>19 DEF RecomputePatch, Overtaken
    <2>2. Ended(f)
        BY <1>2, <1>5, <2>1 DEF Ended
    <2> QED
        BY <1>6, <2>1, <2>2
<1>20. CASE RecomputeFail(f)
    <2>1. /\ UNCHANGED <<ledger, pending, behind>>
          /\ r.step \in {"rCount", "wOpen", "wSeen", "wCount", "patch"}
          /\ \/ UNCHANGED <<sheet, stale>>
             \/ /\ sheet' = [sheet EXCEPT ![r.clan] = Written(r.step, @, r.row)]
                /\ stale' = IF r.step = "wCount" /\ f \in behind
                            THEN stale \cup {r.clan} ELSE stale
          /\ \/ q = NextClan(r)
             \/ r.op = "reserve" /\ q = [r EXCEPT !.step = "wOpen"]
        BY <1>4, <1>20 DEF RecomputeFail, Overtaken
    <2>2. CountRight(f)'
        <3>1. CASE q = NextClan(r)
            BY <1>6, <3>1
        <3>2. CASE r.op = "reserve" /\ q = [r EXCEPT !.step = "wOpen"]
            <4>1. r.step # "rCount"
                BY <1>1, <3>2 DEF Tidy
            <4>2. q.clan = r.clan /\ q.row = r.row /\ q.step = "wOpen"
                BY <1>1, <3>2 DEF Coroutine
            <4> QED
                BY <1>1, <1>5, <2>1, <4>1, <4>2 DEF CountRight
        <3> QED
            BY <2>1, <3>1, <3>2
    <2>3. CASE UNCHANGED <<sheet, stale>>
        BY <1>5, <2>1, <2>2, <2>3 DEF Quiet
    <2>4. CASE /\ sheet' = [sheet EXCEPT ![r.clan] = Written(r.step, @, r.row)]
               /\ r.step # "wCount" /\ UNCHANGED stale
        <3>1. \A c \in Clans : sheet'[c].count = sheet[c].count
            BY <1>1, <2>4 DEF Written, Cells
        <3> QED
            BY <1>5, <2>1, <2>2, <2>4, <3>1 DEF Quiet
    <2>5. CASE /\ sheet' = [sheet EXCEPT ![r.clan] = Written(r.step, @, r.row)]
               /\ r.step = "wCount"
               /\ stale' = IF f \in behind THEN stale \cup {r.clan} ELSE stale
        BY <1>2, <1>5, <1>17, <2>1, <2>2, <2>5 DEF CountWrite
    <2> QED
        BY <2>1, <2>3, <2>4, <2>5
<1> QED
    BY <1>7, <1>8, <1>9, <1>11, <1>12, <1>13, <1>14, <1>15, <1>16, <1>18, <1>19, <1>20
    DEF Progress

LEMMA StepKeepsCount ==
    ASSUME CountInv, [Next]_vars
    PROVE  CountInv'
<1>1. Inv' /\ AllTidy' /\ flow \in [Flows -> Coroutine] /\ sheet \in [Clans -> Cells]
    BY StepKeepsInv, StepKeepsTidy DEF CountInv, Inv, TypeOK
<1>2. SUFFICES CountOK'
    BY <1>1 DEF CountInv
<1>3. UNCHANGED ledger => \A c : Held(c)' = Held(c)
    BY DEF Held, ActiveIn, Active
<1>4. CASE Begin
    <2>1. \E f, q : Start(f, q.op, q) /\ q.step \in Uncounted
        BY <1>4, Beginnings DEF Fresh, Uncounted, Adjusting
    <2>2. UNCHANGED <<ledger, sheet, pending, behind, stale>>
        BY <1>4, Beginnings
    <2>3. \A g \in Flows : flow'[g] = flow[g] \/ flow'[g].step \in Uncounted
        BY <1>1, <2>1 DEF Start
    <2>4. ASSUME NEW g \in Flows, flow'[g] = flow[g] PROVE CountRight(g)'
        BY <1>3, <2>2, <2>4 DEF CountInv, CountOK, CountRight
    <2>5. ClansRight'
        BY <1>3, <2>2 DEF CountInv, CountOK, ClansRight
    <2> QED
        BY <2>3, <2>4, <2>5, UncountedIsRight DEF CountOK
<1>5. CASE World
    <2>1. UNCHANGED <<ledger, pending, stale>>
        BY <1>5 DEF World, RefreshRead, RefreshStore, ManualEdit, NextDay, Crash
    <2>2. \A c \in Clans : sheet'[c].count = sheet[c].count
        BY <1>1, <1>5 DEF World, RefreshRead, RefreshStore, ManualEdit, NextDay, Crash, Cells
    <2>3. UNCHANGED <<flow, behind>> \/ flow' = [f \in Flows |-> Idle]
        BY <1>5 DEF World, RefreshRead, RefreshStore, ManualEdit, NextDay, Crash
    <2>4. ClansRight'
        BY <1>3, <2>1, <2>2 DEF CountInv, CountOK, ClansRight
    <2>5. CASE flow' = [f \in Flows |-> Idle]
        BY <2>4, <2>5, UncountedIsRight DEF Idle, Uncounted, CountOK
    <2>6. CASE UNCHANGED <<flow, behind>>
        <3>1. \A f \in Flows : flow[f].step = "patch" => flow[f].clan \in Clans
            BY DEF CountInv, Inv, AllFit, Fits
        <3> QED
            BY <1>3, <2>1, <2>2, <2>4, <2>6, <3>1 DEF CountInv, CountOK, CountRight
    <2> QED
        BY <2>3, <2>5, <2>6
<1>6. CASE UNCHANGED vars
    BY <1>3, <1>6 DEF vars, CountInv, CountOK, ClansRight, CountRight
<1>7. CASE \E f \in Flows : Progress(f)
    BY <1>7, ProgressKeepsCount
<1> QED
    BY <1>4, <1>5, <1>6, <1>7 DEF Next

LEMMA InitCount == Init => CountInv
<1> SUFFICES ASSUME Init PROVE CountInv
    OBVIOUS
<1>1. \A c : Held(c) = 0
    BY FS_EmptySet DEF Init, Held, ActiveIn, Active
<1>2. \A c \in Clans : sheet[c].count = 0
    BY DEF Init
<1>3. \A f \in Flows : flow[f].step = "idle"
    BY DEF Init, Idle
<1> QED
    BY <1>1, <1>2, <1>3, InitTidy DEF CountInv, CountOK, ClansRight, CountRight

\* The reserved count of a clan is the number of its active rows whatever
\* overlaps, fails, lands late or restarts, unless the clan is owed a recompute
\* or its AH was written from a count that the ledger had overtaken.
THEOREM CountsAgree == Spec => []CountAgrees
<1>1. CountInv /\ [Next]_vars => CountInv'
    BY StepKeepsCount
<1>2. CountInv => CountAgrees
    BY DEF CountInv, CountOK, ClansRight, CountAgrees, Held
<1> QED
    BY <1>1, <1>2, InitCount, PTL DEF Spec
===============================================================================
