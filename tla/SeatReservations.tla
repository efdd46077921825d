--------------------------- MODULE SeatReservations ---------------------------
(* Clan-seat reservations: the Reservations ledger, the availability row of   *)
(* each clan in the clans tab, the bot's cached copy of those rows, and every *)
(* coroutine that moves them: the !reserve command and its release and extend *)
(* forms, !setopenspots, the daily reminder and auto-release jobs and the     *)
(* idle watcher.  All of them run on one event loop, so an action is what a   *)
(* coroutine does between two awaits that touch the sheets, and coroutines    *)
(* interleave there.                                                          *)
(*                                                                            *)
(* Sources: modules/placement/reservations.py, reservation_jobs.py,           *)
(* modules/recruitment/availability.py, shared/sheets/reservations.py.        *)
EXTENDS Integers, Sequences, FiniteSets

CONSTANTS
    Clans,        \* clan tags
    Recruits,     \* recruits, each with one ticket thread
    Commands,     \* interactive commands that may run side by side
    Ops,          \* the operations this instance exercises
    LostReplies,  \* may a sheet write land although its call raised?
    \* bounds of the instance
    MaxActive,    \* coroutines in progress at the same time
    MaxCommands,  \* commands issued in a behaviour
    MaxEdits,     \* edits of the manual column by clan leads
    MinSeats,     \* fewest open seats a clan starts with
    MaxSeats,     \* most seats, and the largest value a human writes
    MaxDay,       \* last day; it stands for every later day
    MaxFaults,    \* failed sheet calls
    MaxCrashes    \* restarts of the bot

Jobs  == {"reminder", "autorelease", "idlewatch"}
Flows == Commands \cup Jobs

Operations ==
    {"reserve", "release", "extend", "setspots", "unlink", "remind", "expire"}

ASSUME SeatAssumption ==
    /\ Commands \cap Jobs = {}
    /\ IsFiniteSet(Commands)
    /\ "none" \notin Recruits /\ "none" \notin Clans
    /\ Ops \subseteq Operations
    /\ LostReplies \in BOOLEAN
    /\ {MaxActive, MaxCommands, MaxEdits, MinSeats, MaxSeats, MaxDay, MaxFaults,
        MaxCrashes} \subseteq Nat

VARIABLES
    ledger,   \* the Reservations tab, one record per data row
    sheet,    \* the availability cells of each clan in the clans tab
    cache,    \* the same cells in the bot's in-memory clan rows
    refresh,  \* {} or {the rows a reload of the clans tab has read}
    flow,     \* the coroutines: locals and where each one stands
    day,      \* today
    ran,      \* first day on which each daily job may start again
    pending,  \* clans whose ledger rows changed after their last recompute
    phantom,  \* rows left behind by a reserve that reported "no changes"
    behind,   \* coroutines whose count of a clan's rows the ledger has overtaken
    stale,    \* clans whose AH was last written from such a count
    spent     \* how much of each bound is used up

\* What is remembered for the properties only.
ghosts == <<pending, phantom, behind, stale>>

vars == <<ledger, sheet, cache, refresh, flow, day, ran, ghosts, spent>>

-------------------------------------------------------------------------------
(* State.                                                                     *)

Dates    == 0..MaxDay
Statuses == {"active", "released", "expired"}

Hold == [recruit : Recruits, clan : Clans, status : Statuses, until : Dates]

\* manual is column E, open AF, seen AJ (the E value the bot last based AF on),
\* count AH.  AG and the AI summary carry no information of their own.
Cells == [manual : Nat, open : Nat, seen : Nat, count : Nat]

Steps == {"idle",
          "count", "talk", "check", "append",            \* reserve
          "mark", "date",                                \* ledger updates
          "aPlan", "aWrite", "aPatch",                   \* adjust
          "rPlan", "rCount", "wOpen", "wSeen", "wCount", "patch"} \* recompute

Coroutine == [op      : Operations \cup {"none"},
              step    : Steps,
              recruit : Recruits \cup {"none"},
              clan    : Clans \cup {"none"},
              until   : Dates,
              rows    : SUBSET (Nat \ {0}),  \* ledger rows still to update
              clans   : SUBSET Clans,        \* clans still to recompute
              row     : Cells,               \* preflight row, then updated_row
              count   : Nat,                 \* active rows of the clan, as read
              book    : Seq(Hold)]           \* the ledger as last searched for rows

BlankRow == [manual |-> 0, open |-> 0, seen |-> 0, count |-> 0]

Idle == [op |-> "none", step |-> "idle", recruit |-> "none", clan |-> "none",
         until |-> 0, rows |-> {}, clans |-> {}, row |-> BlankRow, count |-> 0,
         book |-> << >>]

Active     == {i \in DOMAIN ledger : ledger[i].status = "active"}
ActiveIn(c)  == {i \in Active : ledger[i].clan = c}
ActiveFor(u) == {i \in Active : ledger[i].recruit = u}

\* The coroutines that hold a count of the active rows of a clan.
Counted == {"talk", "check", "append", "wOpen", "wSeen", "wCount", "patch"}
Counters(c) == {f \in Flows : flow[f].clan = c /\ flow[f].step \in Counted}

Busy   == {f \in Flows : flow[f].step # "idle"}
AtRest == Busy = {} /\ refresh = {}
Room   == Cardinality(Busy) + Cardinality(refresh) < MaxActive

-------------------------------------------------------------------------------
(* Helpers.                                                                   *)

\* Mutant of Clamp: no floor at zero.
ClampUnfloored(n) == n

Clamp(n) == IF n > 0 THEN n ELSE 0

\* An edit of the manual column since the bot last looked rebases AF on it.
Base(row) == IF row.manual # row.seen THEN row.manual ELSE row.open

Recomputed(row, held) ==
    [row EXCEPT !.open = Clamp(Base(row) - held), !.seen = row.manual,
                !.count = held]

Adjusted(row, delta) ==
    [row EXCEPT !.open = Clamp(Base(row) + delta), !.seen = row.manual]

First(S) == CHOOSE i \in S : \A j \in S : i <= j

Start(f, op, r) ==
    /\ op \in Ops
    /\ flow[f] = Idle
    /\ Room
    /\ flow' = [flow EXCEPT ![f] = r]

Goto(f, r) == flow' = [flow EXCEPT ![f] = r]

\* Every command is counted, so that a behaviour issues finitely many.
Issue ==
    /\ spent.commands < MaxCommands
    /\ spent' = [spent EXCEPT !.commands = @ + 1]

Fault ==
    /\ spent.faults < MaxFaults
    /\ spent' = [spent EXCEPT !.faults = @ + 1]

\* The part of a failed write that may have reached the sheet all the same.
Landings == IF LostReplies THEN BOOLEAN ELSE {FALSE}

\* The active rows of a clan change: it is owed a recompute, and the counts that
\* were taken of it are overtaken, but for those of the coroutines that know.
RowsChange(c, known) ==
    /\ pending' = pending \cup {c}
    /\ behind' = behind \cup (Counters(c) \ known)

\* After a recompute, or when there is none to do: the next clan, or the end.
NextClan(r) == IF r.clans = {} THEN Idle ELSE [r EXCEPT !.step = "rPlan"]

NextRow(r) ==
    IF r.rows # {} THEN r
    ELSE IF r.op = "release" THEN [r EXCEPT !.step = "aPlan"]
    ELSE NextClan(r)

-------------------------------------------------------------------------------
(* !reserve <clan>: preflight, read of the clan's active rows, conversation,  *)
(* duplicate check, append; then the recompute below on the row and the count *)
(* read before the conversation.                                              *)

ReserveStart(f, u, c) ==
    /\ f \in Commands
    /\ Start(f, "reserve", [Idle EXCEPT !.op = "reserve", !.step = "count",
                                        !.recruit = u, !.clan = c,
                                        !.row = cache[c]])
    /\ Issue
    /\ UNCHANGED <<ledger, sheet, cache, refresh, day, ran, ghosts>>

ReserveCount(f) ==
    /\ flow[f].step = "count"
    /\ Goto(f, [flow[f] EXCEPT !.step = "talk",
                               !.count = Cardinality(ActiveIn(flow[f].clan))])
    /\ behind' = behind \ {f}
    /\ UNCHANGED <<ledger, sheet, cache, refresh, day, ran, pending, phantom, stale,
                   spent>>

\* The recruiter picks a last day and confirms.  An empty clan only makes the
\* bot ask for a reason.
ReserveConfirm(f) ==
    /\ flow[f].step = "talk"
    /\ \E d \in day..MaxDay :
           Goto(f, [flow[f] EXCEPT !.step = "check", !.until = d])
    /\ UNCHANGED <<ledger, sheet, cache, refresh, day, ran, ghosts, spent>>

\* Cancelled, timed out, or one of the reads before the append failed.
ReserveAbort(f) ==
    /\ flow[f].step \in {"count", "talk", "check"}
    /\ Goto(f, Idle)
    /\ UNCHANGED <<ledger, sheet, cache, refresh, day, ran, ghosts, spent>>

\* Mutant of ReserveCheck: the recruit's active rows are not looked at.
ReserveCheckSkipped(f) ==
    /\ flow[f].step = "check"
    /\ Goto(f, [flow[f] EXCEPT !.step = "append", !.book = ledger])
    /\ UNCHANGED <<ledger, sheet, cache, refresh, day, ran, ghosts, spent>>

ReserveCheck(f) ==
    /\ flow[f].step = "check"
    /\ Goto(f, IF ActiveFor(flow[f].recruit) = {}
               THEN [flow[f] EXCEPT !.step = "append", !.book = ledger]
               ELSE Idle)
    /\ UNCHANGED <<ledger, sheet, cache, refresh, day, ran, ghosts, spent>>

NewHold(r) == [recruit |-> r.recruit, clan |-> r.clan,
               status |-> "active", until |-> r.until]

\* Mutant of ReserveAppend: AH and AF are planned without the new row.
ReserveAppendStaleCount(f) ==
    LET r == flow[f] IN
    /\ r.step = "append"
    /\ ledger' = Append(ledger, NewHold(r))
    /\ RowsChange(r.clan, {f})
    /\ Goto(f, [r EXCEPT !.step = "wOpen", !.rows = {}, !.book = << >>,
                         !.row = Recomputed(@, r.count)])
    /\ UNCHANGED <<sheet, cache, refresh, day, ran, phantom, stale, spent>>

ReserveAppend(f) ==
    LET r == flow[f] IN
    /\ r.step = "append"
    /\ ledger' = Append(ledger, NewHold(r))
    /\ RowsChange(r.clan, {f})
    /\ Goto(f, [r EXCEPT !.step = "wOpen", !.rows = {}, !.book = << >>,
                         !.row = Recomputed(@, r.count + 1)])
    /\ UNCHANGED <<sheet, cache, refresh, day, ran, phantom, stale, spent>>

\* An append attempt that raised.  The call is retried, or the command gives up
\* and reports that no changes were made.
ReserveAppendFail(f) ==
    LET r == flow[f] IN
    /\ r.step = "append"
    /\ Fault
    /\ \E landed \in Landings, retry \in BOOLEAN :
           LET mine == IF landed THEN r.rows \cup {Len(ledger) + 1} ELSE r.rows IN
           /\ ledger'  = IF landed THEN Append(ledger, NewHold(r)) ELSE ledger
           /\ IF landed THEN RowsChange(r.clan, {}) ELSE UNCHANGED <<pending, behind>>
           /\ phantom' = IF retry THEN phantom ELSE phantom \cup mine
           /\ Goto(f, IF retry THEN [r EXCEPT !.rows = mine] ELSE Idle)
    /\ UNCHANGED <<sheet, cache, refresh, day, ran, stale>>

-------------------------------------------------------------------------------
(* !reserve release and !reserve extend: both look the row up among the       *)
(* recruit's active rows and insist on exactly one match in the clan.         *)

Matches(u, c) == ActiveFor(u) \cap ActiveIn(c)

ReleaseStart(f, u, c) ==
    /\ f \in Commands
    /\ Cardinality(Matches(u, c)) = 1
    /\ Start(f, "release", [Idle EXCEPT !.op = "release", !.step = "mark",
                                        !.recruit = u, !.clan = c,
                                        !.rows = Matches(u, c), !.clans = {c}])
    /\ Issue
    /\ UNCHANGED <<ledger, sheet, cache, refresh, day, ran, ghosts>>

ExtendStart(f, u, c, d) ==
    /\ f \in Commands
    /\ d >= day
    /\ Cardinality(Matches(u, c)) = 1
    /\ Start(f, "extend", [Idle EXCEPT !.op = "extend", !.step = "date",
                                       !.recruit = u, !.clan = c, !.until = d,
                                       !.rows = Matches(u, c)])
    /\ Issue
    /\ UNCHANGED <<ledger, sheet, cache, refresh, day, ran, ghosts>>

\* Mutant of ExtendWrite: the row goes back as it was read, still active.
ExtendWriteWholeRow(f) ==
    LET r == flow[f] IN
    /\ r.step = "date"
    /\ ledger' = [ledger EXCEPT ![First(r.rows)] = NewHold(r)]
    /\ Goto(f, Idle)
    /\ UNCHANGED <<sheet, cache, refresh, day, ran, ghosts, spent>>

\* The date cell is written by row number, whatever the row has become.
ExtendWrite(f) ==
    LET r == flow[f] IN
    /\ r.step = "date"
    /\ ledger' = [ledger EXCEPT ![First(r.rows)].until = r.until]
    /\ Goto(f, Idle)
    /\ UNCHANGED <<sheet, cache, refresh, day, ran, ghosts, spent>>

ExtendFail(f) ==
    /\ flow[f].step = "date"
    /\ Fault
    /\ \E landed \in Landings :
           ledger' = IF landed
                     THEN [ledger EXCEPT ![First(flow[f].rows)].until = flow[f].until]
                     ELSE ledger
    /\ Goto(f, Idle)
    /\ UNCHANGED <<sheet, cache, refresh, day, ran, ghosts>>

-------------------------------------------------------------------------------
(* The daily jobs and the idle watcher.                                       *)

\* A daily loop sleeps until its hour and runs once a day.
Daily(j) ==
    /\ ran[j] <= day
    /\ ran' = [ran EXCEPT ![j] = IF day < MaxDay THEN day + 1 ELSE day]

DueToday == {i \in Active : ledger[i].until = day}

\* Mutants of Overdue: a day early; never again once the day was missed.
OverdueEarly     == {i \in Active : ledger[i].until <= day + 1}
OverdueOnTheDay  == DueToday

Overdue == {i \in Active : ledger[i].until <= day}

ReminderStart ==
    /\ DueToday # {}
    /\ Daily("reminder")
    /\ Start("reminder", "remind",
             [Idle EXCEPT !.op = "remind", !.step = "rPlan",
                          !.clans = {ledger[i].clan : i \in DueToday}])
    /\ UNCHANGED <<ledger, sheet, cache, refresh, day, ghosts, spent>>

AutoreleaseStart ==
    /\ Overdue # {}
    /\ Daily("autorelease")
    /\ Start("autorelease", "expire",
             [Idle EXCEPT !.op = "expire", !.step = "mark", !.rows = Overdue,
                          !.book = ledger])
    /\ UNCHANGED <<ledger, sheet, cache, refresh, day, ghosts, spent>>

\* The idle watcher closed the recruit's thread and gives its holds up.
UnlinkStart(u) ==
    /\ ActiveFor(u) # {}
    /\ Start("idlewatch", "unlink",
             [Idle EXCEPT !.op = "unlink", !.step = "mark", !.rows = ActiveFor(u)])
    /\ UNCHANGED <<ledger, sheet, cache, refresh, day, ran, ghosts, spent>>

Verdict(op) == IF op = "release" THEN "released" ELSE "expired"

\* Mutant of Marked: no clan is remembered.
MarkedForgetful(r, i) == NextRow([r EXCEPT !.rows = @ \ {i}])

\* What follows one status write: only the auto-release job remembers the clan.
Marked(r, i) ==
    NextRow([r EXCEPT !.rows = @ \ {i},
                      !.clans = IF r.op = "expire" THEN @ \cup {ledger[i].clan} ELSE @])

\* update_reservation_status: a blind write of the status cell by row number.
Mark(f) ==
    LET r == flow[f]
        i == First(r.rows)
    IN  /\ r.step = "mark"
        /\ ledger' = [ledger EXCEPT ![i].status = Verdict(r.op)]
        /\ RowsChange(ledger[i].clan, {})
        /\ Goto(f, Marked(r, i))
        /\ UNCHANGED <<sheet, cache, refresh, day, ran, phantom, stale, spent>>

\* A status write that raised: the release command stops, the loops go on.
MarkFail(f) ==
    LET r == flow[f]
        i == First(r.rows)
    IN  /\ r.step = "mark"
        /\ Fault
        /\ \E landed \in Landings :
               /\ ledger' = IF landed
                            THEN [ledger EXCEPT ![i].status = Verdict(r.op)]
                            ELSE ledger
               /\ IF landed THEN RowsChange(ledger[i].clan, {})
                  ELSE UNCHANGED <<pending, behind>>
        /\ Goto(f, IF r.op = "release" THEN Idle
                   ELSE NextRow([r EXCEPT !.rows = @ \ {i}]))
        /\ UNCHANGED <<sheet, cache, refresh, day, ran, phantom, stale>>

-------------------------------------------------------------------------------
(* adjust_manual_open_spots: plan from the cached row, one batch write of AF  *)
(* and AJ, then the whole planned row goes into the cache.                    *)

AdjustPlan(f) ==
    LET r == flow[f] IN
    /\ r.step = "aPlan"
    /\ Goto(f, [r EXCEPT !.step = "aWrite", !.row = Adjusted(cache[r.clan], 1)])
    /\ UNCHANGED <<ledger, sheet, cache, refresh, day, ran, ghosts, spent>>

\* set_manual_open_spots asks for the delta that leads to v, on the same plan.
SetSpots(f, c, v) ==
    /\ f \in Commands
    /\ Start(f, "setspots",
             [Idle EXCEPT !.op = "setspots", !.step = "aWrite", !.clan = c,
                          !.row = Adjusted(cache[c], v - Base(cache[c]))])
    /\ Issue
    /\ UNCHANGED <<ledger, sheet, cache, refresh, day, ran, ghosts>>

Adjustment(row, new) == [row EXCEPT !.open = new.open, !.seen = new.seen]

AdjustWrite(f) ==
    LET r == flow[f] IN
    /\ r.step = "aWrite"
    /\ sheet' = [sheet EXCEPT ![r.clan] = Adjustment(@, r.row)]
    /\ Goto(f, [r EXCEPT !.step = "aPatch"])
    /\ UNCHANGED <<ledger, cache, refresh, day, ran, ghosts, spent>>

AdjustPatch(f) ==
    LET r == flow[f] IN
    /\ r.step = "aPatch"
    /\ cache' = [cache EXCEPT ![r.clan] = r.row]
    /\ Goto(f, NextClan(r))
    /\ UNCHANGED <<ledger, sheet, refresh, day, ran, ghosts, spent>>

\* The release command logs the failure and goes on to its recompute.
AdjustFail(f) ==
    LET r == flow[f] IN
    /\ r.step \in {"aPlan", "aWrite"}
    /\ Fault
    /\ \E landed \in Landings :
           sheet' = IF landed /\ r.step = "aWrite"
                    THEN [sheet EXCEPT ![r.clan] = Adjustment(@, r.row)]
                    ELSE sheet
    /\ Goto(f, NextClan(r))
    /\ UNCHANGED <<ledger, cache, refresh, day, ran, ghosts>>

-------------------------------------------------------------------------------
(* recompute_clan_availability: plan from the cached row, count of the active *)
(* rows, separate writes of AF, AJ and AH (then AG and AI), cached row.       *)

RecomputePlan(f) ==
    LET r == flow[f] IN
    /\ r.step = "rPlan"
    /\ \E c \in r.clans :
           Goto(f, [r EXCEPT !.step = "rCount", !.clan = c, !.clans = @ \ {c},
                             !.row = cache[c]])
    /\ UNCHANGED <<ledger, sheet, cache, refresh, day, ran, ghosts, spent>>

RecomputeCount(f) ==
    LET r == flow[f] IN
    /\ r.step = "rCount"
    /\ Goto(f, [r EXCEPT !.step = "wOpen",
                         !.row = Recomputed(@, Cardinality(ActiveIn(r.clan)))])
    /\ behind' = behind \ {f}
    /\ UNCHANGED <<ledger, sheet, cache, refresh, day, ran, pending, phantom, stale,
                   spent>>

\* The cells as the write at a step leaves them; the AG and AI writes of the
\* last step change nothing that is modelled.
Written(step, row, new) ==
    IF step = "wOpen" THEN [row EXCEPT !.open = new.open]
    ELSE IF step = "wSeen" THEN [row EXCEPT !.seen = new.seen]
    ELSE IF step = "wCount" THEN [row EXCEPT !.count = new.count]
    ELSE row

WriteStep(f, step, after) ==
    LET r == flow[f] IN
    /\ r.step = step
    /\ sheet' = [sheet EXCEPT ![r.clan] = Written(step, @, r.row)]
    /\ Goto(f, [r EXCEPT !.step = after])
    /\ UNCHANGED <<ledger, cache, refresh, day, ran, pending, phantom, behind, spent>>

\* The clans whose AH is known to be old after a write of it, or not known to be
\* right after the recompute that has just ended.
Overtaken(f) == IF f \in behind THEN stale \cup {flow[f].clan} ELSE stale

WriteOpen(f)  == WriteStep(f, "wOpen", "wSeen") /\ UNCHANGED stale
WriteSeen(f)  == WriteStep(f, "wSeen", "wCount") /\ UNCHANGED stale
WriteCount(f) ==
    /\ WriteStep(f, "wCount", "patch")
    /\ stale' = IF f \in behind THEN Overtaken(f) ELSE stale \ {flow[f].clan}

RecomputePatch(f) ==
    LET r == flow[f] IN
    /\ r.step = "patch"
    /\ cache' = [cache EXCEPT ![r.clan] = r.row]
    /\ pending' = pending \ {r.clan}
    /\ stale' = Overtaken(f)
    /\ behind' = behind \ {f}
    /\ Goto(f, NextClan(r))
    /\ UNCHANGED <<ledger, sheet, refresh, day, ran, phantom, spent>>

\* A read or a write of the recompute raised.  A reserve command may try again
\* from the first write, on the same plan; everything else logs it and goes on.
RecomputeFail(f) ==
    LET r == flow[f] IN
    /\ r.step \in {"rCount", "wOpen", "wSeen", "wCount", "patch"}
    /\ Fault
    /\ \E landed \in Landings :
           /\ sheet' = IF landed
                       THEN [sheet EXCEPT ![r.clan] = Written(r.step, @, r.row)]
                       ELSE sheet
           /\ stale' = IF landed /\ r.step = "wCount" THEN Overtaken(f) ELSE stale
    /\ \/ Goto(f, NextClan(r))
       \/ r.op = "reserve" /\ Goto(f, [r EXCEPT !.step = "wOpen"])
    /\ UNCHANGED <<ledger, cache, refresh, day, ran, pending, phantom, behind>>

-------------------------------------------------------------------------------
(* The rest of the world.                                                     *)

\* A reload of the clans tab: what it read is stored when its await returns,
\* over whatever the cache has become meanwhile.
RefreshRead ==
    /\ refresh = {}
    /\ Room
    /\ refresh' = {sheet}
    /\ UNCHANGED <<ledger, sheet, cache, flow, day, ran, ghosts, spent>>

RefreshStore ==
    /\ \E rows \in refresh : cache' = rows
    /\ refresh' = {}
    /\ UNCHANGED <<ledger, sheet, flow, day, ran, ghosts, spent>>

\* A clan lead edits column E.
ManualEdit(c, v) ==
    /\ spent.edits < MaxEdits
    /\ spent' = [spent EXCEPT !.edits = @ + 1]
    /\ sheet[c].manual # v
    /\ sheet' = [sheet EXCEPT ![c].manual = v]
    /\ UNCHANGED <<ledger, cache, refresh, flow, day, ran, ghosts>>

NextDay ==
    /\ day < MaxDay
    /\ day' = day + 1
    /\ UNCHANGED <<ledger, sheet, cache, refresh, flow, ran, ghosts, spent>>

\* The process dies with its coroutines and its cache; the next one reloads the
\* clans tab before its first command.
Crash ==
    /\ Busy # {}
    /\ spent.crashes < MaxCrashes
    /\ spent' = [spent EXCEPT !.crashes = @ + 1]
    /\ flow' = [f \in Flows |-> Idle]
    /\ refresh' = {}
    /\ cache' = sheet
    /\ behind' = {}
    /\ UNCHANGED <<ledger, sheet, day, ran, pending, phantom, stale>>

-------------------------------------------------------------------------------

\* The clans tab and the cache agree, and AF was last set from E.
Init ==
    /\ ledger = << >>
    /\ sheet \in [Clans -> {[manual |-> n, open |-> n, seen |-> n, count |-> 0] :
                            n \in MinSeats..MaxSeats}]
    /\ cache = sheet
    /\ refresh = {}
    /\ flow = [f \in Flows |-> Idle]
    /\ day = 0
    /\ ran = [j \in {"reminder", "autorelease"} |-> 0]
    /\ pending = {}
    /\ phantom = {}
    /\ behind = {}
    /\ stale = {}
    /\ spent = [commands |-> 0, edits |-> 0, faults |-> 0, crashes |-> 0]

\* A new command, a job or the watcher begins.
Begin ==
    \/ \E f \in Commands, u \in Recruits, c \in Clans :
           \/ ReserveStart(f, u, c)
           \/ ReleaseStart(f, u, c)
           \/ \E d \in Dates : ExtendStart(f, u, c, d)
    \/ \E f \in Commands, c \in Clans, v \in 0..MaxSeats : SetSpots(f, c, v)
    \/ ReminderStart
    \/ AutoreleaseStart
    \/ \E u \in Recruits : UnlinkStart(u)

\* A coroutine goes on from where it awaits.
Progress(f) ==
    \/ ReserveCount(f) \/ ReserveConfirm(f) \/ ReserveAbort(f) \/ ReserveCheck(f)
    \/ ReserveAppend(f) \/ ReserveAppendFail(f)
    \/ ExtendWrite(f) \/ ExtendFail(f)
    \/ Mark(f) \/ MarkFail(f)
    \/ AdjustPlan(f) \/ AdjustWrite(f) \/ AdjustPatch(f) \/ AdjustFail(f)
    \/ RecomputePlan(f) \/ RecomputeCount(f)
    \/ WriteOpen(f) \/ WriteSeen(f) \/ WriteCount(f)
    \/ RecomputePatch(f) \/ RecomputeFail(f)

World ==
    \/ RefreshRead \/ RefreshStore
    \/ \E c \in Clans, v \in 0..MaxSeats : ManualEdit(c, v)
    \/ NextDay
    \/ Crash

Next == Begin \/ (\E f \in Flows : Progress(f)) \/ World

Spec == Init /\ [][Next]_vars

\* The event loop resumes every coroutine whose await is over (the conversation
\* has a timeout), days pass, and the auto-release loop wakes up every day.
Fairness ==
    /\ \A f \in Flows : WF_vars(Progress(f))
    /\ WF_vars(RefreshStore)
    /\ WF_vars(NextDay)
    /\ WF_vars(AutoreleaseStart)

FairSpec == Spec /\ Fairness

-------------------------------------------------------------------------------
(* Properties.                                                                *)

\* Every variable keeps its type.
TypeOK ==
    /\ ledger \in Seq(Hold)
    /\ sheet \in [Clans -> Cells]
    /\ cache \in [Clans -> Cells]
    /\ refresh \in SUBSET [Clans -> Cells]
    /\ flow \in [Flows -> Coroutine]
    /\ day \in Dates
    /\ ran \in [{"reminder", "autorelease"} -> Dates]
    /\ pending \in SUBSET Clans
    /\ phantom \in SUBSET (Nat \ {0})
    /\ behind \in SUBSET Flows
    /\ stale \in SUBSET Clans
    /\ spent \in [{"commands", "edits", "faults", "crashes"} -> Nat]

\* Every row is appended by a !reserve that has looked for rows of its recruit,
\* and a hold that the recruit already has by then was not on file when it did:
\* two holds of one recruit are the work of a race or of an append that landed
\* although it failed, never of a check that was left out.
SecondHoldUnseen ==
    [][Len(ledger') > Len(ledger) =>
           \E f \in Commands :
               /\ flow[f].step = "append"
               /\ flow[f].recruit = ledger'[Len(ledger')].recruit
               /\ \A i \in ActiveFor(flow[f].recruit) : i > Len(flow[f].book)]_vars

\* Whatever interleaves, crashes or fails, the ledger is a HoldBook: rows are
\* never lost, re-assigned or made active again by the blind cell writes.
Book == INSTANCE HoldBook WITH holds <- ledger
KeepsHoldBook == Book!Spec

\* The reserved count AH of a clan is the number of its active rows, whatever
\* overlaps, fails, lands late or restarts, unless the clan is still owed a
\* recompute or its AH was written from a count that the ledger had overtaken:
\* no recompute, and no retry of one, loses a row on its own.
CountAgrees ==
    \A c \in Clans \ (pending \cup stale) :
        sheet[c].count = Cardinality(ActiveIn(c))

\* No call failed and the bot was not restarted so far.
Calm == spent.faults = 0 /\ spent.crashes = 0

\* At rest, if no call failed, every ledger change has been followed by a
\* recompute of its clan.
EveryChangeRecomputed == AtRest /\ Calm => pending = {}

\* At rest, a recomputed clan with no unseen edit shows the open seats that its
\* manual column and its active rows give: AF = max(E - R, 0).
EffectiveSeats ==
    AtRest => \A c \in Clans \ pending :
        sheet[c].manual = sheet[c].seen =>
            sheet[c].open = Clamp(sheet[c].manual - Cardinality(ActiveIn(c)))

\* At rest, if no call failed, a clan with seats for all its holds never shows
\* more open seats than are left: a recruiter does not offer a seat that is held.
NeverOversold ==
    AtRest /\ Calm => \A c \in Clans \ pending :
        LET held == Cardinality(ActiveIn(c)) IN
        sheet[c].manual = sheet[c].seen /\ held <= sheet[c].manual =>
            sheet[c].open <= sheet[c].manual - held

\* The auto-release job expires a hold before its last day only if that day was
\* moved behind its back, after it listed the overdue rows.
EarlyExpiryUnseen ==
    [][\A i \in Active :
           /\ flow["autorelease"] # flow'["autorelease"]
           /\ ledger'[i].status = "expired"
           => \/ ledger[i].until <= day
              \/ ledger[i].until # flow["autorelease"].book[i].until]_vars

\* A !reserve that reported that no changes were made left no row behind.
NoPhantomHold == phantom = {}

\* Every hold ends: it is released, or the auto-release job gets to it in time,
\* on a later day if a call failed or the bot restarted.
HoldsEnd ==
    \A i \in 1..(MaxCommands + MaxFaults) :
        (i \in Active) ~> (i \notin Active)

===============================================================================
