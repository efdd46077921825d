--------------------------- MODULE ResetReminders ---------------------------
(***************************************************************************)
(* The reset reminders of modules/community/reset_reminders/scheduler.py,  *)
(* with the due-time job of modules/common/runtime.py that wakes them.     *)
(*                                                                         *)
(* A row of the reminder tab has a cycle of resets.  Lead ticks before     *)
(* each one the bot deletes the row's last message, posts a new one, notes *)
(* that in memory and only then writes three cells of the row.  The cells  *)
(* are the schedule: what a restart or a reload finds there is done.       *)
(*                                                                         *)
(* Occurrence k of row r is posted from Due(r, k) on and void from         *)
(* Reset(r, k) on.  A cell holds the number of an occurrence, 0 is blank.  *)
(* The n-th message of a row has the id n.                                 *)
(***************************************************************************)
EXTENDS Integers, Sequences, FiniteSets

CONSTANTS NRows,        \* rows of the tab, processed in order
          First, Cycle, Lead,  \* of each row: first due time, period, lead
          RetryDelay,   \* _DUE_JOB_RETRY_DELAY
          ReloadDelay,  \* the five minutes of _set_next_sheet_load_after
          MaxTime,      \* bound on the clock
          MaxOcc,       \* an occurrence that MaxTime does not reach
          MaxFaults,    \* bound on calls that fail, restarts and slow ticks
          None

Rows == 1..NRows
Due(r, k)   == First[r] + (k - 1) * Cycle[r]
Reset(r, k) == Due(r, k) + Lead[r]

ASSUME ReminderConstants ==
    /\ NRows \in Nat \ {0}
    /\ First \in [Rows -> Nat]
    /\ Cycle \in [Rows -> Nat \ {0}]
    /\ Lead \in [Rows -> Nat]
    /\ {RetryDelay, ReloadDelay} \subseteq Nat \ {0}
    /\ {MaxTime, MaxFaults} \subseteq Nat
    /\ MaxOcc \in Nat \ {0}
    /\ \A r \in Rows : Due(r, MaxOcc) > MaxTime
    /\ None \notin Int

VARIABLES
    now,        \* the clock
    sheet,      \* the rows of the tab
    loaded,     \* _last_successful_load holds records
    cache,      \* those records
    loadAfter,  \* _next_sheet_load_after_utc
    proc,       \* process_reset_reminders under _PROCESS_LOCK
    job,        \* the due-time job "reset_reminders"
    posts,      \* history: posts[r][n] is the occurrence of message n
    live,       \* ids of the messages that stand in the channel
    faults

store == <<sheet, loaded, cache, loadAfter>>
vars  == <<now, store, proc, job, posts, live, faults>>

Occ     == 0..MaxOcc
DueTimes == 0..(MaxTime + RetryDelay) \cup 0..(MaxTime + ReloadDelay)
                \cup {Due(r, k) : r \in Rows, k \in 1..MaxOcc}
Row     == [next: Occ, sent: Occ, msg: Nat]
Steps   == {"load", "row", "send", "sent", "next", "msg"}
NoRecords == [r \in Rows |-> [next |-> 0, sent |-> 0, msg |-> 0]]
Idle    == [owner |-> "none", step |-> "row", row |-> 1, now |-> 0, occ |-> 0]

TypeOK ==
    /\ now \in 0..MaxTime
    /\ sheet \in [Rows -> Row]
    /\ loaded \in BOOLEAN
    /\ cache \in [Rows -> Row]
    /\ loadAfter \in DueTimes \cup {None}
    /\ proc \in [owner: {"none", "job", "reconcile"}, step: Steps,
                 row: 1..(NRows + 1), now: 0..MaxTime, occ: Occ]
    /\ job \in [state: {"off", "wait", "run"}, next: DueTimes \cup {None}]
    /\ posts \in [Rows -> Seq(Occ)]
    /\ live \in [Rows -> SUBSET Nat]
    /\ faults \in 0..MaxFaults

Init ==
    /\ now = 0
    /\ sheet \in [Rows -> [next: {0, 1}, sent: {0}, msg: {0}]]
    /\ loaded = FALSE
    /\ cache = NoRecords
    /\ loadAfter = None
    /\ proc = Idle
    /\ job = [state |-> "off", next |-> None]
    /\ posts = [r \in Rows |-> <<>>]
    /\ live = [r \in Rows |-> {}]
    /\ faults = 0

-----------------------------------------------------------------------------
(* The schedule.                                                           *)

Earlier(S) == CHOOSE t \in S : \A u \in S : t <= u

\* _next_reminder_from_anchor: the first occurrence that is not due before t.
FromAnchor(r, t) == Earlier({k \in 1..MaxOcc : Due(r, k) >= t})

\* _advance_reminder_until_reset_future
Advanced(r, k, t) == Earlier({j \in k..MaxOcc : Reset(r, j) > t})

\* _following_reminder_time
Following(k) == IF k < MaxOcc THEN k + 1 ELSE k

Scheduled(c) == {Due(r, c[r].next) : r \in {q \in Rows : c[q].next # 0}}

\* _set_next_sheet_load_after_from_records
LoadAfter(c, t) ==
    LET future == {d \in Scheduled(c) : d > t}
    IN  IF future = {} THEN t + ReloadDelay ELSE Earlier(future)

\* Mutant: the job is armed for the last row that is due.
LatestCachedDue(c, l) ==
    IF l /\ Scheduled(c) # {}
    THEN CHOOSE t \in Scheduled(c) : \A u \in Scheduled(c) : t >= u ELSE None

\* _earliest_cached_due
EarliestCachedDue(c, l) ==
    IF l /\ Scheduled(c) # {} THEN Earlier(Scheduled(c)) ELSE None

Fault == faults < MaxFaults /\ faults' = faults + 1

-----------------------------------------------------------------------------
(* Waking up, loading, and arming the job again.                           *)

Locked == proc.owner # "none"

\* process_reset_reminders up to its first await: cached rows serve until the
\* next due time, otherwise the tab is read.
Begin(owner, after) ==
    proc' = [owner |-> owner, row |-> 1, now |-> now, occ |-> 0,
             step |-> IF after # None /\ now < after /\ loaded
                      THEN "row" ELSE "load"]

\* Mutant: what is due already is not tried again.
RearmFuture(due) ==
    job' = [state |-> "wait",
            next |-> IF due # None /\ due <= now THEN None ELSE due]

\* Mutant: the two delays are added.
RearmLate(due) ==
    job' = [state |-> "wait", next |-> IF due # None /\ due <= now
                                       THEN now + RetryDelay + ReloadDelay ELSE due]

\* The end of _runner: what is still due is tried again after RetryDelay.
Rearm(due) ==
    job' = [state |-> "wait",
            next |-> IF due # None /\ due <= now THEN now + RetryDelay ELSE due]

\* Scheduler.at and _DueJob.do: the job that exists is rescheduled, its task is
\* started once.
At(due) ==
    job' = [state |-> IF job.state = "off" THEN "wait" ELSE job.state, next |-> due]

DueJob ==
    /\ job.state = "wait"
    /\ job.next # None
    /\ job.next <= now
    /\ IF Locked
       THEN Rearm(EarliestCachedDue(cache, loaded)) /\ UNCHANGED proc
       ELSE job' = [state |-> "run", next |-> None] /\ Begin("job", loadAfter)
    /\ UNCHANGED <<now, store, posts, live, faults>>

\* reconcile_reset_reminder_jobs, once at start-up and then every day.
Reconcile ==
    /\ loadAfter' = None
    /\ IF Locked
       THEN At(EarliestCachedDue(cache, loaded)) /\ UNCHANGED proc
       ELSE Begin("reconcile", None) /\ UNCHANGED job
    /\ UNCHANGED <<now, sheet, loaded, cache, posts, live, faults>>

\* The lock is released and the owner goes on without an await.
Finish ==
    /\ proc' = Idle
    /\ \/ proc.owner = "job" /\ Rearm(EarliestCachedDue(cache, loaded))
       \/ proc.owner = "reconcile" /\ At(EarliestCachedDue(cache, loaded))

Load ==
    /\ Locked /\ proc.step = "load"
    /\ loaded' = TRUE
    /\ cache' = sheet
    /\ loadAfter' = LoadAfter(sheet, proc.now)
    /\ proc' = [proc EXCEPT !.step = "row"]
    /\ UNCHANGED <<now, sheet, job, posts, live, faults>>

\* Mutant: the lock is kept when the tab cannot be read.
LoadFailLocked ==
    /\ Locked /\ proc.step = "load"
    /\ Fault
    /\ \/ loaded /\ loadAfter' = LoadAfter(cache, proc.now)
                 /\ proc' = [proc EXCEPT !.step = "row"] /\ UNCHANGED job
       \/ UNCHANGED <<loadAfter, job>>
          /\ proc' = [proc EXCEPT !.row = NRows + 1, !.step = "msg"]
    /\ UNCHANGED <<now, sheet, loaded, cache, posts, live>>

\* Two timeouts in a row: the rows of an earlier load are used, if there are
\* any.  Any other error ends the processing.
LoadFail ==
    /\ Locked /\ proc.step = "load"
    /\ Fault
    /\ \/ loaded /\ loadAfter' = LoadAfter(cache, proc.now)
                 /\ proc' = [proc EXCEPT !.step = "row"] /\ UNCHANGED job
       \/ UNCHANGED loadAfter /\ Finish
    /\ UNCHANGED <<now, sheet, loaded, cache, posts, live>>

Done ==
    /\ Locked /\ proc.step = "row" /\ proc.row = NRows + 1
    /\ Finish
    /\ UNCHANGED <<now, store, posts, live, faults>>

\* An exception out of the processing: the job tries again, the reconcile
\* leaves the job as it is until the next day.
Unexpected ==
    /\ Locked
    /\ Fault
    /\ proc' = Idle
    /\ job' = IF proc.owner = "job"
              THEN [state |-> "wait", next |-> now + RetryDelay] ELSE job
    /\ UNCHANGED <<now, store, posts, live>>

-----------------------------------------------------------------------------
(* One row.  r is the row, k its next occurrence, t the time at which the  *)
(* processing began.                                                       *)

AtRow(r) == Locked /\ proc.step = "row" /\ proc.row = r
OnRow(r, s) == Locked /\ proc.step = s /\ proc.row = r
NextRow  == proc' = [proc EXCEPT !.step = "row", !.row = @ + 1, !.occ = 0]
Open(r, k, t) == k # 0 /\ Due(r, k) <= t /\ t < Reset(r, k)

NotDue(r) ==
    /\ AtRow(r)
    /\ cache[r].next # 0
    /\ proc.now < Due(r, cache[r].next)
    /\ NextRow
    /\ UNCHANGED <<now, store, job, posts, live, faults>>

\* Mutant: a reminder that is missed is moved on by one more cycle.
CorrectedTooFar(r) ==
    LET k == cache[r].next
        t == proc.now
    IN  IF k = 0 THEN FromAnchor(r, t)
        ELSE IF t >= Reset(r, k) THEN Following(Advanced(r, k, t)) ELSE Following(k)

\* The three ways in which only the schedule of a row is corrected: it was
\* blank, its reset has passed, or the sheet says that this one was posted.
Corrected(r) ==
    LET k == cache[r].next
        t == proc.now
    IN  IF k = 0 THEN FromAnchor(r, t)
        ELSE IF t >= Reset(r, k) THEN Advanced(r, k, t) ELSE Following(k)

\* Mutant: what the sheet says was posted does not count.
ScheduleOnlyUnlessOpen(r) ==
    \/ cache[r].next = 0
    \/ proc.now >= Reset(r, cache[r].next)

ScheduleOnly(r) ==
    LET k == cache[r].next IN
    \/ k = 0
    \/ proc.now >= Reset(r, k)
    \/ proc.now >= Due(r, k) /\ cache[r].sent = k

\* _update_next_scheduled_post, then the record in memory.
Correct(r) ==
    LET c == [cache EXCEPT ![r].next = Corrected(r)] IN
    /\ AtRow(r)
    /\ ScheduleOnly(r)
    /\ sheet' = [sheet EXCEPT ![r].next = Corrected(r)]
    /\ cache' = c
    /\ loadAfter' = LoadAfter(c, proc.now)
    /\ NextRow
    /\ UNCHANGED <<now, loaded, job, posts, live, faults>>

\* The call raised: memory is not changed, the cell perhaps is.
CorrectFail(r) ==
    /\ AtRow(r)
    /\ ScheduleOnly(r)
    /\ Fault
    /\ sheet' \in {sheet, [sheet EXCEPT ![r].next = Corrected(r)]}
    /\ NextRow
    /\ UNCHANGED <<now, loaded, cache, loadAfter, job, posts, live>>

Postable(r) == AtRow(r) /\ ~ScheduleOnly(r) /\ Open(r, cache[r].next, proc.now)

\* Target channel or thread not found.
NoTarget(r) ==
    /\ Postable(r)
    /\ Fault
    /\ NextRow
    /\ UNCHANGED <<now, store, job, posts, live>>

\* The old message goes; a failure to delete it is ignored.
DeleteOld(r) ==
    /\ Postable(r)
    /\ \/ live' = [live EXCEPT ![r] = @ \ {cache[r].msg}] /\ UNCHANGED faults
       \/ cache[r].msg \in live[r] /\ Fault /\ UNCHANGED live
    /\ proc' = [proc EXCEPT !.step = "send"]
    /\ UNCHANGED <<now, store, job, posts>>

Posted(r, k) ==
    /\ posts' = [posts EXCEPT ![r] = Append(@, k)]
    /\ live' = [live EXCEPT ![r] = @ \cup {Len(posts[r]) + 1}]

\* Mutant: memory learns of the post with the sheet.
SendUnrecorded(r) ==
    LET k == cache[r].next IN
    /\ OnRow(r, "send")
    /\ Posted(r, k)
    /\ proc' = [proc EXCEPT !.step = "sent", !.occ = k]
    /\ UNCHANGED <<now, store, job, faults>>

\* Discord takes the message, and memory knows of it before anything else can
\* run (_record_reset_reminder_discord_send_in_memory).
Send(r) ==
    LET k == cache[r].next
        c == [cache EXCEPT ![r] = [next |-> Following(k), sent |-> k,
                                   msg |-> Len(posts[r]) + 1]]
    IN
    /\ OnRow(r, "send")
    /\ Posted(r, k)
    /\ cache' = c
    /\ loadAfter' = LoadAfter(c, proc.now)
    /\ proc' = [proc EXCEPT !.step = "sent", !.occ = k]
    /\ UNCHANGED <<now, sheet, loaded, job, faults>>

\* The call raised, and the message may be there all the same.
SendFail(r) ==
    /\ OnRow(r, "send")
    /\ Fault
    /\ Posted(r, cache[r].next) \/ UNCHANGED <<posts, live>>
    /\ NextRow
    /\ UNCHANGED <<now, store, job>>

\* _update_row_after_send: three cells, one call each.
Cell(r, step) ==
    CASE step = "sent" -> [sheet[r] EXCEPT !.sent = proc.occ]
      [] step = "next" -> [sheet[r] EXCEPT !.next = Following(proc.occ)]
      [] step = "msg"  -> [sheet[r] EXCEPT !.msg = Len(posts[r])]

WriteCell(r, step) ==
    /\ OnRow(r, step)
    /\ sheet' = [sheet EXCEPT ![r] = Cell(r, step)]
    /\ IF step = "msg" THEN NextRow
       ELSE proc' = [proc EXCEPT !.step = IF step = "sent" THEN "next" ELSE "msg"]
    /\ UNCHANGED <<now, loaded, cache, loadAfter, job, posts, live, faults>>

\* The first failure leaves the rest of the row unwritten.
WriteCellFail(r, step) ==
    /\ OnRow(r, step)
    /\ Fault
    /\ sheet' \in {sheet, [sheet EXCEPT ![r] = Cell(r, step)]}
    /\ NextRow
    /\ UNCHANGED <<now, loaded, cache, loadAfter, job, posts, live>>

-----------------------------------------------------------------------------
\* The process is restarted: memory is gone, the tab and the channel stay.
Crash ==
    /\ Fault
    /\ loaded' = FALSE
    /\ cache' = NoRecords
    /\ loadAfter' = None
    /\ proc' = Idle
    /\ job' = [state |-> "off", next |-> None]
    /\ UNCHANGED <<now, sheet, posts, live>>

\* What is ready to run does so within the tick, unless the bot is slow.
Ready == Locked \/ job.state = "off" \/ (job.next # None /\ job.next <= now)

Tick ==
    /\ now < MaxTime
    /\ now' = now + 1
    /\ IF Ready THEN Fault ELSE UNCHANGED faults
    /\ UNCHANGED <<store, proc, job, posts, live>>

RowStep(r) ==
    \/ NotDue(r) \/ Correct(r) \/ DeleteOld(r) \/ Send(r)
    \/ \E step \in {"sent", "next", "msg"} : WriteCell(r, step)

RowFault(r) ==
    \/ CorrectFail(r) \/ NoTarget(r) \/ SendFail(r)
    \/ \E step \in {"sent", "next", "msg"} : WriteCellFail(r, step)

Processing == Load \/ Done \/ \E r \in Rows : RowStep(r)

Next ==
    \/ Processing
    \/ LoadFail \/ Unexpected \/ \E r \in Rows : RowFault(r)
    \/ DueJob \/ Reconcile
    \/ Crash \/ Tick

Spec == Init /\ [][Next]_vars

\* Awaited calls are answered, the daily job comes round, time passes.
FairSpec ==
    /\ Spec
    /\ WF_vars(Processing)
    /\ WF_vars(Reconcile)
    /\ WF_vars(Tick)

-----------------------------------------------------------------------------
PostsOf(r, k) == {n \in DOMAIN posts[r] : posts[r][n] = k}

\* The cells last_sent are a book of announcements: what is recorded was posted,
\* and is not posted again by a retry, a reload, a restart or a reconcile,
\* whatever else of the row was left unwritten.
Book == INSTANCE Announcements WITH Occurrences <- 1..MaxOcc,
                                   recorded <- [r \in Rows |-> sheet[r].sent]
KeepsAnnouncements == Book!Spec

\* Every announcement too many is paid for by a call that failed or a restart
\* between the post and the first cell: ticks, retries and the reconcile that
\* overlap never repeat one by themselves.
RepeatsPaidFor ==
    \A r \in Rows, k \in 1..MaxOcc : Cardinality(PostsOf(r, k)) <= 1 + faults

\* The schedule in the sheet never goes back, and it passes over an occurrence
\* only if that was posted or its reset is over; a first date that the sheet got
\* in a call that raised may be replaced by a later first date.
NeverSkipsOpen ==
    [][\A r \in Rows : sheet[r].next # 0 /\ (loaded => cache[r].next # 0) =>
           /\ sheet'[r].next >= sheet[r].next
           /\ \A k \in sheet[r].next..(sheet'[r].next - 1) :
                  PostsOf(r, k) # {} \/ Reset(r, k) <= now]_vars

\* While every call succeeds and the bot keeps up, each reset is announced
\* before it happens.
PostedInTime ==
    \A r \in Rows, k \in 1..MaxOcc :
        Reset(r, k) <= now /\ faults = 0 => PostsOf(r, k) # {} \/ Lead[r] = 0

\* Once armed, the job is armed or running until the process ends, whoever ends
\* its callback, reloads the rows or arms it for another time meanwhile.
StaysArmed ==
    [][job.state = "run" \/ job.next # None =>
           job'.state \in {"off", "run"} \/ job'.next # None]_vars

\* The schedule in the sheet catches up with the clock, whatever failed.
CatchesUp == <>[](\A r \in Rows : sheet[r].next # 0 /\ Reset(r, sheet[r].next) > now)
=============================================================================
