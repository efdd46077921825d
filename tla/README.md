# Verification of C1C-Bot

TLA+ models of the parts of C1C-Bot where several coroutines share state, the
TLC instances that check them, and TLAPS proofs of their main properties.

The bot is one Python process on one asyncio event loop.  Its durable state is
a set of Google Sheets, which people edit too.  Every call to a sheet is an
await, so between two calls of one command any other command, job or event
handler may run, the call may fail or time out after it took effect, and the
process may be restarted by its watchdog.  That, and not the arithmetic, is
where the bot can go wrong, and it is what the models are about.

Paths below are relative to the repository root (`src/` here).

## 1. Inventory

| Part | State | Operations | Works with | Hard behaviour |
|---|---|---|---|---|
| **Clan-seat reservations** `modules/placement/reservations.py`, `reservation_jobs.py`, `shared/sheets/reservations.py` | the Reservations ledger (one row per hold) | `!reserve`, `reserve release`, `reserve extend`, daily reminder, daily auto-release, unlink of an idle thread | availability, clan rows cache, ledger tab | a conversation of minutes between read and write; blind cell writes by row number; failed and lost calls; restarts |
| **Clan availability** `modules/recruitment/availability.py`, `cogs/recruitment_open_spots.py` | columns E, AF, AG, AH, AI, AJ of each clan's row | preflight, set, adjust, recompute | ledger, cache, clans tab | plans made from cached rows, five separate writes, base taken from the cell that is written |
| **Clan rows cache** `shared/sheets/recruitment.py` | rows, tag index, records | load, row patch | every recruitment panel | a load that overlaps a patch |
| **Sheets read broker** `shared/sheets/read_broker.py` | cache entry, load in flight and generation of each key | `read`, invalidate, `close` | every asynchronous read; pacer; adapter | loads shared by readers, writes racing loads, late callbacks, cancelled readers, retries |
| **Read pacer** same file, `_PriorityPacer` | four queues, one worker, last grant, urgent streak | `acquire`, cancel, worker loop, `close` | broker | fairness against priority, cancel during the sleep, worker ending and starting |
| **Async sheets adapter** `shared/sheets/async_core.py`, `async_adapter.py`, `core.py` | worksheet handles, read scope | reads through the broker, mutations with backoff followed by an invalidation | broker, Sheets | write landed and caller not told; synchronous callers go round the broker |
| **Cache service** `shared/sheets/cache_service.py`, `cache_scheduler.py` | buckets: value, last refresh, shared refresh task | `get`, `invalidate`, `refresh_now`, cron refresh | loaders, scheduler | invalidate during a refresh, joined refreshes, silent failure |
| **Runtime scheduler** `modules/common/runtime.py` | jobs and tasks | `every`, `cron`, `at`, reschedule, shutdown | all periodic features | a due-time job disarmed while its callback runs |
| **Reset reminders** `modules/community/reset_reminders/` | rows of the reminder tab, cached copy, message ids | process a tick, reconcile, panel rollover | scheduler, Discord | message posted before the sheet says so |
| **Welcome and promo tickets** `modules/onboarding/watcher_welcome.py`, `watcher_promo.py` | ticket context, ticket row with a finalization state | close, choose clan, finalize, clean up holds, backfill | reservations, availability, Discord | double finalization, seat deltas lost in a restart |
| **Idle watcher** `modules/onboarding/idle_watcher.py` | ages and reminders of threads | warn, close thread, unlink holds | reservations | several steps, each may fail |
| **Onboarding sessions** `modules/onboarding/sessions.py`, `session_store.py`, `controllers/` | answers, step, panel message | start, answer, resume, submit | sheets, Discord UI | restarts in the middle of a form |
| **Live Arena** `modules/community/live_arena/` | participants, availability, rounds, matches | sign up, withdraw, draw, report, dispute, finalize, close or reopen a round, bracket | sheets, Discord, scheduler | whole-table writes with compensation, checks made before the lock, deadlines |
| **Fusion, leagues, shard tracker, progress guides** `modules/community/` | rows of a feature's tabs | forms, posts, reminders | sheets, Discord | mostly one lock per user or job |
| **Watchdog, de-duplication** `shared/watchdog.py`, `shared/dedupe.py` | last good probe; keys seen in a window | poll; should_emit | runtime | little |
| **Housekeeping, ops** `modules/housekeeping/`, `modules/ops/` | none or small | periodic sweeps | Discord | idempotence |
| **CoreOps, RBAC, help** `packages/c1c-coreops/` | configuration | operator commands | all | pure input and output |

What makes each of the modelled parts correct:

* reservations: a recruit has at most one hold, every hold ends, none ends
  before its last day, and the ledger's history is never rewritten;
* availability: AH is the number of active holds, AF never offers a seat that is
  held, every change of the ledger is followed by a recompute, panels (the
  cache) show what the sheet says;
* broker: a read sees every write acknowledged before it began, reads of one key
  share one load, every read ends;
* pacer: the quota is respected, urgent reads go first without starving NORMAL
  ones, nobody is forgotten;
* cache service: values only move forward, a refresh that reports "ok" has read
  the tab, nothing read before an invalidation is served after it, and the cache
  catches up whatever failed;
* reset reminders: what the tab records is not announced again, no open reset is
  passed over, and the job that wakes them is never left without a next run;
* tickets: a placement is recorded before seats move for it, seats and hold end up
  as the recorded placement says, and a done ticket is not done again;
* tournament: a result moves only as the rules say and is final unless its round is
  reopened, a round closes over final results, what opens next is drawn from the
  results as they are, and what is reported is settled.

## 2. Modules

```
SeatReservations  --implements-->  HoldBook        the reservation ledger
SheetsReadBroker  --implements-->  ReadYourWrites  the read broker
ReadPacer                                          the pacer below the broker
CacheService                                       the buckets above the broker
ResetReminders    --implements-->  Announcements   reminders and their due-time job
TicketPlacement                                    the close of a welcome ticket
ArenaRounds       --implements-->  ResultBook      the rounds of a tournament
MC<module>             instances for TLC
<module>_proofs        theorems
SeatAccounts_proofs    theorems about what SeatReservations keeps beside the ledger
```

### SeatReservations

`ledger` is the Reservations tab, `sheet` the availability cells of each clan
(`manual` = E, `open` = AF, `seen` = AJ, `count` = AH), `cache` the bot's clan
rows, `flow` the coroutines: for each, the operation, the await it stands at
and its local variables.  `refresh` holds the rows that a reload of the clans
tab has read and not yet stored.  Four variables only remember, for the properties:
`pending`, the clans whose ledger rows changed after their last complete recompute;
`behind`, the coroutines whose count of a clan's rows the ledger has overtaken since
they took it; `stale`, the clans whose AH was last written from such a count; and
`phantom`, rows that a command left behind while it reported that nothing was changed.
In the same way `book` in a coroutine is the ledger as it last searched it.

An action is the code between two awaits that touch a sheet:

| Action | Code |
|---|---|
| `ReserveStart`, `ReserveCount`, `ReserveConfirm`, `ReserveCheck`, `ReserveAppend` | `reserve`: preflight, count, conversation, duplicate check, append |
| `ReleaseStart`, `Mark`, `AdjustPlan`, `AdjustWrite`, `AdjustPatch` | `_handle_global_release`: status cell, then +1 through `adjust_manual_open_spots`, then a recompute |
| `ExtendStart`, `ExtendWrite` | `_handle_global_extend` |
| `SetSpots` | `set_manual_open_spots` |
| `ReminderStart`, `AutoreleaseStart`, `UnlinkStart` | the two daily jobs, `release_reservations_for_thread` |
| `RecomputePlan`, `RecomputeCount`, `WriteOpen`, `WriteSeen`, `WriteCount`, `RecomputePatch` | `recompute_clan_availability`, one action per written cell |
| `RefreshRead`, `RefreshStore` | `_load_clans_async` |
| `...Fail`, `ReserveAbort`, `Crash` | a call that raises (and, with `LostReplies`, may have landed), an ended conversation, a restart |
| `ManualEdit`, `NextDay` | a clan lead's edit of column E; the date |

The looked-up row and the start of a command are one action in `ReleaseStart`
and `ExtendStart`, since nothing before the lookup is used after it.  Names, free
text, the AI summary and the AG column are left out, the conversation is one
choice of a last day, and the row of a plan is its four numbers.

**HoldBook** is what the tab promises: rows are only appended, always active,
keep recruit and clan, may be closed and postponed, and never come back to life.

### SheetsReadBroker and ReadYourWrites

A resource (a read of a tab) has a version number that grows with every write.
`cache`, `inflight` and `generation` are the broker's dictionaries, `loads` is
every load task ever created, so that detached loads and their late callbacks
remain in the picture, `readers` are logical reads, each made once, `writers`
are mutations.  `acked` is the newest version whose writer has been told.

| Action | Code |
|---|---|
| `ReadFresh`, `ReadStale`, `ReadMiss` | `read` and `_get_or_create_refresh`; `required` stands for `FRESH_REQUIRED` |
| `ReadReturn`, `ReadCancel` | `await asyncio.shield(task)` |
| `LoadSample`, `LoadStore`, `LoadFail` | `_execute_physical` and `_refresh` |
| `RefreshDone` | the done callback |
| `WriteLand`, `WriteReturn`, `WriteLost` | `acall_with_backoff` with `_invalidate_after_mutation`; a lost write is also an edit by a human |
| `Tick` | the clock, for the fresh and stale bounds of the policy |

The broker's lock is never held over an await that suspends, so what runs under
it is one action.  **ReadYourWrites** knows no cache: a read answers with any
version between the newest one acknowledged when it began and the newest one in
the sheet.  `LogicalReads`, the readers without the load they wait for, is the
refinement mapping.

### ReadPacer

`queue`, `streak` and `closed` are the pacer's fields, `gap` the time since the
last grant, `hand` the waiter that the worker took off its queue and is sleeping
for, `waiting` the waiters whose future is open.  A cancelled waiter stays in
its queue until the worker skips it.  `passed` is a history variable: urgent
grants in a row made while a lower-priority waiter was queued.  The worker yields
only in its sleep, which the guard `Yielded` of every other action says.

### CacheService

`sheet` is the version of the tab behind each bucket, `bucket` the fields of
`CacheBucket`, `task` the `_refresh` coroutines, `call` the coroutines that await
`refresh_now`, and `due` (history) the version that the last invalidation asked for.

| Action | Code |
|---|---|
| `GetMiss` | `get` on an old, invalidated or missing value: `_ensure_refresh_task`, and nobody waits |
| `CronRefresh`, `CommandRefresh` | `refresh_now` of the periodic job, and of a command, panel or preload |
| `Cancel` | the caller of `refresh_now` is cancelled; `asyncio.shield` keeps the task |
| `Invalidate` | `invalidate` |
| `LoaderReads`, `RefreshSucceeds`, `LoaderFails`, `Retry` | `_refresh` between its awaits |
| `Edit`, `Tick` | a change of the tab, the clock |

A task that ends sets `last_result` and wakes all who wait for it before another
refresh of the bucket can end, so `Finish` hands the result to the callers in the
same step.  `cache_scheduler.py:294-307` would stop the preload on a quota error; no
path sets the condition, so it is not an action.

### ResetReminders and Announcements

A cell of the tab holds the number of an occurrence.  `sheet` and `cache` are the
rows in the tab and in memory, `loadAfter` the time until which memory serves, `proc`
the one processing that holds `_PROCESS_LOCK`, `job` the due-time job with its next
run, `posts` and `live` the messages ever sent and those that stand in the channel.

| Action | Code |
|---|---|
| `DueJob`, `Reconcile` | `_DueJob` calls its callback; `reconcile_reset_reminder_jobs` at start-up and daily |
| `Load`, `LoadFail` | `_load_reset_reminder_records_resilient` |
| `NotDue`, `Correct`, `CorrectFail` | the branches of a row that post nothing, with `_update_next_scheduled_post` |
| `NoTarget`, `DeleteOld`, `Send`, `SendFail` | channel, old message, new message and the record in memory |
| `WriteCell`, `WriteCellFail` | the three cells of `_update_row_after_send`, one call each |
| `Done`, `Unexpected` | the end of the processing: the job is armed again |
| `Crash`, `Tick` | a restart; the clock |

**Announcements** is the book the tab keeps for a channel: an occurrence may be
announced until it is recorded, only announced ones are recorded, and records only
grow.  The mapping takes `posts` and the `sent` cells.

### TicketPlacement

One ticket.  `row` is its row of the Welcome tab, `hold` the recruit's reservation,
`seats` the net seats moved for each clan, `context` the in-memory ticket, `prompt`
the clan picker, `shut` and `auto` the thread and the idle watcher's stamp, and
`job` the handlers that are under way.

| Action | Code |
|---|---|
| `ToolClosed`, `ThreadUpdate`, `Message` | the event handlers of the watcher |
| `Select`, `PromptExpires` | the clan picker |
| `AutoClose`, `AutoFinalize`, `Release` | `auto_close_for_inactivity` and what the idle watcher does after it |
| `Backfill`, `BackfillRow`, `BackfillUnresolved` | `run_close_backfill` |
| `ManualRow`, `ManualRowFail`, `ManualAdd` | `_handle_manual_close` |
| `CloseRow`, `CloseMark`, `CloseUnmarked`, `ClosePrompt` | `_handle_ticket_closed` |
| `Check`, `Mark`, `Reread`, `Look`, `LookFail`, `Write`, `SettleHold`, `Adjust`, `Adjusted`, `Confirm`, `ConfirmFail`, `Stamp` | `_finalize_clan_tag`, one action per awaited call that matters |
| `Refuse`, `FailMark` | its early failures, which mark the row |
| `Crash` | a restart |

`Decision` is `_determine_reservation_decision`.  A seat change counts once its call
returned; what the call does to the cells is `SeatReservations`' subject.  What the
model shows about the code and a reader may not expect: nothing looks at
`in_progress` when a finalization starts; a read of the row that fails can pass for an
empty answer, see below; a failed look-up of the reservations counts as "none"; a failed hold write makes the result `partial`, so the backfill repeats the
seat changes, while a restart between seat change and stamp loses or repeats them; a
failed read marks even a done row `failed`; a manual close that cannot read the row
inserts it, which sets its status back to open; the idle watcher stamps the session
before it closes the ticket, so a restart in between leaves the ticket open for the
backfill alone.

Three reads swallow their failure, and `spent.unread` counts them, apart from being
faults.  `_finalization_state_from_welcome_row` returns an empty state, so a done ticket
is prompted for or listed again (`TakenAsOpen`, `Backfill`); and the upsert of
`append_welcome_ticket_row` that cannot read the row writes it as if it were new, with
an outcome of pending and the clan it was given, none in a manual close (`Upsert`).  So
one failed call takes a placement off the record whose seats have moved, and the next
answer finds no former placement to give back.  `RecordedFirst` and the second half of
`DoneIsFinal` therefore hold until such a read, and no longer; that a done ticket
moves no seats and keeps its hold holds in spite of it, because `_finalize_clan_tag`
reads the state once more, by a call that does raise, before it does anything.  The
fault pays for the loss in `SeatsPaidFor`.

Assumed: every clan has a row in the clans tab, the row's clan is blank at first,
and the hold belongs to the ticket's own thread.  Left out: unknown tags and failed
loads of the tag list (no state changes), the daily expiry of the hold during the
finalization, the `row_missing` result, and whole-row writes
(`shared/sheets/onboarding.py:1780`), which are taken as updates of the fields they
mean to change.

### ArenaRounds and ResultBook

`rounds` and `matches` are the tables ROUNDS and MATCHES of a tournament's workbook,
`left` the withdrawn participants, `timer` the finalizer task of each match, `tab` what
runs in a read scope, with the copy that the scope remembers, `startup` the copy of the
scope in which the bot starts and restores its timers.  `spoilt` and `revised`
are history variables: an outdated copy has been written, and rounds ever reopened.

| Action | Code |
|---|---|
| `Begin`, `Abandon` | a button of the match thread: the match is looked up in a read scope, then Discord and the lock are waited for |
| `ReportResult`, `ConfirmResult`, `DisputeResult` | the three handlers of players, with the timer they set or cancel |
| `FinalizeMatchIfDue`, `FinalizeInScope`, `FinalizeRestored` | `_finalize_when_due` in a task that reads for itself, in one that inherited the scope of a report, and in one that inherited the scope of the start |
| `StartupRead`, `RestoreFinalizers`, `Restart` | the first read of the tables in the scope of the start (`register_live_arena`), `restore_pending_result_finalizers`; a restart |
| `ResolveMatch`, `ReplayMatch` | `resolve_match`: accept, correct, forfeit, double forfeit, replay |
| `ExtendRound`, `CloseRound`, `ReopenRound` | `extend_with_confirmation_windows`, `close_round`, `reopen_round` with the conditions of their buttons |
| `Withdraw` | `withdraw_atomic` |
| `GeneratePreview`, `DemoteApproved`, `ApprovePreview`, `PublishApproved` | `swiss.py` and `swiss_refresh.py` |
| `BeginSync`, `SyncPreview` | the sync after a mutation with its `_reconcile_preview` |

An operation holds the tournament's lock from its first read to its last write, so it is
one action, with three outcomes where the write raises: it did not land, it landed, or
the compensating write restored what the operation had read (`Raise`).  A table is
written whole, from the top: rows that a copy does not have stay (`OverMatches`).

The exception is a read scope (`sheet_read_scope`), which remembers the first read of a
table, and which the tasks created in it inherit.  The handlers of players look their
match up before they wait for the lock, so the ROUNDS and MATCHES they use and write back
under it are that older copy; the sync reads everything before; a restored timer works on
the tables as they were at the start.  `Copy`, `CopyAll`, `Overwrite` and
`FinalizeRestored` model this, and `Outdated` says when the copy is behind.  A scope
reads the two tables one after the other; the model makes that one step.  What the model shows about the code and a
reader may not expect:

* A handler that waited for the lock undoes what was written meanwhile: a second
  report in the same round, a withdrawal or an extension of the confirmation windows
  can vanish from MATCHES, and a confirmation writes ROUNDS back too.  No promise about the tables survives that, so they are
  stated up to the first such write (`spoilt`), and `Next` stops there.
* A timer that a report creates inherits the scope and finalizes nothing
  (`arena_v_automatic`).  Only an extension of the round sets a timer that reads for
  itself.
* The timers restored after a start (`runtime_hooks.py:384`) inherit the scope of
  `register_live_arena`.  Each settles its match in the tables as that scope read them
  and writes both back: what was ruled, forfeited, drawn or closed since the start is
  undone, and so is what another restored timer has settled.  The first of them keeps
  the books where nothing was written since the start; after that the copy is outdated,
  and `spoilt` says so.
* The regeneration that follows a demotion in a sync does nothing, since the scope
  still shows the round as approved; the next sync, or an organizer, does it.
* A round in correction does not count as live in `reopen_round` (`competition.py:268`),
  so an earlier round can be reopened beside it.  Then two rounds could be closed, and
  the button, which wants exactly one, refuses both (`CloseRound`).

The button of `CloseRound` looks at the tables just before the lock is taken; the model
does so under it.

**ResultBook** is what the two tables promise.  A match is unplayed, reported, contested
or final; `Lawful` says where it may go, a final result moves only while its round is
in correction, and `Shift` closes a round over final results only.

## 3. What the runs check

Runs that must pass:

| Run | Instance | Properties |
|---|---|---|
| `seat_serial` | one coroutine at a time, 1 clan with 1 or 2 seats, 2 recruits, 4 commands, 2 days, one failed call, one restart (799 738 states) | `EveryChangeRecomputed`, `NeverOversold` |
| `seat_overlap` | two commands, jobs, watcher or reload side by side, 1 seat, 1 recruit, 2 days, one failed call that may have landed, one restart (776 852 states) | `TypeOK`, `CountAgrees`, `SecondHoldUnseen`, `EarlyExpiryUnseen`, `KeepsHoldBook` |
| `seat_live` | fair, three coroutines, 3 days, an edit of E, one failed call that may have landed, one restart (268 913 states) | `HoldsEnd` |
| `pacer` | fair, 3 waiters, burst limit 2, interval 2, may be closed | `TypeOK`, `BurstBounded`, `NobodyForgotten`, `Paced`, `NormalServed` |
| `broker` | fair, 2 keys of a tab, 2 readers, 1 writer, 2 attempts (233 956 states) | `TypeOK`, `SingleFlight`, `SeesWrites`, `CacheNeverRegresses`, `ImplementsReadYourWrites`, `EveryReadEnds` |
| `cache` | fair, 1 bucket, its job and a command, 2 tasks, 2 edits, 3 failed loads (840 495 states) | `TypeOK`, `RefreshHonest`, `HitAfterInvalidate`, `NeverRunsBack`, `Converges` |
| `reminders` | fair, 2 rows of different cycle and lead, 8 ticks, 3 faults (269 221 states) | `TypeOK`, `RepeatsPaidFor`, `PostedInTime`, `KeepsAnnouncements`, `NeverSkipsOpen`, `StaysArmed`, `CatchesUp` |
| `tickets` | 2 handlers side by side, 2 clans, any 3 events, 2 failed calls or restarts (3 907 242 states) | `TypeOK`, `SeatsPaidFor`, `RecordedFirst`, `StartedIsFinished`, `DoneIsFinal` |
| `arena` | fair, 2 rounds of a match, one handler or sync in a scope, a participant who may withdraw, 2 ticks, 1 failed write or restart, 1 reopening, replay or withdrawal (397 294 states) | `TypeOK`, `DrawnFromResults`, `KeepsResultBook`, `SettledAfterRestart` |

Runs that must find a violation, each of a sentence in the documentation or the
code that the code does not keep (quoted under "findings" in `PROJECT.json`):

| Run | Property | What happens |
|---|---|---|
| `seat_v_effective` | `EffectiveSeats` | AF is E - R after the first recompute only: each further one starts from AF and subtracts R again |
| `tickets_v_settled` | `PlacedMeansSettled` | no call fails, two handlers finalize one ticket, and both move its seats |
| `arena_v_automatic` | `FinalizesAutomatically` | nothing fails, nobody disputes, and the timer of a reported result sees the match as it was before the report |

Further disagreements, each one constant or one property away from a run above:

* The due-time job of the reminders, in `reminders`: when the first load after a start
  fails, `reconcile_reset_reminder_jobs` arms it for no date or leaves before it exists
  (`scheduler.py:1246`), so it has no next run until the next day's reconcile, though
  the comment at `scheduler.py:1261` wants a bounded retry "instead of leaving this job
  silently disarmed".  `StaysArmed` is what holds: once armed, the job stays so.
* `EveryChangeRecomputed` with the operation "unlink" in `seat_serial`: the idle
  watcher's unlink recomputes nothing (`docs/modules/Recruitment.md:67-69`).
* That AH is the number of active holds at rest: a recompute writes a count that
  another coroutine has overtaken (`docs/adr/ADR-0020` line 17 wants it recomputed).
  `CountAgrees` is what holds.
* That a hold is not expired before its day (`EPIC_ClanSeatReservationSystem.md:193`):
  one that is extended during the auto-release run is.  `EarlyExpiryUnseen` is what
  holds.
* That a recruit has one hold (`placement_reservations.md:8`): two commands both pass
  the duplicate check, or an append that landed is retried.  `SecondHoldUnseen` is
  what holds.  All three are reached in `seat_overlap`, without a fault or restart.
* `NoPhantomHold` with an append whose reply is lost: "No changes were made"
  (`modules/placement/reservations.py:1036`), and the row is there.
* `SyncFresh` of `CacheService`: `_ensure_fresh_clans_for_placement` asks for a
  "sync-fresh clans bucket before placement seat math"
  (`modules/onboarding/watcher_welcome.py:101`), but `refresh_now` joins a refresh
  that may have read the tab before the request.  `RefreshHonest` is what holds.

Three more things the instances leave out on purpose, because there the
property does not hold; each is one constant away from a run of the first table:

* That a cached clan row is what the bot last wrote or read, with a reload beside a
  recompute (`MaxActive = 2`): the reload stores the row it read before the patch, for
  up to the three hours of the cache.
* `NeverOversold` with `MinSeats = 0` or with an edit of E: a hold on a clan with
  no seat left AF at its floor 0, so its release makes AF 1 with E = 0.
* `NobodyForgotten` after `Close`: the waiter that the worker has in its hand is
  in no queue, and nobody resolves its future.  The effect in the bot is small:
  only the reader of a load detached by an invalidation can be hit, and `close`
  is called by tests alone.

`Calm` in two properties means that no call has failed and the bot was not
restarted: a failed recompute is logged and not repeated, so what it leaves
behind is only bounded by `CountAgrees`, which has no such condition.

`availability.py` and `reservations.py` have no lock per clan or per recruit, so the
plain rules (one hold, no early expiry, a right count) are lost when coroutines
overlap.  Three properties say exactly how, and that nothing else breaks them, whatever
overlaps, fails, lands late or restarts:

* `SecondHoldUnseen`: every row is appended by a command that has looked, and a hold
  the recruit has by then was appended after the look.
* `EarlyExpiryUnseen`: a hold that ends early had its last day moved after the job
  listed it.
* `CountAgrees`: at every step, not only at rest, AH is the number of active rows of
  each clan that is not owed a recompute (`pending`) and whose AH was not written from
  a count overtaken in between (`stale`).

The history of the ledger survives every interleaving as it is, and so does the rule
that each change is followed by a recompute.

### Bounds

Every constant of an instance is in its `.cfg`.

* Reservations: the properties relate one clan with its holds, or one recruit
  with its holds; cells of two clans share nothing but the ledger's row numbers.
  One clan with two recruits gives two holds that meet in one count; in `seat_overlap`
  the second hold is the same recruit's, from a race or a lost reply.  `MaxActive`
  bounds the coroutines in progress (a reload counts as one): 1 is the serial
  case, 2 gives every pair of operations, 3 adds a reload or a job.  The races
  need two; for any number of coroutines there are the theorems.  With one seat and
  two holds the floor of AF is met.
  `MaxDay` stands for every later day, so overdue holds of a missed day happen.
  `MaxFaults`, `MaxCrashes`, `MaxEdits` and `MaxCommands` bound what the
  environment does; one fault or crash reaches every step of every operation.
  Not covered: two faults in one behaviour, three commands in an overlapping one,
  three clans.
* Broker: two readers are the creator of a load and one who joins it or starts the
  next; the writer detaches a load whose end then meets its successor.  More readers
  are covered by the theorems, which hold for any number.  Keys of different tabs are
  independent, two keys of a tab are not.  Ages run
  up to `StaleTtl`, beyond which they make no difference.  Readers and writers
  are used up, so the instances stop (`CHECK_DEADLOCK FALSE`); a second read of
  one reader is a read of another one.
* Pacer: the burst limit is 2 instead of 8, the interval 2 ticks: the rule
  compares the streak with the limit only.  Of three waiters two keep a burst
  going, since each may ask again and again, and one is left behind.  The closed
  pacer stops (`CHECK_DEADLOCK FALSE`).
* Cache: buckets share nothing, so one is enough.  Two callers are one who starts a
  refresh and one who joins it; two tasks are one that runs and one whose end its
  bucket has not seen.  Three faults make a refresh fail, its retry fail, and the next
  one fail once.
* Reminders: rows are independent but for the lock, the load and the job's single
  due time; two rows make the earlier and the later due time differ, with cycles 4
  and 5 and leads 2 and 1.  Eight ticks contain two occurrences of each row and a
  reset that passes unposted.  A slow tick spends a fault.
* Arena: two rounds of a match are one played and one drawn from it; several matches of
  a round meet only in its completion, which `arena_v_automatic` has two for.  One
  handler in a scope is enough, since a second one that overtakes it makes the first
  outdated as an organizer does.  `MaxRevisions` bounds reopenings, replays and
  withdrawals together, `MaxFailures` failed writes and restarts, and the behaviour
  ends after a write of an outdated copy (`~spoilt` in `Next`).  One of each is enough to
  correct a closed round under a drawn one, and to restart while a result is pending.
* Tickets: two clans are the held or former one and the new one.  Two handlers side by
  side give every pair; one handler with five events and four faults was checked too
  and shows the same properties without an overlap.

### Fairness

* `seat_live`: the event loop resumes each coroutine (`WF` of `Progress(f)`; the
  conversation has a timeout, the sheet calls raise or return), days pass, and
  the daily loop wakes up.  Nothing is assumed about commands or about edits.
* `broker`: a physical read returns or raises, since the adapter runs it
  with a timeout; the pacer grants it; the loop resumes a reader whose load is
  over.  Writers, new reads and the clock are not fair.
* `pacer`: the loop runs a created worker and one whose sleep is over,
  and time passes.  Waiters are not fair: they may come back for ever.

* `cache`: a loader call returns or raises, a sleep ends, and the job of a bucket comes
  round again.  Commands, `get` and edits are not fair.
* `reminders`: the event loop resumes the processing, the daily reconcile comes
  round, and time passes.  The due-time job itself is not assumed fair: `CatchesUp`
  is carried by the reconcile, which is what the code relies on after a failed start.
* `arena`: the event loop runs a finalizer whose time has come, the read of the tables
  at the start and the restoration after it, and time passes.  Nothing is assumed of players and organizers.
* `tickets` states no liveness: every finalization is started by a person, the idle
  watcher or the operator's backfill.

HIGH may starve behind CRITICAL, and BACKGROUND behind NORMAL: after a burst the
code grants the first non-empty of NORMAL and BACKGROUND.  `NormalServed` is
therefore about NORMAL only.

## 4. What is proved

For every value of the constants that satisfies the named assumptions
`SeatAssumption`, `BrokerAssumption`, `PacerAssumption`, `CacheConstants`,
`ReminderConstants`, `TicketAssumption`, `ArenaAssumption`:

| Theorem | States |
|---|---|
| `SeatReservations_proofs!TypeCorrect` | `[]TypeOK` |
| `SeatReservations_proofs!KeepsBook` | `KeepsHoldBook`: the refinement of HoldBook |
| `SeatReservations_proofs!SecondHoldsAreRaces` | `SecondHoldUnseen` |
| `SeatAccounts_proofs!ChangesAreRecomputed` | `[]EveryChangeRecomputed` without the idle watcher's unlink, which recomputes nothing |
| `SeatAccounts_proofs!EarlyExpiriesAreRaces` | `EarlyExpiryUnseen` |
| `SeatAccounts_proofs!CountsAgree` | `[]CountAgrees` |
| `ReadPacer_proofs!TypeCorrect`, `BurstsAreBounded`, `GrantsArePaced` | `[]TypeOK`, `[]BurstBounded`, `Paced` |
| `ReadPacer_proofs!NoReadForgotten` | `[]NobodyForgotten` |
| `SheetsReadBroker_proofs!TypeCorrect`, `ReadsAreCoalesced`, `ReadsSeeWrites`, `CacheMovesForward` | `[]TypeOK`, `[]SingleFlight`, `[]SeesWrites`, `CacheNeverRegresses` |
| `SheetsReadBroker_proofs!BrokerImplementsReadYourWrites` | the refinement of ReadYourWrites |
| `CacheService_proofs!TypeCorrect`, `OkMeansRefreshed`, `HitsAreInvalidated`, `ValuesMoveForward` | `[]TypeOK`, `[]RefreshHonest`, `[]HitAfterInvalidate`, `NeverRunsBack` |
| `ResetReminders_proofs!TypeCorrect`, `JobStaysArmed` | `[]TypeOK`, `StaysArmed` |
| `ResetReminders_proofs!AnnouncementsKept`, `RepeatsArePaidFor` | `KeepsAnnouncements`, the refinement of Announcements, and `[]RepeatsPaidFor`, if no row's lead is longer than its cycle |
| `ResetReminders_proofs!ScheduleNeverSkips`, `ResetsPostedInTime` | `NeverSkipsOpen`, `[]PostedInTime` |
| `TicketPlacement_proofs!TypeCorrect`, `SeatsAfterRecord`, `NothingHalfDone`, `DoneStays` | `[]TypeOK`, `[]RecordedFirst`, `[]StartedIsFinished`, `DoneIsFinal` |
| `TicketPlacement_proofs!SeatsPaidForSerially` | `[](Serial => SeatsPaidFor)`: as long as no handlers overlapped |
| `ArenaRounds_proofs!TypeCorrect`, `DrawsMatchResults` | `[]TypeOK`, `[]DrawnFromResults` |
| `ArenaRounds_proofs!KeepsBook` | `KeepsResultBook`, the refinement of ResultBook |

How they go:

* **SeatReservations.** `Inv` is `TypeOK` and `AllFit`: every coroutine that is
  about to write a ledger row points at a row that exists (rows are never
  removed), and a step is only reached with the locals it uses.  Without it a
  blind write could leave the type of the ledger.  `KeepsBook` needs nothing
  more: `StepIsBook` maps each step to `Enter`, `Close`, `Postpone` or a stutter.
  `SecondHoldsAreRaces` adds `Checked`: every active row of the recruit of a coroutine
  that is about to append stands beyond the end of the book it has searched.  A step
  gets there from the check with none at all (`CameFrom`), and afterwards a row of the
  book neither changes its recruit nor becomes active again (`RowsStay`).  Only the two
  append actions make the ledger longer (`OnlyAppendsGrow`).
* **SeatAccounts.** What every theorem needs is `Tidy`: which errand a coroutine of
  each operation is still on, and for a release or an expiry, whose rows it closes.
  `ChangesAreRecomputed` adds `Covered`: a clan with an unaccounted change is owed a
  recompute by some coroutine, as its clan in hand or one of its `clans` to come
  (`Owed`); only the last write of a recompute takes a clan off both lists, so
  interleaving does no harm.  `EarlyExpiriesAreRaces` adds `DueOK`: in the book of the
  auto-release job the rows it has still to close are due, and that is all the job goes
  by.  `CountsAgree` adds `CountOK`: a coroutine that is not `behind` has counted what
  its clan holds (`CountRight`), up to the end of its recompute, and AH is right in
  every clan that neither `pending` nor `stale` names.  A step is quiet, moves the rows
  of one clan, writes AH or ends a recompute (`Quiet`, `RowsMove`, `CountWrite`,
  `Ended`), and none of the four spoils the others' counts (`OthersStayRight`).
* **SheetsReadBroker.** `Inv` adds to the types: `TableOK` (a load in the table
  has the key's current generation, and a running load of the current generation
  is in the table), `WritesOK` (nothing is acknowledged, and nothing has landed,
  that is not in the sheet), `ValuesOK` (a load of the current generation that
  has sampled, and a cached entry, are no older than `acked`, and the load is no
  older than the entry: an invalidation re-establishes this by dropping the entry
  and moving the generation on), `OneEntry`, and `ReadsOK` (a waiting reader's
  load exists, is a load of its key, and will answer with at least the reader's
  floor).  `SingleFlight` follows from `TableOK`, `SeesWrites` from `ReadsOK`,
  `CacheNeverRegresses` from `ValuesOK`, and the refinement from `ReadsOK` with
  `WritesOK`.
* **ReadPacer.** `Inv` adds `HandOK` (at most one waiter in the hand, whose delay
  is what is missing from the interval, and a worker that runs with a full hand
  has waited) and `BurstOK` (`passed` is at most `streak`, and below the limit
  when an urgent waiter is in the hand).  `Paced` follows from the first,
  `BurstBounded` from the second.  `NoReadForgotten` needs `Kept`: a waiting
  waiter is in a queue or in the hand, and a pacer without a worker has empty
  queues; it is proved for every step that leaves the pacer open.

* **CacheService.** `Inv` ties the two sides of a refresh together: a running task is
  the `refreshing` one of its bucket (`TaskOK`), a bucket names only a running task of
  its own (`BucketOK`), and whoever waits, waits for one of those (`CallOK`).  So reads
  and stores of a bucket alternate, which gives `NeverRunsBack`; values, reads and dates
  are each bounded by the version of the tab and by `due`, which gives the others.
* **ResetReminders.** `Inv` adds to the types what the processing knows at each step
  (`ProcOK`), that a row's memory is not behind its cells (`RowOK`), and that an armed
  job has a scheduled row in memory to be armed again from (`ArmedOK`, `OwnerOK`): that
  is why only the first load can leave the job without a next run.  `AnnouncementsKept`
  maps a send to `Announce`, the first cell to `Record` and everything else to a
  stutter.  With a lead longer than the cycle a blank row could be scheduled for an
  occurrence before the recorded one, hence its condition, which the code does not
  validate.
  `RepeatsArePaidFor` (`PaidFor`): the extra post is free only until the first cell
  says so (`Entered`); what separates post and cell is a fault.  `ScheduleNeverSkips`:
  what a row in memory is ahead of its cell by was posted or is over, and what it is
  behind by was over when this processing began (`AheadOK`, `Passed`) or is the one
  occurrence just sent; and what a cell records was posted (`KnownOK`).
  `ResetsPostedInTime`, while nothing has failed: the job is armed for the earliest
  due row, and the clock does not pass it (`WakeOK`); everything behind a row's
  schedule was posted, and nothing ahead of it is overdue unless the processing under
  way has not come to it (`TimelyOK`, `Handled`).
* **TicketPlacement.** `Inv` adds `SerialOK` (without an overlap one handler is under
  way, and what it read of the outcome still holds), `RecordOK` (a handler past the
  write finds a placement in the row, as long as no failed read passed for an empty
  answer or no other handler could have blanked it: `Kept`) and `ProgressOK` (undisturbed, nothing has
  failed and a row in progress has its handler).
  `SeatsPaidForSerially` keeps books (`SeatOK`).  `Off` is how far each clan's seats
  are from what the hold and the recorded placement call for, and the `Debt` is the
  sum of their magnitudes (`Size`), one more if a recorded placement left its hold
  active.  The books balance at two per fault, but a handler under way has moved only
  a part of the seats; what is bounded then is the `Outlook`: the debt there will be
  once the deltas it has decided on are applied.  A restart in the middle drops those
  deltas, and moves the debt by one per delta, which the fault pays for; a third
  delta occurs only where the former placement and the hold are given back together,
  and is booked in advance (`Rest`).  A row overwritten without its placement costs two
  as well, like any other change of the placement (`Recorded`).  `DecisionEffect` is the lemma about
  `_determine_reservation_decision` that the argument turns on: its deltas take what
  is off to zero, whatever clan was held, recorded and chosen.
* **ArenaRounds.** `Inv` is the types and, until an outdated copy is written, `Sound`:
  the state of each match fits the status of its round (`Consistent`), live rounds
  are drawn from the results as they are (`DrawnFor`), and a round in correction is on
  record as reopened (`Reopened`); and a restored timer has the copy of the start to
  work on (`StartupOK`).  A step is proved `Fit`: it keeps `Sound` and is a step that the book allows.  Each write has
  three outcomes, so a lemma about what landed is shared by the success, the
  failed write and its compensation, and an up-to-date copy, of a handler or of the
  start, writes what a read under the lock would have written.  `Consistent` is needed for both theorems: a
  closed round's matches are final and stay so because only its reopening lets them
  move, and with `Reopened` that withdraws the claim about the rounds drawn from it.

Only model-checked: `NeverOversold`, which depends on the serial run of `seat_serial`
and is not a promise of the code beyond it; the liveness properties (`HoldsEnd`, `EveryReadEnds`,
`NormalServed`, `Converges`, `CatchesUp`, `SettledAfterRestart`), since the prover has
neither fairness with `ENABLED` nor induction over it; and `SeatsPaidFor` once
handlers of a ticket have overlapped, where the theorem says nothing.  There a handler
charges three seats: it may decide from a hold and a former placement that another
one gives back as well, and place its own seat besides.  Two per overlap are enough
for few handlers and fail for six, so three is what the property says;
`tickets` checks it for two handlers side by side.

Few theorems have a hypothesis.  `ChangesAreRecomputed` leaves out the unlink, which
breaks the rule; a lead longer than the cycle breaks `KeepsAnnouncements`; and
`RepeatsPaidFor` takes its condition on leads from that refinement, which its proof
uses: TLC found no violation with a lead of six cycles.

Proofs that need induction over data or recursive operators are out of reach of
the installed provers and none of the modules needs them.

## 5. Not modelled

The parts marked `not_modelled` in `PROJECT.json`, each with its reason.  Within the
modelled parts:

* reservations and availability: column AG, which a recompute writes back from the
  cached row, and the resolution of headers and columns from the Config tab;
* broker: `close`, `wait_for_idle`, the exact-key invalidation and the telemetry; a
  read keyed by the position of a tab, which an invalidation by title does not reach;
  synchronous reads and writes that go round the broker;
* scheduler: cron specs, jitter, shutdown and the web server;
* reminders: the signature panel;
* tickets: their creation, clan roles and nicknames, and the promo flow, whose close
  is a copy of the welcome one with other outcomes;
* tournament: registration, pairing and byes (with `bye_support.py`, which writes
  without the lock), scheduling problems and imposed times, the knockout stage,
  `correct_final_result`, and Discord threads and messages.

## 6. Plan

What is left, the most valuable first:

1. `ArenaRegistration`: capacity and the sign-up window, checked before the lock and
   used under it, with the compensating write of PARTICIPANTS and AVAILABILITY; then
   the knockout bracket, composed with `ArenaRounds` through the qualified players.
2. Standings and the Swiss pairing as functions, checked against reference definitions
   over all small tables.
3. `PacedBroker`, which composes `SheetsReadBroker` and `ReadPacer`: a joined load keeps
   the priority it was started with, and `close` meets a detached load.
4. `TicketPlacement` composed with the ledger through HoldBook, so that the daily expiry
   meets the finalization; then the promo flow.
5. Onboarding sessions: answers in memory and in a sheet over restarts.
6. `SeatsPaidFor` as a theorem about overlapping handlers, whose books would have to be
   kept per handler.
