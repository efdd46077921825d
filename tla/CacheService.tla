---------------------------- MODULE CacheService ----------------------------
(***************************************************************************)
(* The bucket cache of shared/sheets/cache_service.py, with the jobs of    *)
(* cache_scheduler.py and the callers that refresh a bucket before they    *)
(* count seats.  A bucket keeps the last value of its loader and serves it *)
(* while it is young; a miss starts a refresh in the background and serves *)
(* what is there; refresh_now starts a refresh, or joins the one that      *)
(* runs, and waits for it.  A failed refresh raises nothing: it leaves its *)
(* mark in last_result, which the caller has to read.                      *)
(*                                                                         *)
(* The data of a bucket is a version number: sheet[b] grows with every     *)
(* change of the tab, whoever makes it.                                    *)
(***************************************************************************)
EXTENDS Integers, FiniteSets

CONSTANTS Buckets,     \* names of registered buckets
          Callers,     \* coroutines that await refresh_now, one call at a time
          Cron,        \* [Buckets -> Callers]: the job of each bucket
          Tasks,       \* refresh tasks that may exist at once
          None,        \* no task, no value, no date
          TTL,         \* ticks of the clock for which a value is served
          MaxVersion,  \* bound on changes of a tab
          MaxFaults    \* bound on failed loader calls

ASSUME CacheConstants ==
    /\ TTL \in Nat \ {0}
    /\ MaxVersion \in Nat
    /\ MaxFaults \in Nat
    /\ Cron \in [Buckets -> Callers]
    /\ None \notin Tasks
    /\ None \notin Int

VARIABLES
    sheet,    \* sheet[b]: version of the tab behind bucket b
    bucket,   \* value, age since last_refresh, refreshing, last_result
    task,     \* the coroutines _refresh
    call,     \* the coroutines inside refresh_now
    due,      \* history: version that the last invalidation asked for
    faults    \* loader failures so far

vars == <<sheet, bucket, task, call, due, faults>>

Versions == 0..MaxVersion
Results  == {"ok", "retry_ok", "fail"}

Bucket == [value: Versions \cup {None}, age: (0..TTL) \cup {None},
           refreshing: Tasks \cup {None}, last: Results \cup {None}]
\* phase "load": the loader is awaited and has read nothing yet;
\* "loaded": it has read; "sleep": between the failure and the retry
Task == [phase: {"idle", "load", "loaded", "sleep"}, bucket: Buckets,
         retries: {0, 1}, read: Versions, began: Versions]
\* asked: the version of the tab when the caller called; since: when the
\* refresh it waits for began
Call == [out: Results \cup {"idle", "wait", "cancelled"}, bucket: Buckets,
         task: Tasks \cup {None}, asked: Versions, since: Versions]

TypeOK ==
    /\ sheet \in [Buckets -> Versions]
    /\ bucket \in [Buckets -> Bucket]
    /\ task \in [Tasks -> Task]
    /\ call \in [Callers -> Call]
    /\ due \in [Buckets -> Versions]
    /\ faults \in 0..MaxFaults

Init ==
    /\ sheet = [b \in Buckets |-> 0]
    /\ bucket = [b \in Buckets |->
           [value |-> None, age |-> None, refreshing |-> None, last |-> None]]
    /\ task \in [Tasks -> [phase: {"idle"}, bucket: Buckets, retries: {0},
                           read: {0}, began: {0}]]
    /\ call \in [Callers -> [out: {"idle"}, bucket: Buckets, task: {None},
                             asked: {0}, since: {0}]]
    /\ due = [b \in Buckets |-> 0]
    /\ faults = 0

Running(t) == task[t].phase # "idle"
Current(b) == bucket[b].refreshing
Busy(b)    == Current(b) \in {t \in Tasks : Running(t)}

\* get serves the value it has, and starts nothing
Hit(b) ==
    /\ bucket[b].age # None
    /\ bucket[b].age < TTL
    /\ bucket[b].value # None

-----------------------------------------------------------------------------
Started(b, t) ==
    /\ ~Running(t)
    /\ task' = [task EXCEPT ![t] = [phase |-> "load", bucket |-> b, retries |-> 0,
                                    read |-> 0, began |-> sheet[b]]]
    /\ bucket' = [bucket EXCEPT ![b].refreshing = t]

\* Mutant: a refresh that runs is not joined.
EnsureNoJoin(b, t) == Started(b, t)

\* _ensure_refresh_task: t is the task that the caller gets, an existing one
\* or a new one.
EnsureRefreshTask(b, t) ==
    \/ Busy(b) /\ t = Current(b) /\ UNCHANGED <<task, bucket>>
    \/ ~Busy(b) /\ Started(b, t)

\* get on a value that is old, invalidated or missing
GetMiss(b) ==
    /\ ~Hit(b)
    /\ \E t \in Tasks : EnsureRefreshTask(b, t)
    /\ UNCHANGED <<sheet, call, due, faults>>

\* refresh_now: ensure a task, then await asyncio.shield(task)
RefreshNow(c, b) ==
    /\ call[c].out # "wait"
    /\ \E t \in Tasks :
        /\ EnsureRefreshTask(b, t)
        /\ call' = [call EXCEPT ![c] =
               [out |-> "wait", bucket |-> b, task |-> t, asked |-> sheet[b],
                since |-> task'[t].began]]
    /\ UNCHANGED <<sheet, due, faults>>

\* The job of a bucket: every(interval), each round one refresh_now.  A job
\* whose callback is cancelled has ended.
CronRefresh(b) == call[Cron[b]].out # "cancelled" /\ RefreshNow(Cron[b], b)

\* A command, a panel or the start-up preload.
CommandRefresh(c, b) ==
    /\ c \notin {Cron[a] : a \in Buckets}
    /\ RefreshNow(c, b)

\* Mutant: no shield, so that the refresh is cancelled with one of its callers,
\* and with it everyone who waits for it.
CancelUnshielded(c) ==
    /\ call[c].out = "wait"
    /\ c \notin {Cron[a] : a \in Buckets}
    /\ call' = [d \in Callers |->
           IF call[d].task = call[c].task
           THEN [call[d] EXCEPT !.out = "cancelled", !.task = None] ELSE call[d]]
    /\ task' = [task EXCEPT ![call[c].task].phase = "idle"]
    /\ bucket' = [bucket EXCEPT ![call[c].bucket].refreshing = None]
    /\ UNCHANGED <<sheet, due, faults>>

\* The caller is cancelled; the shield keeps the refresh running.
Cancel(c) ==
    /\ call[c].out = "wait"
    /\ c \notin {Cron[a] : a \in Buckets}
    /\ call' = [call EXCEPT ![c].out = "cancelled", ![c].task = None]
    /\ UNCHANGED <<sheet, bucket, task, due, faults>>

\* Mutant: the date stays.
InvalidateForgotten(b) ==
    /\ due' = [due EXCEPT ![b] =
           IF \E t \in Tasks : task[t].phase = "loaded" /\ task[t].bucket = b
           THEN @ ELSE sheet[b]]
    /\ UNCHANGED <<sheet, bucket, task, call, faults>>

\* invalidate forgets the date only.  It reaches a refresh that has not read
\* yet, and none that has.
Invalidate(b) ==
    /\ bucket' = [bucket EXCEPT ![b].age = None]
    /\ due' = [due EXCEPT ![b] =
           IF \E t \in Tasks : task[t].phase = "loaded" /\ task[t].bucket = b
           THEN @ ELSE sheet[b]]
    /\ UNCHANGED <<sheet, task, call, faults>>

-----------------------------------------------------------------------------
\* The end of _refresh: last_result is set and the bucket forgets the task if
\* it is still the current one.  Those who wait wake up before any other
\* refresh can end, and read last_result.
Finish(t, b, result, record) ==
    /\ bucket' = [bucket EXCEPT ![b] =
           [record EXCEPT !.last = result,
                          !.refreshing = IF @ = t THEN None ELSE @]]
    /\ task' = [task EXCEPT ![t] = [@ EXCEPT !.phase = "idle", !.retries = 0,
                                             !.read = 0, !.began = 0]]
    /\ call' = [c \in Callers |->
           IF call[c].task = t
           THEN [call[c] EXCEPT !.out = result, !.task = None] ELSE call[c]]

\* The loader reads the tab.
LoaderReads(t) ==
    /\ task[t].phase = "load"
    /\ task' = [task EXCEPT ![t].phase = "loaded",
                            ![t].read = sheet[task[t].bucket]]
    /\ UNCHANGED <<sheet, bucket, call, due, faults>>

\* The loader returns: the value is stored and dated now, not when it was read.
RefreshSucceeds(t) ==
    LET b == task[t].bucket IN
    /\ task[t].phase = "loaded"
    /\ Finish(t, b, IF task[t].retries = 0 THEN "ok" ELSE "retry_ok",
              [bucket[b] EXCEPT !.value = task[t].read, !.age = 0])
    /\ UNCHANGED <<sheet, due, faults>>

\* Mutant: a second failure is reported like a success.
FailsSilently(t, quota) ==
    LET b == task[t].bucket IN
    /\ task[t].phase \in {"load", "loaded"}
    /\ faults < MaxFaults
    /\ faults' = faults + 1
    /\ \/ /\ quota \/ task[t].retries = 1
          /\ Finish(t, b, "ok", bucket[b])
       \/ /\ ~quota /\ task[t].retries = 0
          /\ task' = [task EXCEPT ![t].phase = "sleep", ![t].retries = 1]
          /\ UNCHANGED <<bucket, call>>
    /\ UNCHANGED <<sheet, due>>

\* Mutant: the loader is called again after every failure.
RetriesOnAndOn(t, quota) ==
    LET b == task[t].bucket IN
    /\ task[t].phase \in {"load", "loaded"}
    /\ faults < MaxFaults
    /\ faults' = faults + 1
    /\ \/ /\ quota
          /\ Finish(t, b, "fail", bucket[b])
       \/ /\ ~quota
          /\ task' = [task EXCEPT ![t].phase = "sleep", ![t].retries = @ + 1]
          /\ UNCHANGED <<bucket, call>>
    /\ UNCHANGED <<sheet, due>>

\* The loader raises.  The broker has retried a rate limit already, so that
\* one ends the refresh; after any other error the loader gets a second call.
LoaderFails(t, quota) ==
    LET b == task[t].bucket IN
    /\ task[t].phase \in {"load", "loaded"}
    /\ faults < MaxFaults
    /\ faults' = faults + 1
    /\ \/ /\ quota \/ task[t].retries = 1
          /\ Finish(t, b, "fail", bucket[b])
       \/ /\ ~quota /\ task[t].retries = 0
          /\ task' = [task EXCEPT ![t].phase = "sleep", ![t].retries = 1]
          /\ UNCHANGED <<bucket, call>>
    /\ UNCHANGED <<sheet, due>>

\* retry_delay_sec is over.
Retry(t) ==
    /\ task[t].phase = "sleep"
    /\ task' = [task EXCEPT ![t].phase = "load"]
    /\ UNCHANGED <<sheet, bucket, call, due, faults>>

\* Somebody changes the tab.
Edit(b) ==
    /\ sheet[b] < MaxVersion
    /\ sheet' = [sheet EXCEPT ![b] = @ + 1]
    /\ UNCHANGED <<bucket, task, call, due, faults>>

Tick ==
    /\ bucket' = [b \in Buckets |->
           [bucket[b] EXCEPT !.age = IF @ = None \/ @ = TTL THEN @ ELSE @ + 1]]
    /\ UNCHANGED <<sheet, task, call, due, faults>>

TaskStep(t) == LoaderReads(t) \/ RefreshSucceeds(t) \/ Retry(t)

Next ==
    \/ \E b \in Buckets : GetMiss(b) \/ CronRefresh(b) \/ Invalidate(b) \/ Edit(b)
    \/ \E c \in Callers, b \in Buckets : CommandRefresh(c, b)
    \/ \E c \in Callers : Cancel(c)
    \/ \E t \in Tasks : TaskStep(t)
    \/ \E t \in Tasks, quota \in BOOLEAN : LoaderFails(t, quota)
    \/ Tick

Spec == Init /\ [][Next]_vars

\* Awaited calls are answered, sleeps end and the periodic jobs come round.
FairSpec ==
    /\ Spec
    /\ \A t \in Tasks : WF_vars(TaskStep(t))
    /\ \A b \in Buckets : WF_vars(CronRefresh(b))

-----------------------------------------------------------------------------
\* A refresh never puts an older value over a newer one: at most one refresh
\* of a bucket runs, whoever asked for it (get, a command, a job), so what is
\* read later is stored later.
NeverRunsBack ==
    [][\A b \in Buckets : bucket[b].value # None =>
           /\ bucket'[b].value # None
           /\ bucket'[b].value >= bucket[b].value]_vars

\* A caller that finds last_result ok after refresh_now has a value that was
\* read after the refresh it waited for began, through failures, retries,
\* joined refreshes and the cancellation of others who wait for it.
RefreshHonest ==
    \A c \in Callers : call[c].out \in {"ok", "retry_ok"} =>
        /\ bucket[call[c].bucket].value # None
        /\ bucket[call[c].bucket].value >= call[c].since

\* After an invalidation that no refresh with its read behind it overlapped,
\* get serves nothing that was read before the invalidation.
HitAfterInvalidate ==
    \A b \in Buckets : Hit(b) => bucket[b].value >= due[b]

\* Once the tab is left alone and loads succeed again, the cache comes to show
\* it and stays there: no failure, cancellation or finished task stops the
\* refreshes for good.
Converges == <>[](\A b \in Buckets : bucket[b].value = sheet[b])

\* _ensure_fresh_clans_for_placement: "Require a sync-fresh clans bucket before
\* placement seat math", that is a value no older than the request.
SyncFresh ==
    \A c \in Callers : call[c].out \in {"ok", "retry_ok"} =>
        bucket[call[c].bucket].value >= call[c].asked
=============================================================================
