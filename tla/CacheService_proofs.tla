------------------------ MODULE CacheService_proofs ------------------------
(***************************************************************************)
(* Proofs about the bucket cache, for any buckets, callers, tasks and      *)
(* bounds.  The invariant says that the task field of a bucket and the     *)
(* running tasks know each other, which is what makes reads and stores of  *)
(* a bucket alternate, and that every value, read and date is tied to the  *)
(* version of the tab that it stands for.                                  *)
(***************************************************************************)
EXTENDS CacheService, TLAPS

\* A running refresh is the current one of its bucket, and began in the past.
TaskOK(t) ==
    LET b == task[t].bucket IN
    /\ Running(t) => bucket[b].refreshing = t /\ task[t].began <= sheet[b]
    /\ task[t].phase = "loaded" =>
           /\ task[t].began <= task[t].read
           /\ task[t].read <= sheet[b]
           /\ due[b] <= task[t].read
           /\ bucket[b].value # None => bucket[b].value <= task[t].read

\* A bucket names a refresh of its own that runs; its value was in the tab once,
\* and if it is dated it is no older than the last invalidation asked for.
BucketOK(b) ==
    /\ bucket[b].refreshing # None =>
           Running(bucket[b].refreshing) /\ task[bucket[b].refreshing].bucket = b
    /\ bucket[b].value # None => bucket[b].value <= sheet[b]
    /\ due[b] <= sheet[b]
    /\ bucket[b].age # None => bucket[b].value # None /\ bucket[b].value >= due[b]

\* Who waits, waits for a running refresh of the bucket he named.
CallOK(c) ==
    /\ call[c].out # "wait" => call[c].task = None
    /\ call[c].out = "wait" =>
           /\ call[c].task \in Tasks
           /\ Running(call[c].task)
           /\ task[call[c].task].bucket = call[c].bucket
           /\ call[c].since = task[call[c].task].began

Inv ==
    /\ TypeOK
    /\ \A t \in Tasks : TaskOK(t)
    /\ \A b \in Buckets : BucketOK(b)
    /\ \A c \in Callers : CallOK(c)
    /\ RefreshHonest

-----------------------------------------------------------------------------
LEMMA Constants == TTL \in Nat /\ MaxVersion \in Nat /\ None \notin Int /\ None \notin Tasks
BY CacheConstants

LEMMA InitInv == Init => Inv
<1> SUFFICES ASSUME Init PROVE Inv
    OBVIOUS
<1>1. /\ 0 \in Versions /\ 0 \in 0..MaxFaults
      /\ {0} \subseteq Versions /\ {0} \subseteq {0, 1}
    BY CacheConstants DEF Versions
<1>2. /\ sheet \in [Buckets -> Versions] /\ due \in [Buckets -> Versions]
      /\ bucket \in [Buckets -> Bucket] /\ faults \in 0..MaxFaults
    BY <1>1 DEF Init, Bucket
<1>3. /\ task \in [Tasks -> Task]
      /\ \A t \in Tasks : task[t].phase = "idle"
    BY <1>1 DEF Init, Task
<1>4. /\ call \in [Callers -> Call]
      /\ \A c \in Callers : call[c].out = "idle" /\ call[c].task = None
    BY <1>1 DEF Init, Call, Results
<1>5. \A b \in Buckets : sheet[b] = 0 /\ due[b] = 0 /\ bucket[b].value = None
                         /\ bucket[b].age = None /\ bucket[b].refreshing = None
    BY DEF Init
<1> QED
    BY <1>2, <1>3, <1>4, <1>5 DEF Inv, TypeOK, TaskOK, BucketOK, CallOK, RefreshHonest, Running

-----------------------------------------------------------------------------
(* Starting and joining a refresh.                                         *)

\* What the parts of the invariant about tasks and buckets need, and what the
\* callers see of it.
LEMMA EnsureKeeps ==
    ASSUME Inv, NEW b \in Buckets, NEW t \in Tasks, EnsureRefreshTask(b, t),
           UNCHANGED <<sheet, due>>
    PROVE  /\ task' \in [Tasks -> Task] /\ bucket' \in [Buckets -> Bucket]
           /\ \A u \in Tasks : TaskOK(u)'
           /\ \A a \in Buckets : BucketOK(a)'
           /\ task'[t].phase # "idle" /\ task'[t].bucket = b
           /\ \A u \in Tasks : task[u].phase # "idle" => task'[u] = task[u]
           /\ \A a \in Buckets : bucket'[a].value = bucket[a].value
<1>1. CASE Busy(b) /\ t = Current(b) /\ UNCHANGED <<task, bucket>>
    BY <1>1, Constants DEF Inv, TypeOK, TaskOK, BucketOK, Busy, Current, Running, Hit
<1>2. CASE ~Busy(b) /\ Started(b, t)
    <2> DEFINE new == [phase |-> "load", bucket |-> b, retries |-> 0, read |-> 0,
                       began |-> sheet[b]]
    <2>1. /\ task' = [task EXCEPT ![t] = new]
          /\ bucket' = [bucket EXCEPT ![b].refreshing = t]
          /\ task[t].phase = "idle"
          /\ task \in [Tasks -> Task] /\ bucket \in [Buckets -> Bucket]
          /\ sheet \in [Buckets -> Versions] /\ due \in [Buckets -> Versions]
        BY <1>2 DEF Started, Running, Inv, TypeOK
    <2>2. new \in Task
        BY <2>1, Constants DEF Task, Versions
    <2>3. \A a \in Buckets : /\ bucket[a] \in Bucket
                             /\ bucket'[a].value = bucket[a].value
                             /\ bucket'[a].age = bucket[a].age
                             /\ bucket'[a].last = bucket[a].last
                             /\ a # b => bucket'[a] = bucket[a]
        BY <2>1 DEF Bucket
    <2>4. bucket'[b].refreshing = t
        BY <2>1 DEF Bucket
    <2>5. bucket' \in [Buckets -> Bucket]
        BY <2>1 DEF Bucket
    <2>6. /\ task' \in [Tasks -> Task] /\ task'[t] = new
          /\ \A u \in Tasks : u # t => task'[u] = task[u]
        BY <2>1, <2>2
    <2>7. \A u \in Tasks : task[u].phase # "idle" => task[u].bucket # b /\ u # t
        BY <1>2, <2>1, Constants DEF Inv, TaskOK, Busy, Current, Running
    <2>8. \A u \in Tasks : TaskOK(u)'
        <3> SUFFICES ASSUME NEW u \in Tasks PROVE TaskOK(u)'
            OBVIOUS
        <3>1. CASE u = t
            BY <3>1, <2>4, <2>6, <2>1 DEF TaskOK, Running, Versions
        <3>2. CASE u # t /\ task[u].phase # "idle"
            <4>1. task[u].bucket \in Buckets /\ task[u].bucket # b
                BY <3>2, <2>1, <2>7 DEF Task
            <4> QED
                BY <3>2, <4>1, <2>3, <2>6 DEF Inv, TaskOK, Running
        <3>3. CASE u # t /\ task[u].phase = "idle"
            BY <3>3, <2>6 DEF TaskOK, Running
        <3> QED
            BY <3>1, <3>2, <3>3
    <2>9. \A a \in Buckets : BucketOK(a)'
        <3> SUFFICES ASSUME NEW a \in Buckets PROVE BucketOK(a)'
            OBVIOUS
        <3>1. CASE a = b
            BY <3>1, <2>3, <2>4, <2>6 DEF Inv, BucketOK, Running
        <3>2. CASE a # b
            <4>1. bucket[a].refreshing # None => bucket[a].refreshing # t
                                                 /\ bucket[a].refreshing \in Tasks
                BY <2>1, <2>3 DEF Inv, BucketOK, Running, Bucket
            <4> QED
                BY <3>2, <4>1, <2>3, <2>6 DEF Inv, BucketOK, Running
        <3> QED
            BY <3>1, <3>2
    <2> QED
        BY <2>3, <2>5, <2>6, <2>7, <2>8, <2>9
<1> QED
    BY <1>1, <1>2 DEF EnsureRefreshTask

LEMMA GetMissKeeps == ASSUME Inv, NEW b \in Buckets, GetMiss(b) PROVE Inv'
<1>1. PICK t \in Tasks : EnsureRefreshTask(b, t)
    BY DEF GetMiss
<1>2. /\ sheet' = sheet /\ due' = due /\ call' = call /\ faults' = faults
    BY DEF GetMiss
<1>3. \A c \in Callers : CallOK(c)'
    <2>1. \A u \in Tasks : task[u].phase # "idle" => task'[u] = task[u]
        BY <1>1, <1>2, EnsureKeeps
    <2> QED
        BY <2>1, <1>2 DEF Inv, CallOK, Running
<1>4. RefreshHonest'
    <2>1. \A a \in Buckets : bucket'[a].value = bucket[a].value
        BY <1>1, <1>2, EnsureKeeps
    <2>2. \A c \in Callers : call[c].bucket \in Buckets
        BY DEF Inv, TypeOK, Call
    <2> QED
        BY <2>1, <2>2, <1>2 DEF Inv, RefreshHonest
<1>5. TypeOK' /\ (\A u \in Tasks : TaskOK(u)') /\ (\A a \in Buckets : BucketOK(a)')
    BY <1>1, <1>2, EnsureKeeps DEF Inv, TypeOK
<1> QED
    BY <1>3, <1>4, <1>5 DEF Inv

LEMMA RefreshNowKeeps ==
    ASSUME Inv, NEW c \in Callers, NEW b \in Buckets, RefreshNow(c, b) PROVE Inv'
<1>1. PICK t \in Tasks :
          /\ EnsureRefreshTask(b, t)
          /\ call' = [call EXCEPT ![c] =
                 [out |-> "wait", bucket |-> b, task |-> t, asked |-> sheet[b],
                  since |-> task'[t].began]]
    BY DEF RefreshNow
<1>2. sheet' = sheet /\ due' = due /\ faults' = faults
    BY DEF RefreshNow
<1>3. /\ task' \in [Tasks -> Task] /\ bucket' \in [Buckets -> Bucket]
      /\ \A u \in Tasks : TaskOK(u)'
      /\ \A a \in Buckets : BucketOK(a)'
      /\ task'[t].phase # "idle" /\ task'[t].bucket = b
      /\ \A u \in Tasks : task[u].phase # "idle" => task'[u] = task[u]
      /\ \A a \in Buckets : bucket'[a].value = bucket[a].value
    BY <1>1, <1>2, EnsureKeeps
<1>4. /\ sheet[b] \in Versions /\ task'[t].began \in Versions /\ call \in [Callers -> Call]
      /\ \A d \in Callers : call[d] \in Call /\ call[d].bucket \in Buckets
    BY <1>3 DEF Inv, TypeOK, Task, Call
<1>5. call' \in [Callers -> Call]
    BY <1>1, <1>4 DEF Call, Results
<1>6. \A d \in Callers : CallOK(d)'
    <2>1. CallOK(c)'
        BY <1>1, <1>3, <1>4 DEF CallOK, Running
    <2>2. \A d \in Callers : d # c => call'[d] = call[d]
        BY <1>1, <1>4
    <2> QED
        BY <2>1, <2>2, <1>3 DEF Inv, CallOK, Running
<1>7. RefreshHonest'
    BY <1>1, <1>3, <1>4 DEF Inv, RefreshHonest
<1>8. TypeOK'
    BY <1>2, <1>3, <1>5 DEF Inv, TypeOK
<1> QED
    BY <1>3, <1>6, <1>7, <1>8 DEF Inv

-----------------------------------------------------------------------------
(* The end of a refresh.                                                   *)

\* The records that Finish leaves.
NewBucket(r, v, g, result) ==
    [[r EXCEPT !.value = v, !.age = g] EXCEPT !.last = result, !.refreshing = None]

NoTask(r) == [r EXCEPT !.phase = "idle", !.retries = 0, !.read = 0, !.began = 0]

LEMMA Emptied ==
    ASSUME NEW r \in Bucket, NEW v \in Versions \cup {None},
           NEW g \in (0..TTL) \cup {None}, NEW result \in Results, NEW u \in Task
    PROVE  /\ NewBucket(r, v, g, result) \in Bucket
           /\ NewBucket(r, v, g, result).value = v
           /\ NewBucket(r, v, g, result).age = g
           /\ NewBucket(r, v, g, result).refreshing = None
           /\ NoTask(u) \in Task
           /\ NoTask(u).phase = "idle"
<1>1. /\ NewBucket(r, v, g, result) \in Bucket
      /\ NewBucket(r, v, g, result).value = v
      /\ NewBucket(r, v, g, result).age = g
      /\ NewBucket(r, v, g, result).refreshing = None
    BY DEF NewBucket, Bucket
<1>2. 0 \in Versions
    BY Constants DEF Versions
<1>3. NoTask(u) \in Task /\ NoTask(u).phase = "idle"
    BY <1>2 DEF NoTask, Task
<1> QED
    BY <1>1, <1>3

\* A refresh that ends with result, after which its bucket has value v and the
\* date g.  Callers that find the result ok find a value no older than the
\* beginning of the refresh.
LEMMA FinishKeeps ==
    ASSUME Inv, NEW t \in Tasks, Running(t), NEW result \in Results,
           NEW v \in Versions \cup {None}, NEW g \in (0..TTL) \cup {None},
           Finish(t, task[t].bucket, result,
                  [bucket[task[t].bucket] EXCEPT !.value = v, !.age = g]),
           UNCHANGED <<sheet, due>>, faults' \in 0..MaxFaults,
           bucket[task[t].bucket].value # None => v # None /\ v >= bucket[task[t].bucket].value,
           v # None => v <= sheet[task[t].bucket],
           g # None => v # None /\ v >= due[task[t].bucket],
           result \in {"ok", "retry_ok"} => v # None /\ v >= task[t].began
    PROVE  Inv'
<1> DEFINE b == task[t].bucket
           old == bucket[b]
           new == NewBucket(old, v, g, result)
           gone == NoTask(task[t])
<1>1. /\ task \in [Tasks -> Task] /\ bucket \in [Buckets -> Bucket]
      /\ call \in [Callers -> Call] /\ b \in Buckets /\ old \in Bucket
      /\ old.refreshing = t /\ task[t] \in Task
      /\ sheet \in [Buckets -> Versions] /\ due \in [Buckets -> Versions]
    BY DEF Inv, TypeOK, Task, TaskOK
<1>2. /\ bucket' = [bucket EXCEPT ![b] = new]
      /\ task' = [task EXCEPT ![t] = gone]
      /\ call' = [c \in Callers |-> IF call[c].task = t
                  THEN [call[c] EXCEPT !.out = result, !.task = None] ELSE call[c]]
      /\ sheet' = sheet /\ due' = due
    <2> DEFINE middle == [old EXCEPT !.value = v, !.age = g]
    <2>1. middle.refreshing = t
        BY <1>1 DEF Bucket
    <2>2. new = [middle EXCEPT !.last = result, !.refreshing = None]
        BY DEF NewBucket
    <2> QED
        BY <1>1, <2>1, <2>2 DEF Finish, NoTask
<1>3. bucket' \in [Buckets -> Bucket] /\ task' \in [Tasks -> Task]
    <2>1. new \in Bucket /\ gone \in Task
        BY <1>1, Emptied
    <2> HIDE DEF b, old, new, gone
    <2> QED
        BY <1>1, <1>2, <2>1
<1>10. /\ new.value = v /\ new.age = g /\ new.refreshing = None
       /\ gone.phase = "idle"
    <2>1. old \in Bucket /\ task[t] \in Task
        BY <1>1
    <2> HIDE DEF b, old
    <2> QED
        BY <2>1, Emptied
<1>4. /\ bucket'[b] = new /\ task'[t] = gone
      /\ \A a \in Buckets : a # b => bucket'[a] = bucket[a]
      /\ \A u \in Tasks : u # t => task'[u] = task[u]
    BY <1>1, <1>2
<1>5. \A u \in Tasks : u # t /\ Running(u) => task[u].bucket # b
    BY <1>1 DEF Inv, TaskOK
<1>6. \A u \in Tasks : TaskOK(u)'
    <2> SUFFICES ASSUME NEW u \in Tasks PROVE TaskOK(u)'
        OBVIOUS
    <2>1. CASE u = t
        BY <2>1, <1>4, <1>10 DEF TaskOK, Running
    <2>2. CASE u # t /\ Running(u)
        <3>1. task[u].bucket \in Buckets /\ task[u].bucket # b
            BY <2>2, <1>1, <1>5 DEF Task
        <3>2. bucket'[task[u].bucket] = bucket[task[u].bucket] /\ task'[u] = task[u]
            BY <3>1, <2>2, <1>4
        <3>3. TaskOK(u)
            BY DEF Inv
        <3> HIDE DEF b, new, gone
        <3> QED
            BY <3>2, <3>3, <1>2 DEF TaskOK, Running
    <2>3. CASE u # t /\ ~Running(u)
        BY <2>3, <1>4 DEF TaskOK, Running
    <2> QED
        BY <2>1, <2>2, <2>3
<1>7. \A a \in Buckets : BucketOK(a)'
    <2> SUFFICES ASSUME NEW a \in Buckets PROVE BucketOK(a)'
        OBVIOUS
    <2>1. CASE a = b
        <3> HIDE DEF b, old, new, gone
        <3>1. /\ bucket'[a].value = v /\ bucket'[a].age = g
              /\ bucket'[a].refreshing = None
            BY <2>1, <1>4, <1>10
        <3>2. due[b] <= sheet[b]
            BY <1>1 DEF Inv, BucketOK
        <3> QED
            BY <2>1, <3>1, <3>2, <1>2 DEF BucketOK, b
    <2>2. CASE a # b
        <3>1. bucket[a].refreshing # None => bucket[a].refreshing # t
                                             /\ bucket[a].refreshing \in Tasks
            BY <2>2, <1>1 DEF Inv, BucketOK, Bucket
        <3>2. bucket'[a] = bucket[a] /\ BucketOK(a)
            BY <2>2, <1>4 DEF Inv
        <3>3. \A u \in Tasks : u # t => task'[u] = task[u]
            BY <1>4
        <3> HIDE DEF b, new, gone
        <3> QED
            BY <3>1, <3>2, <3>3, <1>2 DEF BucketOK, Running
    <2> QED
        BY <2>1, <2>2
<1>8. \A c \in Callers : /\ call'[c] \in Call
                         /\ CallOK(c)'
                         /\ call'[c].out \in {"ok", "retry_ok"} =>
                                /\ bucket'[call'[c].bucket].value # None
                                /\ bucket'[call'[c].bucket].value >= call'[c].since
    <2> SUFFICES ASSUME NEW c \in Callers
                 PROVE  /\ call'[c] \in Call
                        /\ CallOK(c)'
                        /\ call'[c].out \in {"ok", "retry_ok"} =>
                               /\ bucket'[call'[c].bucket].value # None
                               /\ bucket'[call'[c].bucket].value >= call'[c].since
        OBVIOUS
    <2>0. call[c] \in Call
        BY <1>1
    <2>1. CASE call[c].task = t
        <3>1. call[c].bucket = b /\ call[c].since = task[t].began
            BY <2>1, Constants DEF Inv, CallOK
        <3>2. /\ call'[c] = [call[c] EXCEPT !.out = result, !.task = None]
              /\ call'[c] \in Call /\ call'[c].out = result /\ call'[c].task = None
              /\ call'[c].bucket = b /\ call'[c].since = task[t].began
            BY <2>0, <2>1, <1>2, <3>1 DEF Call
        <3>3. bucket'[b].value = v
            BY <1>4, <1>10
        <3>4. result # "wait"
            BY DEF Results
        <3> HIDE DEF b
        <3> QED
            BY <3>2, <3>3, <3>4 DEF CallOK
    <2>2. CASE call[c].task # t
        <3>1. call'[c] = call[c]
            BY <2>2, <1>2
        <3>2. CallOK(c)'
            BY <2>2, <3>1, <1>4 DEF Inv, CallOK, Running
        <3>3. call[c].bucket \in Buckets /\ call[c].since \in Versions
            BY <2>0 DEF Call
        <3>4. ASSUME call[c].out \in {"ok", "retry_ok"}
              PROVE  /\ bucket'[call[c].bucket].value # None
                     /\ bucket'[call[c].bucket].value >= call[c].since
            <4>1. /\ bucket[call[c].bucket].value # None
                  /\ bucket[call[c].bucket].value >= call[c].since
                BY <3>4 DEF Inv, RefreshHonest
            <4>2. CASE call[c].bucket # b
                BY <4>1, <4>2, <3>3, <1>4
            <4>3. CASE call[c].bucket = b
                <5>1. v # None /\ v >= old.value /\ old.value # None
                    BY <4>1, <4>3
                <5>2. v \in Int /\ old.value \in Int /\ call[c].since \in Int
                    BY <5>1, <1>1, <3>3, Constants DEF Bucket, Versions
                <5>3. bucket'[call[c].bucket].value = v
                    BY <4>3, <1>4, <1>10
                <5> QED
                    BY <5>1, <5>2, <5>3, <4>1, <4>3
            <4> QED
                BY <4>2, <4>3
        <3> QED
            BY <2>0, <3>1, <3>2, <3>4
    <2> QED
        BY <2>1, <2>2
<1>9. TypeOK'
    <2>1. call' \in [Callers -> Call]
        BY <1>2, <1>8
    <2> QED
        BY <1>1, <1>2, <1>3, <2>1 DEF TypeOK
<1> QED
    BY <1>6, <1>7, <1>8, <1>9 DEF Inv, RefreshHonest

LEMMA RefreshSucceedsKeeps == ASSUME Inv, NEW t \in Tasks, RefreshSucceeds(t) PROVE Inv'
<1> DEFINE b == task[t].bucket
           v == task[t].read
           result == IF task[t].retries = 0 THEN "ok" ELSE "retry_ok"
<1>1. /\ Running(t) /\ task[t].phase = "loaded" /\ faults' \in 0..MaxFaults
      /\ Finish(t, b, result, [bucket[b] EXCEPT !.value = v, !.age = 0])
      /\ UNCHANGED <<sheet, due>>
    BY DEF RefreshSucceeds, Running, Inv, TypeOK
<1>2. /\ v \in Versions /\ b \in Buckets /\ task[t].began \in Versions
      /\ due[b] \in Versions
    BY DEF Inv, TypeOK, Task
<1>3. /\ 0 \in (0..TTL) \cup {None} /\ v \in Versions \cup {None} /\ result \in Results
      /\ v # None /\ v >= task[t].began /\ v >= due[b]
      /\ v <= sheet[b]
      /\ bucket[b].value # None => v >= bucket[b].value
    <2>1. /\ task[t].began <= v /\ v <= sheet[b] /\ due[b] <= v
          /\ bucket[b].value # None => bucket[b].value <= v
        BY <1>1 DEF Inv, TaskOK
    <2>2. bucket[b].value # None => bucket[b].value \in Int
        BY <1>2 DEF Inv, TypeOK, Bucket, Versions
    <2>3. v \in Int /\ task[t].began \in Int /\ due[b] \in Int
        BY <1>2 DEF Versions
    <2>4. result \in Results
        BY DEF Results
    <2> HIDE DEF v, b, result
    <2> QED
        BY <2>1, <2>2, <2>3, <2>4, <1>2, Constants
<1> HIDE DEF v, result
<1> QED
    BY <1>1, <1>3, FinishKeeps

LEMMA LoaderFailsKeeps ==
    ASSUME Inv, NEW t \in Tasks, NEW quota \in BOOLEAN, LoaderFails(t, quota) PROVE Inv'
<1> DEFINE b == task[t].bucket
<1>1. /\ Running(t) /\ task[t].phase \in {"load", "loaded"}
      /\ faults' \in 0..MaxFaults /\ UNCHANGED <<sheet, due>>
      /\ task[t] \in Task /\ b \in Buckets /\ bucket[b] \in Bucket
    <2>1. faults' \in 0..MaxFaults
        <3>1. faults < MaxFaults /\ faults' = faults + 1 /\ faults \in 0..MaxFaults
            BY DEF LoaderFails, Inv, TypeOK
        <3> QED
            BY <3>1, CacheConstants
    <2> QED
        BY <2>1 DEF LoaderFails, Running, Inv, TypeOK, Task
<1>2. CASE Finish(t, b, "fail", bucket[b])
    <2> DEFINE v == bucket[b].value
               g == bucket[b].age
    <2>1. v \in Versions \cup {None} /\ g \in (0..TTL) \cup {None} /\ "fail" \in Results
        BY <1>1 DEF Bucket, Results
    <2>2. bucket[b] = [bucket[b] EXCEPT !.value = v, !.age = g]
        BY <1>1 DEF Bucket
    <2>3. /\ v # None => v <= sheet[b]
          /\ g # None => v # None /\ v >= due[b]
        BY <1>1 DEF Inv, BucketOK
    <2>4. v # None => v >= v
        BY <2>1 DEF Versions
    <2>5. Finish(t, b, "fail", [bucket[b] EXCEPT !.value = v, !.age = g])
        BY <1>2, <2>2
    <2> HIDE DEF v, g
    <2>6. bucket[b].value = v
        BY DEF v
    <2> QED
        BY <1>1, <2>1, <2>3, <2>4, <2>5, <2>6, FinishKeeps
<1>3. CASE /\ task[t].retries = 0
           /\ task' = [task EXCEPT ![t].phase = "sleep", ![t].retries = 1]
           /\ UNCHANGED <<bucket, call>>
    <2>1. /\ task' \in [Tasks -> Task]
          /\ \A u \in Tasks : u # t => task'[u] = task[u]
          /\ task'[t].phase = "sleep" /\ task'[t].bucket = b
          /\ task'[t].began = task[t].began
        BY <1>1, <1>3 DEF Inv, TypeOK, Task
    <2>2. \A u \in Tasks : TaskOK(u)'
        BY <2>1, <1>1, <1>3 DEF Inv, TaskOK, Running
    <2>3. \A a \in Buckets : BucketOK(a)'
        <3>1. \A a \in Buckets : bucket[a].refreshing # None => bucket[a].refreshing \in Tasks
            BY DEF Inv, TypeOK, Bucket
        <3> QED
            BY <3>1, <2>1, <1>1, <1>3 DEF Inv, BucketOK, Running
    <2>4. \A c \in Callers : CallOK(c)'
        BY <2>1, <1>1, <1>3 DEF Inv, CallOK, Running
    <2> QED
        BY <2>1, <2>2, <2>3, <2>4, <1>1, <1>3 DEF Inv, TypeOK, RefreshHonest
<1> QED
    BY <1>2, <1>3 DEF LoaderFails

-----------------------------------------------------------------------------
(* The other steps.                                                        *)

LEMMA LoaderReadsKeeps == ASSUME Inv, NEW t \in Tasks, LoaderReads(t) PROVE Inv'
<1> DEFINE b == task[t].bucket
<1>1. /\ task[t].phase = "load" /\ UNCHANGED <<sheet, bucket, call, due, faults>>
      /\ task' = [task EXCEPT ![t].phase = "loaded", ![t].read = sheet[b]]
      /\ task[t] \in Task /\ b \in Buckets /\ sheet[b] \in Versions
      /\ task \in [Tasks -> Task] /\ task[t].began \in Versions
    BY DEF LoaderReads, Inv, TypeOK, Task
<1>2. /\ task' \in [Tasks -> Task]
      /\ \A u \in Tasks : u # t => task'[u] = task[u]
      /\ task'[t].phase = "loaded" /\ task'[t].bucket = b
      /\ task'[t].began = task[t].began /\ task'[t].read = sheet[b]
    BY <1>1 DEF Task
<1>3. \A u \in Tasks : TaskOK(u)'
    <2>1. TaskOK(t)'
        <3>1. /\ bucket[b].refreshing = t /\ task[t].began <= sheet[b]
              /\ due[b] <= sheet[b] /\ sheet[b] <= sheet[b]
              /\ bucket[b].value # None => bucket[b].value <= sheet[b]
            BY <1>1 DEF Inv, TaskOK, BucketOK, Running, Versions
        <3> HIDE DEF b
        <3> QED
            BY <3>1, <1>1, <1>2 DEF TaskOK, Running
    <2>2. \A u \in Tasks : u # t => TaskOK(u)'
        BY <1>1, <1>2 DEF Inv, TaskOK, Running
    <2> QED
        BY <2>1, <2>2
<1>4. \A a \in Buckets : BucketOK(a)'
    <2>1. \A a \in Buckets : bucket[a].refreshing # None => bucket[a].refreshing \in Tasks
        BY DEF Inv, TypeOK, Bucket
    <2> QED
        BY <2>1, <1>1, <1>2 DEF Inv, BucketOK, Running
<1>5. \A c \in Callers : CallOK(c)'
    BY <1>1, <1>2 DEF Inv, CallOK, Running
<1> QED
    BY <1>1, <1>2, <1>3, <1>4, <1>5 DEF Inv, TypeOK, RefreshHonest

LEMMA RetryKeeps == ASSUME Inv, NEW t \in Tasks, Retry(t) PROVE Inv'
<1>1. /\ task[t].phase = "sleep" /\ UNCHANGED <<sheet, bucket, call, due, faults>>
      /\ task' \in [Tasks -> Task]
      /\ \A u \in Tasks : u # t => task'[u] = task[u]
      /\ task'[t].phase = "load" /\ task'[t].bucket = task[t].bucket
      /\ task'[t].began = task[t].began
    BY DEF Retry, Inv, TypeOK, Task
<1>2. \A u \in Tasks : TaskOK(u)'
    BY <1>1 DEF Inv, TaskOK, Running
<1>3. \A a \in Buckets : BucketOK(a)'
    <2>1. \A a \in Buckets : bucket[a].refreshing # None => bucket[a].refreshing \in Tasks
        BY DEF Inv, TypeOK, Bucket
    <2> QED
        BY <2>1, <1>1 DEF Inv, BucketOK, Running
<1>4. \A c \in Callers : CallOK(c)'
    BY <1>1 DEF Inv, CallOK, Running
<1> QED
    BY <1>1, <1>2, <1>3, <1>4 DEF Inv, TypeOK, RefreshHonest

LEMMA CancelKeeps == ASSUME Inv, NEW c \in Callers, Cancel(c) PROVE Inv'
<1>1. /\ UNCHANGED <<sheet, bucket, task, due, faults>>
      /\ call' \in [Callers -> Call]
      /\ \A d \in Callers : d # c => call'[d] = call[d]
      /\ call'[c].out = "cancelled" /\ call'[c].task = None
    BY DEF Cancel, Inv, TypeOK, Call
<1>2. \A d \in Callers : CallOK(d)'
    BY <1>1 DEF Inv, CallOK, Running
<1>3. RefreshHonest'
    BY <1>1 DEF Inv, RefreshHonest
<1> QED
    BY <1>1, <1>2, <1>3 DEF Inv, TypeOK, TaskOK, BucketOK, Running

LEMMA InvalidateKeeps == ASSUME Inv, NEW b \in Buckets, Invalidate(b) PROVE Inv'
<1> DEFINE late == \E t \in Tasks : task[t].phase = "loaded" /\ task[t].bucket = b
<1>1. /\ UNCHANGED <<sheet, task, call, faults>>
      /\ bucket' = [bucket EXCEPT ![b].age = None]
      /\ due' = [due EXCEPT ![b] = IF late THEN due[b] ELSE sheet[b]]
    BY DEF Invalidate
<1>2. /\ bucket' \in [Buckets -> Bucket]
      /\ \A a \in Buckets : /\ bucket'[a].value = bucket[a].value
                            /\ bucket'[a].refreshing = bucket[a].refreshing
                            /\ a # b => bucket'[a].age = bucket[a].age
      /\ bucket'[b].age = None
    BY <1>1 DEF Inv, TypeOK, Bucket
<1>3. /\ due' \in [Buckets -> Versions]
      /\ \A a \in Buckets : a # b => due'[a] = due[a]
      /\ due'[b] = due[b] \/ (~late /\ due'[b] = sheet[b])
    <2> DEFINE new == IF late THEN due[b] ELSE sheet[b]
    <2>1. /\ due \in [Buckets -> Versions] /\ sheet[b] \in Versions /\ due[b] \in Versions
          /\ due' = [due EXCEPT ![b] = new]
        BY <1>1 DEF Inv, TypeOK
    <2>2. new \in Versions /\ (new = due[b] \/ (~late /\ new = sheet[b]))
        <3>1. CASE late
            BY <3>1, <2>1
        <3>2. CASE ~late
            BY <3>2, <2>1
        <3> QED
            BY <3>1, <3>2
    <2> HIDE DEF late, new
    <2> QED
        BY <2>1, <2>2
<1>4. \A t \in Tasks : TaskOK(t)'
    <2>1. \A t \in Tasks : task[t].bucket \in Buckets
        BY DEF Inv, TypeOK, Task
    <2> QED
        BY <2>1, <1>1, <1>2, <1>3 DEF Inv, TaskOK, Running
<1>5. \A a \in Buckets : BucketOK(a)'
    <2>1. sheet[b] \in Versions /\ sheet[b] <= sheet[b]
        BY DEF Inv, TypeOK, Versions
    <2> HIDE DEF late
    <2> QED
        BY <2>1, <1>1, <1>2, <1>3 DEF Inv, BucketOK, Running
<1>6. \A c \in Callers : CallOK(c)'
    BY <1>1 DEF Inv, CallOK, Running
<1>7. RefreshHonest'
    <2>1. \A c \in Callers : call[c].bucket \in Buckets
        BY DEF Inv, TypeOK, Call
    <2> QED
        BY <2>1, <1>1, <1>2 DEF Inv, RefreshHonest
<1> QED
    BY <1>1, <1>2, <1>3, <1>4, <1>5, <1>6, <1>7 DEF Inv, TypeOK

LEMMA EditKeeps == ASSUME Inv, NEW b \in Buckets, Edit(b) PROVE Inv'
<1>1. /\ UNCHANGED <<bucket, task, call, due, faults>>
      /\ sheet \in [Buckets -> Nat] /\ due \in [Buckets -> Nat]
      /\ sheet' = [sheet EXCEPT ![b] = sheet[b] + 1]
      /\ sheet[b] < MaxVersion
    BY DEF Edit, Inv, TypeOK, Versions
<1>2. /\ sheet' \in [Buckets -> Versions]
      /\ \A a \in Buckets : sheet[a] <= sheet'[a]
    BY <1>1, Constants DEF Inv, TypeOK, Versions
<1>3. \A a \in Buckets, n \in Nat : n <= sheet[a] => n <= sheet'[a]
    BY <1>1, <1>2 DEF Versions
<1>4. \A t \in Tasks : TaskOK(t)'
    <2>1. \A t \in Tasks : /\ task[t].bucket \in Buckets
                           /\ task[t].began \in Nat /\ task[t].read \in Nat
        BY DEF Inv, TypeOK, Task, Versions
    <2> QED
        BY <2>1, <1>1, <1>3 DEF Inv, TaskOK, Running
<1>5. \A a \in Buckets : BucketOK(a)'
    <2>1. \A a \in Buckets : bucket[a].value # None => bucket[a].value \in Nat
        BY DEF Inv, TypeOK, Bucket, Versions
    <2> QED
        BY <2>1, <1>1, <1>3 DEF Inv, BucketOK, Running
<1> QED
    BY <1>1, <1>2, <1>4, <1>5 DEF Inv, TypeOK, CallOK, RefreshHonest, Running

LEMMA TickKeeps == ASSUME Inv, Tick PROVE Inv'
<1>1. UNCHANGED <<sheet, task, call, due, faults>>
    BY DEF Tick
<1>2. \A b \in Buckets :
          /\ bucket'[b] \in Bucket
          /\ bucket'[b].value = bucket[b].value
          /\ bucket'[b].refreshing = bucket[b].refreshing
          /\ bucket'[b].age # None => bucket[b].age # None
    <2> SUFFICES ASSUME NEW b \in Buckets
                 PROVE  /\ bucket'[b] \in Bucket
                        /\ bucket'[b].value = bucket[b].value
                        /\ bucket'[b].refreshing = bucket[b].refreshing
                        /\ bucket'[b].age # None => bucket[b].age # None
        OBVIOUS
    <2> DEFINE g == IF bucket[b].age = None \/ bucket[b].age = TTL
                    THEN bucket[b].age ELSE bucket[b].age + 1
    <2>1. bucket[b] \in Bucket /\ bucket'[b] = [bucket[b] EXCEPT !.age = g]
        BY DEF Tick, Inv, TypeOK
    <2>2. g \in (0..TTL) \cup {None} /\ (bucket[b].age = None => g = None)
        BY <2>1, Constants DEF Bucket
    <2> HIDE DEF g
    <2> QED
        BY <2>1, <2>2 DEF Bucket
<1>3. bucket' \in [Buckets -> Bucket]
    BY <1>2 DEF Tick
<1>4. \A b \in Buckets : BucketOK(b)'
    BY <1>1, <1>2 DEF Inv, BucketOK, Running
<1>5. \A t \in Tasks : TaskOK(t)'
    <2>1. \A t \in Tasks : task[t].bucket \in Buckets
        BY DEF Inv, TypeOK, Task
    <2> QED
        BY <2>1, <1>1, <1>2 DEF Inv, TaskOK, Running
<1>6. RefreshHonest'
    <2>1. \A c \in Callers : call[c].bucket \in Buckets
        BY DEF Inv, TypeOK, Call
    <2> QED
        BY <2>1, <1>1, <1>2 DEF Inv, RefreshHonest
<1> QED
    BY <1>1, <1>3, <1>4, <1>5, <1>6 DEF Inv, TypeOK, CallOK, Running

-----------------------------------------------------------------------------

LEMMA StepKeeps == Inv /\ [Next]_vars => Inv'
<1> SUFFICES ASSUME Inv, [Next]_vars PROVE Inv'
    OBVIOUS
<1>1. CASE UNCHANGED vars
    BY <1>1 DEF vars, Inv, TypeOK, TaskOK, BucketOK, CallOK, RefreshHonest, Running
<1>2. CASE \E b \in Buckets : GetMiss(b) \/ CronRefresh(b) \/ Invalidate(b) \/ Edit(b)
    <2>1. \A b \in Buckets : CronRefresh(b) => RefreshNow(Cron[b], b) /\ Cron[b] \in Callers
        BY CacheConstants DEF CronRefresh
    <2> QED
        BY <1>2, <2>1, GetMissKeeps, RefreshNowKeeps, InvalidateKeeps, EditKeeps
<1>3. CASE \E c \in Callers, b \in Buckets : CommandRefresh(c, b)
    BY <1>3, RefreshNowKeeps DEF CommandRefresh
<1>4. CASE \E c \in Callers : Cancel(c)
    BY <1>4, CancelKeeps
<1>5. CASE \E t \in Tasks : TaskStep(t)
    BY <1>5, LoaderReadsKeeps, RefreshSucceedsKeeps, RetryKeeps DEF TaskStep
<1>6. CASE \E t \in Tasks, quota \in BOOLEAN : LoaderFails(t, quota)
    BY <1>6, LoaderFailsKeeps
<1>7. CASE Tick
    BY <1>7, TickKeeps
<1> QED
    BY <1>1, <1>2, <1>3, <1>4, <1>5, <1>6, <1>7 DEF Next

LEMMA InvHolds == Spec => []Inv
BY InitInv, StepKeeps, PTL DEF Spec

\* Every variable of the cache keeps its type; a refresh is never retried twice.
THEOREM TypeCorrect == Spec => []TypeOK
<1>1. Inv => TypeOK
    BY DEF Inv
<1> QED
    BY <1>1, InvHolds, PTL

\* A caller that reads ok in last_result has a value read after the refresh it
\* waited for began.
THEOREM OkMeansRefreshed == Spec => []RefreshHonest
<1>1. Inv => RefreshHonest
    BY DEF Inv
<1> QED
    BY <1>1, InvHolds, PTL

\* get serves nothing from before an invalidation that no late read overlapped.
THEOREM HitsAreInvalidated == Spec => []HitAfterInvalidate
<1>1. Inv => HitAfterInvalidate
    BY DEF Inv, BucketOK, HitAfterInvalidate, Hit
<1> QED
    BY <1>1, InvHolds, PTL

\* One step of the cache, whoever takes it, replaces no value by an older one.
LEMMA StepForward ==
    ASSUME Inv, [Next]_vars
    PROVE  \A b \in Buckets : bucket[b].value # None =>
               bucket'[b].value # None /\ bucket'[b].value >= bucket[b].value
<1> SUFFICES ASSUME NEW b \in Buckets, bucket[b].value # None
             PROVE  bucket'[b].value # None /\ bucket'[b].value >= bucket[b].value
    OBVIOUS
<1>1. bucket[b].value \in Int /\ bucket[b].value >= bucket[b].value
    BY DEF Inv, TypeOK, Bucket, Versions
<1>2. \A a \in Buckets : bucket[a] \in Bucket
    BY DEF Inv, TypeOK
<1>3. CASE \/ UNCHANGED vars
           \/ \E a \in Buckets : Edit(a)
           \/ \E c \in Callers : Cancel(c)
           \/ \E t \in Tasks : LoaderReads(t) \/ Retry(t)
    BY <1>1, <1>3 DEF vars, Edit, Cancel, LoaderReads, Retry
<1>4. ASSUME NEW a \in Buckets, NEW t \in Tasks, EnsureRefreshTask(a, t)
      PROVE  bucket'[b].value = bucket[b].value
    BY <1>2, <1>4 DEF EnsureRefreshTask, Started, Bucket, Inv, TypeOK
<1>5. CASE \/ \E a \in Buckets : GetMiss(a) \/ CronRefresh(a)
           \/ \E c \in Callers, a \in Buckets : CommandRefresh(c, a)
    BY <1>1, <1>4, <1>5 DEF GetMiss, CronRefresh, CommandRefresh, RefreshNow
<1>6. CASE Tick \/ \E a \in Buckets : Invalidate(a)
    <2>1. bucket'[b].value = bucket[b].value
        BY <1>2, <1>6 DEF Tick, Invalidate, Bucket, Inv, TypeOK
    <2> QED
        BY <2>1, <1>1
<1>7. ASSUME NEW t \in Tasks, RefreshSucceeds(t)
      PROVE  bucket'[b].value # None /\ bucket'[b].value >= bucket[b].value
    <2> DEFINE a == task[t].bucket
    <2>1. /\ a \in Buckets /\ task[t].read \in Int /\ task[t].read # None
          /\ bucket[a].value # None => bucket[a].value <= task[t].read
        BY <1>7, Constants DEF RefreshSucceeds, Inv, TypeOK, TaskOK, Task, Versions
    <2>2. bucket'[b].value = IF a = b THEN task[t].read ELSE bucket[b].value
        BY <1>2, <1>7, <2>1 DEF RefreshSucceeds, Finish, Bucket, Inv, TypeOK
    <2> HIDE DEF a
    <2> QED
        BY <2>1, <2>2, <1>1
<1>8. ASSUME NEW t \in Tasks, NEW quota \in BOOLEAN, LoaderFails(t, quota)
      PROVE  bucket'[b].value = bucket[b].value
    <2> DEFINE a == task[t].bucket
    <2>1. CASE UNCHANGED bucket
        BY <2>1
    <2>2. CASE bucket' = [bucket EXCEPT ![a] =
                   [bucket[a] EXCEPT !.last = "fail",
                        !.refreshing = IF bucket[a].refreshing = t THEN None
                                       ELSE bucket[a].refreshing]]
        <3>1. a \in Buckets
            BY DEF Inv, TypeOK, Task
        <3> QED
            BY <1>2, <2>2, <3>1 DEF Bucket, Inv, TypeOK
    <2> QED
        BY <1>8, <2>1, <2>2 DEF LoaderFails, Finish
<1> QED
    BY <1>1, <1>3, <1>5, <1>6, <1>7, <1>8 DEF Next, TaskStep

\* No refresh puts an older value over a newer one.
THEOREM ValuesMoveForward == Spec => NeverRunsBack
<1>1. Inv /\ [Next]_vars =>
          [\A b \in Buckets : bucket[b].value # None =>
              /\ bucket'[b].value # None
              /\ bucket'[b].value >= bucket[b].value]_vars
    BY StepForward
<1> QED
    BY <1>1, InvHolds, PTL DEF Spec, NeverRunsBack

=============================================================================
