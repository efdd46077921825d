--------------------------- MODULE SheetsReadBroker ----------------------------
(* The broker of all reads of Google Sheets: one cache entry per resource     *)
(* (key), one shared load in flight per key, stale entries served while they  *)
(* are reloaded, and a generation per key that keeps a load begun before an   *)
(* invalidation from filling the cache after it.  The writes of the bot       *)
(* invalidate the keys of the tab they changed before they return.            *)
(*                                                                            *)
(* Everything runs on one event loop.  The broker's lock is never held over   *)
(* an await, so taking it never suspends and each action below is atomic.     *)
(*                                                                            *)
(* Sources: shared/sheets/read_broker.py, class SheetsReadBroker, and the     *)
(* invalidation after a mutation in shared/sheets/async_core.py.              *)
EXTENDS Integers, Sequences

CONSTANTS
    Keys,         \* resources, each a read of one tab
    Tabs, TabOf,  \* the tab of each key
    Readers,      \* logical reads
    Writers,      \* mutations made through the bot, or by a human
    FreshTtl,     \* a policy's fresh and stale bounds
    StaleTtl,
    MaxAttempts   \* physical reads of one load

ASSUME BrokerAssumption ==
    /\ TabOf \in [Keys -> Tabs]
    /\ FreshTtl \in Nat /\ StaleTtl \in Nat /\ FreshTtl <= StaleTtl
    /\ MaxAttempts \in Nat \ {0}

VARIABLES
    content,     \* version of each resource in the sheet
    acked,       \* newest version whose writer has been told it is written
    cache,       \* {} or {the entry} of each key
    inflight,    \* the shared load of each key, 0 if there is none
    generation,  \* invalidations of each key so far
    loads,       \* every load ever created, in order
    readers,
    writers

vars == <<content, acked, cache, inflight, generation, loads, readers, writers>>

Entry == [value : Nat, age : 0..StaleTtl]

\* "call" waits for the pacer, then for the sheet, "back" has its answer,
\* "over" has a result, "gone" has also left the table of loads.
Running == {"call", "back"}

Load == [key        : Keys,
         generation : Nat,
         step       : Running \cup {"over", "gone"},
         result     : {"none", "value", "error"},
         attempt    : 1..MaxAttempts,
         value      : Nat]

Reader == [step  : {"idle", "wait", "answered", "failed"},
           key   : Keys \cup {"none"},
           load  : Nat,
           floor : Nat,   \* acked when the read began
           value : Nat]

Writer == [step : {"idle", "landed", "acked", "failed"},
           tab  : Tabs \cup {"none"},
           mark : [Keys -> Nat]]   \* the versions its write made

Unread    == [step |-> "idle", key |-> "none", load |-> 0, floor |-> 0, value |-> 0]
Unwritten == [step |-> "idle", tab |-> "none", mark |-> [k \in Keys |-> 0]]

Live(l) == loads[l].step \in Running

\* A mutant: a load that has read already is not joined.
JoinableUnread(k) == inflight[k] # 0 /\ loads[inflight[k]].step = "call"

Joinable(k) == inflight[k] # 0 /\ Live(inflight[k])

-------------------------------------------------------------------------------
(* Logical reads.                                                             *)

\* The load in flight for the key, or a new one under the key's generation.
GetOrCreateRefresh(k) ==
    IF Joinable(k) THEN UNCHANGED <<loads, inflight>>
    ELSE /\ loads' = Append(loads, [key |-> k, generation |-> generation[k],
                                    step |-> "call", result |-> "none",
                                    attempt |-> 1, value |-> 0])
         /\ inflight' = [inflight EXCEPT ![k] = Len(loads) + 1]

Target(k) == IF Joinable(k) THEN inflight[k] ELSE Len(loads) + 1

Answered(k, v) == [step |-> "answered", key |-> k, load |-> 0,
                   floor |-> acked[k], value |-> v]

ReadFresh(r, k) ==
    /\ readers[r] = Unread
    /\ \E e \in cache[k] :
           /\ e.age < FreshTtl
           /\ readers' = [readers EXCEPT ![r] = Answered(k, e.value)]
    /\ UNCHANGED <<content, acked, cache, inflight, generation, loads, writers>>

ReadStale(r, k) ==
    /\ readers[r] = Unread
    /\ \E e \in cache[k] :
           /\ FreshTtl <= e.age /\ e.age < StaleTtl
           /\ readers' = [readers EXCEPT ![r] = Answered(k, e.value)]
    /\ GetOrCreateRefresh(k)
    /\ UNCHANGED <<content, acked, cache, generation, writers>>

\* No entry within the bounds, or a policy that takes none (FRESH_REQUIRED).
ReadMiss(r, k, required) ==
    /\ readers[r] = Unread
    /\ required \/ \A e \in cache[k] : e.age >= StaleTtl
    /\ GetOrCreateRefresh(k)
    /\ readers' = [readers EXCEPT ![r] = [Unread EXCEPT !.step = "wait", !.key = k,
                                                        !.load = Target(k),
                                                        !.floor = acked[k]]]
    /\ UNCHANGED <<content, acked, cache, generation, writers>>

\* The awaited load is over; the readers that share it resume in any order.
ReadReturn(r) ==
    /\ readers[r].step = "wait"
    /\ LET l == loads[readers[r].load] IN
       /\ l.step \notin Running
       /\ readers' = [readers EXCEPT ![r] = IF l.result = "value"
                                            THEN [@ EXCEPT !.step = "answered",
                                                           !.value = l.value]
                                            ELSE [@ EXCEPT !.step = "failed"]]
    /\ UNCHANGED <<content, acked, cache, inflight, generation, loads, writers>>

\* A cancelled reader leaves the shielded load running.
ReadCancel(r) ==
    /\ readers[r].step = "wait"
    /\ readers' = [readers EXCEPT ![r].step = "failed"]
    /\ UNCHANGED <<content, acked, cache, inflight, generation, loads, writers>>

-------------------------------------------------------------------------------
(* Loads.                                                                     *)

LoadStep(l, from, r) ==
    /\ loads[l].step = from
    /\ loads' = [loads EXCEPT ![l] = r]

\* The pacer has granted the physical read and the sheet is read, in the
\* executor's thread.
LoadSample(l) ==
    /\ LoadStep(l, "call", [loads[l] EXCEPT !.step = "back",
                                            !.value = content[loads[l].key]])
    /\ UNCHANGED <<content, acked, cache, inflight, generation, readers, writers>>

\* A mutant: the load is cached whatever its generation.
LoadStoreLate(l) ==
    /\ LoadStep(l, "back", [loads[l] EXCEPT !.step = "over", !.result = "value"])
    /\ cache' = [cache EXCEPT ![loads[l].key] = {[value |-> loads[l].value, age |-> 0]}]
    /\ UNCHANGED <<content, acked, inflight, generation, readers, writers>>

\* The answer is back on the loop: it is cached if no invalidation came since
\* the load was created, and the task is over.
LoadStore(l) ==
    LET k == loads[l].key IN
    /\ LoadStep(l, "back", [loads[l] EXCEPT !.step = "over", !.result = "value"])
    /\ cache' = IF generation[k] = loads[l].generation
                THEN [cache EXCEPT ![k] = {[value |-> loads[l].value, age |-> 0]}]
                ELSE cache
    /\ UNCHANGED <<content, acked, inflight, generation, readers, writers>>

\* Mutants: one attempt too many, and attempts that are not counted.
LoadFailOnceMore(l) ==
    /\ \E from \in {"call", "back"} :
           \/ /\ loads[l].attempt <= MaxAttempts
              /\ LoadStep(l, from, [loads[l] EXCEPT !.step = "call", !.attempt = @ + 1])
           \/ LoadStep(l, from, [loads[l] EXCEPT !.step = "over", !.result = "error"])
    /\ UNCHANGED <<content, acked, cache, inflight, generation, readers, writers>>

LoadFailForever(l) ==
    /\ \E from \in {"call", "back"} : LoadStep(l, from, [loads[l] EXCEPT !.step = "call"])
    /\ UNCHANGED <<content, acked, cache, inflight, generation, readers, writers>>

\* The attempt raised: it is made again if the error is transient, up to the
\* attempts allowed.
LoadFail(l) ==
    /\ \E from \in {"call", "back"} :
           \/ /\ loads[l].attempt < MaxAttempts
              /\ LoadStep(l, from, [loads[l] EXCEPT !.step = "call", !.attempt = @ + 1])
           \/ LoadStep(l, from, [loads[l] EXCEPT !.step = "over", !.result = "error"])
    /\ UNCHANGED <<content, acked, cache, inflight, generation, readers, writers>>

\* The done callback: the load leaves the table, unless another took its place.
RefreshDone(l) ==
    LET k == loads[l].key IN
    /\ LoadStep(l, "over", [loads[l] EXCEPT !.step = "gone"])
    /\ inflight' = IF inflight[k] = l THEN [inflight EXCEPT ![k] = 0] ELSE inflight
    /\ UNCHANGED <<content, acked, cache, generation, readers, writers>>

-------------------------------------------------------------------------------
(* Mutations.                                                                 *)

\* The write reaches the sheet.
WriteLand(w, t) ==
    /\ writers[w] = Unwritten
    /\ content' = [k \in Keys |-> IF TabOf[k] = t THEN content[k] + 1 ELSE content[k]]
    /\ writers' = [writers EXCEPT ![w] = [step |-> "landed", tab |-> t, mark |-> content']]
    /\ UNCHANGED <<acked, cache, inflight, generation, loads, readers>>

\* invalidate_worksheet: the keys of the tab that are cached or in flight.
Affected(t) == {k \in Keys : TabOf[k] = t /\ (cache[k] # {} \/ inflight[k] # 0)}

\* Mutants: an invalidation that starts no new generation, and one that leaves
\* the cached entries.
WriteReturnSameGeneration(w) ==
    LET t == writers[w].tab IN
    /\ writers[w].step = "landed"
    /\ cache' = [k \in Keys |-> IF k \in Affected(t) THEN {} ELSE cache[k]]
    /\ inflight' = [k \in Keys |-> IF k \in Affected(t) THEN 0 ELSE inflight[k]]
    /\ acked' = [k \in Keys |-> IF TabOf[k] = t /\ acked[k] < writers[w].mark[k]
                                THEN writers[w].mark[k] ELSE acked[k]]
    /\ writers' = [writers EXCEPT ![w].step = "acked"]
    /\ UNCHANGED <<content, generation, loads, readers>>

WriteReturnKeepsCache(w) ==
    LET t == writers[w].tab IN
    /\ writers[w].step = "landed"
    /\ generation' = [k \in Keys |-> IF k \in Affected(t) THEN generation[k] + 1
                                     ELSE generation[k]]
    /\ inflight' = [k \in Keys |-> IF k \in Affected(t) THEN 0 ELSE inflight[k]]
    /\ acked' = [k \in Keys |-> IF TabOf[k] = t /\ acked[k] < writers[w].mark[k]
                                THEN writers[w].mark[k] ELSE acked[k]]
    /\ writers' = [writers EXCEPT ![w].step = "acked"]
    /\ UNCHANGED <<content, cache, loads, readers>>

\* The call has returned to the bot: the tab is invalidated, then the caller
\* goes on.
WriteReturn(w) ==
    LET t == writers[w].tab IN
    /\ writers[w].step = "landed"
    /\ generation' = [k \in Keys |-> IF k \in Affected(t) THEN generation[k] + 1
                                     ELSE generation[k]]
    /\ cache' = [k \in Keys |-> IF k \in Affected(t) THEN {} ELSE cache[k]]
    /\ inflight' = [k \in Keys |-> IF k \in Affected(t) THEN 0 ELSE inflight[k]]
    /\ acked' = [k \in Keys |-> IF TabOf[k] = t /\ acked[k] < writers[w].mark[k]
                                THEN writers[w].mark[k] ELSE acked[k]]
    /\ writers' = [writers EXCEPT ![w].step = "acked"]
    /\ UNCHANGED <<content, loads, readers>>

\* The call raised although the write landed, or a human made the edit: nothing
\* is invalidated and nobody is told.
WriteLost(w) ==
    /\ writers[w].step = "landed"
    /\ writers' = [writers EXCEPT ![w].step = "failed"]
    /\ UNCHANGED <<content, acked, cache, inflight, generation, loads, readers>>

-------------------------------------------------------------------------------

\* Time passes; past the stale bound the age of an entry makes no difference.
Tick ==
    /\ \E k \in Keys : \E e \in cache[k] : e.age < StaleTtl
    /\ cache' = [k \in Keys |->
                    {[e EXCEPT !.age = IF @ < StaleTtl THEN @ + 1 ELSE @] : e \in cache[k]}]
    /\ UNCHANGED <<content, acked, inflight, generation, loads, readers, writers>>

Init ==
    /\ content = [k \in Keys |-> 0]
    /\ acked = [k \in Keys |-> 0]
    /\ cache = [k \in Keys |-> {}]
    /\ inflight = [k \in Keys |-> 0]
    /\ generation = [k \in Keys |-> 0]
    /\ loads = << >>
    /\ readers = [r \in Readers |-> Unread]
    /\ writers = [w \in Writers |-> Unwritten]

ReadStep(r) ==
    \/ \E k \in Keys :
           \/ ReadFresh(r, k)
           \/ ReadStale(r, k)
           \/ \E required \in BOOLEAN : ReadMiss(r, k, required)
    \/ ReadReturn(r)
    \/ ReadCancel(r)

LoadNext(l) ==
    \/ LoadSample(l) \/ LoadStore(l) \/ LoadFail(l) \/ RefreshDone(l)

WriteStep(w) ==
    \/ \E t \in Tabs : WriteLand(w, t)
    \/ WriteReturn(w)
    \/ WriteLost(w)

Next ==
    \/ \E r \in Readers : ReadStep(r)
    \/ \E l \in DOMAIN loads : LoadNext(l)
    \/ \E w \in Writers : WriteStep(w)
    \/ Tick

Spec == Init /\ [][Next]_vars

\* The pacer grants every load, a physical read returns or raises (the adapter
\* gives it a timeout), and the loop resumes the readers of a finished load.
FairSpec ==
    /\ Spec
    /\ \A r \in Readers : WF_vars(ReadReturn(r))
    /\ WF_vars(\E l \in DOMAIN loads : LoadNext(l))

-------------------------------------------------------------------------------
(* Properties.                                                                *)

TypeOK ==
    /\ content \in [Keys -> Nat]
    /\ acked \in [Keys -> Nat]
    /\ cache \in [Keys -> SUBSET Entry]
    /\ inflight \in [Keys -> Nat]
    /\ generation \in [Keys -> Nat]
    /\ loads \in Seq(Load)
    /\ readers \in [Readers -> Reader]
    /\ writers \in [Writers -> Writer]

\* At most one load of a key runs under the key's current generation: reads are
\* coalesced, whatever invalidations and late callbacks of detached loads do.
SingleFlight ==
    \A l1, l2 \in DOMAIN loads :
        /\ Live(l1) /\ Live(l2) /\ loads[l1].key = loads[l2].key
        /\ loads[l1].generation = generation[loads[l1].key]
        /\ loads[l2].generation = generation[loads[l2].key]
        => l1 = l2

\* A read is never answered with a version older than a write that had been
\* acknowledged when the read began, be it cached, stale, shared or detached.
SeesWrites ==
    \A r \in Readers : readers[r].step = "answered" => readers[r].floor <= readers[r].value

\* A cache entry is never replaced by an older version.
CacheNeverRegresses ==
    [][\A k \in Keys : \A e \in cache[k], e2 \in cache'[k] : e.value <= e2.value]_vars

\* Every read that waits is answered or fails, also the ones whose load was
\* detached or whose fellow readers were cancelled.
EveryReadEnds == \A r \in Readers : readers[r].step = "wait" ~> readers[r].step # "wait"

\* The broker implements ReadYourWrites: a logical read is the abstract one
\* without the load it waits for.
LogicalReads == [r \in Readers |-> [step  |-> readers[r].step,
                                    key   |-> readers[r].key,
                                    floor |-> readers[r].floor,
                                    value |-> readers[r].value]]
Abstract == INSTANCE ReadYourWrites WITH reads <- LogicalReads
ImplementsReadYourWrites == Abstract!Spec
===============================================================================
