------------------------ MODULE SheetsReadBroker_proofs ------------------------
(* What TLAPS proves of SheetsReadBroker for every set of keys, tabs, readers *)
(* and writers, every pair of bounds and every number of attempts.            *)
EXTENDS SheetsReadBroker, TLAPS

-------------------------------------------------------------------------------
(* The inductive invariant.                                                   *)

Current(l) == loads[l].generation = generation[loads[l].key]

\* Sampled(l): the load has read the sheet and its value may still be used.
Sampled(l) == loads[l].step = "back" \/ loads[l].result = "value"

\* The table of loads: an entry is a load of its key under the key's current
\* generation, and no other load of that key runs under it.
TableOK ==
    /\ \A k \in Keys : inflight[k] # 0 =>
           /\ inflight[k] \in DOMAIN loads
           /\ loads[inflight[k]].key = k
           /\ Current(inflight[k])
    /\ \A l \in DOMAIN loads :
           /\ loads[l].generation <= generation[loads[l].key]
           /\ Live(l) /\ Current(l) => inflight[loads[l].key] = l
           /\ Live(l) => loads[l].result = "none"

\* Nobody has been told of a version the sheet does not hold.
WritesOK ==
    /\ \A k \in Keys : acked[k] <= content[k]
    /\ \A w \in Writers : writers[w].step = "landed" =>
           \A k \in Keys : writers[w].mark[k] <= content[k]

\* A cached version, and one about to be cached, includes every acknowledged
\* write; what is about to be cached is no older than what is cached.
ValuesOK ==
    /\ \A k \in Keys : \A e \in cache[k] : acked[k] <= e.value /\ e.value <= content[k]
    /\ \A l \in DOMAIN loads :
           /\ Sampled(l) => loads[l].value <= content[loads[l].key]
           /\ loads[l].step = "back" /\ Current(l) =>
                  /\ acked[loads[l].key] <= loads[l].value
                  /\ \A e \in cache[loads[l].key] : e.value <= loads[l].value

\* A key has one cache entry or none.
OneEntry == \A k \in Keys : \A e, f \in cache[k] : e = f

\* A waiting reader's load will give it, or has, what it may expect.
ReadsOK ==
    /\ \A r \in Readers : readers[r].step = "wait" =>
           /\ readers[r].key \in Keys
           /\ readers[r].floor <= acked[readers[r].key]
           /\ readers[r].load \in DOMAIN loads
           /\ loads[readers[r].load].key = readers[r].key
           /\ Sampled(readers[r].load) => readers[r].floor <= loads[readers[r].load].value
    /\ SeesWrites

Inv == TypeOK /\ TableOK /\ WritesOK /\ ValuesOK /\ OneEntry /\ ReadsOK
-------------------------------------------------------------------------------

LEMMA Constants == /\ FreshTtl \in Nat /\ StaleTtl \in Nat /\ FreshTtl <= StaleTtl
                   /\ MaxAttempts \in Nat /\ MaxAttempts > 0
                   /\ TabOf \in [Keys -> Tabs]
BY BrokerAssumption

LEMMA InitInv == Init => Inv
<1> SUFFICES ASSUME Init PROVE Inv
    OBVIOUS
<1>0. /\ \A k \in Keys : content[k] = 0 /\ acked[k] = 0 /\ cache[k] = {} /\ inflight[k] = 0
      /\ loads = << >>
      /\ \A r \in Readers : readers[r] = Unread
      /\ \A w \in Writers : writers[w] = Unwritten
    BY Zenon DEF Init
<1>1. TypeOK
    <2>1. << >> \in Seq(Load) /\ 0 \in Nat
        OBVIOUS
    <2>2. Unread \in Reader /\ Unwritten \in Writer
        BY DEF Unread, Reader, Unwritten, Writer
    <2>3. /\ content \in [Keys -> Nat] /\ acked \in [Keys -> Nat]
          /\ cache \in [Keys -> SUBSET Entry]
          /\ inflight \in [Keys -> Nat] /\ generation \in [Keys -> Nat]
          /\ loads \in Seq(Load)
        BY <2>1, Zenon DEF Init
    <2>4. readers \in [Readers -> Reader] /\ writers \in [Writers -> Writer]
        BY <2>2, Zenon DEF Init
    <2> QED
        BY <2>3, <2>4, Zenon DEF TypeOK
<1>2. TableOK /\ WritesOK /\ ValuesOK /\ OneEntry
    BY <1>0 DEF TableOK, WritesOK, ValuesOK, OneEntry, Unwritten
<1>3. ReadsOK
    BY <1>0 DEF ReadsOK, SeesWrites, Unread
<1> QED
    BY <1>1, <1>2, <1>3, Zenon DEF Inv

-------------------------------------------------------------------------------
(* What the operators on the table of loads do.                               *)

\* A step of a load changes that load alone.
LEMMA LoadStepFacts ==
    ASSUME TypeOK, NEW l \in DOMAIN loads, NEW from, NEW r \in Load, LoadStep(l, from, r)
    PROVE  /\ loads' \in Seq(Load)
           /\ DOMAIN loads' = DOMAIN loads
           /\ loads'[l] = r
           /\ \A m \in DOMAIN loads : m # l => loads'[m] = loads[m]
BY DEF TypeOK, LoadStep

\* Joining or starting the load of a key leaves the earlier loads as they are;
\* the load to wait for is live, current and in the table.
LEMMA RefreshFacts ==
    ASSUME Inv, NEW k \in Keys, GetOrCreateRefresh(k)
    PROVE  /\ loads' \in Seq(Load)
           /\ inflight' \in [Keys -> Nat]
           /\ DOMAIN loads \subseteq DOMAIN loads'
           /\ \A m \in DOMAIN loads : loads'[m] = loads[m]
           /\ \A m \in DOMAIN loads' : m \in DOMAIN loads \/ m = Target(k)
           /\ \A m \in DOMAIN loads' \ DOMAIN loads :
                  loads'[m].step = "call" /\ loads'[m].result = "none"
           /\ Target(k) \in DOMAIN loads' /\ Target(k) # 0
           /\ loads'[Target(k)].key = k
           /\ loads'[Target(k)].generation = generation[k]
           /\ loads'[Target(k)].step \in Running /\ loads'[Target(k)].result = "none"
           /\ inflight'[k] = Target(k)
           /\ \A j \in Keys : j # k => inflight'[j] = inflight[j]
           /\ \A m \in DOMAIN loads : loads[m].key = k /\ Live(m) /\ Current(m)
                                      => m = Target(k)
<1>0. /\ loads \in Seq(Load) /\ inflight \in [Keys -> Nat] /\ generation \in [Keys -> Nat]
    BY DEF Inv, TypeOK
<1>1. CASE Joinable(k)
    BY <1>0, <1>1 DEF GetOrCreateRefresh, Target, Inv, TableOK, Joinable, Live, Current
<1>2. CASE ~ Joinable(k)
    <2> DEFINE new == [key |-> k, generation |-> generation[k], step |-> "call",
                       result |-> "none", attempt |-> 1, value |-> 0]
    <2>1. loads' = Append(loads, new) /\ inflight' = [inflight EXCEPT ![k] = Len(loads) + 1]
        BY <1>2, Zenon DEF GetOrCreateRefresh
    <2>2. new \in Load
        BY <1>0, Constants DEF Load, Running
    <2>3. new.step = "call" /\ new.result = "none" /\ new.key = k
          /\ new.generation = generation[k]
        OBVIOUS
    <2>4. Target(k) = Len(loads) + 1
        BY <1>2, Zenon DEF Target
    <2> HIDE DEF new
    <2>5. /\ loads' \in Seq(Load) /\ Len(loads') = Len(loads) + 1
          /\ \A m \in 1..Len(loads) : loads'[m] = loads[m]
          /\ loads'[Len(loads) + 1] = new
        BY <1>0, <2>1, <2>2
    <2>6. \A m \in DOMAIN loads : ~ (loads[m].key = k /\ Live(m) /\ Current(m))
        BY <1>0, <1>2 DEF Inv, TableOK, Joinable
    <2> QED
        BY <1>0, <2>1, <2>3, <2>4, <2>5, <2>6 DEF Running
<1> QED
    BY <1>1, <1>2

-------------------------------------------------------------------------------
(* One lemma per action.                                                      *)

LEMMA ReadFreshKeepsInv ==
    ASSUME Inv, NEW r \in Readers, NEW k \in Keys, ReadFresh(r, k)
    PROVE  Inv'
<1>1. PICK e \in cache[k] : readers' = [readers EXCEPT ![r] = Answered(k, e.value)]
    BY DEF ReadFresh
<1>2. UNCHANGED <<content, acked, cache, inflight, generation, loads, writers>>
    BY DEF ReadFresh
<1>3. TypeOK' /\ ReadsOK'
    <2>1. /\ e.value \in Nat /\ acked[k] \in Nat /\ acked[k] <= e.value
        BY DEF Inv, TypeOK, ValuesOK, Entry
    <2>2. /\ Answered(k, e.value) \in Reader
          /\ Answered(k, e.value).step = "answered"
          /\ Answered(k, e.value).floor <= Answered(k, e.value).value
        BY <2>1 DEF Answered, Reader
    <2> QED
        BY <1>1, <1>2, <2>2 DEF Inv, TypeOK, ReadsOK, SeesWrites, Sampled
<1> QED
    BY <1>2, <1>3 DEF OneEntry, Inv, TableOK, WritesOK, ValuesOK, Live, Current, Sampled

\* Asking for the load of a key keeps the table and the values right.
LEMMA RefreshKeeps ==
    ASSUME Inv, NEW k \in Keys, GetOrCreateRefresh(k),
           UNCHANGED <<content, acked, cache, generation>>
    PROVE  TableOK' /\ ValuesOK'
<1>0. /\ inflight \in [Keys -> Nat] /\ generation \in [Keys -> Nat] /\ loads \in Seq(Load)
      /\ TableOK /\ ValuesOK
    BY DEF Inv, TypeOK
<1>1. TableOK'
    <2>1. ASSUME NEW j \in Keys, inflight'[j] # 0
          PROVE  /\ inflight'[j] \in DOMAIN loads'
                 /\ loads'[inflight'[j]].key = j
                 /\ loads'[inflight'[j]].generation = generation'[loads'[inflight'[j]].key]
        BY <1>0, <2>1, RefreshFacts DEF TableOK, Current
    <2>2. ASSUME NEW m \in DOMAIN loads'
          PROVE  /\ loads'[m].generation <= generation'[loads'[m].key]
                 /\ /\ loads'[m].step \in Running
                    /\ loads'[m].generation = generation'[loads'[m].key]
                    => inflight'[loads'[m].key] = m
                 /\ loads'[m].step \in Running => loads'[m].result = "none"
        <3>1. CASE m = Target(k)
            BY <1>0, <3>1, RefreshFacts
        <3>2. CASE m # Target(k)
            <4>1. m \in DOMAIN loads /\ loads'[m] = loads[m]
                BY <2>2, <3>2, RefreshFacts
            <4>2. loads[m] \in Load
                BY <1>0, <4>1
            <4>3. loads[m].key \in Keys
                BY <4>2 DEF Load
            <4> QED
                BY <1>0, <3>2, <4>1, <4>3, RefreshFacts DEF TableOK, Live, Current
        <3> QED
            BY <3>1, <3>2
    <2> QED
        BY <2>1, <2>2 DEF TableOK, Live, Current
<1>2. ValuesOK'
    <2>1. ASSUME NEW m \in DOMAIN loads'
          PROVE  \/ m \in DOMAIN loads /\ loads'[m] = loads[m]
                 \/ loads'[m].step = "call" /\ loads'[m].result = "none"
        BY <2>1, RefreshFacts
    <2> QED
        BY <1>0, <2>1 DEF ValuesOK, Current, Sampled
<1> QED
    BY <1>1, <1>2

\* A reader that waits goes on waiting for the same load.
LEMMA RefreshKeepsReader ==
    ASSUME Inv, NEW k \in Keys, GetOrCreateRefresh(k),
           UNCHANGED <<content, acked, cache, generation>>,
           NEW q \in Readers, readers[q].step = "wait"
    PROVE  /\ readers[q].key \in Keys
           /\ readers[q].floor <= acked[readers[q].key]
           /\ readers[q].load \in DOMAIN loads'
           /\ loads'[readers[q].load].key = readers[q].key
           /\ \/ loads'[readers[q].load].step = "back"
              \/ loads'[readers[q].load].result = "value"
              => readers[q].floor <= loads'[readers[q].load].value
<1>1. /\ readers[q].key \in Keys
      /\ readers[q].floor <= acked[readers[q].key]
      /\ readers[q].load \in DOMAIN loads
      /\ loads[readers[q].load].key = readers[q].key
      /\ \/ loads[readers[q].load].step = "back"
         \/ loads[readers[q].load].result = "value"
         => readers[q].floor <= loads[readers[q].load].value
    BY DEF Inv, ReadsOK, Sampled
<1>2. readers[q].load \in DOMAIN loads' /\ loads'[readers[q].load] = loads[readers[q].load]
    BY <1>1, RefreshFacts
<1> QED
    BY <1>1, <1>2

LEMMA ReadStaleKeepsInv ==
    ASSUME Inv, NEW r \in Readers, NEW k \in Keys, ReadStale(r, k)
    PROVE  Inv'
<1>1. PICK e \in cache[k] : readers' = [readers EXCEPT ![r] = Answered(k, e.value)]
    BY DEF ReadStale
<1>2. GetOrCreateRefresh(k) /\ UNCHANGED <<content, acked, cache, generation, writers>>
    BY DEF ReadStale
<1>3. /\ e.value \in Nat /\ acked[k] \in Nat /\ acked[k] <= e.value
    BY DEF Inv, TypeOK, ValuesOK, Entry
<1>4. /\ Answered(k, e.value) \in Reader
      /\ Answered(k, e.value).step = "answered"
      /\ Answered(k, e.value).floor <= Answered(k, e.value).value
    BY <1>3 DEF Answered, Reader
<1>5. TypeOK'
    BY <1>1, <1>2, <1>4, RefreshFacts DEF Inv, TypeOK
<1>6. ReadsOK'
    <2>1. /\ readers'[r].step = "answered" /\ readers'[r].floor <= readers'[r].value
          /\ \A q \in Readers : q # r => readers'[q] = readers[q]
        BY <1>1, <1>4 DEF Inv, TypeOK
    <2>2. SeesWrites'
        BY <2>1 DEF Inv, ReadsOK, SeesWrites
    <2> QED
        BY <1>2, <2>1, <2>2, RefreshKeepsReader DEF ReadsOK, Sampled
<1> QED
    BY <1>2, <1>5, <1>6, RefreshKeeps DEF OneEntry, Inv, WritesOK

LEMMA ReadMissKeepsInv ==
    ASSUME Inv, NEW r \in Readers, NEW k \in Keys, NEW required \in BOOLEAN,
           ReadMiss(r, k, required)
    PROVE  Inv'
<1> DEFINE new == [Unread EXCEPT !.step = "wait", !.key = k, !.load = Target(k),
                                 !.floor = acked[k]]
<1>1. GetOrCreateRefresh(k) /\ UNCHANGED <<content, acked, cache, generation, writers>>
    BY Zenon DEF ReadMiss
<1>2. readers' = [readers EXCEPT ![r] = new]
    BY Zenon DEF ReadMiss
<1>3. /\ new \in Reader /\ new.step = "wait" /\ new.key = k
      /\ new.load = Target(k) /\ new.floor = acked[k]
    <2>1. Target(k) \in Nat
        BY <1>1, RefreshFacts DEF Inv, TypeOK
    <2> QED
        BY <2>1 DEF Inv, TypeOK, Reader, Unread
<1> HIDE DEF new
<1>4. TypeOK'
    BY <1>1, <1>2, <1>3, RefreshFacts DEF Inv, TypeOK
<1>5. loads'[Target(k)].step = "back" \/ loads'[Target(k)].result = "value"
      => acked[k] <= loads'[Target(k)].value
    <2>1. CASE Target(k) \in DOMAIN loads
        <3>1. /\ loads[Target(k)] = loads'[Target(k)] /\ loads'[Target(k)].result = "none"
              /\ loads'[Target(k)].key = k /\ loads'[Target(k)].generation = generation[k]
            BY <1>1, <2>1, RefreshFacts
        <3> QED
            BY <2>1, <3>1 DEF Inv, ValuesOK, Current
    <2>2. CASE Target(k) \notin DOMAIN loads
        BY <1>1, <2>2, RefreshFacts
    <2> QED
        BY <2>1, <2>2
<1>6. ReadsOK'
    <2>1. ASSUME NEW q \in Readers, readers'[q].step = "wait"
          PROVE  /\ readers'[q].key \in Keys
                 /\ readers'[q].floor <= acked'[readers'[q].key]
                 /\ readers'[q].load \in DOMAIN loads'
                 /\ loads'[readers'[q].load].key = readers'[q].key
                 /\ \/ loads'[readers'[q].load].step = "back"
                    \/ loads'[readers'[q].load].result = "value"
                    => readers'[q].floor <= loads'[readers'[q].load].value
        <3>1. CASE q = r
            BY <1>1, <1>2, <1>3, <1>5, <3>1, RefreshFacts DEF Inv, TypeOK
        <3>2. CASE q # r
            <4>1. readers'[q] = readers[q]
                BY <1>2, <3>2 DEF Inv, TypeOK
            <4> QED
                BY <1>1, <2>1, <4>1, RefreshKeepsReader
        <3> QED
            BY <3>1, <3>2
    <2>2. SeesWrites'
        BY <1>2, <1>3 DEF Inv, TypeOK, ReadsOK, SeesWrites
    <2> QED
        BY <2>1, <2>2 DEF ReadsOK, Sampled
<1> QED
    BY <1>1, <1>4, <1>6, RefreshKeeps DEF OneEntry, Inv, WritesOK

LEMMA ReadReturnKeepsInv ==
    ASSUME Inv, NEW r \in Readers, ReadReturn(r)
    PROVE  Inv'
<1> DEFINE l == loads[readers[r].load]
           new == IF l.result = "value"
                  THEN [readers[r] EXCEPT !.step = "answered", !.value = l.value]
                  ELSE [readers[r] EXCEPT !.step = "failed"]
<1>1. /\ readers[r].step = "wait" /\ l.step \notin Running
      /\ readers' = [readers EXCEPT ![r] = new]
      /\ UNCHANGED <<content, acked, cache, inflight, generation, loads, writers>>
    BY Zenon DEF ReadReturn
<1>2. l \in Load /\ (l.result = "value" => readers[r].floor <= l.value)
    BY <1>1 DEF Inv, TypeOK, ReadsOK, Sampled
<1> HIDE DEF l
<1>3. /\ new \in Reader /\ new.step # "wait"
      /\ new.step = "answered" => new.floor <= new.value
    <2>1. readers[r] \in Reader /\ l.value \in Nat
        BY <1>2 DEF Inv, TypeOK, Load
    <2>2. CASE l.result = "value"
        BY <1>2, <2>1, <2>2 DEF Reader
    <2>3. CASE l.result # "value"
        BY <2>1, <2>3 DEF Reader
    <2> QED
        BY <2>2, <2>3
<1> HIDE DEF new
<1>4. TypeOK'
    BY <1>1, <1>3 DEF Inv, TypeOK
<1>5. ReadsOK'
    BY <1>1, <1>3 DEF Inv, TypeOK, ReadsOK, SeesWrites, Sampled
<1> QED
    BY <1>1, <1>4, <1>5 DEF OneEntry, Inv, TableOK, WritesOK, ValuesOK, Live, Current, Sampled

LEMMA ReadCancelKeepsInv ==
    ASSUME Inv, NEW r \in Readers, ReadCancel(r)
    PROVE  Inv'
<1>1. TypeOK'
    BY DEF Inv, TypeOK, Reader, ReadCancel
<1>2. ReadsOK'
    BY DEF Inv, TypeOK, Reader, ReadsOK, SeesWrites, Sampled, ReadCancel
<1> QED
    BY <1>1, <1>2
    DEF OneEntry, Inv, TableOK, WritesOK, ValuesOK, Live, Current, Sampled, ReadCancel

-------------------------------------------------------------------------------

LEMMA LoadSampleKeepsInv ==
    ASSUME Inv, NEW l \in DOMAIN loads, LoadSample(l)
    PROVE  Inv'
<1> DEFINE new == [loads[l] EXCEPT !.step = "back", !.value = content[loads[l].key]]
           k == loads[l].key
<1>1. /\ LoadStep(l, "call", new)
      /\ UNCHANGED <<content, acked, cache, inflight, generation, readers, writers>>
    BY Zenon DEF LoadSample
<1>2. loads[l] \in Load /\ k \in Keys /\ loads[l].step = "call"
    <2>1. loads[l] \in Load
        BY DEF Inv, TypeOK
    <2>2. loads[l].step = "call"
        BY <1>1, Zenon DEF LoadStep
    <2> QED
        BY <2>1, <2>2 DEF Load
<1>3. /\ new \in Load /\ new.step = "back" /\ new.key = k
      /\ new.generation = loads[l].generation /\ new.value = content[k]
    BY <1>2 DEF Inv, TypeOK, Load, Running
<1> HIDE DEF new
<1>4. /\ loads' \in Seq(Load) /\ DOMAIN loads' = DOMAIN loads /\ loads'[l] = new
      /\ \A m \in DOMAIN loads : m # l => loads'[m] = loads[m]
    BY <1>1, <1>3, LoadStepFacts DEF Inv
<1>5. TypeOK'
    BY <1>1, <1>4 DEF Inv, TypeOK
<1>6. TableOK'
    <2>1. new.result = "none"
        BY <1>2 DEF Inv, TableOK, Live, Running, new
    <2>2. ASSUME NEW m \in DOMAIN loads'
          PROVE  /\ m \in DOMAIN loads /\ loads'[m].key = loads[m].key
                 /\ loads'[m].generation = loads[m].generation
                 /\ loads'[m].step \in Running <=> loads[m].step \in Running
                 /\ loads'[m].step \in Running => loads'[m].result = "none"
        <3>1. CASE m = l
            BY <1>2, <1>3, <1>4, <2>1, <3>1 DEF Running
        <3>2. CASE m # l
            BY <1>4, <2>2, <3>2 DEF Inv, TableOK, Live
        <3> QED
            BY <3>1, <3>2
    <2>3. DOMAIN loads' = DOMAIN loads
        BY <1>4
    <2> QED
        BY <1>1, <2>2, <2>3 DEF Inv, TableOK, Live, Current
<1>7. ValuesOK'
    <2>1. /\ acked[k] <= content[k]
          /\ \A e \in cache[k] : e.value <= content[k]
          /\ content[k] \in Nat
        BY <1>2 DEF Inv, TypeOK, WritesOK, ValuesOK
    <2>2. ASSUME NEW m \in DOMAIN loads', m # l
          PROVE  loads'[m] = loads[m] /\ m \in DOMAIN loads
        BY <1>4, <2>2
    <2> QED
        BY <1>1, <1>3, <1>4, <2>1, <2>2 DEF Inv, ValuesOK, Current, Sampled
<1>8. ReadsOK'
    <2>1. \A q \in Readers : readers[q].step = "wait" => readers[q].floor <= content[readers[q].key]
        BY DEF Inv, TypeOK, ReadsOK, WritesOK, Reader
    <2> QED
        BY <1>1, <1>3, <1>4, <2>1 DEF Inv, ReadsOK, SeesWrites, Sampled
<1> QED
    BY <1>1, <1>5, <1>6, <1>7, <1>8 DEF OneEntry, Inv, WritesOK

LEMMA LoadStoreKeepsInv ==
    ASSUME Inv, NEW l \in DOMAIN loads, LoadStore(l)
    PROVE  Inv'
<1> DEFINE new == [loads[l] EXCEPT !.step = "over", !.result = "value"]
           k == loads[l].key
           entry == [value |-> loads[l].value, age |-> 0]
<1>1. /\ LoadStep(l, "back", new)
      /\ cache' = IF generation[k] = loads[l].generation
                  THEN [cache EXCEPT ![k] = {entry}] ELSE cache
      /\ UNCHANGED <<content, acked, inflight, generation, readers, writers>>
    BY Zenon DEF LoadStore
<1>2. loads[l] \in Load /\ k \in Keys /\ loads[l].step = "back"
    <2>1. loads[l] \in Load
        BY DEF Inv, TypeOK
    <2>2. loads[l].step = "back"
        BY <1>1, Zenon DEF LoadStep
    <2> QED
        BY <2>1, <2>2 DEF Load
<1>3. /\ new \in Load /\ new.step = "over" /\ new.result = "value" /\ new.key = k
      /\ new.generation = loads[l].generation /\ new.value = loads[l].value
    BY <1>2 DEF Load
<1>4. entry \in Entry /\ entry.value = loads[l].value
    BY <1>2, Constants DEF Entry, Load
<1> HIDE DEF new, entry
<1>5. /\ loads' \in Seq(Load) /\ DOMAIN loads' = DOMAIN loads /\ loads'[l] = new
      /\ \A m \in DOMAIN loads : m # l => loads'[m] = loads[m]
    BY <1>1, <1>3, LoadStepFacts DEF Inv
<1>6. TypeOK'
    BY <1>1, <1>4, <1>5 DEF Inv, TypeOK
<1>7. TableOK'
    BY <1>1, <1>2, <1>3, <1>5 DEF Inv, TableOK, Live, Current, Running
<1>8. ValuesOK'
    <2>1. ASSUME NEW j \in Keys, NEW e \in cache'[j]
          PROVE  acked'[j] <= e.value /\ e.value <= content'[j]
        BY <1>1, <1>2, <1>4, <2>1 DEF Inv, TypeOK, ValuesOK, Current, Sampled
    <2>2. ASSUME NEW m \in DOMAIN loads'
          PROVE  loads'[m].step = "back" \/ loads'[m].result = "value"
                 => loads'[m].value <= content'[loads'[m].key]
        BY <1>1, <1>2, <1>3, <1>5, <2>2 DEF Inv, ValuesOK, Sampled
    <2>3. ASSUME NEW m \in DOMAIN loads', loads'[m].step = "back",
                 loads'[m].generation = generation'[loads'[m].key]
          PROVE  /\ acked'[loads'[m].key] <= loads'[m].value
                 /\ \A e \in cache'[loads'[m].key] : e.value <= loads'[m].value
        <3>1. m # l /\ loads'[m] = loads[m]
            BY <1>3, <1>5, <2>3
        <3>2. CASE loads[m].key = k /\ generation[k] = loads[l].generation
            BY <1>1, <1>2, <1>5, <2>3, <3>1, <3>2 DEF Inv, TableOK, Live, Current, Running
        <3>3. CASE ~ (loads[m].key = k /\ generation[k] = loads[l].generation)
            <4>1. cache'[loads[m].key] = cache[loads[m].key]
                BY <1>1, <3>3 DEF Inv, TypeOK
            <4> QED
                BY <1>1, <1>5, <2>3, <3>1, <4>1 DEF Inv, ValuesOK, Current
        <3> QED
            BY <3>2, <3>3
    <2> QED
        BY <2>1, <2>2, <2>3 DEF ValuesOK, Sampled, Current
<1>9. ReadsOK'
    BY <1>1, <1>2, <1>3, <1>5 DEF Inv, ReadsOK, SeesWrites, Sampled
<1>10. OneEntry'
    BY <1>1, <1>2 DEF Inv, TypeOK, OneEntry
<1> QED
    BY <1>1, <1>6, <1>7, <1>8, <1>9, <1>10 DEF Inv, WritesOK

LEMMA LoadFailKeepsInv ==
    ASSUME Inv, NEW l \in DOMAIN loads, LoadFail(l)
    PROVE  Inv'
<1>1. PICK from \in {"call", "back"} :
          \/ /\ loads[l].attempt < MaxAttempts
             /\ LoadStep(l, from, [loads[l] EXCEPT !.step = "call", !.attempt = @ + 1])
          \/ LoadStep(l, from, [loads[l] EXCEPT !.step = "over", !.result = "error"])
    BY Zenon DEF LoadFail
<1>2. UNCHANGED <<content, acked, cache, inflight, generation, readers, writers>>
    BY Zenon DEF LoadFail
<1>3. loads[l] \in Load /\ loads[l].step \in Running /\ loads[l].result = "none"
    <2>1. loads[l] \in Load
        BY DEF Inv, TypeOK
    <2>2. loads[l].step \in Running
        BY <1>1 DEF LoadStep, Running
    <2> QED
        BY <2>1, <2>2 DEF Inv, TableOK, Live
<1>4. PICK new \in Load :
          /\ LoadStep(l, from, new)
          /\ new.key = loads[l].key /\ new.generation = loads[l].generation
          /\ \/ new.step = "call" /\ new.result = "none"
             \/ new.step = "over" /\ new.result = "error"
    <2>1. CASE /\ loads[l].attempt < MaxAttempts
               /\ LoadStep(l, from, [loads[l] EXCEPT !.step = "call", !.attempt = @ + 1])
        <3> DEFINE new == [loads[l] EXCEPT !.step = "call", !.attempt = @ + 1]
        <3>1. /\ new \in Load /\ new.key = loads[l].key
              /\ new.generation = loads[l].generation
              /\ new.step = "call" /\ new.result = "none"
            <4>1. loads[l].attempt + 1 \in 1..MaxAttempts
                <5>1. loads[l].attempt < MaxAttempts
                    BY <2>1, Zenon
                <5>2. loads[l].attempt \in 1..MaxAttempts
                    BY <1>3 DEF Load
                <5> QED
                    BY <5>1, <5>2, Constants
            <4> QED
                BY <1>3, <4>1 DEF Load, Running
        <3>2. LoadStep(l, from, new)
            BY <2>1, Zenon
        <3> HIDE DEF new
        <3> QED
            BY <3>1, <3>2
    <2>2. CASE LoadStep(l, from, [loads[l] EXCEPT !.step = "over", !.result = "error"])
        <3> DEFINE new == [loads[l] EXCEPT !.step = "over", !.result = "error"]
        <3>1. /\ new \in Load /\ new.key = loads[l].key
              /\ new.generation = loads[l].generation
              /\ new.step = "over" /\ new.result = "error"
            BY <1>3 DEF Load, Running
        <3>2. LoadStep(l, from, new)
            BY <2>2, Zenon
        <3> HIDE DEF new
        <3> QED
            BY <3>1, <3>2
    <2> QED
        BY <1>1, <2>1, <2>2
<1>5. /\ loads' \in Seq(Load) /\ DOMAIN loads' = DOMAIN loads /\ loads'[l] = new
      /\ \A m \in DOMAIN loads : m # l => loads'[m] = loads[m]
    BY <1>4, LoadStepFacts DEF Inv
<1>6. TypeOK'
    BY <1>2, <1>5 DEF Inv, TypeOK
<1>7. TableOK'
    BY <1>2, <1>3, <1>4, <1>5 DEF Inv, TableOK, Live, Current, Running
<1>8. ValuesOK'
    BY <1>2, <1>4, <1>5 DEF Inv, ValuesOK, Current, Sampled
<1>9. ReadsOK'
    BY <1>2, <1>4, <1>5 DEF Inv, ReadsOK, SeesWrites, Sampled
<1> QED
    BY <1>2, <1>6, <1>7, <1>8, <1>9 DEF OneEntry, Inv, WritesOK

LEMMA RefreshDoneKeepsInv ==
    ASSUME Inv, NEW l \in DOMAIN loads, RefreshDone(l)
    PROVE  Inv'
<1> DEFINE new == [loads[l] EXCEPT !.step = "gone"]
           k == loads[l].key
<1>1. /\ LoadStep(l, "over", new)
      /\ inflight' = IF inflight[k] = l THEN [inflight EXCEPT ![k] = 0] ELSE inflight
      /\ UNCHANGED <<content, acked, cache, generation, readers, writers>>
    BY Zenon DEF RefreshDone
<1>2. loads[l] \in Load /\ k \in Keys /\ loads[l].step = "over"
    <2>1. loads[l] \in Load
        BY DEF Inv, TypeOK
    <2>2. loads[l].step = "over"
        BY <1>1, Zenon DEF LoadStep
    <2> QED
        BY <2>1, <2>2 DEF Load
<1>3. /\ new \in Load /\ new.step = "gone" /\ new.result = loads[l].result
      /\ new.key = k /\ new.generation = loads[l].generation /\ new.value = loads[l].value
    BY <1>2 DEF Load
<1> HIDE DEF new
<1>4. /\ loads' \in Seq(Load) /\ DOMAIN loads' = DOMAIN loads /\ loads'[l] = new
      /\ \A m \in DOMAIN loads : m # l => loads'[m] = loads[m]
    BY <1>1, <1>3, LoadStepFacts DEF Inv
<1>5. TypeOK'
    BY <1>1, <1>4 DEF Inv, TypeOK
<1>6. TableOK'
    <2>1. ASSUME NEW j \in Keys, inflight'[j] # 0
          PROVE  inflight'[j] = inflight[j] /\ inflight[j] \in DOMAIN loads /\ inflight[j] # l
        BY <1>1, <1>2, <2>1 DEF Inv, TypeOK, TableOK
    <2>2. ASSUME NEW m \in DOMAIN loads', loads'[m].step \in Running
          PROVE  /\ m # l /\ m \in DOMAIN loads /\ loads'[m] = loads[m]
                 /\ inflight[loads[m].key] = m => inflight'[loads[m].key] = m
        BY <1>1, <1>3, <1>4, <2>2 DEF Inv, TypeOK, Running
    <2>3. ASSUME NEW m \in DOMAIN loads'
          PROVE  /\ m \in DOMAIN loads /\ loads'[m].key = loads[m].key
                 /\ loads'[m].generation = loads[m].generation
        BY <1>3, <1>4
    <2> QED
        BY <1>1, <1>4, <2>1, <2>2, <2>3 DEF Inv, TableOK, Live, Current
<1>7. ValuesOK'
    BY <1>1, <1>2, <1>3, <1>4 DEF Inv, ValuesOK, Current, Sampled
<1>8. ReadsOK'
    BY <1>1, <1>2, <1>3, <1>4 DEF Inv, ReadsOK, SeesWrites, Sampled
<1> QED
    BY <1>1, <1>5, <1>6, <1>7, <1>8 DEF OneEntry, Inv, WritesOK

-------------------------------------------------------------------------------

LEMMA WriteLandKeepsInv ==
    ASSUME Inv, NEW w \in Writers, NEW t \in Tabs, WriteLand(w, t)
    PROVE  Inv'
<1> DEFINE new == [step |-> "landed", tab |-> t, mark |-> content']
<1>1. /\ content' = [k \in Keys |-> IF TabOf[k] = t THEN content[k] + 1 ELSE content[k]]
      /\ writers' = [writers EXCEPT ![w] = new]
      /\ UNCHANGED <<acked, cache, inflight, generation, loads, readers>>
    BY Zenon DEF WriteLand
<1>2. content' \in [Keys -> Nat] /\ \A k \in Keys : content[k] <= content'[k]
    BY <1>1 DEF Inv, TypeOK
<1>3. new \in Writer /\ new.mark = content'
    BY <1>2 DEF Writer
<1> HIDE DEF new
<1>4. TypeOK'
    BY <1>1, <1>2, <1>3 DEF Inv, TypeOK
<1>5. WritesOK'
    <2>1. \A k \in Keys : acked'[k] <= content'[k]
        BY <1>1, <1>2 DEF Inv, TypeOK, WritesOK
    <2>2. ASSUME NEW v \in Writers, writers'[v].step = "landed", NEW k \in Keys
          PROVE  writers'[v].mark[k] <= content'[k]
        <3>1. CASE v = w
            BY <1>1, <1>2, <1>3, <3>1 DEF Inv, TypeOK
        <3>2. CASE v # w
            <4>1. writers'[v] = writers[v] /\ writers[v] \in Writer
                BY <1>1, <3>2 DEF Inv, TypeOK
            <4>2. writers[v].mark[k] \in Nat /\ writers[v].mark[k] <= content[k]
                BY <2>2, <4>1 DEF Writer, Inv, WritesOK
            <4> QED
                BY <1>2, <4>1, <4>2 DEF Inv, TypeOK
        <3> QED
            BY <3>1, <3>2
    <2> QED
        BY <2>1, <2>2 DEF WritesOK
<1>6. ValuesOK'
    <2>1. ASSUME NEW k \in Keys, NEW e \in cache[k]
          PROVE  e.value <= content'[k]
        <3>1. e.value \in Nat /\ e.value <= content[k] /\ content[k] \in Nat
            BY DEF Inv, TypeOK, Entry, ValuesOK
        <3> QED
            BY <1>2, <3>1
    <2>2. ASSUME NEW l \in DOMAIN loads, Sampled(l)
          PROVE  loads[l].value <= content'[loads[l].key]
        <3>1. loads[l] \in Load
            BY DEF Inv, TypeOK
        <3>2. loads[l].key \in Keys /\ loads[l].value \in Nat
            BY <3>1 DEF Load
        <3> QED
            BY <1>2, <2>2, <3>2 DEF Inv, TypeOK, ValuesOK
    <2> QED
        BY <1>1, <2>1, <2>2 DEF Inv, ValuesOK, Current, Sampled
<1> QED
    BY <1>1, <1>4, <1>5, <1>6
    DEF OneEntry, Inv, TableOK, ReadsOK, SeesWrites, Live, Current, Sampled

LEMMA WriteReturnKeepsInv ==
    ASSUME Inv, NEW w \in Writers, WriteReturn(w)
    PROVE  Inv'
<1> DEFINE t == writers[w].tab
           mark == writers[w].mark
<1>1. /\ writers[w].step = "landed"
      /\ generation' = [k \in Keys |-> IF k \in Affected(t) THEN generation[k] + 1
                                       ELSE generation[k]]
      /\ cache' = [k \in Keys |-> IF k \in Affected(t) THEN {} ELSE cache[k]]
      /\ inflight' = [k \in Keys |-> IF k \in Affected(t) THEN 0 ELSE inflight[k]]
      /\ acked' = [k \in Keys |-> IF TabOf[k] = t /\ acked[k] < mark[k]
                                  THEN mark[k] ELSE acked[k]]
      /\ writers' = [writers EXCEPT ![w].step = "acked"]
      /\ UNCHANGED <<content, loads, readers>>
    BY Zenon DEF WriteReturn
<1>2. /\ mark \in [Keys -> Nat] /\ \A k \in Keys : mark[k] <= content[k]
      /\ \A v \in Writers : v # w => writers'[v] = writers[v]
      /\ writers' \in [Writers -> Writer] /\ writers'[w].step = "acked"
    <2>1. writers[w] \in Writer
        BY DEF Inv, TypeOK
    <2> QED
        BY <1>1, <2>1 DEF Writer, Inv, TypeOK, WritesOK
\* What the invalidation does to one key.
<1>3. ASSUME NEW k \in Keys
      PROVE  \/ /\ k \in Affected(t)
                /\ cache'[k] = {} /\ inflight'[k] = 0 /\ generation'[k] = generation[k] + 1
                /\ acked[k] <= acked'[k] /\ acked'[k] <= content[k] /\ acked'[k] \in Nat
             \/ /\ k \notin Affected(t)
                /\ cache'[k] = cache[k] /\ inflight'[k] = inflight[k]
                /\ generation'[k] = generation[k]
                /\ acked[k] <= acked'[k] /\ acked'[k] <= content[k] /\ acked'[k] \in Nat
                /\ acked'[k] = acked[k] \/ (cache[k] = {} /\ inflight[k] = 0)
    <2>1. /\ acked[k] \in Nat /\ content[k] \in Nat /\ generation[k] \in Nat
          /\ acked[k] <= content[k] /\ mark[k] \in Nat /\ mark[k] <= content[k]
        BY <1>2 DEF Inv, TypeOK, WritesOK
    <2>2. /\ acked[k] <= acked'[k] /\ acked'[k] <= content[k] /\ acked'[k] \in Nat
          /\ acked'[k] = acked[k] \/ TabOf[k] = t
        BY <1>1, <2>1
    <2>3. CASE k \in Affected(t)
        BY <1>1, <2>2, <2>3
    <2>4. CASE k \notin Affected(t)
        <3>1. TabOf[k] = t => cache[k] = {} /\ inflight[k] = 0
            BY <2>4 DEF Affected
        <3> QED
            BY <1>1, <2>2, <2>4, <3>1
    <2> QED
        BY <2>3, <2>4
<1>4. TypeOK'
    <2>1. /\ acked' \in [Keys -> Nat] /\ cache' \in [Keys -> SUBSET Entry]
          /\ inflight' \in [Keys -> Nat] /\ generation' \in [Keys -> Nat]
        BY <1>1, <1>2 DEF Inv, TypeOK
    <2> QED
        BY <1>1, <1>2, <2>1 DEF Inv, TypeOK
\* A live load of the current generation is in the table, so an invalidation
\* that reaches its key leaves it behind.
<1>5. ASSUME NEW l \in DOMAIN loads, loads[l].generation = generation'[loads[l].key]
      PROVE  /\ loads[l].key \notin Affected(t) /\ loads[l].key \in Keys
             /\ Current(l)
    <2>1. loads[l] \in Load
        BY DEF Inv, TypeOK
    <2>2. loads[l].key \in Keys /\ loads[l].generation \in Nat
        BY <2>1 DEF Load
    <2>3. loads[l].generation <= generation[loads[l].key] /\ generation[loads[l].key] \in Nat
        BY <2>2 DEF Inv, TypeOK, TableOK
    <2> QED
        BY <1>3, <1>5, <2>2, <2>3 DEF Current
<1>6. TableOK'
    <2>1. ASSUME NEW k \in Keys, inflight'[k] # 0
          PROVE  inflight'[k] = inflight[k] /\ generation'[k] = generation[k]
        BY <1>3, <2>1
    <2>2. ASSUME NEW l \in DOMAIN loads
          PROVE  loads[l].generation <= generation'[loads[l].key]
        <3>1. loads[l] \in Load
            BY DEF Inv, TypeOK
        <3>2. loads[l].key \in Keys /\ loads[l].generation \in Nat
            BY <3>1 DEF Load
        <3>3. generation[loads[l].key] \in Nat
            BY <3>2 DEF Inv, TypeOK
        <3> QED
            BY <1>3, <3>2, <3>3 DEF Inv, TableOK
    <2>3. ASSUME NEW l \in DOMAIN loads, Live(l),
                 loads[l].generation = generation'[loads[l].key]
          PROVE  inflight'[loads[l].key] = l
        BY <1>3, <1>5, <2>3 DEF Inv, TableOK
    <2> QED
        BY <1>1, <2>1, <2>2, <2>3 DEF Inv, TableOK, Live, Current
<1>7. WritesOK'
    <2>1. ASSUME NEW v \in Writers, writers'[v].step = "landed"
          PROVE  v # w /\ writers'[v] = writers[v]
        BY <1>2, <2>1
    <2> QED
        BY <1>1, <1>3, <2>1 DEF Inv, WritesOK
<1>8. ValuesOK'
    <2>1. ASSUME NEW k \in Keys, NEW e \in cache'[k]
          PROVE  acked'[k] <= e.value /\ e.value <= content'[k]
        BY <1>1, <1>3, <2>1 DEF Inv, ValuesOK
    <2>2. ASSUME NEW l \in DOMAIN loads, loads[l].step = "back",
                 loads[l].generation = generation'[loads[l].key]
          PROVE  /\ acked'[loads[l].key] <= loads[l].value
                 /\ \A e \in cache'[loads[l].key] : e.value <= loads[l].value
        <3>1. /\ loads[l].key \notin Affected(t) /\ loads[l].key \in Keys /\ Current(l)
            BY <1>5, <2>2
        <3>2. inflight[loads[l].key] # 0
            <4>1. inflight[loads[l].key] = l
                BY <2>2, <3>1 DEF Inv, TableOK, Live, Running
            <4>2. l # 0
                BY DEF Inv, TypeOK
            <4> QED
                BY <4>1, <4>2
        <3>3. acked'[loads[l].key] = acked[loads[l].key]
              /\ cache'[loads[l].key] = cache[loads[l].key]
            BY <1>3, <3>1, <3>2
        <3> QED
            BY <2>2, <3>1, <3>3 DEF Inv, ValuesOK
    <2> QED
        BY <1>1, <2>1, <2>2 DEF Inv, ValuesOK, Current, Sampled
<1>9. ReadsOK'
    <2>1. ASSUME NEW r \in Readers, readers[r].step = "wait"
          PROVE  readers[r].floor <= acked'[readers[r].key]
        <3>1. readers[r] \in Reader
            BY DEF Inv, TypeOK
        <3>2. /\ readers[r].key \in Keys /\ readers[r].floor \in Nat
              /\ readers[r].floor <= acked[readers[r].key]
            BY <2>1, <3>1 DEF Inv, ReadsOK, Reader
        <3>3. acked[readers[r].key] \in Nat
            BY <3>2 DEF Inv, TypeOK
        <3> QED
            BY <1>3, <3>2, <3>3
    <2> QED
        BY <1>1, <2>1 DEF Inv, ReadsOK, SeesWrites, Sampled
<1>10. OneEntry'
    BY <1>3 DEF Inv, OneEntry
<1> QED
    BY <1>4, <1>6, <1>7, <1>8, <1>9, <1>10 DEF Inv

LEMMA WriteLostKeepsInv ==
    ASSUME Inv, NEW w \in Writers, WriteLost(w)
    PROVE  Inv'
<1>1. /\ writers' = [writers EXCEPT ![w].step = "failed"]
      /\ UNCHANGED <<content, acked, cache, inflight, generation, loads, readers>>
    BY Zenon DEF WriteLost
<1>2. /\ \A v \in Writers : v # w => writers'[v] = writers[v]
      /\ writers' \in [Writers -> Writer] /\ writers'[w].step = "failed"
    <2>1. writers[w] \in Writer
        BY DEF Inv, TypeOK
    <2> QED
        BY <1>1, <2>1 DEF Writer, Inv, TypeOK
<1>3. TypeOK' /\ WritesOK'
    BY <1>1, <1>2 DEF Inv, TypeOK, WritesOK
<1> QED
    BY <1>1, <1>3 DEF OneEntry, Inv, TableOK, ValuesOK, ReadsOK, SeesWrites, Live, Current, Sampled

LEMMA TickKeepsInv ==
    ASSUME Inv, Tick
    PROVE  Inv'
<1> DEFINE older(e) == [e EXCEPT !.age = IF @ < StaleTtl THEN @ + 1 ELSE @]
<1>1. /\ cache' = [k \in Keys |-> {older(e) : e \in cache[k]}]
      /\ UNCHANGED <<content, acked, inflight, generation, loads, readers, writers>>
    BY Zenon DEF Tick
<1>2. \A e \in Entry : older(e) \in Entry /\ older(e).value = e.value
    BY Constants DEF Entry
<1> HIDE DEF older
<1>3. \A k \in Keys : cache[k] \subseteq Entry
    BY DEF Inv, TypeOK
<1>4. \A k \in Keys : \A e \in cache'[k] : e \in Entry /\ \E f \in cache[k] : e.value = f.value
    BY <1>1, <1>2, <1>3
<1>5. TypeOK'
    <2>1. cache' \in [Keys -> SUBSET Entry]
        BY <1>1, <1>2, <1>3
    <2> QED
        BY <1>1, <2>1 DEF Inv, TypeOK
<1>6. ValuesOK'
    <2>1. ASSUME NEW l \in DOMAIN loads
          PROVE  loads[l].key \in Keys
        <3>1. loads[l] \in Load
            BY DEF Inv, TypeOK
        <3> QED
            BY <3>1 DEF Load
    <2> QED
        BY <1>1, <1>4, <2>1 DEF Inv, ValuesOK, Current, Sampled
<1>7. OneEntry'
    BY <1>1 DEF Inv, OneEntry
<1> QED
    BY <1>1, <1>5, <1>6, <1>7 DEF Inv, TableOK, WritesOK, ReadsOK, SeesWrites, Live, Current, Sampled

-------------------------------------------------------------------------------

LEMMA NextKeepsInv == Inv /\ [Next]_vars => Inv'
<1> SUFFICES ASSUME Inv, [Next]_vars PROVE Inv'
    OBVIOUS
<1>1. ASSUME NEW r \in Readers, ReadStep(r) PROVE Inv'
    BY <1>1, ReadFreshKeepsInv, ReadStaleKeepsInv, ReadMissKeepsInv, ReadReturnKeepsInv,
       ReadCancelKeepsInv, Zenon DEF ReadStep
<1>2. ASSUME NEW l \in DOMAIN loads, LoadNext(l) PROVE Inv'
    BY <1>2, LoadSampleKeepsInv, LoadStoreKeepsInv, LoadFailKeepsInv, RefreshDoneKeepsInv,
       Zenon DEF LoadNext
<1>3. ASSUME NEW w \in Writers, WriteStep(w) PROVE Inv'
    BY <1>3, WriteLandKeepsInv, WriteReturnKeepsInv, WriteLostKeepsInv, Zenon DEF WriteStep
<1>4. CASE Tick
    BY <1>4, TickKeepsInv
<1>5. CASE UNCHANGED vars
    BY <1>5 DEF vars, OneEntry, Inv, TypeOK, TableOK, WritesOK, ValuesOK, ReadsOK, SeesWrites,
                Live, Current, Sampled
<1> QED
    BY <1>1, <1>2, <1>3, <1>4, <1>5, Zenon DEF Next

LEMMA Invariance == Spec => []Inv
<1> QED
    BY InitInv, NextKeepsInv, PTL DEF Spec

LEMMA InvSingleFlight == Inv => SingleFlight
BY DEF Inv, TableOK, SingleFlight, Current

\* A step that changes what is cached for a key does not go back to an older
\* version of it.
LEMMA StepNeverRegresses ==
    ASSUME Inv, [Next]_vars
    PROVE  \A k \in Keys : \A e \in cache[k], e2 \in cache'[k] : e.value <= e2.value
<1> SUFFICES ASSUME NEW k \in Keys, NEW e \in cache[k], NEW e2 \in cache'[k]
             PROVE  e.value <= e2.value
    OBVIOUS
<1>1. e.value \in Nat /\ \A f \in cache[k] : f = e
    BY DEF Inv, TypeOK, OneEntry, Entry
<1>2. CASE cache' = cache
    BY <1>1, <1>2
<1>3. ASSUME NEW l \in DOMAIN loads, LoadStore(l)
      PROVE  e.value <= e2.value
    <2>1. CASE loads[l].key = k /\ Current(l)
        <3>1. cache' = [cache EXCEPT ![k] = {[value |-> loads[l].value, age |-> 0]}]
            BY <1>3, <2>1, Zenon DEF LoadStore, Current
        <3>2. e2.value = loads[l].value
            BY <3>1 DEF Inv, TypeOK
        <3>3. loads[l].step = "back"
            BY <1>3, Zenon DEF LoadStore, LoadStep
        <3> QED
            BY <2>1, <3>2, <3>3 DEF Inv, ValuesOK
    <2>2. CASE ~ (loads[l].key = k /\ Current(l))
        <3>1. cache' = IF Current(l)
                       THEN [cache EXCEPT ![loads[l].key] = {[value |-> loads[l].value, age |-> 0]}]
                       ELSE cache
            BY <1>3, Zenon DEF LoadStore, Current
        <3>2. cache'[k] = cache[k]
            BY <2>2, <3>1 DEF Inv, TypeOK
        <3> QED
            BY <1>1, <3>2
    <2> QED
        BY <2>1, <2>2
<1>4. ASSUME NEW w \in Writers, WriteReturn(w)
      PROVE  e.value <= e2.value
    <2>1. cache'[k] = {} \/ cache'[k] = cache[k]
        BY <1>4 DEF WriteReturn
    <2> QED
        BY <1>1, <2>1
<1>5. CASE Tick
    <2> DEFINE older(x) == [x EXCEPT !.age = IF @ < StaleTtl THEN @ + 1 ELSE @]
    <2>1. cache' = [j \in Keys |-> {older(x) : x \in cache[j]}]
        BY <1>5, Zenon DEF Tick
    <2>2. \A x \in Entry : older(x).value = x.value
        BY DEF Entry
    <2>3. e \in Entry
        BY DEF Inv, TypeOK
    <2> HIDE DEF older
    <2>4. e2 = older(e)
        BY <1>1, <2>1
    <2> QED
        BY <1>1, <2>2, <2>3, <2>4
<1>6. CASE \E r \in Readers : ReadStep(r)
    <2>1. cache' = cache
        BY <1>6, Zenon DEF ReadStep, ReadFresh, ReadStale, ReadMiss, ReadReturn, ReadCancel
    <2> QED
        BY <1>2, <2>1
<1>7. CASE \E l \in DOMAIN loads : LoadSample(l) \/ LoadFail(l) \/ RefreshDone(l)
    <2>1. cache' = cache
        BY <1>7, Zenon DEF LoadSample, LoadFail, RefreshDone
    <2> QED
        BY <1>2, <2>1
<1>8. CASE \E w \in Writers : (\E t \in Tabs : WriteLand(w, t)) \/ WriteLost(w)
    <2>1. cache' = cache
        BY <1>8, Zenon DEF WriteLand, WriteLost
    <2> QED
        BY <1>2, <2>1
<1>9. CASE UNCHANGED vars
    BY <1>2, <1>9 DEF vars
<1> QED
    BY <1>3, <1>4, <1>5, <1>6, <1>7, <1>8, <1>9, Zenon DEF Next, LoadNext, WriteStep

-------------------------------------------------------------------------------

\* The variables keep their types.
THEOREM TypeCorrect == Spec => []TypeOK
<1>1. Inv => TypeOK
    BY DEF Inv
<1> QED
    BY <1>1, Invariance, PTL

\* Reads of a key are coalesced: at most one load of it runs under its current
\* generation.
THEOREM ReadsAreCoalesced == Spec => []SingleFlight
BY InvSingleFlight, Invariance, PTL

\* No read is answered with a version older than the writes acknowledged before
\* it began.
THEOREM ReadsSeeWrites == Spec => []SeesWrites
<1>1. Inv => SeesWrites
    BY DEF Inv, ReadsOK
<1> QED
    BY <1>1, Invariance, PTL

\* The cache of a key never goes back to an older version.
THEOREM CacheMovesForward == Spec => CacheNeverRegresses
<1>1. Inv /\ [Next]_vars
      => [\A k \in Keys : \A e \in cache[k], e2 \in cache'[k] : e.value <= e2.value]_vars
    BY StepNeverRegresses
<1> QED
    BY <1>1, Invariance, PTL DEF Spec, CacheNeverRegresses

-------------------------------------------------------------------------------
(* The broker implements ReadYourWrites.                                      *)

LEMMA InitRefines == Init => Abstract!Init
<1> SUFFICES ASSUME Init PROVE Abstract!Init
    OBVIOUS
<1>1. content = [k \in Keys |-> 0] /\ acked = [k \in Keys |-> 0]
    BY Zenon DEF Init
<1>2. \A r \in Readers : readers[r] = Unread
    BY Zenon DEF Init
<1>3. LogicalReads = [r \in Readers |-> Abstract!Unread]
    BY <1>2 DEF LogicalReads, Unread, Abstract!Unread
<1> QED
    BY <1>1, <1>3, Zenon DEF Abstract!Init

\* The abstract read of a reader, and what a change of one reader does to it.
LEMMA LogicalReadFacts ==
    ASSUME Inv, NEW r \in Readers
    PROVE  /\ LogicalReads[r].step = readers[r].step
           /\ LogicalReads[r].key = readers[r].key
           /\ LogicalReads[r].floor = readers[r].floor
           /\ LogicalReads[r].value = readers[r].value
           /\ readers[r] = Unread => LogicalReads[r] = Abstract!Unread
BY DEF LogicalReads, Unread, Abstract!Unread

LEMMA LogicalReadChange ==
    ASSUME Inv, NEW r \in Readers, NEW new, readers' = [readers EXCEPT ![r] = new]
    PROVE  Abstract!Becomes(r, new.step, new.key, new.floor, new.value)
<1>1. LogicalReads' = [LogicalReads EXCEPT
                          ![r] = [step  |-> new.step,  key   |-> new.key,
                                  floor |-> new.floor, value |-> new.value]]
    BY DEF LogicalReads, Inv, TypeOK
<1> QED
    BY <1>1, Zenon DEF Abstract!Becomes

\* A reader whose step alone changes.
LEMMA FailRefines ==
    ASSUME Inv, NEW r \in Readers, readers[r].step = "wait",
           readers' = [readers EXCEPT ![r] = [readers[r] EXCEPT !.step = "failed"]],
           UNCHANGED <<content, acked>>
    PROVE  Abstract!Fail(r)
<1> DEFINE new == [readers[r] EXCEPT !.step = "failed"]
<1>1. readers[r] \in Reader
    BY DEF Inv, TypeOK
<1>2. /\ new.step = "failed" /\ new.key = readers[r].key
      /\ new.floor = readers[r].floor /\ new.value = readers[r].value
    BY <1>1 DEF Reader
<1>3. readers' = [readers EXCEPT ![r] = new]
    OBVIOUS
<1> HIDE DEF new
<1>4. Abstract!Becomes(r, "failed", readers[r].key, readers[r].floor, readers[r].value)
    <2>1. Abstract!Becomes(r, new.step, new.key, new.floor, new.value)
        BY <1>3, LogicalReadChange
    <2> QED
        BY <1>2, <2>1
<1> QED
    BY <1>4, LogicalReadFacts DEF Abstract!Fail

LEMMA AnswerAtOnceRefines ==
    ASSUME Inv, NEW r \in Readers, NEW k \in Keys, NEW e \in cache[k],
           readers[r] = Unread,
           readers' = [readers EXCEPT ![r] = Answered(k, e.value)],
           UNCHANGED <<content, acked>>
    PROVE  Abstract!AnswerAtOnce(r, k)
<1> DEFINE new == Answered(k, e.value)
<1>1. e.value \in acked[k]..content[k]
    BY DEF Inv, TypeOK, ValuesOK, Entry
<1>2. Abstract!Becomes(r, "answered", k, acked[k], e.value)
    <2>1. /\ new.step = "answered" /\ new.key = k
          /\ new.floor = acked[k] /\ new.value = e.value
        BY DEF Answered
    <2>2. Abstract!Becomes(r, new.step, new.key, new.floor, new.value)
        BY LogicalReadChange
    <2> HIDE DEF new
    <2> QED
        BY <2>1, <2>2
<1>3. LogicalReads[r] = Abstract!Unread
    BY LogicalReadFacts
<1> QED
    BY <1>1, <1>2, <1>3, Zenon DEF Abstract!AnswerAtOnce

LEMMA ReadMissRefines ==
    ASSUME Inv, NEW r \in Readers, NEW k \in Keys, NEW required \in BOOLEAN,
           ReadMiss(r, k, required)
    PROVE  Abstract!Begin(r, k)
<1> DEFINE new == [Unread EXCEPT !.step = "wait", !.key = k, !.load = Target(k),
                                 !.floor = acked[k]]
<1>1. readers[r] = Unread /\ readers' = [readers EXCEPT ![r] = new]
      /\ UNCHANGED <<content, acked>>
    BY Zenon DEF ReadMiss
<1>2. new.step = "wait" /\ new.key = k /\ new.floor = acked[k] /\ new.value = 0
    BY DEF Unread
<1> HIDE DEF new
<1>3. Abstract!Becomes(r, "wait", k, acked[k], 0)
    <2>1. Abstract!Becomes(r, new.step, new.key, new.floor, new.value)
        BY <1>1, LogicalReadChange
    <2> QED
        BY <1>2, <2>1
<1>4. LogicalReads[r] = Abstract!Unread
    BY <1>1, LogicalReadFacts
<1> QED
    BY <1>1, <1>3, <1>4, Zenon DEF Abstract!Begin

LEMMA ReadReturnRefines ==
    ASSUME Inv, NEW r \in Readers, ReadReturn(r)
    PROVE  Abstract!Answer(r) \/ Abstract!Fail(r)
<1> DEFINE l == loads[readers[r].load]
<1>1. /\ readers[r].step = "wait"
      /\ readers' = [readers EXCEPT ![r] = IF l.result = "value"
                                           THEN [readers[r] EXCEPT !.step = "answered",
                                                                   !.value = l.value]
                                           ELSE [readers[r] EXCEPT !.step = "failed"]]
      /\ UNCHANGED <<content, acked>>
    BY Zenon DEF ReadReturn
<1>2. readers[r] \in Reader
    BY DEF Inv, TypeOK
<1>3. CASE l.result = "value"
    <2> DEFINE new == [readers[r] EXCEPT !.step = "answered", !.value = l.value]
    <2>1. readers' = [readers EXCEPT ![r] = new]
        BY <1>1, <1>3, Zenon
    <2>2. /\ new.step = "answered" /\ new.key = readers[r].key
          /\ new.floor = readers[r].floor /\ new.value = l.value
        BY <1>2 DEF Reader
    <2> HIDE DEF new
    <2>3. Abstract!Becomes(r, "answered", readers[r].key, readers[r].floor, l.value)
        <3>1. Abstract!Becomes(r, new.step, new.key, new.floor, new.value)
            BY <2>1, LogicalReadChange
        <3> HIDE DEF l
        <3> QED
            BY <2>2, <3>1
    <2>4. l.value \in LogicalReads[r].floor..content[LogicalReads[r].key]
        <3>1. /\ readers[r].load \in DOMAIN loads /\ l.key = readers[r].key
              /\ readers[r].key \in Keys /\ readers[r].floor <= l.value
            BY <1>1, <1>3 DEF Inv, ReadsOK, Sampled
        <3>2. l \in Load
            BY <3>1 DEF Inv, TypeOK
        <3>3. l.value <= content[readers[r].key]
            BY <1>3, <3>1 DEF Inv, ValuesOK, Sampled
        <3>4. l.value \in Nat /\ readers[r].floor \in Nat /\ content[readers[r].key] \in Nat
            BY <1>2, <3>1, <3>2 DEF Load, Reader, Inv, TypeOK
        <3> QED
            BY <3>1, <3>3, <3>4, LogicalReadFacts
    <2>5. /\ LogicalReads[r].step = "wait" /\ LogicalReads[r].key = readers[r].key
          /\ LogicalReads[r].floor = readers[r].floor
        BY <1>1, LogicalReadFacts
    <2> HIDE DEF l
    <2>6. Abstract!Becomes(r, "answered", LogicalReads[r].key, LogicalReads[r].floor, l.value)
        BY <2>3, <2>5
    <2> QED
        BY <1>1, <2>4, <2>5, <2>6, Zenon DEF Abstract!Answer
<1>4. CASE l.result # "value"
    <2>1. readers' = [readers EXCEPT ![r] = [readers[r] EXCEPT !.step = "failed"]]
        BY <1>1, <1>4, Zenon
    <2> QED
        BY <1>1, <2>1, FailRefines
<1> QED
    BY <1>3, <1>4

LEMMA ReadCancelRefines ==
    ASSUME Inv, NEW r \in Readers, ReadCancel(r)
    PROVE  Abstract!Fail(r)
<1>1. readers[r].step = "wait" /\ UNCHANGED <<content, acked>>
    BY Zenon DEF ReadCancel
<1>2. readers' = [readers EXCEPT ![r] = [readers[r] EXCEPT !.step = "failed"]]
    BY Zenon DEF ReadCancel
<1> QED
    BY <1>1, <1>2, FailRefines

LEMMA WriteLandRefines ==
    ASSUME Inv, NEW w \in Writers, NEW t \in Tabs, WriteLand(w, t)
    PROVE  Abstract!Write
<1> DEFINE K == {k \in Keys : TabOf[k] = t}
<1>1. content' = [k \in Keys |-> IF k \in K THEN content[k] + 1 ELSE content[k]]
    BY DEF WriteLand
<1>2. LogicalReads' = LogicalReads /\ acked' = acked
    BY DEF WriteLand, LogicalReads
<1>3. K \in SUBSET Keys
    OBVIOUS
<1> HIDE DEF K
<1> QED
    BY <1>1, <1>2, <1>3, Zenon DEF Abstract!Write

LEMMA WriteReturnRefines ==
    ASSUME Inv, NEW w \in Writers, WriteReturn(w)
    PROVE  Abstract!Acknowledge
<1>1. /\ writers[w].step = "landed"
      /\ acked' = [k \in Keys |-> IF TabOf[k] = writers[w].tab /\ acked[k] < writers[w].mark[k]
                                  THEN writers[w].mark[k] ELSE acked[k]]
      /\ UNCHANGED <<content, readers>>
    BY Zenon DEF WriteReturn
<1>2. /\ writers[w].mark \in [Keys -> Nat]
      /\ \A k \in Keys : writers[w].mark[k] <= content[k]
    <2>1. writers[w] \in Writer
        BY DEF Inv, TypeOK
    <2> QED
        BY <1>1, <2>1 DEF Writer, Inv, WritesOK
<1>3. acked' \in [Keys -> Nat] /\ \A k \in Keys : acked[k] <= acked'[k] /\ acked'[k] <= content[k]
    BY <1>1, <1>2 DEF Inv, TypeOK, WritesOK
<1>4. LogicalReads' = LogicalReads
    BY <1>1 DEF LogicalReads
<1> QED
    BY <1>1, <1>3, <1>4 DEF Abstract!Acknowledge

LEMMA StepRefines ==
    ASSUME Inv, [Next]_vars
    PROVE  [Abstract!Next]_(Abstract!vars)
<1>1. ASSUME NEW r \in Readers, NEW k \in Keys, ReadFresh(r, k) \/ ReadStale(r, k)
      PROVE  Abstract!Next
    <2>1. PICK e \in cache[k] : readers' = [readers EXCEPT ![r] = Answered(k, e.value)]
        BY <1>1 DEF ReadFresh, ReadStale
    <2>2. readers[r] = Unread /\ UNCHANGED <<content, acked>>
        BY <1>1, Zenon DEF ReadFresh, ReadStale
    <2> QED
        BY <2>1, <2>2, AnswerAtOnceRefines DEF Abstract!Next
<1>2. ASSUME NEW r \in Readers, NEW k \in Keys, NEW required \in BOOLEAN,
             ReadMiss(r, k, required)
      PROVE  Abstract!Next
    BY <1>2, ReadMissRefines DEF Abstract!Next
<1>3. ASSUME NEW r \in Readers, ReadReturn(r) \/ ReadCancel(r)
      PROVE  Abstract!Next
    BY <1>3, ReadReturnRefines, ReadCancelRefines DEF Abstract!Next
<1>4. ASSUME NEW w \in Writers, \/ \E t \in Tabs : WriteLand(w, t)
                                \/ WriteReturn(w)
      PROVE  Abstract!Next
    BY <1>4, WriteLandRefines, WriteReturnRefines DEF Abstract!Next
<1>5. ASSUME UNCHANGED <<content, acked, readers>>
      PROVE  UNCHANGED Abstract!vars
    BY <1>5 DEF Abstract!vars, LogicalReads
<1>6. CASE \/ \E l \in DOMAIN loads : LoadNext(l)
           \/ \E w \in Writers : WriteLost(w)
           \/ Tick
           \/ UNCHANGED vars
    <2>1. UNCHANGED <<content, acked, readers>>
        BY <1>6, Zenon
        DEF LoadNext, LoadSample, LoadStore, LoadFail, RefreshDone, WriteLost, Tick, vars
    <2> QED
        BY <1>5, <2>1
<1> QED
    BY <1>1, <1>2, <1>3, <1>4, <1>6, Zenon DEF Next, ReadStep, WriteStep

\* The broker keeps the promise of ReadYourWrites.
THEOREM BrokerImplementsReadYourWrites == Spec => ImplementsReadYourWrites
BY InitRefines, StepRefines, Invariance, PTL DEF Spec, Abstract!Spec, ImplementsReadYourWrites
===============================================================================
