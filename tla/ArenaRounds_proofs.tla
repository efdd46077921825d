-------------------------- MODULE ArenaRounds_proofs ---------------------------
(* Theorems about ArenaRounds: types, the refinement of ResultBook, and draws *)
(* that agree with the results they were made from.                           *)
EXTENDS ArenaRounds, TLAPS

-------------------------------------------------------------------------------
(* Tables and their types.                                                    *)

\* A row has a score while it waits to be final, and a result when it is.
GoodRow == {row \in Row : /\ row.state \in Review \cup {"pending"} => row.score \in Sides
                          /\ row.state \in Terminal => row.final \in Sides \cup {"void"}}

GoodRounds  == [Rounds -> Round]
GoodMatches == [Matches -> GoodRow]

Source(r) == [Before(r) -> Outcome]

LEMMA EmptySource == << >> \in UNION {Source(r) : r \in Rounds}
<1>1. 1 \in Rounds
    BY ArenaAssumption DEF Rounds
<1>2. Before(1) = {}
    BY ArenaAssumption DEF Before
<1>3. << >> \in Source(1)
    BY <1>2 DEF Source
<1> QED BY <1>1, <1>3

LEMMA NoRoundType == NoRound \in Round
BY EmptySource DEF NoRound, Round, Source

LEMMA BlankRows ==
    /\ NoResult \in GoodRow /\ Absent \in GoodRow /\ Preview \in GoodRow
    /\ NoResult.state = "published" /\ Absent.state = "absent" /\ Preview.state = "preview"
BY DEF NoResult, Absent, Preview, GoodRow, Row, Review, Terminal

LEMMA FingerprintType ==
    ASSUME NEW ms \in GoodMatches, NEW r \in Rounds
    PROVE  Fingerprint(ms, r) \in UNION {Source(q) : q \in Rounds}
<1>1. ASSUME NEW m \in Matches PROVE Result(ms[m]) \in Outcome
    <2>1. ms[m] \in GoodRow
        BY DEF GoodMatches
    <2> QED BY <2>1 DEF Result, Outcome, GoodRow, Row
<1>2. Fingerprint(ms, r) \in Source(r)
    BY <1>1 DEF Fingerprint, Source, Before
<1> QED BY <1>2

\* Any row that an operation makes of another.
LEMMA SettledType ==
    ASSUME NEW row \in GoodRow, NEW state \in Terminal, NEW final \in Sides \cup {"void"}
    PROVE  Settled(row, state, final) \in GoodRow /\ Settled(row, state, final).state = state
BY DEF Settled, GoodRow, Row, Terminal, Review

LEMMA DisputedType ==
    ASSUME NEW row \in GoodRow, row.state = "pending"
    PROVE  /\ Settled(row, "disputed", "none") \in GoodRow
           /\ Settled(row, "disputed", "none").state = "disputed"
BY DEF Settled, GoodRow, Row, Terminal, Review

LEMMA MarkReadyType ==
    ASSUME NEW rs \in GoodRounds, NEW ms, NEW r \in Rounds
    PROVE  MarkReady(rs, ms, r) \in GoodRounds
<1>1. [rs[r] EXCEPT !.status = "ready"] \in Round
    BY DEF GoodRounds, Round, Live
<1> QED BY <1>1 DEF MarkReady, GoodRounds

LEMMA OverType ==
    ASSUME rounds \in GoodRounds, matches \in GoodMatches,
           NEW rs \in GoodRounds, NEW ms \in GoodMatches
    PROVE  OverRounds(rs) \in GoodRounds /\ OverMatches(ms) \in GoodMatches
BY DEF OverRounds, OverMatches, GoodRounds, GoodMatches

LEMMA DrawnType ==
    ASSUME NEW rs \in GoodRounds, NEW ms \in GoodMatches, NEW r \in Rounds
    PROVE  Drawn(rs, ms, r) \in GoodRounds /\ Paired(ms, r) \in GoodMatches
<1>1. [status |-> "preview", deadline |-> 0, source |-> Fingerprint(ms, r)] \in Round
    BY FingerprintType DEF Round, Unopened, Source
<1>2. Drawn(rs, ms, r) \in GoodRounds
    BY <1>1 DEF Drawn, GoodRounds
<1>3. Paired(ms, r) \in GoodMatches
    BY BlankRows DEF Paired, GoodMatches
<1> QED BY <1>2, <1>3

LEMMA ReportType ==
    ASSUME NEW row \in GoodRow, NEW score \in Sides, NEW at \in Nat, NEW due \in Nat,
           NEW state \in {"late", "pending"}
    PROVE  [row EXCEPT !.state = state, !.score = score, !.at = at, !.due = due] \in GoodRow
BY DEF GoodRow, Row, Terminal, Review

LEMMA OneRowType ==
    ASSUME NEW ms \in GoodMatches, NEW m \in Matches, NEW row \in GoodRow
    PROVE  [ms EXCEPT ![m] = row] \in GoodMatches
BY DEF GoodMatches

LEMMA StatusType ==
    ASSUME NEW rs \in GoodRounds, NEW r \in Rounds,
           NEW status \in {"preview", "approved", "closed", "correction"}
    PROVE  [rs EXCEPT ![r].status = status] \in GoodRounds
BY DEF GoodRounds, Round, Unopened, Live

-------------------------------------------------------------------------------
(* Type correctness.                                                          *)

\* What a handler checked before it waited for the lock.
TabOK(t) ==
    tab[t] # Idle =>
        /\ tab[t].matches \in GoodMatches /\ tab[t].rounds \in GoodRounds
        /\ tab[t].op # "sync" => tab[t].match \in Matches
        /\ tab[t].op = "report" => tab[t].matches[tab[t].match].state = "published"
        /\ tab[t].op \in {"confirm", "dispute"} =>
               tab[t].matches[tab[t].match].state = "pending"

Copies == [rounds : GoodRounds, matches : GoodMatches]

\* There is a restored timer only once the timers are restored, and then the
\* tables it inherits.
StartupOK ==
    /\ startup \in {NoCopy} \cup Copies
    /\ restoring \/ startup = NoCopy => \A m \in Matches : timer[m].kind # "restored"

TypeInv ==
    /\ TypeOK
    /\ matches \in GoodMatches
    /\ \A t \in Tabs : TabOK(t)
    /\ StartupOK

Spent == [failures : 0..MaxFailures, revisions : 0..MaxRevisions]
Timer == [kind : {"none", "scoped", "restored", "own"}, due : Nat]

\* Timers of which no other is a restored one.
Armed == {tm \in [Matches -> Timer] :
              \A m \in Matches : tm[m].kind = "restored" => timer[m].kind = "restored"}

LEMMA Unfold ==
    ASSUME TypeInv
    PROVE  /\ rounds \in GoodRounds /\ matches \in GoodMatches
           /\ left \subseteq Players /\ tab \in [Tabs -> {Idle} \cup Handler]
           /\ timer \in [Matches -> Timer] /\ timer \in Armed
           /\ now \in Nat /\ now \in 0..MaxTime
           /\ spent \in Spent /\ revised \subseteq Rounds
           /\ restoring \in BOOLEAN /\ spoilt \in BOOLEAN
           /\ startup \in {NoCopy} \cup Copies /\ StartupOK
BY DEF TypeInv, TypeOK, StartupOK, GoodRounds, Timer, Armed, Spent

LEMMA Fold ==
    ASSUME rounds' \in GoodRounds, matches' \in GoodMatches, left' \subseteq Players,
           tab' \in [Tabs -> {Idle} \cup Handler], \A t \in Tabs : TabOK(t)',
           timer' \in [Matches -> Timer], now' \in 0..MaxTime, spent' \in Spent,
           revised' \subseteq Rounds, restoring' \in BOOLEAN, spoilt' \in BOOLEAN,
           StartupOK'
    PROVE  TypeInv'
<1>1. startup' \in {NoCopy} \cup [rounds : [Rounds -> Round], matches : [Matches -> Row]]
    BY DEF StartupOK, Copies, GoodRounds, GoodMatches, GoodRow
<1> QED BY <1>1 DEF TypeInv, TypeOK, GoodRounds, GoodMatches, GoodRow, Timer, Spent

\* A step that restores no timer and leaves the copy of the start alone.
LEMMA FoldArmed ==
    ASSUME TypeInv,
           rounds' \in GoodRounds, matches' \in GoodMatches, left' \subseteq Players,
           tab' \in [Tabs -> {Idle} \cup Handler], \A t \in Tabs : TabOK(t)',
           timer' \in Armed, now' \in 0..MaxTime, spent' \in Spent,
           revised' \subseteq Rounds, spoilt' \in BOOLEAN, UNCHANGED <<restoring, startup>>
    PROVE  TypeInv'
<1>1. timer' \in [Matches -> Timer]
    BY DEF Armed
<1>2. StartupOK'
    BY Unfold DEF StartupOK, Armed
<1> QED BY <1>1, <1>2, Unfold, Fold

\* An operation that leaves the players' handlers and the timers alone.
LEMMA LockedType ==
    ASSUME TypeInv, rounds' \in GoodRounds, matches' \in GoodMatches, spent' \in Spent,
           left' \subseteq Players, UNCHANGED <<tab, timer, restoring, startup, now, spoilt>>,
           revised' \subseteq Rounds
    PROVE  TypeInv'
<1>1. \A t \in Tabs : TabOK(t)'
    BY DEF TypeInv, TabOK
<1> QED BY <1>1, Unfold, FoldArmed

LEMMA ChargeType ==
    ASSUME spent \in Spent,
           NEW what \in {"failures", "revisions"}, Charge(what),
           what = "failures" => spent.failures < MaxFailures,
           what = "revisions" => spent.revisions < MaxRevisions
    PROVE  spent' \in Spent
BY ArenaAssumption DEF Spent, Charge

LEMMA RaiseType ==
    ASSUME rounds \in GoodRounds, matches \in GoodMatches, spent \in Spent,
           NEW rs \in GoodRounds, NEW ms \in GoodMatches,
           NEW oldRs \in GoodRounds, NEW oldMs \in GoodMatches,
           Raise(rs, ms, oldRs, oldMs)
    PROVE  rounds' \in GoodRounds /\ matches' \in GoodMatches /\ spent' \in Spent
<1>1. spent' \in Spent
    BY ChargeType DEF Raise
<1> QED BY <1>1 DEF Raise, Save

LEMMA WriteType ==
    ASSUME TypeInv, NEW rs \in GoodRounds, NEW ms \in GoodMatches, Write(rs, ms)
    PROVE  rounds' \in GoodRounds /\ matches' \in GoodMatches /\ spent' \in Spent
<1>1. rounds \in GoodRounds /\ matches \in GoodMatches /\ spent \in Spent
    BY Unfold
<1>2. CASE Raise(rs, ms, rounds, matches)
    BY <1>1, <1>2, RaiseType
<1>3. CASE Save(rs, ms) /\ UNCHANGED spent
    BY <1>1, <1>3 DEF Save
<1> QED BY <1>2, <1>3 DEF Write

LEMMA InitType == Init => TypeInv
<1> SUFFICES ASSUME Init PROVE TypeInv
    OBVIOUS
<1>1. [status |-> "open", deadline |-> RoundLength, source |-> << >>] \in Round
    BY EmptySource, ArenaAssumption DEF Round, Live, Source
<1>2. rounds \in GoodRounds
    BY <1>1, NoRoundType DEF Init, GoodRounds
<1>3. matches \in GoodMatches
    BY BlankRows DEF Init, GoodMatches
<1>4. tab \in [Tabs -> {Idle} \cup Handler] /\ \A t \in Tabs : TabOK(t)
    BY DEF Init, TabOK
<1>5. timer \in [Matches -> Timer] /\ now \in 0..MaxTime /\ spent \in Spent
    BY ArenaAssumption DEF Init, Timer, NoTimer, Spent
<1>6. matches \in [Matches -> Row]
    BY <1>3 DEF GoodMatches, GoodRow
<1>7. StartupOK
    BY DEF Init, StartupOK, NoTimer
<1> QED BY <1>2, <1>3, <1>4, <1>5, <1>6, <1>7
    DEF Init, TypeInv, TypeOK, GoodRounds, Timer, Spent

LEMMA TabIdle ==
    ASSUME TypeInv, NEW t \in Tabs, tab' = [tab EXCEPT ![t] = Idle]
    PROVE  tab' \in [Tabs -> {Idle} \cup Handler] /\ \A u \in Tabs : TabOK(u)'
<1>1. tab \in [Tabs -> {Idle} \cup Handler] /\ \A u \in Tabs : TabOK(u)
    BY Unfold DEF TypeInv
<1> QED BY <1>1 DEF TabOK

LEMMA TabCopy ==
    ASSUME TypeInv, NEW t \in Tabs, NEW new \in Handler,
           new.matches = matches, new.rounds = rounds,
           new.op # "sync" => new.match \in Matches,
           new.op = "report" => matches[new.match].state = "published",
           new.op \in {"confirm", "dispute"} => matches[new.match].state = "pending",
           tab' = [tab EXCEPT ![t] = new]
    PROVE  tab' \in [Tabs -> {Idle} \cup Handler] /\ \A u \in Tabs : TabOK(u)'
<1>1. /\ tab \in [Tabs -> {Idle} \cup Handler] /\ \A u \in Tabs : TabOK(u)
      /\ rounds \in GoodRounds /\ matches \in GoodMatches
    BY Unfold DEF TypeInv
<1>2. tab' \in [Tabs -> {Idle} \cup Handler]
    BY <1>1
<1>3. ASSUME NEW u \in Tabs PROVE TabOK(u)'
    <2>1. CASE u = t
        <3>1. tab'[u] = new
            BY <1>1, <2>1
        <3> QED BY <3>1, <1>1 DEF TabOK
    <2>2. CASE u # t
        BY <1>1, <2>2 DEF TabOK
    <2> QED BY <2>1, <2>2
<1> QED BY <1>2, <1>3

LEMMA BeginType ==
    ASSUME TypeInv, NEW t \in Tabs, NEW op \in {"report", "confirm", "dispute"},
           NEW m \in Matches, Begin(t, op, m)
    PROVE  TypeInv'
<1> DEFINE new == [op |-> op, match |-> m, rounds |-> rounds, matches |-> matches, left |-> {}]
<1>1. tab' = [tab EXCEPT ![t] = new]
    BY DEF Begin, Copy
<1>2. new \in Handler
    BY Unfold DEF Handler, GoodRounds, GoodMatches, GoodRow
<1>3. /\ op = "report" => matches[m].state = "published"
      /\ op \in {"confirm", "dispute"} => matches[m].state = "pending"
    BY DEF Begin
<1>4. /\ new.op = op /\ new.match = m /\ new.matches = matches
      /\ new.rounds = rounds /\ new.op # "sync"
    OBVIOUS
<1> HIDE DEF new
<1>5. tab' \in [Tabs -> {Idle} \cup Handler] /\ \A u \in Tabs : TabOK(u)'
    BY <1>1, <1>2, <1>3, <1>4, TabCopy
<1> QED BY <1>5, Unfold, FoldArmed DEF Begin

LEMMA BeginSyncType ==
    ASSUME TypeInv, NEW t \in Tabs, NEW r \in Rounds, BeginSync(t, r)
    PROVE  TypeInv'
<1>1. tab' = [tab EXCEPT ![t] = CopyAll]
    BY DEF BeginSync
<1>2. CopyAll \in Handler
    BY Unfold DEF CopyAll, Handler, GoodRounds, GoodMatches, GoodRow
<1>3. CopyAll.op = "sync" /\ CopyAll.matches = matches /\ CopyAll.rounds = rounds
    BY DEF CopyAll
<1>4. tab' \in [Tabs -> {Idle} \cup Handler] /\ \A u \in Tabs : TabOK(u)'
    BY <1>1, <1>2, <1>3, TabCopy
<1> QED BY <1>4, Unfold, FoldArmed DEF BeginSync

\* What the copy of a handler that is under way looks like.
LEMMA CopyFacts ==
    ASSUME TypeInv, NEW t \in Tabs, tab[t].op # "idle"
    PROVE  /\ tab[t].matches \in GoodMatches /\ tab[t].rounds \in GoodRounds
           /\ tab[t].left \subseteq Players
           /\ tab[t].op # "sync" =>
                /\ tab[t].match \in Matches
                /\ tab[t].matches[tab[t].match] \in GoodRow
                /\ RoundOf[tab[t].match] \in Rounds
           /\ tab[t].op = "report" => tab[t].matches[tab[t].match].state = "published"
           /\ tab[t].op \in {"confirm", "dispute"} =>
                  tab[t].matches[tab[t].match].state = "pending"
<1>1. tab[t] # Idle /\ TabOK(t)
    BY DEF Idle, TypeInv
<1>2. tab[t] \in Handler
    BY <1>1, Unfold
<1> QED BY <1>1, <1>2, ArenaAssumption DEF TabOK, Handler, GoodMatches, Rounds

\* The write of a handler, and the timer that it sets or not.
LEMMA OverwriteType ==
    ASSUME TypeInv, NEW t \in Tabs, tab[t].op # "idle",
           NEW rs \in GoodRounds, NEW ms \in GoodMatches, NEW oldRs \in GoodRounds,
           \/ Save(OverRounds(rs), OverMatches(ms)) /\ UNCHANGED spent
           \/ Raise(OverRounds(rs), OverMatches(ms), OverRounds(oldRs),
                    OverMatches(tab[t].matches)),
           timer' \in Armed,
           spoilt' = (spoilt \/ Outdated(tab[t])),
           tab' = [tab EXCEPT ![t] = Idle],
           UNCHANGED <<left, restoring, startup, now, revised>>
    PROVE  TypeInv'
<1>1. /\ rounds \in GoodRounds /\ matches \in GoodMatches /\ spent \in Spent
      /\ tab[t].matches \in GoodMatches
    BY Unfold, CopyFacts
<1>2. /\ OverRounds(rs) \in GoodRounds /\ OverMatches(ms) \in GoodMatches
      /\ OverRounds(oldRs) \in GoodRounds /\ OverMatches(tab[t].matches) \in GoodMatches
    BY <1>1, OverType
<1>3. rounds' \in GoodRounds /\ matches' \in GoodMatches /\ spent' \in Spent
    <2>1. CASE Save(OverRounds(rs), OverMatches(ms)) /\ UNCHANGED spent
        BY <1>1, <1>2, <2>1 DEF Save
    <2>2. CASE Raise(OverRounds(rs), OverMatches(ms), OverRounds(oldRs),
                     OverMatches(tab[t].matches))
        BY <1>1, <1>2, <2>2, RaiseType
    <2> QED BY <2>1, <2>2
<1>4. tab' \in [Tabs -> {Idle} \cup Handler] /\ \A u \in Tabs : TabOK(u)'
    BY TabIdle
<1>5. spoilt' \in BOOLEAN
    BY Unfold DEF Outdated
<1> QED BY <1>3, <1>4, <1>5, Unfold, FoldArmed

\* The two things a handler does to the timers.
LEMMA TimerType ==
    ASSUME timer \in [Matches -> Timer]
    PROVE  /\ UNCHANGED timer => timer' \in Armed
           /\ \A m \in Matches : Disarm(m) => timer' \in Armed
           /\ \A ms \in SUBSET Matches, kind \in {"scoped", "own"} :
                 matches' \in GoodMatches /\ Arm(ms, kind) => timer' \in Armed
<1>1. \A m \in Matches : Disarm(m) => timer' \in Armed
    BY DEF Disarm, NoTimer, Timer, Armed
<1>2. ASSUME NEW ms \in SUBSET Matches, NEW kind \in {"scoped", "own"},
             matches' \in GoodMatches, Arm(ms, kind)
      PROVE  timer' \in Armed
    <2>1. \A m \in Matches : matches'[m].due \in Nat
        BY <1>2 DEF GoodMatches, GoodRow, Row
    <2>2. \A m \in Matches : [kind |-> kind, due |-> matches'[m].due] \in Timer
        BY <2>1 DEF Timer
    <2> QED BY <1>2, <2>2 DEF Arm, Armed
<1>3. UNCHANGED timer => timer' \in Armed
    BY DEF Armed
<1> QED BY <1>1, <1>2, <1>3

LEMMA ReportResultType ==
    ASSUME TypeInv, NEW t \in Tabs, NEW score \in Sides, ReportResult(t, score)
    PROVE  TypeInv'
<1> DEFINE m     == tab[t].match
           limit == tab[t].rounds[RoundOf[m]].deadline
           over  == now > limit
           row   == [tab[t].matches[m] EXCEPT
                        !.state = IF over THEN "late" ELSE "pending", !.score = score,
                        !.at    = IF over THEN 0 ELSE now,
                        !.due   = IF over THEN 0 ELSE Early(now, limit)]
           ms    == [tab[t].matches EXCEPT ![m] = row]
           after == IF over THEN UNCHANGED timer ELSE Arm({m}, "scoped")
<1>1. tab[t].op = "report"
    BY DEF ReportResult
<1>2. Overwrite(t, rounds, ms, rounds, after)
    BY DEF ReportResult
<1>3. /\ tab[t].matches \in GoodMatches /\ tab[t].rounds \in GoodRounds
      /\ m \in Matches /\ tab[t].matches[m] \in GoodRow /\ RoundOf[m] \in Rounds
      /\ rounds \in GoodRounds /\ matches \in GoodMatches /\ now \in Nat
      /\ timer \in [Matches -> Timer]
    BY <1>1, CopyFacts, Unfold
<1>4. limit \in Nat
    BY <1>3 DEF GoodRounds, Round
<1>5. Early(now, limit) \in Nat
    BY <1>3, <1>4, ArenaAssumption DEF Early
<1>6. row \in GoodRow
    <2>1. CASE over
        BY <1>3, <2>1, ReportType
    <2>2. CASE ~over
        BY <1>3, <1>5, <2>2, ReportType
    <2> QED BY <2>1, <2>2
<1>7. ms \in GoodMatches
    BY <1>3, <1>6, OneRowType
<1>8. OverMatches(ms) \in GoodMatches
    BY <1>3, <1>7, OverType
<1> HIDE DEF ms, row
<1>9. timer' \in Armed
    <2>1. CASE Save(OverRounds(rounds), OverMatches(ms)) /\ after
        <3>1. matches' \in GoodMatches
            BY <1>8, <2>1 DEF Save
        <3> QED BY <1>3, <2>1, <3>1, TimerType
    <2>2. CASE UNCHANGED timer
        BY <1>3, <2>2, TimerType
    <2> QED BY <1>2, <2>1, <2>2 DEF Overwrite
<1> QED BY <1>1, <1>2, <1>3, <1>7, <1>9, OverwriteType DEF Overwrite

LEMMA ConfirmResultType ==
    ASSUME TypeInv, NEW t \in Tabs, ConfirmResult(t)
    PROVE  TypeInv'
<1> DEFINE m  == tab[t].match
           ms == [tab[t].matches EXCEPT
                    ![m] = Settled(tab[t].matches[m], "finalized", tab[t].matches[m].score)]
           rs == MarkReady(tab[t].rounds, ms, RoundOf[m])
<1>1. tab[t].op = "confirm"
    BY DEF ConfirmResult
<1>2. Overwrite(t, rs, ms, tab[t].rounds, Disarm(m))
    BY DEF ConfirmResult
<1>3. /\ tab[t].rounds \in GoodRounds /\ tab[t].matches \in GoodMatches
      /\ m \in Matches /\ tab[t].matches[m] \in GoodRow /\ RoundOf[m] \in Rounds
      /\ tab[t].matches[m].state = "pending"
      /\ timer \in [Matches -> Timer]
    BY <1>1, CopyFacts, Unfold
<1>4. Settled(tab[t].matches[m], "finalized", tab[t].matches[m].score) \in GoodRow
    <2>1. tab[t].matches[m].score \in Sides
        BY <1>3 DEF GoodRow
    <2> QED BY <1>3, <2>1, SettledType DEF Terminal
<1>5. ms \in GoodMatches
    BY <1>3, <1>4, OneRowType
<1> HIDE DEF ms
<1>6. rs \in GoodRounds
    BY <1>3, MarkReadyType
<1>7. timer' \in Armed
    BY <1>2, <1>3, TimerType DEF Overwrite
<1> HIDE DEF rs
<1> QED BY <1>1, <1>2, <1>3, <1>5, <1>6, <1>7, OverwriteType DEF Overwrite

LEMMA DisputeResultType ==
    ASSUME TypeInv, NEW t \in Tabs, DisputeResult(t)
    PROVE  TypeInv'
<1> DEFINE m  == tab[t].match
           ms == [tab[t].matches EXCEPT ![m] = Settled(tab[t].matches[m], "disputed", "none")]
<1>1. tab[t].op = "dispute"
    BY DEF DisputeResult
<1>2. Overwrite(t, rounds, ms, rounds, Disarm(m))
    BY DEF DisputeResult
<1>3. /\ tab[t].matches \in GoodMatches /\ rounds \in GoodRounds
      /\ m \in Matches /\ tab[t].matches[m] \in GoodRow
      /\ tab[t].matches[m].state = "pending"
      /\ timer \in [Matches -> Timer]
    BY <1>1, CopyFacts, Unfold
<1>4. ms \in GoodMatches
    BY <1>3, DisputedType, OneRowType
<1> HIDE DEF ms
<1>5. timer' \in Armed
    BY <1>2, <1>3, TimerType DEF Overwrite
<1> QED BY <1>1, <1>2, <1>3, <1>4, <1>5, OverwriteType DEF Overwrite

LEMMA SyncPreviewType ==
    ASSUME TypeInv, NEW t \in Tabs, NEW r \in Rounds, SyncPreview(t, r)
    PROVE  TypeInv'
<1> DEFINE rs == tab[t].rounds
           ms == tab[t].matches
<1>1. tab[t].op = "sync"
    BY DEF SyncPreview
<1>2. /\ rs \in GoodRounds /\ ms \in GoodMatches
      /\ rounds \in GoodRounds /\ matches \in GoodMatches /\ timer \in [Matches -> Timer]
    BY <1>1, CopyFacts, Unfold
<1>3. CASE Overwrite(t, Drawn(rs, ms, r), Paired(ms, r), rs, UNCHANGED timer)
    <2>1. Drawn(rs, ms, r) \in GoodRounds /\ Paired(ms, r) \in GoodMatches
        BY <1>2, DrawnType
    <2> QED BY <1>1, <1>2, <1>3, <2>1, OverwriteType, TimerType DEF Overwrite
<1>4. CASE Overwrite(t, [rs EXCEPT ![r].status = "preview"], matches, rs, UNCHANGED timer)
    <2>1. [rs EXCEPT ![r].status = "preview"] \in GoodRounds
        BY <1>2, StatusType
    <2> QED BY <1>1, <1>2, <1>4, <2>1, OverwriteType, TimerType DEF Overwrite
<1> QED BY <1>3, <1>4 DEF SyncPreview

\* The tables after a ruling on one match.
LEMMA RuledType ==
    ASSUME TypeInv, NEW m \in Matches, NEW row \in GoodRow
    PROVE  /\ [matches EXCEPT ![m] = row] \in GoodMatches
           /\ MarkReady(rounds, [matches EXCEPT ![m] = row], RoundOf[m]) \in GoodRounds
<1>1. rounds \in GoodRounds /\ matches \in GoodMatches /\ RoundOf[m] \in Rounds
    BY Unfold, ArenaAssumption DEF Rounds
<1> QED BY <1>1, OneRowType, MarkReadyType

LEMMA FinalizeType ==
    ASSUME TypeInv, NEW m \in Matches, FinalizeMatchIfDue(m)
    PROVE  TypeInv'
<1> DEFINE ms == [matches EXCEPT ![m] = Settled(matches[m], "finalized", matches[m].score)]
           rs == MarkReady(rounds, ms, RoundOf[m])
<1>1. /\ rounds \in GoodRounds /\ matches \in GoodMatches /\ spent \in Spent
      /\ matches[m] \in GoodRow /\ timer \in [Matches -> Timer]
    BY Unfold DEF GoodMatches
<1>2. timer' \in Armed
    BY <1>1, TimerType DEF FinalizeMatchIfDue
<1>3. rounds' \in GoodRounds /\ matches' \in GoodMatches /\ spent' \in Spent
    <2>1. CASE matches[m].state = "pending" /\ Write(rs, ms)
        <3>1. Settled(matches[m], "finalized", matches[m].score) \in GoodRow
            <4>1. matches[m].score \in Sides
                BY <1>1, <2>1 DEF GoodRow
            <4> QED BY <1>1, <4>1, SettledType DEF Terminal
        <3>2. rs \in GoodRounds /\ ms \in GoodMatches
            BY <3>1, RuledType
        <3> QED BY <2>1, <3>2, WriteType
    <2>2. CASE UNCHANGED <<rounds, matches, spent>>
        BY <1>1, <2>2
    <2> QED BY <2>1, <2>2 DEF FinalizeMatchIfDue
<1>4. \A t \in Tabs : TabOK(t)'
    BY DEF TypeInv, TabOK, FinalizeMatchIfDue
<1> QED BY <1>2, <1>3, <1>4, Unfold, FoldArmed DEF FinalizeMatchIfDue

\* The copy of the start that a restored timer works on, and what it makes of it.
LEMMA RestoredTables ==
    ASSUME TypeInv, NEW m \in Matches, FinalizeRestored(m)
    PROVE  /\ startup \in Copies /\ startup.matches[m] \in GoodRow
           /\ startup.matches[m].state = "pending"
           /\ Settled(startup.matches[m], "finalized", startup.matches[m].score) \in GoodRow
           /\ Settled(startup.matches[m], "finalized", startup.matches[m].score).state = "finalized"
<1>1. startup \in Copies
    BY Unfold DEF StartupOK, FinalizeRestored
<1>2. startup.matches[m] \in GoodRow /\ startup.matches[m].state = "pending"
    BY <1>1 DEF Copies, GoodMatches, FinalizeRestored
<1>3. startup.matches[m].score \in Sides
    BY <1>2 DEF GoodRow
<1> QED BY <1>1, <1>2, <1>3, SettledType DEF Terminal

LEMMA FinalizeRestoredType ==
    ASSUME TypeInv, NEW m \in Matches, FinalizeRestored(m)
    PROVE  TypeInv'
<1> DEFINE row == Settled(startup.matches[m], "finalized", startup.matches[m].score)
           ms  == [startup.matches EXCEPT ![m] = row]
           rs  == MarkReady(startup.rounds, ms, RoundOf[m])
<1>1. /\ rounds \in GoodRounds /\ matches \in GoodMatches /\ spent \in Spent
      /\ startup.rounds \in GoodRounds /\ startup.matches \in GoodMatches
      /\ startup \in Copies /\ row \in GoodRow
      /\ timer \in [Matches -> Timer] /\ RoundOf[m] \in Rounds
    BY Unfold, RestoredTables, ArenaAssumption DEF Copies, Rounds
<1>2. /\ \/ Save(OverRounds(rs), OverMatches(ms)) /\ UNCHANGED spent
         \/ Raise(OverRounds(rs), OverMatches(ms),
                  OverRounds(startup.rounds), OverMatches(startup.matches))
      /\ Disarm(m) /\ spoilt' = (spoilt \/ Outdated(startup))
      /\ startup' = IF \E n \in Matches \ {m} : timer[n].kind = "restored"
                    THEN startup ELSE NoCopy
      /\ UNCHANGED <<left, tab, restoring, now, revised>>
    BY DEF FinalizeRestored
<1> HIDE DEF row
<1>3. ms \in GoodMatches
    BY <1>1, OneRowType
<1> HIDE DEF ms
<1>4. rs \in GoodRounds
    BY <1>1, MarkReadyType
<1> HIDE DEF rs
<1>5. rounds' \in GoodRounds /\ matches' \in GoodMatches /\ spent' \in Spent
    <2>1. /\ OverRounds(rs) \in GoodRounds /\ OverMatches(ms) \in GoodMatches
          /\ OverRounds(startup.rounds) \in GoodRounds
          /\ OverMatches(startup.matches) \in GoodMatches
        BY <1>1, <1>3, <1>4, OverType
    <2>2. CASE Save(OverRounds(rs), OverMatches(ms)) /\ UNCHANGED spent
        BY <1>1, <2>1, <2>2 DEF Save
    <2>3. CASE Raise(OverRounds(rs), OverMatches(ms),
                     OverRounds(startup.rounds), OverMatches(startup.matches))
        BY <1>1, <2>1, <2>3, RaiseType
    <2> QED BY <1>2, <2>2, <2>3
<1>6. timer' \in [Matches -> Timer]
    BY <1>1, <1>2, TimerType DEF Armed
<1>7. StartupOK'
    BY <1>1, <1>2, Unfold DEF StartupOK, Disarm, NoTimer
<1>8. \A t \in Tabs : TabOK(t)'
    BY <1>2 DEF TypeInv, TabOK
<1>9. spoilt' \in BOOLEAN
    BY <1>2, Unfold DEF Outdated
<1> QED BY <1>2, <1>5, <1>6, <1>7, <1>8, <1>9, Unfold, Fold

LEMMA RestoreType ==
    ASSUME TypeInv, StartupRead \/ RestoreFinalizers \/ Restart
    PROVE  TypeInv'
<1>1. /\ rounds \in GoodRounds /\ matches \in GoodMatches /\ spent \in Spent
      /\ timer \in [Matches -> Timer] /\ now \in 0..MaxTime /\ StartupOK
      /\ tab \in [Tabs -> {Idle} \cup Handler] /\ \A t \in Tabs : TabOK(t)
    BY Unfold DEF TypeInv
<1>2. CASE StartupRead
    <2>1. [rounds |-> rounds, matches |-> matches] \in Copies
        BY <1>1 DEF Copies
    <2>2. StartupOK'
        BY <1>1, <1>2, <2>1 DEF StartupOK, StartupRead
    <2>3. \A t \in Tabs : TabOK(t)'
        BY <1>1, <1>2 DEF TabOK, StartupRead
    <2>4. restoring' \in BOOLEAN
        BY <1>2, Unfold DEF StartupRead
    <2> QED BY <1>2, <2>2, <2>3, <2>4, Unfold, Fold DEF StartupRead
<1>3. CASE RestoreFinalizers
    <2> DEFINE ms == Pending(startup.matches)
    <2>1. /\ restoring /\ startup # NoCopy /\ restoring' = FALSE /\ Restore(ms)
          /\ UNCHANGED <<rounds, matches, left, tab, now, spoilt, revised>>
        BY <1>3 DEF RestoreFinalizers
    <2>2. startup \in Copies /\ \A m \in Matches : startup.matches[m].due \in Nat
        BY <1>1, <2>1 DEF StartupOK, Copies, GoodMatches, GoodRow, Row
    <2> HIDE DEF ms
    <2>3. timer' \in [Matches -> Timer]
        <3>1. \A m \in Matches : [kind |-> "restored", due |-> startup.matches[m].due] \in Timer
            BY <2>2 DEF Timer
        <3> QED BY <1>1, <2>1, <3>1 DEF Restore
    <2>4. spent' \in Spent
        BY <1>1, <2>1, ChargeType DEF Restore
    <2>5. StartupOK'
        BY <1>1, <2>1, <2>2 DEF StartupOK, Restore
    <2>6. \A t \in Tabs : TabOK(t)'
        BY <1>1, <2>1 DEF TabOK
    <2> QED BY <2>1, <2>3, <2>4, <2>5, <2>6, Unfold, Fold
<1>4. CASE Restart
    <2>1. timer' \in [Matches -> Timer]
        BY <1>4 DEF Restart, NoTimer, Timer
    <2>2. spent' \in Spent
        BY <1>1, <1>4, ChargeType DEF Restart
    <2>3. tab' \in [Tabs -> {Idle} \cup Handler] /\ \A t \in Tabs : TabOK(t)'
        BY <1>4 DEF TabOK, Restart
    <2>4. StartupOK'
        BY <1>4 DEF StartupOK, Restart, NoTimer
    <2> QED BY <1>4, <2>1, <2>2, <2>3, <2>4, Unfold, Fold DEF Restart
<1> QED BY <1>2, <1>3, <1>4

LEMMA TaskTypes ==
    ASSUME TypeInv,
           (\E m \in Matches : FinalizeInScope(m)) \/ Tick \/ (\E t \in Tabs : Abandon(t))
    PROVE  TypeInv'
<1>1. /\ timer \in [Matches -> Timer] /\ now \in 0..MaxTime
      /\ \A t \in Tabs : TabOK(t)
    BY Unfold DEF TypeInv
<1>2. CASE \E m \in Matches : FinalizeInScope(m)
    <2>1. timer' \in Armed
        BY <1>1, <1>2, TimerType DEF FinalizeInScope
    <2>2. \A t \in Tabs : TabOK(t)'
        BY <1>1, <1>2 DEF TabOK, FinalizeInScope
    <2> QED BY <1>2, <2>1, <2>2, Unfold, FoldArmed DEF FinalizeInScope
<1>3. CASE Tick
    <2>1. now' \in 0..MaxTime
        BY <1>1, <1>3, ArenaAssumption DEF Tick
    <2>2. \A t \in Tabs : TabOK(t)'
        BY <1>1, <1>3 DEF TabOK, Tick
    <2> QED BY <1>3, <2>1, <2>2, Unfold, FoldArmed DEF Tick
<1>4. CASE \E t \in Tabs : Abandon(t)
    <2>1. tab' \in [Tabs -> {Idle} \cup Handler] /\ \A t \in Tabs : TabOK(t)'
        BY <1>4, TabIdle DEF Abandon
    <2> QED BY <1>4, <2>1, Unfold, FoldArmed DEF Abandon
<1> QED BY <1>2, <1>3, <1>4

\* What a ruling writes: the row it makes of the match.
Ruled(m, row) ==
    /\ Write(MarkReady(rounds, [matches EXCEPT ![m] = row], RoundOf[m]),
             [matches EXCEPT ![m] = row])
    /\ UNCHANGED <<left, tab, timer, restoring, startup, now, spoilt, revised>>

LEMMA Rulings ==
    ASSUME TypeInv, NEW m \in Matches, ResolveMatch(m)
    PROVE  /\ \/ matches[m].state \in Review
              \/ rounds[RoundOf[m]].status = "correction" /\ matches[m].state \in Terminal
           /\ \E row \in GoodRow : row.state \in Terminal /\ Ruled(m, row)
<1>1. matches[m] \in GoodRow
    BY Unfold DEF GoodMatches
<1>2. CASE /\ matches[m].state \in Review
           /\ Ruled(m, Settled(matches[m], "finalized", matches[m].score))
    <2>1. matches[m].score \in Sides
        BY <1>1, <1>2 DEF GoodRow
    <2>2. /\ Settled(matches[m], "finalized", matches[m].score) \in GoodRow
          /\ Settled(matches[m], "finalized", matches[m].score).state \in Terminal
        BY <1>1, <2>1, SettledType DEF Terminal
    <2> QED BY <1>2, <2>2
<1>3. ASSUME NEW state \in Terminal, NEW final \in Sides \cup {"void"},
             \/ matches[m].state \in Review
             \/ rounds[RoundOf[m]].status = "correction" /\ matches[m].state \in Terminal,
             Ruled(m, Settled(matches[m], state, final))
      PROVE  /\ \/ matches[m].state \in Review
                \/ rounds[RoundOf[m]].status = "correction" /\ matches[m].state \in Terminal
             /\ \E row \in GoodRow : row.state \in Terminal /\ Ruled(m, row)
    BY <1>1, <1>3, SettledType
<1>4. CASE \E side \in Sides : Ruled(m, Settled(matches[m], "finalized", side))
                             \/ Ruled(m, Settled(matches[m], "forfeit", side))
    BY <1>3, <1>4 DEF ResolveMatch, Ruled, Terminal
<1>5. CASE Ruled(m, Settled(matches[m], "double", "void"))
    BY <1>3, <1>5 DEF ResolveMatch, Ruled, Terminal
<1> QED BY <1>2, <1>4, <1>5 DEF ResolveMatch, Ruled

LEMMA RulingType ==
    ASSUME TypeInv, NEW m \in Matches, ResolveMatch(m) \/ ReplayMatch(m)
    PROVE  TypeInv'
<1>1. rounds \in GoodRounds /\ matches \in GoodMatches /\ spent \in Spent
    BY Unfold
<1>2. CASE ResolveMatch(m)
    <2>1. PICK row \in GoodRow : Ruled(m, row)
        BY <1>2, Rulings
    <2>2. rounds' \in GoodRounds /\ matches' \in GoodMatches /\ spent' \in Spent
        BY <2>1, RuledType, WriteType DEF Ruled
    <2> QED BY <2>1, <2>2, Unfold, LockedType DEF Ruled
<1>3. CASE ReplayMatch(m)
    <2> DEFINE ms == [matches EXCEPT ![m] = NoResult]
    <2>1. ms \in GoodMatches
        BY <1>1, BlankRows, OneRowType
    <2> HIDE DEF ms
    <2>2. rounds' \in GoodRounds /\ matches' \in GoodMatches /\ spent' \in Spent
        <3>1. CASE Save(rounds, ms) /\ Charge("revisions")
            BY <1>1, <1>3, <2>1, <3>1, ChargeType DEF ReplayMatch, Save
        <3>2. CASE Raise(rounds, ms, rounds, matches)
            BY <1>1, <2>1, <3>2, RaiseType
        <3> QED BY <1>3, <3>1, <3>2 DEF ReplayMatch, ms
    <2> QED BY <1>3, <2>2, Unfold, LockedType DEF ReplayMatch
<1> QED BY <1>2, <1>3

\* The tables that extend_round writes.
ExtendedMatches(r, deadline) ==
    [m \in Matches |->
        IF m \in Of(r) \cap Pending(matches)
        THEN [matches[m] EXCEPT !.due = Early(matches[m].at, deadline)]
        ELSE matches[m]]

LEMMA ExtendTables ==
    ASSUME TypeInv, NEW r \in Rounds, NEW deadline \in Nat
    PROVE  /\ [rounds EXCEPT ![r].deadline = deadline] \in GoodRounds
           /\ ExtendedMatches(r, deadline) \in GoodMatches
<1>1. rounds \in GoodRounds /\ matches \in GoodMatches
    BY Unfold
<1>2. [rounds[r] EXCEPT !.deadline = deadline] \in Round
    BY <1>1 DEF GoodRounds, Round
<1>3. [rounds EXCEPT ![r].deadline = deadline] \in GoodRounds
    BY <1>1, <1>2 DEF GoodRounds
<1>4. ASSUME NEW m \in Matches
      PROVE  /\ matches[m] \in GoodRow
             /\ [matches[m] EXCEPT !.due = Early(matches[m].at, deadline)] \in GoodRow
    <2>1. matches[m] \in GoodRow
        BY <1>1 DEF GoodMatches
    <2>2. Early(matches[m].at, deadline) \in Nat
        BY <2>1, ArenaAssumption DEF GoodRow, Row, Early
    <2> QED BY <2>1, <2>2 DEF GoodRow, Row
<1>5. ExtendedMatches(r, deadline) \in GoodMatches
    BY <1>4 DEF ExtendedMatches, GoodMatches
<1> QED BY <1>3, <1>5

LEMMA ExtendType ==
    ASSUME TypeInv, NEW r \in Rounds, NEW deadline \in 1..MaxTime, ExtendRound(r, deadline)
    PROVE  TypeInv'
<1> DEFINE rs == [rounds EXCEPT ![r].deadline = deadline]
           ms == ExtendedMatches(r, deadline)
           pending == Of(r) \cap Pending(matches)
<1>1. /\ rounds \in GoodRounds /\ matches \in GoodMatches /\ spent \in Spent
      /\ timer \in [Matches -> Timer] /\ rs \in GoodRounds /\ ms \in GoodMatches
      /\ pending \in SUBSET Matches
    BY Unfold, ExtendTables, ArenaAssumption DEF Of
<1>2. \/ Save(rs, ms) /\ Arm(pending, "own") /\ UNCHANGED spent
      \/ Raise(rs, ms, rounds, matches) /\ UNCHANGED timer
    BY DEF ExtendRound, ExtendedMatches, Pending, Of
<1>3. UNCHANGED <<left, tab, restoring, startup, now, spoilt, revised>>
    BY DEF ExtendRound
<1> HIDE DEF rs, ms, pending
<1>4. /\ rounds' \in GoodRounds /\ matches' \in GoodMatches /\ spent' \in Spent
      /\ timer' \in Armed
    <2>1. CASE Save(rs, ms) /\ Arm(pending, "own") /\ UNCHANGED spent
        <3>1. rounds' \in GoodRounds /\ matches' \in GoodMatches
            BY <1>1, <2>1 DEF Save
        <3> QED BY <1>1, <2>1, <3>1, TimerType
    <2>2. CASE Raise(rs, ms, rounds, matches) /\ UNCHANGED timer
        BY <1>1, <2>2, RaiseType, TimerType
    <2> QED BY <1>2, <2>1, <2>2
<1>5. \A t \in Tabs : TabOK(t)'
    BY <1>3 DEF TypeInv, TabOK
<1> QED BY <1>3, <1>4, <1>5, Unfold, FoldArmed

LEMMA CloseType ==
    ASSUME TypeInv, NEW r \in Rounds, CloseRound(r) \/ ReopenRound(r)
    PROVE  TypeInv'
<1>1. rounds \in GoodRounds /\ matches \in GoodMatches /\ spent \in Spent /\ revised \subseteq Rounds
    BY Unfold
<1>2. CASE CloseRound(r)
    <2>1. [rounds EXCEPT ![r].status = "closed"] \in GoodRounds
        BY <1>1, StatusType
    <2>2. rounds' \in GoodRounds /\ matches' \in GoodMatches /\ spent' \in Spent
        BY <1>1, <1>2, <2>1, WriteType DEF CloseRound
    <2> QED BY <1>2, <2>2, Unfold, LockedType DEF CloseRound
<1>3. CASE ReopenRound(r)
    <2> DEFINE rs == [rounds EXCEPT ![r].status = "correction"]
    <2>1. rs \in GoodRounds
        BY <1>1, StatusType
    <2> HIDE DEF rs
    <2>2. rounds' \in GoodRounds /\ matches' \in GoodMatches /\ spent' \in Spent
        <3>1. CASE Save(rs, matches) /\ Charge("revisions")
            BY <1>1, <1>3, <2>1, <3>1, ChargeType DEF ReopenRound, Save
        <3>2. CASE Raise(rs, matches, rounds, matches)
            BY <1>1, <2>1, <3>2, RaiseType
        <3> QED BY <1>3, <3>1, <3>2 DEF ReopenRound, rs
    <2>3. revised' \subseteq Rounds
        BY <1>1, <1>3 DEF ReopenRound
    <2> QED BY <1>3, <2>2, <2>3, Unfold, LockedType DEF ReopenRound
<1> QED BY <1>2, <1>3

\* What a withdrawal removes, forfeits and writes.
Undrawn(p)  == {r \in Rounds : /\ rounds[r].status \in Unopened
                              /\ \E m \in Gone(p) : RoundOf[m] = r}
Forfeit(p)  == {m \in Gone(p) : rounds[RoundOf[m]].status \in Playable}
MatchesWithout(p, side) ==
    [m \in Matches |-> IF RoundOf[m] \in Undrawn(p) THEN Absent
                       ELSE IF m \in Forfeit(p) THEN Settled(matches[m], "forfeit", side)
                       ELSE matches[m]]
RoundsWithout(p, side) ==
    [r \in Rounds |-> IF r \in Undrawn(p) THEN NoRound
                      ELSE IF \E m \in Forfeit(p) : RoundOf[m] = r
                           THEN MarkReady(rounds, MatchesWithout(p, side), r)[r]
                      ELSE rounds[r]]

LEMMA WithdrawStep ==
    ASSUME NEW p \in Players, NEW side \in Sides, Withdraw(p, side)
    PROVE  /\ \/ /\ Save(RoundsWithout(p, side), MatchesWithout(p, side))
                 /\ left' = left \cup {p} /\ Charge("revisions")
              \/ /\ Raise(RoundsWithout(p, side), MatchesWithout(p, side), rounds, matches)
                 /\ left' \in {left, left \cup {p}}
           /\ spent.revisions < MaxRevisions
           /\ UNCHANGED <<tab, timer, restoring, startup, now, spoilt, revised>>
BY DEF Withdraw, Undrawn, Forfeit, MatchesWithout, RoundsWithout

LEMMA WithdrawTables ==
    ASSUME TypeInv, NEW p \in Players, NEW side \in Sides
    PROVE  RoundsWithout(p, side) \in GoodRounds /\ MatchesWithout(p, side) \in GoodMatches
<1>1. rounds \in GoodRounds /\ matches \in GoodMatches
    BY Unfold
<1>2. ASSUME NEW m \in Matches
      PROVE  matches[m] \in GoodRow /\ Settled(matches[m], "forfeit", side) \in GoodRow
    BY <1>1, SettledType DEF GoodMatches, Terminal
<1>3. MatchesWithout(p, side) \in GoodMatches
    BY <1>2, BlankRows DEF MatchesWithout, GoodMatches
<1>4. ASSUME NEW r \in Rounds
      PROVE  rounds[r] \in Round /\ MarkReady(rounds, MatchesWithout(p, side), r)[r] \in Round
    BY <1>1, MarkReadyType DEF GoodRounds
<1>5. RoundsWithout(p, side) \in GoodRounds
    BY <1>4, NoRoundType DEF RoundsWithout, GoodRounds
<1> QED BY <1>3, <1>5

LEMMA WithdrawType ==
    ASSUME TypeInv, NEW p \in Players, NEW side \in Sides, Withdraw(p, side)
    PROVE  TypeInv'
<1> DEFINE rs == RoundsWithout(p, side)
           ms == MatchesWithout(p, side)
<1>1. /\ rounds \in GoodRounds /\ matches \in GoodMatches /\ spent \in Spent
      /\ left \subseteq Players /\ rs \in GoodRounds /\ ms \in GoodMatches
    BY Unfold, WithdrawTables
<1>2. /\ \/ /\ Save(rs, ms) /\ left' = left \cup {p} /\ Charge("revisions")
         \/ /\ Raise(rs, ms, rounds, matches) /\ left' \in {left, left \cup {p}}
      /\ spent.revisions < MaxRevisions
      /\ UNCHANGED <<tab, timer, restoring, startup, now, spoilt, revised>>
    BY WithdrawStep
<1> HIDE DEF rs, ms
<1>3. rounds' \in GoodRounds /\ matches' \in GoodMatches /\ spent' \in Spent
    <2>1. CASE Save(rs, ms) /\ Charge("revisions")
        BY <1>1, <1>2, <2>1, ChargeType DEF Save
    <2>2. CASE Raise(rs, ms, rounds, matches)
        BY <1>1, <2>2, RaiseType
    <2> QED BY <1>2, <2>1, <2>2
<1>4. left' \subseteq Players
    BY <1>1, <1>2
<1> QED BY <1>2, <1>3, <1>4, Unfold, LockedType

LEMMA DrawType ==
    ASSUME TypeInv, NEW r \in Rounds,
           GeneratePreview(r) \/ DemoteApproved(r) \/ ApprovePreview(r) \/ PublishApproved(r)
    PROVE  TypeInv'
<1>1. /\ rounds \in GoodRounds /\ matches \in GoodMatches /\ now \in Nat
      /\ revised \subseteq Rounds /\ left \subseteq Players
    BY Unfold
<1>2. CASE GeneratePreview(r)
    <2>1. Drawn(rounds, matches, r) \in GoodRounds /\ Paired(matches, r) \in GoodMatches
        BY <1>1, DrawnType
    <2>2. rounds' \in GoodRounds /\ matches' \in GoodMatches /\ spent' \in Spent
        BY <1>2, <2>1, WriteType DEF GeneratePreview
    <2> QED BY <1>1, <1>2, <2>2, LockedType DEF GeneratePreview
<1>3. CASE DemoteApproved(r)
    <2>1. [rounds EXCEPT ![r].status = "preview"] \in GoodRounds
        BY <1>1, StatusType
    <2>2. rounds' \in GoodRounds /\ matches' \in GoodMatches /\ spent' \in Spent
        BY <1>1, <1>3, <2>1, WriteType DEF DemoteApproved
    <2> QED BY <1>1, <1>3, <2>2, LockedType DEF DemoteApproved
<1>4. CASE ApprovePreview(r)
    <2>1. [rounds EXCEPT ![r].status = "approved"] \in GoodRounds
        BY <1>1, StatusType
    <2>2. rounds' \in GoodRounds /\ matches' \in GoodMatches /\ spent' \in Spent
        BY <1>1, <1>4, <2>1, WriteType DEF ApprovePreview
    <2> QED BY <1>1, <1>4, <2>2, LockedType DEF ApprovePreview
<1>5. CASE PublishApproved(r)
    <2> DEFINE rs == [rounds EXCEPT ![r].status = "open", ![r].deadline = now + RoundLength]
               ms == [m \in Matches |-> IF m \in Of(r) THEN NoResult ELSE matches[m]]
    <2>1. [[rounds[r] EXCEPT !.status = "open"] EXCEPT !.deadline = now + RoundLength] \in Round
        <3>1. now + RoundLength \in Nat
            BY <1>1, ArenaAssumption
        <3>2. rounds[r] \in Round
            BY <1>1 DEF GoodRounds
        <3> QED BY <3>1, <3>2 DEF Round, Live
    <2>2. rs \in GoodRounds
        BY <1>1, <2>1 DEF GoodRounds
    <2>3. ms \in GoodMatches
        BY <1>1, BlankRows DEF GoodMatches
    <2>4. rounds' \in GoodRounds /\ matches' \in GoodMatches /\ spent' \in Spent
        <3>1. Write(rs, ms)
            BY <1>5 DEF PublishApproved
        <3> QED BY <2>2, <2>3, <3>1, WriteType
    <2> QED BY <1>1, <1>5, <2>4, LockedType DEF PublishApproved
<1> QED BY <1>2, <1>3, <1>4, <1>5

LEMMA NextType == TypeInv /\ [Next]_vars => TypeInv'
<1> SUFFICES ASSUME TypeInv, [Next]_vars PROVE TypeInv'
    OBVIOUS
<1>1. ASSUME NEW t \in Tabs, PlayerStep(t) PROVE TypeInv'
    BY <1>1, BeginType, ReportResultType, ConfirmResultType, DisputeResultType, TaskTypes
    DEF PlayerStep
<1>2. ASSUME NEW m \in Matches, MatchStep(m) PROVE TypeInv'
    BY <1>2, FinalizeType, FinalizeRestoredType, RulingType, TaskTypes DEF MatchStep
<1>3. ASSUME NEW r \in Rounds, RoundStep(r) PROVE TypeInv'
    BY <1>3, ExtendType, CloseType DEF RoundStep
<1>4. ASSUME NEW r \in Rounds, DrawStep(r) PROVE TypeInv'
    BY <1>4, DrawType, BeginSyncType, SyncPreviewType DEF DrawStep
<1>5. ASSUME NEW p \in Players, NEW side \in Sides, Withdraw(p, side) PROVE TypeInv'
    BY <1>5, WithdrawType
<1>6. CASE StartupRead \/ RestoreFinalizers \/ Restart \/ Tick
    BY <1>6, RestoreType, TaskTypes
<1>7. CASE UNCHANGED vars
    <2>1. \A t \in Tabs : TabOK(t)'
        BY <1>7 DEF vars, TypeInv, TabOK
    <2> QED BY <1>7, <2>1, Unfold, FoldArmed DEF vars
<1> QED BY <1>1, <1>2, <1>3, <1>4, <1>5, <1>6, <1>7 DEF Next

\* Every variable keeps its type, for any rounds, matches, participants and
\* handlers.
THEOREM TypeCorrect == Spec => []TypeOK
<1>1. TypeInv => TypeOK
    BY DEF TypeInv
<1> QED BY InitType, NextType, <1>1, PTL DEF Spec

-------------------------------------------------------------------------------
(* What holds of the tables as long as no outdated copy was written.          *)

\* A match that waits for a result has a round in play, one with a result has a
\* round that was opened, and the others have none or a draw.
Consistent(rs, ms) ==
    \A m \in Matches :
        /\ ms[m].state \in {"published", "pending"} \cup Review =>
               rs[RoundOf[m]].status \in Playable
        /\ ms[m].state \in Terminal => rs[RoundOf[m]].status \in Live \cup {"correction"}
        /\ ms[m].state \in {"absent", "preview"} =>
               rs[RoundOf[m]].status \in Unopened \cup {"none"}

DrawnFor(rs, ms, rev) ==
    \A r \in 2..NRounds :
        rs[r].status \in Live /\ rev \cap 2..r = {} =>
            /\ rs[r].source = Fingerprint(ms, r)
            /\ \A q \in Rounds : q < r => rs[q].status = "closed"

Reopened(rs, rev) == \A r \in Rounds : rs[r].status = "correction" => r \in rev

Sound(rs, ms, rev) == Consistent(rs, ms) /\ DrawnFor(rs, ms, rev) /\ Reopened(rs, rev)

\* Steps of the book, from the tables as they are to others.
SameEntry(m, row) == State(row) = State(matches[m]) /\ Result(row) = Result(matches[m])

LawfulRow(m, row) ==
    /\ Phase(rounds[RoundOf[m]]) \in {"open", "correction"}
    /\ \/ /\ State(matches[m]) = "unplayed"
          /\ State(row) \in {"reported", "contested", "final"}
       \/ /\ State(matches[m]) = "reported"
          /\ State(row) \in {"contested", "final"}
       \/ /\ State(matches[m]) = "contested"
          /\ State(row) \in {"final", "unplayed"}
       \/ /\ State(matches[m]) = "final"
          /\ Phase(rounds[RoundOf[m]]) = "correction"
          /\ State(row) \in {"final", "unplayed"}

PlayMove(rs, ms) ==
    /\ \A m \in Matches : SameEntry(m, ms[m]) \/ LawfulRow(m, ms[m])
    /\ \A r \in Rounds : \/ Phase(rs[r]) = Phase(rounds[r])
                         \/ Phase(rounds[r]) = "drawn" /\ Phase(rs[r]) = "none"

ShiftMove(r, rs, ms) ==
    /\ \/ Phase(rounds[r]) = "none"   /\ Phase(rs[r]) = "drawn"
       \/ Phase(rounds[r]) = "drawn"  /\ Phase(rs[r]) = "open"
       \/ Phase(rounds[r]) = "closed" /\ Phase(rs[r]) = "correction"
       \/ /\ Phase(rounds[r]) \in {"open", "correction"} /\ Phase(rs[r]) = "closed"
          /\ \A m \in Matches : RoundOf[m] = r => State(matches[m]) = "final"
    /\ \A q \in Rounds \ {r} : Phase(rs[q]) = Phase(rounds[q])
    /\ \A m \in Matches : SameEntry(m, ms[m])

Allowed(rs, ms) == PlayMove(rs, ms) \/ \E r \in Rounds : ShiftMove(r, rs, ms)

Fit(rs, ms, rev) == Sound(rs, ms, rev) /\ Allowed(rs, ms)

\* The tables after a step are those before it or the ones it wrote.
Landed(rs, ms) == UNCHANGED <<rounds, matches>> \/ (rounds' = rs /\ matches' = ms)

LEMMA WriteLands ==
    ASSUME NEW rs, NEW ms
    PROVE  /\ Write(rs, ms) => Landed(rs, ms)
           /\ Raise(rs, ms, rounds, matches) => Landed(rs, ms)
           /\ Save(rs, ms) => Landed(rs, ms)
BY DEF Write, Raise, Save, Landed

LEMMA Stutter ==
    ASSUME Sound(rounds, matches, revised), NEW rev, revised \subseteq rev
    PROVE  Fit(rounds, matches, rev)
<1>1. DrawnFor(rounds, matches, rev)
    BY DEF Sound, DrawnFor
<1>2. Reopened(rounds, rev)
    BY DEF Sound, Reopened
<1> QED BY <1>1, <1>2 DEF Sound, Fit, Allowed, PlayMove, SameEntry

LEMMA Landing ==
    ASSUME Sound(rounds, matches, revised), revised \subseteq revised',
           NEW rs, NEW ms, Landed(rs, ms), Fit(rs, ms, revised')
    PROVE  Fit(rounds', matches', revised')
BY Stutter DEF Landed

\* Steps that open no round, and touch no closed round before an open one.
LEMMA Quiet ==
    ASSUME DrawnFor(rounds, matches, revised), NEW rev, revised \subseteq rev,
           NEW rs, NEW ms,
           \A r \in 2..NRounds : rs[r].status \in Live =>
               \/ rounds[r].status \in Live /\ rs[r].source = rounds[r].source
               \/ r \in rev,
           \A q \in Rounds, r \in Rounds :
               q < r /\ rs[r].status \in Live /\ rounds[q].status = "closed" =>
                   /\ rs[q].status = "closed"
                   /\ \A m \in Of(q) : Result(ms[m]) = Result(matches[m])
    PROVE  DrawnFor(rs, ms, rev)
<1> SUFFICES ASSUME NEW r \in 2..NRounds, rs[r].status \in Live, rev \cap 2..r = {}
             PROVE  /\ rs[r].source = Fingerprint(ms, r)
                    /\ \A q \in Rounds : q < r => rs[q].status = "closed"
    BY DEF DrawnFor
<1>1. r \in Rounds /\ r \in 2..r /\ NRounds \in Nat
    BY ArenaAssumption DEF Rounds
<1>2. rounds[r].status \in Live /\ rs[r].source = rounds[r].source
    BY <1>1
<1>3. /\ rounds[r].source = Fingerprint(matches, r)
      /\ \A q \in Rounds : q < r => rounds[q].status = "closed"
    BY <1>1, <1>2 DEF DrawnFor
<1>4. ASSUME NEW m \in Before(r) PROVE Result(ms[m]) = Result(matches[m])
    <2>1. m \in Matches /\ RoundOf[m] \in Rounds /\ RoundOf[m] < r /\ m \in Of(RoundOf[m])
        BY ArenaAssumption DEF Before, Of, Rounds
    <2> QED BY <2>1, <1>1, <1>3
<1>5. Fingerprint(ms, r) = Fingerprint(matches, r)
    BY <1>4 DEF Fingerprint
<1> QED BY <1>1, <1>2, <1>3, <1>5

\* Where a row may go while its round is in play.
Turn(old, new, status) ==
    \/ old = "published" /\ new \in {"pending"} \cup Review \cup Terminal
    \/ old = "pending" /\ new \in Review \cup Terminal
    \/ old \in Review /\ new \in Terminal \cup {"published"}
    \/ old \in Terminal /\ status = "correction" /\ new \in Terminal \cup {"published"}

LEMMA TurnLawful ==
    ASSUME NEW m \in Matches, NEW row,
           rounds[RoundOf[m]].status \in Playable,
           Turn(matches[m].state, row.state, rounds[RoundOf[m]].status)
    PROVE  LawfulRow(m, row)
<1>1. Phase(rounds[RoundOf[m]]) = rounds[RoundOf[m]].status
    BY DEF Phase, Playable, OpenRound, Unopened
<1>2. Phase(rounds[RoundOf[m]]) \in {"open", "correction"}
    BY <1>1 DEF Playable, OpenRound
<1>3. CASE matches[m].state = "published" /\ row.state \in {"pending"} \cup Review \cup Terminal
    BY <1>2, <1>3 DEF LawfulRow, State, Review, Terminal
<1>4. CASE matches[m].state = "pending" /\ row.state \in Review \cup Terminal
    BY <1>2, <1>4 DEF LawfulRow, State, Review, Terminal
<1>5. CASE matches[m].state \in Review /\ row.state \in Terminal \cup {"published"}
    BY <1>2, <1>5 DEF LawfulRow, State, Review, Terminal
<1>6. CASE /\ matches[m].state \in Terminal /\ rounds[RoundOf[m]].status = "correction"
           /\ row.state \in Terminal \cup {"published"}
    BY <1>1, <1>2, <1>6 DEF LawfulRow, State, Review, Terminal
<1> QED BY <1>3, <1>4, <1>5, <1>6 DEF Turn

\* What MarkReady does to the statuses.
LEMMA MarkReadyFacts ==
    ASSUME NEW rs \in GoodRounds, NEW ms, NEW r \in Rounds
    PROVE  /\ \A q \in Rounds :
                 /\ MarkReady(rs, ms, r)[q].source = rs[q].source
                 /\ \/ MarkReady(rs, ms, r)[q] = rs[q]
                    \/ /\ q = r /\ rs[q].status = "open"
                       /\ MarkReady(rs, ms, r)[q].status = "ready" /\ Done(ms, q)
           /\ ~Done(ms, r) => MarkReady(rs, ms, r) = rs
<1>1. [rs EXCEPT ![r].status = "ready"] = [rs EXCEPT ![r] = [rs[r] EXCEPT !.status = "ready"]]
    OBVIOUS
<1>2. /\ [rs[r] EXCEPT !.status = "ready"].source = rs[r].source
      /\ [rs[r] EXCEPT !.status = "ready"].status = "ready"
    BY DEF GoodRounds, Round
<1> QED BY <1>1, <1>2 DEF MarkReady, GoodRounds, OpenRound

\* One match goes on while its round is in play, and the round may be ready.
LEMMA OneMatch ==
    ASSUME TypeInv, Sound(rounds, matches, revised),
           NEW m \in Matches, NEW row \in GoodRow,
           rounds[RoundOf[m]].status \in Playable,
           Turn(matches[m].state, row.state, rounds[RoundOf[m]].status)
    PROVE  Fit(MarkReady(rounds, [matches EXCEPT ![m] = row], RoundOf[m]),
               [matches EXCEPT ![m] = row], revised)
<1> DEFINE ms == [matches EXCEPT ![m] = row]
           rs == MarkReady(rounds, ms, RoundOf[m])
<1>1. /\ rounds \in GoodRounds /\ matches \in GoodMatches
      /\ \A x \in Matches : RoundOf[x] \in Rounds
    BY Unfold, ArenaAssumption DEF Rounds
<1>2. /\ ms[m] = row /\ \A x \in Matches \ {m} : ms[x] = matches[x]
    BY <1>1 DEF GoodMatches
<1> HIDE DEF ms
<1>3. \A q \in Rounds :
          /\ rs[q].source = rounds[q].source
          /\ \/ rs[q] = rounds[q]
             \/ /\ rounds[q].status = "open" /\ rs[q].status = "ready" /\ Done(ms, q)
    BY <1>1, MarkReadyFacts
<1> HIDE DEF rs
<1>4. Consistent(rs, ms)
    <2> SUFFICES ASSUME NEW x \in Matches
                 PROVE  /\ ms[x].state \in {"published", "pending"} \cup Review =>
                               rs[RoundOf[x]].status \in Playable
                        /\ ms[x].state \in Terminal =>
                               rs[RoundOf[x]].status \in Live \cup {"correction"}
                        /\ ms[x].state \in {"absent", "preview"} =>
                               rs[RoundOf[x]].status \in Unopened \cup {"none"}
        BY DEF Consistent
    <2> DEFINE q == RoundOf[x]
    <2>1. /\ q \in Rounds
          /\ ms[x].state \in {"published", "pending"} \cup Review =>
                 rounds[q].status \in Playable
          /\ ms[x].state \in Terminal => rounds[q].status \in Live \cup {"correction"}
          /\ ms[x].state \in {"absent", "preview"} => rounds[q].status \in Unopened \cup {"none"}
        <3>1. CASE x = m
            BY <1>1, <1>2, <3>1 DEF Turn, Review, Terminal, Playable, OpenRound, Live
        <3>2. CASE x # m
            BY <1>1, <1>2, <3>2 DEF Sound, Consistent
        <3> QED BY <3>1, <3>2
    <2>2. CASE rs[q] = rounds[q]
        BY <2>1, <2>2
    <2>3. CASE rounds[q].status = "open" /\ rs[q].status = "ready" /\ Done(ms, q)
        <3>1. ms[x].state \in Terminal
            BY <2>3 DEF Done, Of
        <3> QED BY <2>3, <3>1 DEF Terminal, Review, Live
    <2> QED BY <1>3, <2>1, <2>2, <2>3
<1>5. DrawnFor(rs, ms, revised)
    <2>1. ASSUME NEW r \in 2..NRounds, rs[r].status \in Live
          PROVE  rounds[r].status \in Live /\ rs[r].source = rounds[r].source
        <3>1. r \in Rounds
            BY ArenaAssumption DEF Rounds
        <3> QED BY <1>3, <2>1, <3>1 DEF Live
    <2>2. ASSUME NEW q \in Rounds, rounds[q].status = "closed"
          PROVE  /\ rs[q].status = "closed"
                 /\ \A x \in Of(q) : Result(ms[x]) = Result(matches[x])
        <3>1. rs[q].status = "closed"
            BY <1>3, <2>2
        <3>2. m \notin Of(q)
            BY <2>2 DEF Of, Playable, OpenRound
        <3> QED BY <1>2, <3>1, <3>2 DEF Of
    <2>3. DrawnFor(rounds, matches, revised)
        BY DEF Sound
    <2> QED BY <2>1, <2>2, <2>3, Quiet
<1>6. Reopened(rs, revised)
    BY <1>3 DEF Sound, Reopened
<1>7. Allowed(rs, ms)
    <2>1. ASSUME NEW x \in Matches PROVE SameEntry(x, ms[x]) \/ LawfulRow(x, ms[x])
        <3>1. CASE x = m
            BY <1>2, <3>1, TurnLawful
        <3>2. CASE x # m
            BY <1>2, <3>2 DEF SameEntry
        <3> QED BY <3>1, <3>2
    <2>2. ASSUME NEW q \in Rounds PROVE Phase(rs[q]) = Phase(rounds[q])
        BY <1>3 DEF Phase, Unopened
    <2> QED BY <2>1, <2>2 DEF Allowed, PlayMove
<1> QED BY <1>4, <1>5, <1>6, <1>7 DEF Fit, Sound, ms, rs

\* As long as the match is not final, its round is not ready.
LEMMA OneOpenMatch ==
    ASSUME TypeInv, Sound(rounds, matches, revised),
           NEW m \in Matches, NEW row \in GoodRow, row.state \notin Terminal,
           rounds[RoundOf[m]].status \in Playable,
           Turn(matches[m].state, row.state, rounds[RoundOf[m]].status)
    PROVE  Fit(rounds, [matches EXCEPT ![m] = row], revised)
<1>1. rounds \in GoodRounds /\ matches \in GoodMatches /\ RoundOf[m] \in Rounds
    BY Unfold, ArenaAssumption DEF Rounds
<1>2. [matches EXCEPT ![m] = row][m] = row
    BY <1>1 DEF GoodMatches
<1>3. ~Done([matches EXCEPT ![m] = row], RoundOf[m])
    BY <1>2 DEF Done, Of
<1>4. MarkReady(rounds, [matches EXCEPT ![m] = row], RoundOf[m]) = rounds
    BY <1>1, <1>3, MarkReadyFacts
<1> QED BY <1>4, OneMatch

\* The status of one round changes.
LEMMA OneStatus ==
    ASSUME TypeInv, NEW r \in Rounds, NEW status
    PROVE  /\ [rounds EXCEPT ![r].status = status][r].status = status
           /\ [rounds EXCEPT ![r].status = status][r].source = rounds[r].source
           /\ \A q \in Rounds \ {r} : [rounds EXCEPT ![r].status = status][q] = rounds[q]
BY Unfold DEF GoodRounds, Round

LEMMA UnopenedFit ==
    ASSUME TypeInv, Sound(rounds, matches, revised), NEW r \in Rounds,
           rounds[r].status \in Unopened, NEW status \in {"preview", "approved"}
    PROVE  Fit([rounds EXCEPT ![r].status = status], matches, revised)
<1> DEFINE rs == [rounds EXCEPT ![r].status = status]
<1>1. /\ rs[r].status = status /\ rs[r].source = rounds[r].source
      /\ \A q \in Rounds \ {r} : rs[q] = rounds[q]
    BY OneStatus
<1> HIDE DEF rs
<1>2. status \in Unopened /\ status \notin Live /\ status # "correction"
    BY DEF Unopened, Live
<1>3. \A m \in Matches : RoundOf[m] \in Rounds
    BY ArenaAssumption DEF Rounds
<1>4. Consistent(rs, matches)
    BY <1>1, <1>2, <1>3 DEF Sound, Consistent, Playable, OpenRound, Unopened, Live
<1>5. DrawnFor(rs, matches, revised)
    <2>1. \A q \in 2..NRounds : rs[q].status \in Live =>
              rounds[q].status \in Live /\ rs[q].source = rounds[q].source
        BY <1>1, <1>2, ArenaAssumption DEF Rounds
    <2>2. \A q \in Rounds : rounds[q].status = "closed" => rs[q].status = "closed"
        BY <1>1 DEF Unopened
    <2> QED BY <2>1, <2>2, Quiet DEF Sound
<1>6. Reopened(rs, revised)
    BY <1>1, <1>2 DEF Sound, Reopened
<1>7. Allowed(rs, matches)
    <2>1. Phase(rs[r]) = Phase(rounds[r])
        BY <1>1, <1>2 DEF Phase, Unopened
    <2> QED BY <1>1, <2>1 DEF Allowed, PlayMove, SameEntry
<1> QED BY <1>4, <1>5, <1>6, <1>7 DEF Fit, Sound, rs

LEMMA CloseFit ==
    ASSUME TypeInv, Sound(rounds, matches, revised), NEW r \in Rounds,
           rounds[r].status \in {"ready", "correction"}, Done(matches, r)
    PROVE  Fit([rounds EXCEPT ![r].status = "closed"], matches, revised)
<1> DEFINE rs == [rounds EXCEPT ![r].status = "closed"]
<1>1. /\ rs[r].status = "closed" /\ rs[r].source = rounds[r].source
      /\ \A q \in Rounds \ {r} : rs[q] = rounds[q]
    BY OneStatus
<1> HIDE DEF rs
<1>2. \A m \in Matches : /\ RoundOf[m] \in Rounds
                         /\ RoundOf[m] = r => matches[m].state \in Terminal
    BY ArenaAssumption DEF Rounds, Done, Of
<1>3. Consistent(rs, matches)
    BY <1>1, <1>2 DEF Sound, Consistent, Live, Terminal, Review
<1>4. DrawnFor(rs, matches, revised)
    <2>1. ASSUME NEW q \in 2..NRounds, rs[q].status \in Live
          PROVE  \/ rounds[q].status \in Live /\ rs[q].source = rounds[q].source
                 \/ q \in revised
        <3>1. q \in Rounds
            BY ArenaAssumption DEF Rounds
        <3> QED BY <1>1, <2>1, <3>1 DEF Live, Sound, Reopened
    <2>2. \A q \in Rounds : rounds[q].status = "closed" => rs[q].status = "closed"
        BY <1>1
    <2> QED BY <2>1, <2>2, Quiet DEF Sound
<1>5. Reopened(rs, revised)
    BY <1>1 DEF Sound, Reopened
<1>6. Allowed(rs, matches)
    <2>1. Phase(rs[r]) = "closed" /\ Phase(rounds[r]) \in {"open", "correction"}
        BY <1>1 DEF Phase, Unopened
    <2>2. \A m \in Matches : RoundOf[m] = r => State(matches[m]) = "final"
        BY <1>2 DEF State, Terminal, Review
    <2>3. ShiftMove(r, rs, matches)
        BY <1>1, <2>1, <2>2 DEF ShiftMove, SameEntry
    <2> QED BY <2>3 DEF Allowed
<1> QED BY <1>3, <1>4, <1>5, <1>6 DEF Fit, Sound, rs

LEMMA ReopenFit ==
    ASSUME TypeInv, Sound(rounds, matches, revised), NEW r \in Rounds,
           rounds[r].status = "closed",
           \A q \in Rounds : q > r => rounds[q].status \notin Live
    PROVE  Fit([rounds EXCEPT ![r].status = "correction"], matches, revised \cup {r})
<1> DEFINE rs == [rounds EXCEPT ![r].status = "correction"]
<1>1. /\ rs[r].status = "correction" /\ rs[r].source = rounds[r].source
      /\ \A q \in Rounds \ {r} : rs[q] = rounds[q]
    BY OneStatus
<1> HIDE DEF rs
<1>2. \A m \in Matches : RoundOf[m] \in Rounds
    BY ArenaAssumption DEF Rounds
<1>3. Consistent(rs, matches)
    BY <1>1, <1>2 DEF Sound, Consistent, Playable, OpenRound, Unopened
<1>4. DrawnFor(rs, matches, revised \cup {r})
    <2>1. \A q \in 2..NRounds : rs[q].status \in Live =>
              rounds[q].status \in Live /\ rs[q].source = rounds[q].source
        BY <1>1, ArenaAssumption DEF Rounds, Live
    <2>2. ASSUME NEW q \in Rounds, NEW x \in Rounds, q < x, rs[x].status \in Live,
                 rounds[q].status = "closed"
          PROVE  rs[q].status = "closed"
        <3>1. x # r /\ rounds[x].status \in Live
            BY <1>1, <2>2 DEF Live
        <3>2. q # r
            BY <2>2, <3>1, ArenaAssumption DEF Rounds
        <3> QED BY <1>1, <2>2, <3>2
    <2> QED BY <2>1, <2>2, Quiet DEF Sound
<1>5. Reopened(rs, revised \cup {r})
    BY <1>1 DEF Sound, Reopened
<1>6. Allowed(rs, matches)
    <2>1. Phase(rs[r]) = "correction" /\ Phase(rounds[r]) = "closed"
        BY <1>1 DEF Phase, Unopened
    <2>2. ShiftMove(r, rs, matches)
        BY <1>1, <2>1 DEF ShiftMove, SameEntry
    <2> QED BY <2>2 DEF Allowed
<1> QED BY <1>3, <1>4, <1>5, <1>6 DEF Fit, Sound, rs

LEMMA ExtendFit ==
    ASSUME TypeInv, Sound(rounds, matches, revised), NEW r \in Rounds, NEW deadline \in Nat
    PROVE  Fit([rounds EXCEPT ![r].deadline = deadline], ExtendedMatches(r, deadline), revised)
<1> DEFINE rs == [rounds EXCEPT ![r].deadline = deadline]
           ms == ExtendedMatches(r, deadline)
<1>1. \A q \in Rounds : rs[q].status = rounds[q].status /\ rs[q].source = rounds[q].source
    BY Unfold DEF GoodRounds, Round
<1>2. \A m \in Matches : ms[m].state = matches[m].state /\ ms[m].final = matches[m].final
    BY Unfold DEF ExtendedMatches, GoodMatches, GoodRow, Row
<1> HIDE DEF rs, ms
<1>3. \A m \in Matches : SameEntry(m, ms[m])
    BY <1>2 DEF SameEntry, State, Result
<1>4. \A m \in Matches : RoundOf[m] \in Rounds
    BY ArenaAssumption DEF Rounds
<1>5. Consistent(rs, ms)
    BY <1>1, <1>2, <1>4 DEF Sound, Consistent
<1>6. DrawnFor(rs, ms, revised)
    <2>1. \A q \in 2..NRounds : rs[q].status \in Live =>
              rounds[q].status \in Live /\ rs[q].source = rounds[q].source
        BY <1>1, ArenaAssumption DEF Rounds
    <2>2. \A q \in Rounds : \A m \in Of(q) : Result(ms[m]) = Result(matches[m])
        BY <1>3 DEF SameEntry, Of
    <2> QED BY <1>1, <2>1, <2>2, Quiet DEF Sound
<1>7. Reopened(rs, revised)
    BY <1>1 DEF Sound, Reopened
<1>8. Allowed(rs, ms)
    BY <1>1, <1>3 DEF Allowed, PlayMove, Phase
<1> QED BY <1>5, <1>6, <1>7, <1>8 DEF Fit, Sound, rs, ms

\* Before a round is open its matches have no result.
LEMMA Unplayed ==
    ASSUME TypeInv, Sound(rounds, matches, revised), NEW m \in Matches,
           rounds[RoundOf[m]].status \in Unopened \cup {"none"},
           NEW row, row.state \in {"absent", "preview", "published"}
    PROVE  SameEntry(m, row)
<1>1. matches[m].state \in {"absent", "preview"}
    <2>1. matches[m] \in Row
        BY Unfold DEF GoodMatches, GoodRow
    <2> QED BY <2>1 DEF Row, Sound, Consistent, Playable, OpenRound, Unopened, Live
<1> QED BY <1>1 DEF SameEntry, State, Result, Terminal, Review

LEMMA DrawnFit ==
    ASSUME TypeInv, Sound(rounds, matches, revised), NEW r \in Rounds,
           rounds[r].status \in {"none", "preview"}
    PROVE  Fit(Drawn(rounds, matches, r), Paired(matches, r), revised)
<1> DEFINE rs == Drawn(rounds, matches, r)
           ms == Paired(matches, r)
<1>1. /\ rs[r].status = "preview" /\ \A q \in Rounds \ {r} : rs[q] = rounds[q]
      /\ \A m \in Matches : ms[m] = IF m \in Of(r) THEN Preview ELSE matches[m]
    BY Unfold DEF Drawn, Paired, GoodRounds
<1> HIDE DEF rs, ms
<1>2. \A m \in Matches : RoundOf[m] \in Rounds /\ (m \in Of(r) <=> RoundOf[m] = r)
    BY ArenaAssumption DEF Rounds, Of
<1>3. Consistent(rs, ms)
    BY <1>1, <1>2, BlankRows DEF Sound, Consistent, Review, Terminal, Unopened
<1>4. DrawnFor(rs, ms, revised)
    <2>1. \A q \in 2..NRounds : rs[q].status \in Live =>
              rounds[q].status \in Live /\ rs[q].source = rounds[q].source
        BY <1>1, ArenaAssumption DEF Rounds, Live
    <2>2. ASSUME NEW q \in Rounds, rounds[q].status = "closed"
          PROVE  /\ rs[q].status = "closed"
                 /\ \A m \in Of(q) : Result(ms[m]) = Result(matches[m])
        BY <1>1, <1>2, <2>2 DEF Of
    <2> QED BY <2>1, <2>2, Quiet DEF Sound
<1>5. Reopened(rs, revised)
    BY <1>1 DEF Sound, Reopened
<1>6. \A m \in Matches : SameEntry(m, ms[m])
    <2>1. ASSUME NEW m \in Matches, RoundOf[m] = r PROVE SameEntry(m, ms[m])
        BY <1>1, <1>2, <2>1, Unplayed, BlankRows DEF Unopened
    <2>2. ASSUME NEW m \in Matches, RoundOf[m] # r PROVE SameEntry(m, ms[m])
        BY <1>1, <1>2, <2>2 DEF SameEntry
    <2> QED BY <2>1, <2>2
<1>7. Allowed(rs, ms)
    <2>1. CASE rounds[r].status = "none"
        <3>1. Phase(rounds[r]) = "none" /\ Phase(rs[r]) = "drawn"
            BY <1>1, <2>1 DEF Phase, Unopened
        <3>2. ShiftMove(r, rs, ms)
            BY <1>1, <1>6, <3>1 DEF ShiftMove
        <3> QED BY <3>2 DEF Allowed
    <2>2. CASE rounds[r].status = "preview"
        <3>1. Phase(rs[r]) = Phase(rounds[r])
            BY <1>1, <2>2 DEF Phase
        <3> QED BY <1>1, <1>6, <3>1 DEF Allowed, PlayMove
    <2> QED BY <2>1, <2>2
<1> QED BY <1>3, <1>4, <1>5, <1>7 DEF Fit, Sound, rs, ms

LEMMA PublishFit ==
    ASSUME TypeInv, Sound(rounds, matches, revised), NEW r \in Rounds,
           Approvable(r, "approved"), NEW deadline \in Nat
    PROVE  Fit([rounds EXCEPT ![r].status = "open", ![r].deadline = deadline],
               [m \in Matches |-> IF m \in Of(r) THEN NoResult ELSE matches[m]], revised)
<1> DEFINE rs == [rounds EXCEPT ![r].status = "open", ![r].deadline = deadline]
           ms == [m \in Matches |-> IF m \in Of(r) THEN NoResult ELSE matches[m]]
<1>1. /\ rs[r].status = "open" /\ rs[r].source = rounds[r].source
      /\ \A q \in Rounds \ {r} : rs[q] = rounds[q]
    BY Unfold DEF GoodRounds, Round
<1>2. \A m \in Matches : ms[m] = IF m \in Of(r) THEN NoResult ELSE matches[m]
    OBVIOUS
<1> HIDE DEF rs, ms
<1>3. /\ rounds[r].status = "approved" /\ r - 1 \in Rounds
      /\ rounds[r - 1].status = "closed"
      /\ rounds[r].source = Fingerprint(matches, r)
    BY DEF Approvable, Stale
<1>4. \A m \in Matches : RoundOf[m] \in Rounds /\ (m \in Of(r) <=> RoundOf[m] = r)
    BY ArenaAssumption DEF Rounds, Of
<1>5. r \in 2..NRounds /\ NRounds \in Nat /\ Rounds = 1..NRounds
    BY <1>3, ArenaAssumption DEF Rounds
<1>6. Consistent(rs, ms)
    BY <1>1, <1>2, <1>4, BlankRows
    DEF Sound, Consistent, Review, Terminal, Playable, OpenRound
<1>7. DrawnFor(rs, ms, revised)
    <2> SUFFICES ASSUME NEW q \in 2..NRounds, rs[q].status \in Live, revised \cap 2..q = {}
                 PROVE  /\ rs[q].source = Fingerprint(ms, q)
                        /\ \A x \in Rounds : x < q => rs[x].status = "closed"
        BY DEF DrawnFor
    <2>1. q \in Rounds /\ DrawnFor(rounds, matches, revised)
        BY <1>5 DEF Sound
    <2>2. CASE q = r
        <3>1. \A x \in Rounds : x < r => rounds[x].status = "closed"
            <4>1. CASE r = 2
                BY <1>3, <1>5, <4>1
            <4>2. CASE r # 2
                <5>1. r - 1 \in 2..NRounds /\ 2..(r - 1) \subseteq 2..r
                    BY <1>5, <4>2
                <5>2. rounds[r - 1].status \in Live /\ revised \cap 2..(r - 1) = {}
                    BY <1>3, <5>1, <2>2 DEF Live
                <5>3. \A x \in Rounds : x < r - 1 => rounds[x].status = "closed"
                    BY <2>1, <5>1, <5>2 DEF DrawnFor
                <5> QED BY <1>3, <1>5, <5>3
            <4> QED BY <4>1, <4>2
        <3>2. \A x \in Rounds : x < r => rs[x].status = "closed"
            BY <1>1, <1>5, <3>1
        <3>3. \A m \in Before(r) : ms[m] = matches[m]
            BY <1>2, <1>4, <1>5 DEF Before
        <3>4. Fingerprint(ms, r) = Fingerprint(matches, r)
            BY <3>3 DEF Fingerprint
        <3> QED BY <1>1, <1>3, <2>2, <3>2, <3>4
    <2>3. CASE q # r
        <3>1. rounds[q].status \in Live
            BY <1>1, <2>1, <2>3
        <3>2. /\ rounds[q].source = Fingerprint(matches, q)
              /\ \A x \in Rounds : x < q => rounds[x].status = "closed"
            BY <2>1, <3>1 DEF DrawnFor
        <3>3. ~(r < q)
            BY <1>3, <3>2
        <3>4. \A m \in Before(q) : ms[m] = matches[m]
            BY <1>2, <1>4, <1>5, <3>3 DEF Before
        <3>5. Fingerprint(ms, q) = Fingerprint(matches, q)
            BY <3>4 DEF Fingerprint
        <3> QED BY <1>1, <2>1, <2>3, <3>2, <3>3, <3>5
    <2> QED BY <2>2, <2>3
<1>8. Reopened(rs, revised)
    BY <1>1 DEF Sound, Reopened
<1>9. Allowed(rs, ms)
    <2>1. ASSUME NEW m \in Matches PROVE SameEntry(m, ms[m])
        <3>1. CASE RoundOf[m] = r
            BY <1>2, <1>3, <1>4, <3>1, Unplayed, BlankRows DEF Unopened
        <3>2. CASE RoundOf[m] # r
            BY <1>2, <1>4, <3>2 DEF SameEntry
        <3> QED BY <3>1, <3>2
    <2>2. Phase(rounds[r]) = "drawn" /\ Phase(rs[r]) = "open"
        BY <1>1, <1>3 DEF Phase, Unopened
    <2>3. ShiftMove(r, rs, ms)
        BY <1>1, <2>1, <2>2 DEF ShiftMove
    <2> QED BY <2>3 DEF Allowed
<1> QED BY <1>6, <1>7, <1>8, <1>9 DEF Fit, Sound, rs, ms

LEMMA WithdrawFit ==
    ASSUME TypeInv, Sound(rounds, matches, revised), NEW p \in Players, NEW side \in Sides
    PROVE  Fit(RoundsWithout(p, side), MatchesWithout(p, side), revised)
<1> DEFINE rs == RoundsWithout(p, side)
           ms == MatchesWithout(p, side)
<1>1. /\ rounds \in GoodRounds /\ matches \in GoodMatches
      /\ \A m \in Matches : RoundOf[m] \in Rounds
      /\ Forfeit(p) \subseteq Matches
    BY Unfold, ArenaAssumption DEF Rounds, Forfeit, Gone
<1>2. \A m \in Matches :
          \/ RoundOf[m] \in Undrawn(p) /\ ms[m].state = "absent"
          \/ /\ RoundOf[m] \notin Undrawn(p) /\ m \in Forfeit(p)
             /\ ms[m].state = "forfeit"
          \/ RoundOf[m] \notin Undrawn(p) /\ m \notin Forfeit(p) /\ ms[m] = matches[m]
    BY <1>1, BlankRows, SettledType DEF MatchesWithout, GoodMatches, Terminal
<1>3. \A q \in Rounds :
          \/ q \in Undrawn(p) /\ rs[q].status = "none"
          \/ /\ q \notin Undrawn(p) /\ rs[q].source = rounds[q].source
             /\ \/ rs[q].status = rounds[q].status
                \/ rounds[q].status = "open" /\ rs[q].status = "ready" /\ Done(ms, q)
    BY <1>1, MarkReadyFacts DEF RoundsWithout, NoRound
<1>4. \A q \in Undrawn(p) : q \in Rounds /\ rounds[q].status \in Unopened
    BY DEF Undrawn
<1>5. \A m \in Forfeit(p) : /\ rounds[RoundOf[m]].status \in Playable
                            /\ matches[m].state \notin Terminal
    BY DEF Forfeit, Gone
<1> HIDE DEF rs, ms
<1>6. Consistent(rs, ms)
    <2> SUFFICES ASSUME NEW m \in Matches
                 PROVE  /\ ms[m].state \in {"published", "pending"} \cup Review =>
                               rs[RoundOf[m]].status \in Playable
                        /\ ms[m].state \in Terminal =>
                               rs[RoundOf[m]].status \in Live \cup {"correction"}
                        /\ ms[m].state \in {"absent", "preview"} =>
                               rs[RoundOf[m]].status \in Unopened \cup {"none"}
        BY DEF Consistent
    <2> DEFINE q == RoundOf[m]
    <2>1. CASE q \in Undrawn(p)
        BY <1>1, <1>2, <1>3, <2>1 DEF Review, Terminal
    <2>2. CASE q \notin Undrawn(p)
        <3>1. /\ ms[m].state \in {"published", "pending"} \cup Review =>
                     rounds[q].status \in Playable
              /\ ms[m].state \in Terminal => rounds[q].status \in Live \cup {"correction"}
              /\ ms[m].state \in {"absent", "preview"} =>
                     rounds[q].status \in Unopened \cup {"none"}
            <4>1. CASE m \in Forfeit(p)
                BY <1>2, <1>5, <2>2, <4>1 DEF Review, Terminal, Playable, OpenRound, Live
            <4>2. CASE m \notin Forfeit(p)
                BY <1>2, <2>2, <4>2 DEF Sound, Consistent
            <4> QED BY <4>1, <4>2
        <3>2. CASE rs[q].status = rounds[q].status
            BY <3>1, <3>2
        <3>3. CASE rs[q].status = "ready" /\ Done(ms, q)
            <4>1. ms[m].state \in Terminal
                BY <3>3 DEF Done, Of
            <4> QED BY <3>3, <4>1 DEF Terminal, Review, Live
        <3> QED BY <1>1, <1>3, <2>2, <3>2, <3>3
    <2> QED BY <2>1, <2>2
<1>7. DrawnFor(rs, ms, revised)
    <2>1. ASSUME NEW r \in 2..NRounds, rs[r].status \in Live
          PROVE  rounds[r].status \in Live /\ rs[r].source = rounds[r].source
        <3>1. r \in Rounds
            BY ArenaAssumption DEF Rounds
        <3> QED BY <1>3, <2>1, <3>1 DEF Live
    <2>2. ASSUME NEW q \in Rounds, rounds[q].status = "closed"
          PROVE  /\ rs[q].status = "closed"
                 /\ \A m \in Of(q) : Result(ms[m]) = Result(matches[m])
        <3>1. q \notin Undrawn(p)
            BY <1>4, <2>2 DEF Unopened
        <3>2. \A m \in Of(q) : m \in Matches /\ RoundOf[m] = q /\ m \notin Forfeit(p)
            BY <1>5, <2>2 DEF Of, Playable, OpenRound
        <3> QED BY <1>2, <1>3, <2>2, <3>1, <3>2
    <2> QED BY <2>1, <2>2, Quiet DEF Sound
<1>8. Reopened(rs, revised)
    BY <1>3 DEF Sound, Reopened
<1>9. Allowed(rs, ms)
    <2>1. ASSUME NEW m \in Matches PROVE SameEntry(m, ms[m]) \/ LawfulRow(m, ms[m])
        <3>1. CASE RoundOf[m] \in Undrawn(p)
            BY <1>2, <1>4, <3>1, Unplayed
        <3>2. CASE RoundOf[m] \notin Undrawn(p) /\ m \in Forfeit(p)
            <4>1. matches[m] \in Row
                BY <1>1 DEF GoodMatches, GoodRow
            <4>2. matches[m].state \in {"published", "pending"} \cup Review
                BY <1>5, <3>2, <4>1
                DEF Row, Sound, Consistent, Playable, OpenRound, Unopened
            <4>3. Turn(matches[m].state, ms[m].state, rounds[RoundOf[m]].status)
                BY <1>2, <3>2, <4>2 DEF Turn, Terminal
            <4> QED BY <1>5, <3>2, <4>3, TurnLawful
        <3>3. CASE ms[m] = matches[m]
            BY <3>3 DEF SameEntry
        <3> QED BY <1>2, <3>1, <3>2, <3>3
    <2>2. ASSUME NEW q \in Rounds
          PROVE  \/ Phase(rs[q]) = Phase(rounds[q])
                 \/ Phase(rounds[q]) = "drawn" /\ Phase(rs[q]) = "none"
        <3>1. CASE q \in Undrawn(p) /\ rs[q].status = "none"
            BY <1>4, <3>1 DEF Phase, Unopened
        <3>2. CASE rs[q].status = rounds[q].status
            BY <3>2 DEF Phase
        <3>3. CASE rounds[q].status = "open" /\ rs[q].status = "ready"
            BY <3>3 DEF Phase, Unopened
        <3> QED BY <1>3, <3>1, <3>2, <3>3
    <2> QED BY <2>1, <2>2 DEF Allowed, PlayMove
<1> QED BY <1>6, <1>7, <1>8, <1>9 DEF Fit, Sound, rs, ms

\* Every operation, while no outdated copy was written: its step is a fit one,
\* or it writes one.
LEMMA OverSame ==
    ASSUME rounds \in GoodRounds, matches \in GoodMatches,
           NEW rs \in GoodRounds, NEW ms \in GoodMatches,
           \A r \in Rounds : rs[r].status = "none" => rs[r] = rounds[r],
           \A m \in Matches : ms[m].state = "absent" => ms[m] = matches[m]
    PROVE  OverRounds(rs) = rs /\ OverMatches(ms) = ms
<1>1. OverRounds(rs) = rs
    BY DEF OverRounds, GoodRounds
<1>2. OverMatches(ms) = ms
    BY DEF OverMatches, GoodMatches
<1> QED BY <1>1, <1>2

\* A task whose copy is up to date writes what it computed, or nothing.
LEMMA OverwriteLands ==
    ASSUME TypeInv, NEW copy, copy.rounds = rounds, copy.matches = matches,
           NEW rs \in GoodRounds, NEW ms \in GoodMatches,
           \A r \in Rounds : rs[r].status = "none" => rs[r] = rounds[r],
           \A m \in Matches : ms[m].state = "absent" => ms[m] = matches[m],
           \/ Save(OverRounds(rs), OverMatches(ms))
           \/ Raise(OverRounds(rs), OverMatches(ms), OverRounds(copy.rounds),
                    OverMatches(copy.matches))
    PROVE  Landed(rs, ms)
<1>1. rounds \in GoodRounds /\ matches \in GoodMatches
    BY Unfold
<1>2. OverRounds(rs) = rs /\ OverMatches(ms) = ms
    BY <1>1, OverSame
<1>3. OverRounds(rounds) = rounds /\ OverMatches(matches) = matches
    BY <1>1, OverSame
<1> QED BY <1>2, <1>3, WriteLands

LEMMA ReportResultFit ==
    ASSUME TypeInv, Sound(rounds, matches, revised),
           NEW t \in Tabs, NEW score \in Sides, ReportResult(t, score)
    PROVE  spoilt' \/ Fit(rounds', matches', revised')
<1> DEFINE m     == tab[t].match
           limit == tab[t].rounds[RoundOf[m]].deadline
           over  == now > limit
           row   == [tab[t].matches[m] EXCEPT
                        !.state = IF over THEN "late" ELSE "pending", !.score = score,
                        !.at    = IF over THEN 0 ELSE now,
                        !.due   = IF over THEN 0 ELSE Early(now, limit)]
           ms    == [tab[t].matches EXCEPT ![m] = row]
           after == IF over THEN UNCHANGED timer ELSE Arm({m}, "scoped")
<1>1. tab[t].op = "report" /\ tab[t].rounds[RoundOf[m]].status \in Playable
    BY DEF ReportResult
<1>2. Overwrite(t, rounds, ms, rounds, after)
    BY DEF ReportResult
<1>3. /\ \/ Save(OverRounds(rounds), OverMatches(ms))
         \/ Raise(OverRounds(rounds), OverMatches(ms), OverRounds(rounds),
                  OverMatches(tab[t].matches))
      /\ spoilt' = (spoilt \/ Outdated(tab[t])) /\ UNCHANGED revised
    BY <1>2 DEF Overwrite
<1>4. /\ tab[t].matches[m] \in GoodRow
      /\ m \in Matches /\ RoundOf[m] \in Rounds /\ tab[t].matches[m].state = "published"
      /\ rounds \in GoodRounds /\ matches \in GoodMatches /\ now \in Nat
    BY <1>1, CopyFacts, Unfold
<1>5. CASE Outdated(tab[t])
    BY <1>3, <1>5
<1>6. CASE ~Outdated(tab[t])
    <2>1. tab[t].matches = matches /\ tab[t].rounds = rounds
        BY <1>6 DEF Outdated
    <2>2. Early(now, limit) \in Nat
        <3>1. limit \in Nat
            BY <1>4, <2>1 DEF GoodRounds, Round
        <3> QED BY <1>4, <3>1, ArenaAssumption DEF Early
    <2>3. row \in GoodRow /\ row.state \in {"late", "pending"}
        <3>1. row.state = IF over THEN "late" ELSE "pending"
            BY <1>4 DEF GoodRow, Row
        <3>2. CASE over
            BY <1>4, <3>1, <3>2, ReportType
        <3>3. CASE ~over
            BY <1>4, <2>2, <3>1, <3>3, ReportType
        <3> QED BY <3>2, <3>3
    <2> HIDE DEF row
    <2>4. ms = [matches EXCEPT ![m] = row]
        BY <2>1
    <2> HIDE DEF ms
    <2>5. ms \in GoodMatches
        BY <1>4, <2>3, <2>4, OneRowType
    <2>6. \A x \in Matches : ms[x].state = "absent" => ms[x] = matches[x]
        BY <1>4, <2>3, <2>4 DEF GoodMatches
    <2>7. Landed(rounds, ms)
        BY <1>3, <1>4, <2>1, <2>5, <2>6, OverwriteLands
    <2>8. Turn(matches[m].state, row.state, rounds[RoundOf[m]].status)
        BY <1>4, <2>1, <2>3 DEF Turn, Review
    <2>9. Fit(rounds, ms, revised)
        BY <1>1, <1>4, <2>1, <2>3, <2>4, <2>8, OneOpenMatch DEF Terminal
    <2> QED BY <1>3, <2>7, <2>9, Landing
<1> QED BY <1>5, <1>6

LEMMA DisputeResultFit ==
    ASSUME TypeInv, Sound(rounds, matches, revised), NEW t \in Tabs, DisputeResult(t)
    PROVE  spoilt' \/ Fit(rounds', matches', revised')
<1> DEFINE m   == tab[t].match
           row == Settled(tab[t].matches[m], "disputed", "none")
           ms  == [tab[t].matches EXCEPT ![m] = row]
<1>1. tab[t].op = "dispute"
    BY DEF DisputeResult
<1>2. Overwrite(t, rounds, ms, rounds, Disarm(m))
    BY DEF DisputeResult
<1>3. /\ \/ Save(OverRounds(rounds), OverMatches(ms))
         \/ Raise(OverRounds(rounds), OverMatches(ms), OverRounds(rounds),
                  OverMatches(tab[t].matches))
      /\ spoilt' = (spoilt \/ Outdated(tab[t])) /\ UNCHANGED revised
    BY <1>2 DEF Overwrite
<1>4. /\ tab[t].matches[m] \in GoodRow /\ tab[t].matches[m].state = "pending"
      /\ m \in Matches /\ rounds \in GoodRounds /\ matches \in GoodMatches
    BY <1>1, CopyFacts, Unfold
<1>5. CASE Outdated(tab[t])
    BY <1>3, <1>5
<1>6. CASE ~Outdated(tab[t])
    <2>1. tab[t].matches = matches /\ tab[t].rounds = rounds
        BY <1>6 DEF Outdated
    <2>2. row \in GoodRow /\ row.state = "disputed"
        BY <1>4, DisputedType
    <2> HIDE DEF row
    <2>3. ms = [matches EXCEPT ![m] = row]
        BY <2>1
    <2> HIDE DEF ms
    <2>4. ms \in GoodMatches
        BY <1>4, <2>2, <2>3, OneRowType
    <2>5. \A x \in Matches : ms[x].state = "absent" => ms[x] = matches[x]
        BY <1>4, <2>2, <2>3 DEF GoodMatches
    <2>6. Landed(rounds, ms)
        BY <1>3, <1>4, <2>1, <2>4, <2>5, OverwriteLands
    <2>7. /\ Turn(matches[m].state, row.state, rounds[RoundOf[m]].status)
          /\ rounds[RoundOf[m]].status \in Playable
        BY <1>4, <2>1, <2>2 DEF Turn, Review, Sound, Consistent
    <2>8. Fit(rounds, ms, revised)
        BY <1>4, <2>2, <2>3, <2>7, OneOpenMatch DEF Terminal
    <2> QED BY <1>3, <2>6, <2>8, Landing
<1> QED BY <1>5, <1>6

LEMMA ConfirmResultFit ==
    ASSUME TypeInv, Sound(rounds, matches, revised), NEW t \in Tabs, ConfirmResult(t)
    PROVE  spoilt' \/ Fit(rounds', matches', revised')
<1> DEFINE m   == tab[t].match
           row == Settled(tab[t].matches[m], "finalized", tab[t].matches[m].score)
           ms  == [tab[t].matches EXCEPT ![m] = row]
           rs  == MarkReady(tab[t].rounds, ms, RoundOf[m])
<1>1. tab[t].op = "confirm"
    BY DEF ConfirmResult
<1>2. Overwrite(t, rs, ms, tab[t].rounds, Disarm(m))
    BY DEF ConfirmResult
<1>3. /\ \/ Save(OverRounds(rs), OverMatches(ms))
         \/ Raise(OverRounds(rs), OverMatches(ms), OverRounds(tab[t].rounds),
                  OverMatches(tab[t].matches))
      /\ spoilt' = (spoilt \/ Outdated(tab[t])) /\ UNCHANGED revised
    BY <1>2 DEF Overwrite
<1>4. /\ tab[t].matches[m] \in GoodRow /\ tab[t].matches[m].state = "pending"
      /\ m \in Matches /\ RoundOf[m] \in Rounds
      /\ rounds \in GoodRounds /\ matches \in GoodMatches
    BY <1>1, CopyFacts, Unfold
<1>5. CASE Outdated(tab[t])
    BY <1>3, <1>5
<1>6. CASE ~Outdated(tab[t])
    <2>1. tab[t].matches = matches /\ tab[t].rounds = rounds
        BY <1>6 DEF Outdated
    <2>2. row \in GoodRow /\ row.state = "finalized"
        <3>1. tab[t].matches[m].score \in Sides
            BY <1>4 DEF GoodRow
        <3> QED BY <1>4, <3>1, SettledType DEF Terminal
    <2> HIDE DEF row
    <2>3. ms = [matches EXCEPT ![m] = row] /\ rs = MarkReady(rounds, ms, RoundOf[m])
        BY <2>1
    <2> HIDE DEF ms, rs
    <2>4. ms \in GoodMatches /\ rs \in GoodRounds
        BY <1>4, <2>2, <2>3, OneRowType, MarkReadyType
    <2>5. /\ \A x \in Matches : ms[x].state = "absent" => ms[x] = matches[x]
          /\ \A q \in Rounds : rs[q].status = "none" => rs[q] = rounds[q]
        <3>1. \A q \in Rounds : rs[q] = rounds[q] \/ rs[q].status = "ready"
            BY <1>4, <2>3, MarkReadyFacts
        <3> QED BY <1>4, <2>2, <2>3, <3>1 DEF GoodMatches
    <2>6. Landed(rs, ms)
        BY <1>3, <2>1, <2>4, <2>5, OverwriteLands
    <2>7. /\ Turn(matches[m].state, row.state, rounds[RoundOf[m]].status)
          /\ rounds[RoundOf[m]].status \in Playable
        BY <1>4, <2>1, <2>2 DEF Turn, Terminal, Sound, Consistent
    <2>8. Fit(rs, ms, revised)
        BY <1>4, <2>2, <2>3, <2>7, OneMatch
    <2> QED BY <1>3, <2>6, <2>8, Landing
<1> QED BY <1>5, <1>6

LEMMA SyncPreviewFit ==
    ASSUME TypeInv, Sound(rounds, matches, revised),
           NEW t \in Tabs, NEW r \in Rounds, SyncPreview(t, r)
    PROVE  spoilt' \/ Fit(rounds', matches', revised')
<1>1. tab[t].op = "sync"
    BY DEF SyncPreview
<1>2. rounds \in GoodRounds /\ matches \in GoodMatches
    BY Unfold
<1>3. spoilt' = (spoilt \/ Outdated(tab[t])) /\ UNCHANGED revised
    BY DEF SyncPreview, Overwrite
<1>4. CASE Outdated(tab[t])
    BY <1>3, <1>4
<1>5. CASE ~Outdated(tab[t])
    <2>1. tab[t].matches = matches /\ tab[t].rounds = rounds
        BY <1>1, <1>5 DEF Outdated
    <2>2. CASE /\ Redraw(rounds, matches, tab[t].left, r)
               /\ Overwrite(t, Drawn(rounds, matches, r), Paired(matches, r), rounds,
                            UNCHANGED timer)
        <3> DEFINE rs == Drawn(rounds, matches, r)
                   ms == Paired(matches, r)
        <3>1. rs \in GoodRounds /\ ms \in GoodMatches
            BY <1>2, DrawnType
        <3>2. /\ \A q \in Rounds : rs[q].status = "none" => rs[q] = rounds[q]
              /\ \A m \in Matches : ms[m].state = "absent" => ms[m] = matches[m]
            BY <1>2, BlankRows DEF Drawn, Paired, GoodRounds
        <3>3. rounds[r].status \in {"none", "preview"}
            BY <2>2 DEF Redraw
        <3>4. Fit(rs, ms, revised)
            BY <3>3, DrawnFit
        <3> HIDE DEF rs, ms
        <3>5. \/ Save(OverRounds(rs), OverMatches(ms))
              \/ Raise(OverRounds(rs), OverMatches(ms), OverRounds(rounds),
                       OverMatches(tab[t].matches))
            BY <2>2 DEF Overwrite, rs, ms
        <3>6. Landed(rs, ms)
            BY <2>1, <3>1, <3>2, <3>5, OverwriteLands
        <3> QED BY <1>3, <3>4, <3>6, Landing
    <2>3. CASE /\ Redemote(rounds, matches, r)
               /\ Overwrite(t, [rounds EXCEPT ![r].status = "preview"], matches, rounds,
                            UNCHANGED timer)
        <3> DEFINE rs == [rounds EXCEPT ![r].status = "preview"]
        <3>1. rs \in GoodRounds
            BY <1>2, StatusType
        <3>2. \A q \in Rounds : rs[q].status = "none" => rs[q] = rounds[q]
            BY OneStatus
        <3>3. Fit(rs, matches, revised)
            BY <2>3, UnopenedFit DEF Redemote, Unopened
        <3> HIDE DEF rs
        <3>4. \/ Save(OverRounds(rs), OverMatches(matches))
              \/ Raise(OverRounds(rs), OverMatches(matches), OverRounds(rounds),
                       OverMatches(tab[t].matches))
            BY <2>3 DEF Overwrite, rs
        <3>5. Landed(rs, matches)
            BY <1>2, <2>1, <3>1, <3>2, <3>4, OverwriteLands
        <3> QED BY <1>3, <3>3, <3>5, Landing
    <2> QED BY <2>1, <2>2, <2>3 DEF SyncPreview
<1> QED BY <1>4, <1>5

LEMMA FinalizeRestoredFit ==
    ASSUME TypeInv, Sound(rounds, matches, revised), NEW m \in Matches, FinalizeRestored(m)
    PROVE  spoilt' \/ Fit(rounds', matches', revised')
<1> DEFINE row == Settled(startup.matches[m], "finalized", startup.matches[m].score)
           ms  == [startup.matches EXCEPT ![m] = row]
           rs  == MarkReady(startup.rounds, ms, RoundOf[m])
<1>1. /\ \/ Save(OverRounds(rs), OverMatches(ms))
         \/ Raise(OverRounds(rs), OverMatches(ms), OverRounds(startup.rounds),
                  OverMatches(startup.matches))
      /\ spoilt' = (spoilt \/ Outdated(startup)) /\ UNCHANGED revised
    BY DEF FinalizeRestored
<1>2. /\ row \in GoodRow /\ row.state = "finalized" /\ startup.matches[m].state = "pending"
      /\ RoundOf[m] \in Rounds /\ rounds \in GoodRounds /\ matches \in GoodMatches
    BY Unfold, RestoredTables, ArenaAssumption DEF Rounds
<1>3. CASE Outdated(startup)
    BY <1>1, <1>3
<1>4. CASE ~Outdated(startup)
    <2>1. startup.matches = matches /\ startup.rounds = rounds
        BY <1>4 DEF Outdated
    <2> HIDE DEF row
    <2>2. ms = [matches EXCEPT ![m] = row] /\ rs = MarkReady(rounds, ms, RoundOf[m])
        BY <2>1
    <2> HIDE DEF ms, rs
    <2>3. ms \in GoodMatches /\ rs \in GoodRounds
        BY <1>2, <2>2, OneRowType, MarkReadyType
    <2>4. /\ \A x \in Matches : ms[x].state = "absent" => ms[x] = matches[x]
          /\ \A q \in Rounds : rs[q].status = "none" => rs[q] = rounds[q]
        <3>1. \A q \in Rounds : rs[q] = rounds[q] \/ rs[q].status = "ready"
            BY <1>2, <2>2, MarkReadyFacts
        <3> QED BY <1>2, <2>2, <3>1 DEF GoodMatches
    <2>5. Landed(rs, ms)
        BY <1>1, <2>1, <2>3, <2>4, OverwriteLands
    <2>6. /\ Turn(matches[m].state, row.state, rounds[RoundOf[m]].status)
          /\ rounds[RoundOf[m]].status \in Playable
        BY <1>2, <2>1 DEF Turn, Terminal, Sound, Consistent
    <2>7. Fit(rs, ms, revised)
        BY <1>2, <2>2, <2>6, OneMatch
    <2> QED BY <1>1, <2>5, <2>7, Landing
<1> QED BY <1>3, <1>4

LEMMA MatchStepFit ==
    ASSUME TypeInv, Sound(rounds, matches, revised), NEW m \in Matches, MatchStep(m)
    PROVE  spoilt' \/ Fit(rounds', matches', revised')
<1>1. /\ matches[m] \in GoodRow
      /\ \/ matches[m].state \in {"pending"} \cup Review
         \/ rounds[RoundOf[m]].status = "correction"
         => rounds[RoundOf[m]].status \in Playable
    BY Unfold DEF GoodMatches, Sound, Consistent, Playable
<1>2. CASE FinalizeMatchIfDue(m)
    <2> DEFINE row == Settled(matches[m], "finalized", matches[m].score)
               ms  == [matches EXCEPT ![m] = row]
               rs  == MarkReady(rounds, ms, RoundOf[m])
    <2>1. UNCHANGED revised
        BY <1>2 DEF FinalizeMatchIfDue
    <2>2. CASE UNCHANGED <<rounds, matches>>
        BY <2>1, <2>2, Stutter
    <2>3. CASE matches[m].state = "pending" /\ Write(rs, ms)
        <3>1. row \in GoodRow /\ row.state = "finalized"
            <4>1. matches[m].score \in Sides
                BY <1>1, <2>3 DEF GoodRow
            <4> QED BY <1>1, <4>1, SettledType DEF Terminal
        <3>2. Turn(matches[m].state, row.state, rounds[RoundOf[m]].status)
            BY <2>3, <3>1 DEF Turn, Terminal
        <3> HIDE DEF row
        <3>3. Fit(rs, ms, revised)
            BY <1>1, <2>3, <3>1, <3>2, OneMatch
        <3> HIDE DEF rs, ms
        <3> QED BY <2>1, <2>3, <3>3, WriteLands, Landing
    <2> QED BY <1>2, <2>2, <2>3 DEF FinalizeMatchIfDue
<1>3. CASE FinalizeInScope(m)
    BY <1>3, Stutter DEF FinalizeInScope
<1>4. CASE ResolveMatch(m)
    <2>1. PICK row \in GoodRow : row.state \in Terminal /\ Ruled(m, row)
        BY <1>4, Rulings
    <2> DEFINE ms == [matches EXCEPT ![m] = row]
               rs == MarkReady(rounds, ms, RoundOf[m])
    <2>2. /\ rounds[RoundOf[m]].status \in Playable
          /\ Turn(matches[m].state, row.state, rounds[RoundOf[m]].status)
        BY <1>1, <1>4, <2>1, Rulings DEF Turn
    <2>3. Fit(rs, ms, revised)
        BY <2>1, <2>2, OneMatch
    <2>4. Write(rs, ms) /\ UNCHANGED revised
        BY <2>1 DEF Ruled
    <2> HIDE DEF rs, ms
    <2> QED BY <2>3, <2>4, WriteLands, Landing
<1>5. CASE ReplayMatch(m)
    <2> DEFINE ms == [matches EXCEPT ![m] = NoResult]
    <2>1. NoResult \in GoodRow /\ NoResult.state = "published"
        BY BlankRows
    <2>2. /\ rounds[RoundOf[m]].status \in Playable
          /\ Turn(matches[m].state, NoResult.state, rounds[RoundOf[m]].status)
        BY <1>1, <1>5, <2>1 DEF ReplayMatch, Turn
    <2>3. Fit(rounds, ms, revised)
        BY <2>1, <2>2, OneOpenMatch DEF Terminal
    <2>4. /\ Save(rounds, ms) \/ Raise(rounds, ms, rounds, matches)
          /\ UNCHANGED revised
        BY <1>5 DEF ReplayMatch
    <2> HIDE DEF ms
    <2> QED BY <2>3, <2>4, WriteLands, Landing
<1> QED BY <1>2, <1>3, <1>4, <1>5, FinalizeRestoredFit DEF MatchStep

LEMMA RoundStepFit ==
    ASSUME TypeInv, Sound(rounds, matches, revised), NEW r \in Rounds, RoundStep(r)
    PROVE  Fit(rounds', matches', revised')
<1>1. ASSUME NEW deadline \in 1..MaxTime, ExtendRound(r, deadline)
      PROVE  Fit(rounds', matches', revised')
    <2> DEFINE rs == [rounds EXCEPT ![r].deadline = deadline]
               ms == ExtendedMatches(r, deadline)
    <2>1. /\ Save(rs, ms) \/ Raise(rs, ms, rounds, matches)
          /\ UNCHANGED revised
        BY <1>1 DEF ExtendRound, ExtendedMatches, Pending, Of
    <2>2. Fit(rs, ms, revised)
        BY ArenaAssumption, ExtendFit
    <2> HIDE DEF rs, ms
    <2> QED BY <2>1, <2>2, WriteLands, Landing
<1>2. CASE CloseRound(r)
    <2> DEFINE rs == [rounds EXCEPT ![r].status = "closed"]
    <2>1. rounds[r].status \in {"ready", "correction"} /\ Done(matches, r)
        BY <1>2 DEF CloseRound
    <2>2. Write(rs, matches) /\ UNCHANGED revised
        BY <1>2 DEF CloseRound
    <2>3. Fit(rs, matches, revised)
        BY <2>1, CloseFit
    <2> HIDE DEF rs
    <2> QED BY <2>2, <2>3, WriteLands, Landing
<1>3. CASE ReopenRound(r)
    <2> DEFINE rs == [rounds EXCEPT ![r].status = "correction"]
    <2>1. Fit(rs, matches, revised \cup {r})
        BY <1>3, ReopenFit DEF ReopenRound
    <2>2. /\ Save(rs, matches) \/ Raise(rs, matches, rounds, matches)
          /\ revised' = revised \cup {r}
        BY <1>3 DEF ReopenRound
    <2> HIDE DEF rs
    <2> QED BY <2>1, <2>2, WriteLands, Landing
<1> QED BY <1>1, <1>2, <1>3 DEF RoundStep

LEMMA DrawStepFit ==
    ASSUME TypeInv, Sound(rounds, matches, revised), NEW r \in Rounds, DrawStep(r)
    PROVE  spoilt' \/ Fit(rounds', matches', revised')
<1>1. CASE GeneratePreview(r)
    <2>1. Write(Drawn(rounds, matches, r), Paired(matches, r)) /\ UNCHANGED revised
        BY <1>1 DEF GeneratePreview
    <2>2. Fit(Drawn(rounds, matches, r), Paired(matches, r), revised)
        BY <1>1, DrawnFit DEF GeneratePreview
    <2> QED BY <2>1, <2>2, WriteLands, Landing
<1>2. CASE DemoteApproved(r)
    <2> DEFINE rs == [rounds EXCEPT ![r].status = "preview"]
    <2>1. Write(rs, matches) /\ UNCHANGED revised
        BY <1>2 DEF DemoteApproved
    <2>2. Fit(rs, matches, revised)
        BY <1>2, UnopenedFit DEF DemoteApproved, Unopened
    <2> HIDE DEF rs
    <2> QED BY <2>1, <2>2, WriteLands, Landing
<1>3. CASE ApprovePreview(r)
    <2> DEFINE rs == [rounds EXCEPT ![r].status = "approved"]
    <2>1. Write(rs, matches) /\ UNCHANGED revised
        BY <1>3 DEF ApprovePreview
    <2>2. Fit(rs, matches, revised)
        BY <1>3, UnopenedFit DEF ApprovePreview, Approvable, Unopened
    <2> HIDE DEF rs
    <2> QED BY <2>1, <2>2, WriteLands, Landing
<1>4. CASE PublishApproved(r)
    <2> DEFINE rs == [rounds EXCEPT ![r].status = "open", ![r].deadline = now + RoundLength]
               ms == [m \in Matches |-> IF m \in Of(r) THEN NoResult ELSE matches[m]]
    <2>1. Write(rs, ms) /\ UNCHANGED revised /\ Approvable(r, "approved")
        BY <1>4 DEF PublishApproved
    <2>2. now + RoundLength \in Nat
        BY Unfold, ArenaAssumption
    <2>3. Fit(rs, ms, revised)
        BY <2>1, <2>2, PublishFit
    <2> HIDE DEF rs, ms
    <2> QED BY <2>1, <2>3, WriteLands, Landing
<1>5. ASSUME NEW t \in Tabs, BeginSync(t, r)
      PROVE  Fit(rounds', matches', revised')
    BY <1>5, Stutter DEF BeginSync
<1> QED BY <1>1, <1>2, <1>3, <1>4, <1>5, SyncPreviewFit DEF DrawStep

LEMMA NextFit ==
    ASSUME TypeInv, Sound(rounds, matches, revised), Next
    PROVE  spoilt' \/ Fit(rounds', matches', revised')
<1>1. ASSUME NEW t \in Tabs, PlayerStep(t)
      PROVE  spoilt' \/ Fit(rounds', matches', revised')
    <2>1. CASE Abandon(t) \/ \E op \in {"report", "confirm", "dispute"}, m \in Matches :
                                 Begin(t, op, m)
        <3>1. UNCHANGED <<rounds, matches, revised>>
            BY <2>1 DEF Abandon, Begin
        <3> QED BY <3>1, Stutter
    <2> QED BY <1>1, <2>1, ReportResultFit, ConfirmResultFit, DisputeResultFit DEF PlayerStep
<1>2. ASSUME NEW p \in Players, NEW side \in Sides, Withdraw(p, side)
      PROVE  Fit(rounds', matches', revised')
    <2> DEFINE rs == RoundsWithout(p, side)
               ms == MatchesWithout(p, side)
    <2>1. Fit(rs, ms, revised)
        BY WithdrawFit
    <2>2. /\ Save(rs, ms) \/ Raise(rs, ms, rounds, matches)
          /\ UNCHANGED revised
        BY <1>2, WithdrawStep
    <2> HIDE DEF rs, ms
    <2> QED BY <2>1, <2>2, WriteLands, Landing
<1>3. CASE StartupRead \/ RestoreFinalizers \/ Restart \/ Tick
    <2>1. UNCHANGED <<rounds, matches, revised>>
        BY <1>3 DEF StartupRead, RestoreFinalizers, Restart, Tick
    <2> QED BY <2>1, Stutter
<1> QED BY <1>1, <1>2, <1>3, MatchStepFit, RoundStepFit, DrawStepFit DEF Next

-------------------------------------------------------------------------------
(* The invariant.                                                             *)

Inv == TypeInv /\ (~spoilt => Sound(rounds, matches, revised))

LEMMA InitSound == Init => Sound(rounds, matches, revised)
<1> SUFFICES ASSUME Init PROVE Sound(rounds, matches, revised)
    OBVIOUS
<1>1. \A m \in Matches : RoundOf[m] \in Rounds
    BY ArenaAssumption DEF Rounds
<1>2. /\ \A r \in Rounds : rounds[r].status = IF r = 1 THEN "open" ELSE "none"
      /\ \A m \in Matches : matches[m].state = IF RoundOf[m] = 1 THEN "published" ELSE "absent"
    BY BlankRows DEF Init, NoRound
<1>3. Consistent(rounds, matches)
    BY <1>1, <1>2 DEF Consistent, Playable, OpenRound, Unopened, Review, Terminal
<1>4. DrawnFor(rounds, matches, revised)
    <2>1. \A r \in 2..NRounds : r \in Rounds /\ r # 1
        BY ArenaAssumption DEF Rounds
    <2> QED BY <1>2, <2>1 DEF DrawnFor, Live
<1>5. Reopened(rounds, revised)
    BY <1>2 DEF Reopened
<1> QED BY <1>3, <1>4, <1>5 DEF Sound

LEMMA InitInv == Init => Inv
BY InitType, InitSound DEF Inv

LEMMA NextInv == Inv /\ [Next]_vars => Inv'
<1> SUFFICES ASSUME Inv, [Next]_vars PROVE Inv'
    OBVIOUS
<1>1. TypeInv /\ TypeInv'
    BY NextType DEF Inv
<1>2. CASE Next
    <2>1. Sound(rounds, matches, revised)
        BY <1>2 DEF Inv, Next
    <2>2. spoilt' \/ Fit(rounds', matches', revised')
        BY <1>1, <1>2, <2>1, NextFit
    <2> QED BY <1>1, <2>2 DEF Inv, Fit, Sound, Consistent, DrawnFor, Reopened, Fingerprint
<1>3. CASE UNCHANGED vars
    BY <1>1, <1>3 DEF Inv, vars, Sound, Consistent, DrawnFor, Reopened, Fingerprint
<1> QED BY <1>2, <1>3

\* For any number of rounds and matches: until a handler writes an outdated copy
\* back, a round that was opened and never reopened has the fingerprint of its
\* earlier rounds' results, and those rounds are closed.
THEOREM DrawsMatchResults == Spec => []DrawnFromResults
<1>1. Inv => DrawnFromResults
    BY DEF Inv, Sound, DrawnFor, DrawnFromResults
<1> QED BY InitInv, NextInv, <1>1, PTL DEF Spec

-------------------------------------------------------------------------------
(* The refinement.                                                            *)

LEMMA InitBook == Init => Promise!Init
<1> SUFFICES ASSUME Init PROVE Promise!Init
    OBVIOUS
<1>1. /\ \A r \in Rounds : rounds[r].status \in {"open", "none"}
      /\ \A m \in Matches : matches[m].state \in {"published", "absent"}
    BY BlankRows DEF Init, NoRound
<1>2. \A m \in Matches : State(matches[m]) = "unplayed"
    BY <1>1 DEF State, Review, Terminal
<1>3. \A r \in Rounds : Phase(rounds[r]) \in {"none", "open"}
    BY <1>1 DEF Phase, Unopened
<1> QED BY <1>2, <1>3 DEF Init, Promise!Init

LEMMA NextBook == Inv /\ [Next]_vars => [Promise!Next]_(Promise!vars)
<1> SUFFICES ASSUME Inv, [Next]_vars PROVE [Promise!Next]_(Promise!vars)
    OBVIOUS
<1>1. CASE UNCHANGED vars
    BY <1>1 DEF vars, Promise!vars, State, Result, Phase
<1>2. CASE Next /\ spoilt'
    <2>1. spoilt' = TRUE
        BY <1>2, NextType, Unfold DEF Inv, TypeInv, TypeOK
    <2> QED BY <2>1 DEF Promise!Next, Promise!Spoil
<1>3. CASE Next /\ ~spoilt'
    <2>1. TypeInv /\ TypeInv' /\ Sound(rounds, matches, revised)
        BY <1>3, NextType DEF Inv, Next
    <2>2. Allowed(rounds', matches')
        BY <1>3, <2>1, NextFit DEF Fit
    <2>3. UNCHANGED spoilt
        BY <1>3, <2>1 DEF Next, TypeInv, TypeOK
    <2>4. \A m \in Matches : RoundOf[m] \in Rounds
        BY ArenaAssumption DEF Rounds
    <2>5. CASE PlayMove(rounds', matches')
        <3>1. Promise!Results
            BY <2>4, <2>5
            DEF PlayMove, SameEntry, LawfulRow, Promise!Results, Promise!Lawful, Promise!Playing,
                State, Result, Phase
        <3>2. Promise!Play
            BY <2>3, <2>5, <3>1 DEF PlayMove, Promise!Play, Phase
        <3> QED BY <3>2 DEF Promise!Next
    <2>6. ASSUME NEW r \in Rounds, ShiftMove(r, rounds', matches')
          PROVE  Promise!Shift(r)
        BY <2>3, <2>6 DEF ShiftMove, SameEntry, Promise!Shift, Promise!Playing, State, Result, Phase
    <2> QED BY <2>2, <2>5, <2>6 DEF Allowed, Promise!Next
<1> QED BY <1>1, <1>2, <1>3

\* For any number of rounds, matches and handlers: a result moves only as the
\* rules say, and a round closes only over final results, until a handler
\* writes an outdated copy back.
THEOREM KeepsBook == Spec => KeepsResultBook
<1>1. Spec => []Inv
    BY InitInv, NextInv, PTL DEF Spec
<1> QED BY <1>1, InitBook, NextBook, PTL DEF Spec, KeepsResultBook, Promise!Spec

===============================================================================
