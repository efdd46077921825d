------------------------------ MODULE ArenaRounds ------------------------------
(* The qualification rounds of a Live Arena tournament: ROUNDS and MATCHES,   *)
(* two tables of one workbook that every operation reads and writes whole.    *)
(* Players report, confirm and dispute; a timer finalizes what nobody         *)
(* disputes; organizers rule, extend, close, reopen, withdraw a participant,  *)
(* and draw the next round from the results.                                  *)
(*                                                                            *)
(* An operation holds the tournament's lock from its reads to its last write, *)
(* so it is one action with the outcomes of that write.  But the handlers of  *)
(* players, the sync after a mutation and the start of the bot run in a read  *)
(* scope, which remembers what it read first: where they read the tables      *)
(* before they wait for the lock, what they see under it is that copy.  Tasks *)
(* created in a scope inherit it, as the timers restored after a start do.    *)
(* A scope reads the two tables one after the other; here that is one step.   *)
(*                                                                            *)
(* Scores are their winner's side.  Byes, knockout stages, scheduling and     *)
(* Discord messages are left out.                                             *)
EXTENDS Integers, FiniteSets

CONSTANTS
    NRounds, Matches, RoundOf,  \* the matches of each round, the pairing given
    Players, MatchesOf,         \* participants who may withdraw
    Sides,                      \* winners
    Tabs,                       \* interactions and syncs that run in a scope
    Window,                     \* time to dispute a result
    RoundLength,
    MaxTime,
    MaxFailures,    \* bound of failed writes and restarts together
    MaxRevisions    \* bound of reopenings, replays and withdrawals together

ASSUME ArenaAssumption ==
    /\ NRounds \in Nat \ {0}
    /\ RoundOf \in [Matches -> 1..NRounds]
    /\ MatchesOf \in [Players -> SUBSET Matches]
    /\ Window \in Nat /\ RoundLength \in Nat
    /\ MaxTime \in Nat /\ MaxFailures \in Nat
    /\ MaxRevisions \in Nat

VARIABLES
    rounds,     \* the table ROUNDS
    matches,    \* the table MATCHES
    left,       \* participants who are withdrawn
    tab,        \* what runs in a scope, and its copy of the tables
    timer,      \* the finalizer task of each match
    restoring,  \* are the timers to be restored after the start?
    startup,    \* the tables as the scope of the start read them
    now,
    spoilt,     \* has an outdated copy been written?
    revised,    \* rounds that were ever reopened
    spent       \* of the bounds

vars == <<rounds, matches, left, tab, timer, restoring, startup, now, spoilt, revised, spent>>

Rounds == 1..NRounds

OpenRound == {"open"}
Playable  == OpenRound \cup {"correction"}
Unopened  == {"preview", "approved"}
Live      == {"open", "ready", "closed"}
Terminal  == {"finalized", "forfeit", "double"}
Review    == {"disputed", "late"}

NoResult == [state |-> "published", score |-> "none", final |-> "none", at |-> 0, due |-> 0]
Absent   == [NoResult EXCEPT !.state = "absent"]
Preview  == [NoResult EXCEPT !.state = "preview"]

\* The instant of the report and the end of the window, while that is open.
Row == [state : {"absent", "preview", "published", "pending"} \cup Review \cup Terminal,
        score : Sides \cup {"none"},
        final : Sides \cup {"none", "void"},
        at    : Nat,
        due   : Nat]

NoRound == [status |-> "none", deadline |-> 0, source |-> << >>]

Of(r) == {m \in Matches : RoundOf[m] = r}

Pending(ms) == {m \in Matches : ms[m].state = "pending"}

Done(ms, r) == \A m \in Of(r) : ms[m].state \in Terminal

\* source_fingerprint: the final results of the earlier rounds.
Result(row) == IF row.state \in Terminal THEN <<row.state, row.final>> ELSE << >>

Before(r) == {m \in Matches : RoundOf[m] < r}

Fingerprint(ms, r) == [m \in Before(r) |-> Result(ms[m])]

Early(at, deadline) == IF at + Window < deadline THEN at + Window ELSE deadline

-------------------------------------------------------------------------------
(* Writing the tables.                                                        *)

\* A whole table is written: rows the copy does not have lie below it and stay.
OverRounds(rs)  == [r \in Rounds |-> IF rs[r].status = "none" THEN rounds[r] ELSE rs[r]]
OverMatches(ms) == [m \in Matches |-> IF ms[m].state = "absent" THEN matches[m] ELSE ms[m]]

Save(rs, ms) == rounds' = rs /\ matches' = ms

Charge(what) == spent' = [spent EXCEPT ![what] = @ + 1]

\* The write raised: it landed or not, and so did the compensating write of
\* what the operation had read.
Raise(rs, ms, oldRs, oldMs) ==
    /\ spent.failures < MaxFailures
    /\ Charge("failures")
    /\ \/ UNCHANGED <<rounds, matches>>
       \/ Save(rs, ms)
       \/ Save(oldRs, oldMs)

\* An operation that reads under the lock.
Write(rs, ms) ==
    \/ Save(rs, ms) /\ UNCHANGED spent
    \/ Raise(rs, ms, rounds, matches)

MarkReady(rs, ms, r) ==
    IF rs[r].status \in OpenRound /\ Done(ms, r)
    THEN [rs EXCEPT ![r].status = "ready"] ELSE rs

SwappedSettled(row, state, final) ==
    [row EXCEPT !.state = final, !.final = state, !.at = 0, !.due = 0]

Settled(row, state, final) ==
    [row EXCEPT !.state = state, !.final = final, !.at = 0, !.due = 0]

-------------------------------------------------------------------------------
(* Players, in a read scope.                                                  *)

Idle == [op |-> "idle", match |-> "none", rounds |-> << >>, matches |-> << >>, left |-> {}]

\* A handler reads both tables before it waits for the lock; the sync reads the
\* participants too.
Copy(op, m) == [op |-> op, match |-> m, rounds |-> rounds, matches |-> matches, left |-> {}]

CopyAll == [op |-> "sync", match |-> "none", rounds |-> rounds, matches |-> matches, left |-> left]

NoCopy == [rounds |-> << >>, matches |-> << >>]

\* Have the tables changed since the copy was read?
Outdated(copy) == copy.rounds # rounds \/ copy.matches # matches

\* The handler begins: it finds its match, then waits for Discord and the lock.
Begin(t, op, m) ==
    /\ tab[t] = Idle
    /\ \/ op = "report" /\ matches[m].state = "published"
       \/ op \in {"confirm", "dispute"} /\ matches[m].state = "pending"
    /\ tab' = [tab EXCEPT ![t] = Copy(op, m)]
    /\ UNCHANGED <<rounds, matches, left, timer, restoring, startup, now, spoilt, revised, spent>>

\* It ends without having written: a guard or a call before the write failed.
Abandon(t) ==
    /\ tab[t] # Idle
    /\ tab' = [tab EXCEPT ![t] = Idle]
    /\ UNCHANGED <<rounds, matches, left, timer, restoring, startup, now, spoilt, revised, spent>>

\* The handler has the lock, and writes what it read back with its change.
Overwrite(t, rs, ms, oldRs, after) ==
    /\ \/ Save(OverRounds(rs), OverMatches(ms)) /\ after /\ UNCHANGED spent
       \/ /\ Raise(OverRounds(rs), OverMatches(ms),
                   OverRounds(oldRs), OverMatches(tab[t].matches))
          /\ UNCHANGED timer
    /\ spoilt' = (spoilt \/ Outdated(tab[t]))
    /\ tab' = [tab EXCEPT ![t] = Idle]
    /\ UNCHANGED <<left, restoring, startup, now, revised>>

NoTimer == [kind |-> "none", due |-> 0]

\* schedule_match_finalization for some matches, and cancel_match_finalizer.
Arm(ms, kind) ==
    timer' = [m \in Matches |-> IF m \in ms THEN [kind |-> kind, due |-> matches'[m].due]
                                ELSE timer[m]]

Disarm(m) == timer' = [timer EXCEPT ![m] = NoTimer]

\* report_result, which writes MATCHES only, then the timer, whose task inherits
\* the scope of the handler.
ReportResult(t, score) ==
    LET m    == tab[t].match
        limit == tab[t].rounds[RoundOf[m]].deadline
        late == now > limit
        row  == [tab[t].matches[m] EXCEPT
                    !.state = IF late THEN "late" ELSE "pending", !.score = score,
                    !.at    = IF late THEN 0 ELSE now,
                    !.due   = IF late THEN 0 ELSE Early(now, limit)]
    IN  /\ tab[t].op = "report"
        /\ tab[t].rounds[RoundOf[m]].status \in Playable
        /\ Overwrite(t, rounds, [tab[t].matches EXCEPT ![m] = row], rounds,
                     IF late THEN UNCHANGED timer ELSE Arm({m}, "scoped"))

ConfirmResult(t) ==
    LET m  == tab[t].match
        ms == [tab[t].matches EXCEPT ![m] = Settled(@, "finalized", @.score)]
    IN  /\ tab[t].op = "confirm"
        /\ now <= tab[t].matches[m].due
        /\ Overwrite(t, MarkReady(tab[t].rounds, ms, RoundOf[m]), ms, tab[t].rounds, Disarm(m))

DisputeResult(t) ==
    LET m == tab[t].match IN
    /\ tab[t].op = "dispute"
    /\ now <= tab[t].matches[m].due
    /\ Overwrite(t, rounds, [tab[t].matches EXCEPT ![m] = Settled(@, "disputed", "none")],
                 rounds, Disarm(m))

-------------------------------------------------------------------------------
(* Timers.                                                                    *)

\* finalize_match_if_due, by the timer that an extension set, which reads the
\* tables itself: the timer is over, whatever came of it.
FinalizeMatchIfDue(m) ==
    LET ms == [matches EXCEPT ![m] = Settled(@, "finalized", @.score)] IN
    /\ timer[m].kind = "own" /\ now >= timer[m].due
    /\ \/ /\ matches[m].state = "pending" /\ now >= matches[m].due
          /\ Write(MarkReady(rounds, ms, RoundOf[m]), ms)
       \/ /\ matches[m].state # "pending" \/ now < matches[m].due
          /\ UNCHANGED <<rounds, matches, spent>>
    /\ Disarm(m)
    /\ UNCHANGED <<left, tab, restoring, startup, now, spoilt, revised>>

\* A task created in a read scope sees the match as it was before the report,
\* and does nothing.
FinalizeInScope(m) ==
    /\ timer[m].kind = "scoped" /\ now >= timer[m].due
    /\ Disarm(m)
    /\ UNCHANGED <<rounds, matches, left, tab, restoring, startup, now, spoilt, revised, spent>>

\* The same by a restored timer, on the tables as the start read them: it finds
\* the result pending and due in that copy, and writes the copy back.
FinalizeRestored(m) ==
    LET ms == [startup.matches EXCEPT ![m] = Settled(@, "finalized", @.score)]
        rs == MarkReady(startup.rounds, ms, RoundOf[m])
    IN  /\ timer[m].kind = "restored" /\ now >= timer[m].due
        /\ startup.matches[m].state = "pending" /\ now >= startup.matches[m].due
        /\ \/ Save(OverRounds(rs), OverMatches(ms)) /\ UNCHANGED spent
           \/ Raise(OverRounds(rs), OverMatches(ms),
                    OverRounds(startup.rounds), OverMatches(startup.matches))
        /\ Disarm(m)
        /\ spoilt' = (spoilt \/ Outdated(startup))
        /\ startup' = IF \E n \in Matches \ {m} : timer[n].kind = "restored"
                      THEN startup ELSE NoCopy
        /\ UNCHANGED <<left, tab, restoring, now, revised>>

\* Somebody in the scope of the start reads the tables: a sync of the panels, or
\* the restoration 105 seconds later.  Without a pending result in what was read
\* there will be nothing to restore.
StartupRead ==
    /\ restoring /\ startup = NoCopy
    /\ \/ /\ Pending(matches) # {}
          /\ startup' = [rounds |-> rounds, matches |-> matches]
          /\ UNCHANGED restoring
       \/ /\ Pending(matches) = {}
          /\ restoring' = FALSE
          /\ UNCHANGED startup
    /\ UNCHANGED <<rounds, matches, left, tab, timer, now, spoilt, revised, spent>>

\* A finalizer for each result, or none when the restoration fails.
Restore(ms) ==
    \/ /\ timer' = [m \in Matches |->
                        IF m \in ms THEN [kind |-> "restored", due |-> startup.matches[m].due]
                        ELSE timer[m]]
       /\ UNCHANGED <<startup, spent>>
    \/ /\ spent.failures < MaxFailures /\ Charge("failures")
       /\ startup' = NoCopy
       /\ UNCHANGED timer

\* Mutant of RestoreFinalizers: only what is not yet due gets a timer.
RestoreNotYetDue ==
    /\ restoring /\ startup # NoCopy
    /\ restoring' = FALSE
    /\ Restore({m \in Pending(startup.matches) : startup.matches[m].due > now})
    /\ UNCHANGED <<rounds, matches, left, tab, now, spoilt, revised>>

\* restore_pending_result_finalizers, once after the start.
RestoreFinalizers ==
    /\ restoring /\ startup # NoCopy
    /\ restoring' = FALSE
    /\ Restore(Pending(startup.matches))
    /\ UNCHANGED <<rounds, matches, left, tab, now, spoilt, revised>>

Restart ==
    /\ spent.failures < MaxFailures
    /\ Charge("failures")
    /\ tab' = [t \in Tabs |-> Idle]
    /\ timer' = [m \in Matches |-> NoTimer]
    /\ restoring' = TRUE
    /\ startup' = NoCopy
    /\ UNCHANGED <<rounds, matches, left, now, spoilt, revised>>

-------------------------------------------------------------------------------
(* Organizers.                                                                *)

\* resolve_match: the reported score, another, a forfeit, or a replay.
ResolveMatch(m) ==
    LET ruled(row) ==
            /\ Write(MarkReady(rounds, [matches EXCEPT ![m] = row], RoundOf[m]),
                     [matches EXCEPT ![m] = row])
            /\ UNCHANGED <<left, tab, timer, restoring, startup, now, spoilt, revised>>
        review     == matches[m].state \in Review
        correction == /\ rounds[RoundOf[m]].status = "correction"
                      /\ matches[m].state \in Terminal
    IN  \/ review /\ ruled(Settled(matches[m], "finalized", matches[m].score))
        \/ /\ review \/ correction
           /\ \/ \E side \in Sides :
                     \/ ruled(Settled(matches[m], "finalized", side))
                     \/ ruled(Settled(matches[m], "forfeit", side))
              \/ ruled(Settled(matches[m], "double", "void"))

ReplayMatch(m) ==
    /\ \/ matches[m].state \in Review
       \/ rounds[RoundOf[m]].status = "correction" /\ matches[m].state \in Terminal
    /\ spent.revisions < MaxRevisions
    /\ \/ Save(rounds, [matches EXCEPT ![m] = NoResult]) /\ Charge("revisions")
       \/ Raise(rounds, [matches EXCEPT ![m] = NoResult], rounds, matches)
    /\ UNCHANGED <<left, tab, timer, restoring, startup, now, spoilt, revised>>

\* extend_round: the windows of pending results grow with the deadline, and the
\* timers are set again.
ExtendRound(r, deadline) ==
    LET pending == Of(r) \cap Pending(matches)
        rs == [rounds EXCEPT ![r].deadline = deadline]
        ms == [m \in Matches |->
                  IF m \in pending
                  THEN [matches[m] EXCEPT !.due = Early(matches[m].at, deadline)]
                  ELSE matches[m]]
    IN  /\ rounds[r].status \in Playable
        /\ deadline > rounds[r].deadline /\ deadline > now
        /\ \/ Save(rs, ms) /\ Arm(pending, "own") /\ UNCHANGED spent
           \/ Raise(rs, ms, rounds, matches) /\ UNCHANGED timer
        /\ UNCHANGED <<left, tab, restoring, startup, now, spoilt, revised>>

CloseUnfinished(r) ==
    /\ {q \in Rounds : rounds[q].status \in {"ready", "correction"}} = {r}
    /\ Of(r) # {}
    /\ Write([rounds EXCEPT ![r].status = "closed"], matches)
    /\ UNCHANGED <<left, tab, timer, restoring, startup, now, spoilt, revised>>

\* The button wants exactly one round to close.
CloseRound(r) ==
    /\ {q \in Rounds : rounds[q].status \in {"ready", "correction"}} = {r}
    /\ Of(r) # {} /\ Done(matches, r)
    /\ Write([rounds EXCEPT ![r].status = "closed"], matches)
    /\ UNCHANGED <<left, tab, timer, restoring, startup, now, spoilt, revised>>

\* The button takes the last closed round.
ReopenRound(r) ==
    /\ rounds[r].status = "closed"
    /\ \A q \in Rounds : q > r => rounds[q].status \notin Live
    /\ spent.revisions < MaxRevisions
    /\ \/ Save([rounds EXCEPT ![r].status = "correction"], matches) /\ Charge("revisions")
       \/ Raise([rounds EXCEPT ![r].status = "correction"], matches, rounds, matches)
    /\ revised' = revised \cup {r}
    /\ UNCHANGED <<left, tab, timer, restoring, startup, now, spoilt>>

Gone(p) == {m \in MatchesOf[p] : matches[m].state \notin Terminal}

\* withdraw_active_participant: draws with the participant are removed, and his
\* open matches are forfeited.
Withdraw(p, side) ==
    LET undrawn == {r \in Rounds : /\ rounds[r].status \in Unopened
                                   /\ \E m \in Gone(p) : RoundOf[m] = r}
        forfeit == {m \in Gone(p) : rounds[RoundOf[m]].status \in Playable}
        ms == [m \in Matches |->
                  IF RoundOf[m] \in undrawn THEN Absent
                  ELSE IF m \in forfeit THEN Settled(matches[m], "forfeit", side)
                  ELSE matches[m]]
        rs == [r \in Rounds |->
                  IF r \in undrawn THEN NoRound
                  ELSE IF \E m \in forfeit : RoundOf[m] = r THEN MarkReady(rounds, ms, r)[r]
                  ELSE rounds[r]]
    IN  /\ p \notin left /\ spent.revisions < MaxRevisions
        /\ \/ Save(rs, ms) /\ left' = left \cup {p} /\ Charge("revisions")
           \/ Raise(rs, ms, rounds, matches) /\ left' \in {left, left \cup {p}}
        /\ UNCHANGED <<tab, timer, restoring, startup, now, spoilt, revised>>

-------------------------------------------------------------------------------
(* The draw of the next round.                                                *)

CanDraw(rs, gone, r) ==
    /\ r - 1 \in Rounds
    /\ rs[r - 1].status \notin Unopened \cup {"none"}
    /\ Cardinality(gone) % 2 = 0

Drawn(rs, ms, r) ==
    [rs EXCEPT ![r] = [status |-> "preview", deadline |-> 0, source |-> Fingerprint(ms, r)]]

Paired(ms, r) == [m \in Matches |-> IF m \in Of(r) THEN Preview ELSE ms[m]]

\* generate_preview, the first time and again.
GeneratePreview(r) ==
    /\ CanDraw(rounds, left, r)
    /\ rounds[r].status \in {"none", "preview"}
    /\ Write(Drawn(rounds, matches, r), Paired(matches, r))
    /\ UNCHANGED <<left, tab, timer, restoring, startup, now, spoilt, revised>>

Stale(rs, ms, r) == rs[r].source # Fingerprint(ms, r)

\* regenerate_current_preview demotes a stale approval; its second step is
\* GeneratePreview.
DemoteApproved(r) ==
    /\ rounds[r].status = "approved"
    /\ Stale(rounds, matches, r)
    /\ Write([rounds EXCEPT ![r].status = "preview"], matches)
    /\ UNCHANGED <<left, tab, timer, restoring, startup, now, spoilt, revised>>

ApprovableAsDrawn(r, status) ==
    /\ r - 1 \in Rounds
    /\ rounds[r - 1].status = "closed"
    /\ rounds[r].status = status

Approvable(r, status) ==
    /\ r - 1 \in Rounds
    /\ rounds[r - 1].status = "closed"
    /\ rounds[r].status = status
    /\ ~Stale(rounds, matches, r)

ApprovePreview(r) ==
    /\ Approvable(r, "preview")
    /\ Write([rounds EXCEPT ![r].status = "approved"], matches)
    /\ UNCHANGED <<left, tab, timer, restoring, startup, now, spoilt, revised>>

PublishApproved(r) ==
    /\ Approvable(r, "approved")
    /\ now + RoundLength <= MaxTime
    /\ Write([rounds EXCEPT ![r].status = "open", ![r].deadline = now + RoundLength],
             [m \in Matches |-> IF m \in Of(r) THEN NoResult ELSE matches[m]])
    /\ UNCHANGED <<left, tab, timer, restoring, startup, now, spoilt, revised>>

\* What _reconcile_preview finds to do in the tables it reads.
Redraw(rs, ms, gone, r) ==
    /\ CanDraw(rs, gone, r)
    /\ \/ rs[r].status = "preview" /\ Stale(rs, ms, r)
       \/ rs[r].status = "none" /\ rs[r - 1].status = "closed"

Redemote(rs, ms, r) == rs[r].status = "approved" /\ Stale(rs, ms, r)

\* The sync after a mutation begins: it reads both tables in a scope of its own.
BeginSync(t, r) ==
    /\ tab[t] = Idle
    /\ Redraw(rounds, matches, left, r) \/ Redemote(rounds, matches, r)
    /\ tab' = [tab EXCEPT ![t] = CopyAll]
    /\ UNCHANGED <<rounds, matches, left, timer, restoring, startup, now, spoilt, revised, spent>>

SyncPreview(t, r) ==
    LET rs == tab[t].rounds
        ms == tab[t].matches
    IN  /\ tab[t].op = "sync"
        /\ \/ /\ Redraw(rs, ms, tab[t].left, r)
              /\ Overwrite(t, Drawn(rs, ms, r), Paired(ms, r), rs, UNCHANGED timer)
           \/ Redemote(rs, ms, r) /\ Overwrite(t, [rs EXCEPT ![r].status = "preview"], matches, rs,
                                               UNCHANGED timer)

-------------------------------------------------------------------------------

Tick == now < MaxTime /\ now' = now + 1
        /\ UNCHANGED <<rounds, matches, left, tab, timer, restoring, startup, spoilt, revised, spent>>

\* The first round is open.
Init ==
    /\ rounds = [r \in Rounds |-> IF r = 1 THEN [status |-> "open", deadline |-> RoundLength,
                                                 source |-> << >>]
                                  ELSE NoRound]
    /\ matches = [m \in Matches |-> IF RoundOf[m] = 1 THEN NoResult ELSE Absent]
    /\ left = {}
    /\ tab = [t \in Tabs |-> Idle]
    /\ timer = [m \in Matches |-> NoTimer]
    /\ restoring = FALSE /\ spoilt = FALSE
    /\ startup = NoCopy
    /\ now = 0
    /\ revised = {}
    /\ spent = [failures |-> 0, revisions |-> 0]

PlayerStep(t) ==
    \/ \E op \in {"report", "confirm", "dispute"}, m \in Matches : Begin(t, op, m)
    \/ Abandon(t)
    \/ \E score \in Sides : ReportResult(t, score)
    \/ ConfirmResult(t) \/ DisputeResult(t)

DrawStep(r) ==
    \/ GeneratePreview(r) \/ DemoteApproved(r) \/ ApprovePreview(r) \/ PublishApproved(r)
    \/ \E t \in Tabs : BeginSync(t, r) \/ SyncPreview(t, r)

RoundStep(r) ==
    \/ \E deadline \in 1..MaxTime : ExtendRound(r, deadline)
    \/ CloseRound(r) \/ ReopenRound(r)

MatchStep(m) ==
    \/ FinalizeMatchIfDue(m) \/ FinalizeInScope(m) \/ FinalizeRestored(m)
    \/ ResolveMatch(m) \/ ReplayMatch(m)

\* Bound: what follows the writing of an outdated copy is not looked at.
Next ==
    /\ ~spoilt
    /\ \/ \E t \in Tabs : PlayerStep(t)
       \/ \E m \in Matches : MatchStep(m)
       \/ \E r \in Rounds : RoundStep(r) \/ DrawStep(r)
       \/ \E p \in Players, side \in Sides : Withdraw(p, side)
       \/ StartupRead \/ RestoreFinalizers \/ Restart \/ Tick

Spec == Init /\ [][Next]_vars

\* The loop runs the tasks whose time has come, and time passes.
FairSpec ==
    /\ Spec
    /\ \A m \in Matches :
           WF_vars(FinalizeMatchIfDue(m) \/ FinalizeInScope(m) \/ FinalizeRestored(m))
    /\ WF_vars(StartupRead \/ RestoreFinalizers)
    /\ WF_vars(Tick)

-------------------------------------------------------------------------------
(* Properties.                                                                *)

Outcome == Terminal \X (Sides \cup {"void"}) \cup {<< >>}

Round == [status   : {"none", "correction"} \cup Unopened \cup Live,
          deadline : Nat,
          source   : UNION {[Before(r) -> Outcome] : r \in Rounds}]

Handler == [op : {"report", "confirm", "dispute", "sync"}, match : Matches \cup {"none"},
            rounds : [Rounds -> Round], matches : [Matches -> Row], left : SUBSET Players]

TypeOK ==
    /\ rounds \in [Rounds -> Round]
    /\ matches \in [Matches -> Row]
    /\ left \subseteq Players
    /\ tab \in [Tabs -> {Idle} \cup Handler]
    /\ timer \in [Matches -> [kind : {"none", "scoped", "restored", "own"}, due : Nat]]
    /\ startup \in {NoCopy} \cup [rounds : [Rounds -> Round], matches : [Matches -> Row]]
    /\ now \in 0..MaxTime
    /\ restoring \in BOOLEAN /\ spoilt \in BOOLEAN
    /\ revised \subseteq Rounds
    /\ spent \in [failures : 0..MaxFailures, revisions : 0..MaxRevisions]

State(row) == CASE row.state = "pending" -> "reported"
                [] row.state \in Review -> "contested"
                [] row.state \in Terminal -> "final"
                [] OTHER -> "unplayed"

Phase(round) == CASE round.status \in Unopened -> "drawn"
                  [] round.status = "ready" -> "open"
                  [] OTHER -> round.status

Promise == INSTANCE ResultBook
    WITH book  <- [m \in Matches |-> [state  |-> State(matches[m]),
                                      result |-> Result(matches[m])]],
         phase <- [r \in Rounds |-> Phase(rounds[r])]

\* Whatever players, timers and organizers do, fail to do or do again after a
\* restart, a result moves as the rules say and a closed round keeps its
\* results, until a handler writes an outdated copy of the tables back.
KeepsResultBook == Promise!Spec

\* A round that was opened and never reopened is the one its earlier rounds'
\* results call for, and those rounds are closed: an approval given or a preview
\* drawn from results that were then corrected never opens.
DrawnFromResults ==
    \A r \in 2..NRounds :
        rounds[r].status \in Live /\ revised \cap 2..r = {} /\ ~spoilt =>
            /\ rounds[r].source = Fingerprint(matches, r)
            /\ \A q \in Rounds : q < r => rounds[q].status = "closed"

\* A result that is pending after a restart, when the start reads the tables, is
\* settled, if nothing fails any more: its restored timer finalizes it on what was
\* read then, if nobody settles it before, or an outdated copy is written.
SettledAfterRestart ==
    \A m \in Matches :
        (/\ restoring /\ matches[m].state = "pending" /\ spent.failures = MaxFailures
         /\ startup = NoCopy \/ startup.matches[m].state = "pending")
            ~> (matches[m].state # "pending" \/ spoilt)

\* The text under a reported result: if no dispute is raised, the result
\* finalizes automatically.
FinalizesAutomatically ==
    \A m \in Matches :
        matches[m].state = "pending" ~> (matches[m].state # "pending" \/ spoilt)
===============================================================================
