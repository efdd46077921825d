---------------------------- MODULE TicketPlacement ----------------------------
(* Closing one welcome ticket: the handlers that notice the close and ask for *)
(* a clan, the finalization that records the answer, settles the recruit's    *)
(* hold and moves the open seats, the idle watcher's auto-close and the       *)
(* manual backfill.  Each handler runs on the event loop and lets the others  *)
(* run at every await; nothing in the code keeps two finalizations of one     *)
(* ticket apart but the states they check when they start.                    *)
(*                                                                            *)
(* Source: modules/onboarding/watcher_welcome.py.  The availability cells are *)
(* the subject of SeatReservations; here a seat change counts once it is made.*)
EXTENDS Integers, Sequences, FiniteSets

CONSTANTS
    Clans,      \* clan tags, all of them with a row in the clans tab
    Handlers,   \* handlers that may be under way side by side
    \* bounds of the instance
    MaxEvents,  \* messages, selections, thread updates, scans and backfills
    MaxFaults   \* failed calls and restarts of the bot

Tags == Clans \cup {"NONE"}   \* what a ticket can be closed with

ASSUME TicketAssumption ==
    /\ IsFiniteSet(Clans)
    /\ Clans \cap {"NONE", ""} = {}
    /\ MaxEvents \in Nat /\ MaxFaults \in Nat

VARIABLES
    row,      \* the ticket's row in the Welcome tab
    hold,     \* the recruit's reservation; clan is "" when there is none
    seats,    \* net open seats this ticket has given back to each clan
    context,  \* the bot's TicketContext, rebuilt as new after a restart
    prompt,   \* a clan picker is up whose view is alive
    shut,     \* the thread is archived, locked or renamed closed-...
    auto,     \* the session row carries auto_closed_at
    job,      \* the handlers: locals and where each one stands
    spent     \* how much of each bound is used up, and the overlaps and
              \* swallowed failures of a read among it

vars == <<row, hold, seats, context, prompt, shut, auto, job, spent>>
sheets == <<row, hold, seats>>
outside == <<shut, auto>>

-------------------------------------------------------------------------------
(* State.                                                                     *)

Status == {"pending", "prompt_required", "in_progress", "failed", "partial",
           "done", "skipped_unresolved"}

Steps == {"idle", "auto", "backfill",
          "manualRow", "manualAdd",              \* _handle_manual_close
          "closeRow", "closeMark", "closePrompt", \* _handle_ticket_closed
          "check", "mark", "reread", "look",     \* _finalize_clan_tag
          "write", "hold", "adjust", "confirm", "stamp", "failMark",
          "release"}                             \* _close_thread

Sources == {"none", "tool", "thread", "message", "select", "auto", "backfill"}

Moves == Clans \X {-1, 1}   \* a seat taken from a clan or given back

Handler == [step   : Steps,
            source : Sources,
            tag    : Tags \cup {""},         \* the clan to finalize with
            prev   : Tags \cup {""},         \* previous_final
            seen   : BOOLEAN,                \* a reservation row was matched
            deltas : Seq(Moves),             \* open_deltas still to apply
            ok     : BOOLEAN]                \* actions_ok

Idle == [step |-> "idle", source |-> "none", tag |-> "", prev |-> "",
         seen |-> FALSE, deltas |-> <<>>, ok |-> TRUE]

NewContext == [state |-> "open", final |-> FALSE]

Busy == {h \in Handlers : job[h].step # "idle"}

Goto(h, r) == job' = [job EXCEPT ![h] = r]
At(h, s)   == Goto(h, [job[h] EXCEPT !.step = s])
Stop(h)    == Goto(h, Idle)

\* An event starts a handler, which overlaps whatever is under way; n counts a
\* read that failed before it and passed for an empty answer.
StartUnread(h, r, n) ==
    /\ spent.events < MaxEvents
    /\ spent.faults + n <= MaxFaults
    /\ job[h] = Idle
    /\ Goto(h, r)
    /\ spent' = [spent EXCEPT !.events = @ + 1,
                              !.faults = @ + n, !.unread = @ + n,
                              !.overlaps = @ + (IF Busy = {} THEN 0 ELSE 1)]

Start(h, r) == StartUnread(h, r, 0)

Fault ==
    /\ spent.faults < MaxFaults
    /\ spent' = [spent EXCEPT !.faults = @ + 1]

Calm == UNCHANGED spent

\* A read failed, and the code goes on as with an empty answer.
Unread ==
    /\ spent.faults < MaxFaults
    /\ spent' = [spent EXCEPT !.faults = @ + 1, !.unread = @ + 1]

\* _finalization_state_from_welcome_row: a state that cannot be read is not done.
TakenAsOpen ==
    \/ row.final # "done" /\ Calm
    \/ row.final = "done" /\ Unread

\* append_welcome_ticket_row: a row that is there keeps its status, and its clan
\* where none is given; but where it cannot be read first, it is overwritten as
\* if it were new.
Upsert(clan, closed) ==
    \/ /\ Calm
       /\ row' = [row EXCEPT !.present = TRUE, !.closed = closed,
                             !.clan = IF clan = "" THEN @ ELSE clan]
    \/ /\ row.present /\ Unread
       /\ row' = [row EXCEPT !.clan = clan, !.closed = closed, !.final = "pending"]

\* An exception that leaves _finalize_clan_tag: only the picker's callback
\* writes the failed marker, the others log it.
Escape(h) == IF job[h].source = "select" THEN At(h, "failMark") ELSE Stop(h)

\* _finalize_clan_tag returns: the idle watcher still has the thread's holds
\* to expire.
Return(h) == IF job[h].source = "auto" THEN At(h, "release") ELSE Stop(h)

-------------------------------------------------------------------------------
(* What starts a handler.                                                     *)

\* Ticket Tool's "closed" message.  Without clan tags nothing but a notice.
ToolClosed(h) ==
    /\ context.state = "open"
    /\ Start(h, [Idle EXCEPT !.step = "closeRow", !.source = "tool"])
    /\ UNCHANGED <<sheets, context, prompt, outside>>

\* The thread was archived, locked or renamed.
ThreadUpdate(h) ==
    /\ context.state # "awaiting_clan"
    /\ shut' = TRUE
    /\ IF auto
       THEN /\ context' = [context EXCEPT !.state = "closed"]
            /\ UNCHANGED <<job, spent>>
       ELSE /\ context.state = "open"
            /\ Start(h, [Idle EXCEPT !.step = "manualRow", !.source = "thread"])
            /\ UNCHANGED context
    /\ UNCHANGED <<sheets, prompt, auto>>

\* A staff message with a known tag, and a choice in the picker.
Message(h) ==
    /\ context.state = "awaiting_clan" /\ ~context.final
    /\ \E t \in Tags :
           Start(h, [Idle EXCEPT !.step = "check", !.source = "message", !.tag = t])
    /\ UNCHANGED <<sheets, context, prompt, outside>>

Select(h) ==
    /\ prompt
    /\ context.state # "closed"
    /\ \E t \in Tags :
           Start(h, [Idle EXCEPT !.step = "check", !.source = "select", !.tag = t])
    /\ UNCHANGED <<sheets, context, prompt, outside>>

\* The idle watcher stamps the session, archives the thread, and then closes
\* the ticket without a placement, whatever the context says.
AutoClose(h) ==
    /\ ~auto /\ ~shut
    /\ auto' = TRUE
    /\ shut' = TRUE
    /\ Start(h, [Idle EXCEPT !.step = "auto", !.source = "auto", !.tag = "NONE"])
    /\ UNCHANGED <<sheets, context, prompt>>

AutoFinalize(h) ==
    /\ job[h].step = "auto"
    /\ context' = [context EXCEPT !.state = "awaiting_clan"]
    /\ At(h, "check")
    /\ Calm
    /\ UNCHANGED <<sheets, prompt, outside>>

\* The backfill lists the rows, then takes those that are not done one by one.
Backfill(h) ==
    /\ row.present
    /\ row.closed \/ shut
    /\ StartUnread(h, [Idle EXCEPT !.step = "backfill", !.source = "backfill",
                                   !.tag = row.clan],
                   IF row.final = "done" THEN 1 ELSE 0)
    /\ UNCHANGED <<sheets, context, prompt, outside>>

BackfillRow(h) ==
    /\ job[h].step = "backfill"
    /\ Calm
    /\ IF job[h].tag # ""
       THEN /\ context' = [context EXCEPT !.state = "awaiting_clan"]
            /\ At(h, "check")
       ELSE /\ At(h, "closeRow")
            /\ UNCHANGED context
    /\ UNCHANGED <<sheets, prompt, outside>>

\* The thread of a closed row could not be fetched.
BackfillUnresolved(h) ==
    /\ job[h].step = "backfill"
    /\ row.closed
    /\ Fault
    /\ row' = [row EXCEPT !.final = "skipped_unresolved"]
    /\ Stop(h)
    /\ UNCHANGED <<hold, seats, context, prompt, outside>>

-------------------------------------------------------------------------------
(* _handle_manual_close and _handle_ticket_closed.                            *)

ManualRow(h) ==
    /\ job[h].step = "manualRow"
    /\ \/ row.present /\ row.final = "done" /\ Calm /\ Stop(h)
       \/ /\ row.present /\ TakenAsOpen
          /\ \/ row.clan = "" /\ At(h, "closeRow")
             \/ row.clan # "" /\ context.state = "closed" /\ Stop(h)
             \/ /\ row.clan # "" /\ context.state # "closed"
                /\ Goto(h, [job[h] EXCEPT !.step = "check", !.tag = row.clan])
       \/ ~row.present /\ Calm /\ At(h, "manualAdd")
    /\ UNCHANGED <<sheets, context, prompt, outside>>

ManualRowFail(h) ==
    /\ job[h].step = "manualRow"
    /\ Fault
    /\ At(h, "manualAdd")
    /\ UNCHANGED <<sheets, context, prompt, outside>>

\* An upsert without a clan, of a row that may be there after all.
ManualAdd(h) ==
    /\ job[h].step = "manualAdd"
    /\ At(h, "closeRow")
    /\ \/ Upsert("", FALSE)
       \/ Fault /\ UNCHANGED row
    /\ UNCHANGED <<hold, seats, context, prompt, outside>>

\* Mutant of CloseRow: a done row is prompted for again.
CloseRowForgetful(h) ==
    /\ job[h].step = "closeRow"
    /\ Calm
    /\ At(h, "closeMark")
    /\ UNCHANGED <<sheets, context, prompt, outside>>

CloseRow(h) ==
    /\ job[h].step = "closeRow"
    /\ \/ row.present /\ row.final = "done" /\ Calm /\ Stop(h)
       \/ row.present /\ TakenAsOpen /\ At(h, "closeMark")
       \/ ~row.present /\ Calm /\ At(h, "closeMark")
    /\ UNCHANGED <<sheets, context, prompt, outside>>

\* The look-up or the mark failed; the prompt goes out all the same.
Ask(h) ==
    /\ context' = [context EXCEPT !.state = "awaiting_clan"]
    /\ At(h, "closePrompt")

CloseUnmarked(h) ==
    /\ job[h].step \in {"closeRow", "closeMark"}
    /\ Fault
    /\ Ask(h)
    /\ UNCHANGED <<sheets, prompt, outside>>

CloseMark(h) ==
    /\ job[h].step = "closeMark"
    /\ Calm
    /\ row' = IF row.present THEN [row EXCEPT !.final = "prompt_required"] ELSE row
    /\ Ask(h)
    /\ UNCHANGED <<hold, seats, prompt, outside>>

ClosePrompt(h) ==
    /\ job[h].step = "closePrompt"
    /\ Stop(h)
    /\ \/ Calm /\ prompt' = TRUE /\ UNCHANGED context
       \/ Fault /\ context' = [context EXCEPT !.state = "open"] /\ UNCHANGED prompt
    /\ UNCHANGED <<sheets, outside>>

\* The picker's view times out after five minutes.
PromptExpires ==
    /\ prompt
    /\ prompt' = FALSE
    /\ UNCHANGED <<sheets, context, outside, job, spent>>

-------------------------------------------------------------------------------
(* _finalize_clan_tag.                                                        *)

\* Mutant of Check: a done ticket is finalized again.
CheckForgetful(h) ==
    /\ job[h].step = "check"
    /\ Calm
    /\ IF row.present THEN At(h, "mark") ELSE At(h, "failMark")
    /\ UNCHANGED <<sheets, context, prompt, outside>>

Check(h) ==
    /\ job[h].step = "check"
    /\ Calm
    /\ \/ row.present /\ row.final # "done" /\ At(h, "mark") /\ UNCHANGED context
       \/ /\ row.present /\ row.final = "done"
          /\ context' = [context EXCEPT !.state = "closed"]
          /\ Return(h)
       \/ ~row.present /\ At(h, "failMark") /\ UNCHANGED context
    /\ UNCHANGED <<sheets, prompt, outside>>

Mark(h) ==
    /\ job[h].step = "mark"
    /\ Calm
    /\ row' = [row EXCEPT !.final = "in_progress"]
    /\ At(h, "reread")
    /\ UNCHANGED <<hold, seats, context, prompt, outside>>

\* The state read or write, the availability preflight, or the row write failed.
Refuse(h) ==
    /\ job[h].step \in {"check", "mark", "look", "write"}
    /\ Fault
    /\ At(h, "failMark")
    /\ UNCHANGED <<sheets, context, prompt, outside>>

FailMark(h) ==
    /\ job[h].step = "failMark"
    /\ Return(h)
    /\ \/ /\ Calm
          /\ row' = IF row.present THEN [row EXCEPT !.final = "failed"] ELSE row
       \/ Fault /\ UNCHANGED row
    /\ UNCHANGED <<hold, seats, context, prompt, outside>>

Reread(h) ==
    /\ job[h].step = "reread"
    /\ \/ Calm  /\ Goto(h, [job[h] EXCEPT !.step = "look", !.prev = row.clan])
       \/ Fault /\ At(h, "look")
    /\ UNCHANGED <<sheets, context, prompt, outside>>

Delta(condition, clan, n) == IF condition THEN << <<clan, n>> >> ELSE <<>>

\* Mutants of Decision: a matched hold is not given back when the recruit goes
\* to another clan; NONE counts as a clan that has a seat to give back.
DecisionKeepsHold(tag, prev, held) ==
    LET moved == prev \in Clans /\ prev # tag IN
    CASE held = "" -> Delta(moved, prev, 1) \o Delta(tag \in Clans /\ tag # prev, tag, -1)
      [] held # "" /\ tag = "NONE" -> Delta(TRUE, held, 1)
      [] held # "" /\ tag = held -> Delta(moved, prev, 1)
      [] OTHER -> Delta(moved /\ prev # held, prev, 1) \o Delta(TRUE, tag, -1)

DecisionNoneIsAClan(tag, prev, held) ==
    LET moved == prev # "" /\ prev # tag IN
    CASE held = "" -> Delta(moved, prev, 1) \o Delta(tag \in Clans /\ tag # prev, tag, -1)
      [] held # "" /\ tag = "NONE" -> Delta(TRUE, held, 1)
      [] held # "" /\ tag = held -> Delta(moved, prev, 1)
      [] OTHER -> Delta(TRUE, held, 1) \o Delta(TRUE, tag, -1)

\* _determine_reservation_decision: held is the clan of the matched hold, or "".
Decision(tag, prev, held) ==
    LET moved == prev \in Clans /\ prev # tag IN
    CASE held = "" -> Delta(moved, prev, 1) \o Delta(tag \in Clans /\ tag # prev, tag, -1)
      [] held # "" /\ tag = "NONE" -> Delta(TRUE, held, 1)
      [] held # "" /\ tag = held -> Delta(moved, prev, 1)
      [] OTHER -> Delta(TRUE, held, 1) \o Delta(moved /\ prev # held, prev, 1)
                                       \o Delta(TRUE, tag, -1)

Decide(h, held) ==
    Goto(h, [job[h] EXCEPT !.step = "write", !.seen = held # "",
                           !.deltas = Decision(job[h].tag, job[h].prev, held)])

Look(h) ==
    /\ job[h].step = "look"
    /\ Calm
    /\ Decide(h, IF hold.active THEN hold.clan ELSE "")
    /\ UNCHANGED <<sheets, context, prompt, outside>>

\* The reservations could not be read, which counts as none; the clan rows
\* could not be refreshed, and seats are left alone; or the clan's row could
\* not be read, and the exception escapes.
LookFail(h) ==
    /\ job[h].step = "look"
    /\ Fault
    /\ \/ Decide(h, "")
       \/ Goto(h, [job[h] EXCEPT !.step = "write", !.ok = FALSE])
       \/ Escape(h)
    /\ UNCHANGED <<sheets, context, prompt, outside>>

\* Mutant of Write: the seats first, the record afterwards.
WriteLater(h) ==
    /\ job[h].step = "write"
    /\ Calm
    /\ At(h, "hold")
    /\ UNCHANGED <<sheets, context, prompt, outside>>

\* An upsert: the clan and the closed status, whatever the row has become.
Write(h) ==
    /\ job[h].step = "write"
    /\ Upsert(job[h].tag, TRUE)
    /\ At(h, "hold")
    /\ UNCHANGED <<hold, seats, context, prompt, outside>>

\* The status cell of the matched row, by row number.
SettleHold(h) ==
    /\ job[h].step = "hold"
    /\ \/ /\ ~job[h].seen /\ Calm
          /\ At(h, "adjust") /\ UNCHANGED hold
       \/ /\ job[h].seen /\ Calm
          /\ hold' = [hold EXCEPT !.active = FALSE]
          /\ At(h, "adjust")
       \/ /\ job[h].seen /\ Fault
          /\ Goto(h, [job[h] EXCEPT !.step = "adjust", !.ok = FALSE])
          /\ UNCHANGED hold
    /\ UNCHANGED <<row, seats, context, prompt, outside>>

Adjust(h) ==
    LET d == Head(job[h].deltas) IN
    /\ job[h].step = "adjust"
    /\ job[h].deltas # <<>>
    /\ \/ /\ Calm
          /\ seats' = [seats EXCEPT ![d[1]] = @ + d[2]]
          /\ Goto(h, [job[h] EXCEPT !.deltas = Tail(@)])
       \/ /\ Fault
          /\ Goto(h, [job[h] EXCEPT !.deltas = Tail(@), !.ok = FALSE])
          /\ UNCHANGED seats
    /\ UNCHANGED <<row, hold, context, prompt, outside>>

Adjusted(h) ==
    /\ job[h].step = "adjust"
    /\ job[h].deltas = <<>>
    /\ Calm
    /\ At(h, "confirm")
    /\ UNCHANGED <<sheets, context, prompt, outside>>

\* Recomputes, confirmation and rename, then the context is closed.  A failed
\* recompute or rename makes the result partial.
Closed(h, fine) ==
    /\ Goto(h, [job[h] EXCEPT !.step = "stamp", !.ok = @ /\ fine])
    /\ context' = [state |-> "closed", final |-> TRUE]
    /\ prompt' = (prompt /\ job[h].source \notin {"message", "select"})

Confirm(h) ==
    /\ job[h].step = "confirm"
    /\ \/ Calm /\ Closed(h, TRUE) /\ shut' = TRUE
       \/ Fault /\ Closed(h, FALSE) /\ UNCHANGED shut
    /\ UNCHANGED <<sheets, auto>>

\* The confirmation could not be sent; only an answer is confirmed.
ConfirmFail(h) ==
    /\ job[h].step = "confirm"
    /\ job[h].source \in {"message", "select"}
    /\ Fault
    /\ Escape(h)
    /\ UNCHANGED <<sheets, context, prompt, outside>>

\* Mutant of Stamp: the outcome is not written.
StampUnwritten(h) ==
    /\ job[h].step = "stamp"
    /\ Calm
    /\ Stop(h)
    /\ UNCHANGED <<sheets, context, prompt, outside>>

Stamp(h) ==
    /\ job[h].step = "stamp"
    /\ Return(h)
    /\ \/ /\ Calm
          /\ row' = [row EXCEPT !.final = IF job[h].ok THEN "done" ELSE "partial"]
       \/ Fault /\ UNCHANGED row
    /\ UNCHANGED <<hold, seats, context, prompt, outside>>

\* release_reservations_for_thread: every active hold of the thread expires,
\* whatever has become of the ticket, and no seat moves.
Release(h) ==
    /\ job[h].step = "release"
    /\ Stop(h)
    /\ \/ Calm /\ hold' = [hold EXCEPT !.active = FALSE]
       \/ Fault /\ UNCHANGED hold
    /\ UNCHANGED <<row, seats, context, prompt, outside>>

-------------------------------------------------------------------------------

\* A restart: coroutines, contexts and views are gone, the sheets are not.
Crash ==
    /\ Fault
    /\ job' = [h \in Handlers |-> Idle]
    /\ context' = NewContext
    /\ prompt' = FALSE
    /\ UNCHANGED <<sheets, outside>>

Init ==
    /\ \E p \in BOOLEAN :
           row = [present |-> p, clan |-> "", closed |-> FALSE, final |-> "pending"]
    /\ \E c \in Clans \cup {""} : hold = [clan |-> c, active |-> c # ""]
    /\ seats = [c \in Clans |-> 0]
    /\ context = NewContext
    /\ prompt = FALSE /\ shut = FALSE /\ auto = FALSE
    /\ job = [h \in Handlers |-> Idle]
    /\ spent = [events |-> 0, faults |-> 0, overlaps |-> 0, unread |-> 0]

Event(h) ==
    \/ ToolClosed(h) \/ ThreadUpdate(h) \/ Message(h) \/ Select(h)
    \/ AutoClose(h) \/ Backfill(h)

Step(h) ==
    \/ AutoFinalize(h) \/ BackfillRow(h) \/ BackfillUnresolved(h)
    \/ ManualRow(h) \/ ManualRowFail(h) \/ ManualAdd(h)
    \/ CloseRow(h) \/ CloseUnmarked(h) \/ CloseMark(h) \/ ClosePrompt(h)
    \/ Check(h) \/ Mark(h) \/ Refuse(h) \/ FailMark(h) \/ Reread(h)
    \/ Look(h) \/ LookFail(h) \/ Write(h) \/ SettleHold(h)
    \/ Adjust(h) \/ Adjusted(h) \/ Confirm(h) \/ ConfirmFail(h) \/ Stamp(h)
    \/ Release(h)

Next ==
    \/ \E h \in Handlers : Event(h) \/ Step(h)
    \/ PromptExpires
    \/ Crash

Spec == Init /\ [][Next]_vars

-------------------------------------------------------------------------------
(* Properties.                                                                *)

\* Every variable stays within its type, and the bounds hold.
TypeOK ==
    /\ row \in [present : BOOLEAN, clan : Tags \cup {""}, closed : BOOLEAN,
                final : Status]
    /\ hold \in [clan : Clans \cup {""}, active : BOOLEAN]
    /\ seats \in [Clans -> Int]
    /\ context \in [state : {"open", "awaiting_clan", "closed"}, final : BOOLEAN]
    /\ prompt \in BOOLEAN /\ shut \in BOOLEAN /\ auto \in BOOLEAN
    /\ job \in [Handlers -> Handler]
    /\ spent \in [events : 0..MaxEvents, faults : 0..MaxFaults, overlaps : Nat,
                  unread : Nat]

\* What the ticket owes a clan: the seat its hold kept, once settled, less the
\* seat of the placement on record.
Owed(c) == (IF c = hold.clan /\ ~hold.active THEN 1 ELSE 0)
         - (IF c = row.clan THEN 1 ELSE 0)

Gap(c) == IF seats[c] > Owed(c) THEN seats[c] - Owed(c) ELSE Owed(c) - seats[c]

\* The seats that are missing or too many, and a hold that was never settled.
Misplaced == UNION {{c} \X (1..Gap(c)) : c \in Clans}

Wrong == Cardinality(Misplaced) + (IF hold.active THEN 1 ELSE 0)

\* A done ticket at rest has settled its hold and moved exactly the seats the
\* recorded placement calls for: a failed call or a restart can spoil two seats,
\* a handler that decides from what another one has changed meanwhile three (the
\* hold and the former placement, both given back, and its own), and nothing else
\* can spoil any.
SeatsPaidFor ==
    row.final = "done" /\ Busy = {} => Wrong <= 2 * spent.faults + 3 * spent.overlaps

\* No seat moves before the Welcome row names the placement it moves for, so a
\* restart between the two leaves a record to reconcile from; and no handler
\* takes the record away again, but for one that adds the row of a manual close
\* and cannot read the row that is there.
RecordedFirst ==
    row.clan = "" /\ spent.unread = 0 => \A c \in Clans : seats[c] = 0

\* While no handlers overlap, a done ticket moves no more seats, and its hold only
\* where the idle watcher releases it last.  Nor is it prompted for, finalized or
\* recorded again, unless a failed read of its row passed for an empty answer:
\* only a finalization that cannot read the row marks it failed, done or not.
\* The status column may go back to open, when a manual close cannot read the
\* row and inserts it.
DoneIsFinal ==
    [][row.final = "done" /\ spent'.overlaps = 0
       => /\ UNCHANGED seats
          /\ UNCHANGED hold \/ \E h \in Handlers : job[h].step = "release"
          /\ \/ spent'.unread > 0
             \/ row'.final \in {"done", "failed"} /\ UNCHANGED row.clan]_vars

\* A finalization that no failure and no other handler disturbs gets to done:
\* it never comes to rest half-way, with the row still in progress or partial.
StartedIsFinished ==
    Busy = {} /\ row.final \in {"in_progress", "partial", "failed"} /\ row.present
        => spent.faults + spent.overlaps > 0

\* docs/modules/Placement.md: when Welcome marks a recruit as placed, the
\* linked reservation is updated and the delta applied to the open spots.
PlacedMeansSettled == row.final = "done" /\ Busy = {} => Wrong = 0

===============================================================================
