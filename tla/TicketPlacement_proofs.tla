------------------------ MODULE TicketPlacement_proofs -------------------------
(* What TLAPS proves of TicketPlacement for every set of clans and handlers   *)
(* and every bound: the order of record and seats, that nothing undisturbed   *)
(* rests half-way, that done is final, and, while no handlers overlap, that   *)
(* every seat out of place has been paid for by a failed call or a restart.   *)
EXTENDS TicketPlacement, FiniteSetTheorems, SequenceTheorems, TLAPS

-------------------------------------------------------------------------------
(* The inductive invariant.                                                   *)

\* From the check on, the row was read as not done; and in the listing and in the
\* prompt too, if no read failed that passed for an empty answer.
ReadOpen == {"mark", "reread", "look", "write", "hold", "adjust", "confirm", "stamp"}

Listed == {"backfill", "closeMark"}

Underway == {"reread", "look", "write", "hold", "adjust", "confirm", "stamp"}

Finalizing == {"auto", "check", "mark"} \cup Underway

Serial == spent.overlaps = 0

\* Without an overlap one handler is under way at most, and what it read of the
\* row's outcome still holds.
SerialOK ==
    Serial => /\ \A g, h \in Handlers :
                     job[g].step # "idle" /\ job[h].step # "idle" => g = h
              /\ \A h \in Handlers : job[h].step \in ReadOpen => row.final # "done"
              /\ spent.unread = 0 =>
                     \A h \in Handlers : job[h].step \in Listed => row.final # "done"

\* The record of a placement stays: there is no other handler, or none that could
\* overwrite a row it cannot read.
Kept == spent.unread = 0 \/ Serial

\* A finalization knows its placement and its row, and records the one in the
\* other before it touches seats.
RecordOK ==
    /\ row.final = "done" => row.present
    /\ ~row.present => \A c \in Clans : seats[c] = 0
    /\ \A h \in Handlers :
           job[h].step = "mark" \/ job[h].step \in Underway => row.present
    /\ \A h \in Handlers : job[h].step \in Finalizing => job[h].tag \in Tags
    /\ Kept => \A h \in Handlers :
           job[h].step \in {"hold", "adjust", "confirm", "stamp"} => row.clan # ""
    /\ RecordedFirst

Undisturbed == spent.faults = 0 /\ Serial

\* Undisturbed, nothing is given up, and a row in progress has its handler.
ProgressOK ==
    Undisturbed =>
        /\ \A h \in Handlers : job[h].ok
        /\ \A h \in Handlers : job[h].step = "failMark" => ~row.present
        /\ row.final \notin {"failed", "partial"}
        /\ row.final = "in_progress" => \E h \in Handlers : job[h].step \in Underway

Inv == TypeOK /\ SerialOK /\ RecordOK /\ ProgressOK

-------------------------------------------------------------------------------

LEMMA TagFacts == "" \notin Tags /\ "" \notin Clans /\ "NONE" \notin Clans /\ Clans \subseteq Tags
BY TicketAssumption DEF Tags

LEMMA Bounds == MaxEvents \in Nat /\ MaxFaults \in Nat
BY TicketAssumption

Spendings == [events : 0..MaxEvents, faults : 0..MaxFaults, overlaps : Nat,
              unread : Nat]

LEMMA IdleType == Idle \in Handler /\ Idle.step = "idle" /\ Idle.ok
BY DEF Idle, Handler, Steps, Sources

LEMMA Sequences ==
    ASSUME NEW S
    PROVE  /\ << >> \in Seq(S)
           /\ \A s \in S : <<s>> \in Seq(S)
           /\ \A u, v \in Seq(S) : u \o v \in Seq(S)
           /\ \A u \in Seq(S) : u # << >> => Head(u) \in S /\ Tail(u) \in Seq(S)
OBVIOUS

\* The deltas of a decision are seats of clans, one at a time.
LEMMA DecisionType ==
    ASSUME NEW t \in Tags, NEW p \in Tags \cup {""}, NEW c \in Clans \cup {""}
    PROVE  Decision(t, p, c) \in Seq(Moves)
<1>1. << >> \in Seq(Moves) /\ \A u, v \in Seq(Moves) : u \o v \in Seq(Moves)
    BY Sequences
<1>2. \A x \in Clans, n \in {-1, 1} : << <<x, n>> >> \in Seq(Moves)
    <2>1. ASSUME NEW x \in Clans, NEW n \in {-1, 1} PROVE <<x, n>> \in Moves
        BY Zenon DEF Moves
    <2>2. \A m \in Moves : <<m>> \in Seq(Moves)
        BY Sequences
    <2> QED
        BY <2>1, <2>2
<1>3. \A x, b, n : b \in BOOLEAN /\ n \in {-1, 1} /\ (b => x \in Clans)
                   => Delta(b, x, n) \in Seq(Moves)
    BY <1>1, <1>2 DEF Delta
<1>4. 1 \in {-1, 1} /\ -1 \in {-1, 1}
    OBVIOUS
<1> DEFINE moved == p \in Clans /\ p # t
<1>5. /\ Delta(moved, p, 1) \in Seq(Moves)
      /\ Delta(moved /\ p # c, p, 1) \in Seq(Moves)
      /\ Delta(t \in Clans /\ t # p, t, -1) \in Seq(Moves)
      /\ c # "" => Delta(TRUE, c, 1) \in Seq(Moves)
      /\ t # "NONE" => Delta(TRUE, t, -1) \in Seq(Moves)
    BY <1>3, <1>4 DEF Tags
<1> HIDE DEF moved
<1> QED
    BY <1>1, <1>5 DEF Decision, moved

LEMMA InitInv == Init => Inv
<1> SUFFICES ASSUME Init PROVE Inv
    OBVIOUS
<1>1. /\ job = [h \in Handlers |-> Idle]
      /\ spent = [events |-> 0, faults |-> 0, overlaps |-> 0, unread |-> 0]
      /\ seats = [c \in Clans |-> 0]
    BY DEF Init
<1>9. /\ prompt \in BOOLEAN /\ shut \in BOOLEAN /\ auto \in BOOLEAN
      /\ context = [state |-> "open", final |-> FALSE]
    BY Zenon DEF Init, NewContext
<1>5. /\ context \in [state : {"open", "awaiting_clan", "closed"}, final : BOOLEAN]
      /\ job \in [Handlers -> Handler]
      /\ seats \in [Clans -> Int]
    <2>1. context \in [state : {"open", "awaiting_clan", "closed"}, final : BOOLEAN]
        BY <1>9
    <2>2. job \in [Handlers -> Handler]
        BY <1>1, IdleType, Zenon
    <2>3. seats \in [Clans -> Int]
        BY <1>1
    <2> QED
        BY <2>1, <2>2, <2>3
<1>8. spent \in Spendings
    <2>1. 0 \in 0..MaxEvents /\ 0 \in 0..MaxFaults /\ 0 \in Nat
        BY Bounds
    <2> QED
        BY <1>1, <2>1, Zenon DEF Spendings
<1>2. PICK p \in BOOLEAN : row = [present |-> p, clan |-> "", closed |-> FALSE,
                                  final |-> "pending"]
    BY DEF Init
<1>3. PICK c \in Clans \cup {""} : hold = [clan |-> c, active |-> c # ""]
    BY DEF Init
<1>4. /\ row \in [present : BOOLEAN, clan : Tags \cup {""}, closed : BOOLEAN, final : Status]
      /\ hold \in [clan : Clans \cup {""}, active : BOOLEAN]
    BY <1>2, <1>3 DEF Status
<1>6. TypeOK
    BY <1>1, <1>4, <1>5, <1>8, <1>9 DEF TypeOK, Spendings
<1>7. \A h \in Handlers : job[h].step = "idle" /\ job[h].ok
    BY <1>1, IdleType
<1> QED
    BY <1>1, <1>2, <1>6, <1>7 DEF Inv, SerialOK, RecordOK, RecordedFirst, ProgressOK,
       ReadOpen, Finalizing, Underway

-------------------------------------------------------------------------------
(* What the steps have in common.                                             *)

\* A handler that an event starts keeps the invariant when it starts at a step
\* that has read nothing, or has just read the row as not done.
LEMMA StartKeeps ==
    ASSUME Inv, NEW h \in Handlers, NEW r \in Handler, NEW n \in {0, 1},
           StartUnread(h, r, n),
           r.ok, r.step # "failMark",
           r.step \in {"closeRow", "manualRow", "check", "auto", "backfill"},
           r.step \in {"check", "auto"} => r.tag \in Tags,
           n = 0 /\ r.step = "backfill" => row.final # "done",
           UNCHANGED sheets
    PROVE  /\ job' \in [Handlers -> Handler]
           /\ spent' \in Spendings
           /\ SerialOK' /\ RecordOK' /\ ProgressOK'
<1> DEFINE more == IF Busy = {} THEN 0 ELSE 1
<1>0. /\ spent' = [events |-> spent.events + 1, faults |-> spent.faults + n,
                   overlaps |-> spent.overlaps + more, unread |-> spent.unread + n]
      /\ spent.events < MaxEvents /\ spent.events \in 0..MaxEvents
      /\ spent.faults \in 0..MaxFaults /\ spent.faults + n <= MaxFaults
      /\ spent.overlaps \in Nat /\ spent.unread \in Nat
    BY DEF Inv, TypeOK, StartUnread
<1>1. /\ job' \in [Handlers -> Handler]
      /\ spent' \in Spendings
    <2>1. job' \in [Handlers -> Handler]
        BY DEF Inv, TypeOK, StartUnread, Goto
    <2> QED
        BY <2>1, <1>0, Bounds DEF Spendings
<1>2. Serial' => Serial /\ \A g \in Handlers : job[g].step = "idle"
    <2>1. Busy # {} => more = 1
        OBVIOUS
    <2>2. Busy = {} => more = 0 /\ \A g \in Handlers : job[g].step = "idle"
        BY DEF Busy
    <2> HIDE DEF more
    <2> QED
        BY <2>1, <2>2, <1>0 DEF Serial
<1>3. /\ job' = [job EXCEPT ![h] = r] /\ job[h] = Idle
      /\ row' = row /\ seats' = seats
    BY DEF StartUnread, Goto, sheets, Inv, TypeOK
<1>7. /\ spent'.faults = 0 => spent.faults = 0
      /\ spent'.unread = 0 => spent.unread = 0 /\ n = 0
      /\ Kept' => Kept
    BY <1>0, <1>2 DEF Kept
<1>4. SerialOK'
    BY <1>2, <1>3, <1>7, IdleType DEF Inv, TypeOK, SerialOK, Serial, ReadOpen, Listed
<1>5. RecordOK'
    BY <1>3, <1>7 DEF Inv, TypeOK, RecordOK, RecordedFirst, Finalizing, Underway
<1>6. ProgressOK'
    BY <1>2, <1>3, <1>7 DEF Inv, TypeOK, ProgressOK, Undisturbed, Serial, Underway
<1> QED
    BY <1>1, <1>4, <1>5, <1>6

RowType == [present : BOOLEAN, clan : Tags \cup {""}, closed : BOOLEAN, final : Status]

\* What every step of a handler under way does: h goes on as r, the row keeps
\* its clan or gets one, and seats wait for it.
Moved(h, r) ==
    /\ r \in Handler
    /\ job' = [job EXCEPT ![h] = r]
    /\ job[h].step # "idle"
    /\ Calm \/ Fault \/ Unread
    /\ row' \in RowType
    /\ spent'.unread = 0 /\ row'.clan = "" => row.clan = "" /\ seats' = seats
    /\ row.present => row'.present
    /\ ~row'.present => seats' = seats
    /\ row'.final = "done" => row'.present
    /\ r.step = "mark" \/ r.step \in Underway => row'.present
    /\ r.step \in Finalizing => r.tag \in Tags
    /\ Kept' /\ r.step \in {"hold", "adjust", "confirm", "stamp"} => row'.clan # ""
    /\ Serial /\ r.step \in ReadOpen => row'.final # "done"
    /\ Serial /\ spent'.unread = 0 /\ r.step \in Listed => row'.final # "done"
    /\ Undisturbed /\ Calm =>
           /\ r.ok
           /\ r.step = "failMark" => ~row'.present
           /\ row'.final \notin {"failed", "partial"}
           /\ row'.final = "in_progress" =>
                 \/ r.step \in Underway
                 \/ row.final = "in_progress" /\ job[h].step \notin Underway

LEMMA MovedKeeps ==
    ASSUME Inv, NEW h \in Handlers, NEW r, Moved(h, r)
    PROVE  /\ job' \in [Handlers -> Handler]
           /\ spent' \in Spendings
           /\ SerialOK' /\ RecordOK' /\ ProgressOK'
<1>1. /\ job' \in [Handlers -> Handler]
      /\ job'[h] = r
      /\ \A g \in Handlers : g # h => job'[g] = job[g]
    BY DEF Inv, TypeOK, Moved
<1>2. /\ spent' \in Spendings
      /\ spent'.overlaps = spent.overlaps
      /\ Calm \/ spent'.faults # 0
      /\ spent'.unread = 0 => spent.unread = 0
    <2>1. /\ spent.events \in 0..MaxEvents /\ spent.faults \in 0..MaxFaults
          /\ spent.overlaps \in Nat /\ spent.unread \in Nat
          /\ spent \in Spendings
        BY DEF Inv, TypeOK, Spendings
    <2>2. CASE Calm
        BY <2>1, <2>2 DEF Calm
    <2>3. CASE Fault
        <3>1. /\ spent' = [events |-> spent.events, faults |-> spent.faults + 1,
                           overlaps |-> spent.overlaps, unread |-> spent.unread]
              /\ spent.faults < MaxFaults
            BY <2>1, <2>3 DEF Fault, Spendings
        <3> QED
            BY <3>1, <2>1, Bounds DEF Spendings
    <2>4. CASE Unread
        <3>1. /\ spent' = [events |-> spent.events, faults |-> spent.faults + 1,
                           overlaps |-> spent.overlaps, unread |-> spent.unread + 1]
              /\ spent.faults < MaxFaults
            BY <2>1, <2>4 DEF Unread, Spendings
        <3> QED
            BY <3>1, <2>1, Bounds DEF Spendings
    <2> QED
        BY <2>2, <2>3, <2>4 DEF Moved
<1>3. SerialOK'
    BY <1>1, <1>2 DEF Inv, SerialOK, Serial, Moved, ReadOpen, Listed
<1>4. RecordOK'
    <2>1. Kept' => \A g \in Handlers :
              job'[g].step \in {"hold", "adjust", "confirm", "stamp"} => row'.clan # ""
        <3> SUFFICES ASSUME Kept', NEW g \in Handlers, g # h,
                            job'[g].step \in {"hold", "adjust", "confirm", "stamp"}
                     PROVE  row'.clan # ""
            BY <1>1 DEF Moved
        <3>1. CASE spent'.unread = 0
            BY <3>1, <1>1, <1>2 DEF Inv, RecordOK, Kept, Moved
        <3>2. CASE Serial'
            BY <3>2, <1>1, <1>2 DEF Inv, SerialOK, Serial, Moved
        <3> QED
            BY <3>1, <3>2 DEF Kept
    <2> QED
        BY <2>1, <1>1, <1>2 DEF Inv, RecordOK, RecordedFirst, Moved
<1>5. ProgressOK'
    <2> SUFFICES ASSUME Undisturbed' PROVE ProgressOK'
        BY DEF ProgressOK
    <2>1. Calm /\ Undisturbed
        BY <1>2 DEF Undisturbed, Serial, Moved, Calm
    <2>2. \A g \in Handlers : job'[g].ok
        BY <1>1, <2>1 DEF Inv, ProgressOK, Moved
    <2>3. \A g \in Handlers : g # h => job[g].step = "idle"
        BY <2>1 DEF Inv, SerialOK, Undisturbed, Moved
    <2>4. \A g \in Handlers : job'[g].step = "failMark" => ~row'.present
        BY <1>1, <2>1, <2>3 DEF Moved
    <2>5. row'.final = "in_progress" => \E g \in Handlers : job'[g].step \in Underway
        BY <1>1, <2>1 DEF Inv, ProgressOK, Moved
    <2> QED
        BY <2>1, <2>2, <2>4, <2>5 DEF ProgressOK, Moved
<1> QED
    BY <1>1, <1>2, <1>3, <1>4, <1>5

\* The variables that no handler's locals depend on.
RestOK ==
    /\ hold \in [clan : Clans \cup {""}, active : BOOLEAN]
    /\ seats \in [Clans -> Int]
    /\ context \in [state : {"open", "awaiting_clan", "closed"}, final : BOOLEAN]
    /\ prompt \in BOOLEAN /\ shut \in BOOLEAN /\ auto \in BOOLEAN

LEMMA Assembled ==
    ASSUME Inv, NEW h \in Handlers, NEW r, Moved(h, r), RestOK'
    PROVE  Inv'
<1>1. TypeOK'
    BY MovedKeeps DEF Moved, RestOK, TypeOK, RowType, Spendings
<1> QED
    BY <1>1, MovedKeeps DEF Inv

\* What the ways to go on cost.
LEMMA Charges ==
    Inv => /\ Fault \/ Unread => ~Calm
           /\ Unread => spent'.unread # 0
           /\ Calm \/ Fault \/ Unread =>
                  /\ spent'.unread = 0 => spent.unread = 0
                  /\ Serial' <=> Serial
                  /\ Kept' => Kept
<1> SUFFICES ASSUME Inv
             PROVE  /\ Fault \/ Unread => ~Calm
                    /\ Unread => spent'.unread # 0
                    /\ Calm \/ Fault \/ Unread =>
                           /\ spent'.unread = 0 => spent.unread = 0
                           /\ Serial' <=> Serial
    BY DEF Kept
<1>1. spent \in Spendings /\ spent.faults \in Nat /\ spent.unread \in Nat
    <2>1. spent \in Spendings
        BY DEF Inv, TypeOK, Spendings
    <2> QED
        BY <2>1, Bounds DEF Spendings
<1>2. Fault => spent'.faults = spent.faults + 1 /\ spent'.unread = spent.unread
               /\ spent'.overlaps = spent.overlaps
    BY <1>1 DEF Fault, Spendings
<1>3. Unread => spent'.faults = spent.faults + 1 /\ spent'.unread = spent.unread + 1
                /\ spent'.overlaps = spent.overlaps
    BY <1>1 DEF Unread, Spendings
<1> QED
    BY <1>1, <1>2, <1>3 DEF Calm, Serial

LEMMA InvRest == Inv => RestOK /\ row \in RowType /\ job \in [Handlers -> Handler]
BY DEF Inv, TypeOK, RestOK, RowType

\* What an upsert of the row leaves.
LEMMA Upserted ==
    ASSUME Inv, NEW clan \in Tags \cup {""}, NEW closed \in BOOLEAN, Upsert(clan, closed)
    PROVE  /\ Calm \/ Unread
           /\ row' \in RowType /\ row'.present
           /\ Calm => row'.clan = IF clan = "" THEN row.clan ELSE clan
           /\ Unread => row'.clan = clan
           /\ row'.final = row.final \/ (Unread /\ row'.final = "pending")
<1>1. row \in RowType
    BY InvRest
<1> QED
    BY <1>1, Charges DEF Upsert, RowType, Status

-------------------------------------------------------------------------------
(* One lemma per action.                                                      *)

LEMMA AutoFinalizeKeeps ==
    ASSUME Inv, NEW h \in Handlers, AutoFinalize(h)
    PROVE  Inv'
<1>0. /\ job[h] \in Handler /\ job[h].step # "idle"
      /\ job[h].step \in Finalizing => job[h].tag \in Tags
      /\ Serial /\ job[h].step \in ReadOpen => row.final # "done"
      /\ Undisturbed => job[h].ok /\ row.final \notin {"failed", "partial"}
      /\ Undisturbed /\ job[h].step = "failMark" => ~row.present
      /\ job[h].step = "mark" \/ job[h].step \in Underway => row.present
      /\ Kept /\ job[h].step \in {"hold", "adjust", "confirm", "stamp"} => row.clan # ""
      /\ row.final = "done" => row.present
      /\ row.clan \in Tags \cup {""} /\ job[h].tag \in Tags \cup {""}
    BY InvRest DEF Inv, RecordOK, SerialOK, ProgressOK, RowType, Handler, AutoFinalize
<1>1. RestOK'
    BY InvRest DEF RestOK, AutoFinalize, sheets, outside
<1>2. CASE At(h, "check")
    <2> DEFINE r == [job[h] EXCEPT !.step = "check"]
    <2>1. /\ r \in Handler /\ job' = [job EXCEPT ![h] = r]
          /\ r.step = "check" /\ r.tag = job[h].tag /\ r.ok = job[h].ok
        BY <1>0, <1>2 DEF At, Goto, Handler, Steps, Tags
    <2> HIDE DEF r
    <2>2. Moved(h, r)
        BY <2>1, <1>0, <1>2, InvRest, TagFacts, Charges
        DEF AutoFinalize, Moved, ReadOpen, Listed, Finalizing, Underway, sheets
    <2> QED
        BY <2>2, <1>1, Assembled
<1> QED
    BY <1>2 DEF AutoFinalize

LEMMA BackfillRowKeeps ==
    ASSUME Inv, NEW h \in Handlers, BackfillRow(h)
    PROVE  Inv'
<1>0. /\ job[h] \in Handler /\ job[h].step # "idle"
      /\ job[h].step \in Finalizing => job[h].tag \in Tags
      /\ Serial /\ job[h].step \in ReadOpen => row.final # "done"
      /\ Undisturbed => job[h].ok /\ row.final \notin {"failed", "partial"}
      /\ Undisturbed /\ job[h].step = "failMark" => ~row.present
      /\ job[h].step = "mark" \/ job[h].step \in Underway => row.present
      /\ Kept /\ job[h].step \in {"hold", "adjust", "confirm", "stamp"} => row.clan # ""
      /\ row.final = "done" => row.present
      /\ row.clan \in Tags \cup {""} /\ job[h].tag \in Tags \cup {""}
    BY InvRest DEF Inv, RecordOK, SerialOK, ProgressOK, RowType, Handler, BackfillRow
<1>1. RestOK'
    BY InvRest DEF RestOK, BackfillRow, sheets, outside
<1>2. CASE At(h, "check") /\ job[h].tag # ""
    <2> DEFINE r == [job[h] EXCEPT !.step = "check"]
    <2>1. /\ r \in Handler /\ job' = [job EXCEPT ![h] = r]
          /\ r.step = "check" /\ r.tag = job[h].tag /\ r.ok = job[h].ok
        BY <1>0, <1>2 DEF At, Goto, Handler, Steps, Tags
    <2> HIDE DEF r
    <2>2. Moved(h, r)
        BY <2>1, <1>0, <1>2, InvRest, TagFacts, Charges
        DEF BackfillRow, Moved, ReadOpen, Listed, Finalizing, Underway, sheets
    <2> QED
        BY <2>2, <1>1, Assembled
<1>3. CASE At(h, "closeRow")
    <2> DEFINE r == [job[h] EXCEPT !.step = "closeRow"]
    <2>1. /\ r \in Handler /\ job' = [job EXCEPT ![h] = r]
          /\ r.step = "closeRow" /\ r.tag = job[h].tag /\ r.ok = job[h].ok
        BY <1>0, <1>3 DEF At, Goto, Handler, Steps, Tags
    <2> HIDE DEF r
    <2>2. Moved(h, r)
        BY <2>1, <1>0, <1>3, InvRest, TagFacts, Charges
        DEF BackfillRow, Moved, ReadOpen, Listed, Finalizing, Underway, sheets
    <2> QED
        BY <2>2, <1>1, Assembled
<1> QED
    BY <1>2, <1>3 DEF BackfillRow

LEMMA BackfillUnresolvedKeeps ==
    ASSUME Inv, NEW h \in Handlers, BackfillUnresolved(h)
    PROVE  Inv'
<1>0. /\ job[h] \in Handler /\ job[h].step # "idle"
      /\ job[h].step \in Finalizing => job[h].tag \in Tags
      /\ Serial /\ job[h].step \in ReadOpen => row.final # "done"
      /\ Undisturbed => job[h].ok /\ row.final \notin {"failed", "partial"}
      /\ Undisturbed /\ job[h].step = "failMark" => ~row.present
      /\ job[h].step = "mark" \/ job[h].step \in Underway => row.present
      /\ Kept /\ job[h].step \in {"hold", "adjust", "confirm", "stamp"} => row.clan # ""
      /\ row.final = "done" => row.present
      /\ row.clan \in Tags \cup {""} /\ job[h].tag \in Tags \cup {""}
    BY InvRest DEF Inv, RecordOK, SerialOK, ProgressOK, RowType, Handler, BackfillUnresolved
<1>1. RestOK'
    BY InvRest DEF RestOK, BackfillUnresolved, sheets, outside
<1>2. CASE Stop(h)
    <2> DEFINE r == Idle
    <2>1. r \in Handler /\ job' = [job EXCEPT ![h] = r] /\ r.step = "idle" /\ r.ok
        BY <1>2, IdleType DEF Stop, Goto
    <2> HIDE DEF r
    <2>2. Moved(h, r)
        BY <2>1, <1>0, <1>2, InvRest, TagFacts, Charges
        DEF BackfillUnresolved, Moved, ReadOpen, Listed, Finalizing, Underway, sheets, RowType, Status, Tags
    <2> QED
        BY <2>2, <1>1, Assembled
<1> QED
    BY <1>2 DEF BackfillUnresolved

LEMMA ManualRowKeeps ==
    ASSUME Inv, NEW h \in Handlers, ManualRow(h)
    PROVE  Inv'
<1>0. /\ job[h] \in Handler /\ job[h].step # "idle"
      /\ job[h].step \in Finalizing => job[h].tag \in Tags
      /\ Serial /\ job[h].step \in ReadOpen => row.final # "done"
      /\ Undisturbed => job[h].ok /\ row.final \notin {"failed", "partial"}
      /\ Undisturbed /\ job[h].step = "failMark" => ~row.present
      /\ job[h].step = "mark" \/ job[h].step \in Underway => row.present
      /\ Kept /\ job[h].step \in {"hold", "adjust", "confirm", "stamp"} => row.clan # ""
      /\ row.final = "done" => row.present
      /\ row.clan \in Tags \cup {""} /\ job[h].tag \in Tags \cup {""}
    BY InvRest DEF Inv, RecordOK, SerialOK, ProgressOK, RowType, Handler, ManualRow
<1>1. RestOK'
    BY InvRest DEF RestOK, ManualRow, sheets, outside
<1>2. CASE Stop(h)
    <2> DEFINE r == Idle
    <2>1. r \in Handler /\ job' = [job EXCEPT ![h] = r] /\ r.step = "idle" /\ r.ok
        BY <1>2, IdleType DEF Stop, Goto
    <2> HIDE DEF r
    <2>2. Moved(h, r)
        BY <2>1, <1>0, <1>2, InvRest, TagFacts, Charges
        DEF ManualRow, TakenAsOpen, Moved, ReadOpen, Listed, Finalizing, Underway, sheets
    <2> QED
        BY <2>2, <1>1, Assembled
<1>3. CASE At(h, "closeRow")
    <2> DEFINE r == [job[h] EXCEPT !.step = "closeRow"]
    <2>1. /\ r \in Handler /\ job' = [job EXCEPT ![h] = r]
          /\ r.step = "closeRow" /\ r.tag = job[h].tag /\ r.ok = job[h].ok
        BY <1>0, <1>3 DEF At, Goto, Handler, Steps, Tags
    <2> HIDE DEF r
    <2>2. Moved(h, r)
        BY <2>1, <1>0, <1>3, InvRest, TagFacts, Charges
        DEF ManualRow, TakenAsOpen, Moved, ReadOpen, Listed, Finalizing, Underway, sheets
    <2> QED
        BY <2>2, <1>1, Assembled
<1>4. CASE row.clan # "" /\ Goto(h, [job[h] EXCEPT !.step = "check", !.tag = row.clan])
    <2> DEFINE r == [job[h] EXCEPT !.step = "check", !.tag = row.clan]
    <2>1. /\ r \in Handler /\ job' = [job EXCEPT ![h] = r]
          /\ r.step = "check" /\ r.tag = row.clan /\ r.ok = job[h].ok
        BY <1>0, <1>4 DEF Goto, Handler, Steps, Tags
    <2> HIDE DEF r
    <2>2. Moved(h, r)
        BY <2>1, <1>0, <1>4, InvRest, TagFacts, Charges
        DEF ManualRow, TakenAsOpen, Moved, ReadOpen, Listed, Finalizing, Underway, sheets
    <2> QED
        BY <2>2, <1>1, Assembled
<1>5. CASE At(h, "manualAdd")
    <2> DEFINE r == [job[h] EXCEPT !.step = "manualAdd"]
    <2>1. /\ r \in Handler /\ job' = [job EXCEPT ![h] = r]
          /\ r.step = "manualAdd" /\ r.tag = job[h].tag /\ r.ok = job[h].ok
        BY <1>0, <1>5 DEF At, Goto, Handler, Steps, Tags
    <2> HIDE DEF r
    <2>2. Moved(h, r)
        BY <2>1, <1>0, <1>5, InvRest, TagFacts, Charges
        DEF ManualRow, TakenAsOpen, Moved, ReadOpen, Listed, Finalizing, Underway, sheets
    <2> QED
        BY <2>2, <1>1, Assembled
<1> QED
    BY <1>2, <1>3, <1>4, <1>5 DEF ManualRow

LEMMA ManualRowFailKeeps ==
    ASSUME Inv, NEW h \in Handlers, ManualRowFail(h)
    PROVE  Inv'
<1>0. /\ job[h] \in Handler /\ job[h].step # "idle"
      /\ job[h].step \in Finalizing => job[h].tag \in Tags
      /\ Serial /\ job[h].step \in ReadOpen => row.final # "done"
      /\ Undisturbed => job[h].ok /\ row.final \notin {"failed", "partial"}
      /\ Undisturbed /\ job[h].step = "failMark" => ~row.present
      /\ job[h].step = "mark" \/ job[h].step \in Underway => row.present
      /\ Kept /\ job[h].step \in {"hold", "adjust", "confirm", "stamp"} => row.clan # ""
      /\ row.final = "done" => row.present
      /\ row.clan \in Tags \cup {""} /\ job[h].tag \in Tags \cup {""}
    BY InvRest DEF Inv, RecordOK, SerialOK, ProgressOK, RowType, Handler, ManualRowFail
<1>1. RestOK'
    BY InvRest DEF RestOK, ManualRowFail, sheets, outside
<1>2. CASE At(h, "manualAdd")
    <2> DEFINE r == [job[h] EXCEPT !.step = "manualAdd"]
    <2>1. /\ r \in Handler /\ job' = [job EXCEPT ![h] = r]
          /\ r.step = "manualAdd" /\ r.tag = job[h].tag /\ r.ok = job[h].ok
        BY <1>0, <1>2 DEF At, Goto, Handler, Steps, Tags
    <2> HIDE DEF r
    <2>2. Moved(h, r)
        BY <2>1, <1>0, <1>2, InvRest, TagFacts, Charges
        DEF ManualRowFail, Moved, ReadOpen, Listed, Finalizing, Underway, sheets
    <2> QED
        BY <2>2, <1>1, Assembled
<1> QED
    BY <1>2 DEF ManualRowFail

LEMMA ManualAddKeeps ==
    ASSUME Inv, NEW h \in Handlers, ManualAdd(h)
    PROVE  Inv'
<1>0. /\ job[h] \in Handler /\ job[h].step # "idle"
      /\ job[h].step \in Finalizing => job[h].tag \in Tags
      /\ Serial /\ job[h].step \in ReadOpen => row.final # "done"
      /\ Undisturbed => job[h].ok /\ row.final \notin {"failed", "partial"}
      /\ Undisturbed /\ job[h].step = "failMark" => ~row.present
      /\ job[h].step = "mark" \/ job[h].step \in Underway => row.present
      /\ Kept /\ job[h].step \in {"hold", "adjust", "confirm", "stamp"} => row.clan # ""
      /\ row.final = "done" => row.present
      /\ row.clan \in Tags \cup {""} /\ job[h].tag \in Tags \cup {""}
    BY InvRest DEF Inv, RecordOK, SerialOK, ProgressOK, RowType, Handler, ManualAdd
<1>1. RestOK'
    BY InvRest DEF RestOK, ManualAdd, sheets, outside
<1>2. CASE At(h, "closeRow")
    <2> DEFINE r == [job[h] EXCEPT !.step = "closeRow"]
    <2>1. /\ r \in Handler /\ job' = [job EXCEPT ![h] = r]
          /\ r.step = "closeRow" /\ r.tag = job[h].tag /\ r.ok = job[h].ok
        BY <1>0, <1>2 DEF At, Goto, Handler, Steps, Tags
    <2> HIDE DEF r
    <2>3. /\ Calm \/ Fault \/ Unread
          /\ row' \in RowType /\ (row.present => row'.present)
          /\ row'.clan = "" => Unread \/ row.clan = ""
          /\ \/ row'.final = row.final
             \/ Unread /\ row'.final = "pending"
        <3>1. CASE Upsert("", FALSE)
            BY <3>1, Upserted
        <3>2. CASE Fault /\ UNCHANGED row
            BY <3>2, InvRest
        <3> QED
            BY <3>1, <3>2 DEF ManualAdd
    <2>2. Moved(h, r)
        BY <2>1, <2>3, <1>0, <1>2, InvRest, TagFacts, Charges
        DEF ManualAdd, Moved, ReadOpen, Listed, Finalizing, Underway, sheets, RowType, Status, Tags
    <2> QED
        BY <2>2, <1>1, Assembled
<1> QED
    BY <1>2 DEF ManualAdd

LEMMA CloseRowKeeps ==
    ASSUME Inv, NEW h \in Handlers, CloseRow(h)
    PROVE  Inv'
<1>0. /\ job[h] \in Handler /\ job[h].step # "idle"
      /\ job[h].step \in Finalizing => job[h].tag \in Tags
      /\ Serial /\ job[h].step \in ReadOpen => row.final # "done"
      /\ Undisturbed => job[h].ok /\ row.final \notin {"failed", "partial"}
      /\ Undisturbed /\ job[h].step = "failMark" => ~row.present
      /\ job[h].step = "mark" \/ job[h].step \in Underway => row.present
      /\ Kept /\ job[h].step \in {"hold", "adjust", "confirm", "stamp"} => row.clan # ""
      /\ row.final = "done" => row.present
      /\ row.clan \in Tags \cup {""} /\ job[h].tag \in Tags \cup {""}
    BY InvRest DEF Inv, RecordOK, SerialOK, ProgressOK, RowType, Handler, CloseRow
<1>1. RestOK'
    BY InvRest DEF RestOK, CloseRow, sheets, outside
<1>2. CASE Stop(h)
    <2> DEFINE r == Idle
    <2>1. r \in Handler /\ job' = [job EXCEPT ![h] = r] /\ r.step = "idle" /\ r.ok
        BY <1>2, IdleType DEF Stop, Goto
    <2> HIDE DEF r
    <2>2. Moved(h, r)
        BY <2>1, <1>0, <1>2, InvRest, TagFacts, Charges
        DEF CloseRow, TakenAsOpen, Moved, ReadOpen, Listed, Finalizing, Underway, sheets
    <2> QED
        BY <2>2, <1>1, Assembled
<1>3. CASE At(h, "closeMark") /\ ((row.present /\ TakenAsOpen) \/ (~row.present /\ Calm))
    <2> DEFINE r == [job[h] EXCEPT !.step = "closeMark"]
    <2>1. /\ r \in Handler /\ job' = [job EXCEPT ![h] = r]
          /\ r.step = "closeMark" /\ r.tag = job[h].tag /\ r.ok = job[h].ok
        BY <1>0, <1>3 DEF At, Goto, Handler, Steps, Tags
    <2> HIDE DEF r
    <2>2. Moved(h, r)
        BY <2>1, <1>0, <1>3, InvRest, TagFacts, Charges
        DEF CloseRow, TakenAsOpen, Moved, ReadOpen, Listed, Finalizing, Underway, sheets
    <2> QED
        BY <2>2, <1>1, Assembled
<1> QED
    BY <1>2, <1>3 DEF CloseRow

LEMMA CloseUnmarkedKeeps ==
    ASSUME Inv, NEW h \in Handlers, CloseUnmarked(h)
    PROVE  Inv'
<1>0. /\ job[h] \in Handler /\ job[h].step # "idle"
      /\ job[h].step \in Finalizing => job[h].tag \in Tags
      /\ Serial /\ job[h].step \in ReadOpen => row.final # "done"
      /\ Undisturbed => job[h].ok /\ row.final \notin {"failed", "partial"}
      /\ Undisturbed /\ job[h].step = "failMark" => ~row.present
      /\ job[h].step = "mark" \/ job[h].step \in Underway => row.present
      /\ Kept /\ job[h].step \in {"hold", "adjust", "confirm", "stamp"} => row.clan # ""
      /\ row.final = "done" => row.present
      /\ row.clan \in Tags \cup {""} /\ job[h].tag \in Tags \cup {""}
    BY InvRest DEF Inv, RecordOK, SerialOK, ProgressOK, RowType, Handler, CloseUnmarked
<1>1. RestOK'
    BY InvRest DEF RestOK, CloseUnmarked, Ask, Closed, sheets, outside
<1>2. CASE Ask(h)
    <2> DEFINE r == [job[h] EXCEPT !.step = "closePrompt"]
    <2>1. /\ r \in Handler /\ job' = [job EXCEPT ![h] = r]
          /\ r.step = "closePrompt" /\ r.tag = job[h].tag /\ r.ok = job[h].ok
        BY <1>0, <1>2 DEF Ask, At, Goto, Handler, Steps, Tags
    <2> HIDE DEF r
    <2>2. Moved(h, r)
        BY <2>1, <1>0, <1>2, InvRest, TagFacts, Charges
        DEF CloseUnmarked, Moved, ReadOpen, Listed, Finalizing, Underway, sheets
    <2> QED
        BY <2>2, <1>1, Assembled
<1> QED
    BY <1>2 DEF CloseUnmarked

LEMMA CloseMarkKeeps ==
    ASSUME Inv, NEW h \in Handlers, CloseMark(h)
    PROVE  Inv'
<1>0. /\ job[h] \in Handler /\ job[h].step # "idle"
      /\ job[h].step \in Finalizing => job[h].tag \in Tags
      /\ Serial /\ job[h].step \in ReadOpen => row.final # "done"
      /\ Undisturbed => job[h].ok /\ row.final \notin {"failed", "partial"}
      /\ Undisturbed /\ job[h].step = "failMark" => ~row.present
      /\ job[h].step = "mark" \/ job[h].step \in Underway => row.present
      /\ Kept /\ job[h].step \in {"hold", "adjust", "confirm", "stamp"} => row.clan # ""
      /\ row.final = "done" => row.present
      /\ row.clan \in Tags \cup {""} /\ job[h].tag \in Tags \cup {""}
    BY InvRest DEF Inv, RecordOK, SerialOK, ProgressOK, RowType, Handler, CloseMark
<1>1. RestOK'
    BY InvRest DEF RestOK, CloseMark, Ask, Closed, sheets, outside
<1>2. CASE Ask(h)
    <2> DEFINE r == [job[h] EXCEPT !.step = "closePrompt"]
    <2>1. /\ r \in Handler /\ job' = [job EXCEPT ![h] = r]
          /\ r.step = "closePrompt" /\ r.tag = job[h].tag /\ r.ok = job[h].ok
        BY <1>0, <1>2 DEF Ask, At, Goto, Handler, Steps, Tags
    <2> HIDE DEF r
    <2>2. Moved(h, r)
        BY <2>1, <1>0, <1>2, InvRest, TagFacts, Charges
        DEF CloseMark, Moved, ReadOpen, Listed, Finalizing, Underway, sheets, RowType, Status, Tags
    <2> QED
        BY <2>2, <1>1, Assembled
<1> QED
    BY <1>2 DEF CloseMark

LEMMA ClosePromptKeeps ==
    ASSUME Inv, NEW h \in Handlers, ClosePrompt(h)
    PROVE  Inv'
<1>0. /\ job[h] \in Handler /\ job[h].step # "idle"
      /\ job[h].step \in Finalizing => job[h].tag \in Tags
      /\ Serial /\ job[h].step \in ReadOpen => row.final # "done"
      /\ Undisturbed => job[h].ok /\ row.final \notin {"failed", "partial"}
      /\ Undisturbed /\ job[h].step = "failMark" => ~row.present
      /\ job[h].step = "mark" \/ job[h].step \in Underway => row.present
      /\ Kept /\ job[h].step \in {"hold", "adjust", "confirm", "stamp"} => row.clan # ""
      /\ row.final = "done" => row.present
      /\ row.clan \in Tags \cup {""} /\ job[h].tag \in Tags \cup {""}
    BY InvRest DEF Inv, RecordOK, SerialOK, ProgressOK, RowType, Handler, ClosePrompt
<1>1. RestOK'
    BY InvRest DEF RestOK, ClosePrompt, sheets, outside
<1>2. CASE Stop(h)
    <2> DEFINE r == Idle
    <2>1. r \in Handler /\ job' = [job EXCEPT ![h] = r] /\ r.step = "idle" /\ r.ok
        BY <1>2, IdleType DEF Stop, Goto
    <2> HIDE DEF r
    <2>2. Moved(h, r)
        BY <2>1, <1>0, <1>2, InvRest, TagFacts, Charges
        DEF ClosePrompt, Moved, ReadOpen, Listed, Finalizing, Underway, sheets
    <2> QED
        BY <2>2, <1>1, Assembled
<1> QED
    BY <1>2 DEF ClosePrompt

LEMMA CheckKeeps ==
    ASSUME Inv, NEW h \in Handlers, Check(h)
    PROVE  Inv'
<1>0. /\ job[h] \in Handler /\ job[h].step # "idle"
      /\ job[h].step \in Finalizing => job[h].tag \in Tags
      /\ Serial /\ job[h].step \in ReadOpen => row.final # "done"
      /\ Undisturbed => job[h].ok /\ row.final \notin {"failed", "partial"}
      /\ Undisturbed /\ job[h].step = "failMark" => ~row.present
      /\ job[h].step = "mark" \/ job[h].step \in Underway => row.present
      /\ Kept /\ job[h].step \in {"hold", "adjust", "confirm", "stamp"} => row.clan # ""
      /\ row.final = "done" => row.present
      /\ row.clan \in Tags \cup {""} /\ job[h].tag \in Tags \cup {""}
    BY InvRest DEF Inv, RecordOK, SerialOK, ProgressOK, RowType, Handler, Check
<1>1. RestOK'
    BY InvRest DEF RestOK, Check, sheets, outside
<1>2. CASE At(h, "mark") /\ row.present /\ row.final # "done"
    <2> DEFINE r == [job[h] EXCEPT !.step = "mark"]
    <2>1. /\ r \in Handler /\ job' = [job EXCEPT ![h] = r]
          /\ r.step = "mark" /\ r.tag = job[h].tag /\ r.ok = job[h].ok
        BY <1>0, <1>2 DEF At, Goto, Handler, Steps, Tags
    <2> HIDE DEF r
    <2>2. Moved(h, r)
        BY <2>1, <1>0, <1>2, InvRest, TagFacts, Charges
        DEF Check, Moved, ReadOpen, Listed, Finalizing, Underway, sheets
    <2> QED
        BY <2>2, <1>1, Assembled
<1>3. CASE Stop(h)
    <2> DEFINE r == Idle
    <2>1. r \in Handler /\ job' = [job EXCEPT ![h] = r] /\ r.step = "idle" /\ r.ok
        BY <1>3, IdleType DEF Stop, Goto
    <2> HIDE DEF r
    <2>2. Moved(h, r)
        BY <2>1, <1>0, <1>3, InvRest, TagFacts, Charges
        DEF Check, Moved, ReadOpen, Listed, Finalizing, Underway, sheets
    <2> QED
        BY <2>2, <1>1, Assembled
<1>4. CASE At(h, "failMark") /\ ~row.present
    <2> DEFINE r == [job[h] EXCEPT !.step = "failMark"]
    <2>1. /\ r \in Handler /\ job' = [job EXCEPT ![h] = r]
          /\ r.step = "failMark" /\ r.tag = job[h].tag /\ r.ok = job[h].ok
        BY <1>0, <1>4 DEF At, Goto, Handler, Steps, Tags
    <2> HIDE DEF r
    <2>2. Moved(h, r)
        BY <2>1, <1>0, <1>4, InvRest, TagFacts, Charges
        DEF Check, Moved, ReadOpen, Listed, Finalizing, Underway, sheets
    <2> QED
        BY <2>2, <1>1, Assembled
<1>9. CASE At(h, "release")
    <2> DEFINE r == [job[h] EXCEPT !.step = "release"]
    <2>1. /\ r \in Handler /\ job' = [job EXCEPT ![h] = r]
          /\ r.step = "release" /\ r.tag = job[h].tag /\ r.ok = job[h].ok
        BY <1>0, <1>9 DEF At, Goto, Handler, Steps, Tags
    <2> HIDE DEF r
    <2>2. Moved(h, r)
        BY <2>1, <1>0, <1>9, InvRest, TagFacts, Charges
        DEF Check, Moved, ReadOpen, Listed, Finalizing, Underway, sheets
    <2> QED
        BY <2>2, <1>1, Assembled
<1> QED
    BY <1>2, <1>3, <1>4, <1>9 DEF Check, Return

LEMMA MarkKeeps ==
    ASSUME Inv, NEW h \in Handlers, Mark(h)
    PROVE  Inv'
<1>0. /\ job[h] \in Handler /\ job[h].step # "idle"
      /\ job[h].step \in Finalizing => job[h].tag \in Tags
      /\ Serial /\ job[h].step \in ReadOpen => row.final # "done"
      /\ Undisturbed => job[h].ok /\ row.final \notin {"failed", "partial"}
      /\ Undisturbed /\ job[h].step = "failMark" => ~row.present
      /\ job[h].step = "mark" \/ job[h].step \in Underway => row.present
      /\ Kept /\ job[h].step \in {"hold", "adjust", "confirm", "stamp"} => row.clan # ""
      /\ row.final = "done" => row.present
      /\ row.clan \in Tags \cup {""} /\ job[h].tag \in Tags \cup {""}
    BY InvRest DEF Inv, RecordOK, SerialOK, ProgressOK, RowType, Handler, Mark
<1>1. RestOK'
    BY InvRest DEF RestOK, Mark, sheets, outside
<1>2. CASE At(h, "reread")
    <2> DEFINE r == [job[h] EXCEPT !.step = "reread"]
    <2>1. /\ r \in Handler /\ job' = [job EXCEPT ![h] = r]
          /\ r.step = "reread" /\ r.tag = job[h].tag /\ r.ok = job[h].ok
        BY <1>0, <1>2 DEF At, Goto, Handler, Steps, Tags
    <2> HIDE DEF r
    <2>2. Moved(h, r)
        BY <2>1, <1>0, <1>2, InvRest, TagFacts, Charges
        DEF Mark, Moved, ReadOpen, Listed, Finalizing, Underway, sheets, RowType, Status, Tags
    <2> QED
        BY <2>2, <1>1, Assembled
<1> QED
    BY <1>2 DEF Mark

LEMMA RefuseKeeps ==
    ASSUME Inv, NEW h \in Handlers, Refuse(h)
    PROVE  Inv'
<1>0. /\ job[h] \in Handler /\ job[h].step # "idle"
      /\ job[h].step \in Finalizing => job[h].tag \in Tags
      /\ Serial /\ job[h].step \in ReadOpen => row.final # "done"
      /\ Undisturbed => job[h].ok /\ row.final \notin {"failed", "partial"}
      /\ Undisturbed /\ job[h].step = "failMark" => ~row.present
      /\ job[h].step = "mark" \/ job[h].step \in Underway => row.present
      /\ Kept /\ job[h].step \in {"hold", "adjust", "confirm", "stamp"} => row.clan # ""
      /\ row.final = "done" => row.present
      /\ row.clan \in Tags \cup {""} /\ job[h].tag \in Tags \cup {""}
    BY InvRest DEF Inv, RecordOK, SerialOK, ProgressOK, RowType, Handler, Refuse
<1>1. RestOK'
    BY InvRest DEF RestOK, Refuse, sheets, outside
<1>2. CASE At(h, "failMark")
    <2> DEFINE r == [job[h] EXCEPT !.step = "failMark"]
    <2>1. /\ r \in Handler /\ job' = [job EXCEPT ![h] = r]
          /\ r.step = "failMark" /\ r.tag = job[h].tag /\ r.ok = job[h].ok
        BY <1>0, <1>2 DEF At, Goto, Handler, Steps, Tags
    <2> HIDE DEF r
    <2>2. Moved(h, r)
        BY <2>1, <1>0, <1>2, InvRest, TagFacts, Charges
        DEF Refuse, Moved, ReadOpen, Listed, Finalizing, Underway, sheets
    <2> QED
        BY <2>2, <1>1, Assembled
<1> QED
    BY <1>2 DEF Refuse

LEMMA FailMarkKeeps ==
    ASSUME Inv, NEW h \in Handlers, FailMark(h)
    PROVE  Inv'
<1>0. /\ job[h] \in Handler /\ job[h].step # "idle"
      /\ job[h].step \in Finalizing => job[h].tag \in Tags
      /\ Serial /\ job[h].step \in ReadOpen => row.final # "done"
      /\ Undisturbed => job[h].ok /\ row.final \notin {"failed", "partial"}
      /\ Undisturbed /\ job[h].step = "failMark" => ~row.present
      /\ job[h].step = "mark" \/ job[h].step \in Underway => row.present
      /\ Kept /\ job[h].step \in {"hold", "adjust", "confirm", "stamp"} => row.clan # ""
      /\ row.final = "done" => row.present
      /\ row.clan \in Tags \cup {""} /\ job[h].tag \in Tags \cup {""}
    BY InvRest DEF Inv, RecordOK, SerialOK, ProgressOK, RowType, Handler, FailMark
<1>1. RestOK'
    BY InvRest DEF RestOK, FailMark, sheets, outside
<1>2. CASE Stop(h)
    <2> DEFINE r == Idle
    <2>1. r \in Handler /\ job' = [job EXCEPT ![h] = r] /\ r.step = "idle" /\ r.ok
        BY <1>2, IdleType DEF Stop, Goto
    <2> HIDE DEF r
    <2>2. Moved(h, r)
        BY <2>1, <1>0, <1>2, InvRest, TagFacts, Charges
        DEF FailMark, Moved, ReadOpen, Listed, Finalizing, Underway, sheets, RowType, Status, Tags
    <2> QED
        BY <2>2, <1>1, Assembled
<1>9. CASE At(h, "release")
    <2> DEFINE r == [job[h] EXCEPT !.step = "release"]
    <2>1. /\ r \in Handler /\ job' = [job EXCEPT ![h] = r]
          /\ r.step = "release" /\ r.tag = job[h].tag /\ r.ok = job[h].ok
        BY <1>0, <1>9 DEF At, Goto, Handler, Steps, Tags
    <2> HIDE DEF r
    <2>2. Moved(h, r)
        BY <2>1, <1>0, <1>9, InvRest, TagFacts, Charges
        DEF FailMark, Moved, ReadOpen, Listed, Finalizing, Underway, sheets, RowType, Status, Tags
    <2> QED
        BY <2>2, <1>1, Assembled
<1> QED
    BY <1>2, <1>9 DEF FailMark, Return

LEMMA RereadKeeps ==
    ASSUME Inv, NEW h \in Handlers, Reread(h)
    PROVE  Inv'
<1>0. /\ job[h] \in Handler /\ job[h].step # "idle"
      /\ job[h].step \in Finalizing => job[h].tag \in Tags
      /\ Serial /\ job[h].step \in ReadOpen => row.final # "done"
      /\ Undisturbed => job[h].ok /\ row.final \notin {"failed", "partial"}
      /\ Undisturbed /\ job[h].step = "failMark" => ~row.present
      /\ job[h].step = "mark" \/ job[h].step \in Underway => row.present
      /\ Kept /\ job[h].step \in {"hold", "adjust", "confirm", "stamp"} => row.clan # ""
      /\ row.final = "done" => row.present
      /\ row.clan \in Tags \cup {""} /\ job[h].tag \in Tags \cup {""}
    BY InvRest DEF Inv, RecordOK, SerialOK, ProgressOK, RowType, Handler, Reread
<1>1. RestOK'
    BY InvRest DEF RestOK, Reread, sheets, outside
<1>2. CASE Goto(h, [job[h] EXCEPT !.step = "look", !.prev = row.clan])
    <2> DEFINE r == [job[h] EXCEPT !.step = "look", !.prev = row.clan]
    <2>1. /\ r \in Handler /\ job' = [job EXCEPT ![h] = r]
          /\ r.step = "look" /\ r.tag = job[h].tag /\ r.ok = job[h].ok
        BY <1>0, <1>2 DEF Goto, Handler, Steps, Tags
    <2> HIDE DEF r
    <2>2. Moved(h, r)
        BY <2>1, <1>0, <1>2, InvRest, TagFacts, Charges
        DEF Reread, Moved, ReadOpen, Listed, Finalizing, Underway, sheets
    <2> QED
        BY <2>2, <1>1, Assembled
<1>3. CASE At(h, "look")
    <2> DEFINE r == [job[h] EXCEPT !.step = "look"]
    <2>1. /\ r \in Handler /\ job' = [job EXCEPT ![h] = r]
          /\ r.step = "look" /\ r.tag = job[h].tag /\ r.ok = job[h].ok
        BY <1>0, <1>3 DEF At, Goto, Handler, Steps, Tags
    <2> HIDE DEF r
    <2>2. Moved(h, r)
        BY <2>1, <1>0, <1>3, InvRest, TagFacts, Charges
        DEF Reread, Moved, ReadOpen, Listed, Finalizing, Underway, sheets
    <2> QED
        BY <2>2, <1>1, Assembled
<1> QED
    BY <1>2, <1>3 DEF Reread

LEMMA LookKeeps ==
    ASSUME Inv, NEW h \in Handlers, Look(h)
    PROVE  Inv'
<1>0. /\ job[h] \in Handler /\ job[h].step # "idle"
      /\ job[h].step \in Finalizing => job[h].tag \in Tags
      /\ Serial /\ job[h].step \in ReadOpen => row.final # "done"
      /\ Undisturbed => job[h].ok /\ row.final \notin {"failed", "partial"}
      /\ Undisturbed /\ job[h].step = "failMark" => ~row.present
      /\ job[h].step = "mark" \/ job[h].step \in Underway => row.present
      /\ Kept /\ job[h].step \in {"hold", "adjust", "confirm", "stamp"} => row.clan # ""
      /\ row.final = "done" => row.present
      /\ row.clan \in Tags \cup {""} /\ job[h].tag \in Tags \cup {""}
    BY InvRest DEF Inv, RecordOK, SerialOK, ProgressOK, RowType, Handler, Look
<1>1. RestOK'
    BY InvRest DEF RestOK, Look, sheets, outside
<1>2. CASE hold.active /\ Decide(h, hold.clan)
    <2> DEFINE r == [job[h] EXCEPT !.step = "write", !.seen = hold.clan # "",
                              !.deltas = Decision(job[h].tag, job[h].prev, hold.clan)]
    <2>0. Decision(job[h].tag, job[h].prev, hold.clan) \in Seq(Moves)
        <3>1. job[h].tag \in Tags /\ job[h].prev \in Tags \cup {""}
            BY <1>0 DEF Look, Finalizing, Underway, Handler
        <3>2. hold.clan \in Clans \cup {""}
            BY InvRest DEF RestOK
        <3> QED
            BY <3>1, <3>2, DecisionType
    <2>1. /\ r \in Handler /\ job' = [job EXCEPT ![h] = r]
          /\ r.step = "write" /\ r.tag = job[h].tag /\ r.ok = job[h].ok
        BY <1>0, <1>2, <2>0 DEF Decide, Goto, Handler, Steps
    <2> HIDE DEF r
    <2>2. Moved(h, r)
        BY <2>1, <1>0, <1>2, InvRest, TagFacts, Charges
        DEF Look, Moved, ReadOpen, Listed, Finalizing, Underway, sheets
    <2> QED
        BY <2>2, <1>1, Assembled
<1>3. CASE Decide(h, "")
    <2> DEFINE r == [job[h] EXCEPT !.step = "write", !.seen = "" # "",
                              !.deltas = Decision(job[h].tag, job[h].prev, "")]
    <2>0. Decision(job[h].tag, job[h].prev, "") \in Seq(Moves)
        <3>1. job[h].tag \in Tags /\ job[h].prev \in Tags \cup {""}
            BY <1>0 DEF Look, Finalizing, Underway, Handler
        <3>2. "" \in Clans \cup {""}
            BY InvRest DEF RestOK
        <3> QED
            BY <3>1, <3>2, DecisionType
    <2>1. /\ r \in Handler /\ job' = [job EXCEPT ![h] = r]
          /\ r.step = "write" /\ r.tag = job[h].tag /\ r.ok = job[h].ok
        BY <1>0, <1>3, <2>0 DEF Decide, Goto, Handler, Steps
    <2> HIDE DEF r
    <2>2. Moved(h, r)
        BY <2>1, <1>0, <1>3, InvRest, TagFacts, Charges
        DEF Look, Moved, ReadOpen, Listed, Finalizing, Underway, sheets
    <2> QED
        BY <2>2, <1>1, Assembled
<1> QED
    BY <1>2, <1>3 DEF Look

LEMMA LookFailKeeps ==
    ASSUME Inv, NEW h \in Handlers, LookFail(h)
    PROVE  Inv'
<1>0. /\ job[h] \in Handler /\ job[h].step # "idle"
      /\ job[h].step \in Finalizing => job[h].tag \in Tags
      /\ Serial /\ job[h].step \in ReadOpen => row.final # "done"
      /\ Undisturbed => job[h].ok /\ row.final \notin {"failed", "partial"}
      /\ Undisturbed /\ job[h].step = "failMark" => ~row.present
      /\ job[h].step = "mark" \/ job[h].step \in Underway => row.present
      /\ Kept /\ job[h].step \in {"hold", "adjust", "confirm", "stamp"} => row.clan # ""
      /\ row.final = "done" => row.present
      /\ row.clan \in Tags \cup {""} /\ job[h].tag \in Tags \cup {""}
    BY InvRest DEF Inv, RecordOK, SerialOK, ProgressOK, RowType, Handler, LookFail
<1>1. RestOK'
    BY InvRest DEF RestOK, LookFail, sheets, outside
<1>2. CASE Decide(h, "")
    <2> DEFINE r == [job[h] EXCEPT !.step = "write", !.seen = "" # "",
                              !.deltas = Decision(job[h].tag, job[h].prev, "")]
    <2>0. Decision(job[h].tag, job[h].prev, "") \in Seq(Moves)
        <3>1. job[h].tag \in Tags /\ job[h].prev \in Tags \cup {""}
            BY <1>0 DEF LookFail, Finalizing, Underway, Handler
        <3>2. "" \in Clans \cup {""}
            BY InvRest DEF RestOK
        <3> QED
            BY <3>1, <3>2, DecisionType
    <2>1. /\ r \in Handler /\ job' = [job EXCEPT ![h] = r]
          /\ r.step = "write" /\ r.tag = job[h].tag /\ r.ok = job[h].ok
        BY <1>0, <1>2, <2>0 DEF Decide, Goto, Handler, Steps
    <2> HIDE DEF r
    <2>2. Moved(h, r)
        BY <2>1, <1>0, <1>2, InvRest, TagFacts, Charges
        DEF LookFail, Moved, ReadOpen, Listed, Finalizing, Underway, sheets
    <2> QED
        BY <2>2, <1>1, Assembled
<1>3. CASE Goto(h, [job[h] EXCEPT !.step = "write", !.ok = FALSE])
    <2> DEFINE r == [job[h] EXCEPT !.step = "write", !.ok = FALSE]
    <2>1. /\ r \in Handler /\ job' = [job EXCEPT ![h] = r]
          /\ r.step = "write" /\ r.tag = job[h].tag /\ r.ok = FALSE
        BY <1>0, <1>3 DEF Goto, Handler, Steps, Tags
    <2> HIDE DEF r
    <2>2. Moved(h, r)
        BY <2>1, <1>0, <1>3, InvRest, TagFacts, Charges
        DEF LookFail, Moved, ReadOpen, Listed, Finalizing, Underway, sheets
    <2> QED
        BY <2>2, <1>1, Assembled
<1>4. CASE At(h, "failMark")
    <2> DEFINE r == [job[h] EXCEPT !.step = "failMark"]
    <2>1. /\ r \in Handler /\ job' = [job EXCEPT ![h] = r]
          /\ r.step = "failMark" /\ r.tag = job[h].tag /\ r.ok = job[h].ok
        BY <1>0, <1>4 DEF At, Goto, Handler, Steps, Tags
    <2> HIDE DEF r
    <2>2. Moved(h, r)
        BY <2>1, <1>0, <1>4, InvRest, TagFacts, Charges
        DEF LookFail, Moved, ReadOpen, Listed, Finalizing, Underway, sheets
    <2> QED
        BY <2>2, <1>1, Assembled
<1>5. CASE Stop(h)
    <2> DEFINE r == Idle
    <2>1. r \in Handler /\ job' = [job EXCEPT ![h] = r] /\ r.step = "idle" /\ r.ok
        BY <1>5, IdleType DEF Stop, Goto
    <2> HIDE DEF r
    <2>2. Moved(h, r)
        BY <2>1, <1>0, <1>5, InvRest, TagFacts, Charges
        DEF LookFail, Moved, ReadOpen, Listed, Finalizing, Underway, sheets
    <2> QED
        BY <2>2, <1>1, Assembled
<1> QED
    BY <1>2, <1>3, <1>4, <1>5 DEF LookFail, Escape

LEMMA WriteKeeps ==
    ASSUME Inv, NEW h \in Handlers, Write(h)
    PROVE  Inv'
<1>0. /\ job[h] \in Handler /\ job[h].step # "idle"
      /\ job[h].step \in Finalizing => job[h].tag \in Tags
      /\ Serial /\ job[h].step \in ReadOpen => row.final # "done"
      /\ Undisturbed => job[h].ok /\ row.final \notin {"failed", "partial"}
      /\ Undisturbed /\ job[h].step = "failMark" => ~row.present
      /\ job[h].step = "mark" \/ job[h].step \in Underway => row.present
      /\ Kept /\ job[h].step \in {"hold", "adjust", "confirm", "stamp"} => row.clan # ""
      /\ row.final = "done" => row.present
      /\ row.clan \in Tags \cup {""} /\ job[h].tag \in Tags \cup {""}
    BY InvRest DEF Inv, RecordOK, SerialOK, ProgressOK, RowType, Handler, Write
<1>1. RestOK'
    BY InvRest DEF RestOK, Write, sheets, outside
<1>2. CASE At(h, "hold")
    <2> DEFINE r == [job[h] EXCEPT !.step = "hold"]
    <2>1. /\ r \in Handler /\ job' = [job EXCEPT ![h] = r]
          /\ r.step = "hold" /\ r.tag = job[h].tag /\ r.ok = job[h].ok
        BY <1>0, <1>2 DEF At, Goto, Handler, Steps, Tags
    <2> HIDE DEF r
    <2>3. job[h].tag \in Tags /\ job[h].tag # ""
        BY <1>0, TagFacts DEF Write, Finalizing, Underway
    <2>4. /\ Calm \/ Unread
          /\ row' \in RowType /\ row'.present /\ row'.clan = job[h].tag
          /\ row'.final = row.final \/ (Unread /\ row'.final = "pending")
        BY <2>3, Upserted DEF Write
    <2>2. Moved(h, r)
        BY <2>1, <2>3, <2>4, <1>0, <1>2, InvRest, TagFacts, Charges
        DEF Write, Moved, ReadOpen, Listed, Finalizing, Underway, sheets
    <2> QED
        BY <2>2, <1>1, Assembled
<1> QED
    BY <1>2 DEF Write

LEMMA SettleHoldKeeps ==
    ASSUME Inv, NEW h \in Handlers, SettleHold(h)
    PROVE  Inv'
<1>0. /\ job[h] \in Handler /\ job[h].step # "idle"
      /\ job[h].step \in Finalizing => job[h].tag \in Tags
      /\ Serial /\ job[h].step \in ReadOpen => row.final # "done"
      /\ Undisturbed => job[h].ok /\ row.final \notin {"failed", "partial"}
      /\ Undisturbed /\ job[h].step = "failMark" => ~row.present
      /\ job[h].step = "mark" \/ job[h].step \in Underway => row.present
      /\ Kept /\ job[h].step \in {"hold", "adjust", "confirm", "stamp"} => row.clan # ""
      /\ row.final = "done" => row.present
      /\ row.clan \in Tags \cup {""} /\ job[h].tag \in Tags \cup {""}
    BY InvRest DEF Inv, RecordOK, SerialOK, ProgressOK, RowType, Handler, SettleHold
<1>1. RestOK'
    BY InvRest DEF RestOK, SettleHold, sheets, outside
<1>2. CASE At(h, "adjust")
    <2> DEFINE r == [job[h] EXCEPT !.step = "adjust"]
    <2>1. /\ r \in Handler /\ job' = [job EXCEPT ![h] = r]
          /\ r.step = "adjust" /\ r.tag = job[h].tag /\ r.ok = job[h].ok
        BY <1>0, <1>2 DEF At, Goto, Handler, Steps, Tags
    <2> HIDE DEF r
    <2>2. Moved(h, r)
        BY <2>1, <1>0, <1>2, InvRest, TagFacts, Charges
        DEF SettleHold, Moved, ReadOpen, Listed, Finalizing, Underway, sheets
    <2> QED
        BY <2>2, <1>1, Assembled
<1>3. CASE Goto(h, [job[h] EXCEPT !.step = "adjust", !.ok = FALSE]) /\ Fault
    <2> DEFINE r == [job[h] EXCEPT !.step = "adjust", !.ok = FALSE]
    <2>1. /\ r \in Handler /\ job' = [job EXCEPT ![h] = r]
          /\ r.step = "adjust" /\ r.tag = job[h].tag /\ r.ok = FALSE
        BY <1>0, <1>3 DEF Goto, Handler, Steps, Tags
    <2> HIDE DEF r
    <2>2. Moved(h, r)
        BY <2>1, <1>0, <1>3, InvRest, TagFacts, Charges
        DEF SettleHold, Moved, ReadOpen, Listed, Finalizing, Underway, sheets
    <2> QED
        BY <2>2, <1>1, Assembled
<1> QED
    BY <1>2, <1>3 DEF SettleHold

LEMMA AdjustKeeps ==
    ASSUME Inv, NEW h \in Handlers, Adjust(h)
    PROVE  Inv'
<1>0. /\ job[h] \in Handler /\ job[h].step # "idle"
      /\ job[h].step \in Finalizing => job[h].tag \in Tags
      /\ Serial /\ job[h].step \in ReadOpen => row.final # "done"
      /\ Undisturbed => job[h].ok /\ row.final \notin {"failed", "partial"}
      /\ Undisturbed /\ job[h].step = "failMark" => ~row.present
      /\ job[h].step = "mark" \/ job[h].step \in Underway => row.present
      /\ Kept /\ job[h].step \in {"hold", "adjust", "confirm", "stamp"} => row.clan # ""
      /\ row.final = "done" => row.present
      /\ row.clan \in Tags \cup {""} /\ job[h].tag \in Tags \cup {""}
    BY InvRest DEF Inv, RecordOK, SerialOK, ProgressOK, RowType, Handler, Adjust
<1>1. RestOK'
    <2> DEFINE d == Head(job[h].deltas)
    <2>1. d \in Moves
        BY <1>0, Sequences DEF Adjust, Handler
    <2>2. d[1] \in Clans /\ d[2] \in Int
        BY <2>1 DEF Moves
    <2> HIDE DEF d
    <2>3. seats' \in [Clans -> Int]
        <3>1. seats' = seats \/ seats' = [seats EXCEPT ![d[1]] = seats[d[1]] + d[2]]
            BY DEF Adjust, d
        <3>2. seats \in [Clans -> Int]
            BY InvRest DEF RestOK
        <3>3. seats[d[1]] + d[2] \in Int
            BY <3>2, <2>2
        <3> QED
            BY <3>1, <3>2, <3>3
    <2> QED
        BY <2>3, InvRest DEF RestOK, Adjust, outside
<1>2. CASE Goto(h, [job[h] EXCEPT !.deltas = Tail(@)])
    <2> DEFINE r == [job[h] EXCEPT !.deltas = Tail(job[h].deltas)]
    <2>1. /\ r \in Handler /\ job' = [job EXCEPT ![h] = r]
          /\ r.step = "adjust" /\ r.tag = job[h].tag /\ r.ok = job[h].ok
        BY <1>0, <1>2, Sequences DEF Adjust, Goto, Handler, Steps, Tags
    <2> HIDE DEF r
    <2>2. Moved(h, r)
        <3>1. (Calm \/ Fault) /\ row' = row /\ job[h].step = "adjust"
            BY DEF Adjust
        <3>2. Kept' => row.clan # "" /\ Kept
            BY <1>0, <3>1, Charges
        <3>3. row \in RowType /\ job[h].tag \in Tags /\ row.present
            BY <1>0, <3>1, InvRest DEF Finalizing, Underway
        <3>4. spent'.unread = 0 => Kept'
            BY DEF Kept
        <3> QED
            BY <2>1, <1>0, <3>1, <3>2, <3>3, <3>4, Charges
            DEF Moved, ReadOpen, Listed, Finalizing, Underway
    <2> QED
        BY <2>2, <1>1, Assembled
<1>3. CASE Goto(h, [job[h] EXCEPT !.deltas = Tail(@), !.ok = FALSE]) /\ Fault
    <2> DEFINE r == [job[h] EXCEPT !.deltas = Tail(job[h].deltas), !.ok = FALSE]
    <2>1. /\ r \in Handler /\ job' = [job EXCEPT ![h] = r]
          /\ r.step = "adjust" /\ r.tag = job[h].tag /\ r.ok = FALSE
        BY <1>0, <1>3, Sequences DEF Adjust, Goto, Handler, Steps, Tags
    <2> HIDE DEF r
    <2>2. Moved(h, r)
        BY <2>1, <1>0, <1>3, InvRest, TagFacts, Charges
        DEF Adjust, Moved, ReadOpen, Listed, Finalizing, Underway, sheets
    <2> QED
        BY <2>2, <1>1, Assembled
<1> QED
    BY <1>2, <1>3 DEF Adjust

LEMMA AdjustedKeeps ==
    ASSUME Inv, NEW h \in Handlers, Adjusted(h)
    PROVE  Inv'
<1>0. /\ job[h] \in Handler /\ job[h].step # "idle"
      /\ job[h].step \in Finalizing => job[h].tag \in Tags
      /\ Serial /\ job[h].step \in ReadOpen => row.final # "done"
      /\ Undisturbed => job[h].ok /\ row.final \notin {"failed", "partial"}
      /\ Undisturbed /\ job[h].step = "failMark" => ~row.present
      /\ job[h].step = "mark" \/ job[h].step \in Underway => row.present
      /\ Kept /\ job[h].step \in {"hold", "adjust", "confirm", "stamp"} => row.clan # ""
      /\ row.final = "done" => row.present
      /\ row.clan \in Tags \cup {""} /\ job[h].tag \in Tags \cup {""}
    BY InvRest DEF Inv, RecordOK, SerialOK, ProgressOK, RowType, Handler, Adjusted
<1>1. RestOK'
    BY InvRest DEF RestOK, Adjusted, sheets, outside
<1>2. CASE At(h, "confirm")
    <2> DEFINE r == [job[h] EXCEPT !.step = "confirm"]
    <2>1. /\ r \in Handler /\ job' = [job EXCEPT ![h] = r]
          /\ r.step = "confirm" /\ r.tag = job[h].tag /\ r.ok = job[h].ok
        BY <1>0, <1>2 DEF At, Goto, Handler, Steps, Tags
    <2> HIDE DEF r
    <2>2. Moved(h, r)
        BY <2>1, <1>0, <1>2, InvRest, TagFacts, Charges
        DEF Adjusted, Moved, ReadOpen, Listed, Finalizing, Underway, sheets
    <2> QED
        BY <2>2, <1>1, Assembled
<1> QED
    BY <1>2 DEF Adjusted

LEMMA ConfirmKeeps ==
    ASSUME Inv, NEW h \in Handlers, Confirm(h)
    PROVE  Inv'
<1>0. /\ job[h] \in Handler /\ job[h].step # "idle"
      /\ job[h].step \in Finalizing => job[h].tag \in Tags
      /\ Serial /\ job[h].step \in ReadOpen => row.final # "done"
      /\ Undisturbed => job[h].ok /\ row.final \notin {"failed", "partial"}
      /\ Undisturbed /\ job[h].step = "failMark" => ~row.present
      /\ job[h].step = "mark" \/ job[h].step \in Underway => row.present
      /\ Kept /\ job[h].step \in {"hold", "adjust", "confirm", "stamp"} => row.clan # ""
      /\ row.final = "done" => row.present
      /\ row.clan \in Tags \cup {""} /\ job[h].tag \in Tags \cup {""}
    BY InvRest DEF Inv, RecordOK, SerialOK, ProgressOK, RowType, Handler, Confirm
<1>1. RestOK'
    <2>1. /\ context' = [state |-> "closed", final |-> TRUE]
          /\ prompt' \in BOOLEAN
        BY InvRest DEF RestOK, Confirm, Closed
    <2>2. shut' \in BOOLEAN /\ auto' = auto /\ hold' = hold /\ seats' = seats
        BY InvRest DEF RestOK, Confirm, sheets
    <2> QED
        BY <2>1, <2>2, InvRest DEF RestOK
<1>2. CASE Closed(h, TRUE)
    <2> DEFINE r == [job[h] EXCEPT !.step = "stamp", !.ok = job[h].ok]
    <2>1. /\ r \in Handler /\ job' = [job EXCEPT ![h] = r]
          /\ r.step = "stamp" /\ r.tag = job[h].tag /\ r.ok = job[h].ok
        BY <1>0, <1>2 DEF Closed, Goto, Handler, Steps, Tags
    <2> HIDE DEF r
    <2>2. Moved(h, r)
        BY <2>1, <1>0, <1>2, InvRest, TagFacts, Charges
        DEF Confirm, Moved, ReadOpen, Listed, Finalizing, Underway, sheets
    <2> QED
        BY <2>2, <1>1, Assembled
<1>3. CASE Closed(h, FALSE) /\ Fault
    <2> DEFINE r == [job[h] EXCEPT !.step = "stamp", !.ok = FALSE]
    <2>1. /\ r \in Handler /\ job' = [job EXCEPT ![h] = r]
          /\ r.step = "stamp" /\ r.tag = job[h].tag /\ r.ok = FALSE
        BY <1>0, <1>3 DEF Closed, Goto, Handler, Steps, Tags
    <2> HIDE DEF r
    <2>2. Moved(h, r)
        BY <2>1, <1>0, <1>3, InvRest, TagFacts, Charges
        DEF Confirm, Moved, ReadOpen, Listed, Finalizing, Underway, sheets
    <2> QED
        BY <2>2, <1>1, Assembled
<1> QED
    BY <1>2, <1>3 DEF Confirm

LEMMA ConfirmFailKeeps ==
    ASSUME Inv, NEW h \in Handlers, ConfirmFail(h)
    PROVE  Inv'
<1>0. /\ job[h] \in Handler /\ job[h].step # "idle"
      /\ job[h].step \in Finalizing => job[h].tag \in Tags
      /\ Serial /\ job[h].step \in ReadOpen => row.final # "done"
      /\ Undisturbed => job[h].ok /\ row.final \notin {"failed", "partial"}
      /\ Undisturbed /\ job[h].step = "failMark" => ~row.present
      /\ job[h].step = "mark" \/ job[h].step \in Underway => row.present
      /\ Kept /\ job[h].step \in {"hold", "adjust", "confirm", "stamp"} => row.clan # ""
      /\ row.final = "done" => row.present
      /\ row.clan \in Tags \cup {""} /\ job[h].tag \in Tags \cup {""}
    BY InvRest DEF Inv, RecordOK, SerialOK, ProgressOK, RowType, Handler, ConfirmFail
<1>1. RestOK'
    BY InvRest DEF RestOK, ConfirmFail, sheets, outside
<1>2. CASE At(h, "failMark")
    <2> DEFINE r == [job[h] EXCEPT !.step = "failMark"]
    <2>1. /\ r \in Handler /\ job' = [job EXCEPT ![h] = r]
          /\ r.step = "failMark" /\ r.tag = job[h].tag /\ r.ok = job[h].ok
        BY <1>0, <1>2 DEF At, Goto, Handler, Steps, Tags
    <2> HIDE DEF r
    <2>2. Moved(h, r)
        BY <2>1, <1>0, <1>2, InvRest, TagFacts, Charges
        DEF ConfirmFail, Moved, ReadOpen, Listed, Finalizing, Underway, sheets
    <2> QED
        BY <2>2, <1>1, Assembled
<1>3. CASE Stop(h)
    <2> DEFINE r == Idle
    <2>1. r \in Handler /\ job' = [job EXCEPT ![h] = r] /\ r.step = "idle" /\ r.ok
        BY <1>3, IdleType DEF Stop, Goto
    <2> HIDE DEF r
    <2>2. Moved(h, r)
        BY <2>1, <1>0, <1>3, InvRest, TagFacts, Charges
        DEF ConfirmFail, Moved, ReadOpen, Listed, Finalizing, Underway, sheets
    <2> QED
        BY <2>2, <1>1, Assembled
<1> QED
    BY <1>2, <1>3 DEF ConfirmFail, Escape

LEMMA StampKeeps ==
    ASSUME Inv, NEW h \in Handlers, Stamp(h)
    PROVE  Inv'
<1>0. /\ job[h] \in Handler /\ job[h].step # "idle"
      /\ job[h].step \in Finalizing => job[h].tag \in Tags
      /\ Serial /\ job[h].step \in ReadOpen => row.final # "done"
      /\ Undisturbed => job[h].ok /\ row.final \notin {"failed", "partial"}
      /\ Undisturbed /\ job[h].step = "failMark" => ~row.present
      /\ job[h].step = "mark" \/ job[h].step \in Underway => row.present
      /\ Kept /\ job[h].step \in {"hold", "adjust", "confirm", "stamp"} => row.clan # ""
      /\ row.final = "done" => row.present
      /\ row.clan \in Tags \cup {""} /\ job[h].tag \in Tags \cup {""}
    BY InvRest DEF Inv, RecordOK, SerialOK, ProgressOK, RowType, Handler, Stamp
<1>1. RestOK'
    BY InvRest DEF RestOK, Stamp, sheets, outside
<1>2. CASE Stop(h)
    <2> DEFINE r == Idle
    <2>1. r \in Handler /\ job' = [job EXCEPT ![h] = r] /\ r.step = "idle" /\ r.ok
        BY <1>2, IdleType DEF Stop, Goto
    <2> HIDE DEF r
    <2>2. Moved(h, r)
        BY <2>1, <1>0, <1>2, InvRest, TagFacts, Charges
        DEF Stamp, Moved, ReadOpen, Listed, Finalizing, Underway, sheets, RowType, Status, Tags
    <2> QED
        BY <2>2, <1>1, Assembled
<1>9. CASE At(h, "release")
    <2> DEFINE r == [job[h] EXCEPT !.step = "release"]
    <2>1. /\ r \in Handler /\ job' = [job EXCEPT ![h] = r]
          /\ r.step = "release" /\ r.tag = job[h].tag /\ r.ok = job[h].ok
        BY <1>0, <1>9 DEF At, Goto, Handler, Steps, Tags
    <2> HIDE DEF r
    <2>2. Moved(h, r)
        BY <2>1, <1>0, <1>9, InvRest, TagFacts, Charges
        DEF Stamp, Moved, ReadOpen, Listed, Finalizing, Underway, sheets, RowType, Status, Tags
    <2> QED
        BY <2>2, <1>1, Assembled
<1> QED
    BY <1>2, <1>9 DEF Stamp, Return

LEMMA ReleaseKeeps ==
    ASSUME Inv, NEW h \in Handlers, Release(h)
    PROVE  Inv'
<1>0. /\ job[h] \in Handler /\ job[h].step # "idle"
      /\ job[h].step \in Finalizing => job[h].tag \in Tags
      /\ Serial /\ job[h].step \in ReadOpen => row.final # "done"
      /\ Undisturbed => job[h].ok /\ row.final \notin {"failed", "partial"}
      /\ Undisturbed /\ job[h].step = "failMark" => ~row.present
      /\ job[h].step = "mark" \/ job[h].step \in Underway => row.present
      /\ Kept /\ job[h].step \in {"hold", "adjust", "confirm", "stamp"} => row.clan # ""
      /\ row.final = "done" => row.present
      /\ row.clan \in Tags \cup {""} /\ job[h].tag \in Tags \cup {""}
    BY InvRest DEF Inv, RecordOK, SerialOK, ProgressOK, RowType, Handler, Release
<1>1. RestOK'
    BY InvRest DEF RestOK, Release, sheets, outside
<1>2. CASE Stop(h)
    <2> DEFINE r == Idle
    <2>1. r \in Handler /\ job' = [job EXCEPT ![h] = r] /\ r.step = "idle" /\ r.ok
        BY <1>2, IdleType DEF Stop, Goto
    <2> HIDE DEF r
    <2>2. Moved(h, r)
        BY <2>1, <1>0, <1>2, InvRest, TagFacts, Charges
        DEF Release, Moved, ReadOpen, Listed, Finalizing, Underway, sheets, RowType, Status, Tags
    <2> QED
        BY <2>2, <1>1, Assembled
<1> QED
    BY <1>2 DEF Release

LEMMA SpentFacts == Inv => spent.faults \in Nat /\ spent.overlaps \in Nat
<1>1. Inv => spent.faults \in 0..MaxFaults /\ spent.overlaps \in Nat
    BY DEF Inv, TypeOK
<1> QED
    BY <1>1, Bounds

LEMMA Unmoved ==
    ASSUME Inv, UNCHANGED <<row, seats, job, spent>>, RestOK'
    PROVE  Inv'
<1>1. TypeOK'
    BY DEF Inv, TypeOK, RestOK
<1>2. SerialOK' /\ RecordOK' /\ ProgressOK'
    BY DEF Inv, SerialOK, Serial, RecordOK, RecordedFirst, Kept, ProgressOK, Undisturbed
<1> QED
    BY <1>1, <1>2 DEF Inv

LEMMA ToolClosedKeeps ==
    ASSUME Inv, NEW h \in Handlers, ToolClosed(h)
    PROVE  Inv'
<1> DEFINE r == [Idle EXCEPT !.step = "closeRow", !.source = "tool"]
<1>1. r \in Handler /\ r.ok /\ r.step = "closeRow"
    BY IdleType, TagFacts, InvRest DEF Handler, Steps, Sources, Tags, RowType
<1>2. RestOK'
    BY InvRest DEF RestOK, ToolClosed, sheets, outside
<1> HIDE DEF r
<1>3. StartUnread(h, r, 0)
    BY DEF ToolClosed, Start, r
<1>4. r.step \in {"check", "auto"} => r.tag \in Tags
    BY <1>1 DEF Tags
<1>5. r.step = "backfill" => row.final # "done"
    BY <1>1 DEF ToolClosed
<1> QED
    BY <1>1, <1>2, <1>3, <1>4, <1>5, StartKeeps, InvRest DEF ToolClosed, Inv, TypeOK, RestOK, RowType, Spendings, sheets

LEMMA ThreadUpdateKeeps ==
    ASSUME Inv, NEW h \in Handlers, ThreadUpdate(h)
    PROVE  Inv'
<1> DEFINE r == [Idle EXCEPT !.step = "manualRow", !.source = "thread"]
<1>1. r \in Handler /\ r.ok /\ r.step = "manualRow"
    BY IdleType, TagFacts, InvRest DEF Handler, Steps, Sources, Tags, RowType
<1>2. RestOK'
    BY InvRest DEF RestOK, ThreadUpdate, sheets, outside
<1> HIDE DEF r
<1>3. CASE StartUnread(h, r, 0)
    <2> QED
        BY <1>1, <1>2, <1>3, StartKeeps, InvRest DEF ThreadUpdate, Inv, TypeOK, RestOK, RowType, Spendings, sheets
<1>4. CASE UNCHANGED <<job, spent>>
    BY <1>2, <1>4, Unmoved DEF ThreadUpdate, sheets
<1> QED
    BY <1>3, <1>4 DEF ThreadUpdate, Start, r

LEMMA MessageKeeps ==
    ASSUME Inv, NEW h \in Handlers, Message(h)
    PROVE  Inv'
<1>0. PICK t \in Tags : Start(h, [Idle EXCEPT !.step = "check", !.source = "message", !.tag = t])
    BY DEF Message
<1> DEFINE r == [Idle EXCEPT !.step = "check", !.source = "message", !.tag = t]
<1>1. r \in Handler /\ r.ok /\ r.step = "check" /\ r.tag = t
    BY <1>0, IdleType, TagFacts, InvRest DEF Handler, Steps, Sources, Tags, RowType
<1>2. RestOK'
    BY InvRest DEF RestOK, Message, sheets, outside
<1> HIDE DEF r
<1>3. StartUnread(h, r, 0)
    BY <1>0 DEF Message, Start, r
<1>4. r.step \in {"check", "auto"} => r.tag \in Tags
    BY <1>1, <1>0 DEF Tags
<1>5. r.step = "backfill" => row.final # "done"
    BY <1>1 DEF Message
<1> QED
    BY <1>1, <1>2, <1>3, <1>4, <1>5, StartKeeps, InvRest DEF Message, Inv, TypeOK, RestOK, RowType, Spendings, sheets

LEMMA SelectKeeps ==
    ASSUME Inv, NEW h \in Handlers, Select(h)
    PROVE  Inv'
<1>0. PICK t \in Tags : Start(h, [Idle EXCEPT !.step = "check", !.source = "select", !.tag = t])
    BY DEF Select
<1> DEFINE r == [Idle EXCEPT !.step = "check", !.source = "select", !.tag = t]
<1>1. r \in Handler /\ r.ok /\ r.step = "check" /\ r.tag = t
    BY <1>0, IdleType, TagFacts, InvRest DEF Handler, Steps, Sources, Tags, RowType
<1>2. RestOK'
    BY InvRest DEF RestOK, Select, sheets, outside
<1> HIDE DEF r
<1>3. StartUnread(h, r, 0)
    BY <1>0 DEF Select, Start, r
<1>4. r.step \in {"check", "auto"} => r.tag \in Tags
    BY <1>1, <1>0 DEF Tags
<1>5. r.step = "backfill" => row.final # "done"
    BY <1>1 DEF Select
<1> QED
    BY <1>1, <1>2, <1>3, <1>4, <1>5, StartKeeps, InvRest DEF Select, Inv, TypeOK, RestOK, RowType, Spendings, sheets

LEMMA AutoCloseKeeps ==
    ASSUME Inv, NEW h \in Handlers, AutoClose(h)
    PROVE  Inv'
<1> DEFINE r == [Idle EXCEPT !.step = "auto", !.source = "auto", !.tag = "NONE"]
<1>1. r \in Handler /\ r.ok /\ r.step = "auto" /\ r.tag = "NONE"
    BY IdleType, TagFacts, InvRest DEF Handler, Steps, Sources, Tags, RowType
<1>2. RestOK'
    BY InvRest DEF RestOK, AutoClose, sheets, outside
<1> HIDE DEF r
<1>3. StartUnread(h, r, 0)
    BY DEF AutoClose, Start, r
<1>4. r.step \in {"check", "auto"} => r.tag \in Tags
    BY <1>1 DEF Tags
<1>5. r.step = "backfill" => row.final # "done"
    BY <1>1 DEF AutoClose
<1> QED
    BY <1>1, <1>2, <1>3, <1>4, <1>5, StartKeeps, InvRest DEF AutoClose, Inv, TypeOK, RestOK, RowType, Spendings, sheets

LEMMA BackfillKeeps ==
    ASSUME Inv, NEW h \in Handlers, Backfill(h)
    PROVE  Inv'
<1> DEFINE r == [Idle EXCEPT !.step = "backfill", !.source = "backfill", !.tag = row.clan]
<1>1. r \in Handler /\ r.ok /\ r.step = "backfill" /\ r.tag = row.clan
    BY IdleType, TagFacts, InvRest DEF Handler, Steps, Sources, Tags, RowType
<1>2. RestOK'
    BY InvRest DEF RestOK, Backfill, sheets, outside
<1> DEFINE n == IF row.final = "done" THEN 1 ELSE 0
<1>6. n \in {0, 1} /\ (n = 0 => row.final # "done")
    OBVIOUS
<1> HIDE DEF r
<1>3. StartUnread(h, r, n)
    BY DEF Backfill, r
<1> HIDE DEF n
<1>4. r.step \in {"check", "auto"} => r.tag \in Tags
    BY <1>1 DEF Tags
<1> QED
    BY <1>1, <1>2, <1>3, <1>4, <1>6, StartKeeps, InvRest DEF Backfill, Inv, TypeOK, RestOK, RowType, Spendings, sheets

LEMMA PromptExpiresKeeps ==
    ASSUME Inv, PromptExpires
    PROVE  Inv'
<1>1. RestOK'
    BY InvRest DEF PromptExpires, RestOK, sheets, outside
<1> QED
    BY <1>1, Unmoved DEF PromptExpires, sheets

LEMMA CrashKeeps ==
    ASSUME Inv, Crash
    PROVE  Inv'
<1>1. /\ row' = row /\ hold' = hold /\ seats' = seats /\ shut' = shut /\ auto' = auto
      /\ job' = [h \in Handlers |-> Idle] /\ context' = NewContext /\ prompt' = FALSE
    BY DEF Crash, sheets, outside
<1>2. /\ spent' = [events |-> spent.events, faults |-> spent.faults + 1,
                   overlaps |-> spent.overlaps, unread |-> spent.unread]
      /\ spent.faults < MaxFaults /\ spent.faults \in 0..MaxFaults
      /\ spent.events \in 0..MaxEvents /\ spent.overlaps \in Nat /\ spent.unread \in Nat
    BY DEF Crash, Fault, Inv, TypeOK
<1>3. TypeOK'
    <2>1. spent' \in Spendings
        BY <1>2, Bounds DEF Spendings
    <2>2. context' \in [state : {"open", "awaiting_clan", "closed"}, final : BOOLEAN]
        BY <1>1 DEF NewContext
    <2>3. job' \in [Handlers -> Handler]
        BY <1>1, IdleType
    <2> QED
        BY <2>1, <2>2, <2>3, <1>1 DEF Inv, TypeOK, Spendings
<1>4. ~Undisturbed'
    BY <1>2, Bounds DEF Undisturbed
<1>5. SerialOK' /\ RecordOK'
    BY <1>1, <1>2, IdleType DEF Inv, SerialOK, Serial, RecordOK, RecordedFirst, Kept, ReadOpen,
       Listed, Finalizing, Underway
<1> QED
    BY <1>3, <1>4, <1>5 DEF Inv, ProgressOK

LEMMA NextKeepsInv == Inv /\ [Next]_vars => Inv'
<1> SUFFICES ASSUME Inv, [Next]_vars PROVE Inv'
    OBVIOUS
<1>1. CASE UNCHANGED vars
    <2>1. RestOK'
        BY <1>1, InvRest DEF vars, RestOK
    <2> QED
        BY <1>1, <2>1, Unmoved DEF vars
<1>2. ASSUME NEW h \in Handlers, Event(h) PROVE Inv'
    BY <1>2, ToolClosedKeeps, ThreadUpdateKeeps, MessageKeeps, SelectKeeps, AutoCloseKeeps,
       BackfillKeeps DEF Event
<1>3. ASSUME NEW h \in Handlers, Step(h) PROVE Inv'
    BY <1>3, AutoFinalizeKeeps, BackfillRowKeeps, BackfillUnresolvedKeeps, ManualRowKeeps,
       ManualRowFailKeeps, ManualAddKeeps, CloseRowKeeps, CloseUnmarkedKeeps, CloseMarkKeeps,
       ClosePromptKeeps, CheckKeeps, MarkKeeps, RefuseKeeps, FailMarkKeeps, RereadKeeps,
       LookKeeps, LookFailKeeps, WriteKeeps, SettleHoldKeeps, AdjustKeeps, AdjustedKeeps,
       ConfirmKeeps, ConfirmFailKeeps, StampKeeps, ReleaseKeeps DEF Step
<1> QED
    BY <1>1, <1>2, <1>3, PromptExpiresKeeps, CrashKeeps DEF Next

LEMMA InvHolds == Spec => []Inv
BY InitInv, NextKeepsInv, PTL DEF Spec

-------------------------------------------------------------------------------
(* The theorems.                                                              *)

\* Every variable stays within its type.
THEOREM TypeCorrect == Spec => []TypeOK
<1>1. Inv => TypeOK
    BY DEF Inv
<1> QED
    BY <1>1, InvHolds, PTL

\* However the handlers of a ticket overlap, and whatever fails but a read that
\* passes for an empty answer, no seat moves before the Welcome row names a
\* placement, and the row goes on naming one.
THEOREM SeatsAfterRecord == Spec => []RecordedFirst
<1>1. Inv => RecordedFirst
    BY DEF Inv, RecordOK
<1> QED
    BY <1>1, InvHolds, PTL

\* A finalization that no failure and no other handler disturbs does not come to
\* rest half-way.
THEOREM NothingHalfDone == Spec => []StartedIsFinished
<1>1. Inv => StartedIsFinished
    <2> SUFFICES ASSUME Inv, Busy = {}, spent.faults + spent.overlaps <= 0
                 PROVE  row.final \notin {"in_progress", "partial", "failed"}
        <3>1. Inv /\ ~(spent.faults + spent.overlaps <= 0)
                     => spent.faults + spent.overlaps > 0
            BY SpentFacts
        <3> QED
            BY <3>1 DEF StartedIsFinished
    <2>1. Undisturbed
        <3>1. spent.faults \in Nat /\ spent.overlaps \in Nat
            BY SpentFacts
        <3> QED
            BY <3>1 DEF Undisturbed, Serial
    <2>2. \A h \in Handlers : job[h].step \notin Underway
        BY DEF Busy, Underway
    <2> QED
        BY <2>1, <2>2 DEF Inv, ProgressOK
<1> QED
    BY <1>1, InvHolds, PTL

\* As long as no two handlers of the ticket overlap, a done ticket keeps its seats
\* and, the idle watcher's release apart, its hold, whatever fails and however often
\* the bot restarts or staff close it again; and it keeps its placement and outcome
\* until a failed read of its row passes for an empty answer.
THEOREM DoneStays == Spec => DoneIsFinal
<1>1. ASSUME Inv, [Next]_vars, row.final = "done", spent'.overlaps = 0
      PROVE  /\ UNCHANGED seats
             /\ \/ spent'.unread > 0
                \/ row'.final \in {"done", "failed"} /\ UNCHANGED row.clan
             /\ UNCHANGED hold \/ \E h \in Handlers : job[h].step = "release"
    <2>1. CASE UNCHANGED vars
        BY <1>1, <2>1 DEF vars
    <2>2. CASE PromptExpires \/ Crash
        BY <1>1, <2>2 DEF PromptExpires, Crash, sheets
    <2>3. ASSUME NEW h \in Handlers, Event(h)
          PROVE  UNCHANGED <<row, hold, seats>>
        BY <2>3 DEF Event, ToolClosed, ThreadUpdate, Message, Select, AutoClose, Backfill, sheets
    <2>4. ASSUME NEW h \in Handlers, Step(h)
          PROVE  /\ UNCHANGED seats
                 /\ \/ spent'.unread > 0
                    \/ row'.final \in {"done", "failed"} /\ UNCHANGED row.clan
                 /\ UNCHANGED hold \/ job[h].step = "release"
        <3>1. Calm \/ Fault \/ Unread
            BY <2>4 DEF Step, TakenAsOpen, Upsert, AutoFinalize, BackfillRow,
               BackfillUnresolved, ManualRow, ManualRowFail, ManualAdd, CloseRow,
               CloseUnmarked, CloseMark, ClosePrompt, Check, Mark, Refuse, FailMark, Reread,
               Look, LookFail, Write, SettleHold, Adjust, Adjusted, Confirm, ConfirmFail, Stamp,
               Release
        <3>2. /\ Serial /\ spent'.unread \in Nat
              /\ spent'.unread = 0 => spent.unread = 0 /\ ~Unread
            <4>1. spent \in Spendings
                BY <1>1 DEF Inv, TypeOK, Spendings
            <4>2. spent'.unread \in Nat
                BY <1>1, <2>4, NextKeepsInv DEF Next, Inv, TypeOK
            <4> QED
                BY <1>1, <3>1, <4>2, Charges DEF Serial
        <3>3. /\ job[h].step \notin ReadOpen
              /\ spent.unread = 0 => job[h].step \notin Listed
            BY <1>1, <3>2 DEF Inv, SerialOK
        <3>4. row \in RowType
            BY <1>1, InvRest
        <3>5. UNCHANGED seats /\ (UNCHANGED hold \/ job[h].step = "release")
            BY <1>1, <2>4, <3>3
            DEF Step, ReadOpen, AutoFinalize, BackfillRow, BackfillUnresolved,
                ManualRow, ManualRowFail, ManualAdd, CloseRow, CloseUnmarked, CloseMark,
                ClosePrompt, Check, Mark, Refuse, FailMark, Reread, Look, LookFail, Write,
                SettleHold, Adjust, Adjusted, Confirm, ConfirmFail, Stamp, Release, sheets
        <3>6. ASSUME spent'.unread = 0
              PROVE  row'.final \in {"done", "failed"} /\ UNCHANGED row.clan
            <4>1. job[h].step \notin ReadOpen \cup Listed /\ ~Unread
                BY <3>2, <3>3, <3>6
            <4> QED
                BY <1>1, <2>4, <4>1, <3>4
                DEF Step, RowType, ReadOpen, Listed, Upsert, AutoFinalize, BackfillRow,
                    BackfillUnresolved, ManualRow, ManualRowFail, ManualAdd, CloseRow,
                    CloseUnmarked, CloseMark, ClosePrompt, Check, Mark, Refuse, FailMark, Reread,
                    Look, LookFail, Write, SettleHold, Adjust, Adjusted, Confirm, ConfirmFail,
                    Stamp, Release, sheets
        <3> QED
            BY <3>2, <3>5, <3>6
    <2> QED
        BY <1>1, <2>1, <2>2, <2>3, <2>4 DEF Next
<1> QED
    BY <1>1, InvHolds, PTL DEF Spec, DoneIsFinal

-------------------------------------------------------------------------------
(* How far the seats are from what the ticket owes, as functions of constants.*)

Bit(b) == IF b THEN 1 ELSE 0
Mag(n) == IF n < 0 THEN -n ELSE n
Units(c, n) == {c} \X (1..Mag(n))

\* The distance of y from zero: the sum of the magnitudes of its values.
Pile(y) == UNION {Units(c, y[c]) : c \in Clans}
Size(y) == Cardinality(Pile(y))

\* z is y, but for one unit at c.
Near(y, z, c) ==
    \A d \in Clans : IF d = c THEN y[d] - 1 <= z[d] /\ z[d] <= y[d] + 1 ELSE z[d] = y[d]

\* What is off when the hold is o's, active or not (a), and the placement is k.
Off(s, o, a, k) == [c \in Clans |-> s[c] - Bit(c = o /\ ~a) + Bit(c = k)]

\* What the ith delta of D moves at c; what is off once the deltas are applied.
Part(D, i, c) == IF i <= Len(D) /\ D[i][1] = c THEN D[i][2] ELSE 0
Ahead(y, D) == [c \in Clans |-> y[c] + Part(D, 1, c) + Part(D, 2, c) + Part(D, 3, c)]

LEMMA PileFinite ==
    ASSUME NEW y \in [Clans -> Int]
    PROVE  IsFiniteSet(Pile(y)) /\ Size(y) \in Nat
<1>1. IsFiniteSet(Clans)
    BY TicketAssumption
<1> DEFINE F == {Units(c, y[c]) : c \in Clans}
<1>2. IsFiniteSet(F)
    <2>1. \A f : f \in Surjection(Clans, F) => IsFiniteSet(F)
        BY <1>1, FS_Surjection
    <2> DEFINE g == [c \in Clans |-> Units(c, y[c])]
    <2>2. g \in Surjection(Clans, F)
        BY DEF Surjection
    <2> QED
        BY <2>1, <2>2
<1>3. \A T \in F : IsFiniteSet(T)
    <2> SUFFICES ASSUME NEW c \in Clans PROVE IsFiniteSet(Units(c, y[c]))
        OBVIOUS
    <2>1. Mag(y[c]) \in Int
        BY DEF Mag
    <2>2. IsFiniteSet(1..Mag(y[c]))
        <3>1. 1 \in Int
            OBVIOUS
        <3> QED
            BY <2>1, <3>1, FS_Interval
    <2>3. IsFiniteSet({c})
        BY FS_Singleton
    <2> QED
        BY <2>2, <2>3, FS_Product DEF Units
<1> HIDE DEF F
<1>4. IsFiniteSet(UNION F)
    BY <1>2, <1>3, FS_UNION
<1>5. IsFiniteSet(Pile(y))
    BY <1>4 DEF F, Pile
<1> QED
    BY <1>5, FS_CardinalityType DEF Size

LEMMA SizeZero ==
    ASSUME NEW y \in [Clans -> Int], \A c \in Clans : y[c] = 0
    PROVE  Size(y) = 0
<1>1. \A c \in Clans : Units(c, y[c]) = {}
    BY DEF Units, Mag
<1>2. Pile(y) = {}
    BY <1>1 DEF Pile
<1> QED
    BY <1>2, FS_EmptySet DEF Size

\* One unit more or less at one clan changes the distance by one at most.
LEMMA SizeStep ==
    ASSUME NEW y \in [Clans -> Int], NEW z \in [Clans -> Int], NEW c, Near(y, z, c)
    PROVE  Size(z) <= Size(y) + 1
<1>1. CASE c \notin Clans
    <2>1. z = y
        BY <1>1 DEF Near
    <2> QED
        BY <2>1, PileFinite
<1>2. CASE c \in Clans
    <2> DEFINE u == <<c, Mag(y[c]) + 1>>
    <2>1. Mag(y[c]) \in Nat /\ Mag(z[c]) \in Nat /\ Mag(z[c]) <= Mag(y[c]) + 1
        BY <1>2 DEF Near, Mag
    <2>2. Units(c, z[c]) \subseteq Units(c, y[c]) \cup {u}
        <3>1. \A n \in 1..Mag(z[c]) : n \in 1..Mag(y[c]) \/ n = Mag(y[c]) + 1
            BY <2>1
        <3> QED
            BY <3>1 DEF Units
    <2>3. \A d \in Clans : Units(d, z[d]) \subseteq Pile(y) \cup {u}
        <3> SUFFICES ASSUME NEW d \in Clans PROVE Units(d, z[d]) \subseteq Pile(y) \cup {u}
            OBVIOUS
        <3>1. Units(d, y[d]) \subseteq Pile(y)
            BY DEF Pile
        <3>2. CASE d = c
            BY <3>1, <3>2, <2>2
        <3>3. CASE d # c
            BY <3>1, <3>3 DEF Near
        <3> QED
            BY <3>2, <3>3
    <2> HIDE DEF u
    <2>4. Pile(z) \subseteq Pile(y) \cup {u}
        BY <2>3 DEF Pile
    <2>5. IsFiniteSet(Pile(y))
        BY PileFinite
    <2>6. /\ IsFiniteSet(Pile(y) \cup {u})
          /\ Cardinality(Pile(y) \cup {u}) = IF u \in Pile(y) THEN Cardinality(Pile(y))
                                                        ELSE Cardinality(Pile(y)) + 1
        BY <2>5, FS_AddElement
    <2>7. Cardinality(Pile(z)) <= Cardinality(Pile(y) \cup {u})
        BY <2>4, <2>6, FS_Subset
    <2> QED
        BY <2>6, <2>7, PileFinite DEF Size
<1> QED
    BY <1>1, <1>2

LEMMA BitType == \A b \in BOOLEAN : Bit(b) \in 0..1 /\ (b <=> Bit(b) = 1)
BY DEF Bit

LEMMA OffType ==
    ASSUME NEW s \in [Clans -> Int], NEW o, NEW a \in BOOLEAN, NEW k
    PROVE  /\ Off(s, o, a, k) \in [Clans -> Int]
           /\ \A c \in Clans : Off(s, o, a, k)[c] = s[c] - Bit(c = o /\ ~a) + Bit(c = k)
BY DEF Off, Bit

LEMMA PartType ==
    ASSUME NEW D \in Seq(Moves), NEW i \in Nat \ {0}, NEW c
    PROVE  Part(D, i, c) \in -1..1
<1>1. CASE i <= Len(D)
    <2>1. D[i] \in Moves
        BY <1>1
    <2>2. D[i][2] \in {-1, 1}
        BY <2>1 DEF Moves
    <2> QED
        BY <2>2 DEF Part
<1>2. CASE ~(i <= Len(D))
    BY <1>2 DEF Part
<1> QED
    BY <1>1, <1>2

LEMMA AheadType ==
    ASSUME NEW y \in [Clans -> Int], NEW D \in Seq(Moves)
    PROVE  /\ Ahead(y, D) \in [Clans -> Int]
           /\ \A c \in Clans : Ahead(y, D)[c] = y[c] + Part(D, 1, c) + Part(D, 2, c) + Part(D, 3, c)
<1>1. \A c : Part(D, 1, c) \in Int /\ Part(D, 2, c) \in Int /\ Part(D, 3, c) \in Int
    BY PartType
<1> QED
    BY <1>1 DEF Ahead

LEMMA AheadEmpty ==
    ASSUME NEW y \in [Clans -> Int]
    PROVE  Ahead(y, << >>) = y
<1>1. \A c : \A i \in 1..3 : Part(<< >>, i, c) = 0
    BY DEF Part
<1>2. << >> \in Seq(Moves)
    OBVIOUS
<1>3. \A c : Part(<< >>, 1, c) = 0 /\ Part(<< >>, 2, c) = 0 /\ Part(<< >>, 3, c) = 0
    BY <1>1
<1>4. /\ Ahead(y, << >>) \in [Clans -> Int]
      /\ \A c \in Clans : Ahead(y, << >>)[c] = y[c] + Part(<< >>, 1, c) + Part(<< >>, 2, c)
                                                   + Part(<< >>, 3, c)
    BY <1>2, AheadType, Zenon
<1>5. \A c \in Clans : Ahead(y, << >>)[c] = y[c]
    BY <1>3, <1>4
<1> QED
    BY <1>4, <1>5

\* The first delta of three at most, apart from the others.
LEMMA FirstPart ==
    ASSUME NEW D \in Seq(Moves), D # << >>, Len(D) <= 3
    PROVE  /\ Head(D) = D[1] /\ Head(D) \in Moves
           /\ Tail(D) \in Seq(Moves) /\ Len(Tail(D)) = Len(D) - 1 /\ Len(Tail(D)) \in 0..2
           /\ \A c : /\ Part(D, 1, c) = IF Head(D)[1] = c THEN Head(D)[2] ELSE 0
                     /\ Part(Tail(D), 1, c) = Part(D, 2, c)
                     /\ Part(Tail(D), 2, c) = Part(D, 3, c)
                     /\ Part(Tail(D), 3, c) = 0
<1>1. /\ Head(D) = D[1] /\ Head(D) \in Moves
      /\ Tail(D) \in Seq(Moves) /\ Len(Tail(D)) = Len(D) - 1
    OBVIOUS
<1>7. Len(D) \in 1..3
    <2>1. Len(D) \in Nat /\ Len(D) # 0
        OBVIOUS
    <2>2. \A n \in Nat : n # 0 /\ n <= 3 => n \in 1..3
        OBVIOUS
    <2> QED
        BY <2>1, <2>2, Zenon
<1>6. \A i \in 1..Len(D) - 1 : Tail(D)[i] = D[i + 1]
    OBVIOUS
<1>2. \A c : Part(D, 1, c) = IF Head(D)[1] = c THEN Head(D)[2] ELSE 0
    BY <1>1 DEF Part
<1>3. \A c : Part(Tail(D), 1, c) = Part(D, 2, c)
    <2>1. CASE 1 <= Len(D) - 1
        <3>1. Tail(D)[1] = D[2] /\ 2 <= Len(D) /\ 1 <= Len(Tail(D))
            BY <1>1, <1>6, <1>7, <2>1
        <3> QED
            BY <3>1 DEF Part
    <2>2. CASE ~(1 <= Len(D) - 1)
        BY <1>1, <1>7, <2>2 DEF Part
    <2> QED
        BY <2>1, <2>2
<1>4. \A c : Part(Tail(D), 2, c) = Part(D, 3, c)
    <2>1. CASE 2 <= Len(D) - 1
        <3>1. Tail(D)[2] = D[3] /\ 3 <= Len(D) /\ 2 <= Len(Tail(D))
            BY <1>1, <1>6, <1>7, <2>1
        <3> QED
            BY <3>1 DEF Part
    <2>2. CASE ~(2 <= Len(D) - 1)
        BY <1>1, <1>7, <2>2 DEF Part
    <2> QED
        BY <2>1, <2>2
<1>5. \A c : Part(Tail(D), 3, c) = 0
    BY <1>1, <1>7 DEF Part
<1> QED
    BY <1>1, <1>7, <1>2, <1>3, <1>4, <1>5

\* A delta that is not applied leaves the rest one unit off.
LEMMA AheadSkip ==
    ASSUME NEW y \in [Clans -> Int], NEW D \in Seq(Moves), D # << >>, Len(D) <= 3
    PROVE  /\ Size(Ahead(y, Tail(D))) <= Size(Ahead(y, D)) + 1
           /\ Size(Ahead(y, D)) <= Size(Ahead(y, Tail(D))) + 1
<1> DEFINE e == Head(D)[1]
<1>0. Head(D)[2] \in {-1, 1}
    BY FirstPart DEF Moves
<1>6. Tail(D) \in Seq(Moves)
    BY FirstPart
<1>4. Ahead(y, D) \in [Clans -> Int] /\ Ahead(y, Tail(D)) \in [Clans -> Int]
    BY <1>6, AheadType
<1>7. \A c \in Clans :
         /\ Ahead(y, D)[c] = y[c] + Part(D, 1, c) + Part(D, 2, c) + Part(D, 3, c)
         /\ Ahead(y, Tail(D))[c] = y[c] + Part(Tail(D), 1, c) + Part(Tail(D), 2, c)
                                  + Part(Tail(D), 3, c)
    BY <1>6, AheadType, Zenon
<1>2. \A c :  /\ Part(D, 1, c) = IF e = c THEN Head(D)[2] ELSE 0
              /\ Part(Tail(D), 1, c) = Part(D, 2, c)
              /\ Part(Tail(D), 2, c) = Part(D, 3, c)
              /\ Part(Tail(D), 3, c) = 0
    BY FirstPart
<1>1. \A c \in Clans :
         /\ Ahead(y, D)[c] = y[c] + Part(D, 1, c) + Part(D, 2, c) + Part(D, 3, c)
         /\ Ahead(y, Tail(D))[c] = y[c] + Part(D, 2, c) + Part(D, 3, c) + 0
    <2> TAKE c \in Clans
    <2> QED
        BY <1>2, <1>7
<1>3. \A c : Part(D, 2, c) \in Int /\ Part(D, 3, c) \in Int
    BY PartType
<1> HIDE DEF e
<1>5. /\ Near(Ahead(y, D), Ahead(y, Tail(D)), e)
      /\ Near(Ahead(y, Tail(D)), Ahead(y, D), e)
    <2>1. ASSUME NEW c \in Clans
          PROVE  /\ c = e => /\ Ahead(y, D)[c] - 1 <= Ahead(y, Tail(D))[c]
                             /\ Ahead(y, Tail(D))[c] <= Ahead(y, D)[c] + 1
                             /\ Ahead(y, Tail(D))[c] - 1 <= Ahead(y, D)[c]
                             /\ Ahead(y, D)[c] <= Ahead(y, Tail(D))[c] + 1
                 /\ c # e => Ahead(y, Tail(D))[c] = Ahead(y, D)[c]
        <3>1. y[c] \in Int /\ Part(D, 2, c) \in Int /\ Part(D, 3, c) \in Int
            BY <1>3
        <3>2. Part(D, 1, c) = IF e = c THEN Head(D)[2] ELSE 0
            BY <1>2
        <3> DEFINE n == Head(D)[2]
                   a == y[c]
                   p == Part(D, 1, c)
                   q == Part(D, 2, c)
                   t == Part(D, 3, c)
                   u == Ahead(y, D)[c]
                   v == Ahead(y, Tail(D))[c]
        <3>3. n \in {-1, 1}
            BY <1>0
        <3>4. u = a + p + q + t /\ v = a + q + t + 0 /\ a \in Int /\ q \in Int /\ t \in Int
            BY <1>1, <3>1, Zenon
        <3>5. p = IF e = c THEN n ELSE 0
            BY <3>2, Zenon
        <3> HIDE DEF n, a, p, q, t, u, v
        <3>6. /\ c = e => u - 1 <= v /\ v <= u + 1 /\ v - 1 <= u /\ u <= v + 1
              /\ c # e => v = u
            BY <3>3, <3>4, <3>5
        <3> QED
            BY <3>6, Zenon DEF u, v
    <2> QED
        BY <2>1 DEF Near
<1> QED
    BY <1>4, <1>5, SizeStep

\* A delta that is applied takes what is left with it.
LEMMA AheadTake ==
    ASSUME NEW y \in [Clans -> Int], NEW D \in Seq(Moves), D # << >>, Len(D) <= 3,
           NEW z \in [Clans -> Int],
           \A c \in Clans : z[c] = y[c] + (IF Head(D)[1] = c THEN Head(D)[2] ELSE 0)
    PROVE  Ahead(z, Tail(D)) = Ahead(y, D)
<1>0. Tail(D) \in Seq(Moves)
    BY FirstPart
<1>1. /\ Ahead(y, D) \in [Clans -> Int] /\ Ahead(z, Tail(D)) \in [Clans -> Int]
      /\ \A c \in Clans :
             /\ Ahead(y, D)[c] = y[c] + Part(D, 1, c) + Part(D, 2, c) + Part(D, 3, c)
             /\ Ahead(z, Tail(D))[c] = z[c] + Part(Tail(D), 1, c) + Part(Tail(D), 2, c)
                                      + Part(Tail(D), 3, c)
    BY <1>0, AheadType, Zenon
<1>5. \A c :  /\ Part(D, 1, c) = IF Head(D)[1] = c THEN Head(D)[2] ELSE 0
              /\ Part(Tail(D), 1, c) = Part(D, 2, c)
              /\ Part(Tail(D), 2, c) = Part(D, 3, c)
              /\ Part(Tail(D), 3, c) = 0
    BY FirstPart
<1>3. \A c : Part(D, 1, c) \in Int /\ Part(D, 2, c) \in Int /\ Part(D, 3, c) \in Int
    BY PartType
<1>4. \A c \in Clans : Ahead(z, Tail(D))[c] = Ahead(y, D)[c]
    <2> TAKE c \in Clans
    <2>1. /\ y[c] \in Int /\ z[c] \in Int /\ z[c] = y[c] + Part(D, 1, c)
          /\ Part(D, 1, c) \in Int /\ Part(D, 2, c) \in Int /\ Part(D, 3, c) \in Int
        BY <1>3, <1>5
    <2>2. /\ Ahead(y, D)[c] = y[c] + Part(D, 1, c) + Part(D, 2, c) + Part(D, 3, c)
          /\ Ahead(z, Tail(D))[c] = z[c] + Part(D, 2, c) + Part(D, 3, c) + 0
        BY <1>1, <1>5
    <2> QED
        BY <2>1, <2>2
<1> QED
    BY <1>1, <1>4

\* Deltas that are never applied leave as many units off.
LEMMA AheadDropped ==
    ASSUME NEW y \in [Clans -> Int], NEW D \in Seq(Moves), Len(D) <= 3
    PROVE  Size(y) <= Size(Ahead(y, D)) + Len(D)
<1> DEFINE A(d) == Size(Ahead(y, d))
<1>0. \A d \in Seq(Moves) : A(d) \in Nat
    BY AheadType, PileFinite
<1>1. \A d \in Seq(Moves) : d # << >> /\ Len(d) <= 3 => A(Tail(d)) <= A(d) + 1
    BY AheadSkip
<1>2. A(<< >>) = Size(y)
    BY AheadEmpty
<1>10. Size(y) \in Nat
    BY PileFinite
<1>3. \A d \in Seq(Moves) : d # << >> /\ Len(d) <= 3
          => Tail(d) \in Seq(Moves) /\ Len(Tail(d)) = Len(d) - 1 /\ Len(d) \in Nat
    OBVIOUS
<1> HIDE DEF A
<1>4. \A d \in Seq(Moves) : Len(d) = 0 => d = << >>
    OBVIOUS
<1>11. << >> \in Seq(Moves) /\ Len(<< >>) = 0
    OBVIOUS
<1>5. \A d \in Seq(Moves) : Len(d) = 0 => Size(y) <= A(d)
    BY <1>0, <1>2, <1>4, <1>10
<1>12. ASSUME NEW n \in 0..2, \A d \in Seq(Moves) : Len(d) = n => Size(y) <= A(d) + n
       PROVE  \A d \in Seq(Moves) : Len(d) = n + 1 => Size(y) <= A(d) + n + 1
    <2> SUFFICES ASSUME NEW d \in Seq(Moves), Len(d) = n + 1
                 PROVE  Size(y) <= A(d) + n + 1
        OBVIOUS
    <2>1. d # << >> /\ Len(d) <= 3
        BY <1>11
    <2>2. Tail(d) \in Seq(Moves) /\ Len(Tail(d)) = n
        BY <2>1, <1>3
    <2>3. A(Tail(d)) <= A(d) + 1 /\ Size(y) <= A(Tail(d)) + n
        BY <2>1, <2>2, <1>1, <1>12
    <2>4. A(d) \in Nat /\ A(Tail(d)) \in Nat
        BY <1>0, <2>2
    <2> QED
        BY <2>3, <2>4, <1>10
<1>6. \A d \in Seq(Moves) : Len(d) = 1 => Size(y) <= A(d) + 1
    BY <1>0, <1>5, <1>12
<1>7. \A d \in Seq(Moves) : Len(d) = 2 => Size(y) <= A(d) + 2
    BY <1>0, <1>6, <1>12
<1>8. \A d \in Seq(Moves) : Len(d) = 3 => Size(y) <= A(d) + 3
    BY <1>0, <1>7, <1>12
<1>9. Len(D) \in 0..3
    <2>1. Len(D) \in Nat
        OBVIOUS
    <2>2. \A n \in Nat : n <= 3 => n \in 0..3
        OBVIOUS
    <2> QED
        BY <2>1, <2>2, Zenon
<1>14. \A n \in 0..3 : n = 0 \/ n = 1 \/ n = 2 \/ n = 3
    OBVIOUS
<1>15. Len(D) = 0 \/ Len(D) = 1 \/ Len(D) = 2 \/ Len(D) = 3
    BY <1>9, <1>14, Zenon
<1>16. A(D) \in Nat /\ (Len(D) = 0 => Size(y) <= A(D) + 0)
    BY <1>0, <1>5
<1>17. Size(y) <= A(D) + Len(D)
    BY <1>6, <1>7, <1>8, <1>15, <1>16, Zenon
<1> QED
    BY <1>17 DEF A

\* What a sequence of three deltas at most moves at c.
Effect(D, c) == Part(D, 1, c) + Part(D, 2, c) + Part(D, 3, c)

LEMMA PartConcat ==
    ASSUME NEW u \in Seq(Moves), NEW v \in Seq(Moves), NEW i \in Nat \ {0}, NEW c
    PROVE  Part(u \o v, i, c) = IF i <= Len(u) THEN Part(u, i, c) ELSE Part(v, i - Len(u), c)
<1> DEFINE w == u \o v
           m == Len(u)
           n == Len(v)
<1>1. /\ Len(w) = m + n
      /\ \A j \in 1..m + n : w[j] = IF j <= m THEN u[j] ELSE v[j - m]
    BY ConcatProperties, Zenon
<1>2. m \in Nat /\ n \in Nat
    OBVIOUS
<1>3. Part(w, i, c) = IF i <= Len(w) /\ w[i][1] = c THEN w[i][2] ELSE 0
    BY DEF Part
<1>4. Part(u, i, c) = IF i <= m /\ u[i][1] = c THEN u[i][2] ELSE 0
    BY DEF Part
<1>5. Part(v, i - m, c) = IF i - m <= n /\ v[i - m][1] = c THEN v[i - m][2] ELSE 0
    BY DEF Part
<1> HIDE DEF w, m, n
<1>6. CASE i <= m
    <2>1. i \in 1..m + n /\ i <= m + n
        BY <1>2, <1>6
    <2>2. w[i] = u[i]
        BY <1>1, <1>6, <2>1
    <2>3. Part(w, i, c) = Part(u, i, c)
        BY <1>1, <1>3, <1>4, <1>6, <2>1, <2>2
    <2> QED
        BY <2>3, <1>6 DEF w, m
<1>7. CASE ~(i <= m) /\ i <= m + n
    <2>1. i \in 1..m + n /\ i - m <= n
        BY <1>2, <1>7
    <2>2. w[i] = v[i - m]
        BY <1>1, <1>7, <2>1
    <2>3. Part(w, i, c) = Part(v, i - m, c)
        BY <1>1, <1>3, <1>5, <1>7, <2>1, <2>2
    <2> QED
        BY <2>3, <1>7 DEF w, m
<1>8. CASE ~(i <= m) /\ ~(i <= m + n)
    <2>1. ~(i - m <= n)
        BY <1>2, <1>8
    <2>2. Part(w, i, c) = Part(v, i - m, c)
        BY <1>1, <1>3, <1>5, <1>8, <2>1
    <2> QED
        BY <2>2, <1>8 DEF w, m
<1> QED
    BY <1>6, <1>7, <1>8

LEMMA PartBeyond ==
    ASSUME NEW D, NEW i, NEW c, ~(i <= Len(D))
    PROVE  Part(D, i, c) = 0
BY DEF Part

\* Effects add up.
LEMMA EffectConcat ==
    ASSUME NEW u \in Seq(Moves), NEW v \in Seq(Moves), Len(u) + Len(v) <= 3, NEW c
    PROVE  Effect(u \o v, c) = Effect(u, c) + Effect(v, c)
<1> DEFINE P(i) == Part(u \o v, i, c)
           Q(i) == Part(u, i, c)
           R(i) == Part(v, i, c)
           m == Len(u)
           n == Len(v)
<1>1. \A i \in Nat \ {0} : P(i) = IF i <= m THEN Q(i) ELSE R(i - m)
    BY PartConcat, Zenon
<1>2. \A i \in Nat : ~(i <= m) => Q(i) = 0
    BY PartBeyond
<1>3. \A i \in Nat : ~(i <= n) => R(i) = 0
    BY PartBeyond
<1>4. m \in Nat /\ n \in Nat /\ m + n <= 3
    OBVIOUS
<1>5. \A i \in Nat \ {0} : Q(i) \in Int /\ R(i) \in Int
    BY PartType
<1> HIDE DEF P, Q, R, m, n
<1>6. P(1) + P(2) + P(3) = (Q(1) + Q(2) + Q(3)) + (R(1) + R(2) + R(3))
    <2>1. CASE m = 0
        BY <1>1, <1>2, <1>3, <1>4, <1>5, <2>1
    <2>2. CASE m = 1
        BY <1>1, <1>2, <1>3, <1>4, <1>5, <2>2
    <2>3. CASE m = 2
        BY <1>1, <1>2, <1>3, <1>4, <1>5, <2>3
    <2>4. CASE m = 3
        BY <1>1, <1>2, <1>3, <1>4, <1>5, <2>4
    <2> QED
        BY <1>4, <2>1, <2>2, <2>3, <2>4
<1> QED
    BY <1>6 DEF Effect, P, Q, R

LEMMA DeltaEffect ==
    ASSUME NEW b \in BOOLEAN, NEW x, NEW n \in {-1, 1}, b => x \in Clans
    PROVE  /\ Delta(b, x, n) \in Seq(Moves)
           /\ Len(Delta(b, x, n)) = Bit(b)
           /\ \A c : Effect(Delta(b, x, n), c) = IF b /\ x = c THEN n ELSE 0
<1>1. CASE b
    <2>1. Delta(b, x, n) = << <<x, n>> >> /\ <<x, n>> \in Moves
        BY <1>1 DEF Delta, Moves
    <2>2. /\ << <<x, n>> >> \in Seq(Moves) /\ Len(<< <<x, n>> >>) = 1
          /\ << <<x, n>> >>[1] = <<x, n>>
        BY <2>1
    <2>3. \A c : Effect(<< <<x, n>> >>, c) = IF x = c THEN n ELSE 0
        BY <2>2 DEF Effect, Part
    <2> QED
        BY <1>1, <2>1, <2>2, <2>3 DEF Bit
<1>2. CASE ~b
    <2>1. Delta(b, x, n) = << >> /\ << >> \in Seq(Moves) /\ Len(<< >>) = 0
        BY <1>2 DEF Delta
    <2>2. \A c : Effect(<< >>, c) = 0
        BY <2>1 DEF Effect, Part
    <2> QED
        BY <1>2, <2>1, <2>2 DEF Bit
<1> QED
    BY <1>1, <1>2

\* The two tags that are no clan's, by name.
NoClan == ""
Nowhere == "NONE"

LEMMA NoClanFacts == NoClan \notin Clans /\ Nowhere \notin Clans
BY TagFacts DEF NoClan, Nowhere

\* A placement, the former one, and the clan of a hold.
Places(t, p, o) ==
    /\ t # Nowhere => t \in Clans
    /\ p \notin {NoClan, Nowhere} => p \in Clans
    /\ o # NoClan => o \in Clans

\* The former placement has a seat to give back besides the hold's.
Third(t, p, o) == p \in Clans /\ p # t /\ p # o /\ t # Nowhere

\* What a decision does.  It misses the former placement when the recruit goes
\* nowhere and has a hold, or when the former placement is the hold's clan.
Decided(D, t, p, o) ==
    /\ Len(D) \in 0..3
    /\ Len(D) = 3 => o # NoClan /\ Third(t, p, o)
    /\ o = NoClan => \A c \in Clans : Effect(D, c) = Bit(c = p) - Bit(c = t)
    /\ o # NoClan => \A c \in Clans :
                     Effect(D, c) = Bit(c = o) - Bit(c = t) + Bit(c = p /\ Third(t, p, o))

LEMMA DecisionEffect ==
    ASSUME NEW t, NEW p, NEW o, Places(t, p, o)
    PROVE  Decided(Decision(t, p, o), t, p, o)
<1> DEFINE D == Decision(t, p, o)
           noHold == o = NoClan
           nowhere == t = Nowhere
           moved == p \in Clans /\ p # t
           lost == t \in Clans /\ t # p
           third == Third(t, p, o)
           dp == Delta(moved, p, 1)
           dq == Delta(moved /\ p # o, p, 1)
           dl == Delta(lost, t, -1)
           dt == Delta(TRUE, t, -1)
           dh == Delta(TRUE, o, 1)
           L(d) == Len(d)
           Q == Seq(Moves)
           goal == /\ L(D) \in 0..3
                   /\ L(D) = 3 => ~noHold /\ third
                   /\ noHold => \A c \in Clans : Effect(D, c) = Bit(c = p) - Bit(c = t)
                   /\ ~noHold => \A c \in Clans :
                         Effect(D, c) = Bit(c = o) - Bit(c = t) + Bit(c = p /\ third)
<1>1. /\ dp \in Q /\ L(dp) = Bit(moved)
      /\ \A c : Effect(dp, c) = Bit(moved /\ p = c)
    BY DeltaEffect DEF Bit
<1>2. /\ dq \in Q /\ L(dq) = Bit(moved /\ p # o)
      /\ \A c : Effect(dq, c) = Bit(moved /\ p # o /\ p = c)
    BY DeltaEffect DEF Bit
<1>3. /\ dl \in Q /\ L(dl) = Bit(lost)
      /\ \A c : Effect(dl, c) = -Bit(lost /\ t = c)
    <2>1. /\ dl \in Q /\ L(dl) = Bit(lost)
          /\ \A c : Effect(dl, c) = IF lost /\ t = c THEN -1 ELSE 0
        <3>1. -1 \in {-1, 1} /\ lost \in BOOLEAN
            OBVIOUS
        <3> HIDE DEF lost
        <3>2. lost => t \in Clans
            BY DEF lost
        <3> QED
            BY <3>1, <3>2, DeltaEffect
    <2>2. \A b : (IF b THEN -1 ELSE 0) = -Bit(b)
        BY DEF Bit
    <2> QED
        BY <2>1, <2>2, Zenon
<1>4. ~nowhere => /\ dt \in Q /\ L(dt) = 1
                  /\ \A c : Effect(dt, c) = -Bit(t = c)
    <2>1. -1 \in {-1, 1} /\ TRUE \in BOOLEAN /\ (~nowhere => t \in Clans)
        BY DEF Places
    <2> HIDE DEF nowhere
    <2>2. ~nowhere => /\ dt \in Q /\ L(dt) = Bit(TRUE)
                      /\ \A c : Effect(dt, c) = IF TRUE /\ t = c THEN -1 ELSE 0
        BY <2>1, DeltaEffect
    <2>3. \A c : (IF TRUE /\ t = c THEN -1 ELSE 0) = -Bit(t = c)
        BY DEF Bit
    <2>4. Bit(TRUE) = 1
        BY DEF Bit
    <2> QED
        BY <2>2, <2>3, <2>4, Zenon
<1>5. ~noHold => /\ dh \in Q /\ L(dh) = 1
                 /\ \A c : Effect(dh, c) = Bit(o = c)
    BY DeltaEffect DEF Places, Bit
<1>6. noHold => D = dp \o dl
    BY DEF Decision, NoClan, Nowhere
<1>7. ~noHold /\ nowhere => D = dh
    BY TagFacts DEF Decision, Places, NoClan, Nowhere
<1>8. ~noHold /\ ~nowhere /\ t = o => D = dp
    BY DEF Decision, NoClan, Nowhere
<1>9. ~noHold /\ ~nowhere /\ t # o => D = (dh \o dq) \o dt
    BY DEF Decision, NoClan, Nowhere
<1>10. \A u, v \in Q : /\ u \o v \in Q /\ L(u \o v) = L(u) + L(v)
                       /\ L(u) + L(v) <= 3
                          => \A c : Effect(u \o v, c) = Effect(u, c) + Effect(v, c)
    <2>1. \A u, v \in Q : u \o v \in Q /\ L(u \o v) = L(u) + L(v)
        BY ConcatProperties, Zenon
    <2>2. \A u, v \in Q : L(u) + L(v) <= 3
               => \A c : Effect(u \o v, c) = Effect(u, c) + Effect(v, c)
        BY EffectConcat, Zenon
    <2> QED
        BY <2>1, <2>2, Zenon
<1>11. \A b : Bit(b) \in 0..1 /\ (b => Bit(b) = 1) /\ (~b => Bit(b) = 0)
    BY DEF Bit
<1>12. /\ nowhere => \A c \in Clans : c # t
       /\ moved <=> p \in Clans /\ p # t
       /\ lost <=> t \in Clans /\ t # p
       /\ third <=> moved /\ p # o /\ ~nowhere
       /\ ~nowhere => t \in Clans
    BY NoClanFacts DEF Places, Third
<1> HIDE DEF D, dp, dq, dl, dt, dh, L, Q, noHold, nowhere, moved, lost, third
<1>13. ASSUME noHold PROVE goal
    <2>1. L(dp) + L(dl) \in 0..2
        BY <1>1, <1>3, <1>11
    <2>2. L(D) \in 0..2
        BY <1>1, <1>3, <1>6, <1>10, <1>13, <2>1
    <2>3. \A c : Effect(D, c) = Bit(moved /\ p = c) - Bit(lost /\ t = c)
        <3>1. \A c : Effect(D, c) = Effect(dp, c) + Effect(dl, c)
            <4>1. dp \in Q /\ dl \in Q /\ L(dp) + L(dl) <= 3 /\ D = dp \o dl
                BY <1>1, <1>3, <1>6, <1>13, <2>1
            <4> QED
                BY <1>10, <4>1, Zenon
        <3> QED
            BY <1>1, <1>3, <1>11, <3>1
    <2>4. \A c \in Clans : Effect(D, c) = Bit(c = p) - Bit(c = t)
        BY <1>12, <2>3 DEF Bit
    <2> QED
        BY <1>13, <2>2, <2>4
<1>14. ASSUME ~noHold, nowhere PROVE goal
    <2>1. \A c \in Clans : Effect(D, c) = Bit(c = o) - Bit(c = t) + Bit(c = p /\ third)
        BY <1>5, <1>7, <1>12, <1>14 DEF Bit
    <2>2. L(D) = 1
        BY <1>5, <1>7, <1>14
    <2> QED
        BY <1>14, <2>1, <2>2
<1>15. ASSUME ~noHold, ~nowhere, t = o PROVE goal
    <2>1. \A c \in Clans : Effect(D, c) = Bit(c = o) - Bit(c = t) + Bit(c = p /\ third)
        BY <1>1, <1>8, <1>12, <1>15 DEF Bit
    <2>2. L(D) \in 0..1
        BY <1>1, <1>8, <1>11, <1>15
    <2> QED
        BY <1>15, <2>1, <2>2
<1>16. ASSUME ~noHold, ~nowhere, t # o PROVE goal
    <2>1. /\ dh \o dq \in Q /\ L(dh \o dq) = 1 + L(dq)
          /\ \A c : Effect(dh \o dq, c) = Effect(dh, c) + Effect(dq, c)
        <3>1. L(dh) + L(dq) <= 3 /\ L(dh) = 1 /\ dh \in Q /\ dq \in Q
            BY <1>2, <1>5, <1>11, <1>16
        <3> QED
            BY <1>10, <3>1
    <2>2. L(dq) = Bit(moved /\ p # o) /\ L(dq) \in 0..1
        BY <1>2, <1>11
    <2>3. /\ L(D) = 2 + L(dq)
          /\ \A c : Effect(D, c) = Effect(dh, c) + Effect(dq, c) + Effect(dt, c)
        <3>1. /\ L(dh \o dq) + L(dt) <= 3 /\ L(dh \o dq) + L(dt) = 2 + L(dq)
              /\ dt \in Q /\ D = (dh \o dq) \o dt
            BY <1>4, <1>9, <1>16, <2>1, <2>2
        <3> QED
            BY <1>10, <2>1, <3>1
    <2>4. \A c : Effect(D, c) = Bit(o = c) + Bit(moved /\ p # o /\ p = c) - Bit(t = c)
        <3>1. \A c : /\ Effect(dh, c) = Bit(o = c) /\ Effect(dt, c) = -Bit(t = c)
                     /\ Effect(dq, c) = Bit(moved /\ p # o /\ p = c)
            BY <1>2, <1>4, <1>5, <1>16
        <3> QED
            BY <1>11, <2>3, <3>1
    <2>5. \A c \in Clans : Effect(D, c) = Bit(c = o) - Bit(c = t) + Bit(c = p /\ third)
        BY <1>12, <1>16, <2>4 DEF Bit
    <2>6. L(D) \in 2..3 /\ (L(D) = 3 => third)
        <3>1. L(D) = 2 + L(dq) /\ L(dq) \in 0..1
            BY <2>2, <2>3
        <3>2. L(D) \in 2..3 /\ (L(D) = 3 => L(dq) = 1)
            BY <3>1
        <3>3. L(dq) = 1 => moved /\ p # o
            BY <2>2 DEF Bit
        <3> QED
            BY <1>12, <1>16, <3>2, <3>3
    <2> QED
        BY <1>16, <2>5, <2>6
<1>17. goal
    BY <1>13, <1>14, <1>15, <1>16
<1> QED
    BY <1>17 DEF D, L, noHold, third, Decided

-------------------------------------------------------------------------------
(* What a failed call or a restart can still spoil, step by step.             *)

\* The seats that are off, and the hold that a recorded placement left active.
Debt(s, o, a, k) == Size(Off(s, o, a, k)) + Bit(a /\ k # NoClan)

\* What is off once a finalization with tag t is through, if nothing fails: the
\* seats, a hold it did not see, and one more when it has three deltas to apply,
\* of which a restart can drop them all.
Rest(D) == Bit(Len(D) = 3)
Outlook(s, o, a, seen, t, D) ==
    Size(Ahead(Off(s, o, a /\ ~seen, t), D)) + Bit(a /\ ~seen) + Rest(D)

LEMMA BitRange == \A b : Bit(b) \in 0..1 /\ (b => Bit(b) = 1) /\ (~b => Bit(b) = 0)
BY DEF Bit

LEMMA DebtType ==
    ASSUME NEW s \in [Clans -> Int], NEW o, NEW a \in BOOLEAN, NEW k
    PROVE  Debt(s, o, a, k) \in Nat /\ Size(Off(s, o, a, k)) \in Nat
<1>1. Size(Off(s, o, a, k)) \in Nat
    BY OffType, PileFinite
<1>2. Bit(a /\ k # NoClan) \in 0..1
    BY BitRange, Zenon
<1>3. \A m \in Nat, b \in 0..1 : m + b \in Nat
    OBVIOUS
<1> QED
    BY <1>1, <1>2, <1>3, Zenon DEF Debt

LEMMA OutlookType ==
    ASSUME NEW s \in [Clans -> Int], NEW o, NEW a \in BOOLEAN, NEW seen \in BOOLEAN, NEW t,
           NEW D \in Seq(Moves)
    PROVE  /\ Size(Ahead(Off(s, o, a /\ ~seen, t), D)) \in Nat
           /\ Outlook(s, o, a, seen, t, D) \in Nat
<1>1. (a /\ ~seen) \in BOOLEAN
    OBVIOUS
<1>2. Off(s, o, a /\ ~seen, t) \in [Clans -> Int]
    BY <1>1, OffType
<1>3. Size(Ahead(Off(s, o, a /\ ~seen, t), D)) \in Nat
    BY <1>2, AheadType, PileFinite
<1> QED
    BY <1>3, BitRange DEF Outlook, Rest

\* Two functions of which one adds a bit at c, and the other none, are near.
LEMMA NearByBit ==
    ASSUME NEW s \in [Clans -> Int], NEW c, NEW b, NEW y, NEW z,
           \A d \in Clans : b[d] \in 0..1 /\ (d # c => b[d] = 0),
           \A d \in Clans : y[d] = s[d] + b[d] /\ z[d] = s[d]
    PROVE  Near(y, z, c) /\ Near(z, y, c)
<1>1. ASSUME NEW d \in Clans
      PROVE  /\ d = c => y[d] - 1 <= z[d] /\ z[d] <= y[d] + 1 /\ z[d] - 1 <= y[d] /\ y[d] <= z[d] + 1
             /\ d # c => z[d] = y[d]
    <2>1. s[d] \in Int /\ b[d] \in 0..1 /\ (d # c => b[d] = 0) /\ y[d] = s[d] + b[d] /\ z[d] = s[d]
        OBVIOUS
    <2> QED
        BY <2>1
<1> QED
    BY <1>1 DEF Near

\* A settled hold, or one that is not, is a unit at its clan.
LEMMA OffHold ==
    ASSUME NEW s \in [Clans -> Int], NEW o, NEW k
    PROVE  /\ Near(Off(s, o, TRUE, k), Off(s, o, FALSE, k), o)
           /\ Near(Off(s, o, FALSE, k), Off(s, o, TRUE, k), o)
<1> DEFINE y == Off(s, o, TRUE, k)
           z == Off(s, o, FALSE, k)
           b == [d \in Clans |-> Bit(d = o)]
<1>1. y \in [Clans -> Int] /\ z \in [Clans -> Int]
    BY OffType
<1>2. \A d \in Clans : y[d] = z[d] + b[d] /\ z[d] = z[d]
    BY DEF Off, Bit
<1>3. \A d \in Clans : b[d] \in 0..1 /\ (d # o => b[d] = 0)
    BY BitRange
<1> HIDE DEF y, z, b
<1>4. Near(y, z, o) /\ Near(z, y, o)
    BY <1>1, <1>2, <1>3, NearByBit
<1> QED
    BY <1>4 DEF y, z

\* So is a placement.
LEMMA OffPlace ==
    ASSUME NEW s \in [Clans -> Int], NEW o, NEW a \in BOOLEAN, NEW k, NEW n, n \notin Clans
    PROVE  /\ Near(Off(s, o, a, k), Off(s, o, a, n), k)
           /\ Near(Off(s, o, a, n), Off(s, o, a, k), k)
<1> DEFINE y == Off(s, o, a, k)
           z == Off(s, o, a, n)
           b == [d \in Clans |-> Bit(d = k)]
<1>1. y \in [Clans -> Int] /\ z \in [Clans -> Int]
    BY OffType
<1>2. \A d \in Clans : y[d] = z[d] + b[d] /\ z[d] = z[d]
    BY DEF Off, Bit
<1>3. \A d \in Clans : b[d] \in 0..1 /\ (d # k => b[d] = 0)
    BY BitRange
<1> HIDE DEF y, z, b
<1>4. Near(y, z, k) /\ Near(z, y, k)
    BY <1>1, <1>2, <1>3, NearByBit
<1> QED
    BY <1>4 DEF y, z

\* A placement that is recorded, with nothing moved for it, or moved away from
\* the former one: two units at most, the active hold included.
LEMMA Switch ==
    ASSUME NEW s \in [Clans -> Int], NEW o, NEW a \in BOOLEAN, NEW k, NEW t
    PROVE  Size(Off(s, o, a, t)) + Bit(a) <= Debt(s, o, a, k) + 2
<1> DEFINE A == Size(Off(s, o, a, k))
           B == Size(Off(s, o, a, NoClan))
           C == Size(Off(s, o, a, t))
           bare == k = NoClan
<1>1. A \in Nat /\ B \in Nat /\ C \in Nat
    BY DebtType
<1>2. B <= A + 1 /\ C <= B + 1
    BY OffPlace, OffType, SizeStep, NoClanFacts
<1>3. bare => B = A
    OBVIOUS
<1>4. Debt(s, o, a, k) = A + Bit(a /\ ~bare)
    BY DEF Debt
<1> HIDE DEF A, B, C, bare
<1>5. /\ Bit(a) \in 0..1 /\ Bit(a /\ ~bare) \in 0..1
      /\ ~bare => Bit(a /\ ~bare) = Bit(a)
    BY DEF Bit
<1>6. C + Bit(a) <= Debt(s, o, a, k) + 2
    BY <1>1, <1>2, <1>3, <1>4, <1>5
<1> QED
    BY <1>6 DEF C

LEMMA DecidedType ==
    ASSUME NEW t, NEW p, NEW o, Places(t, p, o)
    PROVE  Decision(t, p, o) \in Seq(Moves)
<1>1. t \in Tags /\ p \in Tags \cup {""} /\ o \in Clans \cup {""}
    BY DEF Places, Tags, NoClan, Nowhere
<1> QED
    BY <1>1, DecisionType

LEMMA AheadNear ==
    ASSUME NEW y \in [Clans -> Int], NEW z \in [Clans -> Int], NEW e, Near(y, z, e),
           NEW D \in Seq(Moves)
    PROVE  Near(Ahead(y, D), Ahead(z, D), e)
<1> DEFINE w == [c \in Clans |-> Effect(D, c)]
           u == Ahead(y, D)
           v == Ahead(z, D)
<1>1. \A c : Part(D, 1, c) \in Int /\ Part(D, 2, c) \in Int /\ Part(D, 3, c) \in Int
    BY PartType
<1>2. \A c \in Clans : w[c] \in Int
    BY <1>1 DEF Effect
<1>3. \A c \in Clans : u[c] = y[c] + w[c] /\ v[c] = z[c] + w[c]
    BY <1>1 DEF Ahead, Effect
<1> HIDE DEF u, v, w
<1>4. Near(u, v, e)
    <2>1. ASSUME NEW c \in Clans
          PROVE  /\ c = e => u[c] - 1 <= v[c] /\ v[c] <= u[c] + 1
                 /\ c # e => v[c] = u[c]
        <3>1. /\ y[c] \in Int /\ z[c] \in Int /\ w[c] \in Int
              /\ u[c] = y[c] + w[c] /\ v[c] = z[c] + w[c]
              /\ c = e => y[c] - 1 <= z[c] /\ z[c] <= y[c] + 1
              /\ c # e => z[c] = y[c]
            BY <1>2, <1>3 DEF Near
        <3> QED
            BY <3>1
    <2> QED
        BY <2>1 DEF Near
<1> QED
    BY <1>4 DEF u, v

LEMMA AheadEffect ==
    ASSUME NEW y \in [Clans -> Int], NEW z \in [Clans -> Int], NEW D \in Seq(Moves),
           \A c \in Clans : z[c] = y[c] + Effect(D, c)
    PROVE  Ahead(y, D) = z
<1>1. \A c : Part(D, 1, c) \in Int /\ Part(D, 2, c) \in Int /\ Part(D, 3, c) \in Int
    BY PartType
<1>2. \A c \in Clans : y[c] + Part(D, 1, c) + Part(D, 2, c) + Part(D, 3, c) = z[c]
    BY <1>1 DEF Effect
<1>3. \A c \in Clans : Ahead(y, D)[c] = z[c]
    BY <1>2 DEF Ahead
<1>4. Ahead(y, D) \in [Clans -> Int]
    BY AheadType
<1> QED
    BY <1>3, <1>4

\* z gains k and loses t.
Swapped(y, z, k, t) == \A c \in Clans : z[c] = y[c] + (Bit(c = k) - Bit(c = t))

LEMMA OffSwap ==
    ASSUME NEW s \in [Clans -> Int], NEW o, NEW a, NEW k, NEW t
    PROVE  Swapped(Off(s, o, a, t), Off(s, o, a, k), k, t)
BY DEF Off, Bit, Swapped

\* z gains o and k and loses t.
Retaken(y, z, o, k, t) ==
    \A c \in Clans : z[c] = y[c] + (Bit(c = o) - Bit(c = t) + Bit(c = k))

LEMMA OffTaken ==
    ASSUME NEW s \in [Clans -> Int], NEW o, NEW k, NEW t
    PROVE  Retaken(Off(s, o, FALSE, t), Off(s, o, TRUE, k), o, k, t)
BY DEF Off, Bit, Retaken

\* What a decision leaves ahead, for a hold in o that it does not see, or sees.
LEMMA DecidedBlind ==
    ASSUME NEW s \in [Clans -> Int], NEW o, NEW a \in BOOLEAN, NEW t, NEW p,
           NEW D \in Seq(Moves), Decided(D, t, p, NoClan)
    PROVE  Ahead(Off(s, o, a, t), D) = Off(s, o, a, p)
<1>1. \A c \in Clans : Effect(D, c) = Bit(c = p) - Bit(c = t)
    BY Zenon DEF Decided
<1>2. \A c \in Clans : Off(s, o, a, p)[c] = Off(s, o, a, t)[c] + Effect(D, c)
    <2>1. \A c \in Clans : Off(s, o, a, p)[c] = Off(s, o, a, t)[c] + (Bit(c = p) - Bit(c = t))
        <3>1. Swapped(Off(s, o, a, t), Off(s, o, a, p), p, t)
            BY OffSwap, Zenon
        <3> QED
            BY <3>1, Zenon DEF Swapped
    <2> TAKE c \in Clans
    <2>2. Effect(D, c) = Bit(c = p) - Bit(c = t)
        BY <1>1
    <2> QED
        BY <2>1, <2>2, Zenon
<1>3. Off(s, o, a, t) \in [Clans -> Int] /\ Off(s, o, a, p) \in [Clans -> Int]
    BY OffType
<1> QED
    BY <1>2, <1>3, AheadEffect

LEMMA DecidedSeeing ==
    ASSUME NEW s \in [Clans -> Int], NEW o, NEW t, NEW p, o # NoClan,
           NEW D \in Seq(Moves), Decided(D, t, p, o)
    PROVE  /\ Third(t, p, o) => Ahead(Off(s, o, FALSE, t), D) = Off(s, o, TRUE, p)
           /\ ~Third(t, p, o) => Ahead(Off(s, o, FALSE, t), D) = Off(s, o, TRUE, NoClan)
<1>1. \A c \in Clans : Effect(D, c) = Bit(c = o) - Bit(c = t) + Bit(c = p /\ Third(t, p, o))
    BY Zenon DEF Decided
<1>2. ASSUME NEW k, (k = p /\ Third(t, p, o)) \/ (k \notin Clans /\ ~Third(t, p, o))
      PROVE  Ahead(Off(s, o, FALSE, t), D) = Off(s, o, TRUE, k)
    <2>1. \A c \in Clans : Bit(c = p /\ Third(t, p, o)) = Bit(c = k)
        BY <1>2 DEF Bit
    <2>2. \A c \in Clans : Effect(D, c) = Bit(c = o) - Bit(c = t) + Bit(c = k)
        BY <1>1, <2>1
    <2>3. \A c \in Clans : Off(s, o, TRUE, k)[c] = Off(s, o, FALSE, t)[c] + Effect(D, c)
        <3>1. Retaken(Off(s, o, FALSE, t), Off(s, o, TRUE, k), o, k, t)
            BY OffTaken, Zenon
        <3> TAKE c \in Clans
        <3>2. Effect(D, c) = Bit(c = o) - Bit(c = t) + Bit(c = k)
            BY <2>2
        <3>3. Off(s, o, TRUE, k)[c] = Off(s, o, FALSE, t)[c] + (Bit(c = o) - Bit(c = t) + Bit(c = k))
            BY <3>1, Zenon DEF Retaken
        <3> QED
            BY <3>2, <3>3, Zenon
    <2>4. Off(s, o, FALSE, t) \in [Clans -> Int] /\ Off(s, o, TRUE, k) \in [Clans -> Int]
        BY OffType
    <2> QED
        BY <2>3, <2>4, AheadEffect
<1>3. NoClan \notin Clans
    BY NoClanFacts
<1> QED
    BY <1>2, <1>3, Zenon

\* Two functions a unit apart, and a placement that is given up for none.
LEMMA Forgotten ==
    ASSUME NEW s \in [Clans -> Int], NEW o, NEW a \in BOOLEAN, NEW k
    PROVE  /\ Size(Off(s, o, a, NoClan)) <= Size(Off(s, o, a, k)) + 1
           /\ Size(Off(s, o, a, k)) <= Size(Off(s, o, a, NoClan)) + 1
BY OffPlace, OffType, SizeStep, NoClanFacts

\* The seats are decided with what is recorded of the hold and of the former
\* placement, or, at the price of a failed call, without the latter.
LEMMA LookCalm ==
    ASSUME NEW s \in [Clans -> Int], NEW o, NEW a \in BOOLEAN, NEW k, NEW t, NEW p, NEW f \in Nat,
           Places(t, p, o), a => o # NoClan, Debt(s, o, a, k) <= 2 * f,
           p = k \/ (p = NoClan /\ Debt(s, o, a, k) + 2 <= 2 * f),
           NEW D, D = Decision(t, p, IF a THEN o ELSE NoClan)
    PROVE  Len(D) \in 0..3 /\ Outlook(s, o, a, a, t, D) <= 2 * f
<1> DEFINE X == Size(Off(s, o, a, k))
           Y == Size(Off(s, o, a, NoClan))
           W == Debt(s, o, a, k)
           bare == k = NoClan
           same == p = k
<1>1. X \in Nat /\ Y \in Nat /\ W \in Nat
    BY DebtType
<1>2. Y <= X + 1 /\ (bare => Y = X)
    BY Forgotten
<1>3. W = X + Bit(a /\ ~bare)
    BY DEF Debt
<1>4. ~same => p = NoClan /\ W + 2 <= 2 * f
    OBVIOUS
<1>5. /\ Len(D) \in 0..3 /\ D \in Seq(Moves)
      /\ a => Decided(D, t, p, o)
      /\ ~a => Decided(D, t, p, NoClan)
    <2>1. Places(t, p, NoClan)
        BY DEF Places
    <2>2. CASE a
        BY <2>2, DecisionEffect, DecidedType DEF Decided
    <2>3. CASE ~a
        BY <2>1, <2>3, DecisionEffect, DecidedType DEF Decided
    <2> QED
        BY <2>2, <2>3
<1>6. W <= 2 * f
    OBVIOUS
<1> DEFINE u == Bit(a /\ ~bare)
           r == Rest(D)
           z == Bit(FALSE)
<1>10. z = 0 /\ r \in 0..1 /\ (Len(D) # 3 => r = 0)
    BY DEF Bit, Rest
<1>11. u \in 0..1 /\ (a /\ ~bare => u = 1) /\ (~a => u = 0)
    BY DEF Bit
<1>12. W = X + u
    BY <1>3
<1>7. CASE a /\ Third(t, p, o)
    <2>1. p \in Clans /\ same /\ ~bare
        <3>1. p \in Clans /\ p # NoClan
            BY <1>7, NoClanFacts DEF Third
        <3> QED
            BY <3>1, <1>4
    <2>2. Ahead(Off(s, o, FALSE, t), D) = Off(s, o, TRUE, p)
        BY <1>5, <1>7, DecidedSeeing
    <2>3. Outlook(s, o, a, a, t, D) = X + z + r
        <3>1. (a /\ ~a) = FALSE /\ a = TRUE /\ p = k
            BY <1>7, <2>1
        <3> QED
            BY <2>2, <3>1 DEF Outlook
    <2> HIDE DEF X, Y, W, bare, same, u, r, z
    <2>4. X + z + r <= 2 * f
        BY <1>1, <1>6, <1>7, <1>10, <1>11, <1>12, <2>1
    <2> QED
        BY <1>5, <2>3, <2>4, Zenon
<1>8. CASE a /\ ~Third(t, p, o)
    <2>1. Ahead(Off(s, o, FALSE, t), D) = Off(s, o, TRUE, NoClan)
        BY <1>5, <1>8, DecidedSeeing
    <2>2. Outlook(s, o, a, a, t, D) = Y + z + r
        <3>1. (a /\ ~a) = FALSE /\ a = TRUE
            BY <1>8
        <3> QED
            BY <2>1, <3>1 DEF Outlook
    <2>3. ~(Len(D) = 3)
        BY <1>5, <1>8 DEF Decided
    <2>4. same \/ W + 2 <= 2 * f
        BY <1>4
    <2> HIDE DEF X, Y, W, bare, same, u, r, z
    <2>5. Y + z + r <= 2 * f
        BY <1>1, <1>2, <1>6, <1>8, <1>10, <1>11, <1>12, <2>3, <2>4
    <2> QED
        BY <1>5, <2>2, <2>5, Zenon
<1>9. CASE ~a
    <2>1. Ahead(Off(s, o, a, t), D) = Off(s, o, a, p)
        BY <1>5, <1>9, DecidedBlind
    <2> DEFINE Z == Size(Off(s, o, a, p))
    <2>2. Outlook(s, o, a, a, t, D) = Z + z + r
        <3>1. (a /\ ~a) = a /\ a = FALSE
            BY <1>9
        <3> QED
            BY <2>1, <3>1 DEF Outlook
    <2>3. ~(Len(D) = 3)
        BY <1>5, <1>9 DEF Decided
    <2>4. /\ Z \in Nat
          /\ \/ Z = X
             \/ Z = Y /\ W + 2 <= 2 * f
        <3>1. Z \in Nat
            BY DebtType
        <3>2. same => Z = X
            OBVIOUS
        <3>3. ~same => p = NoClan /\ W + 2 <= 2 * f
            BY <1>4
        <3>4. ~same => Z = Y
            BY <3>3
        <3> QED
            BY <3>1, <3>2, <3>3, <3>4
    <2> HIDE DEF X, Y, W, Z, bare, same, u, r, z
    <2>5. Z + z + r <= 2 * f
        BY <1>1, <1>2, <1>6, <1>9, <1>10, <1>11, <1>12, <2>3, <2>4
    <2> QED
        BY <1>5, <2>2, <2>5, Zenon
<1> QED
    BY <1>7, <1>8, <1>9

\* The reservations could not be read.
LEMMA LookBlind ==
    ASSUME NEW s \in [Clans -> Int], NEW o, NEW a \in BOOLEAN, NEW k, NEW t, NEW p, NEW f \in Nat,
           Places(t, p, o), Debt(s, o, a, k) <= 2 * f,
           p = k \/ (p = NoClan /\ Debt(s, o, a, k) + 2 <= 2 * f),
           NEW D, D = Decision(t, p, NoClan)
    PROVE  Len(D) \in 0..3 /\ Outlook(s, o, a, FALSE, t, D) <= 2 * (f + 1)
<1> DEFINE X == Size(Off(s, o, a, k))
           Y == Size(Off(s, o, a, NoClan))
           Z == Size(Off(s, o, a, p))
           W == Debt(s, o, a, k)
           same == p = k
<1>1. X \in Nat /\ Y \in Nat /\ W \in Nat /\ Z \in Nat
    BY DebtType
<1>2. Y <= X + 1
    BY Forgotten
<1>3. W = X + Bit(a /\ k # NoClan) /\ Bit(a /\ k # NoClan) \in 0..1
    BY BitRange, Zenon DEF Debt
<1>4. /\ ~same => W + 2 <= 2 * f /\ Z = Y
      /\ same => Z = X
    OBVIOUS
<1>5. Len(D) \in 0..3 /\ D \in Seq(Moves) /\ Decided(D, t, p, NoClan)
    <2>1. Places(t, p, NoClan)
        BY DEF Places
    <2> QED
        BY <2>1, DecisionEffect, DecidedType DEF Decided
<1>6. W <= 2 * f
    OBVIOUS
<1>7. Ahead(Off(s, o, a, t), D) = Off(s, o, a, p)
    BY <1>5, DecidedBlind
<1>8. Outlook(s, o, a, FALSE, t, D) = Z + Bit(a) + Rest(D)
    <2>1. (a /\ ~FALSE) = a
        OBVIOUS
    <2> QED
        BY <1>7, <2>1 DEF Outlook
<1>9. ~(Len(D) = 3)
    BY <1>5 DEF Decided
<1>10. Bit(a) \in 0..1 /\ Rest(D) = 0
    BY <1>9, BitRange DEF Rest
<1> DEFINE u == Bit(a /\ k # NoClan)
<1> HIDE DEF X, Y, Z, W, same, u
<1>11. W = X + u /\ u \in 0..1
    BY <1>3 DEF u
<1>12. Z + Bit(a) + Rest(D) <= 2 * (f + 1)
    BY <1>1, <1>2, <1>4, <1>6, <1>10, <1>11
<1> QED
    BY <1>5, <1>8, <1>12, Zenon

\* The seats are left alone.
LEMMA LookSkips ==
    ASSUME NEW s \in [Clans -> Int], NEW o, NEW a \in BOOLEAN, NEW k, NEW t
    PROVE  Outlook(s, o, a, FALSE, t, << >>) <= Debt(s, o, a, k) + 2
<1>1. Off(s, o, a, t) \in [Clans -> Int]
    BY OffType
<1>2. Ahead(Off(s, o, a, t), << >>) = Off(s, o, a, t)
    BY <1>1, AheadEmpty
<1>3. (a /\ ~FALSE) = a
    OBVIOUS
<1>4. Outlook(s, o, a, FALSE, t, << >>) = Size(Off(s, o, a, t)) + Bit(a) + Rest(<< >>)
    BY <1>2, <1>3 DEF Outlook
<1>5. Rest(<< >>) = 0
    BY DEF Rest, Bit
<1>6. Size(Off(s, o, a, t)) + Bit(a) <= Debt(s, o, a, k) + 2
    BY Switch
<1>7. Size(Off(s, o, a, t)) \in Nat /\ Bit(a) \in 0..1
    BY DebtType, BitRange
<1> DEFINE A == Size(Off(s, o, a, t))
           u == Bit(a)
           r == Rest(<< >>)
           w == Debt(s, o, a, k)
           x == Outlook(s, o, a, FALSE, t, << >>)
<1>9. x = A + u + r
    BY <1>4
<1> HIDE DEF A, u, r, w, x
<1>8. x <= w + 2
    <2>1. A + u <= w + 2 /\ A \in Nat /\ u \in 0..1 /\ r = 0
        BY <1>5, <1>6, <1>7 DEF A, u, r, w
    <2> QED
        BY <1>9, <2>1
<1> QED
    BY <1>8 DEF w, x

\* A placement is recorded before a seat moves for it.
LEMMA Recorded ==
    ASSUME NEW s \in [Clans -> Int], NEW o, NEW a \in BOOLEAN, NEW k, NEW t
    PROVE  Debt(s, o, a, t) <= Debt(s, o, a, k) + 2
<1> DEFINE C == Size(Off(s, o, a, t))
           bare == t = NoClan
           b == a /\ ~bare
<1>1. C + Bit(a) <= Debt(s, o, a, k) + 2 /\ C \in Nat /\ Debt(s, o, a, k) \in Nat
    BY Switch, DebtType
<1>2. Debt(s, o, a, t) = C + Bit(b)
    BY DEF Debt
<1>3. Bit(b) \in 0..1 /\ Bit(a) \in 0..1 /\ (Bit(b) = 1 => Bit(a) = 1)
    BY DEF Bit
<1> DEFINE u == Bit(b)
           v == Bit(a)
           w == Debt(s, o, a, k)
<1> HIDE DEF C, b, u, v, w
<1>4. C + u <= w + 2
    BY <1>1, <1>3 DEF u, v, w
<1> QED
    BY <1>2, <1>4, Zenon DEF u, w

\* The hold it saw is settled, or is not.
LEMMA HoldSettled ==
    ASSUME NEW s \in [Clans -> Int], NEW o, NEW t, NEW D
    PROVE  Outlook(s, o, FALSE, FALSE, t, D) = Outlook(s, o, TRUE, TRUE, t, D)
<1>1. (FALSE /\ ~FALSE) = FALSE /\ (TRUE /\ ~TRUE) = FALSE
    OBVIOUS
<1> QED
    BY <1>1 DEF Outlook

LEMMA HoldUnsettled ==
    ASSUME NEW s \in [Clans -> Int], NEW o, NEW t, NEW D \in Seq(Moves)
    PROVE  Outlook(s, o, TRUE, FALSE, t, D) <= Outlook(s, o, TRUE, TRUE, t, D) + 2
<1> DEFINE y == Off(s, o, FALSE, t)
           z == Off(s, o, TRUE, t)
<1>1. y \in [Clans -> Int] /\ z \in [Clans -> Int] /\ Near(y, z, o)
    BY OffType, OffHold
<1>2. (TRUE /\ ~FALSE) = TRUE /\ (TRUE /\ ~TRUE) = FALSE
    OBVIOUS
<1>3. /\ Outlook(s, o, TRUE, FALSE, t, D) = Size(Ahead(z, D)) + Bit(TRUE) + Rest(D)
      /\ Outlook(s, o, TRUE, TRUE, t, D) = Size(Ahead(y, D)) + Bit(FALSE) + Rest(D)
    BY <1>2 DEF Outlook
<1> HIDE DEF y, z
<1>4. Near(Ahead(y, D), Ahead(z, D), o)
    BY <1>1, AheadNear
<1>5. Ahead(y, D) \in [Clans -> Int] /\ Ahead(z, D) \in [Clans -> Int]
    BY <1>1, AheadType
<1>6. Size(Ahead(z, D)) <= Size(Ahead(y, D)) + 1 /\ Size(Ahead(y, D)) \in Nat /\ Size(Ahead(z, D)) \in Nat
    BY <1>4, <1>5, SizeStep, PileFinite
<1>7. Bit(TRUE) = 1 /\ Bit(FALSE) = 0 /\ Rest(D) \in 0..1
    BY DEF Bit, Rest
<1> DEFINE A == Size(Ahead(y, D))
           B == Size(Ahead(z, D))
           r == Rest(D)
<1> HIDE DEF A, B, r
<1>8. B + 1 + r <= A + 0 + r + 2
    BY <1>6, <1>7 DEF A, B, r
<1> QED
    BY <1>3, <1>7, <1>8, Zenon DEF A, B, r

LEMMA UpToThree == \A n \in 0..3 : n <= 3
OBVIOUS

\* A delta is applied, or is not.
LEMMA RestOfTail ==
    ASSUME NEW D \in Seq(Moves), D # << >>, Len(D) \in 0..3
    PROVE  /\ Tail(D) \in Seq(Moves) /\ Len(Tail(D)) \in 0..2 /\ Rest(Tail(D)) = 0
           /\ Rest(D) \in 0..1
<1>0. Len(D) <= 3
    BY UpToThree, Zenon
<1>1. Tail(D) \in Seq(Moves) /\ Len(Tail(D)) \in 0..2
    BY <1>0, FirstPart
<1>2. ~(Len(Tail(D)) = 3)
    <2>1. \A n \in 0..2 : ~(n = 3)
        OBVIOUS
    <2> QED
        BY <1>1, <2>1, Zenon
<1> QED
    BY <1>1, <1>2, BitRange DEF Rest

\* What is off once the deltas that are left are applied.
Adjusting(s, o, a, k, D) == Size(Ahead(Off(s, o, a, k), D)) + Bit(a) + Rest(D)

LEMMA OutlookAdjusting ==
    ASSUME NEW s, NEW o, NEW a \in BOOLEAN, NEW seen \in BOOLEAN, NEW k, NEW D, ~seen
    PROVE  Adjusting(s, o, a, k, D) = Outlook(s, o, a, seen, k, D)
<1>1. (a /\ ~seen) = a
    OBVIOUS
<1> QED
    BY <1>1 DEF Outlook, Adjusting

LEMMA AdjustingType ==
    ASSUME NEW s \in [Clans -> Int], NEW o, NEW a \in BOOLEAN, NEW k, NEW D \in Seq(Moves)
    PROVE  Adjusting(s, o, a, k, D) \in Nat
<1>1. Size(Ahead(Off(s, o, a, k), D)) \in Nat
    BY OffType, AheadType, PileFinite
<1> QED
    BY <1>1, BitRange DEF Adjusting, Rest

LEMMA DeltaApplied ==
    ASSUME NEW s \in [Clans -> Int], NEW o, NEW a \in BOOLEAN, NEW k,
           NEW D \in Seq(Moves), D # << >>, Len(D) \in 0..3,
           NEW z, z = [s EXCEPT ![Head(D)[1]] = @ + Head(D)[2]]
    PROVE  /\ z \in [Clans -> Int]
           /\ Adjusting(z, o, a, k, Tail(D)) <= Adjusting(s, o, a, k, D)
<1> DEFINE e == Head(D)[1]
           n == Head(D)[2]
<1>1. e \in Clans /\ n \in {-1, 1}
    BY FirstPart DEF Moves
<1> HIDE DEF e, n
<1>2. /\ z \in [Clans -> Int]
      /\ \A c \in Clans : z[c] = s[c] + (IF e = c THEN n ELSE 0)
    <2>1. z = [s EXCEPT ![e] = @ + n]
        BY Zenon DEF e, n
    <2>2. \A c \in Clans : s[c] \in Int
        OBVIOUS
    <2> QED
        BY <1>1, <2>1, <2>2
<1>3. \A c \in Clans : Off(z, o, a, k)[c] = Off(s, o, a, k)[c] + (IF e = c THEN n ELSE 0)
    <2>1. \A c \in Clans : s[c] \in Int
        OBVIOUS
    <2> QED
        BY <1>1, <1>2, <2>1 DEF Off, Bit
<1>4. Off(z, o, a, k) \in [Clans -> Int] /\ Off(s, o, a, k) \in [Clans -> Int]
    BY <1>2, OffType
<1>5. Ahead(Off(z, o, a, k), Tail(D)) = Ahead(Off(s, o, a, k), D)
    <2>1. Len(D) <= 3
        BY UpToThree, Zenon
    <2> QED
        BY <1>3, <1>4, <2>1, AheadTake DEF e, n
<1>6. Size(Ahead(Off(s, o, a, k), D)) \in Nat
    BY <1>4, AheadType, PileFinite
<1> DEFINE A == Size(Ahead(Off(s, o, a, k), D))
           u == Bit(a)
           r == Rest(D)
<1>7. /\ Adjusting(z, o, a, k, Tail(D)) = A + u + 0
      /\ Adjusting(s, o, a, k, D) = A + u + r
    <2>1. Rest(Tail(D)) = 0
        BY RestOfTail
    <2>2. Adjusting(s, o, a, k, D) = A + u + r
        BY Zenon DEF Adjusting
    <2>3. Adjusting(z, o, a, k, Tail(D)) = Size(Ahead(Off(z, o, a, k), Tail(D))) + u + Rest(Tail(D))
        BY Zenon DEF Adjusting
    <2> QED
        BY <1>5, <2>1, <2>2, <2>3, Zenon
<1>8. r \in 0..1 /\ u \in 0..1 /\ A \in Nat
    BY <1>6, RestOfTail, BitRange
<1> HIDE DEF A, u, r
<1>9. A + u + 0 <= A + u + r
    BY <1>8
<1> QED
    BY <1>2, <1>7, <1>9, Zenon

LEMMA DeltaLost ==
    ASSUME NEW s \in [Clans -> Int], NEW o, NEW a \in BOOLEAN, NEW k,
           NEW D \in Seq(Moves), D # << >>, Len(D) \in 0..3
    PROVE  Adjusting(s, o, a, k, Tail(D)) <= Adjusting(s, o, a, k, D) + 1
<1> DEFINE y == Off(s, o, a, k)
           A == Size(Ahead(y, D))
           B == Size(Ahead(y, Tail(D)))
           u == Bit(a)
           r == Rest(D)
<1>1. y \in [Clans -> Int]
    BY OffType
<1>2. /\ Adjusting(s, o, a, k, Tail(D)) = B + u + 0
      /\ Adjusting(s, o, a, k, D) = A + u + r
    <2>1. Rest(Tail(D)) = 0
        BY RestOfTail
    <2>2. Adjusting(s, o, a, k, D) = A + u + r
        BY Zenon DEF Adjusting
    <2>3. Adjusting(s, o, a, k, Tail(D)) = B + u + Rest(Tail(D))
        BY Zenon DEF Adjusting
    <2> QED
        BY <2>1, <2>2, <2>3, Zenon
<1> HIDE DEF y
<1>3. B <= A + 1
    <2>1. Len(D) <= 3
        BY UpToThree, Zenon
    <2> QED
        BY <1>1, <2>1, AheadSkip
<1>4. A \in Nat /\ B \in Nat
    BY <1>1, AheadType, PileFinite, RestOfTail
<1>5. r \in 0..1 /\ u \in 0..1
    BY RestOfTail, BitRange
<1> HIDE DEF A, B, u, r
<1>6. B + u + 0 <= A + u + r + 1
    BY <1>3, <1>4, <1>5
<1> QED
    BY <1>2, <1>6, Zenon

\* The deltas that are left are dropped; none is left.
LEMMA DeltasDropped ==
    ASSUME NEW s \in [Clans -> Int], NEW o, NEW a \in BOOLEAN, NEW k,
           NEW D \in Seq(Moves), Len(D) \in 0..3
    PROVE  /\ Debt(s, o, a, k) <= Adjusting(s, o, a, k, D) + 2
           /\ D = << >> => Debt(s, o, a, k) <= Adjusting(s, o, a, k, D)
<1> DEFINE y == Off(s, o, a, k)
           A == Size(Ahead(y, D))
           B == Size(y)
           u == Bit(a)
           r == Rest(D)
           n == Len(D)
           bare == k = NoClan
           v == Bit(a /\ ~bare)
<1>1. y \in [Clans -> Int]
    BY OffType
<1>2. Adjusting(s, o, a, k, D) = A + u + r
    BY Zenon DEF Adjusting
<1>3. Debt(s, o, a, k) = B + v
    BY DEF Debt
<1>4. v \in 0..1 /\ u \in 0..1 /\ v <= u
    BY DEF Bit
<1> HIDE DEF y, v, bare
<1>5. B <= A + n
    <2>1. Len(D) <= 3
        BY UpToThree, Zenon
    <2> QED
        BY <1>1, <2>1, AheadDropped
<1>6. A \in Nat /\ B \in Nat
    BY <1>1, AheadType, PileFinite
<1>7. n \in 0..3 /\ r \in 0..1 /\ (n = 3 => r = 1) /\ (D = << >> => n = 0)
    BY DEF Rest, Bit
<1> HIDE DEF A, B, u, r, n
<1>8. B + v <= A + u + r + 2 /\ (n = 0 => B + v <= A + u + r)
    BY <1>4, <1>5, <1>6, <1>7
<1> QED
    BY <1>2, <1>3, <1>7, <1>8, Zenon

\* The idle watcher releases the hold.
LEMMA Released ==
    ASSUME NEW s \in [Clans -> Int], NEW o, NEW a \in BOOLEAN, NEW k
    PROVE  /\ Debt(s, o, FALSE, k) <= Debt(s, o, a, k) + 1
           /\ k # NoClan \/ ~a => Debt(s, o, FALSE, k) <= Debt(s, o, a, k)
<1> DEFINE y == Off(s, o, a, k)
           z == Off(s, o, FALSE, k)
           A == Size(y)
           B == Size(z)
           bare == k = NoClan
           u == Bit(a /\ ~bare)
<1>1. A \in Nat /\ B \in Nat
    BY DebtType
<1>2. Debt(s, o, FALSE, k) = B + 0 /\ Debt(s, o, a, k) = A + u
    <2>1. Bit(FALSE /\ k # NoClan) = 0
        BY DEF Bit
    <2> QED
        BY <2>1 DEF Debt
<1>3. B <= A + 1 /\ (~a => B = A)
    <2>1. CASE a
        <3>1. a = TRUE
            BY <2>1
        <3> QED
            BY <3>1, OffType, OffHold, SizeStep
    <2>2. CASE ~a
        <3>1. a = FALSE
            BY <2>2
        <3>2. B = A
            BY <3>1, Zenon
        <3> HIDE DEF A, B
        <3> QED
            BY <1>1, <3>2, <2>2
    <2> QED
        BY <2>1, <2>2
<1>4. u \in 0..1 /\ (a /\ ~bare => u = 1)
    BY DEF Bit
<1> HIDE DEF A, B, u, bare
<1>5. B + 0 <= A + u + 1 /\ (~bare \/ ~a => B + 0 <= A + u)
    BY <1>1, <1>3, <1>4
<1> QED
    BY <1>2, <1>5, Zenon DEF bare

-------------------------------------------------------------------------------
(* The books: what each step of a finalization may still owe.                 *)

\* Before a finalization rereads the row it knows no former placement and has
\* decided nothing.
Blank == {"auto", "backfill", "manualRow", "manualAdd", "closeRow", "closeMark",
          "closePrompt", "check", "mark", "reread"}

Local(j, au) ==
    /\ j.step \in {"manualRow", "manualAdd"} => ~au
    /\ j.source = "auto" => au
    /\ j.step = "release" => j.source = "auto"
    /\ j.step \in Blank => j.prev = NoClan
    /\ j.step \in Blank \/ j.step = "look" => j.deltas = << >> /\ ~j.seen

\* The idle watcher is about to release the hold, or will when this one fails.
Releasing(j) == j.step = "release" \/ (j.step = "failMark" /\ j.source = "auto")

Ready(j, s, o, a, f) ==
    /\ Len(j.deltas) \in 0..3
    /\ j.seen => a
    /\ Outlook(s, o, a, j.seen, j.tag, j.deltas) <= 2 * f

Books(j, s, o, a, k, f) ==
    /\ j.step \notin {"hold", "adjust"} => Debt(s, o, a, k) <= 2 * f
    /\ j.step = "look" => \/ j.prev = k
                          \/ j.prev = NoClan /\ Debt(s, o, a, k) + 2 <= 2 * f
    /\ j.step \in {"write", "hold"} => Ready(j, s, o, a, f)
    /\ j.step = "hold" => k = j.tag /\ Debt(s, o, a, k) <= 2 * (f + 1)
    /\ j.step = "adjust" => /\ Len(j.deltas) \in 0..3
                            /\ Adjusting(s, o, a, k, j.deltas) <= 2 * f
    /\ Releasing(j) => k # NoClan \/ ~a \/ Debt(s, o, a, k) + 1 <= 2 * f

\* A step that decides nothing and moves nothing.
LEMMA BooksQuiet ==
    ASSUME NEW s \in [Clans -> Int], NEW o, NEW a \in BOOLEAN, NEW k, NEW f \in Nat, NEW r,
           Debt(s, o, a, k) <= 2 * f, r.step \notin {"look", "write", "hold", "adjust"}
    PROVE  /\ (Releasing(r) => k # NoClan \/ ~a \/ Debt(s, o, a, k) + 1 <= 2 * f)
              => Books(r, s, o, a, k, f)
           /\ Books(r, s, o, a, k, f + 1)
<1> DEFINE W == Debt(s, o, a, k)
<1>1. W \in Nat
    BY DebtType
<1>2. W <= 2 * f
    OBVIOUS
<1> HIDE DEF W
<1>3. W <= 2 * (f + 1) /\ W + 1 <= 2 * (f + 1)
    BY <1>1, <1>2
<1>4. W <= 2 * f /\ W <= 2 * (f + 1) /\ W + 1 <= 2 * (f + 1)
    BY <1>2, <1>3
<1> QED
    BY <1>4 DEF W, Books

LEMMA BooksReread ==
    ASSUME NEW s \in [Clans -> Int], NEW o, NEW a \in BOOLEAN, NEW k, NEW f \in Nat, NEW r,
           Debt(s, o, a, k) <= 2 * f, r.step = "look"
    PROVE  /\ r.prev = k => Books(r, s, o, a, k, f)
           /\ r.prev = NoClan => Books(r, s, o, a, k, f + 1)
<1> DEFINE W == Debt(s, o, a, k)
<1>1. W \in Nat /\ W <= 2 * f
    BY DebtType
<1> HIDE DEF W
<1>2. W <= 2 * f /\ W <= 2 * (f + 1) /\ W + 2 <= 2 * (f + 1)
    BY <1>1
<1> QED
    BY <1>2 DEF W, Books, Releasing

LEMMA BooksLook ==
    ASSUME NEW s \in [Clans -> Int], NEW o, NEW a \in BOOLEAN, NEW k, NEW f \in Nat,
           NEW j, Books(j, s, o, a, k, f), j.step = "look", Places(j.tag, j.prev, o), a => o # NoClan,
           NEW r, r.step = "write", r.tag = j.tag
    PROVE  /\ r.seen = a /\ r.deltas = Decision(j.tag, j.prev, IF a THEN o ELSE NoClan)
              => Books(r, s, o, a, k, f)
           /\ r.seen = FALSE /\ r.deltas = Decision(j.tag, j.prev, NoClan)
              => Books(r, s, o, a, k, f + 1)
           /\ r.seen = FALSE /\ r.deltas = << >>
              => Books(r, s, o, a, k, f + 1)
<1> DEFINE W == Debt(s, o, a, k)
<1>1. /\ W <= 2 * f
      /\ j.prev = k \/ (j.prev = NoClan /\ W + 2 <= 2 * f)
    BY DEF Books
<1>2. W \in Nat
    BY DebtType
<1>3. W <= 2 * (f + 1) /\ W + 2 <= 2 * (f + 1)
    <2>1. W <= 2 * f
        BY <1>1
    <2> HIDE DEF W
    <2> QED
        BY <1>2, <2>1
<1>4. ASSUME r.seen = a, r.deltas = Decision(j.tag, j.prev, IF a THEN o ELSE NoClan)
      PROVE  Ready(r, s, o, a, f)
    BY <1>1, <1>4, LookCalm DEF Ready
<1>5. ASSUME r.seen = FALSE, r.deltas = Decision(j.tag, j.prev, NoClan)
      PROVE  Ready(r, s, o, a, f + 1)
    BY <1>1, <1>5, LookBlind DEF Ready
<1>6. ASSUME r.seen = FALSE, r.deltas = << >>
      PROVE  Ready(r, s, o, a, f + 1)
    <2> DEFINE x == Outlook(s, o, a, FALSE, j.tag, << >>)
    <2>1. x <= W + 2
        BY LookSkips, Zenon
    <2>2. x \in Nat
        <3>1. << >> \in Seq(Moves) /\ FALSE \in BOOLEAN
            OBVIOUS
        <3> QED
            BY <3>1, OutlookType
    <2>3. x <= 2 * (f + 1)
        <3> HIDE DEF x, W
        <3> QED
            BY <1>2, <1>3, <2>1, <2>2
    <2>4. Len(<< >>) \in 0..3
        OBVIOUS
    <2> QED
        BY <1>6, <2>3, <2>4 DEF Ready
<1>7. r.step \notin {"hold", "adjust", "look"} /\ ~Releasing(r)
    BY DEF Releasing
<1> HIDE DEF W
<1> QED
    BY <1>1, <1>3, <1>4, <1>5, <1>6, <1>7 DEF Books, W

LEMMA BooksWrite ==
    ASSUME NEW s \in [Clans -> Int], NEW o, NEW a \in BOOLEAN, NEW k, NEW f \in Nat,
           NEW j \in Handler, Books(j, s, o, a, k, f), j.step = "write",
           NEW r, r.step = "hold", r.tag = j.tag, r.seen = j.seen, r.deltas = j.deltas
    PROVE  Books(r, s, o, a, j.tag, f) /\ Books(r, s, o, a, j.tag, f + 1)
<1> DEFINE W == Debt(s, o, a, k)
           V == Debt(s, o, a, j.tag)
           U == Outlook(s, o, a, r.seen, r.tag, r.deltas)
<1>1. W <= 2 * f /\ Ready(r, s, o, a, f)
    BY DEF Books, Ready
<1>2. W \in Nat /\ V \in Nat /\ V <= W + 2
    BY DebtType, Recorded
<1>3. V <= 2 * (f + 1) /\ V <= 2 * (f + 1 + 1)
    <2> HIDE DEF V, W
    <2> QED
        BY <1>1, <1>2
<1>4. U \in Nat /\ U <= 2 * f
    <2>1. r.seen \in BOOLEAN /\ r.deltas \in Seq(Moves)
        BY DEF Handler
    <2> QED
        BY <1>1, <2>1, OutlookType DEF Ready
<1>5. U <= 2 * (f + 1)
    <2> HIDE DEF U
    <2> QED
        BY <1>4
<1>6. Ready(r, s, o, a, f + 1)
    BY <1>1, <1>5 DEF Ready
<1> QED
    BY <1>1, <1>3, <1>6 DEF Books, Releasing

LEMMA BooksHold ==
    ASSUME NEW s \in [Clans -> Int], NEW o, NEW a \in BOOLEAN, NEW k, NEW f \in Nat,
           NEW j \in Handler, Books(j, s, o, a, k, f), j.step = "hold",
           NEW r, r.step = "adjust", r.deltas = j.deltas
    PROVE  /\ ~j.seen => Books(r, s, o, a, k, f)
           /\ j.seen => Books(r, s, o, FALSE, k, f)
           /\ j.seen => Books(r, s, o, a, k, f + 1)
<1> DEFINE D == j.deltas
<1>1. D \in Seq(Moves) /\ j.seen \in BOOLEAN
    BY DEF Handler
<1>2. /\ Len(D) \in 0..3 /\ (j.seen => a) /\ k = j.tag
      /\ Outlook(s, o, a, j.seen, k, D) <= 2 * f
    BY DEF Books, Ready
<1> HIDE DEF D
<1>3. ASSUME ~j.seen PROVE Adjusting(s, o, a, k, D) <= 2 * f
    <2>1. Adjusting(s, o, a, k, D) = Outlook(s, o, a, j.seen, k, D)
        BY <1>1, <1>3, OutlookAdjusting
    <2> QED
        BY <1>2, <2>1
<1>4. ASSUME j.seen
      PROVE  /\ Adjusting(s, o, FALSE, k, D) <= 2 * f
             /\ Adjusting(s, o, a, k, D) <= 2 * (f + 1)
    <2>1. a = TRUE /\ j.seen = TRUE
        BY <1>1, <1>2, <1>4
    <2>2. Outlook(s, o, TRUE, TRUE, k, D) <= 2 * f
        BY <1>2, <2>1
    <2>3. TRUE \in BOOLEAN /\ FALSE \in BOOLEAN /\ ~FALSE
        OBVIOUS
    <2>4. /\ Adjusting(s, o, FALSE, k, D) = Outlook(s, o, FALSE, FALSE, k, D)
          /\ Adjusting(s, o, TRUE, k, D) = Outlook(s, o, TRUE, FALSE, k, D)
        <3>1. (FALSE /\ ~FALSE) = FALSE /\ (TRUE /\ ~FALSE) = TRUE
            OBVIOUS
        <3> QED
            BY <3>1 DEF Adjusting, Outlook
    <2>5. /\ Outlook(s, o, FALSE, FALSE, k, D) = Outlook(s, o, TRUE, TRUE, k, D)
          /\ Outlook(s, o, TRUE, FALSE, k, D) <= Outlook(s, o, TRUE, TRUE, k, D) + 2
        BY <1>1, HoldSettled, HoldUnsettled
    <2>6. /\ Outlook(s, o, TRUE, FALSE, k, D) \in Nat
          /\ Outlook(s, o, TRUE, TRUE, k, D) \in Nat
        BY <1>1, <2>3, OutlookType
    <2> DEFINE A == Outlook(s, o, TRUE, FALSE, k, D)
               B == Outlook(s, o, TRUE, TRUE, k, D)
    <2>8. B <= 2 * f /\ A <= B + 2 /\ A \in Nat /\ B \in Nat
        BY <2>2, <2>5, <2>6, Zenon
    <2> HIDE DEF A, B
    <2>7. A <= 2 * (f + 1)
        BY <2>8
    <2> QED
        BY <2>1, <2>2, <2>4, <2>5, <2>7 DEF A
<1>5. \A b, g : Len(D) \in 0..3 /\ Adjusting(s, o, b, k, D) <= 2 * g => Books(r, s, o, b, k, g)
    BY DEF Books, Releasing, D
<1> QED
    BY <1>2, <1>3, <1>4, <1>5

LEMMA BooksAdjust ==
    ASSUME NEW s \in [Clans -> Int], NEW o, NEW a \in BOOLEAN, NEW k, NEW f \in Nat,
           NEW j \in Handler, Books(j, s, o, a, k, f), j.step = "adjust", j.deltas # << >>,
           NEW r, r.step = "adjust", r.deltas = Tail(j.deltas),
           NEW z, z = [s EXCEPT ![Head(j.deltas)[1]] = @ + Head(j.deltas)[2]]
    PROVE  /\ Books(r, z, o, a, k, f)
           /\ Books(r, s, o, a, k, f + 1)
<1> DEFINE D == j.deltas
           A == Adjusting(s, o, a, k, D)
           B == Adjusting(s, o, a, k, Tail(D))
           C == Adjusting(z, o, a, k, Tail(D))
<1>1. D \in Seq(Moves) /\ D # << >>
    BY DEF Handler
<1>2. Len(D) \in 0..3 /\ A <= 2 * f
    BY DEF Books
<1> HIDE DEF D
<1>3. z \in [Clans -> Int] /\ C <= A
    <2>1. z = [s EXCEPT ![Head(D)[1]] = @ + Head(D)[2]]
        BY DEF D
    <2> QED
        BY <1>1, <1>2, <2>1, DeltaApplied
<1>4. B <= A + 1
    BY <1>1, <1>2, DeltaLost
<1>5. Tail(D) \in Seq(Moves) /\ Len(Tail(D)) \in 0..2
    BY <1>1, <1>2, RestOfTail
<1>6. \A w \in [Clans -> Int], E \in Seq(Moves) : Adjusting(w, o, a, k, E) \in Nat
    BY AdjustingType
<1>7. A \in Nat /\ B \in Nat /\ C \in Nat
    BY <1>1, <1>3, <1>5, <1>6
<1> HIDE DEF A, B, C
<1>8. C <= 2 * f /\ B <= 2 * (f + 1)
    BY <1>2, <1>3, <1>4, <1>7
<1>9. Len(Tail(D)) \in 0..3
    <2>1. \A n \in 0..2 : n \in 0..3
        OBVIOUS
    <2> QED
        BY <1>5, <2>1, Zenon
<1>10. \A w, g : Len(Tail(D)) \in 0..3 /\ Adjusting(w, o, a, k, Tail(D)) <= 2 * g
             => Books(r, w, o, a, k, g)
    BY DEF Books, Releasing, D
<1> QED
    BY <1>8, <1>9, <1>10 DEF B, C

\* A restart, or the end of the deltas.
LEMMA BooksDropped ==
    ASSUME NEW s \in [Clans -> Int], NEW o, NEW a \in BOOLEAN, NEW k, NEW f \in Nat,
           NEW j \in Handler, Books(j, s, o, a, k, f)
    PROVE  /\ Debt(s, o, a, k) <= 2 * (f + 1)
           /\ j.step = "adjust" /\ j.deltas = << >> => Debt(s, o, a, k) <= 2 * f
<1> DEFINE W == Debt(s, o, a, k)
           D == j.deltas
           A == Adjusting(s, o, a, k, D)
<1>1. W \in Nat
    BY DebtType
<1>2. D \in Seq(Moves)
    BY DEF Handler
<1>3. /\ j.step \notin {"hold", "adjust"} => W <= 2 * f
      /\ j.step = "hold" => W <= 2 * (f + 1)
      /\ j.step = "adjust" => Len(D) \in 0..3 /\ A <= 2 * f
    BY DEF Books
<1> HIDE DEF D
<1>4. A \in Nat
    BY <1>2, AdjustingType
<1>5. Len(D) \in 0..3 => W <= A + 2 /\ (D = << >> => W <= A)
    BY <1>2, DeltasDropped
<1> HIDE DEF A, W
<1>6. CASE j.step \notin {"hold", "adjust"}
    <2>1. W <= 2 * f
        BY <1>3, <1>6
    <2>2. W <= 2 * (f + 1)
        BY <1>1, <2>1
    <2> QED
        BY <1>6, <2>1, <2>2 DEF W
<1>7. CASE j.step = "hold"
    BY <1>3, <1>7 DEF W
<1>8. CASE j.step = "adjust"
    <2>1. A <= 2 * f /\ W <= A + 2 /\ (D = << >> => W <= A)
        BY <1>3, <1>5, <1>8
    <2> DEFINE none == D = << >>
    <2>4. none => W <= A
        BY <2>1
    <2>5. A <= 2 * f /\ W <= A + 2
        BY <2>1
    <2> HIDE DEF none
    <2>2. W <= 2 * (f + 1) /\ (none => W <= 2 * f)
        BY <1>1, <1>4, <2>4, <2>5
    <2> QED
        BY <2>2 DEF W, D, none
<1> QED
    BY <1>6, <1>7, <1>8

LEMMA BooksReleased ==
    ASSUME NEW s \in [Clans -> Int], NEW o, NEW a \in BOOLEAN, NEW k, NEW f \in Nat,
           NEW j, Books(j, s, o, a, k, f), j.step = "release"
    PROVE  Debt(s, o, FALSE, k) <= 2 * f
<1> DEFINE W == Debt(s, o, a, k)
           V == Debt(s, o, FALSE, k)
           free == k # NoClan \/ ~a
<1>1. W \in Nat /\ V \in Nat
    <2>1. FALSE \in BOOLEAN
        OBVIOUS
    <2> QED
        BY <2>1, DebtType
<1>2. W <= 2 * f /\ (free \/ W + 1 <= 2 * f)
    BY DEF Books, Releasing
<1>3. V <= W + 1 /\ (free => V <= W)
    BY Released
<1> HIDE DEF W, V, free
<1>4. V <= 2 * f
    BY <1>1, <1>2, <1>3
<1> QED
    BY <1>4 DEF V

\* A row that is inserted owes nothing: no seat has moved, and the hold is as
\* the recruit's reservation left it.
LEMMA NothingOwed ==
    ASSUME NEW s \in [Clans -> Int], NEW o, NEW a \in BOOLEAN,
           \A c \in Clans : s[c] = 0, o # NoClan => a
    PROVE  Debt(s, o, a, NoClan) = 0
<1>1. \A c \in Clans : Off(s, o, a, NoClan)[c] = 0
    BY NoClanFacts DEF Off, Bit
<1>2. Off(s, o, a, NoClan) \in [Clans -> Int]
    BY OffType
<1>3. Size(Off(s, o, a, NoClan)) = 0
    BY <1>1, <1>2, SizeZero
<1>4. Bit(a /\ NoClan # NoClan) = 0
    BY DEF Bit
<1> QED
    BY <1>3, <1>4 DEF Debt

-------------------------------------------------------------------------------
(* The books are kept.                                                        *)

\* An active hold has a clan, a done row a placement; a row that is not there
\* yet has no placement, and nothing has settled the hold meanwhile.
HoldOK ==
    /\ hold.active => hold.clan # NoClan
    /\ row.final = "done" => row.clan # NoClan
    /\ ~row.present => row.clan = NoClan
    /\ ~row.present /\ ~auto /\ hold.clan # NoClan => hold.active

BooksOf(j) == Books(j, seats, hold.clan, hold.active, row.clan, spent.faults)

SeatOK ==
    Serial => /\ HoldOK
              /\ \A h \in Handlers : Local(job[h], auto)
              /\ row.present =>
                    /\ (\A h \in Handlers : job[h].step = "idle")
                       => Debt(seats, hold.clan, hold.active, row.clan) <= 2 * spent.faults
                    /\ \A h \in Handlers : job[h].step # "idle" => BooksOf(job[h])

LEMMA SeatFacts ==
    ASSUME Inv
    PROVE  /\ seats \in [Clans -> Int] /\ hold.active \in BOOLEAN /\ spent.faults \in Nat
           /\ row.present \in BOOLEAN /\ auto \in BOOLEAN
           /\ \A h \in Handlers : job[h] \in Handler
           /\ job \in [Handlers -> Handler]
<1>1. row.present \in BOOLEAN
    BY InvRest DEF RowType
<1> QED
    BY <1>1, InvRest, SpentFacts DEF RestOK

LEMMA Spending ==
    ASSUME Inv, Calm \/ Fault \/ Unread
    PROVE  /\ Serial' <=> Serial
           /\ Calm => spent'.faults = spent.faults
           /\ Fault \/ Unread => spent'.faults = spent.faults + 1
<1>1. spent \in Spendings
    BY DEF Inv, TypeOK, Spendings
<1> QED
    BY <1>1 DEF Calm, Fault, Unread, Serial, Spendings

LEMMA Alone ==
    ASSUME Inv, Serial, NEW h \in Handlers, job[h].step # "idle"
    PROVE  \A g \in Handlers : g # h => job[g].step = "idle"
BY DEF Inv, SerialOK

\* A step of the one handler under way: h goes on as r.
LEMMA SeatMoved ==
    ASSUME Inv, SeatOK, Serial, NEW h \in Handlers, NEW r,
           job[h].step # "idle", job' = [job EXCEPT ![h] = r],
           UNCHANGED auto, HoldOK', Local(r, auto), row'.present => BooksOf(r)'
    PROVE  SeatOK'
<1>1. /\ job'[h] = r
      /\ \A g \in Handlers : g # h => job'[g] = job[g] /\ job'[g].step = "idle"
    BY SeatFacts, Alone
<1>2. \A g \in Handlers : Local(job'[g], auto')
    BY <1>1 DEF SeatOK
<1>3. ASSUME row'.present
      PROVE  /\ (\A g \in Handlers : job'[g].step = "idle")
                => Debt(seats', hold'.clan, hold'.active, row'.clan) <= 2 * spent'.faults
             /\ \A g \in Handlers : job'[g].step # "idle" => BooksOf(job[g])'
    <2>1. BooksOf(r)'
        BY <1>3
    <2>2. r.step = "idle"
              => Debt(seats', hold'.clan, hold'.active, row'.clan) <= 2 * spent'.faults
        BY <2>1 DEF BooksOf, Books
    <2> QED
        BY <1>1, <2>1, <2>2 DEF BooksOf
<1> QED
    BY <1>2, <1>3 DEF SeatOK, BooksOf

\* A step that touches neither the seats nor the hold nor the placement.
Still(h) ==
    /\ job[h].step \notin {"idle", "hold", "adjust"}
    /\ Calm \/ Fault \/ Unread
    /\ UNCHANGED <<hold, seats, auto>>
    /\ row'.clan = row.clan /\ row'.present = row.present
    /\ row'.final = "done" => row.clan # NoClan

LEMMA StillGoes ==
    ASSUME Inv, SeatOK, Serial, NEW h \in Handlers, Still(h),
           NEW r, job' = [job EXCEPT ![h] = r], Local(r, auto),
           r.step \notin {"look", "write", "hold", "adjust"},
           Releasing(r) => Fault \/ ~row.present \/ row.clan # NoClan \/ Releasing(job[h])
    PROVE  SeatOK'
<1>1. HoldOK'
    BY DEF SeatOK, HoldOK, Still
<1>2. ASSUME row'.present PROVE BooksOf(r)'
    <2> DEFINE s == seats
               o == hold.clan
               a == hold.active
               k == row.clan
               f == spent.faults
    <2>1. row.present /\ Books(job[h], s, o, a, k, f)
        BY <1>2 DEF SeatOK, Still, BooksOf
    <2>2. Debt(s, o, a, k) <= 2 * f
        BY <2>1 DEF Books, Still
    <2>3. s \in [Clans -> Int] /\ a \in BOOLEAN /\ f \in Nat
        BY SeatFacts
    <2>4. Releasing(job[h]) => k # NoClan \/ ~a \/ Debt(s, o, a, k) + 1 <= 2 * f
        BY <2>1 DEF Books
    <2>5. /\ s' = s /\ o' = o /\ a' = a /\ k' = k
          /\ \/ f' = f + 1
             \/ ~Fault /\ f' = f
        BY Spending DEF Still
    <2> HIDE DEF s, o, a, k, f
    <2>6. CASE f' = f + 1
        <3>1. Books(r, s, o, a, k, f + 1)
            BY <2>2, <2>3, BooksQuiet
        <3> QED
            BY <2>5, <2>6, <3>1, SeatFacts DEF BooksOf, s, o, a, k, f
    <2>7. CASE ~Fault /\ f' = f
        <3>1. Releasing(r) => k # NoClan \/ ~a \/ Debt(s, o, a, k) + 1 <= 2 * f
            BY <2>1, <2>4, <2>7 DEF k
        <3>2. Books(r, s, o, a, k, f)
            BY <2>2, <2>3, <3>1, BooksQuiet
        <3> QED
            BY <2>5, <2>7, <3>2 DEF BooksOf, s, o, a, k, f
    <2> QED
        BY <2>5, <2>6, <2>7
<1> QED
    BY <1>1, <1>2, SeatMoved DEF Still

LEMMA StillStops ==
    ASSUME Inv, SeatOK, Serial, NEW h \in Handlers, Still(h), Stop(h)
    PROVE  SeatOK'
<1>1. job' = [job EXCEPT ![h] = Idle]
    BY DEF Stop, Goto
<1>2. Local(Idle, auto) /\ ~Releasing(Idle) /\ Idle.step = "idle"
    BY DEF Local, Releasing, Idle, Blank
<1> QED
    BY <1>1, <1>2, StillGoes

\* The handler goes on from step to step, with the placement it was given.
LEMMA StillAt ==
    ASSUME Inv, SeatOK, Serial, NEW h \in Handlers, Still(h),
           NEW s \in (Blank \ {"manualRow", "manualAdd"}) \cup {"confirm", "stamp", "failMark"},
           At(h, s) \/ \E t \in Tags : Goto(h, [job[h] EXCEPT !.step = s, !.tag = t]),
           s \in Blank => job[h].step \in Blank,
           s = "failMark" /\ job[h].source = "auto"
               => Fault \/ ~row.present \/ row.clan # NoClan \/ Releasing(job[h])
    PROVE  SeatOK'
<1>1. Local(job[h], auto) /\ job[h] \in Handler
    BY SeatFacts DEF SeatOK
<1>2. PICK r : /\ job' = [job EXCEPT ![h] = r]
               /\ r.step = s /\ r.source = job[h].source /\ r.prev = job[h].prev
               /\ r.deltas = job[h].deltas /\ r.seen = job[h].seen
    <2>1. CASE At(h, s)
        <3> DEFINE q == [job[h] EXCEPT !.step = s]
        <3>1. /\ job' = [job EXCEPT ![h] = q]
              /\ q.step = s /\ q.source = job[h].source /\ q.prev = job[h].prev
              /\ q.deltas = job[h].deltas /\ q.seen = job[h].seen
            BY <1>1, <2>1 DEF At, Goto, Handler
        <3> HIDE DEF q
        <3> QED
            BY <3>1
    <2>2. CASE \E t \in Tags : Goto(h, [job[h] EXCEPT !.step = s, !.tag = t])
        <3>1. PICK t \in Tags : Goto(h, [job[h] EXCEPT !.step = s, !.tag = t])
            BY <2>2
        <3> DEFINE q == [job[h] EXCEPT !.step = s, !.tag = t]
        <3>2. /\ job' = [job EXCEPT ![h] = q]
              /\ q.step = s /\ q.source = job[h].source /\ q.prev = job[h].prev
              /\ q.deltas = job[h].deltas /\ q.seen = job[h].seen
            BY <1>1, <3>1 DEF Goto, Handler
        <3> HIDE DEF q
        <3> QED
            BY <3>2
    <2> QED
        BY <2>1, <2>2
<1>3. Local(r, auto) /\ r.step \notin {"look", "write", "hold", "adjust"}
    BY <1>1, <1>2 DEF Local, Blank
<1>4. Releasing(r) => Fault \/ ~row.present \/ row.clan # NoClan \/ Releasing(job[h])
    BY <1>2 DEF Releasing, Blank
<1> QED
    BY <1>2, <1>3, <1>4, StillGoes

LEMMA StillReturns ==
    ASSUME Inv, SeatOK, Serial, NEW h \in Handlers, Still(h), Return(h),
           Fault \/ ~row.present \/ row.clan # NoClan \/ Releasing(job[h])
                 \/ job[h].source # "auto"
    PROVE  SeatOK'
<1>1. CASE job[h].source = "auto"
    <2>1. Local(job[h], auto) /\ job[h] \in Handler
        BY SeatFacts DEF SeatOK
    <2> DEFINE r == [job[h] EXCEPT !.step = "release"]
    <2>2. job' = [job EXCEPT ![h] = r] /\ r.step = "release" /\ r.source = "auto"
        BY <1>1, <2>1 DEF Return, At, Goto, Handler
    <2>3. Local(r, auto)
        BY <1>1, <2>1, <2>2 DEF Local, Blank
    <2>4. Fault \/ ~row.present \/ row.clan # NoClan \/ Releasing(job[h])
        BY <1>1
    <2> HIDE DEF r
    <2> QED
        BY <2>2, <2>3, <2>4, StillGoes
<1>2. CASE job[h].source # "auto"
    BY <1>2, StillStops DEF Return
<1> QED
    BY <1>1, <1>2

\* The steps before a finalization looks at the hold.
LEMMA OpeningKeeps ==
    ASSUME Inv, SeatOK, Serial, NEW h \in Handlers,
           \/ AutoFinalize(h) \/ BackfillRow(h) \/ BackfillUnresolved(h)
           \/ ManualRow(h) \/ ManualRowFail(h)
           \/ CloseRow(h) \/ CloseUnmarked(h) \/ CloseMark(h) \/ ClosePrompt(h)
    PROVE  SeatOK'
<1>0. HoldOK /\ Local(job[h], auto)
    BY DEF SeatOK
<1>1. job[h].step \in Blank /\ Still(h)
    BY <1>0, InvRest DEF Still, TakenAsOpen, Blank, HoldOK, RowType, sheets, outside,
       AutoFinalize, BackfillRow, BackfillUnresolved, ManualRow, ManualRowFail,
       CloseRow, CloseUnmarked, CloseMark, ClosePrompt
<1>2. /\ {"check", "closeRow", "closeMark", "closePrompt"}
             \subseteq Blank \ {"manualRow", "manualAdd"}
      /\ "failMark" \notin {"check", "closeRow", "closeMark", "closePrompt"}
    BY DEF Blank
<1>3. ASSUME NEW s \in {"check", "closeRow", "closeMark", "closePrompt"},
             At(h, s) \/ \E t \in Tags : Goto(h, [job[h] EXCEPT !.step = s, !.tag = t])
      PROVE  SeatOK'
    BY <1>1, <1>2, <1>3, StillAt
<1>4. ASSUME Stop(h) PROVE SeatOK'
    BY <1>1, <1>4, StillStops
<1>5. ASSUME At(h, "manualAdd"), job[h].step = "manualRow" PROVE SeatOK'
    <2> DEFINE r == [job[h] EXCEPT !.step = "manualAdd"]
    <2>1. /\ job' = [job EXCEPT ![h] = r]
          /\ r.step = "manualAdd" /\ r.source = job[h].source /\ r.prev = job[h].prev
          /\ r.deltas = job[h].deltas /\ r.seen = job[h].seen
        BY <1>5, SeatFacts DEF At, Goto, Handler
    <2>2. Local(r, auto) /\ ~Releasing(r)
        BY <1>0, <1>5, <2>1 DEF Local, Blank, Releasing
    <2> HIDE DEF r
    <2> QED
        BY <1>1, <2>1, <2>2, StillGoes
<1>6. CASE AutoFinalize(h)
    BY <1>3, <1>6 DEF AutoFinalize
<1>7. CASE BackfillRow(h)
    BY <1>3, <1>7 DEF BackfillRow
<1>8. CASE BackfillUnresolved(h)
    BY <1>4, <1>8 DEF BackfillUnresolved
<1>9. CASE ManualRow(h)
    <2>1. row.clan \in Tags \cup {""}
        BY InvRest DEF RowType
    <2> QED
        BY <1>3, <1>4, <1>5, <1>9, <2>1 DEF ManualRow
<1>10. CASE ManualRowFail(h)
    BY <1>5, <1>10 DEF ManualRowFail
<1>11. CASE CloseRow(h)
    <2>1. Stop(h) \/ At(h, "closeMark")
        BY <1>11 DEF CloseRow
    <2> QED
        BY <1>3, <1>4, <2>1
<1>12. CASE CloseUnmarked(h)
    BY <1>3, <1>12 DEF CloseUnmarked, Ask
<1>13. CASE CloseMark(h)
    BY <1>3, <1>13 DEF CloseMark, Ask
<1>14. CASE ClosePrompt(h)
    BY <1>4, <1>14 DEF ClosePrompt
<1> QED
    BY <1>6, <1>7, <1>8, <1>9, <1>10, <1>11, <1>12, <1>13, <1>14

\* The check, the marks of progress and of failure, and what follows the seats.
LEMMA MarkingKeeps ==
    ASSUME Inv, SeatOK, Serial, NEW h \in Handlers,
           \/ Check(h) \/ Mark(h) \/ Refuse(h) \/ FailMark(h)
           \/ Confirm(h) \/ ConfirmFail(h) \/ Stamp(h)
    PROVE  SeatOK'
<1>0. job[h].step \in {"confirm", "stamp"} => row.clan # NoClan
    BY DEF Inv, RecordOK, Kept, NoClan
<1>1. HoldOK /\ job[h] \in Handler
    BY SeatFacts DEF SeatOK
<1>2. Still(h)
    BY <1>0, <1>1, InvRest DEF Still, HoldOK, RowType, sheets, outside,
       Check, Mark, Refuse, FailMark, Confirm, ConfirmFail, Stamp
<1>3. ASSUME NEW s \in {"mark", "reread", "failMark", "stamp"},
             At(h, s), s \in Blank => job[h].step \in Blank,
             s = "failMark" /\ job[h].source = "auto" => Fault \/ ~row.present
      PROVE  SeatOK'
    <2>1. s \in (Blank \ {"manualRow", "manualAdd"}) \cup {"confirm", "stamp", "failMark"}
        BY DEF Blank
    <2> QED
        BY <1>2, <1>3, <2>1, StillAt
<1>4. ASSUME Stop(h) PROVE SeatOK'
    BY <1>2, <1>4, StillStops
<1>5. CASE Check(h)
    <2>1. \/ At(h, "mark")
          \/ Return(h) /\ row.clan # NoClan
          \/ ~row.present /\ At(h, "failMark")
        BY <1>1, <1>5 DEF Check, HoldOK
    <2>2. CASE At(h, "mark")
        BY <1>3, <1>5, <2>2 DEF Check, Blank
    <2>3. CASE Return(h) /\ row.clan # NoClan
        BY <1>2, <2>3, StillReturns
    <2>4. CASE ~row.present /\ At(h, "failMark")
        BY <1>3, <2>4 DEF Blank
    <2> QED
        BY <2>1, <2>2, <2>3, <2>4
<1>6. CASE Mark(h)
    BY <1>3, <1>6 DEF Mark, Blank
<1>7. CASE Refuse(h)
    BY <1>3, <1>7 DEF Refuse, Blank
<1>8. CASE FailMark(h)
    <2>1. Return(h) /\ (job[h].source = "auto" => Releasing(job[h]))
        BY <1>8 DEF FailMark, Releasing
    <2> QED
        BY <1>2, <2>1, StillReturns
<1>9. CASE Confirm(h)
    <2>1. \E b \in BOOLEAN : Goto(h, [job[h] EXCEPT !.step = "stamp", !.ok = @ /\ b])
        BY <1>9 DEF Confirm, Closed
    <2>2. PICK b \in BOOLEAN : Goto(h, [job[h] EXCEPT !.step = "stamp", !.ok = @ /\ b])
        BY <2>1
    <2> DEFINE w == [job[h] EXCEPT !.step = "stamp", !.ok = @ /\ b]
    <2>3. job' = [job EXCEPT ![h] = w] /\ w.step = "stamp" /\ w.source = job[h].source
        BY <1>1, <2>2 DEF Goto, Handler
    <2> HIDE DEF w
    <2>4. Local(w, auto) /\ ~Releasing(w)
        <3>1. Local(job[h], auto)
            BY DEF SeatOK
        <3> QED
            BY <2>3, <3>1 DEF Local, Releasing, Blank
    <2> QED
        BY <1>2, <2>3, <2>4, StillGoes
<1>10. CASE ConfirmFail(h)
    <2>1. Stop(h) \/ (At(h, "failMark") /\ Fault)
        BY <1>10 DEF ConfirmFail, Escape
    <2> QED
        BY <1>3, <1>4, <2>1 DEF Blank
<1>11. CASE Stamp(h)
    BY <1>0, <1>1, <1>2, <1>11, StillReturns DEF Stamp
<1> QED
    BY <1>5, <1>6, <1>7, <1>8, <1>9, <1>10, <1>11

\* A row that is there is left alone, or overwritten without its placement when it
\* cannot be read: what was given back for that placement is owed again.
LEMMA ManualAddSeats ==
    ASSUME Inv, SeatOK, Serial, NEW h \in Handlers, ManualAdd(h)
    PROVE  SeatOK'
<1> DEFINE s == seats
           o == hold.clan
           a == hold.active
           k == row.clan
           f == spent.faults
<1>0. HoldOK /\ Local(job[h], auto) /\ ~auto /\ (row.present => BooksOf(job[h]))
    BY DEF SeatOK, ManualAdd, Local
<1>1. /\ UNCHANGED <<hold, seats, auto>> /\ job[h].step = "manualAdd"
      /\ \/ Upsert("", FALSE)
         \/ Fault /\ UNCHANGED row
    BY DEF ManualAdd, outside
<1>2. PICK r :
      /\ job' = [job EXCEPT ![h] = r]
      /\ r.step = "closeRow" /\ r.source = job[h].source /\ r.prev = job[h].prev
      /\ r.deltas = job[h].deltas /\ r.seen = job[h].seen
    <2> DEFINE q == [job[h] EXCEPT !.step = "closeRow"]
    <2>1. /\ job' = [job EXCEPT ![h] = q]
          /\ q.step = "closeRow" /\ q.source = job[h].source /\ q.prev = job[h].prev
          /\ q.deltas = job[h].deltas /\ q.seen = job[h].seen
        BY SeatFacts DEF ManualAdd, At, Goto, Handler
    <2> HIDE DEF q
    <2> QED
        BY <2>1
<1>3. Local(r, auto) /\ ~Releasing(r)
    BY <1>0, <1>1, <1>2 DEF Local, Blank, Releasing
<1>4. \/ Calm \/ Fault \/ Unread
    BY <1>1 DEF Upsert
<1>5. /\ s \in [Clans -> Int] /\ a \in BOOLEAN /\ f \in Nat
      /\ s' = s /\ o' = o /\ a' = a
    BY <1>1, SeatFacts
<1>6. CASE row.present /\ (Calm \/ Fault) /\ ~Unread
    <2>1. row'.clan = row.clan /\ row'.present = row.present /\ row'.final = row.final
        BY <1>1, <1>6, InvRest DEF Upsert, RowType
    <2>2. Still(h)
        BY <1>0, <1>1, <1>6, <2>1 DEF Still, HoldOK
    <2> QED
        BY <1>2, <1>3, <2>2, StillGoes
<1>7. CASE row.present /\ Unread
    <2>1. row' = row \/ (row'.present /\ row'.clan = NoClan /\ row'.final = "pending")
        <3>1. row \in RowType /\ ~Calm
            BY <1>7, InvRest, Charges
        <3> QED
            BY <1>1, <1>7, <3>1 DEF Upsert, RowType, NoClan
    <2>2. HoldOK'
        BY <1>0, <1>1, <1>7, <2>1 DEF HoldOK
    <2>3. Debt(s, o, a, k) <= 2 * f
        BY <1>0, <1>1, <1>7 DEF BooksOf, Books
    <2>4. f' = f + 1
        BY <1>7, Spending
    <2> DEFINE v == Debt(s, o, a, k')
               w == Debt(s, o, a, k)
    <2>5. v <= w + 2 /\ v \in Nat /\ w \in Nat
        BY <1>5, Recorded, DebtType
    <2>6. v <= 2 * (f + 1)
        <3>1. w <= 2 * f /\ f \in Nat
            BY <2>3, <1>5
        <3> HIDE DEF v, w, f
        <3> QED
            BY <2>5, <3>1
    <2>7. BooksOf(r)'
        BY <1>2, <1>3, <1>5, <2>4, <2>6 DEF BooksOf, Books
    <2> QED
        BY <1>1, <1>2, <1>3, <2>2, <2>7, SeatMoved
<1>8. CASE ~row.present
    <2>1. /\ k = NoClan /\ (hold.clan # NoClan => hold.active) /\ row.final # "done"
          /\ \A c \in Clans : seats[c] = 0
        BY <1>0, <1>8 DEF HoldOK, Inv, RecordOK
    <2>2. row'.clan = NoClan /\ row'.final = row.final /\ (row' = row \/ row'.present)
        BY <1>1, <1>8, <2>1, InvRest DEF Upsert, RowType
    <2>3. HoldOK'
        BY <1>0, <1>1, <1>8, <2>1, <2>2 DEF HoldOK
    <2>4. Debt(s, o, a, k) = 0
        BY <2>1, NothingOwed, SeatFacts
    <2>5. spent'.faults \in Nat
        BY <1>4, <1>5, Spending
    <2>6. \A n \in Nat : 0 <= 2 * n
        OBVIOUS
    <2>7. Debt(seats', hold'.clan, hold'.active, row'.clan) <= 2 * spent'.faults
        BY <1>1, <2>1, <2>2, <2>4, <2>5, <2>6, Zenon
    <2>8. BooksOf(r)'
        BY <1>2, <1>3, <2>7 DEF BooksOf, Books
    <2> QED
        BY <1>1, <1>2, <1>3, <2>3, <2>8, SeatMoved
<1> QED
    BY <1>4, <1>6, <1>7, <1>8, SeatFacts

LEMMA RereadSeats ==
    ASSUME Inv, SeatOK, Serial, NEW h \in Handlers, Reread(h)
    PROVE  SeatOK'
<1> DEFINE s == seats
           o == hold.clan
           a == hold.active
           k == row.clan
           f == spent.faults
<1>0. /\ HoldOK /\ Local(job[h], auto) /\ (row.present => BooksOf(job[h]))
      /\ job[h].step = "reread"
    BY DEF SeatOK, Reread
<1>1. /\ HoldOK' /\ UNCHANGED <<row, hold, seats, auto>>
      /\ s' = s /\ o' = o /\ a' = a /\ k' = k
    BY <1>0 DEF Reread, HoldOK, outside, sheets
<1>2. \E r : /\ job' = [job EXCEPT ![h] = r] /\ r.step = "look"
             /\ r.source = job[h].source /\ r.deltas = job[h].deltas /\ r.seen = job[h].seen
             /\ \/ r.prev = k /\ f' = f
                \/ r.prev = NoClan /\ f' = f + 1
    <2>1. job[h] \in Handler
        BY SeatFacts
    <2>2. CASE Calm /\ Goto(h, [job[h] EXCEPT !.step = "look", !.prev = row.clan])
        <3> DEFINE q == [job[h] EXCEPT !.step = "look", !.prev = row.clan]
        <3>1. /\ job' = [job EXCEPT ![h] = q] /\ q.step = "look" /\ q.prev = k
              /\ q.source = job[h].source /\ q.deltas = job[h].deltas /\ q.seen = job[h].seen
            BY <2>1, <2>2 DEF Goto, Handler
        <3> HIDE DEF q, k
        <3> QED
            BY <2>2, <3>1, Spending
    <2>3. CASE Fault /\ At(h, "look")
        <3> DEFINE q == [job[h] EXCEPT !.step = "look"]
        <3>1. /\ job' = [job EXCEPT ![h] = q] /\ q.step = "look" /\ q.prev = NoClan
              /\ q.source = job[h].source /\ q.deltas = job[h].deltas /\ q.seen = job[h].seen
            BY <1>0, <2>1, <2>3 DEF At, Goto, Handler, Local, Blank
        <3> HIDE DEF q, k
        <3> QED
            BY <2>3, <3>1, Spending
    <2> QED
        BY <2>2, <2>3 DEF Reread
<1>3. PICK r : /\ job' = [job EXCEPT ![h] = r] /\ r.step = "look"
               /\ r.source = job[h].source /\ r.deltas = job[h].deltas /\ r.seen = job[h].seen
               /\ \/ r.prev = k /\ f' = f
                  \/ r.prev = NoClan /\ f' = f + 1
    BY <1>2
<1>4. Local(r, auto)
    BY <1>0, <1>3 DEF Local, Blank
<1>5. ASSUME row'.present PROVE BooksOf(r)'
    <2>1. Debt(s, o, a, k) <= 2 * f
        BY <1>0, <1>1, <1>5 DEF BooksOf, Books
    <2>2. s \in [Clans -> Int] /\ a \in BOOLEAN /\ f \in Nat
        BY SeatFacts
    <2> HIDE DEF s, o, a, k, f
    <2>3. Books(r, s, o, a, k, f')
        BY <1>3, <2>1, <2>2, BooksReread
    <2> QED
        BY <1>1, <2>3 DEF BooksOf, s, o, a, k, f
<1> QED
    BY <1>0, <1>1, <1>3, <1>4, <1>5, SeatMoved

\* What a decision is made of.
LEMMA LookPlaces ==
    ASSUME Inv, SeatOK, Serial, NEW h \in Handlers, job[h].step = "look"
    PROVE  /\ Places(job[h].tag, job[h].prev, hold.clan) /\ (hold.active => hold.clan # NoClan)
           /\ row.present /\ BooksOf(job[h])
           /\ job[h].deltas = << >> /\ ~job[h].seen
<1>1. job[h].tag \in Tags /\ row.present
    BY DEF Inv, RecordOK, Finalizing, Underway
<1>2. job[h].prev \in Tags \cup {""} /\ hold.clan \in Clans \cup {""}
    BY SeatFacts, InvRest DEF Handler, RestOK
<1>3. Places(job[h].tag, job[h].prev, hold.clan)
    BY <1>1, <1>2 DEF Places, Tags, NoClan, Nowhere
<1> QED
    BY <1>1, <1>3 DEF SeatOK, HoldOK, Local

LEMMA LookSeats ==
    ASSUME Inv, SeatOK, Serial, NEW h \in Handlers, Look(h) \/ LookFail(h)
    PROVE  SeatOK'
<1> DEFINE s == seats
           o == hold.clan
           a == hold.active
           k == row.clan
           f == spent.faults
           j == job[h]
<1>0. /\ HoldOK /\ Local(j, auto) /\ j.step = "look" /\ j \in Handler
    BY SeatFacts DEF SeatOK, Look, LookFail
<1>1. /\ HoldOK' /\ UNCHANGED <<row, hold, seats, auto>>
      /\ s' = s /\ o' = o /\ a' = a /\ k' = k
    BY <1>0 DEF Look, LookFail, HoldOK, outside, sheets
<1>2. ASSUME NEW r, job' = [job EXCEPT ![h] = r], r.step = "write", r.source = j.source,
             Books(r, s, o, a, k, f')
      PROVE  SeatOK'
    <2>1. Local(r, auto)
        BY <1>0, <1>2 DEF Local, Blank
    <2>2. BooksOf(r)'
        BY <1>1, <1>2 DEF BooksOf
    <2> QED
        BY <1>0, <1>1, <1>2, <2>1, <2>2, SeatMoved
<1>3. /\ s \in [Clans -> Int] /\ a \in BOOLEAN /\ f \in Nat
      /\ Places(j.tag, j.prev, o) /\ (a => o # NoClan) /\ Books(j, s, o, a, k, f)
      /\ j.deltas = << >> /\ ~j.seen
    BY <1>0, SeatFacts, LookPlaces DEF BooksOf
<1>4. ASSUME NEW d, Decide(h, d)
      PROVE  \E r : /\ job' = [job EXCEPT ![h] = r] /\ r.step = "write" /\ r.source = j.source
                    /\ r.tag = j.tag /\ r.seen = (d # NoClan)
                    /\ r.deltas = Decision(j.tag, j.prev, d)
    <2> DEFINE q == [j EXCEPT !.step = "write", !.seen = d # "",
                              !.deltas = Decision(job[h].tag, job[h].prev, d)]
    <2>1. /\ job' = [job EXCEPT ![h] = q] /\ q.step = "write" /\ q.source = j.source
          /\ q.tag = j.tag /\ q.seen = (d # NoClan)
          /\ q.deltas = Decision(j.tag, j.prev, d)
        BY <1>0, <1>4 DEF Decide, Goto, Handler, NoClan
    <2> HIDE DEF q
    <2> QED
        BY <2>1
<1>5. CASE Look(h)
    <2>1. f' = f
        BY <1>5, Spending DEF Look
    <2> DEFINE d == IF a THEN o ELSE NoClan
    <2>2. Decide(h, d)
        BY <1>5 DEF Look, NoClan
    <2>3. PICK r : /\ job' = [job EXCEPT ![h] = r] /\ r.step = "write" /\ r.source = j.source
                   /\ r.tag = j.tag /\ r.seen = (d # NoClan)
                   /\ r.deltas = Decision(j.tag, j.prev, d)
        BY <1>4, <2>2
    <2>4. r.seen = a
        BY <1>3, <2>3
    <2> HIDE DEF s, o, a, k, f, j
    <2>5. Books(r, s, o, a, k, f)
        BY <1>0, <1>3, <2>3, <2>4, BooksLook
    <2> QED
        BY <1>2, <2>1, <2>3, <2>5
<1>6. CASE LookFail(h)
    <2>1. f' = f + 1 /\ Fault
        BY <1>6, Spending DEF LookFail
    <2>2. CASE Decide(h, NoClan)
        <3>1. PICK r : /\ job' = [job EXCEPT ![h] = r] /\ r.step = "write" /\ r.source = j.source
                       /\ r.tag = j.tag /\ r.seen = (NoClan # NoClan)
                       /\ r.deltas = Decision(j.tag, j.prev, NoClan)
            BY <1>4, <2>2
        <3>2. r.seen = FALSE
            BY <3>1
        <3> HIDE DEF s, o, a, k, f, j
        <3>3. Books(r, s, o, a, k, f + 1)
            BY <1>0, <1>3, <3>1, <3>2, BooksLook
        <3> QED
            BY <1>2, <2>1, <3>1, <3>3
    <2>3. CASE Goto(h, [job[h] EXCEPT !.step = "write", !.ok = FALSE])
        <3> DEFINE r == [job[h] EXCEPT !.step = "write", !.ok = FALSE]
        <3>1. /\ job' = [job EXCEPT ![h] = r] /\ r.step = "write" /\ r.source = j.source
              /\ r.tag = j.tag /\ r.seen = FALSE /\ r.deltas = << >>
            BY <1>0, <1>3, <2>3 DEF Goto, Handler
        <3> HIDE DEF s, o, a, k, f, j, r
        <3>3. Books(r, s, o, a, k, f + 1)
            BY <1>0, <1>3, <3>1, BooksLook
        <3> QED
            BY <1>2, <2>1, <3>1, <3>3
    <2>4. CASE Escape(h)
        <3>1. Still(h)
            BY <1>0, <1>1, <2>1 DEF Still, HoldOK
        <3>2. CASE At(h, "failMark")
            BY <2>1, <3>1, <3>2, StillAt DEF Blank
        <3>3. CASE Stop(h)
            BY <3>1, <3>3, StillStops
        <3> QED
            BY <2>4, <3>2, <3>3 DEF Escape
    <2> QED
        BY <1>6, <2>2, <2>3, <2>4 DEF LookFail, NoClan
<1> QED
    BY <1>5, <1>6

LEMMA WriteSeats ==
    ASSUME Inv, SeatOK, Serial, NEW h \in Handlers, Write(h)
    PROVE  SeatOK'
<1> DEFINE s == seats
           o == hold.clan
           a == hold.active
           k == row.clan
           f == spent.faults
           j == job[h]
<1>0. /\ HoldOK /\ Local(j, auto) /\ j.step = "write" /\ j \in Handler
      /\ row.present /\ j.tag \in Tags
    BY SeatFacts DEF SeatOK, Write, Inv, RecordOK, Underway, Finalizing
<1>1. /\ UNCHANGED <<hold, seats, auto>> /\ row'.clan = j.tag /\ row'.present
      /\ f' = f \/ f' = f + 1
    <2>1. Upsert(j.tag, TRUE) /\ UNCHANGED <<hold, seats, auto>>
        BY DEF Write, outside
    <2>2. j.tag # ""
        BY <1>0, TagFacts
    <2>3. j.tag \in Tags \cup {""} /\ TRUE \in BOOLEAN
        BY <1>0
    <2>4. /\ Calm \/ Unread
          /\ row'.present /\ row'.clan = j.tag
        BY <2>1, <2>2, <2>3, Upserted
    <2> QED
        BY <2>1, <2>4, Spending
<1>2. HoldOK'
    BY <1>0, <1>1, TagFacts DEF HoldOK, NoClan
<1>3. PICK r : /\ job' = [job EXCEPT ![h] = r] /\ r.step = "hold" /\ r.source = j.source
               /\ r.tag = j.tag /\ r.seen = j.seen /\ r.deltas = j.deltas
    <2> DEFINE q == [j EXCEPT !.step = "hold"]
    <2>1. /\ job' = [job EXCEPT ![h] = q] /\ q.step = "hold" /\ q.source = j.source
          /\ q.tag = j.tag /\ q.seen = j.seen /\ q.deltas = j.deltas
        BY <1>0 DEF Write, At, Goto, Handler
    <2> HIDE DEF q
    <2> QED
        BY <2>1
<1>4. Local(r, auto)
    BY <1>0, <1>3 DEF Local, Blank
<1>5. /\ s \in [Clans -> Int] /\ a \in BOOLEAN /\ f \in Nat
      /\ Books(j, s, o, a, k, f)
    BY <1>0, SeatFacts DEF SeatOK, BooksOf
<1>6. Books(r, s, o, a, j.tag, f) /\ Books(r, s, o, a, j.tag, f + 1)
    <2> HIDE DEF s, o, a, k, f, j
    <2> QED
        BY <1>0, <1>3, <1>5, BooksWrite
<1>7. BooksOf(r)'
    BY <1>1, <1>6 DEF BooksOf
<1> QED
    BY <1>0, <1>1, <1>2, <1>3, <1>4, <1>7, SeatMoved

LEMMA SettleHoldSeats ==
    ASSUME Inv, SeatOK, Serial, NEW h \in Handlers, SettleHold(h)
    PROVE  SeatOK'
<1> DEFINE s == seats
           o == hold.clan
           a == hold.active
           k == row.clan
           f == spent.faults
           j == job[h]
<1>0. /\ HoldOK /\ Local(j, auto) /\ j.step = "hold" /\ j \in Handler
      /\ row.present
    BY SeatFacts DEF SeatOK, SettleHold, Inv, RecordOK, Underway
<1>1. UNCHANGED <<row, seats, auto>> /\ hold' \in {hold, [hold EXCEPT !.active = FALSE]}
    BY DEF SettleHold, outside
<1>2. HoldOK' /\ o' = o
    BY <1>0, <1>1, InvRest DEF HoldOK, RestOK
<1>3. /\ s \in [Clans -> Int] /\ a \in BOOLEAN /\ f \in Nat
      /\ Books(j, s, o, a, k, f) /\ j.seen \in BOOLEAN
    BY <1>0, SeatFacts DEF SeatOK, BooksOf, Handler
<1>4. \E r : /\ job' = [job EXCEPT ![h] = r] /\ r.step = "adjust" /\ r.source = j.source
             /\ r.deltas = j.deltas
    <2> DEFINE q == [j EXCEPT !.step = "adjust"]
               w == [j EXCEPT !.step = "adjust", !.ok = FALSE]
    <2>1. /\ q.step = "adjust" /\ q.source = j.source /\ q.deltas = j.deltas
          /\ w.step = "adjust" /\ w.source = j.source /\ w.deltas = j.deltas
        BY <1>0 DEF Handler
    <2>2. job' = [job EXCEPT ![h] = q] \/ job' = [job EXCEPT ![h] = w]
        BY DEF SettleHold, At, Goto
    <2> HIDE DEF q, w
    <2> QED
        BY <2>1, <2>2
<1>5. PICK r : /\ job' = [job EXCEPT ![h] = r] /\ r.step = "adjust" /\ r.source = j.source
               /\ r.deltas = j.deltas
    BY <1>4
<1>6. Local(r, auto)
    BY <1>0, <1>5 DEF Local, Blank
<1>7. \/ ~j.seen /\ a' = a /\ f' = f
      \/ j.seen /\ a' = FALSE /\ f' = f
      \/ j.seen /\ a' = a /\ f' = f + 1
    BY InvRest, Spending DEF SettleHold, RestOK
<1>8. BooksOf(r)'
    <2>1. /\ ~j.seen => Books(r, s, o, a, k, f)
          /\ j.seen => Books(r, s, o, FALSE, k, f)
          /\ j.seen => Books(r, s, o, a, k, f + 1)
        <3> HIDE DEF s, o, a, k, f, j
        <3> QED
            BY <1>0, <1>3, <1>5, BooksHold
    <2> DEFINE b == hold'.active
               g == spent'.faults
    <2>2. Books(r, s, o, b, k, g)
        <3>1. \/ ~j.seen /\ b = a /\ g = f
              \/ j.seen /\ b = FALSE /\ g = f
              \/ j.seen /\ b = a /\ g = f + 1
            BY <1>7
        <3> HIDE DEF s, o, a, k, f, j, b, g
        <3> QED
            BY <2>1, <3>1
    <2> QED
        BY <1>1, <1>2, <2>2 DEF BooksOf
<1> QED
    BY <1>0, <1>1, <1>2, <1>5, <1>6, <1>8, SeatMoved

LEMMA AdjustSeats ==
    ASSUME Inv, SeatOK, Serial, NEW h \in Handlers, Adjust(h)
    PROVE  SeatOK'
<1> DEFINE s == seats
           o == hold.clan
           a == hold.active
           k == row.clan
           f == spent.faults
           j == job[h]
           z == [s EXCEPT ![Head(j.deltas)[1]] = @ + Head(j.deltas)[2]]
<1>0. /\ HoldOK /\ Local(j, auto) /\ j.step = "adjust" /\ j.deltas # << >> /\ j \in Handler
      /\ row.present
    BY SeatFacts DEF SeatOK, Adjust, Inv, RecordOK, Underway
<1>1. UNCHANGED <<row, hold, auto>>
    BY DEF Adjust, outside
<1>2. HoldOK'
    BY <1>0, <1>1 DEF HoldOK
<1>3. /\ s \in [Clans -> Int] /\ a \in BOOLEAN /\ f \in Nat
      /\ Books(j, s, o, a, k, f)
    BY <1>0, SeatFacts DEF SeatOK, BooksOf
<1>4. \E r : /\ job' = [job EXCEPT ![h] = r] /\ r.step = "adjust" /\ r.source = j.source
             /\ r.deltas = Tail(j.deltas)
    <2> DEFINE q == [j EXCEPT !.deltas = Tail(@)]
               w == [j EXCEPT !.deltas = Tail(@), !.ok = FALSE]
    <2>1. /\ q.step = "adjust" /\ q.source = j.source /\ q.deltas = Tail(j.deltas)
          /\ w.step = "adjust" /\ w.source = j.source /\ w.deltas = Tail(j.deltas)
        BY <1>0 DEF Handler
    <2>2. job' = [job EXCEPT ![h] = q] \/ job' = [job EXCEPT ![h] = w]
        BY DEF Adjust, Goto
    <2> HIDE DEF q, w
    <2> QED
        BY <2>1, <2>2
<1>5. PICK r : /\ job' = [job EXCEPT ![h] = r] /\ r.step = "adjust" /\ r.source = j.source
               /\ r.deltas = Tail(j.deltas)
    BY <1>4
<1>6. Local(r, auto)
    BY <1>0, <1>5 DEF Local, Blank
<1>7. \/ seats' = z /\ spent'.faults = f
      \/ seats' = s /\ spent'.faults = f + 1
    BY Spending DEF Adjust
<1>8. BooksOf(r)'
    <2>1. Books(r, z, o, a, k, f) /\ Books(r, s, o, a, k, f + 1)
        <3> HIDE DEF s, o, a, k, f, j
        <3>1. \A y : y = z => Books(r, y, o, a, k, f) /\ Books(r, s, o, a, k, f + 1)
            BY <1>0, <1>3, <1>5, BooksAdjust
        <3> QED
            BY <3>1
    <2> DEFINE y == seats'
               g == spent'.faults
    <2>2. Books(r, y, o, a, k, g)
        <3>1. \/ y = z /\ g = f
              \/ y = s /\ g = f + 1
            BY <1>7
        <3> HIDE DEF s, o, a, k, f, j, y, g, z
        <3> QED
            BY <2>1, <3>1
    <2> QED
        BY <1>1, <2>2 DEF BooksOf
<1> QED
    BY <1>0, <1>1, <1>2, <1>5, <1>6, <1>8, SeatMoved

LEMMA AdjustedSeats ==
    ASSUME Inv, SeatOK, Serial, NEW h \in Handlers, Adjusted(h)
    PROVE  SeatOK'
<1> DEFINE s == seats
           o == hold.clan
           a == hold.active
           k == row.clan
           f == spent.faults
           j == job[h]
<1>0. /\ HoldOK /\ Local(j, auto) /\ j.step = "adjust" /\ j.deltas = << >> /\ j \in Handler
      /\ row.present
    BY SeatFacts DEF SeatOK, Adjusted, Inv, RecordOK, Underway
<1>1. UNCHANGED <<row, hold, seats, auto>> /\ spent'.faults = f
    BY Spending DEF Adjusted, outside, sheets
<1>2. HoldOK'
    BY <1>0, <1>1 DEF HoldOK
<1>3. /\ s \in [Clans -> Int] /\ a \in BOOLEAN /\ f \in Nat
      /\ Books(j, s, o, a, k, f)
    BY <1>0, SeatFacts DEF SeatOK, BooksOf
<1>4. PICK r : /\ job' = [job EXCEPT ![h] = r] /\ r.step = "confirm" /\ r.source = j.source
    <2> DEFINE q == [j EXCEPT !.step = "confirm"]
    <2>1. job' = [job EXCEPT ![h] = q] /\ q.step = "confirm" /\ q.source = j.source
        BY <1>0 DEF Adjusted, At, Goto, Handler
    <2> HIDE DEF q
    <2> QED
        BY <2>1
<1>5. Local(r, auto) /\ ~Releasing(r) /\ r.step \notin {"look", "write", "hold", "adjust"}
    BY <1>0, <1>4 DEF Local, Blank, Releasing
<1>6. Books(r, s, o, a, k, f)
    <2> HIDE DEF s, o, a, k, f, j
    <2>1. Debt(s, o, a, k) <= 2 * f
        BY <1>0, <1>3, BooksDropped
    <2> QED
        BY <1>3, <1>5, <2>1, BooksQuiet
<1>7. BooksOf(r)'
    BY <1>1, <1>6 DEF BooksOf
<1> QED
    BY <1>0, <1>1, <1>2, <1>4, <1>5, <1>7, SeatMoved

LEMMA ReleaseSeats ==
    ASSUME Inv, SeatOK, Serial, NEW h \in Handlers, Release(h)
    PROVE  SeatOK'
<1> DEFINE s == seats
           o == hold.clan
           a == hold.active
           k == row.clan
           f == spent.faults
           j == job[h]
<1>0. /\ HoldOK /\ Local(j, auto) /\ j.step = "release" /\ j.source = "auto" /\ auto
    BY DEF SeatOK, Release, Local
<1>1. CASE Fault /\ UNCHANGED hold
    <2>1. Still(h)
        BY <1>0, <1>1 DEF Release, Still, HoldOK, outside
    <2> QED
        BY <2>1, StillStops DEF Release
<1>2. CASE Calm /\ hold' = [hold EXCEPT !.active = FALSE]
    <2>1. /\ UNCHANGED <<row, seats, auto>> /\ spent'.faults = f
          /\ hold'.clan = o /\ hold'.active = FALSE
        BY <1>2, InvRest, Spending DEF Release, outside, RestOK
    <2>2. HoldOK'
        BY <1>0, <2>1 DEF HoldOK
    <2>3. job' = [job EXCEPT ![h] = Idle]
        BY DEF Release, Stop, Goto
    <2>4. /\ Local(Idle, auto) /\ ~Releasing(Idle)
          /\ Idle.step \notin {"look", "write", "hold", "adjust"}
        BY DEF Local, Releasing, Idle, Blank
    <2>5. ASSUME row'.present PROVE BooksOf(Idle)'
        <3>1. /\ s \in [Clans -> Int] /\ a \in BOOLEAN /\ f \in Nat
              /\ Books(j, s, o, a, k, f)
            BY <1>0, <2>1, <2>5, SeatFacts DEF SeatOK, BooksOf
        <3> HIDE DEF s, o, a, k, f, j
        <3>2. Debt(s, o, FALSE, k) <= 2 * f
            BY <1>0, <3>1, BooksReleased
        <3>3. FALSE \in BOOLEAN
            OBVIOUS
        <3>4. Books(Idle, s, o, FALSE, k, f)
            BY <2>4, <3>1, <3>2, <3>3, BooksQuiet
        <3> QED
            BY <2>1, <3>4 DEF BooksOf, s, o, k, f, Idle
    <2> QED
        BY <1>0, <2>1, <2>2, <2>3, <2>4, <2>5, SeatMoved
<1> QED
    BY <1>1, <1>2 DEF Release

\* An event starts a handler, which has read nothing yet.
LEMMA SeatStarted ==
    ASSUME Inv, SeatOK, NEW h \in Handlers, NEW r, NEW n \in {0, 1},
           StartUnread(h, r, n), r.step \in Blank,
           Local(r, auto'), UNCHANGED sheets, auto => auto'
    PROVE  SeatOK'
<1> SUFFICES ASSUME Serial' PROVE SeatOK'
    BY DEF SeatOK
<1> DEFINE s == seats
           o == hold.clan
           a == hold.active
           k == row.clan
           f == spent.faults
<1>1. /\ Serial /\ \A g \in Handlers : job[g].step = "idle"
      /\ spent'.faults = f + n
    <2> DEFINE more == IF Busy = {} THEN 0 ELSE 1
    <2>1. /\ spent'.overlaps = spent.overlaps + more /\ spent'.faults = spent.faults + n
          /\ spent.overlaps \in Nat
        BY DEF Inv, TypeOK, StartUnread
    <2>2. Busy # {} => more = 1
        OBVIOUS
    <2>3. Busy = {} => more = 0 /\ \A g \in Handlers : job[g].step = "idle"
        BY DEF Busy
    <2> HIDE DEF more
    <2> QED
        BY <2>1, <2>2, <2>3 DEF Serial
<1>2. /\ row' = row /\ hold' = hold /\ seats' = seats
      /\ job' = [job EXCEPT ![h] = r]
    BY DEF StartUnread, Goto, sheets
<1>3. HoldOK'
    BY <1>1, <1>2 DEF SeatOK, HoldOK
<1>4. \A g \in Handlers : Local(job'[g], auto')
    <2>1. \A g \in Handlers : Local(job[g], auto')
        BY <1>1 DEF SeatOK, Local, Blank
    <2> QED
        BY <1>2, <2>1, SeatFacts
<1>5. ASSUME row.present PROVE BooksOf(r)' /\ Debt(s, o, a, k) <= 2 * (f + n)
    <2>1. Debt(s, o, a, k) <= 2 * f
        BY <1>1, <1>5 DEF SeatOK
    <2>2. s \in [Clans -> Int] /\ a \in BOOLEAN /\ f \in Nat
        BY SeatFacts
    <2>3. r.step \notin {"look", "write", "hold", "adjust"} /\ ~Releasing(r)
        BY DEF Blank, Releasing
    <2> HIDE DEF s, o, a, k, f
    <2>4. Books(r, s, o, a, k, f) /\ Books(r, s, o, a, k, f + 1)
        BY <2>1, <2>2, <2>3, BooksQuiet
    <2>5. Books(r, s, o, a, k, f + n)
        <3>1. n = 0 => f + n = f
            BY <2>2
        <3>2. n # 0 => f + n = f + 1
            OBVIOUS
        <3> QED
            BY <2>4, <3>1, <3>2
    <2>6. Debt(s, o, a, k) <= 2 * (f + n)
        BY <2>3, <2>5 DEF Books
    <2> QED
        BY <1>1, <1>2, <2>5, <2>6 DEF BooksOf, s, o, a, k, f
<1>6. ASSUME row'.present
      PROVE  /\ Debt(seats', hold'.clan, hold'.active, row'.clan) <= 2 * spent'.faults
             /\ \A g \in Handlers : job'[g].step # "idle" => BooksOf(job[g])'
    <2>1. \A g \in Handlers : job'[g].step # "idle" => job'[g] = r
        BY <1>1, <1>2, SeatFacts
    <2>2. BooksOf(r)' /\ Debt(s, o, a, k) <= 2 * (f + n)
        BY <1>2, <1>5, <1>6
    <2> QED
        BY <1>1, <1>2, <2>1, <2>2 DEF BooksOf
<1> QED
    BY <1>3, <1>4, <1>6 DEF SeatOK

LEMMA EventSeats ==
    ASSUME Inv, SeatOK, NEW h \in Handlers, Event(h)
    PROVE  SeatOK'
<1> DEFINE Fresh(r, s, m) == /\ r.step = s /\ r.source = m /\ r.prev = NoClan
                             /\ r.deltas = << >> /\ ~r.seen
<1>1. \A s, m : Fresh([Idle EXCEPT !.step = s, !.source = m], s, m)
    BY DEF Idle, NoClan
<1>2. \A s, m, t : Fresh([Idle EXCEPT !.step = s, !.source = m, !.tag = t], s, m)
    BY DEF Idle, NoClan
<1> HIDE DEF Fresh
<1>3. ASSUME NEW s \in Blank, NEW m, NEW r, NEW n \in {0, 1}, Fresh(r, s, m),
             StartUnread(h, r, n),
             m = "auto" => auto', s \in {"manualRow", "manualAdd"} => ~auto',
             UNCHANGED sheets, auto => auto'
      PROVE  SeatOK'
    <2>1. Local(r, auto') /\ r.step \in Blank
        BY <1>3 DEF Local, Blank, Fresh
    <2> QED
        BY <1>3, <2>1, SeatStarted
<1>11. 0 \in {0, 1}
    OBVIOUS
<1>4. {"closeRow", "manualRow", "check", "auto", "backfill"} \subseteq Blank
    BY DEF Blank
<1>5. CASE ToolClosed(h)
    <2>1. StartUnread(h, [Idle EXCEPT !.step = "closeRow", !.source = "tool"], 0)
          /\ UNCHANGED sheets /\ UNCHANGED auto
        BY <1>5 DEF ToolClosed, Start, outside
    <2>2. Fresh([Idle EXCEPT !.step = "closeRow", !.source = "tool"], "closeRow", "tool")
        BY <1>1
    <2> QED
        BY <1>3, <1>4, <1>11, <2>1, <2>2
<1>6. CASE ThreadUpdate(h)
    <2>1. CASE auto
        <3>1. UNCHANGED <<job, spent, row, hold, seats, auto>>
            BY <1>6, <2>1 DEF ThreadUpdate, sheets
        <3> QED
            BY <3>1 DEF SeatOK, Serial, HoldOK, BooksOf
    <2>2. CASE ~auto
        <3>1. StartUnread(h, [Idle EXCEPT !.step = "manualRow", !.source = "thread"], 0)
              /\ UNCHANGED sheets /\ UNCHANGED auto
            BY <1>6, <2>2 DEF ThreadUpdate, Start
        <3>2. Fresh([Idle EXCEPT !.step = "manualRow", !.source = "thread"], "manualRow", "thread")
            BY <1>1
        <3> QED
            BY <1>3, <1>4, <1>11, <2>2, <3>1, <3>2
    <2> QED
        BY <2>1, <2>2
<1>7. CASE Message(h)
    <2>1. PICK t \in Tags :
              StartUnread(h, [Idle EXCEPT !.step = "check", !.source = "message", !.tag = t], 0)
        BY <1>7 DEF Message, Start
    <2>2. UNCHANGED sheets /\ UNCHANGED auto
        BY <1>7 DEF Message, outside
    <2>3. Fresh([Idle EXCEPT !.step = "check", !.source = "message", !.tag = t], "check", "message")
        BY <1>2
    <2> QED
        BY <1>3, <1>4, <1>11, <2>1, <2>2, <2>3
<1>8. CASE Select(h)
    <2>1. PICK t \in Tags :
              StartUnread(h, [Idle EXCEPT !.step = "check", !.source = "select", !.tag = t], 0)
        BY <1>8 DEF Select, Start
    <2>2. UNCHANGED sheets /\ UNCHANGED auto
        BY <1>8 DEF Select, outside
    <2>3. Fresh([Idle EXCEPT !.step = "check", !.source = "select", !.tag = t], "check", "select")
        BY <1>2
    <2> QED
        BY <1>3, <1>4, <1>11, <2>1, <2>2, <2>3
<1>9. CASE AutoClose(h)
    <2>1. StartUnread(h, [Idle EXCEPT !.step = "auto", !.source = "auto", !.tag = "NONE"], 0)
          /\ UNCHANGED sheets /\ auto'
        BY <1>9 DEF AutoClose, Start
    <2>2. Fresh([Idle EXCEPT !.step = "auto", !.source = "auto", !.tag = "NONE"], "auto", "auto")
        BY <1>2
    <2> QED
        BY <1>3, <1>4, <1>11, <2>1, <2>2
<1>10. CASE Backfill(h)
    <2> DEFINE n == IF row.final = "done" THEN 1 ELSE 0
    <2>1. /\ StartUnread(h, [Idle EXCEPT !.step = "backfill", !.source = "backfill",
                                         !.tag = row.clan], n)
          /\ n \in {0, 1} /\ UNCHANGED sheets /\ UNCHANGED auto
        BY <1>10 DEF Backfill, outside
    <2>2. Fresh([Idle EXCEPT !.step = "backfill", !.source = "backfill", !.tag = row.clan],
                "backfill", "backfill")
        BY <1>2
    <2> QED
        BY <1>3, <1>4, <1>11, <2>1, <2>2
<1> QED
    BY <1>5, <1>6, <1>7, <1>8, <1>9, <1>10 DEF Event

LEMMA CrashSeats ==
    ASSUME Inv, SeatOK, Crash
    PROVE  SeatOK'
<1> SUFFICES ASSUME Serial' PROVE SeatOK'
    BY DEF SeatOK
<1> DEFINE s == seats
           o == hold.clan
           a == hold.active
           k == row.clan
           f == spent.faults
<1>1. /\ row' = row /\ hold' = hold /\ seats' = seats /\ auto' = auto
      /\ job' = [h \in Handlers |-> Idle] /\ Serial /\ spent'.faults = f + 1
    BY Spending DEF Crash, sheets, outside
<1>2. HoldOK'
    BY <1>1 DEF SeatOK, HoldOK
<1>3. \A h \in Handlers : job'[h].step = "idle" /\ Local(job'[h], auto')
    <2>1. Idle.step = "idle" /\ Local(Idle, auto')
        BY DEF Local, Idle, Blank
    <2> QED
        BY <1>1, <2>1
<1>4. ASSUME row.present PROVE Debt(s, o, a, k) <= 2 * (f + 1)
    <2>1. s \in [Clans -> Int] /\ a \in BOOLEAN /\ f \in Nat /\ \A h \in Handlers : job[h] \in Handler
        BY SeatFacts
    <2>2. CASE \A h \in Handlers : job[h].step = "idle"
        <3>1. Debt(s, o, a, k) <= 2 * f
            BY <1>1, <1>4, <2>2 DEF SeatOK
        <3> DEFINE w == Debt(s, o, a, k)
        <3>2. w \in Nat
            BY <2>1, DebtType
        <3>3. w <= 2 * (f + 1)
            <4> HIDE DEF w, f
            <4> QED
                BY <2>1, <3>1, <3>2 DEF w
        <3> QED
            BY <3>3
    <2>3. ASSUME NEW h \in Handlers, job[h].step # "idle" PROVE Debt(s, o, a, k) <= 2 * (f + 1)
        <3>1. Books(job[h], s, o, a, k, f)
            BY <1>1, <1>4, <2>3 DEF SeatOK, BooksOf
        <3> HIDE DEF s, o, a, k, f
        <3> QED
            BY <2>1, <3>1, BooksDropped
    <2> QED
        BY <2>2, <2>3
<1> QED
    BY <1>1, <1>2, <1>3, <1>4 DEF SeatOK

LEMMA NextKeepsSeats == Inv /\ SeatOK /\ [Next]_vars => SeatOK'
<1> SUFFICES ASSUME Inv, SeatOK, [Next]_vars PROVE SeatOK'
    OBVIOUS
<1>1. CASE UNCHANGED <<row, hold, seats, auto, job, spent>>
    BY <1>1 DEF SeatOK, Serial, HoldOK, BooksOf
<1>2. ASSUME NEW h \in Handlers, Event(h) PROVE SeatOK'
    BY <1>2, EventSeats
<1>3. ASSUME NEW h \in Handlers, Step(h) PROVE SeatOK'
    <2>1. Calm \/ Fault \/ Unread
        BY <1>3 DEF Step, TakenAsOpen, Upsert, AutoFinalize, BackfillRow, BackfillUnresolved,
           ManualRow, ManualRowFail, ManualAdd, CloseRow, CloseUnmarked, CloseMark, ClosePrompt, Check, Mark, Refuse,
           FailMark, Reread, Look, LookFail, Write, SettleHold, Adjust, Adjusted, Confirm,
           ConfirmFail, Stamp, Release
    <2>2. CASE ~Serial
        BY <2>1, <2>2, Spending DEF SeatOK
    <2>3. CASE Serial
        BY <1>3, <2>3, OpeningKeeps, MarkingKeeps, ManualAddSeats, RereadSeats, LookSeats,
           WriteSeats, SettleHoldSeats, AdjustSeats, AdjustedSeats, ReleaseSeats DEF Step
    <2> QED
        BY <2>2, <2>3
<1> QED
    BY <1>1, <1>2, <1>3, CrashSeats DEF Next, PromptExpires, vars, sheets, outside

LEMMA TwiceZero == 0 <= 2 * 0
OBVIOUS

LEMMA InitSeats == Init => SeatOK
<1> SUFFICES ASSUME Init PROVE SeatOK
    OBVIOUS
<1>0. Inv
    BY InitInv
<1>1. PICK p \in BOOLEAN : row = [present |-> p, clan |-> "", closed |-> FALSE,
                                  final |-> "pending"]
    BY DEF Init
<1>2. PICK c \in Clans \cup {""} : hold = [clan |-> c, active |-> c # ""]
    BY DEF Init
<1>3. /\ row.clan = NoClan /\ row.final = "pending" /\ (hold.active <=> hold.clan # NoClan)
    BY <1>1, <1>2 DEF NoClan
<1>4. HoldOK
    BY <1>3 DEF HoldOK
<1>5. /\ job = [h \in Handlers |-> Idle] /\ spent.faults = 0 /\ \A d \in Clans : seats[d] = 0
    BY DEF Init
<1>6. \A h \in Handlers : job[h].step = "idle" /\ Local(job[h], auto)
    <2>1. Idle.step = "idle" /\ Local(Idle, auto)
        BY DEF Local, Idle, Blank
    <2> QED
        BY <1>5, <2>1
<1>7. Debt(seats, hold.clan, hold.active, row.clan) = 0
    BY <1>0, <1>3, <1>5, NothingOwed, SeatFacts
<1>8. Debt(seats, hold.clan, hold.active, row.clan) <= 2 * spent.faults
    BY <1>5, <1>7, TwiceZero
<1> QED
    BY <1>4, <1>6, <1>8 DEF SeatOK

\* What is wrong at rest is the debt of the books.
LEMMA WrongIsDebt ==
    ASSUME Inv, row.clan # NoClan
    PROVE  Wrong = Debt(seats, hold.clan, hold.active, row.clan)
<1> DEFINE y == Off(seats, hold.clan, hold.active, row.clan)
<1>1. seats \in [Clans -> Int] /\ hold.active \in BOOLEAN
    BY SeatFacts
<1>2. \A c \in Clans : Gap(c) = Mag(y[c])
    <2> TAKE c \in Clans
    <2> DEFINE u == Bit(c = hold.clan /\ ~hold.active)
               v == Bit(c = row.clan)
               n == seats[c]
    <2>1. Owed(c) = u - v /\ y[c] = n - u + v
        BY DEF Owed, Bit, Off
    <2>2. u \in 0..1 /\ v \in 0..1 /\ n \in Int
        BY <1>1, BitRange
    <2>3. Gap(c) = IF n > Owed(c) THEN n - Owed(c) ELSE Owed(c) - n
        BY DEF Gap
    <2> HIDE DEF u, v, n, y
    <2> QED
        BY <2>1, <2>2, <2>3 DEF Mag
<1>3. Misplaced = Pile(y)
    BY <1>2 DEF Misplaced, Pile, Units
<1>4. Wrong = Size(y) + Bit(hold.active)
    BY <1>3 DEF Wrong, Size, Bit
<1>5. (hold.active /\ row.clan # NoClan) = hold.active
    BY <1>1
<1> QED
    BY <1>4, <1>5, Zenon DEF Debt

\* As long as no two handlers of the ticket overlap, a done ticket at rest has
\* settled its hold and moved the seats its placement calls for, but for two
\* seats per failed call or restart: however often it is closed, prompted for,
\* answered, closed idle or taken up by the backfill.
THEOREM SeatsPaidForSerially == Spec => [](Serial => SeatsPaidFor)
<1>1. Inv /\ SeatOK => (Serial => SeatsPaidFor)
    <2> SUFFICES ASSUME Inv, SeatOK, Serial, row.final = "done", Busy = {}
                 PROVE  Wrong <= 2 * spent.faults + 3 * spent.overlaps
        BY DEF SeatsPaidFor
    <2>1. row.present /\ row.clan # NoClan
        BY DEF Inv, RecordOK, SeatOK, HoldOK
    <2>2. \A h \in Handlers : job[h].step = "idle"
        BY DEF Busy
    <2>3. Wrong <= 2 * spent.faults
        BY <2>1, <2>2, WrongIsDebt DEF SeatOK
    <2>4. Wrong \in Nat /\ spent.faults \in Nat /\ spent.overlaps = 0
        BY <2>1, WrongIsDebt, DebtType, SeatFacts DEF Serial
    <2> HIDE DEF Wrong
    <2> QED
        BY <2>3, <2>4
<1>2. Inv /\ SeatOK /\ [Next]_vars => Inv' /\ SeatOK'
    BY NextKeepsInv, NextKeepsSeats
<1>3. Init => Inv /\ SeatOK
    BY InitInv, InitSeats
<1> QED
    BY <1>1, <1>2, <1>3, PTL DEF Spec

===============================================================================
