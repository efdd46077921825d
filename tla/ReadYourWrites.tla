---------------------------- MODULE ReadYourWrites ----------------------------
(* What the read broker promises to the features that read and write a sheet  *)
(* through the bot: a read answers with a version of the resource that is no  *)
(* older than the newest write acknowledged before the read began, and that   *)
(* existed by the time of the answer.  SheetsReadBroker implements it.        *)
EXTENDS Integers

CONSTANTS Keys, Readers

VARIABLES
    content,  \* version of each resource in the sheet
    acked,    \* newest version of each resource that a writer was told of
    reads     \* the read of each reader

vars == <<content, acked, reads>>

Read == [step  : {"idle", "wait", "answered", "failed"},
         key   : Keys \cup {"none"},
         floor : Nat,
         value : Nat]

Unread == [step |-> "idle", key |-> "none", floor |-> 0, value |-> 0]

Becomes(r, step, key, floor, value) ==
    reads' = [reads EXCEPT ![r] = [step  |-> step,  key   |-> key,
                                   floor |-> floor, value |-> value]]

Init ==
    /\ content = [k \in Keys |-> 0]
    /\ acked = [k \in Keys |-> 0]
    /\ reads = [r \in Readers |-> Unread]

Write ==
    /\ \E K \in SUBSET Keys :
           content' = [k \in Keys |-> IF k \in K THEN content[k] + 1 ELSE content[k]]
    /\ UNCHANGED <<acked, reads>>

Acknowledge ==
    /\ \A k \in Keys : acked[k] <= acked'[k] /\ acked'[k] <= content[k]
    /\ acked' \in [Keys -> Nat]
    /\ UNCHANGED <<content, reads>>

Begin(r, k) ==
    /\ reads[r] = Unread
    /\ Becomes(r, "wait", k, acked[k], 0)
    /\ UNCHANGED <<content, acked>>

Answer(r) ==
    /\ reads[r].step = "wait"
    /\ \E v \in reads[r].floor..content[reads[r].key] :
           Becomes(r, "answered", reads[r].key, reads[r].floor, v)
    /\ UNCHANGED <<content, acked>>

\* A read that has nothing to wait for.
AnswerAtOnce(r, k) ==
    /\ reads[r] = Unread
    /\ \E v \in acked[k]..content[k] :
           Becomes(r, "answered", k, acked[k], v)
    /\ UNCHANGED <<content, acked>>

Fail(r) ==
    /\ reads[r].step = "wait"
    /\ Becomes(r, "failed", reads[r].key, reads[r].floor, reads[r].value)
    /\ UNCHANGED <<content, acked>>

Next ==
    \/ Write
    \/ Acknowledge
    \/ \E r \in Readers : Answer(r) \/ Fail(r)
    \/ \E r \in Readers, k \in Keys : Begin(r, k) \/ AnswerAtOnce(r, k)

Spec == Init /\ [][Next]_vars
===============================================================================
