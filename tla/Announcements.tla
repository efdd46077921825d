---------------------------- MODULE Announcements ----------------------------
(***************************************************************************)
(* What the reminder tab promises to the members of a channel, without     *)
(* clocks, loads and jobs: occurrences of a row are announced in any       *)
(* number of messages until the tab records them; the tab records nothing  *)
(* that was not announced, goes forward only, and what it has recorded is  *)
(* never announced again, nor is anything before it.                       *)
(***************************************************************************)
EXTENDS Naturals, Sequences

CONSTANTS Rows, Occurrences

VARIABLES posts,     \* posts[r]: the occurrences announced, in order
          recorded   \* recorded[r]: the last one the tab knows of, 0 is none

vars == <<posts, recorded>>

Init ==
    /\ posts = [r \in Rows |-> <<>>]
    /\ recorded = [r \in Rows |-> 0]

Announce(r) ==
    /\ \E k \in Occurrences :
           /\ k > recorded[r]
           /\ posts' = [posts EXCEPT ![r] = Append(@, k)]
    /\ UNCHANGED recorded

Record(r) ==
    /\ posts[r] # <<>>
    /\ posts[r][Len(posts[r])] > recorded[r]
    /\ recorded' = [recorded EXCEPT ![r] = posts[r][Len(posts[r])]]
    /\ UNCHANGED posts

Next == \E r \in Rows : Announce(r) \/ Record(r)

Spec == Init /\ [][Next]_vars
=============================================================================
