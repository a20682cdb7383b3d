------------------------------- MODULE EventLog -------------------------------
(***************************************************************************)
(* What the hub promises of its reports (daemon/src/hub_server.rs,         *)
(* spool_report): those of one process reach the cloud in the order they   *)
(* were made and none of them twice, or some of them not at all.           *)
(***************************************************************************)
EXTENDS Naturals

CONSTANT Boots      \* the processes of the hub, one after the other

VARIABLES
    made,       \* the reports each process has made, numbered from 1
    taken,      \* the reports the cloud has taken: pairs of a process and a number
    takes       \* how many times it took any: each fires their alarms

vars == <<made, taken, takes>>

Init ==
    /\ made = [b \in Boots |-> 0]
    /\ taken = {}
    /\ takes = 0

Make(b) ==
    /\ made' = [made EXCEPT ![b] = @ + 1]
    /\ UNCHANGED <<taken, takes>>

\* Some of what a process has made, all of it later than what has been taken from it.
Take(b, first, last) ==
    /\ \A r \in taken : r[1] = b => r[2] < first
    /\ taken' = taken \union {<<b, n>> : n \in first..last}
    /\ takes' = takes + 1
    /\ UNCHANGED made

Next == \E b \in Boots : Make(b) \/ \E first, last \in 1..made[b] : Take(b, first, last)

Spec == Init /\ [][Next]_vars
=============================================================================
