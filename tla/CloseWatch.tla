----------------------------- MODULE CloseWatch -----------------------------
(***************************************************************************)
(* One unconfirmed close and the decisions about it, from the pure half of *)
(* the confirm-then-retry loop (daemon/src/close_watch.rs).  Times are in  *)
(* any unit; the schedule's constants are CloseSchedule's fields.          *)
(***************************************************************************)
EXTENDS CloseCause, Integers, Sequences

CONSTANTS
    ConfirmWithin,  \* a confirmation read must land within this of every issue
    RetryAt,        \* offsets of re-issues 2, 3, ... from the first attempt
    ThenEvery,      \* after those, one re-issue this often
    AlertAt,        \* the owner is told this long after the first attempt
    GiveUp          \* the hub stops trying this long after the first attempt

ASSUME ScheduleAssumption ==
    /\ ConfirmWithin \in Nat \ {0}
    /\ RetryAt \in Seq(Nat)
    /\ RetryAt # <<>>
    /\ \A i, j \in 1..Len(RetryAt) : i < j => RetryAt[i] < RetryAt[j]
    /\ ThenEvery \in Nat \ {0}
    /\ AlertAt \in Nat
    /\ GiveUp \in Nat
    /\ AlertAt < GiveUp

Watch == [cause: Causes, first: Nat, last: Nat, attempts: Nat \ {0}, alerted: BOOLEAN]

Opened(cause, at) ==
    [cause |-> cause, first |-> at, last |-> at, attempts |-> 1, alerted |-> FALSE]

\* When attempt n falls due, counted from the first: it is due at once.
DueAt(n) ==
    IF n <= 1 THEN 0
    ELSE IF n - 1 <= Len(RetryAt) THEN RetryAt[n - 1]
    ELSE RetryAt[Len(RetryAt)] + (n - 1 - Len(RetryAt)) * ThenEvery

\* Mutant: the alert is counted from the last attempt.
AlertDueFromLast(watch, watering, at) ==
    watering /\ ~watch.alerted /\ at - watch.last >= AlertAt

AlertDue(watch, watering, at) ==
    watering /\ ~watch.alerted /\ at - watch.first >= AlertAt

\* Mutants: the next attempt is due when this one was; there is no window.
StepEarly(watch, watering, at) ==
    IF ~watering THEN "confirmed"
    ELSE IF at - watch.first >= GiveUp THEN "gave_up"
    ELSE IF at - watch.first >= DueAt(watch.attempts) THEN "reissue" ELSE "wait"
StepForever(watch, watering, at) ==
    IF ~watering THEN "confirmed"
    ELSE IF at - watch.first >= DueAt(watch.attempts + 1) THEN "reissue" ELSE "wait"

\* What is seen outranks what was planned, and the end outranks one more try.
CloseStep(watch, watering, at) ==
    IF ~watering THEN "confirmed"
    ELSE IF at - watch.first >= GiveUp THEN "gave_up"
    ELSE IF at - watch.first >= DueAt(watch.attempts + 1) THEN "reissue"
    ELSE "wait"

Reissued(watch, at) == [watch EXCEPT !.attempts = @ + 1, !.last = at]

Least(S) == CHOOSE x \in S : \A y \in S : x <= y

\* How long the caller may sleep: to the next re-issue, the read that confirms
\* the last one, the alert or the end, whichever is first and still ahead.
NextLook(watch, at) ==
    LET targets == {watch.first + DueAt(watch.attempts + 1), watch.first + GiveUp}
                   \union {t \in {watch.last + ConfirmWithin} : t > at}
                   \union {t \in {watch.first + AlertAt} : ~watch.alerted /\ t > at}
        target  == Least(targets)
    IN  IF target > at THEN target - at ELSE 1
=============================================================================
