------------------------------ MODULE Telemetry ------------------------------
(***************************************************************************)
(* What the hub forwards of its sensors (daemon/src/hub_server.rs).  Each  *)
(* report runs in a task of its own (h_shelly): an alarm first closes the  *)
(* valves, a reading is held against its gate (daemon/src/cadence.rs), and *)
(* what goes out waits in a bounded queue that one drain at a time sends   *)
(* from.  The newest reading also rides the keyframe of the check-in loop, *)
(* whose reply makes it "last sent".                                       *)
(***************************************************************************)
EXTENDS Integers, Sequences, SequencesExt, FiniteSets

CONSTANTS
    Levels,         \* the values of a reading
    Threshold,      \* the change that is sent at once
    QueueCap,       \* MAX_SHELLY_QUEUE
    MaxReports,     \* bound: reports of the sensor
    MaxFails        \* bound: posts that fail

ASSUME TelemetryAssumption ==
    /\ Levels \subseteq Nat /\ Levels # {}
    /\ {Threshold, QueueCap} \subseteq Nat \ {0}
    /\ {MaxReports, MaxFails} \subseteq Nat

VARIABLES
    reports,    \* the sensor's reports, in the order it made them
    task,       \* where the task of each report is
    queue,      \* pending_shelly
    hand,       \* the report drain_shelly has taken out, NoReport when none
    deltaGate,  \* the reading_gates entry
    newest,     \* shelly_latest, NoValue before the first reading
    keyframe,   \* the keyframe being posted
    account,    \* the reading the cloud shows; history: the reports it was given, those shed or
                \* refused, and all that were queued, in order
    fails       \* posts that failed, up to the bound

sensor == <<reports, task, queue, hand, deltaGate, newest>>
telemetryVars == <<sensor, keyframe, account, fails>>

NoValue == -1
NoReport == 0
NoKeyframe == [open |-> FALSE, taken |-> FALSE, value |-> NoValue]

Reports == [kind: {"reading", "alarm", "clear"}, value: Levels \cup {NoValue}]

TelemetryInit ==
    /\ reports = <<>> /\ task = <<>>
    /\ queue = <<>> /\ hand = NoReport
    /\ deltaGate = [last |-> NoValue, dir |-> 0]
    /\ newest = NoValue
    /\ keyframe = NoKeyframe
    /\ account = [value |-> NoValue, given |-> {}, shed |-> {}, refused |-> {}, queued |-> <<>>]
    /\ fails = 0

-----------------------------------------------------------------------------
(* The gate of a reading (cadence.rs) *)

Distance(a, b) == IF a > b THEN a - b ELSE b - a
Direction(from, to) == IF to > from THEN 1 ELSE IF to < from THEN -1 ELSE 0

\* DeltaGate::exceeds: a reversal needs half the threshold more.
Exceeds(v) ==
    LET dir == Direction(deltaGate.last, v)
        reversal == deltaGate.dir # 0 /\ dir # 0 /\ dir # deltaGate.dir IN
    /\ deltaGate.last # NoValue
    /\ 2 * Distance(v, deltaGate.last) >= (IF reversal THEN 3 ELSE 2) * Threshold

\* DeltaGate::mark_sent.
MarkSent(v) ==
    [last |-> v,
     dir |-> IF deltaGate.last = NoValue \/ v = deltaGate.last THEN deltaGate.dir ELSE Direction(deltaGate.last, v)]

-----------------------------------------------------------------------------
(* A report's task (h_shelly, forward_shelly_to_cloud) *)

Size == Len(reports)
At(n, place) == task' = [task EXCEPT ![n] = place]

\* The sensor reports: answered at once, and a task starts.
Arrive ==
    /\ Size < MaxReports
    /\ \E r \in Reports :
        /\ (r.kind = "reading") = (r.value # NoValue)
        /\ reports' = Append(reports, r)
        /\ task' = Append(task, IF r.kind = "alarm" THEN "closing" ELSE "forward")
    /\ UNCHANGED <<queue, hand, deltaGate, newest, keyframe, account, fails>>

\* linktap_flood_stop_all returns.
Closed(n) ==
    /\ task[n] = "closing"
    /\ At(n, "due")
    /\ UNCHANGED <<reports, queue, hand, deltaGate, newest, keyframe, account, fails>>

\* A clear is never held; a reading is by its gate, unless a member watches
\* (shelly_reading_due).
Judge(n) ==
    /\ task[n] = "forward"
    /\ IF reports[n].kind = "clear" THEN At(n, "due") /\ UNCHANGED <<deltaGate, newest>>
       ELSE \E watched \in BOOLEAN :
            LET due == Exceeds(reports[n].value) \/ watched IN
            /\ newest' = reports[n].value
            /\ deltaGate' = IF due THEN MarkSent(reports[n].value) ELSE deltaGate
            /\ At(n, IF due THEN "due" ELSE "held")
    /\ UNCHANGED <<reports, queue, hand, keyframe, account, fails>>

\* Mutant: the oldest is shed, whatever it is.
VictimOldest(q) == 1

\* The one enqueue_shelly sheds: the oldest reading, an alarm only among alarms.
Victim(q) ==
    LET others == {i \in DOMAIN q : reports[q[i]].kind # "alarm"} IN
    IF others = {} THEN 1 ELSE CHOOSE i \in others : \A j \in others : i <= j

Fits(q) == Len(q) <= QueueCap

\* enqueue_shelly.
Enqueue(n) ==
    /\ task[n] = "due"
    /\ At(n, "queued")
    /\ LET q == Append(queue, n) IN
       IF Fits(q)
       THEN /\ queue' = q
            /\ account' = [account EXCEPT !.queued = Append(@, n)]
       ELSE /\ queue' = RemoveAt(q, Victim(q))
            /\ account' = [account EXCEPT !.queued = Append(@, n), !.shed = @ \cup {q[Victim(q)]}]
    /\ UNCHANGED <<reports, hand, deltaGate, newest, keyframe, fails>>

-----------------------------------------------------------------------------
(* drain_shelly, of which one runs at a time (shelly_flush) *)

\* The oldest is taken out and sent.
Take ==
    /\ hand = NoReport /\ queue # <<>>
    /\ hand' = Head(queue) /\ queue' = Tail(queue)
    /\ UNCHANGED <<reports, task, deltaGate, newest, keyframe, account, fails>>

\* The cloud takes it.
Sent ==
    /\ hand # NoReport
    /\ hand' = NoReport
    /\ account' = [account EXCEPT !.given = @ \cup {hand},
                              !.value = IF reports[hand].kind = "reading" THEN reports[hand].value ELSE @]
    /\ UNCHANGED <<reports, task, queue, deltaGate, newest, keyframe, fails>>

\* The cloud refuses it: it is dropped (classify_forward).
Refused ==
    /\ hand # NoReport /\ fails < MaxFails
    /\ fails' = fails + 1
    /\ hand' = NoReport
    /\ account' = [account EXCEPT !.refused = @ \cup {hand}]
    /\ UNCHANGED <<reports, task, queue, deltaGate, newest, keyframe>>

\* Mutant: a report that failed is forgotten.
RequeuedNot(q, n) == q

\* Mutant: a report that failed goes to the back of the queue.
RequeuedLast(q, n) == Append(q, n)

\* It goes back to the front.
Requeued(q, n) == <<n>> \o q

\* The uplink fails: the drain stops; a retry, a check-in or a new report drains again.
Retry ==
    /\ hand # NoReport /\ fails < MaxFails
    /\ queue' = Requeued(queue, hand)
    /\ hand' = NoReport
    /\ fails' = fails + 1
    /\ UNCHANGED <<reports, task, deltaGate, newest, keyframe, account>>

-----------------------------------------------------------------------------
(* The keyframe (checkin_once) *)

\* Mutant: the keyframe leaves out a reading that was sent.
CarriedUnsent == IF newest = deltaGate.last THEN NoValue ELSE newest

\* build_keyframe carries every sensor's newest reading.
Carried == newest

BuildKeyframe ==
    /\ ~keyframe.open
    /\ keyframe' = [open |-> TRUE, taken |-> FALSE, value |-> Carried]
    /\ UNCHANGED <<sensor, account, fails>>

\* The cloud takes it.
KeyframeTaken ==
    /\ keyframe.open /\ ~keyframe.taken
    /\ keyframe' = [keyframe EXCEPT !.taken = TRUE]
    /\ account' = [account EXCEPT !.value = IF keyframe.value = NoValue THEN @ ELSE keyframe.value]
    /\ UNCHANGED <<sensor, fails>>

\* Its reply arrives (apply_sent_marks).
KeyframeMarked ==
    /\ keyframe.taken
    /\ deltaGate' = IF keyframe.value = NoValue THEN deltaGate ELSE MarkSent(keyframe.value)
    /\ keyframe' = NoKeyframe
    /\ UNCHANGED <<reports, task, queue, hand, newest, account, fails>>

\* The post fails, before the cloud took it or after.
KeyframeFails ==
    /\ keyframe.open /\ fails < MaxFails
    /\ fails' = fails + 1
    /\ keyframe' = NoKeyframe
    /\ UNCHANGED <<sensor, account>>

TelemetryNext ==
    \/ Arrive
    \/ \E n \in DOMAIN task : Closed(n) \/ Judge(n) \/ Enqueue(n)
    \/ Take \/ Sent \/ Refused \/ Retry
    \/ BuildKeyframe \/ KeyframeTaken \/ KeyframeMarked \/ KeyframeFails

\* Every task goes on, and posts are made.
TelemetrySpec ==
    /\ TelemetryInit /\ [][TelemetryNext]_telemetryVars
    /\ WF_telemetryVars(\E n \in DOMAIN task : Closed(n) \/ Judge(n) \/ Enqueue(n))
    /\ WF_telemetryVars(Take) /\ SF_telemetryVars(Sent)
    /\ WF_telemetryVars(BuildKeyframe) /\ SF_telemetryVars(KeyframeTaken) /\ SF_telemetryVars(KeyframeMarked)

-----------------------------------------------------------------------------
(* Properties *)

\* Every variable has its type.
TelemetryTypes ==
    /\ \A n \in DOMAIN reports : reports[n] \in Reports
    /\ DOMAIN task = DOMAIN reports
    /\ \A n \in DOMAIN task : task[n] \in {"closing", "forward", "due", "held", "queued"}
    /\ Len(queue) <= QueueCap + 1 /\ \A i \in DOMAIN queue : queue[i] \in DOMAIN reports
    /\ hand \in DOMAIN reports \cup {NoReport}
    /\ deltaGate \in [last: Levels \cup {NoValue}, dir: {-1, 0, 1}]
    /\ newest \in Levels \cup {NoValue}

Left(n) == n \in account.given \cup account.shed \cup account.refused

\* Reports reach the cloud in the order they were queued, over failures, drains by several
\* tasks and what is shed: none is given before one that was queued earlier and may still go
\* (drain_shelly, enqueue_shelly).
FirstInFirstOut ==
    \A i, j \in DOMAIN account.queued :
        i < j /\ account.queued[j] \in account.given => Left(account.queued[i])

\* The queue keeps its order (FirstInFirstOut) and its length (TelemetryTypes: one over its cap).
TelemetryInv == TelemetryTypes /\ FirstInFirstOut

\* An alarm is shed only when more alarms wait than the queue may hold, a reading that is being
\* sent notwithstanding (enqueue_shelly).
ShedAmongAlarms ==
    \A n \in account'.shed \ account.shed :
        reports[n].kind = "alarm" =>
            Cardinality({i \in DOMAIN account'.queued :
                           LET m == account'.queued[i] IN reports[m].kind = "alarm" /\ ~Left(m)}) > QueueCap
AlarmShedAmongAlarms == [][ShedAmongAlarms]_telemetryVars

\* Every report that is not held back leaves the hub: the cloud takes or refuses it, or the full
\* queue sheds it (shelly_retry_loop, checkin_once).
AllLeave == <>[](\A n \in DOMAIN task : task[n] = "held" \/ Left(n))

\* The cloud ends up with the newest reading, held back or not, whatever order reports, keyframes
\* and their replies came in (build_keyframe, apply_sent_marks).
CloudCatchesUp == <>[](newest = NoValue \/ account.value = newest)

\* Every report leaves and the newest reading arrives (drain_shelly, build_keyframe).
ReportsSettle == AllLeave /\ CloudCatchesUp

=============================================================================
