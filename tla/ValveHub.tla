------------------------------ MODULE ValveHub ------------------------------
(***************************************************************************)
(* One valve as the hub's tasks share it (daemon/src/hub_server.rs): the   *)
(* poll loop, the gateway's pushes, the app's requests and the flood close *)
(* run concurrently over the runtime and the slot of the close in flight,  *)
(* each behind a lock of its own that is never held across a call to the   *)
(* gateway.  A step is what a task does between two awaits.                *)
(***************************************************************************)
EXTENDS LinktapRuntime, CloseCause, FiniteSets

CONSTANTS
    Poller,         \* the task of linktap_poll_loop
    Pushes,         \* tasks of h_linktap_push
    Apps,           \* requests to do_valve
    Alarms,         \* calls of linktap_flood_stop_all
    NoClose,        \* no close is in flight
    NoReading,      \* a task holds no reading
    NoCause,        \* a task has nothing to close
    TheProfile,     \* the valve's effective profile
    Opens,          \* the opens the app may ask for
    MaxTime,        \* bound: the clock stops here
    MaxVolume,      \* bound: the meter stops here
    MaxClaims,      \* bound: closes claimed
    MaxAttempts,    \* bound: commands sent for one close
    MaxUpsets       \* bound: times a hand moves the valve, the plan changes or the hub restarts

Tasks   == {Poller} \union Pushes \union Apps \union Alarms
Readers == {Poller} \union Pushes

\* A close in flight: CloseWatch with a number in place of the time of its first
\* attempt, which only tells it from another.
Slot == [cause: Causes, number: Nat, attempts: Nat]

Order == [mode: Modes, duration: Nat, cap: Nat, resume: BOOLEAN]

ASSUME HubAssumption ==
    /\ TheProfile \in Profile
    /\ Opens \subseteq Order
    /\ Poller \notin Pushes \union Apps \union Alarms
    /\ Pushes \intersect Apps = {}
    /\ Pushes \intersect Alarms = {}
    /\ Apps \intersect Alarms = {}
    /\ NoClose \notin Slot
    /\ NoReading \notin Reading
    /\ NoCause \notin Causes
    /\ NoOpen \notin Order

VARIABLES
    machine,        \* rt.linktap holds a runtime
    track,          \* its track of the valve
    watch,          \* valve_closes[id]
    allowed,        \* cfg.linktap.allowed: the plan
    valve,          \* the valve itself: open, the time its own timer shuts it, its meter
    now,            \* seconds since the hub started
    pc,             \* where each task is
    seen,           \* the reading a task holds
    cause,          \* the close a task is to ask for
    order,          \* the open a task is to send
    mine,           \* the watch drive_closes decides about
    claims,         \* closes claimed so far
    upsets,         \* hands on the valve, changes of plan and restarts so far
    \* history
    wasShut,        \* the valve has been shut since the latest attempt of the close in flight
    alarm,          \* a flood close was asked for, is not given up, and the valve not shut since
    owed            \* reopens that became owed, less those sent

hubVars == <<machine, track, watch, allowed>>
taskVars == <<pc, seen, cause, order, mine>>
bounds == <<claims, upsets>>
history == <<wasShut, alarm, owed>>
vars == <<hubVars, valve, now, taskVars, bounds, history>>

Init ==
    /\ machine = FALSE
    /\ track = NewTrack
    /\ watch = NoClose
    /\ allowed \in BOOLEAN
    /\ valve = [open |-> FALSE, until |-> 0, volume |-> 0]
    /\ now = 0
    /\ pc = [t \in Tasks |-> "ready"]
    /\ seen = [t \in Tasks |-> NoReading]
    /\ cause = [t \in Tasks |-> NoCause]
    /\ order = [t \in Tasks |-> NoOpen]
    /\ mine = NoClose
    /\ claims = 0
    /\ upsets = 0
    /\ wasShut = TRUE
    /\ alarm = FALSE
    /\ owed = 0

-----------------------------------------------------------------------------
(* The valve, its gateway and the clock *)

\* A closed valve still meters what its last cycle delivered.
ReadingOfValve ==
    [watering |-> valve.open, volume |-> valve.volume,
     remain |-> IF valve.open /\ valve.until > now THEN valve.until - now ELSE 0, lead |-> 0]

Shut == [valve EXCEPT !.open = FALSE, !.until = 0]
OpenFor(duration) == [open |-> TRUE, until |-> now + duration, volume |-> 0]

\* What a step that leaves the valve in this state shows of it.
Witnessed(newValve) ==
    /\ wasShut' = (wasShut \/ ~newValve.open)
    /\ alarm' = (alarm /\ newValve.open)

TimerShuts ==
    /\ valve.open
    /\ now >= valve.until
    /\ valve' = Shut
    /\ Witnessed(Shut)
    /\ UNCHANGED <<hubVars, now, taskVars, bounds, owed>>

\* The button on the tap, or a schedule inside the gateway.
HandMoves ==
    /\ upsets < MaxUpsets
    /\ upsets' = upsets + 1
    /\ valve' = IF valve.open THEN Shut ELSE OpenFor(TheProfile.duration)
    /\ Witnessed(valve')
    /\ UNCHANGED <<hubVars, now, taskVars, claims, owed>>

Tick ==
    /\ now < MaxTime
    /\ valve.open => now < valve.until
    /\ now' = now + 1
    /\ valve' = IF valve.open /\ valve.volume < MaxVolume
                THEN [valve EXCEPT !.volume = @ + 1] ELSE valve
    /\ UNCHANGED <<hubVars, taskVars, bounds, history>>

PlanChanges ==
    /\ upsets < MaxUpsets
    /\ upsets' = upsets + 1
    /\ allowed' = ~allowed
    /\ UNCHANGED <<machine, track, watch, valve, now, taskVars, claims, history>>

-----------------------------------------------------------------------------
(* Moving a task *)

Goto(t, step) == pc' = [pc EXCEPT ![t] = step]

\* A task is over; the poll loop goes on to the closes in flight.
Finish(t) == Goto(t, IF t = Poller THEN "drive" ELSE "done")

\* After a close linktap_act goes on to the reopen; the other callers are done.
AfterClose(t) == IF t \in Readers THEN Goto(t, "take") ELSE Finish(t)

\* The ledger is ValveRuntime's matter.
Forgetting(newTrack) == [newTrack EXCEPT !.ledger = NewTrack.ledger]

-----------------------------------------------------------------------------
(* Readings: the poll loop and the gateway's push *)

\* linktap_sync_config: the machine goes with the plan and comes back empty.
SyncConfig ==
    /\ pc[Poller] = "ready"
    /\ machine' = allowed
    /\ track' = IF machine /\ allowed THEN track ELSE NewTrack
    /\ Goto(Poller, IF allowed THEN "ask" ELSE "drive")
    /\ UNCHANGED <<watch, allowed, valve, now, seen, cause, order, mine, bounds, history>>

\* cmd 3 of the poll loop; a valve that gives no answer is not observed.
Ask ==
    /\ pc[Poller] = "ask"
    /\ \/ seen' = [seen EXCEPT ![Poller] = ReadingOfValve] /\ Goto(Poller, "observe")
       \/ Goto(Poller, "drive") /\ UNCHANGED seen
    /\ UNCHANGED <<hubVars, valve, now, cause, order, mine, bounds, history>>

\* The gateway posts a reading; it may be observed late.
PushArrives(t) ==
    /\ t \in Pushes
    /\ pc[t] = "ready"
    /\ seen' = [seen EXCEPT ![t] = ReadingOfValve]
    /\ Goto(t, "observe")
    /\ UNCHANGED <<hubVars, valve, now, cause, order, mine, bounds, history>>

ObserveSeen(t) ==
    /\ pc[t] = "observe"
    /\ LET reading == seen[t]
           next == Forgetting(Observe(track, now, 0, TheProfile, reading))
       IN  /\ track' = IF machine THEN next ELSE track
           /\ cause' = [cause EXCEPT ![t] =
                            IF machine /\ StopDue(track.state, reading)
                            THEN "volume_cap" ELSE NoCause]
           /\ owed' = IF track'.pending # NoOpen /\ track'.pending # track.pending
                      THEN owed + 1 ELSE owed
    /\ seen' = [seen EXCEPT ![t] = NoReading]
    /\ Goto(t, "act")
    /\ UNCHANGED <<machine, watch, allowed, valve, now, order, mine, bounds,
                   wasShut, alarm>>

\* linktap_act, once its reports are drained: nothing without a machine.
Act(t) ==
    /\ pc[t] = "act"
    /\ IF machine
       THEN Goto(t, IF cause[t] # NoCause THEN "claim" ELSE "take") /\ UNCHANGED cause
       ELSE Finish(t) /\ cause' = [cause EXCEPT ![t] = NoCause]
    /\ UNCHANGED <<hubVars, valve, now, seen, order, mine, bounds, history>>

-----------------------------------------------------------------------------
(* Closing *)

AppCloses(t) ==
    /\ t \in Apps
    /\ pc[t] = "ready"
    /\ allowed
    /\ cause' = [cause EXCEPT ![t] = "manual"]
    /\ Goto(t, "claim")
    /\ UNCHANGED <<hubVars, valve, now, seen, order, mine, bounds, history>>

\* The flood close is not gated by the plan.
AlarmRaised(t) ==
    /\ t \in Alarms
    /\ pc[t] = "ready"
    /\ cause' = [cause EXCEPT ![t] = "flood"]
    /\ Goto(t, "claim")
    /\ UNCHANGED <<hubVars, valve, now, seen, order, mine, bounds, history>>

\* A read has found the valve shut since the latest attempt of the close in flight, and is about to
\* confirm it: an alarm refused at this moment is answered by that read.
AboutToConfirm == pc[Poller] = "settle" /\ ~seen[Poller].watering /\ watch = mine

\* claim_close, the slot: refused while a close it cannot override is in flight.
Claim(t) ==
    /\ pc[t] = "claim"
    /\ IF watch # NoClose /\ ~Overrides(cause[t], watch.cause)
       THEN /\ AfterClose(t)
            /\ cause' = [cause EXCEPT ![t] = NoCause]
            /\ UNCHANGED <<watch, claims, wasShut>>
       ELSE /\ claims < MaxClaims
            /\ claims' = claims + 1
            /\ watch' = [cause |-> cause[t], number |-> claims + 1, attempts |-> 1]
            /\ wasShut' = ~valve.open
            /\ Goto(t, "mark")
            /\ UNCHANGED cause
    /\ alarm' = IF cause[t] = "flood" THEN valve.open /\ (AboutToConfirm => watch' # watch) ELSE alarm
    /\ UNCHANGED <<machine, track, allowed, valve, now, seen, order, mine,
                   upsets, owed>>

\* claim_close, the mark, under the other lock.
Mark(t) ==
    /\ pc[t] = "mark"
    /\ track' = IF machine THEN NoteStop(track, EndReasonOf(cause[t])) ELSE track
    /\ Goto(t, "stop")
    /\ UNCHANGED <<machine, watch, allowed, valve, now, seen, cause, order, mine, bounds, history>>

\* cmd 7: accepted or not, the valve may or may not get it.
StopCommand ==
    \E delivered \in BOOLEAN :
        /\ valve' = IF delivered THEN Shut ELSE valve
        /\ Witnessed(valve')

SendStop(t) ==
    /\ pc[t] = "stop"
    /\ StopCommand
    /\ AfterClose(t)
    /\ cause' = [cause EXCEPT ![t] = NoCause]
    /\ UNCHANGED <<hubVars, now, seen, order, mine, bounds, owed>>

-----------------------------------------------------------------------------
(* Opening: a reopen the machine owes, or the app's *)

TakeOpen(t) ==
    /\ pc[t] = "take"
    /\ IF machine /\ track.pending # NoOpen
       THEN /\ order' = [order EXCEPT ![t] =
                            [mode |-> "normal", duration |-> track.pending.duration,
                             cap |-> track.pending.cap, resume |-> FALSE]]
            /\ track' = TakePendingOpen(track)
            /\ Goto(t, "start")
       ELSE Finish(t) /\ UNCHANGED <<order, track>>
    /\ UNCHANGED <<machine, watch, allowed, valve, now, seen, cause, mine, bounds, history>>

AppOpens(t, open) ==
    /\ t \in Apps
    /\ pc[t] = "ready"
    /\ allowed
    /\ order' = [order EXCEPT ![t] = open]
    /\ Goto(t, "start")
    /\ UNCHANGED <<hubVars, valve, now, seen, cause, mine, bounds, history>>

\* cmd 6, after the read of the gateway's unit; only an accepted one is recorded.
SendStart(t) ==
    /\ pc[t] = "start"
    /\ \E delivered, accepted \in BOOLEAN :
          /\ valve' = IF delivered THEN OpenFor(order[t].duration) ELSE valve
          /\ IF accepted
             THEN Goto(t, "record") /\ UNCHANGED order
             ELSE Finish(t) /\ order' = [order EXCEPT ![t] = NoOpen]
    /\ Witnessed(valve')
    /\ owed' = IF t \in Readers THEN owed - 1 ELSE owed
    /\ UNCHANGED <<hubVars, now, seen, cause, mine, bounds>>

Record(t) ==
    /\ pc[t] = "record"
    /\ LET open == order[t]
       IN  track' = IF machine
                    THEN NoteHubOpen(track, now, open.mode, open.duration, open.cap, open.resume)
                    ELSE track
    /\ order' = [order EXCEPT ![t] = NoOpen]
    /\ Finish(t)
    /\ UNCHANGED <<machine, watch, allowed, valve, now, seen, cause, mine, bounds,
                   wasShut, alarm, owed>>

-----------------------------------------------------------------------------
(* drive_closes: which of its steps is due is CloseRetry's matter *)

Drive ==
    /\ pc[Poller] = "drive"
    /\ mine' = watch
    /\ Goto(Poller, IF watch = NoClose THEN "ready" ELSE "read")
    /\ UNCHANGED <<hubVars, valve, now, seen, cause, order, bounds, history>>

\* Only whether the valve waters is looked at; no answer is read as still open.
ReadBack ==
    /\ pc[Poller] = "read"
    /\ \E answered \in BOOLEAN :
          seen' = [seen EXCEPT ![Poller] =
                      [watering |-> valve.open \/ ~answered, volume |-> 0, remain |-> 0, lead |-> 0]]
    /\ Goto(Poller, "settle")
    /\ UNCHANGED <<hubVars, valve, now, cause, order, mine, bounds, history>>

\* The step decided and settle_close: nothing is written, sent or released when
\* the slot no longer holds the watch the step was decided about.
EndPass == Goto(Poller, "ready") /\ mine' = NoClose

Lost == watch # mine /\ EndPass /\ UNCHANGED <<watch, wasShut, alarm>>

\* Mutant: a confirmation written whoever holds the slot.
ConfirmedBlindly ==
    /\ ~seen[Poller].watering
    /\ watch' = NoClose
    /\ EndPass
    /\ UNCHANGED <<wasShut, alarm>>

Confirmed ==
    /\ ~seen[Poller].watering
    /\ watch = mine
    /\ watch' = NoClose
    /\ EndPass
    /\ UNCHANGED <<wasShut, alarm>>

Wait == seen[Poller].watering /\ EndPass /\ UNCHANGED <<watch, wasShut, alarm>>

Reissue ==
    /\ seen[Poller].watering
    /\ watch = mine
    /\ mine.attempts < MaxAttempts
    /\ watch' = [mine EXCEPT !.attempts = @ + 1]
    /\ mine' = watch'
    /\ wasShut' = ~valve.open
    /\ Goto(Poller, "resend")
    /\ UNCHANGED alarm

GaveUp ==
    /\ seen[Poller].watering
    /\ watch = mine
    /\ watch' = NoClose
    /\ alarm' = (alarm /\ mine.cause # "flood")
    /\ Goto(Poller, "release")
    /\ UNCHANGED <<mine, wasShut>>

Settle ==
    /\ pc[Poller] = "settle"
    /\ Lost \/ Confirmed \/ Wait \/ Reissue \/ GaveUp
    /\ seen' = [seen EXCEPT ![Poller] = NoReading]
    /\ UNCHANGED <<machine, track, allowed, valve, now, cause, order, bounds, owed>>

Resend ==
    /\ pc[Poller] = "resend"
    /\ StopCommand
    /\ EndPass
    /\ UNCHANGED <<hubVars, now, seen, cause, order, bounds, owed>>

Release ==
    /\ pc[Poller] = "release"
    /\ track' = IF machine THEN NoteStopAbandoned(track) ELSE track
    /\ EndPass
    /\ UNCHANGED <<machine, watch, allowed, valve, now, seen, cause, order, bounds, history>>

-----------------------------------------------------------------------------

\* Nothing of this is on disk: a new process knows no run, no close and no alarm.
Restart ==
    /\ upsets < MaxUpsets
    /\ upsets' = upsets + 1
    /\ machine' = FALSE
    /\ track' = NewTrack
    /\ watch' = NoClose
    /\ mine' = NoClose
    /\ pc' = [t \in Tasks |-> IF t = Poller \/ pc[t] = "ready" THEN "ready" ELSE "done"]
    /\ seen' = [t \in Tasks |-> NoReading]
    /\ cause' = [t \in Tasks |-> NoCause]
    /\ order' = [t \in Tasks |-> NoOpen]
    /\ alarm' = FALSE
    /\ owed' = 0
    /\ UNCHANGED <<allowed, valve, now, claims, wasShut>>

Next ==
    \/ \E t \in Tasks :
          \/ PushArrives(t) \/ ObserveSeen(t) \/ Act(t)
          \/ AppCloses(t) \/ AlarmRaised(t)
          \/ Claim(t) \/ Mark(t) \/ SendStop(t)
          \/ TakeOpen(t) \/ SendStart(t) \/ Record(t)
          \/ \E open \in Opens : AppOpens(t, open)
    \/ SyncConfig \/ Ask
    \/ Drive \/ ReadBack \/ Settle \/ Resend \/ Release
    \/ TimerShuts \/ HandMoves \/ Tick \/ PlanChanges
    \/ Restart

Spec == Init /\ [][Next]_vars

-----------------------------------------------------------------------------
(* Properties *)

Steps == {"ready", "ask", "observe", "act", "claim", "mark", "stop", "take", "start",
          "record", "drive", "read", "settle", "resend", "release", "done"}

TypeOK ==
    /\ machine \in BOOLEAN
    /\ track \in Track
    /\ watch \in Slot \union {NoClose}
    /\ allowed \in BOOLEAN
    /\ valve \in [open: BOOLEAN, until: Nat, volume: Nat]
    /\ now \in Nat
    /\ pc \in [Tasks -> Steps]
    /\ seen \in [Tasks -> Reading \union {NoReading}]
    /\ cause \in [Tasks -> Causes \union {NoCause}]
    /\ order \in [Tasks -> Order \union {NoOpen}]
    /\ mine \in Slot \union {NoClose}
    /\ claims \in Nat /\ upsets \in Nat
    /\ wasShut \in BOOLEAN
    /\ alarm \in BOOLEAN
    /\ owed \in Int

\* "Success is the valve's own state": a close is confirmed only if the valve was
\* shut at some moment since its latest attempt was issued, however late the read
\* that confirms it is looked at and whoever took the slot in between.
ConfirmedMeansShut ==
    [][Settle /\ watch # NoClose /\ watch' = NoClose /\ pc'[Poller] = "ready" => wasShut]_vars

\* An alarm is never answered by silence: from the moment a flood close is asked for
\* until the valve has been shut, a flood close is in flight or was given up on,
\* whatever close was in flight when it was asked for, unless the hub itself restarts.  An alarm that
\* is refused between the read that finds the valve shut and the confirmation is left out: the valve
\* may have been opened again since the read.
AlarmNeverForgotten == alarm => watch # NoClose /\ watch.cause = "flood"

\* A reopen is sent once: a poll and a push that see the same end of a run never
\* both send the run that follows it.
ReopenedOnce == owed >= 0

\* No alarm is forgotten and nothing is opened twice, in variables of their types.
ValveHubInv == TypeOK /\ AlarmNeverForgotten /\ ReopenedOnce

FloodStopIssued ==
    watch # NoClose /\ watch.cause = "flood" /\ \A t \in Alarms : pc[t] = "done"

\* A run with a stop issued for an alarm "must never be handed over into a fresh run":
\* no reopen goes out while a flood's close, marked and sent, is not confirmed.
NoReopenDuringFlood == [][FloodStopIssued => \A t \in Readers : ~SendStart(t)]_vars
=============================================================================
