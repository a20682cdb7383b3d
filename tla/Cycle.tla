-------------------------------- MODULE Cycle --------------------------------
(***************************************************************************)
(* The valve cycle machine of daemon/src/cycle.rs: a pure function from a  *)
(* run and a reading of the valve to the next run, the stop the hub must   *)
(* issue and the end the reading closed.  Times and durations are whole    *)
(* seconds and volumes whole litres; a reading carries `lead`, the litres  *)
(* that still flow between a stop and the valve shutting (its flow rate    *)
(* times STOP_LATENCY_SECS), in place of the rate.                         *)
(***************************************************************************)
EXTENDS Integers

CONSTANTS
    HandoverLead,   \* HANDOVER_LEAD_SECS
    TimerMargin,    \* the minute within which a close counts as the timer's
    Idle            \* the state of a valve with no cycle

Modes      == {"normal", "washdown", "tankfill"}
EndReasons == {"timer", "volume_cap", "manual", "flood_shutoff", "unknown"}
NoStop     == "no_stop"

\* The reasons a stop is issued for: no stop is ever issued for the timer.
StopReasons == {"volume_cap", "manual", "flood_shutoff"}

Profile == [duration: Nat, cap: Nat, autoRestart: BOOLEAN]

\* `remain` is 0 when the gateway offers no remaining time (observe drops a zero).
Reading == [watering: BOOLEAN, volume: Nat, remain: Nat, lead: Nat]

Run == [mode: Modes, started: Nat, duration: Nat, cap: Nat, volume: Nat,
        prov: {"hub", "adopted"}, stop: StopReasons \union {NoStop},
        resume: BOOLEAN, handover: BOOLEAN]

ASSUME CycleAssumption == /\ HandoverLead \in Nat
                          /\ TimerMargin \in Nat
                          /\ Idle \notin Run

-----------------------------------------------------------------------------
(* Starting and adopting a run *)

\* A washdown is time-only, and everything else carries a cap.
MayStart(mode, cap) == mode = "washdown" <=> cap = 0

StartHubCycle(at, mode, duration, cap, resume) ==
    [mode |-> mode, started |-> at, duration |-> IF duration = 0 THEN 1 ELSE duration,
     cap |-> cap, volume |-> 0, prov |-> "hub", stop |-> NoStop,
     resume |-> resume /\ mode = "washdown", handover |-> FALSE]

AdoptCycle(at, profile, seen) ==
    [mode |-> "normal", started |-> at,
     duration |-> IF seen.remain > 0 THEN seen.remain ELSE profile.duration,
     cap |-> profile.cap, volume |-> seen.volume, prov |-> "adopted",
     stop |-> NoStop, resume |-> FALSE, handover |-> FALSE]

-----------------------------------------------------------------------------
(* One reading *)

CutoffTrigger(cap, lead) == IF cap <= lead THEN 0 ELSE cap - lead

\* A reading of no volume keeps the volume last metered.
Metered(run, seen) ==
    IF seen.volume > 0 THEN [run EXCEPT !.volume = seen.volume] ELSE run

CutoffDue(run, seen) ==
    /\ run.stop = NoStop
    /\ run.cap > 0
    /\ run.volume >= CutoffTrigger(run.cap, seen.lead)

\* What the hub did outranks the meter, and the meter outranks the clock.
EndReason(run, at) ==
    IF run.stop # NoStop THEN run.stop
    ELSE IF run.cap > 0 /\ run.volume >= run.cap THEN "volume_cap"
    ELSE IF at - run.started >= run.duration - TimerMargin THEN "timer"
    ELSE "unknown"

\* The run that a reading leaves, when it closes none.
Continue(state, at, profile, seen) ==
    IF state = Idle THEN AdoptCycle(at, profile, seen)
    ELSE LET run == Metered(state, seen)
         IN  IF CutoffDue(run, seen) THEN [run EXCEPT !.stop = "volume_cap"] ELSE run

\* Whether a reading makes the hub issue a stop: only of a run it already knew.
StopDue(state, seen) ==
    state # Idle /\ seen.watering /\ CutoffDue(Metered(state, seen), seen)

\* Whether a reading closes the run.
Closes(state, seen) == state # Idle /\ ~seen.watering

NextState(state, at, profile, seen) ==
    IF seen.watering THEN Continue(state, at, profile, seen) ELSE Idle

-----------------------------------------------------------------------------
(* What follows a run: the handover before it ends, a run after its end *)

TimeLeft(run, at, seen) ==
    LET due == run.started + run.duration
    IN  IF seen.remain > 0 THEN seen.remain ELSE IF due > at THEN due - at ELSE 0

\* Mutants: a washdown on its way shut, or handed over before, is handed over.
ResumableStopped(run) == ~run.handover /\ run.mode = "washdown" /\ run.resume /\ run.prov = "hub"
ResumableAgain(run) == run.stop = NoStop /\ run.mode = "washdown" /\ run.resume /\ run.prov = "hub"

Resumable(run) ==
    /\ ~run.handover
    /\ run.stop = NoStop
    /\ run.mode = "washdown"
    /\ run.resume
    /\ run.prov = "hub"

ShouldHandOver(run, at, seen) ==
    Resumable(run) /\ TimeLeft(run, at, seen) <= HandoverLead

ShouldResumeNormal(run, reason) ==
    run.resume /\ run.mode = "washdown" /\ reason = "timer"

ShouldAutoRestart(run, reason, profile) ==
    profile.autoRestart /\ run.mode = "normal" /\ reason = "timer"

-----------------------------------------------------------------------------
(* The daily ledger *)

Ledger == [day: Nat, volume: Nat]

\* Mutant: yesterday's litres are carried into today.
LedgerCarriedOver(ledger, day, run) ==
    [day |-> day,
     volume |-> ledger.volume + (IF run.mode = "washdown" THEN 0 ELSE run.volume)]

\* A ledger that does not exist yet adds like one of nothing.
ApplyToLedger(ledger, day, run) ==
    [day    |-> day,
     volume |-> (IF ledger.day = day THEN ledger.volume ELSE 0)
                + (IF run.mode = "washdown" THEN 0 ELSE run.volume)]
=============================================================================
