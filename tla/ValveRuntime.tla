---------------------------- MODULE ValveRuntime ----------------------------
(***************************************************************************)
(* The runtime of one valve under any sequence of the calls hub_server.rs  *)
(* makes on it (daemon/src/linktap_runtime.rs): readings from the poll and *)
(* the push, the hub's own opens, the marks of its closes, reopens taken,  *)
(* profiles from the worker and the rebuild of the machine.  Each call is  *)
(* one step: they all run under the runtime's lock.                        *)
(***************************************************************************)
EXTENDS LinktapRuntime

CONSTANTS
    Readings,       \* the readings the gateway may give
    Opens,          \* the opens the hub may record
    Profiles,       \* the effective profiles the worker may send
    MaxTime,        \* bound: the clock stops here
    MaxDay,         \* bound: the last day of the ledger
    MaxCounted      \* bound: litres counted in a day before readings stop

HubOpen == [mode: Modes, duration: Nat, cap: Nat, resume: BOOLEAN]

ASSUME ValveAssumption == /\ Readings \subseteq Reading
                          /\ Opens \subseteq HubOpen
                          /\ Profiles \subseteq Profile
                          /\ Profiles # {}
                          /\ MaxTime \in Nat
                          /\ MaxDay \in Nat
                          /\ MaxCounted \in Nat

VARIABLES
    track,          \* Runtime.tracks[id]
    profile,        \* profile_for(id)
    now,            \* seconds since the hub started
    day,            \* day_key(now): the UTC day
    stops,          \* history: stops asked for since the run began or was released
    handovers,      \* history: handovers decided for this run
    counted         \* history: the litres of the day's ends that count

vars == <<track, profile, now, day, stops, handovers, counted>>

Init ==
    /\ track = NewTrack
    /\ profile \in Profiles
    /\ now = 0
    /\ day = 0
    /\ stops = 0
    /\ handovers = 0
    /\ counted = 0

-----------------------------------------------------------------------------
(* What each call returned, for the history *)

AsksHandover(seen) ==
    LET next == NextState(track.state, now, profile, seen)
    IN  next # Idle /\ ShouldHandOver(next, now, seen)

\* The litres a closing reading adds to the day, by the owner's rule.
Counts(seen) ==
    IF Closes(track.state, seen) /\ track.state.mode # "washdown"
    THEN Metered(track.state, seen).volume ELSE 0

\* A poll reply or a gateway push, indistinguishably.
ObserveReading(seen) ==
    /\ counted + Counts(seen) <= MaxCounted
    /\ track' = Observe(track, now, day, profile, seen)
    /\ IF seen.watering
       THEN /\ stops' = stops + (IF StopDue(track.state, seen) THEN 1 ELSE 0)
            /\ handovers' = handovers + (IF AsksHandover(seen) THEN 1 ELSE 0)
       ELSE stops' = 0 /\ handovers' = 0
    /\ counted' = counted + Counts(seen)
    /\ UNCHANGED <<profile, now, day>>

RecordOpen(open) ==
    /\ track' = NoteHubOpen(track, now, open.mode, open.duration, open.cap, open.resume)
    /\ IF MayStart(open.mode, open.cap)
       THEN stops' = 0 /\ handovers' = 0
       ELSE UNCHANGED <<stops, handovers>>
    /\ UNCHANGED <<profile, now, day, counted>>

MarkStop(reason) ==
    /\ track' = NoteStop(track, reason)
    /\ UNCHANGED <<profile, now, day, stops, handovers, counted>>

AbandonStop ==
    /\ track' = NoteStopAbandoned(track)
    /\ stops' = IF Releases(track) THEN 0 ELSE stops
    /\ UNCHANGED <<profile, now, day, handovers, counted>>

TakeOpen ==
    /\ track.pending # NoOpen
    /\ track' = TakePendingOpen(track)
    /\ UNCHANGED <<profile, now, day, stops, handovers, counted>>

ApplyProfile(new) ==
    /\ profile' = new
    /\ UNCHANGED <<track, now, day, stops, handovers, counted>>

\* The gateway or the valve list changed: a new machine, every track idle.
Rebuild ==
    /\ track' = NewTrack
    /\ stops' = 0
    /\ handovers' = 0
    /\ counted' = 0
    /\ UNCHANGED <<profile, now, day>>

Tick ==
    /\ now < MaxTime
    /\ now' = now + 1
    /\ UNCHANGED <<track, profile, day, stops, handovers, counted>>

\* Midnight, UTC.
NewDay ==
    /\ day < MaxDay
    /\ day' = day + 1
    /\ counted' = 0
    /\ UNCHANGED <<track, profile, now, stops, handovers>>

Next ==
    \/ \E seen \in Readings : ObserveReading(seen)
    \/ \E open \in Opens : RecordOpen(open)
    \/ \E reason \in StopReasons : MarkStop(reason)
    \/ AbandonStop
    \/ TakeOpen
    \/ \E new \in Profiles : ApplyProfile(new)
    \/ Rebuild
    \/ Tick
    \/ NewDay

Spec == Init /\ [][Next]_vars

-----------------------------------------------------------------------------
(* Properties *)

TypeOK ==
    /\ track \in Track
    /\ profile \in Profile
    /\ now \in Nat
    /\ day \in Nat
    /\ stops \in Nat
    /\ handovers \in Nat
    /\ counted \in Nat

WellShaped(run) ==
    /\ run.mode = "washdown" => run.cap = 0 /\ run.prov = "hub"
    /\ run.resume => run.mode = "washdown"
    /\ run.handover => run.resume
    /\ run.prov = "hub" /\ run.mode # "washdown" => run.cap > 0

\* The shape the owner ruled for runs, whatever sequence of opens, readings and
\* profiles came before: a washdown has no cap and is the hub's own, only it is
\* resumed or handed over, and every other run the hub starts carries a cap.
RunShape == track.state # Idle => WellShaped(track.state)

\* A run is told to stop once: the cutoff never asks again until the run ends,
\* is replaced, or its close was given up on and its mark released
\* ("issues a stop the moment the cap is reached and never twice").
StopAskedOnce ==
    /\ stops <= 1
    /\ stops = 1 => track.state # Idle /\ track.state.stop # NoStop

\* A washdown is handed over to its Normal Run at most once ("so the handover
\* is issued exactly once").
HandedOverOnce ==
    /\ handovers <= 1
    /\ handovers = 1 => track.state # Idle /\ track.state.handover

\* The runtime's state is of its type, its run of one of the shapes a run has, and what is
\* asked of a valve in the course of a run, the stop and the handover, is asked once.
RuntimeInv == TypeOK /\ RunShape /\ StopAskedOnce /\ HandedOverOnce

\* The ledger of the current day is the sum of the counted ends of that day:
\* nothing of an earlier day, nothing of a washdown, nothing twice or lost.
LedgerIsTheDay ==
    IF track.ledger.day = day THEN track.ledger.volume = counted ELSE counted = 0

BecomesOwed == track'.pending # track.pending /\ track'.pending # NoOpen

\* What a run must have been for this step to owe its valve a reopen.
MayReopen(run) ==
    /\ run # Idle
    /\ run.stop = NoStop
    /\ track'.state # Idle => run.mode = "washdown" /\ track'.state.stop = NoStop
    /\ track'.state = Idle =>
         /\ now - run.started >= run.duration - TimerMargin
         /\ run.mode # "washdown" => run.cap = 0 \/ counted' - counted < run.cap

\* No reopen becomes owed after a run on which the hub has issued a stop, nor
\* after one that reached its cap, nor one that ended before its time; and while
\* the valve is open only a washdown is reprogrammed ("a washdown cut short by a
\* flood, a manual stop or an unexplained close must never reopen the valve").
ReopenOnlyOnTime == [][BecomesOwed => MayReopen(track.state)]_vars
=============================================================================
