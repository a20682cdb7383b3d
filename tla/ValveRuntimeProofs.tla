------------------------- MODULE ValveRuntimeProofs -------------------------
(***************************************************************************)
(* The runtime of one valve keeps its types, the shape of its runs, the    *)
(* once-only of its stops and handovers and the day's ledger under every   *)
(* sequence of calls, for every set of readings, opens and profiles.       *)
(***************************************************************************)
EXTENDS ValveRuntime, TLAPS

USE CycleAssumption, RuntimeAssumption, ValveAssumption

-----------------------------------------------------------------------------
(* What the operators of the cycle machine return *)

\* A reading's volume leaves a run a run and changes nothing else of it.
LEMMA MeteredRun ==
    ASSUME NEW run \in Run, NEW seen \in Reading
    PROVE  /\ Metered(run, seen) \in Run
           /\ Metered(run, seen) = [run EXCEPT !.volume = Metered(run, seen).volume]
           /\ Metered(run, seen).volume \in Nat
BY DEF Metered, Run, Reading

\* An adopted run is a run.
LEMMA AdoptedRun ==
    ASSUME NEW at \in Nat, NEW p \in Profile, NEW seen \in Reading
    PROVE  AdoptCycle(at, p, seen) \in Run
BY DEF AdoptCycle, Run, Profile, Reading, Modes, NoStop, StopReasons

\* A run the hub starts is a run.
LEMMA StartedRun ==
    ASSUME NEW at \in Nat, NEW open \in HubOpen
    PROVE  StartHubCycle(at, open.mode, open.duration, open.cap, open.resume) \in Run
BY DEF StartHubCycle, Run, HubOpen, Modes, NoStop, StopReasons

\* A reading leaves a run or no run.
LEMMA NextStateType ==
    ASSUME NEW state \in Run \union {Idle}, NEW at \in Nat,
           NEW p \in Profile, NEW seen \in Reading
    PROVE  NextState(state, at, p, seen) \in Run \union {Idle}
<1>1. CASE state = Idle
  BY <1>1, AdoptedRun DEF NextState, Continue
<1>2. CASE state \in Run
  <2> DEFINE run == Metered(state, seen)
  <2>1. run \in Run
    BY <1>2, MeteredRun
  <2>2. [run EXCEPT !.stop = "volume_cap"] \in Run
    BY <2>1 DEF Run, StopReasons
  <2>3. QED
    BY <1>2, <2>1, <2>2 DEF NextState, Continue
<1>3. QED
  BY <1>1, <1>2

\* A reading that asks for a stop marks the run, and one that does not leaves its mark.
LEMMA NextStateMark ==
    ASSUME NEW state \in Run, NEW at \in Nat, NEW p \in Profile,
           NEW seen \in Reading, seen.watering
    PROVE  /\ NextState(state, at, p, seen) \in Run
           /\ NextState(state, at, p, seen).mode = state.mode
           /\ NextState(state, at, p, seen).cap = state.cap
           /\ NextState(state, at, p, seen).prov = state.prov
           /\ NextState(state, at, p, seen).resume = state.resume
           /\ NextState(state, at, p, seen).handover = state.handover
           /\ NextState(state, at, p, seen).started = state.started
           /\ NextState(state, at, p, seen).duration = state.duration
           /\ StopDue(state, seen) =>
                state.stop = NoStop /\ NextState(state, at, p, seen).stop = "volume_cap"
           /\ ~StopDue(state, seen) => NextState(state, at, p, seen).stop = state.stop
<1> DEFINE run == Metered(state, seen)
<1>1. /\ run \in Run
      /\ run = [state EXCEPT !.volume = run.volume]
  BY MeteredRun
<1>2. state # Idle
  OBVIOUS
<1>3. CASE CutoffDue(run, seen)
  BY <1>1, <1>2, <1>3 DEF NextState, Continue, StopDue, CutoffDue, Run, StopReasons
<1>4. CASE ~CutoffDue(run, seen)
  BY <1>1, <1>2, <1>4 DEF NextState, Continue, StopDue, Run
<1>5. QED
  BY <1>3, <1>4

\* A reading leaves a track a track.
LEMMA ObservedTrack ==
    ASSUME NEW t \in Track, NEW at \in Nat, NEW d \in Nat,
           NEW p \in Profile, NEW seen \in Reading
    PROVE  Observe(t, at, d, p, seen) \in Track
<1> DEFINE next == NextState(t.state, at, p, seen)
           closed == Metered(t.state, seen)
<1>1. t.state \in Run \union {Idle}
  BY DEF Track
<1>2. next \in Run \union {Idle}
  BY <1>1, NextStateType
<1>3. \A why \in {"washdown handover", "washdown resume", "auto-restart"} :
        NormalRun(p, why) \in Pending
  BY DEF NormalRun, Pending, Profile
<1>4. CASE Closes(t.state, seen)
  <2>1. t.state \in Run
    BY <1>1, <1>4 DEF Closes
  <2>2. closed \in Run
    BY <2>1, MeteredRun
  <2>3. ApplyToLedger(t.ledger, d, closed) \in Ledger
    BY <2>2 DEF ApplyToLedger, Ledger, Track, Run
  <2>4. OwedAfter(closed, EndReason(closed, at), p, t.pending) \in Pending \union {NoOpen}
    BY <1>3 DEF OwedAfter, Track
  <2>5. QED
    BY <1>4, <2>3, <2>4 DEF Observe, Track
<1>5. CASE ~Closes(t.state, seen)
  <2>1. next # Idle => [next EXCEPT !.handover = TRUE] \in Run
    BY <1>2 DEF Run
  <2>2. QED
    BY <1>2, <1>3, <1>5, <2>1 DEF Observe, Track
<1>6. QED
  BY <1>4, <1>5

-----------------------------------------------------------------------------
(* Types *)

LEMMA TypeInit == Init => TypeOK
BY DEF Init, TypeOK, NewTrack, Track, Ledger

LEMMA TypeStep == TypeOK /\ [Next]_vars => TypeOK'
<1> SUFFICES ASSUME TypeOK, [Next]_vars PROVE TypeOK'
  OBVIOUS
<1> USE DEF TypeOK
<1>1. ASSUME NEW seen \in Readings, ObserveReading(seen) PROVE TypeOK'
  <2>1. seen \in Reading
    OBVIOUS
  <2>2. track' \in Track
    BY <1>1, <2>1, ObservedTrack DEF ObserveReading
  <2>3. Counts(seen) \in Nat
    <3>1. CASE track.state \in Run
      BY <2>1, <3>1, MeteredRun DEF Counts
    <3>2. CASE track.state = Idle
      BY <3>2 DEF Counts, Closes
    <3>3. QED
      BY <3>1, <3>2 DEF Track
  <2>4. QED
    BY <1>1, <2>2, <2>3 DEF ObserveReading
<1>2. ASSUME NEW open \in Opens, RecordOpen(open) PROVE TypeOK'
  <2>1. track' \in Track
    BY <1>2, StartedRun DEF RecordOpen, NoteHubOpen, Track
  <2>2. QED
    BY <1>2, <2>1 DEF RecordOpen
<1>3. ASSUME NEW reason \in StopReasons, MarkStop(reason)
      PROVE  TypeOK'
  <2>1. track.state # Idle => [track.state EXCEPT !.stop = reason] \in Run
    BY DEF Track, Run, StopReasons
  <2>2. QED
    BY <1>3, <2>1 DEF MarkStop, NoteStop, Track
<1>4. CASE AbandonStop
  <2>1. track.state # Idle => [track.state EXCEPT !.stop = NoStop] \in Run
    BY DEF Track, Run
  <2>2. QED
    BY <1>4, <2>1 DEF AbandonStop, NoteStopAbandoned, Releases, Track
<1>5. CASE TakeOpen
  BY <1>5 DEF TakeOpen, TakePendingOpen, Track
<1>6. ASSUME NEW new \in Profiles, ApplyProfile(new) PROVE TypeOK'
  BY <1>6 DEF ApplyProfile
<1>7. CASE Rebuild
  BY <1>7 DEF Rebuild, NewTrack, Track, Ledger
<1>8. CASE Tick
  BY <1>8 DEF Tick
<1>9. CASE NewDay
  BY <1>9 DEF NewDay
<1>10. CASE UNCHANGED vars
  BY <1>10 DEF vars
<1>11. QED
  BY <1>1, <1>2, <1>3, <1>4, <1>5, <1>6, <1>7, <1>8, <1>9, <1>10 DEF Next

-----------------------------------------------------------------------------
(* Shape, stops and handovers: inductive together *)

Inv == TypeOK /\ RunShape /\ StopAskedOnce /\ HandedOverOnce

LEMMA InvInit == Init => Inv
<1>1. Init => TypeOK
  BY TypeInit
<1>2. QED
  BY <1>1 DEF Init, Inv, NewTrack, RunShape, StopAskedOnce, HandedOverOnce

\* A reading that finds the valve open on a run the hub knows.
LEMMA ContinuingStep ==
    ASSUME Inv, NEW seen \in Readings, ObserveReading(seen),
           seen.watering, track.state # Idle
    PROVE  RunShape' /\ StopAskedOnce' /\ HandedOverOnce'
<1> DEFINE run  == track.state
           next == NextState(run, now, profile, seen)
           handOver == ShouldHandOver(next, now, seen)
<1>1. /\ run \in Run
      /\ seen \in Reading
      /\ now \in Nat
      /\ profile \in Profile
  BY DEF Inv, TypeOK, Track
<1>2. /\ next \in Run
      /\ StopDue(run, seen) => run.stop = NoStop /\ next.stop = "volume_cap"
      /\ ~StopDue(run, seen) => next.stop = run.stop
  BY <1>1, NextStateMark
<1>3. /\ next.mode = run.mode
      /\ next.cap = run.cap
      /\ next.prov = run.prov
      /\ next.resume = run.resume
      /\ next.handover = run.handover
  BY <1>1, NextStateMark
<1>4. track'.state = IF handOver THEN [next EXCEPT !.handover = TRUE] ELSE next
  <2>1. ~Closes(run, seen)
    BY DEF Closes
  <2>2. track \in Track
    BY DEF Inv, TypeOK
  <2>3. next # Idle
    BY <1>2
  <2>4. track' = Observe(track, now, day, profile, seen)
    BY DEF ObserveReading
  <2>5. QED
    BY <2>1, <2>2, <2>3, <2>4 DEF Observe, Track
<1>5. handOver => next.resume /\ ~next.handover /\ next.mode = "washdown"
  BY DEF ShouldHandOver, Resumable
<1>6. /\ track'.state # Idle
      /\ track'.state.stop = next.stop
      /\ handOver => track'.state.handover
      /\ ~handOver => track'.state.handover = next.handover
      /\ WellShaped(track'.state)
  <2>1. WellShaped(run)
    BY DEF Inv, RunShape
  <2>2. CASE handOver
    <3>1. track'.state \in Run
      BY <1>2, <1>4, <2>2 DEF Run
    <3>2. QED
      BY <1>2, <1>3, <1>4, <1>5, <2>1, <2>2, <3>1 DEF WellShaped, Run
  <2>3. CASE ~handOver
    BY <1>2, <1>3, <1>4, <2>1, <2>3 DEF WellShaped, Run
  <2>4. QED
    BY <2>2, <2>3
<1>7. RunShape'
  BY <1>6 DEF RunShape
<1>8. StopAskedOnce'
  <2>1. stops \in {0, 1} /\ (stops = 1 => run.stop # NoStop)
    BY DEF Inv, StopAskedOnce, TypeOK
  <2>2. stops' = stops + (IF StopDue(run, seen) THEN 1 ELSE 0)
    BY DEF ObserveReading
  <2>3. "volume_cap" # NoStop
    BY DEF NoStop
  <2>4. QED
    BY <1>2, <1>6, <2>1, <2>2, <2>3 DEF StopAskedOnce
<1>9. HandedOverOnce'
  <2>1. handovers \in {0, 1} /\ (handovers = 1 => run.handover)
    BY DEF Inv, HandedOverOnce, TypeOK
  <2>2. handovers' = handovers + (IF handOver THEN 1 ELSE 0)
    BY <1>2 DEF ObserveReading, AsksHandover
  <2>3. CASE handOver
    <3>1. ~run.handover
      BY <1>3, <1>5, <2>3
    <3>2. handovers = 0
      BY <2>1, <3>1
    <3>3. handovers' = 1
      BY <2>2, <2>3, <3>2
    <3>4. QED
      BY <1>6, <2>3, <3>3 DEF HandedOverOnce
  <2>4. CASE ~handOver
    <3>1. handovers' = handovers
      BY <2>1, <2>2, <2>4
    <3>2. handovers = 1 => track'.state.handover
      BY <1>3, <1>6, <2>1, <2>4
    <3>3. QED
      BY <1>6, <2>1, <3>1, <3>2 DEF HandedOverOnce
  <2>5. QED
    BY <2>3, <2>4
<1>10. QED
  BY <1>7, <1>8, <1>9

\* A reading that adopts a run, closes one, or finds an idle valve shut.
LEMMA EndingStep ==
    ASSUME Inv, NEW seen \in Readings, ObserveReading(seen),
           ~seen.watering \/ track.state = Idle
    PROVE  RunShape' /\ StopAskedOnce' /\ HandedOverOnce'
<1>1. track \in Track /\ track' = Observe(track, now, day, profile, seen)
  BY DEF Inv, TypeOK, ObserveReading
<1>2. CASE ~seen.watering
  <2>1. track'.state = Idle
    BY <1>1, <1>2 DEF Observe, NextState, Track
  <2>2. stops' = 0 /\ handovers' = 0
    BY <1>2 DEF ObserveReading
  <2>3. QED
    BY <2>1, <2>2 DEF RunShape, StopAskedOnce, HandedOverOnce
<1>3. CASE seen.watering /\ track.state = Idle
  <2> DEFINE run == AdoptCycle(now, profile, seen)
  <2>1. run \in Run /\ WellShaped(run) /\ ~ShouldHandOver(run, now, seen)
    <3>1. run \in Run
      BY AdoptedRun DEF Inv, TypeOK
    <3>2. QED
      BY <3>1 DEF AdoptCycle, WellShaped, ShouldHandOver, Resumable
  <2>2. NextState(track.state, now, profile, seen) = run
    BY <1>3 DEF NextState, Continue
  <2>3. track'.state = run
    BY <1>1, <1>3, <2>1, <2>2 DEF Observe, Closes, Track
  <2>4. stops' = stops /\ handovers' = handovers /\ stops = 0 /\ handovers = 0
    BY <1>3, <2>1, <2>2 DEF ObserveReading, StopDue, AsksHandover, Inv, TypeOK,
                            StopAskedOnce, HandedOverOnce
  <2>5. QED
    BY <2>1, <2>3, <2>4 DEF RunShape, StopAskedOnce, HandedOverOnce
<1>4. QED
  BY <1>2, <1>3

LEMMA InvStep == Inv /\ [Next]_vars => Inv'
<1> SUFFICES ASSUME Inv, [Next]_vars PROVE Inv'
  OBVIOUS
<1>1. TypeOK'
  BY TypeStep DEF Inv
<1> SUFFICES RunShape' /\ StopAskedOnce' /\ HandedOverOnce'
  BY <1>1 DEF Inv
<1>2. ASSUME NEW seen \in Readings, ObserveReading(seen)
      PROVE  RunShape' /\ StopAskedOnce' /\ HandedOverOnce'
  BY <1>2, ContinuingStep, EndingStep
<1>3. ASSUME NEW open \in Opens, RecordOpen(open)
      PROVE  RunShape' /\ StopAskedOnce' /\ HandedOverOnce'
  <2> DEFINE run == StartHubCycle(now, open.mode, open.duration, open.cap, open.resume)
  <2>1. CASE MayStart(open.mode, open.cap)
    <3>1. open \in HubOpen /\ track \in Track /\ now \in Nat
      BY DEF Inv, TypeOK
    <3>2. run \in Run
      BY <3>1, StartedRun
    <3>3. WellShaped(run)
      <4>1. run.mode = open.mode /\ run.cap = open.cap /\ run.prov = "hub" /\ ~run.handover
        BY DEF StartHubCycle
      <4>2. run.resume => open.mode = "washdown"
        BY DEF StartHubCycle
      <4>3. open.cap \in Nat
        BY <3>1 DEF HubOpen
      <4>4. (open.mode = "washdown") <=> (open.cap = 0)
        BY <2>1 DEF MayStart
      <4>5. QED
        BY <4>1, <4>2, <4>3, <4>4 DEF WellShaped
    <3>4. track'.state = run
      BY <1>3, <2>1, <3>1 DEF RecordOpen, NoteHubOpen, Track
    <3>5. stops' = 0 /\ handovers' = 0
      BY <1>3, <2>1 DEF RecordOpen
    <3>6. QED
      BY <3>3, <3>4, <3>5 DEF RunShape, StopAskedOnce, HandedOverOnce
  <2>2. CASE ~MayStart(open.mode, open.cap)
    BY <1>3, <2>2 DEF RecordOpen, NoteHubOpen, Inv, RunShape, StopAskedOnce, HandedOverOnce
  <2>3. QED
    BY <2>1, <2>2
<1>4. ASSUME NEW reason \in StopReasons, MarkStop(reason)
      PROVE  RunShape' /\ StopAskedOnce' /\ HandedOverOnce'
  <2>1. track \in Track /\ UNCHANGED <<stops, handovers>>
    BY <1>4 DEF Inv, TypeOK, MarkStop
  <2>2. CASE track.state = Idle
    BY <1>4, <2>1, <2>2 DEF MarkStop, NoteStop, Inv, RunShape, StopAskedOnce, HandedOverOnce
  <2>3. CASE track.state # Idle
    <3>1. track'.state = [track.state EXCEPT !.stop = reason]
      BY <1>4, <2>1, <2>3 DEF MarkStop, NoteStop, Track
    <3>2. track.state \in Run /\ track'.state \in Run
      BY <2>1, <2>3, <3>1 DEF Track, Run, StopReasons
    <3>3. track'.state.stop # NoStop /\ track'.state.handover = track.state.handover
      BY <3>1, <3>2 DEF Run, NoStop, StopReasons
    <3>4. WellShaped(track.state) => WellShaped(track'.state)
      BY <3>1, <3>2 DEF WellShaped, Run
    <3>5. QED
      BY <2>1, <2>3, <3>2, <3>3, <3>4 DEF Inv, RunShape, StopAskedOnce, HandedOverOnce
  <2>4. QED
    BY <2>2, <2>3
<1>5. CASE AbandonStop
  <2>1. track \in Track /\ handovers' = handovers
    BY <1>5 DEF Inv, TypeOK, AbandonStop
  <2>2. CASE ~Releases(track)
    BY <1>5, <2>2 DEF AbandonStop, NoteStopAbandoned, Inv, RunShape, StopAskedOnce, HandedOverOnce
  <2>3. CASE Releases(track)
    <3>1. /\ track.state # Idle
          /\ track'.state = [track.state EXCEPT !.stop = NoStop]
          /\ stops' = 0
      BY <1>5, <2>1, <2>3 DEF AbandonStop, NoteStopAbandoned, Releases, Track
    <3>2. track.state \in Run /\ track'.state \in Run
      BY <2>1, <3>1 DEF Track, Run
    <3>3. track'.state.handover = track.state.handover
      BY <3>1, <3>2 DEF Run
    <3>4. WellShaped(track.state) => WellShaped(track'.state)
      BY <3>1, <3>2 DEF WellShaped, Run
    <3>5. QED
      BY <2>1, <3>1, <3>2, <3>3, <3>4 DEF Inv, RunShape, StopAskedOnce, HandedOverOnce
  <2>4. QED
    BY <2>2, <2>3
<1>6. CASE TakeOpen
  <2>1. track'.state = track.state
    BY <1>6 DEF TakeOpen, TakePendingOpen, Inv, TypeOK, Track
  <2>2. QED
    BY <1>6, <2>1 DEF TakeOpen, Inv, RunShape, StopAskedOnce, HandedOverOnce
<1>7. ASSUME NEW new \in Profiles, ApplyProfile(new)
      PROVE  RunShape' /\ StopAskedOnce' /\ HandedOverOnce'
  BY <1>7 DEF ApplyProfile, Inv, RunShape, StopAskedOnce, HandedOverOnce
<1>8. CASE Rebuild
  BY <1>8 DEF Rebuild, NewTrack, RunShape, StopAskedOnce, HandedOverOnce
<1>9. CASE Tick
  BY <1>9 DEF Tick, Inv, RunShape, StopAskedOnce, HandedOverOnce
<1>10. CASE NewDay
  BY <1>10 DEF NewDay, Inv, RunShape, StopAskedOnce, HandedOverOnce
<1>11. CASE UNCHANGED vars
  BY <1>11 DEF vars, Inv, RunShape, StopAskedOnce, HandedOverOnce
<1>12. QED
  BY <1>2, <1>3, <1>4, <1>5, <1>6, <1>7, <1>8, <1>9, <1>10, <1>11 DEF Next

\* Every call leaves the runtime's state of its type; a washdown never carries a cap, and only a
\* hub's washdown resumes or hands over.  Between a run's start and its end, or the release of
\* its mark, one stop is asked for; and a washdown is handed over once.
THEOREM RunsAreWellShaped == Spec => []RuntimeInv
<1>1. Inv => RuntimeInv
  BY DEF Inv, RuntimeInv
<1>2. QED
  BY <1>1, InvInit, InvStep, PTL DEF Spec

-----------------------------------------------------------------------------
(* The day's ledger *)

LInv == TypeOK /\ LedgerIsTheDay /\ track.ledger.day <= day

LEMMA LedgerInit == Init => LInv
<1>1. Init => TypeOK
  BY TypeInit
<1>2. QED
  BY <1>1 DEF Init, LInv, NewTrack, LedgerIsTheDay

LEMMA LedgerStep == LInv /\ [Next]_vars => LInv'
<1> SUFFICES ASSUME LInv, [Next]_vars PROVE LInv'
  OBVIOUS
<1>1. TypeOK'
  BY TypeStep DEF LInv
<1>2. track \in Track /\ track.ledger \in Ledger /\ day \in Nat /\ counted \in Nat
  BY DEF LInv, TypeOK, Track
<1>3. ASSUME NEW seen \in Readings, ObserveReading(seen) PROVE LInv'
  <2> DEFINE closed == Metered(track.state, seen)
  <2>1. track' = Observe(track, now, day, profile, seen) /\ day' = day
    BY <1>3 DEF ObserveReading
  <2>2. CASE Closes(track.state, seen)
    <3>1. track.state \in Run /\ seen \in Reading
      BY <1>2, <2>2 DEF Closes, Track
    <3>2. closed \in Run /\ closed.mode = track.state.mode /\ closed.volume \in Nat
      BY <3>1, MeteredRun DEF Run
    <3>3. track'.ledger = ApplyToLedger(track.ledger, day, closed)
      BY <1>2, <2>1, <2>2 DEF Observe, Track
    <3>4. counted' = counted + (IF closed.mode = "washdown" THEN 0 ELSE closed.volume)
      BY <1>3, <2>2, <3>2 DEF ObserveReading, Counts
    <3>5. QED
      BY <1>1, <1>2, <2>1, <3>2, <3>3, <3>4 DEF LInv, LedgerIsTheDay, ApplyToLedger, Ledger
  <2>3. CASE ~Closes(track.state, seen)
    <3>1. track'.ledger = track.ledger
      BY <1>2, <2>1, <2>3 DEF Observe, Track
    <3>2. counted' = counted
      BY <1>2, <1>3, <2>3 DEF ObserveReading, Counts
    <3>3. QED
      BY <1>1, <2>1, <3>1, <3>2 DEF LInv, LedgerIsTheDay
  <2>4. QED
    BY <2>2, <2>3
<1>4. ASSUME NEW open \in Opens, RecordOpen(open) PROVE LInv'
  <2>1. track'.ledger = track.ledger
    BY <1>2, <1>4 DEF RecordOpen, NoteHubOpen, Track
  <2>2. QED
    BY <1>1, <1>4, <2>1 DEF RecordOpen, LInv, LedgerIsTheDay
<1>5. ASSUME NEW reason \in StopReasons, MarkStop(reason)
      PROVE  LInv'
  <2>1. track'.ledger = track.ledger
    BY <1>2, <1>5 DEF MarkStop, NoteStop, Track
  <2>2. QED
    BY <1>1, <1>5, <2>1 DEF MarkStop, LInv, LedgerIsTheDay
<1>6. CASE AbandonStop
  <2>1. track'.ledger = track.ledger
    BY <1>2, <1>6 DEF AbandonStop, NoteStopAbandoned, Track
  <2>2. QED
    BY <1>1, <1>6, <2>1 DEF AbandonStop, LInv, LedgerIsTheDay
<1>7. CASE TakeOpen
  <2>1. track'.ledger = track.ledger
    BY <1>2, <1>7 DEF TakeOpen, TakePendingOpen, Track
  <2>2. QED
    BY <1>1, <1>7, <2>1 DEF TakeOpen, LInv, LedgerIsTheDay
<1>8. ASSUME NEW new \in Profiles, ApplyProfile(new) PROVE LInv'
  BY <1>1, <1>8 DEF ApplyProfile, LInv, LedgerIsTheDay
<1>9. CASE Rebuild
  BY <1>1, <1>2, <1>9 DEF Rebuild, NewTrack, LInv, LedgerIsTheDay
<1>10. CASE Tick
  BY <1>1, <1>10 DEF Tick, LInv, LedgerIsTheDay
<1>11. CASE NewDay
  BY <1>1, <1>2, <1>11 DEF NewDay, LInv, LedgerIsTheDay, Ledger
<1>12. CASE UNCHANGED vars
  BY <1>1, <1>12 DEF vars, LInv, LedgerIsTheDay
<1>13. QED
  BY <1>3, <1>4, <1>5, <1>6, <1>7, <1>8, <1>9, <1>10, <1>11, <1>12 DEF Next

\* The ledger of the current day is the sum of the counted ends of that day.
THEOREM LedgerIsSound == Spec => []LedgerIsTheDay
<1>1. LInv => LedgerIsTheDay
  BY DEF LInv
<1>2. QED
  BY <1>1, LedgerInit, LedgerStep, PTL DEF Spec

-----------------------------------------------------------------------------
(* When a reopen becomes owed *)

LEMMA ReopenStep == Inv /\ [Next]_vars => [BecomesOwed => MayReopen(track.state)]_vars
<1> SUFFICES ASSUME Inv, Next, BecomesOwed PROVE MayReopen(track.state)
  OBVIOUS
<1> DEFINE run == track.state
<1>1. track \in Track /\ now \in Nat /\ profile \in Profile
  BY DEF Inv, TypeOK
<1>2. ASSUME NEW seen \in Readings, ObserveReading(seen) PROVE MayReopen(run)
  <2>1. track' = Observe(track, now, day, profile, seen) /\ seen \in Reading
    BY <1>2 DEF ObserveReading
  <2>2. CASE Closes(run, seen)
    <3> DEFINE closed == Metered(run, seen)
    <3>1. run \in Run /\ closed \in Run /\ closed = [run EXCEPT !.volume = closed.volume]
      BY <1>1, <2>1, <2>2, MeteredRun DEF Closes, Track
    <3>2. track'.state = Idle
      BY <1>1, <2>1, <2>2 DEF Observe
    <3>3. EndReason(closed, now) = "timer"
      BY <1>1, <2>1, <2>2 DEF Observe, BecomesOwed, OwedAfter, Track,
                              ShouldResumeNormal, ShouldAutoRestart
    <3>4. /\ closed.stop = run.stop /\ closed.mode = run.mode /\ closed.cap = run.cap
          /\ closed.started = run.started /\ closed.duration = run.duration
          /\ closed.cap \in Nat /\ closed.volume \in Nat
      BY <3>1 DEF Run
    <3>5. run.stop = "timer" \/ run.stop = NoStop
      BY <3>3, <3>4 DEF EndReason
    <3>6. run.stop # "timer"
      BY <3>1 DEF Run, StopReasons, NoStop
    <3>7. /\ now - run.started >= run.duration - TimerMargin
          /\ run.cap = 0 \/ closed.volume < run.cap
      BY <3>3, <3>4, <3>5, <3>6 DEF EndReason, NoStop
    <3>8. run.mode # "washdown" => counted' - counted = closed.volume
      BY <1>2, <2>2, <3>4 DEF ObserveReading, Counts, Inv, TypeOK
    <3>9. QED
      BY <3>1, <3>2, <3>5, <3>6, <3>7, <3>8 DEF MayReopen
  <2>3. CASE ~Closes(run, seen)
    <3> DEFINE next == NextState(run, now, profile, seen)
    <3>1. next # Idle /\ ShouldHandOver(next, now, seen)
      BY <1>1, <2>1, <2>3 DEF Observe, BecomesOwed, Track
    <3>2. next.mode = "washdown" /\ next.stop = NoStop
      BY <3>1 DEF ShouldHandOver, Resumable
    <3>3. seen.watering
      BY <3>1 DEF NextState
    <3>4. run # Idle
      BY <3>1, <3>2, <3>3 DEF NextState, Continue, AdoptCycle
    <3>5. run \in Run
      BY <1>1, <3>4 DEF Track
    <3>6. next \in Run /\ run.mode = "washdown" /\ run.stop = NoStop
      BY <1>1, <2>1, <3>2, <3>3, <3>5, NextStateMark DEF NoStop
    <3>7. track'.state = [next EXCEPT !.handover = TRUE]
      BY <1>1, <2>1, <2>3, <3>1 DEF Observe, Track
    <3>8. track'.state \in Run /\ track'.state.stop = NoStop
      BY <3>2, <3>6, <3>7 DEF Run
    <3>9. QED
      BY <3>4, <3>6, <3>8 DEF MayReopen
  <2>4. QED
    BY <2>2, <2>3
<1>3. ASSUME NEW open \in Opens, RecordOpen(open) PROVE FALSE
  BY <1>1, <1>3 DEF RecordOpen, NoteHubOpen, BecomesOwed, Track
<1>4. ASSUME NEW reason \in StopReasons, MarkStop(reason)
      PROVE  FALSE
  BY <1>1, <1>4 DEF MarkStop, NoteStop, BecomesOwed, Track
<1>5. CASE AbandonStop
  BY <1>1, <1>5 DEF AbandonStop, NoteStopAbandoned, BecomesOwed, Track
<1>6. CASE TakeOpen
  BY <1>1, <1>6 DEF TakeOpen, TakePendingOpen, BecomesOwed, Track
<1>7. CASE Rebuild
  BY <1>7 DEF Rebuild, NewTrack, BecomesOwed
<1>8. ASSUME NEW new \in Profiles, ApplyProfile(new) PROVE FALSE
  BY <1>8 DEF ApplyProfile, BecomesOwed
<1>9. CASE Tick
  BY <1>9 DEF Tick, BecomesOwed
<1>10. CASE NewDay
  BY <1>10 DEF NewDay, BecomesOwed
<1>11. QED
  BY <1>2, <1>3, <1>4, <1>5, <1>6, <1>7, <1>8, <1>9, <1>10 DEF Next

\* Only a run that ended on its time, unstopped and below its cap, or a washdown
\* about to end, makes the hub owe its valve a reopen.
THEOREM ReopensOnTimeOnly == Spec => ReopenOnlyOnTime
BY InvInit, InvStep, ReopenStep, PTL DEF Spec, ReopenOnlyOnTime
=============================================================================
