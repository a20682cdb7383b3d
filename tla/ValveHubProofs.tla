--------------------------- MODULE ValveHubProofs ---------------------------
(***************************************************************************)
(* Proofs about ValveHub, for any number of pushes, requests and alarms,   *)
(* any opens and profile and every bound: what drive_closes may take for   *)
(* the end of a close, that no alarm is forgotten whatever close it meets, *)
(* and that a reopen owed is sent once at most.                            *)
(***************************************************************************)
EXTENDS ValveHub, FiniteSetTheorems, TLAPS

-----------------------------------------------------------------------------
(* What the operators of the cycle machine and the runtime return *)

USE CycleAssumption, RuntimeAssumption, HubAssumption

LEMMA MeteredRun ==
    ASSUME NEW run \in Run, NEW reading \in Reading
    PROVE  Metered(run, reading) \in Run
BY DEF Metered, Run, Reading

LEMMA NextStateType ==
    ASSUME NEW state \in Run \union {Idle}, NEW at \in Nat,
           NEW p \in Profile, NEW reading \in Reading
    PROVE  NextState(state, at, p, reading) \in Run \union {Idle}
<1>1. CASE state = Idle
  <2>1. AdoptCycle(at, p, reading) \in Run
    BY DEF AdoptCycle, Run, Profile, Reading, Modes, NoStop, StopReasons
  <2> QED
    BY <1>1, <2>1 DEF NextState, Continue
<1>2. CASE state \in Run
  <2> DEFINE run == Metered(state, reading)
  <2>1. run \in Run
    BY <1>2, MeteredRun
  <2>2. [run EXCEPT !.stop = "volume_cap"] \in Run
    BY <2>1 DEF Run, StopReasons
  <2> QED
    BY <1>2, <2>1, <2>2 DEF NextState, Continue
<1> QED
  BY <1>1, <1>2

\* A reading leaves a track a track.
LEMMA ObservedTrack ==
    ASSUME NEW old \in Track, NEW at \in Nat, NEW day \in Nat,
           NEW p \in Profile, NEW reading \in Reading
    PROVE  Observe(old, at, day, p, reading) \in Track
<1> DEFINE next == NextState(old.state, at, p, reading)
           closed == Metered(old.state, reading)
<1>1. old.state \in Run \union {Idle}
  BY DEF Track
<1>2. next \in Run \union {Idle}
  BY <1>1, NextStateType
<1>3. \A why \in {"washdown handover", "washdown resume", "auto-restart"} :
        NormalRun(p, why) \in Pending
  BY DEF NormalRun, Pending, Profile
<1>4. CASE Closes(old.state, reading)
  <2>1. closed \in Run
    BY <1>1, <1>4, MeteredRun DEF Closes
  <2>2. ApplyToLedger(old.ledger, day, closed) \in Ledger
    BY <2>1 DEF ApplyToLedger, Ledger, Track, Run
  <2>3. OwedAfter(closed, EndReason(closed, at), p, old.pending) \in Pending \union {NoOpen}
    BY <1>3 DEF OwedAfter, Track
  <2> QED
    BY <1>4, <2>2, <2>3 DEF Observe, Track
<1>5. CASE ~Closes(old.state, reading)
  <2>1. next # Idle => [next EXCEPT !.handover = TRUE] \in Run
    BY <1>2 DEF Run
  <2> QED
    BY <1>2, <1>3, <1>5, <2>1 DEF Observe, Track
<1> QED
  BY <1>4, <1>5

\* The empty track, and what the other calls make of a track.
LEMMA TrackOps ==
    /\ NewTrack \in Track
    /\ \A old \in Track :
          /\ Forgetting(old) \in Track
          /\ NoteStopAbandoned(old) \in Track
          /\ TakePendingOpen(old) \in Track
          /\ \A why \in Causes : NoteStop(old, EndReasonOf(why)) \in Track
          /\ \A at \in Nat, open \in Order :
                NoteHubOpen(old, at, open.mode, open.duration, open.cap, open.resume) \in Track
<1>1. NewTrack \in Track
  BY DEF NewTrack, Track, Ledger
<1>2. ASSUME NEW old \in Track
      PROVE  /\ Forgetting(old) \in Track
             /\ TakePendingOpen(old) \in Track
  BY <1>1 DEF Forgetting, TakePendingOpen, Track
<1>3. ASSUME NEW old \in Track PROVE NoteStopAbandoned(old) \in Track
  <2>1. old.state # Idle => [old.state EXCEPT !.stop = NoStop] \in Run
    BY DEF Track, Run
  <2> QED
    BY <2>1 DEF NoteStopAbandoned, Releases, Track
<1>4. ASSUME NEW old \in Track, NEW why \in Causes PROVE NoteStop(old, EndReasonOf(why)) \in Track
  <2>1. EndReasonOf(why) \in StopReasons
    BY DEF Causes, EndReasonOf, StopReasons
  <2>2. old.state # Idle => [old.state EXCEPT !.stop = EndReasonOf(why)] \in Run
    BY <2>1 DEF Track, Run
  <2> QED
    BY <2>2 DEF NoteStop, Track
<1>5. ASSUME NEW old \in Track, NEW at \in Nat, NEW open \in Order
      PROVE  NoteHubOpen(old, at, open.mode, open.duration, open.cap, open.resume) \in Track
  <2>1. StartHubCycle(at, open.mode, open.duration, open.cap, open.resume) \in Run
    BY DEF StartHubCycle, Run, Order, Modes, NoStop, StopReasons
  <2> QED
    BY <2>1 DEF NoteHubOpen, Track
<1> QED
  BY <1>1, <1>2, <1>3, <1>4, <1>5

-----------------------------------------------------------------------------
(* Types, and what a task holds at each of its steps *)

\* What task t is about to use is there: a reading to observe, a cause to close for, an open.
Holds(t) ==
    /\ pc[t] = "observe" => seen[t] \in Reading
    /\ pc[t] \in {"claim", "mark"} => cause[t] \in Causes
    /\ pc[t] \in {"start", "record"} => order[t] \in Order

Typed == TypeOK /\ \A t \in Tasks : Holds(t)

\* A map over the tasks left alone, or changed at one task.
Changes(map, next, t, S) == next = map \/ \E x \in S : next = [map EXCEPT ![t] = x]

\* One task moves: the others hold what they held.
LEMMA OneMoves ==
    ASSUME Typed, NEW t \in Tasks, NEW step \in Steps, Goto(t, step),
           Changes(seen, seen', t, Reading \union {NoReading}),
           Changes(cause, cause', t, Causes \union {NoCause}),
           Changes(order, order', t, Order \union {NoOpen}),
           step = "observe" => seen'[t] \in Reading,
           step \in {"claim", "mark"} => cause'[t] \in Causes,
           step \in {"start", "record"} => order'[t] \in Order
    PROVE  /\ pc' \in [Tasks -> Steps]
           /\ seen' \in [Tasks -> Reading \union {NoReading}]
           /\ cause' \in [Tasks -> Causes \union {NoCause}]
           /\ order' \in [Tasks -> Order \union {NoOpen}]
           /\ \A u \in Tasks : Holds(u)'
<1>1. pc \in [Tasks -> Steps] /\ pc' = [pc EXCEPT ![t] = step]
  BY DEF Typed, TypeOK, Goto
<1>2. /\ seen' \in [Tasks -> Reading \union {NoReading}]
      /\ \A u \in Tasks \ {t} : seen'[u] = seen[u]
  BY DEF Typed, TypeOK, Changes
<1>3. /\ cause' \in [Tasks -> Causes \union {NoCause}]
      /\ \A u \in Tasks \ {t} : cause'[u] = cause[u]
  BY DEF Typed, TypeOK, Changes
<1>4. /\ order' \in [Tasks -> Order \union {NoOpen}]
      /\ \A u \in Tasks \ {t} : order'[u] = order[u]
  BY DEF Typed, TypeOK, Changes
<1>5. pc' \in [Tasks -> Steps] /\ pc'[t] = step /\ \A u \in Tasks \ {t} : pc'[u] = pc[u]
  BY <1>1
<1>6. ASSUME NEW u \in Tasks PROVE Holds(u)'
  <2>1. CASE u = t
    BY <2>1, <1>5 DEF Holds
  <2>2. CASE u # t
    BY <2>2, <1>2, <1>3, <1>4, <1>5 DEF Holds, Typed
  <2> QED
    BY <2>1, <2>2
<1> QED
  BY <1>2, <1>3, <1>4, <1>5, <1>6

-----------------------------------------------------------------------------
(* The closes in flight *)

Numbers ==
    /\ claims \in Nat
    /\ \A slot \in {watch, mine} :
          slot # NoClose => "number" \in DOMAIN slot /\ slot.number \in 0..claims

Maps == pc \in [Tasks -> Steps] /\ DOMAIN seen = Tasks

\* The history is what it says: a valve that is shut has been shut.
WitnessHolds == ~valve.open => wasShut

\* A read that found the valve shut speaks of the latest attempt of the watch it was made for.
ReadIsRecent ==
    pc[Poller] = "settle" /\ ~seen[Poller].watering /\ mine # NoClose /\ watch = mine => wasShut

\* drive_closes decides about a watch.
HasWatch == pc[Poller] \in {"read", "settle"} => mine # NoClose

\* An alarm is not answered: the valve is open, a flood close is in flight for it, and no read
\* about to confirm that close was made after the alarm was.
Alarmed == (alarm => valve.open) /\ (AboutToConfirm => ~alarm) /\ AlarmNeverForgotten

IInv == HasWatch /\ Numbers /\ Maps /\ WitnessHolds /\ ReadIsRecent /\ Alarmed

LEMMA Initially == Init => IInv
<1> SUFFICES ASSUME Init PROVE IInv
  OBVIOUS
<1>1. watch = NoClose /\ mine = NoClose /\ claims = 0 /\ wasShut = TRUE
      /\ pc = [t \in Tasks |-> "ready"] /\ seen = [t \in Tasks |-> NoReading]
      /\ alarm = FALSE
  BY DEF Init
<1>2. Numbers /\ WitnessHolds
  BY <1>1 DEF Numbers, WitnessHolds
<1>4. ReadIsRecent /\ HasWatch /\ Alarmed
  BY <1>1 DEF ReadIsRecent, HasWatch, Alarmed, AlarmNeverForgotten, Tasks
<1>3. Maps
  BY <1>1 DEF Maps, Steps
<1> QED
  BY <1>2, <1>3, <1>4 DEF IInv

\* Every step but those of drive_closes and a claim leaves the watches alone, and if it moves
\* Poller it moves it elsewhere than to the decision.
Aside ==
    /\ UNCHANGED <<watch, mine, claims>>
    /\ pc' \in [Tasks -> Steps] /\ DOMAIN seen' = Tasks
    /\ \/ pc'[Poller] = pc[Poller] /\ seen'[Poller] = seen[Poller]
       \/ pc'[Poller] \notin {"read", "settle"}
    /\ UNCHANGED <<valve, wasShut, alarm>> \/ Witnessed(valve')

LEMMA AsideKeeps == ASSUME IInv, Aside PROVE IInv'
<1>1. Numbers'
  BY DEF IInv, Aside, Numbers
<1>2. Maps'
  BY DEF IInv, Aside, Maps
<1>3. WitnessHolds' /\ (wasShut => wasShut')
  <2>1. CASE UNCHANGED <<valve, wasShut, alarm>>
    BY <2>1 DEF IInv, WitnessHolds
  <2>2. CASE Witnessed(valve')
    BY <2>2 DEF Witnessed, WitnessHolds
  <2> QED
    BY <2>1, <2>2 DEF Aside
<1>4. ReadIsRecent'
  BY <1>3 DEF IInv, Aside, ReadIsRecent
<1>5. HasWatch'
  BY DEF IInv, Aside, HasWatch
<1>6. Alarmed'
  <2>1. AboutToConfirm' => AboutToConfirm
    BY DEF Aside, AboutToConfirm
  <2>2. (alarm' => alarm) /\ (alarm' => valve'.open)
    <3>1. CASE UNCHANGED <<valve, wasShut, alarm>>
      BY <3>1 DEF IInv, Alarmed
    <3>2. CASE Witnessed(valve')
      <4>1. alarm' = (alarm /\ valve'.open)
        BY <3>2 DEF Witnessed
      <4> QED
        BY <4>1, Zenon
    <3> QED
      BY <3>1, <3>2 DEF Aside
  <2> QED
    BY <2>1, <2>2 DEF IInv, Alarmed, AlarmNeverForgotten, Aside
<1> QED
  BY <1>1, <1>2, <1>3, <1>4, <1>5, <1>6 DEF IInv

\* Moving one task: it alone moves, and Poller to the step named.
LEMMA GotoMoves ==
    ASSUME Maps, NEW t \in Tasks, NEW step \in Steps, Goto(t, step)
    PROVE  /\ pc' \in [Tasks -> Steps] /\ pc'[t] = step
           /\ t # Poller => pc'[Poller] = pc[Poller]
  BY DEF Maps, Goto, Tasks

LEMMA FinishMoves ==
    ASSUME Maps, NEW t \in Tasks, Finish(t)
    PROVE  /\ pc' \in [Tasks -> Steps] /\ pc'[t] \notin {"read", "settle"}
           /\ t # Poller => pc'[Poller] = pc[Poller]
<1> DEFINE step == IF t = Poller THEN "drive" ELSE "done"
<1>1. step \in Steps /\ Goto(t, step) /\ step \notin {"read", "settle"}
  BY DEF Finish, Steps
<1> HIDE DEF step
<1> QED
  BY <1>1, GotoMoves

LEMMA AfterCloseMoves ==
    ASSUME Maps, NEW t \in Tasks, AfterClose(t)
    PROVE  /\ pc' \in [Tasks -> Steps] /\ pc'[t] \notin {"read", "settle"}
           /\ t # Poller => pc'[Poller] = pc[Poller]
<1>1. CASE t \in Readers
  <2>1. Goto(t, "take") /\ "take" \in Steps
    BY <1>1 DEF AfterClose, Steps
  <2> QED
    BY <2>1, GotoMoves
<1>2. CASE t \notin Readers
  BY <1>2, FinishMoves DEF AfterClose
<1> QED
  BY <1>1, <1>2

\* The steps of one task that claim nothing.
LEMMA TasksStepAside ==
    ASSUME IInv, NEW t \in Tasks,
           \/ PushArrives(t) \/ ObserveSeen(t) \/ Act(t) \/ AppCloses(t) \/ AlarmRaised(t)
           \/ Mark(t) \/ SendStop(t) \/ TakeOpen(t) \/ SendStart(t) \/ Record(t)
           \/ \E open \in Opens : AppOpens(t, open)
    PROVE  Aside
<1> USE DEF IInv
<1>p. Maps /\ DOMAIN seen = Tasks /\ Poller \in Tasks
  BY DEF Maps, Tasks
<1>s. {"observe", "act", "claim", "take", "stop", "start", "record"} \subseteq Steps \ {"read", "settle"}
  BY DEF Steps
<1> DEFINE Moves == /\ pc' \in [Tasks -> Steps] /\ pc'[t] \notin {"read", "settle"}
                    /\ t # Poller => pc'[Poller] = pc[Poller]
<1>g. ASSUME NEW step \in {"observe", "act", "claim", "take", "stop", "start", "record"}, Goto(t, step)
      PROVE  Moves
  BY <1>p, <1>s, <1>g, GotoMoves
<1>f. Finish(t) => Moves
  BY <1>p, FinishMoves
<1>c. AfterClose(t) => Moves
  BY <1>p, AfterCloseMoves
<1>q. ASSUME Moves, UNCHANGED <<watch, mine, claims>>, DOMAIN seen' = Tasks,
             t # Poller => seen'[Poller] = seen[Poller],
             UNCHANGED <<valve, wasShut, alarm>> \/ Witnessed(valve')
      PROVE  Aside
  BY <1>q DEF Aside
<1>w. /\ UNCHANGED seen => DOMAIN seen' = Tasks /\ seen'[Poller] = seen[Poller]
      /\ \A x : seen' = [seen EXCEPT ![t] = x] =>
                /\ DOMAIN seen' = Tasks
                /\ t # Poller => seen'[Poller] = seen[Poller]
  BY <1>p
<1> HIDE DEF Moves
<1>1. CASE PushArrives(t)
  BY <1>1, <1>g, <1>w, <1>q DEF PushArrives, hubVars, bounds, history
<1>2. CASE ObserveSeen(t)
  BY <1>2, <1>g, <1>w, <1>q DEF ObserveSeen, bounds
<1>3. CASE Act(t)
  <2>1. Moves
    BY <1>3, <1>g, <1>f DEF Act
  <2> QED
    BY <1>3, <2>1, <1>w, <1>q DEF Act, hubVars, bounds, history
<1>4. CASE AppCloses(t)
  BY <1>4, <1>g, <1>w, <1>q DEF AppCloses, hubVars, bounds, history
<1>5. CASE AlarmRaised(t)
  BY <1>5, <1>g, <1>w, <1>q DEF AlarmRaised, hubVars, bounds, history
<1>6. CASE Mark(t)
  BY <1>6, <1>g, <1>w, <1>q DEF Mark, bounds, history
<1>7. CASE SendStop(t)
  BY <1>7, <1>c, <1>w, <1>q DEF SendStop, StopCommand, hubVars, bounds
<1>8. CASE TakeOpen(t)
  <2>1. Moves
    BY <1>8, <1>g, <1>f DEF TakeOpen
  <2> QED
    BY <1>8, <2>1, <1>w, <1>q DEF TakeOpen, bounds, history
<1>9. CASE SendStart(t)
  <2>1. Moves
    BY <1>9, <1>g, <1>f DEF SendStart
  <2> QED
    BY <1>9, <2>1, <1>w, <1>q DEF SendStart, hubVars, bounds
<1>10. CASE Record(t)
  BY <1>10, <1>f, <1>w, <1>q DEF Record, bounds
<1>11. CASE \E open \in Opens : AppOpens(t, open)
  BY <1>11, <1>g, <1>w, <1>q DEF AppOpens, hubVars, bounds, history
<1> QED
  BY <1>1, <1>2, <1>3, <1>4, <1>5, <1>6, <1>7, <1>8, <1>9, <1>10, <1>11

\* A claim is a watch with a number of its own: no read made before is about it.
LEMMA ClaimKeeps ==
    ASSUME IInv, NEW t \in Tasks, Claim(t), cause[t] \in Causes PROVE IInv'
<1> USE DEF IInv
<1>1. CASE /\ watch # NoClose /\ ~Overrides(cause[t], watch.cause)
           /\ UNCHANGED <<watch, claims, wasShut>> /\ AfterClose(t)
  <2>1. /\ pc' \in [Tasks -> Steps] /\ UNCHANGED <<mine, seen, valve>>
        /\ pc'[Poller] = pc[Poller] \/ pc'[Poller] \notin {"read", "settle"}
    BY <1>1, AfterCloseMoves DEF Claim, Maps
  <2>2. Numbers' /\ Maps' /\ WitnessHolds' /\ ReadIsRecent' /\ HasWatch'
    BY <1>1, <2>1 DEF Numbers, Maps, WitnessHolds, ReadIsRecent, HasWatch
  <2>3. AboutToConfirm' => AboutToConfirm
    BY <1>1, <2>1 DEF AboutToConfirm
  <2>4. CASE cause[t] = "flood"
    <3>1. (alarm' => valve.open) /\ (alarm' => ~AboutToConfirm)
      BY <1>1, <2>4 DEF Claim
    <3>2. watch.cause = "flood"
      BY <1>1, <2>4 DEF Overrides
    <3> QED
      BY <1>1, <2>1, <2>2, <2>3, <3>1, <3>2 DEF Alarmed, AlarmNeverForgotten
  <2>5. CASE cause[t] # "flood"
    BY <1>1, <2>1, <2>2, <2>3, <2>5 DEF Claim, Alarmed, AlarmNeverForgotten
  <2> QED
    BY <2>4, <2>5
<1>2. CASE /\ watch = NoClose \/ Overrides(cause[t], watch.cause)
           /\ claims' = claims + 1
           /\ watch' = [cause |-> cause[t], number |-> claims + 1, attempts |-> 1]
           /\ wasShut' = ~valve.open /\ Goto(t, "mark")
  <2>1. UNCHANGED <<valve, seen, mine>>
    BY DEF Claim
  <2>2. WitnessHolds'
    BY <1>2, <2>1 DEF WitnessHolds
  <2>3. Maps'
    BY <1>2, <2>1, GotoMoves DEF Maps, Steps
  <2>4. watch'.number = claims + 1 /\ (mine # NoClose => watch' # mine)
    BY <1>2 DEF Numbers
  <2>5. "number" \in DOMAIN watch' /\ watch' # NoClose
    <3>1. watch' \in Slot
      BY <1>2 DEF Slot, Numbers
    <3> QED
      BY <3>1, <1>2, HubAssumption DEF Slot
  <2>6. Numbers'
    BY <1>2, <2>1, <2>4, <2>5 DEF Numbers
  <2>7. ReadIsRecent'
    BY <2>1, <2>4 DEF ReadIsRecent
  <2>8. HasWatch'
    BY <1>2, <2>1, GotoMoves DEF HasWatch, Maps, Steps
  <2>9. Alarmed'
    <3>1. ~AboutToConfirm'
      BY <2>1, <2>4, <2>8 DEF AboutToConfirm, HasWatch
    <3>2. watch'.cause = cause[t]
      BY <1>2
    <3>3. CASE cause[t] = "flood"
      BY <2>1, <2>5, <3>1, <3>2, <3>3 DEF Claim, Alarmed, AlarmNeverForgotten
    <3>4. CASE cause[t] # "flood"
      <4>1. ~alarm /\ alarm' = alarm
        BY <1>2, <3>4 DEF Claim, Overrides, Alarmed, AlarmNeverForgotten
      <4> QED
        BY <4>1 DEF Alarmed, AlarmNeverForgotten
    <3> QED
      BY <3>3, <3>4
  <2> QED
    BY <2>2, <2>3, <2>6, <2>7, <2>8, <2>9
<1> QED
  BY <1>1, <1>2 DEF Claim

LEMMA Step == Typed /\ IInv /\ [Next]_vars => IInv'
<1> SUFFICES ASSUME Typed, IInv, [Next]_vars PROVE IInv'
  OBVIOUS
<1> USE DEF IInv
<1>p. Maps /\ Poller \in Tasks /\ DOMAIN seen = Tasks
  BY DEF Maps, Tasks
<1>s. {"ready", "ask", "observe", "drive", "read", "settle", "resend", "release"} \subseteq Steps
  BY DEF Steps
<1>g. ASSUME NEW step \in {"ready", "ask", "observe", "drive", "read", "settle", "resend", "release"},
             Goto(Poller, step)
      PROVE  pc' \in [Tasks -> Steps] /\ pc'[Poller] = step
  BY <1>p, <1>s, <1>g, GotoMoves
<1>1. ASSUME NEW t \in Tasks,
             \/ PushArrives(t) \/ ObserveSeen(t) \/ Act(t) \/ AppCloses(t) \/ AlarmRaised(t)
             \/ Mark(t) \/ SendStop(t) \/ TakeOpen(t) \/ SendStart(t) \/ Record(t)
             \/ \E open \in Opens : AppOpens(t, open)
      PROVE  IInv'
  BY <1>1, TasksStepAside, AsideKeeps
<1>2. CASE SyncConfig
  <2>1. Aside
    BY <1>2, <1>p, <1>g DEF SyncConfig, Aside, bounds, history
  <2> QED
    BY <2>1, AsideKeeps
<1>3. CASE Ask
  <2>1. pc' \in [Tasks -> Steps] /\ pc'[Poller] \notin {"read", "settle"} /\ DOMAIN seen' = Tasks
    BY <1>3, <1>p, <1>g DEF Ask
  <2>2. Aside
    BY <1>3, <2>1 DEF Ask, Aside, hubVars, bounds, history
  <2> QED
    BY <2>2, AsideKeeps
<1>4. CASE Drive
  <2>1. /\ pc' \in [Tasks -> Steps] /\ mine' = watch /\ pc'[Poller] # "settle"
        /\ pc'[Poller] = "read" => watch # NoClose
        /\ UNCHANGED <<watch, claims, seen, valve, wasShut, alarm>>
    BY <1>4, <1>g DEF Drive, hubVars, bounds, history
  <2>2. Numbers' /\ Maps'
    BY <2>1 DEF Numbers, Maps
  <2>3. WitnessHolds' /\ ReadIsRecent' /\ HasWatch' /\ Alarmed'
    BY <2>1 DEF WitnessHolds, ReadIsRecent, HasWatch, Alarmed, AlarmNeverForgotten, AboutToConfirm
  <2> QED
    BY <2>2, <2>3
<1>5. CASE ReadBack
  <2>1. /\ pc' \in [Tasks -> Steps] /\ UNCHANGED <<watch, mine, claims, valve, wasShut, alarm>>
        /\ mine # NoClose
    BY <1>5, <1>g DEF ReadBack, HasWatch, hubVars, bounds, history
  <2>2. DOMAIN seen' = Tasks
    BY <1>5, <1>p DEF ReadBack
  <2>3. seen'[Poller].watering \/ ~valve.open
    <3>1. PICK answered \in BOOLEAN :
            seen' = [seen EXCEPT ![Poller] =
                        [watering |-> valve.open \/ ~answered, volume |-> 0, remain |-> 0, lead |-> 0]]
      BY <1>5 DEF ReadBack
    <3>2. seen'[Poller] = [watering |-> valve.open \/ ~answered, volume |-> 0, remain |-> 0, lead |-> 0]
      BY <1>p, <3>1
    <3>3. seen'[Poller].watering = (valve.open \/ ~answered)
      BY <3>2
    <3> QED
      BY <3>3
  <2> QED
    BY <2>1, <2>2, <2>3 DEF Numbers, Maps, WitnessHolds, ReadIsRecent, HasWatch, Alarmed,
       AlarmNeverForgotten, AboutToConfirm
<1>6. CASE Settle
  <2>1. UNCHANGED <<valve, claims>> /\ DOMAIN seen' = Tasks
    BY <1>6, <1>p DEF Settle, bounds
  <2>2. pc' \in [Tasks -> Steps] /\ pc'[Poller] \notin {"read", "settle"}
    BY <1>6, <1>g DEF Settle, Lost, Confirmed, Wait, Reissue, GaveUp, EndPass
  <2>3. wasShut' = wasShut \/ wasShut' = ~valve.open
    BY <1>6 DEF Settle, Lost, Confirmed, Wait, Reissue, GaveUp
  <2>4. Numbers'
    <3>1. CASE Reissue
      <4>1. watch = mine /\ watch' = [mine EXCEPT !.attempts = @ + 1] /\ mine' = watch'
        BY <3>1 DEF Reissue
      <4>2. CASE mine # NoClose
        <5>1. DOMAIN watch' = DOMAIN mine /\ "number" \in DOMAIN mine
          BY <4>1, <4>2 DEF Numbers
        <5>2. watch'.number = mine.number
          BY <4>1, <5>1
        <5> QED
          BY <2>1, <4>1, <4>2, <5>1, <5>2 DEF Numbers
      <4> QED
        BY <1>6, <4>2 DEF Settle, HasWatch
    <3>2. CASE Lost \/ Confirmed \/ Wait \/ GaveUp
      BY <2>1, <3>2 DEF Lost, Confirmed, Wait, GaveUp, EndPass, Numbers
    <3> QED
      BY <1>6, <3>1, <3>2 DEF Settle
  <2>5. Alarmed'
    <3>1. pc[Poller] = "settle" /\ ~AboutToConfirm'
      BY <1>6, <2>2 DEF Settle, AboutToConfirm
    <3>2. CASE Lost \/ Wait
      BY <2>1, <3>1, <3>2 DEF Lost, Wait, Alarmed, AlarmNeverForgotten
    <3>3. CASE Confirmed
      BY <2>1, <3>1, <3>3 DEF Confirmed, AboutToConfirm, Alarmed, AlarmNeverForgotten
    <3>4. CASE Reissue
      <4>1. watch = mine /\ mine \in Slot /\ alarm' = alarm
        BY <3>1, <3>4 DEF Reissue, HasWatch, Typed, TypeOK
      <4>2. watch' \in Slot /\ watch'.cause = watch.cause
        BY <3>4, <4>1 DEF Reissue, Slot
      <4> QED
        BY <2>1, <3>1, <4>1, <4>2 DEF Alarmed, AlarmNeverForgotten
    <3>5. CASE GaveUp
      <4>1. ~alarm'
        BY <3>5 DEF GaveUp, Alarmed, AlarmNeverForgotten
      <4> QED
        BY <4>1 DEF Alarmed, AlarmNeverForgotten
    <3> QED
      BY <1>6, <3>2, <3>3, <3>4, <3>5 DEF Settle
  <2> QED
    BY <2>1, <2>2, <2>3, <2>4, <2>5 DEF Maps, WitnessHolds, ReadIsRecent, HasWatch
<1>7. CASE Resend
  <2>1. pc' \in [Tasks -> Steps] /\ pc'[Poller] = "ready" /\ mine' = NoClose
    BY <1>7, <1>g DEF Resend, EndPass
  <2>2. UNCHANGED <<watch, claims, seen>> /\ wasShut' = (wasShut \/ ~valve'.open)
        /\ (alarm' => alarm) /\ (alarm' => valve'.open)
    BY <1>7 DEF Resend, StopCommand, Witnessed, hubVars, bounds
  <2> QED
    BY <2>1, <2>2 DEF Numbers, Maps, WitnessHolds, ReadIsRecent, HasWatch, Alarmed,
       AlarmNeverForgotten, AboutToConfirm
<1>8. CASE Release
  <2>1. pc' \in [Tasks -> Steps] /\ pc'[Poller] = "ready" /\ mine' = NoClose
    BY <1>8, <1>g DEF Release, EndPass
  <2>2. UNCHANGED <<watch, claims, seen, valve, wasShut, alarm>>
    BY <1>8 DEF Release, bounds, history
  <2> QED
    BY <2>1, <2>2 DEF Numbers, Maps, WitnessHolds, ReadIsRecent, HasWatch, Alarmed,
       AlarmNeverForgotten, AboutToConfirm
<1>9. CASE TimerShuts \/ HandMoves \/ PlanChanges
  <2>1. Aside
    BY <1>9, <1>p DEF TimerShuts, HandMoves, PlanChanges, Aside, Maps, hubVars, taskVars, bounds,
       history
  <2> QED
    BY <2>1, AsideKeeps
<1>10. CASE Tick
  <2>1. UNCHANGED <<watch, mine, claims, pc, seen, wasShut, alarm>>
    BY <1>10 DEF Tick, hubVars, taskVars, bounds, history
  <2>2. valve'.open = valve.open
    BY <1>10 DEF Tick, Typed, TypeOK
  <2> QED
    BY <2>1, <2>2 DEF Numbers, Maps, WitnessHolds, ReadIsRecent, HasWatch, Alarmed,
       AlarmNeverForgotten, AboutToConfirm
<1>11. CASE Restart
  <2>1. pc' \in [Tasks -> Steps] /\ pc'[Poller] = "ready" /\ DOMAIN seen' = Tasks
    BY <1>11, <1>p DEF Restart, Steps
  <2> QED
    BY <1>11, <2>1 DEF Restart, Numbers, Maps, WitnessHolds, ReadIsRecent, HasWatch, Alarmed,
       AlarmNeverForgotten, AboutToConfirm
<1>12. CASE UNCHANGED vars
  BY <1>12 DEF vars, hubVars, taskVars, bounds, history, Numbers, Maps, WitnessHolds, ReadIsRecent,
     HasWatch, Alarmed, AlarmNeverForgotten, AboutToConfirm
<1>13. ASSUME NEW t \in Tasks, Claim(t) PROVE IInv'
  BY <1>13, ClaimKeeps DEF Claim, Typed, Holds
<1> QED
  BY <1>1, <1>13, <1>2, <1>3, <1>4, <1>5, <1>6, <1>7, <1>8, <1>9, <1>10, <1>11, <1>12 DEF Next

-----------------------------------------------------------------------------
(* Every step keeps the types *)

LEMMA TypedInit == Init => Typed
<1>1. Init => TypeOK
  <2> SUFFICES ASSUME Init PROVE TypeOK
    OBVIOUS
  <2>1. track \in Track
    BY TrackOps DEF Init
  <2>2. valve \in [open: BOOLEAN, until: Nat, volume: Nat]
    <3>1. valve = [open |-> FALSE, until |-> 0, volume |-> 0]
      BY DEF Init
    <3> QED
      BY <3>1
  <2>3. /\ pc \in [Tasks -> Steps] /\ seen \in [Tasks -> Reading \union {NoReading}]
        /\ cause \in [Tasks -> Causes \union {NoCause}]
        /\ order \in [Tasks -> Order \union {NoOpen}]
    BY DEF Init, Steps
  <2>4. watch = NoClose /\ mine = NoClose
    BY DEF Init
  <2>5. machine \in BOOLEAN /\ allowed \in BOOLEAN /\ wasShut \in BOOLEAN /\ alarm \in BOOLEAN
    BY DEF Init
  <2>6. now = 0 /\ claims = 0 /\ upsets = 0 /\ owed = 0
    BY DEF Init
  <2> QED
    BY <2>1, <2>2, <2>3, <2>4, <2>5, <2>6 DEF TypeOK
<1>2. Init => \A t \in Tasks : Holds(t)
  BY DEF Init, Holds
<1> QED
  BY <1>1, <1>2 DEF Typed

\* The same step by the rules by which a task goes on: what it holds after is what it is to use.
LEMMA OneFinishes ==
    ASSUME Typed, NEW t \in Tasks, Finish(t) \/ AfterClose(t),
           Changes(seen, seen', t, Reading \union {NoReading}),
           Changes(cause, cause', t, Causes \union {NoCause}),
           Changes(order, order', t, Order \union {NoOpen})
    PROVE  /\ pc' \in [Tasks -> Steps]
           /\ seen' \in [Tasks -> Reading \union {NoReading}]
           /\ cause' \in [Tasks -> Causes \union {NoCause}]
           /\ order' \in [Tasks -> Order \union {NoOpen}]
           /\ \A u \in Tasks : Holds(u)'
<1>1. PICK step \in {"drive", "done", "take"} : Goto(t, step)
  BY DEF Finish, AfterClose
<1>2. step \in Steps
  BY DEF Steps
<1> QED
  BY <1>1, <1>2, OneMoves

\* What a reading, an alarm or an app gives a task is of its type.
LEMMA ReadingTyped == TypeOK => ReadingOfValve \in Reading
BY DEF TypeOK, ReadingOfValve, Reading

\* The parts of TypeOK that are no task's.
Shared ==
    /\ machine \in BOOLEAN
    /\ track \in Track
    /\ watch \in Slot \union {NoClose}
    /\ allowed \in BOOLEAN
    /\ valve \in [open: BOOLEAN, until: Nat, volume: Nat]
    /\ now \in Nat
    /\ mine \in Slot \union {NoClose}
    /\ claims \in Nat /\ upsets \in Nat
    /\ wasShut \in BOOLEAN
    /\ alarm \in BOOLEAN
    /\ owed \in Int

LEMMA Together ==
    ASSUME Shared',
           pc' \in [Tasks -> Steps],
           seen' \in [Tasks -> Reading \union {NoReading}],
           cause' \in [Tasks -> Causes \union {NoCause}],
           order' \in [Tasks -> Order \union {NoOpen}],
           \A u \in Tasks : Holds(u)'
    PROVE  Typed'
BY DEF Shared, Typed, TypeOK

\* What is witnessed of a valve is of its type.
LEMMA WitnessTyped ==
    ASSUME Typed, Witnessed(valve'), valve' \in [open: BOOLEAN, until: Nat, volume: Nat]
    PROVE  wasShut' \in BOOLEAN /\ alarm' \in BOOLEAN
<1>1. valve'.open \in BOOLEAN /\ wasShut \in BOOLEAN /\ alarm \in BOOLEAN
  BY DEF Typed, TypeOK
<1> QED
  BY <1>1, Zenon DEF Witnessed

LEMMA ValveOps ==
    ASSUME Typed
    PROVE  /\ Shut \in [open: BOOLEAN, until: Nat, volume: Nat]
           /\ \A duration \in Nat : OpenFor(duration) \in [open: BOOLEAN, until: Nat, volume: Nat]
<1>1. valve \in [open: BOOLEAN, until: Nat, volume: Nat] /\ now \in Nat
  BY DEF Typed, TypeOK
<1>2. Shut \in [open: BOOLEAN, until: Nat, volume: Nat]
  BY <1>1 DEF Shut
<1>3. ASSUME NEW duration \in Nat PROVE OpenFor(duration) \in [open: BOOLEAN, until: Nat, volume: Nat]
  BY <1>1 DEF OpenFor
<1> QED
  BY <1>2, <1>3

\* The steps of one task.
LEMMA TaskTyped ==
    ASSUME Typed, NEW t \in Tasks,
           \/ PushArrives(t) \/ ObserveSeen(t) \/ Act(t) \/ AppCloses(t) \/ AlarmRaised(t)
           \/ Claim(t) \/ Mark(t) \/ SendStop(t) \/ TakeOpen(t) \/ SendStart(t) \/ Record(t)
           \/ \E open \in Opens : AppOpens(t, open)
    PROVE  Typed'
<1>t. TypeOK /\ Shared
  BY DEF Typed, TypeOK, Shared
<1>s. {"observe", "act", "claim", "mark", "stop", "take", "start", "record"} \subseteq Steps
  BY DEF Steps
<1>m. /\ UNCHANGED seen => Changes(seen, seen', t, Reading \union {NoReading})
      /\ UNCHANGED cause => Changes(cause, cause', t, Causes \union {NoCause})
      /\ UNCHANGED order => Changes(order, order', t, Order \union {NoOpen})
  BY DEF Changes
<1>n. /\ \A r \in Reading \union {NoReading} : seen' = [seen EXCEPT ![t] = r] =>
            Changes(seen, seen', t, Reading \union {NoReading}) /\ seen'[t] = r
      /\ \A c \in Causes \union {NoCause} : cause' = [cause EXCEPT ![t] = c] =>
            Changes(cause, cause', t, Causes \union {NoCause}) /\ cause'[t] = c
      /\ \A o \in Order \union {NoOpen} : order' = [order EXCEPT ![t] = o] =>
            Changes(order, order', t, Order \union {NoOpen}) /\ order'[t] = o
  BY <1>t DEF Changes, TypeOK
<1>u. UNCHANGED cause => cause'[t] = cause[t]
  OBVIOUS
<1> DEFINE Moved ==
      /\ pc' \in [Tasks -> Steps]
      /\ seen' \in [Tasks -> Reading \union {NoReading}]
      /\ cause' \in [Tasks -> Causes \union {NoCause}]
      /\ order' \in [Tasks -> Order \union {NoOpen}]
      /\ \A u \in Tasks : Holds(u)'
<1>q. Moved /\ Shared' => Typed'
  BY Together
<1>o. ASSUME NEW step \in {"act", "stop", "take"}, Goto(t, step),
             Changes(seen, seen', t, Reading \union {NoReading}),
             Changes(cause, cause', t, Causes \union {NoCause}),
             Changes(order, order', t, Order \union {NoOpen})
      PROVE  Moved
  BY <1>o, <1>s, OneMoves
<1>f. ASSUME Finish(t) \/ AfterClose(t),
             Changes(seen, seen', t, Reading \union {NoReading}),
             Changes(cause, cause', t, Causes \union {NoCause}),
             Changes(order, order', t, Order \union {NoOpen})
      PROVE  Moved
  BY <1>f, OneFinishes
<1> HIDE DEF Moved
<1>1. CASE PushArrives(t)
  <2>1. ReadingOfValve \in Reading
    BY <1>t, ReadingTyped
  <2>2. Moved
    BY <1>1, <1>m, <1>n, <1>s, <2>1, OneMoves DEF PushArrives, Moved
  <2> QED
    BY <1>1, <1>t, <1>q, <2>2 DEF PushArrives, Shared, hubVars, bounds, history
<1>2. CASE ObserveSeen(t)
  <2>1. seen[t] \in Reading
    BY <1>2 DEF ObserveSeen, Typed, Holds
  <2>2. Forgetting(Observe(track, now, 0, TheProfile, seen[t])) \in Track
    BY <1>t, <2>1, ObservedTrack, TrackOps DEF Shared
  <2>3. track' \in Track /\ owed' \in Int
    BY <1>2, <1>t, <2>2 DEF ObserveSeen, Shared
  <2>4. Changes(cause, cause', t, Causes \union {NoCause})
    BY <1>2, <1>n DEF ObserveSeen, Causes
  <2>5. Moved
    BY <1>2, <1>m, <1>n, <1>o, <2>4 DEF ObserveSeen
  <2> QED
    BY <1>2, <1>t, <1>q, <2>3, <2>5 DEF ObserveSeen, Shared, bounds
<1>3. CASE Act(t)
  <2>1. ASSUME machine /\ cause[t] # NoCause PROVE Moved
    <3>1. Goto(t, "claim") /\ UNCHANGED <<cause, seen, order>> /\ cause'[t] \in Causes
      BY <1>3, <1>t, <2>1 DEF Act, TypeOK
    <3>2. /\ Changes(seen, seen', t, Reading \union {NoReading})
          /\ Changes(cause, cause', t, Causes \union {NoCause})
          /\ Changes(order, order', t, Order \union {NoOpen})
      BY <3>1, <1>m
    <3> QED
      BY <3>1, <3>2, <1>s, OneMoves DEF Moved
  <2>2. ASSUME machine /\ cause[t] = NoCause PROVE Moved
    <3>1. Goto(t, "take") /\ UNCHANGED <<cause, seen, order>>
      BY <1>3, <2>2 DEF Act
    <3>2. /\ Changes(seen, seen', t, Reading \union {NoReading})
          /\ Changes(cause, cause', t, Causes \union {NoCause})
          /\ Changes(order, order', t, Order \union {NoOpen})
      BY <3>1, <1>m
    <3> QED
      BY <3>1, <3>2, <1>o
  <2>3. ASSUME ~machine PROVE Moved
    <3>1. Finish(t) /\ cause' = [cause EXCEPT ![t] = NoCause] /\ UNCHANGED <<seen, order>>
      BY <1>3, <2>3 DEF Act
    <3>2. /\ Changes(seen, seen', t, Reading \union {NoReading})
          /\ Changes(cause, cause', t, Causes \union {NoCause})
          /\ Changes(order, order', t, Order \union {NoOpen})
      BY <3>1, <1>m, <1>n
    <3> QED
      BY <3>1, <3>2, <1>f
  <2>4. Moved
    BY <2>1, <2>2, <2>3
  <2> QED
    BY <1>3, <1>t, <1>q, <2>4 DEF Act, Shared, hubVars, bounds, history
<1>4. CASE AppCloses(t)
  <2>1. "manual" \in Causes
    BY DEF Causes
  <2>2. Moved
    BY <1>4, <1>m, <1>n, <1>s, <2>1, OneMoves DEF AppCloses, Moved
  <2> QED
    BY <1>4, <1>t, <1>q, <2>2 DEF AppCloses, Shared, hubVars, bounds, history
<1>5. CASE AlarmRaised(t)
  <2>1. "flood" \in Causes
    BY DEF Causes
  <2>2. Moved
    BY <1>5, <1>m, <1>n, <1>s, <2>1, OneMoves DEF AlarmRaised, Moved
  <2> QED
    BY <1>5, <1>t, <1>q, <2>2 DEF AlarmRaised, Shared, hubVars, bounds, history
<1>6. CASE Claim(t)
  <2>1. cause[t] \in Causes
    BY <1>6 DEF Claim, Typed, Holds
  <2>2. alarm' \in BOOLEAN
    BY <1>6, <1>t DEF Claim, Shared
  <2>3. CASE watch # NoClose /\ ~Overrides(cause[t], watch.cause)
    <3>1. Moved
      BY <1>6, <1>m, <1>n, <1>f, <2>3 DEF Claim
    <3> QED
      BY <1>6, <1>t, <1>q, <2>2, <2>3, <3>1 DEF Claim, Shared
  <2>4. CASE ~(watch # NoClose /\ ~Overrides(cause[t], watch.cause))
    <3>1. Moved
      BY <1>6, <1>m, <1>u, <1>s, <2>1, <2>4, OneMoves DEF Claim, Moved
    <3>2. /\ claims \in Nat /\ claims' = claims + 1 /\ wasShut' = ~valve.open
          /\ watch' = [cause |-> cause[t], number |-> claims + 1, attempts |-> 1]
      BY <1>6, <1>t, <2>4 DEF Claim, Shared
    <3>3. watch' \in Slot /\ claims' \in Nat /\ wasShut' \in BOOLEAN
      BY <2>1, <3>2 DEF Slot
    <3> QED
      BY <1>6, <1>t, <1>q, <2>2, <2>4, <3>1, <3>3 DEF Claim, Shared
  <2> QED
    BY <2>3, <2>4
<1>7. CASE Mark(t)
  <2>1. cause[t] \in Causes
    BY <1>7 DEF Mark, Typed, Holds
  <2>2. track' \in Track
    BY <1>7, <1>t, <2>1, TrackOps DEF Mark, Shared
  <2>3. Moved
    BY <1>7, <1>m, <1>o DEF Mark
  <2> QED
    BY <1>7, <1>t, <1>q, <2>2, <2>3 DEF Mark, Shared, bounds, history
<1>8. CASE SendStop(t)
  <2>1. valve' \in [open: BOOLEAN, until: Nat, volume: Nat] /\ Witnessed(valve')
    BY <1>8, <1>t, ValveOps DEF SendStop, StopCommand, Shared
  <2>2. wasShut' \in BOOLEAN /\ alarm' \in BOOLEAN
    BY <2>1, WitnessTyped
  <2>3. Moved
    BY <1>8, <1>m, <1>n, <1>f DEF SendStop
  <2> QED
    BY <1>8, <1>t, <1>q, <2>1, <2>2, <2>3 DEF SendStop, Shared, hubVars, bounds
<1>9. CASE TakeOpen(t)
  <2>1. CASE machine /\ track.pending # NoOpen
    <3> DEFINE open == [mode |-> "normal", duration |-> track.pending.duration,
                        cap |-> track.pending.cap, resume |-> FALSE]
    <3>1. open \in Order
      BY <1>t, <2>1 DEF Shared, Track, Pending, Order, Modes
    <3>2. Goto(t, "start") /\ order' = [order EXCEPT ![t] = open] /\ UNCHANGED <<seen, cause>>
      BY <1>9, <2>1 DEF TakeOpen
    <3> HIDE DEF open
    <3>3. Moved
      BY <3>1, <3>2, <1>m, <1>n, <1>s, OneMoves DEF Moved
    <3>4. track' \in Track
      BY <1>9, <1>t, <2>1, TrackOps DEF TakeOpen, Shared
    <3> QED
      BY <1>9, <1>t, <1>q, <3>3, <3>4 DEF TakeOpen, Shared, bounds, history
  <2>2. CASE ~(machine /\ track.pending # NoOpen)
    <3>1. Moved
      BY <1>9, <1>m, <1>f, <2>2 DEF TakeOpen
    <3> QED
      BY <1>9, <1>t, <1>q, <2>2, <3>1 DEF TakeOpen, Shared, bounds, history
  <2> QED
    BY <2>1, <2>2
<1>10. CASE SendStart(t)
  <2>1. order[t] \in Order
    BY <1>10 DEF SendStart, Typed, Holds
  <2>2. valve' \in [open: BOOLEAN, until: Nat, volume: Nat] /\ Witnessed(valve')
    BY <1>10, <1>t, <2>1, ValveOps DEF SendStart, Shared, Order
  <2>3. wasShut' \in BOOLEAN /\ alarm' \in BOOLEAN
    BY <2>2, WitnessTyped
  <2>4. ASSUME Goto(t, "record"), UNCHANGED order PROVE Moved
    BY <1>10, <1>m, <1>s, <2>1, <2>4, OneMoves DEF SendStart, Moved
  <2>5. ASSUME Finish(t), order' = [order EXCEPT ![t] = NoOpen] PROVE Moved
    BY <1>10, <1>m, <1>n, <1>f, <2>5 DEF SendStart
  <2>6. Moved
    BY <1>10, <2>4, <2>5 DEF SendStart
  <2>7. owed' \in Int
    BY <1>10, <1>t DEF SendStart, Shared
  <2> QED
    BY <1>10, <1>t, <1>q, <2>2, <2>3, <2>6, <2>7 DEF SendStart, Shared, hubVars, bounds
<1>11. CASE Record(t)
  <2>1. order[t] \in Order
    BY <1>11 DEF Record, Typed, Holds
  <2>2. track' \in Track
    BY <1>11, <1>t, <2>1, TrackOps DEF Record, Shared
  <2>3. Moved
    BY <1>11, <1>m, <1>n, <1>f DEF Record
  <2> QED
    BY <1>11, <1>t, <1>q, <2>2, <2>3 DEF Record, Shared, bounds
<1>12. ASSUME NEW open \in Opens, AppOpens(t, open) PROVE Typed'
  <2>1. open \in Order
    OBVIOUS
  <2>2. Moved
    BY <1>12, <1>m, <1>n, <1>s, <2>1, OneMoves DEF AppOpens, Moved
  <2> QED
    BY <1>12, <1>t, <1>q, <2>2 DEF AppOpens, Shared, hubVars, bounds, history
<1> QED
  BY <1>1, <1>2, <1>3, <1>4, <1>5, <1>6, <1>7, <1>8, <1>9, <1>10, <1>11, <1>12

LEMMA TypedStep == Typed /\ HasWatch /\ [Next]_vars => Typed'
<1> SUFFICES ASSUME Typed, HasWatch, [Next]_vars PROVE Typed'
  OBVIOUS
<1>t. TypeOK /\ Shared /\ Poller \in Tasks
  BY DEF Typed, TypeOK, Shared, Tasks
<1> DEFINE Moved ==
      /\ pc' \in [Tasks -> Steps]
      /\ seen' \in [Tasks -> Reading \union {NoReading}]
      /\ cause' \in [Tasks -> Causes \union {NoCause}]
      /\ order' \in [Tasks -> Order \union {NoOpen}]
      /\ \A u \in Tasks : Holds(u)'
<1>q. Moved /\ Shared' => Typed'
  BY Together
<1>k. UNCHANGED <<pc, seen, cause, order>> => Moved
  BY DEF Typed, TypeOK, Holds
<1>p. ASSUME NEW step \in {"ready", "ask", "drive", "read", "settle", "resend", "release"},
             Goto(Poller, step), UNCHANGED <<cause, order>>,
             Changes(seen, seen', Poller, Reading \union {NoReading})
      PROVE  Moved
  <2>1. step \in Steps /\ step \notin {"observe", "claim", "mark", "start", "record"}
    BY DEF Steps
  <2>2. /\ Changes(cause, cause', Poller, Causes \union {NoCause})
        /\ Changes(order, order', Poller, Order \union {NoOpen})
    BY <1>p DEF Changes
  <2> QED
    BY <1>p, <1>t, <2>1, <2>2, OneMoves
<1>s. UNCHANGED seen => Changes(seen, seen', Poller, Reading \union {NoReading})
  BY DEF Changes
<1> HIDE DEF Moved
<1>1. CASE SyncConfig
  <2>1. Moved
    BY <1>1, <1>p, <1>s DEF SyncConfig
  <2>2. track' \in Track
    BY <1>1, <1>t, TrackOps DEF SyncConfig, Shared
  <2> QED
    BY <1>1, <1>t, <1>q, <2>1, <2>2 DEF SyncConfig, Shared, bounds, history
<1>2. CASE Ask
  <2>1. CASE seen' = [seen EXCEPT ![Poller] = ReadingOfValve] /\ Goto(Poller, "observe")
    <3>1. ReadingOfValve \in Reading
      BY <1>t, ReadingTyped
    <3>2. /\ Changes(seen, seen', Poller, Reading \union {NoReading})
          /\ Changes(cause, cause', Poller, Causes \union {NoCause})
          /\ Changes(order, order', Poller, Order \union {NoOpen})
          /\ seen'[Poller] \in Reading /\ "observe" \in Steps
      BY <1>2, <1>t, <2>1, <3>1 DEF Ask, Changes, TypeOK, Steps
    <3>3. Moved
      BY <1>t, <2>1, <3>2, OneMoves DEF Moved
    <3> QED
      BY <1>2, <1>t, <1>q, <3>3 DEF Ask, Shared, hubVars, bounds, history
  <2>2. CASE Goto(Poller, "drive") /\ UNCHANGED seen
    <3>1. Moved
      BY <1>2, <1>p, <1>s, <2>2 DEF Ask
    <3> QED
      BY <1>2, <1>t, <1>q, <3>1 DEF Ask, Shared, hubVars, bounds, history
  <2> QED
    BY <1>2, <2>1, <2>2 DEF Ask
<1>3. CASE Drive
  <2>1. Moved
    BY <1>3, <1>p, <1>s DEF Drive
  <2> QED
    BY <1>3, <1>t, <1>q, <2>1 DEF Drive, Shared, hubVars, bounds, history
<1>4. CASE ReadBack
  <2>1. PICK answered \in BOOLEAN :
          seen' = [seen EXCEPT ![Poller] =
                      [watering |-> valve.open \/ ~answered, volume |-> 0, remain |-> 0, lead |-> 0]]
    BY <1>4 DEF ReadBack
  <2>2. [watering |-> valve.open \/ ~answered, volume |-> 0, remain |-> 0, lead |-> 0] \in Reading
    BY <1>t DEF Shared, Reading
  <2>3. Changes(seen, seen', Poller, Reading \union {NoReading})
    BY <2>1, <2>2 DEF Changes
  <2>4. Moved
    BY <1>4, <1>p, <2>3 DEF ReadBack
  <2> QED
    BY <1>4, <1>t, <1>q, <2>4 DEF ReadBack, Shared, hubVars, bounds, history
<1>5. CASE Settle
  <2>1. Changes(seen, seen', Poller, Reading \union {NoReading})
    BY <1>5 DEF Settle, Changes
  <2>2. PICK step \in {"ready", "resend", "release"} : Goto(Poller, step)
    BY <1>5 DEF Settle, Lost, Confirmed, Wait, Reissue, GaveUp, EndPass
  <2>3. Moved
    BY <1>5, <1>p, <2>1, <2>2 DEF Settle
  <2>4. watch' \in Slot \union {NoClose} /\ mine' \in Slot \union {NoClose}
    <3>1. CASE Reissue
      <4>1. mine \in Slot
        BY <1>5, <1>t DEF Settle, HasWatch, Shared
      <4> QED
        BY <3>1, <4>1 DEF Reissue, Slot
    <3>2. CASE Lost \/ Confirmed \/ Wait \/ GaveUp
      BY <1>t, <3>2 DEF Lost, Confirmed, Wait, GaveUp, EndPass, Shared
    <3> QED
      BY <1>5, <3>1, <3>2 DEF Settle
  <2>5. wasShut' \in BOOLEAN /\ alarm' \in BOOLEAN
    <3>1. valve.open \in BOOLEAN /\ wasShut \in BOOLEAN /\ alarm \in BOOLEAN
      BY <1>t DEF Shared
    <3>2. wasShut' = wasShut \/ wasShut' = ~valve.open
      BY <1>5 DEF Settle, Lost, Confirmed, Wait, Reissue, GaveUp
    <3>3. alarm' = alarm \/ alarm' = (alarm /\ mine.cause # "flood")
      BY <1>5 DEF Settle, Lost, Confirmed, Wait, Reissue, GaveUp
    <3> QED
      BY <3>1, <3>2, <3>3, Zenon
  <2> QED
    BY <1>5, <1>t, <1>q, <2>3, <2>4, <2>5 DEF Settle, Shared, bounds
<1>6. CASE Resend
  <2>1. Moved
    BY <1>6, <1>p, <1>s DEF Resend, EndPass
  <2>2. valve' \in [open: BOOLEAN, until: Nat, volume: Nat] /\ Witnessed(valve')
    BY <1>6, <1>t, ValveOps DEF Resend, StopCommand, Shared
  <2>3. wasShut' \in BOOLEAN /\ alarm' \in BOOLEAN
    BY <2>2, WitnessTyped
  <2> QED
    BY <1>6, <1>t, <1>q, <2>1, <2>2, <2>3 DEF Resend, EndPass, Shared, hubVars, bounds
<1>7. CASE Release
  <2>1. Moved
    BY <1>7, <1>p, <1>s DEF Release, EndPass
  <2>2. track' \in Track
    BY <1>7, <1>t, TrackOps DEF Release, Shared
  <2> QED
    BY <1>7, <1>t, <1>q, <2>1, <2>2 DEF Release, EndPass, Shared, bounds, history
<1>8. CASE TimerShuts \/ HandMoves
  <2>1. Moved
    BY <1>8, <1>k DEF TimerShuts, HandMoves, taskVars
  <2>2. TheProfile.duration \in Nat
    BY DEF Profile
  <2>3. valve' \in [open: BOOLEAN, until: Nat, volume: Nat] /\ Witnessed(valve')
    BY <1>8, <2>2, ValveOps DEF TimerShuts, HandMoves
  <2>4. wasShut' \in BOOLEAN /\ alarm' \in BOOLEAN
    BY <2>3, WitnessTyped
  <2> QED
    BY <1>8, <1>t, <1>q, <2>1, <2>3, <2>4 DEF TimerShuts, HandMoves, Shared, hubVars, taskVars, bounds
<1>9. CASE Tick
  <2>1. Moved
    BY <1>9, <1>k DEF Tick, taskVars
  <2>2. valve' \in [open: BOOLEAN, until: Nat, volume: Nat]
    <3>1. valve' = valve \/ valve' = [valve EXCEPT !.volume = @ + 1]
      BY <1>9 DEF Tick
    <3> QED
      BY <1>t, <3>1 DEF Shared
  <2> QED
    BY <1>9, <1>t, <1>q, <2>1, <2>2 DEF Tick, Shared, hubVars, taskVars, bounds, history
<1>10. CASE PlanChanges
  <2>1. Moved
    BY <1>10, <1>k DEF PlanChanges, taskVars
  <2> QED
    BY <1>10, <1>t, <1>q, <2>1 DEF PlanChanges, Shared, taskVars, history
<1>11. CASE Restart
  <2>1. /\ pc' \in [Tasks -> {"ready", "done"}]
        /\ seen' \in [Tasks -> Reading \union {NoReading}]
        /\ cause' \in [Tasks -> Causes \union {NoCause}]
        /\ order' \in [Tasks -> Order \union {NoOpen}]
    BY <1>11 DEF Restart
  <2>2. pc' \in [Tasks -> Steps] /\ \A u \in Tasks : pc'[u] \in {"ready", "done"}
    BY <2>1 DEF Steps
  <2>3. \A u \in Tasks : Holds(u)'
    BY <2>2 DEF Holds
  <2>4. Moved
    BY <2>1, <2>2, <2>3 DEF Moved
  <2> QED
    <3>1. machine' \in BOOLEAN /\ alarm' \in BOOLEAN
      BY <1>11 DEF Restart
    <3>2. track' \in Track /\ owed' \in Int /\ upsets' \in Nat /\ watch' = NoClose /\ mine' = NoClose
      BY <1>11, <1>t, TrackOps DEF Restart, Shared
    <3>3. UNCHANGED <<allowed, valve, now, claims, wasShut>>
      BY <1>11 DEF Restart
    <3> QED
      BY <1>t, <1>q, <2>4, <3>1, <3>2, <3>3 DEF Shared
<1>12. CASE UNCHANGED vars
  <2>1. Moved
    BY <1>12, <1>k DEF vars, taskVars
  <2> QED
    BY <1>12, <1>t, <1>q, <2>1 DEF vars, Shared, hubVars, taskVars, bounds, history
<1>13. ASSUME NEW t \in Tasks,
              \/ PushArrives(t) \/ ObserveSeen(t) \/ Act(t) \/ AppCloses(t) \/ AlarmRaised(t)
              \/ Claim(t) \/ Mark(t) \/ SendStop(t) \/ TakeOpen(t) \/ SendStart(t) \/ Record(t)
              \/ \E open \in Opens : AppOpens(t, open)
       PROVE  Typed'
  BY <1>13, TaskTyped
<1> QED
  BY <1>1, <1>2, <1>3, <1>4, <1>5, <1>6, <1>7, <1>8, <1>9, <1>10, <1>11, <1>12, <1>13 DEF Next

-----------------------------------------------------------------------------
(* The reopens: each is owed once, and taken once *)

\* The reopens taken and not sent yet.
Starting == {t \in Readers : pc[t] = "start"}

\* What is owed covers the reopens taken and the one the track holds.
OwedCovers ==
    /\ IsFiniteSet(Starting)
    /\ owed >= Cardinality(Starting) + (IF track.pending = NoOpen THEN 0 ELSE 1)

\* The calls that owe no reopen.
LEMMA Pendings ==
    /\ NewTrack.pending = NoOpen
    /\ \A old \in Track :
          /\ NoteStopAbandoned(old).pending = old.pending
          /\ TakePendingOpen(old).pending = NoOpen
          /\ \A why : NoteStop(old, EndReasonOf(why)).pending = old.pending
          /\ \A at, open : NoteHubOpen(old, at, open.mode, open.duration, open.cap, open.resume).pending
                            = old.pending
<1>1. NewTrack.pending = NoOpen
  BY DEF NewTrack
<1>2. ASSUME NEW old \in Track PROVE NoteStopAbandoned(old).pending = old.pending
  BY DEF NoteStopAbandoned, Track
<1>3. ASSUME NEW old \in Track PROVE TakePendingOpen(old).pending = NoOpen
  BY DEF TakePendingOpen, Track
<1>4. ASSUME NEW old \in Track, NEW why PROVE NoteStop(old, EndReasonOf(why)).pending = old.pending
  BY DEF NoteStop, Track
<1>5. ASSUME NEW old \in Track, NEW at, NEW open
      PROVE  NoteHubOpen(old, at, open.mode, open.duration, open.cap, open.resume).pending = old.pending
  BY DEF NoteHubOpen, Track
<1> QED
  BY <1>1, <1>2, <1>3, <1>4, <1>5

LEMMA OwedAside ==
    ASSUME Typed, OwedCovers, Starting' = Starting, owed' = owed,
           track'.pending \in {track.pending, NoOpen}
    PROVE  OwedCovers'
<1>1. Cardinality(Starting) \in Nat /\ owed \in Int
  BY FS_CardinalityType DEF OwedCovers, Typed, TypeOK
<1> QED
  BY <1>1 DEF OwedCovers

\* A task that neither comes to a start nor leaves one.
LEMMA SameStarting ==
    ASSUME Typed, NEW t \in Tasks, NEW step, Goto(t, step),
           t \notin Readers \/ (pc[t] # "start" /\ step # "start")
    PROVE  Starting' = Starting
<1>1. pc \in [Tasks -> Steps] /\ Readers \subseteq Tasks
  BY DEF Typed, TypeOK, Tasks, Readers
<1>2. ASSUME NEW u \in Readers PROVE pc'[u] = "start" <=> pc[u] = "start"
  BY <1>1 DEF Goto
<1> QED
  BY <1>2 DEF Starting

LEMMA SameStartingAfter ==
    ASSUME Typed, NEW t \in Tasks, Finish(t) \/ AfterClose(t),
           t \notin Readers \/ pc[t] # "start"
    PROVE  Starting' = Starting
<1>1. PICK step \in {"drive", "done", "take"} : Goto(t, step)
  BY DEF Finish, AfterClose
<1> QED
  BY <1>1, SameStarting

LEMMA OwedStep == Typed /\ OwedCovers /\ [Next]_vars => OwedCovers'
<1> SUFFICES ASSUME Typed, OwedCovers, [Next]_vars PROVE OwedCovers'
  OBVIOUS
<1>t. /\ track \in Track /\ owed \in Int /\ Poller \in Tasks
      /\ pc \in [Tasks -> Steps]
      /\ Readers \subseteq Tasks
      /\ IsFiniteSet(Starting) /\ Cardinality(Starting) \in Nat
      /\ owed >= Cardinality(Starting) + (IF track.pending = NoOpen THEN 0 ELSE 1)
  BY FS_CardinalityType DEF Typed, TypeOK, Tasks, Readers, OwedCovers
<1> DEFINE Kept == owed' = owed /\ track'.pending \in {track.pending, NoOpen}
<1>q. Kept /\ Starting' = Starting => OwedCovers'
  BY OwedAside
<1>u. UNCHANGED pc => Starting' = Starting
  BY DEF Starting
<1>1. ASSUME NEW t \in Tasks, Goto(t, "observe") \/ Goto(t, "claim") \/ Goto(t, "act") \/ Goto(t, "stop")
             \/ Goto(t, "mark") \/ Goto(t, "take") \/ Finish(t) \/ AfterClose(t),
             pc[t] # "start"
      PROVE  Starting' = Starting
  BY <1>1, SameStarting, SameStartingAfter
<1>2. ASSUME NEW t \in Tasks,
             PushArrives(t) \/ AppCloses(t) \/ AlarmRaised(t) \/ Act(t) \/ Claim(t) \/ SendStop(t)
      PROVE  OwedCovers'
  <2>1. Starting' = Starting
    BY <1>1, <1>2 DEF PushArrives, AppCloses, AlarmRaised, Act, Claim, SendStop
  <2>2. Kept
    BY <1>2 DEF PushArrives, AppCloses, AlarmRaised, Act, Claim, SendStop, hubVars, history
  <2> QED
    BY <1>q, <2>1, <2>2
<1>3. ASSUME NEW t \in Tasks, ObserveSeen(t) PROVE OwedCovers'
  <2>1. Starting' = Starting
    BY <1>1, <1>3 DEF ObserveSeen
  <2>2. owed' = IF track'.pending # NoOpen /\ track'.pending # track.pending THEN owed + 1 ELSE owed
    BY <1>3 DEF ObserveSeen
  <2> QED
    BY <1>t, <2>1, <2>2 DEF OwedCovers
<1>4. ASSUME NEW t \in Tasks, Mark(t) PROVE OwedCovers'
  <2>1. Starting' = Starting
    BY <1>1, <1>4 DEF Mark
  <2>2. Kept
    BY <1>4, <1>t, Pendings DEF Mark, history
  <2> QED
    BY <1>q, <2>1, <2>2
<1>5. ASSUME NEW t \in Tasks, TakeOpen(t) PROVE OwedCovers'
  <2>0. owed' = owed /\ pc[t] = "take"
    BY <1>5 DEF TakeOpen, history
  <2>1. CASE machine /\ track.pending # NoOpen
    <3>1. track'.pending = NoOpen /\ Goto(t, "start")
      BY <1>5, <1>t, <2>1, Pendings DEF TakeOpen
    <3>2. CASE t \in Readers
      <4>1. t \notin Starting /\ Starting' = Starting \union {t}
        BY <1>t, <2>0, <3>1, <3>2 DEF Starting, Goto
      <4>2. IsFiniteSet(Starting') /\ Cardinality(Starting') = Cardinality(Starting) + 1
        BY <1>t, <4>1, FS_AddElement
      <4> QED
        BY <1>t, <2>0, <2>1, <3>1, <4>2 DEF OwedCovers
    <3>3. CASE t \notin Readers
      <4>1. Starting' = Starting
        BY <3>1, <3>3, SameStarting
      <4> QED
        BY <1>q, <2>0, <3>1, <4>1
    <3> QED
      BY <3>2, <3>3
  <2>2. CASE ~(machine /\ track.pending # NoOpen)
    <3>1. Finish(t) /\ track' = track
      BY <1>5, <2>2 DEF TakeOpen
    <3>2. Starting' = Starting
      BY <2>0, <3>1, SameStartingAfter
    <3> QED
      BY <1>q, <2>0, <3>1, <3>2
  <2> QED
    BY <2>1, <2>2
<1>6. ASSUME NEW t \in Tasks, NEW open \in Opens, AppOpens(t, open) PROVE OwedCovers'
  <2>1. t \notin Readers
    BY <1>6 DEF AppOpens, Readers
  <2>2. Starting' = Starting
    BY <1>6, <2>1, SameStarting DEF AppOpens
  <2>3. Kept
    BY <1>6 DEF AppOpens, hubVars, history
  <2> QED
    BY <1>q, <2>2, <2>3
<1>7. ASSUME NEW t \in Tasks, SendStart(t) PROVE OwedCovers'
  <2>1. PICK step \in {"record", "drive", "done"} : Goto(t, step)
    BY <1>7 DEF SendStart, Finish
  <2>2. pc[t] = "start" /\ track' = track /\ owed' = IF t \in Readers THEN owed - 1 ELSE owed
    BY <1>7 DEF SendStart, hubVars
  <2>3. CASE t \in Readers
    <3>1. t \in Starting /\ Starting' = Starting \ {t}
      BY <1>t, <2>1, <2>2, <2>3 DEF Starting, Goto
    <3>2. IsFiniteSet(Starting') /\ Cardinality(Starting') = Cardinality(Starting) - 1
      BY <1>t, <3>1, FS_RemoveElement
    <3> QED
      BY <1>t, <2>2, <2>3, <3>2 DEF OwedCovers
  <2>4. CASE t \notin Readers
    <3>1. Starting' = Starting
      BY <2>1, <2>4, SameStarting
    <3> QED
      BY <1>q, <2>2, <2>4, <3>1
  <2> QED
    BY <2>3, <2>4
<1>8. ASSUME NEW t \in Tasks, Record(t) PROVE OwedCovers'
  <2>1. Starting' = Starting
    BY <1>1, <1>8 DEF Record
  <2>2. Kept
    BY <1>8, <1>t, Pendings DEF Record
  <2> QED
    BY <1>q, <2>1, <2>2
<1>p. ASSUME NEW step \in {"ready", "ask", "observe", "drive", "read", "settle", "resend", "release"},
             Goto(Poller, step), pc[Poller] # "start"
      PROVE  Starting' = Starting
  BY <1>p, <1>t, SameStarting
<1>9. CASE SyncConfig
  <2>1. Starting' = Starting
    BY <1>9, <1>p DEF SyncConfig
  <2>2. Kept
    BY <1>9, Pendings DEF SyncConfig, history
  <2> QED
    BY <1>q, <2>1, <2>2
<1>10. CASE Ask \/ Drive \/ ReadBack \/ Settle \/ Resend
  <2>1. Starting' = Starting
    BY <1>10, <1>p DEF Ask, Drive, ReadBack, Settle, Lost, Confirmed, Wait, Reissue, GaveUp, Resend, EndPass
  <2>2. Kept
    BY <1>10 DEF Ask, Drive, ReadBack, Settle, Resend, hubVars, history
  <2> QED
    BY <1>q, <2>1, <2>2
<1>11. CASE Release
  <2>1. Starting' = Starting
    BY <1>11, <1>p DEF Release, EndPass
  <2>2. Kept
    BY <1>11, <1>t, Pendings DEF Release, history
  <2> QED
    BY <1>q, <2>1, <2>2
<1>12. CASE TimerShuts \/ HandMoves \/ Tick \/ PlanChanges \/ UNCHANGED vars
  <2>1. UNCHANGED pc /\ Kept
    BY <1>12 DEF TimerShuts, HandMoves, Tick, PlanChanges, vars, hubVars, taskVars, history
  <2> QED
    BY <1>q, <1>u, <2>1
<1>13. CASE Restart
  <2>1. Starting' = {}
    BY <1>13, <1>t DEF Restart, Starting
  <2>2. IsFiniteSet({}) /\ Cardinality({}) = 0
    BY FS_EmptySet
  <2>3. owed' = 0 /\ track'.pending = NoOpen
    BY <1>13, Pendings DEF Restart
  <2> QED
    BY <2>1, <2>2, <2>3 DEF OwedCovers
<1> QED
  BY <1>2, <1>3, <1>4, <1>5, <1>6, <1>7, <1>8, <1>9, <1>10, <1>11, <1>12, <1>13 DEF Next

-----------------------------------------------------------------------------
(* Together *)

AllInv == Typed /\ IInv /\ OwedCovers

LEMMA AllInvariant == Spec => []AllInv
<1>1. Init => AllInv
  <2> SUFFICES ASSUME Init PROVE OwedCovers
    BY Initially, TypedInit DEF AllInv
  <2>1. Starting = {}
    BY DEF Init, Starting, Readers, Tasks
  <2>2. owed = 0 /\ track.pending = NoOpen
    BY Pendings DEF Init
  <2> QED
    BY <2>1, <2>2, FS_EmptySet DEF OwedCovers
<1>2. AllInv /\ [Next]_vars => AllInv'
  BY Step, TypedStep, OwedStep DEF AllInv, IInv
<1> QED
  BY <1>1, <1>2, PTL DEF Spec

\* No alarm is forgotten, however many come and whatever they cut into, and a reopen that becomes
\* owed is sent at most once (linktap_flood_stop_all, claim_close, drive_closes, linktap_act).
THEOREM AlarmsAndReopens == Spec => []ValveHubInv
<1>1. AllInv => ValveHubInv
  <2> SUFFICES ASSUME AllInv PROVE ValveHubInv
    OBVIOUS
  <2>1. ReopenedOnce
    BY FS_CardinalityType DEF AllInv, OwedCovers, ReopenedOnce, Typed, TypeOK
  <2> QED
    BY <2>1 DEF AllInv, Typed, IInv, Alarmed, ValveHubInv
<1> QED
  BY <1>1, AllInvariant, PTL

\* A close is confirmed only if the valve has been shut since its latest attempt, however the
\* tasks interleave and however many there are (drive_closes, settle_close, claim_close).
THEOREM ConfirmedIsShut == Spec => ConfirmedMeansShut
<1>1. ASSUME IInv, Settle, watch # NoClose, watch' = NoClose, pc'[Poller] = "ready"
      PROVE  wasShut
  <2>1. pc \in [Tasks -> Steps] /\ Poller \in Tasks
    BY <1>1 DEF IInv, Maps, Tasks
  <2>2. ~Lost /\ ~Wait
    BY <1>1 DEF Lost, Wait
  <2>3. CASE Confirmed
    BY <1>1, <2>3 DEF Settle, Confirmed, IInv, ReadIsRecent
  <2>4. CASE Reissue \/ GaveUp
    BY <1>1, <2>1, <2>4 DEF Reissue, GaveUp, Goto
  <2> QED
    BY <1>1, <2>2, <2>3, <2>4 DEF Settle
<1>2. AllInv /\ [Next]_vars
      => [Settle /\ watch # NoClose /\ watch' = NoClose /\ pc'[Poller] = "ready" => wasShut]_vars
  BY <1>1 DEF AllInv
<1> QED
  BY <1>2, AllInvariant, PTL DEF Spec, ConfirmedMeansShut
====
