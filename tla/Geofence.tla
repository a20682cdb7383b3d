------------------------------- MODULE Geofence -------------------------------
(***************************************************************************)
(* One GPS device's geofence (daemon/src/geofence.rs): every sample        *)
(* (gps_observe in hub_server.rs) is held against the armed watch, an      *)
(* anchor circle with its warn ring and a security zone, and against the   *)
(* place the cloud last heard; what comes out is the alarms to raise and   *)
(* whether the position goes to the cloud.  Places lie on a line whose     *)
(* origin is the centre of the watch.  Time is in sample intervals.        *)
(***************************************************************************)
EXTENDS Naturals

CONSTANTS
    Places,         \* 0 is the centre
    Accuracies,     \* acc of a fix
    Anchor,         \* radius_m of the anchor circle
    Warn,           \* warn_m
    Zone,           \* radius_m of the security zone
    AnchorStreak,   \* ANCHOR_STREAK
    ZoneStreak,     \* zoneStreak
    EnterStreak,    \* UNDERWAY_ENTER_STREAK
    EnterMove,      \* UNDERWAY_ENTER_MOVE_M
    ExitNet,        \* UNDERWAY_EXIT_NET_M
    ExitAfter,      \* UNDERWAY_EXIT_MS
    Deadband,       \* UNARMED_DEADBAND_M
    SendEvery,      \* UNDERWAY_SEND_SECS
    MaxGap,         \* bound: the time between two samples
    MaxSig          \* bound: watches armed

ASSUME GeofenceAssumption ==
    /\ Places \subseteq Nat /\ Accuracies \subseteq Nat
    /\ {Anchor, Warn, Zone, EnterMove, ExitNet, Deadband, MaxSig} \subseteq Nat
    /\ {AnchorStreak, ZoneStreak, EnterStreak, ExitAfter, SendEvery, MaxGap} \subseteq Nat \ {0}

VARIABLES
    watch,      \* Telemetry.watch
    fence,      \* final_fix_owed, and watches armed so far
    rings,      \* the streak of each ring, and whether it alerted
    trip,       \* underway, enter_streak and slow_since
    track,      \* the time since underway_sent_ms, SendEvery when it is None
    lastSent,   \* last_sent
    fix,        \* gps_latest
    seen        \* history: what an observer counts of the samples

vars == <<watch, fence, rings, trip, track, lastSent, fix, seen>>

Rings == {"anchor", "warn", "zone"}
Speeds == {"fast", "drifting", "slow"}
None == [sig |-> 0, anchor |-> FALSE, zone |-> FALSE]
Nowhere == [known |-> FALSE, at |-> 0]
At(p) == [known |-> TRUE, at |-> p]

Gap(p, q) == IF p > q THEN p - q ELSE q - p
Cap(n, top) == IF n > top THEN top ELSE n

Unlatched == [r \in Rings |-> [streak |-> 0, alerted |-> FALSE]]
Moored == [underway |-> FALSE, enter |-> 0, slow |-> Nowhere, slowFor |-> 0]
Uncounted == [r \in Rings |-> [run |-> 0, raised |-> 0]]

Init ==
    /\ watch = None
    /\ fence = [owed |-> FALSE, armed |-> 0]
    /\ rings = Unlatched
    /\ trip = Moored /\ track = SendEvery
    /\ lastSent = Nowhere
    /\ fix = [known |-> FALSE, at |-> 0, acc |-> 0]
    /\ seen = [count |-> Uncounted, unsent |-> 0]

-----------------------------------------------------------------------------
(* The watch *)

Reset == Unlatched

\* apply_watch_reply: a reply arms another watch or disarms, and Geofence::sync_watch begins a
\* new episode; a disarm owes the cloud a final fix.
WatchChanges ==
    /\ \E anchor, zone \in BOOLEAN :
        LET sig == IF anchor \/ zone THEN fence.armed + 1 ELSE 0 IN
        /\ sig # watch.sig /\ sig <= MaxSig
        /\ watch' = [sig |-> sig, anchor |-> anchor, zone |-> zone]
        /\ fence' = [owed |-> fence.owed \/ sig = 0, armed |-> IF sig = 0 THEN fence.armed ELSE sig]
    /\ rings' = Reset
    /\ seen' = [seen EXCEPT !.count = Uncounted]
    /\ UNCHANGED <<trip, track, lastSent, fix>>

-----------------------------------------------------------------------------
(* Geofence::observe.  A sample: its place, accuracy and speed, and whether it is unreliable. *)

Samples == [at: Places, acc: Accuracies, speed: Speeds, bad: BOOLEAN]

Needed(r) == IF r = "zone" THEN ZoneStreak ELSE AnchorStreak
Radius(r) == CASE r = "anchor" -> Anchor [] r = "warn" -> Warn [] r = "zone" -> Zone
Outside(r, s) == s.at > Radius(r) + s.acc

\* The rings a reliable sample is held against: the warn ring only while the anchor ring holds.
Held(r, s) ==
    /\ ~s.bad
    /\ CASE r = "zone" -> watch.zone
         [] r = "anchor" -> watch.anchor
         [] r = "warn" -> watch.anchor /\ Warn > 0 /\ ~Outside("anchor", s)

\* Mutant: the alert is not latched.
LatchedNot(ring, r, s) ==
    LET n == IF Outside(r, s) THEN ring.streak + 1 ELSE 0 IN
    [streak |-> Cap(n, Needed(r)), alerted |-> ~ring.alerted /\ n >= Needed(r)]

\* A ring after a reliable sample.
Latched(ring, r, s) ==
    LET n == IF Outside(r, s) THEN ring.streak + 1 ELSE 0 IN
    [streak |-> Cap(n, Needed(r)), alerted |-> Outside(r, s) /\ (ring.alerted \/ n >= Needed(r))]

Moved(s, by) == lastSent.known /\ Gap(lastSent.at, s.at) >= by

\* A reliable sample alone starts a trip: fast, or far from the place last sent, EnterStreak times
\* running.
Entered(s) ==
    LET n == IF s.speed = "fast" \/ Moved(s, EnterMove) THEN trip.enter + 1 ELSE 0 IN
    IF n >= EnterStreak THEN [Moored EXCEPT !.underway = TRUE] ELSE [Moored EXCEPT !.enter = n]

\* And ends it: slow and within ExitNet of one place for ExitAfter.
Left(s, gap) ==
    LET near == trip.slow.known /\ Gap(trip.slow.at, s.at) < ExitNet
        slowFor == Cap(trip.slowFor + gap, ExitAfter) IN
    IF s.speed # "slow" THEN [trip EXCEPT !.slow = Nowhere, !.slowFor = 0]
    ELSE IF ~near THEN [trip EXCEPT !.slow = At(s.at), !.slowFor = 0]
    ELSE IF slowFor >= ExitAfter THEN Moored
    ELSE [trip EXCEPT !.slowFor = slowFor]

Stepped(s, gap) ==
    IF s.bad THEN [trip EXCEPT !.enter = 0, !.slow = Nowhere, !.slowFor = 0]
    ELSE IF trip.underway THEN Left(s, gap) ELSE Entered(s)

\* Mutant: a clock that is None is not due.
DueOnce(aged) == track < SendEvery /\ aged >= SendEvery

\* The track of a trip is due.
Due(aged) == aged >= SendEvery

\* The rule with no anchor watch: past the deadband, and past what the accuracy explains.
Adrift(s) == ~lastSent.known \/ (Moved(s, Deadband) /\ Gap(lastSent.at, s.at) > 2 * s.acc)

\* One sample (gps_observe).  The clock of the track restarts only where the trip's own rule sent.
Sample ==
    \E s \in Samples, gap \in 1..MaxGap, leased \in BOOLEAN :
        LET new == [r \in Rings |-> IF Held(r, s) THEN Latched(rings[r], r, s) ELSE rings[r]]
            trip1 == Stepped(s, gap)
            turned == trip1.underway # trip.underway
            aged == Cap(track + gap, SendEvery)
            breach == watch.anchor /\ new["anchor"].streak >= AnchorStreak
            own == ~leased /\ ~fence.owed
            sent == \/ leased \/ fence.owed \/ turned
                    \/ trip1.underway /\ (Due(aged) \/ breach)
                    \/ ~trip1.underway /\ IF watch.anchor THEN breach ELSE Adrift(s) IN
        /\ rings' = new
        /\ trip' = trip1
        /\ track' = IF own /\ turned THEN (IF trip1.underway THEN 0 ELSE SendEvery)
                    ELSE IF own /\ trip1.underway /\ Due(aged) THEN 0 ELSE aged
        /\ fence' = [fence EXCEPT !.owed = @ /\ leased]
        /\ lastSent' = IF sent THEN At(s.at) ELSE lastSent
        /\ fix' = [known |-> TRUE, at |-> s.at, acc |-> s.acc]
        /\ seen' = [count |-> [r \in Rings |->
                       IF ~Held(r, s) THEN seen.count[r]
                       ELSE IF ~Outside(r, s) THEN [run |-> 0, raised |-> 0]
                       ELSE [run |-> Cap(seen.count[r].run + 1, Needed(r)),
                             raised |-> Cap(seen.count[r].raised
                                            + (IF new[r].alerted /\ ~rings[r].alerted THEN 1 ELSE 0), 2)]],
                    unsent |-> IF sent THEN 0 ELSE Cap(seen.unsent + gap, SendEvery)]
        /\ UNCHANGED watch

\* A keyframe that carries the newest fix is delivered (keyframe_carries_fix, apply_sent_marks); a
\* member may be watching.
KeyframeMark ==
    /\ fix.known
    /\ lastSent' = At(fix.at)
    /\ seen' = [seen EXCEPT !.unsent = 0]
    /\ UNCHANGED <<watch, fence, rings, trip, track, fix>>

Next == WatchChanges \/ Sample \/ KeyframeMark

Spec == Init /\ [][Next]_vars

-----------------------------------------------------------------------------
(* Properties *)

\* Every variable has its type.
TypeOK ==
    /\ watch \in [sig: 0..MaxSig, anchor: BOOLEAN, zone: BOOLEAN]
    /\ fence \in [owed: BOOLEAN, armed: 0..MaxSig]
    /\ \A r \in Rings : rings[r] \in [streak: 0..Needed(r), alerted: BOOLEAN]
    /\ trip \in [underway: BOOLEAN, enter: 0..(EnterStreak - 1), slow: [known: BOOLEAN, at: Places \cup {0}],
                 slowFor: 0..ExitAfter]
    /\ track \in 0..SendEvery
    /\ lastSent \in [known: BOOLEAN, at: Places \cup {0}]
    /\ fix \in [known: BOOLEAN, at: Places \cup {0}, acc: Accuracies \cup {0}]

\* "one event per episode, recovery inside clears the latch" (geofence.rs): a ring has raised its
\* alarm once when the streak of samples outside it is complete, and never before or again, over
\* unreliable samples, a boat that swings back, and watches armed one after another.
AlarmOncePerEpisode ==
    \A r \in Rings : seen.count[r].raised = (IF seen.count[r].run >= Needed(r) THEN 1 ELSE 0)

\* The fence's state is of its type, and its alarms are one per episode.
GeofenceInv == TypeOK /\ AlarmOncePerEpisode

\* The place the cloud was sent is as fresh as the regime promises, after every sample: the fix
\* itself while a drag is confirmed; within SendEvery on a trip; and where nothing is watched or
\* under way, no further than the deadband or what the accuracy explains (the rules of a send at
\* the top of geofence.rs).
CloudKnowsPlace ==
    [][watch' = watch =>
         /\ watch.anchor /\ rings'["anchor"].streak >= AnchorStreak => lastSent' = At(fix'.at)
         /\ trip'.underway => seen'.unsent < SendEvery
         /\ ~watch.anchor /\ ~trip'.underway =>
              /\ lastSent'.known
              /\ Gap(lastSent'.at, fix'.at) < Deadband \/ Gap(lastSent'.at, fix'.at) <= 2 * fix'.acc]_vars

=============================================================================
