----------------------------- MODULE BoatProofs -----------------------------
(***************************************************************************)
(* Proofs about what the hub knows of the boat.  Geofence, for any places, *)
(* accuracies, radii and streaks: an alarm is one per episode, and the     *)
(* place the cloud was sent is as fresh as the rules of a send say.        *)
(* GpsFeed, for any viewers: who is held has the newest fix, and the       *)
(* sampler naps as whoever looks wants.  NmeaSearch, for any LAN and any   *)
(* widths: a feed that had its turn in time is found.  NmeaFeed, for any   *)
(* stream: the position a poll returns is the last it was given in whole.  *)
(* RouterReport, for any WANs, uses and losses: what the uplink carried is *)
(* charged once, and its word is the router's own.                         *)
(***************************************************************************)
EXTENDS Geofence, GpsFeed, NmeaFeed, NmeaSearch, RouterReport, FiniteSetTheorems, WellFoundedInduction, TLAPS

(***************************************************************************)
(* The geofence                                                            *)
(***************************************************************************)

Spots == [known: BOOLEAN, at: Places \cup {0}]

\* The counts of a ring, and their place in the history.
Counts == [run: Nat, raised: Nat]

\* What the fence knows of a ring is what an observer has counted.
RingIsCounted ==
    /\ DOMAIN rings = Rings
    /\ seen \in [count: [Rings -> Counts], unsent: Nat]
    /\ \A r \in Rings :
          /\ seen.count[r].run = rings[r].streak
          /\ seen.count[r].raised = IF rings[r].alerted THEN 1 ELSE 0
          /\ rings[r].alerted <=> rings[r].streak = Needed(r)

\* The clock of the track is never behind what has not been sent.
TrackIsAhead ==
    trip.underway => seen.unsent <= track

IInv == TypeOK /\ RingIsCounted /\ TrackIsAhead

LEMMA Sizes ==
    /\ \A r \in Rings : Needed(r) \in Nat \ {0} /\ Radius(r) \in Nat
    /\ SendEvery \in Nat \ {0} /\ ExitAfter \in Nat \ {0} /\ EnterStreak \in Nat \ {0} /\ MaxSig \in Nat
    /\ Places \subseteq Nat /\ Accuracies \subseteq Nat
  BY GeofenceAssumption DEF Needed, Radius, Rings

LEMMA CapType == ASSUME NEW n \in Nat, NEW top \in Nat
                 PROVE  Cap(n, top) \in 0..top /\ Cap(n, top) <= n
  BY DEF Cap

LEMMA NowhereType == Nowhere \in Spots /\ \A p \in Places : At(p) \in Spots
  BY DEF Nowhere, At, Spots

Trips == [underway: BOOLEAN, enter: 0..(EnterStreak - 1), slow: Spots, slowFor: 0..ExitAfter]

LEMMA MooredType == Moored \in Trips /\ Moored.underway = FALSE
<1>1. 0 \in 0..(EnterStreak - 1) /\ 0 \in 0..ExitAfter
  BY Sizes
<1> QED
  BY <1>1, NowhereType DEF Moored, Trips

LEMMA Initially == Init => IInv
<1> SUFFICES ASSUME Init PROVE IInv
  OBVIOUS
<1>1. /\ watch = None /\ fence = [owed |-> FALSE, armed |-> 0] /\ rings = Unlatched /\ trip = Moored
      /\ track = SendEvery /\ lastSent = Nowhere /\ fix = [known |-> FALSE, at |-> 0, acc |-> 0]
      /\ seen = [count |-> Uncounted, unsent |-> 0]
  BY DEF Init
<1>2. \A r \in Rings : rings[r] = [streak |-> 0, alerted |-> FALSE]
  BY <1>1 DEF Unlatched
<1>3. TypeOK
  <2>1. 0 \in 0..MaxSig /\ SendEvery \in 0..SendEvery /\ \A r \in Rings : 0 \in 0..Needed(r)
    BY Sizes
  <2>2. watch \in [sig: 0..MaxSig, anchor: BOOLEAN, zone: BOOLEAN] /\ fence \in [owed: BOOLEAN, armed: 0..MaxSig]
    BY <1>1, <2>1 DEF None
  <2>3. ASSUME NEW r \in Rings PROVE rings[r] \in [streak: 0..Needed(r), alerted: BOOLEAN]
    <3>1. [streak |-> 0, alerted |-> FALSE] \in [streak: 0..Needed(r), alerted: BOOLEAN]
      BY <2>1
    <3> QED
      BY <1>2, <3>1, Zenon
  <2>4. trip \in Trips /\ lastSent \in Spots
    BY <1>1, MooredType, NowhereType
  <2>5. fix \in [known: BOOLEAN, at: Places \cup {0}, acc: Accuracies \cup {0}]
    BY <1>1
  <2> QED
    BY <1>1, <2>1, <2>2, <2>3, <2>4, <2>5 DEF TypeOK, Trips, Spots
<1>4. seen.count = [r \in Rings |-> [run |-> 0, raised |-> 0]] /\ DOMAIN rings = Rings
  BY <1>1 DEF Uncounted, Unlatched
<1>5. RingIsCounted
  <2>1. seen \in [count: [Rings -> Counts], unsent: Nat]
    BY <1>1, <1>4 DEF Counts
  <2> QED
    BY <1>2, <1>4, <2>1, Sizes DEF RingIsCounted
<1>6. TrackIsAhead
  BY <1>1, Sizes DEF TrackIsAhead, Moored
<1> QED
  BY <1>3, <1>5, <1>6 DEF IInv

-----------------------------------------------------------------------------
(* The parts of a sample *)

\* A trip keeps its type when the place and time it has been slow are set.
LEMMA SlowSet == ASSUME NEW t \in Trips, NEW p \in Spots, NEW n \in 0..ExitAfter
                 PROVE  [t EXCEPT !.slow = p, !.slowFor = n] \in Trips
<1> DEFINE u == [t EXCEPT !.slow = p]
<1>1. u \in Trips
  BY DEF Trips
<1>2. [u EXCEPT !.slowFor = n] \in Trips
  BY <1>1 DEF Trips
<1> QED
  BY <1>2

LEMMA SteppedType == ASSUME TypeOK, NEW s \in Samples, NEW gap \in 1..MaxGap
                     PROVE  Stepped(s, gap) \in Trips
<1>1. trip \in Trips /\ s.at \in Places /\ At(s.at) \in Spots /\ 0 \in 0..ExitAfter /\ gap \in Nat
  <2>1. trip \in Trips
    BY DEF TypeOK, Trips, Spots
  <2>2. s.at \in Places
    BY DEF Samples
  <2>3. 0 \in 0..ExitAfter /\ gap \in Nat
    BY Sizes, GeofenceAssumption
  <2> QED
    BY <2>1, <2>2, <2>3, NowhereType
<1>2. Cap(trip.slowFor + gap, ExitAfter) \in 0..ExitAfter
  <2>1. trip.slowFor \in 0..ExitAfter
    BY <1>1 DEF Trips
  <2>2. trip.slowFor + gap \in Nat /\ ExitAfter \in Nat
    BY <1>1, <2>1, Sizes
  <2> QED
    BY <2>2, CapType
<1>3. [trip EXCEPT !.enter = 0, !.slow = Nowhere, !.slowFor = 0] \in Trips
  <2> DEFINE t == [trip EXCEPT !.enter = 0]
  <2>1. 0 \in 0..(EnterStreak - 1)
    BY Sizes
  <2>2. t \in Trips
    BY <1>1, <2>1 DEF Trips
  <2> HIDE DEF t
  <2>3. [t EXCEPT !.slow = Nowhere, !.slowFor = 0] \in Trips
    BY <1>1, <2>2, NowhereType, SlowSet
  <2> QED
    BY <2>3 DEF t
<1>4. Left(s, gap) \in Trips
  <2>1. [trip EXCEPT !.slow = Nowhere, !.slowFor = 0] \in Trips /\ [trip EXCEPT !.slow = At(s.at), !.slowFor = 0] \in Trips
    BY <1>1, NowhereType, SlowSet
  <2>2. [trip EXCEPT !.slowFor = Cap(trip.slowFor + gap, ExitAfter)] \in Trips
    BY <1>1, <1>2 DEF Trips
  <2> QED
    BY <2>1, <2>2, MooredType DEF Left
<1>5. Entered(s) \in Trips
  <2> DEFINE n == IF s.speed = "fast" \/ Moved(s, EnterMove) THEN trip.enter + 1 ELSE 0
  <2>1. n \in Nat
    BY <1>1, Sizes DEF Trips
  <2>2. [Moored EXCEPT !.underway = TRUE] \in Trips
    BY MooredType DEF Trips
  <2>3. ASSUME ~(n >= EnterStreak) PROVE [Moored EXCEPT !.enter = n] \in Trips
    <3>1. n \in 0..(EnterStreak - 1)
      BY <2>1, <2>3, Sizes
    <3> HIDE DEF n
    <3> QED
      BY <3>1, MooredType DEF Trips
  <2> QED
    BY <2>2, <2>3 DEF Entered
<1> QED
  BY <1>3, <1>4, <1>5 DEF Stepped

\* A ring after a reliable sample has alerted exactly when its streak is complete.
LEMMA LatchedRing ==
    ASSUME NEW r \in Rings, NEW ring \in [streak: 0..Needed(r), alerted: BOOLEAN], NEW s,
           ring.alerted <=> ring.streak = Needed(r)
    PROVE  LET new == Latched(ring, r, s) IN
           /\ new \in [streak: 0..Needed(r), alerted: BOOLEAN]
           /\ new.alerted <=> new.streak = Needed(r)
           /\ ~Outside(r, s) => new.streak = 0 /\ ~new.alerted
           /\ Outside(r, s) => new.streak = Cap(ring.streak + 1, Needed(r)) /\ (ring.alerted => new.alerted)
<1>1. Needed(r) \in Nat \ {0} /\ ring.streak \in 0..Needed(r) /\ ring.alerted \in BOOLEAN
  BY Sizes
<1>2. CASE Outside(r, s)
  <2>1. Latched(ring, r, s) = [streak |-> Cap(ring.streak + 1, Needed(r)),
                               alerted |-> ring.alerted \/ ring.streak + 1 >= Needed(r)]
    BY <1>2, Zenon DEF Latched
  <2> DEFINE n == Cap(ring.streak + 1, Needed(r))
             a == ring.alerted \/ ring.streak + 1 >= Needed(r)
  <2>2. n \in 0..Needed(r) /\ a \in BOOLEAN /\ (a <=> n = Needed(r)) /\ (ring.alerted => a)
    BY <1>1 DEF Cap
  <2>3. Latched(ring, r, s).streak = n /\ Latched(ring, r, s).alerted = a
    BY <2>1
  <2> HIDE DEF n, a
  <2>4. [streak |-> n, alerted |-> a] \in [streak: 0..Needed(r), alerted: BOOLEAN]
    BY <2>2
  <2> QED
    BY <1>2, <2>1, <2>2, <2>3, <2>4 DEF n, a
<1>3. CASE ~Outside(r, s)
  <2>1. Latched(ring, r, s) = [streak |-> Cap(0, Needed(r)), alerted |-> FALSE]
    BY <1>3, Zenon DEF Latched
  <2> QED
    BY <1>1, <1>3, <2>1 DEF Cap
<1> QED
  BY <1>2, <1>3

-----------------------------------------------------------------------------
(* The steps *)

LEMMA WatchStep == ASSUME IInv, WatchChanges PROVE IInv'
<1>1. PICK anchor \in BOOLEAN, zone \in BOOLEAN :
        LET sig == IF anchor \/ zone THEN fence.armed + 1 ELSE 0 IN
        /\ sig # watch.sig /\ sig <= MaxSig
        /\ watch' = [sig |-> sig, anchor |-> anchor, zone |-> zone]
        /\ fence' = [owed |-> fence.owed \/ sig = 0, armed |-> IF sig = 0 THEN fence.armed ELSE sig]
  BY DEF WatchChanges
<1>2. /\ rings' = Unlatched /\ seen' = [seen EXCEPT !.count = Uncounted]
      /\ UNCHANGED <<trip, track, lastSent, fix>>
  BY DEF WatchChanges, Reset
<1>3. \A r \in Rings : rings'[r] = [streak |-> 0, alerted |-> FALSE]
  BY <1>2 DEF Unlatched
<1>4. TypeOK'
  <2> DEFINE sig == IF anchor \/ zone THEN fence.armed + 1 ELSE 0
  <2>1. fence.armed \in 0..MaxSig /\ fence.owed \in BOOLEAN /\ MaxSig \in Nat
    BY Sizes DEF IInv, TypeOK
  <2>2. sig \in 0..MaxSig
    BY <1>1, <2>1
  <2>3. watch' \in [sig: 0..MaxSig, anchor: BOOLEAN, zone: BOOLEAN]
    BY <1>1, <2>2
  <2>4. fence' \in [owed: BOOLEAN, armed: 0..MaxSig]
    <3>1. (fence.owed \/ sig = 0) \in BOOLEAN /\ (IF sig = 0 THEN fence.armed ELSE sig) \in 0..MaxSig
      BY <2>1, <2>2
    <3> QED
      BY <1>1, <3>1
  <2>5. ASSUME NEW r \in Rings PROVE rings'[r] \in [streak: 0..Needed(r), alerted: BOOLEAN]
    <3>1. [streak |-> 0, alerted |-> FALSE] \in [streak: 0..Needed(r), alerted: BOOLEAN]
      BY Sizes
    <3> QED
      BY <1>3, <3>1, Zenon
  <2> QED
    BY <1>2, <2>3, <2>4, <2>5 DEF IInv, TypeOK
<1>5. seen'.count = [r \in Rings |-> [run |-> 0, raised |-> 0]] /\ seen'.unsent = seen.unsent
  BY <1>2 DEF Uncounted, IInv, RingIsCounted, TrackIsAhead
<1>6. RingIsCounted'
  <2>1. DOMAIN rings' = Rings
    BY <1>2 DEF Unlatched
  <2>2. seen' \in [count: [Rings -> Counts], unsent: Nat]
    <3>1. Uncounted \in [Rings -> Counts] /\ seen \in [count: [Rings -> Counts], unsent: Nat]
      BY DEF Uncounted, Counts, IInv, RingIsCounted
    <3> QED
      BY <1>2, <3>1
  <2> QED
    BY <1>3, <1>5, <2>1, <2>2, Sizes DEF RingIsCounted
<1>7. TrackIsAhead'
  BY <1>2, <1>5 DEF IInv, TrackIsAhead
<1> QED
  BY <1>4, <1>6, <1>7 DEF IInv

LEMMA MarkStep == ASSUME IInv, KeyframeMark PROVE IInv'
<1>1. /\ lastSent' = At(fix.at) /\ seen' = [seen EXCEPT !.unsent = 0]
      /\ UNCHANGED <<watch, fence, rings, trip, track, fix>>
  BY DEF KeyframeMark
<1>2. lastSent' \in Spots
  BY <1>1 DEF IInv, TypeOK, At, Spots
<1>3. TypeOK'
  BY <1>1, <1>2 DEF IInv, TypeOK, Spots
<1>4. seen' \in [count: [Rings -> Counts], unsent: Nat] /\ seen'.count = seen.count /\ seen'.unsent = 0
  BY <1>1 DEF IInv, RingIsCounted
<1>5. RingIsCounted'
  BY <1>1, <1>4 DEF IInv, RingIsCounted
<1>6. TrackIsAhead'
  BY <1>1, <1>4, Sizes DEF IInv, TrackIsAhead, TypeOK
<1> QED
  BY <1>3, <1>5, <1>6 DEF IInv

\* A sample, in names for what it computes.
Rung(s) == [r \in Rings |-> IF Held(r, s) THEN Latched(rings[r], r, s) ELSE rings[r]]
Aged(gap) == Cap(track + gap, SendEvery)
Broken(s) == watch.anchor /\ Rung(s)["anchor"].streak >= AnchorStreak
Turned(s, gap) == Stepped(s, gap).underway # trip.underway
Sent(s, gap, leased) ==
    \/ leased \/ fence.owed \/ Turned(s, gap)
    \/ Stepped(s, gap).underway /\ (Due(Aged(gap)) \/ Broken(s))
    \/ ~Stepped(s, gap).underway /\ IF watch.anchor THEN Broken(s) ELSE Adrift(s)
RungOnce(r, s) ==
    IF ~Held(r, s) THEN seen.count[r]
    ELSE IF ~Outside(r, s) THEN [run |-> 0, raised |-> 0]
    ELSE [run |-> Cap(seen.count[r].run + 1, Needed(r)),
          raised |-> Cap(seen.count[r].raised
                         + (IF Rung(s)[r].alerted /\ ~rings[r].alerted THEN 1 ELSE 0), 2)]

\* The step of one sample.
Sampled(s, gap, leased) ==
    /\ rings' = Rung(s)
    /\ trip' = Stepped(s, gap)
    /\ track' = IF ~leased /\ ~fence.owed /\ Turned(s, gap)
                THEN (IF Stepped(s, gap).underway THEN 0 ELSE SendEvery)
                ELSE IF ~leased /\ ~fence.owed /\ Stepped(s, gap).underway /\ Due(Aged(gap)) THEN 0 ELSE Aged(gap)
    /\ fence' = [fence EXCEPT !.owed = fence.owed /\ leased]
    /\ lastSent' = IF Sent(s, gap, leased) THEN At(s.at) ELSE lastSent
    /\ fix' = [known |-> TRUE, at |-> s.at, acc |-> s.acc]
    /\ seen' = [count |-> [r \in Rings |-> RungOnce(r, s)],
                unsent |-> IF Sent(s, gap, leased) THEN 0 ELSE Cap(seen.unsent + gap, SendEvery)]
    /\ watch' = watch

LEMMA SampleIsSampled ==
    Sample => \E s \in Samples, gap \in 1..MaxGap, leased \in BOOLEAN : Sampled(s, gap, leased)
  BY Zenon DEF Sample, Sampled, Rung, Aged, Broken, Turned, Sent, RungOnce

LEMMA SampleRings ==
    ASSUME IInv, NEW s \in Samples, NEW r \in Rings
    PROVE  /\ Rung(s)[r] \in [streak: 0..Needed(r), alerted: BOOLEAN]
           /\ RungOnce(r, s) \in Counts
           /\ RungOnce(r, s).run = Rung(s)[r].streak
           /\ RungOnce(r, s).raised = IF Rung(s)[r].alerted THEN 1 ELSE 0
           /\ Rung(s)[r].alerted <=> Rung(s)[r].streak = Needed(r)
<1> DEFINE ring == rings[r]
           new == Latched(ring, r, s)
           count == seen.count[r]
<1>1. /\ ring \in [streak: 0..Needed(r), alerted: BOOLEAN] /\ count \in Counts
      /\ count.run = ring.streak
      /\ count.raised = IF ring.alerted THEN 1 ELSE 0
      /\ ring.alerted <=> ring.streak = Needed(r)
  BY DEF IInv, TypeOK, RingIsCounted
<1>2. Needed(r) \in Nat \ {0}
  BY Sizes
<1>3. CASE ~Held(r, s)
  <2>1. Rung(s)[r] = ring /\ RungOnce(r, s) = count
    BY <1>3 DEF Rung, RungOnce
  <2> QED
    BY <1>1, <2>1
<1>4. CASE Held(r, s)
  <2>1. Rung(s)[r] = new
    BY <1>4 DEF Rung
  <2>2. /\ new \in [streak: 0..Needed(r), alerted: BOOLEAN]
        /\ new.alerted <=> new.streak = Needed(r)
        /\ ~Outside(r, s) => new.streak = 0 /\ ~new.alerted
        /\ Outside(r, s) => new.streak = Cap(ring.streak + 1, Needed(r)) /\ (ring.alerted => new.alerted)
    <3> HIDE DEF ring
    <3> QED
      BY <1>1, LatchedRing
  <2>3. CASE ~Outside(r, s)
    <3>1. RungOnce(r, s) = [run |-> 0, raised |-> 0]
      BY <1>4, <2>3 DEF RungOnce
    <3> HIDE DEF new
    <3> QED
      BY <2>1, <2>2, <2>3, <3>1 DEF Counts
  <2>4. CASE Outside(r, s)
    <3> DEFINE more == IF new.alerted /\ ~ring.alerted THEN 1 ELSE 0
    <3>1. RungOnce(r, s) = [run |-> Cap(count.run + 1, Needed(r)), raised |-> Cap(count.raised + more, 2)]
      BY <1>4, <2>1, <2>4, Zenon DEF RungOnce
    <3> HIDE DEF new
    <3>2. count.raised + more = IF new.alerted THEN 1 ELSE 0
      BY <1>1, <2>2, <2>4
    <3>3. Cap(count.raised + more, 2) = IF new.alerted THEN 1 ELSE 0
      BY <3>2 DEF Cap
    <3>4. Cap(count.run + 1, Needed(r)) = new.streak /\ new.streak \in Nat
      BY <1>1, <1>2, <2>2, <2>4
    <3>5. RungOnce(r, s) = [run |-> new.streak, raised |-> IF new.alerted THEN 1 ELSE 0]
      BY <3>1, <3>3, <3>4, Zenon
    <3> QED
      BY <2>1, <2>2, <3>4, <3>5 DEF Counts
  <2> QED
    BY <2>3, <2>4
<1> QED
  BY <1>3, <1>4

LEMMA SampleTrack ==
    ASSUME IInv, NEW s \in Samples, NEW gap \in 1..MaxGap, NEW leased \in BOOLEAN, Sampled(s, gap, leased)
    PROVE  /\ TrackIsAhead' /\ track' \in 0..SendEvery /\ seen'.unsent \in Nat
           /\ trip'.underway => seen'.unsent < SendEvery
<1>1. /\ SendEvery \in Nat \ {0} /\ gap \in Nat /\ track \in 0..SendEvery /\ seen.unsent \in Nat
      /\ trip.underway => seen.unsent <= track
  BY Sizes, GeofenceAssumption DEF IInv, TypeOK, RingIsCounted, TrackIsAhead
<1>2. /\ seen'.unsent = (IF Sent(s, gap, leased) THEN 0 ELSE Cap(seen.unsent + gap, SendEvery))
      /\ trip' = Stepped(s, gap)
      /\ track' = IF ~leased /\ ~fence.owed /\ Turned(s, gap)
                  THEN (IF Stepped(s, gap).underway THEN 0 ELSE SendEvery)
                  ELSE IF ~leased /\ ~fence.owed /\ Stepped(s, gap).underway /\ Due(Aged(gap)) THEN 0 ELSE Aged(gap)
  BY DEF Sampled
<1>3. Aged(gap) \in 0..SendEvery /\ Cap(seen.unsent + gap, SendEvery) \in 0..SendEvery
  BY <1>1 DEF Aged, Cap
<1>4. track' \in 0..SendEvery
  BY <1>1, <1>2, <1>3
<1>5. CASE Sent(s, gap, leased)
  BY <1>1, <1>2, <1>4, <1>5 DEF TrackIsAhead
<1>6. CASE ~Sent(s, gap, leased)
  <2>1. /\ ~Turned(s, gap)
        /\ Stepped(s, gap).underway => ~Due(Aged(gap))
    BY <1>6 DEF Sent
  <2>2. track' = Aged(gap)
    BY <1>2, <2>1
  <2>3. ASSUME trip'.underway PROVE seen'.unsent <= track' /\ seen'.unsent < SendEvery
    <3>1. Stepped(s, gap).underway /\ Stepped(s, gap).underway = trip.underway
      BY <1>2, <2>1, <2>3 DEF Turned
    <3>2. seen.unsent <= track /\ Aged(gap) < SendEvery
      BY <1>1, <1>3, <2>1, <3>1 DEF Due
    <3> QED
      BY <1>1, <1>2, <1>6, <2>2, <3>2 DEF Aged, Cap
  <2> QED
    BY <1>2, <1>3, <1>4, <1>6, <2>3 DEF TrackIsAhead
<1> QED
  BY <1>5, <1>6

LEMMA SampleStep ==
    ASSUME IInv, NEW s \in Samples, NEW gap \in 1..MaxGap, NEW leased \in BOOLEAN, Sampled(s, gap, leased)
    PROVE  IInv'
<1>1. TypeOK'
  <2>1. /\ fence' = [fence EXCEPT !.owed = fence.owed /\ leased] /\ watch' = watch
        /\ fix' = [known |-> TRUE, at |-> s.at, acc |-> s.acc]
        /\ rings' = Rung(s) /\ trip' = Stepped(s, gap)
        /\ lastSent' = IF Sent(s, gap, leased) THEN At(s.at) ELSE lastSent
    BY DEF Sampled
  <2>2. s.at \in Places /\ s.acc \in Accuracies
    BY DEF Samples
  <2>3. fence' \in [owed: BOOLEAN, armed: 0..MaxSig]
    <3>1. fence \in [owed: BOOLEAN, armed: 0..MaxSig] /\ (fence.owed /\ leased) \in BOOLEAN
      BY DEF IInv, TypeOK
    <3> QED
      BY <2>1, <3>1
  <2>4. fix' \in [known: BOOLEAN, at: Places \cup {0}, acc: Accuracies \cup {0}]
    BY <2>1, <2>2
  <2>5. lastSent' \in Spots
    BY <2>1, <2>2, NowhereType DEF IInv, TypeOK, Spots
  <2>6. trip' \in Trips
    BY <2>1, SteppedType DEF IInv
  <2>7. \A r \in Rings : rings'[r] \in [streak: 0..Needed(r), alerted: BOOLEAN]
    BY <2>1, SampleRings
  <2>8. track' \in 0..SendEvery /\ watch' \in [sig: 0..MaxSig, anchor: BOOLEAN, zone: BOOLEAN]
    BY <2>1, SampleTrack DEF IInv, TypeOK
  <2> QED
    BY <2>3, <2>4, <2>5, <2>6, <2>7, <2>8 DEF TypeOK, Trips, Spots
<1>2. RingIsCounted'
  <2>1. /\ rings' = Rung(s)
        /\ seen' = [count |-> [r \in Rings |-> RungOnce(r, s)],
                    unsent |-> IF Sent(s, gap, leased) THEN 0 ELSE Cap(seen.unsent + gap, SendEvery)]
    BY DEF Sampled
  <2>2. seen'.count \in [Rings -> Counts] /\ \A r \in Rings : seen'.count[r] = RungOnce(r, s)
    BY <2>1, SampleRings
  <2>3. seen'.unsent \in Nat
    BY SampleTrack
  <2>4. seen' \in [count: [Rings -> Counts], unsent: Nat]
    BY <2>1, <2>2, <2>3
  <2>5. DOMAIN rings' = Rings
    BY <2>1 DEF Rung
  <2> QED
    BY <2>1, <2>2, <2>4, <2>5, SampleRings DEF RingIsCounted
<1>3. TrackIsAhead'
  BY SampleTrack
<1> QED
  BY <1>1, <1>2, <1>3 DEF IInv

LEMMA Invariance == IInv /\ [Next]_vars => IInv'
<1> SUFFICES ASSUME IInv, [Next]_vars PROVE IInv'
  OBVIOUS
<1>1. CASE WatchChanges
  BY <1>1, WatchStep
<1>2. CASE Sample
  BY <1>2, SampleIsSampled, SampleStep
<1>3. CASE KeyframeMark
  BY <1>3, MarkStep
<1>4. CASE UNCHANGED vars
  BY <1>4 DEF vars, IInv, TypeOK, RingIsCounted, TrackIsAhead
<1> QED
  BY <1>1, <1>2, <1>3, <1>4 DEF Next

LEMMA Invariant == Spec => []IInv
  BY Initially, Invariance, PTL DEF Spec

-----------------------------------------------------------------------------
(* The theorems *)

LEMMA SpotsAreNumbers == IInv => lastSent.at \in Nat /\ fix.at \in Nat /\ fix.acc \in Nat
<1> SUFFICES ASSUME IInv PROVE lastSent.at \in Nat /\ fix.at \in Nat /\ fix.acc \in Nat
  OBVIOUS
<1>1. lastSent \in [known: BOOLEAN, at: Places \cup {0}]
  BY DEF IInv, TypeOK
<1>2. fix \in [known: BOOLEAN, at: Places \cup {0}, acc: Accuracies \cup {0}]
  BY DEF IInv, TypeOK
<1>3. Places \cup {0} \subseteq Nat /\ Accuracies \cup {0} \subseteq Nat
  BY Sizes
<1>4. lastSent.at \in Nat
  BY <1>1, <1>3
<1>5. fix.at \in Nat /\ fix.acc \in Nat
  BY <1>2, <1>3
<1> QED
  BY <1>4, <1>5

\* The fence's state is of its type, and each ring has raised one alarm once its streak is complete
\* and none before, over unreliable samples, swings and watches armed anew (Geofence::observe,
\* sync_watch).
THEOREM OneAlarmPerEpisode == Spec => []GeofenceInv
<1>1. ASSUME IInv PROVE GeofenceInv
  <2>1. ASSUME NEW r \in Rings
        PROVE  seen.count[r].raised = (IF seen.count[r].run >= Needed(r) THEN 1 ELSE 0)
    <3>1. /\ seen.count[r].run = rings[r].streak /\ rings[r].streak \in 0..Needed(r)
          /\ seen.count[r].raised = IF rings[r].alerted THEN 1 ELSE 0
          /\ rings[r].alerted <=> rings[r].streak = Needed(r)
      BY <1>1 DEF IInv, TypeOK, RingIsCounted
    <3> QED
      BY <3>1, Sizes
  <2> QED
    BY <1>1, <2>1 DEF GeofenceInv, AlarmOncePerEpisode, IInv
<1> QED
  BY <1>1, Invariant, PTL

\* After every sample, and every mark of a keyframe, the place the cloud was sent is as fresh as the
\* regime promises: the fix itself in a confirmed drag, within SendEvery on a trip, and within the
\* deadband or the accuracy of the fix otherwise (the send rules of Geofence::observe).
THEOREM PlaceIsFresh == Spec => CloudKnowsPlace
<1> DEFINE Fresh == watch' = watch =>
         /\ watch.anchor /\ rings'["anchor"].streak >= AnchorStreak => lastSent' = At(fix'.at)
         /\ trip'.underway => seen'.unsent < SendEvery
         /\ ~watch.anchor /\ ~trip'.underway =>
              /\ lastSent'.known
              /\ Gap(lastSent'.at, fix'.at) < Deadband \/ Gap(lastSent'.at, fix'.at) <= 2 * fix'.acc
<1>1. IInv /\ [Next]_vars => [Fresh]_vars
  <2> SUFFICES ASSUME IInv, Next PROVE Fresh
    OBVIOUS
  <2>1. CASE WatchChanges
    <3>1. watch' # watch
      BY <2>1 DEF WatchChanges
    <3> QED
      BY <3>1
  <2>2. CASE Sample
    <3>1. PICK s \in Samples, gap \in 1..MaxGap, leased \in BOOLEAN : Sampled(s, gap, leased)
      BY <2>2, SampleIsSampled
    <3>2. /\ rings' = Rung(s) /\ trip' = Stepped(s, gap)
          /\ lastSent' = IF Sent(s, gap, leased) THEN At(s.at) ELSE lastSent
          /\ fix'.at = s.at /\ fix'.acc = s.acc
      BY <3>1 DEF Sampled
    <3>3. s.at \in Nat /\ s.acc \in Nat /\ lastSent.at \in Nat
      <4>1. s.at \in Places /\ s.acc \in Accuracies
        BY DEF Samples
      <4> QED
        BY <4>1, Sizes, SpotsAreNumbers
    <3>4. trip'.underway => seen'.unsent < SendEvery
      BY <3>1, SampleTrack
    <3>5. CASE Sent(s, gap, leased)
      <4>1. lastSent' = At(s.at) /\ lastSent'.known /\ lastSent'.at = s.at
        BY <3>2, <3>5 DEF At
      <4>2. Gap(lastSent'.at, fix'.at) <= 2 * fix'.acc
        BY <3>2, <3>3, <4>1 DEF Gap
      <4> QED
        BY <3>2, <3>4, <4>1, <4>2
    <3>6. CASE ~Sent(s, gap, leased)
      <4>1. lastSent' = lastSent
        BY <3>2, <3>6
      <4>2. ~(watch.anchor /\ rings'["anchor"].streak >= AnchorStreak)
        BY <3>2, <3>6 DEF Sent, Broken
      <4>3. ASSUME ~watch.anchor, ~trip'.underway
            PROVE  lastSent.known /\ (Gap(lastSent.at, s.at) < Deadband \/ Gap(lastSent.at, s.at) <= 2 * s.acc)
        <5>1. ~Adrift(s)
          BY <3>2, <3>6, <4>3 DEF Sent
        <5>2. Gap(lastSent.at, s.at) \in Nat /\ Deadband \in Nat
          BY <3>3, GeofenceAssumption DEF Gap
        <5> QED
          BY <3>3, <5>1, <5>2 DEF Adrift, Moved
      <4> QED
        BY <3>2, <3>4, <4>1, <4>2, <4>3
    <3> QED
      BY <3>5, <3>6
  <2>3. CASE KeyframeMark
    <3>1. lastSent' = At(fix.at) /\ seen'.unsent = 0 /\ fix' = fix
      BY <2>3 DEF KeyframeMark, IInv, RingIsCounted
    <3>2. fix.at \in Nat /\ fix.acc \in Nat
      BY SpotsAreNumbers
    <3>3. lastSent'.known /\ lastSent'.at = fix.at
      BY <3>1 DEF At
    <3>4. Gap(lastSent'.at, fix'.at) <= 2 * fix'.acc
      BY <3>1, <3>2, <3>3 DEF Gap
    <3> QED
      BY <3>1, <3>3, <3>4, Sizes
  <2> QED
    BY <2>1, <2>2, <2>3 DEF Next
<1> QED
  BY <1>1, Invariant, PTL DEF Spec, CloudKnowsPlace

(***************************************************************************)
(* The sampler and its viewers                                             *)
(***************************************************************************)

\* What is written and not yet numbered.
Unnumbered == (IF sampler.at = "bump" THEN 1 ELSE 0) + (IF router = "bump" THEN 1 ELSE 0)

\* An answer of this process holds a fix at least as new as its number says; who is held holds the number
\* he came with.
AnswersAreReal ==
    \A v \in Viewers :
        /\ view[v].got.boot = boot => view[v].got.seq <= view[v].got.fix /\ view[v].got.fix <= written
        /\ view[v].at = "held" => view[v].seen = view[v].got.seq

\* A pass goes by the source as it is set, or has been rung since it looked.
PassKnowsSource == sampler.at # "nap" => permit \/ sampler.kind = source

\* An NMEA source whose pass failed has failed at least once.
FailuresCounted ==
    sampler.at # "read" /\ ~sampler.ok /\ sampler.kind = "nmea" => sampler.failures > 0

ViewType == [at: {"away", "held", "reading"}, seen: 0 .. MaxSamples, got: [seq: 0 .. MaxSamples, fix: 0 .. MaxSamples, boot: Nat]]

SamplerType == [at: {"nap", "read", "bump", "plan"}, kind: Kinds, failures: 0..MaxFailures, ok: BOOLEAN, secs: Nat]

\* The types, part by part, with the sampler and a viewer as records.
FeedParts ==
    /\ source \in Kinds /\ wants \in [lease: BOOLEAN, watch: BOOLEAN] /\ sampler \in SamplerType
    /\ router \in {"idle", "bump"} /\ permit \in BOOLEAN
    /\ written \in 0 .. MaxSamples /\ rev \in 0 .. written
    /\ view \in [Viewers -> ViewType]
    /\ \A v \in Viewers : view[v].seen \in 0 .. rev /\ view[v].got.boot \in 0 .. boot
    /\ changes \in 0 .. MaxChanges /\ boot \in 1 .. (MaxChanges + 1) /\ boot <= changes + 1

FeedIInv ==
    /\ FeedParts
    /\ written = rev + Unnumbered
    /\ AnswersAreReal /\ PassKnowsSource /\ FailuresCounted /\ SampledAsWanted

\* Who is held has the newest fix but for those about to be numbered.
LEMMA HeldHasIt == FeedIInv => HeldIsCurrent
<1> SUFFICES ASSUME FeedIInv, NEW v \in Viewers, view[v].at = "held", view[v].got.boot = boot, view[v].seen = rev,
                    sampler.at # "bump", router # "bump"
             PROVE  view[v].got.fix = written
  BY DEF HeldIsCurrent
<1>1. written = rev
  BY DEF FeedIInv, FeedParts, Unnumbered
<1>2. view[v].got.seq <= view[v].got.fix /\ view[v].got.fix <= written /\ view[v].got.seq = rev
  BY DEF FeedIInv, AnswersAreReal
<1>3. view[v].got.fix \in Nat /\ written \in Nat
  BY DEF FeedIInv, FeedParts, ViewType
<1> QED
  BY <1>1, <1>2, <1>3

\* Whoever looks, the nap is one of six; more who look never make it longer.
LEMMA SampleSecsFalls ==
    ASSUME NEW fast \in BOOLEAN, NEW leased \in BOOLEAN, NEW live \in BOOLEAN, NEW nmea \in BOOLEAN
    PROVE  /\ SampleSecs(fast, leased, live, nmea) \in Nat
           /\ \A f, l, h \in BOOLEAN :
                (f => fast) /\ (l => leased) /\ (h => live) =>
                    SampleSecs(fast, leased, live, nmea) <= SampleSecs(f, l, h, nmea)
BY DEF SampleSecs

\* A power of two is a number: a set of n has as many subsets.
LEMMA PowerOfTwo == \A n \in Nat : 2 ^ n \in Nat
<1> TAKE n \in Nat
<1>1. IsFiniteSet(1 .. n) /\ Cardinality(1 .. n) = n
  BY FS_Interval
<1>2. IsFiniteSet(SUBSET (1 .. n)) /\ Cardinality(SUBSET (1 .. n)) = 2 ^ n
  BY <1>1, FS_SUBSET
<1> QED
  BY <1>2, FS_CardinalityType

LEMMA BackoffIsCapped ==
    ASSUME NEW failures \in Nat \ {0}
    PROVE  BackoffSecs(failures) \in Nat /\ BackoffSecs(failures) <= RetryCap /\ (failures = 1 => BackoffSecs(failures) = RetryFirst)
<1> DEFINE exponent == IF failures > 17 THEN 16 ELSE failures - 1
           power == 2 ^ exponent
           secs == RetryFirst * power
<1>0. RetryFirst \in Nat /\ RetryCap \in Nat /\ RetryFirst <= RetryCap
  BY FeedAssumption
<1>1. exponent \in Nat /\ (failures = 1 => exponent = 0)
  OBVIOUS
<1>2. power \in Nat /\ (failures = 1 => power = 1)
  <2> HIDE DEF exponent
  <2>1. power \in Nat
    BY <1>1, PowerOfTwo
  <2>2. failures = 1 => power = 1
    BY <1>1
  <2> QED
    BY <2>1, <2>2
<1> HIDE DEF exponent, power
<1>3. secs \in Nat
  BY <1>0, <1>2
<1>4. failures = 1 => secs = RetryFirst
  BY <1>0, <1>2
<1>5. BackoffSecs(failures) = IF secs > RetryCap THEN RetryCap ELSE secs
  BY DEF BackoffSecs, secs, power, exponent
<1> HIDE DEF secs
<1> QED
  BY <1>0, <1>3, <1>4, <1>5

-----------------------------------------------------------------------------

LEMMA TypesFollow == FeedParts => FeedTypes
<1> SUFFICES ASSUME FeedParts PROVE FeedTypes
  OBVIOUS
<1>1. ASSUME NEW v \in Viewers
      PROVE  /\ view[v].at \in {"away", "held", "reading"} /\ view[v].seen \in 0..rev
             /\ view[v].got \in [seq: 0..MaxSamples, fix: 0..MaxSamples, boot: 0..boot]
  <2>1. view[v] \in ViewType /\ view[v].seen \in 0 .. rev /\ view[v].got.boot \in 0 .. boot
    BY <1>1 DEF FeedParts
  <2> QED
    BY <2>1 DEF ViewType
<1> QED
  BY <1>1 DEF FeedParts, FeedTypes, SamplerType

LEMMA FeedInitially == FeedInit => FeedIInv
<1> SUFFICES ASSUME FeedInit PROVE FeedIInv
  OBVIOUS
<1>1. MaxSamples \in Nat /\ MaxChanges \in Nat /\ MaxFailures \in Nat
  BY FeedAssumption
<1>2. Resting.at = "nap" /\ Resting.kind = "none" /\ Resting.failures = 0 /\ Resting.ok = TRUE /\ Resting.secs = 0
  BY DEF Resting
<1>3. Away.at = "away" /\ Away.seen = 0 /\ Away.got = NoAnswer /\ NoAnswer.seq = 0 /\ NoAnswer.fix = 0 /\ NoAnswer.boot = 0
  BY DEF Away, NoAnswer
<1>4. Resting \in [at: {"nap", "read", "bump", "plan"}, kind: Kinds, failures: 0..MaxFailures, ok: BOOLEAN, secs: Nat]
  BY <1>1 DEF Resting, Kinds
<1>5. NoAnswer \in [seq: 0..MaxSamples, fix: 0..MaxSamples, boot: 0..boot] /\ Away \in ViewType
  BY <1>1 DEF NoAnswer, Away, ViewType, FeedInit
<1>6. FeedParts
  <2>1. \A v \in Viewers : view[v] = Away
    BY DEF FeedInit
  <2>2. wants \in [lease: BOOLEAN, watch: BOOLEAN] /\ source \in Kinds
    BY DEF FeedInit, Kinds
  <2>3. sampler = Resting /\ router = "idle" /\ permit = FALSE /\ written = 0 /\ rev = 0 /\ changes = 0 /\ boot = 1
    BY DEF FeedInit
  <2>4. view \in [Viewers -> ViewType]
    BY <1>5 DEF FeedInit
  <2>5. sampler \in SamplerType
    BY <1>4, <2>3 DEF SamplerType
  <2>6. /\ written \in 0 .. MaxSamples /\ rev \in 0 .. written /\ changes \in 0 .. MaxChanges /\ boot \in 1 .. (MaxChanges + 1)
        /\ router \in {"idle", "bump"} /\ boot <= changes + 1
    BY <1>1, <2>3
  <2>8. permit \in BOOLEAN
    BY <2>3
  <2>7. \A v \in Viewers : view[v].seen \in 0 .. rev /\ view[v].got.boot \in 0 .. boot
    BY <1>3, <2>1, <2>3
  <2> QED
    BY <2>2, <2>4, <2>5, <2>6, <2>7, <2>8 DEF FeedParts
<1>7. view \in [Viewers -> ViewType]
  BY <1>5 DEF FeedInit
<1>8. written = rev + Unnumbered
  BY <1>2 DEF FeedInit, Unnumbered
<1>9. AnswersAreReal
  BY <1>3 DEF FeedInit, AnswersAreReal
<1> QED
  BY <1>2, <1>6, <1>7, <1>8, <1>9 DEF FeedInit, FeedIInv, PassKnowsSource, FailuresCounted, SampledAsWanted

LEMMA FeedTyped ==
    ASSUME FeedIInv
    PROVE  /\ source \in Kinds /\ wants \in [lease: BOOLEAN, watch: BOOLEAN] /\ sampler \in SamplerType
           /\ router \in {"idle", "bump"} /\ permit \in BOOLEAN
           /\ written \in 0 .. MaxSamples /\ rev \in Nat /\ rev <= written
           /\ view \in [Viewers -> ViewType]
           /\ \A v \in Viewers : view[v].seen \in 0 .. rev /\ view[v].got.boot \in 0 .. boot
           /\ changes \in 0 .. MaxChanges /\ boot \in 1 .. (MaxChanges + 1)
           /\ MaxSamples \in Nat /\ MaxChanges \in Nat /\ MaxFailures \in Nat \ {0}
           /\ written = rev + Unnumbered /\ AnswersAreReal /\ PassKnowsSource /\ FailuresCounted /\ SampledAsWanted
           /\ boot <= changes + 1
BY FeedAssumption DEF FeedIInv, FeedParts

\* The nap as it is planned, and one who is held counts.
LEMMA NapIsWanted ==
    ASSUME FeedIInv
    PROVE  /\ Wanted \in Nat
           /\ SampleSecs(wants.watch, wants.lease, Counted # {}, source = "nmea") \in Nat
           /\ SampleSecs(wants.watch, wants.lease, Counted # {}, source = "nmea") <= Wanted
<1> DEFINE live == Counted # {}
           held == \E v \in Viewers : view[v].at = "held"
           nmea == source = "nmea"
<1>1. live \in BOOLEAN /\ held \in BOOLEAN /\ nmea \in BOOLEAN /\ (held => live)
  BY DEF Counted
<1>2. wants.watch \in BOOLEAN /\ wants.lease \in BOOLEAN
  BY FeedTyped
<1>3. Wanted = SampleSecs(wants.watch, wants.lease, held, nmea)
  BY DEF Wanted
<1> HIDE DEF live, held, nmea
<1>4. SampleSecs(wants.watch, wants.lease, held, nmea) \in Nat /\ SampleSecs(wants.watch, wants.lease, live, nmea) \in Nat
      /\ SampleSecs(wants.watch, wants.lease, live, nmea) <= SampleSecs(wants.watch, wants.lease, held, nmea)
  BY <1>1, <1>2 DEF SampleSecs
<1> QED
  BY <1>3, <1>4 DEF live, nmea

\* With nothing asked of it more than before, the nap is still short enough.
LEMMA NapStays ==
    ASSUME FeedIInv, UNCHANGED <<source, sampler>>,
           \/ permit'
           \/ /\ permit' = permit /\ wants' \in [lease: BOOLEAN, watch: BOOLEAN]
              /\ wants'.watch = wants.watch /\ (wants'.lease => wants.lease)
              /\ \A v \in Viewers : view'[v].at = "held" => \E u \in Viewers : view[u].at = "held"
    PROVE  SampledAsWanted'
<1>1. CASE permit'
  BY <1>1 DEF SampledAsWanted
<1>2. CASE /\ permit' = permit /\ wants' \in [lease: BOOLEAN, watch: BOOLEAN]
           /\ wants'.watch = wants.watch /\ (wants'.lease => wants.lease)
           /\ \A v \in Viewers : view'[v].at = "held" => \E u \in Viewers : view[u].at = "held"
  <2> DEFINE held == \E v \in Viewers : view[v].at = "held"
             next == \E v \in Viewers : view'[v].at = "held"
             nmea == source = "nmea"
  <2>1. held \in BOOLEAN /\ next \in BOOLEAN /\ nmea \in BOOLEAN /\ (next => held)
    BY <1>2
  <2>2. wants.watch \in BOOLEAN /\ wants.lease \in BOOLEAN /\ wants'.watch \in BOOLEAN /\ wants'.lease \in BOOLEAN
    BY <1>2, FeedTyped
  <2>3. Wanted = SampleSecs(wants.watch, wants.lease, held, nmea)
    BY DEF Wanted
  <2>4. Wanted' = SampleSecs(wants'.watch, wants'.lease, next, nmea)
    BY DEF Wanted
  <2> HIDE DEF held, next, nmea
  <2>5. Wanted \in Nat /\ Wanted' \in Nat /\ Wanted <= Wanted'
    BY <1>2, <2>1, <2>2, <2>3, <2>4 DEF SampleSecs
  <2>6. sampler.secs \in Nat /\ SampledAsWanted
    BY FeedTyped DEF SamplerType
  <2> QED
    BY <1>2, <2>5, <2>6 DEF SampledAsWanted
<1> QED
  BY <1>1, <1>2

-----------------------------------------------------------------------------

\* What a step leaves alone of the viewers and the numbers.
LEMMA AsideOfViews ==
    ASSUME FeedIInv, UNCHANGED <<view, written, rev, boot, sampler, router>>
    PROVE  /\ AnswersAreReal' /\ view' \in [Viewers -> ViewType] /\ written' = rev' + Unnumbered'
           /\ FailuresCounted'
BY FeedTyped DEF AnswersAreReal, Unnumbered, FailuresCounted

LEMMA NoMoreBoots ==
    /\ \A n, before, after \in Nat : n <= before + 1 /\ before <= after => n <= after + 1
    /\ \A n, before, most \in Nat : n \in 1 .. (most + 1) /\ n <= before + 1 /\ before < most =>
           n + 1 \in 1 .. (most + 1) /\ n + 1 <= (before + 1) + 1 /\ before + 1 \in 0 .. most
OBVIOUS

\* A call that changes what is wanted, or which source it is wanted of, rings.
LEMMA AskedStep ==
    ASSUME FeedIInv, LeaseCall \/ LeaseEnds \/ WatchReply \/ SourceSet PROVE FeedIInv'
<1>1. UNCHANGED <<view, written, rev, boot, sampler, router>>
  BY DEF LeaseCall, LeaseEnds, WatchReply, SourceSet
<1>2. AnswersAreReal' /\ view' \in [Viewers -> ViewType] /\ written' = rev' + Unnumbered' /\ FailuresCounted'
  BY <1>1, AsideOfViews
<1>3. wants' \in [lease: BOOLEAN, watch: BOOLEAN] /\ changes' \in 0 .. MaxChanges /\ source' \in Kinds /\ permit' \in BOOLEAN
  <2>1. wants \in [lease: BOOLEAN, watch: BOOLEAN] /\ changes \in 0 .. MaxChanges /\ source \in Kinds /\ permit \in BOOLEAN /\ MaxChanges \in Nat
    BY FeedTyped
  <2>2. permit' = permit \/ permit' = TRUE \/ (permit' = (permit \/ ~wants.lease))
    BY DEF LeaseCall, LeaseEnds, WatchReply, SourceSet
  <2>3. permit' \in BOOLEAN
    BY <2>1, <2>2, Zenon
  <2>4. changes' = changes \/ (changes < MaxChanges /\ changes' = changes + 1)
    BY DEF LeaseCall, LeaseEnds, WatchReply, SourceSet
  <2>5. source' \in Kinds
    BY <2>1 DEF LeaseCall, LeaseEnds, WatchReply, SourceSet
  <2>6. wants' \in [lease: BOOLEAN, watch: BOOLEAN]
    BY <2>1 DEF LeaseCall, LeaseEnds, WatchReply, SourceSet
  <2> QED
    BY <2>1, <2>3, <2>4, <2>5, <2>6
<1>4. FeedParts'
  <2>1. changes <= changes' /\ changes \in Nat /\ changes' \in Nat /\ boot \in Nat
    BY <1>3, FeedTyped DEF LeaseCall, LeaseEnds, WatchReply, SourceSet
  <2>3. boot <= changes + 1
    BY FeedTyped
  <2>4. boot' = boot /\ boot' \in Nat
    BY <1>1, <2>1
  <2>2. boot' <= changes' + 1
    BY <2>1, <2>3, <2>4, NoMoreBoots, Zenon
  <2> QED
    BY <1>1, <1>2, <1>3, <2>2, FeedTyped DEF FeedParts
<1>5. PassKnowsSource'
  <2>1. (permit => permit') /\ (permit' \/ source' = source)
    <3>1. CASE LeaseCall
      BY <3>1, Zenon DEF LeaseCall
    <3>2. CASE LeaseEnds
      BY <3>2, Zenon DEF LeaseEnds
    <3>3. CASE WatchReply \/ SourceSet
      BY <3>3, Zenon DEF WatchReply, SourceSet
    <3> QED
      BY <3>1, <3>2, <3>3
  <2> QED
    BY <1>1, <2>1, FeedTyped DEF PassKnowsSource
<1>6. SampledAsWanted'
  <2>1. CASE SourceSet
    BY <2>1 DEF SourceSet, SampledAsWanted
  <2>2. CASE ~SourceSet
    <3>1. UNCHANGED <<source, sampler, view>>
      BY <2>2 DEF LeaseCall, LeaseEnds, WatchReply
    <3>2. \/ permit'
          \/ permit' = permit /\ wants'.watch = wants.watch /\ (wants'.lease => wants.lease)
      <4>1. wants \in [lease: BOOLEAN, watch: BOOLEAN] /\ permit \in BOOLEAN
        BY FeedTyped
      <4>2. CASE LeaseCall
        <5>1. wants' = [wants EXCEPT !.lease = TRUE] /\ permit' = (permit \/ ~wants.lease)
          BY <4>2 DEF LeaseCall
        <5>2. wants'.watch = wants.watch
          BY <4>1, <5>1
        <5>3. permit' \/ (wants.lease /\ permit' = permit)
          BY <4>1, <5>1
        <5> QED
          BY <5>2, <5>3
      <4>3. CASE LeaseEnds
        BY <4>1, <4>3 DEF LeaseEnds
      <4>4. CASE WatchReply
        BY <4>4 DEF WatchReply
      <4> QED
        BY <2>2, <4>2, <4>3, <4>4
    <3>3. \A v \in Viewers : view'[v].at = "held" => \E u \in Viewers : view[u].at = "held"
      BY <3>1
    <3> QED
      BY <1>3, <3>1, <3>2, <3>3, NapStays
  <2> QED
    BY <2>1, <2>2
<1> QED
  BY <1>2, <1>4, <1>5, <1>6 DEF FeedIInv

\* The pass reads the source anew.
LEMMA WakesStep == ASSUME FeedIInv, Wakes \/ Starts PROVE FeedIInv'
<1>1. /\ UNCHANGED <<source, wants, router, written, rev, view, changes, boot>>
      /\ sampler.at = "nap" /\ sampler \in SamplerType
  BY FeedTyped DEF Wakes, Starts, Resting
<1>7. permit' \in BOOLEAN
  <2>1. permit \in BOOLEAN
    BY FeedTyped
  <2>2. permit' = permit \/ permit' = FALSE
    BY DEF Wakes, Starts
  <2> QED
    BY <2>1, <2>2
<1>2. \/ source = "none" /\ sampler' = [Resting EXCEPT !.at = "plan"]
      \/ source # "none" /\ sampler' = [sampler EXCEPT !.at = "read", !.kind = source]
      \/ source # "none" /\ sampler' = [Resting EXCEPT !.at = "read", !.kind = source]
  BY DEF Wakes, Starts
<1>3. source \in Kinds /\ Resting \in SamplerType /\ Resting.kind = "none" /\ Resting.ok = TRUE
  BY FeedTyped DEF Resting, SamplerType, Kinds
<1>4. /\ sampler' \in SamplerType /\ sampler'.kind = source /\ sampler'.at \in {"read", "plan"}
      /\ sampler'.at = "plan" => sampler'.ok
  <2>1. CASE sampler' = [Resting EXCEPT !.at = "plan"] /\ source = "none"
    BY <2>1, <1>3 DEF SamplerType, Resting
  <2>2. CASE sampler' = [sampler EXCEPT !.at = "read", !.kind = source]
    BY <2>2, <1>1, <1>3 DEF SamplerType
  <2>3. CASE sampler' = [Resting EXCEPT !.at = "read", !.kind = source]
    BY <2>3, <1>3 DEF SamplerType, Resting
  <2> QED
    BY <1>2, <2>1, <2>2, <2>3
<1>5. FeedParts'
  BY <1>1, <1>4, <1>7, FeedTyped DEF FeedParts
<1>6. AnswersAreReal' /\ view' \in [Viewers -> ViewType] /\ written' = rev' + Unnumbered'
  BY <1>1, <1>4, FeedTyped DEF AnswersAreReal, Unnumbered
<1> QED
  BY <1>1, <1>4, <1>5, <1>6 DEF FeedIInv, PassKnowsSource, FailuresCounted, SampledAsWanted

LEMMA ReadsStep == ASSUME FeedIInv, Reads PROVE FeedIInv'
<1>1. /\ UNCHANGED <<source, wants, router, permit, rev, view, changes, boot>>
      /\ sampler.at = "read" /\ sampler \in SamplerType
  BY FeedTyped DEF Reads
<1>2. MaxFailures \in Nat \ {0} /\ MaxSamples \in Nat /\ written \in 0 .. MaxSamples /\ rev \in Nat /\ rev <= written
  BY FeedTyped
<1>3. CASE written < MaxSamples /\ sampler' = Succeeded(sampler) /\ written' = written + 1
  <2>1. sampler' \in SamplerType /\ sampler'.at = "bump" /\ sampler'.kind = sampler.kind
    <3> DEFINE failures == IF sampler.kind = "nmea" THEN 0 ELSE sampler.failures
    <3>1. failures \in 0 .. MaxFailures
      BY <1>1, <1>2 DEF SamplerType
    <3>2. sampler' = [sampler EXCEPT !.at = "bump", !.ok = TRUE, !.failures = failures]
      BY <1>3, Zenon DEF Succeeded
    <3> HIDE DEF failures
    <3> QED
      BY <1>1, <3>1, <3>2 DEF SamplerType
  <2>2. FeedParts'
    <3>1. written' \in 0 .. MaxSamples /\ rev' \in 0 .. written'
      BY <1>1, <1>2, <1>3
    <3> QED
      BY <1>1, <2>1, <3>1, FeedTyped DEF FeedParts
  <2>3. written' = rev' + Unnumbered'
    BY <1>1, <1>2, <1>3, <2>1, FeedTyped DEF Unnumbered
  <2>4. AnswersAreReal'
    <3> SUFFICES ASSUME NEW v \in Viewers
                 PROVE  /\ view[v].got.boot = boot => view[v].got.seq <= view[v].got.fix /\ view[v].got.fix <= written + 1
                        /\ view[v].at = "held" => view[v].seen = view[v].got.seq
      BY <1>1, <1>3 DEF AnswersAreReal
    <3>1. view[v].got.fix \in Nat
      BY FeedTyped DEF ViewType
    <3> QED
      BY <1>2, <3>1, FeedTyped DEF AnswersAreReal
  <2> QED
    <3>1. PassKnowsSource'
      BY <1>1, <2>1, FeedTyped DEF PassKnowsSource
    <3>2. sampler'.ok = TRUE
      BY <1>1, <1>3 DEF Succeeded, SamplerType
    <3>3. FailuresCounted' /\ SampledAsWanted'
      BY <2>1, <3>2 DEF FailuresCounted, SampledAsWanted
    <3> QED
      BY <2>2, <2>3, <2>4, <3>1, <3>3 DEF FeedIInv
<1>4. CASE /\ written' = written
           /\ sampler' = [sampler EXCEPT !.at = "plan", !.ok = FALSE,
                             !.failures = IF sampler.kind # "nmea" \/ @ = MaxFailures THEN @ ELSE @ + 1]
  <2> DEFINE failures == IF sampler.kind # "nmea" \/ sampler.failures = MaxFailures THEN sampler.failures ELSE sampler.failures + 1
  <2>1. sampler' = [sampler EXCEPT !.at = "plan", !.ok = FALSE, !.failures = failures]
    BY <1>1, <1>4 DEF SamplerType
  <2>2. failures \in 0 .. MaxFailures /\ (sampler.kind = "nmea" => failures > 0)
    BY <1>1, <1>2 DEF SamplerType
  <2> HIDE DEF failures
  <2>3. sampler' \in SamplerType /\ sampler'.at = "plan" /\ sampler'.kind = sampler.kind /\ sampler'.failures = failures
    BY <1>1, <2>1, <2>2 DEF SamplerType
  <2>4. FeedParts'
    BY <1>1, <1>4, <2>3, FeedTyped DEF FeedParts
  <2>5. written' = rev' + Unnumbered' /\ AnswersAreReal'
    BY <1>1, <1>4, <2>3, FeedTyped DEF Unnumbered, AnswersAreReal
  <2> QED
    BY <1>1, <2>2, <2>3, <2>4, <2>5, FeedTyped DEF FeedIInv, PassKnowsSource, FailuresCounted, SampledAsWanted
<1> QED
  BY <1>3, <1>4 DEF Reads

LEMMA BumpsStep == ASSUME FeedIInv, Bumps \/ RouterSamples PROVE FeedIInv'
<1>1. /\ UNCHANGED <<source, wants, permit, view, changes, boot>> /\ sampler \in SamplerType /\ router \in {"idle", "bump"}
      /\ written \in Nat /\ written' \in 0 .. MaxSamples /\ rev \in Nat /\ rev' \in Nat /\ rev <= rev' /\ written <= written'
      /\ written = rev + Unnumbered
  BY FeedTyped DEF Bumps, RouterSamples
<1>2. /\ sampler' \in SamplerType /\ sampler'.kind = sampler.kind /\ router' \in {"idle", "bump"}
      /\ sampler' = sampler \/ (sampler.at = "bump" /\ sampler'.at = "plan" /\ sampler'.failures = sampler.failures /\ sampler'.ok = sampler.ok)
  BY <1>1 DEF Bumps, RouterSamples, SamplerType
<1>3. written' = rev' + Unnumbered' /\ rev' <= written'
  <2>1. CASE Bumps
    BY <1>1, <1>2, <2>1 DEF Bumps, Unnumbered
  <2>2. CASE RouterSamples /\ router = "idle"
    BY <1>1, <1>2, <2>2 DEF RouterSamples, Unnumbered
  <2>3. CASE RouterSamples /\ router = "bump"
    BY <1>1, <1>2, <2>3 DEF RouterSamples, Unnumbered
  <2> QED
    BY <1>1, <2>1, <2>2, <2>3
<1>4. FeedParts'
  <2>1. \A v \in Viewers : view[v].seen \in 0 .. rev'
    BY <1>1, FeedTyped
  <2>2. rev' \in 0 .. written'
    BY <1>1, <1>3
  <2> QED
    BY <1>1, <1>2, <2>1, <2>2, FeedTyped DEF FeedParts
<1>5. AnswersAreReal'
  <2> SUFFICES ASSUME NEW v \in Viewers
               PROVE  /\ view[v].got.boot = boot => view[v].got.seq <= view[v].got.fix /\ view[v].got.fix <= written'
                      /\ view[v].at = "held" => view[v].seen = view[v].got.seq
    BY <1>1 DEF AnswersAreReal
  <2>1. view[v].got.fix \in Nat /\ written' \in Nat
    BY <1>1, FeedTyped DEF ViewType
  <2> QED
    BY <1>1, <2>1, FeedTyped DEF AnswersAreReal
<1>6. PassKnowsSource'
  BY <1>1, <1>2, FeedTyped DEF PassKnowsSource
<1>7. FailuresCounted'
  BY <1>1, <1>2, FeedTyped DEF FailuresCounted
<1>8. SampledAsWanted'
  <2>1. CASE sampler' = sampler
    BY <1>1, <2>1, FeedTyped, NapStays
  <2>2. CASE sampler' # sampler
    BY <1>2, <2>2 DEF SampledAsWanted
  <2> QED
    BY <2>1, <2>2
<1> QED
  BY <1>1, <1>3, <1>4, <1>5, <1>6, <1>7, <1>8, FeedTyped DEF FeedIInv

\* The nap is planned by what is wanted now.
LEMMA PlansStep == ASSUME FeedIInv, Plans PROVE FeedIInv'
<1> DEFINE asked == SampleSecs(wants.watch, wants.lease, Counted # {}, sampler.kind = "nmea")
           silent == ~sampler.ok /\ sampler.kind = "nmea"
           secs == IF silent THEN BackoffSecs(sampler.failures) ELSE asked
<1>1. /\ UNCHANGED <<source, wants, router, permit, written, rev, view, changes, boot>>
      /\ sampler.at = "plan" /\ sampler \in SamplerType
  BY FeedTyped DEF Plans
<1>2. sampler' = [sampler EXCEPT !.at = "nap", !.secs = secs]
  BY Zenon DEF Plans
<1>3. asked \in Nat
  BY DEF SampleSecs
<1>4. silent => /\ BackoffSecs(sampler.failures) \in Nat /\ BackoffSecs(sampler.failures) <= RetryCap
                /\ sampler.failures = 1 => BackoffSecs(sampler.failures) = RetryFirst
  <2>1. silent => sampler.failures \in Nat \ {0}
    BY <1>1, FeedTyped DEF FailuresCounted, SamplerType
  <2> QED
    BY <2>1, BackoffIsCapped
<1>5. sampler.kind = source => asked <= Wanted
  <2>1. sampler.kind = source => asked = SampleSecs(wants.watch, wants.lease, Counted # {}, source = "nmea")
    OBVIOUS
  <2> QED
    BY <2>1, NapIsWanted
<1> HIDE DEF asked
<1>6. secs \in Nat
  BY <1>3, <1>4
<1> HIDE DEF secs
<1>7. /\ sampler' \in SamplerType /\ sampler'.at = "nap" /\ sampler'.secs = secs
      /\ sampler'.kind = sampler.kind /\ sampler'.ok = sampler.ok /\ sampler'.failures = sampler.failures
  BY <1>1, <1>2, <1>6 DEF SamplerType
<1>8. FeedParts'
  BY <1>1, <1>7, FeedTyped DEF FeedParts
<1>9. AnswersAreReal' /\ written' = rev' + Unnumbered'
  BY <1>1, <1>7, FeedTyped DEF AnswersAreReal, Unnumbered
<1>10. PassKnowsSource' /\ FailuresCounted'
  BY <1>1, <1>7, FeedTyped DEF PassKnowsSource, FailuresCounted
<1>11. SampledAsWanted'
  <2>1. permit \/ sampler.kind = source
    BY <1>1, FeedTyped DEF PassKnowsSource
  <2>2. Wanted' = Wanted
    BY <1>1 DEF Wanted
  <2>3. CASE silent
    BY <1>1, <1>4, <1>7, <2>3 DEF SampledAsWanted, secs
  <2>4. CASE ~silent /\ ~permit
    <3>1. sampler'.kind = source' /\ sampler'.secs <= Wanted'
      BY <1>1, <1>5, <1>7, <2>1, <2>2, <2>4 DEF secs
    <3> QED
      BY <3>1 DEF SampledAsWanted
  <2>5. CASE permit
    BY <1>1, <2>5 DEF SampledAsWanted
  <2> QED
    BY <2>3, <2>4, <2>5
<1> QED
  BY <1>8, <1>9, <1>10, <1>11 DEF FeedIInv

\* A viewer's step: what becomes of one, when the rest stay.
LEMMA ViewerStep ==
    ASSUME FeedIInv, NEW v \in Viewers, NEW w \in ViewType, view' = [view EXCEPT ![v] = w],
           UNCHANGED <<source, wants, sampler, router, written, rev, changes, boot>>, permit' \in BOOLEAN, permit => permit',
           w.seen \in 0 .. rev, w.got.boot \in 0 .. boot,
           w.got.boot = boot => w.got.seq <= w.got.fix /\ w.got.fix <= written,
           w.at = "held" => w.seen = w.got.seq /\ permit'
    PROVE  FeedIInv'
<1>1. view \in [Viewers -> ViewType] /\ view' \in [Viewers -> ViewType]
  BY FeedTyped
<1>2. \A u \in Viewers : view'[u] = IF u = v THEN w ELSE view[u]
  BY <1>1
<1>3. FeedParts'
  <2>1. \A u \in Viewers : view'[u].seen \in 0 .. rev /\ view'[u].got.boot \in 0 .. boot
    BY <1>2, FeedTyped
  <2> QED
    BY <1>1, <2>1, FeedTyped DEF FeedParts
<1>4. AnswersAreReal'
  BY <1>2, FeedTyped DEF AnswersAreReal
<1>5. written' = rev' + Unnumbered'
  BY FeedTyped DEF Unnumbered
<1>6. PassKnowsSource' /\ FailuresCounted'
  BY FeedTyped DEF PassKnowsSource, FailuresCounted
<1>7. SampledAsWanted'
  <2>1. CASE permit'
    BY <2>1 DEF SampledAsWanted
  <2>2. CASE ~permit'
    <3>1. permit \in BOOLEAN
      BY FeedTyped
    <3>2. permit' = permit
      BY <2>2, <3>1
    <3>3. \A u \in Viewers : view'[u].at = "held" => \E x \in Viewers : view[x].at = "held"
      BY <1>2, <2>2
    <3>4. wants' \in [lease: BOOLEAN, watch: BOOLEAN] /\ wants' = wants
      BY FeedTyped
    <3> QED
      BY <3>2, <3>3, <3>4, NapStays
  <2> QED
    BY <2>1, <2>2
<1> QED
  BY <1>3, <1>4, <1>5, <1>6, <1>7 DEF FeedIInv

LEMMA ViewersStep ==
    ASSUME FeedIInv, NEW v \in Viewers, Asks(v) \/ Released(v) \/ Answered(v) \/ HangsUp(v)
    PROVE  FeedIInv'
<1>1. view[v] \in ViewType /\ view[v].seen \in 0 .. rev /\ view[v].got.boot \in 0 .. boot /\ view \in [Viewers -> ViewType]
  BY FeedTyped
<1>2. written \in 0 .. MaxSamples /\ rev \in Nat /\ rev <= written /\ MaxSamples \in Nat /\ boot \in Nat
  BY FeedTyped
<1>3. rev \in 0 .. MaxSamples /\ rev \in 0 .. rev /\ 0 \in 0 .. rev /\ 0 \in 0 .. MaxSamples /\ boot \in 0 .. boot
  BY <1>2
<1>4. view[v].got.boot = boot => view[v].got.seq <= view[v].got.fix /\ view[v].got.fix <= written
  BY FeedTyped DEF AnswersAreReal
<1>5. permit \in BOOLEAN
  BY FeedTyped
<1>6. CASE Asks(v)
  <2>1. PICK holds \in BOOLEAN :
           /\ view' = [view EXCEPT ![v].at = IF holds /\ view[v].got.seq = rev THEN "held" ELSE "reading", ![v].seen = rev]
           /\ permit' = (permit \/ (holds /\ view[v].got.seq = rev))
    BY <1>6, Zenon DEF Asks
  <2> DEFINE at == IF holds /\ view[v].got.seq = rev THEN "held" ELSE "reading"
             w == [view[v] EXCEPT !.at = at, !.seen = rev]
  <2>2. view' = [view EXCEPT ![v] = w]
    BY <1>1, <2>1
  <2>3. at \in {"held", "reading"} /\ (at = "held" => view[v].got.seq = rev)
    OBVIOUS
  <2>4. permit' \in BOOLEAN /\ (permit => permit') /\ (at = "held" => permit')
    BY <1>5, <2>1, Zenon
  <2> HIDE DEF at
  <2>5. w \in ViewType /\ w.seen = rev /\ w.got = view[v].got /\ w.at = at
    BY <1>1, <1>3, <2>3 DEF ViewType
  <2>6. UNCHANGED <<source, wants, sampler, router, written, rev, changes, boot>>
    BY <1>6 DEF Asks
  <2> HIDE DEF w
  <2> QED
    BY <1>1, <1>3, <1>4, <2>2, <2>3, <2>4, <2>5, <2>6, ViewerStep
<1>7. CASE Released(v)
  <2> DEFINE w == [view[v] EXCEPT !.at = "reading", !.seen = rev]
  <2>1. view' = [view EXCEPT ![v] = w] /\ UNCHANGED <<source, wants, sampler, router, permit, written, rev, changes, boot>>
    BY <1>1, <1>7 DEF Released
  <2>2. w \in ViewType /\ w.seen = rev /\ w.got = view[v].got /\ w.at = "reading"
    BY <1>1, <1>3 DEF ViewType
  <2> HIDE DEF w
  <2> QED
    BY <1>1, <1>3, <1>4, <1>5, <2>1, <2>2, ViewerStep
<1>8. CASE Answered(v)
  <2> DEFINE w == [at |-> "away", seen |-> 0, got |-> Answer(v)]
  <2>1. view' = [view EXCEPT ![v] = w] /\ UNCHANGED <<source, wants, sampler, router, permit, written, rev, changes, boot>>
    BY <1>8 DEF Answered
  <2>2. view[v].seen \in 0 .. MaxSamples /\ view[v].seen <= written
    BY <1>1, <1>2 DEF ViewType
  <2>3. w \in ViewType /\ w.seen = 0 /\ w.at = "away" /\ w.got.boot = boot /\ w.got.seq = view[v].seen /\ w.got.fix = written
    BY <1>2, <1>3, <2>2 DEF ViewType, Answer
  <2> HIDE DEF w
  <2>4. written <= written
    BY <1>2
  <2> QED
    BY <1>3, <1>5, <2>1, <2>2, <2>3, <2>4, ViewerStep
<1>9. CASE HangsUp(v)
  <2> DEFINE w == [view[v] EXCEPT !.at = "away", !.seen = 0]
  <2>1. view' = [view EXCEPT ![v] = w] /\ UNCHANGED <<source, wants, sampler, router, permit, written, rev, changes, boot>>
    BY <1>1, <1>9 DEF HangsUp
  <2>2. w \in ViewType /\ w.seen = 0 /\ w.got = view[v].got /\ w.at = "away"
    BY <1>1, <1>3 DEF ViewType
  <2> HIDE DEF w
  <2> QED
    BY <1>1, <1>3, <1>4, <1>5, <2>1, <2>2, ViewerStep
<1> QED
  BY <1>6, <1>7, <1>8, <1>9

\* A restart: the numbers of the last process are of another boot.
LEMMA FeedRestartStep == ASSUME FeedIInv, FeedRestart PROVE FeedIInv'
<1>1. /\ changes \in 0 .. MaxChanges /\ boot \in 1 .. (MaxChanges + 1) /\ boot <= changes + 1
      /\ MaxChanges \in Nat /\ MaxSamples \in Nat /\ MaxFailures \in Nat /\ source \in Kinds /\ view \in [Viewers -> ViewType]
      /\ \A v \in Viewers : view[v].got.boot \in 0 .. boot
  BY FeedTyped
<1>2. /\ changes < MaxChanges /\ changes' = changes + 1 /\ boot' = boot + 1 /\ source' = source
      /\ sampler' = Resting /\ router' = "idle" /\ written' = 0 /\ rev' = 0
  BY DEF FeedRestart
<1>11. view' = [v \in Viewers |-> [view[v] EXCEPT !.at = "away", !.seen = 0]]
  BY DEF FeedRestart
<1>10. permit' \in BOOLEAN /\ wants' \in [lease: BOOLEAN, watch: BOOLEAN]
  BY DEF FeedRestart
<1>3. changes' \in 0 .. MaxChanges /\ boot' \in 1 .. (MaxChanges + 1) /\ boot' <= changes' + 1
  <2>1. changes' = changes + 1 /\ boot' = boot + 1 /\ changes < MaxChanges
    BY <1>2
  <2>2. changes \in Nat /\ boot \in Nat
    BY <1>1
  <2>3. boot + 1 \in 1 .. (MaxChanges + 1) /\ boot + 1 <= (changes + 1) + 1 /\ changes + 1 \in 0 .. MaxChanges
    BY <1>1, <2>1, <2>2, NoMoreBoots, Zenon
  <2> QED
    BY <2>1, <2>3, Zenon
<1>4. /\ sampler' \in SamplerType /\ sampler'.at = "nap" /\ sampler'.ok = TRUE
  BY <1>1, <1>2 DEF Resting, SamplerType, Kinds
<1>5. ASSUME NEW v \in Viewers
      PROVE  /\ view'[v] \in ViewType /\ view'[v].at = "away" /\ view'[v].seen = 0 /\ view'[v].got = view[v].got
             /\ view'[v].got.boot \in 0 .. boot' /\ view'[v].got.boot # boot'
  <2>1. view[v] \in ViewType /\ view[v].got.boot \in 0 .. boot
    BY <1>1, <1>5
  <2>2. view'[v] = [view[v] EXCEPT !.at = "away", !.seen = 0]
    BY <1>11, <1>5
  <2>3. 0 \in 0 .. MaxSamples
    BY <1>1
  <2>4. view'[v] \in ViewType /\ view'[v].at = "away" /\ view'[v].seen = 0 /\ view'[v].got = view[v].got
    BY <2>1, <2>2, <2>3 DEF ViewType
  <2>5. view[v].got.boot \in 0 .. (boot + 1) /\ view[v].got.boot # boot + 1
    BY <1>1, <2>1
  <2> QED
    BY <1>2, <2>4, <2>5, Zenon
<1>6. view' \in [Viewers -> ViewType]
  <2>1. view' = [v \in Viewers |-> view'[v]]
    BY <1>11, Zenon
  <2>2. \A v \in Viewers : view'[v] \in ViewType
    BY <1>5
  <2> QED
    BY <2>1, <2>2, Zenon
<1>7. FeedParts'
  <2>1. written' \in 0 .. MaxSamples /\ rev' \in 0 .. written' /\ router' \in {"idle", "bump"}
    BY <1>1, <1>2
  <2>3. \A v \in Viewers : view'[v].seen \in 0 .. rev' /\ view'[v].got.boot \in 0 .. boot'
    BY <1>2, <1>5
  <2> QED
    BY <1>1, <1>2, <1>3, <1>4, <1>6, <1>10, <2>1, <2>3 DEF FeedParts
<1>8. AnswersAreReal'
  BY <1>5 DEF AnswersAreReal
<1>9. written' = rev' + Unnumbered'
  BY <1>2, <1>4 DEF Unnumbered
<1> QED
  BY <1>2, <1>4, <1>7, <1>8, <1>9 DEF FeedIInv, PassKnowsSource, FailuresCounted, SampledAsWanted

LEMMA FeedKept == FeedIInv /\ [FeedNext]_feedVars => FeedIInv'
<1> SUFFICES ASSUME FeedIInv, [FeedNext]_feedVars PROVE FeedIInv'
  OBVIOUS
<1>1. CASE UNCHANGED feedVars
  <2>1. /\ FeedParts' = FeedParts /\ Unnumbered' = Unnumbered /\ AnswersAreReal' = AnswersAreReal
        /\ PassKnowsSource' = PassKnowsSource /\ FailuresCounted' = FailuresCounted /\ SampledAsWanted' = SampledAsWanted
    BY <1>1, Zenon DEF feedVars, FeedParts, Unnumbered, AnswersAreReal, PassKnowsSource, FailuresCounted, SampledAsWanted, Wanted
  <2> QED
    BY <1>1, <2>1 DEF FeedIInv, feedVars
<1>2. CASE FeedNext
  BY <1>2, AskedStep, WakesStep, ReadsStep, BumpsStep, PlansStep, ViewersStep, FeedRestartStep DEF FeedNext
<1> QED
  BY <1>1, <1>2

\* FeedInv, of every step of the feed.
THEOREM ViewersAreCurrent == FeedSpec => []FeedInv
<1>1. FeedInit => FeedIInv
  BY FeedInitially
<1>2. FeedIInv /\ [FeedNext]_feedVars => FeedIInv'
  BY FeedKept
<1>3. FeedIInv => FeedInv
  BY TypesFollow, HeldHasIt DEF FeedIInv, FeedInv
<1> QED
  BY <1>1, <1>2, <1>3, PTL DEF FeedSpec

(***************************************************************************)
(* The search for feeds                                                    *)
(***************************************************************************)

ProbeType == [at: {"out", "queued", "connecting", "reading"}, since: 0..Deadline]
PassType == [at: {"sweep", "table", "retry", "over"}, since: 0..Deadline, retries: Nat, blind: BOOLEAN]
LanType == [takes: Nat, refuses: BOOLEAN, talks: BOOLEAN, named: BOOLEAN]

\* The parts of the types.
SearchParts ==
    /\ lan \in [Targets -> LanType] /\ clock \in 0..Deadline /\ pass \in PassType
    /\ pass.since <= clock /\ pass.retries <= Cardinality(Targets)
    /\ probe \in [Targets -> ProbeType] /\ found \in SUBSET Targets /\ slow \in SUBSET Targets
    /\ udp \in [at: {"listening", "skipped", "over"}, heard: BOOLEAN]
    /\ turn \in [Targets -> 0..(Deadline + 1)]

\* A feed the sweep has time to hear, and one it leaves to the retry.
Feed(t) == lan[t].talks /\ ~lan[t].refuses
Prompt(t) == Feed(t) /\ lan[t].takes <= FastConnect /\ turn[t] + lan[t].takes + ReadWindow < SweepDeadline
Late(t) ==
    /\ Feed(t) /\ turn[t] < SweepDeadline /\ turn[t] + FastConnect # SweepDeadline
    /\ lan[t].takes > FastConnect \/ turn[t] + FastConnect > SweepDeadline
Hoped(t) ==
    /\ Late(t) /\ lan[t].takes <= SlowConnect /\ lan[t].named
    /\ ~pass.blind /\ pass.retries <= RetryWidth

\* What the sweep has left of a target.
Settled(t) == (Prompt(t) => t \in found) /\ (Late(t) => t \in found \union slow)

\* A probe of the sweep: where it is tells when it got its turn, and nothing is overdue.
SweepOf(t) ==
    \/ probe[t].at = "queued" /\ turn[t] = Deadline + 1
    \/ /\ probe[t].at = "connecting" /\ probe[t].since = turn[t] /\ turn[t] + FastConnect <= SweepDeadline
       /\ clock <= turn[t] + lan[t].takes /\ clock <= turn[t] + FastConnect
    \/ /\ probe[t].at = "reading" /\ probe[t].since = turn[t] + lan[t].takes
       /\ lan[t].takes <= FastConnect /\ turn[t] + FastConnect <= SweepDeadline
       /\ clock <= probe[t].since + ReadWindow
    \/ probe[t] = Out /\ Settled(t)

\* A feed there is hope of, in the retry: it had its permit at once and has all the time it needs.
RetryOf(t) ==
    Hoped(t) /\ t \notin found =>
        \/ probe[t].at = "queued" /\ clock = pass.since
        \/ probe[t].at = "connecting" /\ probe[t].since = pass.since /\ clock <= pass.since + lan[t].takes
        \/ probe[t].at = "reading" /\ probe[t].since <= pass.since + SlowConnect /\ clock <= probe[t].since + ReadWindow

InPass == {t \in Targets : probe[t] # Out}

SweepHolds == pass.at = "sweep" => clock <= SweepDeadline /\ \A t \in Targets : SweepOf(t)
SweptHolds == pass.at # "sweep" => \A t \in Targets : Settled(t)
TableHolds == pass.at = "table" => pass.since <= SweepDeadline /\ clock <= pass.since + TableLimit
RetryHolds ==
    pass.at = "retry" =>
        /\ pass.since <= SweepDeadline + TableLimit
        /\ Cardinality(InPass) <= pass.retries
        /\ \A t \in Targets : RetryOf(t)
OverHolds == pass.at = "over" => \A t \in Targets : Hoped(t) => t \in found

SearchIInv == SearchParts /\ SweepHolds /\ SweptHolds /\ TableHolds /\ RetryHolds /\ OverHolds

-----------------------------------------------------------------------------

LEMMA SearchConstants ==
    /\ FastConnect \in Nat /\ SlowConnect \in Nat /\ ReadWindow \in Nat /\ SweepDeadline \in Nat /\ TableLimit \in Nat
    /\ Deadline \in Nat /\ UdpWindow \in Nat /\ SweepWidth \in Nat \ {0} /\ RetryWidth \in Nat \ {0}
    /\ FastConnect < SlowConnect /\ FastConnect <= ReadWindow
    /\ SweepDeadline + TableLimit + SlowConnect + ReadWindow < Deadline
    /\ IsFiniteSet(Targets) /\ Cardinality(Targets) \in Nat /\ LanKinds \subseteq LanType
BY SearchAssumption, FS_CardinalityType DEF LanType

LEMMA SearchTyped ==
    ASSUME SearchParts
    PROVE  /\ clock \in Nat /\ clock <= Deadline /\ pass \in PassType /\ pass.since \in Nat /\ pass.since <= clock /\ pass.retries \in Nat
           /\ \A t \in Targets :
                /\ lan[t] \in LanType /\ lan[t].takes \in Nat
                /\ probe[t] \in ProbeType /\ probe[t].since \in Nat
                /\ turn[t] \in Nat
<1>1. /\ clock \in 0 .. Deadline /\ pass \in PassType /\ pass.since <= clock
      /\ \A t \in Targets : lan[t] \in LanType /\ probe[t] \in ProbeType /\ turn[t] \in 0 .. (Deadline + 1)
  BY DEF SearchParts
<1>2. clock \in Nat /\ clock <= Deadline
  BY <1>1, SearchConstants
<1>3. pass.since \in Nat /\ pass.retries \in Nat
  BY <1>1, SearchConstants DEF PassType
<1>4. ASSUME NEW t \in Targets PROVE lan[t].takes \in Nat /\ probe[t].since \in Nat /\ turn[t] \in Nat
  BY <1>1, SearchConstants DEF LanType, ProbeType
<1> QED
  BY <1>1, <1>2, <1>3, <1>4

LEMMA SearchTypesFollow == SearchParts => SearchTypes
BY DEF SearchParts, SearchTypes, PassType, ProbeType

\* In what is still probed there is one more than holds a permit, while one waits.
LEMMA PermitsAreFew ==
    ASSUME SearchParts, NEW t \in Targets, probe[t].at = "queued"
    PROVE  Cardinality(Permits) \in Nat /\ Cardinality(InPass) \in Nat /\ Cardinality(Permits) < Cardinality(InPass)
<1>1. IsFiniteSet(InPass) /\ IsFiniteSet(Permits)
  BY SearchConstants, FS_Subset DEF InPass, Permits
<1>2. t \in InPass /\ Permits \subseteq InPass \ {t}
  BY DEF InPass, Permits, Out
<1>3. IsFiniteSet(InPass \ {t}) /\ Cardinality(InPass \ {t}) = Cardinality(InPass) - 1
  BY <1>1, <1>2, FS_RemoveElement
<1>4. Cardinality(Permits) <= Cardinality(InPass \ {t})
  BY <1>2, <1>3, FS_Subset
<1>5. Cardinality(Permits) \in Nat /\ Cardinality(InPass) \in Nat
  BY <1>1, FS_CardinalityType
<1> QED
  BY <1>3, <1>4, <1>5

LEMMA SearchInitially == SearchInit => SearchIInv
<1> SUFFICES ASSUME SearchInit PROVE SearchIInv
  OBVIOUS
<1>1. Queued \in ProbeType /\ Queued.at = "queued"
  BY SearchConstants DEF Queued, ProbeType
<1>2. pass \in PassType /\ pass.at = "sweep" /\ pass.since = 0 /\ pass.retries = 0 /\ clock = 0
  BY SearchConstants DEF SearchInit, PassType
<1>3. lan \in [Targets -> LanType] /\ probe \in [Targets -> ProbeType] /\ turn \in [Targets -> 0..(Deadline + 1)]
  <2>1. Deadline + 1 \in 0 .. (Deadline + 1)
    BY SearchConstants
  <2>2. lan \in [Targets -> LanKinds] /\ LanKinds \subseteq LanType
    BY SearchConstants DEF SearchInit
  <2>3. lan \in [Targets -> LanType]
    BY <2>2
  <2> QED
    BY <1>1, <2>1, <2>3 DEF SearchInit
<1>4. SearchParts
  <2>1. clock \in 0 .. Deadline /\ pass.since <= clock /\ pass.retries <= Cardinality(Targets)
    BY <1>2, SearchConstants
  <2>2. found \in SUBSET Targets /\ slow \in SUBSET Targets
    <3>1. found = {} /\ slow = {}
      BY DEF SearchInit
    <3> QED
      BY <3>1
  <2>3. udp \in [at: {"listening", "skipped", "over"}, heard: BOOLEAN]
    <3>1. udp = [at |-> "listening", heard |-> FALSE] \/ udp = [at |-> "skipped", heard |-> FALSE]
      BY DEF SearchInit
    <3>2. /\ [at |-> "listening", heard |-> FALSE] \in [at: {"listening", "skipped", "over"}, heard: BOOLEAN]
          /\ [at |-> "skipped", heard |-> FALSE] \in [at: {"listening", "skipped", "over"}, heard: BOOLEAN]
      OBVIOUS
    <3> QED
      BY <3>1, <3>2, Zenon
  <2> QED
    BY <1>2, <1>3, <2>1, <2>2, <2>3 DEF SearchParts
<1>5. SweepHolds
  <2>1. ASSUME NEW t \in Targets PROVE SweepOf(t)
    BY <1>1 DEF SearchInit, SweepOf
  <2> QED
    BY <1>2, <2>1, SearchConstants DEF SweepHolds
<1> QED
  BY <1>2, <1>4, <1>5 DEF SearchIInv, SweptHolds, TableHolds, RetryHolds, OverHolds

-----------------------------------------------------------------------------
(* A probe's step *)

\* What becomes of one probe, when nothing else stirs.
LEMMA ProbeStep ==
    ASSUME SearchIInv, Probing, NEW t \in Targets, NEW w \in ProbeType, probe[t] # Out, probe' = [probe EXCEPT ![t] = w],
           UNCHANGED <<lan, clock, pass, udp>>,
           found \subseteq found', slow \subseteq slow', found' \subseteq Targets, slow' \subseteq Targets,
           turn' = IF pass.at = "sweep" /\ probe[t].at = "queued" THEN [turn EXCEPT ![t] = clock] ELSE turn,
           pass.at = "sweep" => SweepOf(t)',
           pass.at = "retry" => RetryOf(t)'
    PROVE  SearchIInv'
<1>1. SearchParts /\ probe \in [Targets -> ProbeType] /\ turn \in [Targets -> 0 .. (Deadline + 1)]
  BY DEF SearchIInv, SearchParts
<1>2. clock \in 0 .. (Deadline + 1)
  BY <1>1, SearchTyped, SearchConstants
<1>3. /\ probe' \in [Targets -> ProbeType] /\ turn' \in [Targets -> 0 .. (Deadline + 1)]
      /\ \A u \in Targets : u # t => probe'[u] = probe[u] /\ turn'[u] = turn[u]
      /\ probe'[t] = w
  BY <1>1, <1>2
<1>4. SearchParts'
  BY <1>1, <1>3 DEF SearchParts
<1>5. SweepHolds'
  <2>1. ASSUME pass.at = "sweep", NEW u \in Targets, u # t PROVE SweepOf(u)'
    <3>1. SweepOf(u)
      BY <2>1 DEF SearchIInv, SweepHolds
    <3>2. Settled(u) => Settled(u)'
      BY <1>3, <2>1 DEF Settled, Prompt, Late, Feed
    <3> QED
      BY <1>3, <2>1, <3>1, <3>2 DEF SweepOf
  <2> QED
    BY <2>1 DEF SearchIInv, SweepHolds
<1>6. SweptHolds'
  <2>1. ASSUME pass.at # "sweep", NEW u \in Targets PROVE Settled(u)'
    BY <2>1 DEF SearchIInv, SweptHolds, Settled, Prompt, Late, Feed
  <2> QED
    BY <2>1 DEF SweptHolds
<1>7. RetryHolds'
  <2>1. CASE pass.at = "retry"
    <3>1. ASSUME NEW u \in Targets, u # t PROVE RetryOf(u)'
      <4>1. RetryOf(u)
        BY <2>1 DEF SearchIInv, RetryHolds
      <4>2. Hoped(u)' => Hoped(u)
        BY <2>1 DEF Hoped, Late, Feed
      <4> QED
        BY <1>3, <3>1, <4>1, <4>2 DEF RetryOf
    <3>2. InPass' \subseteq InPass /\ IsFiniteSet(InPass)
      BY <1>3, SearchConstants, FS_Subset DEF InPass
    <3>3. Cardinality(InPass') <= Cardinality(InPass) /\ Cardinality(InPass') \in Nat /\ Cardinality(InPass) \in Nat
      BY <3>2, FS_Subset, FS_CardinalityType
    <3>4. Cardinality(InPass) <= pass.retries /\ pass.retries \in Nat /\ pass.since <= SweepDeadline + TableLimit
      BY <1>1, <2>1, SearchTyped DEF SearchIInv, RetryHolds
    <3>5. Cardinality(InPass') <= pass.retries
      BY <3>3, <3>4
    <3> QED
      BY <2>1, <3>1, <3>4, <3>5 DEF RetryHolds
  <2> QED
    BY <2>1 DEF RetryHolds
<1>8. TableHolds' /\ OverHolds'
  BY DEF Probing, TableHolds, OverHolds
<1> QED
  BY <1>4, <1>5, <1>6, <1>7, <1>8 DEF SearchIInv

\* Sums in the order they are compared.
LEMMA Sums ==
    /\ \A g, k \in Nat : g + k + ReadWindow < SweepDeadline => g + FastConnect <= SweepDeadline
    /\ \A c, s \in Nat : s <= SweepDeadline + TableLimit =>
         /\ c <= s + SlowConnect => c + ReadWindow < Deadline /\ c < Deadline
         /\ s < Deadline /\ s + SlowConnect <= Deadline
BY SearchConstants

LEMMA TakesTurnStep == ASSUME SearchIInv, NEW t \in Targets, TakesTurn(t) PROVE SearchIInv'
<1>1. /\ Probing /\ probe[t].at = "queued" /\ UNCHANGED <<lan, clock, pass, found, udp>>
      /\ turn' = IF pass.at = "sweep" /\ probe[t].at = "queued" THEN [turn EXCEPT ![t] = clock] ELSE turn
  BY DEF TakesTurn
<1>2. SearchParts /\ probe \in [Targets -> ProbeType] /\ turn \in [Targets -> 0 .. (Deadline + 1)] /\ slow \subseteq Targets /\ found \subseteq Targets
  BY DEF SearchIInv, SearchParts
<1>3. /\ clock \in Nat /\ clock \in 0 .. Deadline /\ lan[t].takes \in Nat /\ pass.since \in Nat
  BY <1>2, SearchTyped DEF SearchParts
<1>4. probe[t] # Out
  BY <1>1 DEF Out
<1>5. pass.at = "sweep" => turn'[t] = clock
  BY <1>1, <1>2
<1>6. CASE clock + PatienceOf(pass.at) > DeadlineOf(pass.at)
  <2>1. probe' = [probe EXCEPT ![t] = Out] /\ slow' = slow \union {t} /\ Out \in ProbeType
    BY <1>6, SearchConstants DEF TakesTurn, Out, ProbeType
  <2>2. probe'[t] = Out
    BY <1>2, <2>1
  <2>3. ASSUME pass.at = "sweep" PROVE SweepOf(t)'
    <3>1. ~(clock + FastConnect <= SweepDeadline)
      BY <1>3, <1>6, <2>3, SearchConstants DEF PatienceOf, DeadlineOf
    <3>2. ~(clock + lan[t].takes + ReadWindow < SweepDeadline)
      BY <1>3, <3>1, Sums
    <3>3. ~Prompt(t)'
      BY <1>1, <1>5, <2>3, <3>2 DEF Prompt
    <3>4. t \in slow'
      BY <2>1
    <3> QED
      BY <2>2, <3>3, <3>4 DEF SweepOf, Settled
  <2>4. ASSUME pass.at = "retry" PROVE RetryOf(t)'
    <3>1. Hoped(t)' /\ t \notin found' => clock = pass.since /\ Hoped(t) /\ t \notin found
      <4>1. turn' = turn
        BY <1>1, <2>4
      <4>2. Hoped(t)' => Hoped(t)
        BY <1>1, <4>1 DEF Hoped, Late, Feed
      <4>3. RetryOf(t)
        BY <2>4 DEF SearchIInv, RetryHolds
      <4> QED
        BY <1>1, <4>2, <4>3 DEF RetryOf
    <3>2. pass.since <= SweepDeadline + TableLimit
      BY <2>4 DEF SearchIInv, RetryHolds
    <3>3. clock + SlowConnect > Deadline
      BY <1>6, <2>4 DEF PatienceOf, DeadlineOf
    <3>4. clock # pass.since
      BY <1>3, <3>2, <3>3, SearchConstants
    <3> QED
      BY <3>1, <3>4 DEF RetryOf
  <2> QED
    BY <1>1, <1>2, <1>4, <2>1, <2>3, <2>4, ProbeStep
<1>7. CASE ~(clock + PatienceOf(pass.at) > DeadlineOf(pass.at))
  <2> DEFINE w == [at |-> "connecting", since |-> clock]
  <2>1. probe' = [probe EXCEPT ![t] = w] /\ slow' = slow
    BY <1>7 DEF TakesTurn
  <2>2. w \in ProbeType /\ w.at = "connecting" /\ w.since = clock
    BY <1>3 DEF ProbeType
  <2> HIDE DEF w
  <2>3. probe'[t] = w
    BY <1>2, <2>1
  <2>4. clock <= clock + lan[t].takes /\ clock <= clock + FastConnect
    BY <1>3, SearchConstants
  <2>5. ASSUME pass.at = "sweep" PROVE SweepOf(t)'
    <3>1. clock + FastConnect <= SweepDeadline
      BY <1>3, <1>7, <2>5, SearchConstants DEF PatienceOf, DeadlineOf
    <3> QED
      BY <1>1, <1>5, <2>2, <2>3, <2>4, <2>5, <3>1 DEF SweepOf
  <2>6. ASSUME pass.at = "retry" PROVE RetryOf(t)'
    <3>1. Hoped(t)' /\ t \notin found' => clock = pass.since
      <4>1. turn' = turn
        BY <1>1, <2>6
      <4>2. Hoped(t)' => Hoped(t)
        BY <1>1, <4>1 DEF Hoped, Late, Feed
      <4>3. RetryOf(t)
        BY <2>6 DEF SearchIInv, RetryHolds
      <4> QED
        BY <1>1, <4>2, <4>3 DEF RetryOf
    <3> QED
      BY <1>1, <2>2, <2>3, <2>4, <3>1 DEF RetryOf
  <2> QED
    BY <1>1, <1>2, <1>4, <2>1, <2>2, <2>5, <2>6, ProbeStep
<1> QED
  BY <1>6, <1>7

LEMMA ConnectedStep == ASSUME SearchIInv, NEW t \in Targets, Connected(t) PROVE SearchIInv'
<1>1. Probing /\ probe[t].at = "connecting" /\ clock >= ConnectEnds(t) /\ UNCHANGED <<lan, clock, pass, found, udp, turn>>
  BY DEF Connected
<1>2. SearchParts /\ probe \in [Targets -> ProbeType] /\ slow \subseteq Targets /\ found \subseteq Targets
  BY DEF SearchIInv, SearchParts
<1>3. /\ clock \in Nat /\ clock \in 0 .. Deadline /\ lan[t].takes \in Nat /\ pass.since \in Nat /\ turn[t] \in Nat /\ probe[t].since \in Nat
  BY <1>2, SearchTyped DEF SearchParts
<1>4. probe[t] # Out /\ Out \in ProbeType /\ Out.at = "out"
  BY <1>1, SearchConstants DEF Out, ProbeType
<1>5. turn' = IF pass.at = "sweep" /\ probe[t].at = "queued" THEN [turn EXCEPT ![t] = clock] ELSE turn
  BY <1>1
<1>6. pass.at = "sweep" => /\ probe[t].since = turn[t] /\ turn[t] + FastConnect <= SweepDeadline
                           /\ clock <= turn[t] + lan[t].takes /\ clock <= turn[t] + FastConnect
  BY <1>1, <1>4 DEF SearchIInv, SweepHolds, SweepOf
<1>7. pass.at = "retry" /\ Hoped(t) /\ t \notin found => probe[t].since = pass.since /\ clock <= pass.since + lan[t].takes
  BY <1>1 DEF SearchIInv, RetryHolds, RetryOf
<1>8. (Hoped(t)' => Hoped(t)) /\ (Late(t)' => Late(t)) /\ (Prompt(t)' => Prompt(t))
  BY <1>1 DEF Hoped, Prompt, Late, Feed
<1>9. CASE lan[t].takes > PatienceOf(pass.at)
  <2>1. probe' = [probe EXCEPT ![t] = Out] /\ slow' = slow \union {t}
    BY <1>9 DEF Connected
  <2>2. probe'[t] = Out
    BY <1>2, <2>1
  <2>3. ASSUME pass.at = "sweep" PROVE SweepOf(t)'
    <3>1. ~Prompt(t)
      BY <1>3, <1>9, <2>3, SearchConstants DEF Prompt, PatienceOf
    <3> QED
      BY <1>8, <2>1, <2>2, <3>1 DEF SweepOf, Settled
  <2>4. ASSUME pass.at = "retry" PROVE RetryOf(t)'
    <3>1. ~Hoped(t)
      BY <1>3, <1>9, <2>4, SearchConstants DEF Hoped, PatienceOf
    <3> QED
      BY <1>8, <3>1 DEF RetryOf
  <2> QED
    BY <1>1, <1>2, <1>4, <1>5, <2>1, <2>3, <2>4, ProbeStep
<1>10. CASE lan[t].takes <= PatienceOf(pass.at) /\ lan[t].refuses
  <2>1. probe' = [probe EXCEPT ![t] = Out] /\ slow' = slow
    <3>1. ~(lan[t].takes > PatienceOf(pass.at))
      BY <1>3, <1>10, SearchConstants DEF PatienceOf
    <3> QED
      BY <1>10, <3>1 DEF Connected
  <2>2. probe'[t] = Out
    BY <1>2, <2>1
  <2>3. ~Feed(t)' 
    BY <1>1, <1>10 DEF Feed
  <2>4. SweepOf(t)'
    BY <2>2, <2>3 DEF SweepOf, Settled, Prompt, Late
  <2>5. RetryOf(t)'
    BY <2>3 DEF RetryOf, Hoped, Late
  <2> QED
    BY <1>1, <1>2, <1>4, <1>5, <2>1, <2>4, <2>5, ProbeStep
<1>11. CASE lan[t].takes <= PatienceOf(pass.at) /\ ~lan[t].refuses
  <2> DEFINE w == [at |-> "reading", since |-> clock]
  <2>1. probe' = [probe EXCEPT ![t] = w] /\ slow' = slow
    <3>1. ~(lan[t].takes > PatienceOf(pass.at))
      BY <1>3, <1>11, SearchConstants DEF PatienceOf
    <3> QED
      BY <1>11, <3>1 DEF Connected
  <2>2. w \in ProbeType /\ w.at = "reading" /\ w.since = clock
    BY <1>3 DEF ProbeType
  <2> HIDE DEF w
  <2>3. probe'[t] = w
    BY <1>2, <2>1
  <2>4. clock >= probe[t].since + lan[t].takes /\ clock <= clock + ReadWindow
    BY <1>1, <1>3, <1>11, SearchConstants DEF ConnectEnds
  <2>5. ASSUME pass.at = "sweep" PROVE SweepOf(t)'
    <3>1. clock = turn[t] + lan[t].takes /\ lan[t].takes <= FastConnect
      BY <1>3, <1>6, <1>11, <2>4, <2>5, SearchConstants DEF PatienceOf
    <3> QED
      BY <1>1, <1>6, <2>2, <2>3, <2>4, <2>5, <3>1 DEF SweepOf
  <2>6. ASSUME pass.at = "retry" PROVE RetryOf(t)'
    <3>1. Hoped(t)' /\ t \notin found' => clock <= pass.since + SlowConnect
      <4>1. Hoped(t)' /\ t \notin found' => clock <= pass.since + lan[t].takes
        BY <1>1, <1>7, <1>8, <2>6
      <4>2. lan[t].takes <= SlowConnect
        BY <1>11, <2>6 DEF PatienceOf
      <4> QED
        BY <1>3, <4>1, <4>2, SearchConstants
    <3> QED
      BY <1>1, <2>2, <2>3, <2>4, <3>1 DEF RetryOf
  <2> QED
    BY <1>1, <1>2, <1>4, <1>5, <2>1, <2>2, <2>5, <2>6, ProbeStep
<1> QED
  BY <1>3, <1>9, <1>10, <1>11, SearchConstants DEF PatienceOf

LEMMA ReadsOutStep == ASSUME SearchIInv, NEW t \in Targets, ReadsOut(t) PROVE SearchIInv'
<1>1. /\ Probing /\ probe[t].at = "reading" /\ (clock >= ReadEnds(t) \/ ~lan[t].talks)
      /\ UNCHANGED <<lan, clock, pass, slow, udp, turn>> /\ probe' = [probe EXCEPT ![t] = Out]
  BY DEF ReadsOut
<1>2. SearchParts /\ probe \in [Targets -> ProbeType] /\ slow \subseteq Targets /\ found \subseteq Targets
  BY DEF SearchIInv, SearchParts
<1>3. /\ clock \in Nat /\ lan[t].takes \in Nat /\ pass.since \in Nat /\ turn[t] \in Nat /\ probe[t].since \in Nat
  BY <1>2, SearchTyped
<1>4. probe[t] # Out /\ Out \in ProbeType /\ probe'[t] = Out
  BY <1>1, <1>2, SearchConstants DEF Out, ProbeType
<1>5. turn' = IF pass.at = "sweep" /\ probe[t].at = "queued" THEN [turn EXCEPT ![t] = clock] ELSE turn
  BY <1>1
<1>6. found \subseteq found' /\ found' \subseteq Targets
  BY <1>2 DEF ReadsOut
<1>7. \/ t \in found'
      \/ ~lan[t].talks
      \/ clock < probe[t].since + ReadWindow /\ clock >= ReadEnds(t)
  BY <1>1 DEF ReadsOut
<1>8. ASSUME pass.at = "sweep" PROVE SweepOf(t)'
  <2>1. /\ probe[t].since = turn[t] + lan[t].takes
        /\ lan[t].takes <= FastConnect /\ turn[t] + FastConnect <= SweepDeadline
        /\ clock <= probe[t].since + ReadWindow /\ clock <= SweepDeadline
    BY <1>1, <1>4, <1>8 DEF SearchIInv, SweepHolds, SweepOf
  <2>2. ~Late(t)
    BY <1>3, <2>1, SearchConstants DEF Late
  <2>3. t \in found' \/ ~Prompt(t)
    <3>1. CASE ~lan[t].talks
      BY <3>1 DEF Prompt, Feed
    <3>2. CASE clock < probe[t].since + ReadWindow /\ clock >= ReadEnds(t)
      <4>1. clock >= SweepDeadline
        BY <1>3, <1>8, <3>2, SearchConstants DEF ReadEnds, DeadlineOf
      <4> QED
        BY <1>3, <2>1, <3>2, <4>1, SearchConstants DEF Prompt
    <3> QED
      BY <1>7, <3>1, <3>2
  <2>4. (Late(t)' => Late(t)) /\ (Prompt(t)' => Prompt(t))
    BY <1>1 DEF Prompt, Late, Feed
  <2> QED
    BY <1>4, <2>2, <2>3, <2>4 DEF SweepOf, Settled
<1>9. ASSUME pass.at = "retry" PROVE RetryOf(t)'
  <2>1. Hoped(t)' => Hoped(t)
    BY <1>1 DEF Hoped, Late, Feed
  <2>2. Hoped(t) /\ t \notin found => probe[t].since <= pass.since + SlowConnect
    BY <1>1, <1>9 DEF SearchIInv, RetryHolds, RetryOf
  <2>3. pass.since <= SweepDeadline + TableLimit
    BY <1>9 DEF SearchIInv, RetryHolds
  <2>4. Hoped(t) => t \in found'
    <3>1. CASE ~lan[t].talks
      BY <3>1 DEF Hoped, Late, Feed
    <3>2. CASE clock < probe[t].since + ReadWindow /\ clock >= ReadEnds(t) /\ t \notin found /\ Hoped(t)
      <4>1. probe[t].since + ReadWindow < Deadline
        BY <1>3, <2>2, <2>3, <3>2, Sums
      <4>2. ReadEnds(t) = probe[t].since + ReadWindow
        BY <1>9, <4>1 DEF ReadEnds, DeadlineOf
      <4> QED
        BY <1>3, <3>2, <4>2, SearchConstants
    <3> QED
      BY <1>6, <1>7, <3>1, <3>2
  <2> QED
    BY <2>1, <2>4 DEF RetryOf
<1> QED
  BY <1>1, <1>2, <1>4, <1>5, <1>6, <1>8, <1>9, ProbeStep

-----------------------------------------------------------------------------
(* The passes *)

\* At the end of the sweep every target is settled: what its deadline cuts off is neither a feed it had
\* time for nor one it owes the retry.
LEMMA SweepSettles ==
    ASSUME SearchIInv, pass.at = "sweep", (\A t \in Targets : probe[t] = Out) \/ clock = SweepDeadline, NEW t \in Targets
    PROVE  Settled(t)
<1>1. SearchParts
  BY DEF SearchIInv
<1>2. /\ clock \in Nat /\ lan[t].takes \in Nat /\ turn[t] \in Nat /\ probe[t].since \in Nat
  BY <1>1, SearchTyped
<1>3. SweepOf(t) /\ clock <= SweepDeadline
  BY DEF SearchIInv, SweepHolds
<1>4. Out.at = "out"
  BY DEF Out
<1>5. CASE probe[t].at = "queued" /\ turn[t] = Deadline + 1
  BY <1>2, <1>5, SearchConstants DEF Settled, Prompt, Late
<1>6. CASE /\ probe[t].at = "connecting" /\ probe[t].since = turn[t] /\ turn[t] + FastConnect <= SweepDeadline
           /\ clock <= turn[t] + lan[t].takes /\ clock <= turn[t] + FastConnect
  <2>1. turn[t] + FastConnect = SweepDeadline /\ FastConnect <= lan[t].takes
    BY <1>2, <1>4, <1>6, SearchConstants
  <2>2. ~Late(t)
    BY <2>1 DEF Late
  <2>3. ~Prompt(t)
    <3>1. ~(turn[t] + lan[t].takes + ReadWindow < SweepDeadline)
      BY <1>2, <2>1, SearchConstants
    <3> QED
      BY <3>1 DEF Prompt
  <2> QED
    BY <2>2, <2>3 DEF Settled
<1>7. CASE /\ probe[t].at = "reading" /\ probe[t].since = turn[t] + lan[t].takes
           /\ lan[t].takes <= FastConnect /\ turn[t] + FastConnect <= SweepDeadline
           /\ clock <= probe[t].since + ReadWindow
  <2>1. ~(turn[t] + lan[t].takes + ReadWindow < SweepDeadline)
    BY <1>2, <1>4, <1>7, SearchConstants
  <2>2. ~Late(t)
    BY <1>2, <1>7, SearchConstants DEF Late
  <2> QED
    BY <2>1, <2>2 DEF Settled, Prompt
<1> QED
  BY <1>3, <1>5, <1>6, <1>7 DEF SweepOf

LEMMA PassEndsStep == ASSUME SearchIInv, PassEnds PROVE SearchIInv'
<1>1. /\ Probing /\ UNCHANGED <<lan, clock, found, slow, udp, turn>>
      /\ (\A t \in Targets : probe[t] = Out) \/ clock = DeadlineOf(pass.at)
      /\ probe' = [t \in Targets |-> Out]
  BY DEF PassEnds
<1>2. SearchParts /\ Out \in ProbeType
  BY SearchConstants DEF SearchIInv, Out, ProbeType
<1>3. clock \in 0 .. Deadline /\ clock \in Nat /\ pass \in PassType /\ pass.since \in Nat
  BY <1>2, SearchTyped DEF SearchParts
<1>4. pass' = [pass EXCEPT !.at = IF pass.at = "sweep" THEN "table" ELSE "over", !.since = clock]
  BY Zenon DEF PassEnds
<1>5. /\ pass' \in PassType /\ pass'.since = clock /\ pass'.retries = pass.retries /\ pass'.blind = pass.blind
      /\ pass'.at = IF pass.at = "sweep" THEN "table" ELSE "over"
  BY <1>3, <1>4 DEF PassType
<1>6. SearchParts'
  <2>1. probe' \in [Targets -> ProbeType]
    BY <1>1, <1>2
  <2>2. pass'.since <= clock'
    BY <1>1, <1>3, <1>5
  <2> QED
    BY <1>1, <1>2, <1>5, <2>1, <2>2 DEF SearchParts
<1>7. \A t \in Targets : Settled(t)
  <2>1. CASE pass.at = "sweep"
    BY <1>1, <2>1, SweepSettles DEF DeadlineOf
  <2>2. CASE pass.at # "sweep"
    BY <2>2 DEF SearchIInv, SweptHolds
  <2> QED
    BY <2>1, <2>2
<1>8. SweepHolds' /\ SweptHolds' /\ RetryHolds'
  BY <1>1, <1>5, <1>7 DEF SweepHolds, SweptHolds, RetryHolds, Settled, Prompt, Late, Feed
<1>9. TableHolds'
  <2>1. pass.at = "sweep" => clock <= SweepDeadline
    BY DEF SearchIInv, SweepHolds
  <2>2. clock <= clock + TableLimit
    BY <1>3, SearchConstants
  <2> QED
    BY <1>1, <1>5, <2>1, <2>2 DEF TableHolds
<1>10. OverHolds'
  <2>1. ASSUME pass.at = "retry", NEW t \in Targets, Hoped(t) PROVE t \in found
    <3>1. SUFFICES ASSUME t \notin found PROVE FALSE
      OBVIOUS
    <3>2. RetryOf(t) /\ pass.since <= SweepDeadline + TableLimit
      BY <2>1 DEF SearchIInv, RetryHolds
    <3>3. lan[t].takes <= SlowConnect /\ lan[t].takes \in Nat /\ probe[t].since \in Nat
      BY <1>2, <2>1, SearchTyped DEF Hoped
    <3>4. probe[t] # Out
      BY <2>1, <3>1, <3>2 DEF RetryOf, Out
    <3>5. clock = Deadline
      BY <1>1, <2>1, <3>4 DEF DeadlineOf
    <3>6. \/ clock = pass.since
          \/ clock <= pass.since + lan[t].takes
          \/ probe[t].since <= pass.since + SlowConnect /\ clock <= probe[t].since + ReadWindow
      BY <2>1, <3>1, <3>2 DEF RetryOf
    <3> QED
      BY <1>3, <3>2, <3>3, <3>5, <3>6, SearchConstants
  <2>2. pass'.at = "over" => pass.at = "retry"
    BY <1>1, <1>5 DEF Probing
  <2>3. ASSUME NEW t \in Targets PROVE Hoped(t)' => Hoped(t)
    BY <1>1, <1>5 DEF Hoped, Late, Feed
  <2> QED
    BY <1>1, <2>1, <2>2, <2>3 DEF OverHolds
<1> QED
  BY <1>6, <1>8, <1>9, <1>10 DEF SearchIInv

LEMMA TableReadStep == ASSUME SearchIInv, TableRead PROVE SearchIInv'
<1>1. pass.at = "table" /\ UNCHANGED <<lan, clock, found, slow, udp, turn>>
  BY DEF TableRead
<1>2. PICK failed \in BOOLEAN :
         LET table == IF failed THEN {} ELSE {t \in Targets : lan[t].named}
             retry == RetryTargets(table) IN
         /\ pass' = [at |-> "retry", since |-> clock, retries |-> Cardinality(retry), blind |-> failed]
         /\ probe' = [t \in Targets |-> IF t \in retry THEN Queued ELSE Out]
  BY DEF TableRead
<1> DEFINE table == IF failed THEN {} ELSE {t \in Targets : lan[t].named}
           retry == RetryTargets(table)
<1>3. SearchParts /\ found \subseteq Targets /\ slow \subseteq Targets
  BY DEF SearchIInv, SearchParts
<1>4. clock \in 0 .. Deadline /\ clock \in Nat /\ pass.since \in Nat
  BY <1>3, SearchTyped DEF SearchParts
<1>5. retry \subseteq Targets /\ retry \subseteq slow
  BY <1>3 DEF RetryTargets
<1>6. ASSUME ~failed, NEW t \in Targets, t \in slow, t \notin found, lan[t].named PROVE t \in retry
  BY <1>6 DEF RetryTargets
<1> HIDE DEF retry
<1>7. Cardinality(retry) \in Nat /\ Cardinality(retry) <= Cardinality(Targets)
  BY <1>5, SearchConstants, FS_Subset, FS_CardinalityType
<1>8. /\ pass' \in PassType /\ pass'.at = "retry" /\ pass'.since = clock /\ pass'.retries = Cardinality(retry)
      /\ pass'.blind = failed
  BY <1>2, <1>4, <1>7 DEF PassType, retry
<1>9. probe' = [t \in Targets |-> IF t \in retry THEN Queued ELSE Out]
  BY <1>2 DEF retry
<1>10. Out \in ProbeType /\ Queued \in ProbeType /\ Out.at = "out" /\ Queued.at = "queued"
  BY SearchConstants DEF Out, Queued, ProbeType
<1>11. SearchParts'
  <2>1. probe' \in [Targets -> ProbeType]
    BY <1>9, <1>10
  <2>2. pass'.since <= clock' /\ pass'.retries <= Cardinality(Targets)
    BY <1>1, <1>4, <1>7, <1>8
  <2> QED
    BY <1>1, <1>3, <1>8, <2>1, <2>2 DEF SearchParts
<1>12. SweptHolds' /\ SweepHolds' /\ TableHolds' /\ OverHolds'
  BY <1>1, <1>8 DEF SearchIInv, SweptHolds, SweepHolds, TableHolds, OverHolds, Settled, Prompt, Late, Feed
<1>13. RetryHolds'
  <2>1. clock <= SweepDeadline + TableLimit
    BY <1>1, <1>4, SearchConstants DEF SearchIInv, TableHolds
  <2>2. InPass' = retry
    BY <1>5, <1>9, <1>10 DEF InPass
  <2>3. Cardinality(InPass') <= pass'.retries
    BY <1>7, <1>8, <2>2
  <2>4. ASSUME NEW t \in Targets PROVE RetryOf(t)'
    <3>1. Hoped(t)' /\ t \notin found' => probe'[t] = Queued
      <4>1. Settled(t)
        BY <1>1 DEF SearchIInv, SweptHolds
      <4>2. Hoped(t)' => Late(t) /\ lan[t].named /\ ~failed
        BY <1>1, <1>8 DEF Hoped, Late, Feed
      <4> QED
        BY <1>1, <1>6, <1>9, <4>1, <4>2 DEF Settled
    <3> QED
      BY <1>1, <1>8, <1>10, <3>1 DEF RetryOf
  <2> QED
    BY <1>1, <1>8, <2>1, <2>3, <2>4 DEF RetryHolds
<1> QED
  BY <1>11, <1>12, <1>13 DEF SearchIInv

-----------------------------------------------------------------------------
(* The listen, and time *)

LEMMA SearchAside ==
    ASSUME UNCHANGED <<lan, clock, pass, probe, found, slow, turn>>
    PROVE  /\ SweepHolds' = SweepHolds /\ SweptHolds' = SweptHolds /\ TableHolds' = TableHolds
           /\ RetryHolds' = RetryHolds /\ OverHolds' = OverHolds
<1>1. ASSUME NEW t \in Targets
      PROVE  /\ Settled(t)' = Settled(t) /\ Hoped(t)' = Hoped(t) /\ SweepOf(t)' = SweepOf(t) /\ RetryOf(t)' = RetryOf(t)
  <2>1. Prompt(t)' = Prompt(t) /\ Late(t)' = Late(t) /\ Hoped(t)' = Hoped(t)
    BY Zenon DEF Prompt, Late, Hoped, Feed
  <2>2. Settled(t)' = Settled(t)
    BY <2>1, Zenon DEF Settled
  <2>3. SweepOf(t)' = SweepOf(t)
    BY <2>2, Zenon DEF SweepOf
  <2>4. RetryOf(t)' = RetryOf(t)
    BY <2>1, Zenon DEF RetryOf
  <2> QED
    BY <2>1, <2>2, <2>3, <2>4
<1>2. InPass' = InPass
  BY Zenon DEF InPass
<1>3. SweepHolds' = SweepHolds
  BY <1>1, Zenon DEF SweepHolds
<1>4. SweptHolds' = SweptHolds
  BY <1>1, Zenon DEF SweptHolds
<1>5. TableHolds' = TableHolds
  BY Zenon DEF TableHolds
<1>6. RetryHolds' = RetryHolds
  BY <1>1, <1>2, Zenon DEF RetryHolds
<1>7. OverHolds' = OverHolds
  BY <1>1, Zenon DEF OverHolds
<1> QED
  BY <1>3, <1>4, <1>5, <1>6, <1>7

LEMMA ListenStep == ASSUME SearchIInv, Datagram \/ ListenEnds PROVE SearchIInv'
<1>1. UNCHANGED <<lan, clock, pass, probe, found, slow, turn>>
  BY DEF Datagram, ListenEnds
<1>2. SearchParts'
  <2>1. udp \in [at: {"listening", "skipped", "over"}, heard: BOOLEAN]
    BY DEF SearchIInv, SearchParts
  <2>2. udp' \in [at: {"listening", "skipped", "over"}, heard: BOOLEAN]
    BY <2>1 DEF Datagram, ListenEnds
  <2> QED
    BY <1>1, <2>2 DEF SearchIInv, SearchParts
<1>3. /\ SweepHolds' = SweepHolds /\ SweptHolds' = SweptHolds /\ TableHolds' = TableHolds
      /\ RetryHolds' = RetryHolds /\ OverHolds' = OverHolds
  BY <1>1, SearchAside
<1> QED
  BY <1>2, <1>3 DEF SearchIInv

LEMMA SearchTickStep == ASSUME SearchIInv, SearchTick PROVE SearchIInv'
<1>1. /\ ~SearchDue /\ clock < Deadline /\ clock' = clock + 1
      /\ UNCHANGED <<lan, pass, probe, found, slow, udp, turn>>
  BY DEF SearchTick
<1>2. SearchParts
  BY DEF SearchIInv
<1>3. clock \in Nat /\ clock' \in Nat /\ pass.since \in Nat /\ pass.since <= clock /\ pass.retries \in Nat
  BY <1>1, <1>2, SearchTyped
<1>4. SearchParts'
  <2>1. clock' \in 0 .. Deadline /\ pass'.since <= clock'
    BY <1>1, <1>3, SearchConstants
  <2> QED
    BY <1>1, <1>2, <2>1 DEF SearchParts
<1>5. \A t \in Targets : Settled(t) => Settled(t)'
  BY <1>1 DEF Settled, Prompt, Late, Feed
<1>6. SweepHolds'
  <2>1. CASE pass.at = "sweep"
    <3>1. Probing /\ DeadlineOf(pass.at) = SweepDeadline /\ PatienceOf(pass.at) = FastConnect
      BY <2>1 DEF Probing, DeadlineOf, PatienceOf
    <3>2. clock # SweepDeadline /\ clock <= SweepDeadline
      BY <1>1, <2>1, <3>1 DEF SearchDue, SearchIInv, SweepHolds
    <3>3. clock' <= SweepDeadline
      BY <1>1, <1>3, <3>2, SearchConstants
    <3>4. ASSUME NEW t \in Targets PROVE SweepOf(t)'
      <4>1. SweepOf(t) /\ (Settled(t) => Settled(t)')
        BY <1>5, <2>1 DEF SearchIInv, SweepHolds
      <4>2. lan[t].takes \in Nat /\ turn[t] \in Nat /\ probe[t].since \in Nat
        BY <1>2, SearchTyped
      <4>3. CASE probe[t].at = "connecting" /\ probe[t].since = turn[t] /\ turn[t] + FastConnect <= SweepDeadline
        <5>1. ~(clock >= ConnectEnds(t))
          BY <1>1, <3>1, <4>3 DEF SearchDue
        <5>2. clock + 1 <= turn[t] + lan[t].takes /\ clock + 1 <= turn[t] + FastConnect
          BY <1>3, <3>1, <4>2, <4>3, <5>1, SearchConstants DEF ConnectEnds
        <5> QED
          BY <1>1, <4>3, <5>2 DEF SweepOf
      <4>4. CASE /\ probe[t].at = "reading" /\ probe[t].since = turn[t] + lan[t].takes
                 /\ lan[t].takes <= FastConnect /\ turn[t] + FastConnect <= SweepDeadline
        <5>1. ~(clock >= ReadEnds(t))
          BY <1>1, <3>1, <4>4 DEF SearchDue
        <5>2. clock + 1 <= probe[t].since + ReadWindow
          BY <1>3, <3>1, <4>2, <5>1, SearchConstants DEF ReadEnds
        <5> QED
          BY <1>1, <4>4, <5>2 DEF SweepOf
      <4>5. CASE probe[t].at = "queued" /\ turn[t] = Deadline + 1
        BY <1>1, <4>5 DEF SweepOf
      <4>6. CASE probe[t] = Out /\ Settled(t)
        BY <1>1, <4>1, <4>6 DEF SweepOf
      <4> QED
        BY <4>1, <4>3, <4>4, <4>5, <4>6 DEF SweepOf
    <3> QED
      BY <3>3, <3>4 DEF SweepHolds
  <2>2. CASE pass.at # "sweep"
    BY <1>1, <2>2 DEF SweepHolds
  <2> QED
    BY <2>1, <2>2
<1>7. SweptHolds' /\ OverHolds'
  BY <1>1, <1>5 DEF SearchIInv, SweptHolds, OverHolds, Hoped, Late, Feed
<1>8. TableHolds'
  <2>1. CASE pass.at = "table"
    <3>1. clock # pass.since + TableLimit /\ clock <= pass.since + TableLimit /\ pass.since <= SweepDeadline
      BY <1>1, <2>1 DEF SearchDue, SearchIInv, TableHolds
    <3>2. clock + 1 <= pass.since + TableLimit
      BY <1>3, <3>1, SearchConstants
    <3> QED
      BY <1>1, <3>1, <3>2 DEF TableHolds
  <2>2. CASE pass.at # "table"
    BY <1>1, <2>2 DEF TableHolds
  <2> QED
    BY <2>1, <2>2
<1>9. RetryHolds'
  <2>1. CASE pass.at = "retry"
    <3>1. Probing /\ DeadlineOf(pass.at) = Deadline /\ PatienceOf(pass.at) = SlowConnect /\ WidthOf(pass.at) = RetryWidth
      BY <2>1 DEF Probing, DeadlineOf, PatienceOf, WidthOf
    <3>2. Cardinality(InPass) <= pass.retries /\ pass.since <= SweepDeadline + TableLimit
      BY <2>1 DEF SearchIInv, RetryHolds
    <3>3. InPass' = InPass
      BY <1>1 DEF InPass
    <3>4. ASSUME NEW t \in Targets PROVE RetryOf(t)'
      <4>1. SUFFICES ASSUME Hoped(t), t \notin found
                     PROVE  RetryOf(t)'
        <5>1. Hoped(t)' => Hoped(t)
          BY <1>1 DEF Hoped, Late, Feed
        <5> QED
          BY <1>1, <5>1 DEF RetryOf
      <4>2. RetryOf(t)
        BY <2>1 DEF SearchIInv, RetryHolds
      <4>3. lan[t].takes \in Nat /\ probe[t].since \in Nat /\ lan[t].takes <= SlowConnect /\ pass.retries <= RetryWidth
        BY <1>2, <4>1, SearchTyped DEF Hoped
      <4>4. CASE probe[t].at = "queued"
        <5>1. ~(Cardinality(Permits) < RetryWidth)
          BY <1>1, <3>1, <4>4 DEF SearchDue
        <5>2. Cardinality(Permits) \in Nat /\ Cardinality(InPass) \in Nat /\ Cardinality(Permits) < Cardinality(InPass)
          BY <1>2, <4>4, PermitsAreFew
        <5> QED
          BY <1>3, <3>2, <4>3, <5>1, <5>2, SearchConstants
      <4>5. CASE probe[t].at = "connecting" /\ probe[t].since = pass.since
        <5>1. ~(clock >= ConnectEnds(t))
          BY <1>1, <3>1, <4>5 DEF SearchDue
        <5>2. clock + 1 <= pass.since + lan[t].takes
          BY <1>3, <3>1, <4>3, <4>5, <5>1, SearchConstants DEF ConnectEnds
        <5> QED
          BY <1>1, <4>5, <5>2 DEF RetryOf
      <4>6. CASE probe[t].at = "reading" /\ probe[t].since <= pass.since + SlowConnect
        <5>1. ~(clock >= ReadEnds(t))
          BY <1>1, <3>1, <4>6 DEF SearchDue
        <5>2. clock + 1 <= probe[t].since + ReadWindow
          BY <1>3, <3>1, <4>3, <5>1, SearchConstants DEF ReadEnds
        <5> QED
          BY <1>1, <4>6, <5>2 DEF RetryOf
      <4> QED
        BY <4>1, <4>2, <4>4, <4>5, <4>6 DEF RetryOf
    <3> QED
      BY <1>1, <3>2, <3>3, <3>4 DEF RetryHolds
  <2>2. CASE pass.at # "retry"
    BY <1>1, <2>2 DEF RetryHolds
  <2> QED
    BY <2>1, <2>2
<1> QED
  BY <1>4, <1>6, <1>7, <1>8, <1>9 DEF SearchIInv

LEMMA SearchKept == SearchIInv /\ [SearchNext]_searchVars => SearchIInv'
<1> SUFFICES ASSUME SearchIInv, [SearchNext]_searchVars PROVE SearchIInv'
  OBVIOUS
<1>1. CASE UNCHANGED searchVars
  <2>1. SearchParts' = SearchParts
    BY <1>1, Zenon DEF searchVars, SearchParts
  <2>2. UNCHANGED <<lan, clock, pass, probe, found, slow, turn>>
    BY <1>1 DEF searchVars
  <2>3. /\ SweepHolds' = SweepHolds /\ SweptHolds' = SweptHolds /\ TableHolds' = TableHolds
        /\ RetryHolds' = RetryHolds /\ OverHolds' = OverHolds
    BY <2>2, SearchAside
  <2> QED
    BY <2>1, <2>3 DEF SearchIInv
<1>2. CASE SearchNext
  BY <1>2, TakesTurnStep, ConnectedStep, ReadsOutStep, PassEndsStep, TableReadStep, ListenStep, SearchTickStep DEF SearchNext
<1> QED
  BY <1>1, <1>2

LEMMA OverIsFound == SearchIInv => FeedsAreFound
<1> SUFFICES ASSUME SearchIInv, pass.at = "over", NEW t \in Targets, lan[t].talks, ~lan[t].refuses
             PROVE  (Prompt(t) => t \in found) /\ (Hoped(t) => t \in found)
  BY DEF FeedsAreFound, Prompt, Hoped, Late, Feed
<1> QED
  BY DEF SearchIInv, SweptHolds, OverHolds, Settled

\* SearchInv, of every step of the search.
THEOREM FeedsGetHeard == SearchSpec => []SearchInv
<1>1. SearchInit => SearchIInv
  BY SearchInitially
<1>2. SearchIInv /\ [SearchNext]_searchVars => SearchIInv'
  BY SearchKept
<1>3. SearchIInv => SearchInv
  BY SearchTypesFollow, OverIsFound DEF SearchIInv, SearchInv
<1> QED
  BY <1>1, <1>2, <1>3, PTL DEF SearchSpec

-----------------------------------------------------------------------------
(* One poll of a feed *)

Polling == poll \in {"tcp", "udp"}

Words == {"none", "fix", "silent", "acquiring", "unreachable"}

NmeaTyped ==
    /\ poll \in {"idle", "tcp", "udp", "done"}
    /\ joined \in 1 .. 2
    /\ text \in [from: Nat, to: 0 .. MaxPieces + ReadMost]
    /\ sent \in [1 .. SentenceAt(text.to) -> Sentences]
    /\ outcome.word \in Words

\* What is kept is the end of what the poll was given, and never all thrown away.
KeepsTheEnd ==
    /\ joined <= text.from
    /\ text.from <= text.to \/ (text.from = joined /\ text.to = joined - 1)
    /\ text.to - text.from < Room + ReadMost /\ (poll # "done" => text.to - text.from < Room)

\* A datagram is whole.
WholeDatagrams == poll = "udp" => text.to % 2 = 0

\* A poll goes on as long as it has heard nothing.
GoesOn ==
    /\ Polling => Heard("RMC") = {} /\ Heard("GGA") = {}
    /\ poll # "done" => outcome.word = "none"
    /\ poll = "idle" => text = Joins(1) /\ joined = 1 /\ sent = <<>>

NmeaIInv == NmeaTyped /\ KeepsTheEnd /\ WholeDatagrams /\ GoesOn /\ FixIsReal

\* Heard, of any stream.
HeardIn(type, said, first, to) == {n \in DOMAIN said : said[n] = Valid(type) /\ first < 2 * n /\ 2 * n <= to}

\* A set of numbers has a least one.
LEMMA LeastNumber == ASSUME NEW T, T \subseteq Nat, T # {} PROVE \E x \in T : \A y \in T : x <= y
<1> DEFINE R == OpToRel(<, Nat)
<1>1. IsWellFoundedOn(R, Nat)
  BY NatLessThanWellFounded
<1>2. ASSUME NEW x \in Nat, NEW y \in Nat, y < x PROVE <<y, x>> \in R
  BY <1>2 DEF OpToRel
<1> HIDE DEF R
<1>3. \E x \in T : \A y \in T : ~(<<y, x>> \in R)
  BY <1>1, WFMin, Zenon
<1>4. \A x, y \in T : y < x => <<y, x>> \in R
  BY <1>2
<1>5. \A x, y \in T : x <= y \/ y < x
  OBVIOUS
<1> QED
  BY <1>3, <1>4, <1>5, Zenon

LEMMA MaxIs == ASSUME NEW T, T \subseteq Nat, NEW m \in T, \A y \in T : y <= m PROVE Max(T) = m
<1>1. Max(T) = CHOOSE z \in T : \A y \in T : z >= y
  BY DEF Max
<1>2. \A y \in T : m >= y
  OBVIOUS
<1>3. \E z \in T : \A y \in T : z >= y
  BY <1>2
<1>4. Max(T) \in T /\ \A y \in T : Max(T) >= y
  BY <1>1, <1>3
<1>5. Max(T) \in Nat /\ m \in Nat /\ Max(T) <= m /\ m <= Max(T)
  BY <1>4
<1> QED
  BY <1>5

\* A set of numbers up to a bound has a greatest one.
LEMMA Greatest == ASSUME NEW n \in Nat, NEW T, T \subseteq 0 .. n, T # {} PROVE Max(T) \in T /\ \A y \in T : y <= Max(T)
<1> DEFINE U == {n - x : x \in T}
<1>1. U \subseteq Nat /\ U # {}
  <2>1. \A x \in T : n - x \in Nat
    OBVIOUS
  <2> QED
    BY <2>1
<1>2. PICK u \in U : \A v \in U : u <= v
  BY <1>1, LeastNumber
<1>3. PICK x \in T : u = n - x
  BY <1>2
<1>4. ASSUME NEW y \in T PROVE y <= x
  <2>1. n - y \in U /\ n - x <= n - y
    BY <1>2, <1>3
  <2> QED
    BY <2>1
<1>5. T \subseteq Nat
  OBVIOUS
<1>6. Max(T) = x
  BY <1>4, <1>5, MaxIs
<1> QED
  BY <1>4, <1>6

LEMMA SentenceNumbers ==
    ASSUME NEW p \in Nat
    PROVE  /\ SentenceAt(p) \in Nat /\ p % 2 \in {0, 1}
           /\ p % 2 = 1 => 2 * SentenceAt(p) = p + 1
           /\ p % 2 = 0 => 2 * SentenceAt(p) = p
           /\ \A q \in Nat : p <= q => SentenceAt(p) <= SentenceAt(q)
BY DEF SentenceAt

\* What parsing a text finds, of a stream of which nothing valid was heard before: the last sentence
\* of the type that is in it whole.
LEMMA Finds ==
    ASSUME NEW type, NEW from \in Nat, NEW to \in Nat, NEW end \in Nat, NEW first \in 1 .. 2, NEW before \in Nat,
           NEW said \in [1 .. SentenceAt(end) -> Sentences],
           to % 2 = 0, to <= end, end <= to + 1,
           first <= from, from <= before \/ (from = first /\ before = first - 1), before <= end,
           \A n \in HeardIn(type, said, first, end) : before < 2 * n
    PROVE  LET l == LastOf(type, [from |-> from, to |-> to], said)
               heard == HeardIn(type, said, first, end) IN
           /\ l \in Nat /\ SentenceAt(l) \in Nat
           /\ l = 0 => heard = {} /\ SentenceAt(l) = 0
           /\ l # 0 => l < to /\ SentenceAt(l) \in heard /\ SentenceAt(l) = Max(heard)
           /\ SentenceAt(l) = Max({0} \union heard)
<1> DEFINE places == {p \in from .. to : p % 2 = 1 /\ said[SentenceAt(p)] = Valid(type)}
           S == {0} \union places
           heard == HeardIn(type, said, first, end)
           l == Max(S)
<1>1. LastOf(type, [from |-> from, to |-> to], said) = l
  BY DEF LastOf
<1>2. S \subseteq 0 .. to /\ S # {}
  OBVIOUS
<1>3. l \in S /\ \A p \in S : p <= l
  BY <1>2, Greatest
<1> DEFINE h == SentenceAt(to)
<1>0. h \in Nat /\ to = 2 * h
  BY SentenceNumbers
<1> HIDE DEF h
<1>4. \A n \in heard : 2 * n - 1 \in places
  <2> TAKE n \in heard
  <2>1. n \in Nat /\ said[n] = Valid(type) /\ first < 2 * n /\ 2 * n <= end /\ before < 2 * n
    BY DEF HeardIn
  <2>2. 2 * n - 1 \in Nat /\ (2 * n - 1) % 2 = 1 /\ SentenceAt(2 * n - 1) = n
    BY <2>1 DEF SentenceAt
  <2>3. from <= 2 * n - 1
    BY <2>1
  <2>4. n <= h
    BY <1>0, <2>1
  <2> QED
    BY <1>0, <2>1, <2>2, <2>3, <2>4
<1>5. \A p \in places : SentenceAt(p) \in heard /\ p < to /\ p # 0
  <2> TAKE p \in places
  <2>1. p \in Nat /\ from <= p /\ p <= to /\ p % 2 = 1 /\ said[SentenceAt(p)] = Valid(type)
    OBVIOUS
  <2> DEFINE n == SentenceAt(p)
  <2>2. n \in Nat /\ 2 * n = p + 1 /\ n <= SentenceAt(end) /\ SentenceAt(end) \in Nat
    <3>1. SentenceAt(p) <= SentenceAt(end)
      BY <2>1, SentenceNumbers
    <3> QED
      BY <2>1, <3>1, SentenceNumbers
  <2>3. said[n] = Valid(type)
    BY <2>1
  <2> HIDE DEF n
  <2>4. p < to /\ p # 0 /\ n \in 1 .. SentenceAt(end) /\ first < 2 * n /\ 2 * n <= end
    BY <1>0, <2>1, <2>2
  <2>5. DOMAIN said = 1 .. SentenceAt(end)
    OBVIOUS
  <2>6. n \in heard
    BY <2>3, <2>4, <2>5 DEF HeardIn
  <2> QED
    BY <2>4, <2>6 DEF n
<1>6. heard \subseteq Nat
  <2>1. DOMAIN said \subseteq Nat
    BY SentenceNumbers
  <2> QED
    BY <2>1 DEF HeardIn
<1> HIDE DEF S, places, heard, l
<1>7. \A n \in heard : n <= SentenceAt(l)
  <2> TAKE n \in heard
  <2>1. n \in Nat /\ 2 * n - 1 \in places /\ 2 * n - 1 <= l /\ l \in Nat
    <3>1. 2 * n - 1 \in S
      BY <1>4 DEF S
    <3> QED
      BY <1>2, <1>3, <1>4, <1>6, <3>1
  <2> QED
    <3> DEFINE k == SentenceAt(l)
    <3>1. k \in Nat /\ (2 * k = l + 1 \/ 2 * k = l)
      BY <2>1, SentenceNumbers
    <3> HIDE DEF k
    <3>2. n <= k
      BY <2>1, <3>1
    <3> QED
      BY <3>2 DEF k
<1>8. CASE l = 0
  <2>1. places = {}
    BY <1>3, <1>5, <1>8 DEF S, places
  <2>2. heard = {} /\ SentenceAt(l) = 0
    BY <1>4, <1>8, <2>1 DEF SentenceAt
  <2>3. Max({0}) = 0 /\ {0} \union heard = {0}
    <3>1. {0} \subseteq Nat /\ 0 \in {0} /\ \A y \in {0} : y <= 0
      OBVIOUS
    <3>2. Max({0}) = 0
      BY <3>1, MaxIs
    <3> QED
      BY <2>2, <3>2
  <2> QED
    BY <1>1, <1>8, <2>2, <2>3 DEF heard
<1>9. CASE l # 0
  <2>1. l \in places /\ l \in Nat
    BY <1>2, <1>3, <1>9 DEF S
  <2>2. SentenceAt(l) \in heard /\ l < to /\ SentenceAt(l) \in Nat
    BY <1>5, <1>6, <2>1
  <2>3. Max(heard) = SentenceAt(l)
    BY <1>6, <1>7, <2>2, MaxIs
  <2>4. Max({0} \union heard) = SentenceAt(l)
    <3>1. {0} \union heard \subseteq Nat /\ SentenceAt(l) \in {0} \union heard
      BY <1>6, <2>2
    <3>2. \A y \in {0} \union heard : y <= SentenceAt(l)
      BY <1>7, <2>2
    <3> QED
      BY <3>1, <3>2, MaxIs
  <2> QED
    BY <1>1, <1>9, <2>1, <2>2, <2>3, <2>4 DEF heard
<1> QED
  BY <1>8, <1>9

LEMMA NmeaSizes == MaxPieces \in Nat /\ MaxPieces >= 1 /\ MaxPieces + ReadMost \in Nat /\ ReadMost \in Nat /\ Room \in Nat /\ Room \div 2 \in Nat /\ ReadMost <= Room \div 2 /\ 2 * (Room \div 2) <= Room
BY NmeaAssumption

LEMMA NmeaInitially == NmeaInit => NmeaIInv
<1> SUFFICES ASSUME NmeaInit PROVE NmeaIInv
  OBVIOUS
<1>1. text.from = 1 /\ text.to = 0 /\ text = [from |-> 1, to |-> 0] /\ joined = 1 /\ poll = "idle" /\ outcome.word = "none" /\ sent = <<>>
  BY DEF NmeaInit, Joins, Returns
<1>2. SentenceAt(0) = 0
  BY DEF SentenceAt
<1>3. sent \in [1 .. SentenceAt(text.to) -> Sentences]
  BY <1>1, <1>2
<1>4. NmeaTyped
  BY <1>1, <1>3, NmeaSizes DEF NmeaTyped, Words
<1>5. KeepsTheEnd
  BY <1>1, NmeaSizes DEF KeepsTheEnd
<1>6. WholeDatagrams /\ GoesOn /\ FixIsReal
  BY <1>1 DEF WholeDatagrams, GoesOn, FixIsReal, Polling, NmeaInit
<1> QED
  BY <1>4, <1>5, <1>6 DEF NmeaIInv

\* A poll begins: nothing is heard yet.
LEMMA ConnectsStep == ASSUME NmeaIInv, Connects PROVE NmeaIInv'
<1>1. poll = "idle" /\ text = [from |-> 1, to |-> 0] /\ joined = 1 /\ sent = <<>> /\ outcome.word = "none"
  BY DEF Connects, NmeaIInv, GoesOn, Joins
<1>2. SentenceAt(0) = 0 /\ SentenceAt(1) = 1
  BY DEF SentenceAt
<1>3. CASE poll' \in {"tcp", "udp"} /\ UNCHANGED <<text, sent, joined, outcome>>
  <2>1. Heard("RMC")' = {} /\ Heard("GGA")' = {}
    BY <1>1, <1>3 DEF Heard
  <2>2. NmeaTyped' /\ KeepsTheEnd'
    BY <1>1, <1>3 DEF NmeaIInv, NmeaTyped, KeepsTheEnd
  <2>3. WholeDatagrams' /\ GoesOn'
    BY <2>1, <1>1, <1>3 DEF WholeDatagrams, GoesOn
  <2>4. FixIsReal'
    BY <1>1, <1>3 DEF FixIsReal
  <2> QED
    BY <2>2, <2>3, <2>4 DEF NmeaIInv
<1>4. CASE /\ poll' = "tcp" /\ text' = Joins(2) /\ joined' = 2
           /\ \E s \in Sentences : sent' = <<s>>
           /\ UNCHANGED outcome
  <2>1. text' = [from |-> 2, to |-> 1] /\ text'.from = 2 /\ text'.to = 1
    BY <1>4 DEF Joins
  <2>2. sent' \in [1 .. 1 -> Sentences] /\ DOMAIN sent' = {1}
    BY <1>4
  <2>3. Heard("RMC")' = {} /\ Heard("GGA")' = {}
    BY <1>4, <2>1, <2>2 DEF Heard
  <2>4. NmeaTyped'
    <3>1. 1 \in 0 .. MaxPieces + ReadMost
      BY NmeaSizes
    <3> QED
      BY <1>1, <1>2, <1>4, <2>1, <2>2, <3>1 DEF NmeaTyped, Words
  <2>5. KeepsTheEnd'
    BY <1>4, <2>1, NmeaSizes DEF KeepsTheEnd
  <2>6. WholeDatagrams' /\ GoesOn' /\ FixIsReal'
    BY <1>1, <1>4, <2>3 DEF WholeDatagrams, GoesOn, FixIsReal
  <2> QED
    BY <2>4, <2>5, <2>6 DEF NmeaIInv
<1>5. CASE Ends("unreachable") /\ UNCHANGED <<text, sent, joined>>
  <2>1. poll' = "done" /\ outcome'.word = "unreachable"
    BY <1>5 DEF Ends, Returns
  <2>2. NmeaTyped' /\ KeepsTheEnd'
    BY <1>1, <1>5, <2>1, NmeaSizes DEF NmeaIInv, NmeaTyped, KeepsTheEnd, Words
  <2>3. WholeDatagrams' /\ GoesOn' /\ FixIsReal'
    BY <2>1 DEF WholeDatagrams, GoesOn, FixIsReal, Polling
  <2> QED
    BY <2>2, <2>3 DEF NmeaIInv
<1> QED
  BY <1>3, <1>4, <1>5 DEF Connects

\* A read: if a sentence is valid now, the poll has its fix and is done.
LEMMA ReceivesStep ==
    ASSUME NmeaIInv, NEW k \in 1 .. ReadMost, NEW complete \in BOOLEAN, Polling, text.to < MaxPieces,
           Receives(k, complete), complete \/ k % 2 = 0, complete <=> poll = "tcp"
    PROVE  NmeaIInv'
<1> DEFINE end == text.to + k
           e == IF complete THEN end - (end % 2) ELSE end
           all == [from |-> text.from, to |-> end]
           lines == [from |-> text.from, to |-> e]
<1>1. /\ text = [from |-> text.from, to |-> text.to] /\ text.from \in Nat /\ text.to \in Nat
      /\ joined \in 1 .. 2 /\ k \in Nat /\ k >= 1 /\ k <= ReadMost
      /\ sent \in [1 .. SentenceAt(text.to) -> Sentences]
  BY NmeaSizes DEF NmeaIInv, NmeaTyped
<1>2. end \in Nat /\ end \in 0 .. MaxPieces + ReadMost /\ text.to <= end /\ text.to < end /\ end <= text.to + ReadMost
  BY <1>1, NmeaSizes
<1>3. e \in Nat /\ e % 2 = 0 /\ e <= end /\ end <= e + 1
  <2>1. CASE complete
    BY <2>1, <1>2
  <2>2. CASE ~complete
    <3>1. text.to % 2 = 0 /\ k % 2 = 0
      BY <2>2 DEF Polling, NmeaIInv, WholeDatagrams
    <3> QED
      BY <2>2, <1>1, <1>2, <3>1
  <2> QED
    BY <2>1, <2>2
<1>4. all = [text EXCEPT !.to = text.to + k] /\ lines = IF complete THEN CompleteLines(all) ELSE all
  <2>1. all = [text EXCEPT !.to = text.to + k]
    BY <1>1
  <2>2. CompleteLines(all) = [from |-> text.from, to |-> end - (end % 2)]
    BY DEF CompleteLines
  <2> QED
    BY <2>1, <2>2
<1> HIDE DEF e
<1> DEFINE parsed(said) == ParseNmea(lines, said)
<1>5. PICK new \in [SentenceAt(text.to) + 1 .. SentenceAt(end) -> Sentences] :
        /\ sent' = Says(new)
        /\ IF parsed(Says(new)) # NoFix
           THEN poll' = "done" /\ outcome' = Returns("fix", parsed(Says(new))) /\ text' = all
           ELSE text' = Kept(all) /\ UNCHANGED <<poll, outcome>>
        /\ UNCHANGED joined
  BY <1>4 DEF Receives
<1> DEFINE said == Says(new)
<1>6. said \in [1 .. SentenceAt(end) -> Sentences] /\ \A n \in 1 .. SentenceAt(text.to) : said[n] = sent[n]
  <2>1. SentenceAt(text.to) \in Nat /\ SentenceAt(end) \in Nat /\ SentenceAt(text.to) <= SentenceAt(end)
    BY <1>1, <1>2, SentenceNumbers
  <2>2. said = [n \in DOMAIN sent \union DOMAIN new |-> IF n \in DOMAIN sent THEN sent[n] ELSE new[n]]
    BY DEF Says
  <2>3. DOMAIN new = SentenceAt(text.to) + 1 .. SentenceAt(end) /\ DOMAIN sent = 1 .. SentenceAt(text.to)
    BY <1>1
  <2> HIDE DEF said
  <2>4. DOMAIN sent \union DOMAIN new = 1 .. SentenceAt(end)
    BY <2>1, <2>3
  <2> QED
    BY <1>1, <2>2, <2>3, <2>4
<1> HIDE DEF said
<1>7. /\ text'.to = end /\ text'.from \in Nat /\ text' \in [from: Nat, to: 0 .. MaxPieces + ReadMost]
      /\ KeepsTheEnd'
  <2> DEFINE half == Room \div 2
             start == text'.from
  <2>1. /\ joined <= text.from /\ text.to - text.from < Room
        /\ text.from <= text.to \/ (text.from = joined /\ text.to = joined - 1)
    BY DEF NmeaIInv, KeepsTheEnd, Polling
  <2>2. half \in Nat /\ ReadMost <= half /\ 2 * half <= Room /\ Room \in Nat /\ ReadMost \in Nat
    BY NmeaSizes
  <2>3. joined' = joined /\ text.from <= end
    BY <1>1, <1>2, <1>5, <2>1
  <2>4. /\ text' = [from |-> start, to |-> end]
        /\ start = text.from \/ (start = text.from + half /\ end - text.from >= Room)
        /\ poll' = "done" \/ (start = text.from /\ ~(end - text.from >= Room)) \/ (start = text.from + half /\ end - text.from >= Room)
    <3>1. CASE poll' = "done" /\ text' = all
      BY <3>1
    <3>2. CASE text' = Kept(all) /\ end - text.from >= Room
      <4>1. text' = [from |-> text.from + half, to |-> end]
        BY <3>2 DEF Kept
      <4> QED
        BY <4>1, <3>2
    <3>3. CASE text' = Kept(all) /\ ~(end - text.from >= Room)
      <4>1. text' = all
        BY <3>3 DEF Kept
      <4> QED
        BY <4>1, <3>3
    <3> QED
      BY <1>5, <3>1, <3>2, <3>3
  <2> HIDE DEF half, start
  <2>5. text'.from = start /\ text'.to = end
    BY <2>4
  <2> HIDE DEF end
  <2>6. start \in Nat /\ joined <= start /\ start <= end /\ end - start < Room + ReadMost /\ (poll' # "done" => end - start < Room)
    <3>1. /\ joined \in Nat /\ text.from \in Nat /\ text.to \in Nat /\ end \in Nat /\ half \in Nat /\ Room \in Nat
          /\ ReadMost \in Nat /\ end <= text.to + ReadMost /\ text.to - text.from < Room
      BY <1>1, <1>2, <2>1, <2>2
    <3> DEFINE f == text.from
               t == text.to
               j == joined
    <3>2. /\ f \in Nat /\ t \in Nat /\ j \in Nat /\ j <= f /\ f <= end /\ end <= t + ReadMost /\ t - f < Room
          /\ start = f \/ (start = f + half /\ end - f >= Room)
          /\ poll' = "done" \/ (start = f /\ ~(end - f >= Room)) \/ (start = f + half /\ end - f >= Room)
      BY <2>1, <2>3, <2>4, <3>1
    <3> HIDE DEF f, t, j
    <3>3. start \in Nat /\ j <= start /\ start <= end /\ end - start < Room + ReadMost
      BY <2>2, <3>1, <3>2
    <3>4. poll' = "done" \/ end - start < Room
      BY <2>2, <3>1, <3>2
    <3> QED
      BY <3>3, <3>4 DEF j
  <2>7. text' \in [from: Nat, to: 0 .. MaxPieces + ReadMost]
    BY <1>2, <2>4, <2>6
  <2>8. KeepsTheEnd'
    BY <2>3, <2>5, <2>6 DEF KeepsTheEnd
  <2> QED
    BY <2>5, <2>6, <2>7, <2>8
<1>8. sent' = said /\ joined' = joined
  BY <1>5 DEF said
<1>9. \A type : Heard(type)' = HeardIn(type, said, joined, end)
  BY <1>7, <1>8 DEF Heard, HeardIn
<1> DEFINE lastOf(type) == LastOf(type, lines, said)
<1>10. ASSUME NEW type \in {"RMC", "GGA"}
       PROVE  /\ lastOf(type) \in Nat /\ SentenceAt(lastOf(type)) \in Nat
              /\ lastOf(type) = 0 => Heard(type)' = {} /\ SentenceAt(lastOf(type)) = 0
              /\ lastOf(type) # 0 => /\ lastOf(type) < e /\ SentenceAt(lastOf(type)) \in Heard(type)'
                                    /\ SentenceAt(lastOf(type)) = Max(Heard(type)')
              /\ SentenceAt(lastOf(type)) = Max({0} \union Heard(type)')
  <2>1. ASSUME NEW n \in HeardIn(type, said, joined, end) PROVE text.to < 2 * n
    <3> SUFFICES ASSUME ~(text.to < 2 * n) PROVE FALSE
      OBVIOUS
    <3>1. n \in 1 .. SentenceAt(end) /\ said[n] = Valid(type) /\ joined < 2 * n
      BY <1>6 DEF HeardIn
    <3> DEFINE m == SentenceAt(text.to)
    <3>2. m \in Nat /\ (2 * m = text.to \/ 2 * m = text.to + 1) /\ n \in Nat /\ n >= 1
      BY <1>1, <1>2, <3>1, SentenceNumbers
    <3> HIDE DEF m
    <3>3. n \in 1 .. m /\ 2 * n <= text.to
      BY <1>1, <3>2
    <3>4. n \in DOMAIN sent /\ sent[n] = Valid(type)
      BY <1>1, <1>6, <3>1, <3>3 DEF m
    <3>5. n \in Heard(type)
      BY <3>1, <3>3, <3>4 DEF Heard
    <3> QED
      BY <3>5 DEF NmeaIInv, GoesOn
  <2>2. joined <= text.from /\ (text.from <= text.to \/ (text.from = joined /\ text.to = joined - 1))
    BY DEF NmeaIInv, KeepsTheEnd
  <2>3. Heard(type)' = HeardIn(type, said, joined, end)
    BY <1>9
  <2> DEFINE l == LastOf(type, [from |-> text.from, to |-> e], said)
             before == text.to
             heard == HeardIn(type, said, joined, end)
  <2>4. before \in Nat /\ before <= end /\ \A n \in heard : before < 2 * n
    BY <1>1, <1>2, <2>1
  <2>5. /\ l \in Nat /\ SentenceAt(l) \in Nat
        /\ l = 0 => heard = {} /\ SentenceAt(l) = 0
        /\ l # 0 => l < e /\ SentenceAt(l) \in heard /\ SentenceAt(l) = Max(heard)
        /\ SentenceAt(l) = Max({0} \union heard)
    <3> HIDE DEF end, before
    <3>1. text.from <= before \/ (text.from = joined /\ before = joined - 1)
      BY <2>2 DEF before
    <3> QED
      BY <1>1, <1>2, <1>3, <1>6, <2>2, <2>4, <3>1, Finds
  <2> QED
    BY <2>3, <2>5
<1> DEFINE rmc == lastOf("RMC")
           gga == lastOf("GGA")
           it == parsed(said)
<1>11. LET p == IF rmc # 0 THEN rmc ELSE gga IN
       it = IF p = 0 THEN NoFix ELSE [n |-> SentenceAt(p), whole |-> p < e, quality |-> SentenceAt(gga)]
  BY DEF ParseNmea
<1> DEFINE R == Heard("RMC")'
           G == Heard("GGA")'
<1>12. /\ rmc \in Nat /\ SentenceAt(rmc) \in Nat /\ gga \in Nat /\ SentenceAt(gga) \in Nat
       /\ rmc = 0 => R = {}
       /\ gga = 0 => G = {}
       /\ rmc # 0 => rmc < e /\ R # {} /\ SentenceAt(rmc) = Max(R)
       /\ gga # 0 => gga < e /\ G # {} /\ SentenceAt(gga) = Max(G)
       /\ SentenceAt(gga) = Max({0} \union G)
  BY <1>10
<1>13. NmeaTyped' /\ WholeDatagrams'
  <2>1. joined' \in 1 .. 2 /\ sent' \in [1 .. SentenceAt(text'.to) -> Sentences]
    BY <1>1, <1>6, <1>7, <1>8
  <2>2. poll' \in {"idle", "tcp", "udp", "done"} /\ outcome'.word \in Words
    BY <1>5 DEF NmeaIInv, NmeaTyped, Words, Returns
  <2>3. WholeDatagrams'
    <3>1. poll' = "udp" => poll = "udp"
      BY <1>5
    <3>2. poll = "udp" => text.to % 2 = 0 /\ k % 2 = 0
      BY DEF NmeaIInv, WholeDatagrams
    <3> QED
      BY <1>1, <1>7, <3>1, <3>2 DEF WholeDatagrams
  <2> QED
    BY <1>7, <2>1, <2>2, <2>3 DEF NmeaTyped
<1>14. CASE it # NoFix
  <2>1. poll' = "done" /\ outcome' = Returns("fix", it)
    BY <1>5, <1>14 DEF said
  <2>2. outcome'.word = "fix" /\ outcome'.fix = it
    BY <2>1 DEF Returns
  <2>3. ~(rmc = 0 /\ gga = 0)
    BY <1>11, <1>14
  <2> DEFINE p == IF rmc # 0 THEN rmc ELSE gga
  <2>4. it = [n |-> SentenceAt(p), whole |-> p < e, quality |-> SentenceAt(gga)]
    BY <1>11, <1>14
  <2> HIDE DEF it, p, rmc, gga, R, G
  <2>5. it.n = SentenceAt(p) /\ (it.whole <=> p < e) /\ it.quality = SentenceAt(gga)
    BY <2>4
  <2>6. CASE rmc # 0
    <3>1. p = rmc
      BY <2>6 DEF p
    <3>2. it.whole /\ R # {} /\ it.n = Max(R) /\ it.quality = Max({0} \union G)
      BY <1>12, <2>5, <2>6, <3>1
    <3> QED
      BY <1>13, <1>7, <2>1, <2>2, <3>2 DEF NmeaIInv, GoesOn, FixIsReal, Polling, R, G
  <2>7. CASE rmc = 0 /\ gga # 0
    <3>1. p = gga
      BY <2>7 DEF p
    <3>2. it.whole /\ R = {} /\ G # {} /\ it.n = Max(G) /\ it.quality = Max({0} \union G)
      BY <1>12, <2>5, <2>7, <3>1
    <3> QED
      BY <1>13, <1>7, <2>1, <2>2, <3>2 DEF NmeaIInv, GoesOn, FixIsReal, Polling, R, G
  <2> QED
    BY <2>3, <2>6, <2>7
<1>15. CASE it = NoFix
  <2>1. poll' = poll /\ outcome' = outcome
    BY <1>5, <1>15 DEF said
  <2>2. rmc = 0 /\ gga = 0
    <3> DEFINE p == IF rmc # 0 THEN rmc ELSE gga
    <3>1. p # 0 => it.n = SentenceAt(p)
      BY <1>11
    <3>2. it.n = 0
      BY <1>15 DEF NoFix
    <3>3. p \in Nat /\ (p # 0 => SentenceAt(p) # 0)
      <4>1. p \in Nat
        BY <1>12
      <4> HIDE DEF p
      <4>2. SentenceAt(p) \in Nat /\ (2 * SentenceAt(p) = p + 1 \/ 2 * SentenceAt(p) = p)
        BY <4>1, SentenceNumbers
      <4> QED
        BY <4>1, <4>2
    <3> QED
      BY <3>1, <3>2, <3>3
  <2>3. R = {} /\ G = {}
    BY <1>12, <2>2
  <2>4. poll # "done" /\ poll # "idle" /\ outcome.word = "none"
    BY DEF NmeaIInv, GoesOn, Polling
  <2>5. GoesOn' /\ FixIsReal'
    BY <2>1, <2>3, <2>4 DEF GoesOn, FixIsReal
  <2> QED
    BY <1>7, <1>13, <2>5 DEF NmeaIInv
<1> QED
  BY <1>14, <1>15

\* A poll ends with nothing: nothing valid was heard.
LEMMA ClosesStep == ASSUME NmeaIInv, Closes PROVE NmeaIInv'
<1>1. UNCHANGED <<text, sent, joined>> /\ Polling /\ poll' = "done"
  BY DEF Closes, Ends, Polling
<1>2. Heard("RMC")' = {} /\ Heard("GGA")' = {}
  BY <1>1 DEF Heard, NmeaIInv, GoesOn
<1>3. outcome'.word \in {"silent", "acquiring", "unreachable"} /\ (outcome'.word = "silent" => text.to < text.from)
  BY DEF Closes, Ends, Returns
<1>4. text.to < text.from => text.to < joined
  <2>1. joined \in Nat /\ text.from \in Nat /\ text.to \in Nat
    BY NmeaSizes DEF NmeaIInv, NmeaTyped
  <2> QED
    BY <2>1 DEF NmeaIInv, KeepsTheEnd
<1>5. NmeaTyped' /\ WholeDatagrams'
  BY <1>1, <1>3 DEF NmeaIInv, NmeaTyped, WholeDatagrams, Words
<1>6. KeepsTheEnd'
  BY <1>1 DEF NmeaIInv, KeepsTheEnd
<1>7. GoesOn' /\ FixIsReal'
  BY <1>1, <1>2, <1>3, <1>4 DEF GoesOn, FixIsReal, Polling
<1> QED
  BY <1>5, <1>6, <1>7 DEF NmeaIInv

LEMMA NmeaStep == NmeaIInv /\ [NmeaNext]_nmeaVars => NmeaIInv'
<1> SUFFICES ASSUME NmeaIInv, [NmeaNext]_nmeaVars PROVE NmeaIInv'
  OBVIOUS
<1>1. CASE Connects
  BY <1>1, ConnectsStep
<1>2. CASE ReadTcp
  <2>1. PICK k \in 1 .. ReadMost : Receives(k, TRUE)
    BY <1>2 DEF ReadTcp
  <2>2. poll = "tcp" /\ text.to < MaxPieces /\ Polling
    BY <1>2 DEF ReadTcp, Polling
  <2> QED
    BY <2>1, <2>2, ReceivesStep
<1>3. CASE ReadUdp
  <2>1. PICK k \in 1 .. ReadMost : k % 2 = 0 /\ Receives(k, FALSE)
    BY <1>3 DEF ReadUdp
  <2>2. poll = "udp" /\ text.to < MaxPieces /\ Polling
    BY <1>3 DEF ReadUdp, Polling
  <2> QED
    BY <2>1, <2>2, ReceivesStep
<1>4. CASE Closes
  BY <1>4, ClosesStep
<1>5. CASE PollsAgain
  <2>1. NmeaInit'
    BY <1>5 DEF PollsAgain, NmeaInit
  <2>2. NmeaInit' => NmeaIInv'
    BY NmeaInitially, PTL
  <2> QED
    BY <2>1, <2>2
<1>6. CASE UNCHANGED nmeaVars
  BY <1>6 DEF nmeaVars, NmeaIInv, NmeaTyped, KeepsTheEnd, WholeDatagrams, GoesOn, FixIsReal, Heard, Polling
<1> QED
  BY <1>1, <1>2, <1>3, <1>4, <1>5, <1>6 DEF NmeaNext

LEMMA NmeaImplied == NmeaIInv => NmeaInv
BY NmeaSizes DEF NmeaIInv, NmeaInv, NmeaTyped, NmeaTypes, KeepsTheEnd, Words

\* Wherever a stream is joined and cut, and whatever is thrown away of it: the position the poll
\* returns is the last one the hub was given in whole (complete_lines: "a sentence cut mid-number by
\* a read boundary must never yield a wrong position"), and it says that there is none yet only
\* when it was given none.
THEOREM PositionIsWhole == NmeaSpec => []NmeaInv
<1>1. NmeaSpec => []NmeaIInv
  BY NmeaInitially, NmeaStep, PTL DEF NmeaSpec
<1> QED
  BY <1>1, NmeaImplied, PTL

(***************************************************************************)
(* The report of a router                                                  *)
(***************************************************************************)

Items == [params: ParamsType, kb: Nat]

Fields == {"up", "wan", "src"}

Tallies ==
    [says: SUBSET {"up", "down"}, used: 0 .. MaxUse, metered: Nat, lost: Nat, twice: Nat,
     crossed: BOOLEAN, stale: BOOLEAN, upsets: Nat]

TallyOK == tally \in Tallies

\* What a keyframe carries still waits, unless something crossed it.
PendingCovers ==
    /\ frame = NoFrame \/ frame.at \in {"built", "taken"}
    /\ frame # NoFrame /\ ~tally.crossed => frame.kb <= told.pending

\* What the counter has moved since it was last read has not been metered.
NoneMeteredTwice ==
    /\ device.counter <= tally.used
    /\ memory.counter # NoCount /\ device.counter > memory.counter
         => tally.metered * Kilobyte + (device.counter - memory.counter) <= tally.used

\* What the cloud will hold of a field once all events on their way are there.
Latest(f) == IF spool = <<>> THEN cloud.params[f] ELSE spool[Len(spool)].params[f]

\* As long as nothing was lost: the cloud will hold what the hub believes it sent, or a keyframe
\* it has just taken.
CloudAgrees ==
    ~tally.stale =>
        \/ \A f \in Fields : told.sent[f] # "absent" => Latest(f) = told.sent[f]
        \/ frame.at = "taken" /\ spool = <<>> /\ cloud.params = frame.params

ReportIInv ==
    /\ ReportTypeOK /\ TallyOK
    /\ UseIsCharged /\ PendingCovers /\ NoneMeteredTwice
    /\ WordIsTheRouters /\ CloudAgrees

-----------------------------------------------------------------------------
(* What a queue carries *)

\* The n-th of these is what the first n items carry.
Totals(f, items) ==
    /\ f \in [0 .. Len(items) -> Nat] /\ f[0] = 0
    /\ \A n \in 1 .. Len(items) : f[n] = f[n - 1] + items[n].kb

LEMMA UseAddsUp == ASSUME NEW items \in Seq(Items) PROVE \E f : Totals(f, items)
<1> DEFINE P(n, f) == f \in [0 .. n -> Nat] /\ f[0] = 0 /\ \A i \in 1 .. n : f[i] = f[i - 1] + items[i].kb
           T == {n \in 0 .. Len(items) : ~\E f : P(n, f)}
<1>0. Len(items) \in Nat /\ \A i \in 1 .. Len(items) : items[i].kb \in Nat
  <2>1. \A i \in 1 .. Len(items) : items[i] \in Items
    OBVIOUS
  <2> QED
    BY <2>1 DEF Items
<1>1. SUFFICES T = {}
  <2>1. Len(items) \notin T
    BY <1>1
  <2>2. \E f : P(Len(items), f)
    BY <1>0, <2>1
  <2> QED
    BY <2>2 DEF Totals
<1>2. SUFFICES ASSUME T # {} PROVE FALSE
  OBVIOUS
<1>3. PICK n \in T : \A m \in T : n <= m
  <2>1. T \subseteq Nat
    BY <1>0
  <2> QED
    BY <1>2, <2>1, LeastNumber
<1>4. n \in 0 .. Len(items) /\ ~\E f : P(n, f)
  BY <1>3
<1>5. CASE n = 0
  <2> DEFINE f == [i \in 0 .. 0 |-> 0]
  <2>1. f \in [0 .. n -> Nat] /\ f[0] = 0 /\ 1 .. n = {}
    BY <1>5
  <2>2. P(n, f)
    BY <2>1
  <2> QED
    BY <1>4, <2>2
<1>6. CASE n # 0
  <2>1. n - 1 \in 0 .. Len(items) /\ n \in 1 .. Len(items)
    BY <1>0, <1>4, <1>6
  <2>2. n - 1 \notin T
    <3>1. n \in Nat /\ ~(n <= n - 1)
      BY <1>0, <1>4
    <3> HIDE DEF T
    <3> QED
      BY <1>3, <3>1
  <2>3. PICK f : P(n - 1, f)
    <3>1. \A m \in 0 .. Len(items) : m \notin T => \E f : P(m, f)
      OBVIOUS
    <3> HIDE DEF P, T
    <3> QED
      BY <2>1, <2>2, <3>1
  <2> DEFINE g == [i \in 0 .. n |-> IF i = n THEN f[n - 1] + items[n].kb ELSE f[i]]
  <2>4. g \in [0 .. n -> Nat]
    <3>1. f[n - 1] \in Nat /\ items[n].kb \in Nat
      BY <1>0, <2>1, <2>3
    <3>2. ASSUME NEW i \in 0 .. n, i # n PROVE f[i] \in Nat
      <4>1. i \in 0 .. (n - 1)
        BY <2>1, <3>2
      <4> QED
        BY <4>1, <2>3
    <3> QED
      BY <3>1, <3>2
  <2>5. g[0] = 0
    BY <1>6, <2>1, <2>3
  <2>6. ASSUME NEW i \in 1 .. n PROVE g[i] = g[i - 1] + items[i].kb
    <3>1. i \in 0 .. n /\ i - 1 \in 0 .. n /\ i - 1 # n
      BY <2>1
    <3>2. g[i - 1] = f[i - 1]
      BY <3>1
    <3>3. CASE i = n
      BY <3>1, <3>2, <3>3
    <3>4. CASE i # n
      <4>1. i \in 1 .. (n - 1)
        BY <2>1, <3>4
      <4> QED
        BY <2>3, <3>1, <3>2, <3>4, <4>1
    <3> QED
      BY <3>3, <3>4
  <2>7. P(n, g)
    BY <2>4, <2>5, <2>6
  <2> QED
    BY <1>4, <2>7
<1> QED
  BY <1>5, <1>6

LEMMA CarriedIs ==
    ASSUME NEW items \in Seq(Items), NEW f, Totals(f, items)
    PROVE  Carried(items) = f[Len(items)] /\ Carried(items) \in Nat
<1> DEFINE Q(s) == s = [n \in 0 .. Len(items) |-> IF n = 0 THEN 0 ELSE s[n - 1] + items[n].kb]
           sum == CHOOSE s : Q(s)
<1>0. Len(items) \in Nat /\ f[Len(items)] \in Nat
  BY DEF Totals
<1>1. Q(f)
  <2>1. f = [n \in 0 .. Len(items) |-> f[n]]
    BY DEF Totals
  <2>2. \A n \in 0 .. Len(items) : f[n] = IF n = 0 THEN 0 ELSE f[n - 1] + items[n].kb
    BY <1>0 DEF Totals
  <2> QED
    BY <2>1, <2>2
<1>2. Q(sum)
  BY <1>1
<1>3. Carried(items) = sum[Len(items)]
  BY DEF Carried
<1> HIDE DEF sum
<1>4. \A n \in 0 .. Len(items) : sum[n] = IF n = 0 THEN 0 ELSE sum[n - 1] + items[n].kb
  BY <1>2
<1> DEFINE T == {n \in 0 .. Len(items) : sum[n] # f[n]}
<1>5. T = {}
  <2> SUFFICES ASSUME T # {} PROVE FALSE
    OBVIOUS
  <2>1. PICK n \in T : \A m \in T : n <= m
    <3>1. T \subseteq Nat
      BY <1>0
    <3> QED
      BY <3>1, LeastNumber
  <2>2. n \in 0 .. Len(items) /\ sum[n] # f[n]
    BY <2>1
  <2>3. n # 0
    BY <1>4, <2>2 DEF Totals
  <2>4. n - 1 \in 0 .. Len(items) /\ n \in 1 .. Len(items)
    BY <1>0, <2>2, <2>3
  <2>5. f[n - 1] = sum[n - 1]
    BY <2>1, <2>4
  <2> QED
    BY <1>4, <2>2, <2>3, <2>4, <2>5 DEF Totals
<1>6. sum[Len(items)] = f[Len(items)]
  BY <1>0, <1>5
<1> QED
  BY <1>0, <1>3, <1>6

LEMMA CarriedNothing == Carried(<<>>) = 0
<1>1. <<>> \in Seq(Items) /\ Len(<<>>) = 0
  OBVIOUS
<1>2. PICK f : Totals(f, <<>>)
  BY <1>1, UseAddsUp
<1> QED
  BY <1>1, <1>2, CarriedIs DEF Totals

LEMMA CarriedIsUse == ASSUME NEW items \in Seq(Items) PROVE Carried(items) \in Nat
  BY UseAddsUp, CarriedIs

LEMMA CarriedAppend ==
    ASSUME NEW items \in Seq(Items), NEW e \in Items
    PROVE  Carried(Append(items, e)) = Carried(items) + e.kb
<1> DEFINE k == Len(items)
           more == Append(items, e)
<1>1. PICK f : Totals(f, items)
  BY UseAddsUp
<1>2. more \in Seq(Items) /\ Len(more) = k + 1 /\ k \in Nat /\ e.kb \in Nat /\ more[k + 1] = e
      /\ \A i \in 1 .. k : more[i] = items[i]
  BY DEF Items
<1>3. f \in [0 .. k -> Nat] /\ f[0] = 0 /\ \A n \in 1 .. k : f[n] = f[n - 1] + items[n].kb
  BY <1>1 DEF Totals
<1> HIDE DEF k, more
<1> DEFINE g == [n \in 0 .. (k + 1) |-> IF n = k + 1 THEN f[k] + e.kb ELSE f[n]]
<1>4. g \in [0 .. (k + 1) -> Nat]
  <2>1. f[k] + e.kb \in Nat
    BY <1>2, <1>3
  <2>2. ASSUME NEW n \in 0 .. (k + 1), n # k + 1 PROVE f[n] \in Nat
    <3>1. n \in 0 .. k
      BY <1>2, <2>2
    <3> QED
      BY <1>3, <3>1
  <2> QED
    BY <2>1, <2>2
<1>5. g[0] = 0 /\ g[k + 1] = f[k] + e.kb
  BY <1>2, <1>3
<1>6. ASSUME NEW n \in 1 .. (k + 1) PROVE g[n] = g[n - 1] + more[n].kb
  <2>1. n - 1 \in 0 .. (k + 1) /\ n - 1 # k + 1 /\ n \in 0 .. (k + 1)
    BY <1>2
  <2>2. g[n - 1] = f[n - 1]
    BY <2>1
  <2>3. CASE n = k + 1
    <3>1. n - 1 = k
      BY <1>2, <2>3
    <3> QED
      BY <1>2, <1>5, <2>2, <2>3, <3>1
  <2>4. CASE n # k + 1
    <3>1. n \in 1 .. k
      BY <1>2, <2>4
    <3>2. g[n] = f[n]
      BY <2>1, <2>4
    <3> QED
      BY <1>2, <1>3, <2>2, <3>1, <3>2
  <2> QED
    BY <2>3, <2>4
<1>7. Totals(g, more)
  BY <1>2, <1>4, <1>5, <1>6 DEF Totals
<1>8. Carried(more) = g[k + 1]
  BY <1>2, <1>7, CarriedIs
<1>9. Carried(items) = f[k]
  BY <1>1, CarriedIs DEF k
<1> QED
  BY <1>5, <1>8, <1>9 DEF more

LEMMA CarriedTail ==
    ASSUME NEW items \in Seq(Items), items # <<>>
    PROVE  Carried(items) = Head(items).kb + Carried(Tail(items))
<1> DEFINE k == Len(items)
           rest == Tail(items)
           first == Head(items).kb
<1>1. rest \in Seq(Items) /\ k \in Nat \ {0} /\ Len(rest) = k - 1 /\ \A i \in 1 .. (k - 1) : rest[i] = items[i + 1]
  OBVIOUS
<1>2. first \in Nat /\ first = items[1].kb
  <2>1. Head(items) = items[1] /\ items[1] \in Items
    BY <1>1
  <2> QED
    BY <2>1 DEF Items
<1>3. PICK h : Totals(h, rest)
  BY <1>1, UseAddsUp
<1>4. h \in [0 .. (k - 1) -> Nat] /\ h[0] = 0 /\ \A n \in 1 .. (k - 1) : h[n] = h[n - 1] + rest[n].kb
  BY <1>1, <1>3 DEF Totals
<1>5. Carried(rest) = h[k - 1]
  BY <1>1, <1>3, CarriedIs
<1> HIDE DEF k, rest, first
<1> DEFINE g == [n \in 0 .. k |-> IF n = 0 THEN 0 ELSE first + h[n - 1]]
<1>6. g \in [0 .. k -> Nat] /\ g[0] = 0 /\ g[k] = first + h[k - 1]
  <2>1. ASSUME NEW n \in 0 .. k, n # 0 PROVE first + h[n - 1] \in Nat
    <3>1. n - 1 \in 0 .. (k - 1)
      BY <1>1, <2>1
    <3>2. h[n - 1] \in Nat
      BY <1>4, <3>1
    <3> QED
      BY <1>2, <3>2
  <2> QED
    BY <1>1, <2>1
<1>7. ASSUME NEW n \in 1 .. k PROVE g[n] = g[n - 1] + items[n].kb
  <2>1. n \in 0 .. k /\ n # 0 /\ n - 1 \in 0 .. k /\ n \in Nat
    BY <1>1
  <2>2. g[n] = first + h[n - 1]
    BY <2>1
  <2>3. CASE n = 1
    BY <1>2, <1>4, <1>6, <2>2, <2>3
  <2>4. CASE n # 1
    <3>1. n - 1 \in 1 .. (k - 1) /\ (n - 1) + 1 = n /\ (n - 1) - 1 \in 0 .. (k - 1) /\ n - 1 # 0
      BY <1>1, <2>1, <2>4
    <3>2. g[n - 1] = first + h[(n - 1) - 1]
      BY <2>1, <3>1
    <3>3. h[n - 1] = h[(n - 1) - 1] + items[n].kb
      BY <1>1, <1>4, <3>1
    <3>4. items[n].kb \in Nat /\ h[(n - 1) - 1] \in Nat
      <4>1. items[n] \in Items
        BY <1>1 DEF k
      <4> QED
        BY <1>4, <3>1, <4>1 DEF Items
    <3> QED
      BY <1>2, <2>2, <3>2, <3>3, <3>4
  <2> QED
    BY <2>3, <2>4
<1>8. Totals(g, items)
  BY <1>6, <1>7 DEF Totals, k
<1>9. Carried(items) = g[k]
  BY <1>8, CarriedIs DEF k
<1> QED
  BY <1>5, <1>6, <1>9 DEF first, rest

-----------------------------------------------------------------------------
(* What an answer is read as *)

\* The word of a report, and the WANs it is about.
Speaks(params, says) ==
    /\ params.up = "1" => "up" \in says
    /\ params.up = "0" => "down" \in says
    /\ params.wan \in {"lte", "repeater", "wired"} => "up" \in says
    /\ params.wan = "none" => "up" \notin says

LEMMA FirstIsOne ==
    ASSUME NEW entries, NEW which, which \subseteq Nat, which # {}
    PROVE  \E i \in which : First(entries, which) = entries[i]
<1>1. \E x \in which : \A y \in which : x <= y
  BY LeastNumber
<1>2. Min(which) \in which
  BY <1>1 DEF Min
<1> QED
  BY <1>2 DEF First

LEMMA EntriesRead ==
    ASSUME NEW make \in Makes, make # "starlink", NEW n \in Nat, NEW s \in [1 .. n -> WanEntries[make]]
    PROVE  LET says == {s[i].says : i \in DOMAIN s} \ {"unsaid"}
               modem == ParseModem(make, s)
               wan == ParseWan(make, s) IN
           /\ says \in SUBSET {"up", "down"}
           /\ modem \in {"absent", "up", "down", "unsaid"}
           /\ modem \in {"up", "down"} => modem \in says
           /\ wan \in [wan : {"absent", "none", "lte", "repeater", "wired"}, up : BOOLEAN, known : BOOLEAN]
           /\ wan.wan \in {"lte", "repeater", "wired"} => "up" \in says
           /\ wan.wan = "none" => "up" \notin says
           /\ wan.up => "up" \in says
           /\ wan.known /\ ~wan.up => "down" \in says
<1> DEFINE says == {s[i].says : i \in DOMAIN s} \ {"unsaid"}
           modem == ParseModem(make, s)
           wan == ParseWan(make, s)
<1>1. DOMAIN s = 1 .. n
  OBVIOUS
<1>2. \A i \in 1 .. n : /\ s[i].kind \in {"lte", "repeater", "wired"}
                        /\ Said(make, s[i]) = s[i].says
                        /\ Said(make, s[i]) \in {"up", "down", "unsaid"}
  <2> TAKE i \in 1 .. n
  <2>1. s[i] \in WanEntries[make]
    OBVIOUS
  <2>2. s[i].kind \in {"lte", "repeater", "wired"} /\ Said(make, s[i]) = s[i].says
    BY <2>1, WanAssumption
  <2>3. Said(make, s[i]) \in {"up", "down", "unsaid"}
    BY DEF Said, NcosConnState, WanState
  <2> QED
    BY <2>2, <2>3
<1>3. says \in SUBSET {"up", "down"}
  BY <1>1, <1>2
<1>4. \A i \in 1 .. n : Said(make, s[i]) # "unsaid" => Said(make, s[i]) \in says
  BY <1>1, <1>2
<1>5. "up" \in says => \E i \in 1 .. n : Said(make, s[i]) = "up"
  BY <1>1, <1>2
<1>6. UpAt(make, s) = {i \in 1 .. n : Said(make, s[i]) = "up"}
  BY <1>1 DEF UpAt
<1> HIDE DEF says
<1>7. modem \in {"absent", "up", "down", "unsaid"} /\ (modem \in {"up", "down"} => modem \in says)
  <2> DEFINE sims == {i \in DOMAIN s : s[i].kind = "lte"}
             up == IF make = "cradlepoint" THEN sims \cap UpAt(make, s) ELSE {}
             which == IF up = {} THEN sims ELSE up
  <2>1. CASE sims = {}
    BY <2>1 DEF ParseModem
  <2>2. CASE sims # {}
    <3>1. modem = Said(make, First(s, which))
      BY <2>2 DEF ParseModem
    <3>2. which \subseteq 1 .. n /\ which # {} /\ which \subseteq Nat
      BY <1>1, <2>2
    <3>3. PICK i \in which : First(s, which) = s[i]
      BY <3>2, FirstIsOne
    <3>4. i \in 1 .. n
      BY <3>2
    <3> HIDE DEF which
    <3> QED
      BY <1>2, <1>4, <3>1, <3>3, <3>4
  <2> QED
    BY <2>1, <2>2
<1>8. CASE s = <<>>
  <2>1. n = 0
    BY <1>1, <1>8
  <2>2. 1 .. n = {}
    BY <2>1
  <2>3. "up" \notin says
    BY <1>5, <2>2
  <2>4. wan = NoWan
    BY <1>8 DEF ParseWan
  <2> QED
    BY <1>3, <1>7, <2>3, <2>4 DEF NoWan, says
<1>9. CASE s # <<>> /\ UpAt(make, s) # {}
  <2>1. UpAt(make, s) \subseteq Nat
    BY <1>6
  <2>2. PICK i \in UpAt(make, s) : First(s, UpAt(make, s)) = s[i]
    BY <1>9, <2>1, FirstIsOne
  <2>3. i \in 1 .. n /\ Said(make, s[i]) = "up"
    BY <1>6
  <2>4. wan = [wan |-> s[i].kind, up |-> TRUE, known |-> TRUE]
    BY <1>9, <2>2 DEF ParseWan
  <2>5. "up" \in says /\ s[i].kind \in {"lte", "repeater", "wired"}
    BY <1>2, <1>4, <2>3
  <2> QED
    BY <1>3, <1>7, <2>4, <2>5 DEF says
<1>10. CASE s # <<>> /\ UpAt(make, s) = {}
  <2> DEFINE known == \A i \in DOMAIN s : Said(make, s[i]) = "down"
  <2>1. wan = [wan |-> "none", up |-> FALSE, known |-> known]
    BY <1>10 DEF ParseWan
  <2>2. known \in BOOLEAN
    OBVIOUS
  <2>3. "up" \notin says
    BY <1>5, <1>6, <1>10
  <2>4. n >= 1
    <3>1. CASE n = 0
      <4>1. 1 .. n = {}
        BY <3>1
      <4>2. s = <<>>
        BY <1>1, <4>1
      <4> QED
        BY <1>10, <4>2
    <3> QED
      BY <3>1
  <2>5. known => "down" \in says
    <3>1. 1 \in 1 .. n
      BY <2>4
    <3> QED
      BY <1>1, <1>4, <3>1
  <2> HIDE DEF known
  <2> QED
    BY <1>3, <1>7, <2>1, <2>2, <2>3, <2>5 DEF says
<1> QED
  BY <1>8, <1>9, <1>10

LEMMA ReadsWell ==
    ASSUME NEW make \in Makes, NEW status \in Statuses[make], UplinkUp(status) # "unsaid"
    PROVE  /\ ReportParams(status) \in ParamsType /\ ReportParams(status) # NoParams
           /\ status.says \in SUBSET {"up", "down"}
           /\ Speaks(ReportParams(status), status.says)
<1>1. CASE make = "starlink"
  <2>1. PICK o \in Outages : status = Status("absent", WanOf(o), {IF o = "lasting" THEN "down" ELSE "up"})
    BY <1>1 DEF Statuses
  <2>2. CASE o = "lasting"
    <3>1. status.modem = "absent" /\ status.wan = [wan |-> "starlink", up |-> FALSE, known |-> TRUE] /\ status.says = {"down"}
      BY <2>1, <2>2 DEF Status, WanOf
    <3>2. ReportParams(status) = [up |-> "0", wan |-> "starlink", src |-> "read"]
      BY <3>1 DEF ReportParams, WanParams, UpRead
    <3> QED
      BY <3>1, <3>2 DEF Speaks, ParamsType, NoParams
  <2>3. CASE o # "lasting"
    <3>1. status.modem = "absent" /\ status.wan = [wan |-> "starlink", up |-> TRUE, known |-> TRUE] /\ status.says = {"up"}
      BY <2>1, <2>3 DEF Status, WanOf
    <3>2. ReportParams(status) = [up |-> "1", wan |-> "starlink", src |-> "read"]
      BY <3>1 DEF ReportParams, WanParams, UpRead
    <3> QED
      BY <3>1, <3>2 DEF Speaks, ParamsType, NoParams
  <2> QED
    BY <2>2, <2>3
<1>2. CASE make # "starlink"
  <2>0. MaxWans \in Nat
    BY ReportAssumption
  <2>1. PICK s \in UNION {[1 .. n -> WanEntries[make]] : n \in 0 .. MaxWans} :
             status = Status(ParseModem(make, s), ParseWan(make, s), {s[i].says : i \in DOMAIN s} \ {"unsaid"})
    BY <1>2 DEF Statuses
  <2>2. PICK n \in Nat : s \in [1 .. n -> WanEntries[make]]
    BY <2>0
  <2> DEFINE says == {s[i].says : i \in DOMAIN s} \ {"unsaid"}
             modem == ParseModem(make, s)
             wan == ParseWan(make, s)
  <2>3. /\ says \in SUBSET {"up", "down"}
        /\ modem \in {"absent", "up", "down", "unsaid"}
        /\ modem \in {"up", "down"} => modem \in says
        /\ wan \in [wan : {"absent", "none", "lte", "repeater", "wired"}, up : BOOLEAN, known : BOOLEAN]
        /\ wan.wan \in {"lte", "repeater", "wired"} => "up" \in says
        /\ wan.wan = "none" => "up" \notin says
        /\ wan.up => "up" \in says
        /\ wan.known /\ ~wan.up => "down" \in says
    BY <1>2, <2>2, EntriesRead
  <2>4. status = [modem |-> modem, wan |-> wan, says |-> says]
    BY <2>1 DEF Status
  <2> HIDE DEF says, modem, wan
  <2>5. CASE modem # "absent"
    <3>1. modem \in {"up", "down"}
      BY <2>3, <2>4, <2>5 DEF UplinkUp
    <3>2. ReportParams(status) = [up |-> IF modem = "up" THEN "1" ELSE "0", wan |-> wan.wan, src |-> "read"]
      BY <2>4, <2>5 DEF ReportParams, ModemParams, UpRead
    <3>3. ReportParams(status) \in ParamsType /\ ReportParams(status) # NoParams
      BY <2>3, <3>2 DEF ParamsType, NoParams
    <3>4. Speaks(ReportParams(status), says)
      BY <2>3, <3>1, <3>2 DEF Speaks
    <3> QED
      BY <2>3, <2>4, <3>3, <3>4
  <2>6. CASE modem = "absent"
    <3>1. wan.known
      BY <2>4, <2>6 DEF UplinkUp
    <3>2. ReportParams(status) = [up |-> IF wan.up THEN "1" ELSE "0", wan |-> wan.wan, src |-> "read"]
      BY <2>4, <2>6 DEF ReportParams, WanParams, UpRead
    <3>3. ReportParams(status) \in ParamsType /\ ReportParams(status) # NoParams
      BY <2>3, <3>2 DEF ParamsType, NoParams
    <3>4. Speaks(ReportParams(status), says)
      BY <2>3, <3>1, <3>2 DEF Speaks
    <3> QED
      BY <2>3, <2>4, <3>3, <3>4
  <2> QED
    BY <2>5, <2>6
<1> QED
  BY <1>1, <1>2

-----------------------------------------------------------------------------
(* The steps *)

LEMMA ReportSizes == Kilobyte \in Nat \ {0} /\ MaxUse \in Nat /\ MaxSpool \in Nat /\ MaxUpsets \in Nat
  BY ReportAssumption

LEMMA ReportTyped ==
    ASSUME ReportIInv
    PROVE  /\ device.make \in Makes /\ device.counter \in 0 .. MaxUse /\ device.enrolled \in BOOLEAN
           /\ memory.down \in BOOLEAN /\ memory.counter \in NoCount .. MaxUse
           /\ told.latest \in ParamsType /\ told.sent \in ParamsType
           /\ spool \in Seq(Items) /\ Len(spool) <= MaxSpool
           /\ frame.params \in ParamsType /\ cloud.params \in ParamsType
           /\ tally.says \in SUBSET {"up", "down"} /\ tally.crossed \in BOOLEAN /\ tally.stale \in BOOLEAN
  BY DEF ReportIInv, ReportTypeOK, TallyOK, Tallies, Items

LEMMA ReportNumbers ==
    ASSUME ReportIInv
    PROVE  /\ told.pending \in Nat /\ frame.kb \in Nat /\ cloud.kb \in Nat /\ device.counter \in Nat
           /\ tally.used \in Nat /\ tally.used <= MaxUse /\ tally.metered \in Nat /\ tally.lost \in Nat /\ tally.twice \in Nat
           /\ tally.upsets \in Nat /\ Spooled \in Nat /\ Unmarked \in Nat
<1>1. /\ told.pending \in Nat /\ frame.kb \in Nat /\ cloud.kb \in Nat /\ device.counter \in Nat
      /\ tally.used \in Nat /\ tally.used <= MaxUse /\ tally.metered \in Nat /\ tally.lost \in Nat /\ tally.twice \in Nat
      /\ tally.upsets \in Nat
  BY ReportSizes DEF ReportIInv, ReportTypeOK, TallyOK, Tallies
<1>2. spool \in Seq(Items)
  BY ReportTyped
<1> QED
  BY <1>1, <1>2, CarriedIsUse DEF Spooled, Unmarked

LEMMA LessIs ==
    ASSUME NEW n \in Nat, NEW by \in Nat
    PROVE  Less(n, by) \in Nat /\ n - by = Less(n, by) - Less(by, n) /\ (Less(n, by) > 0 => n > by)
  BY DEF Less

LEMMA ParamsAre ==
    ASSUME NEW p \in ParamsType
    PROVE  DOMAIN p = Fields /\ UnreadParams(p) \in ParamsType /\ UnreadParams(p).up = p.up /\ UnreadParams(p).wan = p.wan
  BY DEF ParamsType, Fields, UnreadParams

LEMMA NothingIsParams == NoParams \in ParamsType /\ \A says : Speaks(NoParams, says)
  BY DEF NoParams, ParamsType, Speaks

LEMMA MergedIs ==
    ASSUME NEW old \in ParamsType, NEW new \in ParamsType
    PROVE  /\ Merged(old, new) \in ParamsType
           /\ \A f \in Fields : Merged(old, new)[f] = IF new[f] = "absent" THEN old[f] ELSE new[f]
<1>1. DOMAIN old = Fields
  BY ParamsAre
<1>2. Merged(old, new) = [f \in Fields |-> IF new[f] = "absent" THEN old[f] ELSE new[f]]
  BY <1>1 DEF Merged
<1>3. /\ old.up \in {"absent", "0", "1"} /\ new.up \in {"absent", "0", "1"}
      /\ old.wan \in {"absent", "none", "lte", "repeater", "wired", "starlink"}
      /\ new.wan \in {"absent", "none", "lte", "repeater", "wired", "starlink"}
      /\ old.src \in {"absent", "read", "unread"} /\ new.src \in {"absent", "read", "unread"}
  BY DEF ParamsType
<1> QED
  BY <1>2, <1>3 DEF ParamsType, Fields

\* What an event that is queued changes for the cloud.
LEMMA LatestOf ==
    ASSUME NEW s \in Seq(Items)
    PROVE  /\ \A e \in Items : LET more == Append(s, e) IN more # <<>> /\ more[Len(more)] = e
           /\ s # <<>> /\ Tail(s) = <<>> => Head(s) = s[Len(s)]
           /\ Tail(s) # <<>> /\ s # <<>> => Tail(s)[Len(Tail(s))] = s[Len(s)]
<1>1. ASSUME NEW e \in Items PROVE LET more == Append(s, e) IN more # <<>> /\ more[Len(more)] = e
  OBVIOUS
<1>2. ASSUME s # <<>> PROVE (Tail(s) = <<>> => Head(s) = s[Len(s)]) /\ (Tail(s) # <<>> => Tail(s)[Len(Tail(s))] = s[Len(s)])
  <2>1. Len(s) \in Nat /\ Len(s) >= 1 /\ Len(Tail(s)) = Len(s) - 1 /\ Head(s) = s[1] /\ Tail(s) \in Seq(Items)
        /\ \A i \in 1 .. (Len(s) - 1) : Tail(s)[i] = s[i + 1]
    BY <1>2
  <2>2. ASSUME Tail(s) = <<>> PROVE Head(s) = s[Len(s)]
    <3>0. Len(<<>>) = 0
      OBVIOUS
    <3>1. Len(Tail(s)) = 0
      BY <2>2, <3>0, Zenon
    <3> DEFINE n == Len(s)
               m == Len(Tail(s))
    <3>2. n \in Nat /\ m = n - 1 /\ m = 0
      BY <2>1, <3>1
    <3> HIDE DEF n, m
    <3>3. n = 1
      BY <3>2
    <3> QED
      BY <2>1, <3>3, Zenon DEF n
  <2>3. ASSUME Tail(s) # <<>> PROVE Tail(s)[Len(Tail(s))] = s[Len(s)]
    <3>1. Len(Tail(s)) # 0
      BY <2>1, <2>3
    <3>2. Len(s) - 1 \in 1 .. (Len(s) - 1) /\ (Len(s) - 1) + 1 = Len(s)
      BY <2>1, <3>1
    <3> QED
      BY <2>1, <3>2
  <2> QED
    BY <2>2, <2>3
<1> QED
  BY <1>1, <1>2

LEMMA ReportInitially == ReportInit => ReportIInv
<1> SUFFICES ASSUME ReportInit PROVE ReportIInv
  OBVIOUS
<1>1. /\ device \in [make: Makes, counter: {0}, enrolled: BOOLEAN]
      /\ memory = [down |-> FALSE, counter |-> NoCount]
      /\ told = [latest |-> NoParams, sent |-> NoParams, pending |-> 0]
      /\ spool = <<>> /\ frame = NoFrame
      /\ cloud = [params |-> NoParams, kb |-> 0] /\ tally = NewTally
  BY DEF ReportInit, Untold
<1>2. frame = [at |-> "none", params |-> NoParams, kb |-> 0]
  BY <1>1 DEF NoFrame
<1>3. tally = [says |-> {}, used |-> 0, metered |-> 0, lost |-> 0, twice |-> 0, crossed |-> FALSE, stale |-> FALSE, upsets |-> 0]
  BY <1>1 DEF NewTally
<1>4. NoParams \in ParamsType
  BY NothingIsParams
<1>5. ReportTypeOK
  <2>1. device \in [make : Makes, counter : 0 .. MaxUse, enrolled : BOOLEAN]
    BY <1>1, ReportSizes
  <2>2. memory \in [down : BOOLEAN, counter : NoCount .. MaxUse]
    BY <1>1, ReportSizes DEF NoCount
  <2>3. told \in [latest : ParamsType, sent : ParamsType, pending : Nat] /\ cloud \in [params : ParamsType, kb : Nat]
        /\ frame \in [at : {"none", "built", "taken"}, params : ParamsType, kb : Nat]
    BY <1>1, <1>2, <1>4
  <2>4. spool \in Seq([params : ParamsType, kb : Nat]) /\ Len(spool) <= MaxSpool
    BY <1>1, ReportSizes
  <2> QED
    BY <2>1, <2>2, <2>3, <2>4 DEF ReportTypeOK
<1>6. TallyOK
  BY <1>3, ReportSizes DEF TallyOK, Tallies
<1>7. UseIsCharged
  <2>1. Spooled = 0
    BY <1>1, CarriedNothing DEF Spooled
  <2>2. Unmarked = 0
    BY <1>2 DEF Unmarked
  <2>3. cloud.kb = 0 /\ told.pending = 0 /\ tally.lost = 0 /\ tally.metered = 0 /\ tally.twice = 0 /\ tally.used = 0
    BY <1>1, <1>3
  <2> QED
    BY <2>1, <2>2, <2>3, ReportSizes DEF UseIsCharged
<1>8. PendingCovers /\ NoneMeteredTwice
  BY <1>1, <1>3 DEF PendingCovers, NoneMeteredTwice
<1>9. WordIsTheRouters
  BY <1>1 DEF WordIsTheRouters, NoParams
<1>10. CloudAgrees
  <2>1. \A f \in Fields : told.sent[f] = "absent"
    BY <1>1 DEF Fields, NoParams
  <2> QED
    BY <2>1 DEF CloudAgrees
<1> QED
  BY <1>5, <1>6, <1>7, <1>8, <1>9, <1>10 DEF ReportIInv

-----------------------------------------------------------------------------

LEMMA PolledStep ==
    ASSUME ReportIInv, NEW delta \in Nat, NEW params \in ParamsType, NEW says \in SUBSET {"up", "down"},
           Polled(delta, params, says), Speaks(params, says),
           memory' \in [down : BOOLEAN, counter : NoCount .. MaxUse],
           tally.metered * Kilobyte + delta * Kilobyte <= tally.used,
           memory'.counter # NoCount /\ device.counter > memory'.counter => memory'.counter = memory.counter /\ delta = 0
    PROVE  ReportIInv'
<1> DEFINE metered == IF device.enrolled THEN tally.metered + delta ELSE tally.metered
           said == IF device.enrolled /\ params # NoParams THEN says ELSE tally.says
           crossed == tally.crossed \/ (frame # NoFrame /\ spool' # spool)
<1>1. /\ Reported(delta, params) /\ device' = device /\ frame' = frame /\ cloud' = cloud
      /\ tally' = [tally EXCEPT !.metered = metered, !.says = said, !.crossed = crossed]
  BY DEF Polled
<1>2. metered \in Nat /\ said \in SUBSET {"up", "down"} /\ crossed \in BOOLEAN
  BY ReportNumbers, ReportTyped
<1>3. metered = tally.metered \/ metered = tally.metered + delta
  OBVIOUS
<1>4. device.enrolled => metered = tally.metered + delta
  OBVIOUS
<1>5. ~device.enrolled => metered = tally.metered /\ said = tally.says
  OBVIOUS
<1>6. params = NoParams => said = tally.says
  OBVIOUS
<1>7. device.enrolled /\ params # NoParams => said = says
  OBVIOUS
<1>8. (tally.crossed => crossed) /\ (frame # NoFrame /\ spool' # spool => crossed)
  OBVIOUS
<1> HIDE DEF metered, said, crossed
<1>9. /\ tally' \in Tallies
      /\ tally'.metered = metered /\ tally'.says = said /\ tally'.crossed = crossed
      /\ tally'.used = tally.used /\ tally'.lost = tally.lost /\ tally'.twice = tally.twice /\ tally'.stale = tally.stale
  BY <1>1, <1>2 DEF ReportIInv, TallyOK, Tallies
<1>10. \/ ~device.enrolled /\ told' = told /\ spool' = spool
       \/ device.enrolled /\ params = NoParams /\ Waits(delta, told.latest)
       \/ device.enrolled /\ params # NoParams /\ (Waits(delta, params) \/ Goes(delta, params))
  BY <1>1 DEF Reported
<1>11. TallyOK'
  BY <1>9 DEF TallyOK, Tallies
\* What the steps of every case come to.
<1> DEFINE Waited == told'.sent = told.sent /\ spool' = spool
           Posted == /\ told'.sent = params /\ spool' = Append(spool, RouterItem(params, told.pending + delta))
                   /\ told'.pending = 0 /\ Len(spool) < MaxSpool
<1>12. /\ told' \in [latest : ParamsType, sent : ParamsType, pending : Nat]
       /\ Speaks(told'.latest, said)
       /\ \/ Waited /\ told'.pending + tally.metered = told.pending + metered /\ told'.pending >= told.pending
          \/ Posted /\ metered = tally.metered + delta
  <2>1. /\ told \in [latest : ParamsType, sent : ParamsType, pending : Nat] /\ told.pending \in Nat
        /\ tally.metered \in Nat /\ told.latest \in ParamsType /\ Speaks(told.latest, tally.says)
    BY ReportNumbers, ReportTyped DEF ReportIInv, ReportTypeOK, WordIsTheRouters, Speaks
  <2>2. CASE ~device.enrolled /\ told' = told /\ spool' = spool
    BY <1>5, <2>1, <2>2
  <2>3. ASSUME NEW latest \in ParamsType, device.enrolled, Waits(delta, latest), Speaks(latest, said)
        PROVE  <1>12
    <3>1. told' = [told EXCEPT !.latest = latest, !.pending = told.pending + delta] /\ spool' = spool
      BY <2>3 DEF Waits
    <3> DEFINE pending == told.pending + delta
    <3>2. pending \in Nat /\ pending >= told.pending /\ pending + tally.metered = told.pending + metered
      BY <1>4, <2>1, <2>3
    <3>3. told' = [told EXCEPT !.latest = latest, !.pending = pending]
      BY <3>1
    <3> HIDE DEF pending
    <3>4. told' \in [latest : ParamsType, sent : ParamsType, pending : Nat] /\ told'.latest = latest
          /\ told'.sent = told.sent /\ told'.pending = pending
      BY <2>1, <3>2, <3>3
    <3> QED
      BY <2>3, <3>1, <3>2, <3>4
  <2>4. CASE device.enrolled /\ params = NoParams /\ Waits(delta, told.latest)
    BY <1>6, <2>1, <2>3, <2>4
  <2>5. CASE device.enrolled /\ params # NoParams /\ Waits(delta, params)
    BY <1>7, <2>3, <2>5
  <2>6. CASE device.enrolled /\ params # NoParams /\ Goes(delta, params)
    <3>1. /\ told' = [latest |-> params, sent |-> params, pending |-> 0] /\ Len(spool) < MaxSpool
          /\ spool' = Append(spool, RouterItem(params, told.pending + delta))
      BY <2>6 DEF Goes
    <3>2. told' \in [latest : ParamsType, sent : ParamsType, pending : Nat] /\ told'.latest = params
          /\ told'.sent = params /\ told'.pending = 0
      BY <3>1
    <3> QED
      BY <1>4, <1>7, <2>6, <3>1, <3>2
  <2> QED
    BY <1>10, <2>2, <2>4, <2>5, <2>6
<1> DEFINE item == RouterItem(params, told.pending + delta)
<1>13. item \in Items /\ item.kb = told.pending + delta /\ item.params = params /\ told.pending \in Nat
  BY ReportNumbers DEF RouterItem, Items
<1> HIDE DEF item
<1>14. Posted => spool' = Append(spool, item)
  BY DEF item
<1>15. Posted => /\ spool' \in Seq(Items) /\ Len(spool') <= MaxSpool /\ spool' # spool
               /\ Carried(spool') = Carried(spool) + (told.pending + delta)
               /\ spool' # <<>> /\ spool'[Len(spool')] = item
  <2> SUFFICES ASSUME Posted PROVE /\ spool' \in Seq(Items) /\ Len(spool') <= MaxSpool /\ spool' # spool
                                 /\ Carried(spool') = Carried(spool) + (told.pending + delta)
                                 /\ spool' # <<>> /\ spool'[Len(spool')] = item
    OBVIOUS
  <2>1. spool \in Seq(Items) /\ Len(spool) \in Nat /\ Len(spool) < MaxSpool
    BY ReportTyped
  <2>2. spool' = Append(spool, item)
    BY <1>14
  <2>3. Append(spool, item) \in Seq(Items) /\ Len(Append(spool, item)) = Len(spool) + 1
    BY <1>13, <2>1
  <2>4. Append(spool, item) # spool
    <3> DEFINE n == Len(spool)
    <3>1. n \in Nat /\ n # n + 1
      BY <2>1
    <3> QED
      BY <2>3, <3>1
  <2>5. Len(spool') <= MaxSpool
    <3> DEFINE n == Len(spool)
               m == Len(spool')
    <3>1. n \in Nat /\ n < MaxSpool /\ m = n + 1
      BY <2>1, <2>2, <2>3
    <3> HIDE DEF n, m
    <3>2. m <= MaxSpool
      BY <3>1, ReportSizes
    <3> QED
      BY <3>2 DEF m
  <2>6. Carried(Append(spool, item)) = Carried(spool) + item.kb
    BY <1>13, <2>1, CarriedAppend
  <2>7. Append(spool, item) # <<>> /\ Append(spool, item)[Len(Append(spool, item))] = item
    BY <1>13, <2>1, LatestOf
  <2> HIDE DEF Posted
  <2> QED
    BY <1>13, <2>2, <2>3, <2>4, <2>5, <2>6, <2>7
<1>16. ReportTypeOK'
  <2>1. spool' \in Seq([params : ParamsType, kb : Nat]) /\ Len(spool') <= MaxSpool
    <3>1. CASE Waited
      BY <3>1 DEF ReportIInv, ReportTypeOK
    <3>2. CASE Posted
      <4>1. spool' \in Seq(Items) /\ Len(spool') <= MaxSpool
        BY <1>15, <3>2
      <4> QED
        BY <4>1 DEF Items
    <3> QED
      BY <1>12, <3>1, <3>2
  <2> QED
    BY <1>1, <1>12, <2>1 DEF ReportIInv, ReportTypeOK
<1>17. PendingCovers'
  <2>1. frame' = NoFrame \/ frame'.at \in {"built", "taken"}
    BY <1>1 DEF ReportIInv, PendingCovers
  <2>2. ASSUME frame # NoFrame, ~crossed PROVE frame.kb <= told'.pending
    <3>1. ~tally.crossed /\ spool' = spool
      BY <1>8, <2>2
    <3>2. ~Posted
      BY <1>15, <3>1
    <3>3. told'.pending >= told.pending /\ told'.pending \in Nat
      BY <1>12, <3>2
    <3>4. frame.kb <= told.pending
      BY <2>2, <3>1 DEF ReportIInv, PendingCovers
    <3> DEFINE a == frame.kb
               b == told.pending
               c == told'.pending
    <3>5. a \in Nat /\ b \in Nat /\ c \in Nat /\ a <= b /\ c >= b
      BY <3>3, <3>4, ReportNumbers
    <3> HIDE DEF a, b, c
    <3>6. a <= c
      BY <3>5
    <3> QED
      BY <3>6 DEF a, c
  <2> QED
    BY <1>1, <1>9, <2>1, <2>2 DEF PendingCovers
<1> DEFINE k == Kilobyte
           m == tally.metered
           u == tally.used
<1>18. metered * Kilobyte <= tally.used
  <2>1. m \in Nat /\ u \in Nat /\ k \in Nat /\ m * k + delta * k <= u
    BY ReportNumbers, ReportSizes
  <2>2. m * k <= u /\ (m + delta) * k <= u
    <3> HIDE DEF m, u, k
    <3>1. m * k \in Nat /\ delta * k \in Nat /\ (m + delta) * k = m * k + delta * k
      BY <2>1
    <3> QED
      BY <2>1, <3>1
  <2> QED
    BY <1>3, <2>2
<1>19. NoneMeteredTwice'
  <2>1. device'.counter <= tally'.used
    BY <1>1, <1>9 DEF ReportIInv, NoneMeteredTwice
  <2>2. ASSUME memory'.counter # NoCount, device.counter > memory'.counter
        PROVE  metered * Kilobyte + (device.counter - memory'.counter) <= tally.used
    <3>1. memory'.counter = memory.counter /\ delta = 0
      BY <2>2
    <3>2. metered = tally.metered
      BY <1>3, <3>1, ReportNumbers
    <3>3. tally.metered * Kilobyte + (device.counter - memory.counter) <= tally.used
      BY <2>2, <3>1 DEF ReportIInv, NoneMeteredTwice
    <3> QED
      BY <3>1, <3>2, <3>3
  <2> QED
    BY <1>1, <1>9, <2>1, <2>2 DEF NoneMeteredTwice
<1>20. UseIsCharged'
  <2>1. cloud.kb + Spooled + told.pending + tally.lost = m + tally.twice + Unmarked
        /\ (tally.twice > 0 => tally.crossed)
    BY DEF ReportIInv, UseIsCharged
  <2>2. Unmarked' = Unmarked
    BY <1>1 DEF Unmarked
  <2>3. Spooled' + told'.pending + m = Spooled + told.pending + metered /\ Spooled' \in Nat /\ told'.pending \in Nat
    <3>1. CASE Waited
      <4>1. Spooled' = Spooled
        BY <3>1 DEF Spooled
      <4>2. told'.pending \in Nat /\ Spooled \in Nat /\ told.pending \in Nat /\ m \in Nat
        BY <1>12, ReportNumbers
      <4>3. CASE Posted
        BY <1>15, <3>1, <4>3
      <4>4. CASE ~Posted
        <5>1. told'.pending + m = told.pending + metered
          BY <1>12, <4>4
        <5> DEFINE b == told.pending
                   c == told'.pending
        <5>2. b \in Nat /\ c \in Nat /\ m \in Nat /\ metered \in Nat /\ Spooled \in Nat /\ c + m = b + metered
          BY <1>2, <4>2, <5>1
        <5> HIDE DEF b, c, m
        <5>3. Spooled + c + m = Spooled + b + metered
          BY <5>2
        <5> QED
          BY <4>1, <4>2, <5>3 DEF b, c
      <4> QED
        BY <4>3, <4>4
    <3>2. CASE Posted
      <4>1. CASE Waited
        BY <1>15, <3>2, <4>1
      <4>2. CASE ~Waited
        <5>1. metered = m + delta /\ told'.pending = 0 /\ Spooled' = Spooled + (told.pending + delta)
          BY <1>12, <1>15, <3>2, <4>2 DEF Spooled
        <5> DEFINE b == told.pending
        <5>2. b \in Nat /\ m \in Nat /\ Spooled \in Nat
          BY ReportNumbers
        <5>3. Spooled' = Spooled + (b + delta)
          BY <5>1
        <5> HIDE DEF b, m, Posted, Waited
        <5>4. Spooled + (b + delta) + 0 + m = Spooled + b + (m + delta) /\ Spooled + (b + delta) \in Nat
          BY <5>2
        <5> QED
          BY <5>1, <5>3, <5>4 DEF b
      <4> QED
        BY <4>1, <4>2
    <3> QED
      BY <1>12, <3>1, <3>2
  <2>4. cloud.kb + Spooled' + told'.pending + tally.lost = metered + tally.twice + Unmarked
    <3> DEFINE a == cloud.kb
               b == told.pending
               c == told'.pending
               l == tally.lost
               w == tally.twice
               q == Spooled
               r == Spooled'
               n == Unmarked
    <3>1. a \in Nat /\ b \in Nat /\ c \in Nat /\ l \in Nat /\ w \in Nat /\ m \in Nat /\ metered \in Nat /\ q \in Nat
          /\ r \in Nat /\ n \in Nat
      BY <1>2, <2>3, ReportNumbers
    <3>2. a + q + b + l = m + w + n /\ r + c + m = q + b + metered
      BY <2>1, <2>3
    <3> HIDE DEF a, b, c, l, w, m, q, r, n
    <3>3. a + r + c + l = metered + w + n
      BY <3>1, <3>2
    <3> QED
      BY <3>3 DEF a, c, l, w, r, n
  <2> QED
    BY <1>1, <1>8, <1>9, <1>18, <2>1, <2>2, <2>4 DEF UseIsCharged
<1>21. WordIsTheRouters'
  BY <1>9, <1>12 DEF WordIsTheRouters, Speaks
<1>22. CloudAgrees'
  <2> SUFFICES ASSUME ~tally.stale
               PROVE  \/ \A f \in Fields : told'.sent[f] # "absent" => Latest(f)' = told'.sent[f]
                      \/ frame'.at = "taken" /\ spool' = <<>> /\ cloud'.params = frame'.params
    BY <1>9 DEF CloudAgrees
  <2>1. CASE Waited
    <3>1. \A f \in Fields : Latest(f)' = Latest(f)
      BY <1>1, <2>1 DEF Latest
    <3> QED
      BY <1>1, <2>1, <3>1 DEF ReportIInv, CloudAgrees
  <2>2. CASE Posted
    <3>1. \A f \in Fields : Latest(f)' = params[f] /\ told'.sent = params
      BY <1>13, <1>15, <2>2 DEF Latest
    <3> QED
      BY <3>1
  <2> QED
    BY <1>12, <2>1, <2>2
<1> QED
  BY <1>11, <1>16, <1>17, <1>18, <1>19, <1>20, <1>21, <1>22 DEF ReportIInv

LEMMA DivIs == ASSUME NEW d \in Nat, NEW k \in Nat \ {0} PROVE d \div k \in Nat /\ (d \div k) * k <= d
  OBVIOUS

LEMMA ReadsMeter ==
    ASSUME ReportIInv, NEW count \in {NoCount, device.counter}
    PROVE  LET delta == IF count = NoCount THEN 0 ELSE WanKbDelta(memory.counter, count) IN
           delta \in Nat /\ tally.metered * Kilobyte + delta * Kilobyte <= tally.used
<1> DEFINE delta == IF count = NoCount THEN 0 ELSE WanKbDelta(memory.counter, count)
           m == tally.metered * Kilobyte
           d == count - memory.counter
<1>1. tally.metered \in Nat /\ tally.used \in Nat /\ Kilobyte \in Nat \ {0} /\ m \in Nat /\ m <= tally.used
  <2>1. tally.metered \in Nat /\ tally.used \in Nat /\ Kilobyte \in Nat \ {0} /\ tally.metered * Kilobyte <= tally.used
    BY ReportNumbers, ReportSizes DEF ReportIInv, UseIsCharged
  <2>2. \A i, j \in Nat : i * j \in Nat
    OBVIOUS
  <2> QED
    BY <2>1, <2>2
<1>2. CASE delta = 0
  <2>1. 0 * Kilobyte = 0
    BY <1>1
  <2> HIDE DEF m
  <2>2. m + 0 <= tally.used
    BY <1>1
  <2> QED
    BY <1>1, <1>2, <2>1, <2>2 DEF m
<1>3. CASE delta # 0
  <2>1. count = device.counter /\ count # NoCount /\ memory.counter # NoCount /\ ~(count < memory.counter) /\ delta = d \div Kilobyte
    BY <1>3 DEF WanKbDelta
  <2>2. count \in Nat /\ memory.counter \in Nat
    BY <2>1, ReportNumbers, ReportTyped, ReportSizes DEF NoCount
  <2>3. d \in Nat
    BY <2>1, <2>2
  <2>4. delta \in Nat /\ delta * Kilobyte <= d
    BY <1>1, <2>1, <2>3, DivIs
  <2>5. m + d <= tally.used
    <3>1. CASE d = 0
      <4> HIDE DEF m, d
      <4> QED
        BY <1>1, <3>1
    <3>2. CASE d # 0
      <4>1. device.counter > memory.counter
        BY <2>1, <2>2, <3>2
      <4> QED
        BY <2>1, <4>1 DEF ReportIInv, NoneMeteredTwice
    <3> QED
      BY <3>1, <3>2
  <2>6. delta * Kilobyte \in Nat
    BY <1>1, <2>4
  <2> DEFINE e == delta * Kilobyte
  <2> HIDE DEF m, d, e
  <2>7. m + e <= tally.used
    BY <1>1, <2>3, <2>4, <2>5, <2>6 DEF e
  <2> QED
    BY <2>4, <2>7 DEF m, e
<1> QED
  BY <1>2, <1>3

LEMMA PollReadsStep == ASSUME ReportIInv, PollReads PROVE ReportIInv'
<1>1. PICK status \in Statuses[device.make], hold \in BOOLEAN :
        LET bad == UplinkUp(status) = "down"
            held == hold /\ bad /\ ~memory.down
            count == Counters(status) IN
        /\ UplinkUp(status) # "unsaid" /\ (hold => bad)
        /\ memory' = [down |-> bad /\ ~held, counter |-> IF count = NoCount THEN memory.counter ELSE count]
        /\ Polled(IF count = NoCount THEN 0 ELSE WanKbDelta(memory.counter, count),
                  IF held THEN NoParams ELSE ReportParams(status), status.says)
  BY DEF PollReads
<1> DEFINE bad == UplinkUp(status) = "down"
           held == hold /\ bad /\ ~memory.down
           down == bad /\ ~held
           count == Counters(status)
           counter == IF count = NoCount THEN memory.counter ELSE count
           delta == IF count = NoCount THEN 0 ELSE WanKbDelta(memory.counter, count)
           params == IF held THEN NoParams ELSE ReportParams(status)
<1>2. /\ UplinkUp(status) # "unsaid" /\ memory' = [down |-> down, counter |-> counter]
      /\ Polled(delta, params, status.says)
  BY <1>1
<1>3. count \in {NoCount, device.counter}
  BY DEF Counters
<1>4. device.make \in Makes /\ device.counter \in 0 .. MaxUse /\ memory.counter \in NoCount .. MaxUse
  BY ReportTyped
<1>5. params \in ParamsType /\ status.says \in SUBSET {"up", "down"} /\ Speaks(params, status.says)
  BY <1>2, <1>4, ReadsWell, NothingIsParams
<1>6. delta \in Nat /\ tally.metered * Kilobyte + delta * Kilobyte <= tally.used
  BY <1>3, ReadsMeter
<1>7. counter \in NoCount .. MaxUse
  BY <1>3, <1>4, ReportSizes DEF NoCount
<1>8. counter # NoCount /\ device.counter > counter => counter = memory.counter /\ delta = 0
  <2>1. CASE count = NoCount
    BY <2>1
  <2>2. CASE count # NoCount
    BY <1>3, <1>4, <2>2
  <2> QED
    BY <2>1, <2>2
<1>9. down \in BOOLEAN
  OBVIOUS
<1> HIDE DEF delta, params, counter, down
<1>10. memory' \in [down : BOOLEAN, counter : NoCount .. MaxUse] /\ memory'.counter = counter
  BY <1>2, <1>7, <1>9
<1> QED
  BY <1>2, <1>5, <1>6, <1>8, <1>10, PolledStep

LEMMA PollFailsStep == ASSUME ReportIInv, PollFails PROVE ReportIInv'
<1> DEFINE params == UnreadParams(told.latest)
<1>1. memory' = [memory EXCEPT !.down = TRUE] /\ Polled(0, params, tally.says)
  BY DEF PollFails
<1>2. memory' \in [down : BOOLEAN, counter : NoCount .. MaxUse] /\ memory'.counter = memory.counter
  BY <1>1 DEF ReportIInv, ReportTypeOK
<1>3. tally.says \in SUBSET {"up", "down"} /\ told.latest \in ParamsType
  BY ReportTyped
<1>4. params \in ParamsType /\ params.up = told.latest.up /\ params.wan = told.latest.wan
  BY <1>3, ParamsAre
<1>5. Speaks(params, tally.says)
  <2> HIDE DEF params
  <2> QED
    BY <1>4 DEF ReportIInv, WordIsTheRouters, Speaks
<1>6. tally.metered * Kilobyte + 0 * Kilobyte <= tally.used
  <2>1. LET delta == 0 IN tally.metered * Kilobyte + delta * Kilobyte <= tally.used
    BY ReadsMeter
  <2> QED
    BY <2>1
<1>7. memory'.counter # NoCount /\ device.counter > memory'.counter => memory'.counter = memory.counter /\ 0 = 0
  BY <1>2
<1> HIDE DEF params
<1> QED
  BY <1>1, <1>2, <1>3, <1>4, <1>5, <1>6, <1>7, PolledStep

LEMMA EventLandsStep == ASSUME ReportIInv, EventLands PROVE ReportIInv'
<1> DEFINE e == Head(spool)
<1>1. /\ spool # <<>> /\ spool' = Tail(spool)
      /\ cloud' = [params |-> Merged(cloud.params, e.params), kb |-> cloud.kb + e.kb]
      /\ device' = device /\ memory' = memory /\ told' = told /\ frame' = frame /\ tally' = tally
  BY DEF EventLands
<1>2. spool \in Seq(Items) /\ Len(spool) <= MaxSpool /\ cloud.params \in ParamsType /\ cloud.kb \in Nat
  BY ReportTyped, ReportNumbers
<1>3. e \in Items /\ e.params \in ParamsType /\ e.kb \in Nat
  <2>1. e \in Items
    BY <1>1, <1>2
  <2> QED
    BY <2>1 DEF Items
<1>4. spool' \in Seq(Items) /\ Len(spool') <= MaxSpool
  <2>1. Tail(spool) \in Seq(Items) /\ Len(Tail(spool)) = Len(spool) - 1 /\ Len(spool) \in Nat
    BY <1>1, <1>2
  <2> DEFINE n == Len(spool)
             m == Len(Tail(spool))
  <2> HIDE DEF n, m
  <2>2. m <= MaxSpool
    BY <1>2, <2>1, ReportSizes DEF n, m
  <2> QED
    BY <1>1, <2>1, <2>2 DEF m
<1>5. Carried(spool) = e.kb + Carried(spool')
  BY <1>1, <1>2, CarriedTail
<1> DEFINE merged == Merged(cloud.params, e.params)
<1>6. merged \in ParamsType /\ \A f \in Fields : merged[f] = IF e.params[f] = "absent" THEN cloud.params[f] ELSE e.params[f]
  BY <1>2, <1>3, MergedIs
<1>7. cloud'.params = merged /\ cloud'.kb = cloud.kb + e.kb
  BY <1>1
<1>8. cloud' \in [params : ParamsType, kb : Nat]
  <2>1. cloud.kb + e.kb \in Nat
    BY <1>2, <1>3
  <2> HIDE DEF merged
  <2> QED
    BY <1>1, <1>6, <2>1 DEF merged
<1>9. ReportTypeOK' /\ TallyOK'
  BY <1>1, <1>4, <1>8 DEF ReportIInv, ReportTypeOK, TallyOK, Tallies, Items
<1>10. UseIsCharged'
  <2> DEFINE a == cloud.kb
             b == told.pending
             l == tally.lost
             m == tally.metered
             w == tally.twice
             n == Unmarked
             q == Carried(spool)
             r == Carried(spool')
             k == e.kb
  <2>1. a + q + b + l = m + w + n
    BY DEF ReportIInv, UseIsCharged, Spooled
  <2>2. a \in Nat /\ b \in Nat /\ l \in Nat /\ m \in Nat /\ w \in Nat /\ n \in Nat /\ q \in Nat /\ r \in Nat /\ k \in Nat
    BY <1>2, <1>3, <1>4, ReportNumbers, CarriedIsUse
  <2>3. Unmarked' = n /\ Spooled' = r /\ cloud'.kb = a + k
    BY <1>1, <1>7 DEF Unmarked, Spooled
  <2>4. q = k + r
    BY <1>5
  <2> HIDE DEF a, b, l, m, w, n, q, r, k
  <2>5. (a + k) + r + b + l = m + w + n
    BY <2>1, <2>2, <2>4
  <2>6. cloud'.kb + Spooled' + told'.pending + tally'.lost = tally'.metered + tally'.twice + Unmarked'
    BY <1>1, <2>3, <2>5 DEF b, l, m, w
  <2> QED
    BY <1>1, <2>6 DEF ReportIInv, UseIsCharged
<1>11. PendingCovers' /\ NoneMeteredTwice' /\ WordIsTheRouters'
  BY <1>1 DEF ReportIInv, PendingCovers, NoneMeteredTwice, WordIsTheRouters
<1>12. CloudAgrees'
  <2> SUFFICES ASSUME ~tally.stale
               PROVE  \A f \in Fields : told.sent[f] # "absent" => Latest(f)' = told.sent[f]
    BY <1>1 DEF CloudAgrees
  <2> TAKE f \in Fields
  <2> HAVE told.sent[f] # "absent"
  <2>1. Latest(f) = told.sent[f] /\ Latest(f) = spool[Len(spool)].params[f]
    BY <1>1 DEF ReportIInv, CloudAgrees, Latest
  <2>2. CASE Tail(spool) = <<>>
    <3>1. e = spool[Len(spool)]
      BY <1>1, <1>2, <2>2, LatestOf
    <3>2. Latest(f)' = cloud'.params[f]
      BY <1>1, <2>2 DEF Latest
    <3> QED
      BY <1>6, <1>7, <2>1, <3>1, <3>2
  <2>3. CASE Tail(spool) # <<>>
    <3>1. Tail(spool)[Len(Tail(spool))] = spool[Len(spool)]
      BY <1>1, <1>2, <2>3, LatestOf
    <3> QED
      BY <1>1, <2>1, <2>3, <3>1 DEF Latest
  <2> QED
    BY <2>2, <2>3
<1> QED
  BY <1>9, <1>10, <1>11, <1>12 DEF ReportIInv

LEMMA EventLostStep == ASSUME ReportIInv, EventLost PROVE ReportIInv'
<1> DEFINE e == Head(spool)
           lost == tally.lost + e.kb
           upsets == tally.upsets + 1
<1>1. /\ spool # <<>> /\ spool' = Tail(spool)
      /\ tally' = [tally EXCEPT !.upsets = upsets, !.lost = lost, !.stale = TRUE]
      /\ device' = device /\ memory' = memory /\ told' = told /\ frame' = frame /\ cloud' = cloud
  BY DEF EventLost
<1>2. spool \in Seq(Items) /\ Len(spool) <= MaxSpool
  BY ReportTyped
<1>3. e.kb \in Nat
  <2>1. e \in Items
    BY <1>1, <1>2
  <2> QED
    BY <2>1 DEF Items
<1>4. spool' \in Seq(Items) /\ Len(spool') <= MaxSpool
  <2>1. Tail(spool) \in Seq(Items) /\ Len(Tail(spool)) = Len(spool) - 1 /\ Len(spool) \in Nat
    BY <1>1, <1>2
  <2> DEFINE n == Len(spool)
             m == Len(Tail(spool))
  <2> HIDE DEF n, m
  <2>2. m <= MaxSpool
    BY <1>2, <2>1, ReportSizes DEF n, m
  <2> QED
    BY <1>1, <2>1, <2>2 DEF m
<1>5. Carried(spool) = e.kb + Carried(spool')
  BY <1>1, <1>2, CarriedTail
<1>6. lost \in Nat /\ upsets \in Nat
  BY <1>3, ReportNumbers
<1>7. lost = tally.lost + e.kb
  OBVIOUS
<1> HIDE DEF lost, upsets
<1>8. /\ tally' \in Tallies
      /\ tally'.lost = lost /\ tally'.stale = TRUE /\ tally'.says = tally.says /\ tally'.used = tally.used
      /\ tally'.metered = tally.metered /\ tally'.twice = tally.twice /\ tally'.crossed = tally.crossed
  BY <1>1, <1>6 DEF ReportIInv, TallyOK, Tallies
<1>9. ReportTypeOK' /\ TallyOK'
  BY <1>1, <1>4, <1>8 DEF ReportIInv, ReportTypeOK, TallyOK, Tallies, Items
<1>10. UseIsCharged'
  <2> DEFINE a == cloud.kb
             b == told.pending
             l == tally.lost
             m == tally.metered
             w == tally.twice
             n == Unmarked
             q == Carried(spool)
             r == Carried(spool')
             k == e.kb
  <2>1. a + q + b + l = m + w + n
    BY DEF ReportIInv, UseIsCharged, Spooled
  <2>2. a \in Nat /\ b \in Nat /\ l \in Nat /\ m \in Nat /\ w \in Nat /\ n \in Nat /\ q \in Nat /\ r \in Nat /\ k \in Nat
    BY <1>2, <1>3, <1>4, ReportNumbers, CarriedIsUse
  <2>3. Unmarked' = n /\ Spooled' = r /\ lost = l + k
    BY <1>1, <1>7 DEF Unmarked, Spooled
  <2>4. q = k + r
    BY <1>5
  <2> HIDE DEF a, b, l, m, w, n, q, r, k
  <2>5. a + r + b + (l + k) = m + w + n
    BY <2>1, <2>2, <2>4
  <2>6. cloud'.kb + Spooled' + told'.pending + tally'.lost = tally'.metered + tally'.twice + Unmarked'
    BY <1>1, <1>8, <2>3, <2>5 DEF a, b, m, w
  <2> QED
    BY <1>8, <2>6 DEF ReportIInv, UseIsCharged
<1>11. PendingCovers' /\ NoneMeteredTwice' /\ WordIsTheRouters'
  BY <1>1, <1>8 DEF ReportIInv, PendingCovers, NoneMeteredTwice, WordIsTheRouters
<1>12. CloudAgrees'
  BY <1>8 DEF CloudAgrees
<1> QED
  BY <1>9, <1>10, <1>11, <1>12 DEF ReportIInv

LEMMA BuildFrameStep == ASSUME ReportIInv, BuildFrame PROVE ReportIInv'
<1>1. /\ frame = NoFrame /\ frame' = [at |-> "built", params |-> told.latest, kb |-> told.pending]
      /\ device' = device /\ memory' = memory /\ told' = told /\ spool' = spool /\ cloud' = cloud /\ tally' = tally
  BY DEF BuildFrame
<1>2. told.latest \in ParamsType /\ told.pending \in Nat
  BY ReportTyped, ReportNumbers
<1>3. frame' \in [at : {"none", "built", "taken"}, params : ParamsType, kb : Nat] /\ frame'.at = "built" /\ frame'.kb = told.pending
  BY <1>1, <1>2
<1>4. ReportTypeOK' /\ TallyOK'
  BY <1>1, <1>3 DEF ReportIInv, ReportTypeOK, TallyOK, Tallies
<1>5. Unmarked' = Unmarked /\ Spooled' = Spooled
  BY <1>1, <1>3 DEF Unmarked, Spooled, NoFrame
<1>6. UseIsCharged' /\ NoneMeteredTwice' /\ WordIsTheRouters'
  BY <1>1, <1>5 DEF ReportIInv, UseIsCharged, NoneMeteredTwice, WordIsTheRouters
<1>7. PendingCovers'
  BY <1>1, <1>2, <1>3 DEF PendingCovers
<1>8. CloudAgrees'
  <2>1. frame.at # "taken"
    BY <1>1 DEF NoFrame
  <2>2. \A f \in Fields : Latest(f)' = Latest(f)
    BY <1>1 DEF Latest
  <2> QED
    BY <1>1, <2>1, <2>2 DEF ReportIInv, CloudAgrees
<1> QED
  BY <1>4, <1>6, <1>7, <1>8 DEF ReportIInv

LEMMA FrameTakenStep == ASSUME ReportIInv, FrameTaken PROVE ReportIInv'
<1> DEFINE stale == spool # <<>>
<1>1. /\ frame.at = "built" /\ frame' = [frame EXCEPT !.at = "taken"]
      /\ cloud' = [params |-> frame.params, kb |-> cloud.kb + frame.kb]
      /\ tally' = [tally EXCEPT !.stale = stale]
      /\ device' = device /\ memory' = memory /\ told' = told /\ spool' = spool
  BY DEF FrameTaken
<1>2. frame.params \in ParamsType /\ frame.kb \in Nat /\ cloud.kb \in Nat /\ frame # NoFrame
  BY <1>1, ReportTyped, ReportNumbers DEF NoFrame
<1>3. frame' \in [at : {"none", "built", "taken"}, params : ParamsType, kb : Nat] /\ frame'.at = "taken" /\ frame'.kb = frame.kb
      /\ frame'.params = frame.params
  BY <1>1 DEF ReportIInv, ReportTypeOK
<1>4. cloud' \in [params : ParamsType, kb : Nat] /\ cloud'.params = frame.params /\ cloud'.kb = cloud.kb + frame.kb
  BY <1>1, <1>2
<1>5. stale \in BOOLEAN /\ (~stale => spool = <<>>)
  OBVIOUS
<1> HIDE DEF stale
<1>6. /\ tally' \in Tallies
      /\ tally'.lost = tally.lost /\ tally'.stale = stale /\ tally'.says = tally.says /\ tally'.used = tally.used
      /\ tally'.metered = tally.metered /\ tally'.twice = tally.twice /\ tally'.crossed = tally.crossed
  BY <1>1, <1>5 DEF ReportIInv, TallyOK, Tallies
<1>7. ReportTypeOK' /\ TallyOK'
  BY <1>1, <1>3, <1>4, <1>6 DEF ReportIInv, ReportTypeOK, TallyOK, Tallies
<1>8. UseIsCharged'
  <2> DEFINE a == cloud.kb
             b == told.pending
             l == tally.lost
             m == tally.metered
             w == tally.twice
             q == Spooled
             k == frame.kb
  <2>1. Unmarked = 0 /\ Unmarked' = k /\ Spooled' = q /\ cloud'.kb = a + k
    BY <1>1, <1>3, <1>4 DEF Unmarked, Spooled
  <2>2. a + q + b + l = m + w + 0
    BY <2>1 DEF ReportIInv, UseIsCharged
  <2>3. a \in Nat /\ b \in Nat /\ l \in Nat /\ m \in Nat /\ w \in Nat /\ q \in Nat /\ k \in Nat
    BY ReportNumbers
  <2> HIDE DEF a, b, l, m, w, q, k
  <2>4. (a + k) + q + b + l = m + w + k
    BY <2>2, <2>3
  <2>5. cloud'.kb + Spooled' + told'.pending + tally'.lost = tally'.metered + tally'.twice + Unmarked'
    BY <1>1, <1>6, <2>1, <2>4 DEF b, l, m, w
  <2> QED
    BY <1>6, <2>5 DEF ReportIInv, UseIsCharged
<1>9. PendingCovers'
  BY <1>1, <1>2, <1>3, <1>6 DEF ReportIInv, PendingCovers
<1>10. NoneMeteredTwice' /\ WordIsTheRouters'
  BY <1>1, <1>6 DEF ReportIInv, NoneMeteredTwice, WordIsTheRouters
<1>11. CloudAgrees'
  BY <1>1, <1>3, <1>4, <1>5, <1>6 DEF CloudAgrees
<1> QED
  BY <1>7, <1>8, <1>9, <1>10, <1>11 DEF ReportIInv

LEMMA FrameMarkedStep == ASSUME ReportIInv, FrameMarked PROVE ReportIInv'
<1> DEFINE pending == Less(told.pending, frame.kb)
           more == Less(frame.kb, told.pending)
           twice == tally.twice + more
           stale == tally.stale \/ told.sent # frame.params
<1>1. /\ frame.at = "taken" /\ frame' = NoFrame
      /\ told' = [told EXCEPT !.sent = frame.params, !.pending = pending]
      /\ tally' = [tally EXCEPT !.twice = twice, !.stale = stale]
      /\ device' = device /\ memory' = memory /\ spool' = spool /\ cloud' = cloud
  BY DEF FrameMarked
<1>2. frame.params \in ParamsType /\ frame.kb \in Nat /\ told.pending \in Nat /\ tally.twice \in Nat /\ frame # NoFrame
  BY <1>1, ReportTyped, ReportNumbers DEF NoFrame
<1>3. pending \in Nat /\ more \in Nat /\ told.pending - frame.kb = pending - more /\ (more > 0 => frame.kb > told.pending)
  BY <1>2, LessIs
<1>4. stale \in BOOLEAN /\ (~stale => ~tally.stale /\ told.sent = frame.params)
  BY ReportTyped
<1>5. twice \in Nat /\ twice = tally.twice + more
  <2> HIDE DEF more
  <2> QED
    BY <1>2, <1>3
<1> HIDE DEF pending, more, twice, stale
<1>6. told' \in [latest : ParamsType, sent : ParamsType, pending : Nat] /\ told'.latest = told.latest
      /\ told'.sent = frame.params /\ told'.pending = pending
  BY <1>1, <1>2, <1>3 DEF ReportIInv, ReportTypeOK
<1>7. /\ tally' \in Tallies
      /\ tally'.lost = tally.lost /\ tally'.stale = stale /\ tally'.says = tally.says /\ tally'.used = tally.used
      /\ tally'.metered = tally.metered /\ tally'.twice = twice /\ tally'.crossed = tally.crossed
  BY <1>1, <1>4, <1>5 DEF ReportIInv, TallyOK, Tallies
<1>8. frame' \in [at : {"none", "built", "taken"}, params : ParamsType, kb : Nat] /\ frame'.at = "none"
  BY <1>1, NothingIsParams DEF NoFrame
<1>9. ReportTypeOK' /\ TallyOK'
  BY <1>1, <1>6, <1>7, <1>8 DEF ReportIInv, ReportTypeOK, TallyOK, Tallies
<1>10. UseIsCharged'
  <2> DEFINE a == cloud.kb
             b == told.pending
             l == tally.lost
             m == tally.metered
             w == tally.twice
             q == Spooled
             k == frame.kb
  <2>1. Unmarked = k /\ Unmarked' = 0 /\ Spooled' = q
    BY <1>1, <1>8 DEF Unmarked, Spooled
  <2>2. a + q + b + l = m + w + k
    BY <2>1 DEF ReportIInv, UseIsCharged
  <2>3. a \in Nat /\ b \in Nat /\ l \in Nat /\ m \in Nat /\ w \in Nat /\ q \in Nat /\ k \in Nat
    BY ReportNumbers
  <2>4. pending \in Nat /\ more \in Nat /\ twice \in Nat /\ b - k = pending - more /\ twice = w + more
    BY <1>3, <1>5
  <2>5. ~tally.crossed => k <= b
    BY <1>2 DEF ReportIInv, PendingCovers
  <2>6. w > 0 => tally.crossed
    BY DEF ReportIInv, UseIsCharged
  <2>7. more > 0 => k > b
    BY <1>3
  <2> HIDE DEF a, b, l, m, w, q, k
  <2>8. a + q + pending + l = m + twice + 0
    BY <2>2, <2>3, <2>4
  <2>9. twice > 0 => tally.crossed
    BY <2>3, <2>4, <2>5, <2>6, <2>7
  <2>10. cloud'.kb + Spooled' + told'.pending + tally'.lost = tally'.metered + tally'.twice + Unmarked'
    BY <1>1, <1>6, <1>7, <2>1, <2>8 DEF a, l, m
  <2> QED
    BY <1>7, <2>9, <2>10 DEF ReportIInv, UseIsCharged
<1>11. PendingCovers'
  BY <1>1 DEF PendingCovers
<1>12. NoneMeteredTwice' /\ WordIsTheRouters'
  BY <1>1, <1>6, <1>7 DEF ReportIInv, NoneMeteredTwice, WordIsTheRouters
<1>13. CloudAgrees'
  <2> SUFFICES ASSUME ~stale
               PROVE  \A f \in Fields : told'.sent[f] # "absent" => Latest(f)' = told'.sent[f]
    BY <1>7 DEF CloudAgrees
  <2>1. ~tally.stale /\ told'.sent = told.sent /\ told.sent = frame.params
    BY <1>4, <1>6
  <2>2. \A f \in Fields : Latest(f)' = Latest(f)
    BY <1>1 DEF Latest
  <2>3. CASE \A f \in Fields : told.sent[f] # "absent" => Latest(f) = told.sent[f]
    BY <2>1, <2>2, <2>3
  <2>4. CASE spool = <<>> /\ cloud.params = frame.params
    BY <2>1, <2>2, <2>4 DEF Latest
  <2> QED
    BY <2>1, <2>3, <2>4 DEF ReportIInv, CloudAgrees
<1> QED
  BY <1>9, <1>10, <1>11, <1>12, <1>13 DEF ReportIInv

LEMMA FrameLostStep == ASSUME ReportIInv, FrameLost PROVE ReportIInv'
<1> DEFINE taken == frame.at = "taken"
           upsets == tally.upsets + 1
           stale == tally.stale \/ frame.at = "taken"
           twice == IF frame.at = "taken" THEN tally.twice + frame.kb ELSE tally.twice
           crossed == tally.crossed \/ frame.at = "taken"
<1>1. /\ frame # NoFrame /\ frame' = NoFrame
      /\ tally' = [tally EXCEPT !.upsets = upsets, !.stale = stale, !.twice = twice, !.crossed = crossed]
      /\ device' = device /\ memory' = memory /\ told' = told /\ spool' = spool /\ cloud' = cloud
  BY DEF FrameLost
<1>2. /\ upsets \in Nat /\ stale \in BOOLEAN /\ crossed \in BOOLEAN
      /\ (~stale => ~tally.stale /\ ~taken) /\ (tally.crossed => crossed) /\ (taken => crossed)
  BY ReportTyped, ReportNumbers
<1>3. twice \in Nat /\ (taken => twice = tally.twice + frame.kb) /\ (~taken => twice = tally.twice)
  BY ReportNumbers
<1>4. (taken => Unmarked = frame.kb) /\ (~taken => Unmarked = 0)
  BY DEF Unmarked
<1>5. frame'.at # "taken" /\ Unmarked' = 0
  BY <1>1 DEF NoFrame, Unmarked
<1>6. frame' \in [at : {"none", "built", "taken"}, params : ParamsType, kb : Nat]
  BY <1>1, NothingIsParams DEF NoFrame
<1>7. ~taken <=> frame.at # "taken"
  OBVIOUS
<1> HIDE DEF taken, upsets, stale, twice, crossed
<1>8. /\ tally' \in Tallies
      /\ tally'.lost = tally.lost /\ tally'.stale = stale /\ tally'.says = tally.says /\ tally'.used = tally.used
      /\ tally'.metered = tally.metered /\ tally'.twice = twice /\ tally'.crossed = crossed
  BY <1>1, <1>2, <1>3 DEF ReportIInv, TallyOK, Tallies
<1>9. ReportTypeOK' /\ TallyOK'
  BY <1>1, <1>6, <1>8 DEF ReportIInv, ReportTypeOK, TallyOK, Tallies
<1>10. UseIsCharged'
  <2> DEFINE a == cloud.kb
             b == told.pending
             l == tally.lost
             m == tally.metered
             w == tally.twice
             q == Spooled
             k == frame.kb
             n == Unmarked
  <2>1. a + q + b + l = m + w + n /\ (w > 0 => tally.crossed)
    BY DEF ReportIInv, UseIsCharged
  <2>2. a \in Nat /\ b \in Nat /\ l \in Nat /\ m \in Nat /\ w \in Nat /\ q \in Nat /\ k \in Nat /\ n \in Nat
    BY ReportNumbers
  <2>3. Spooled' = q
    BY <1>1 DEF Spooled
  <2>4. twice = w + n
    <3>1. CASE taken
      BY <1>3, <1>4, <3>1
    <3>2. CASE ~taken
      <4>1. twice = w /\ n = 0
        BY <1>3, <1>4, <3>2
      <4> HIDE DEF w, n
      <4> QED
        BY <2>2, <4>1
    <3> QED
      BY <3>1, <3>2
  <2>5. twice > 0 => crossed
    BY <1>2, <1>3, <2>1
  <2> HIDE DEF a, b, l, m, w, q, k, n
  <2>6. a + q + b + l = m + twice + 0
    BY <2>1, <2>2, <2>4
  <2>7. cloud'.kb + Spooled' + told'.pending + tally'.lost = tally'.metered + tally'.twice + Unmarked'
    BY <1>1, <1>5, <1>8, <2>3, <2>6 DEF a, b, l, m
  <2> QED
    BY <1>8, <2>5, <2>7 DEF ReportIInv, UseIsCharged
<1>11. PendingCovers'
  BY <1>1 DEF PendingCovers
<1>12. NoneMeteredTwice' /\ WordIsTheRouters'
  BY <1>1, <1>8 DEF ReportIInv, NoneMeteredTwice, WordIsTheRouters
<1>13. CloudAgrees'
  <2> SUFFICES ASSUME ~stale
               PROVE  \A f \in Fields : told'.sent[f] # "absent" => Latest(f)' = told'.sent[f]
    BY <1>8 DEF CloudAgrees
  <2>1. ~tally.stale /\ frame.at # "taken"
    BY <1>2, <1>7
  <2>2. \A f \in Fields : Latest(f)' = Latest(f)
    BY <1>1 DEF Latest
  <2> QED
    BY <1>1, <2>1, <2>2 DEF ReportIInv, CloudAgrees
<1> QED
  BY <1>9, <1>10, <1>11, <1>12, <1>13 DEF ReportIInv

\* What the uplink carries, what the modem counts, and who the router belongs to.
LEMMA DeviceStep == ASSUME ReportIInv, Uses \/ Reboots \/ Enrols PROVE ReportIInv'
<1>1. memory' = memory /\ told' = told /\ spool' = spool /\ frame' = frame /\ cloud' = cloud
  BY DEF Uses, Reboots, Enrols
<1> DEFINE c == device.counter
           u == tally.used
           p == tally.metered * Kilobyte
           g == memory.counter
<1>2. /\ c \in Nat /\ u \in Nat /\ u <= MaxUse /\ p \in Nat /\ (g = NoCount \/ g \in Nat) /\ c <= u /\ p <= u
      /\ (g # NoCount /\ c > g => p + (c - g) <= u) /\ MaxUse \in Nat
  <2>1. c \in Nat /\ u \in Nat /\ u <= MaxUse /\ MaxUse \in Nat
    BY ReportNumbers, ReportSizes
  <2>2. g = NoCount \/ g \in Nat
    BY ReportTyped, ReportSizes DEF NoCount
  <2>3. p \in Nat
    <3>1. \A i, j \in Nat : i * j \in Nat
      OBVIOUS
    <3> QED
      BY <3>1, ReportNumbers, ReportSizes
  <2> QED
    BY <2>1, <2>2, <2>3 DEF ReportIInv, UseIsCharged, NoneMeteredTwice
\* The counter and the use go up together, or the counter starts over.
<1> DEFINE Ticked == /\ device' \in [make : Makes, counter : 0 .. MaxUse, enrolled : BOOLEAN]
                    /\ tally' \in Tallies
                    /\ tally'.lost = tally.lost /\ tally'.stale = tally.stale /\ tally'.says = tally.says
                    /\ tally'.metered = tally.metered /\ tally'.twice = tally.twice /\ tally'.crossed = tally.crossed
                    /\ \/ tally'.used = u + 1 /\ device'.counter = c + 1
                       \/ tally'.used = u /\ device'.counter = 0
                       \/ tally'.used = u /\ device'.counter = c
<1>3. Ticked
  <2>1. CASE Uses
    <3>1. u < MaxUse /\ tally' = [tally EXCEPT !.used = u + 1] /\ device' = [device EXCEPT !.counter = c + 1]
      BY <2>1 DEF Uses
    <3> DEFINE v == u + 1
               d == c + 1
    <3>2. v \in 0 .. MaxUse /\ d \in 0 .. MaxUse
      <4> HIDE DEF c, u, p, g
      <4> QED
        BY <1>2, <3>1
    <3>3. tally' = [tally EXCEPT !.used = v] /\ device' = [device EXCEPT !.counter = d]
      BY <3>1
    <3> HIDE DEF v, d
    <3>4. tally'.used = v /\ device'.counter = d
      BY <3>3 DEF ReportIInv, ReportTypeOK, TallyOK, Tallies
    <3>5. device' \in [make : Makes, counter : 0 .. MaxUse, enrolled : BOOLEAN]
      BY <3>2, <3>3 DEF ReportIInv, ReportTypeOK
    <3>6. /\ tally' \in Tallies
          /\ tally'.lost = tally.lost /\ tally'.stale = tally.stale /\ tally'.says = tally.says
          /\ tally'.metered = tally.metered /\ tally'.twice = tally.twice /\ tally'.crossed = tally.crossed
      BY <3>2, <3>3 DEF ReportIInv, TallyOK, Tallies
    <3> QED
      BY <3>4, <3>5, <3>6 DEF v, d
  <2>2. CASE Reboots
    <3> DEFINE n == tally.upsets + 1
    <3>1. tally' = [tally EXCEPT !.upsets = n] /\ device' = [device EXCEPT !.counter = 0]
      BY <2>2 DEF Reboots
    <3>2. n \in Nat /\ 0 \in 0 .. MaxUse
      BY ReportNumbers, ReportSizes
    <3> HIDE DEF n
    <3>3. device' \in [make : Makes, counter : 0 .. MaxUse, enrolled : BOOLEAN] /\ device'.counter = 0
      BY <3>1, <3>2 DEF ReportIInv, ReportTypeOK
    <3>4. /\ tally' \in Tallies
          /\ tally'.lost = tally.lost /\ tally'.stale = tally.stale /\ tally'.says = tally.says
          /\ tally'.metered = tally.metered /\ tally'.twice = tally.twice /\ tally'.crossed = tally.crossed
          /\ tally'.used = tally.used
      BY <3>1, <3>2 DEF ReportIInv, TallyOK, Tallies
    <3> QED
      BY <3>3, <3>4
  <2>3. CASE Enrols
    <3>1. device' = [device EXCEPT !.enrolled = TRUE] /\ tally' = tally
      BY <2>3 DEF Enrols
    <3>2. device' \in [make : Makes, counter : 0 .. MaxUse, enrolled : BOOLEAN] /\ device'.counter = device.counter
      BY <3>1 DEF ReportIInv, ReportTypeOK
    <3> QED
      BY <3>1, <3>2 DEF ReportIInv, TallyOK, Tallies
  <2> QED
    BY <2>1, <2>2, <2>3
<1>4. ReportTypeOK' /\ TallyOK'
  BY <1>1, <1>3 DEF ReportIInv, ReportTypeOK, TallyOK, Tallies
<1>5. p <= tally'.used
  <2> HIDE DEF c, p, g, u
  <2>1. tally'.used = u \/ tally'.used = u + 1
    BY <1>3
  <2> QED
    BY <1>2, <2>1
<1>6. UseIsCharged'
  <2>1. Unmarked' = Unmarked /\ Spooled' = Spooled
    BY <1>1 DEF Unmarked, Spooled
  <2> QED
    BY <1>1, <1>3, <1>5, <2>1 DEF ReportIInv, UseIsCharged
<1>7. NoneMeteredTwice'
  <2> DEFINE d == device'.counter
             v == tally'.used
  <2>1. \/ v = u + 1 /\ d = c + 1
        \/ v = u /\ d = 0
        \/ v = u /\ d = c
    BY <1>3
  <2>2. d <= v /\ (g # NoCount /\ d > g => p + (d - g) <= v)
    <3> HIDE DEF c, u, p, g, d, v
    <3>1. CASE v = u + 1 /\ d = c + 1
      BY <1>2, <3>1
    <3>2. CASE v = u /\ d = 0
      BY <1>2, <3>2
    <3>3. CASE v = u /\ d = c
      BY <1>2, <3>3
    <3> QED
      BY <2>1, <3>1, <3>2, <3>3
  <2> QED
    BY <1>1, <1>3, <2>2 DEF NoneMeteredTwice
<1>8. PendingCovers' /\ WordIsTheRouters'
  BY <1>1, <1>3 DEF ReportIInv, PendingCovers, WordIsTheRouters
<1>9. CloudAgrees'
  <2>1. \A f \in Fields : Latest(f)' = Latest(f)
    BY <1>1 DEF Latest
  <2> QED
    BY <1>1, <1>3, <2>1 DEF ReportIInv, CloudAgrees
<1> QED
  BY <1>4, <1>6, <1>7, <1>8, <1>9 DEF ReportIInv

LEMMA HubRestartsStep == ASSUME ReportIInv, HubRestarts PROVE ReportIInv'
<1> DEFINE upsets == tally.upsets + 1
           left == Less(told.pending, Unmarked)
           more == Less(Unmarked, told.pending)
           lost == tally.lost + Spooled + left
           twice == tally.twice + more
<1>1. /\ memory' = [down |-> FALSE, counter |-> NoCount] /\ told' = Untold /\ spool' = <<>> /\ frame' = NoFrame
      /\ tally' = [tally EXCEPT !.upsets = upsets, !.stale = TRUE, !.lost = lost, !.twice = twice]
      /\ device' = device /\ cloud' = cloud
  BY DEF HubRestarts
<1> DEFINE b == told.pending
           n == Unmarked
           l == tally.lost
           w == tally.twice
           q == Spooled
<1>2. b \in Nat /\ n \in Nat /\ l \in Nat /\ w \in Nat /\ q \in Nat /\ upsets \in Nat
  BY ReportNumbers
<1>3. left \in Nat /\ more \in Nat /\ b - n = left - more /\ (more > 0 => n > b)
  BY <1>2, LessIs
<1>4. lost \in Nat /\ twice \in Nat /\ lost = l + q + left /\ twice = w + more
  <2> HIDE DEF left, more
  <2> QED
    BY <1>2, <1>3
<1> HIDE DEF upsets, left, more, lost, twice
<1>5. /\ tally' \in Tallies
      /\ tally'.lost = lost /\ tally'.stale = TRUE /\ tally'.says = tally.says /\ tally'.used = tally.used
      /\ tally'.metered = tally.metered /\ tally'.twice = twice /\ tally'.crossed = tally.crossed
  BY <1>1, <1>2, <1>4 DEF ReportIInv, TallyOK, Tallies
<1>6. told' \in [latest : ParamsType, sent : ParamsType, pending : Nat] /\ told'.pending = 0 /\ told'.latest = NoParams
  BY <1>1, NothingIsParams DEF Untold
<1>7. frame' \in [at : {"none", "built", "taken"}, params : ParamsType, kb : Nat] /\ frame'.at = "none"
  BY <1>1, NothingIsParams DEF NoFrame
<1>8. memory' \in [down : BOOLEAN, counter : NoCount .. MaxUse] /\ memory'.counter = NoCount
  BY <1>1, ReportSizes DEF NoCount
<1>9. spool' \in Seq([params : ParamsType, kb : Nat]) /\ Len(spool') <= MaxSpool
  BY <1>1, ReportSizes
<1>10. ReportTypeOK' /\ TallyOK'
  BY <1>1, <1>5, <1>6, <1>7, <1>8, <1>9 DEF ReportIInv, ReportTypeOK, TallyOK, Tallies
<1>11. UseIsCharged'
  <2> DEFINE a == cloud.kb
             m == tally.metered
             k == frame.kb
  <2>1. a + q + b + l = m + w + n /\ (w > 0 => tally.crossed)
    BY DEF ReportIInv, UseIsCharged
  <2>2. a \in Nat /\ m \in Nat /\ k \in Nat
    BY ReportNumbers
  <2>3. Spooled' = 0 /\ Unmarked' = 0
    BY <1>1, <1>7, CarriedNothing DEF Spooled, Unmarked
  <2>4. n > b => tally.crossed
    <3>1. CASE frame.at = "taken"
      <4>1. n = k /\ frame # NoFrame
        BY <3>1 DEF Unmarked, NoFrame
      <4>2. ~tally.crossed => k <= b
        BY <4>1 DEF ReportIInv, PendingCovers
      <4> HIDE DEF n, k, b
      <4> QED
        BY <1>2, <2>2, <4>1, <4>2
    <3>2. CASE frame.at # "taken"
      <4>1. n = 0
        BY <3>2 DEF Unmarked
      <4> HIDE DEF n, b
      <4> QED
        BY <1>2, <4>1
    <3> QED
      BY <3>1, <3>2
  <2> HIDE DEF a, b, l, m, w, q, k, n
  <2>5. a + 0 + 0 + lost = m + twice + 0
    BY <1>2, <1>3, <1>4, <2>1, <2>2
  <2>6. twice > 0 => tally.crossed
    BY <1>2, <1>3, <1>4, <2>1, <2>4
  <2>7. cloud'.kb + Spooled' + told'.pending + tally'.lost = tally'.metered + tally'.twice + Unmarked'
    BY <1>1, <1>5, <1>6, <2>3, <2>5 DEF a, m
  <2> QED
    BY <1>5, <2>6, <2>7 DEF ReportIInv, UseIsCharged
<1>12. PendingCovers'
  BY <1>1 DEF PendingCovers
<1>13. NoneMeteredTwice'
  BY <1>1, <1>5, <1>8 DEF ReportIInv, NoneMeteredTwice
<1>14. WordIsTheRouters'
  BY <1>6 DEF WordIsTheRouters, NoParams
<1>15. CloudAgrees'
  BY <1>5 DEF CloudAgrees
<1> QED
  BY <1>10, <1>11, <1>12, <1>13, <1>14, <1>15 DEF ReportIInv

LEMMA ReportStep == ReportIInv /\ [ReportNext]_reportVars => ReportIInv'
<1> SUFFICES ASSUME ReportIInv, [ReportNext]_reportVars PROVE ReportIInv'
  OBVIOUS
<1>1. CASE UNCHANGED reportVars
  <2>1. device' = device /\ memory' = memory /\ told' = told /\ spool' = spool /\ frame' = frame /\ cloud' = cloud /\ tally' = tally
    BY <1>1 DEF reportVars
  <2>2. Spooled' = Spooled /\ Unmarked' = Unmarked /\ \A f \in Fields : Latest(f)' = Latest(f)
    BY <2>1 DEF Spooled, Unmarked, Latest
  <2>3. ReportTypeOK' /\ TallyOK'
    BY <2>1 DEF ReportIInv, ReportTypeOK, TallyOK, Tallies
  <2>4. UseIsCharged' /\ PendingCovers' /\ NoneMeteredTwice'
    BY <2>1, <2>2 DEF ReportIInv, UseIsCharged, PendingCovers, NoneMeteredTwice
  <2>5. WordIsTheRouters' /\ CloudAgrees'
    BY <2>1, <2>2 DEF ReportIInv, WordIsTheRouters, CloudAgrees
  <2> QED
    BY <2>3, <2>4, <2>5 DEF ReportIInv
<1>2. CASE ReportNext
  BY <1>2, PollReadsStep, PollFailsStep, EventLandsStep, EventLostStep, BuildFrameStep, FrameTakenStep, FrameMarkedStep,
     FrameLostStep, DeviceStep, HubRestartsStep DEF ReportNext
<1> QED
  BY <1>1, <1>2

LEMMA ReportImplied == ReportIInv => ReportInv
<1> SUFFICES ASSUME ReportIInv PROVE CloudIsTold
  BY DEF ReportIInv, ReportInv
<1> SUFFICES ASSUME ~tally.stale, spool = <<>>, frame = NoFrame, ~RouterIsEvent(told.sent, told.latest),
                    NEW f \in DOMAIN told.latest, told.latest[f] # "absent"
             PROVE  told.latest[f] = cloud.params[f]
  BY DEF CloudIsTold
<1>1. f \in Fields
  BY ReportTyped, ParamsAre
<1>2. told.sent[f] = told.latest[f]
  BY DEF RouterIsEvent
<1>3. frame.at # "taken"
  BY DEF NoFrame
<1>4. Latest(f) = told.sent[f] /\ Latest(f) = cloud.params[f]
  BY <1>1, <1>2, <1>3 DEF ReportIInv, CloudAgrees, Latest
<1> QED
  BY <1>2, <1>4

\* Of the use of an uplink nothing is lost unseen or charged twice for no reason, its word is the
\* router's own, and the cloud has it.
THEOREM UseAndWordReachTheCloud == ReportSpec => []ReportInv
<1>1. ReportSpec => []ReportIInv
  BY ReportInitially, ReportStep, PTL DEF ReportSpec
<1> QED
  BY <1>1, ReportImplied, PTL

=============================================================================
