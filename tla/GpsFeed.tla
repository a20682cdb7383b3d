------------------------------ MODULE GpsFeed ------------------------------
(***************************************************************************)
(* The sampler of the hub's own GPS source and the viewers on the LAN who  *)
(* follow it (gps_poll_loop, gps_observe and do_gps_live in                *)
(* daemon/src/hub_server.rs; SourceBackoff in gps.rs).  A sample writes    *)
(* the live fix under one lock and moves its number (rt.gps_live) after;   *)
(* a viewer reads them the other way round, and is held while its number   *)
(* is the newest.  The loop naps as long as whoever is looking allows.     *)
(***************************************************************************)
EXTENDS Naturals, FiniteSets

CONSTANTS
    Viewers,        \* callers of /api/hub/gps/live
    RetryFirst,     \* NMEA_RETRY_FIRST_SECS
    RetryCap,       \* NMEA_RETRY_CAP_SECS
    MaxFailures,    \* bound: failures counted
    MaxSamples,     \* bound: fixes of one process
    MaxChanges      \* bound: leases, watches, sources and restarts

ASSUME FeedAssumption ==
    /\ {RetryFirst, RetryCap, MaxFailures} \subseteq Nat \ {0}
    /\ RetryFirst <= RetryCap
    /\ {MaxSamples, MaxChanges} \subseteq Nat

VARIABLES
    source,     \* hub.json: the GPS source
    wants,      \* a lease is held; an anchor watch is armed
    sampler,    \* gps_poll_loop
    router,     \* router_poll_loop, in gps_observe
    permit,     \* of gps_wake
    written,    \* fixes written to telemetry.gps_live
    rev,        \* rt.gps_live
    view,       \* the viewers
    changes, boot

feedVars == <<source, wants, sampler, router, permit, written, rev, view, changes, boot>>

Kinds == {"none", "nmea", "cradlepoint"}

\* kind: as read at the start of the pass; ok: the pass did not fail; secs: of the nap.
Resting == [at |-> "nap", kind |-> "none", failures |-> 0, ok |-> TRUE, secs |-> 0]

\* since: the number it came with; seen: of its subscription; got: the last answer.
NoAnswer == [seq |-> 0, fix |-> 0, boot |-> 0]
Away == [at |-> "away", seen |-> 0, got |-> NoAnswer]

FeedInit ==
    /\ source = "none" /\ wants = [lease |-> FALSE, watch |-> FALSE]
    /\ sampler = Resting /\ router = "idle" /\ permit = FALSE
    /\ written = 0 /\ rev = 0
    /\ view = [v \in Viewers |-> Away]
    /\ changes = 0 /\ boot = 1

-----------------------------------------------------------------------------
(* What is wanted of the sampler *)

\* rt.gps_live_waiters
Counted == {v \in Viewers : view[v].at \in {"held", "reading"}}

\* geofence::sample_secs, with GPS_POLL_SECS when nobody is looking.
SampleSecs(fast, leased, live, nmea) ==
    IF live THEN (IF nmea THEN 1 ELSE 10)
    ELSE IF leased THEN (IF nmea THEN 10 ELSE 30)
    ELSE IF fast THEN 30 ELSE 60

\* do_watch: only a lease that starts rings.
LeaseCall ==
    /\ changes < MaxChanges /\ changes' = changes + 1
    /\ wants' = [wants EXCEPT !.lease = TRUE]
    /\ permit' = (permit \/ ~wants.lease)
    /\ UNCHANGED <<source, sampler, router, written, rev, view, boot>>

LeaseEnds ==
    /\ wants.lease /\ wants' = [wants EXCEPT !.lease = FALSE]
    /\ UNCHANGED <<source, sampler, router, permit, written, rev, view, changes, boot>>

\* apply_watch_reply
WatchReply ==
    /\ changes < MaxChanges /\ changes' = changes + 1
    /\ wants' = [wants EXCEPT !.watch = ~@]
    /\ permit' = TRUE
    /\ UNCHANGED <<source, sampler, router, written, rev, view, boot>>

\* do_gps
SourceSet ==
    /\ changes < MaxChanges /\ changes' = changes + 1
    /\ source' \in Kinds \ {source}
    /\ permit' = TRUE
    /\ UNCHANGED <<wants, sampler, router, written, rev, view, boot>>

-----------------------------------------------------------------------------
(* The sampler (gps_poll_loop, gps_source_pass) *)

\* gps_wake, or its timer, which leaves a permit for the next nap.  With no source set the pass
\* forgets its failures.
Wakes ==
    /\ sampler.at = "nap"
    /\ \/ permit /\ permit' = FALSE
       \/ sampler.secs > 0 /\ UNCHANGED permit
    /\ sampler' = IF source = "none" THEN [Resting EXCEPT !.at = "plan"]
                  ELSE [sampler EXCEPT !.at = "read", !.kind = source]
    /\ UNCHANGED <<source, wants, router, written, rev, view, changes, boot>>

\* The first pass of a process follows its start.
Starts ==
    /\ sampler = Resting
    /\ sampler' = IF source = "none" THEN [Resting EXCEPT !.at = "plan"]
                  ELSE [Resting EXCEPT !.at = "read", !.kind = source]
    /\ UNCHANGED <<source, wants, router, permit, written, rev, view, changes, boot>>

\* SourceBackoff::failed: the first wait, doubled with every failure after the first.
BackoffSecs(failures) ==
    LET secs == RetryFirst * 2 ^ (IF failures > 17 THEN 16 ELSE failures - 1) IN
    IF secs > RetryCap THEN RetryCap ELSE secs

\* SourceBackoff::succeeded, and gps_observe writes the live fix.
Succeeded(s) == [s EXCEPT !.at = "bump", !.ok = TRUE, !.failures = IF s.kind = "nmea" THEN 0 ELSE @]

Reads ==
    /\ sampler.at = "read"
    /\ \/ /\ written < MaxSamples
          /\ sampler' = Succeeded(sampler)
          /\ written' = written + 1
       \/ /\ sampler' = [sampler EXCEPT !.at = "plan", !.ok = FALSE,
                             !.failures = IF sampler.kind # "nmea" \/ @ = MaxFailures THEN @ ELSE @ + 1]
          /\ UNCHANGED written
    /\ UNCHANGED <<source, wants, router, permit, rev, view, changes, boot>>

\* gps_observe: the number moves once the lock is released.
Bumps ==
    /\ sampler.at = "bump" /\ sampler' = [sampler EXCEPT !.at = "plan"]
    /\ rev' = rev + 1
    /\ UNCHANGED <<source, wants, router, permit, written, view, changes, boot>>

\* How long to nap: what is wanted now, by the kind as read; a silent NMEA source waits its turn.
Plans ==
    /\ sampler.at = "plan"
    /\ sampler' = [sampler EXCEPT !.at = "nap", !.secs =
          IF ~sampler.ok /\ sampler.kind = "nmea" THEN BackoffSecs(sampler.failures)
          ELSE SampleSecs(wants.watch, wants.lease, Counted # {}, sampler.kind = "nmea")]
    /\ UNCHANGED <<source, wants, router, permit, written, rev, view, changes, boot>>

\* A router with GPS is sampled by another loop, through the same gps_observe.
RouterSamples ==
    /\ \/ router = "idle" /\ written < MaxSamples /\ router' = "bump" /\ written' = written + 1 /\ UNCHANGED rev
       \/ router = "bump" /\ router' = "idle" /\ rev' = rev + 1 /\ UNCHANGED written
    /\ UNCHANGED <<source, wants, sampler, permit, view, changes, boot>>

-----------------------------------------------------------------------------
(* A viewer (do_gps_live) *)

\* Mutant: a viewer who is held rings nobody.
AsksQuietly(v) ==
    /\ view[v].at = "away"
    /\ \E holds \in BOOLEAN :
        view' = [view EXCEPT ![v].at = IF holds /\ view[v].got.seq = rev THEN "held" ELSE "reading", ![v].seen = rev]
    /\ UNCHANGED <<source, wants, sampler, router, permit, written, rev, changes, boot>>

\* It is counted, subscribes and reads the number; one that is current is held, and rings.
Asks(v) ==
    /\ view[v].at = "away"
    /\ \E holds \in BOOLEAN :
        LET current == holds /\ view[v].got.seq = rev IN
        /\ view' = [view EXCEPT ![v].at = IF current THEN "held" ELSE "reading", ![v].seen = rev]
        /\ permit' = (permit \/ current)
    /\ UNCHANGED <<source, wants, sampler, router, written, rev, changes, boot>>

\* The number has moved since it subscribed, or the hold is over.
Released(v) ==
    /\ view[v].at = "held"
    /\ view' = [view EXCEPT ![v].at = "reading", ![v].seen = rev]
    /\ UNCHANGED <<source, wants, sampler, router, permit, written, rev, changes, boot>>

\* The number it read, and the live fix as it is now.
Answer(v) == [seq |-> view[v].seen, fix |-> written, boot |-> boot]

Answered(v) ==
    /\ view[v].at = "reading"
    /\ view' = [view EXCEPT ![v] = [at |-> "away", seen |-> 0, got |-> Answer(v)]]
    /\ UNCHANGED <<source, wants, sampler, router, permit, written, rev, changes, boot>>

\* The caller hangs up: its place is given back (Drop of LiveWaiter).
HangsUp(v) ==
    /\ view[v].at # "away"
    /\ view' = [view EXCEPT ![v].at = "away", ![v].seen = 0]
    /\ UNCHANGED <<source, wants, sampler, router, permit, written, rev, changes, boot>>

\* The hub restarts: numbers begin again, and a viewer keeps the one it has.
FeedRestart ==
    /\ changes < MaxChanges /\ changes' = changes + 1 /\ boot' = boot + 1
    /\ wants' = [lease |-> FALSE, watch |-> FALSE]
    /\ sampler' = Resting /\ router' = "idle" /\ permit' = FALSE
    /\ written' = 0 /\ rev' = 0
    /\ view' = [v \in Viewers |-> [view[v] EXCEPT !.at = "away", !.seen = 0]]
    /\ UNCHANGED source

FeedNext ==
    \/ LeaseCall \/ LeaseEnds \/ WatchReply \/ SourceSet
    \/ Wakes \/ Starts \/ Reads \/ Bumps \/ Plans \/ RouterSamples
    \/ \E v \in Viewers : Asks(v) \/ Released(v) \/ Answered(v) \/ HangsUp(v)
    \/ FeedRestart

FeedSpec == FeedInit /\ [][FeedNext]_feedVars

-----------------------------------------------------------------------------
(* Properties *)

FeedTypes ==
    /\ source \in Kinds /\ wants \in [lease: BOOLEAN, watch: BOOLEAN]
    /\ sampler \in [at: {"nap", "read", "bump", "plan"}, kind: Kinds, failures: 0..MaxFailures, ok: BOOLEAN, secs: Nat]
    /\ router \in {"idle", "bump"} /\ permit \in BOOLEAN
    /\ written \in 0..MaxSamples /\ rev \in 0..written
    /\ \A v \in Viewers :
        /\ view[v].at \in {"away", "held", "reading"} /\ view[v].seen \in 0..rev
        /\ view[v].got \in [seq: 0..MaxSamples, fix: 0..MaxSamples, boot: 0..boot]
    /\ changes \in 0..MaxChanges /\ boot \in 1..(MaxChanges + 1)

\* "HOLDS a caller that is already current" (do_gps_live): one who is held, and is not about to be
\* released, has the newest fix there is, but for one a sampler is about to number; whoever samples,
\* and however calls and samples cross.  A number from before a restart says nothing (hence boot).
HeldIsCurrent ==
    \A v \in Viewers :
        view[v].at = "held" /\ view[v].got.boot = boot /\ view[v].seen = rev =>
            \/ view[v].got.fix = written
            \/ sampler.at = "bump" \/ router = "bump"

\* The loop naps no longer than whoever is looking wants - a viewer who is held, a lease, an armed
\* watch, the source as it is set now - unless it has been rung, or an NMEA source is silent: then no
\* longer than the cap, and never once it has answered again.
Wanted == SampleSecs(wants.watch, wants.lease, \E v \in Viewers : view[v].at = "held", source = "nmea")
SampledAsWanted ==
    sampler.at = "nap" /\ ~permit /\ sampler # Resting =>
        \/ source = "none"
        \/ sampler.kind = source /\ sampler.secs <= Wanted
        \/ /\ sampler.kind = "nmea" /\ ~sampler.ok
           /\ sampler.secs <= RetryCap
           /\ sampler.failures = 1 => sampler.secs = RetryFirst

FeedInv == FeedTypes /\ HeldIsCurrent /\ SampledAsWanted

=============================================================================
