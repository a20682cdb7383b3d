-------------------------------- MODULE Watch --------------------------------
(***************************************************************************)
(* The anchor watch between the hub and the cloud (daemon/src/             *)
(* hub_server.rs and cadence.rs).  The cloud's watch comes to the hub on   *)
(* the reply of any post: a keyframe of the check-in loop, a heartbeat, or *)
(* an event.  While an anchor watch is armed the heartbeat clock keeps the *)
(* cloud from missing the boat, whatever posts are lost.  What the         *)
(* geofence makes of the watch is Geofence's.                              *)
(* Time is in units of the first retry of a heartbeat; a task that is due  *)
(* is not late (the heartbeat loop looks every sixth of a unit).           *)
(***************************************************************************)
EXTENDS Naturals

CONSTANTS
    BeatInside,         \* HEARTBEAT_INSIDE_SECS
    BeatOutside,        \* HEARTBEAT_SECS
    RetryMax,           \* HEARTBEAT_RETRY_MAX_SECS; HEARTBEAT_RETRY_SECS is one unit
    CheckinAnchor,      \* CHECKIN_ANCHOR_SECS
    CheckinZone,        \* CHECKIN_ZONE_SECS
    CheckinIdle,        \* CHECKIN_SECS
    CheckinRetry,       \* CHECKIN_RETRY_SECS
    CheckinRetryMax,    \* CHECKIN_RETRY_MAX_SECS
    LostAfter,          \* the silence after which the cloud calls the device lost
    PostLimit,          \* the timeout of a post
    MaxLosses,          \* bound: posts lost in a row, which must not come to that
    MaxSig              \* bound: watches the cloud arms

ASSUME WatchAssumption ==
    /\ {BeatInside, BeatOutside, RetryMax, CheckinAnchor, CheckinZone, CheckinIdle,
        CheckinRetry, CheckinRetryMax} \subseteq Nat \ {0}
    /\ BeatOutside <= BeatInside
    /\ CheckinAnchor <= CheckinZone /\ CheckinZone <= CheckinIdle
    /\ CheckinRetry <= CheckinRetryMax /\ CheckinRetryMax <= CheckinIdle
    /\ {LostAfter, PostLimit, MaxLosses, MaxSig} \subseteq Nat

\* The cloud's patience: the interval inside, what a post may take before and after it, and for each
\* post that is lost what it took and the wait for the next.
ASSUME WatchMargin ==
    /\ RetryMax <= BeatInside
    /\ BeatInside + 2 * PostLimit + MaxLosses * (PostLimit + RetryMax) <= LostAfter

VARIABLES
    owner,      \* the watch the cloud holds; history: the last it armed
    watch,      \* Telemetry.watch
    clock,      \* HeartbeatClock; anyOk: a post was delivered since it failed
    sinceOk,    \* the time since last_cloud_ok_ms
    checkin,    \* the time to next_due, and the failures of check-ins
    posts,      \* the posts under way
    heard       \* history: the time since the cloud heard the hub, and the posts lost since

watchVars == <<owner, watch, clock, sinceOk, checkin, posts, heard>>

Kinds == {"none", "zone", "anchor"}
Posts == {"keyframe", "beat", "event"}
Watches == {w \in [sig: 0..MaxSig, kind: Kinds] : (w.sig = 0) = (w.kind = "none")}
Disarmed == [sig |-> 0, kind |-> "none"]

AtMost(n, top) == IF n > top THEN top ELSE n
CountDown(n) == IF n = 0 THEN 0 ELSE n - 1

\* sig: the watch a heartbeat speaks of; reply: what the cloud answered.
Unposted == [at |-> "idle", sig |-> 0, reply |-> Disarmed, age |-> 0]
FreshClock == [sent |-> 0, failures |-> 0, retryIn |-> 0, anyOk |-> FALSE]

WatchInit ==
    /\ owner = [held |-> Disarmed, armed |-> 0]
    /\ watch = Disarmed
    /\ clock = FreshClock
    /\ sinceOk = BeatInside
    /\ checkin = [due |-> 0, failures |-> 0]
    /\ posts = [p \in Posts |-> Unposted]
    /\ heard = [since |-> LostAfter + 1, losses |-> 0]

-----------------------------------------------------------------------------
(* Cadence (cadence.rs) *)

\* HeartbeatClock::failed.
RetryDelay(n) == AtMost(2 ^ (n - 1), RetryMax)

\* Mutant: a failed heartbeat waits for the next interval.
FailedAtInterval == [clock EXCEPT !.failures = 1, !.retryIn = BeatInside, !.anyOk = FALSE]

BeatFailed ==
    LET n == IF clock.failures > 0 /\ RetryDelay(clock.failures) = RetryMax
             THEN clock.failures ELSE clock.failures + 1 IN
    [clock EXCEPT !.failures = n, !.retryIn = RetryDelay(n), !.anyOk = FALSE]

\* HeartbeatClock::due.
BeatDue(interval) ==
    \/ watch.sig # clock.sent
    \/ IF clock.failures > 0 /\ ~clock.anyOk THEN clock.retryIn = 0 ELSE sinceOk >= interval

\* checkin_interval_secs.
CheckinInterval(w) ==
    CASE w.kind = "anchor" -> CheckinAnchor
      [] w.kind = "zone" -> CheckinZone
      [] w.kind = "none" -> CheckinIdle

\* checkin_retry_secs: under an anchor watch it does not back off.
CheckinDelay(n) ==
    IF watch.kind = "anchor" THEN CheckinRetry ELSE AtMost(CheckinRetry * 2 ^ (n - 1), CheckinRetryMax)

-----------------------------------------------------------------------------
(* A post begins *)

Free(p) == posts[p].at = "idle"
Under(p, sig) == posts' = [posts EXCEPT ![p] = [Unposted EXCEPT !.at = "sent", !.sig = sig]]

\* The check-in loop: its keyframe is due, or it is woken (note_activity).
Keyframe ==
    /\ Free("keyframe")
    /\ Under("keyframe", 0)
    /\ UNCHANGED <<owner, watch, clock, sinceOk, checkin, heard>>

\* gps_heartbeat_loop: at the latest at the interval inside (TimePasses), sooner while a source is dragging.
Beat ==
    /\ Free("beat") /\ watch.kind = "anchor"
    /\ BeatDue(BeatOutside)
    /\ Under("beat", watch.sig)
    /\ UNCHANGED <<owner, watch, clock, sinceOk, checkin, heard>>

\* A drain posts its reports.
Event ==
    /\ Free("event")
    /\ Under("event", 0)
    /\ UNCHANGED <<owner, watch, clock, sinceOk, checkin, heard>>

\* No anchor watch: the heartbeat loop starts afresh.
Disarm ==
    /\ Free("beat") /\ watch.kind # "anchor" /\ clock # FreshClock
    /\ clock' = FreshClock
    /\ UNCHANGED <<owner, watch, sinceOk, checkin, posts, heard>>

-----------------------------------------------------------------------------
(* And ends *)

\* The cloud has it, and answers with the watch of the moment.
Taken(p) ==
    /\ posts[p].at = "sent"
    /\ posts' = [posts EXCEPT ![p].at = "taken", ![p].reply = owner.held]
    /\ heard' = [since |-> 0, losses |-> 0]
    /\ UNCHANGED <<owner, watch, clock, sinceOk, checkin>>

\* Mutant: a reply that disarms is not adopted.
AdoptedArmed(reply) == IF reply.sig = 0 THEN watch ELSE reply

\* apply_watch_reply, whichever reply comes last.
AdoptedReply(reply) == reply

\* Its answer arrives (post_batch, handle_batch_reply); a body that cannot be read carries no
\* watch.
Delivered(p, readable) ==
    /\ posts[p].at = "taken"
    /\ watch' = IF readable THEN AdoptedReply(posts[p].reply) ELSE watch
    /\ sinceOk' = 0
    /\ clock' = IF p = "beat" THEN [clock EXCEPT !.sent = posts[p].sig, !.failures = 0, !.anyOk = TRUE]
                ELSE [clock EXCEPT !.anyOk = clock.failures > 0]
    /\ checkin' = IF p = "keyframe" THEN [due |-> CheckinInterval(watch'), failures |-> 0] ELSE checkin
    /\ posts' = [posts EXCEPT ![p] = Unposted]
    /\ UNCHANGED <<owner, heard>>

\* The check-in loop does not back off further.
SlowestRetry == checkin.failures > 0 /\ CheckinRetry * 2 ^ (checkin.failures - 1) >= CheckinRetryMax

\* It is lost on its way, refused, or its answer is.
Fails(p) ==
    /\ posts[p].at # "idle" /\ heard.losses < MaxLosses
    /\ heard' = [heard EXCEPT !.losses = @ + 1]
    /\ clock' = IF p = "beat" THEN BeatFailed ELSE clock
    /\ LET n == IF SlowestRetry THEN checkin.failures ELSE checkin.failures + 1 IN
       checkin' = IF p = "keyframe" THEN [due |-> CheckinDelay(n), failures |-> n] ELSE checkin
    /\ posts' = [posts EXCEPT ![p] = Unposted]
    /\ UNCHANGED <<owner, watch, sinceOk>>

-----------------------------------------------------------------------------

\* The owner arms another watch, or disarms.
CloudChanges ==
    /\ \/ /\ owner.held # Disarmed
          /\ owner' = [owner EXCEPT !.held = Disarmed]
       \/ /\ owner.armed < MaxSig
          /\ \E kind \in Kinds \ {"none"} :
                owner' = [held |-> [sig |-> owner.armed + 1, kind |-> kind], armed |-> owner.armed + 1]
    /\ UNCHANGED <<watch, clock, sinceOk, checkin, posts, heard>>

\* Time passes while no loop is due and no post is past its timeout.
TimePasses ==
    /\ ~(Free("keyframe") /\ checkin.due = 0)
    /\ ~(Free("beat") /\ watch.kind = "anchor" /\ BeatDue(BeatInside))
    /\ ~(Free("beat") /\ watch.kind # "anchor" /\ clock # FreshClock)
    /\ \A p \in Posts : ~Free(p) => posts[p].age < PostLimit
    /\ posts' = [p \in Posts |-> IF Free(p) THEN posts[p] ELSE [posts[p] EXCEPT !.age = @ + 1]]
    /\ clock' = [clock EXCEPT !.retryIn = CountDown(@)]
    /\ sinceOk' = AtMost(sinceOk + 1, BeatInside)
    /\ checkin' = [checkin EXCEPT !.due = CountDown(@)]
    /\ heard' = [heard EXCEPT !.since = AtMost(@ + 1, LostAfter + 1)]
    /\ UNCHANGED <<owner, watch>>

PostEnds(p) == Taken(p) \/ \E readable \in BOOLEAN : Delivered(p, readable)

WatchNext ==
    \/ Keyframe \/ Beat \/ Event \/ Disarm
    \/ \E p \in Posts : PostEnds(p) \/ Fails(p)
    \/ CloudChanges \/ TimePasses

\* The loops go on and time passes; check-ins, sent again and again, get through.
WatchSpec ==
    /\ WatchInit /\ [][WatchNext]_watchVars
    /\ WF_watchVars(TimePasses) /\ WF_watchVars(Keyframe) /\ WF_watchVars(Beat) /\ WF_watchVars(Disarm)
    /\ \A p \in Posts : WF_watchVars(PostEnds(p))
    /\ SF_watchVars(Taken("keyframe")) /\ SF_watchVars(Delivered("keyframe", TRUE))

-----------------------------------------------------------------------------
(* Properties *)

\* Every variable has its type.
WatchTypes ==
    /\ owner \in [held: Watches, armed: 0..MaxSig]
    /\ watch \in Watches
    /\ clock.sent \in 0..MaxSig /\ clock.failures \in Nat /\ clock.retryIn \in 0..RetryMax
    /\ sinceOk \in 0..BeatInside
    /\ checkin.due \in 0..CheckinIdle /\ checkin.failures \in Nat
    /\ posts \in [Posts -> [at: {"idle", "sent", "taken"}, sig: 0..MaxSig, reply: Watches, age: 0..PostLimit]]

\* "one lost beat can never age the vessel past the cloud's 10-minute lost-device alarm"
\* (cadence.rs): while the hub has an anchor watch, the cloud has heard it within that time,
\* with MaxLosses posts lost in a row, however slow the others are and whatever loop sent them.
HeardInTime == watch.kind = "anchor" => heard.since <= LostAfter

\* The cloud hears the hub in time, whatever the clock of the heartbeats (WatchTypes) has come to.
WatchInv == WatchTypes /\ HeardInTime

\* The hub ends up with the cloud's watch, whichever of its posts the change came on and
\* however the replies of its loops overtake each other (apply_watch_reply).
WatchConverges == <>[](watch = owner.held)

=============================================================================
