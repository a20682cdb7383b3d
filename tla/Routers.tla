------------------------------- MODULE Routers -------------------------------
(***************************************************************************)
(* The managed routers.  The poll loop (router_poll_loop in                *)
(* daemon/src/hub_server.rs) reads every due router at once and folds each *)
(* answer into its grace machine (daemon/src/router_health.rs), which      *)
(* decides what the hub says of the router; a dish's outage is timed       *)
(* across the polls (daemon/src/starlink.rs).  How what it says reaches    *)
(* the cloud is Telemetry's.                                               *)
(* Time is in ticks of the loop (ROUTER_TICK_SECS).                        *)
(***************************************************************************)
EXTENDS Integers, FiniteSets

CONSTANTS
    Routers,
    Vendor,         \* [Routers -> vendors]
    Dishes,         \* the routers that are Starlink dishes
    Grace,          \* DOWN_GRACE_MS
    OutageMin,      \* starlink::OUTAGE_MIN_MS
    MaxRetry,       \* MAX_RETRY_MS; FIRST_RETRY_MS is one tick
    Cadence,        \* poll_secs; a member who watches, or an armed watch, only makes it shorter
    CallLimit,      \* POLL_HTTP_TIMEOUT
    PostLimit       \* the longest an event's post keeps the loop

ASSUME RoutersAssumption ==
    /\ IsFiniteSet(Routers) /\ Dishes \subseteq Routers
    /\ {Grace, MaxRetry, Cadence} \subseteq Nat \ {0}
    /\ {CallLimit, PostLimit, OutageMin} \subseteq Nat
    /\ Grace <= OutageMin

VARIABLES
    health,     \* RouterPollState.health
    sincePoll,  \* the time since last_poll_ms, Cadence when long ago or never
    outage,     \* the time since outage_since_ms of a dish, NoRun when it has none
    pass,       \* what the poll loop is doing
    latest,     \* router_latest
    hist        \* history of each router, see NewHist

vars == <<health, sincePoll, outage, pass, latest, hist>>

\* A reading: up as the router last said it, and upSrc.  "none": no `up` among its params.
NoWord == [up |-> "none", src |-> "none"]
NoRun == -1

\* Past every limit on an age.
AgeCap == OutageMin + 2 * (CallLimit + Cardinality(Routers) * PostLimit + 1)

Cap(n, top) == IF n > top THEN top ELSE n

Healthy == [n |-> 0, first |-> 0, retryIn |-> 0, down |-> FALSE]

\* bad: the time since the first bad poll of the run that may bring the router down; out: since the
\* first of the polls that found its dish out; said: its last answer; held: a pass was held back since the run began.
NewHist == [bad |-> 0, out |-> 0, said |-> "none", held |-> FALSE]

\* The pass begins: every due router is asked (read_all).  spent: the time since; took: what
\* of it an answer took; left: the routers whose answer is still to be folded in.
Reading(due) ==
    [phase |-> IF due = {} THEN "asleep" ELSE "reading", reads |-> [r \in due |-> "asked"], took |-> [r \in due |-> 0],
     spent |-> 0, wait |-> 0, left |-> due]

Asleep == Reading({})

Init ==
    /\ health = [r \in Routers |-> Healthy]
    /\ sincePoll = [r \in Routers |-> Cadence]
    /\ outage = [r \in Dishes |-> NoRun]
    /\ pass = Reading(Routers)
    /\ latest = [r \in Routers |-> NoWord]
    /\ hist = [r \in Routers |-> NewHist]

-----------------------------------------------------------------------------
(* The grace machine (router_health.rs) *)

\* Mutant: the second bad sample decides, however soon it comes.
DecidedByCount(sample, n, age, lag) == sample = "measured" \/ n >= 2

\* RouterHealth::observe, a bad sample: the device measured the outage itself, or it is not the
\* first of a run that has lasted for the grace when the answer came.
Decided(sample, n, age, lag) == sample = "measured" \/ (n >= 2 /\ age - lag >= Grace)

\* retry_delay_ms.
RetryDelay(n) == Cap(2 ^ (n - 1), MaxRetry)

\* next_retry_at, as a time from now: the answer came `lag` ago.
RetryIn(n, age, lag, decided) ==
    LET backoff == RetryDelay(n) - lag
        deadline == Grace - age
        at == IF decided \/ backoff < deadline THEN backoff ELSE deadline IN
    IF at > 0 THEN at ELSE 0

\* RouterHealth::observe of a sample ("up", "down", "failed", or "measured": down, and the
\* device's own measure is past the grace).  The run's first poll began `age` ago; `first` is
\* not kept once the router is down.
Observed(h, sample, age, lag) ==
    LET n == IF h.n > 1 /\ RetryDelay(h.n) = MaxRetry THEN h.n ELSE h.n + 1
        down == h.down \/ Decided(sample, n, age, lag) IN
    IF sample = "up" THEN Healthy
    ELSE [n |-> n, first |-> IF down THEN 0 ELSE age, retryIn |-> RetryIn(n, age, lag, down), down |-> down]

\* The verdict that comes with it.
Verdict(h, new) ==
    CASE new.n = 0 -> "Report"
      [] new.n > 0 /\ h.down -> "StillDown"
      [] new.n > 0 /\ ~h.down -> IF new.down THEN "WentDown" ELSE "Hold"

\* RouterHealth::due.
Due(h, since) ==
    \/ since >= Cadence
    \/ h.n > 0 /\ h.retryIn = 0

\* common_mode_failure.
CommonMode(reads) == Cardinality({Vendor[r] : r \in {q \in DOMAIN reads : reads[q] = "failed"}}) >= 2

-----------------------------------------------------------------------------
(* The poll loop (router_poll_loop) *)

Answers(r) == IF r \in Dishes THEN {"up", "out", "longOut", "failed"} ELSE {"up", "down", "failed"}

\* poll_in_background comes back.
Answer(r) ==
    /\ pass.phase = "reading" /\ r \in DOMAIN pass.reads /\ pass.reads[r] = "asked"
    /\ \E a \in Answers(r) :
        LET reads == [pass.reads EXCEPT ![r] = a] IN
        pass' = [pass EXCEPT !.reads = reads, !.took[r] = pass.spent,
                    !.phase = IF \E q \in DOMAIN reads : reads[q] = "asked" THEN "reading" ELSE "folding"]
    /\ UNCHANGED <<health, sincePoll, outage, latest, hist>>

\* wan_of, of the age carry_outage gives an outage the dish itself does not time.
OutLong(age) == age > OutageMin

\* carry_outage: the age of the dish's run when this pass asked it.
CarryOutage(r) == IF outage[r] = NoRun THEN 0 ELSE outage[r] - pass.spent

\* sample_of what report_params makes of the answer.
Sample(r) ==
    LET a == pass.reads[r] IN
    CASE a = "out" -> IF OutLong(CarryOutage(r)) THEN "measured" ELSE "up"
      [] a = "longOut" -> "measured"
      [] a \notin {"out", "longOut"} -> a

\* unread_params: the last reading, its `up` untouched.
Unread(word) == [word EXCEPT !.src = "unread"]

\* The reading router_observed reports, or none.
Params(r, verdict) ==
    IF verdict = "Hold" THEN {}
    ELSE IF Sample(r) # "failed" THEN {[up |-> IF Sample(r) = "up" THEN "1" ELSE "0", src |-> "read"]}
    ELSE IF verdict = "WentDown" THEN {Unread(latest[r])} ELSE {}

\* The pass goes on with the routers that are left, or the loop goes to sleep; `posts`: it
\* awaits the post of an event first (spool_report).
Onward(left, posts) ==
    IF posts THEN [pass EXCEPT !.phase = "posting", !.wait = 0, !.left = left]
    ELSE IF left = {} THEN Asleep
    ELSE [pass EXCEPT !.phase = "folding", !.left = left]

\* router_state takes the snapshot: only a poll that succeeded carries a dish's run on.
Snapshot(r) ==
    outage' = IF r \notin Dishes THEN outage
              ELSE [outage EXCEPT ![r] = IF pass.reads[r] \in {"up", "failed"} THEN NoRun
                                         ELSE IF @ = NoRun THEN Cap(pass.spent, AgeCap) ELSE @]

\* history: what the limits are meant to measure, after the answer left the router down or not.
Recorded(r, down) ==
    LET failed == Sample(r) = "failed"  h == hist[r] IN
    [bad |-> IF Sample(r) = "up" \/ down THEN 0 ELSE IF health[r].n = 0 THEN pass.spent ELSE h.bad,
     out |-> IF pass.reads[r] \notin {"out", "longOut"} THEN 0 ELSE IF h.out = 0 THEN pass.spent + 1 ELSE h.out,
     said |-> IF failed THEN h.said ELSE Sample(r),
     held |-> h.held /\ Sample(r) # "up" /\ ~down]

\* router_observed of one answer of the pass; what it reports may be spooled and posted now.
Observe(r) ==
    /\ pass.phase = "folding" /\ r \in pass.left
    /\ ~(CommonMode(pass.reads) /\ pass.reads[r] = "failed")
    /\ LET lag == pass.spent - pass.took[r]
           age == IF health[r].n = 0 THEN pass.spent ELSE health[r].first
           new == Observed(health[r], Sample(r), age, lag)
           params == Params(r, Verdict(health[r], new)) IN
        /\ health' = [health EXCEPT ![r] = new]
        /\ latest' = [latest EXCEPT ![r] = IF params = {} THEN @ ELSE CHOOSE w \in params : TRUE]
        /\ \E posts \in BOOLEAN : (posts => params # {}) /\ pass' = Onward(pass.left \ {r}, posts)
        /\ hist' = [hist EXCEPT ![r] = Recorded(r, new.down)]
    /\ sincePoll' = [sincePoll EXCEPT ![r] = Cap(pass.spent, Cadence)]
    /\ Snapshot(r)

\* A failed read of a pass that lost two vendors is not folded in (pass_verdicts).
Suppress(r) ==
    /\ pass.phase = "folding" /\ r \in pass.left
    /\ CommonMode(pass.reads) /\ pass.reads[r] = "failed"
    /\ pass' = Onward(pass.left \ {r}, FALSE)
    /\ sincePoll' = [sincePoll EXCEPT ![r] = Cap(pass.spent, Cadence)]
    /\ hist' = [hist EXCEPT ![r].held = health[r].n > 0 /\ ~health[r].down, ![r].out = 0]
    /\ Snapshot(r)
    /\ UNCHANGED <<health, latest>>

\* The post of the event is answered, or given up for a later drain.
PostEnds ==
    /\ pass.phase = "posting"
    /\ pass' = Onward(pass.left, FALSE)
    /\ UNCHANGED <<health, sincePoll, outage, latest, hist>>

\* router_wake: everything is polled now.
Wake ==
    /\ pass.phase = "asleep"
    /\ sincePoll' = [r \in Routers |-> Cadence]
    /\ pass' = Reading(Routers)
    /\ UNCHANGED <<health, outage, latest, hist>>

Aged(r) ==
    LET h == hist[r] IN
    [h EXCEPT !.bad = IF health[r].n > 0 /\ ~health[r].down THEN Cap(h.bad + 1, AgeCap) ELSE 0,
              !.out = IF h.out = 0 THEN 0 ELSE Cap(h.out + 1, AgeCap)]

\* A tick passes: the loop wakes and asks whoever is due; a read, or a post, takes no longer
\* than its limit.
Tick ==
    /\ pass.phase # "folding"
    /\ pass.phase = "reading" => pass.spent < CallLimit
    /\ pass.phase = "posting" => pass.wait < PostLimit
    /\ health' = [r \in Routers |->
                    LET h == health[r] IN
                    [h EXCEPT !.first = IF h.n > 0 /\ ~h.down THEN Cap(h.first + 1, AgeCap) ELSE 0,
                              !.retryIn = IF h.retryIn > 0 THEN h.retryIn - 1 ELSE 0]]
    /\ sincePoll' = [r \in Routers |-> Cap(sincePoll[r] + 1, Cadence)]
    /\ outage' = [r \in Dishes |-> IF outage[r] = NoRun THEN NoRun ELSE Cap(outage[r] + 1, AgeCap)]
    /\ pass' = IF pass.phase = "asleep"
               THEN Reading({r \in Routers : Due(health'[r], sincePoll'[r])})
               ELSE [pass EXCEPT !.spent = @ + 1, !.wait = IF pass.phase = "posting" THEN @ + 1 ELSE @]
    /\ hist' = [r \in Routers |-> Aged(r)]
    /\ UNCHANGED latest

-----------------------------------------------------------------------------
Next ==
    \/ \E r \in Routers : Answer(r) \/ Observe(r) \/ Suppress(r)
    \/ PostEnds \/ Wake \/ Tick

Spec == Init /\ [][Next]_vars

-----------------------------------------------------------------------------
(* Properties *)

Readings == [up: {"0", "1", "none"}, src: {"read", "unread"}] \cup {NoWord}

\* Every variable has its type.
TypeOK ==
    /\ health \in [Routers -> [n: 0 .. MaxRetry + 1, first: 0 .. AgeCap, retryIn: 0 .. MaxRetry, down: BOOLEAN]]
    /\ sincePoll \in [Routers -> 0 .. Cadence]
    /\ outage \in [Dishes -> NoRun .. AgeCap]
    /\ pass.phase \in {"asleep", "reading", "folding", "posting"}
    /\ pass.left \subseteq DOMAIN pass.reads /\ DOMAIN pass.took = DOMAIN pass.reads
    /\ latest \in [Routers -> Readings]

\* The hub says a link is down only while down is the last thing its router said: no failed poll
\* makes a link down, and one that answered up again is not left down (router_observed,
\* unread_params).
DownIsItsWord == \A r \in Routers : latest[r].up = "0" => hist[r].said \in {"down", "measured"}

\* No router is called down, or unread, before it has gone without a good answer for the whole
\* grace and been polled twice; a dish that does not time its outage itself, not before every
\* poll has found it out for longer than two minutes (RouterHealth::observe, carry_outage).
WindowIsContinuous ==
    [][\A r \in Routers :
         ~health[r].down /\ health'[r].down =>
            \/ pass.reads[r] = "longOut"
            \/ pass.reads[r] = "out" /\ hist[r].out - 1 - pass.spent > OutageMin
            \/ Sample(r) # "measured" /\ health[r].n > 0 /\ hist[r].bad >= Grace + pass.spent - pass.took[r]]_vars

\* A router that goes on failing is decided within the grace and what two passes can take, however long
\* the other routers' reads and the posts of their events keep the loop (next_retry_at, read_all).
DecidedInTime ==
    \A r \in Routers :
        health[r].n > 0 /\ ~health[r].down /\ ~hist[r].held =>
            health[r].first <= Grace + 2 * (CallLimit + (Cardinality(Routers) - 1) * PostLimit)

\* What the hub says of a router is the router's word, and it is said in time.
RoutersInv == TypeOK /\ DownIsItsWord /\ DecidedInTime

\* What the hub says of its routers, and when it says so.
RoutersHold == []RoutersInv /\ WindowIsContinuous

=============================================================================
