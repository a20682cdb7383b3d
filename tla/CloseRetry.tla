----------------------------- MODULE CloseRetry -----------------------------
(***************************************************************************)
(* The confirm-then-retry loop of one valve in time: the callers that      *)
(* claim a close (claim_close), the pass of the poll loop that drives it   *)
(* (drive_closes in linktap_poll_loop, daemon/src/hub_server.rs) and the   *)
(* wake the callers ring, against a valve that shuts or opens whenever it  *)
(* likes and a gateway that may not answer.  Every await takes up to Delay *)
(* units of time, and the loop runs whatever is due before time passes.    *)
(***************************************************************************)
EXTENDS CloseWatch

CONSTANTS
    PollEvery,      \* LINKTAP_POLL_SECS
    Settle,         \* LINKTAP_WAKE_SETTLE
    Delay,          \* bound: the longest any one call to the gateway or cloud takes
    NoClose,        \* no close is in flight
    MaxClaims,      \* bound: closes claimed
    MaxOpens,       \* bound: times the valve opens by itself
    LastClaim,      \* bound: no close is claimed after this
    MaxTime         \* bound: the clock stops here

ASSUME RetryAssumption ==
    /\ PollEvery \in Nat \ {0} /\ PollEvery <= AlertAt
    /\ Settle \in Nat
    /\ Delay \in Nat
    /\ NoClose \notin Watch
    /\ MaxClaims \in Nat
    /\ MaxOpens \in Nat
    /\ LastClaim \in Nat
    /\ MaxTime \in Nat /\ LastClaim + Delay <= MaxTime

VARIABLES
    now,            \* the clock
    open,           \* is the valve watering, in truth
    watch,          \* valve_closes[id]
    pc,             \* where the poll loop is
    due,            \* when the loop's nap ends, or by when its await does
    permit,         \* linktap_wake holds a permit
    answer,         \* by when each close's caller is answered, and why it closes
    mine,           \* the watch this pass decides about
    seen,           \* what this pass read of the valve
    readAt,         \* when it read it
    \* history
    claims,         \* closes claimed so far: the current close's number
    opens,          \* times the valve opened
    pass,           \* the number of the close this pass drives
    sent,           \* cmd 7s sent for each close
    told,           \* alerts the owner was sent about each close
    corrected,      \* corrections the owner was sent about each close
    unread,         \* the last issue of the current close no read has followed, or -1
    rings           \* does the loop know to look soon: the caller rings, or the loop issued

loopVars == <<pc, due, permit, mine, seen, readAt, pass>>
history  == <<sent, told, corrected>>
vars == <<now, open, watch, answer, claims, opens, unread, rings, loopVars, history>>

Closes == 1..MaxClaims

\* No answer is awaited: the clock never reaches its time.
Answered == [by |-> MaxTime + 1, cause |-> "flood"]

Init ==
    /\ now = 0
    /\ open \in BOOLEAN
    /\ watch = NoClose
    /\ pc = "nap"
    /\ due \in 0..PollEvery
    /\ permit = FALSE
    /\ answer = [c \in Closes |-> Answered]
    /\ mine = NoClose
    /\ seen = TRUE
    /\ readAt = 0
    /\ pass = 0
    /\ claims = 0
    /\ opens = 0
    /\ sent = [c \in Closes |-> 0]
    /\ told = [c \in Closes |-> 0]
    /\ corrected = [c \in Closes |-> 0]
    /\ unread = -1
    /\ rings = TRUE

-----------------------------------------------------------------------------
(* Claiming a close *)

\* The one door: the slot is taken unless a close is in flight it cannot override.
\* The caller's cmd 7 follows at once; only its answer takes time.
Claim(cause) ==
    /\ claims < MaxClaims
    /\ now <= LastClaim
    /\ watch # NoClose => Overrides(cause, watch.cause)
    /\ watch' = Opened(cause, now)
    /\ claims' = claims + 1
    /\ sent' = [sent EXCEPT ![claims + 1] = 1]
    /\ unread' = now

\* do_valve and linktap_flood_stop_all: the loop is rung once the command is answered.
CallerCloses(cause) ==
    /\ cause \in {"manual", "flood"}
    /\ Claim(cause)
    /\ rings' = TRUE
    /\ answer' = [answer EXCEPT ![claims + 1] = [by |-> now + Delay, cause |-> cause]]
    /\ UNCHANGED <<now, open, opens, loopVars, told, corrected>>

\* Mutant: a ring during a pass is lost.
NotifyLost ==
    IF pc = "nap"
    THEN pc' = "settle" /\ due' = now + Settle /\ UNCHANGED permit
    ELSE UNCHANGED <<pc, due, permit>>

\* linktap_wake.notify_one: a nap is cut to the settle, else a permit is kept.
NotifyOne ==
    IF pc = "nap"
    THEN pc' = "settle" /\ due' = now + Settle /\ UNCHANGED permit
    ELSE permit' = TRUE /\ UNCHANGED <<pc, due>>

\* A press while a close is in flight sends nothing, and rings at once.
CallerRefused(cause) ==
    /\ cause \in {"manual", "flood"}
    /\ watch # NoClose
    /\ ~Overrides(cause, watch.cause)
    /\ NotifyOne
    /\ UNCHANGED <<now, open, watch, answer, claims, opens, unread, rings,
                   mine, seen, readAt, pass, history>>

\* The volume cutoff on a gateway push: linktap_act in h_linktap_push rings nothing.
PushCloses ==
    /\ Claim("volume_cap")
    /\ rings' = FALSE
    /\ UNCHANGED <<now, open, answer, opens, loopVars, told, corrected>>

\* The caller's command is answered, or times out, and the caller rings.
Ring(c) ==
    /\ answer[c] # Answered
    /\ answer' = [answer EXCEPT ![c] = Answered]
    /\ NotifyOne
    /\ UNCHANGED <<now, open, watch, claims, opens, unread, rings,
                   mine, seen, readAt, pass, history>>

\* do_valve answers a press the gateway refused with an error, and rings nothing.
RingsNothing(c) ==
    /\ answer[c] # Answered
    /\ answer[c].cause = "manual"
    /\ answer' = [answer EXCEPT ![c] = Answered]
    /\ rings' = (rings /\ c # claims)
    /\ UNCHANGED <<now, open, watch, claims, opens, unread, loopVars, history>>

-----------------------------------------------------------------------------
(* The pass of the poll loop *)

\* The end of a pass, and of what it held: the nap, cut by a permit left during it.
Nap(length) ==
    /\ mine' = NoClose /\ seen' = TRUE /\ readAt' = 0 /\ pass' = 0
    /\ IF permit
       THEN pc' = "settle" /\ due' = now + Settle /\ permit' = FALSE
       ELSE /\ pc' = "nap"
            /\ due' = now + (IF length < PollEvery THEN length ELSE PollEvery)
            /\ UNCHANGED permit

Await(step) == pc' = step /\ due' = now + Delay /\ UNCHANGED permit

AtOnce(step) == pc' = step /\ due' = now /\ UNCHANGED permit

Wake ==
    /\ pc \in {"nap", "settle"}
    /\ now >= due
    /\ Await("poll")
    /\ UNCHANGED <<now, open, watch, answer, claims, opens, unread, rings,
                   mine, seen, readAt, pass, history>>

\* The pass's own reading of the valve makes the machine ask for the cutoff.
PollCloses ==
    /\ pc = "poll"
    /\ Claim("volume_cap")
    /\ rings' = TRUE
    /\ UNCHANGED <<now, open, answer, opens, loopVars, told, corrected>>

\* drive_closes takes its snapshot and asks the valve for its state.
Drive ==
    /\ pc = "poll"
    /\ IF watch = NoClose
       THEN Nap(PollEvery) /\ UNCHANGED unread
       ELSE /\ Await("read") /\ UNCHANGED <<seen, readAt>>
            /\ mine' = watch /\ pass' = claims /\ unread' = -1
    /\ UNCHANGED <<now, open, watch, answer, claims, opens, rings, history>>

\* No gateway is configured any more: every watch there is by then is dropped.
GatewayGone ==
    /\ pc = "poll"
    /\ watch # NoClose
    /\ watch' = NoClose
    /\ unread' = -1
    /\ Nap(PollEvery)
    /\ UNCHANGED <<now, open, answer, claims, opens, rings, history>>

\* The valve's own state, or no answer, which is read as still open; and, when it
\* is time to tell the owner, the compare-and-set that records it.
Answer(watering) ==
    /\ pc = "read"
    /\ \/ /\ AlertDue(mine, watering, now) /\ watch # mine
          /\ Nap(PollEvery)
          /\ UNCHANGED watch
       \/ /\ AlertDue(mine, watering, now) /\ watch = mine
          /\ watch' = [mine EXCEPT !.alerted = TRUE] /\ mine' = watch'
          /\ Await("tell") /\ seen' = watering /\ readAt' = now /\ UNCHANGED pass
       \/ /\ ~AlertDue(mine, watering, now)
          /\ AtOnce("decide") /\ seen' = watering /\ readAt' = now
          /\ UNCHANGED <<watch, mine, pass>>
    /\ UNCHANGED <<now, open, answer, claims, opens, unread, rings, history>>

Tell ==
    /\ pc = "tell"
    /\ told' = [told EXCEPT ![pass] = @ + 1]
    /\ AtOnce("decide")
    /\ UNCHANGED <<now, open, watch, answer, claims, opens, unread, rings,
                   mine, seen, readAt, pass, sent, corrected>>

\* close_step on what was read and when, and settle_close: nothing is done about
\* a watch that is no longer the one the pass decided about.
Decide ==
    /\ pc = "decide"
    /\ LET step == CloseStep(mine, seen, readAt)
       IN  \/ /\ step = "wait"
              /\ Nap(NextLook(mine, readAt))
              /\ UNCHANGED <<watch, unread>>
           \/ /\ step # "wait" /\ watch # mine
              /\ Nap(PollEvery)
              /\ UNCHANGED <<watch, unread>>
           \/ /\ step \in {"confirmed", "gave_up"} /\ watch = mine
              /\ watch' = NoClose
              /\ IF step = "confirmed" /\ mine.alerted
                 THEN Await("correct") /\ UNCHANGED <<mine, seen, readAt, pass>>
                 ELSE Nap(PollEvery)
              /\ unread' = -1
           \/ /\ step = "reissue" /\ watch = mine
              /\ watch' = Reissued(mine, readAt)
              /\ mine' = watch'
              /\ Await("resend") /\ UNCHANGED <<seen, readAt, pass>>
              /\ unread' = readAt
    /\ rings' = (rings \/ pc' = "resend")
    /\ UNCHANGED <<now, open, answer, claims, opens, history>>

Resend ==
    /\ pc = "resend"
    /\ sent' = [sent EXCEPT ![pass] = @ + 1]
    /\ Nap(NextLook(mine, readAt))
    /\ UNCHANGED <<now, open, watch, answer, claims, opens, unread, rings, told, corrected>>

Correct ==
    /\ pc = "correct"
    /\ corrected' = [corrected EXCEPT ![pass] = @ + 1]
    /\ Nap(PollEvery)
    /\ UNCHANGED <<now, open, watch, answer, claims, opens, unread, rings, sent, told>>

-----------------------------------------------------------------------------
(* The valve and the clock *)

\* A delivered stop, the valve's timer or a hand shuts it.
ValveShuts ==
    /\ open
    /\ open' = FALSE
    /\ UNCHANGED <<now, watch, answer, claims, opens, unread, rings, loopVars, history>>

ValveOpens ==
    /\ ~open
    /\ opens < MaxOpens
    /\ open' = TRUE
    /\ opens' = opens + 1
    /\ UNCHANGED <<now, watch, answer, claims, unread, rings, loopVars, history>>

Tick ==
    /\ now < MaxTime
    /\ now < due
    /\ \A c \in Closes : now < answer[c].by
    /\ now' = now + 1
    /\ UNCHANGED <<open, watch, answer, claims, opens, unread, rings, loopVars, history>>

Loop == Wake \/ Drive \/ Answer(open) \/ Answer(TRUE) \/ Tell \/ Decide \/ Resend \/ Correct

Next ==
    \/ \E cause \in Causes : CallerCloses(cause) \/ CallerRefused(cause)
    \/ PushCloses
    \/ PollCloses
    \/ \E c \in Closes : Ring(c) \/ RingsNothing(c)
    \/ GatewayGone
    \/ Loop
    \/ ValveShuts
    \/ ValveOpens
    \/ Tick

Spec == Init /\ [][Next]_vars

\* The runtime polls every ready task and its timers fire.
FairSpec == Spec /\ WF_vars(Loop) /\ (\A c \in Closes : WF_vars(Ring(c) \/ RingsNothing(c))) /\ WF_vars(Tick)

-----------------------------------------------------------------------------
(* Properties *)

Steps == {"nap", "settle", "poll", "read", "tell", "decide", "resend", "correct"}

TypeOK ==
    /\ now \in 0..MaxTime
    /\ open \in BOOLEAN
    /\ watch \in Watch \union {NoClose}
    /\ pc \in Steps
    /\ due \in Nat
    /\ permit \in BOOLEAN
    /\ answer \in [Closes -> [by: Nat, cause: Causes]]
    /\ mine \in Watch \union {NoClose}
    /\ seen \in BOOLEAN
    /\ readAt \in Nat
    /\ claims \in 0..MaxClaims
    /\ opens \in 0..MaxOpens
    /\ pass \in 0..claims
    /\ sent \in [Closes -> Nat]
    /\ told \in [Closes -> Nat]
    /\ corrected \in [Closes -> Nat]
    /\ unread \in Nat \union {-1}
    /\ rings \in BOOLEAN

\* Attempt n is never issued before its offset from the first attempt, nor is any issued once
\* the window has closed.
Paced ==
    watch # NoClose =>
        /\ watch.last - watch.first >= DueAt(watch.attempts)
        /\ watch.last - watch.first < GiveUp \/ watch.attempts = 1
        /\ watch.last <= now

\* Every cmd 7 was recorded in the watch before it went out: a pass that lost the
\* slot sends nothing for it, and no attempt is sent twice.
SentWasRecorded ==
    watch # NoClose =>
        /\ sent[claims] <= watch.attempts
        /\ sent[claims] < watch.attempts => pc = "resend" /\ mine = watch

\* The slot is never stolen: a close in flight only moves on by itself (told, or
\* re-issued), ends, or is taken over by an alarm that is not another alarm's.
OneCloseInFlight ==
    [][watch # NoClose /\ watch' # NoClose /\ watch' # watch =>
        \/ watch' = [watch EXCEPT !.alerted = TRUE]
        \/ \E at \in 0..MaxTime : watch' = Reissued(watch, at)
        \/ watch.cause # "flood" /\ watch' = Opened("flood", now)]_watch

\* How far an instant the loop looks out for can slip: the alert and the re-issue before its nap,
\* a settle that begins as the nap ends, the pass before drive_closes and the reading itself.
Slip == Settle + 4 * Delay

\* No close is retried past the end of its window.
GivenUpInTime ==
    watch # NoClose => now <= watch.first + GiveUp + Slip

\* A close keeps its schedule (close_watch.rs) over late answers, takeovers and naps that are cut
\* short: no attempt runs ahead of it, none is sent unrecorded, and its window ends.
OnSchedule == TypeOK /\ Paced /\ SentWasRecorded /\ GivenUpInTime

\* The owner is told on time, whoever claimed the close, and of one close once; he is only
\* corrected when he was told (CloseWatch::alert_due, drive_closes).
ToldInTime ==
    /\ watch # NoClose /\ ~watch.alerted => now <= watch.first + AlertAt + Slip
    /\ \A c \in Closes : corrected[c] <= told[c] /\ told[c] <= 1

\* How far a read can fall behind an issue: the caller's answer, the settle and
\* the pass before drive_closes, or what is left of a pass begun before.
Behind == Settle + 4 * Delay

\* A read follows every issue within the confirm window, when the caller rang.
ReadAfterRung ==
    unread >= 0 /\ rings => now <= unread + ConfirmWithin + Behind

\* Every close is confirmed or given up on.
EveryCloseEnds == \A c \in Closes : claims = c /\ watch # NoClose ~> claims # c \/ watch = NoClose

=============================================================================
