---------------------------- MODULE RouterReport ----------------------------
(***************************************************************************)
(* What one managed router's answer becomes on its way to the cloud: read  *)
(* as an uplink (parse_modem and parse_wan in daemon/src/routers.rs and    *)
(* peplink.rs, wan_of in starlink.rs), metered, and reported by an event   *)
(* or by the next keyframe (router_observed, build_keyframe and            *)
(* apply_sent_marks in hub_server.rs).  Events and keyframes are posted by *)
(* different tasks, and both carry the use metered since the last report.  *)
(* When a bad answer counts is decided in Routers, how a queue is posted   *)
(* in Delivery.                                                            *)
(***************************************************************************)
EXTENDS Integers, Sequences, FiniteSetsExt

CONSTANTS
    Makes,          \* the vendors looked at, of "cradlepoint", "peplink", "starlink"
    WanEntries,     \* [Makes -> the WAN entries of an answer]
    Kilobyte,       \* 1024, in units of use
    MaxWans,        \* bound: WAN entries of an answer
    MaxUse,         \* bound: the use of the uplink
    MaxUpsets,      \* bound: reboots, restarts, losses
    MaxSpool        \* bound: events spooled

ASSUME ReportAssumption ==
    /\ Makes \subseteq {"cradlepoint", "peplink", "starlink"}
    /\ {Kilobyte, MaxWans} \subseteq Nat \ {0}
    /\ {MaxUse, MaxUpsets, MaxSpool} \subseteq Nat

VARIABLES
    device,     \* the router: its make, the counter of its modem, and whether it is enrolled (agent_token)
    memory,     \* RouterPollState of it: down, and last_counters
    told,       \* Telemetry of it: router_latest, router_sent, wan_pending_kb
    spool,      \* the events on their way
    frame,      \* the keyframe on its way
    cloud,      \* the reading the cloud has of it, and the use it has been charged
    tally       \* history, see NewTally

reportVars == <<device, memory, told, spool, frame, cloud, tally>>

NoCount == -1
NoWan == [wan |-> "absent", up |-> FALSE, known |-> FALSE]
NoParams == [up |-> "absent", wan |-> "absent", src |-> "absent"]
NoFrame == [at |-> "none", params |-> NoParams, kb |-> 0]

\* says: what the WANs of the last answer reported said; used: by the uplink; metered: by the hub; lost: with
\* an event or a restart; twice: charged twice; crossed: why it may be; stale: an event
\* or a mark was lost, or they crossed, and no keyframe has been taken since with nothing else on its way.
NewTally == [says |-> {}, used |-> 0, metered |-> 0, lost |-> 0, twice |-> 0, crossed |-> FALSE, stale |-> FALSE, upsets |-> 0]

Untold == [latest |-> NoParams, sent |-> NoParams, pending |-> 0]

ReportInit ==
    /\ device \in [make: Makes, counter: {0}, enrolled: BOOLEAN]
    /\ memory = [down |-> FALSE, counter |-> NoCount]
    /\ told = Untold /\ spool = <<>> /\ frame = NoFrame
    /\ cloud = [params |-> NoParams, kb |-> 0]
    /\ tally = NewTally

Upset == tally.upsets < MaxUpsets

-----------------------------------------------------------------------------
(* An answer read *)

\* ncos_conn_state: a word its table does not list says nothing.
NcosConnState(e) == IF e.word = "connected" THEN "up" ELSE IF e.word = "disconnected" THEN "down" ELSE "unsaid"

\* wan_state of a Peplink: the colour goes before the sentence beside it.
WanState(e) ==
    IF e.led = "green" \/ e.word = "connected" THEN "up"
    ELSE IF e.led = "red" \/ e.word = "disconnected" THEN "down" ELSE "unsaid"

Said(make, e) == IF make = "cradlepoint" THEN NcosConnState(e) ELSE WanState(e)

\* What the tables list means what they take it to mean; and what a WAN is called by its type.
ASSUME WanAssumption ==
    \A make \in Makes \ {"starlink"} : \A e \in WanEntries[make] :
        e.kind \in {"lte", "repeater", "wired"} /\ Said(make, e) = e.says

First(entries, which) == entries[Min(which)]

UpAt(make, entries) == {i \in DOMAIN entries : Said(make, entries[i]) = "up"}

\* Of the SIMs of a Cradlepoint the one that is connected, else the first; of a Peplink the first.
ParseModem(make, entries) ==
    LET sims == {i \in DOMAIN entries : entries[i].kind = "lte"}
        connected == IF make = "cradlepoint" THEN sims \cap UpAt(make, entries) ELSE {} IN
    IF sims = {} THEN "absent" ELSE Said(make, First(entries, IF connected = {} THEN sims ELSE connected))

\* parse_wan: the first that is connected; that none is, is known only if every entry says so.
ParseWan(make, entries) ==
    LET up == UpAt(make, entries) IN
    IF entries = <<>> THEN NoWan
    ELSE IF up # {} THEN [wan |-> First(entries, up).kind, up |-> TRUE, known |-> TRUE]
    ELSE [wan |-> "none", up |-> FALSE, known |-> \A i \in DOMAIN entries : Said(make, entries[i]) = "down"]

\* starlink::parse_status, carry_outage: a dish has no outage, a new one, or one that has lasted.
Outages == {"none", "brief", "lasting"}

\* starlink::wan_of: down while an outage has lasted, whatever its cause.
WanOf(outage) == [wan |-> "starlink", up |-> outage # "lasting", known |-> TRUE]

Status(modem, wan, says) == [modem |-> modem, wan |-> wan, says |-> says]

\* Driver::status: what a router may answer, as it is read.
Statuses == [make \in Makes |->
    IF make = "starlink"
    THEN {Status("absent", WanOf(o), {IF o = "lasting" THEN "down" ELSE "up"}) : o \in Outages}
    ELSE {Status(ParseModem(make, s), ParseWan(make, s), {s[i].says : i \in DOMAIN s} \ {"unsaid"}) :
             s \in UNION {[1 .. n -> WanEntries[make]] : n \in 0 .. MaxWans}}]

\* uplink_up: the modem's word goes before the others'.
UplinkUp(status) ==
    IF status.modem # "absent" THEN status.modem
    ELSE IF ~status.wan.known THEN "unsaid" ELSE IF status.wan.up THEN "up" ELSE "down"

\* What every report opens with.
UpRead(up, wan) == [up |-> IF up THEN "1" ELSE "0", wan |-> wan.wan, src |-> "read"]

ModemParams(status) == UpRead(status.modem = "up", status.wan)

\* dish_params and wan_params, of a router without a modem.
WanParams(status) == UpRead(status.wan.up, status.wan)

ReportParams(status) == IF status.modem # "absent" THEN ModemParams(status) ELSE WanParams(status)

\* unread_params: the last reading, or who the router is.
UnreadParams(last) == [last EXCEPT !.src = "unread"]

\* wan_kb_delta: nothing without an earlier count, or when the counter went backwards.
WanKbDelta(before, now) == IF before = NoCount \/ now < before THEN 0 ELSE (now - before) \div Kilobyte

\* last_counters, of a modem that has them.
Counters(status) == IF device.make = "cradlepoint" /\ status.modem # "absent" THEN device.counter ELSE NoCount

-----------------------------------------------------------------------------
(* A poll (poll_with, router_observed) *)

\* router_is_event: the first of all, or one whose up, uplink or source has moved.
RouterIsEvent(sent, params) ==
    sent = NoParams \/ \E f \in DOMAIN params : params[f] # "absent" /\ params[f] # sent[f]

\* The fields that are state, and the use when there is some.
RouterItem(params, kb) == [params |-> params, kb |-> kb]

\* The use metered waits, with a reading or without, or goes at once.
Waits(delta, latest) ==
    /\ told' = [told EXCEPT !.latest = latest, !.pending = @ + delta]
    /\ UNCHANGED spool

Goes(delta, latest) ==
    /\ Len(spool) < MaxSpool
    /\ told' = [latest |-> latest, sent |-> latest, pending |-> 0]
    /\ spool' = Append(spool, RouterItem(latest, told.pending + delta))

\* A member who watches is sent every reading.  Without a token nothing is kept for the cloud.
Reported(delta, params) ==
    IF ~device.enrolled THEN UNCHANGED <<told, spool>>
    ELSE IF params = NoParams THEN Waits(delta, told.latest)
    ELSE IF RouterIsEvent(told.sent, params) THEN Goes(delta, params)
    ELSE Waits(delta, params) \/ Goes(delta, params)

Polled(delta, params, says) ==
    /\ Reported(delta, params)
    /\ tally' = [tally EXCEPT !.metered = IF device.enrolled THEN @ + delta ELSE @,
                    !.says = IF device.enrolled /\ params # NoParams THEN says ELSE @,
                    !.crossed = @ \/ (frame # NoFrame /\ spool' # spool)]
    /\ UNCHANGED <<device, frame, cloud>>

\* An answer that says how the uplink is.  A bad one is held for a while (RouterHealth).
PollReads ==
    \E status \in Statuses[device.make], hold \in BOOLEAN :
        LET bad == UplinkUp(status) = "down"
            held == hold /\ bad /\ ~memory.down
            count == Counters(status) IN
        /\ UplinkUp(status) # "unsaid" /\ (hold => bad)
        /\ memory' = [down |-> bad /\ ~held, counter |-> IF count = NoCount THEN memory.counter ELSE count]
        /\ Polled(IF count = NoCount THEN 0 ELSE WanKbDelta(memory.counter, count),
                  IF held THEN NoParams ELSE ReportParams(status), status.says)

\* No answer, or one that does not say; past the grace it is reported, once.
PollFails ==
    /\ ~memory.down /\ memory' = [memory EXCEPT !.down = TRUE]
    /\ Polled(0, UnreadParams(told.latest), tally.says)

-----------------------------------------------------------------------------
(* To the cloud *)

\* An event is posted: the fields it has are merged.
Merged(old, new) == [f \in DOMAIN old |-> IF new[f] = "absent" THEN old[f] ELSE new[f]]

EventLands ==
    /\ spool # <<>> /\ spool' = Tail(spool)
    /\ cloud' = [params |-> Merged(cloud.params, Head(spool).params), kb |-> cloud.kb + Head(spool).kb]
    /\ UNCHANGED <<device, memory, told, frame, tally>>

\* It is refused, or shed from a full queue.
EventLost ==
    /\ Upset /\ spool # <<>> /\ spool' = Tail(spool)
    /\ tally' = [tally EXCEPT !.upsets = @ + 1, !.lost = @ + Head(spool).kb, !.stale = TRUE]
    /\ UNCHANGED <<device, memory, told, frame, cloud>>

\* build_keyframe.
BuildFrame ==
    /\ frame = NoFrame /\ device.enrolled /\ told.latest # NoParams
    /\ frame' = [at |-> "built", params |-> told.latest, kb |-> told.pending]
    /\ UNCHANGED <<device, memory, told, spool, cloud, tally>>

\* The cloud overwrites what it has.
FrameTaken ==
    /\ frame.at = "built" /\ frame' = [frame EXCEPT !.at = "taken"]
    /\ cloud' = [params |-> frame.params, kb |-> cloud.kb + frame.kb]
    /\ tally' = [tally EXCEPT !.stale = spool # <<>>]
    /\ UNCHANGED <<device, memory, told, spool>>

Less(n, by) == IF n > by THEN n - by ELSE 0

\* Mutant: the mark leaves what the keyframe carried to be sent again.
FrameMarkedOnly ==
    /\ frame.at = "taken" /\ frame' = NoFrame
    /\ told' = [told EXCEPT !.sent = frame.params]
    /\ UNCHANGED <<device, memory, spool, cloud, tally>>

\* apply_sent_marks, once the reply is here.
FrameMarked ==
    /\ frame.at = "taken" /\ frame' = NoFrame
    /\ told' = [told EXCEPT !.sent = frame.params, !.pending = Less(@, frame.kb)]
    /\ tally' = [tally EXCEPT !.twice = @ + Less(frame.kb, told.pending), !.stale = @ \/ told.sent # frame.params]
    /\ UNCHANGED <<device, memory, spool, cloud>>

\* The post fails, or its reply is lost.
FrameLost ==
    /\ Upset /\ frame # NoFrame /\ frame' = NoFrame
    /\ tally' = [tally EXCEPT !.upsets = @ + 1, !.stale = @ \/ frame.at = "taken",
                    !.twice = IF frame.at = "taken" THEN @ + frame.kb ELSE @, !.crossed = @ \/ frame.at = "taken"]
    /\ UNCHANGED <<device, memory, told, spool, cloud>>

-----------------------------------------------------------------------------
(* The rest of the world *)

Uses ==
    /\ tally.used < MaxUse /\ tally' = [tally EXCEPT !.used = @ + 1]
    /\ device' = [device EXCEPT !.counter = @ + 1]
    /\ UNCHANGED <<memory, told, spool, frame, cloud>>

\* The modem's counter starts over.
Reboots ==
    /\ Upset /\ device' = [device EXCEPT !.counter = 0]
    /\ tally' = [tally EXCEPT !.upsets = @ + 1]
    /\ UNCHANGED <<memory, told, spool, frame, cloud>>

\* The app gives the router its token.
Enrols ==
    /\ ~device.enrolled /\ device' = [device EXCEPT !.enrolled = TRUE]
    /\ UNCHANGED <<memory, told, spool, frame, cloud, tally>>

\* The use that items carry.
Carried(items) ==
    LET sum[n \in 0 .. Len(items)] == IF n = 0 THEN 0 ELSE sum[n - 1] + items[n].kb IN
    sum[Len(items)]

Spooled == Carried(spool)

\* What the cloud was charged and the hub has not yet written off.
Unmarked == IF frame.at = "taken" THEN frame.kb ELSE 0

\* Nothing of this outlives the process.
HubRestarts ==
    /\ Upset /\ memory' = [down |-> FALSE, counter |-> NoCount]
    /\ told' = Untold /\ spool' = <<>> /\ frame' = NoFrame
    /\ tally' = [tally EXCEPT !.upsets = @ + 1, !.stale = TRUE,
                    !.lost = @ + Spooled + Less(told.pending, Unmarked), !.twice = @ + Less(Unmarked, told.pending)]
    /\ UNCHANGED <<device, cloud>>

ReportNext ==
    \/ PollReads \/ PollFails
    \/ EventLands \/ EventLost
    \/ BuildFrame \/ FrameTaken \/ FrameMarked \/ FrameLost
    \/ Uses \/ Reboots \/ Enrols \/ HubRestarts

ReportSpec == ReportInit /\ [][ReportNext]_reportVars

-----------------------------------------------------------------------------
(* What must hold *)

ParamsType ==
    [up : {"absent", "0", "1"}, wan : {"absent", "none", "lte", "repeater", "wired", "starlink"}, src : {"absent", "read", "unread"}]

ReportTypeOK ==
    /\ device \in [make : Makes, counter : 0 .. MaxUse, enrolled : BOOLEAN]
    /\ memory \in [down : BOOLEAN, counter : NoCount .. MaxUse]
    /\ told \in [latest : ParamsType, sent : ParamsType, pending : Nat]
    /\ spool \in Seq([params : ParamsType, kb : Nat]) /\ Len(spool) <= MaxSpool
    /\ frame \in [at : {"none", "built", "taken"}, params : ParamsType, kb : Nat]
    /\ cloud \in [params : ParamsType, kb : Nat]

(* Every kilobyte metered is charged once, or waits, or was lost with an   *)
(* event or a restart.  It is charged twice only when an event was sent    *)
(* while a keyframe was on its way, or a keyframe's reply was lost; and    *)
(* never is more metered than the uplink carried, whatever resets the      *)
(* modem's counter or the hub.                                             *)
UseIsCharged ==
    /\ cloud.kb + Spooled + told.pending + tally.lost = tally.metered + tally.twice + Unmarked
    /\ tally.twice > 0 => tally.crossed
    /\ tally.metered * Kilobyte <= tally.used

(* The hub never says more of the uplink than the router did: up, or down, *)
(* only if a WAN of the last answer reported said so, down without a modem *)
(* only if all of them did; an answer that could not be read changes the   *)
(* source and leaves the word.                                             *)
WordIsTheRouters ==
    /\ told.latest.up = "1" => "up" \in tally.says
    /\ told.latest.up = "0" => "down" \in tally.says
    /\ told.latest.wan \in {"lte", "repeater", "wired"} => "up" \in tally.says
    /\ told.latest.wan = "none" => "up" \notin tally.says

(* With nothing on its way and nothing lost since, a router whose last     *)
(* reading is what the hub believes it sent is known to the cloud by that  *)
(* reading: no event is held back that the cloud has not had.              *)
CloudIsTold ==
    ~tally.stale /\ spool = <<>> /\ frame = NoFrame /\ ~RouterIsEvent(told.sent, told.latest)
        => \A f \in DOMAIN told.latest : told.latest[f] \in {"absent", cloud.params[f]}

(* The uplink's word, its use, and the cloud's picture of both.            *)
ReportInv == ReportTypeOK /\ UseIsCharged /\ WordIsTheRouters /\ CloudIsTold

=============================================================================
