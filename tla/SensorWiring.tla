---------------------------- MODULE SensorWiring ----------------------------
(***************************************************************************)
(* The hub finishes a sleepy sensor's setup (daemon/src/sensors.rs, and    *)
(* do_sensors, note_sensor_seen and sensor_hunt_loop in hub_server.rs): a  *)
(* job handed over by the app is kept in hub.json, hunted until the sensor *)
(* answers, and written and verified one request at a time.  The sensor    *)
(* may fall asleep before, or after, any request; the app may hand over    *)
(* another job, or withdraw it, at any point; the hub may restart.         *)
(***************************************************************************)
EXTENDS Naturals, Sequences, Functions

CONSTANTS
    Callers,        \* calls of the app under way at once
    Wishes,         \* what the app asks for: the hooks, and Bluetooth off or not
    Sensors,        \* bound: the sensors looked at, as they are at first
    HookSlots,      \* hooks a sensor has room for
    MaxWires,       \* bound: jobs handed over or withdrawn
    MaxMoves        \* bound: restarts of the hub, and new addresses of the sensor

Urls == {"hub", "cloud"}
Events == {"alarm", "measurement"}
Hook == [event: Events, urls: Seq(Urls)]
Wish == [hooks: Seq(Hook), bleOff: BOOLEAN]

ASSUME WiringAssumption ==
    /\ Wishes \subseteq Wish
    /\ Sensors \subseteq [keeps: Nat \ {0}, hooks: Seq(Hook), ble: BOOLEAN]
    /\ \A s \in Sensors : Len(s.hooks) <= HookSlots
    /\ {HookSlots, MaxWires, MaxMoves} \subseteq Nat

VARIABLES
    jobs,       \* the sensor's entry of sensor_jobs in hub.json
    state,      \* its entry of sensor_state
    sensor,     \* keeps: the urls it keeps of one hook
    hunt,       \* sensor_hunt_loop
    asked,      \* the calls of the app
    wires, moves,
    owed        \* history: the job the hub owes an outcome, 0 for none

wiringVars == <<jobs, state, sensor, hunt, asked, wires, moves, owed>>

\* n: added_at; here: one of its hosts is the sensor's address.
NoJob == [n |-> 0, hooks |-> <<>>, bleOff |-> FALSE, here |-> FALSE]

NoState == [n |-> 0, word |-> "absent"]
Pending(job) == [n |-> job.n, word |-> "pending"]

\* job: as read from hub.json; read: the hooks as last listed; todo: the hooks to write; gaps: what the
\* sensor has dropped.
Hunting(at, job) == [at |-> at, job |-> job, read |-> <<>>, todo |-> <<>>, gaps |-> {}]
Resting == Hunting("rest", NoJob)

Unasked == [at |-> "idle", job |-> NoJob]

WiringInit ==
    /\ jobs = NoJob /\ state = NoState
    /\ sensor \in Sensors
    /\ hunt = Hunting("boot", NoJob)
    /\ asked = [c \in Callers |-> Unasked]
    /\ wires = 0 /\ moves = 0 /\ owed = 0

-----------------------------------------------------------------------------
(* The app (do_sensors): hub.json under rt.store, then the memory *)

\* substitute_hub_host; a hub without a LAN address drops its own urls.
Offered(hooks, lan) ==
    LET own(h) == [h EXCEPT !.urls = SelectSeq(@, LAMBDA u : lan \/ u # "hub")] IN
    SelectSeq([i \in DOMAIN hooks |-> own(hooks[i])], LAMBDA h : h.urls # <<>>)

Wire(c) ==
    /\ asked[c].at = "idle" /\ wires < MaxWires
    /\ \E wish \in Wishes, lan \in BOOLEAN, here \in BOOLEAN :
        LET job == [n |-> wires + 1, hooks |-> Offered(wish.hooks, lan), bleOff |-> wish.bleOff, here |-> here] IN
        /\ job.hooks # <<>>
        /\ jobs' = job
        /\ asked' = [asked EXCEPT ![c] = [at |-> "insert", job |-> job]]
    /\ wires' = wires + 1
    /\ owed' = IF hunt.job = NoJob THEN wires + 1 ELSE 0
    /\ UNCHANGED <<state, sensor, hunt, moves>>

\* "cancel" and "forget".
Cancel(c) ==
    /\ asked[c].at = "idle" /\ wires < MaxWires
    /\ jobs' = NoJob
    /\ asked' = [asked EXCEPT ![c].at = "remove"]
    /\ wires' = wires + 1
    /\ owed' = 0
    /\ UNCHANGED <<state, sensor, hunt, moves>>

InMemory(c) ==
    /\ asked[c].at # "idle"
    /\ state' = IF asked[c].at = "insert" THEN Pending(asked[c].job) ELSE NoState
    /\ asked' = [asked EXCEPT ![c] = Unasked]
    /\ UNCHANGED <<jobs, sensor, hunt, wires, moves, owed>>

\* note_sensor_seen: a report's address goes into the job on file, if it is pending.
NoteSeen ==
    /\ state.word = "pending" /\ jobs # NoJob
    /\ jobs' = [jobs EXCEPT !.here = TRUE]
    /\ UNCHANGED <<state, sensor, hunt, asked, wires, moves, owed>>

-----------------------------------------------------------------------------
(* The hunt (sensor_hunt_loop): the jobs on file, one after the other *)

Hunts == UNCHANGED <<jobs, state, asked, wires, moves, owed>>

\* Persisted jobs are pending again on boot.
Adopt ==
    /\ hunt.at = "boot"
    /\ state' = IF state = NoState /\ jobs # NoJob THEN Pending(jobs) ELSE state
    /\ hunt' = Resting
    /\ UNCHANGED <<jobs, sensor, asked, wires, moves, owed>>

\* The jobs are read once for the pass.
ReadJobs ==
    /\ hunt.at = "rest" /\ jobs # NoJob
    /\ hunt' = Hunting("next", jobs)
    /\ Hunts /\ UNCHANGED sensor

\* The job's turn, after those before it: is it still pending?  Its addresses are tried; one that is
\* silent, or another device, leaves it pending.
Identify ==
    /\ hunt.at = "next"
    /\ \/ hunt' = Resting
       \/ /\ state.word \in {"pending", "absent"} /\ hunt.job.here
          /\ hunt' = [hunt EXCEPT !.at = "list"]
    /\ Hunts /\ UNCHANGED sensor

\* without_periodic_hooks.
Installed(job) == SelectSeq(job.hooks, LAMBDA h : h.event # "measurement")

\* read_hooks: the hooks, or none of a sensor that does not answer.
Listed == {sensor.hooks, <<>>}

List ==
    /\ hunt.at = "list"
    /\ \E read \in Listed :
          hunt' = [hunt EXCEPT !.at = "write", !.read = read, !.todo = Installed(hunt.job)]
    /\ Hunts /\ UNCHANGED sensor

\* The Flood G4 keeps only the first url of a hook.
Kept(urls) == SubSeq(urls, 1, IF Len(urls) < sensor.keeps THEN Len(urls) ELSE sensor.keeps)

\* Webhook.Create, refused when the slots are full.
Created(event, urls) ==
    IF Len(sensor.hooks) < HookSlots THEN Append(sensor.hooks, [event |-> event, urls |-> Kept(urls)]) ELSE sensor.hooks

\* The sensor's hooks after h was written: merged into the first one listed for its event
\* (Webhook.Update), the desired urls first.
Written(h) ==
    LET same == {i \in DOMAIN hunt.read : hunt.read[i].event = h.event}
        first == CHOOSE i \in same : \A j \in same : i <= j
        merged == h.urls \o SelectSeq(hunt.read[first].urls, LAMBDA u : u \notin Range(h.urls)) IN
    IF same = {} THEN Created(h.event, h.urls) ELSE [sensor.hooks EXCEPT ![first].urls = Kept(merged)]

\* The answers to the writes are not looked at.
Write ==
    /\ hunt.at = "write"
    /\ IF hunt.todo = <<>>
       THEN hunt' = [hunt EXCEPT !.at = "verify"] /\ UNCHANGED sensor
       ELSE /\ sensor' \in {sensor, [sensor EXCEPT !.hooks = Written(Head(hunt.todo))]}
            /\ hunt' = [hunt EXCEPT !.todo = Tail(@)]
    /\ Hunts

\* Mutant: the url is looked for among all the hooks of the sensor, whatever their event.
MissingAnywhere(hooks, job) ==
    LET carried == UNION {Range(x.urls) : x \in Range(hooks)} IN
    UNION {{<<h.event, u>> : u \in Range(h.urls) \ carried} : h \in Range(Installed(job))}

\* missing_urls, over what the hub installs.
Missing(hooks, job) ==
    LET pairs(hs) == UNION {{<<h.event, u>> : u \in Range(h.urls)} : h \in Range(hs)} IN
    pairs(Installed(job)) \ pairs(hooks)

\* Hooks verified: the outcome is "wired", once Bluetooth is off if the job says so.
AfterVerified(job) == IF job.bleOff THEN "ble" ELSE "wired"

\* The hooks are read back; each url the sensor dropped gets a hook of its own, and they are read again.
Verify ==
    /\ hunt.at \in {"verify", "again"}
    /\ \E read \in Listed :
        LET gaps == Missing(read, hunt.job) IN
        hunt' = [hunt EXCEPT !.gaps = gaps,
                    !.at = CASE gaps = {} -> AfterVerified(hunt.job)
                             [] gaps # {} -> IF hunt.at = "verify" THEN "split" ELSE "failed"]
    /\ Hunts /\ UNCHANGED sensor

\* One hook per url, in any order.
Split ==
    /\ hunt.at = "split"
    /\ IF hunt.gaps = {}
       THEN hunt' = [hunt EXCEPT !.at = "again"] /\ UNCHANGED sensor
       ELSE \E g \in hunt.gaps :
              /\ sensor' \in {sensor, [sensor EXCEPT !.hooks = Created(g[1], <<g[2]>>)]}
              /\ hunt' = [hunt EXCEPT !.gaps = @ \ {g}]
    /\ Hunts

\* ble_off; a sensor that does not take it is wired all the same.
BleOff ==
    /\ hunt.at = "ble"
    /\ sensor' \in {sensor, [sensor EXCEPT !.ble = FALSE]}
    /\ hunt' = [hunt EXCEPT !.at = "wired"]
    /\ Hunts

Record ==
    /\ hunt.at \in {"wired", "failed"}
    /\ state' = [n |-> hunt.job.n, word |-> hunt.at]
    /\ hunt' = [hunt EXCEPT !.at = "forget"]
    /\ owed' = IF owed = hunt.job.n THEN 0 ELSE owed
    /\ UNCHANGED <<jobs, sensor, asked, wires, moves>>

\* Whatever job the sensor has on file by now; a file that cannot be written keeps it.
Forget ==
    /\ hunt.at = "forget"
    /\ jobs' \in {jobs, NoJob}
    /\ hunt' = Resting
    /\ UNCHANGED <<state, sensor, asked, wires, moves, owed>>

-----------------------------------------------------------------------------
\* The hub restarts: memory is lost.
HubRestarts ==
    /\ moves < MaxMoves /\ moves' = moves + 1
    /\ state' = NoState
    /\ hunt' = Hunting("boot", NoJob)
    /\ asked' = [c \in Callers |-> Unasked]
    /\ UNCHANGED <<jobs, sensor, wires, owed>>

\* The sensor comes back under another address.
SensorMoves ==
    /\ moves < MaxMoves /\ moves' = moves + 1
    /\ jobs' = [jobs EXCEPT !.here = FALSE]
    /\ UNCHANGED <<state, sensor, hunt, asked, wires, owed>>

WiringNext ==
    \/ \E c \in Callers : Wire(c) \/ Cancel(c) \/ InMemory(c)
    \/ NoteSeen
    \/ Adopt \/ ReadJobs \/ Identify \/ List \/ Write \/ Verify \/ Split \/ BleOff \/ Record \/ Forget
    \/ HubRestarts \/ SensorMoves

WiringSpec == WiringInit /\ [][WiringNext]_wiringVars

-----------------------------------------------------------------------------
(* Properties *)

WiringSteps ==
    {"boot", "rest", "next", "list", "write", "verify", "split", "again", "ble", "wired", "failed", "forget"}

WiringTypeOK ==
    /\ {jobs.n, state.n, owed} \subseteq 0 .. MaxWires /\ state.word \in {"absent", "pending", "wired", "failed"}
    /\ hunt.at \in WiringSteps /\ Len(sensor.hooks) <= HookSlots
    /\ wires \in 0 .. MaxWires /\ moves \in 0 .. MaxMoves

\* "The hub writes and VERIFIES the hooks": by the time an attempt goes on to switch Bluetooth off, or
\* to say `wired`, the sensor carries every url of the attempt's job, whatever answers and writes were
\* lost on the way, and though it keeps one url of a hook.
VerifiedIsCarried ==
    hunt.at \in {"ble", "wired"} =>
        \A h \in Range(Installed(hunt.job)) : \A u \in Range(h.urls) :
            \E x \in Range(sensor.hooks) : x.event = h.event /\ u \in Range(x.urls)

\* "it hunts the sensor ... for as long as it takes": a job stays on file, through restarts and
\* through the calls and addresses of others, until it has an outcome, is withdrawn or is replaced.
\* (Not one handed over while an attempt at another is under way: the end of that takes it off the file.)
OwedIsOnFile == owed # 0 => jobs.n = owed

\* What the hub says of a sensor's wiring is so, and what it was handed it keeps.
WiringInv == WiringTypeOK /\ VerifiedIsCarried /\ OwedIsOnFile
=============================================================================
