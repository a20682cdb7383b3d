-------------------------------- MODULE Tray --------------------------------
(***************************************************************************)
(* The tray monitor beside the hub on the owner's computer: the service    *)
(* and its process (win_service.rs, run_with_shutdown in hub_server.rs),   *)
(* the look the tray takes at them every 15 seconds (bin/tray.rs), and     *)
(* what it makes of each look: an icon, and at times an alert              *)
(* (tray_state.rs).  A look is three questions, one after another, of a    *)
(* computer that may change between them.                                  *)
(***************************************************************************)
EXTENDS Naturals

CONSTANT MaxTurns   \* bound: what happens to the computer

ASSUME TrayAssumption == MaxTurns \in Nat

VARIABLES
    box,            \* the service entry, the program file, the process, and whether hub.json has a token
    glance,         \* look: what has been asked so far
    sighted,        \* the channel to the event loop
    monitor,        \* Monitor
    notice,         \* the last notification
    account,        \* history: how many looks (up to two), whether one met a hub, and where a look is that saw
                    \* the computer as it still is
    turns

trayVars == <<box, glance, sighted, monitor, notice, account, turns>>

Observation == [answering: BOOLEAN, registered: BOOLEAN, program: BOOLEAN, service: BOOLEAN]
NoObservation == [answering |-> FALSE, registered |-> TRUE, program |-> FALSE, service |-> FALSE]
Icons == {"ok", "unsigned", "bad", "absent"}
Alerts == {"removed", "stopped", "recovered"}

Blind == [last |-> "none", seen |-> FALSE, reason |-> "none"]
NotLooking == [at |-> "rest", answering |-> FALSE, registered |-> FALSE, program |-> FALSE]

NoAccount == [looks |-> 0, met |-> FALSE, steady |-> {}]

TrayInit ==
    /\ box \in [service: BOOLEAN, program: BOOLEAN, process: {"off"}, signed: BOOLEAN, asked: {FALSE}]
    /\ glance = NotLooking
    /\ sighted = NoObservation
    /\ monitor = Blind
    /\ notice = "none"
    /\ account = NoAccount
    /\ turns = 0

-----------------------------------------------------------------------------
(* The computer *)

Alters(new) ==
    /\ box' = new
    /\ account' = [account EXCEPT !.steady = {}]
    /\ UNCHANGED <<glance, sighted, monitor, notice>>

Turns == turns < MaxTurns /\ turns' = turns + 1

Alive == box.process # "off"
Dead(b) == [b EXCEPT !.process = "off", !.asked = FALSE]

Installs == Turns /\ Alters([box EXCEPT !.service = TRUE, !.program = TRUE])
Uninstalls == Turns /\ Alters([Dead(box) EXCEPT !.service = FALSE, !.program = FALSE])

\* Security software takes the program file, and it may be the process with it, or the service entry.
Quarantines == Turns /\ \E b \in {box, Dead(box)} : Alters([b EXCEPT !.program = FALSE])
RemovesEntry == Turns /\ box.service /\ Alters([box EXCEPT !.service = FALSE])
Crashes == Turns /\ Alive /\ Alters(Dead(box))

\* main: for the supervisor of the service, from the menu (start_hub), or by hand.
ProcessStarts == box.program /\ ~Alive /\ Turns /\ Alters([box EXCEPT !.process = "starting"])

\* run_with_shutdown: the port is bound, or the process exits.
Binds == box.process = "starting" /\ Alters([box EXCEPT !.process = "serving"]) /\ UNCHANGED turns
BindFails == box.process = "starting" /\ Alters(Dead(box)) /\ UNCHANGED turns

\* The control handler: once, whoever asks (stop_hub, the SCM, the system going down).
StopAsked == Alive /\ ~box.asked /\ Turns /\ Alters([box EXCEPT !.asked = TRUE])

\* The shutdown is looked at only beside the server, once it serves.
WindsDown == box.process = "serving" /\ box.asked /\ Alters(Dead(box)) /\ UNCHANGED turns

\* h_bootstrap, do_clear.
Signs == box.process = "serving" /\ Turns /\ Alters([box EXCEPT !.signed = ~@])

-----------------------------------------------------------------------------
(* A look *)

\* h_ping, which may be later than the five seconds ping waits for it.
Pings(answering) ==
    /\ glance.at = "rest"
    /\ answering => box.process = "serving"
    /\ glance' = [NotLooking EXCEPT !.at = "pinged", !.answering = answering,
                                    !.registered = answering /\ box.signed]
    /\ account' = [account EXCEPT !.steady =
                     IF answering = (box.process = "serving") THEN @ \union {"look"} ELSE @ \ {"look"}]
    /\ UNCHANGED <<box, sighted, monitor, notice, turns>>

FindsProgram ==
    /\ glance.at = "pinged"
    /\ glance' = [glance EXCEPT !.at = "found", !.program = box.program]
    /\ UNCHANGED <<box, sighted, monitor, notice, account, turns>>

\* The event loop drains the channel every 400 ms: the look before has been taken from it.
FindsService ==
    /\ glance.at = "found" /\ sighted = NoObservation
    /\ sighted' = [answering |-> glance.answering, registered |-> glance.registered,
                   program |-> glance.program, service |-> box.service]
    /\ glance' = NotLooking
    /\ account' = [account EXCEPT !.steady =
                     IF "look" \in @ THEN (@ \ {"look"}) \union {"sent"} ELSE @ \ {"sent"}]
    /\ UNCHANGED <<box, monitor, notice, turns>>

-----------------------------------------------------------------------------
(* Monitor::observe *)

SeenAfter(o) == monitor.seen \/ o.service \/ o.program \/ o.answering

Classify(o) ==
    CASE o.answering /\ o.registered -> "ok"
      [] o.answering /\ ~o.registered -> "unsigned"
      [] ~o.answering /\ SeenAfter(o) -> "bad"
      [] OTHER -> "absent"

Diagnose(o) == IF o.program THEN "stopped" ELSE "removed"

WasBad == monitor.last = "bad"

\* Mutant: an alert only where the icon changes.
AlertAtIcon(o) ==
    CASE monitor.last = "none" -> "none"
      [] monitor.last # "none" /\ Classify(o) = "bad" -> IF WasBad THEN "none" ELSE Diagnose(o)
      [] monitor.last # "none" /\ Classify(o) # "bad" -> IF WasBad THEN "recovered" ELSE "none"

\* An alert at a change, also of the reason alone; none at the first look.
AlertAt(o) ==
    CASE monitor.last = "none" -> "none"
      [] monitor.last # "none" /\ Classify(o) = "bad" ->
            IF ~WasBad \/ monitor.reason # Diagnose(o) THEN Diagnose(o) ELSE "none"
      [] monitor.last # "none" /\ Classify(o) # "bad" -> IF WasBad THEN "recovered" ELSE "none"

Unless(word, otherwise) == IF word = "none" THEN otherwise ELSE word

LookedAt(o) ==
    [last |-> Classify(o), seen |-> SeenAfter(o),
     reason |-> IF Classify(o) = "bad" THEN Unless(AlertAt(o), monitor.reason) ELSE "none"]

\* The event loop shows the icon and notifies.
Observes ==
    /\ sighted # NoObservation
    /\ monitor' = LookedAt(sighted)
    /\ notice' = Unless(AlertAt(sighted), notice)
    /\ sighted' = NoObservation
    /\ account' = [looks |-> IF account.looks = 0 THEN 1 ELSE 2,
                   met |-> account.met \/ sighted.service \/ sighted.program \/ sighted.answering,
                   steady |-> IF "sent" \in account.steady THEN (account.steady \ {"sent"}) \union {"shown"}
                              ELSE account.steady \ {"shown"}]
    /\ UNCHANGED <<box, glance, turns>>

\* The owner signs in anew: the tray knows nothing.
SignsIn ==
    /\ Turns
    /\ glance' = NotLooking
    /\ sighted' = NoObservation
    /\ monitor' = Blind
    /\ notice' = "none"
    /\ account' = NoAccount
    /\ UNCHANGED box

TrayNext ==
    \/ Installs \/ Uninstalls \/ Quarantines \/ RemovesEntry \/ Crashes \/ ProcessStarts
    \/ Binds \/ BindFails \/ StopAsked \/ WindsDown \/ Signs
    \/ \E answering \in BOOLEAN : Pings(answering)
    \/ FindsProgram \/ FindsService \/ Observes \/ SignsIn

TraySpec == TrayInit /\ [][TrayNext]_trayVars

-----------------------------------------------------------------------------
(* Properties *)

TrayTypes ==
    /\ box \in [service: BOOLEAN, program: BOOLEAN, process: {"off", "starting", "serving"}, signed: BOOLEAN,
                asked: BOOLEAN]
    /\ glance \in [at: {"rest", "pinged", "found"}, answering: BOOLEAN, registered: BOOLEAN, program: BOOLEAN]
    /\ sighted \in Observation
    /\ monitor \in [last: Icons \union {"none"}, seen: BOOLEAN, reason: {"none", "removed", "stopped"}]
    /\ notice \in Alerts \union {"none"}
    /\ account \in [looks: 0 .. 2, met: BOOLEAN, steady: SUBSET {"look", "sent", "shown"}]
    /\ turns \in 0 .. MaxTurns

\* Once a look at the computer as it is has been shown, the icon is true: also where the hub was
\* wiped before it ever answered, which is no machine without a hub (seen_installed).
IconIsTrue ==
    "shown" \in account.steady =>
        /\ monitor.last \in {"ok", "unsigned"} <=> box.process = "serving"
        /\ monitor.last = "ok" => box.signed
        /\ monitor.last = "unsigned" => ~box.signed
        /\ monitor.last = "absent" => ~box.service /\ ~box.program /\ ~account.met

\* From the second look on, the owner's last word is what holds now: the reason the hub does not run, also
\* when the reason has changed underneath, or nothing to worry about.
WordIsTrue ==
    account.looks = 2 /\ "shown" \in account.steady =>
        IF monitor.last = "bad" THEN notice = IF box.program THEN "stopped" ELSE "removed"
        ELSE notice \in {"none", "recovered"}

\* "A monitor that talks on every poll gets muted" (tray_state.rs): the same word is never given
\* twice in a row.
NeverNags == Observes /\ AlertAt(sighted) # "none" => AlertAt(sighted) # notice

\* The tray tells what is, once.
TrayHolds == [](TrayTypes /\ IconIsTrue /\ WordIsTrue) /\ [][NeverNags]_trayVars

=============================================================================
