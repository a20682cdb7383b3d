------------------------------- MODULE Gateway -------------------------------
(***************************************************************************)
(* The LinkTap gateway: found and watched.  The poll loop (hub_server.rs)  *)
(* asks the gateway of hub.json about each of its valves.  Where the plan  *)
(* lets the hub drive a valve and the file names no gateway, a sweep of    *)
(* the network (linktap_discover.rs) may find one.  What the polls hear    *)
(* becomes, at most once an episode, word that the gateway is offline, and *)
(* then that it is back (gateway_watch_step in linktap_runtime.rs).        *)
(* What the gateway says of its valves is ValveHub's.  Time is in standing *)
(* poll intervals (LINKTAP_POLL_SECS).                                     *)
(***************************************************************************)
EXTENDS Naturals

CONSTANTS
    Gateways,       \* the gateways that may be on the network
    Unpaired,       \* those of them that have no valve yet
    Hosts,          \* the addresses of the hub's own /24
    Nowhere,        \* no address
    Valves,         \* how many valves the file names
    OfflineGrace,   \* GATEWAY_OFFLINE_GRACE_SECS
    PassTime,       \* the longest a pass keeps the loop: its calls, each of GATEWAY_TIMEOUT, and its closes
    MaxUpsets       \* bound: moves on the network, words of the cloud, edits of the file, restarts

ASSUME GatewayAssumption ==
    /\ Unpaired \subseteq Gateways
    /\ Nowhere \notin Gateways \union Hosts
    /\ {OfflineGrace, Valves} \subseteq Nat \ {0}
    /\ {PassTime, MaxUpsets} \subseteq Nat

VARIABLES
    where,          \* the address at which each gateway answers
    entry,          \* hub.json: the plan's word, the gateway's address and id, and who wrote them
    poller,         \* linktap_poll_loop: where it is, what it has read and heard
    sweep,          \* discover_linktap_gateway: the probes to come, the gateways found
    machine,        \* rt.linktap: the gateway it drives, if there is one
    watched,        \* the local `watching`
    reach,          \* GatewayWatch: the time since the gateway was last seen, and the word given
    past,           \* history: how long it has really been silent, what the owner has been told
    upsets

gatewayVars == <<where, entry, poller, sweep, machine, watched, reach, past, upsets>>

NoGateway == [host |-> Nowhere, id |-> Nowhere]
Places == [host: Hosts \union {Nowhere}, id: Gateways \union {Nowhere}]

\* Time that matters no more.
LongAgo == OfflineGrace + 2 * PassTime + 1
Later(n) == IF n < LongAgo THEN n + 1 ELSE n

\* seen: a time is known.
Unseen == [seen |-> FALSE, age |-> 0, told |-> FALSE]

\* silent: since the gateway of the watch last answered a call; kept: since it has been polled without a
\* pause.  Neither from before the watch began.
Fresh == [silent |-> 0, kept |-> 0, word |-> "none"]

Napping == [at |-> "nap", read |-> NoGateway, allowed |-> FALSE, left |-> 0, heard |-> FALSE, spent |-> 0]
NoSweep == [left |-> {}, found |-> {}, steady |-> {}]

GatewayInit ==
    /\ where \in [Gateways -> Hosts \union {Nowhere}]
    /\ \A g, h \in Gateways : where[g] = where[h] /\ where[g] # Nowhere => g = h
    /\ entry = [allowed |-> FALSE, place |-> NoGateway, typed |-> NoGateway, alone |-> TRUE]
    /\ poller = Napping
    /\ sweep = NoSweep
    /\ machine = NoGateway
    /\ watched = NoGateway
    /\ reach = Unseen
    /\ past = Fresh
    /\ upsets = 0

-----------------------------------------------------------------------------
(* The search *)

\* The next pass, not before the nap ends or linktap_wake is rung: no address is known, and
\* the plan wants one.
StartsSweep ==
    /\ poller.at = "nap" /\ entry.allowed /\ entry.place.host = Nowhere
    /\ poller' = [Napping EXCEPT !.at = "sweep", !.allowed = TRUE]
    /\ sweep' = [left |-> Hosts, found |-> {}, steady |-> {g \in Gateways \ Unpaired : where[g] # Nowhere}]
    /\ past' = [past EXCEPT !.kept = 0]
    /\ UNCHANGED <<where, entry, machine, watched, reach, upsets>>

\* probe: asked without an id the gateway refuses, and gives its own; asked with it, it names its valves.
\* An answer later than PROBE_TIMEOUT is none.
ProbeFinds(g) ==
    /\ poller.at = "sweep" /\ where[g] \in sweep.left /\ g \notin Unpaired
    /\ sweep' = [sweep EXCEPT !.left = @ \ {where[g]}, !.found = @ \union {[host |-> where[g], id |-> g]}]
    /\ UNCHANGED <<where, entry, poller, machine, watched, reach, past, upsets>>

ProbeFindsNone(h) ==
    /\ poller.at = "sweep" /\ h \in sweep.left
    /\ sweep' = [sweep EXCEPT !.left = @ \ {h}, !.steady = {g \in @ : where[g] # h}]
    /\ UNCHANGED <<where, entry, poller, machine, watched, reach, past, upsets>>

\* None, or more than one: the hub does not guess.
FindsNoneToAdopt ==
    /\ poller.at = "sweep" /\ sweep.left = {}
    /\ ~\E d \in sweep.found : sweep.found = {d}
    /\ poller' = [poller EXCEPT !.at = "sync"]
    /\ sweep' = NoSweep
    /\ UNCHANGED <<where, entry, machine, watched, reach, past, upsets>>

\* Mutant: what the sweep found is written over what was typed meanwhile.
TakenAnyway(d) == d

\* The address that is in the file by the time the lock is held wins.
Taken(d) == IF entry.place.host # Nowhere THEN entry.place ELSE d

\* Exactly one gateway answered.  The write may fail.
Adopts(written) ==
    /\ poller.at = "sweep" /\ sweep.left = {}
    /\ \E d \in sweep.found :
        /\ sweep.found = {d}
        /\ IF written
           THEN /\ entry' = [entry EXCEPT !.place = Taken(d),
                                          !.alone = @ /\ (Taken(d) = d => sweep.steady \subseteq {d.id})]
                /\ poller' = [poller EXCEPT !.at = "sync", !.read = entry'.place, !.allowed = entry.allowed]
           ELSE entry.place.host = Nowhere /\ UNCHANGED entry /\ poller' = [poller EXCEPT !.at = "sync"]
    /\ sweep' = NoSweep
    /\ UNCHANGED <<where, machine, watched, reach, past, upsets>>

-----------------------------------------------------------------------------
(* A pass *)

StartsPass ==
    /\ poller.at = "nap" /\ ~(entry.allowed /\ entry.place.host = Nowhere)
    /\ poller' = [Napping EXCEPT !.at = "sync", !.read = entry.place, !.allowed = entry.allowed]
    /\ UNCHANGED <<where, entry, sweep, machine, watched, reach, past, upsets>>

Usable == poller.allowed /\ poller.read.host # Nowhere /\ poller.read.id # Nowhere

\* Nothing to drive: nobody asks the gateway.
Withdraws ==
    /\ poller.at = "sync" /\ ~Usable
    /\ machine' = NoGateway
    /\ poller' = Napping
    /\ past' = [past EXCEPT !.kept = 0]
    /\ UNCHANGED <<where, entry, sweep, watched, reach, upsets>>

\* Another gateway, or another address, begins another watch.
Watching(place) == IF place = watched THEN reach ELSE Unseen

Syncs ==
    /\ poller.at = "sync" /\ Usable
    /\ machine' = poller.read
    /\ watched' = poller.read
    /\ reach' = Watching(poller.read)
    /\ past' = IF poller.read = watched THEN past ELSE Fresh
    /\ poller' = [poller EXCEPT !.at = "ask", !.left = Valves]
    /\ UNCHANGED <<where, entry, sweep, upsets>>

\* Whatever it says of the valve (ret 5), and whoever it is (ret 3), a gateway has answered.
AsksValve(answered) ==
    /\ poller.at = "ask" /\ poller.left > 0
    /\ answered => \E g \in Gateways : where[g] = machine.host
    /\ poller' = [poller EXCEPT !.left = @ - 1, !.heard = @ \/ answered]
    /\ past' = IF answered THEN [past EXCEPT !.silent = 0] ELSE past
    /\ UNCHANGED <<where, entry, sweep, machine, watched, reach, upsets>>

\* gateway_watch_step: the watch that follows, and the word that goes out.
WhenHeard == [reach |-> [seen |-> TRUE, age |-> 0, told |-> FALSE],
              word |-> IF reach.told THEN "online" ELSE "none"]

WhenSilent ==
    CASE ~reach.seen -> [reach |-> [reach EXCEPT !.seen = TRUE], word |-> "none"]
      [] reach.seen /\ ~reach.told /\ reach.age >= OfflineGrace ->
            [reach |-> [reach EXCEPT !.told = TRUE], word |-> "offline"]
      [] OTHER -> [reach |-> reach, word |-> "none"]

WatchStep == IF poller.heard THEN WhenHeard ELSE WhenSilent

Tells(word) == poller.at = "ask" /\ poller.left = 0 /\ WatchStep.word = word

\* Unconfirmed closes are driven, and the loop naps.
EndsPass ==
    /\ poller.at = "ask" /\ poller.left = 0
    /\ reach' = WatchStep.reach
    /\ past' = IF Tells("none") THEN past ELSE [past EXCEPT !.word = WatchStep.word]
    /\ poller' = Napping
    /\ UNCHANGED <<where, entry, sweep, machine, watched, upsets>>

-----------------------------------------------------------------------------

Upset == upsets < MaxUpsets /\ upsets' = upsets + 1

\* A gateway loses its power, comes back, or gets another address.
GatewayMoves(g, h) ==
    /\ Upset
    /\ h # where[g] /\ (h # Nowhere => \A other \in Gateways : where[other] # h)
    /\ where' = [where EXCEPT ![g] = h]
    /\ sweep' = [sweep EXCEPT !.steady = @ \ {g}]
    /\ UNCHANGED <<entry, poller, machine, watched, reach, past>>

\* apply_linktap_reply.
PlanTurns ==
    /\ Upset
    /\ entry' = [entry EXCEPT !.allowed = ~@]
    /\ UNCHANGED <<where, poller, sweep, machine, watched, reach, past>>

\* An address is typed, by hand, with the id or without, or the file is cleared.
OwnerTypes(place) ==
    /\ Upset
    /\ place = NoGateway \/ place.host # Nowhere
    /\ entry' = [entry EXCEPT !.place = place, !.typed = place, !.alone = TRUE]
    /\ UNCHANGED <<where, poller, sweep, machine, watched, reach, past>>

PollerRestart ==
    /\ Upset
    /\ poller' = Napping
    /\ sweep' = NoSweep
    /\ machine' = NoGateway
    /\ watched' = NoGateway
    /\ reach' = Unseen
    /\ past' = Fresh
    /\ UNCHANGED <<where, entry>>

\* A nap is at most an interval long, a pass PassTime; a sweep takes its time.
TimeGoesOn ==
    /\ \/ poller.at = "nap" /\ poller.spent < 1
       \/ poller.at = "sweep"
       \/ poller.at = "ask" /\ poller.spent < PassTime
    /\ poller' = IF poller.at = "sweep" THEN poller ELSE [poller EXCEPT !.spent = @ + 1]
    /\ reach' = IF reach.seen THEN [reach EXCEPT !.age = Later(@)] ELSE reach
    /\ past' = [past EXCEPT !.silent = Later(@),
                            !.kept = IF machine = NoGateway \/ poller.at = "sweep" THEN 0 ELSE Later(@)]
    /\ UNCHANGED <<where, entry, sweep, machine, watched, upsets>>

GatewayNext ==
    \/ StartsSweep
    \/ \E g \in Gateways : ProbeFinds(g)
    \/ \E h \in Hosts : ProbeFindsNone(h)
    \/ FindsNoneToAdopt
    \/ \E written \in BOOLEAN : Adopts(written)
    \/ StartsPass \/ Withdraws \/ Syncs
    \/ \E answered \in BOOLEAN : AsksValve(answered)
    \/ EndsPass
    \/ \E g \in Gateways, h \in Hosts \union {Nowhere} : GatewayMoves(g, h)
    \/ PlanTurns
    \/ \E place \in Places : OwnerTypes(place)
    \/ PollerRestart
    \/ TimeGoesOn

GatewaySpec == GatewayInit /\ [][GatewayNext]_gatewayVars

-----------------------------------------------------------------------------
(* Properties *)

GatewayTypes ==
    /\ where \in [Gateways -> Hosts \union {Nowhere}]
    /\ entry \in [allowed: BOOLEAN, place: Places, typed: Places, alone: BOOLEAN]
    /\ poller \in [at: {"nap", "sweep", "sync", "ask"}, read: Places, allowed: BOOLEAN,
                   left: 0 .. Valves, heard: BOOLEAN, spent: Nat]
    /\ sweep \in [left: SUBSET Hosts, found: SUBSET Places, steady: SUBSET Gateways]
    /\ machine \in Places /\ watched \in Places
    /\ reach \in [seen: BOOLEAN, age: Nat, told: BOOLEAN]
    /\ past \in [silent: Nat, kept: Nat, word: {"none", "offline", "online"}]
    /\ upsets \in 0 .. MaxUpsets

\* "A configured host always wins and is never overwritten" (hub_server.rs), not by a sweep that
\* was under way when it was typed either.
TypedStands == entry.typed.host # Nowhere => entry.place = entry.typed

\* "Adopts a gateway only when EXACTLY ONE is on the LAN" (hub_server.rs): no other one with valves
\* was at its address all through the sweep and in time with its answers.
AdoptedAlone == entry.alone

\* A gateway that is polled and does not answer is reported, however the polls are timed.
ToldInTime ==
    past.silent > OfflineGrace + 2 * PassTime /\ past.kept > OfflineGrace + 2 * PassTime => reach.told

\* It is reported once, and not before it has been silent for the grace; that it is back, only to
\* an owner who has been told that it was gone (gateway_watch_step).
ToldForCause ==
    /\ EndsPass /\ Tells("offline") => past.silent >= OfflineGrace /\ past.word # "offline"
    /\ EndsPass /\ Tells("online") => past.word = "offline"

\* The search does as it is told, and so does the watch.
GatewayHolds ==
    /\ [](GatewayTypes /\ TypedStands /\ AdoptedAlone /\ ToldInTime)
    /\ [][ToldForCause]_gatewayVars

=============================================================================
