----------------------------- MODULE NmeaSearch -----------------------------
(***************************************************************************)
(* The search for NMEA feeds on the LAN (discover in                       *)
(* daemon/src/nmea_discover.rs): UDP ports are listened on while TCP       *)
(* targets are probed in two passes, a fast sweep of all of them and a     *)
(* patient retry of those that timed out on hosts the neighbour table      *)
(* names.  A probe needs a permit, connects and reads; a pass has a        *)
(* deadline at which what is under way is given up.                        *)
(***************************************************************************)
EXTENDS Naturals, FiniteSets

CONSTANTS
    Targets,        \* a host and a port each
    LanKinds,       \* bound: the targets looked at, by how they answer
    FastConnect,    \* TCP_CONNECT_TIMEOUT
    SlowConnect,    \* TCP_RETRY_CONNECT_TIMEOUT
    ReadWindow,     \* TCP_READ_WINDOW
    SweepDeadline,  \* TCP_SWEEP_DEADLINE
    TableLimit,     \* the time the neighbour table may take
    Deadline,       \* TCP_DEADLINE
    UdpWindow,      \* UDP_WINDOW
    SweepWidth,     \* TCP_CONCURRENCY
    RetryWidth      \* TCP_RETRY_CONCURRENCY

ASSUME SearchAssumption ==
    /\ IsFiniteSet(Targets)
    /\ {FastConnect, SlowConnect, ReadWindow, SweepDeadline, TableLimit, Deadline, UdpWindow} \subseteq Nat
    /\ {SweepWidth, RetryWidth} \subseteq Nat \ {0}
    /\ LanKinds \subseteq [takes: Nat, refuses: BOOLEAN, talks: BOOLEAN, named: BOOLEAN]
    /\ FastConnect < SlowConnect /\ FastConnect <= ReadWindow
    /\ SweepDeadline + TableLimit + SlowConnect + ReadWindow < Deadline
    /\ UdpWindow < Deadline

VARIABLES
    lan,        \* the targets: takes so long to connect or refuse; talks NMEA; the neighbour table has it
    clock,      \* since the search began
    pass,       \* of the TCP probe, since when, and how many are retried; blind: without the table
    probe,      \* the probe of each target
    found,      \* sources heard over TCP
    slow,       \* timed_out
    udp,        \* the listen
    turn        \* history: when a target got its turn in the sweep, Deadline + 1 for never

searchVars == <<lan, clock, pass, probe, found, slow, udp, turn>>

Out == [at |-> "out", since |-> 0]
Queued == [at |-> "queued", since |-> 0]

\* The sweep is spawned and the ports are bound; another program may hold one.
SearchInit ==
    /\ lan \in [Targets -> LanKinds]
    /\ clock = 0
    /\ pass = [at |-> "sweep", since |-> 0, retries |-> 0, blind |-> FALSE]
    /\ probe = [t \in Targets |-> Queued]
    /\ found = {} /\ slow = {}
    /\ udp \in {[at |-> "listening", heard |-> FALSE], [at |-> "skipped", heard |-> FALSE]}
    /\ turn = [t \in Targets |-> Deadline + 1]

-----------------------------------------------------------------------------
(* A pass (probe_tcp_pass) *)

Probing == pass.at \in {"sweep", "retry"}
PatienceOf(p) == IF p = "sweep" THEN FastConnect ELSE SlowConnect
WidthOf(p) == IF p = "sweep" THEN SweepWidth ELSE RetryWidth

\* Mutant: the sweep may take all the time there is.
DeadlineOfCall(p) == Deadline
\* Pass 1 is cut off so that pass 2 has time left.
DeadlineOf(p) == IF p = "sweep" THEN SweepDeadline ELSE Deadline

Permits == {t \in Targets : probe[t].at \in {"connecting", "reading"}}

\* A permit is had: too late for a connection to be tried, or in time.
TakesTurn(t) ==
    /\ Probing /\ probe[t].at = "queued" /\ Cardinality(Permits) < WidthOf(pass.at)
    /\ IF clock + PatienceOf(pass.at) > DeadlineOf(pass.at)
       THEN probe' = [probe EXCEPT ![t] = Out] /\ slow' = slow \union {t}
       ELSE probe' = [probe EXCEPT ![t] = [at |-> "connecting", since |-> clock]] /\ UNCHANGED slow
    /\ turn' = IF pass.at = "sweep" THEN [turn EXCEPT ![t] = clock] ELSE turn
    /\ UNCHANGED <<lan, clock, pass, found, udp>>

\* When its connection is decided, and when it has read enough.
ConnectEnds(t) ==
    probe[t].since + (IF lan[t].takes <= PatienceOf(pass.at) THEN lan[t].takes ELSE PatienceOf(pass.at))
ReadEnds(t) ==
    LET stop == probe[t].since + ReadWindow IN
    IF stop < DeadlineOf(pass.at) THEN stop ELSE DeadlineOf(pass.at)

\* probe_one: connected, refused, or timed out.
Connected(t) ==
    /\ Probing /\ probe[t].at = "connecting" /\ clock >= ConnectEnds(t)
    /\ IF lan[t].takes > PatienceOf(pass.at)
       THEN probe' = [probe EXCEPT ![t] = Out] /\ slow' = slow \union {t}
       ELSE /\ probe' = [probe EXCEPT ![t] = IF lan[t].refuses THEN Out ELSE [at |-> "reading", since |-> clock]]
            /\ UNCHANGED slow
    /\ UNCHANGED <<lan, clock, pass, found, udp, turn>>

\* It has read for its window, or up to the deadline, or been hung up on; what it heard is NMEA or not
\* (summarize).  A feed speaks within the window.
ReadsOut(t) ==
    /\ Probing /\ probe[t].at = "reading" /\ (clock >= ReadEnds(t) \/ ~lan[t].talks)
    /\ probe' = [probe EXCEPT ![t] = Out]
    /\ \/ lan[t].talks /\ found' = found \union {t}
       \/ (lan[t].talks => clock < probe[t].since + ReadWindow) /\ UNCHANGED found
    /\ UNCHANGED <<lan, clock, pass, slow, udp, turn>>

\* Every probe has answered; or at the deadline whatever is still out is given up (abort_all), also
\* one that ends this instant.
PassEnds ==
    /\ Probing
    /\ (\A t \in Targets : probe[t] = Out) \/ clock = DeadlineOf(pass.at)
    /\ probe' = [t \in Targets |-> Out]
    /\ pass' = [pass EXCEPT !.at = IF @ = "sweep" THEN "table" ELSE "over", !.since = clock]
    /\ UNCHANGED <<lan, clock, found, slow, udp, turn>>

-----------------------------------------------------------------------------
(* Between the passes (neighbor_ipv4s, retry_targets) *)

\* What timed out on hosts that are alive, and has not been heard.
RetryTargets(table) == {t \in slow : t \in table} \ found

\* The table is read, or has failed and is empty.
TableRead ==
    /\ pass.at = "table"
    /\ \E failed \in BOOLEAN :
        LET table == IF failed THEN {} ELSE {t \in Targets : lan[t].named}
            retry == RetryTargets(table) IN
        /\ pass' = [at |-> "retry", since |-> clock, retries |-> Cardinality(retry), blind |-> failed]
        /\ probe' = [t \in Targets |-> IF t \in retry THEN Queued ELSE Out]
    /\ UNCHANGED <<lan, clock, found, slow, udp, turn>>

-----------------------------------------------------------------------------
(* The listen, and time *)

\* listen_one keeps a datagram that holds a sentence.
Datagram ==
    /\ udp.at = "listening" /\ udp' = [udp EXCEPT !.heard = TRUE]
    /\ UNCHANGED <<lan, clock, pass, probe, found, slow, turn>>

ListenEnds ==
    /\ udp.at = "listening" /\ clock = UdpWindow /\ udp' = [udp EXCEPT !.at = "over"]
    /\ UNCHANGED <<lan, clock, pass, probe, found, slow, turn>>

\* What is due comes before time passes.
SearchDue ==
    \/ udp.at = "listening" /\ clock = UdpWindow
    \/ pass.at = "table" /\ clock = pass.since + TableLimit
    \/ /\ Probing
       /\ \/ \A t \in Targets : probe[t] = Out
          \/ clock = DeadlineOf(pass.at)
          \/ \E t \in Targets :
                \/ probe[t].at = "queued" /\ Cardinality(Permits) < WidthOf(pass.at)
                \/ probe[t].at = "connecting" /\ clock >= ConnectEnds(t)
                \/ probe[t].at = "reading" /\ clock >= ReadEnds(t)

SearchTick ==
    /\ ~SearchDue /\ clock < Deadline /\ ~(pass.at = "over" /\ udp.at # "listening")
    /\ clock' = clock + 1
    /\ UNCHANGED <<lan, pass, probe, found, slow, udp, turn>>

SearchNext ==
    \/ \E t \in Targets : TakesTurn(t) \/ Connected(t) \/ ReadsOut(t)
    \/ PassEnds \/ TableRead \/ Datagram \/ ListenEnds \/ SearchTick

SearchSpec == SearchInit /\ [][SearchNext]_searchVars

-----------------------------------------------------------------------------
(* Properties *)

SearchTypes ==
    /\ clock \in 0..Deadline
    /\ pass.at \in {"sweep", "table", "retry", "over"} /\ pass.since <= clock /\ pass.retries <= Cardinality(Targets)
    /\ probe \in [Targets -> [at: {"out", "queued", "connecting", "reading"}, since: 0..Deadline]]
    /\ found \subseteq Targets /\ slow \subseteq Targets
    /\ udp \in [at: {"listening", "skipped", "over"}, heard: BOOLEAN]
    /\ turn \in [Targets -> 0..(Deadline + 1)]

\* A feed on the LAN is listed when the search is over, if it got its turn before the sweep was cut
\* off: one that connects at once and could be read for the whole window; and one that was too slow
\* for the sweep, or came too late in it, when its host is in the neighbour table and the retries are
\* no more than run at once.  "Pass 1 is cut off here so pass 2 always has time left inside
\* TCP_DEADLINE" (TCP_SWEEP_DEADLINE).  A feed the deadline finds being read, or still waiting for a
\* permit, is neither found nor retried.
FeedsAreFound ==
    pass.at = "over" =>
        \A t \in Targets : lan[t].talks /\ ~lan[t].refuses =>
            /\ lan[t].takes <= FastConnect /\ turn[t] + lan[t].takes + ReadWindow < SweepDeadline => t \in found
            /\ /\ turn[t] < SweepDeadline /\ turn[t] + FastConnect # SweepDeadline
               /\ lan[t].takes > FastConnect \/ turn[t] + FastConnect > SweepDeadline
               /\ lan[t].takes <= SlowConnect /\ lan[t].named /\ ~pass.blind
               /\ pass.retries <= RetryWidth
               => t \in found

SearchInv == SearchTypes /\ FeedsAreFound

=============================================================================
