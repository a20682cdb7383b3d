------------------------------- MODULE MCBoat -------------------------------
(***************************************************************************)
(* What the hub knows and tells of the boat, one part at a time: the       *)
(* geofence, on a line of a few places (inside the circle, in its warn     *)
(* band, and adrift); the sampler of the hub's own source; one poll of an  *)
(* NMEA feed; the search for feeds, with one that answers at once, one     *)
(* that says nothing, one too slow for the sweep, and nothing at all; the  *)
(* uplink of a modem router, of one whose word its colour may not match,   *)
(* and of a dish.                                                          *)
(***************************************************************************)
EXTENDS Geofence, GpsFeed, NmeaFeed, NmeaSearch, RouterReport

VARIABLE part

Kind(takes, talks) == [takes |-> takes, refuses |-> FALSE, talks |-> talks, named |-> takes <= SlowConnect]

MCKinds == {Kind(0, TRUE), Kind(0, FALSE), Kind(SlowConnect, TRUE), Kind(Deadline, FALSE)}

Wan(kind, led, word, says) == [kind |-> kind, led |-> led, word |-> word, says |-> says]

MCWanEntries ==
    [cradlepoint |-> {Wan("lte", "other", "connected", "up"), Wan("lte", "other", "disconnected", "down"),
                      Wan("lte", "other", "other", "unsaid"), Wan("wired", "other", "connected", "up")},
     peplink |-> {Wan("lte", "green", "other", "up"), Wan("lte", "red", "other", "down"),
                  Wan("wired", "other", "other", "unsaid"), Wan("wired", "other", "connected", "up")},
     starlink |-> {}]

Parts == {"fence", "feed", "nmea", "search", "report"}

\* Of a part that is not checked, one initial state is enough.
BoatInit ==
    /\ part \in Parts
    /\ Init /\ FeedInit /\ NmeaInit /\ SearchInit /\ ReportInit
    /\ part # "search" => lan = [t \in Targets |-> Kind(0, TRUE)] /\ udp.at = "listening"
    /\ part # "report" => device = [make |-> "starlink", counter |-> 0, enrolled |-> FALSE]

BoatNext ==
    /\ UNCHANGED part
    /\ \/ part = "fence" /\ Next /\ UNCHANGED <<feedVars, nmeaVars, searchVars, reportVars>>
       \/ part = "feed" /\ FeedNext /\ UNCHANGED <<vars, nmeaVars, searchVars, reportVars>>
       \/ part = "nmea" /\ NmeaNext /\ UNCHANGED <<vars, feedVars, searchVars, reportVars>>
       \/ part = "search" /\ SearchNext /\ UNCHANGED <<vars, feedVars, nmeaVars, reportVars>>
       \/ part = "report" /\ ReportNext /\ UNCHANGED <<vars, feedVars, nmeaVars, searchVars>>

boatVars == <<part, vars, feedVars, nmeaVars, searchVars, reportVars>>

BoatSpec == BoatInit /\ [][BoatNext]_boatVars

=============================================================================
