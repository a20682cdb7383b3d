------------------------------ MODULE NmeaFeed ------------------------------
(***************************************************************************)
(* One poll of an NMEA feed (poll_nmea and parse_nmea in                   *)
(* daemon/src/gps.rs).  Over TCP the hub joins a stream anywhere and is    *)
(* given it in pieces cut anywhere; a sentence without a checksum is       *)
(* accepted, so that the first part of one reads as a sentence with        *)
(* another position.  The poll takes the first position it can and goes.   *)
(* A sentence is two pieces, at an odd place of the stream and at the even *)
(* one after it, which holds the end of its line.                          *)
(***************************************************************************)
EXTENDS Integers, FiniteSetsExt

CONSTANTS
    MaxPieces,      \* bound: pieces a poll is given, before the last read
    ReadMost,       \* 2 or 4 KiB, in pieces: what one read gives
    Room            \* 64 KiB, in pieces: the text kept

ASSUME NmeaAssumption == {MaxPieces, ReadMost, Room} \subseteq Nat \ {0} /\ ReadMost <= Room \div 2

VARIABLES
    poll,       \* where the poll is
    text,       \* the first and the last place of what it keeps
    sent,       \* the sentences of the feed since the poll joined it
    joined,     \* history: the place of the first piece it was given
    outcome     \* what the poll returns

nmeaVars == <<poll, text, sent, joined, outcome>>

\* valid: its checksum, its status or fix quality, and its place are good.
Sentences == [type: {"RMC", "GGA"}, valid: BOOLEAN] \union {[type |-> "other", valid |-> FALSE]}
Valid(type) == [type |-> type, valid |-> TRUE]

\* The sentence a place is in.
SentenceAt(p) == (p + 1) \div 2

Joins(p) == [from |-> p, to |-> p - 1]
NoFix == [n |-> 0, whole |-> FALSE, quality |-> 0]
Returns(word, fix) == [word |-> word, fix |-> fix]

NmeaInit ==
    /\ poll = "idle" /\ text = Joins(1) /\ sent = <<>> /\ joined = 1
    /\ outcome = Returns("none", NoFix)

-----------------------------------------------------------------------------
(* parse_nmea, on what the feed has said *)

\* Mutant: the last line need not be complete.
AnyLines(t) == t
\* complete_lines: up to the last end of a line.
CompleteLines(t) == [t EXCEPT !.to = t.to - (t.to % 2)]

\* The place of the last valid sentence of a type that begins in the text, 0 without one: a line that
\* does not begin with a sentence is passed over.
LastOf(type, t, said) ==
    Max({0} \union {p \in t.from..t.to : p % 2 = 1 /\ said[SentenceAt(p)] = Valid(type)})

\* RMC is preferred, with the quality of a GGA beside it.  A line may be cut short.
ParseNmea(t, said) ==
    LET rmc == LastOf("RMC", t, said)
        gga == LastOf("GGA", t, said)
        p == IF rmc # 0 THEN rmc ELSE gga IN
    IF p = 0 THEN NoFix ELSE [n |-> SentenceAt(p), whole |-> p < t.to, quality |-> SentenceAt(gga)]

-----------------------------------------------------------------------------
(* The poll *)

Ends(word) == poll' = "done" /\ outcome' = Returns(word, NoFix)

\* A connection is refused, not answered in time, or made: before a sentence, or within one.  A UDP
\* port is bound for this poll alone, unless another program holds it.
Connects ==
    /\ poll = "idle"
    /\ \/ poll' \in {"tcp", "udp"} /\ UNCHANGED <<text, sent, joined, outcome>>
       \/ /\ poll' = "tcp" /\ text' = Joins(2) /\ joined' = 2
          /\ \E s \in Sentences : sent' = <<s>>
          /\ UNCHANGED outcome
       \/ Ends("unreachable") /\ UNCHANGED <<text, sent, joined>>

\* Over 64 KiB the older half goes.
Kept(t) == IF t.to - t.from >= Room THEN [t EXCEPT !.from = t.from + Room \div 2] ELSE t

\* The feed goes on.
Says(new) == [n \in DOMAIN sent \union DOMAIN new |-> IF n \in DOMAIN sent THEN sent[n] ELSE new[n]]

\* The next k pieces of the feed.  All that has come is parsed again; over TCP, its complete lines.
Receives(k, complete) ==
    LET all == [text EXCEPT !.to = text.to + k] IN
    \E new \in [SentenceAt(text.to) + 1..SentenceAt(all.to) -> Sentences] :
        LET fix == ParseNmea(IF complete THEN CompleteLines(all) ELSE all, Says(new)) IN
        /\ sent' = Says(new)
        /\ IF fix # NoFix
           THEN poll' = "done" /\ outcome' = Returns("fix", fix) /\ text' = all
           ELSE text' = Kept(all) /\ UNCHANGED <<poll, outcome>>
        /\ UNCHANGED joined

\* poll_nmea_tcp: a read gives some more of the stream.
ReadTcp ==
    /\ poll = "tcp" /\ text.to < MaxPieces
    /\ \E k \in 1..ReadMost : Receives(k, TRUE)

\* poll_nmea_udp_on: a datagram is a whole sentence, or several.
ReadUdp ==
    /\ poll = "udp" /\ text.to < MaxPieces
    /\ \E k \in {n \in 1..ReadMost : n % 2 = 0} : Receives(k, FALSE)

\* The window is over or the peer has closed; or reading fails.
Closes ==
    /\ poll \in {"tcp", "udp"}
    /\ Ends(IF text.to < text.from THEN "silent" ELSE "acquiring") \/ Ends("unreachable")
    /\ UNCHANGED <<text, sent, joined>>

\* The next poll begins anew.
PollsAgain ==
    /\ poll = "done" /\ poll' = "idle" /\ text' = Joins(1) /\ sent' = <<>> /\ joined' = 1
    /\ outcome' = Returns("none", NoFix)

NmeaNext == Connects \/ ReadTcp \/ ReadUdp \/ Closes \/ PollsAgain

NmeaSpec == NmeaInit /\ [][NmeaNext]_nmeaVars

-----------------------------------------------------------------------------
(* Properties *)

NmeaTypes ==
    /\ poll \in {"idle", "tcp", "udp", "done"}
    /\ joined \in 1..2
    /\ text \in [from: Nat, to: 0..MaxPieces + ReadMost] /\ text.to - text.from < Room + ReadMost
    /\ sent \in [1..SentenceAt(text.to) -> Sentences]
    /\ outcome.word \in {"none", "fix", "silent", "acquiring", "unreachable"}

\* The valid sentences of a type that the poll was given in whole.
Heard(type) == {n \in DOMAIN sent : sent[n] = Valid(type) /\ joined < 2 * n /\ 2 * n <= text.to}

\* "a sentence cut mid-number by a read boundary must never yield a wrong position" (complete_lines):
\* wherever the stream was joined, cut and thrown away, the fix returned is the last valid RMC the
\* hub was given in whole, or the last GGA if it was given no RMC, with the quality of the last GGA;
\* and a poll that says the receiver is still acquiring, or silent, has been given no valid sentence,
\* or nothing.
FixIsReal ==
    LET fix == outcome.fix IN
    /\ outcome.word = "fix" =>
        /\ fix.whole
        /\ IF Heard("RMC") # {} THEN fix.n = Max(Heard("RMC")) ELSE Heard("GGA") # {} /\ fix.n = Max(Heard("GGA"))
        /\ fix.quality = Max({0} \union Heard("GGA"))
    /\ outcome.word = "acquiring" => Heard("RMC") \union Heard("GGA") = {}
    /\ outcome.word = "silent" => text.to < joined

NmeaInv == NmeaTypes /\ FixIsReal

=============================================================================
