----------------------------- MODULE LinkProofs -----------------------------
(***************************************************************************)
(* Proofs about the hub's link to the cloud.  Relay, for every setting of  *)
(* its limits and cadences: the locals of the loop keep their types, and a *)
(* socket at whose far end nobody answers is ended within the limit of the *)
(* plain ping, the wait for its next tick and one stalled write; and no    *)
(* socket is ended by its pings, its nonces or the cloud's word but for    *)
(* the cause they stand for.                                               *)
(* Telemetry, for every number of reports, levels and bounds: reports      *)
(* reach the cloud in the order they were queued, and no alarm is thrown   *)
(* away but among more alarms than the queue may hold.                     *)
(* Watch, for every interval, timeout and retry that leaves its margin:    *)
(* the cloud hears a boat under an anchor watch in time.                   *)
(* KeySync, for every number of changes, kind of worker and bound: the     *)
(* hub's variables keep their types, and what lies on disk is what the hub *)
(* holds, under the signature the gate goes by, as long as no fetch and    *)
(* push have crossed.                                                      *)
(***************************************************************************)
EXTENDS Relay, KeySync, Telemetry, Watch, FiniteSetTheorems, SequenceTheorems, WellFoundedInduction, TLAPS

(* The socket *)

Locals == [sinceText: Nat, sinceEcho: Nat, pingIn: 0..1, nonceIn: Nat, cadence: Cadences,
           echoed: BOOLEAN, parked: {"no", "call", "write"}, spent: Nat]

Histories == [missed: 0..SilenceLimit, called: BOOLEAN, echoes: 0..Misses, late: BOOLEAN]

\* What TypeOK leaves open.
LocalTypes ==
    /\ sock \in Locals
    /\ hist \in Histories
    /\ wait \in Nat
    /\ conn = "down" => wait <= MaxAttempt
    /\ conn = "connecting" => wait <= ConnectLimit

\* How old the last word of the far end can be, by what the loop is doing: it comes back to the
\* select before the ping is due again, a call begins with a word, a write ends at its limit.
Silence(s) ==
    /\ s.parked = "no" => s.sinceText + s.pingIn <= SilenceLimit + 1
    /\ s.parked = "call" => s.sinceText <= s.spent /\ s.spent <= CallLimit
    /\ s.parked = "write" => s.sinceText <= SilenceLimit + 1 + s.spent /\ s.spent <= WriteLimit

SilenceBounded == conn = "up" => Silence(sock)

IInv == TypeOK /\ LocalTypes /\ SilenceBounded

LEMMA Limits ==
    /\ SilenceLimit \in Nat /\ CallLimit \in Nat /\ WriteLimit \in Nat /\ ConnectLimit \in Nat
    /\ MaxAttempt \in Nat /\ Misses \in Nat /\ CallLimit <= SilenceLimit
    /\ \A c \in Cadences : c \in Nat
  BY RelayAssumption

LEMMA OpenedType ==
    ASSUME NEW c \in Cadences PROVE Opened(c) \in Locals /\ Silence(Opened(c))
  BY Limits DEF Opened, Locals, Silence

LEMMA NewHistType == NewHist \in Histories
  BY Limits DEF NewHist, Histories

LEMMA EchoLimitType == EchoLimit \in Nat
<1> DEFINE c == CHOOSE c \in Cadences : \A d \in Cadences : d <= c
<1>1. c \in Cadences
  BY RelayAssumption
<1>2. c \in Nat /\ Misses \in Nat
  BY <1>1, Limits
<1> HIDE DEF c
<1>3. Misses * c \in Nat
  BY <1>2
<1> QED
  BY <1>3 DEF EchoLimit, c

\* What the loop changes together, in its locals and in their history.
Heard(s) == [s EXCEPT !.sinceEcho = 0, !.echoed = TRUE]
Parked(s, where) == [s EXCEPT !.parked = where, !.spent = 0]

LEMMA HeardType ==
    ASSUME NEW s \in Locals
    PROVE  /\ Heard(s) \in Locals /\ Heard(s).sinceText = s.sinceText /\ Heard(s).pingIn = s.pingIn
           /\ Heard(s).parked = s.parked /\ Heard(s).spent = s.spent
<1> DEFINE q == [s EXCEPT !.sinceEcho = 0]
<1>1. /\ q \in Locals /\ q.sinceText = s.sinceText /\ q.pingIn = s.pingIn
      /\ q.parked = s.parked /\ q.spent = s.spent
  BY DEF Locals
<1>2. Heard(s) = [q EXCEPT !.echoed = TRUE]
  BY DEF Heard
<1> HIDE DEF q
<1> QED
  BY <1>1, <1>2 DEF Locals

LEMMA ParkedType ==
    ASSUME NEW s \in Locals, NEW where \in {"no", "call", "write"}
    PROVE  /\ Parked(s, where) \in Locals
           /\ Parked(s, where).sinceText = s.sinceText /\ Parked(s, where).pingIn = s.pingIn
           /\ Parked(s, where).parked = where /\ Parked(s, where).spent = 0
<1> DEFINE q == [s EXCEPT !.parked = where]
<1>1. q \in Locals /\ q.sinceText = s.sinceText /\ q.pingIn = s.pingIn /\ q.parked = where
  BY DEF Locals
<1>2. Parked(s, where) = [q EXCEPT !.spent = 0]
  BY DEF Parked
<1> HIDE DEF q
<1> QED
  BY <1>1, <1>2 DEF Locals

LEMMA TextHistType ==
    ASSUME NEW h \in Histories, NEW b \in BOOLEAN
    PROVE  [h EXCEPT !.missed = 0, !.called = b] \in Histories
<1> DEFINE g == [h EXCEPT !.missed = 0]
<1>1. g \in Histories
  BY Limits DEF Histories
<1>2. [h EXCEPT !.missed = 0, !.called = b] = [g EXCEPT !.called = b]
  OBVIOUS
<1> HIDE DEF g
<1> QED
  BY <1>1, <1>2 DEF Histories

LEMMA ReadType ==
    ASSUME NEW s \in Locals
    PROVE  /\ Read(s) \in Locals /\ Read(s).sinceText = 0 /\ Read(s).pingIn = s.pingIn
           /\ Read(s).parked = s.parked /\ Read(s).spent = s.spent
  BY DEF Read, Locals

\* However a socket ends, or an attempt, the loop waits afresh.
LEMMA EndedIsWell == ASSUME IInv, NEW clean \in BOOLEAN, Ends(clean) PROVE IInv'
<1>1. setting \in Cadences
  BY DEF IInv, TypeOK
<1>2. sock' \in Locals /\ hist' \in Histories
  BY <1>1, OpenedType, NewHistType DEF Ends
<1>3. wait' \in Nat /\ wait' <= MaxAttempt
  BY Limits DEF Ends, NextAttempt, Backoff
<1> QED
  BY <1>2, <1>3 DEF IInv, TypeOK, LocalTypes, SilenceBounded, Ends, Locals, Histories

LEMMA Initially == Init => IInv
<1> SUFFICES ASSUME Init PROVE IInv
  OBVIOUS
<1>1. setting \in Cadences /\ sock \in Locals /\ hist \in Histories
  BY OpenedType, NewHistType DEF Init
<1>2. conn = "down" /\ wait = 0 /\ far = "gone" /\ unread = {} /\ rung = FALSE /\ word = "none"
  BY DEF Init
<1>3. LocalTypes /\ SilenceBounded
  BY <1>1, <1>2, Limits DEF LocalTypes, SilenceBounded
<1>4. /\ sock.parked \in {"no", "call", "write"} /\ sock.pingIn \in 0..1 /\ sock.cadence \in Cadences
      /\ hist.missed \in 0..SilenceLimit /\ hist.echoes \in 0..Misses
  BY <1>1 DEF Locals, Histories
<1>5. unread \subseteq {"pong", "echo"} /\ wait <= MaxAttempt
  BY <1>2, Limits
<1>6. TypeOK
  BY <1>1, <1>2, <1>4, <1>5 DEF TypeOK
<1> QED
  BY <1>1, <1>3, <1>6 DEF IInv

LEMMA Step == IInv /\ [Next]_vars => IInv'
<1> SUFFICES ASSUME IInv, [Next]_vars PROVE IInv'
  OBVIOUS
<1> USE DEF IInv
<1>t. setting \in Cadences /\ sock \in Locals /\ hist \in Histories
  BY DEF TypeOK, LocalTypes
<1>1. CASE \E end \in {"object", "gone"} : Connect(end)
  BY <1>1, Limits DEF Connect, TypeOK, LocalTypes, SilenceBounded
<1>2. CASE Connected
  <2>1. sock' \in Locals /\ Silence(sock')
    BY <1>2, <1>t, OpenedType DEF Connected
  <2>2. wait' = 0 /\ conn' = "up" /\ word' \in {"none", "stale"}
        /\ UNCHANGED <<far, unread, rung, setting, hist>>
    BY <1>2 DEF Connected
  <2>3. LocalTypes' /\ SilenceBounded'
    BY <1>t, <2>1, <2>2 DEF LocalTypes, SilenceBounded
  <2>4. TypeOK'
    BY <2>1, <2>2, Limits DEF TypeOK, Locals
  <2> QED
    BY <2>3, <2>4
<1>3. CASE ConnectFails
  BY <1>3, EndedIsWell DEF ConnectFails
<1>4. CASE \E end \in {"edge", "gone"} : Lose(end)
  BY <1>4 DEF Lose, TypeOK, LocalTypes, SilenceBounded
<1>5. CASE \E clean \in BOOLEAN : StreamEnds(clean)
  BY <1>5, EndedIsWell DEF StreamEnds
<1>6. CASE WriteFails \/ PingTickSilent \/ NonceTickSilent \/ DropAtWord
  BY <1>6, EndedIsWell DEF WriteFails, PingTickSilent, NonceTickSilent, DropAtWord
<1>7. CASE ReadPong
  <2>1. sock' \in Locals /\ Silence(sock')
    BY <1>7, <1>t, Limits DEF ReadPong, Read, Selecting, Locals, Silence
  <2>2. hist' \in Histories
    BY <1>7, <1>t, TextHistType DEF ReadPong
  <2> QED
    BY <1>7, <2>1, <2>2 DEF ReadPong, TypeOK, LocalTypes, SilenceBounded, Locals, Histories
<1>8. CASE ReadEcho
  <2>1. sock' \in Locals /\ Silence(sock')
    <3>1. Read(sock) \in Locals /\ sock' = Heard(Read(sock))
      BY <1>8, <1>t, ReadType DEF ReadEcho, Heard
    <3>2. /\ sock' \in Locals /\ sock'.sinceText = Read(sock).sinceText
          /\ sock'.pingIn = Read(sock).pingIn /\ sock'.parked = Read(sock).parked
      BY <3>1, HeardType
    <3> QED
      BY <1>8, <1>t, <3>2, ReadType, Limits DEF ReadEcho, Selecting, Locals, Silence
  <2>2. hist' \in Histories
    BY <1>8, NewHistType DEF ReadEcho
  <2> QED
    BY <1>8, <2>1, <2>2 DEF ReadEcho, TypeOK, LocalTypes, SilenceBounded, Locals, Histories
<1>9. CASE ReadCall
  <2>1. sock' \in Locals /\ Silence(sock')
    <3>1. Read(sock) \in Locals /\ sock' = Parked(Read(sock), "call")
      BY <1>9, <1>t, ReadType DEF ReadCall, Parked
    <3>2. sock' \in Locals /\ sock'.sinceText = Read(sock).sinceText /\ sock'.parked = "call" /\ sock'.spent = 0
      BY <3>1, ParkedType
    <3> QED
      BY <1>t, <3>2, ReadType, Limits DEF Silence
  <2>2. hist' \in Histories
    BY <1>9, <1>t, TextHistType DEF ReadCall
  <2> QED
    BY <1>9, <2>1, <2>2 DEF ReadCall, TypeOK, LocalTypes, SilenceBounded, Locals, Histories
<1>10. CASE CallAnswered
  <2>1. sock' \in Locals /\ Silence(sock')
    <3>1. /\ sock' \in Locals /\ sock'.sinceText = sock.sinceText /\ sock'.pingIn = sock.pingIn
          /\ sock'.parked = "no"
      <4>1. sock' = Parked(sock, "no")
        BY <1>10 DEF CallAnswered, Parked
      <4> QED
        BY <1>t, <4>1, ParkedType
    <3>2. sock.sinceText <= sock.spent /\ sock.spent <= CallLimit
      BY <1>10 DEF CallAnswered, SilenceBounded, Silence
    <3> QED
      BY <1>t, <3>1, <3>2, Limits DEF Silence, Locals
  <2>2. hist' \in Histories
    BY <1>10, <1>t DEF CallAnswered, Histories, Locals
  <2> QED
    BY <1>10, <2>1, <2>2 DEF CallAnswered, TypeOK, LocalTypes, SilenceBounded, Locals, Histories
<1>11. CASE WriteStalls
  <2>1. Opened(setting) \in Locals
    BY <1>t, OpenedType
  <2>2. sock' \in Locals /\ sock'.parked = "write" /\ sock'.spent = 0 /\ sock'.sinceText = sock.sinceText
    BY <1>11, <1>t, <2>1 DEF WriteStalls, Locals, Opened
  <2>3. sock.sinceText <= SilenceLimit + 1
    BY <1>11, <1>t, Limits DEF WriteStalls, SilenceBounded, Silence, Locals
  <2>4. Silence(sock')
    BY <2>2, <2>3, Limits DEF Silence, Locals
  <2>5. hist' \in Histories
    BY <1>11, NewHistType DEF WriteStalls
  <2> QED
    BY <1>11, <2>2, <2>4, <2>5 DEF WriteStalls, TypeOK, LocalTypes, SilenceBounded, Locals, Histories
<1>12. CASE \E answered \in BOOLEAN : PingTick(answered)
  <2>1. sock' \in Locals /\ Silence(sock')
    BY <1>12, <1>t, Limits DEF PingTick, RelayIsSilent, Selecting, Locals, Silence
  <2>2. Cap(hist.missed + 1, SilenceLimit) \in 0..SilenceLimit
    BY <1>t, Limits DEF Histories, Cap
  <2>3. hist' \in Histories
    BY <1>12, <1>t, <2>2 DEF PingTick, Histories
  <2> QED
    BY <1>12, <2>1, <2>3 DEF PingTick, TypeOK, LocalTypes, SilenceBounded, Locals, Histories
<1>13. CASE \E answered \in BOOLEAN : NonceTick(answered)
  <2>1. sock' \in Locals /\ sock'.parked = sock.parked /\ sock'.sinceText = sock.sinceText
        /\ sock'.pingIn = sock.pingIn /\ sock'.spent = sock.spent
    BY <1>13, <1>t, Limits DEF NonceTick, Locals
  <2>2. Cap(hist.echoes + 1, Misses) \in 0..Misses
    BY <1>t, Limits DEF Histories, Cap
  <2>3. sock.cadence \in Nat /\ setting \in Nat
    BY <1>t, Limits DEF Locals
  <2>4. hist' \in Histories
    BY <1>13, <1>t, <2>2, <2>3 DEF NonceTick, Histories
  <2> QED
    BY <1>13, <2>1, <2>4 DEF NonceTick, Selecting, TypeOK, LocalTypes, SilenceBounded, Silence, Locals, Histories
<1>14. CASE CheckIn
  BY <1>14 DEF CheckIn, TypeOK, LocalTypes, SilenceBounded
<1>15. CASE CheckInHandled
  BY <1>15 DEF CheckInHandled, ShouldDropRelay, NotifyWaiters, Selecting, TypeOK, LocalTypes, SilenceBounded
<1>16. CASE \E cadence \in Cadences : ChangeCadence(cadence)
  BY <1>16 DEF ChangeCadence, TypeOK, LocalTypes, SilenceBounded
<1>17. CASE Tick
  <2> DEFINE text == Cap(sock.sinceText + 1, TextBound + 1)
             echo == IF sock.echoed THEN Cap(sock.sinceEcho + 1, EchoLimit + 1) ELSE 0
             spent == IF sock.parked = "no" THEN 0 ELSE Cap(sock.spent + 1, CallLimit + WriteLimit)
  <2>1. text \in Nat /\ text <= sock.sinceText + 1
    BY <1>t, Limits DEF text, Cap, TextBound, Locals
  <2>2. echo \in Nat
    BY <1>t, EchoLimitType DEF echo, Cap, Locals
  <2>3. spent \in Nat
    BY <1>t, Limits DEF spent, Cap, Locals
  <2>4. Down(sock.pingIn) \in 0..1 /\ Down(sock.nonceIn) \in Nat
    BY <1>t DEF Down, Locals
  <2> HIDE DEF text, echo, spent
  <2>5. sock' = IF conn # "up" THEN sock
                ELSE [sock EXCEPT !.sinceText = text, !.sinceEcho = echo, !.pingIn = Down(@),
                                  !.nonceIn = Down(@), !.spent = spent]
    BY <1>17 DEF Tick, text, echo, spent
  <2>6. sock' \in Locals
    BY <1>t, <2>1, <2>2, <2>3, <2>4, <2>5 DEF Locals
  <2>7. wait' \in Nat /\ (conn = "down" => wait' <= MaxAttempt) /\ (conn = "connecting" => wait' <= ConnectLimit)
    BY <1>17, Limits DEF Tick, Urgent, Cap, LocalTypes
  <2>8. ASSUME conn = "up" PROVE Silence(sock')
    <3>1. /\ sock'.parked = sock.parked /\ sock'.sinceText = text
          /\ sock'.pingIn = Down(sock.pingIn) /\ sock'.spent = spent
      BY <1>t, <2>5, <2>8 DEF Locals
    <3>2. CASE sock.parked = "no"
      <4>1. sock.pingIn = 1 /\ sock'.pingIn = 0
        BY <1>17, <1>t, <2>8, <3>1, <3>2 DEF Tick, Urgent, Selecting, Locals, Down
      <4> QED
        BY <1>t, <2>1, <2>8, <3>1, <3>2, <4>1, Limits DEF SilenceBounded, Silence, Locals
    <3>3. CASE sock.parked = "call"
      <4>1. sock.spent < CallLimit
        BY <1>17, <1>t, <2>8, <3>3, Limits DEF Tick, Urgent, TimedOut, Locals
      <4>2. spent = sock.spent + 1
        BY <1>t, <3>3, <4>1, Limits DEF spent, Cap, Locals
      <4> QED
        BY <1>t, <2>1, <2>8, <3>1, <3>3, <4>1, <4>2, Limits DEF SilenceBounded, Silence, Locals
    <3>4. CASE sock.parked = "write"
      <4>1. sock.spent < WriteLimit
        BY <1>17, <1>t, <2>8, <3>4, Limits DEF Tick, Urgent, TimedOut, Locals
      <4>2. spent = sock.spent + 1
        BY <1>t, <3>4, <4>1, Limits DEF spent, Cap, Locals
      <4> QED
        BY <1>t, <2>1, <2>8, <3>1, <3>4, <4>1, <4>2, Limits DEF SilenceBounded, Silence, Locals
    <3> QED
      BY <1>t, <3>2, <3>3, <3>4 DEF Locals
  <2> QED
    BY <1>17, <2>6, <2>7, <2>8 DEF Tick, TypeOK, LocalTypes, SilenceBounded, Locals
<1>18. CASE UNCHANGED vars
  BY <1>18 DEF vars, TypeOK, LocalTypes, SilenceBounded
<1> QED
  BY <1>1, <1>2, <1>3, <1>4, <1>5, <1>6, <1>7, <1>8, <1>9, <1>10, <1>11, <1>12, <1>13, <1>14, <1>15,
     <1>16, <1>17, <1>18 DEF Next, Serve

\* A socket at whose far end nobody answers is ended within a bound of the limits alone, whatever
\* calls and writes stall on the way and whenever its far end died (serve_once, relay_is_silent,
\* within).
THEOREM DeadSocketIsEnded == Spec => []RelayInv
<1>1. IInv => RelayInv
  BY Limits DEF IInv, RelayInv, TypeOK, DeadSocketEnds, LocalTypes, SilenceBounded, Silence, Locals, TextBound
<1> QED
  BY <1>1, Initially, Step, PTL DEF Spec

\* What the ping's silence is made of: the pings that were not answered since the last TEXT, or, after a
\* call, the time it can have taken and then a ping; a pong that has arrived is read first.
PingsCounted(s, h, u) ==
    /\ s.parked = "no" /\ ~h.called =>
          \/ h.missed >= SilenceLimit
          \/ s.sinceText + s.pingIn <= h.missed + 1
          \/ "pong" \in u /\ (s.pingIn = 1 \/ s.sinceText = 0)
    /\ s.parked = "no" /\ h.called =>
          \/ h.missed >= 1
          \/ s.sinceText + s.pingIn <= SilenceLimit
          \/ "pong" \in u /\ s.pingIn = 1
    /\ s.parked = "call" => h.called /\ (s.spent # 0 => s.pingIn = 0)

\* What the nonce's silence is made of: a cadence, by now the longest of them, for each echo missed
\* and the one under way.
EchoesCounted(s, h, u) ==
    /\ s.nonceIn <= s.cadence
    /\ ~h.late /\ (s.parked = "no" \/ (s.parked = "call" /\ s.spent = 0)) =>
          \/ h.echoes >= Misses
          \/ s.sinceEcho + s.nonceIn <= (h.echoes + 1) * s.cadence
          \/ "echo" \in u /\ s.nonceIn # 0

\* A notice, and a word that can still become one, are about a socket the cloud does not hold.
WordKnows ==
    /\ rung => conn = "up" /\ far # "object"
    /\ word = "fresh" /\ conn = "up" => far # "object"

CauseInv ==
    /\ conn = "up" => PingsCounted(sock, hist, unread) /\ EchoesCounted(sock, hist, unread)
    /\ conn # "up" => hist = NewHist /\ unread = {}
    /\ WordKnows

LEMMA Products ==
    /\ \A n, c, d \in Nat : c <= d => n * c <= n * d
    /\ \A n, c \in Nat : (n + 2) * c = (n + 1) * c + c
    /\ \A c \in Nat : 1 * c = c
    /\ \A n, c \in Nat : n * c \in Nat
    /\ \A n, m, c \in Nat : n <= m => n * c <= m * c
  OBVIOUS

LEMMA FreshCause ==
    ASSUME NEW c \in Cadences, NEW u
    PROVE  PingsCounted(Opened(c), NewHist, u) /\ EchoesCounted(Opened(c), NewHist, u)
<1>1. c \in Nat /\ 1 * c = c
  BY Limits, Products
<1> QED
  BY <1>1, Limits DEF PingsCounted, EchoesCounted, Opened, NewHist

LEMMA CauseInitially == Init => CauseInv
  BY DEF Init, CauseInv, WordKnows

LEMMA CauseEnds == ASSUME IInv, NEW clean \in BOOLEAN, Ends(clean) PROVE CauseInv'
  BY DEF Ends, CauseInv, WordKnows

LEMMA CauseStep == IInv /\ CauseInv /\ [Next]_vars => CauseInv'
<1> SUFFICES ASSUME IInv, CauseInv, [Next]_vars PROVE CauseInv'
  OBVIOUS
<1>t. setting \in Cadences /\ sock \in Locals /\ hist \in Histories /\ setting \in Nat /\ setting # 0 /\ sock.cadence \in Nat
  BY RelayAssumption DEF IInv, TypeOK, LocalTypes, Locals
<1>0. SilenceLimit \in Nat \ {0}
  BY RelayAssumption
<1>1. CASE \E end \in {"object", "gone"} : Connect(end)
  BY <1>1 DEF Connect, CauseInv, WordKnows
<1>2. CASE Connected
  <2>1. /\ conn = "connecting" /\ conn' = "up" /\ sock' = Opened(setting) /\ word' # "fresh"
        /\ UNCHANGED <<far, unread, rung, setting, hist>>
    BY <1>2 DEF Connected
  <2>2. hist' = NewHist /\ unread' = {}
    BY <2>1 DEF CauseInv
  <2>3. PingsCounted(sock', hist', unread') /\ EchoesCounted(sock', hist', unread')
    BY <1>t, <2>1, <2>2, FreshCause
  <2> QED
    BY <2>1, <2>3 DEF CauseInv, WordKnows
<1>3. CASE ConnectFails
  BY <1>3, CauseEnds DEF ConnectFails
<1>4. CASE \E end \in {"edge", "gone"} : Lose(end)
  BY <1>4 DEF Lose, CauseInv, WordKnows
<1>5. CASE \E clean \in BOOLEAN : StreamEnds(clean)
  BY <1>5, CauseEnds DEF StreamEnds
<1>6. CASE WriteFails \/ PingTickSilent \/ NonceTickSilent \/ DropAtWord
  BY <1>6, CauseEnds DEF WriteFails, PingTickSilent, NonceTickSilent, DropAtWord
<1>7. CASE ReadPong
  <2>1. /\ conn = "up" /\ sock.parked = "no" /\ sock' = Read(sock) /\ unread' = unread \ {"pong"}
        /\ ~rung' /\ UNCHANGED <<conn, far, word>>
    BY <1>7 DEF ReadPong, Selecting
  <2>2. /\ hist'.missed = 0 /\ ~hist'.called /\ hist'.echoes = hist.echoes /\ (~hist'.late => ~hist.late)
        /\ "echo" \in unread => "echo" \in unread'
    BY <1>7, <1>t DEF ReadPong, Histories
  <2>3. /\ sock'.sinceText = 0 /\ sock'.pingIn = sock.pingIn /\ sock'.parked = "no"
        /\ sock'.sinceEcho = sock.sinceEcho /\ sock'.nonceIn = sock.nonceIn /\ sock'.cadence = sock.cadence
    BY <2>1, <1>t DEF Read, Locals
  <2>4. PingsCounted(sock', hist', unread')
    BY <2>1, <2>2, <2>3, <1>t, <1>0 DEF PingsCounted, Locals
  <2>5. EchoesCounted(sock', hist', unread')
    BY <2>1, <2>2, <2>3, Zenon DEF EchoesCounted, CauseInv
  <2> QED
    BY <2>1, <2>4, <2>5 DEF CauseInv, WordKnows
<1>8. CASE ReadEcho
  <2>1. /\ conn = "up" /\ sock.parked = "no" /\ sock' = Heard(Read(sock)) /\ hist' = NewHist
        /\ ~rung' /\ UNCHANGED <<conn, far, word>>
    BY <1>8 DEF ReadEcho, Selecting, Heard
  <2>2. Read(sock) \in Locals /\ Read(sock).sinceText = 0 /\ Read(sock).pingIn = sock.pingIn
        /\ Read(sock).nonceIn = sock.nonceIn /\ Read(sock).cadence = sock.cadence /\ Read(sock).parked = "no"
    BY <1>t, <2>1 DEF Read, Locals
  <2>3. /\ sock'.sinceText = 0 /\ sock'.pingIn = sock.pingIn /\ sock'.parked = "no"
        /\ sock'.sinceEcho = 0 /\ sock'.nonceIn = sock.nonceIn /\ sock'.cadence = sock.cadence
    BY <2>1, <2>2 DEF Heard, Locals
  <2>4. PingsCounted(sock', hist', unread')
    BY <2>1, <2>3, <1>t, <1>0 DEF PingsCounted, Locals, NewHist
  <2>5. sock.nonceIn <= sock.cadence /\ 1 * sock.cadence = sock.cadence /\ sock.nonceIn \in Nat
    BY <1>t, <2>1, Products DEF CauseInv, EchoesCounted, Locals
  <2>6. EchoesCounted(sock', hist', unread')
    BY <2>1, <2>3, <2>5, <1>t DEF EchoesCounted, NewHist
  <2> QED
    BY <2>1, <2>4, <2>6 DEF CauseInv, WordKnows
<1>9. CASE ReadCall
  <2>1. /\ conn = "up" /\ sock.parked = "no" /\ sock' = Parked(Read(sock), "call")
        /\ ~rung' /\ UNCHANGED <<conn, far, word, unread>>
    BY <1>9 DEF ReadCall, Selecting, Parked
  <2>2. /\ hist'.called /\ hist'.echoes = hist.echoes /\ (~hist'.late => ~hist.late)
    BY <1>9, <1>t DEF ReadCall, Histories
  <2>3. /\ sock'.parked = "call" /\ sock'.spent = 0
        /\ sock'.sinceEcho = sock.sinceEcho /\ sock'.nonceIn = sock.nonceIn /\ sock'.cadence = sock.cadence
    BY <2>1, <1>t DEF Read, Parked, Locals
  <2>4. PingsCounted(sock', hist', unread')
    BY <2>2, <2>3 DEF PingsCounted
  <2>5. EchoesCounted(sock', hist', unread')
    BY <2>1, <2>2, <2>3, Zenon DEF EchoesCounted, CauseInv
  <2> QED
    BY <2>1, <2>4, <2>5 DEF CauseInv, WordKnows
<1>10. CASE CallAnswered
  <2>1. /\ conn = "up" /\ sock.parked = "call" /\ sock' = Parked(sock, "no")
        /\ UNCHANGED <<conn, far, word, unread, rung>>
    BY <1>10 DEF CallAnswered, Parked
  <2>2. /\ hist'.called = hist.called /\ hist'.missed = hist.missed /\ hist'.echoes = hist.echoes
        /\ ~hist'.late => ~hist.late /\ sock.spent = 0
    <3> DEFINE late == hist.late \/ sock.spent > 0
    <3>1. hist' = [hist EXCEPT !.late = late]
      BY <1>10, Zenon DEF CallAnswered
    <3>2. ~late => ~hist.late /\ sock.spent = 0
      <4>1. sock.spent \in Nat
        BY <1>t DEF Locals
      <4>2. ~(sock.spent > 0) => sock.spent = 0
        BY <4>1
      <4> QED
        BY <4>2, Zenon
    <3> HIDE DEF late
    <3>3. /\ hist'.called = hist.called /\ hist'.missed = hist.missed /\ hist'.echoes = hist.echoes
          /\ hist'.late = late
      BY <3>1, <1>t DEF Histories
    <3> QED
      BY <3>2, <3>3, Zenon
  <2>3. /\ sock'.parked = "no" /\ sock'.sinceText = sock.sinceText /\ sock'.pingIn = sock.pingIn
        /\ sock'.sinceEcho = sock.sinceEcho /\ sock'.nonceIn = sock.nonceIn /\ sock'.cadence = sock.cadence
    BY <2>1, <1>t DEF Parked, Locals
  <2>4. PingsCounted(sock', hist', unread')
    <3>1. hist.called /\ (sock.spent # 0 => sock.pingIn = 0)
      BY <2>1 DEF CauseInv, PingsCounted
    <3>2. sock.sinceText <= sock.spent /\ sock.spent <= CallLimit
      BY <2>1 DEF IInv, SilenceBounded, Silence
    <3>3. sock.sinceText + sock.pingIn <= SilenceLimit
      BY <3>1, <3>2, <1>t, <1>0, Limits DEF Locals
    <3> QED
      BY <2>2, <2>3, <3>1, <3>3 DEF PingsCounted
  <2>5. EchoesCounted(sock', hist', unread')
    <3> QED
      BY <2>1, <2>2, <2>3, Zenon DEF EchoesCounted, CauseInv
  <2> QED
    BY <2>1, <2>4, <2>5 DEF CauseInv, WordKnows
<1>11. CASE WriteStalls
  <2>1. /\ conn = "up" /\ sock' = [Opened(setting) EXCEPT !.parked = "write", !.sinceText = sock.sinceText]
        /\ ~rung' /\ UNCHANGED <<conn, far, word>>
    BY <1>11 DEF WriteStalls
  <2>2. sock'.parked = "write" /\ sock'.nonceIn = setting /\ sock'.cadence = setting
    BY <2>1 DEF Opened
  <2>3. PingsCounted(sock', hist', unread') /\ EchoesCounted(sock', hist', unread')
    BY <1>t, <2>2 DEF PingsCounted, EchoesCounted
  <2> QED
    BY <2>1, <2>3 DEF CauseInv, WordKnows
<1>12. CASE \E answered \in BOOLEAN : PingTick(answered)
  <2>1. PICK answered \in BOOLEAN : PingTick(answered)
    BY <1>12
  <2>2. /\ conn = "up" /\ sock.parked = "no" /\ sock.pingIn = 0 /\ sock.sinceText <= SilenceLimit
        /\ sock' = [sock EXCEPT !.pingIn = 1]
        /\ unread' = IF answered THEN unread \union {"pong"} ELSE unread
        /\ hist' = IF answered THEN hist ELSE [hist EXCEPT !.missed = Cap(@ + 1, SilenceLimit)]
        /\ ~rung' /\ UNCHANGED <<conn, far, word>>
    BY <2>1, <1>t, <1>0 DEF PingTick, Selecting, RelayIsSilent, Locals
  <2>3. /\ sock'.parked = "no" /\ sock'.sinceText = sock.sinceText /\ sock'.pingIn = 1
        /\ sock'.sinceEcho = sock.sinceEcho /\ sock'.nonceIn = sock.nonceIn /\ sock'.cadence = sock.cadence
    BY <2>2, <1>t DEF Locals
  <2>4. hist'.called = hist.called /\ hist'.echoes = hist.echoes /\ (~hist'.late => ~hist.late)
    BY <2>2, <1>t DEF Histories
  <2>5. PingsCounted(sock', hist', unread')
    <3>1. CASE answered
      BY <3>1, <2>2, <2>3 DEF PingsCounted
    <3>2. CASE ~answered
      <4>1. hist'.missed = Cap(hist.missed + 1, SilenceLimit)
        BY <3>2, <2>2, <1>t DEF Histories
      <4>2. hist.missed \in Nat /\ sock.sinceText \in Nat
        BY <1>t DEF Histories, Locals
      <4>3. hist'.missed >= SilenceLimit \/ hist'.missed = hist.missed + 1
        BY <4>1, <4>2, <1>0 DEF Cap
      <4>4. \/ hist.called
            \/ hist.missed >= SilenceLimit
            \/ sock.sinceText <= hist.missed + 1
        BY <2>2, <4>2, <1>0 DEF CauseInv, PingsCounted
      <4>5. hist'.missed \in Nat
        BY <4>1, <4>2, <1>0 DEF Cap
      <4>6. hist'.missed >= 1
        BY <4>2, <4>3, <4>5, <1>0
      <4>7. hist.missed >= SilenceLimit => hist'.missed >= SilenceLimit
        BY <4>1, <4>2, <1>0 DEF Cap
      <4> QED
        BY <2>3, <2>4, <4>2, <4>3, <4>4, <4>5, <4>6, <4>7, <1>0 DEF PingsCounted
    <3> QED
      BY <3>1, <3>2
  <2>6. EchoesCounted(sock', hist', unread')
    <3>1. "echo" \in unread => "echo" \in unread'
      BY <2>2
    <3> QED
      BY <2>2, <2>3, <2>4, <3>1, Zenon DEF EchoesCounted, CauseInv
  <2> QED
    BY <2>2, <2>5, <2>6 DEF CauseInv, WordKnows
<1>13. CASE \E answered \in BOOLEAN : NonceTick(answered)
  <2>1. PICK answered \in BOOLEAN : NonceTick(answered)
    BY <1>13
  <2>2. /\ conn = "up" /\ sock.parked = "no" /\ sock.nonceIn = 0
        /\ sock' = [sock EXCEPT !.cadence = setting, !.nonceIn = setting]
        /\ unread' = IF answered THEN unread \union {"echo"} ELSE unread \ {"echo"}
        /\ hist' = [hist EXCEPT !.echoes = IF answered THEN @ ELSE Cap(@ + 1, Misses),
                                !.late = @ \/ setting < sock.cadence]
        /\ ~rung' /\ UNCHANGED <<conn, far, word>>
    BY <2>1 DEF NonceTick, Selecting
  <2>3. /\ sock'.parked = "no" /\ sock'.sinceText = sock.sinceText /\ sock'.pingIn = sock.pingIn
        /\ sock'.sinceEcho = sock.sinceEcho /\ sock'.nonceIn = setting /\ sock'.cadence = setting
    BY <2>2, <1>t DEF Locals
  <2>4. /\ hist'.called = hist.called /\ hist'.missed = hist.missed
        /\ hist'.echoes = (IF answered THEN hist.echoes ELSE Cap(hist.echoes + 1, Misses))
        /\ ~hist'.late => ~hist.late /\ ~(setting < sock.cadence)
    BY <2>2, <1>t DEF Histories
  <2>5. PingsCounted(sock', hist', unread')
    <3>1. "pong" \in unread => "pong" \in unread'
      BY <2>2
    <3> QED
      BY <2>2, <2>3, <2>4, <3>1, Zenon DEF PingsCounted, CauseInv
  <2>6. EchoesCounted(sock', hist', unread')
    <3>1. CASE answered
      BY <3>1, <2>2, <2>3, <1>t DEF EchoesCounted
    <3>2. CASE ~answered /\ ~hist'.late
      <4>1. hist.echoes \in Nat /\ sock.sinceEcho \in Nat /\ Misses \in Nat
        BY <1>t, Limits DEF Histories, Locals
      <4>2. ~hist.late /\ sock.cadence <= setting
        BY <3>2, <2>4, <1>t
      <4>3. hist.echoes >= Misses \/ sock.sinceEcho <= (hist.echoes + 1) * sock.cadence
        <5>1. hist.echoes >= Misses \/ sock.sinceEcho + sock.nonceIn <= (hist.echoes + 1) * sock.cadence
          BY <4>2, <2>2, Zenon DEF CauseInv, EchoesCounted
        <5>2. sock.sinceEcho + sock.nonceIn = sock.sinceEcho
          BY <2>2, <4>1
        <5> QED
          BY <5>1, <5>2
      <4>4. (hist.echoes + 1) * sock.cadence <= (hist.echoes + 1) * setting
        BY <4>1, <4>2, <1>t, Products
      <4>5. (hist.echoes + 2) * setting = (hist.echoes + 1) * setting + setting
        BY <4>1, <1>t, Products
      <4>8. hist'.echoes = Cap(hist.echoes + 1, Misses)
        BY <3>2, <2>4, Zenon
      <4>6. hist'.echoes >= Misses \/ (hist'.echoes = hist.echoes + 1 /\ hist.echoes < Misses)
        BY <4>1, <4>8 DEF Cap
      <4>7. hist'.echoes >= Misses \/ sock.sinceEcho + setting <= (hist'.echoes + 1) * setting
        <5>1. CASE hist'.echoes >= Misses
          BY <5>1
        <5>2. CASE hist'.echoes = hist.echoes + 1 /\ hist.echoes < Misses
          <6>1. sock.sinceEcho <= (hist.echoes + 1) * sock.cadence
            BY <5>2, <4>1, <4>3
          <6>2. hist'.echoes + 1 = hist.echoes + 2
            BY <5>2, <4>1
          <6> DEFINE p == (hist.echoes + 1) * sock.cadence
                     q == (hist.echoes + 1) * setting
          <6>3. p \in Nat /\ q \in Nat
            BY <4>1, <1>t, Products
          <6>4. sock.sinceEcho <= p /\ p <= q /\ (hist.echoes + 2) * setting = q + setting
            BY <6>1, <4>4, <4>5
          <6> HIDE DEF p, q
          <6>5. sock.sinceEcho + setting <= q + setting
            BY <6>3, <6>4, <4>1, <1>t
          <6> QED
            BY <6>2, <6>4, <6>5
        <5> QED
          BY <4>6, <5>1, <5>2
      <4> QED
        BY <2>3, <4>7, <1>t DEF EchoesCounted
    <3>3. CASE hist'.late
      BY <3>3, <2>3, <1>t DEF EchoesCounted
    <3> QED
      BY <3>1, <3>2, <3>3
  <2> QED
    BY <2>2, <2>5, <2>6 DEF CauseInv, WordKnows
<1>14. CASE CheckIn
  BY <1>14 DEF CheckIn, CauseInv, WordKnows
<1>15. CASE CheckInHandled
  BY <1>15 DEF CheckInHandled, ShouldDropRelay, NotifyWaiters, Selecting, CauseInv, WordKnows
<1>16. CASE \E cadence \in Cadences : ChangeCadence(cadence)
  BY <1>16 DEF ChangeCadence, CauseInv, WordKnows
<1>17. CASE Tick
  <2>1. CASE conn # "up"
    BY <1>17, <2>1 DEF Tick, CauseInv, WordKnows
  <2>2. CASE conn = "up"
    <3>1. UNCHANGED <<conn, far, unread, rung, setting, word, hist>>
      BY <1>17 DEF Tick
    <3> DEFINE text == Cap(sock.sinceText + 1, TextBound + 1)
               echo == IF sock.echoed THEN Cap(sock.sinceEcho + 1, EchoLimit + 1) ELSE 0
               spent == IF sock.parked = "no" THEN 0 ELSE Cap(sock.spent + 1, CallLimit + WriteLimit)
    <3>2. text \in Nat /\ text <= sock.sinceText + 1
      BY <1>t, Limits DEF text, Cap, TextBound, Locals
    <3>3. echo \in Nat /\ echo <= sock.sinceEcho + 1
      BY <1>t, EchoLimitType DEF echo, Cap, Locals
    <3>4. sock.parked = "call" => spent # 0
      <4>1. ASSUME sock.parked = "call" PROVE sock.spent < CallLimit
        BY <1>17, <1>t, <2>2, <4>1, Limits DEF Tick, Urgent, TimedOut, Locals
      <4> QED
        BY <4>1, <1>t, Limits DEF spent, Cap, Locals
    <3> HIDE DEF text, echo, spent
    <3>5. sock' = [sock EXCEPT !.sinceText = text, !.sinceEcho = echo, !.pingIn = Down(@),
                               !.nonceIn = Down(@), !.spent = spent]
      BY <1>17, <2>2 DEF Tick, text, echo, spent
    <3>6. /\ sock'.parked = sock.parked /\ sock'.sinceText = text /\ sock'.pingIn = Down(sock.pingIn)
          /\ sock'.sinceEcho = echo /\ sock'.nonceIn = Down(sock.nonceIn) /\ sock'.cadence = sock.cadence
          /\ sock'.spent = spent
      BY <3>5, <1>t DEF Locals
    <3>7. sock.parked = "no" => unread = {} /\ sock.pingIn = 1 /\ sock.nonceIn # 0
      BY <1>17, <2>2, <1>t DEF Tick, Urgent, Selecting, Locals
    <3>8. /\ Down(1) = 0 /\ (sock.pingIn \in 0..1 => Down(sock.pingIn) = 0)
          /\ sock.nonceIn \in Nat /\ Down(sock.nonceIn) <= sock.nonceIn /\ Down(sock.nonceIn) \in Nat
          /\ (sock.nonceIn # 0 => Down(sock.nonceIn) + 1 = sock.nonceIn)
      BY <1>t DEF Down, Locals
    <3>9. PingsCounted(sock', hist', unread')
      <4>1. CASE sock.parked = "no"
        <5>1. sock.sinceText + sock.pingIn = sock.sinceText + 1 /\ sock'.sinceText + sock'.pingIn = text
          BY <3>2, <3>6, <3>7, <3>8, <4>1
        <5>2. /\ ~hist.called => hist.missed >= SilenceLimit \/ sock.sinceText + 1 <= hist.missed + 1
              /\ hist.called => hist.missed >= 1 \/ sock.sinceText + 1 <= SilenceLimit
          BY <2>2, <3>7, <4>1, <5>1 DEF CauseInv, PingsCounted
        <5>3. hist.missed \in Nat /\ sock.sinceText \in Nat
          BY <1>t DEF Histories, Locals
        <5>4. /\ ~hist.called => hist.missed >= SilenceLimit \/ text <= hist.missed + 1
              /\ hist.called => hist.missed >= 1 \/ text <= SilenceLimit
          BY <5>2, <5>3, <3>2, <1>0
        <5> QED
          BY <3>1, <3>6, <4>1, <5>1, <5>4 DEF PingsCounted
      <4>2. CASE sock.parked = "call"
        BY <2>2, <3>1, <3>6, <3>8, <4>2, <1>t DEF CauseInv, PingsCounted, Locals
      <4>3. CASE sock.parked = "write"
        BY <3>6, <4>3 DEF PingsCounted
      <4> QED
        BY <4>1, <4>2, <4>3, <1>t DEF Locals
    <3>10. EchoesCounted(sock', hist', unread')
      <4>0. sock'.nonceIn <= sock'.cadence
        BY <2>2, <3>6, <3>8, <1>t DEF CauseInv, EchoesCounted
      <4>1. CASE sock.parked = "no"
        <5> DEFINE p == (hist.echoes + 1) * sock.cadence
        <5>0. p \in Nat
          BY <1>t, Products DEF Histories
        <5>1. ~hist.late => hist.echoes >= Misses \/ sock.sinceEcho + sock.nonceIn <= p
          BY <2>2, <3>7, <4>1, Zenon DEF CauseInv, EchoesCounted
        <5> HIDE DEF p
        <5>2. echo + Down(sock.nonceIn) <= sock.sinceEcho + sock.nonceIn
          BY <3>3, <3>7, <3>8, <4>1, <1>t DEF Locals
        <5>3. ~hist.late => hist.echoes >= Misses \/ echo + Down(sock.nonceIn) <= p
          BY <5>0, <5>1, <5>2, <3>3, <3>8, <1>t DEF Locals
        <5> QED
          BY <3>1, <3>6, <4>0, <4>1, <5>3 DEF EchoesCounted, p
      <4>2. CASE sock.parked # "no"
        BY <3>4, <3>6, <4>0, <4>2 DEF EchoesCounted
      <4> QED
        BY <4>1, <4>2
    <3> QED
      BY <2>2, <3>1, <3>9, <3>10 DEF CauseInv, WordKnows
  <2> QED
    BY <2>1, <2>2
<1>18. CASE UNCHANGED vars
  BY <1>18 DEF vars, CauseInv, WordKnows
<1> QED
  BY <1>1, <1>2, <1>3, <1>4, <1>5, <1>6, <1>7, <1>8, <1>9, <1>10, <1>11, <1>12, <1>13, <1>14, <1>15,
     <1>16, <1>17, <1>18 DEF Next, Serve

\* A socket that ends at a ping, at a nonce or at the cloud's word ends for that cause alone: so many
\* pings or echoes were really missed, and the cloud does not hold it (serve_once, relay_is_silent,
\* nonce_is_silent, post_batch).
THEOREM SocketEndsForCause == Spec => EndedForCause
<1>1. ASSUME IInv, CauseInv, PingTickSilent
      PROVE  hist.missed >= IF hist.called THEN 1 ELSE SilenceLimit
  <2>1. conn = "up" /\ sock.parked = "no" /\ sock.pingIn = 0 /\ sock.sinceText > SilenceLimit
    BY <1>1 DEF PingTickSilent, Selecting, RelayIsSilent
  <2>2. sock.sinceText \in Nat /\ hist.missed \in Nat /\ SilenceLimit \in Nat \ {0}
    BY <1>1, RelayAssumption DEF IInv, LocalTypes, Locals, Histories
  <2> QED
    BY <1>1, <2>1, <2>2 DEF CauseInv, PingsCounted
<1>2. ASSUME IInv, CauseInv, NonceTickSilent, ~hist.late, setting >= sock.cadence
      PROVE  hist.echoes >= Misses
  <2>1. conn = "up" /\ sock.parked = "no" /\ sock.nonceIn = 0 /\ sock.sinceEcho > Misses * setting
    BY <1>2 DEF NonceTickSilent, Selecting, NonceIsSilent
  <2>2. /\ sock.sinceEcho \in Nat /\ hist.echoes \in Nat /\ Misses \in Nat
        /\ setting \in Nat /\ sock.cadence \in Nat
    BY <1>2, Limits DEF IInv, TypeOK, LocalTypes, Locals, Histories
  <2>3. hist.echoes >= Misses \/ sock.sinceEcho <= (hist.echoes + 1) * sock.cadence
    <3>1. hist.echoes >= Misses \/ sock.sinceEcho + sock.nonceIn <= (hist.echoes + 1) * sock.cadence
      BY <1>2, <2>1, Zenon DEF CauseInv, EchoesCounted
    <3>2. sock.sinceEcho + sock.nonceIn = sock.sinceEcho
      BY <2>1, <2>2
    <3> QED
      BY <3>1, <3>2
  <2>4. SUFFICES ASSUME hist.echoes < Misses PROVE FALSE
    BY <2>2
  <2>5. (hist.echoes + 1) * sock.cadence <= (hist.echoes + 1) * setting
    BY <1>2, <2>2, Products
  <2>6. (hist.echoes + 1) * setting <= Misses * setting
    BY <2>2, <2>4, Products
  <2> DEFINE p == (hist.echoes + 1) * sock.cadence
             q == (hist.echoes + 1) * setting
             r == Misses * setting
  <2>7. p \in Nat /\ q \in Nat /\ r \in Nat
    BY <2>2, Products
  <2>8. sock.sinceEcho <= p /\ p <= q /\ q <= r /\ sock.sinceEcho > r
    BY <2>1, <2>2, <2>3, <2>4, <2>5, <2>6
  <2> HIDE DEF p, q, r
  <2> QED
    BY <2>2, <2>7, <2>8
<1>3. ASSUME CauseInv, DropAtWord PROVE far # "object"
  BY <1>3 DEF CauseInv, WordKnows, DropAtWord
<1>4. IInv /\ CauseInv /\ [Next]_vars =>
        [/\ PingTickSilent => hist.missed >= IF hist.called THEN 1 ELSE SilenceLimit
         /\ NonceTickSilent /\ ~hist.late /\ setting >= sock.cadence => hist.echoes >= Misses
         /\ DropAtWord => far # "object"]_vars
  BY <1>1, <1>2, <1>3
<1> QED
  BY <1>4, Initially, Step, CauseInitially, CauseStep, PTL DEF Spec, EndedForCause

-----------------------------------------------------------------------------
(* The reports of the sensors *)

\* What the task of a report is at, and what the account of the reports is made of.
Places == {"closing", "forward", "due", "held", "queued"}
Accounts ==
    [value: Levels \union {NoValue}, given: SUBSET Nat, shed: SUBSET Nat, refused: SUBSET Nat, queued: Seq(Nat)]

TelemetryTyped ==
    /\ reports \in Seq(Reports) /\ task \in Seq(Places) /\ Len(task) = Len(reports)
    /\ queue \in Seq(Nat) /\ hand \in Nat
    /\ deltaGate \in [last: Levels \union {NoValue}, dir: {-1, 0, 1}]
    /\ newest \in Levels \union {NoValue}
    /\ keyframe \in [open: BOOLEAN, taken: BOOLEAN, value: Levels \union {NoValue}]
    /\ account \in Accounts
    /\ fails \in Nat

WasQueued(n) == \E i \in DOMAIN account.queued : account.queued[i] = n

Waits(n) == (hand # NoReport /\ n = hand) \/ \E k \in DOMAIN queue : queue[k] = n

\* A report is queued once, by its own task.
QueuedOnce ==
    /\ \A i \in DOMAIN account.queued : account.queued[i] \in DOMAIN task /\ task[account.queued[i]] = "queued"
    /\ \A i, j \in DOMAIN account.queued : account.queued[i] = account.queued[j] => i = j

\* What was queued waits or has left, and nothing does both or either without.
WaitsOrLeft ==
    /\ \A i \in DOMAIN account.queued : Left(account.queued[i]) \/ Waits(account.queued[i])
    /\ \A n \in Nat : Left(n) => WasQueued(n) /\ ~Waits(n)
    /\ \A n \in Nat : Waits(n) => WasQueued(n)

\* The one in hand was queued before those in the queue, and these are in the order they were queued in.
InOrder ==
    \A i, j \in DOMAIN account.queued :
        /\ \A l \in DOMAIN queue : hand # NoReport /\ account.queued[i] = hand /\ queue[l] = account.queued[j] => i < j
        /\ \A k, l \in DOMAIN queue : k < l /\ queue[k] = account.queued[i] /\ queue[l] = account.queued[j] => i < j

\* There is room for the one in hand to go back.
RoomToGoBack == Len(queue) <= QueueCap + 1 /\ (hand # NoReport => Len(queue) <= QueueCap)

Line == QueuedOnce /\ WaitsOrLeft /\ InOrder /\ RoomToGoBack /\ FirstInFirstOut

TelemetryIInv == TelemetryTyped /\ Line

-----------------------------------------------------------------------------

\* A set of numbers has a least one.
LEMMA Least == ASSUME NEW T, T \subseteq Nat, T # {} PROVE \E x \in T : \A y \in T : x <= y
<1> DEFINE R == OpToRel(<, Nat)
<1>1. IsWellFoundedOn(R, Nat)
  BY NatLessThanWellFounded
<1>2. ASSUME NEW x \in Nat, NEW y \in Nat, y < x PROVE <<y, x>> \in R
  BY <1>2 DEF OpToRel
<1> HIDE DEF R
<1>3. \E x \in T : \A y \in T : ~(<<y, x>> \in R)
  BY <1>1, WFMin, Zenon
<1>4. \A x, y \in T : y < x => <<y, x>> \in R
  BY <1>2
<1>5. \A x, y \in T : x <= y \/ y < x
  OBVIOUS
<1> QED
  BY <1>3, <1>4, <1>5, Zenon

\* What is left of a queue when one is taken out.
LEMMA Removed ==
    ASSUME NEW q \in Seq(Nat), NEW v \in DOMAIN q
    PROVE  /\ RemoveAt(q, v) \in Seq(Nat) /\ Len(RemoveAt(q, v)) = Len(q) - 1
           /\ \A k \in 1 .. Len(q) - 1 : RemoveAt(q, v)[k] = IF k < v THEN q[k] ELSE q[k + 1]
<1> DEFINE a == SubSeq(q, 1, v - 1)
           b == SubSeq(q, v + 1, Len(q))
<1>1. a \in Seq(Nat) /\ Len(a) = v - 1 /\ \A k \in 1 .. v - 1 : a[k] = q[k]
  OBVIOUS
<1>2. b \in Seq(Nat) /\ Len(b) = Len(q) - v /\ \A k \in 1 .. Len(q) - v : b[k] = q[v + k]
  OBVIOUS
<1>3. RemoveAt(q, v) = a \o b
  BY DEF RemoveAt
<1> HIDE DEF a, b
<1>4. v \in Nat /\ v >= 1 /\ v <= Len(q) /\ Len(q) \in Nat
  OBVIOUS
<1>5. a \o b \in Seq(Nat) /\ Len(a \o b) = Len(q) - 1
  BY <1>1, <1>2, <1>4
<1>6. \A k \in 1 .. Len(q) - 1 : (a \o b)[k] = IF k <= v - 1 THEN a[k] ELSE b[k - (v - 1)]
  <2>1. \A k \in 1 .. Len(a) + Len(b) : (a \o b)[k] = IF k <= Len(a) THEN a[k] ELSE b[k - Len(a)]
    BY <1>1, <1>2, ConcatProperties
  <2>2. Len(a) = v - 1 /\ Len(a) + Len(b) = Len(q) - 1
    BY <1>1, <1>2, <1>4
  <2> QED
    BY <2>1, <2>2
<1>7. RemoveAt(q, v) \in Seq(Nat) /\ Len(RemoveAt(q, v)) = Len(q) - 1
  BY <1>3, <1>5
<1>8. ASSUME NEW k \in 1 .. Len(q) - 1 PROVE RemoveAt(q, v)[k] = IF k < v THEN q[k] ELSE q[k + 1]
  <2>1. CASE k < v
    <3>1. k \in 1 .. v - 1 /\ k <= v - 1
      BY <2>1, <1>4
    <3> QED
      BY <2>1, <3>1, <1>1, <1>3, <1>6
  <2>2. CASE k >= v
    <3>1. k - (v - 1) \in 1 .. Len(q) - v /\ v + (k - (v - 1)) = k + 1
      BY <2>2, <1>4
    <3>2. ~(k <= v - 1) /\ ~(k < v)
      BY <2>2, <1>4
    <3>3. b[k - (v - 1)] = q[v + (k - (v - 1))]
      BY <3>1, <1>2
    <3> QED
      BY <3>1, <3>2, <3>3, <1>3, <1>6
  <2> QED
    BY <2>1, <2>2, <1>4
<1> QED
  BY <1>7, <1>8

\* The victim is one of the queue, and an alarm only if all of it are.
LEMMA VictimIs ==
    ASSUME NEW q \in Seq(Nat), q # <<>>
    PROVE  /\ Victim(q) \in DOMAIN q
           /\ reports[q[Victim(q)]].kind = "alarm" => \A i \in DOMAIN q : reports[q[i]].kind = "alarm"
<1> DEFINE others == {i \in DOMAIN q : reports[q[i]].kind # "alarm"}
<1>1. Victim(q) = IF others = {} THEN 1 ELSE CHOOSE i \in others : \A j \in others : i <= j
  BY DEF Victim
<1>2. DOMAIN q = 1 .. Len(q) /\ 1 \in DOMAIN q /\ others \subseteq Nat /\ others \subseteq DOMAIN q
  OBVIOUS
<1>3. CASE others = {}
  BY <1>1, <1>2, <1>3
<1>4. CASE others # {}
  <2>1. \E i \in others : \A j \in others : i <= j
    BY <1>2, <1>4, Least
  <2>2. Victim(q) \in others
    BY <1>1, <1>4, <2>1
  <2> QED
    BY <1>2, <2>2
<1> QED
  BY <1>3, <1>4

LEMMA TelemetryInitially == TelemetryInit => TelemetryIInv
<1> SUFFICES ASSUME TelemetryInit PROVE TelemetryIInv
  OBVIOUS
<1>1. TelemetryTyped
  BY DEF TelemetryInit, TelemetryTyped, NoKeyframe, NoValue, NoReport, Accounts
<1>2. Line
  BY TelemetryAssumption DEF TelemetryInit, Line, QueuedOnce, WaitsOrLeft, InOrder, RoomToGoBack, FirstInFirstOut, Left, Waits, WasQueued, NoReport
<1> QED
  BY <1>1, <1>2 DEF TelemetryIInv

\* What touches neither queue nor account leaves the line.
LEMMA SameLine ==
    ASSUME Line, queue' = queue, hand' = hand,
           account'.queued = account.queued, account'.given = account.given,
           account'.shed = account.shed, account'.refused = account.refused,
           \A n \in DOMAIN task : task[n] = "queued" => n \in DOMAIN task' /\ task'[n] = "queued"
    PROVE  Line'
<1>1. QueuedOnce'
  BY DEF Line, QueuedOnce
<1>2. \A n : (Left(n)' <=> Left(n)) /\ (Waits(n)' <=> Waits(n)) /\ (WasQueued(n)' <=> WasQueued(n))
  BY DEF Left, Waits, WasQueued
<1>3. WaitsOrLeft'
  BY <1>2 DEF Line, WaitsOrLeft
<1>4. InOrder' /\ RoomToGoBack'
  BY DEF Line, InOrder, RoomToGoBack
<1>5. FirstInFirstOut'
  BY <1>2 DEF Line, FirstInFirstOut
<1> QED
  BY <1>1, <1>3, <1>4, <1>5 DEF Line

LEMMA EnqueueIs ==
    ASSUME TelemetryIInv, NEW n \in DOMAIN task, Enqueue(n)
    PROVE  LET q == Append(queue, n)
               x == q[Victim(q)] IN
           /\ queue \in Seq(Nat) /\ account.queued \in Seq(Nat) /\ n \in Nat /\ n # NoReport
           /\ QueueCap \in Nat /\ QueueCap >= 1
           /\ task' = [task EXCEPT ![n] = "queued"] /\ task[n] = "due" /\ hand' = hand
           /\ account'.queued = Append(account.queued, n)
           /\ Fits(q) \/ account'.shed = account.shed \union {x}
<1> USE DEF TelemetryIInv
<1> DEFINE q == Append(queue, n)
           x == q[Victim(q)]
<1>1. queue \in Seq(Nat) /\ account \in Accounts /\ task \in Seq(Places)
  BY DEF TelemetryTyped
<1>2. account.queued \in Seq(Nat)
  BY <1>1 DEF Accounts
<1>3. n \in Nat /\ n # NoReport
  <2>1. DOMAIN task = 1 .. Len(task) /\ Len(task) \in Nat
    BY <1>1
  <2> QED
    BY <2>1 DEF NoReport
<1>4. QueueCap \in Nat /\ QueueCap >= 1
  BY TelemetryAssumption
<1>5. task' = [task EXCEPT ![n] = "queued"] /\ task[n] = "due" /\ hand' = hand
  BY DEF Enqueue, At
<1>6. CASE Fits(q)
  <2>1. account' = [account EXCEPT !.queued = Append(account.queued, n)]
    BY <1>6 DEF Enqueue
  <2>2. account'.queued = Append(account.queued, n)
    BY <1>1, <2>1 DEF Accounts
  <2> QED
    BY <1>1, <1>2, <1>3, <1>4, <1>5, <1>6, <2>2
<1>7. CASE ~Fits(q)
  <2>1. account' = [account EXCEPT !.queued = Append(account.queued, n), !.shed = account.shed \union {x}]
    BY <1>7 DEF Enqueue
  <2> HIDE DEF x
  <2>2. account'.queued = Append(account.queued, n) /\ account'.shed = account.shed \union {x}
    BY <1>1, <2>1 DEF Accounts
  <2> QED
    BY <1>1, <1>2, <1>3, <1>4, <1>5, <2>2 DEF x
<1> QED
  BY <1>6, <1>7

\* The report goes to the end of the line, and one may be taken out of it.
LEMMA EnqueueLine ==
    ASSUME TelemetryIInv, NEW n \in DOMAIN task, Enqueue(n)
    PROVE  Line' /\ queue' \in Seq(Nat) /\ account' \in Accounts
<1> DEFINE Q == Append(account.queued, n)
           q == Append(queue, n)
           v == Victim(q)
           D == IF Fits(q) THEN {} ELSE {q[v]}
<1> USE DEF TelemetryIInv
<1>1. /\ queue \in Seq(Nat) /\ account.queued \in Seq(Nat) /\ n \in Nat /\ n # NoReport /\ QueueCap \in Nat /\ QueueCap >= 1
      /\ task' = [task EXCEPT ![n] = "queued"] /\ task[n] = "due" /\ hand' = hand
  BY EnqueueIs
<1>2. /\ q \in Seq(Nat) /\ Len(q) = Len(queue) + 1 /\ q # <<>> /\ Len(queue) \in Nat
      /\ DOMAIN q = 1 .. Len(queue) + 1 /\ DOMAIN queue = 1 .. Len(queue)
      /\ \A k \in DOMAIN queue : q[k] = queue[k]
      /\ q[Len(queue) + 1] = n
  BY <1>1
<1>3. /\ Q \in Seq(Nat) /\ Len(Q) = Len(account.queued) + 1 /\ Len(account.queued) \in Nat
      /\ DOMAIN Q = 1 .. Len(account.queued) + 1 /\ DOMAIN account.queued = 1 .. Len(account.queued)
      /\ \A i \in DOMAIN account.queued : Q[i] = account.queued[i]
      /\ Q[Len(account.queued) + 1] = n
  BY <1>1
<1>4. ~WasQueued(n) /\ ~Waits(n) /\ ~Left(n)
  BY <1>1 DEF Line, QueuedOnce, WaitsOrLeft, WasQueued
<1>5. v \in DOMAIN q
  BY <1>2, VictimIs
<1>6. /\ Fits(q) => queue' = q /\ account' = [account EXCEPT !.queued = Q]
      /\ ~Fits(q) => queue' = RemoveAt(q, v) /\ account' = [account EXCEPT !.queued = Q, !.shed = account.shed \union {q[v]}]
  BY DEF Enqueue
<1>7. /\ RemoveAt(q, v) \in Seq(Nat) /\ Len(RemoveAt(q, v)) = Len(q) - 1
      /\ \A k \in 1 .. Len(q) - 1 : RemoveAt(q, v)[k] = IF k < v THEN q[k] ELSE q[k + 1]
  BY <1>2, <1>5, Removed
<1>8. q[v] \in Nat /\ v \in Nat /\ v >= 1 /\ v <= Len(q) /\ Len(q) \in Nat /\ Len(q) >= 1
  BY <1>2, <1>5
<1> DEFINE R == RemoveAt(q, v)
           x == q[v]
<1>9. /\ R \in Seq(Nat) /\ Len(R) = Len(q) - 1 /\ DOMAIN R = 1 .. Len(q) - 1
      /\ \A k \in DOMAIN R : R[k] = IF k < v THEN q[k] ELSE q[k + 1]
  <2> HIDE DEF q, v
  <2> QED
    BY <1>7, <1>8
<1> HIDE DEF q, Q, v
<1>10. D = (IF Fits(q) THEN {} ELSE {x}) /\ (Fits(q) => queue' = q) /\ (~Fits(q) => queue' = R)
  BY <1>6
<1> HIDE DEF R, x
<1>11. \/ account' = [account EXCEPT !.queued = Q] /\ D = {}
       \/ account' = [account EXCEPT !.queued = Q, !.shed = account.shed \union {x}] /\ D = {x}
  BY <1>6 DEF x
<1> HIDE DEF D
<1>12. /\ account'.queued = Q /\ account'.given = account.given /\ account'.refused = account.refused
       /\ account'.shed = account.shed \union D
  BY <1>11 DEF TelemetryTyped, Accounts
<1>13. account' \in Accounts
  BY <1>11, <1>3, <1>8 DEF TelemetryTyped, Accounts, x
<1> DEFINE back == Len(queue) + 1
           end == Len(account.queued) + 1
<1>14. /\ DOMAIN q = DOMAIN queue \union {back} /\ back \notin DOMAIN queue /\ q[back] = n /\ DOMAIN q \subseteq Nat
       /\ \A k \in DOMAIN queue : q[k] = queue[k] /\ k < back /\ queue[k] # n /\ queue[k] \in Nat
  BY <1>1, <1>2, <1>4 DEF Waits
<1>15. /\ DOMAIN Q = DOMAIN account.queued \union {end} /\ end \notin DOMAIN account.queued /\ Q[end] = n /\ DOMAIN Q \subseteq Nat
       /\ \A i \in DOMAIN account.queued : Q[i] = account.queued[i] /\ i < end /\ account.queued[i] # n
  BY <1>3, <1>4 DEF WasQueued
<1> HIDE DEF back, end
<1>16. QueuedOnce'
  <2>1. DOMAIN task' = DOMAIN task /\ task'[n] = "queued" /\ \A m \in DOMAIN task : task[m] = "queued" => task'[m] = "queued"
    BY <1>1 DEF TelemetryTyped
  <2>2. \A i \in DOMAIN Q : Q[i] \in DOMAIN task' /\ task'[Q[i]] = "queued"
    BY <2>1, <1>1, <1>15 DEF Line, QueuedOnce
  <2>3. \A i, j \in DOMAIN Q : Q[i] = Q[j] => i = j
    BY <1>15 DEF Line, QueuedOnce
  <2> QED
    BY <2>2, <2>3, <1>12 DEF QueuedOnce
<1>17. \A k \in DOMAIN q : \E i \in DOMAIN Q : Q[i] = q[k]
  <2> SUFFICES ASSUME NEW k \in DOMAIN queue PROVE \E i \in DOMAIN Q : Q[i] = q[k]
    BY <1>14, <1>15
  <2>1. Waits(queue[k]) /\ queue[k] \in Nat
    BY <1>14 DEF Waits
  <2>2. WasQueued(queue[k])
    BY <2>1 DEF Line, WaitsOrLeft
  <2>3. PICK i \in DOMAIN account.queued : account.queued[i] = queue[k]
    BY <2>2 DEF WasQueued
  <2> QED
    BY <2>3, <1>14, <1>15
<1>18. ASSUME NEW i \in DOMAIN Q, NEW j \in DOMAIN Q, NEW k \in DOMAIN q, NEW l \in DOMAIN q, k < l, q[k] = Q[i], q[l] = Q[j]
       PROVE  i < j
  <2>1. k \in DOMAIN queue
    <3>1. k # back
      BY <1>18, <1>14
    <3> QED
      BY <3>1, <1>14
  <2>2. i \in DOMAIN account.queued
    BY <2>1, <1>18, <1>14, <1>15
  <2>3. CASE l \in DOMAIN queue
    <3>1. j \in DOMAIN account.queued
      BY <2>3, <1>18, <1>14, <1>15
    <3> QED
      BY <2>1, <2>2, <2>3, <3>1, <1>18, <1>14, <1>15 DEF Line, InOrder
  <2>4. CASE l = back
    <3>1. j = end
      BY <2>4, <1>18, <1>14, <1>15
    <3> QED
      BY <3>1, <2>2, <1>15
  <2> QED
    BY <2>3, <2>4, <1>14
<1>19. ASSUME NEW i \in DOMAIN Q, NEW j \in DOMAIN Q, NEW l \in DOMAIN q, hand # NoReport, Q[i] = hand, q[l] = Q[j]
       PROVE  i < j
  <2>1. i \in DOMAIN account.queued
    <3>1. hand # n
      BY <1>19, <1>4 DEF Waits
    <3> QED
      BY <3>1, <1>19, <1>15
  <2>2. CASE l \in DOMAIN queue
    <3>1. j \in DOMAIN account.queued
      BY <2>2, <1>19, <1>14, <1>15
    <3> QED
      BY <2>1, <2>2, <3>1, <1>19, <1>14, <1>15 DEF Line, InOrder
  <2>3. CASE l = back
    <3>1. j = end
      BY <2>3, <1>19, <1>14, <1>15
    <3> QED
      BY <3>1, <2>1, <1>15
  <2> QED
    BY <2>2, <2>3, <1>14
<1>20. \A k, l \in DOMAIN q : q[k] = q[l] => k = l
  <2> SUFFICES ASSUME NEW k \in DOMAIN q, NEW l \in DOMAIN q, q[k] = q[l], k < l PROVE FALSE
    BY <1>2
  <2>1. PICK i \in DOMAIN Q : Q[i] = q[k]
    BY <1>17
  <2>2. i < i
    BY <2>1, <1>18
  <2> QED
    BY <2>2, <1>3
<1>21. \A l \in DOMAIN q : hand # NoReport => q[l] # hand
  <2> SUFFICES ASSUME NEW l \in DOMAIN q, hand # NoReport, q[l] = hand PROVE FALSE
    OBVIOUS
  <2>1. PICK i \in DOMAIN Q : Q[i] = q[l]
    BY <1>17
  <2>2. i < i
    BY <2>1, <1>19
  <2> QED
    BY <2>2, <1>3
<1>22. /\ queue' \in Seq(Nat) /\ DOMAIN queue' = 1 .. Len(queue') /\ Len(queue') \in Nat
       /\ (Fits(q) => Len(queue') = Len(q)) /\ (~Fits(q) => Len(queue') = Len(q) - 1)
  BY <1>2, <1>8, <1>9, <1>10
\* What is in the queue was, in the same order; what was and is not, is dropped.
<1>23. \A k \in DOMAIN queue' :
          /\ queue'[k] \notin D
          /\ \E a \in DOMAIN q : q[a] = queue'[k]
  <2>1. CASE Fits(q)
    BY <2>1, <1>10
  <2>2. CASE ~Fits(q)
    <3> SUFFICES ASSUME NEW k \in DOMAIN queue' PROVE queue'[k] # q[v] /\ \E a \in DOMAIN q : q[a] = queue'[k]
      BY <2>2, <1>10 DEF x
    <3>1. k \in 1 .. Len(q) - 1 /\ k \in DOMAIN q /\ k + 1 \in DOMAIN q /\ v \in Nat
      BY <2>2, <1>2, <1>8, <1>9, <1>10
    <3>2. queue'[k] = IF k < v THEN q[k] ELSE q[k + 1]
      BY <3>1, <2>2, <1>9, <1>10
    <3> QED
      BY <3>1, <3>2, <1>5, <1>20
  <2> QED
    BY <2>1, <2>2
<1>24. ASSUME NEW k \in DOMAIN queue', NEW l \in DOMAIN queue', k < l
       PROVE  \E a, b \in DOMAIN q : a < b /\ q[a] = queue'[k] /\ q[b] = queue'[l]
  <2>1. CASE Fits(q)
    BY <2>1, <1>10, <1>24
  <2>2. CASE ~Fits(q)
    <3>1. /\ DOMAIN queue' = 1 .. Len(q) - 1 /\ DOMAIN q = 1 .. Len(q)
          /\ \A m \in DOMAIN queue' : queue'[m] = IF m < v THEN q[m] ELSE q[m + 1]
      BY <2>2, <1>2, <1>8, <1>9, <1>10
    <3>2. /\ k \in DOMAIN q /\ k + 1 \in DOMAIN q /\ v \in Nat /\ k \in Nat
          /\ l \in DOMAIN q /\ l + 1 \in DOMAIN q /\ l \in Nat
      BY <3>1, <1>8
    <3>3. /\ queue'[k] = IF k < v THEN q[k] ELSE q[k + 1]
          /\ queue'[l] = IF l < v THEN q[l] ELSE q[l + 1]
      BY <3>1
    <3>4. CASE l < v
      BY <3>2, <3>3, <3>4, <1>24
    <3>5. CASE ~(l < v) /\ k < v
      <4>1. k < l + 1
        BY <3>2, <1>24
      <4> QED
        BY <4>1, <3>2, <3>3, <3>5
    <3>6. CASE ~(l < v) /\ ~(k < v)
      <4>1. k + 1 < l + 1
        BY <3>2, <1>24
      <4> QED
        BY <4>1, <3>2, <3>3, <3>6
    <3> QED
      BY <3>4, <3>5, <3>6, <3>2, <1>24
  <2> QED
    BY <2>1, <2>2
<1>25. \A a \in DOMAIN q : q[a] \in D \/ \E k \in DOMAIN queue' : queue'[k] = q[a]
  <2>1. CASE Fits(q)
    BY <2>1, <1>10
  <2>2. CASE ~Fits(q)
    <3> SUFFICES ASSUME NEW a \in DOMAIN q, a # v PROVE \E k \in DOMAIN queue' : queue'[k] = q[a]
      BY <2>2, <1>10 DEF x
    <3>1. \A k \in 1 .. Len(q) - 1 : k \in DOMAIN queue' /\ queue'[k] = IF k < v THEN q[k] ELSE q[k + 1]
      BY <2>2, <1>9, <1>10
    <3>2. CASE a < v
      <4>1. a \in 1 .. Len(q) - 1
        BY <3>2, <1>2, <1>5
      <4> QED
        BY <4>1, <3>1, <3>2
    <3>3. CASE v < a
      <4>1. a - 1 \in 1 .. Len(q) - 1 /\ ~(a - 1 < v) /\ (a - 1) + 1 = a
        BY <3>3, <1>2, <1>5
      <4>2. queue'[a - 1] = q[(a - 1) + 1]
        BY <4>1, <3>1
      <4> QED
        BY <4>1, <4>2, <3>1
    <3> QED
      BY <3>2, <3>3, <1>2, <1>5
  <2> QED
    BY <2>1, <2>2
<1>26. \A m \in D : \E a \in DOMAIN q : q[a] = m
  BY <1>5, <1>10 DEF x
<1>27. \A m : (Left(m)' <=> Left(m) \/ m \in D)
  BY <1>12 DEF Left
<1>28. \A m : Waits(m)' => (Waits(m) \/ m = n) /\ m \notin D
  <2> SUFFICES ASSUME NEW m, Waits(m)' PROVE (Waits(m) \/ m = n) /\ m \notin D
    OBVIOUS
  <2>1. CASE hand # NoReport /\ m = hand
    BY <2>1, <1>21, <1>26 DEF Waits
  <2>2. CASE \E k \in DOMAIN queue' : queue'[k] = m
    BY <2>2, <1>23, <1>14 DEF Waits
  <2> QED
    BY <2>1, <2>2, <1>1 DEF Waits
<1>29. \A m : (Waits(m) \/ m = n) => (m \in D \/ Waits(m)')
  <2> SUFFICES ASSUME NEW m, Waits(m) \/ m = n PROVE m \in D \/ Waits(m)'
    OBVIOUS
  <2>1. CASE hand # NoReport /\ m = hand
    BY <2>1, <1>1 DEF Waits
  <2>2. CASE m = n \/ \E k \in DOMAIN queue : queue[k] = m
    <3>1. PICK a \in DOMAIN q : q[a] = m
      BY <2>2, <1>14
    <3> QED
      BY <3>1, <1>25 DEF Waits
  <2> QED
    BY <2>1, <2>2 DEF Waits
<1>30. \A m : (WasQueued(m)' <=> WasQueued(m) \/ m = n)
  BY <1>15, <1>12 DEF WasQueued
<1>31. WaitsOrLeft'
  <2>1. \A m : (\E i \in DOMAIN Q : Q[i] = m) => Left(m)' \/ Waits(m)'
    <3> SUFFICES ASSUME NEW m, NEW i \in DOMAIN Q, Q[i] = m PROVE Left(m)' \/ Waits(m)'
      OBVIOUS
    <3>1. Left(m) \/ Waits(m) \/ m = n
      BY <1>15 DEF Line, WaitsOrLeft
    <3> QED
      BY <3>1, <1>27, <1>29
  <2>2. \A m \in Nat : Left(m)' => WasQueued(m)' /\ ~Waits(m)'
    <3> SUFFICES ASSUME NEW m \in Nat, Left(m)' PROVE WasQueued(m)' /\ ~Waits(m)'
      OBVIOUS
    <3>1. CASE Left(m)
      BY <3>1, <1>4, <1>28, <1>30 DEF Line, WaitsOrLeft
    <3>2. CASE m \in D
      <4>1. Waits(m) \/ m = n
        BY <3>2, <1>26, <1>14 DEF Waits
      <4> QED
        BY <4>1, <3>2, <1>28, <1>30 DEF Line, WaitsOrLeft
    <3> QED
      BY <3>1, <3>2, <1>27
  <2>3. \A m \in Nat : Waits(m)' => WasQueued(m)'
    BY <1>28, <1>30 DEF Line, WaitsOrLeft
  <2>4. \A i \in DOMAIN account.queued' : (Left(account.queued[i]) \/ Waits(account.queued[i]))'
    BY <2>1, <1>12 DEF Left, Waits
  <2> QED
    BY <2>2, <2>3, <2>4 DEF WaitsOrLeft
<1>32. InOrder'
  <2> SUFFICES ASSUME NEW i \in DOMAIN Q, NEW j \in DOMAIN Q
               PROVE  /\ \A l \in DOMAIN queue' : hand # NoReport /\ Q[i] = hand /\ queue'[l] = Q[j] => i < j
                      /\ \A k, l \in DOMAIN queue' : k < l /\ queue'[k] = Q[i] /\ queue'[l] = Q[j] => i < j
    BY <1>1, <1>12, Zenon DEF InOrder
  <2>1. ASSUME NEW l \in DOMAIN queue', hand # NoReport, Q[i] = hand, queue'[l] = Q[j] PROVE i < j
    <3>1. PICK b \in DOMAIN q : q[b] = queue'[l]
      BY <1>23
    <3> QED
      BY <3>1, <2>1, <1>19
  <2>2. ASSUME NEW k \in DOMAIN queue', NEW l \in DOMAIN queue', k < l, queue'[k] = Q[i], queue'[l] = Q[j] PROVE i < j
    <3>1. PICK a, b \in DOMAIN q : a < b /\ q[a] = queue'[k] /\ q[b] = queue'[l]
      BY <2>2, <1>24
    <3> QED
      BY <3>1, <2>2, <1>18
  <2> QED
    BY <2>1, <2>2
<1>33. RoomToGoBack'
  <2>1. Len(q) = Len(queue) + 1 /\ Len(queue) \in Nat
    BY <1>2
  <2>2. /\ Len(queue) + 1 <= QueueCap => Len(queue') = Len(queue) + 1
        /\ Len(queue) + 1 > QueueCap => Len(queue') = Len(queue)
        /\ Len(queue') \in Nat
    <3>1. CASE Fits(q)
      BY <3>1, <2>1, <1>1, <1>22 DEF Fits
    <3>2. CASE ~Fits(q)
      <4>1. Len(queue') = Len(q) - 1
        BY <3>2, <1>22
      <4>2. ~(Len(q) <= QueueCap)
        BY <3>2 DEF Fits
      <4>3. Len(queue') = Len(queue)
        BY <4>1, <2>1
      <4> QED
        BY <4>2, <4>3, <2>1, <1>1
    <3> QED
      BY <3>1, <3>2
  <2> QED
    BY <2>1, <2>2, <1>1 DEF Line, RoomToGoBack
<1>34. FirstInFirstOut'
  <2>1. ASSUME NEW i \in DOMAIN Q, NEW j \in DOMAIN Q, i < j, Q[j] \in account.given
        PROVE  Q[i] \in account'.given \union account'.shed \union account'.refused
    <3>1. Q[j] # n
      BY <2>1, <1>4 DEF Left
    <3>2. j \in DOMAIN account.queued /\ i \in DOMAIN account.queued /\ Q[i] = account.queued[i] /\ Q[j] = account.queued[j]
      BY <3>1, <2>1, <1>15
    <3> QED
      BY <3>2, <2>1, <1>12 DEF Line, FirstInFirstOut, Left
  <2>2. \A i, j \in DOMAIN account'.queued :
            i < j /\ account'.queued[j] \in account'.given => Left(account.queued[i])'
    BY <2>1, <1>12, Zenon DEF Left
  <2> QED
    BY <2>2 DEF FirstInFirstOut
<1> QED
  BY <1>13, <1>16, <1>22, <1>31, <1>32, <1>33, <1>34 DEF Line

\* The first of the line leaves it, taken or refused by the cloud.
LEMMA HandLeaves ==
    ASSUME TelemetryIInv, hand # NoReport, hand' = NoReport, queue' = queue, task' = task,
           account'.queued = account.queued, account'.shed = account.shed,
           account'.given \union account'.refused = account.given \union account.refused \union {hand},
           account'.given \subseteq account.given \union {hand}
    PROVE  Line'
<1> USE DEF TelemetryIInv
<1>1. hand \in Nat /\ Waits(hand)
  BY DEF TelemetryTyped, Waits
<1>2. PICK h \in DOMAIN account.queued : account.queued[h] = hand
  BY <1>1 DEF Line, WaitsOrLeft, WasQueued
<1>3. h \in Nat /\ \A i \in DOMAIN account.queued : i \in Nat
  BY DEF TelemetryTyped, Accounts
<1>4. ASSUME NEW l \in DOMAIN queue, queue[l] = hand PROVE FALSE
  <2>1. h < h
    BY <1>2, <1>4 DEF Line, InOrder
  <2> QED
    BY <2>1, <1>3
<1>5. \A m : (Left(m)' <=> Left(m) \/ m = hand)
  BY DEF Left
<1>6. \A m : (Waits(m)' <=> Waits(m) /\ m # hand)
  BY <1>4 DEF Waits
<1>7. \A m : (WasQueued(m)' <=> WasQueued(m))
  BY DEF WasQueued
<1>8. QueuedOnce'
  BY DEF Line, QueuedOnce
<1>9. WaitsOrLeft'
  <2>1. \A m : WasQueued(m) => Left(m)' \/ Waits(m)'
    BY <1>5, <1>6 DEF Line, WaitsOrLeft, WasQueued
  <2>2. \A m \in Nat : Left(m)' => WasQueued(m)' /\ ~Waits(m)'
    BY <1>1, <1>5, <1>6, <1>7 DEF Line, WaitsOrLeft
  <2>3. \A m \in Nat : Waits(m)' => WasQueued(m)'
    BY <1>6, <1>7 DEF Line, WaitsOrLeft
  <2>4. \A i \in DOMAIN account.queued' : (Left(account.queued[i]) \/ Waits(account.queued[i]))'
    BY <2>1 DEF Left, Waits, WasQueued
  <2> QED
    BY <2>2, <2>3, <2>4 DEF WaitsOrLeft
<1>10. InOrder' /\ RoomToGoBack'
  BY TelemetryAssumption DEF Line, InOrder, RoomToGoBack, TelemetryTyped
<1>11. FirstInFirstOut'
  <2>1. ASSUME NEW i \in DOMAIN account.queued, NEW j \in DOMAIN account.queued, i < j, account.queued[j] \in account'.given
        PROVE  Left(account.queued[i]) \/ account.queued[i] = hand
    <3>1. CASE account.queued[j] \in account.given
      BY <2>1, <3>1 DEF Line, FirstInFirstOut
    <3>2. CASE account.queued[j] = hand
      <4>1. SUFFICES ASSUME ~Left(account.queued[i]), account.queued[i] # hand PROVE FALSE
        OBVIOUS
      <4>2. PICK k \in DOMAIN queue : queue[k] = account.queued[i]
        BY <4>1 DEF Line, WaitsOrLeft, Waits
      <4>3. j < i
        BY <4>2, <3>2 DEF Line, InOrder
      <4> QED
        BY <4>3, <2>1, <1>3
    <3> QED
      BY <2>1, <3>1, <3>2
  <2>2. \A i, j \in DOMAIN account'.queued :
            i < j /\ account'.queued[j] \in account'.given => Left(account.queued[i])'
    BY <2>1 DEF Left
  <2> QED
    BY <2>2 DEF FirstInFirstOut
<1> QED
  BY <1>8, <1>9, <1>10, <1>11 DEF Line

\* The first of the queue comes to hand, and goes back: the line is the same.
LEMMA TakeLine == ASSUME TelemetryIInv, Take PROVE Line'
<1> USE DEF TelemetryIInv
<1>1. /\ queue \in Seq(Nat) /\ queue # <<>> /\ hand = NoReport /\ hand' = queue[1] /\ queue' = Tail(queue)
      /\ task' = task /\ account' = account
  BY DEF Take, TelemetryTyped
<1>2. /\ 1 \in DOMAIN queue /\ DOMAIN queue \subseteq Nat /\ Len(queue') = Len(queue) - 1 /\ Len(queue) \in Nat
      /\ \A k \in DOMAIN queue' : k + 1 \in DOMAIN queue /\ queue'[k] = queue[k + 1] /\ k \in Nat /\ k >= 1
      /\ \A k \in DOMAIN queue : k = 1 \/ (k - 1 \in DOMAIN queue' /\ queue'[k - 1] = queue[k])
  <2>1. /\ queue' \in Seq(Nat) /\ Len(queue') = Len(queue) - 1 /\ Len(queue) \in Nat /\ Len(queue) >= 1
        /\ \A k \in 1 .. Len(queue) - 1 : queue'[k] = queue[k + 1]
    BY <1>1, HeadTailProperties
  <2>2. DOMAIN queue = 1 .. Len(queue) /\ DOMAIN queue' = 1 .. Len(queue) - 1
    BY <1>1, <2>1
  <2>3. ASSUME NEW k \in DOMAIN queue PROVE k = 1 \/ (k - 1 \in DOMAIN queue' /\ queue'[k - 1] = queue[k])
    <3>1. k = 1 \/ (k - 1 \in 1 .. Len(queue) - 1 /\ (k - 1) + 1 = k)
      BY <2>1, <2>2
    <3> QED
      BY <3>1, <2>1, <2>2
  <2> QED
    BY <2>1, <2>2, <2>3
<1>3. queue[1] # NoReport
  <2>1. queue[1] \in Nat /\ Waits(queue[1])
    BY <1>1, <1>2 DEF Waits
  <2>2. PICK i \in DOMAIN account.queued : account.queued[i] = queue[1]
    BY <2>1 DEF Line, WaitsOrLeft, WasQueued
  <2>3. queue[1] \in DOMAIN task
    BY <2>2 DEF Line, QueuedOnce
  <2> QED
    BY <2>3 DEF NoReport, TelemetryTyped
<1>4. \A m : (Waits(m)' <=> Waits(m))
  <2>1. ASSUME NEW m, Waits(m) PROVE Waits(m)'
    <3>1. PICK k \in DOMAIN queue : queue[k] = m
      BY <2>1, <1>1 DEF Waits
    <3>2. CASE k = 1
      BY <3>1, <3>2, <1>1, <1>3 DEF Waits
    <3>3. CASE k - 1 \in DOMAIN queue' /\ queue'[k - 1] = queue[k]
      BY <3>1, <3>3 DEF Waits
    <3> QED
      BY <3>2, <3>3, <1>2
  <2>2. ASSUME NEW m, Waits(m)' PROVE Waits(m)
    <3>1. CASE m = hand'
      BY <3>1, <1>1, <1>2 DEF Waits
    <3>2. CASE \E k \in DOMAIN queue' : queue'[k] = m
      BY <3>2, <1>2 DEF Waits
    <3> QED
      BY <2>2, <3>1, <3>2 DEF Waits
  <2> QED
    BY <2>1, <2>2
<1>5. \A m : (Left(m)' <=> Left(m)) /\ (WasQueued(m)' <=> WasQueued(m))
  BY <1>1 DEF Left, WasQueued
<1>6. QueuedOnce'
  BY <1>1 DEF Line, QueuedOnce
<1>7. WaitsOrLeft'
  <2>1. \A m \in Nat : Left(m)' => WasQueued(m)' /\ ~Waits(m)'
    BY <1>4, <1>5 DEF Line, WaitsOrLeft
  <2>2. \A m \in Nat : Waits(m)' => WasQueued(m)'
    BY <1>4, <1>5 DEF Line, WaitsOrLeft
  <2>3. \A m : WasQueued(m) => Left(m)' \/ Waits(m)'
    BY <1>4, <1>5 DEF Line, WaitsOrLeft, WasQueued
  <2>4. \A i \in DOMAIN account.queued' : (Left(account.queued[i]) \/ Waits(account.queued[i]))'
    BY <2>3, <1>1 DEF Left, Waits, WasQueued
  <2> QED
    BY <2>1, <2>2, <2>4 DEF WaitsOrLeft
<1>8. InOrder'
  <2>1. ASSUME NEW i \in DOMAIN account.queued, NEW j \in DOMAIN account.queued, NEW l \in DOMAIN queue',
               account.queued[i] = queue[1], queue'[l] = account.queued[j]
        PROVE  i < j
    <3>1. l + 1 \in DOMAIN queue /\ queue[l + 1] = account.queued[j] /\ 1 < l + 1
      BY <2>1, <1>2
    <3> QED
      BY <3>1, <2>1, <1>2 DEF Line, InOrder
  <2>2. ASSUME NEW i \in DOMAIN account.queued, NEW j \in DOMAIN account.queued, NEW k \in DOMAIN queue', NEW l \in DOMAIN queue',
               k < l, queue'[k] = account.queued[i], queue'[l] = account.queued[j]
        PROVE  i < j
    <3>1. /\ k + 1 \in DOMAIN queue /\ l + 1 \in DOMAIN queue /\ k + 1 < l + 1
          /\ queue[k + 1] = account.queued[i] /\ queue[l + 1] = account.queued[j]
      BY <2>2, <1>2
    <3> QED
      BY <3>1 DEF Line, InOrder
  <2> QED
    BY <2>1, <2>2, <1>1 DEF InOrder
<1>9. RoomToGoBack'
  BY <1>1, <1>2, TelemetryAssumption DEF Line, RoomToGoBack
<1>10. FirstInFirstOut'
  BY <1>1, <1>5 DEF Line, FirstInFirstOut
<1> QED
  BY <1>6, <1>7, <1>8, <1>9, <1>10 DEF Line

LEMMA RetryLine == ASSUME TelemetryIInv, Retry PROVE Line'
<1> USE DEF TelemetryIInv
<1>1. /\ queue \in Seq(Nat) /\ hand \in Nat /\ hand # NoReport /\ hand' = NoReport /\ queue' = <<hand>> \o queue
      /\ task' = task /\ account' = account
  BY DEF Retry, Requeued, TelemetryTyped
<1>2. /\ 1 \in DOMAIN queue' /\ queue'[1] = hand /\ Len(queue') = Len(queue) + 1 /\ Len(queue) \in Nat
      /\ \A k \in DOMAIN queue : k + 1 \in DOMAIN queue' /\ queue'[k + 1] = queue[k]
      /\ \A k \in DOMAIN queue' : k \in Nat /\ (k = 1 \/ (k > 1 /\ k - 1 \in DOMAIN queue /\ queue[k - 1] = queue'[k]))
  <2>1. /\ Len(queue') = 1 + Len(queue) /\ Len(queue) \in Nat /\ queue' \in Seq(Nat)
        /\ \A k \in 1 .. 1 + Len(queue) : queue'[k] = IF k <= 1 THEN hand ELSE queue[k - 1]
    <3>1. <<hand>> \in Seq(Nat) /\ Len(<<hand>>) = 1 /\ <<hand>>[1] = hand
      BY <1>1
    <3>2. /\ queue' \in Seq(Nat) /\ Len(queue') = 1 + Len(queue)
          /\ \A k \in 1 .. 1 + Len(queue) : queue'[k] = IF k <= 1 THEN <<hand>>[k] ELSE queue[k - 1]
      BY <1>1, <3>1, ConcatProperties
    <3>3. \A k \in 1 .. 1 + Len(queue) : k <= 1 => k = 1
      OBVIOUS
    <3> QED
      BY <1>1, <3>1, <3>2, <3>3
  <2>2. DOMAIN queue = 1 .. Len(queue) /\ DOMAIN queue' = 1 .. 1 + Len(queue)
    BY <1>1, <2>1
  <2>3. ASSUME NEW k \in DOMAIN queue PROVE k + 1 \in DOMAIN queue' /\ queue'[k + 1] = queue[k]
    <3>1. k + 1 \in 1 .. 1 + Len(queue) /\ ~(k + 1 <= 1) /\ (k + 1) - 1 = k
      BY <2>1, <2>2
    <3> QED
      BY <3>1, <2>1, <2>2
  <2>4. ASSUME NEW k \in DOMAIN queue' PROVE k \in Nat /\ (k = 1 \/ (k > 1 /\ k - 1 \in DOMAIN queue /\ queue[k - 1] = queue'[k]))
    <3>1. k \in Nat /\ (k = 1 \/ (k > 1 /\ ~(k <= 1) /\ k - 1 \in 1 .. Len(queue)))
      BY <2>1, <2>2
    <3> QED
      BY <3>1, <2>1, <2>2
  <2>5. 1 \in DOMAIN queue' /\ queue'[1] = hand
    BY <2>1, <2>2
  <2> QED
    BY <2>1, <2>3, <2>4, <2>5
<1>3. \A m : (Waits(m)' <=> Waits(m))
  <2>1. ASSUME NEW m, Waits(m) PROVE Waits(m)'
    <3>1. CASE m = hand
      BY <3>1, <1>2 DEF Waits
    <3>2. CASE \E k \in DOMAIN queue : queue[k] = m
      BY <3>2, <1>2 DEF Waits
    <3> QED
      BY <2>1, <3>1, <3>2 DEF Waits
  <2>2. ASSUME NEW m, Waits(m)' PROVE Waits(m)
    <3>1. PICK k \in DOMAIN queue' : queue'[k] = m
      BY <2>2, <1>1 DEF Waits
    <3>2. CASE k = 1
      BY <3>1, <3>2, <1>1, <1>2 DEF Waits
    <3>3. CASE k - 1 \in DOMAIN queue /\ queue[k - 1] = queue'[k]
      BY <3>1, <3>3 DEF Waits
    <3> QED
      BY <3>2, <3>3, <1>2
  <2> QED
    BY <2>1, <2>2
<1>4. \A m : (Left(m)' <=> Left(m)) /\ (WasQueued(m)' <=> WasQueued(m))
  BY <1>1 DEF Left, WasQueued
<1>5. QueuedOnce'
  BY <1>1 DEF Line, QueuedOnce
<1>6. WaitsOrLeft'
  <2>1. \A m \in Nat : Left(m)' => WasQueued(m)' /\ ~Waits(m)'
    BY <1>3, <1>4 DEF Line, WaitsOrLeft
  <2>2. \A m \in Nat : Waits(m)' => WasQueued(m)'
    BY <1>3, <1>4 DEF Line, WaitsOrLeft
  <2>3. \A m : WasQueued(m) => Left(m)' \/ Waits(m)'
    BY <1>3, <1>4 DEF Line, WaitsOrLeft, WasQueued
  <2>4. \A i \in DOMAIN account.queued' : (Left(account.queued[i]) \/ Waits(account.queued[i]))'
    BY <2>3, <1>1 DEF Left, Waits, WasQueued
  <2> QED
    BY <2>1, <2>2, <2>4 DEF WaitsOrLeft
<1>7. InOrder'
  <2>1. ASSUME NEW i \in DOMAIN account.queued, NEW j \in DOMAIN account.queued, NEW k \in DOMAIN queue', NEW l \in DOMAIN queue',
               k < l, queue'[k] = account.queued[i], queue'[l] = account.queued[j]
        PROVE  i < j
    <3>1. l > 1 /\ l - 1 \in DOMAIN queue /\ queue[l - 1] = account.queued[j] /\ k \in Nat /\ l \in Nat
      BY <2>1, <1>2
    <3>2. CASE k = 1
      BY <3>1, <3>2, <2>1, <1>1, <1>2 DEF Line, InOrder
    <3>3. CASE k > 1
      <4>1. k - 1 \in DOMAIN queue /\ queue[k - 1] = account.queued[i] /\ k - 1 < l - 1
        BY <2>1, <3>1, <3>3, <1>2
      <4> QED
        BY <4>1, <3>1 DEF Line, InOrder
    <3> QED
      BY <3>2, <3>3, <1>2
  <2> QED
    BY <2>1, <1>1 DEF InOrder
<1>8. RoomToGoBack'
  BY <1>1, <1>2, TelemetryAssumption DEF Line, RoomToGoBack
<1>9. FirstInFirstOut'
  BY <1>1, <1>4 DEF Line, FirstInFirstOut
<1> QED
  BY <1>5, <1>6, <1>7, <1>8, <1>9 DEF Line

\* The variables keep their types.
LEMMA TypesKept == ASSUME TelemetryIInv, TelemetryNext PROVE TelemetryTyped'
<1> USE DEF TelemetryIInv
<1>1. DOMAIN task = DOMAIN reports /\ \A n \in DOMAIN reports : reports[n].value \in Levels \union {NoValue}
  <2>1. reports \in Seq(Reports) /\ DOMAIN task = DOMAIN reports
    BY DEF TelemetryTyped
  <2>2. \A n \in DOMAIN reports : reports[n] \in Reports
    BY <2>1
  <2>3. \A r \in Reports : r.value \in Levels \union {NoValue}
    BY DEF Reports
  <2> QED
    BY <2>1, <2>2, <2>3
<1>2. CASE Arrive
  <2>1. PICK r \in Reports : reports' = Append(reports, r) /\ task' = Append(task, IF r.kind = "alarm" THEN "closing" ELSE "forward")
    BY <1>2 DEF Arrive
  <2>2. (IF r.kind = "alarm" THEN "closing" ELSE "forward") \in Places
    BY DEF Places
  <2>3. reports' \in Seq(Reports) /\ task' \in Seq(Places) /\ Len(task') = Len(reports')
    BY <2>1, <2>2 DEF TelemetryTyped
  <2> QED
    BY <2>3, <1>2 DEF Arrive, TelemetryTyped, Accounts
<1>3. ASSUME NEW n \in DOMAIN task, NEW p \in Places, At(n, p) PROVE task' \in Seq(Places) /\ Len(task') = Len(task)
  BY <1>3 DEF At, TelemetryTyped
<1>4. ASSUME NEW n \in DOMAIN task, Closed(n) PROVE TelemetryTyped'
  <2>1. task' \in Seq(Places) /\ Len(task') = Len(task)
    BY <1>3, <1>4 DEF Closed, Places
  <2> QED
    BY <2>1, <1>4 DEF Closed, TelemetryTyped, Accounts
<1>5. ASSUME NEW v \in Levels \union {NoValue} PROVE MarkSent(v) \in [last: Levels \union {NoValue}, dir: {-1, 0, 1}]
  BY DEF MarkSent, Direction, TelemetryTyped
<1>6. ASSUME NEW n \in DOMAIN task, Judge(n) PROVE TelemetryTyped'
  <2>1. PICK p \in {"due", "held"} : At(n, p)
    BY <1>6 DEF Judge
  <2>2. task' \in Seq(Places) /\ Len(task') = Len(task)
    BY <2>1, <1>3 DEF Places
  <2>3. newest' \in Levels \union {NoValue} /\ deltaGate' \in [last: Levels \union {NoValue}, dir: {-1, 0, 1}]
    <3>1. reports[n].value \in Levels \union {NoValue}
      BY <1>1
    <3>2. CASE UNCHANGED <<deltaGate, newest>>
      BY <3>2 DEF TelemetryTyped
    <3>3. CASE newest' = reports[n].value /\ deltaGate' = MarkSent(reports[n].value)
      BY <3>1, <3>3, <1>5
    <3>4. CASE newest' = reports[n].value /\ deltaGate' = deltaGate
      BY <3>1, <3>4 DEF TelemetryTyped
    <3> QED
      BY <3>2, <3>3, <3>4, <1>6 DEF Judge
  <2> QED
    BY <2>2, <2>3, <1>6 DEF Judge, TelemetryTyped, Accounts
<1>7. ASSUME NEW n \in DOMAIN task, Enqueue(n) PROVE TelemetryTyped'
  <2>1. task' \in Seq(Places) /\ Len(task') = Len(task)
    BY <1>3, <1>7 DEF Enqueue, Places
  <2>2. queue' \in Seq(Nat) /\ account' \in Accounts
    BY <1>7, EnqueueLine
  <2> QED
    BY <2>1, <2>2, <1>7 DEF Enqueue, TelemetryTyped
<1>8. CASE Take
  BY <1>8 DEF Take, TelemetryTyped, Accounts
<1>9. CASE Sent
  <2>1. PICK x \in Levels \union {NoValue} : account' = [account EXCEPT !.given = account.given \union {hand}, !.value = x]
    <3>1. hand \in DOMAIN reports
      <4>1. hand \in Nat /\ Waits(hand)
        BY <1>9 DEF Sent, Waits, TelemetryTyped
      <4>2. PICK i \in DOMAIN account.queued : account.queued[i] = hand
        BY <4>1 DEF Line, WaitsOrLeft, WasQueued
      <4>3. hand \in DOMAIN task
        BY <4>2 DEF Line, QueuedOnce
      <4> QED
        BY <4>3, <1>1
    <3>2. reports[hand].value \in Levels \union {NoValue} /\ account.value \in Levels \union {NoValue}
      BY <3>1, <1>1 DEF TelemetryTyped, Accounts
    <3> QED
      BY <3>2, <1>9 DEF Sent
  <2>2. account' \in Accounts
    BY <2>1 DEF TelemetryTyped, Accounts
  <2> QED
    BY <2>2, <1>9 DEF Sent, TelemetryTyped, NoReport
<1>10. CASE Refused
  <2>1. account' \in Accounts
    BY <1>10 DEF Refused, TelemetryTyped, Accounts
  <2> QED
    BY <2>1, <1>10 DEF Refused, TelemetryTyped, NoReport
<1>11. CASE Retry
  BY <1>11 DEF Retry, Requeued, TelemetryTyped, Accounts, NoReport
<1>12. CASE BuildKeyframe
  BY <1>12 DEF BuildKeyframe, Carried, sensor, TelemetryTyped, Accounts
<1>13. CASE KeyframeTaken
  <2>1. keyframe' \in [open: BOOLEAN, taken: BOOLEAN, value: Levels \union {NoValue}]
    BY <1>13 DEF KeyframeTaken, TelemetryTyped
  <2>2. account' \in Accounts
    <3>1. CASE keyframe.value = NoValue
      BY <1>13, <3>1 DEF KeyframeTaken, TelemetryTyped, Accounts
    <3>2. CASE keyframe.value # NoValue
      BY <1>13, <3>2 DEF KeyframeTaken, TelemetryTyped, Accounts
    <3> QED
      BY <3>1, <3>2
  <2> QED
    BY <2>1, <2>2, <1>13 DEF KeyframeTaken, sensor, TelemetryTyped
<1>14. CASE KeyframeMarked
  <2>1. deltaGate' \in [last: Levels \union {NoValue}, dir: {-1, 0, 1}]
    <3>1. keyframe.value \in Levels \union {NoValue}
      BY DEF TelemetryTyped
    <3>2. deltaGate' = IF keyframe.value = NoValue THEN deltaGate ELSE MarkSent(keyframe.value)
      BY <1>14 DEF KeyframeMarked
    <3> QED
      BY <3>1, <3>2, <1>5 DEF TelemetryTyped
  <2> QED
    BY <2>1, <1>14 DEF KeyframeMarked, NoKeyframe, TelemetryTyped, Accounts
<1>15. CASE KeyframeFails
  BY <1>15 DEF KeyframeFails, NoKeyframe, sensor, TelemetryTyped, Accounts
<1> QED
  BY <1>2, <1>4, <1>6, <1>7, <1>8, <1>9, <1>10, <1>11, <1>12, <1>13, <1>14, <1>15 DEF TelemetryNext

LEMMA LineStep == ASSUME TelemetryIInv, TelemetryNext PROVE Line'
<1> USE DEF TelemetryIInv
<1>1. CASE Arrive
  <2>1. PICK p \in Places : task' = Append(task, p)
    BY <1>1 DEF Arrive, Places
  <2>2. \A n \in DOMAIN task : n \in DOMAIN task' /\ task'[n] = task[n]
    BY <2>1 DEF TelemetryTyped
  <2> QED
    BY <2>2, <1>1, SameLine DEF Arrive
<1>2. ASSUME NEW n \in DOMAIN task, Closed(n) PROVE Line'
  <2>1. \A m \in DOMAIN task : task[m] = "queued" => m \in DOMAIN task' /\ task'[m] = "queued"
    BY <1>2 DEF Closed, At, TelemetryTyped
  <2> QED
    BY <2>1, <1>2, SameLine DEF Closed
<1>3. ASSUME NEW n \in DOMAIN task, Judge(n) PROVE Line'
  <2>1. PICK p \in Places : task' = [task EXCEPT ![n] = p]
    BY <1>3 DEF Judge, At, Places
  <2>2. \A m \in DOMAIN task : task[m] = "queued" => m \in DOMAIN task' /\ task'[m] = "queued"
    BY <2>1, <1>3 DEF Judge, TelemetryTyped
  <2> QED
    BY <2>2, <1>3, SameLine DEF Judge
<1>4. ASSUME NEW n \in DOMAIN task, Enqueue(n) PROVE Line'
  BY <1>4, EnqueueLine
<1>5. CASE Take
  BY <1>5, TakeLine
<1>6. CASE Sent
  <2>1. /\ account'.given = account.given \union {hand} /\ account'.refused = account.refused
        /\ account'.shed = account.shed /\ account'.queued = account.queued
    BY <1>6 DEF Sent, TelemetryTyped, Accounts
  <2> QED
    BY <2>1, <1>6, HandLeaves DEF Sent
<1>7. CASE Refused
  <2>1. /\ account'.given = account.given /\ account'.refused = account.refused \union {hand}
        /\ account'.shed = account.shed /\ account'.queued = account.queued
    BY <1>7 DEF Refused, TelemetryTyped, Accounts
  <2> QED
    BY <2>1, <1>7, HandLeaves DEF Refused
<1>8. CASE Retry
  BY <1>8, RetryLine
<1>9. CASE BuildKeyframe
  BY <1>9, SameLine DEF BuildKeyframe, sensor
<1>10. CASE KeyframeTaken
  <2>1. /\ account'.given = account.given /\ account'.refused = account.refused
        /\ account'.shed = account.shed /\ account'.queued = account.queued
    BY <1>10 DEF KeyframeTaken, TelemetryTyped, Accounts
  <2> QED
    BY <2>1, <1>10, SameLine DEF KeyframeTaken, sensor
<1>11. CASE KeyframeMarked
  BY <1>11, SameLine DEF KeyframeMarked
<1>12. CASE KeyframeFails
  BY <1>12, SameLine DEF KeyframeFails, sensor
<1> QED
  BY <1>1, <1>2, <1>3, <1>4, <1>5, <1>6, <1>7, <1>8, <1>9, <1>10, <1>11, <1>12 DEF TelemetryNext

LEMMA TelemetryStep == TelemetryIInv /\ [TelemetryNext]_telemetryVars => TelemetryIInv'
<1> SUFFICES ASSUME TelemetryIInv, [TelemetryNext]_telemetryVars PROVE TelemetryIInv'
  OBVIOUS
<1>1. CASE TelemetryNext
  BY <1>1, LineStep, TypesKept DEF TelemetryIInv
<1>2. CASE UNCHANGED telemetryVars
  <2>1. TelemetryTyped'
    BY <1>2 DEF telemetryVars, sensor, TelemetryIInv, TelemetryTyped
  <2>2. Line'
    BY <1>2, SameLine DEF telemetryVars, sensor, TelemetryIInv
  <2> QED
    BY <2>1, <2>2 DEF TelemetryIInv
<1> QED
  BY <1>1, <1>2

\* What the invariant says to those who read the model.
LEMMA TelemetryImplied == TelemetryIInv => TelemetryInv
<1> SUFFICES ASSUME TelemetryIInv PROVE TelemetryInv
  OBVIOUS
<1> USE DEF TelemetryIInv
<1>1. \A n \in Nat : Waits(n) => n \in DOMAIN task
  BY DEF Line, QueuedOnce, WaitsOrLeft, WasQueued
<1>2. \A i \in DOMAIN queue : queue[i] \in DOMAIN reports
  BY <1>1 DEF TelemetryTyped, Waits
<1>3. hand \in DOMAIN reports \union {NoReport}
  BY <1>1 DEF TelemetryTyped, Waits
<1>4. TelemetryTypes
  BY <1>2, <1>3 DEF TelemetryTyped, TelemetryTypes, Places, Line, RoomToGoBack
<1> QED
  BY <1>4 DEF TelemetryInv, Line

\* Reports of the sensors reach the cloud in the order they were queued.
THEOREM ReportsInOrder == TelemetrySpec => []TelemetryInv
<1>1. TelemetrySpec => []TelemetryIInv
  BY TelemetryInitially, TelemetryStep, PTL DEF TelemetrySpec
<1> QED
  BY <1>1, TelemetryImplied, PTL

LEMMA ShedStep == TelemetryIInv /\ [TelemetryNext]_telemetryVars => [ShedAmongAlarms]_telemetryVars
<1> SUFFICES ASSUME TelemetryIInv, TelemetryNext PROVE ShedAmongAlarms
  OBVIOUS
<1> USE DEF TelemetryIInv
<1>1. account'.shed = account.shed => ShedAmongAlarms
  BY DEF ShedAmongAlarms
<1>2. CASE \E n \in DOMAIN task : Enqueue(n)
  <2>1. PICK n \in DOMAIN task : Enqueue(n)
    BY <1>2
  <2> DEFINE q == Append(queue, n)
             x == q[Victim(q)]
             A(m) == reports[m].kind = "alarm" /\ ~Left(m)
             S == {i \in DOMAIN account'.queued : A(account'.queued[i])}
  <2>2. /\ account'.queued = Append(account.queued, n) /\ account.queued \in Seq(Nat) /\ n \in Nat /\ queue \in Seq(Nat)
        /\ QueueCap \in Nat /\ task[n] = "due"
    BY <2>1, EnqueueIs
  <2>3. Fits(q) \/ account'.shed = account.shed \union {x}
    BY <2>1, EnqueueIs
  <2>4. Fits(q) => account'.shed = account.shed
    BY <2>1 DEF Enqueue, TelemetryTyped, Accounts
  <2>5. SUFFICES ASSUME ~Fits(q), reports[x].kind = "alarm" PROVE Cardinality(S) > QueueCap
    BY <1>1, <2>3, <2>4 DEF ShedAmongAlarms
  <2>6. q \in Seq(Nat) /\ q # <<>> /\ DOMAIN q = 1 .. Len(q) /\ Len(q) = Len(queue) + 1 /\ Len(q) \in Nat
    BY <2>2
  <2>7. \A k \in DOMAIN q : reports[q[k]].kind = "alarm"
    BY <2>5, <2>6, VictimIs
  <2>8. ~WasQueued(n) /\ ~Waits(n) /\ ~Left(n)
    BY <2>2 DEF Line, QueuedOnce, WaitsOrLeft, WasQueued
  <2>9. DOMAIN q = DOMAIN queue \union {Len(queue) + 1} /\ q[Len(queue) + 1] = n /\ \A k \in DOMAIN queue : q[k] = queue[k]
    BY <2>2
  <2>10. /\ DOMAIN account'.queued = DOMAIN account.queued \union {Len(account.queued) + 1}
         /\ account'.queued[Len(account.queued) + 1] = n
         /\ \A i \in DOMAIN account.queued : account'.queued[i] = account.queued[i]
    BY <2>2
  <2>11. ASSUME NEW k \in DOMAIN queue PROVE \E i \in DOMAIN account.queued : account.queued[i] = queue[k] /\ ~Left(queue[k])
    <3>1. queue[k] \in Nat /\ Waits(queue[k])
      BY <2>2 DEF Waits
    <3> QED
      BY <3>1 DEF Line, WaitsOrLeft, WasQueued
  <2> HIDE DEF q
  <2>12. \A k \in DOMAIN q : \E i \in S : account'.queued[i] = q[k]
    <3> SUFFICES ASSUME NEW k \in DOMAIN q PROVE \E i \in S : account'.queued[i] = q[k]
      OBVIOUS
    <3>1. CASE k = Len(queue) + 1
      BY <3>1, <2>7, <2>8, <2>9, <2>10
    <3>2. CASE k \in DOMAIN queue
      <4>1. PICK i \in DOMAIN account.queued : account.queued[i] = queue[k] /\ ~Left(queue[k])
        BY <3>2, <2>11
      <4> QED
        BY <4>1, <3>2, <2>7, <2>9, <2>10
    <3> QED
      BY <3>1, <3>2, <2>9
  <2>13. \A k, l \in DOMAIN q : q[k] = q[l] => k = l
    <3>1. ASSUME NEW k \in DOMAIN queue, NEW l \in DOMAIN queue, queue[k] = queue[l], k < l PROVE FALSE
      <4>1. PICK i \in DOMAIN account.queued : account.queued[i] = queue[k]
        BY <2>11
      <4>2. i < i
        BY <3>1, <4>1 DEF Line, InOrder
      <4> QED
        BY <4>2, <2>2
    <3>2. \A k, l \in DOMAIN queue : k < l \/ l < k \/ k = l
      BY <2>2
    <3>3. \A k \in DOMAIN queue : queue[k] # n
      BY <2>8 DEF Waits
    <3> QED
      BY <3>1, <3>2, <3>3, <2>9
  <2>14. IsFiniteSet(S)
    <3>1. IsFiniteSet(DOMAIN account'.queued)
      <4>1. DOMAIN account'.queued = 1 .. Len(account.queued) + 1 /\ Len(account.queued) + 1 \in Int
        BY <2>2
      <4> QED
        BY <4>1, FS_Interval
    <3>2. S \in SUBSET DOMAIN account'.queued
      OBVIOUS
    <3> HIDE DEF S
    <3> QED
      BY <3>1, <3>2, FS_Subset
  <2> HIDE DEF S
  <2> DEFINE f == [k \in DOMAIN q |-> CHOOSE i \in S : account'.queued[i] = q[k]]
  <2>15. \A k \in DOMAIN q : f[k] \in S /\ account'.queued[f[k]] = q[k]
    BY <2>12
  <2>16. f \in [DOMAIN q -> S]
    BY <2>15
  <2> HIDE DEF f
  <2>17. f \in Injection(DOMAIN q, S)
    BY <2>13, <2>15, <2>16 DEF Injection, IsInjective
  <2>18. Cardinality(DOMAIN q) <= Cardinality(S)
    BY <2>14, <2>17, FS_Injection
  <2>19. Cardinality(DOMAIN q) = Len(q)
    BY <2>6, FS_Interval
  <2>20. ~(Len(q) <= QueueCap)
    BY <2>5 DEF Fits
  <2>21. Cardinality(S) \in Nat
    BY <2>14, FS_CardinalityType
  <2> QED
    BY <2>2, <2>6, <2>18, <2>19, <2>20, <2>21
<1>3. CASE ~(\E n \in DOMAIN task : Enqueue(n))
  <2>1. account'.shed = account.shed
    BY <1>3 DEF TelemetryNext, Arrive, Closed, Judge, Take, Sent, Refused, Retry, BuildKeyframe, KeyframeTaken, KeyframeMarked,
                KeyframeFails, TelemetryTyped, Accounts
  <2> QED
    BY <2>1, <1>1
<1> QED
  BY <1>2, <1>3

\* No alarm is thrown away but among alarms.
THEOREM AlarmsAreKept == TelemetrySpec => AlarmShedAmongAlarms
<1>1. TelemetrySpec => []TelemetryIInv
  BY TelemetryInitially, TelemetryStep, PTL DEF TelemetrySpec
<1> QED
  BY <1>1, ShedStep, PTL DEF TelemetrySpec, AlarmShedAmongAlarms

-----------------------------------------------------------------------------
(* The anchor watch *)

PostRecords == [at: {"idle", "sent", "taken"}, sig: 0 .. MaxSig, reply: Watches, age: 0 .. PostLimit]
Clocks == [sent: 0 .. MaxSig, failures: Nat, retryIn: 0 .. RetryMax, anyOk: BOOLEAN]

\* What WatchTypes leaves open.
WatchTyped ==
    /\ owner \in [held: Watches, armed: 0 .. MaxSig]
    /\ watch \in Watches
    /\ clock \in Clocks
    /\ sinceOk \in 0 .. BeatInside
    /\ checkin \in [due: 0 .. CheckinIdle, failures: Nat]
    /\ posts \in [Posts -> PostRecords]
    /\ heard \in [since: Nat, losses: 0 .. MaxLosses]

\* The silence there may be by the time a heartbeat is sent again, when so many posts were lost.
Allowed(losses) == BeatInside + PostLimit + losses * (PostLimit + RetryMax)

Retrying == clock.failures > 0 /\ ~clock.anyOk

\* The cloud has been silent no longer than since it took a post that is still under way.
TakenIsHeard == \A p \in Posts : posts[p].at = "taken" => heard.since <= posts[p].age

\* How long the cloud has not heard the hub, by what the heartbeat loop is doing: it waits for the
\* interval, or for a retry, or a heartbeat is on its way.
BeatOnTime ==
    watch.kind = "anchor" =>
        /\ Free("beat") /\ ~Retrying => heard.since <= sinceOk + PostLimit
        /\ Free("beat") /\ Retrying => heard.since + clock.retryIn <= Allowed(heard.losses)
        /\ posts["beat"].at = "sent" => heard.since <= Allowed(heard.losses) + posts["beat"].age

WatchIInv == WatchTyped /\ TakenIsHeard /\ BeatOnTime

-----------------------------------------------------------------------------

\* A power of two is a number: so many subsets a set has.
LEMMA PowerType == \A n \in Nat : 2 ^ n \in Nat
<1> TAKE n \in Nat
<1> DEFINE S == 1 .. n
<1>1. IsFiniteSet(S) /\ Cardinality(S) = n
  BY FS_Interval
<1>2. IsFiniteSet(SUBSET S) /\ Cardinality(SUBSET S) = 2 ^ n
  BY <1>1, FS_SUBSET
<1> QED
  BY <1>2, FS_CardinalityType

LEMMA Numbers ==
    /\ BeatInside \in Nat /\ PostLimit \in Nat /\ RetryMax \in Nat /\ LostAfter \in Nat /\ MaxLosses \in Nat /\ MaxSig \in Nat
    /\ CheckinAnchor \in Nat /\ CheckinZone \in Nat /\ CheckinIdle \in Nat /\ CheckinRetry \in Nat /\ CheckinRetryMax \in Nat
    /\ CheckinAnchor <= CheckinIdle /\ CheckinZone <= CheckinIdle /\ CheckinRetry <= CheckinIdle /\ CheckinRetryMax <= CheckinIdle
    /\ RetryMax <= BeatInside
BY WatchAssumption, WatchMargin

\* A lost post allows for itself and a retry; the last post that may be lost leaves one to be heard.
LEMMA AllowedGrows ==
    ASSUME NEW k \in 0 .. MaxLosses
    PROVE  /\ Allowed(k) \in Nat /\ BeatInside + PostLimit <= Allowed(k) /\ Allowed(k) + PostLimit <= LostAfter
           /\ Allowed(k + 1) = Allowed(k) + PostLimit + RetryMax
<1> DEFINE c == PostLimit + RetryMax
<1>1. c \in Nat /\ k \in Nat /\ MaxLosses - k \in Nat /\ BeatInside \in Nat /\ PostLimit \in Nat
      /\ RetryMax \in Nat /\ MaxLosses \in Nat /\ LostAfter \in Nat
  BY Numbers
<1>2. BeatInside + 2 * PostLimit + MaxLosses * c <= LostAfter
  BY WatchMargin
<1>3. Allowed(k) = BeatInside + PostLimit + k * c /\ Allowed(k + 1) = BeatInside + PostLimit + (k + 1) * c
  BY DEF Allowed
<1>4. c = PostLimit + RetryMax
  OBVIOUS
<1> HIDE DEF c
<1>5. k * c \in Nat /\ (MaxLosses - k) * c \in Nat
  BY <1>1
<1>6. (k + 1) * c = k * c + c /\ MaxLosses * c = k * c + (MaxLosses - k) * c
  BY <1>1
<1> DEFINE x == k * c
           y == (MaxLosses - k) * c
<1>7. x \in Nat /\ y \in Nat /\ (k + 1) * c = x + c /\ MaxLosses * c = x + y /\ Allowed(k) = BeatInside + PostLimit + x
  BY <1>3, <1>5, <1>6
<1>8. BeatInside + 2 * PostLimit + (x + y) <= LostAfter /\ Allowed(k + 1) = BeatInside + PostLimit + (x + c)
  BY <1>2, <1>3, <1>7
<1> HIDE DEF x, y
<1> QED
  BY <1>1, <1>4, <1>7, <1>8

LEMMA RetryDelayType == ASSUME NEW n \in Nat, n > 0 PROVE RetryDelay(n) \in 0 .. RetryMax
<1>1. 2 ^ (n - 1) \in Nat
  BY PowerType
<1> DEFINE d == 2 ^ (n - 1)
<1>2. RetryDelay(n) = IF d > RetryMax THEN RetryMax ELSE d
  BY DEF RetryDelay, AtMost
<1> HIDE DEF d
<1> QED
  BY <1>1, <1>2, Numbers DEF d

LEMMA CheckinDelayType == ASSUME NEW n \in Nat, n > 0 PROVE CheckinDelay(n) \in 0 .. CheckinIdle
<1>1. CheckinRetry * 2 ^ (n - 1) \in Nat
  BY PowerType, Numbers
<1> DEFINE d == CheckinRetry * 2 ^ (n - 1)
<1>2. CheckinDelay(n) = IF watch.kind = "anchor" THEN CheckinRetry ELSE IF d > CheckinRetryMax THEN CheckinRetryMax ELSE d
  BY DEF CheckinDelay, AtMost
<1> HIDE DEF d
<1> QED
  BY <1>1, <1>2, Numbers DEF d

LEMMA UnpostedType == Disarmed \in Watches /\ Unposted \in PostRecords /\ Unposted.at = "idle"
<1>1. Disarmed \in Watches
  BY Numbers DEF Disarmed, Watches, Kinds
<1>2. 0 \in 0 .. MaxSig /\ 0 \in 0 .. PostLimit
  BY Numbers
<1>3. Unposted = [at |-> "idle", sig |-> 0, reply |-> Disarmed, age |-> 0]
  BY DEF Unposted
<1>4. [at |-> "idle", sig |-> 0, reply |-> Disarmed, age |-> 0] \in PostRecords
  BY <1>1, <1>2 DEF PostRecords
<1>5. Unposted.at = "idle"
  BY <1>3
<1> QED
  BY <1>1, <1>3, <1>4, <1>5, Zenon

LEMMA BegunType ==
    ASSUME NEW sig \in 0 .. MaxSig
    PROVE  /\ [Unposted EXCEPT !.at = "sent", !.sig = sig] \in PostRecords
           /\ [Unposted EXCEPT !.at = "sent", !.sig = sig].at = "sent" /\ [Unposted EXCEPT !.at = "sent", !.sig = sig].age = 0
<1>1. Unposted \in PostRecords /\ Unposted.age = 0
  BY UnpostedType DEF Unposted
<1> QED
  BY <1>1 DEF PostRecords

LEMMA WatchInitially == WatchInit => WatchIInv
<1> SUFFICES ASSUME WatchInit PROVE WatchIInv
  OBVIOUS
<1>1. WatchTyped
  <2>1. FreshClock \in Clocks /\ [held |-> Disarmed, armed |-> 0] \in [held: Watches, armed: 0 .. MaxSig]
    BY UnpostedType, Numbers DEF FreshClock, Clocks
  <2>2. /\ [due |-> 0, failures |-> 0] \in [due: 0 .. CheckinIdle, failures: Nat]
        /\ [since |-> LostAfter + 1, losses |-> 0] \in [since: Nat, losses: 0 .. MaxLosses]
        /\ BeatInside \in 0 .. BeatInside
    BY Numbers
  <2>3. [p \in Posts |-> Unposted] \in [Posts -> PostRecords]
    BY UnpostedType
  <2> QED
    BY <2>1, <2>2, <2>3, UnpostedType DEF WatchInit, WatchTyped
<1>2. TakenIsHeard
  BY UnpostedType DEF WatchInit, TakenIsHeard
<1>3. watch.kind # "anchor"
  BY DEF WatchInit, Disarmed
<1> QED
  BY <1>1, <1>2, <1>3 DEF WatchIInv, BeatOnTime

\* A post begins: a heartbeat, while there is still time for it.
LEMMA PostBegins ==
    ASSUME WatchIInv, NEW p \in Posts, NEW sig \in 0 .. MaxSig, Free(p), Under(p, sig),
           UNCHANGED <<owner, watch, clock, sinceOk, checkin, heard>>
    PROVE  WatchIInv'
<1> DEFINE r == [Unposted EXCEPT !.at = "sent", !.sig = sig]
<1>1. r \in PostRecords /\ r.at = "sent" /\ r.age = 0
  BY BegunType
<1>2. posts' = [posts EXCEPT ![p] = r]
  BY DEF Under
<1> HIDE DEF r
<1>3. WatchTyped'
  BY <1>1, <1>2 DEF WatchIInv, WatchTyped
<1>4. posts'[p] = r /\ \A q \in Posts : q # p => posts'[q] = posts[q]
  BY <1>2 DEF WatchIInv, WatchTyped
<1>5. TakenIsHeard'
  BY <1>1, <1>4 DEF WatchIInv, TakenIsHeard
<1>6. BeatOnTime'
  <2>1. CASE p # "beat"
    <3>1. posts'["beat"] = posts["beat"]
      BY <1>4, <2>1 DEF Posts
    <3> QED
      BY <3>1 DEF WatchIInv, BeatOnTime, Free, Retrying
  <2>2. CASE p = "beat" /\ watch.kind = "anchor"
    <3> DEFINE a == Allowed(heard.losses)
    <3>1. a \in Nat /\ BeatInside + PostLimit <= a
      BY AllowedGrows DEF WatchIInv, WatchTyped
    <3>2. /\ ~Retrying => heard.since <= sinceOk + PostLimit
          /\ Retrying => heard.since + clock.retryIn <= a
      BY <2>2 DEF WatchIInv, BeatOnTime
    <3> HIDE DEF a
    <3>3. heard.since <= a
      BY <3>1, <3>2, Numbers DEF WatchIInv, WatchTyped, Clocks
    <3>4. posts'["beat"].at = "sent" /\ posts'["beat"].age = 0 /\ heard' = heard
      BY <1>1, <1>4, <2>2
    <3> QED
      BY <3>1, <3>3, <3>4 DEF BeatOnTime, Free, a
  <2> QED
    BY <2>1, <2>2 DEF BeatOnTime
<1> QED
  BY <1>3, <1>5, <1>6 DEF WatchIInv

\* The cloud has heard the hub.
LEMMA TakenStep == ASSUME WatchIInv, NEW p \in Posts, Taken(p) PROVE WatchIInv'
<1>1. /\ posts[p] \in PostRecords /\ owner.held \in Watches
      /\ posts' = [posts EXCEPT ![p] = [posts[p] EXCEPT !.at = "taken", !.reply = owner.held]]
      /\ heard'.since = 0 /\ heard'.losses = 0 /\ heard' = [since |-> 0, losses |-> 0]
      /\ UNCHANGED <<owner, watch, clock, sinceOk, checkin>>
  BY DEF Taken, WatchIInv, WatchTyped
<1> DEFINE r == [posts[p] EXCEPT !.at = "taken", !.reply = owner.held]
<1>2. r \in PostRecords /\ r.at = "taken"
  BY <1>1 DEF PostRecords
<1>3. posts' = [posts EXCEPT ![p] = r]
  BY <1>1
<1> HIDE DEF r
<1>4. WatchTyped'
  BY <1>1, <1>2, <1>3, Numbers DEF WatchIInv, WatchTyped
<1>5. \A q \in Posts : posts'[q].age \in Nat /\ (posts'[q].at = "idle" <=> posts[q].at = "idle")
  <2>1. posts[p].at # "idle"
    BY DEF Taken
  <2>2. \A q \in Posts : posts'[q] = IF q = p THEN r ELSE posts[q]
    BY <1>3 DEF WatchIInv, WatchTyped
  <2>3. \A q \in Posts : posts'[q] \in PostRecords
    BY <1>4 DEF WatchTyped
  <2>4. \A q \in Posts : posts'[q].age \in Nat
    BY <2>3, Numbers DEF PostRecords
  <2> QED
    BY <1>2, <2>1, <2>2, <2>4
<1>6. TakenIsHeard'
  BY <1>1, <1>5 DEF TakenIsHeard
<1>7. BeatOnTime'
  <2> DEFINE a == Allowed(0)
  <2>1. a \in Nat /\ BeatInside + PostLimit <= a
    BY AllowedGrows, Numbers
  <2>2. clock.retryIn <= a /\ clock.retryIn \in Nat
    BY <2>1, Numbers DEF WatchIInv, WatchTyped, Clocks
  <2> HIDE DEF a
  <2>3. 0 <= sinceOk + PostLimit
    BY Numbers DEF WatchIInv, WatchTyped
  <2>4. "beat" \in Posts
    BY DEF Posts
  <2> QED
    BY <1>1, <1>5, <2>1, <2>2, <2>3, <2>4 DEF BeatOnTime, a
<1> QED
  BY <1>4, <1>6, <1>7 DEF WatchIInv

\* An answer arrives: it was given no longer ago than the post is old.
LEMMA DeliveredStep == ASSUME WatchIInv, NEW p \in Posts, NEW readable \in BOOLEAN, Delivered(p, readable) PROVE WatchIInv'
<1>1. posts[p] \in PostRecords /\ posts[p].reply \in Watches /\ posts[p].sig \in 0 .. MaxSig /\ posts[p].at = "taken"
      /\ posts[p].age \in Nat /\ posts[p].age <= PostLimit
  BY Numbers DEF Delivered, WatchIInv, WatchTyped, PostRecords
<1>2. watch' \in Watches
  BY <1>1 DEF Delivered, AdoptedReply, WatchIInv, WatchTyped
<1>3. \A w \in Watches : CheckinInterval(w) \in 0 .. CheckinIdle
  BY Numbers DEF Watches, Kinds, CheckinInterval
<1>4. checkin' \in [due: 0 .. CheckinIdle, failures: Nat]
  BY <1>2, <1>3 DEF Delivered, WatchIInv, WatchTyped
<1>5. clock' \in Clocks /\ ~Retrying'
  <2>1. CASE p = "beat"
    <3>1. clock' = [clock EXCEPT !.sent = posts[p].sig, !.failures = 0, !.anyOk = TRUE]
      BY <2>1 DEF Delivered
    <3>2. clock' \in Clocks
      BY <3>1, <1>1 DEF WatchIInv, WatchTyped, Clocks
    <3>3. clock'.failures = 0
      BY <3>1 DEF WatchIInv, WatchTyped, Clocks
    <3>4. ~Retrying'
      BY <3>3 DEF Retrying
    <3> QED
      BY <3>2, <3>4
  <2>2. CASE p # "beat"
    <3> DEFINE failing == clock.failures > 0
    <3>1. clock' = [clock EXCEPT !.anyOk = failing]
      BY <2>2 DEF Delivered
    <3>2. failing \in BOOLEAN
      OBVIOUS
    <3>3. failing <=> clock.failures > 0
      OBVIOUS
    <3> HIDE DEF failing
    <3>4. clock' \in Clocks
      BY <3>1, <3>2 DEF WatchIInv, WatchTyped, Clocks
    <3>5. clock'.failures = clock.failures /\ (failing => clock'.anyOk)
      BY <3>1 DEF WatchIInv, WatchTyped, Clocks
    <3>6. ~Retrying'
      BY <3>3, <3>5 DEF Retrying
    <3> QED
      BY <3>4, <3>6
  <2> QED
    BY <2>1, <2>2
<1>6. /\ posts' = [posts EXCEPT ![p] = Unposted] /\ sinceOk' = 0 /\ owner' = owner /\ heard' = heard
  BY DEF Delivered
<1>7. WatchTyped'
  BY <1>2, <1>4, <1>5, <1>6, UnpostedType, Numbers DEF WatchIInv, WatchTyped
<1>8. \A q \in Posts : posts'[q] = IF q = p THEN Unposted ELSE posts[q]
  BY <1>6 DEF WatchIInv, WatchTyped
<1>9. heard.since <= PostLimit /\ heard.since \in Nat
  BY <1>1, Numbers DEF WatchIInv, WatchTyped, TakenIsHeard
<1>10. TakenIsHeard'
  BY <1>6, <1>8, UnpostedType DEF WatchIInv, TakenIsHeard
<1>11. BeatOnTime'
  <2> DEFINE a == Allowed(heard.losses)
  <2>1. a \in Nat /\ BeatInside + PostLimit <= a
    BY AllowedGrows DEF WatchIInv, WatchTyped
  <2> HIDE DEF a
  <2>2. "beat" \in Posts /\ posts'["beat"] \in PostRecords
    BY <1>7 DEF Posts, WatchTyped
  <2>3. posts'["beat"].age \in Nat
    BY <2>2, Numbers DEF PostRecords
  <2>4. heard.since <= a + posts'["beat"].age
    BY <2>1, <2>3, <1>9, Numbers
  <2> QED
    BY <1>5, <1>6, <1>9, <2>4, Numbers DEF BeatOnTime, a
<1> QED
  BY <1>7, <1>10, <1>11 DEF WatchIInv

\* A post is lost; a heartbeat is sent again soon.
LEMMA FailsStep == ASSUME WatchIInv, NEW p \in Posts, Fails(p) PROVE WatchIInv'
<1>1. /\ posts' = [posts EXCEPT ![p] = Unposted] /\ posts[p].at # "idle"
      /\ heard' = [heard EXCEPT !.losses = heard.losses + 1] /\ heard.losses < MaxLosses
      /\ UNCHANGED <<owner, watch, sinceOk>>
  BY DEF Fails
<1>2. heard'.since = heard.since /\ heard'.losses = heard.losses + 1 /\ heard.since \in Nat /\ heard.losses \in 0 .. MaxLosses
      /\ heard' \in [since: Nat, losses: 0 .. MaxLosses]
  BY <1>1, Numbers DEF WatchIInv, WatchTyped
<1>3. clock.failures \in Nat /\ clock \in Clocks /\ checkin.failures \in Nat
  BY DEF WatchIInv, WatchTyped, Clocks
<1>4. BeatFailed \in Clocks /\ BeatFailed.failures > 0 /\ BeatFailed.anyOk = FALSE /\ BeatFailed.retryIn \in 0 .. RetryMax
  <2> DEFINE n == IF clock.failures > 0 /\ RetryDelay(clock.failures) = RetryMax THEN clock.failures ELSE clock.failures + 1
  <2>1. n \in Nat /\ n > 0
    BY <1>3
  <2>2. BeatFailed = [clock EXCEPT !.failures = n, !.retryIn = RetryDelay(n), !.anyOk = FALSE]
    BY DEF BeatFailed
  <2> HIDE DEF n
  <2> QED
    BY <1>3, <2>1, <2>2, RetryDelayType DEF Clocks
<1>5. clock' = (IF p = "beat" THEN BeatFailed ELSE clock) /\ clock' \in Clocks
  BY <1>3, <1>4 DEF Fails
<1>6. checkin' \in [due: 0 .. CheckinIdle, failures: Nat]
  <2> DEFINE n == IF SlowestRetry THEN checkin.failures ELSE checkin.failures + 1
  <2>1. n \in Nat /\ n > 0
    BY <1>3 DEF SlowestRetry
  <2>2. checkin' = IF p = "keyframe" THEN [due |-> CheckinDelay(n), failures |-> n] ELSE checkin
    BY DEF Fails
  <2> HIDE DEF n
  <2> QED
    BY <2>1, <2>2, CheckinDelayType DEF WatchIInv, WatchTyped
<1>7. WatchTyped'
  BY <1>1, <1>2, <1>5, <1>6, UnpostedType DEF WatchIInv, WatchTyped
<1>8. \A q \in Posts : posts'[q] = IF q = p THEN Unposted ELSE posts[q]
  BY <1>1 DEF WatchIInv, WatchTyped
<1>9. TakenIsHeard'
  BY <1>2, <1>8, UnpostedType DEF WatchIInv, TakenIsHeard
<1>10. BeatOnTime'
  <2> DEFINE a == Allowed(heard.losses)
             b == Allowed(heard.losses + 1)
  <2>1. a \in Nat /\ BeatInside + PostLimit <= a /\ b = a + PostLimit + RetryMax
    BY AllowedGrows DEF WatchIInv, WatchTyped
  <2>2. "beat" \in Posts /\ posts["beat"] \in PostRecords
    BY DEF Posts, WatchIInv, WatchTyped
  <2>3. posts["beat"].age \in Nat /\ posts["beat"].age <= PostLimit /\ posts["beat"].at \in {"idle", "sent", "taken"}
    BY <2>2, Numbers DEF PostRecords
  <2> HIDE DEF a, b
  <2> SUFFICES ASSUME watch.kind = "anchor" PROVE BeatOnTime'
    BY <1>1 DEF BeatOnTime
  <2>4. /\ Free("beat") /\ ~Retrying => heard.since <= sinceOk + PostLimit
        /\ Free("beat") /\ Retrying => heard.since + clock.retryIn <= a
        /\ posts["beat"].at = "sent" => heard.since <= a + posts["beat"].age
    BY DEF WatchIInv, BeatOnTime, a
  <2>5. CASE p = "beat"
    <3>1. posts'["beat"].at = "idle" /\ Retrying'
      BY <2>5, <2>2, <1>4, <1>5, <1>8, UnpostedType DEF Retrying
    <3>2. heard.since <= a + PostLimit
      <4>1. CASE posts["beat"].at = "sent"
        BY <4>1, <2>1, <2>3, <2>4, <1>2, Numbers
      <4>2. CASE posts["beat"].at = "taken"
        <5>1. heard.since <= posts["beat"].age
          BY <4>2, <2>2 DEF WatchIInv, TakenIsHeard
        <5> QED
          BY <5>1, <2>1, <2>3, <1>2, Numbers
      <4> QED
        BY <4>1, <4>2, <2>3, <2>5, <1>1
    <3>3. heard.since + clock'.retryIn <= b
      BY <3>2, <2>1, <2>5, <1>2, <1>4, <1>5, Numbers
    <3> QED
      BY <3>1, <3>3, <1>2, <1>1 DEF BeatOnTime, Free, b
  <2>6. CASE p # "beat"
    <3>1. posts'["beat"] = posts["beat"] /\ clock' = clock
      BY <2>6, <2>2, <1>5, <1>8
    <3>2. a <= b /\ b \in Nat
      BY <2>1, Numbers
    <3>3. clock.retryIn \in Nat
      BY <1>3, Numbers DEF Clocks
    <3>4. /\ Free("beat") /\ Retrying => heard.since + clock.retryIn <= b
          /\ posts["beat"].at = "sent" => heard.since <= b + posts["beat"].age
      BY <2>1, <2>3, <2>4, <3>2, <3>3, <1>2
    <3> QED
      BY <3>1, <3>4, <2>4, <1>1, <1>2 DEF BeatOnTime, Free, Retrying, b
  <2> QED
    BY <2>5, <2>6
<1> QED
  BY <1>7, <1>9, <1>10 DEF WatchIInv

\* No anchor watch, no heartbeat.
LEMMA DisarmStep == ASSUME WatchIInv, Disarm PROVE WatchIInv'
<1>1. FreshClock \in Clocks
  BY Numbers DEF FreshClock, Clocks
<1>2. clock' = FreshClock /\ watch.kind # "anchor" /\ UNCHANGED <<owner, watch, sinceOk, checkin, posts, heard>>
  BY DEF Disarm
<1> QED
  BY <1>1, <1>2 DEF WatchIInv, WatchTyped, TakenIsHeard, BeatOnTime

LEMMA CloudStep == ASSUME WatchIInv, CloudChanges PROVE WatchIInv'
<1>1. UNCHANGED <<watch, clock, sinceOk, checkin, posts, heard>>
  BY DEF CloudChanges
<1>2. owner' \in [held: Watches, armed: 0 .. MaxSig]
  <2>1. CASE owner' = [owner EXCEPT !.held = Disarmed]
    BY <2>1, UnpostedType DEF WatchIInv, WatchTyped
  <2>2. CASE /\ owner.armed < MaxSig
             /\ \E kind \in Kinds \ {"none"} :
                  owner' = [held |-> [sig |-> owner.armed + 1, kind |-> kind], armed |-> owner.armed + 1]
    <3>1. owner.armed + 1 \in 0 .. MaxSig /\ owner.armed + 1 # 0
      BY <2>2, Numbers DEF WatchIInv, WatchTyped
    <3>2. \A kind \in Kinds \ {"none"} : [sig |-> owner.armed + 1, kind |-> kind] \in Watches
      BY <3>1 DEF Watches
    <3> QED
      BY <2>2, <3>1, <3>2
  <2> QED
    BY <2>1, <2>2 DEF CloudChanges
<1> QED
  BY <1>1, <1>2 DEF WatchIInv, WatchTyped, TakenIsHeard, BeatOnTime, Free, Retrying

\* Time passes for the silence and for what bounds it alike, and not past a heartbeat that is due.
LEMMA TimeStep == ASSUME WatchIInv, TimePasses PROVE WatchIInv'
<1>1. /\ ~(Free("beat") /\ watch.kind = "anchor" /\ BeatDue(BeatInside))
      /\ \A p \in Posts : ~Free(p) => posts[p].age < PostLimit
      /\ posts' = [p \in Posts |-> IF Free(p) THEN posts[p] ELSE [posts[p] EXCEPT !.age = posts[p].age + 1]]
      /\ clock' = [clock EXCEPT !.retryIn = CountDown(clock.retryIn)]
      /\ sinceOk' = AtMost(sinceOk + 1, BeatInside)
      /\ checkin' = [checkin EXCEPT !.due = CountDown(checkin.due)]
      /\ heard' = [heard EXCEPT !.since = AtMost(heard.since + 1, LostAfter + 1)]
      /\ owner' = owner /\ watch' = watch
  BY DEF TimePasses
<1>2. /\ clock \in Clocks /\ clock.retryIn \in 0 .. RetryMax /\ sinceOk \in 0 .. BeatInside
      /\ checkin \in [due: 0 .. CheckinIdle, failures: Nat] /\ checkin.due \in 0 .. CheckinIdle
      /\ heard \in [since: Nat, losses: 0 .. MaxLosses] /\ heard.since \in Nat
  BY DEF WatchIInv, WatchTyped, Clocks
<1>3. CountDown(clock.retryIn) \in 0 .. RetryMax /\ CountDown(checkin.due) \in 0 .. CheckinIdle
  BY <1>2, Numbers DEF CountDown
<1>4. /\ clock' \in Clocks /\ clock'.retryIn = CountDown(clock.retryIn)
      /\ clock'.failures = clock.failures /\ clock'.anyOk = clock.anyOk
  BY <1>1, <1>2, <1>3 DEF Clocks
<1>5. sinceOk' \in 0 .. BeatInside /\ (sinceOk < BeatInside => sinceOk' = sinceOk + 1)
  BY <1>1, <1>2, Numbers DEF AtMost
<1>6. AtMost(heard.since + 1, LostAfter + 1) \in Nat /\ AtMost(heard.since + 1, LostAfter + 1) <= heard.since + 1
  BY <1>2, Numbers DEF AtMost
<1>7. heard' \in [since: Nat, losses: 0 .. MaxLosses] /\ heard'.since <= heard.since + 1 /\ heard'.losses = heard.losses
  BY <1>1, <1>2, <1>6
<1>8. \A p \in Posts : /\ posts[p] \in PostRecords /\ posts[p].age \in Nat /\ posts'[p] \in PostRecords
                       /\ posts'[p].at = posts[p].at
                       /\ posts[p].at # "idle" => posts'[p].age = posts[p].age + 1
  <2> TAKE p \in Posts
  <2>1. posts[p] \in PostRecords /\ posts[p].age \in 0 .. PostLimit
    BY DEF WatchIInv, WatchTyped, PostRecords
  <2>2. CASE Free(p)
    <3>1. posts'[p] = posts[p] /\ posts[p].at = "idle"
      BY <2>2, <1>1 DEF Free
    <3> QED
      BY <3>1, <2>1, Numbers
  <2>3. CASE ~Free(p)
    <3>1. posts'[p] = [posts[p] EXCEPT !.age = posts[p].age + 1]
      BY <2>3, <1>1
    <3>2. posts[p].age + 1 \in 0 .. PostLimit
      BY <2>1, <2>3, <1>1, Numbers
    <3>3. posts'[p] \in PostRecords /\ posts'[p].at = posts[p].at /\ posts'[p].age = posts[p].age + 1
      BY <3>1, <3>2, <2>1 DEF PostRecords
    <3> QED
      BY <2>1, <3>3, Numbers
  <2> QED
    BY <2>2, <2>3
<1>9. posts' \in [Posts -> PostRecords]
  BY <1>1, <1>8
<1>10. WatchTyped'
  <2>1. checkin' \in [due: 0 .. CheckinIdle, failures: Nat]
    BY <1>1, <1>2, <1>3
  <2> QED
    BY <2>1, <1>1, <1>4, <1>5, <1>7, <1>9 DEF WatchIInv, WatchTyped
<1>11. TakenIsHeard'
  <2> SUFFICES ASSUME NEW p \in Posts, posts'[p].at = "taken" PROVE heard'.since <= posts'[p].age
    BY DEF TakenIsHeard
  <2>1. posts[p].at = "taken" /\ posts'[p].age = posts[p].age + 1 /\ posts[p].age \in Nat
    BY <1>8
  <2>2. heard.since <= posts[p].age
    BY <2>1 DEF WatchIInv, TakenIsHeard
  <2> QED
    BY <2>1, <2>2, <1>2, <1>7
<1>12. BeatOnTime'
  <2> DEFINE a == Allowed(heard.losses)
  <2>1. a \in Nat
    BY AllowedGrows DEF WatchIInv, WatchTyped
  <2>2. "beat" \in Posts
    BY DEF Posts
  <2> HIDE DEF a
  <2> SUFFICES ASSUME watch.kind = "anchor" PROVE BeatOnTime'
    BY <1>1 DEF BeatOnTime
  <2>3. /\ Free("beat") /\ ~Retrying => heard.since <= sinceOk + PostLimit
        /\ Free("beat") /\ Retrying => heard.since + clock.retryIn <= a
        /\ posts["beat"].at = "sent" => heard.since <= a + posts["beat"].age
    BY DEF WatchIInv, BeatOnTime, a
  <2>4. Free("beat") /\ ~Retrying => sinceOk < BeatInside
    BY <1>1, <1>2, Numbers DEF BeatDue, Retrying
  <2>5. Free("beat") /\ Retrying => clock.retryIn # 0
    BY <1>1 DEF BeatDue, Retrying
  <2>6. Retrying' <=> Retrying
    BY <1>4 DEF Retrying
  <2>7. Free("beat") /\ ~Retrying => heard'.since <= sinceOk' + PostLimit
    BY <2>3, <2>4, <1>2, <1>5, <1>7, Numbers
  <2>8. Free("beat") /\ Retrying => heard'.since + clock'.retryIn <= a
    BY <2>1, <2>3, <2>5, <1>2, <1>4, <1>7, Numbers DEF CountDown
  <2>9. posts["beat"].at = "sent" => heard'.since <= a + posts'["beat"].age
    <3> SUFFICES ASSUME posts["beat"].at = "sent" PROVE heard'.since <= a + posts'["beat"].age
      OBVIOUS
    <3>1. posts'["beat"].age = posts["beat"].age + 1 /\ posts["beat"].age \in Nat
      BY <2>2, <1>8
    <3> QED
      BY <3>1, <2>1, <2>3, <1>2, <1>7
  <2>10. posts'["beat"].at = posts["beat"].at
    BY <2>2, <1>8
  <2> QED
    BY <2>6, <2>7, <2>8, <2>9, <2>10, <1>7 DEF BeatOnTime, Free, a
<1> QED
  BY <1>10, <1>11, <1>12 DEF WatchIInv

LEMMA WatchStep == WatchIInv /\ [WatchNext]_watchVars => WatchIInv'
<1> SUFFICES ASSUME WatchIInv, [WatchNext]_watchVars PROVE WatchIInv'
  OBVIOUS
<1>1. 0 \in 0 .. MaxSig /\ watch.sig \in 0 .. MaxSig /\ {"keyframe", "beat", "event"} = Posts
  BY Numbers DEF WatchIInv, WatchTyped, Watches, Posts
<1>2. CASE Keyframe
  BY <1>1, <1>2, PostBegins DEF Keyframe
<1>3. CASE Beat
  BY <1>1, <1>3, PostBegins DEF Beat
<1>4. CASE Event
  BY <1>1, <1>4, PostBegins DEF Event
<1>5. CASE Disarm
  BY <1>5, DisarmStep
<1>6. ASSUME NEW p \in Posts, PostEnds(p) PROVE WatchIInv'
  <2>1. CASE Taken(p)
    BY <2>1, TakenStep
  <2>2. CASE \E readable \in BOOLEAN : Delivered(p, readable)
    BY <2>2, DeliveredStep
  <2> QED
    BY <2>1, <2>2, <1>6 DEF PostEnds
<1>7. ASSUME NEW p \in Posts, Fails(p) PROVE WatchIInv'
  BY <1>7, FailsStep
<1>8. CASE CloudChanges
  BY <1>8, CloudStep
<1>9. CASE TimePasses
  BY <1>9, TimeStep
<1>10. CASE UNCHANGED watchVars
  BY <1>10 DEF watchVars, WatchIInv, WatchTyped, TakenIsHeard, BeatOnTime, Free, Retrying
<1> QED
  BY <1>2, <1>3, <1>4, <1>5, <1>6, <1>7, <1>8, <1>9, <1>10 DEF WatchNext

\* Whatever the heartbeat loop is doing, the silence is within the cloud's patience.
LEMMA WatchImplied == WatchIInv => WatchInv
<1> SUFFICES ASSUME WatchIInv PROVE WatchInv
  OBVIOUS
<1>1. WatchTypes
  BY DEF WatchIInv, WatchTyped, WatchTypes, Clocks, PostRecords
<1>2. ASSUME watch.kind = "anchor" PROVE heard.since <= LostAfter
  <2> DEFINE a == Allowed(heard.losses)
  <2>1. a \in Nat /\ BeatInside + PostLimit <= a /\ a + PostLimit <= LostAfter
    BY AllowedGrows DEF WatchIInv, WatchTyped
  <2>2. "beat" \in Posts /\ posts["beat"] \in PostRecords
    BY DEF WatchIInv, WatchTyped, Posts
  <2>3. posts["beat"].age \in 0 .. PostLimit /\ posts["beat"].at \in {"idle", "sent", "taken"}
    BY <2>2 DEF PostRecords
  <2>4. /\ Free("beat") /\ ~Retrying => heard.since <= sinceOk + PostLimit
        /\ Free("beat") /\ Retrying => heard.since + clock.retryIn <= a
        /\ posts["beat"].at = "sent" => heard.since <= a + posts["beat"].age
    BY <1>2 DEF WatchIInv, BeatOnTime
  <2>5. posts["beat"].at = "taken" => heard.since <= posts["beat"].age
    BY <2>2 DEF WatchIInv, TakenIsHeard
  <2>6. sinceOk \in 0 .. BeatInside /\ clock.retryIn \in 0 .. RetryMax /\ heard.since \in Nat
    BY DEF WatchIInv, WatchTyped, Clocks
  <2> HIDE DEF a
  <2> QED
    BY <2>1, <2>3, <2>4, <2>5, <2>6, Numbers DEF Free
<1> QED
  BY <1>1, <1>2 DEF WatchInv, HeardInTime

\* The boat under an anchor watch is never silent long enough for the cloud to call it lost
\* (cadence.rs: "one lost beat can never age the vessel past the cloud's 10-minute lost-device
\* alarm"), whatever the intervals, while the posts lost in a row leave the margin WatchMargin names.
THEOREM BoatIsNotMissed == WatchSpec => []WatchInv
<1>1. WatchSpec => []WatchIInv
  BY WatchInitially, WatchStep, PTL DEF WatchSpec
<1> QED
  BY <1>1, WatchImplied, PTL

-----------------------------------------------------------------------------
(* The member keys *)

Sigs == Nat \union {NoSig}

\* What KeyTypeOK leaves open of the two tasks: a fetch writes a set, never a 304.
TaskTypes ==
    /\ fetch \in [at: {"idle", "asked", "answered", "keys", "store"}, known: Sigs,
                  got: Sets \union {NotModified}, etag: Sigs]
    /\ Writing(fetch) => fetch.got \in Sets
    /\ push \in [at: {"idle", "keys", "store"}, set: Sets]

\* One task writes at a time, and the gate already goes by the signature it will store.
OneWriter ==
    ~crossed =>
        /\ ~(Writing(fetch) /\ Writing(push))
        /\ Writing(fetch) => gate.applied = fetch.etag
        /\ Writing(push) => gate.applied = MemberSetSig(push.set)

\* The keys come before the store.
KeysFirst ==
    ~crossed =>
        /\ fetch.at = "store" => keys = fetch.got
        /\ push.at = "store" => keys = push.set

KeyIInv == KeyTypeOK /\ TaskTypes /\ OneWriter /\ KeysFirst /\ StoreFollows

USE KeyAssumption DEF Sigs, Sets

-----------------------------------------------------------------------------
(* The operators of the gate *)

LEMMA SignatureType ==
    ASSUME worker \in Workers, NEW set \in Sets PROVE MemberSetSig(set) \in Nat
  BY DEF MemberSetSig

Gates == [applied: Sigs, want: Reasons \union {NoReason},
          wantSig: Sets \union {NoSig}, aged: BOOLEAN, backoff: BOOLEAN]

\* Nothing but an applied or a pushed set changes the signature the gate goes by.
LEMMA GateTypes ==
    ASSUME NEW g \in Gates
    PROVE  /\ Fresh(g) \in Gates /\ Fresh(g).applied = g.applied
           /\ NoteDoorMiss(g) \in Gates /\ NoteDoorMiss(g).applied = g.applied
           /\ Failed(g) \in Gates /\ Failed(g).applied = g.applied
           /\ \A sig \in Sets \union {NoSig} :
                 NoteReplySig(g, sig) \in Gates /\ NoteReplySig(g, sig).applied = g.applied
  BY DEF Gates, Fresh, NoteDoorMiss, Failed, NoteReplySig, Reasons

LEMMA BootType == ASSUME NEW sig \in Sigs PROVE Boot(sig) \in Gates /\ Boot(sig).applied = sig
  BY DEF Gates, Boot, Reasons

LEMMA AppliedTypes ==
    ASSUME NEW g \in Gates, NEW set \in Sets, NEW etag \in Sigs, worker \in Workers
    PROVE  /\ AppliedSet(g, set, etag) \in Gates
           /\ NotePushed(g, set) \in Gates
           /\ NotePushed(g, set).applied = MemberSetSig(set)
<1>1. Adopted(g, set, etag) \in Sigs
  BY SignatureType DEF Adopted, Gates
<1>2. MemberSetSig(set) \in Sigs
  BY SignatureType
<1>3. Fresh(g) \in Gates
  BY GateTypes
<1> QED
  BY <1>1, <1>2, <1>3 DEF AppliedSet, NotePushed, Gates

-----------------------------------------------------------------------------
(* The inductive invariant *)

LEMMA KeyInitially == KeyInit => KeyIInv
<1> SUFFICES ASSUME KeyInit PROVE KeyIInv
  OBVIOUS
<1>1. gate \in Gates /\ gate.applied = NoSig
  BY BootType DEF KeyInit
<1>2. KeyTypeOK
  <2>1. socket \in Seq(Sets) /\ reply \subseteq Sets \union {NoSig}
    BY DEF KeyInit
  <2>2. cloud \in Sets /\ keys \in Sets /\ store \in [keys: Sets, sig: Sigs]
    BY DEF KeyInit
  <2>3. fetch.at = "idle" /\ push.at = "idle" /\ push.set = 0
    BY DEF KeyInit, Idle, NoPush
  <2> QED
    BY <1>1, <2>1, <2>2, <2>3 DEF KeyInit, KeyTypeOK, Gates
<1>3. TaskTypes
  BY DEF KeyInit, TaskTypes, Idle, NoPush, Writing
<1>4. OneWriter /\ KeysFirst /\ StoreFollows
  BY <1>1 DEF KeyInit, OneWriter, KeysFirst, StoreFollows, Quiet, Idle, NoPush, Writing
<1> QED
  BY <1>2, <1>3, <1>4 DEF KeyIInv

LEMMA KeyStep == KeyIInv /\ [KeyNext]_keyVars => KeyIInv'
<1> SUFFICES ASSUME KeyIInv, [KeyNext]_keyVars PROVE KeyIInv'
  OBVIOUS
<1> USE DEF KeyIInv
<1>0. gate \in Gates /\ worker \in Workers
  BY DEF KeyTypeOK, Gates
<1>1. CASE Change
  BY <1>1 DEF Change, external, bounds, KeyTypeOK, TaskTypes, OneWriter, KeysFirst, StoreFollows, Quiet,
       Writing, MemberSetSig
<1>2. CASE CloudPushes
  BY <1>2 DEF CloudPushes, external, KeyTypeOK, TaskTypes, OneWriter, KeysFirst, StoreFollows, Quiet,
       Writing, MemberSetSig
<1>3. CASE SocketDrops
  BY <1>3 DEF SocketDrops, external, bounds, KeyTypeOK, TaskTypes, OneWriter, KeysFirst, StoreFollows, Quiet,
       Writing, MemberSetSig
<1>4. CASE CloudReplies
  BY <1>4 DEF CloudReplies, external, bounds, KeyTypeOK, TaskTypes, OneWriter, KeysFirst, StoreFollows, Quiet,
       Writing, MemberSetSig
<1>5. CASE CloudServes
  <2>1. cloud \in Sets
    BY DEF KeyTypeOK
  <2>2. fetch' \in [at: {"answered"}, known: Sigs, got: Sets \union {NotModified}, etag: Sigs]
    <3>1. \/ fetch' = [at |-> "answered", known |-> NoSig, got |-> NotModified, etag |-> NoSig]
          \/ fetch' = [at |-> "answered", known |-> NoSig, got |-> cloud, etag |-> cloud]
          \/ fetch' = [at |-> "answered", known |-> NoSig, got |-> cloud, etag |-> NoSig]
      BY <1>5 DEF CloudServes, Idle
    <3> QED
      BY <2>1, <3>1
  <2>3. ~Writing(fetch) /\ ~Writing(fetch')
    BY <1>5, <2>2 DEF CloudServes, Writing
  <2> QED
    BY <1>5, <2>2, <2>3 DEF CloudServes, external, bounds, KeyTypeOK, TaskTypes, OneWriter, KeysFirst, StoreFollows,
         Quiet, Writing, MemberSetSig
<1>6. CASE SomeReply
  <2>1. PICK sig \in Sets \union {NoSig} : ApplyKeysReply(sig)
    BY <1>6 DEF SomeReply
  <2>2. gate' \in Gates /\ gate'.applied = gate.applied
    BY <1>0, <2>1, GateTypes DEF ApplyKeysReply
  <2>3. crossed' \in BOOLEAN /\ (crossed => crossed')
    BY <2>1 DEF ApplyKeysReply, Misnamed, KeyTypeOK
  <2> QED
    BY <2>1, <2>2, <2>3 DEF ApplyKeysReply, external, bounds, Gates, KeyTypeOK, TaskTypes, OneWriter, KeysFirst,
         StoreFollows, Quiet, Writing, MemberSetSig
<1>7. CASE NoteUnknownKey
  <2>1. gate' \in Gates /\ gate'.applied = gate.applied
    BY <1>0, <1>7, GateTypes DEF NoteUnknownKey
  <2> QED
    BY <1>7, <2>1 DEF NoteUnknownKey, external, Gates, KeyTypeOK, TaskTypes, OneWriter, KeysFirst, StoreFollows,
         Quiet, Writing, MemberSetSig
<1>8. CASE Ask
  <2>1. /\ fetch'.at = "asked" /\ fetch'.known = gate.applied
        /\ fetch' \in [at: {"asked"}, known: Sigs, got: Sets \union {NotModified}, etag: Sigs]
    BY <1>0, <1>8 DEF Ask, TaskTypes, Gates
  <2>2. ~Writing(fetch) /\ ~Writing(fetch')
    BY <1>8, <2>1 DEF Ask, Writing
  <2> QED
    BY <1>8, <2>1, <2>2 DEF Ask, external, bounds, KeyTypeOK, TaskTypes, OneWriter, KeysFirst, StoreFollows, Quiet,
         Writing, MemberSetSig
<1>9. CASE FetchFails
  <2>1. gate' \in Gates /\ gate'.applied = gate.applied
    BY <1>0, <1>9, GateTypes DEF FetchFails
  <2>2. fetch' = Idle /\ ~Writing(fetch) /\ ~Writing(fetch')
    BY <1>9 DEF FetchFails, Writing, Idle
  <2> QED
    BY <1>9, <2>1, <2>2 DEF FetchFails, Idle, external, bounds, Gates, KeyTypeOK, TaskTypes, OneWriter, KeysFirst,
         StoreFollows, Quiet, Writing, MemberSetSig
<1>10. CASE FetchNotModified
  <2>1. gate' \in Gates /\ gate'.applied = gate.applied
    BY <1>0, <1>10, GateTypes DEF FetchNotModified
  <2>2. fetch' = Idle /\ ~Writing(fetch) /\ ~Writing(fetch')
    BY <1>10 DEF FetchNotModified, Writing, Idle
  <2> QED
    BY <1>10, <2>1, <2>2 DEF FetchNotModified, Idle, external, bounds, Gates, KeyTypeOK, TaskTypes, OneWriter,
         KeysFirst, StoreFollows, Quiet, Writing, MemberSetSig
<1>11. CASE FetchApplied
  <2>1. fetch.got \in Sets /\ fetch.etag \in Sigs
    BY <1>11 DEF FetchApplied, TaskTypes
  <2>2. gate' \in Gates
    BY <1>0, <1>11, <2>1, AppliedTypes DEF FetchApplied
  <2>3. /\ fetch' \in [at: {"keys"}, known: Sigs, got: Sets, etag: Sigs]
        /\ fetch'.etag = gate'.applied
    BY <1>11, <2>1, <2>2 DEF FetchApplied, TaskTypes, Gates
  <2>4. crossed' \in BOOLEAN /\ (crossed => crossed') /\ (Writing(push) => crossed')
    BY <1>11 DEF FetchApplied, Writing, KeyTypeOK
  <2> QED
    BY <1>11, <2>2, <2>3, <2>4 DEF FetchApplied, external, bounds, Gates, KeyTypeOK, TaskTypes, OneWriter,
         KeysFirst, StoreFollows, Quiet, Writing, MemberSetSig
<1>12. CASE FetchKeys
  <2>1. /\ fetch.got \in Sets
        /\ fetch' \in [at: {"store"}, known: Sigs, got: Sets, etag: Sigs]
        /\ fetch'.etag = fetch.etag /\ fetch'.got = fetch.got
    BY <1>12 DEF FetchKeys, TaskTypes, Writing
  <2> QED
    BY <1>12, <2>1 DEF FetchKeys, external, bounds, KeyTypeOK, TaskTypes, OneWriter, KeysFirst, StoreFollows, Quiet,
         Writing, MemberSetSig
<1>13. CASE FetchStore
  <2>1. fetch.got \in Sets /\ fetch.etag \in Sigs
    BY <1>13 DEF FetchStore, TaskTypes, Writing
  <2>2. fetch' = Idle /\ store' = [keys |-> fetch.got, sig |-> fetch.etag]
    BY <1>13 DEF FetchStore, Stored
  <2> QED
    BY <1>13, <2>1, <2>2 DEF FetchStore, Idle, external, bounds, KeyTypeOK, TaskTypes, OneWriter, KeysFirst,
         StoreFollows, Quiet, Writing, MemberSetSig
<1>14. CASE PushNoted
  <2>1. Head(socket) \in Sets /\ Tail(socket) \in Seq(Sets)
    BY <1>14 DEF PushNoted, KeyTypeOK
  <2>2. gate' \in Gates /\ gate'.applied = MemberSetSig(Head(socket))
    BY <1>0, <1>14, <2>1, AppliedTypes DEF PushNoted
  <2>3. push' = [at |-> "keys", set |-> Head(socket)]
    BY <1>14 DEF PushNoted
  <2>4. crossed' \in BOOLEAN /\ (crossed => crossed') /\ (Writing(fetch) => crossed')
    BY <1>14 DEF PushNoted, Writing, KeyTypeOK
  <2> QED
    BY <1>14, <2>1, <2>2, <2>3, <2>4 DEF PushNoted, external, bounds, Gates, KeyTypeOK, TaskTypes, OneWriter,
         KeysFirst, StoreFollows, Quiet, Writing, MemberSetSig
<1>15. CASE PushKeys
  <2>1. push' = [at |-> "store", set |-> push.set] /\ push.set \in Sets
    BY <1>15 DEF PushKeys, TaskTypes
  <2> QED
    BY <1>15, <2>1 DEF PushKeys, external, bounds, KeyTypeOK, TaskTypes, OneWriter, KeysFirst, StoreFollows, Quiet,
         Writing, MemberSetSig
<1>16. CASE PushStore
  <2>1. push.set \in Sets /\ MemberSetSig(push.set) \in Nat
    BY <1>0, SignatureType DEF TaskTypes
  <2>2. push' = NoPush /\ store' = [keys |-> push.set, sig |-> MemberSetSig(push.set)]
    BY <1>16 DEF PushStore, Stored
  <2> QED
    BY <1>16, <2>1, <2>2 DEF PushStore, NoPush, external, bounds, KeyTypeOK, TaskTypes, OneWriter, KeysFirst,
         StoreFollows, Quiet, Writing
<1>17. CASE DayPasses
  <2>1. gate' \in Gates /\ gate'.applied = gate.applied
    BY <1>0, <1>17 DEF DayPasses, Gates
  <2> QED
    BY <1>17, <2>1 DEF DayPasses, external, bounds, Gates, KeyTypeOK, TaskTypes, OneWriter, KeysFirst, StoreFollows,
         Quiet, Writing, MemberSetSig
<1>18. CASE BackoffPasses
  <2>1. gate' \in Gates /\ gate'.applied = gate.applied
    BY <1>0, <1>18 DEF BackoffPasses, Gates
  <2> QED
    BY <1>18, <2>1 DEF BackoffPasses, external, bounds, Gates, KeyTypeOK, TaskTypes, OneWriter, KeysFirst,
         StoreFollows, Quiet, Writing, MemberSetSig
<1>19. CASE Restart
  <2>1. store.keys \in Sets /\ store.sig \in Sigs
        /\ store = [keys |-> store.keys, sig |-> store.sig]
    BY DEF KeyTypeOK
  <2>2. gate' \in Gates /\ gate'.applied = store.sig
    BY <1>19, <2>1, BootType DEF Restart
  <2>3. fetch' = Idle /\ push' = NoPush /\ keys' = store.keys /\ store' = store /\ crossed' = crossed
    BY <1>19 DEF Restart
  <2>4. ~Writing(fetch') /\ ~Writing(push')
    BY <2>3 DEF Idle, NoPush, Writing
  <2>5. KeyTypeOK' /\ TaskTypes'
    BY <1>19, <2>1, <2>2, <2>3 DEF Restart, Idle, NoPush, external, Gates, KeyTypeOK, TaskTypes, Writing
  <2>6. OneWriter' /\ KeysFirst' /\ StoreFollows'
    BY <2>1, <2>2, <2>3, <2>4 DEF OneWriter, KeysFirst, StoreFollows, Quiet, Writing, Idle, NoPush
  <2> QED
    BY <2>5, <2>6
<1>20. CASE UNCHANGED keyVars
  BY <1>20 DEF keyVars, external, bounds, KeyTypeOK, TaskTypes, OneWriter, KeysFirst, StoreFollows, Quiet,
       Writing, MemberSetSig
<1> QED
  BY <1>1, <1>2, <1>3, <1>4, <1>5, <1>6, <1>7, <1>8, <1>9, <1>10, <1>11, <1>12, <1>13, <1>14, <1>15,
     <1>16, <1>17, <1>18, <1>19, <1>20 DEF KeyNext, Fetch, ApplyKeys

\* The hub's memory and its disk agree whenever neither task is writing: on the set, and on the
\* signature under which the next fetch asks for it, so that a restart loses nothing and a fetch at
\* boot is told when nothing has changed (sync_member_keys, apply_keys, KeySync::boot).
THEOREM DiskFollowsMemory == KeySpec => []KeySyncInv
<1>1. KeyIInv => KeySyncInv
  BY DEF KeyIInv, KeySyncInv
<1> QED
  BY <1>1, KeyInitially, KeyStep, PTL DEF KeySpec
=============================================================================
