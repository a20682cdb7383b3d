-------------------------------- MODULE Relay --------------------------------
(***************************************************************************)
(* The relay socket (daemon/src/hub_relay.rs): run connects, serves and    *)
(* backs off for ever; serve_once reads frames, answers calls, pings the   *)
(* far end and ends a socket that has gone silent.  A plain ping is        *)
(* answered by the edge even where the object that holds the socket is     *)
(* gone; only the object echoes a nonce.  A check-in may also bring word   *)
(* that the cloud holds no socket (post_batch in hub_server.rs).           *)
(* Time is in plain ping intervals.                                        *)
(***************************************************************************)
EXTENDS Naturals

CONSTANTS
    SilenceLimit,   \* SILENCE_LIMIT
    CallLimit,      \* CALL_TIMEOUT
    WriteLimit,     \* WRITE_TIMEOUT
    ConnectLimit,   \* CONNECT_TIMEOUT
    MaxAttempt,     \* the attempt at which the backoff reaches its cap
    Cadences,       \* the settings of nonce_ping_every
    Misses          \* NONCE_MISSES_ALLOWED

ASSUME RelayAssumption ==
    /\ {CallLimit, WriteLimit, ConnectLimit, MaxAttempt} \subseteq Nat
    /\ {SilenceLimit, Misses} \subseteq Nat \ {0}
    /\ CallLimit <= SilenceLimit
    /\ Cadences \subseteq Nat \ {0}
    /\ \E c \in Cadences : \A d \in Cadences : d <= c

VARIABLES
    conn,       \* down, connecting, up
    wait,       \* down: what is left of the backoff; connecting: the time spent
    far,        \* who is at the far end: the object, only the edge, or no one
    sock,       \* the locals of serve_once
    unread,     \* frames that have arrived and are not read
    rung,       \* the select has been notified by relay_drop
    setting,    \* rt.nonce_ping_secs
    word,       \* relayUp: 0 on its way, and whether a socket was opened since it was asked for
    hist        \* history: what the limits are meant to measure

vars == <<conn, wait, far, sock, unread, rung, setting, word, hist>>

Cap(n, top) == IF n > top THEN top ELSE n

\* parked: the loop awaits a call or a write, and reads and pings nothing.  A write is
\* through at once, or stalls until its limit.
Opened(cadence) ==
    [sinceText |-> 0, sinceEcho |-> 0, pingIn |-> 1, nonceIn |-> cadence, cadence |-> cadence,
     echoed |-> FALSE, parked |-> "no", spent |-> 0]

\* missed: pings since the last TEXT that were not answered; called: since then
\* a call has kept the loop.  The same since the last echo: echoes, late (or on a shorter cadence).
NewHist == [missed |-> 0, called |-> FALSE, echoes |-> 0, late |-> FALSE]

Init ==
    /\ conn = "down" /\ wait = 0
    /\ far = "gone"
    /\ setting \in Cadences
    /\ sock = Opened(setting)
    /\ unread = {}
    /\ rung = FALSE
    /\ word = "none"
    /\ hist = NewHist

-----------------------------------------------------------------------------
(* run *)

\* backoff_secs in ping intervals: the first waits are shorter than one.
Backoff(n) == n

\* next_attempt, of any number of failures before.
NextAttempt(clean, lived) == IF clean \/ lived THEN {0} ELSE 1..MaxAttempt

\* serve_once returns, having lived for BACKOFF_RESET_AFTER or not.
Ends(clean) ==
    /\ conn' = "down"
    /\ \E lived \in BOOLEAN : \E attempt \in NextAttempt(clean, lived) : wait' = Backoff(attempt)
    /\ far' = "gone"
    /\ unread' = {}
    /\ sock' = Opened(setting)
    /\ hist' = NewHist
    /\ rung' = FALSE
    /\ UNCHANGED <<setting, word>>

\* The attempt reaches the object, or gets stuck.
Connect(end) ==
    /\ conn = "down" /\ wait = 0
    /\ conn' = "connecting"
    /\ far' = end
    /\ UNCHANGED <<wait, sock, unread, rung, setting, word, hist>>

\* The generation changes: the word a check-in has asked for is of another socket.
Connected ==
    /\ conn = "connecting" /\ far = "object"
    /\ conn' = "up" /\ wait' = 0
    /\ sock' = Opened(setting)
    /\ word' = IF word = "none" THEN "none" ELSE "stale"
    /\ UNCHANGED <<far, unread, rung, setting, hist>>

\* Mutant: an await of the network without a limit.
Unlimited(spent, limit) == FALSE

\* within: the await has lasted to its limit.
TimedOut(spent, limit) == spent >= limit

ConnectFails ==
    /\ conn = "connecting"
    /\ far = "gone" => TimedOut(wait, ConnectLimit)
    /\ Ends(FALSE)

-----------------------------------------------------------------------------
(* The far end *)

\* The object loses the socket and the edge goes on answering, or all is lost.
Lose(end) ==
    /\ conn = "up"
    /\ far = "object" \/ (far = "edge" /\ end = "gone")
    /\ far' = end
    /\ UNCHANGED <<conn, wait, sock, unread, rung, setting, word, hist>>

-----------------------------------------------------------------------------
(* serve_once: the arms of its select *)

Selecting == conn = "up" /\ sock.parked = "no"

\* A closed stream ends cleanly, a reset does not.
StreamEnds(clean) ==
    /\ Selecting /\ far # "object"
    /\ Ends(clean)

\* Any TEXT counts.  An arm that runs takes the turn of the others, and a notice with it.
Read(s) == [s EXCEPT !.sinceText = 0]

ReadPong ==
    /\ Selecting /\ "pong" \in unread
    /\ sock' = Read(sock)
    /\ hist' = [hist EXCEPT !.missed = 0, !.called = FALSE]
    /\ unread' = unread \ {"pong"}
    /\ rung' = FALSE
    /\ UNCHANGED <<conn, wait, far, setting, word>>

ReadEcho ==
    /\ Selecting /\ "echo" \in unread
    /\ sock' = [Read(sock) EXCEPT !.sinceEcho = 0, !.echoed = TRUE]
    /\ hist' = NewHist
    /\ unread' = unread \ {"echo"}
    /\ rung' = FALSE
    /\ UNCHANGED <<conn, wait, far, setting, word>>

ReadCall ==
    /\ Selecting /\ far = "object"
    /\ sock' = [Read(sock) EXCEPT !.parked = "call", !.spent = 0]
    /\ hist' = [hist EXCEPT !.missed = 0, !.called = TRUE]
    /\ rung' = FALSE
    /\ UNCHANGED <<conn, wait, far, unread, setting, word>>

\* answer_within: an answer, or 504 at the limit; then it is written.
CallAnswered ==
    /\ conn = "up" /\ sock.parked = "call"
    /\ sock' = [sock EXCEPT !.parked = "no", !.spent = 0]
    /\ hist' = [hist EXCEPT !.late = @ \/ sock.spent > 0]
    /\ UNCHANGED <<conn, wait, far, unread, rung, setting, word>>

\* A write of any frame stalls; what else the loop knows no longer matters.
WriteStalls ==
    /\ conn = "up" /\ sock.parked # "write"
    /\ sock' = [Opened(setting) EXCEPT !.parked = "write", !.sinceText = sock.sinceText]
    /\ unread' = {}
    /\ hist' = NewHist
    /\ rung' = FALSE
    /\ UNCHANGED <<conn, wait, far, setting, word>>

WriteFails ==
    /\ conn = "up" /\ sock.parked = "write"
    /\ TimedOut(sock.spent, WriteLimit)
    /\ Ends(FALSE)

\* Mutant: pings are sent and nothing is asked of them.
NeverSilent == FALSE

RelayIsSilent == sock.sinceText > SilenceLimit

\* What is written is answered, unless nobody is there or the answer is lost.
PingTick(answered) ==
    /\ Selecting /\ sock.pingIn = 0
    /\ ~RelayIsSilent
    /\ answered => far # "gone"
    /\ sock' = [sock EXCEPT !.pingIn = 1]
    /\ unread' = IF answered THEN unread \union {"pong"} ELSE unread
    /\ hist' = IF answered THEN hist ELSE [hist EXCEPT !.missed = Cap(@ + 1, SilenceLimit)]
    /\ rung' = FALSE
    /\ UNCHANGED <<conn, wait, far, setting, word>>

PingTickSilent ==
    /\ Selecting /\ sock.pingIn = 0
    /\ RelayIsSilent
    /\ Ends(FALSE)

\* nonce_is_silent with nonce_silence_limit, once the cadence has been looked at again.
NonceIsSilent(cadence) == sock.echoed /\ sock.sinceEcho > Misses * cadence

NonceTick(answered) ==
    /\ Selecting /\ sock.nonceIn = 0
    /\ ~NonceIsSilent(setting)
    /\ answered => far = "object"
    /\ sock' = [sock EXCEPT !.cadence = setting, !.nonceIn = setting]
    /\ unread' = IF answered THEN unread \union {"echo"} ELSE unread \ {"echo"}
    /\ hist' = [hist EXCEPT !.echoes = IF answered THEN @ ELSE Cap(@ + 1, Misses),
                            !.late = @ \/ setting < sock.cadence]
    /\ rung' = FALSE
    /\ UNCHANGED <<conn, wait, far, setting, word>>

NonceTickSilent ==
    /\ Selecting /\ sock.nonceIn = 0
    /\ NonceIsSilent(setting)
    /\ Ends(FALSE)

DropAtWord ==
    /\ Selecting /\ rung
    /\ Ends(TRUE)

-----------------------------------------------------------------------------
(* post_batch *)

\* The cloud tells a check-in that it holds no socket; other answers change nothing.
CheckIn ==
    /\ word = "none" /\ far # "object"
    /\ word' = "fresh"
    /\ UNCHANGED <<conn, wait, far, sock, unread, rung, setting, hist>>

ShouldDropRelay == word = "fresh"

\* Mutant: notify_one, which leaves a permit for a loop that does not wait.
NotifyPermit == TRUE

\* notify_waiters: only a select that waits is notified.
NotifyWaiters == Selecting

CheckInHandled ==
    /\ word # "none"
    /\ word' = "none"
    /\ rung' = (rung \/ (ShouldDropRelay /\ NotifyWaiters))
    /\ UNCHANGED <<conn, wait, far, sock, unread, setting, hist>>

\* do_config, or the settings synced from the cloud.
ChangeCadence(cadence) ==
    /\ cadence # setting
    /\ setting' = cadence
    /\ UNCHANGED <<conn, wait, far, sock, unread, rung, word, hist>>

-----------------------------------------------------------------------------

Down(n) == IF n = 0 THEN 0 ELSE n - 1

\* The longest a socket is kept after the last word of the far end.
EchoLimit == Misses * CHOOSE c \in Cadences : \A d \in Cadences : d <= c
TextBound == SilenceLimit + WriteLimit + 1

\* Nothing that is due is left: a frame that has arrived is read at once, an arm that is
\* ready runs, an await that has reached its limit ends.
Urgent ==
    \/ conn = "down" /\ wait = 0
    \/ conn = "connecting" /\ TimedOut(wait, ConnectLimit)
    \/ Selecting /\ (unread # {} \/ rung \/ sock.pingIn = 0 \/ sock.nonceIn = 0)
    \/ conn = "up" /\ sock.parked = "call" /\ TimedOut(sock.spent, CallLimit)
    \/ conn = "up" /\ sock.parked = "write" /\ TimedOut(sock.spent, WriteLimit)

Tick ==
    /\ ~Urgent
    /\ wait' = CASE conn = "down" -> wait - 1
                 [] conn = "connecting" -> Cap(wait + 1, ConnectLimit)
                 [] OTHER -> wait
    /\ sock' = IF conn # "up" THEN sock
               ELSE [sock EXCEPT
                       !.sinceText = Cap(@ + 1, TextBound + 1),
                       !.sinceEcho = IF sock.echoed THEN Cap(@ + 1, EchoLimit + 1) ELSE 0,
                       !.pingIn = Down(@), !.nonceIn = Down(@),
                       !.spent = IF sock.parked = "no" THEN 0 ELSE Cap(@ + 1, CallLimit + WriteLimit)]
    /\ UNCHANGED <<conn, far, unread, rung, setting, word, hist>>

Serve ==
    \/ ReadPong \/ ReadEcho \/ CallAnswered \/ WriteFails
    \/ \E answered \in BOOLEAN : PingTick(answered) \/ NonceTick(answered)
    \/ PingTickSilent \/ NonceTickSilent

Next ==
    \/ \E end \in {"object", "gone"} : Connect(end)
    \/ Connected \/ ConnectFails
    \/ \E end \in {"edge", "gone"} : Lose(end)
    \/ \E clean \in BOOLEAN : StreamEnds(clean)
    \/ Serve \/ ReadCall \/ WriteStalls \/ DropAtWord
    \/ CheckIn \/ CheckInHandled
    \/ \E cadence \in Cadences : ChangeCadence(cadence)
    \/ Tick

Spec == Init /\ [][Next]_vars

\* Time passes and awaits end; the select picks at random among the arms that are ready; some
\* attempt to connect succeeds; of the check-ins some bring word while the loop waits.
FairSpec ==
    /\ Spec
    /\ WF_vars(Tick) /\ WF_vars(Serve) /\ SF_vars(NonceTickSilent) /\ SF_vars(DropAtWord)
    /\ WF_vars(\E end \in {"object", "gone"} : Connect(end)) /\ WF_vars(ConnectFails)
    /\ SF_vars(Connect("object")) /\ SF_vars(Connected)
    /\ WF_vars(CheckIn) /\ WF_vars(CheckInHandled) /\ SF_vars(CheckInHandled /\ rung')

-----------------------------------------------------------------------------
(* Properties *)

TypeOK ==
    /\ conn \in {"down", "connecting", "up"}
    /\ wait <= MaxAttempt \/ wait <= ConnectLimit
    /\ far \in {"object", "edge", "gone"}
    /\ unread \subseteq {"pong", "echo"}
    /\ sock.parked \in {"no", "call", "write"}
    /\ sock.pingIn \in 0..1 /\ sock.cadence \in Cadences /\ setting \in Cadences
    /\ rung \in BOOLEAN
    /\ word \in {"none", "fresh", "stale"}
    /\ hist.missed \in 0..SilenceLimit /\ hist.echoes \in 0..Misses

\* A socket at whose far end nobody answers is ended in bounded time, whatever stalls on the
\* way; one that only the edge answers is ended in the end (Reconnects).
DeadSocketEnds == conn = "up" => sock.sinceText <= TextBound

\* No socket outlives its far end for long, in variables of their types.
RelayInv == TypeOK /\ DeadSocketEnds

\* A socket is ended for its cause alone.  The plain ping ends it after as many unanswered pings
\* as the limit is long, of which a call served meanwhile may cost all but one; the nonce after as
\* many missed echoes as it allows, unless its ticks came late or the cadence was shortened; the
\* cloud's word only when the cloud does not hold it: a word about an earlier socket, or one that
\* came while none was open, never ends the one opened since.
EndedForCause ==
    [][/\ PingTickSilent => hist.missed >= IF hist.called THEN 1 ELSE SilenceLimit
       /\ NonceTickSilent /\ ~hist.late /\ setting >= sock.cadence => hist.echoes >= Misses
       /\ DropAtWord => far # "object"]_vars

\* Whatever is lost, and wherever an attempt gets stuck, the hub is connected again.
Reconnects == []<>(conn = "up" /\ far = "object")

=============================================================================
