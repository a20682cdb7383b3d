-------------------------- MODULE CloseRetryProofs --------------------------
(***************************************************************************)
(* Proofs about CloseRetry, for every schedule, settle, delay and number   *)
(* of claims: a close keeps its schedule and its window ends, the owner is *)
(* told on time and once, a read follows every issue of a caller that      *)
(* rings, and the slot is not stolen.                                      *)
(***************************************************************************)
EXTENDS CloseRetry, TLAPS

InPass == {"read", "tell", "decide", "resend"}

\* The clock is never past what the loop waits for, nor past an answer, and every wait has its bound.
Clock ==
    /\ now <= due /\ readAt <= now
    /\ \A c \in Closes : now <= answer[c].by
    /\ pc = "nap" => due <= now + PollEvery
    /\ pc = "settle" => due <= now + Settle
    /\ pc \in {"poll", "read", "tell", "resend", "correct"} => due <= now + Delay
    /\ pc = "decide" => due = now
    /\ watch # NoClose => watch.first <= now /\ watch.last <= now

\* A pass decides about the close in flight, or about one that an alarm has taken over since.
PassOwner ==
    /\ watch # NoClose => claims \in Closes
    /\ pc \in InPass => /\ mine \in Watch /\ watch # NoClose /\ pass \in Closes
                        /\ pass = claims => watch = mine
                        /\ pass # claims => watch.cause = "flood" /\ mine.cause # "flood"

\* What has been sent and told of the close in flight, and of the one of the pass.
Counted ==
    /\ \A c \in Closes : c > claims => sent[c] = 0 /\ told[c] = 0 /\ corrected[c] = 0
    /\ \A c \in Closes : corrected[c] <= told[c] /\ told[c] <= 1
    /\ watch # NoClose =>
          /\ sent[claims] = watch.attempts - (IF pc = "resend" /\ pass = claims THEN 1 ELSE 0)
          /\ corrected[claims] = 0
          /\ told[claims] = IF watch.alerted /\ ~(pc = "tell" /\ pass = claims) THEN 1 ELSE 0
    /\ pc \in InPass => /\ corrected[pass] = 0
                        /\ told[pass] = IF mine.alerted /\ pc # "tell" THEN 1 ELSE 0
    /\ pc = "tell" => mine.alerted
    /\ pc = "correct" => pass \in Closes /\ corrected[pass] = 0 /\ told[pass] = 1

\* What a reading allows: it was taken before the alert or the end it did not bring on.
Until(w) == w.first + (IF w.alerted THEN GiveUp ELSE AlertAt)
Telling(w) == IF w.alerted THEN Delay ELSE 0

Readings ==
    /\ pc = "tell" => due <= readAt + Delay
    /\ pc = "decide" => /\ now <= readAt + Telling(mine)
                        /\ seen /\ ~mine.alerted => readAt < Until(mine)
    /\ pc = "resend" => due <= readAt + Delay + Telling(mine) /\ readAt < Until(mine)

\* By when the loop looks at the close in flight.
Deadline(w) == Until(w) + Telling(w)

Punctual ==
    watch # NoClose =>
        /\ pc = "nap" => due <= Deadline(watch) + Delay
        /\ pc = "settle" => due <= Deadline(watch) + Settle + Delay
        /\ pc = "poll" => due <= Deadline(watch) + Settle + 2 * Delay
        /\ pc \in {"read", "tell", "decide"} /\ pass = claims => due <= Deadline(watch) + Settle + 3 * Delay
        /\ pc = "correct" \/ (pc \in InPass /\ pass # claims) => due <= watch.first + Delay /\ ~watch.alerted

\* How a read is bound to follow the last issue: the caller is still to ring, or has; or the loop
\* itself issued it and naps no longer than the confirm window.
Pending == answer[claims] # Answered /\ answer[claims].by <= unread + Delay

Bound ==
    \/ pc = "poll" /\ due <= unread + ConfirmWithin + Settle + 3 * Delay
    \/ pc = "settle" /\ due <= unread + ConfirmWithin + Settle + 2 * Delay
    \/ pc = "nap" /\ due <= unread + ConfirmWithin + 2 * Delay
    \/ pc \in InPass \union {"correct"} /\ permit /\ due <= unread + 2 * Delay
    \/ pc = "resend" /\ pass = claims /\ mine.last = unread /\ readAt = unread /\ due <= unread + 2 * Delay

ReadFollows ==
    /\ unread >= 0 => watch # NoClose /\ unread <= now
    /\ pc \in {"read", "tell", "decide"} /\ pass = claims => unread = -1
    /\ unread >= 0 /\ rings => Pending \/ Bound

IInv == TypeOK /\ Clock /\ PassOwner /\ Counted /\ Paced /\ Readings /\ Punctual /\ ReadFollows

-----------------------------------------------------------------------------
(* Facts about the constants, the watch and the schedule *)

LEMMA Constants ==
    /\ PollEvery \in Nat \ {0} /\ Settle \in Nat /\ Delay \in Nat /\ MaxClaims \in Nat /\ MaxOpens \in Nat
    /\ LastClaim \in Nat /\ MaxTime \in Nat /\ LastClaim + Delay <= MaxTime
    /\ ConfirmWithin \in Nat \ {0} /\ AlertAt \in Nat /\ GiveUp \in Nat
    /\ AlertAt < GiveUp /\ PollEvery <= AlertAt
    /\ NoClose \notin Watch
  BY RetryAssumption, ScheduleAssumption

LEMMA WatchFields ==
    ASSUME NEW w \in Watch
    PROVE  /\ w.cause \in Causes /\ w.first \in Nat /\ w.last \in Nat /\ w.attempts \in Nat \ {0}
           /\ w.alerted \in BOOLEAN
           /\ w # NoClose
  BY Constants DEF Watch

LEMMA OpenedFields ==
    ASSUME NEW cause \in Causes, NEW at \in Nat
    PROVE  LET w == Opened(cause, at) IN
           /\ w \in Watch /\ w.cause = cause /\ w.first = at /\ w.last = at /\ w.attempts = 1 /\ w.alerted = FALSE
  BY DEF Opened, Watch

LEMMA AlertedFields ==
    ASSUME NEW w \in Watch
    PROVE  LET v == [w EXCEPT !.alerted = TRUE] IN
           /\ v \in Watch /\ v.cause = w.cause /\ v.first = w.first /\ v.last = w.last /\ v.attempts = w.attempts
           /\ v.alerted = TRUE
  BY DEF Watch

LEMMA ReissuedFields ==
    ASSUME NEW w \in Watch, NEW at \in Nat
    PROVE  LET v == Reissued(w, at) IN
           /\ v \in Watch /\ v.cause = w.cause /\ v.first = w.first /\ v.last = at /\ v.attempts = w.attempts + 1
           /\ v.alerted = w.alerted
<1> DEFINE u == [w EXCEPT !.attempts = w.attempts + 1]
<1>1. /\ u \in Watch /\ u.cause = w.cause /\ u.first = w.first /\ u.attempts = w.attempts + 1
      /\ u.alerted = w.alerted
  BY DEF Watch
<1>2. LET v == [u EXCEPT !.last = at] IN
      /\ v \in Watch /\ v.cause = u.cause /\ v.first = u.first /\ v.last = at /\ v.attempts = u.attempts
      /\ v.alerted = u.alerted
  <2> HIDE DEF u
  <2> QED
    BY <1>1 DEF Watch
<1> QED
  BY <1>1, <1>2 DEF Reissued

LEMMA DueAtType == ASSUME NEW n \in Nat PROVE DueAt(n) \in Nat
<1>1. Len(RetryAt) \in Nat \ {0} /\ \A i \in 1..Len(RetryAt) : RetryAt[i] \in Nat
  BY ScheduleAssumption
<1>2. CASE n > Len(RetryAt) + 1
  <2> DEFINE k == n - 1 - Len(RetryAt)
  <2>1. k \in Nat /\ RetryAt[Len(RetryAt)] \in Nat /\ ThenEvery \in Nat
    BY <1>1, <1>2, ScheduleAssumption
  <2>2. k * ThenEvery \in Nat
    <3> HIDE DEF k
    <3> QED
      BY <2>1
  <2> QED
    BY <1>1, <1>2, <2>1, <2>2 DEF DueAt
<1>3. CASE ~(n > Len(RetryAt) + 1)
  BY <1>1, <1>3 DEF DueAt
<1> QED
  BY <1>2, <1>3

\* A set of a few numbers has a least.
LEMMA LeastOf ==
    ASSUME NEW S, NEW a \in Int, NEW b \in Int, NEW c \in Int, NEW d \in Int,
           a \in S, S \subseteq {a, b, c, d}
    PROVE  Least(S) \in S /\ \A y \in S : Least(S) <= y
<1>1. \E x \in S : \A y \in S : x <= y
  OBVIOUS
<1> QED
  BY <1>1 DEF Least

\* A nap ends by the alert or the end still ahead, and by the read that confirms the last issue.
LEMMA NextLookBound ==
    ASSUME NEW w \in Watch, NEW at \in Nat
    PROVE  /\ NextLook(w, at) \in Nat \ {0}
           /\ at < Until(w) => NextLook(w, at) <= Until(w) - at
           /\ at < w.last + ConfirmWithin => NextLook(w, at) <= w.last + ConfirmWithin - at
<1> DEFINE a == w.first + GiveUp
           b == w.first + DueAt(w.attempts + 1)
           c == w.last + ConfirmWithin
           d == w.first + AlertAt
           S == {b, a} \union {t \in {c} : t > at} \union {t \in {d} : ~w.alerted /\ t > at}
<1>1. a \in Nat /\ b \in Nat /\ c \in Nat /\ d \in Nat
  BY WatchFields, Constants, DueAtType
<1>2. Least(S) \in S /\ \A y \in S : Least(S) <= y
  <2> HIDE DEF a, b, c, d
  <2> QED
    BY <1>1, LeastOf
<1>3. NextLook(w, at) = IF Least(S) > at THEN Least(S) - at ELSE 1
  BY DEF NextLook
<1>4. Least(S) \in Nat
  <2> HIDE DEF a, b, c, d
  <2> QED
    BY <1>1, <1>2
<1>5. ASSUME at < Until(w) PROVE Least(S) <= Until(w)
  <2>1. Until(w) \in {a, d} /\ Until(w) \in S
    BY <1>5, WatchFields DEF Until
  <2> QED
    BY <1>2, <2>1
<1>6. at < w.last + ConfirmWithin => Least(S) <= w.last + ConfirmWithin
  BY <1>1, <1>2
<1>7. w.last \in Nat /\ ConfirmWithin \in Nat
  BY WatchFields, Constants
<1>8. Until(w) \in Nat
  BY <1>1, WatchFields DEF Until
<1> QED
  <2> HIDE DEF S
  <2>1. at < Until(w) => NextLook(w, at) <= Until(w) - at
    BY <1>3, <1>4, <1>5, <1>8
  <2>2. at < w.last + ConfirmWithin => NextLook(w, at) <= w.last + ConfirmWithin - at
    BY <1>3, <1>4, <1>6, <1>7
  <2>3. NextLook(w, at) \in Nat \ {0}
    BY <1>3, <1>4
  <2> QED
    BY <2>1, <2>2, <2>3

LEMMA Bounds ==
    ASSUME NEW w \in Watch
    PROVE  /\ Until(w) \in Nat /\ Telling(w) \in {0, Delay} /\ Deadline(w) = Until(w) + Telling(w) /\ Deadline(w) \in Nat
           /\ w.first + PollEvery <= Until(w)
           /\ ~w.alerted => Until(w) = w.first + AlertAt /\ Telling(w) = 0
           /\ w.alerted => Until(w) = w.first + GiveUp /\ Telling(w) = Delay
  BY WatchFields, Constants DEF Until, Telling, Deadline

\* What the end of a pass leaves.
LEMMA NapLeaves ==
    ASSUME TypeOK, NEW length \in Nat \ {0}, Nap(length)
    PROVE  /\ mine' = NoClose /\ seen' = TRUE /\ readAt' = 0 /\ pass' = 0
           /\ permit' = FALSE /\ due' \in Nat /\ now <= due'
           /\ \/ pc' = "settle" /\ due' = now + Settle
              \/ pc' = "nap" /\ due' <= now + length /\ due' <= now + PollEvery /\ ~permit
  BY Constants DEF Nap, TypeOK

\* What a ring leaves.
LEMMA RingLeaves ==
    ASSUME TypeOK, NotifyOne
    PROVE  /\ due' \in Nat /\ permit' \in BOOLEAN
           /\ \/ pc = "nap" /\ pc' = "settle" /\ due' = now + Settle /\ permit' = permit
              \/ pc # "nap" /\ pc' = pc /\ due' = due /\ permit' = TRUE
<1>1. now \in Nat /\ due \in Nat /\ permit \in BOOLEAN /\ Settle \in Nat
  BY Constants DEF TypeOK
<1>2. CASE pc = "nap"
  BY <1>1, <1>2 DEF NotifyOne
<1>3. CASE pc # "nap"
  BY <1>1, <1>3 DEF NotifyOne
<1> QED
  BY <1>2, <1>3

\* What the invariant says of the variables, without what it says of the close.
LEMMA Known ==
    ASSUME IInv
    PROVE  /\ TypeOK /\ now \in Nat /\ due \in Nat /\ readAt \in Nat /\ claims \in Nat /\ pass \in Nat
           /\ unread \in Int /\ now <= due /\ readAt <= now
           /\ watch # NoClose => watch \in Watch /\ claims \in Closes
           /\ pc \in InPass => mine \in Watch /\ watch \in Watch /\ pass \in Closes /\ claims \in Closes
           /\ pc \in InPass /\ pass = claims => watch = mine
           /\ pc \in InPass /\ pass # claims => watch # mine
  <1>1. TypeOK /\ now \in Nat /\ due \in Nat /\ readAt \in Nat /\ claims \in Nat /\ pass \in Nat
        /\ unread \in Int /\ now <= due /\ readAt <= now
    BY Constants DEF IInv, TypeOK, Clock
  <1>2. watch # NoClose => watch \in Watch /\ claims \in Closes
    BY DEF IInv, TypeOK, PassOwner
  <1>3. pc \in InPass => mine \in Watch /\ watch # NoClose /\ pass \in Closes
    BY DEF IInv, PassOwner
  <1>4. pc \in InPass /\ pass = claims => watch = mine
    BY DEF IInv, PassOwner
  <1>5. pc \in InPass /\ pass # claims => watch # mine
    BY DEF IInv, PassOwner
  <1> QED
    BY <1>1, <1>2, <1>3, <1>4, <1>5

-----------------------------------------------------------------------------
(* The steps *)

LEMMA Initially == Init => IInv
<1> SUFFICES ASSUME Init PROVE IInv
  OBVIOUS
<1>1. /\ now = 0 /\ open \in BOOLEAN /\ watch = NoClose /\ pc = "nap" /\ due \in 0..PollEvery /\ permit = FALSE
      /\ answer = [c \in Closes |-> Answered] /\ mine = NoClose /\ seen = TRUE /\ readAt = 0 /\ claims = 0
      /\ opens = 0 /\ pass = 0 /\ unread = -1 /\ rings = TRUE
      /\ sent = [c \in Closes |-> 0] /\ told = [c \in Closes |-> 0] /\ corrected = [c \in Closes |-> 0]
  BY DEF Init
<1>2. Answered \in [by: Nat, cause: Causes] /\ Answered.by = MaxTime + 1
  BY Constants DEF Answered, Causes
<1>3. TypeOK
  <2>1. answer \in [Closes -> [by: Nat, cause: Causes]]
    BY <1>1, <1>2
  <2>2. now \in 0..MaxTime /\ claims \in 0..MaxClaims /\ opens \in 0..MaxOpens /\ pass \in 0..claims /\ due \in Nat
    BY <1>1, Constants
  <2>3. sent \in [Closes -> Nat] /\ told \in [Closes -> Nat] /\ corrected \in [Closes -> Nat]
    BY <1>1
  <2> QED
    BY <1>1, <2>1, <2>2, <2>3 DEF TypeOK, Steps
<1>4. Clock
  BY <1>1, <1>2, Constants DEF Clock
<1>5. PassOwner /\ Paced /\ Readings /\ Punctual /\ ReadFollows
  BY <1>1 DEF PassOwner, Paced, Readings, Punctual, ReadFollows, InPass
<1>6. Counted
  BY <1>1 DEF Counted, InPass
<1> QED
  BY <1>3, <1>4, <1>5, <1>6 DEF IInv

\* Nothing of the invariant is about the valve itself.
LEMMA ValveStep == ASSUME IInv, ValveShuts \/ ValveOpens PROVE IInv'
<1>1. /\ UNCHANGED <<now, watch, answer, claims, unread, rings, loopVars, history>>
      /\ open' \in BOOLEAN /\ opens' \in 0..MaxOpens
  <2>1. opens \in 0..MaxOpens /\ MaxOpens \in Nat
    BY Constants DEF IInv, TypeOK
  <2>2. CASE ValveShuts
    BY <2>1, <2>2 DEF ValveShuts
  <2>3. CASE ValveOpens
    <3>1. opens < MaxOpens /\ opens' = opens + 1 /\ open' = TRUE
      BY <2>3 DEF ValveOpens
    <3> QED
      BY <2>1, <2>3, <3>1 DEF ValveOpens
  <2> QED
    BY <2>2, <2>3
<1> QED
  BY <1>1 DEF IInv, TypeOK, Clock, PassOwner, Counted, Paced, Readings, Punctual, ReadFollows, Pending, Bound,
              loopVars, history

LEMMA TickStep == ASSUME IInv, Tick PROVE IInv'
<1>1. /\ now < MaxTime /\ now < due /\ now' = now + 1 /\ \A c \in Closes : now < answer[c].by
      /\ UNCHANGED <<open, watch, answer, claims, opens, unread, rings>>
      /\ UNCHANGED loopVars /\ UNCHANGED history
  BY DEF Tick
<1>2. UNCHANGED <<pc, due, permit, mine, seen, readAt, pass>> /\ UNCHANGED <<sent, told, corrected>>
  BY <1>1 DEF loopVars, history
<1>3. now \in Nat /\ due \in Nat /\ MaxTime \in Nat /\ readAt \in Nat /\ unread \in Int /\ readAt <= now
      /\ \A c \in Closes : answer[c].by \in Nat
  BY Known, Constants DEF IInv, TypeOK
<1>4. pc # "decide"
  BY <1>1, <1>3 DEF IInv, Clock
<1>5. watch # NoClose => watch.first \in Nat /\ watch.last \in Nat
  BY Known, WatchFields
<1>6. TypeOK'
  BY <1>1, <1>2, <1>3 DEF IInv, TypeOK
<1>7. Clock'
  <2>1. now' <= due' /\ readAt' <= now' /\ \A c \in Closes : now' <= answer'[c].by
    BY <1>1, <1>2, <1>3
  <2>2. /\ pc' = "nap" => due' <= now' + PollEvery
        /\ pc' = "settle" => due' <= now' + Settle
        /\ pc' \in {"poll", "read", "tell", "resend", "correct"} => due' <= now' + Delay
    BY <1>1, <1>2, <1>3, Constants DEF IInv, Clock
  <2>3. watch' # NoClose => watch'.first <= now' /\ watch'.last <= now'
    BY <1>1, <1>3, <1>5 DEF IInv, Clock
  <2> QED
    BY <1>2, <1>4, <2>1, <2>2, <2>3 DEF Clock
<1>8. PassOwner' /\ Counted' /\ Punctual'
  BY <1>1, <1>2 DEF IInv, PassOwner, Counted, Punctual
<1>9. Paced' /\ Readings'
  BY <1>1, <1>2, <1>3, <1>4, <1>5 DEF IInv, Paced, Readings
<1>10. ReadFollows'
  BY <1>1, <1>2, <1>3 DEF IInv, ReadFollows, Pending, Bound
<1> QED
  BY <1>6, <1>7, <1>8, <1>9, <1>10 DEF IInv

\* A ring moves the loop from its nap to a settle, or leaves a permit; and that keeps all there is.
LEMMA RingKeeps ==
    ASSUME IInv, NotifyOne, UNCHANGED <<now, open, watch, claims, opens, unread, rings>>,
           UNCHANGED <<mine, seen, readAt, pass>>, UNCHANGED history,
           answer' \in [Closes -> [by: Nat, cause: Causes]], \A c \in Closes : now <= answer'[c].by
    PROVE  /\ TypeOK' /\ Clock' /\ PassOwner' /\ Counted' /\ Paced' /\ Readings' /\ Punctual'
           /\ Bound => Bound'
<1>1. /\ due' \in Nat /\ permit' \in BOOLEAN /\ now <= due'
      /\ \/ pc = "nap" /\ pc' = "settle" /\ due' = now + Settle /\ permit' = permit
         \/ pc # "nap" /\ pc' = pc /\ due' = due /\ permit' = TRUE
  <2>1. /\ due' \in Nat /\ permit' \in BOOLEAN
        /\ \/ pc = "nap" /\ pc' = "settle" /\ due' = now + Settle /\ permit' = permit
           \/ pc # "nap" /\ pc' = pc /\ due' = due /\ permit' = TRUE
    BY RingLeaves, Known
  <2>2. now \in Nat /\ now <= due /\ Settle \in Nat
    BY Known, Constants
  <2>3. now <= due'
    BY <2>1, <2>2
  <2> QED
    BY <2>1, <2>3
<1>2. /\ now \in Nat /\ due \in Nat /\ readAt \in Nat /\ unread \in Int /\ Settle \in Nat /\ Delay \in Nat
      /\ now <= due
      /\ UNCHANGED <<sent, told, corrected>>
  BY Known, Constants DEF history
<1>3. pc' \in Steps /\ (pc = "nap" => pc' \notin InPass \union {"correct", "poll", "nap"})
  BY <1>1 DEF IInv, TypeOK, Steps, InPass
<1>4. TypeOK'
  BY <1>1, <1>2, <1>3 DEF IInv, TypeOK
<1>5. Clock'
  BY <1>1, <1>2 DEF IInv, Clock
<1>6. PassOwner' /\ Counted' /\ Paced' /\ Readings'
  BY <1>1, <1>2, <1>3 DEF IInv, PassOwner, Counted, Paced, Readings, InPass
<1>7. Punctual'
  <2> SUFFICES ASSUME watch # NoClose PROVE Punctual'
    BY DEF Punctual
  <2>1. Deadline(watch) \in Nat /\ Deadline(watch)' = Deadline(watch) /\ watch.first \in Nat
    BY Known, Bounds, WatchFields DEF Deadline, Until, Telling
  <2>2. CASE pc = "nap"
    <3>1. due <= Deadline(watch) + Delay
      BY <2>2 DEF IInv, Punctual
    <3>2. due' <= Deadline(watch) + Settle + Delay
      BY <1>1, <1>2, <2>1, <2>2, <3>1
    <3> QED
      BY <1>1, <1>3, <2>1, <2>2, <3>2 DEF Punctual, InPass
  <2>3. CASE pc # "nap"
    BY <1>1, <2>1, <2>3 DEF IInv, Punctual
  <2> QED
    BY <2>2, <2>3
<1>8. ASSUME Bound PROVE Bound'
  <2>1. CASE pc = "nap"
    BY <1>1, <1>2, <1>8, <2>1, Constants DEF Bound, InPass
  <2>2. CASE pc # "nap"
    BY <1>1, <1>8, <2>2 DEF Bound, InPass
  <2> QED
    BY <2>1, <2>2
<1> QED
  BY <1>4, <1>5, <1>6, <1>7, <1>8

LEMMA RefusedStep == ASSUME IInv, NEW cause, CallerRefused(cause) PROVE IInv'
<1>1. /\ NotifyOne /\ UNCHANGED <<now, open, watch, claims, opens, unread, rings>>
      /\ UNCHANGED <<mine, seen, readAt, pass>> /\ UNCHANGED history /\ answer' = answer
  BY DEF CallerRefused
<1>2. answer' \in [Closes -> [by: Nat, cause: Causes]] /\ \A c \in Closes : now <= answer'[c].by
  BY <1>1 DEF IInv, TypeOK, Clock
<1>3. /\ TypeOK' /\ Clock' /\ PassOwner' /\ Counted' /\ Paced' /\ Readings' /\ Punctual'
      /\ Bound => Bound'
  BY <1>1, <1>2, RingKeeps
<1>4. ReadFollows'
  <2>1. pc' \in {"read", "tell", "decide"} => pc' = pc
    BY <1>1, RingLeaves, Known
  <2> QED
    BY <1>1, <1>3, <2>1 DEF IInv, ReadFollows, Pending
<1> QED
  BY <1>3, <1>4 DEF IInv

LEMMA RingStep == ASSUME IInv, NEW c \in Closes, Ring(c) PROVE IInv'
<1>1. /\ NotifyOne /\ UNCHANGED <<now, open, watch, claims, opens, unread, rings>>
      /\ UNCHANGED <<mine, seen, readAt, pass>> /\ UNCHANGED history
      /\ answer[c] # Answered /\ answer' = [answer EXCEPT ![c] = Answered]
  BY DEF Ring
<1>2. answer' \in [Closes -> [by: Nat, cause: Causes]] /\ \A d \in Closes : now <= answer'[d].by
  <2>1. Answered \in [by: Nat, cause: Causes] /\ now <= Answered.by
    BY Constants DEF Answered, Causes, IInv, TypeOK
  <2> QED
    BY <1>1, <2>1 DEF IInv, TypeOK, Clock
<1>3. /\ TypeOK' /\ Clock' /\ PassOwner' /\ Counted' /\ Paced' /\ Readings' /\ Punctual'
      /\ Bound => Bound'
  BY <1>1, <1>2, RingKeeps
<1>4. ASSUME unread >= 0, rings PROVE Pending' \/ Bound'
  <2>1. (Pending \/ Bound) /\ claims \in Closes /\ answer \in [Closes -> [by: Nat, cause: Causes]]
    BY <1>4, Known DEF IInv, ReadFollows, TypeOK
  <2>2. CASE claims # c \/ Bound
    <3>1. claims # c => answer'[claims] = answer[claims]
      BY <1>1, <2>1
    <3> QED
      BY <1>1, <1>3, <2>1, <2>2, <3>1 DEF Pending
  <2>3. CASE claims = c /\ Pending
    \* The caller of the close in flight has rung.
    <3>1. /\ now <= unread + Delay /\ now \in Nat /\ unread \in Int /\ pc \in Steps
          /\ due \in Nat
      BY <2>1, <2>3, Known, Constants DEF IInv, Clock, TypeOK, Pending
    <3>2. CASE pc = "nap"
      <4>1. pc' = "settle" /\ due' = now + Settle
        BY <1>1, <3>2, Known, RingLeaves
      <4> QED
        BY <1>1, <3>1, <4>1, Constants DEF Bound
    <3>3. CASE pc = "settle"
      <4>1. pc' = pc /\ due' = due /\ due <= now + Settle
        BY <1>1, <3>3, Known, RingLeaves DEF IInv, Clock
      <4> QED
        BY <1>1, <3>1, <3>3, <4>1, Constants DEF Bound
    <3>4. CASE pc = "poll"
      <4>1. pc' = pc /\ due' = due /\ due <= now + Delay
        BY <1>1, <3>4, Known, RingLeaves DEF IInv, Clock
      <4> QED
        BY <1>1, <3>1, <3>4, <4>1, Constants DEF Bound
    <3>5. CASE pc \in InPass \union {"correct"}
      <4>1. pc' = pc /\ due' = due /\ permit' = TRUE
        BY <1>1, <3>5, Known, RingLeaves DEF InPass
      <4>2. due <= now + Delay
        BY <3>1, <3>5, Constants DEF IInv, Clock, InPass
      <4> QED
        BY <1>1, <3>1, <3>5, <4>1, <4>2, Constants DEF Bound
    <3> QED
      BY <3>1, <3>2, <3>3, <3>4, <3>5 DEF Steps, InPass
  <2> QED
    BY <2>1, <2>2, <2>3
<1>5. ReadFollows'
  <2>1. pc' \in {"read", "tell", "decide"} => pc' = pc
    BY <1>1, RingLeaves, Known
  <2> QED
    BY <1>1, <1>4, <2>1 DEF IInv, ReadFollows
<1> QED
  BY <1>3, <1>5 DEF IInv

LEMMA RingsNothingStep == ASSUME IInv, NEW c \in Closes, RingsNothing(c) PROVE IInv'
<1>1. /\ answer[c] # Answered /\ answer' = [answer EXCEPT ![c] = Answered] /\ rings' = (rings /\ c # claims)
      /\ UNCHANGED <<now, open, watch, claims, opens, unread>> /\ UNCHANGED loopVars /\ UNCHANGED history
  BY DEF RingsNothing
<1>2. UNCHANGED <<pc, due, permit, mine, seen, readAt, pass>> /\ UNCHANGED <<sent, told, corrected>>
  BY <1>1 DEF loopVars, history
<1>3. answer' \in [Closes -> [by: Nat, cause: Causes]] /\ \A d \in Closes : now <= answer'[d].by
  <2>1. Answered \in [by: Nat, cause: Causes] /\ now <= Answered.by
    BY Constants DEF Answered, Causes, IInv, TypeOK
  <2> QED
    BY <1>1, <2>1 DEF IInv, TypeOK, Clock
<1>4. rings' \in BOOLEAN
  BY <1>1
<1>5. TypeOK'
  BY <1>1, <1>2, <1>3, <1>4 DEF IInv, TypeOK
<1>6. Clock' /\ PassOwner' /\ Counted' /\ Paced' /\ Readings' /\ Punctual'
  BY <1>1, <1>2, <1>3 DEF IInv, Clock, PassOwner, Counted, Paced, Readings, Punctual
<1>7. ReadFollows'
  <2>1. ASSUME unread >= 0, rings' PROVE Pending' \/ Bound'
    <3>1. rings /\ claims # c /\ claims \in Closes /\ answer \in [Closes -> [by: Nat, cause: Causes]]
      BY <1>1, <2>1, Known DEF IInv, ReadFollows, TypeOK
    <3>2. answer'[claims] = answer[claims]
      BY <1>1, <3>1
    <3> QED
      BY <1>1, <1>2, <2>1, <3>1, <3>2 DEF IInv, ReadFollows, Pending, Bound
  <2> QED
    BY <1>1, <1>2, <2>1 DEF IInv, ReadFollows
<1> QED
  BY <1>5, <1>6, <1>7 DEF IInv

\* A close that is claimed takes the slot as the latest of all.
LEMMA ClaimTakes ==
    ASSUME IInv, NEW cause \in Causes, Claim(cause)
    PROVE  /\ now <= LastClaim /\ claims' = claims + 1 /\ claims' \in Closes /\ unread' = now
           /\ watch # NoClose => cause = "flood" /\ watch.cause # "flood"
           /\ watch' \in Watch /\ watch'.cause = cause /\ watch'.first = now /\ watch'.last = now
           /\ watch'.attempts = 1 /\ watch'.alerted = FALSE
           /\ sent' \in [Closes -> Nat] /\ sent'[claims'] = 1
           /\ \A c \in Closes : c # claims' => sent'[c] = sent[c]
<1>1. /\ claims < MaxClaims /\ now <= LastClaim /\ (watch # NoClose => Overrides(cause, watch.cause))
      /\ watch' = Opened(cause, now) /\ claims' = claims + 1 /\ unread' = now
      /\ sent' = [sent EXCEPT ![claims + 1] = 1]
  BY DEF Claim
<1>2. claims' \in Closes /\ sent \in [Closes -> Nat]
  BY <1>1, Known, Constants DEF Closes, IInv, TypeOK
<1>3. sent' \in [Closes -> Nat] /\ sent'[claims'] = 1 /\ \A c \in Closes : c # claims' => sent'[c] = sent[c]
  BY <1>1, <1>2
<1>4. /\ watch' \in Watch /\ watch'.cause = cause /\ watch'.first = now /\ watch'.last = now
      /\ watch'.attempts = 1 /\ watch'.alerted = FALSE
  <2>1. now \in Nat
    BY Known
  <2> QED
    BY <1>1, <2>1, OpenedFields
<1>5. watch # NoClose => cause = "flood" /\ watch.cause # "flood"
  BY <1>1 DEF Overrides
<1> QED
  BY <1>1, <1>2, <1>3, <1>4, <1>5

LEMMA ClaimKeeps ==
    ASSUME IInv, NEW cause \in Causes, Claim(cause), UNCHANGED <<now, open, opens, told, corrected>>,
           UNCHANGED loopVars, rings' \in BOOLEAN,
           answer' \in [Closes -> [by: Nat, cause: Causes]], \A c \in Closes : now <= answer'[c].by
    PROVE  /\ TypeOK' /\ Clock' /\ PassOwner' /\ Counted' /\ Paced' /\ Readings' /\ Punctual'
           /\ unread' = now /\ watch' # NoClose /\ claims' \in Closes
           /\ (rings' => Pending' \/ Bound') => ReadFollows'
<1> USE ClaimTakes
<1>1. UNCHANGED <<pc, due, permit, mine, seen, readAt, pass>>
  BY DEF loopVars
<1>2. /\ claims' = claims + 1 /\ claims' \in Closes /\ unread' = now
      /\ watch' \in Watch /\ watch'.cause = cause /\ watch'.first = now /\ watch'.last = now
      /\ watch'.attempts = 1 /\ watch'.alerted = FALSE
      /\ sent' \in [Closes -> Nat] /\ sent'[claims'] = 1
      /\ \A c \in Closes : c # claims' => sent'[c] = sent[c]
  OBVIOUS
<1>3. watch' # NoClose /\ now \in Nat /\ claims \in Nat /\ pass \in 0..claims /\ pass # claims'
  BY <1>2, Known, Constants DEF IInv, TypeOK
<1>4. TypeOK'
  <2>1. claims' \in 0..MaxClaims /\ pass' \in 0..claims' /\ unread' \in Nat
    BY <1>1, <1>2, <1>3, Constants DEF Closes
  <2> QED
    BY <1>1, <1>2, <2>1 DEF IInv, TypeOK
<1>5. Clock'
  BY <1>1, <1>2, <1>3 DEF IInv, Clock
<1>6. PassOwner'
  <2>1. ASSUME pc \in InPass
        PROVE  mine \in Watch /\ pass \in Closes /\ watch'.cause = "flood" /\ mine.cause # "flood"
    <3>1. watch # NoClose /\ mine \in Watch /\ pass \in Closes /\ (pass = claims => watch = mine)
          /\ (pass # claims => watch.cause = "flood")
      BY <2>1 DEF IInv, PassOwner
    <3>2. cause = "flood" /\ watch.cause # "flood"
      BY <3>1
    <3> QED
      BY <1>2, <3>1, <3>2
  <2> QED
    BY <1>1, <1>2, <1>3, <2>1 DEF PassOwner
<1>7. Counted'
  <2>1. \A c \in Closes : c > claims' => c # claims' /\ c > claims /\ c \in Nat
    BY <1>2, <1>3 DEF Closes
  <2>2. claims' > claims
    BY <1>2, <1>3
  <2>3. \A c \in Closes : c > claims' => sent'[c] = 0 /\ told'[c] = 0 /\ corrected'[c] = 0
    BY <1>2, <2>1 DEF IInv, Counted
  <2>4. told'[claims'] = 0 /\ corrected'[claims'] = 0
    BY <1>2, <2>2 DEF IInv, Counted
  <2>5. sent'[claims'] = watch'.attempts - (IF pc' = "resend" /\ pass' = claims' THEN 1 ELSE 0)
    BY <1>1, <1>2, <1>3
  <2> QED
    BY <1>1, <1>2, <2>3, <2>4, <2>5 DEF IInv, Counted
<1>8. Paced'
  <2>1. DueAt(1) = 0
    BY DEF DueAt
  <2> QED
    BY <1>2, <1>3, <2>1 DEF Paced
<1>9. Readings'
  BY <1>1 DEF IInv, Readings
<1>10. Punctual'
  <2>1. Deadline(watch)' = now + AlertAt /\ now + PollEvery <= now + AlertAt
    BY <1>2, <1>3, Constants DEF Deadline, Until, Telling
  <2>2. /\ pc = "nap" => due <= now + PollEvery
        /\ pc = "settle" => due <= now + Settle
        /\ pc \in {"poll", "read", "tell", "resend", "correct"} => due <= now + Delay
        /\ pc = "decide" => due = now
    BY DEF IInv, Clock
  <2>3. due \in Nat
    BY Known
  <2> QED
    BY <1>1, <1>2, <1>3, <2>1, <2>2, <2>3, Constants DEF Punctual, InPass
<1>11. unread' \in Int /\ unread' # -1 /\ unread' <= now'
  BY <1>2, <1>3
<1>12. (rings' => Pending' \/ Bound') => ReadFollows'
  BY <1>1, <1>3, <1>11 DEF ReadFollows
<1> QED
  BY <1>2, <1>3, <1>4, <1>5, <1>6, <1>7, <1>8, <1>9, <1>10, <1>12

LEMMA CallerStep == ASSUME IInv, NEW cause \in Causes, CallerCloses(cause) PROVE IInv'
<1>1. /\ Claim(cause) /\ UNCHANGED <<now, open, opens, told, corrected>> /\ UNCHANGED loopVars /\ rings' = TRUE
      /\ answer' = [answer EXCEPT ![claims + 1] = [by |-> now + Delay, cause |-> cause]]
  BY DEF CallerCloses
<1>2. now \in Nat /\ now + Delay \in Nat /\ now <= now + Delay /\ claims' = claims + 1 /\ claims' \in Closes
      /\ now <= LastClaim
  <2>1. now \in Nat /\ Delay \in Nat
    BY Known, Constants
  <2>2. claims' = claims + 1 /\ claims' \in Closes /\ now <= LastClaim
    BY <1>1, ClaimTakes
  <2> QED
    BY <2>1, <2>2
<1>3. /\ answer' \in [Closes -> [by: Nat, cause: Causes]] /\ \A c \in Closes : now <= answer'[c].by
      /\ answer'[claims'] = [by |-> now + Delay, cause |-> cause]
  BY <1>1, <1>2 DEF IInv, TypeOK, Clock
<1>4. Pending'
  <2>1. answer'[claims'].by = now + Delay /\ unread' = now
    BY <1>1, <1>3, ClaimTakes
  <2>2. now + Delay < MaxTime + 1
    BY <1>2, Constants
  <2>3. Answered.by = MaxTime + 1
    BY DEF Answered
  <2> QED
    BY <1>2, <2>1, <2>2, <2>3, Constants DEF Pending
<1> QED
  BY <1>1, <1>3, <1>4, ClaimKeeps DEF IInv

LEMMA PushStep == ASSUME IInv, PushCloses PROVE IInv'
<1>1. /\ Claim("volume_cap") /\ UNCHANGED <<now, open, opens, told, corrected>> /\ UNCHANGED loopVars
      /\ rings' = FALSE /\ answer' = answer
  BY DEF PushCloses
<1>2. answer' \in [Closes -> [by: Nat, cause: Causes]] /\ (\A c \in Closes : now <= answer'[c].by)
      /\ "volume_cap" \in Causes
  BY <1>1 DEF IInv, TypeOK, Clock, Causes
<1> QED
  BY <1>1, <1>2, ClaimKeeps DEF IInv

LEMMA PollStep == ASSUME IInv, PollCloses PROVE IInv'
<1>1. /\ Claim("volume_cap") /\ UNCHANGED <<now, open, opens, told, corrected>> /\ UNCHANGED loopVars
      /\ rings' = TRUE /\ answer' = answer /\ pc = "poll" /\ pc' = "poll" /\ due' = due
  BY DEF PollCloses, loopVars
<1>2. answer' \in [Closes -> [by: Nat, cause: Causes]] /\ (\A c \in Closes : now <= answer'[c].by)
      /\ "volume_cap" \in Causes
  BY <1>1 DEF IInv, TypeOK, Clock, Causes
<1>3. Bound'
  <2>1. unread' = now
    BY <1>1, <1>2, ClaimTakes
  <2>2. due <= now + Delay
    BY <1>1 DEF IInv, Clock
  <2> QED
    BY <1>1, <2>1, <2>2, Known, Constants DEF Bound
<1> QED
  BY <1>1, <1>2, <1>3, ClaimKeeps DEF IInv

\* The end of a pass: what it keeps whatever the pass did.
LEMMA NapKeeps ==
    ASSUME IInv, NEW length \in Nat \ {0}, Nap(length), UNCHANGED <<now, open, answer, claims, opens>>,
           rings' \in BOOLEAN, watch' \in {watch, NoClose}, unread' \in {unread, -1},
           sent' \in [Closes -> Nat], told' \in [Closes -> Nat], corrected' \in [Closes -> Nat]
    PROVE  /\ TypeOK' /\ Clock' /\ PassOwner' /\ Paced' /\ Readings'
           /\ pc' \in {"nap", "settle"}
           /\ watch' = NoClose => Punctual'
           /\ watch' = NoClose /\ unread' = -1 => ReadFollows'
<1>1. /\ mine' = NoClose /\ seen' = TRUE /\ readAt' = 0 /\ pass' = 0
      /\ permit' = FALSE /\ due' \in Nat /\ now <= due'
      /\ \/ pc' = "settle" /\ due' = now + Settle
         \/ pc' = "nap" /\ due' <= now + length /\ due' <= now + PollEvery /\ ~permit
  BY NapLeaves, Known
<1>2. pc' \in {"nap", "settle"}
  BY <1>1
<1>3. TypeOK'
  <2>1. pass' \in 0..claims' /\ readAt' \in Nat /\ unread' \in Nat \union {-1} /\ watch' \in Watch \union {NoClose}
    BY <1>1, Known DEF IInv, TypeOK
  <2> QED
    BY <1>1, <1>2, <2>1 DEF IInv, TypeOK, Steps
<1>4. Clock'
  BY <1>1, Known, Constants DEF IInv, Clock
<1>5. PassOwner' /\ Readings'
  BY <1>2 DEF IInv, PassOwner, Readings, InPass
<1>6. Paced'
  BY DEF IInv, Paced
<1>7. watch' = NoClose => Punctual'
  BY DEF Punctual
<1>8. watch' = NoClose /\ unread' = -1 => ReadFollows'
  BY <1>2 DEF ReadFollows
<1> QED
  BY <1>2, <1>3, <1>4, <1>5, <1>6, <1>7, <1>8

\* A nap that keeps the counts.
LEMMA NapCounts ==
    ASSUME IInv, UNCHANGED history, pc' \in {"nap", "settle"}, pc \notin {"tell", "resend"}, claims' = claims,
           watch' \in {watch, NoClose}
    PROVE  Counted'
  BY DEF IInv, Counted, InPass, history

\* A nap is short enough for the close in flight: it was claimed during the pass, or the pass
\* looked ahead to its next instant.
LEMMA NapPunctual ==
    ASSUME IInv, NEW length \in Nat \ {0}, Nap(length), now' = now, watch' = watch, watch # NoClose,
           \/ now <= watch.first + Delay
           \/ readAt < Until(watch) /\ length <= Until(watch) - readAt /\ now <= readAt + Delay + Telling(watch)
    PROVE  Punctual'
<1>1. /\ due' \in Nat
      /\ \/ pc' = "settle" /\ due' = now + Settle
         \/ pc' = "nap" /\ due' <= now + length /\ due' <= now + PollEvery /\ ~permit
  BY NapLeaves, Known
<1>2. watch \in Watch /\ now \in Nat /\ readAt \in Nat
  BY Known
<1>3. /\ Until(watch) \in Nat /\ Telling(watch) \in Nat /\ Deadline(watch) = Until(watch) + Telling(watch)
      /\ watch.first + PollEvery <= Until(watch) /\ watch.first \in Nat
  BY <1>2, Bounds, WatchFields, Constants
<1>4. Deadline(watch)' = Deadline(watch)
  BY DEF Deadline, Until, Telling
<1>5. CASE now <= watch.first + Delay
  BY <1>1, <1>2, <1>3, <1>4, <1>5, Constants DEF Punctual, InPass
<1>6. CASE /\ readAt < Until(watch) /\ length <= Until(watch) - readAt
           /\ now <= readAt + Delay + Telling(watch)
  BY <1>1, <1>2, <1>3, <1>4, <1>6, Constants DEF Punctual, InPass
<1> QED
  BY <1>5, <1>6

\* A nap leaves a read bound to follow.
LEMMA NapReads ==
    ASSUME IInv, NEW length \in Nat \ {0}, Nap(length),
           UNCHANGED <<now, watch, answer, claims, rings, unread>>, watch # NoClose,
           pc \in InPass \union {"correct"},
           pc = "resend" /\ pass = claims /\ mine.last = unread /\ readAt = unread => length <= ConfirmWithin
    PROVE  ReadFollows'
<1>1. /\ due' \in Nat
      /\ \/ pc' = "settle" /\ due' = now + Settle
         \/ pc' = "nap" /\ due' <= now + length /\ ~permit
  BY NapLeaves, Known
<1>2. now \in Nat /\ due \in Nat /\ now <= due /\ unread \in Int
  BY Known
<1>3. ASSUME Bound PROVE Bound'
  <2>1. due <= unread + 2 * Delay
    BY <1>3 DEF Bound, InPass
  <2>2. permit \/ length <= ConfirmWithin
    BY <1>3 DEF Bound, InPass
  <2> QED
    BY <1>1, <1>2, <2>1, <2>2, Constants DEF Bound
<1>4. pc' \notin {"read", "tell", "decide"}
  BY <1>1
<1> QED
  BY <1>3, <1>4 DEF IInv, ReadFollows, Pending

LEMMA WakeStep == ASSUME IInv, Wake PROVE IInv'
<1>1. /\ pc \in {"nap", "settle"} /\ pc' = "poll" /\ due' = now + Delay
      /\ UNCHANGED <<now, open, watch, answer, claims, opens, unread, rings, permit, mine, seen, readAt, pass>>
      /\ UNCHANGED <<sent, told, corrected>>
  BY DEF Wake, Await, history
<1>2. now \in Nat /\ due \in Nat /\ now <= due /\ unread \in Int /\ Delay \in Nat /\ Settle \in Nat
      /\ ConfirmWithin \in Nat
  BY Known, Constants
<1>3. TypeOK'
  BY <1>1, <1>2 DEF IInv, TypeOK, Steps
<1>4. Clock'
  BY <1>1, <1>2 DEF IInv, Clock
<1>5. PassOwner' /\ Counted' /\ Paced' /\ Readings'
  BY <1>1 DEF IInv, PassOwner, Counted, Paced, Readings, InPass
<1>6. Punctual'
  <2> SUFFICES ASSUME watch # NoClose PROVE Punctual'
    BY <1>1 DEF Punctual
  <2>1. Deadline(watch) \in Nat /\ Deadline(watch)' = Deadline(watch)
    BY <1>1, Known, Bounds DEF Deadline, Until, Telling
  <2>2. due <= Deadline(watch) + Settle + Delay
    BY <1>1, <1>2, <2>1 DEF IInv, Punctual
  <2>3. due' <= Deadline(watch) + Settle + 2 * Delay
    BY <1>1, <1>2, <2>1, <2>2
  <2> QED
    BY <1>1, <2>1, <2>3 DEF Punctual, InPass
<1>7. ASSUME Bound PROVE Bound'
  BY <1>1, <1>2, <1>7 DEF Bound, InPass
<1>8. ReadFollows'
  BY <1>1, <1>7 DEF IInv, ReadFollows, Pending
<1> QED
  BY <1>3, <1>4, <1>5, <1>6, <1>8 DEF IInv

LEMMA GoneStep == ASSUME IInv, GatewayGone PROVE IInv'
<1>1. /\ pc = "poll" /\ watch' = NoClose /\ unread' = -1 /\ Nap(PollEvery)
      /\ UNCHANGED <<now, open, answer, claims, opens, rings>> /\ UNCHANGED history
  BY DEF GatewayGone
<1>2. /\ rings' \in BOOLEAN /\ sent' \in [Closes -> Nat] /\ told' \in [Closes -> Nat]
      /\ corrected' \in [Closes -> Nat] /\ PollEvery \in Nat \ {0}
  BY <1>1, Constants DEF IInv, TypeOK, history
<1> QED
  BY <1>1, <1>2, NapKeeps, NapCounts DEF IInv

LEMMA DriveStep == ASSUME IInv, Drive PROVE IInv'
<1>1. /\ pc = "poll" /\ UNCHANGED <<now, open, watch, answer, claims, opens, rings>> /\ UNCHANGED history
  BY DEF Drive
<1>2. UNCHANGED <<sent, told, corrected>>
  BY <1>1 DEF history
<1>3. CASE watch = NoClose
  <2>1. Nap(PollEvery) /\ unread' = unread
    BY <1>3 DEF Drive
  <2>2. /\ rings' \in BOOLEAN /\ sent' \in [Closes -> Nat] /\ told' \in [Closes -> Nat]
        /\ corrected' \in [Closes -> Nat] /\ PollEvery \in Nat \ {0}
    BY <1>1, <1>2, Constants DEF IInv, TypeOK
  <2>3. unread = -1
    BY <1>3 DEF IInv, ReadFollows, TypeOK
  <2> QED
    BY <1>1, <1>3, <2>1, <2>2, <2>3, NapKeeps, NapCounts DEF IInv
<1>4. CASE watch # NoClose
  <2>1. /\ pc' = "read" /\ due' = now + Delay /\ permit' = permit /\ mine' = watch /\ pass' = claims
        /\ unread' = -1 /\ UNCHANGED <<seen, readAt>>
    BY <1>4 DEF Drive, Await
  <2>2. now \in Nat /\ due \in Nat /\ now <= due /\ Delay \in Nat /\ Settle \in Nat /\ claims \in Closes
        /\ watch \in Watch
    BY <1>4, Known, Constants
  <2>3. TypeOK'
    <3>1. pass' \in 0..claims' /\ due' \in Nat
      BY <1>1, <2>1, <2>2, Known
    <3> QED
      BY <1>1, <1>2, <2>1, <2>2, <3>1 DEF IInv, TypeOK, Steps
  <2>4. Clock'
    BY <1>1, <2>1, <2>2 DEF IInv, Clock
  <2>5. PassOwner' /\ Paced' /\ Readings'
    BY <1>1, <1>4, <2>1, <2>2 DEF IInv, PassOwner, Paced, Readings, InPass
  <2>6. Counted'
    BY <1>1, <1>2, <1>4, <2>1 DEF IInv, Counted, InPass
  <2>7. Punctual'
    <3>1. Deadline(watch) \in Nat /\ Deadline(watch)' = Deadline(watch)
      BY <1>1, <2>2, Bounds DEF Deadline, Until, Telling
    <3>2. due <= Deadline(watch) + Settle + 2 * Delay
      BY <1>1, <1>4 DEF IInv, Punctual
    <3>3. due' <= Deadline(watch) + Settle + 3 * Delay
      BY <2>1, <2>2, <3>1, <3>2
    <3> QED
      BY <1>1, <2>1, <3>1, <3>3 DEF Punctual, InPass
  <2>8. ReadFollows'
    BY <2>1 DEF ReadFollows
  <2> QED
    BY <2>3, <2>4, <2>5, <2>6, <2>7, <2>8 DEF IInv
<1> QED
  BY <1>3, <1>4

LEMMA AnswerStep == ASSUME IInv, NEW watering \in BOOLEAN, Answer(watering) PROVE IInv'
<1>1. /\ pc = "read" /\ UNCHANGED <<now, open, answer, claims, opens, unread, rings>>
      /\ UNCHANGED <<sent, told, corrected>>
  BY DEF Answer, history
<1>2. /\ now \in Nat /\ due \in Nat /\ now <= due /\ unread \in Int /\ Delay \in Nat /\ Settle \in Nat
      /\ mine \in Watch /\ watch \in Watch /\ pass \in Closes /\ claims \in Closes
      /\ (pass = claims <=> watch = mine) /\ watch # NoClose
      /\ AlertAt \in Nat /\ GiveUp \in Nat /\ AlertAt < GiveUp
  BY <1>1, Known, WatchFields, Constants DEF InPass
<1>3. mine.first \in Nat /\ mine.alerted \in BOOLEAN /\ watch.first \in Nat /\ watch.alerted \in BOOLEAN
  BY <1>2, WatchFields
<1>4. watch # mine => due <= watch.first + Delay /\ ~watch.alerted
  BY <1>1, <1>2 DEF IInv, Punctual, InPass
<1>5. CASE AlertDue(mine, watering, now) /\ watch # mine
  <2>1. Nap(PollEvery) /\ watch' = watch
    BY <1>5 DEF Answer
  <2>2. /\ rings' \in BOOLEAN /\ sent' \in [Closes -> Nat] /\ told' \in [Closes -> Nat]
        /\ corrected' \in [Closes -> Nat] /\ PollEvery \in Nat \ {0}
    BY <1>1, Constants DEF IInv, TypeOK
  <2>3. TypeOK' /\ Clock' /\ PassOwner' /\ Paced' /\ Readings' /\ pc' \in {"nap", "settle"}
    BY <1>1, <2>1, <2>2, NapKeeps
  <2>4. Counted'
    BY <1>1, <2>1, <2>3, NapCounts DEF history
  <2>5. Punctual'
    BY <1>1, <1>2, <1>3, <1>4, <1>5, <2>1, <2>2, NapPunctual
  <2>6. ReadFollows'
    BY <1>1, <1>2, <2>1, <2>2, NapReads DEF InPass
  <2> QED
    BY <2>3, <2>4, <2>5, <2>6 DEF IInv
<1>6. CASE AlertDue(mine, watering, now) /\ watch = mine
  <2>1. /\ watch' = [mine EXCEPT !.alerted = TRUE] /\ mine' = watch' /\ pc' = "tell" /\ due' = now + Delay
        /\ permit' = permit /\ seen' = watering /\ readAt' = now /\ pass' = pass
    BY <1>6 DEF Answer, Await
  <2>2. /\ watch' \in Watch /\ watch'.cause = mine.cause /\ watch'.first = mine.first /\ watch'.last = mine.last
        /\ watch'.attempts = mine.attempts /\ watch'.alerted = TRUE /\ watch' # NoClose
    BY <1>2, <2>1, AlertedFields, WatchFields
  <2>3. ~mine.alerted /\ pass = claims
    BY <1>2, <1>6 DEF AlertDue
  <2>4. TypeOK'
    BY <1>1, <1>2, <2>1, <2>2 DEF IInv, TypeOK, Steps
  <2>5. Clock'
    BY <1>1, <1>2, <1>6, <2>1, <2>2 DEF IInv, Clock
  <2>6. PassOwner'
    BY <1>1, <1>2, <2>1, <2>2, <2>3 DEF PassOwner
  <2>7. Counted'
    BY <1>1, <1>2, <1>6, <2>1, <2>2, <2>3 DEF IInv, Counted, InPass
  <2>8. Paced'
    BY <1>1, <1>2, <1>6, <2>2 DEF IInv, Paced
  <2>9. Readings'
    BY <1>2, <2>1 DEF Readings
  <2>10. Punctual'
    <3>1. Deadline(watch) = mine.first + AlertAt /\ Deadline(watch)' = mine.first + GiveUp + Delay
      BY <1>6, <2>2, <2>3, <1>3, Constants DEF Deadline, Until, Telling
    <3>2. due <= Deadline(watch) + Settle + 3 * Delay
      BY <1>1, <1>2, <2>3 DEF IInv, Punctual
    <3>3. due' <= Deadline(watch)' + Settle + 3 * Delay
      BY <1>2, <1>3, <2>1, <3>1, <3>2
    <3> QED
      BY <1>1, <2>1, <2>3, <3>3 DEF Punctual, InPass
  <2>11. ReadFollows'
    BY <1>1, <1>2, <2>1, <2>3 DEF IInv, ReadFollows
  <2> QED
    BY <2>4, <2>5, <2>6, <2>7, <2>8, <2>9, <2>10, <2>11 DEF IInv
<1>7. CASE ~AlertDue(mine, watering, now)
  <2>1. /\ pc' = "decide" /\ due' = now /\ permit' = permit /\ seen' = watering /\ readAt' = now
        /\ UNCHANGED <<watch, mine, pass>>
    BY <1>7 DEF Answer, AtOnce
  <2>2. TypeOK'
    BY <1>1, <1>2, <2>1 DEF IInv, TypeOK, Steps
  <2>3. Clock'
    BY <1>1, <1>2, <2>1 DEF IInv, Clock
  <2>4. PassOwner' /\ Paced'
    BY <1>1, <2>1 DEF IInv, PassOwner, Paced, InPass
  <2>5. Counted'
    BY <1>1, <2>1 DEF IInv, Counted, InPass
  <2>6. Readings'
    <3>1. seen' /\ ~mine.alerted => now < Until(mine)
      BY <1>2, <1>3, <1>7, <2>1 DEF AlertDue, Until
    <3>2. now <= now + Telling(mine)
      BY <1>2 DEF Telling
    <3>3. Telling(mine)' = Telling(mine) /\ Until(mine)' = Until(mine)
      BY <2>1 DEF Telling, Until
    <3> QED
      BY <1>1, <2>1, <3>1, <3>2, <3>3 DEF Readings
  <2>7. Punctual'
    <3>1. Deadline(watch) \in Nat /\ Deadline(watch)' = Deadline(watch)
      BY <1>2, <2>1, Bounds DEF Deadline, Until, Telling
    <3>2. pass = claims => due <= Deadline(watch) + Settle + 3 * Delay
      BY <1>1, <1>2 DEF IInv, Punctual
    <3>3. pass = claims => due' <= Deadline(watch) + Settle + 3 * Delay
      BY <1>2, <2>1, <3>1, <3>2
    <3>4. pass # claims => due' <= watch.first + Delay /\ ~watch.alerted
      BY <1>2, <1>3, <1>4, <2>1
    <3> QED
      BY <1>1, <2>1, <3>1, <3>3, <3>4 DEF Punctual, InPass
  <2>8. ReadFollows'
    <3>1. Bound => Bound'
      BY <1>1, <1>2, <2>1 DEF Bound, InPass
    <3> QED
      BY <1>1, <2>1, <3>1 DEF IInv, ReadFollows, Pending
  <2> QED
    BY <2>2, <2>3, <2>4, <2>5, <2>6, <2>7, <2>8 DEF IInv
<1> QED
  BY <1>5, <1>6, <1>7

LEMMA TellStep == ASSUME IInv, Tell PROVE IInv'
<1>1. /\ pc = "tell" /\ pc' = "decide" /\ due' = now /\ permit' = permit
      /\ told' = [told EXCEPT ![pass] = @ + 1]
      /\ UNCHANGED <<now, open, watch, answer, claims, opens, unread, rings, mine, seen, readAt, pass, sent,
                     corrected>>
  BY DEF Tell, AtOnce
<1>2. /\ now \in Nat /\ due \in Nat /\ now <= due /\ readAt \in Nat /\ Delay \in Nat /\ Settle \in Nat
      /\ unread \in Int
      /\ mine \in Watch /\ watch \in Watch /\ pass \in Closes /\ claims \in Closes
      /\ (pass = claims <=> watch = mine) /\ watch # NoClose
  BY <1>1, Known, WatchFields, Constants DEF InPass
<1>3. told \in [Closes -> Nat] /\ told[pass] = 0 /\ corrected[pass] = 0 /\ mine.alerted
  BY <1>1 DEF IInv, TypeOK, Counted, InPass
<1>4. /\ told' \in [Closes -> Nat] /\ told'[pass] = 1
      /\ \A c \in Closes : c # pass => told'[c] = told[c]
  BY <1>1, <1>2, <1>3
<1>5. TypeOK'
  BY <1>1, <1>2, <1>4 DEF IInv, TypeOK, Steps
<1>6. Clock'
  BY <1>1, <1>2 DEF IInv, Clock
<1>7. PassOwner' /\ Paced'
  BY <1>1 DEF IInv, PassOwner, Paced, InPass
<1>8. Counted'
  <2>1. pass <= claims /\ pass \in Nat /\ claims \in Nat
    BY Known, Constants DEF IInv, TypeOK
  <2>2. \A c \in Closes : c > claims => sent'[c] = 0 /\ told'[c] = 0 /\ corrected'[c] = 0
    <3>1. \A c \in Closes : c > claims => c # pass
      BY <2>1 DEF Closes
    <3> QED
      BY <1>1, <1>4, <3>1 DEF IInv, Counted
  <2>3. \A c \in Closes : corrected'[c] <= told'[c] /\ told'[c] <= 1
    BY <1>1, <1>3, <1>4 DEF IInv, Counted
  <2>4. told'[claims] = IF watch.alerted THEN 1 ELSE 0
    BY <1>1, <1>2, <1>3, <1>4 DEF IInv, Counted
  <2>5. sent'[claims] = watch.attempts /\ corrected'[claims] = 0
    <3>1. watch.attempts \in Nat
      BY <1>2, WatchFields
    <3> QED
      BY <1>1, <1>2, <3>1 DEF IInv, Counted
  <2>6. sent'[claims'] = watch'.attempts - (IF pc' = "resend" /\ pass' = claims' THEN 1 ELSE 0)
    BY <1>1, <1>2, <2>5, WatchFields
  <2> QED
    BY <1>1, <1>3, <1>4, <2>2, <2>3, <2>4, <2>5, <2>6 DEF Counted, InPass
<1>9. Readings'
  <2>1. Telling(mine)' = Delay
    BY <1>1, <1>3 DEF Telling
  <2>2. now <= readAt + Delay
    BY <1>1, <1>2 DEF IInv, Readings
  <2> QED
    BY <1>1, <1>3, <2>1, <2>2 DEF Readings
<1>10. Punctual'
  <2>1. Deadline(watch) \in Nat /\ Deadline(watch)' = Deadline(watch) /\ watch.first \in Nat
    BY <1>1, <1>2, Bounds, WatchFields DEF Deadline, Until, Telling
  <2>2. /\ pass = claims => due <= Deadline(watch) + Settle + 3 * Delay
        /\ pass # claims => due <= watch.first + Delay /\ ~watch.alerted
    BY <1>1, <1>2 DEF IInv, Punctual, InPass
  <2>3. /\ pass = claims => due' <= Deadline(watch) + Settle + 3 * Delay
        /\ pass # claims => due' <= watch.first + Delay /\ ~watch.alerted
    BY <1>1, <1>2, <2>1, <2>2
  <2> QED
    BY <1>1, <2>1, <2>3 DEF Punctual, InPass
<1>11. ReadFollows'
  <2>1. Bound => Bound'
    BY <1>1, <1>2 DEF Bound, InPass
  <2> QED
    BY <1>1, <2>1 DEF IInv, ReadFollows, Pending
<1> QED
  BY <1>5, <1>6, <1>7, <1>8, <1>9, <1>10, <1>11 DEF IInv

LEMMA DecideStep == ASSUME IInv, Decide PROVE IInv'
<1> DEFINE step == CloseStep(mine, seen, readAt)
<1>1. /\ pc = "decide" /\ UNCHANGED <<now, open, answer, claims, opens>> /\ UNCHANGED history
      /\ UNCHANGED <<sent, told, corrected>> /\ rings' = (rings \/ pc' = "resend")
  BY DEF Decide, history
<1>2. /\ now \in Nat /\ due \in Nat /\ now <= due /\ readAt \in Nat /\ readAt <= now
      /\ unread \in Int /\ Delay \in Nat /\ Settle \in Nat
      /\ mine \in Watch /\ watch \in Watch /\ pass \in Closes /\ claims \in Closes
      /\ (pass = claims <=> watch = mine) /\ watch # NoClose
      /\ AlertAt \in Nat /\ GiveUp \in Nat /\ AlertAt < GiveUp
  BY <1>1, Known, WatchFields, Constants DEF InPass
<1>3. /\ mine.first \in Nat /\ mine.last \in Nat /\ mine.attempts \in Nat \ {0} /\ mine.alerted \in BOOLEAN
      /\ watch.first \in Nat
  BY <1>2, WatchFields
<1>4. watch # mine => now <= watch.first + Delay /\ ~watch.alerted
  <2>1. watch # mine => due <= watch.first + Delay /\ ~watch.alerted
    BY <1>1, <1>2 DEF IInv, Punctual, InPass
  <2> QED
    BY <1>2, <1>3, <2>1
<1>5. now <= readAt + Telling(mine) /\ (seen /\ ~mine.alerted => readAt < Until(mine))
  BY <1>1 DEF IInv, Readings
<1>6. ASSUME step \in {"wait", "reissue"} PROVE readAt < Until(mine)
  <2>1. seen /\ ~(readAt - mine.first >= GiveUp)
    BY <1>6 DEF CloseStep
  <2> QED
    BY <1>2, <1>3, <1>5, <2>1 DEF Until
<1>7. /\ sent' \in [Closes -> Nat] /\ told' \in [Closes -> Nat] /\ corrected' \in [Closes -> Nat]
      /\ PollEvery \in Nat \ {0} /\ NextLook(mine, readAt) \in Nat \ {0}
  <2>1. NextLook(mine, readAt) \in Nat \ {0}
    BY <1>2, NextLookBound
  <2> QED
    BY <1>1, <2>1, Constants DEF IInv, TypeOK
\* The pass ends and the close in flight stays.
<1>8. ASSUME NEW length \in Nat \ {0}, Nap(length), UNCHANGED <<watch, unread>>,
             watch = mine => step = "wait" /\ length = NextLook(mine, readAt)
      PROVE  IInv'
  <2>1. rings' = rings /\ rings' \in BOOLEAN
    <3>1. pc' # "resend"
      BY <1>8, NapLeaves, Known
    <3> QED
      BY <1>1, <3>1 DEF IInv, TypeOK
  <2>2. TypeOK' /\ Clock' /\ PassOwner' /\ Paced' /\ Readings' /\ pc' \in {"nap", "settle"}
    BY <1>1, <1>7, <1>8, <2>1, NapKeeps
  <2>3. Counted'
    BY <1>1, <1>8, <2>2, NapCounts
  <2>4. CASE watch # mine
    <3>1. Punctual'
      BY <1>1, <1>2, <1>4, <1>8, <2>4, NapPunctual
    <3> QED
      BY <1>1, <1>2, <1>8, <2>1, <2>2, <2>3, <3>1, NapReads DEF IInv, InPass
  <2>5. CASE watch = mine
    <3>1. readAt < Until(watch) /\ length <= Until(watch) - readAt
      BY <1>2, <1>6, <1>8, <2>5, NextLookBound
    <3>2. now <= readAt + Delay + Telling(watch)
      BY <1>2, <1>5, <2>5 DEF Telling
    <3>3. Punctual'
      BY <1>1, <1>2, <1>8, <3>1, <3>2, NapPunctual
    <3> QED
      BY <1>1, <1>2, <1>8, <2>1, <2>2, <2>3, <3>3, NapReads DEF IInv, InPass
  <2> QED
    BY <2>4, <2>5
<1>9. CASE step = "wait"
  <2>1. Nap(NextLook(mine, readAt)) /\ UNCHANGED <<watch, unread>>
    BY <1>9 DEF Decide
  <2> QED
    BY <1>7, <1>8, <1>9, <2>1
<1>10. CASE step # "wait" /\ watch # mine
  <2>1. Nap(PollEvery) /\ UNCHANGED <<watch, unread>>
    BY <1>10 DEF Decide
  <2> QED
    BY <1>7, <1>8, <1>10, <2>1
<1>11. CASE step \in {"confirmed", "gave_up"} /\ watch = mine
  <2>1. /\ watch' = NoClose /\ unread' = -1
        /\ IF step = "confirmed" /\ mine.alerted
           THEN Await("correct") /\ UNCHANGED <<mine, seen, readAt, pass>> ELSE Nap(PollEvery)
    BY <1>11 DEF Decide
  <2>2. rings' \in BOOLEAN
    BY <1>1 DEF IInv, TypeOK
  <2>3. CASE ~(step = "confirmed" /\ mine.alerted)
    <3>1. Nap(PollEvery)
      BY <2>1, <2>3
    <3>2. TypeOK' /\ Clock' /\ PassOwner' /\ Paced' /\ Readings' /\ Punctual' /\ ReadFollows' /\ pc' \in {"nap", "settle"}
      BY <1>1, <1>7, <2>1, <2>2, <3>1, NapKeeps
    <3>3. Counted'
      BY <1>1, <2>1, <3>2, NapCounts
    <3> QED
      BY <3>2, <3>3 DEF IInv
  <2>4. CASE step = "confirmed" /\ mine.alerted
    <3>1. /\ pc' = "correct" /\ due' = now + Delay /\ permit' = permit
          /\ UNCHANGED <<mine, seen, readAt, pass>>
      BY <2>1, <2>4 DEF Await
    <3>2. TypeOK'
      BY <1>1, <1>2, <2>1, <2>2, <3>1 DEF IInv, TypeOK, Steps
    <3>3. Clock'
      BY <1>1, <1>2, <2>1, <3>1 DEF IInv, Clock
    <3>4. PassOwner' /\ Paced' /\ Punctual' /\ ReadFollows' /\ Readings'
      BY <2>1, <3>1 DEF PassOwner, Paced, Punctual, ReadFollows, Readings, InPass
    <3>5. Counted'
      BY <1>1, <1>2, <2>1, <2>4, <3>1 DEF IInv, Counted, InPass
    <3> QED
      BY <3>2, <3>3, <3>4, <3>5 DEF IInv
  <2> QED
    BY <2>3, <2>4
<1>12. CASE step = "reissue" /\ watch = mine
  <2>1. /\ watch' = Reissued(mine, readAt) /\ mine' = watch' /\ pc' = "resend" /\ due' = now + Delay
        /\ permit' = permit /\ UNCHANGED <<seen, readAt, pass>> /\ unread' = readAt
    BY <1>12 DEF Decide, Await
  <2>2. /\ watch' \in Watch /\ watch'.cause = mine.cause /\ watch'.first = mine.first /\ watch'.last = readAt
        /\ watch'.attempts = mine.attempts + 1 /\ watch'.alerted = mine.alerted /\ watch' # NoClose
    <3>1. LET v == Reissued(mine, readAt) IN
          /\ v \in Watch /\ v.cause = mine.cause /\ v.first = mine.first /\ v.last = readAt
          /\ v.attempts = mine.attempts + 1 /\ v.alerted = mine.alerted
      BY <1>2, ReissuedFields
    <3>2. watch' # NoClose
      BY <2>1, <3>1, Constants
    <3> QED
      BY <2>1, <3>1, <3>2
  <2>3. pass = claims /\ rings' = TRUE
    BY <1>1, <1>2, <1>12, <2>1
  <2>4. /\ readAt - mine.first >= DueAt(mine.attempts + 1) /\ readAt - mine.first < GiveUp
    <3>1. ~(readAt - mine.first >= GiveUp) /\ readAt - mine.first >= DueAt(mine.attempts + 1)
      BY <1>12 DEF CloseStep
    <3> QED
      BY <1>2, <1>3, <3>1
  <2>5. TypeOK'
    BY <1>1, <1>2, <2>1, <2>2, <2>3 DEF IInv, TypeOK, Steps
  <2>6. Clock'
    BY <1>1, <1>2, <1>12, <2>1, <2>2 DEF IInv, Clock
  <2>7. PassOwner'
    BY <1>1, <1>2, <2>1, <2>2, <2>3 DEF PassOwner
  <2>8. Counted'
    <3>1. sent[claims] = mine.attempts /\ corrected[claims] = 0 /\ told[claims] = IF mine.alerted THEN 1 ELSE 0
      BY <1>1, <1>2, <1>3, <1>12 DEF IInv, Counted
    <3>2. sent'[claims'] = watch'.attempts - (IF pc' = "resend" /\ pass' = claims' THEN 1 ELSE 0)
      BY <1>1, <1>3, <2>1, <2>2, <2>3, <3>1
    <3> QED
      BY <1>1, <2>1, <2>2, <2>3, <3>1, <3>2 DEF IInv, Counted, InPass
  <2>9. Paced'
    BY <1>1, <1>2, <2>1, <2>2, <2>4 DEF Paced
  <2>10. Readings'
    <3>1. Until(mine)' = Until(mine) /\ Telling(mine)' = Telling(mine) /\ Telling(mine) \in Nat
      BY <1>2, <1>3, <2>1, <2>2 DEF Until, Telling
    <3>2. due' <= readAt + Delay + Telling(mine)
      BY <1>2, <1>5, <2>1, <3>1
    <3> QED
      BY <1>6, <1>12, <2>1, <3>1, <3>2 DEF Readings
  <2>11. Punctual'
    BY <1>1, <2>1, <2>3 DEF Punctual, InPass
  <2>12. ReadFollows'
    <3>1. now <= readAt + Delay
      BY <1>2, <1>5 DEF Telling
    <3>2. due' <= unread' + 2 * Delay
      BY <1>2, <2>1, <3>1
    <3>3. Bound'
      BY <1>1, <2>1, <2>2, <2>3, <3>2 DEF Bound
    <3> QED
      BY <1>1, <1>2, <2>1, <2>2, <3>3 DEF ReadFollows
  <2> QED
    BY <2>5, <2>6, <2>7, <2>8, <2>9, <2>10, <2>11, <2>12 DEF IInv
<1>13. step \in {"wait", "confirmed", "gave_up", "reissue"}
  BY DEF CloseStep
<1> QED
  <2> HIDE DEF step
  <2> QED
    BY <1>9, <1>10, <1>11, <1>12, <1>13

LEMMA ResendStep == ASSUME IInv, Resend PROVE IInv'
<1>1. /\ pc = "resend" /\ sent' = [sent EXCEPT ![pass] = @ + 1] /\ Nap(NextLook(mine, readAt))
      /\ UNCHANGED <<now, open, watch, answer, claims, opens, unread, rings, told, corrected>>
  BY DEF Resend
<1>2. /\ now \in Nat /\ due \in Nat /\ now <= due /\ readAt \in Nat /\ Delay \in Nat
      /\ mine \in Watch /\ watch \in Watch /\ pass \in Closes /\ claims \in Closes
      /\ (pass = claims <=> watch = mine) /\ watch # NoClose
  BY <1>1, Known, WatchFields, Constants DEF InPass
<1>3. NextLook(mine, readAt) \in Nat \ {0}
  BY <1>2, NextLookBound
<1>4. /\ sent' \in [Closes -> Nat] /\ sent'[pass] = sent[pass] + 1 /\ sent[pass] \in Nat
      /\ \A c \in Closes : c # pass => sent'[c] = sent[c]
  BY <1>1, <1>2 DEF IInv, TypeOK
<1>5. rings' \in BOOLEAN /\ told' \in [Closes -> Nat] /\ corrected' \in [Closes -> Nat]
  BY <1>1 DEF IInv, TypeOK
<1>6. TypeOK' /\ Clock' /\ PassOwner' /\ Paced' /\ Readings' /\ pc' \in {"nap", "settle"}
  BY <1>1, <1>3, <1>4, <1>5, NapKeeps
<1>7. Counted'
  <2>1. pass <= claims /\ pass \in Nat /\ claims \in Nat
    BY Known, Constants DEF IInv, TypeOK
  <2>2. \A c \in Closes : c > claims => sent'[c] = 0 /\ told'[c] = 0 /\ corrected'[c] = 0
    <3>1. \A c \in Closes : c > claims => c # pass
      BY <2>1 DEF Closes
    <3> QED
      BY <1>1, <1>4, <3>1 DEF IInv, Counted
  <2>3. watch.attempts \in Nat
    BY <1>2, WatchFields
  <2>4. sent'[claims] = watch.attempts
    <3>1. CASE pass = claims
      <4>1. sent[claims] = watch.attempts - 1
        BY <1>1, <1>2, <3>1 DEF IInv, Counted
      <4> QED
        BY <1>4, <2>3, <3>1, <4>1
    <3>2. CASE pass # claims
      <4>1. sent[claims] = watch.attempts
        BY <1>1, <1>2, <2>3, <3>2 DEF IInv, Counted
      <4> QED
        BY <1>2, <1>4, <3>2, <4>1
    <3> QED
      BY <3>1, <3>2
  <2>5. sent'[claims'] = watch'.attempts - (IF pc' = "resend" /\ pass' = claims' THEN 1 ELSE 0)
    BY <1>1, <1>6, <2>3, <2>4
  <2> QED
    BY <1>1, <1>6, <2>2, <2>5 DEF IInv, Counted, InPass
<1>8. Punctual'
  <2>1. due <= readAt + Delay + Telling(mine) /\ readAt < Until(mine)
    BY <1>1 DEF IInv, Readings
  <2>2. CASE watch = mine
    <3>1. Telling(watch) \in Nat /\ Until(watch) \in Nat
      BY <1>2, Bounds, Constants
    <3>2. NextLook(mine, readAt) <= Until(watch) - readAt
      BY <1>2, <2>1, <2>2, NextLookBound
    <3>3. now <= readAt + Delay + Telling(watch)
      BY <1>2, <2>1, <2>2, <3>1
    <3> QED
      BY <1>1, <1>2, <1>3, <2>1, <2>2, <3>2, <3>3, NapPunctual
  <2>3. CASE watch # mine
    <3>1. due <= watch.first + Delay /\ watch.first \in Nat
      BY <1>1, <1>2, <2>3, WatchFields DEF IInv, Punctual, InPass
    <3>2. now <= watch.first + Delay
      BY <1>2, <3>1
    <3> QED
      BY <1>1, <1>2, <1>3, <3>2, NapPunctual
  <2> QED
    BY <2>2, <2>3
<1>9. ReadFollows'
  <2>1. ASSUME mine.last = unread, readAt = unread PROVE NextLook(mine, readAt) <= ConfirmWithin
    <3>1. readAt < mine.last + ConfirmWithin
      BY <1>2, <2>1, Constants
    <3>2. NextLook(mine, readAt) <= mine.last + ConfirmWithin - readAt
      BY <1>2, <3>1, NextLookBound
    <3> QED
      BY <1>2, <1>3, <2>1, <3>2, Constants
  <2> QED
    BY <1>1, <1>2, <1>3, <2>1, NapReads DEF InPass
<1> QED
  BY <1>6, <1>7, <1>8, <1>9 DEF IInv

LEMMA CorrectStep == ASSUME IInv, Correct PROVE IInv'
<1>1. /\ pc = "correct" /\ corrected' = [corrected EXCEPT ![pass] = @ + 1] /\ Nap(PollEvery)
      /\ UNCHANGED <<now, open, watch, answer, claims, opens, unread, rings, sent, told>>
  BY DEF Correct
<1>2. pass \in Closes /\ corrected[pass] = 0 /\ told[pass] = 1 /\ corrected \in [Closes -> Nat]
  BY <1>1 DEF IInv, Counted, TypeOK
<1>3. /\ corrected' \in [Closes -> Nat] /\ corrected'[pass] = 1
      /\ \A c \in Closes : c # pass => corrected'[c] = corrected[c]
  BY <1>1, <1>2
<1>4. rings' \in BOOLEAN /\ told' \in [Closes -> Nat] /\ sent' \in [Closes -> Nat] /\ PollEvery \in Nat \ {0}
  BY <1>1, Constants DEF IInv, TypeOK
<1>5. TypeOK' /\ Clock' /\ PassOwner' /\ Paced' /\ Readings' /\ pc' \in {"nap", "settle"}
  BY <1>1, <1>3, <1>4, NapKeeps
<1>6. watch # NoClose => pass # claims /\ due <= watch.first + Delay
  <2>1. watch # NoClose => told[claims] = 0 /\ due <= watch.first + Delay
    BY <1>1 DEF IInv, Counted, Punctual
  <2> QED
    BY <1>2, <2>1
<1>7. Counted'
  <2>1. \A c \in Closes : c > claims => c # pass
    BY <1>2 DEF IInv, Counted
  <2>2. \A c \in Closes : c > claims => sent'[c] = 0 /\ told'[c] = 0 /\ corrected'[c] = 0
    BY <1>1, <1>3, <2>1 DEF IInv, Counted
  <2>3. \A c \in Closes : corrected'[c] <= told'[c] /\ told'[c] <= 1
    BY <1>1, <1>2, <1>3 DEF IInv, Counted
  <2>4. watch # NoClose => claims \in Closes /\ corrected'[claims] = 0
    BY <1>3, <1>6, Known DEF IInv, Counted
  <2> QED
    BY <1>1, <1>5, <2>2, <2>3, <2>4 DEF IInv, Counted, InPass
<1>8. Punctual' /\ ReadFollows'
  <2>1. CASE watch = NoClose
    <3>1. unread = -1
      BY <2>1 DEF IInv, ReadFollows, TypeOK
    <3> QED
      BY <1>1, <1>3, <1>4, <2>1, <3>1, NapKeeps
  <2>2. CASE watch # NoClose
    <3>1. now <= watch.first + Delay
      <4>1. watch.first \in Nat /\ now \in Nat /\ due \in Nat /\ now <= due /\ Delay \in Nat
        BY <2>2, Known, WatchFields, Constants
      <4> QED
        BY <1>6, <2>2, <4>1
    <3> QED
      BY <1>1, <1>4, <2>2, <3>1, NapPunctual, NapReads
  <2> QED
    BY <2>1, <2>2
<1> QED
  BY <1>5, <1>7, <1>8 DEF IInv

LEMMA Step == IInv /\ [Next]_vars => IInv'
<1> SUFFICES ASSUME IInv, [Next]_vars PROVE IInv'
  OBVIOUS
<1>1. ASSUME NEW cause \in Causes, CallerCloses(cause) \/ CallerRefused(cause) PROVE IInv'
  BY <1>1, CallerStep, RefusedStep
<1>2. CASE PushCloses \/ PollCloses \/ GatewayGone
  BY <1>2, PushStep, PollStep, GoneStep
<1>3. ASSUME NEW c \in Closes, Ring(c) \/ RingsNothing(c) PROVE IInv'
  BY <1>3, RingStep, RingsNothingStep
<1>4. CASE Loop
  <2>1. open \in BOOLEAN /\ TRUE \in BOOLEAN
    BY DEF IInv, TypeOK
  <2>2. CASE Answer(open) \/ Answer(TRUE)
    BY <2>1, <2>2, AnswerStep
  <2>3. CASE Wake \/ Drive \/ Tell \/ Decide \/ Resend \/ Correct
    BY <2>3, WakeStep, DriveStep, TellStep, DecideStep, ResendStep, CorrectStep
  <2> QED
    BY <1>4, <2>2, <2>3 DEF Loop
<1>5. CASE ValveShuts \/ ValveOpens \/ Tick
  BY <1>5, ValveStep, TickStep
<1>6. CASE UNCHANGED vars
  <2>1. UNCHANGED <<now, watch, answer, claims, unread, rings, loopVars, history>> /\ open' = open /\ opens' = opens
    BY <1>6 DEF vars
  <2> QED
    BY <2>1 DEF IInv, TypeOK, Clock, PassOwner, Counted, Paced, Readings, Punctual, ReadFollows, Pending, Bound,
                loopVars, history
<1> QED
  BY <1>1, <1>2, <1>3, <1>4, <1>5, <1>6 DEF Next

LEMMA Invariant == Spec => []IInv
  BY Initially, Step, PTL DEF Spec

-----------------------------------------------------------------------------
(* The theorems *)

\* How late the loop may be for the close in flight.
LEMMA Lateness == ASSUME IInv, watch # NoClose PROVE now <= Deadline(watch) + Settle + 3 * Delay
<1>1. /\ now \in Nat /\ due \in Nat /\ now <= due /\ Delay \in Nat /\ Settle \in Nat /\ watch \in Watch
      /\ readAt \in Nat /\ pc \in Steps
  BY Known, Constants DEF IInv, TypeOK
<1>2. /\ Deadline(watch) \in Nat /\ watch.first \in Nat /\ watch.first <= Deadline(watch)
      /\ Deadline(watch) = Until(watch) + Telling(watch) /\ Until(watch) \in Nat /\ Telling(watch) \in Nat
  <2>1. /\ Until(watch) \in Nat /\ Telling(watch) \in {0, Delay} /\ Deadline(watch) = Until(watch) + Telling(watch)
        /\ watch.first + PollEvery <= Until(watch) /\ watch.first \in Nat
    BY <1>1, Bounds, WatchFields
  <2> QED
    BY <1>1, <2>1, Constants
<1>3. CASE pc = "resend" /\ pass = claims
  <2>1. mine = watch
    BY <1>3, Known DEF InPass
  <2>2. due <= readAt + Delay + Telling(watch) /\ readAt < Until(watch)
    BY <1>3, <2>1 DEF IInv, Readings
  <2> QED
    BY <1>1, <1>2, <2>2
<1>4. CASE ~(pc = "resend" /\ pass = claims)
  <2>1. \/ due <= Deadline(watch) + Delay
        \/ due <= Deadline(watch) + Settle + Delay
        \/ due <= Deadline(watch) + Settle + 2 * Delay
        \/ due <= Deadline(watch) + Settle + 3 * Delay
        \/ due <= watch.first + Delay
    BY <1>1, <1>4 DEF IInv, Punctual, InPass, Steps
  <2> QED
    BY <1>1, <1>2, <2>1
<1> QED
  BY <1>3, <1>4

\* A close keeps the schedule it was given, over late answers, takeovers and naps cut short: no
\* attempt runs ahead of it, every one is recorded before it is sent, and its window ends
\* (drive_closes, close_step, next_look_ms).
THEOREM CloseKeepsSchedule == Spec => []OnSchedule
<1>1. ASSUME IInv PROVE OnSchedule
  <2>1. SentWasRecorded
    <3> SUFFICES ASSUME watch # NoClose
                 PROVE  /\ sent[claims] <= watch.attempts
                        /\ sent[claims] < watch.attempts => pc = "resend" /\ mine = watch
      BY DEF SentWasRecorded
    <3>1. sent[claims] = watch.attempts - (IF pc = "resend" /\ pass = claims THEN 1 ELSE 0)
      BY <1>1 DEF IInv, Counted
    <3>2. watch.attempts \in Nat /\ (pc = "resend" /\ pass = claims => mine = watch)
      BY <1>1, Known, WatchFields DEF InPass
    <3> QED
      BY <3>1, <3>2
  <2>2. GivenUpInTime
    <3> SUFFICES ASSUME watch # NoClose PROVE now <= watch.first + GiveUp + Slip
      BY DEF GivenUpInTime
    <3>1. now <= Deadline(watch) + Settle + 3 * Delay
      BY <1>1, Lateness
    <3>2. watch.first \in Nat /\ now \in Nat /\ Deadline(watch) <= watch.first + GiveUp + Delay /\ Deadline(watch) \in Nat
      <4>1. watch \in Watch
        BY <1>1, Known
      <4> QED
        BY <1>1, <4>1, Known, Bounds, WatchFields, Constants DEF Deadline, Until, Telling
    <3> QED
      BY <3>1, <3>2, Constants DEF Slip
  <2> QED
    BY <1>1, <2>1, <2>2 DEF IInv, OnSchedule
<1> QED
  BY <1>1, Invariant, PTL

\* The owner is told on time of a close that is still open, whoever claimed it, and of one close
\* once; he is only corrected when he was told (alert_due, drive_closes).
THEOREM OwnerIsToldInTime == Spec => []ToldInTime
<1>1. ASSUME IInv PROVE ToldInTime
  <2>1. ASSUME watch # NoClose, ~watch.alerted PROVE now <= watch.first + AlertAt + Slip
    <3>1. now <= Deadline(watch) + Settle + 3 * Delay
      BY <1>1, <2>1, Lateness
    <3>2. watch.first \in Nat /\ now \in Nat /\ Deadline(watch) = watch.first + AlertAt
      <4>1. watch \in Watch
        BY <1>1, <2>1, Known
      <4> QED
        BY <1>1, <2>1, <4>1, Known, WatchFields, Constants DEF Deadline, Until, Telling
    <3> QED
      BY <3>1, <3>2, Constants DEF Slip
  <2>2. \A c \in Closes : corrected[c] <= told[c] /\ told[c] <= 1
    BY <1>1 DEF IInv, Counted
  <2> QED
    BY <2>1, <2>2 DEF ToldInTime
<1> QED
  BY <1>1, Invariant, PTL

\* When the caller rings, or the loop itself issued the stop, the valve is read within the confirm
\* window of it, whatever else the loop was doing (linktap_wake, next_look_ms).
THEOREM ReadFollowsIssue == Spec => []ReadAfterRung
<1>1. ASSUME IInv PROVE ReadAfterRung
  <2> SUFFICES ASSUME unread >= 0, rings PROVE now <= unread + ConfirmWithin + Behind
    BY DEF ReadAfterRung
  <2>1. /\ now \in Nat /\ due \in Nat /\ now <= due /\ unread \in Int /\ claims \in Closes
        /\ answer \in [Closes -> [by: Nat, cause: Causes]]
    BY <1>1, Known DEF IInv, ReadFollows, TypeOK
  <2>2. CASE Pending
    <3>1. now <= answer[claims].by /\ answer[claims].by \in Nat /\ answer[claims].by <= unread + Delay
      BY <1>1, <2>1, <2>2 DEF IInv, Clock, Pending
    <3> QED
      BY <2>1, <3>1, Constants DEF Behind
  <2>3. CASE Bound
    <3>1. due <= unread + ConfirmWithin + Settle + 3 * Delay
      BY <2>1, <2>3, Constants DEF Bound
    <3> QED
      BY <2>1, <3>1, Constants DEF Behind
  <2> QED
    BY <1>1, <2>2, <2>3 DEF IInv, ReadFollows
<1> QED
  BY <1>1, Invariant, PTL

\* The slot is never stolen: a close in flight moves on by itself, ends, or is taken over by an
\* alarm that is not another alarm's (claim_close, settle_close).
THEOREM SlotIsNotStolen == Spec => OneCloseInFlight
<1> DEFINE Moved ==
      watch # NoClose /\ watch' # NoClose /\ watch' # watch =>
        \/ watch' = [watch EXCEPT !.alerted = TRUE]
        \/ \E at \in 0..MaxTime : watch' = Reissued(watch, at)
        \/ watch.cause # "flood" /\ watch' = Opened("flood", now)
<1>1. IInv /\ [Next]_vars => [Moved]_watch
  <2> SUFFICES ASSUME IInv, Next, watch # NoClose, watch' # NoClose, watch' # watch
               PROVE  \/ watch' = [watch EXCEPT !.alerted = TRUE]
                      \/ \E at \in 0..MaxTime : watch' = Reissued(watch, at)
                      \/ watch.cause # "flood" /\ watch' = Opened("flood", now)
    BY DEF vars
  <2>1. ASSUME NEW cause, Claim(cause) PROVE watch.cause # "flood" /\ watch' = Opened("flood", now)
    BY <2>1 DEF Claim, Overrides
  <2>2. \/ \E cause : Claim(cause)
        \/ \E watering \in {open, TRUE} : Answer(watering)
        \/ Decide
    BY DEF Next, Loop, CallerCloses, CallerRefused, PushCloses, PollCloses, Ring, RingsNothing, GatewayGone,
           Wake, Drive, Tell, Resend, Correct, ValveShuts, ValveOpens, Tick
  <2>3. ASSUME NEW watering, Answer(watering) PROVE watch' = [watch EXCEPT !.alerted = TRUE]
    BY <2>3 DEF Answer
  <2>4. CASE Decide
    <3>1. watch' = Reissued(watch, readAt)
      BY <2>4 DEF Decide
    <3>2. readAt \in 0..MaxTime
      BY Known, Constants DEF IInv, TypeOK
    <3> QED
      BY <3>1, <3>2
  <2> QED
    BY <2>1, <2>2, <2>3, <2>4
<1> QED
  BY <1>1, Invariant, PTL DEF Spec, OneCloseInFlight

=============================================================================
