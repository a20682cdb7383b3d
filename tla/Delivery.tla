------------------------------- MODULE Delivery -------------------------------
(***************************************************************************)
(* The way of a report to the cloud (daemon/src/hub_server.rs,             *)
(* enqueue_report, drain_reports and checkin_once, with batch.rs): tasks   *)
(* queue reports and drain the queue, one at a time, as numbered posts;    *)
(* a post that fails is kept with its number and sent again.  A post may   *)
(* reach the cloud late or have its answer lost, the hub may restart or    *)
(* lose its registration.  The reports of a process are numbered as they   *)
(* are made: the queue is an interval of these numbers.                    *)
(***************************************************************************)
EXTENDS Naturals

CONSTANTS
    Tasks,          \* the samplers, loops and requests that make reports
    CheckIns,       \* the tasks among them that post keyframes
    MaxItems,       \* batch::MAX_ITEMS
    MaxSpool,       \* MAX_SPOOL_REPORTS
    Free,           \* no task holds report_flush
    NoPost,         \* nothing in flight, or nothing in hand
    NoSeq,          \* a post with no sequence number
    LastReport,     \* bound: reports of a process
    LastBoot,       \* bound: processes
    MaxMoves        \* bound: times the registration comes or goes

Boots == 1..LastBoot
Post == [boot: Boots, seq: Nat \ {0}, first: Nat \ {0}, last: Nat \ {0}]

ASSUME DeliveryAssumption ==
    /\ CheckIns \subseteq Tasks
    /\ MaxItems \in Nat \ {0} /\ MaxSpool \in Nat \ {0}
    /\ Free \notin Tasks
    /\ NoPost \notin Post
    /\ NoSeq \notin Nat
    /\ LastReport \in Nat /\ LastBoot \in Nat \ {0} /\ MaxMoves \in Nat

VARIABLES
    boot,           \* the process that runs: boot_id
    made,           \* the reports each process has made
    head,           \* the oldest report in pending_reports, or the next one to be made
    batchSeq,       \* batch_seq
    inflight,       \* inflight_delta
    flush,          \* report_flush
    at,             \* where each task is
    hand,           \* the post the drain under way has taken
    registered,     \* hub.json holds a token and a vehicle
    wire,           \* posts sent: a copy of any of them may still reach the cloud
    reached,        \* the post that is waiting for its answer has reached the cloud
    newest,         \* the cloud's: the number of the latest post of each process
    taken,          \* the cloud's: reports taken
    takes,          \* the cloud's: times it took any
    moves,
    lost            \* history: the reports of this process dropped, and said so

hub == <<boot, made, head, batchSeq, inflight, flush, at, hand>>
cloud == <<newest, taken, takes>>
vars == <<hub, registered, wire, reached, cloud, moves, lost>>

Pending == head..made[boot]
Reports(post) == {<<post.boot, n>> : n \in post.first..post.last}
Numbers(post) == IF post = NoPost THEN {} ELSE post.first..post.last

Init ==
    /\ boot = 1
    /\ made = [b \in Boots |-> 0]
    /\ head = 1
    /\ batchSeq = 1
    /\ inflight = NoPost
    /\ flush = Free
    /\ at = [t \in Tasks |-> "idle"]
    /\ hand = NoPost
    /\ registered = TRUE
    /\ wire = {}
    /\ reached = FALSE
    /\ newest = [b \in Boots |-> 0]
    /\ taken = {}
    /\ takes = 0
    /\ moves = 0
    /\ lost = {}

Goto(t, step) == at' = [at EXCEPT ![t] = step]

-----------------------------------------------------------------------------
(* Reports and keyframes *)

\* push_bounded: how many of the oldest go from a queue of n.
Shed(n) == IF n > MaxSpool THEN 1 ELSE 0

\* enqueue_report; a task that has more to queue does so before it drains.
EnqueueReport(t) ==
    /\ at[t] \in {"idle", "queue"}
    /\ made[boot] < LastReport
    /\ LET shed == Shed(made[boot] + 2 - head)
       IN  /\ head' = head + shed
           /\ lost' = lost \union head..(head + shed - 1)
    /\ made' = [made EXCEPT ![boot] = @ + 1]
    /\ Goto(t, "queue")
    /\ UNCHANGED <<boot, batchSeq, inflight, flush, hand, registered, wire, reached, cloud, moves>>

\* The cloud drops a post whose number it has passed, and all that is in it.
IsNewSeq(b, seq) == seq > newest[b]

\* Mutant: keyframes are numbered with the posts of the queue.
KeyframeNumbered == batchSeq

KeyframeSeq == NoSeq

\* Mutant: a check-in leaves the queue alone.
NothingAfterKeyframe == "idle"

AfterKeyframe == "queue"

\* checkin_once, delivered; one that fails changes nothing here.
Keyframe(t) ==
    /\ at[t] = "idle"
    /\ registered
    /\ newest' = IF KeyframeSeq # NoSeq /\ IsNewSeq(boot, KeyframeSeq)
                 THEN [newest EXCEPT ![boot] = KeyframeSeq] ELSE newest
    /\ Goto(t, AfterKeyframe)
    /\ UNCHANGED <<boot, made, head, batchSeq, inflight, flush, hand, registered, wire, reached,
                   taken, takes, moves, lost>>

-----------------------------------------------------------------------------
(* drain_reports *)

Enter(t) ==
    /\ at[t] = "queue"
    /\ flush = Free
    /\ flush' = t
    /\ Goto(t, "take")
    /\ UNCHANGED <<boot, made, head, batchSeq, inflight, hand, registered, wire, reached, cloud, moves, lost>>

Leave(t) ==
    /\ flush' = Free
    /\ Goto(t, "idle")

\* Mutant: a post sent again takes a new number.
Renumbered(post) == [post EXCEPT !.seq = batchSeq]

\* A post sent again is the same to the byte.
Again(post) == post

TakeInflight(t) ==
    /\ at[t] = "take"
    /\ inflight # NoPost
    /\ hand' = Again(inflight)
    /\ inflight' = NoPost
    /\ Goto(t, "post")
    /\ UNCHANGED <<boot, made, head, batchSeq, flush, registered, wire, reached, cloud, moves, lost>>

TakePending(t) ==
    /\ at[t] = "take"
    /\ inflight = NoPost
    /\ head <= made[boot]
    /\ LET last == IF head + MaxItems - 1 < made[boot] THEN head + MaxItems - 1 ELSE made[boot]
       IN  /\ hand' = [boot |-> boot, seq |-> batchSeq, first |-> head, last |-> last]
           /\ head' = last + 1
    /\ batchSeq' = batchSeq + 1
    /\ Goto(t, "post")
    /\ UNCHANGED <<boot, made, inflight, flush, registered, wire, reached, cloud, moves, lost>>

Drained(t) ==
    /\ at[t] = "take"
    /\ inflight = NoPost
    /\ head > made[boot]
    /\ Leave(t)
    /\ UNCHANGED <<boot, made, head, batchSeq, inflight, hand, registered, wire, reached, cloud, moves, lost>>

PostBatch(t) ==
    /\ at[t] = "post"
    /\ registered
    /\ wire' = wire \union {hand}
    /\ reached' = FALSE
    /\ Goto(t, "answer")
    /\ UNCHANGED <<boot, made, head, batchSeq, inflight, flush, hand, registered, cloud, moves, lost>>

\* Unregistered: the queue is emptied, and the post taken from it goes too.
Discard(t) ==
    /\ at[t] = "post"
    /\ ~registered
    /\ lost' = lost \union Numbers(hand) \union Pending
    /\ head' = made[boot] + 1
    /\ hand' = NoPost
    /\ Leave(t)
    /\ UNCHANGED <<boot, made, batchSeq, inflight, registered, wire, reached, cloud, moves>>

Delivered(t) ==
    /\ at[t] = "answer"
    /\ reached
    /\ hand' = NoPost
    /\ Goto(t, "take")
    /\ UNCHANGED <<boot, made, head, batchSeq, inflight, flush, registered, wire, reached, cloud, moves, lost>>

Refused(t) ==
    /\ at[t] = "answer"
    /\ lost' = lost \union Numbers(hand)
    /\ hand' = NoPost
    /\ Goto(t, "take")
    /\ UNCHANGED <<boot, made, head, batchSeq, inflight, flush, registered, wire, reached, cloud, moves>>

\* Mutant: a post that fails is dropped.
Forgotten(post) == NoPost

Kept(post) == post

\* No answer in time, or one that says to try later.
Transient(t) ==
    /\ at[t] = "answer"
    /\ inflight' = Kept(hand)
    /\ hand' = NoPost
    /\ Leave(t)
    /\ UNCHANGED <<boot, made, head, batchSeq, registered, wire, reached, cloud, moves, lost>>

-----------------------------------------------------------------------------
(* The cloud and the rest of the world *)

\* A copy of a post reaches the cloud, on time or not.
Arrive(post) ==
    /\ post \in wire
    /\ IF IsNewSeq(post.boot, post.seq)
       THEN /\ newest' = [newest EXCEPT ![post.boot] = post.seq]
            /\ taken' = taken \union Reports(post)
            /\ takes' = takes + 1
       ELSE UNCHANGED cloud
    /\ reached' = (reached \/ post = hand)
    /\ UNCHANGED <<hub, registered, wire, moves, lost>>

\* Nothing of the queue is on disk.
Restart ==
    /\ boot < LastBoot
    /\ boot' = boot + 1
    /\ head' = 1
    /\ batchSeq' = 1
    /\ inflight' = NoPost
    /\ flush' = Free
    /\ at' = [t \in Tasks |-> "idle"]
    /\ hand' = NoPost
    /\ reached' = FALSE
    /\ lost' = {}
    /\ UNCHANGED <<made, registered, wire, cloud, moves>>

Register ==
    /\ moves < MaxMoves
    /\ moves' = moves + 1
    /\ registered' = ~registered
    /\ UNCHANGED <<hub, wire, reached, cloud, lost>>

-----------------------------------------------------------------------------

Drain(t) ==
    \/ TakeInflight(t) \/ TakePending(t) \/ Drained(t)
    \/ PostBatch(t) \/ Discard(t)
    \/ Delivered(t) \/ Refused(t) \/ Transient(t)

Next ==
    \/ \E t \in Tasks : EnqueueReport(t) \/ Enter(t) \/ Drain(t)
    \/ \E t \in CheckIns : Keyframe(t)
    \/ \E post \in wire : Arrive(post)
    \/ Restart
    \/ Register

Spec == Init /\ [][Next]_vars

Answered == \E t \in Tasks : at[t] = "answer" /\ Arrive(hand)

\* The uplink comes back: check-ins are delivered, and among the posts sent again and
\* again some reach the cloud and are answered in time.  Drains go on.
FairSpec ==
    /\ Spec
    /\ SF_vars(Answered)
    /\ SF_vars(\E t \in Tasks : Delivered(t))
    /\ WF_vars(\E t \in Tasks : Enter(t) \/ Drain(t))
    /\ SF_vars(\E t \in CheckIns : Keyframe(t))

-----------------------------------------------------------------------------
(* Properties *)

TypeOK ==
    /\ boot \in Boots
    /\ made \in [Boots -> Nat]
    /\ head \in 1..(made[boot] + 1)
    /\ made[boot] + 1 - head <= MaxSpool
    /\ batchSeq \in Nat \ {0}
    /\ inflight \in Post \union {NoPost}
    /\ flush \in Tasks \union {Free}
    /\ at \in [Tasks -> {"idle", "queue", "take", "post", "answer"}]
    /\ hand \in Post \union {NoPost}
    /\ registered \in BOOLEAN
    /\ wire \subseteq Post
    /\ reached \in BOOLEAN
    /\ newest \in [Boots -> Nat]
    /\ taken \subseteq Boots \X (Nat \ {0})
    /\ takes \in Nat
    /\ moves \in Nat
    /\ lost \subseteq Nat \ {0}

\* The cloud takes the reports of a process in order and none twice, however posts are
\* retried, delayed or overtaken, and whenever the hub restarts: Delivery implements EventLog.
Log == INSTANCE EventLog WITH Boots <- Boots, made <- made, taken <- taken, takes <- takes
InOrderAndOnce == Log!Spec

\* No report of this process vanishes: it waits in the queue, is in a post, has been
\* taken by the cloud, or was dropped and said so.
Accounted ==
    \A n \in 1..made[boot] :
        \/ n \in Pending \union Numbers(inflight) \union Numbers(hand)
        \/ <<boot, n>> \in taken
        \/ n \in lost

\* The queue is within its bound, and no report vanishes from it or after it.
DeliveryInv == TypeOK /\ Accounted

\* A post answered as delivered was taken: keyframes and heartbeats, which run beside the
\* queue, never make the cloud read an event post as a replay and discard its alarms.
NoSilentDiscard == [][\A t \in Tasks : Delivered(t) => Reports(hand) \subseteq taken]_vars

\* Every report is taken or dropped in the end: while the hub stays registered, it comes
\* back again and again to where none waits, once no more are made for a while.
Settled == \A n \in 1..made[boot] : <<boot, n>> \in taken \/ n \in lost
EveryReportSettles == <>[]registered => []<>Settled
=============================================================================
