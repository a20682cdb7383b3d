---------------------------- MODULE DeliveryProofs ----------------------------
(***************************************************************************)
(* Proofs about Delivery, for every number of tasks, reports, restarts and *)
(* bounds: its types, that no report vanishes, that a post answered as     *)
(* delivered was taken, and that it implements EventLog.                   *)
(***************************************************************************)
EXTENDS Delivery, TLAPS

\* The post that may be sent again, and every one that the cloud may still see.
Latest == {hand, inflight} \ {NoPost}
Posts == wire \union Latest

\* The lock serialises the drains: the post in hand is its holder's, and while there is
\* one in hand none is kept for later.
Serialized ==
    /\ \A t \in Tasks : at[t] \in {"take", "post", "answer"} => flush = t
    /\ \A t \in Tasks : at[t] = "take" => hand = NoPost
    /\ \A t \in Tasks : at[t] \in {"post", "answer"} => hand # NoPost
    /\ hand # NoPost => inflight = NoPost
    /\ flush = Free => hand = NoPost

\* Posts hold reports that were made and have left the queue; the one that is in hand or
\* kept is the latest of its process.
PostsLeftQueue ==
    /\ \A p \in Posts : p.boot <= boot /\ p.first <= p.last /\ p.last <= made[p.boot]
    /\ \A p \in Posts : p.boot = boot => p.seq < batchSeq /\ p.last < head
    /\ \A p \in Latest : p.boot = boot /\ p.seq = batchSeq - 1

\* Posts are numbered in the order of their reports.
PostsInOrder ==
    \A p, q \in Posts : p.boot = q.boot =>
        /\ p.seq < q.seq => p.last < q.first
        /\ p.seq = q.seq => p = q

\* A post the cloud would still take comes after all it has taken.
NewComesLater ==
    \A r \in taken, p \in Posts : p.boot = r[1] /\ newest[r[1]] < p.seq => r[2] < p.first

TakenLeftQueue ==
    /\ newest[boot] < batchSeq
    /\ \A r \in taken : r[1] <= boot /\ (r[1] = boot => r[2] < head)

\* A process that has not started has left no trace.
Unborn == \A b \in Boots : b > boot => made[b] = 0 /\ newest[b] = 0

\* What the cloud has passed of the post in hand, or kept, it has taken.
PassedIsTaken ==
    \A p \in Latest : p.seq <= newest[boot] => Reports(p) \subseteq taken

\* A post that has reached the cloud since it was sent has been passed.
ReachedIsPassed ==
    \A t \in Tasks : at[t] = "answer" /\ reached => hand.seq <= newest[boot]

IInv ==
    /\ TypeOK /\ Serialized /\ PostsLeftQueue /\ PostsInOrder /\ NewComesLater
    /\ TakenLeftQueue /\ Unborn /\ PassedIsTaken /\ ReachedIsPassed /\ Accounted

USE DeliveryAssumption

-----------------------------------------------------------------------------
(* Types *)

LEMMA InitInv == Init => IInv
<1> SUFFICES ASSUME Init PROVE IInv
  OBVIOUS
<1>1. boot = 1 /\ made[boot] = 0 /\ newest[boot] = 0
  BY DEF Init, Boots
<1>2. Posts = {}
  BY DEF Init, Posts, Latest
<1>3. TypeOK
  <2>1. reached \in BOOLEAN /\ registered \in BOOLEAN
    BY DEF Init
  <2>2. wire \subseteq Post /\ lost \subseteq Nat \ {0} /\ taken \subseteq Boots \X (Nat \ {0})
    BY DEF Init
  <2>3. boot \in Boots /\ head \in 1..(made[boot] + 1) /\ made[boot] + 1 - head <= MaxSpool
    BY <1>1 DEF Init, Boots
  <2>4. made \in [Boots -> Nat] /\ newest \in [Boots -> Nat]
    BY DEF Init
  <2>5. at \in [Tasks -> {"idle", "queue", "take", "post", "answer"}]
    BY DEF Init
  <2>6. QED
    BY <2>1, <2>2, <2>3, <2>4, <2>5 DEF Init, TypeOK
<1>4. Serialized /\ ReachedIsPassed
  BY DEF Init, Serialized, ReachedIsPassed
<1>5. PostsLeftQueue /\ PostsInOrder /\ NewComesLater /\ PassedIsTaken
  BY <1>2 DEF Init, Posts, PostsLeftQueue, PostsInOrder, NewComesLater, PassedIsTaken
<1>6. TakenLeftQueue /\ Unborn /\ Accounted
  BY <1>1 DEF Init, TakenLeftQueue, Unborn, Accounted
<1>7. QED
  BY <1>3, <1>4, <1>5, <1>6 DEF IInv

\* The post a drain takes from the queue.
Last == IF head + MaxItems - 1 < made[boot] THEN head + MaxItems - 1 ELSE made[boot]
NewPost == [boot |-> boot, seq |-> batchSeq, first |-> head, last |-> Last]

LEMMA NewPostType ==
    ASSUME TypeOK, head <= made[boot]
    PROVE  /\ Last \in Nat /\ head <= Last /\ Last <= made[boot]
           /\ NewPost \in Post
<1>1. made[boot] \in Nat /\ head \in Nat \ {0} /\ MaxItems \in Nat \ {0}
  BY DEF TypeOK
<1>2. Last \in Nat \ {0} /\ head <= Last /\ Last <= made[boot]
  BY <1>1 DEF Last
<1>3. QED
  BY <1>1, <1>2 DEF TypeOK, NewPost, Post

LEMMA TypeStep ==
    ASSUME TypeOK, Serialized, Unborn, [Next]_vars
    PROVE  TypeOK'
<1> USE DEF TypeOK
<1>1. ASSUME NEW t \in Tasks, EnqueueReport(t) PROVE TypeOK'
  <2> DEFINE shed == Shed(made[boot] + 2 - head)
  <2>1. made[boot] \in Nat /\ head \in Nat \ {0} /\ MaxSpool \in Nat \ {0}
    OBVIOUS
  <2>2. shed \in {0, 1} /\ head + shed <= made[boot] + 2 /\ made[boot] + 2 - (head + shed) <= MaxSpool
    BY <2>1 DEF Shed
  <2>3. made'[boot] = made[boot] + 1 /\ boot' = boot /\ made' \in [Boots -> Nat]
    BY <1>1 DEF EnqueueReport
  <2>4. head' = head + shed /\ lost' = lost \union head..(head + shed - 1)
    BY <1>1 DEF EnqueueReport
  <2>5. head' \in 1..(made'[boot] + 1) /\ made'[boot] + 1 - head' <= MaxSpool
    BY <2>1, <2>2, <2>3, <2>4
  <2>6. lost' \subseteq Nat \ {0}
    <3>1. head..(head + shed - 1) \subseteq Nat \ {0}
      BY <2>1, <2>2
    <3>2. QED
      BY <2>4, <3>1
  <2>7. QED
    BY <1>1, <2>3, <2>5, <2>6 DEF EnqueueReport, Goto, cloud
<1>2. ASSUME NEW t \in Tasks, Enter(t) \/ Drained(t) PROVE TypeOK'
  BY <1>2 DEF Enter, Drained, Leave, Goto, cloud
<1>3. ASSUME NEW t \in Tasks, TakeInflight(t) PROVE TypeOK'
  BY <1>3 DEF TakeInflight, Again, Goto, cloud
<1>4. ASSUME NEW t \in Tasks, TakePending(t) PROVE TypeOK'
  <2>1. head <= made[boot] /\ hand' = NewPost /\ head' = Last + 1
    BY <1>4 DEF TakePending, NewPost, Last
  <2>2. Last \in Nat /\ head <= Last /\ Last <= made[boot] /\ NewPost \in Post
    BY <2>1, NewPostType
  <2>3. boot' = boot /\ made' = made /\ made[boot] \in Nat
    BY <1>4 DEF TakePending
  <2>4. head' \in 1..(made'[boot'] + 1) /\ made'[boot'] + 1 - head' <= MaxSpool
    BY <2>1, <2>2, <2>3
  <2>5. QED
    BY <1>4, <2>1, <2>2, <2>3, <2>4 DEF TakePending, Goto, cloud
<1>5. ASSUME NEW t \in Tasks, PostBatch(t) PROVE TypeOK'
  <2>1. hand \in Post
    BY <1>5 DEF PostBatch, Serialized
  <2>2. QED
    BY <1>5, <2>1 DEF PostBatch, Goto, cloud
<1>6. Numbers(hand) \subseteq Nat \ {0}
  BY DEF Numbers, Post
<1>7. ASSUME NEW t \in Tasks, Discard(t) PROVE TypeOK'
  <2>1. Pending \subseteq Nat \ {0}
    BY DEF Pending
  <2>2. head' = made'[boot'] + 1 /\ boot' = boot /\ made' = made /\ made[boot] \in Nat
    BY <1>7 DEF Discard
  <2>3. head' \in 1..(made'[boot'] + 1) /\ made'[boot'] + 1 - head' <= MaxSpool
    BY <2>2
  <2>4. QED
    BY <1>6, <1>7, <2>1, <2>2, <2>3 DEF Discard, Leave, Goto, cloud
<1>8. ASSUME NEW t \in Tasks, Delivered(t) \/ Refused(t) \/ Transient(t) PROVE TypeOK'
  BY <1>6, <1>8 DEF Delivered, Refused, Transient, Kept, Leave, Goto, cloud
<1>9. ASSUME NEW t \in CheckIns, Keyframe(t) PROVE TypeOK'
  BY <1>9 DEF Keyframe, KeyframeSeq, AfterKeyframe, Goto
<1>10. ASSUME NEW post \in wire, Arrive(post) PROVE TypeOK'
  <2>1. post \in Post
    OBVIOUS
  <2>2. Reports(post) \subseteq Boots \X (Nat \ {0})
    BY <2>1 DEF Reports, Post
  <2>3. [newest EXCEPT ![post.boot] = post.seq] \in [Boots -> Nat]
    BY <2>1 DEF Post
  <2>4. newest' \in [Boots -> Nat] /\ taken' \subseteq Boots \X (Nat \ {0})
    BY <1>10, <2>2, <2>3 DEF Arrive, cloud
  <2>5. takes' \in Nat
    BY <1>10 DEF Arrive, cloud
  <2>6. QED
    BY <1>10, <2>4, <2>5 DEF Arrive, hub
<1>11. CASE Restart
  <2>1. boot' = boot + 1 /\ boot' \in Boots /\ made' = made
    BY <1>11 DEF Restart, Boots
  <2>2. made'[boot'] = 0
    BY <2>1 DEF Unborn, Boots
  <2>3. head' \in 1..(made'[boot'] + 1) /\ made'[boot'] + 1 - head' <= MaxSpool
    BY <1>11, <2>2 DEF Restart
  <2>4. at' \in [Tasks -> {"idle", "queue", "take", "post", "answer"}]
    BY <1>11 DEF Restart
  <2>5. /\ batchSeq' \in Nat \ {0} /\ inflight' = NoPost /\ hand' = NoPost /\ flush' = Free
        /\ reached' = FALSE /\ lost' = {}
    BY <1>11 DEF Restart
  <2>6. UNCHANGED <<registered, wire, newest, taken, takes, moves>>
    BY <1>11 DEF Restart, cloud
  <2>7. QED
    BY <2>1, <2>3, <2>4, <2>5, <2>6
<1>12. CASE Register
  BY <1>12 DEF Register, hub, cloud
<1>13. CASE UNCHANGED vars
  BY <1>13 DEF vars, hub, cloud
<1>14. QED
  BY <1>1, <1>2, <1>3, <1>4, <1>5, <1>7, <1>8, <1>9, <1>10, <1>11, <1>12, <1>13 DEF Next, Drain

LEMMA SerializedStep ==
    ASSUME TypeOK, Serialized, [Next]_vars
    PROVE  Serialized'
<1> USE DEF TypeOK, Serialized
<1>1. ASSUME NEW t \in Tasks, EnqueueReport(t) PROVE Serialized'
  BY <1>1 DEF EnqueueReport, Goto
<1>2. ASSUME NEW t \in Tasks, Enter(t) PROVE Serialized'
  BY <1>2 DEF Enter, Goto
<1>3. ASSUME NEW t \in Tasks, Drained(t) PROVE Serialized'
  BY <1>3 DEF Drained, Leave, Goto
<1>4. ASSUME NEW t \in Tasks, TakeInflight(t) PROVE Serialized'
  BY <1>4 DEF TakeInflight, Again, Goto
<1>5. ASSUME NEW t \in Tasks, TakePending(t) PROVE Serialized'
  <2>1. hand' # NoPost
    BY <1>5, NewPostType DEF TakePending, NewPost, Last
  <2>2. QED
    BY <1>5, <2>1 DEF TakePending, Goto
<1>6. ASSUME NEW t \in Tasks, PostBatch(t) PROVE Serialized'
  BY <1>6 DEF PostBatch, Goto
<1>7. ASSUME NEW t \in Tasks, Discard(t) PROVE Serialized'
  BY <1>7 DEF Discard, Leave, Goto
<1>8. ASSUME NEW t \in Tasks, Delivered(t) \/ Refused(t) PROVE Serialized'
  BY <1>8 DEF Delivered, Refused, Goto
<1>9. ASSUME NEW t \in Tasks, Transient(t) PROVE Serialized'
  BY <1>9 DEF Transient, Kept, Leave, Goto
<1>10. ASSUME NEW t \in CheckIns, Keyframe(t) PROVE Serialized'
  BY <1>10 DEF Keyframe, AfterKeyframe, Goto
<1>11. ASSUME NEW post \in wire, Arrive(post) PROVE Serialized'
  BY <1>11 DEF Arrive, hub
<1>12. CASE Restart
  BY <1>12 DEF Restart
<1>13. CASE Register
  BY <1>13 DEF Register, hub
<1>14. CASE UNCHANGED vars
  BY <1>14 DEF vars, hub
<1>15. QED
  BY <1>1, <1>2, <1>3, <1>4, <1>5, <1>6, <1>7, <1>8, <1>9, <1>10, <1>11, <1>12, <1>13, <1>14
     DEF Next, Drain

-----------------------------------------------------------------------------
(* Kinds of steps *)

\* A step that starts no process and makes no post.
Steady ==
    /\ boot' = boot /\ batchSeq' = batchSeq /\ head <= head'
    /\ \A b \in Boots : made[b] <= made'[b] /\ (b # boot => made'[b] = made[b])
    /\ Posts' \subseteq Posts /\ Latest' \subseteq Latest

LEMMA StepKinds ==
    ASSUME TypeOK, Serialized, [Next]_vars
    PROVE  Steady \/ (\E t \in Tasks : TakePending(t)) \/ Restart
<1> USE DEF TypeOK, Serialized, Steady, Posts, Latest
<1>1. ASSUME NEW t \in Tasks, EnqueueReport(t) PROVE Steady
  <2>1. head \in Nat /\ head' = head + Shed(made[boot] + 2 - head)
    BY <1>1 DEF EnqueueReport
  <2>2. head <= head'
    BY <2>1 DEF Shed
  <2>3. QED
    BY <1>1, <2>2 DEF EnqueueReport
<1>2. ASSUME NEW t \in Tasks, Enter(t) \/ Drained(t) \/ Delivered(t) \/ Refused(t) PROVE Steady
  BY <1>2 DEF Enter, Drained, Delivered, Refused
<1>3. ASSUME NEW t \in Tasks, TakeInflight(t) PROVE Steady
  BY <1>3 DEF TakeInflight, Again
<1>4. ASSUME NEW t \in Tasks, PostBatch(t) PROVE Steady
  BY <1>4 DEF PostBatch
<1>5. ASSUME NEW t \in Tasks, Discard(t) PROVE Steady
  BY <1>5 DEF Discard
<1>6. ASSUME NEW t \in Tasks, Transient(t) PROVE Steady
  BY <1>6 DEF Transient, Kept
<1>7. ASSUME NEW t \in CheckIns, Keyframe(t) PROVE Steady
  BY <1>7 DEF Keyframe
<1>8. ASSUME NEW post \in wire, Arrive(post) PROVE Steady
  BY <1>8 DEF Arrive, hub
<1>9. CASE Register \/ UNCHANGED vars
  BY <1>9 DEF Register, vars, hub
<1>10. QED
  BY <1>1, <1>2, <1>3, <1>4, <1>5, <1>6, <1>7, <1>8, <1>9 DEF Next, Drain

\* What the cloud has changes only when a post reaches it.
LEMMA CloudSteps ==
    ASSUME [Next]_vars
    PROVE  UNCHANGED cloud \/ \E post \in wire : Arrive(post)
BY DEF Next, Drain, EnqueueReport, Enter, TakeInflight, TakePending, Drained, PostBatch, Discard,
       Delivered, Refused, Transient, Keyframe, KeyframeSeq, Restart, Register, cloud, vars

LEMMA PendingTaken ==
    ASSUME TypeOK, Serialized, NEW t \in Tasks, TakePending(t)
    PROVE  /\ hand' = NewPost /\ NewPost \in Post
           /\ Last \in Nat /\ head <= Last /\ Last <= made[boot]
           /\ head' = Last + 1 /\ batchSeq' = batchSeq + 1
           /\ UNCHANGED <<boot, made, cloud>>
           /\ Posts' = Posts \union {NewPost} /\ Latest' = {NewPost}
<1>1. hand' = NewPost /\ head' = Last + 1 /\ head <= made[boot]
  BY DEF TakePending, NewPost, Last
<1>2. NewPost \in Post /\ Last \in Nat /\ head <= Last /\ Last <= made[boot]
  BY <1>1, NewPostType
<1>3. inflight = NoPost /\ inflight' = NoPost /\ hand = NoPost /\ wire' = wire
  BY DEF TakePending, Serialized
<1>4. QED
  BY <1>1, <1>2, <1>3 DEF TakePending, Posts, Latest

LEMMA PostsArePosts ==
    ASSUME TypeOK
    PROVE  Posts \subseteq Post /\ Latest \subseteq Post
BY DEF TypeOK, Posts, Latest

-----------------------------------------------------------------------------
(* Posts *)

LEMMA PostsLeftQueueStep ==
    ASSUME TypeOK, Serialized, PostsLeftQueue, [Next]_vars
    PROVE  PostsLeftQueue'
<1> USE PostsArePosts DEF PostsLeftQueue, Post
<1>0. boot \in Nat /\ batchSeq \in Nat /\ head \in Nat /\ made \in [Boots -> Nat]
  BY DEF TypeOK, Boots
<1>1. CASE Steady
  <2>1. ASSUME NEW p \in Posts' PROVE p.boot <= boot' /\ p.first <= p.last /\ p.last <= made'[p.boot]
    <3>1. p \in Posts /\ p.boot \in Boots /\ p.last \in Nat
      BY <1>1, <2>1 DEF Steady
    <3>2. made'[p.boot] \in Nat
      <4>1. made' = made \/ \E t \in Tasks : EnqueueReport(t)
        BY <1>1 DEF Next, Drain, Enter, TakeInflight, TakePending, Drained, PostBatch, Discard, Delivered,
           Refused, Transient, Keyframe, Arrive, Restart, Register, vars, hub
      <4>2. QED
        BY <1>0, <3>1, <4>1 DEF EnqueueReport
    <3>3. QED
      BY <1>0, <1>1, <3>1, <3>2 DEF Steady
  <2>2. head' \in Nat
    <3>1. head' = head \/ head' = made[boot] + 1 \/ head' = head + Shed(made[boot] + 2 - head)
          \/ head' = Last + 1 \/ head' = 1
      BY DEF Next, Drain, Enter, TakeInflight, TakePending, Drained, PostBatch, Discard, Delivered, EnqueueReport,
         Refused, Transient, Keyframe, Arrive, Restart, Register, vars, hub, Last
    <3>2. made[boot] \in Nat /\ Last \in Nat
      BY <1>0 DEF TypeOK, Last
    <3>3. QED
      BY <1>0, <3>1, <3>2 DEF Shed
  <2>3. ASSUME NEW p \in Posts', p.boot = boot' PROVE p.seq < batchSeq' /\ p.last < head'
    BY <1>0, <1>1, <2>2, <2>3 DEF Steady
  <2>4. QED
    BY <1>1, <2>1, <2>3 DEF Steady
<1>2. ASSUME NEW t \in Tasks, TakePending(t) PROVE PostsLeftQueue'
  <2>1. /\ Posts' = Posts \union {NewPost} /\ Latest' = {NewPost}
        /\ Last \in Nat /\ head <= Last /\ Last <= made[boot]
        /\ head' = Last + 1 /\ batchSeq' = batchSeq + 1 /\ boot' = boot /\ made' = made
    BY <1>2, PendingTaken
  <2>2. ASSUME NEW p \in Posts
        PROVE  /\ p.boot <= boot' /\ p.first <= p.last /\ p.last <= made'[p.boot]
               /\ p.boot = boot' => p.seq < batchSeq' /\ p.last < head'
    <3>1. p.seq \in Nat /\ p.last \in Nat
      OBVIOUS
    <3>2. QED
      BY <1>0, <2>1, <2>2, <3>1
  <2>3. /\ NewPost.boot = boot' /\ NewPost.seq = batchSeq' - 1 /\ NewPost.last = Last
        /\ NewPost.first = head
    BY <1>0, <2>1 DEF NewPost
  <2>4. /\ NewPost.boot <= boot' /\ NewPost.first <= NewPost.last
        /\ NewPost.last <= made'[NewPost.boot] /\ NewPost.seq < batchSeq' /\ NewPost.last < head'
    BY <1>0, <2>1, <2>3
  <2>5. QED
    BY <2>1, <2>2, <2>3, <2>4
<1>3. CASE Restart
  <2>1. Posts' \subseteq Posts /\ Latest' = {} /\ boot' = boot + 1 /\ made' = made
    BY <1>3 DEF Restart, Posts, Latest
  <2>2. ASSUME NEW p \in Posts PROVE p.boot <= boot' /\ p.boot # boot'
    BY <1>0, <2>1, <2>2 DEF Boots
  <2>3. QED
    BY <2>1, <2>2
<1>4. QED
  BY <1>1, <1>2, <1>3, StepKinds

LEMMA PostsInOrderStep ==
    ASSUME TypeOK, Serialized, PostsLeftQueue, PostsInOrder, [Next]_vars
    PROVE  PostsInOrder'
<1>1. CASE Posts' \subseteq Posts
  BY <1>1 DEF PostsInOrder
<1>2. ASSUME NEW t \in Tasks, TakePending(t) PROVE PostsInOrder'
  <2>1. Posts' = Posts \union {NewPost} /\ NewPost \in Post /\ Posts \subseteq Post
    BY <1>2, PendingTaken, PostsArePosts
  <2>2. ASSUME NEW p \in Posts, p.boot = boot PROVE p.seq < NewPost.seq /\ p.last < NewPost.first
    BY <2>2 DEF PostsLeftQueue, NewPost
  <2>3. ASSUME NEW p \in Posts', NEW q \in Posts', p.boot = q.boot
        PROVE  (p.seq < q.seq => p.last < q.first) /\ (p.seq = q.seq => p = q)
    <3>1. p.seq \in Nat /\ q.seq \in Nat
      BY <2>1 DEF Post
    <3>2. NewPost.boot = boot
      BY DEF NewPost
    <3>3. CASE p \in Posts /\ q \in Posts
      BY <2>3, <3>3 DEF PostsInOrder
    <3>4. CASE p \in Posts /\ q = NewPost
      BY <2>2, <2>3, <3>1, <3>2, <3>4
    <3>5. CASE p = NewPost /\ q \in Posts
      BY <2>2, <2>3, <3>1, <3>2, <3>5
    <3>6. CASE p = NewPost /\ q = NewPost
      BY <3>1, <3>6
    <3>7. QED
      BY <2>1, <3>3, <3>4, <3>5, <3>6
  <2>4. QED
    BY <2>3 DEF PostsInOrder
<1>3. CASE Restart
  BY <1>1, <1>3 DEF Restart, Posts, Latest
<1>4. QED
  BY <1>1, <1>2, <1>3, StepKinds DEF Steady

-----------------------------------------------------------------------------
(* The cloud *)

\* What a post that reaches the cloud changes.
Taken(post) ==
    /\ newest[post.boot] < post.seq
    /\ newest' = [newest EXCEPT ![post.boot] = post.seq]
    /\ taken' = taken \union Reports(post)
    /\ takes' = takes + 1

LEMMA Arrival ==
    ASSUME TypeOK, NEW post \in wire, Arrive(post)
    PROVE  /\ post \in Posts /\ post \in Post
           /\ UNCHANGED hub /\ Posts' = Posts /\ Latest' = Latest
           /\ UNCHANGED cloud \/ Taken(post)
           /\ post.seq <= newest'[post.boot]
           /\ newest[boot] <= newest'[boot]
           /\ taken \subseteq taken'
<1>1. post \in Posts /\ post \in Post /\ UNCHANGED hub /\ Posts' = Posts /\ Latest' = Latest
  BY DEF TypeOK, Arrive, hub, Posts, Latest
<1>2. post.boot \in Boots /\ post.seq \in Nat /\ newest \in [Boots -> Nat] /\ boot \in Boots
  BY <1>1 DEF TypeOK, Post
<1>3. (UNCHANGED cloud /\ post.seq <= newest[post.boot]) \/ Taken(post)
  BY <1>2 DEF Arrive, IsNewSeq, Taken
<1>4. QED
  BY <1>1, <1>2, <1>3 DEF Taken, cloud

LEMMA NewComesLaterStep ==
    ASSUME TypeOK, Serialized, PostsLeftQueue, PostsInOrder, NewComesLater, TakenLeftQueue, [Next]_vars
    PROVE  NewComesLater'
<1>1. CASE UNCHANGED cloud /\ Posts' \subseteq Posts
  BY <1>1 DEF NewComesLater, cloud
<1>2. ASSUME NEW t \in Tasks, TakePending(t) PROVE NewComesLater'
  <2>1. Posts' = Posts \union {NewPost} /\ newest' = newest /\ taken' = taken
    BY <1>2, PendingTaken DEF cloud
  <2>2. ASSUME NEW r \in taken, NewPost.boot = r[1] PROVE r[2] < NewPost.first
    BY <2>2 DEF TakenLeftQueue, NewPost
  <2>3. QED
    BY <2>1, <2>2 DEF NewComesLater
<1>3. ASSUME NEW post \in wire, Arrive(post) PROVE NewComesLater'
  <2>1. post \in Posts /\ post \in Post /\ Posts' = Posts /\ (UNCHANGED cloud \/ Taken(post))
    BY <1>3, Arrival
  <2>2. CASE Taken(post)
    <3>1. ASSUME NEW r \in taken', NEW p \in Posts, p.boot = r[1], newest'[r[1]] < p.seq
          PROVE  r[2] < p.first
      <4>1. /\ post.boot \in Boots /\ post.seq \in Nat /\ post.first \in Nat /\ post.last \in Nat
            /\ p.boot \in Boots /\ p.seq \in Nat /\ p.first \in Nat /\ newest \in [Boots -> Nat]
        BY <2>1, PostsArePosts DEF Post, TypeOK
      <4>2. CASE r \in taken
        BY <2>2, <3>1, <4>1, <4>2 DEF NewComesLater, Taken
      <4>3. CASE r \in Reports(post)
        <5>1. r[1] = post.boot /\ r[2] \in Nat /\ r[2] <= post.last
          BY <4>1, <4>3 DEF Reports
        <5>2. post.seq < p.seq
          BY <2>2, <3>1, <4>1, <5>1 DEF Taken
        <5>3. post.last < p.first
          BY <2>1, <3>1, <5>1, <5>2 DEF PostsInOrder
        <5>4. QED
          BY <4>1, <5>1, <5>3
      <4>4. QED
        BY <2>2, <3>1, <4>2, <4>3 DEF Taken
    <3>2. QED
      BY <2>1, <3>1 DEF NewComesLater
  <2>3. QED
    BY <1>1, <2>1, <2>2
<1>4. Posts' \subseteq Posts \/ \E t \in Tasks : TakePending(t)
  <2>1. Restart => Posts' \subseteq Posts
    BY DEF Restart, Posts, Latest
  <2>2. QED
    BY <2>1, StepKinds DEF Steady
<1>5. QED
  BY <1>1, <1>2, <1>3, <1>4, CloudSteps

LEMMA TakenLeftQueueStep ==
    ASSUME TypeOK, TypeOK', Serialized, PostsLeftQueue, TakenLeftQueue, Unborn, [Next]_vars
    PROVE  TakenLeftQueue'
<1>0. /\ boot \in Boots /\ head \in Nat /\ head' \in Nat /\ newest \in [Boots -> Nat]
      /\ \A r \in taken : r[1] \in Boots /\ r[2] \in Nat
  BY DEF TypeOK
<1>1. CASE UNCHANGED cloud /\ boot' = boot /\ batchSeq <= batchSeq' /\ head <= head'
  <2>1. batchSeq \in Nat /\ batchSeq' \in Nat /\ newest[boot] \in Nat
    BY <1>0 DEF TypeOK
  <2>2. QED
    BY <1>0, <1>1, <2>1 DEF TakenLeftQueue, cloud
<1>2. ASSUME NEW t \in Tasks, TakePending(t) PROVE TakenLeftQueue'
  BY <1>0, <1>1, <1>2, PendingTaken DEF TypeOK
<1>3. ASSUME NEW post \in wire, Arrive(post) PROVE TakenLeftQueue'
  <2>1. /\ post \in Posts /\ post \in Post /\ (UNCHANGED cloud \/ Taken(post))
        /\ boot' = boot /\ head' = head /\ batchSeq' = batchSeq
    BY <1>3, Arrival DEF hub
  <2>2. CASE Taken(post)
    <3>1. post.boot \in Boots /\ post.boot <= boot /\ (post.boot = boot => post.seq < batchSeq /\ post.last < head)
      BY <2>1 DEF PostsLeftQueue, Post
    <3>2. newest'[boot] < batchSeq
      BY <1>0, <2>2, <3>1 DEF TakenLeftQueue, Taken
    <3>3. ASSUME NEW r \in Reports(post) PROVE r[1] <= boot /\ (r[1] = boot => r[2] < head)
      <4>1. post.first \in Nat /\ post.last \in Nat
        BY <2>1 DEF Post
      <4>2. r[1] = post.boot /\ r[2] \in Nat /\ r[2] <= post.last
        BY <4>1 DEF Reports
      <4>3. QED
        BY <1>0, <3>1, <4>1, <4>2
    <3>4. QED
      BY <2>1, <2>2, <3>2, <3>3 DEF TakenLeftQueue, Taken
  <2>3. batchSeq \in Nat
    BY DEF TypeOK
  <2>4. QED
    BY <1>0, <1>1, <2>1, <2>2, <2>3
<1>4. CASE Restart
  <2>1. boot' = boot + 1 /\ batchSeq' = 1 /\ boot' \in Boots /\ newest' = newest /\ taken' = taken
    BY <1>0, <1>4 DEF Restart, Boots, cloud
  <2>2. newest'[boot'] = 0
    BY <1>0, <2>1 DEF Unborn, Boots
  <2>3. \A r \in taken : r[1] <= boot' /\ r[1] # boot'
    BY <1>0, <2>1 DEF TakenLeftQueue, Boots
  <2>4. QED
    BY <2>1, <2>2, <2>3 DEF TakenLeftQueue
<1>5. CASE UNCHANGED cloud /\ Steady
  <2>1. batchSeq \in Nat
    BY DEF TypeOK
  <2>2. QED
    BY <1>1, <1>5, <2>1 DEF Steady
<1>6. QED
  BY <1>2, <1>3, <1>4, <1>5, CloudSteps, StepKinds

LEMMA UnbornStep ==
    ASSUME TypeOK, Serialized, PostsLeftQueue, Unborn, [Next]_vars
    PROVE  Unborn'
<1>0. boot \in Nat /\ newest \in [Boots -> Nat]
  BY DEF TypeOK, Boots
<1>1. \A b \in Boots : b > boot => newest'[b] = 0
  <2>1. CASE UNCHANGED cloud
    BY <2>1 DEF Unborn, cloud
  <2>2. ASSUME NEW post \in wire, Arrive(post) PROVE \A b \in Boots : b > boot => newest'[b] = 0
    <3>1. post \in Posts /\ post \in Post /\ (UNCHANGED cloud \/ Taken(post))
      BY <2>2, Arrival
    <3>2. post.boot \in Boots /\ post.boot <= boot
      BY <3>1 DEF PostsLeftQueue, Post
    <3>3. CASE Taken(post)
      BY <1>0, <3>2, <3>3 DEF Taken, Unborn, Boots
    <3>4. QED
      BY <2>1, <3>1, <3>3
  <2>3. QED
    BY <2>1, <2>2, CloudSteps
<1>2. \A b \in Boots : b > boot => made'[b] = 0
  <2>1. CASE Steady
    BY <1>0, <2>1 DEF Steady, Unborn, Boots
  <2>2. CASE made' = made
    BY <2>2 DEF Unborn
  <2>3. ((\E t \in Tasks : TakePending(t)) \/ Restart) => made' = made
    BY DEF TakePending, Restart
  <2>4. QED
    BY <2>1, <2>2, <2>3, StepKinds
<1>3. boot' = boot \/ boot' = boot + 1
  BY StepKinds DEF Steady, TakePending, Restart
<1>4. QED
  BY <1>0, <1>1, <1>2, <1>3 DEF Unborn, Boots

LEMMA PassedIsTakenStep ==
    ASSUME TypeOK, Serialized, PostsLeftQueue, PostsInOrder, TakenLeftQueue, PassedIsTaken, [Next]_vars
    PROVE  PassedIsTaken'
<1>1. CASE UNCHANGED cloud /\ boot' = boot /\ Latest' \subseteq Latest
  BY <1>1 DEF PassedIsTaken, Reports, cloud
<1>2. ASSUME NEW t \in Tasks, TakePending(t) PROVE PassedIsTaken'
  <2>1. Latest' = {NewPost} /\ newest'[boot'] = newest[boot]
    BY <1>2, PendingTaken DEF cloud
  <2>2. newest[boot] \in Nat /\ newest[boot] < NewPost.seq /\ NewPost.seq \in Nat
    BY DEF TypeOK, TakenLeftQueue, NewPost
  <2>3. QED
    BY <2>1, <2>2 DEF PassedIsTaken
<1>3. ASSUME NEW post \in wire, Arrive(post) PROVE PassedIsTaken'
  <2>1. /\ post \in Posts /\ post \in Post /\ boot' = boot /\ Latest' = Latest
        /\ (UNCHANGED cloud \/ Taken(post)) /\ taken \subseteq taken'
    BY <1>3, Arrival DEF hub
  <2>2. ASSUME Taken(post), NEW p \in Latest, p.seq <= newest'[boot] PROVE Reports(p) \subseteq taken'
    <3>1. boot \in Boots /\ newest \in [Boots -> Nat] /\ batchSeq \in Nat
      BY DEF TypeOK
    <3>2. p.boot = boot /\ p.seq = batchSeq - 1 /\ p \in Posts
      BY <2>2 DEF PostsLeftQueue, Posts
    <3>3. CASE post.boot = boot
      <4>1. p.seq <= post.seq /\ post.seq < batchSeq /\ post.seq \in Nat
        BY <2>1, <2>2, <3>1, <3>3 DEF Taken, PostsLeftQueue, Post
      <4>2. p.seq = post.seq
        BY <3>1, <3>2, <4>1
      <4>3. p = post
        BY <2>1, <3>2, <3>3, <4>2 DEF PostsInOrder
      <4>4. QED
        BY <2>2, <4>3 DEF Taken
    <3>4. CASE post.boot # boot
      BY <2>1, <2>2, <3>1, <3>4 DEF Taken, PassedIsTaken
    <3>5. QED
      BY <3>3, <3>4
  <2>3. QED
    BY <1>1, <2>1, <2>2 DEF PassedIsTaken, Reports
<1>4. CASE Restart
  BY <1>4 DEF Restart, PassedIsTaken, Latest
<1>5. QED
  BY <1>1, <1>2, <1>3, <1>4, CloudSteps, StepKinds DEF Steady

LEMMA ReachedIsPassedStep ==
    ASSUME TypeOK, Serialized, PostsLeftQueue, ReachedIsPassed, [Next]_vars
    PROVE  ReachedIsPassed'
<1> USE DEF TypeOK
<1>1. ASSUME NEW t \in Tasks, EnqueueReport(t) \/ Enter(t) \/ Drained(t) PROVE ReachedIsPassed'
  BY <1>1 DEF EnqueueReport, Enter, Drained, Leave, Goto, ReachedIsPassed, cloud
<1>2. ASSUME NEW t \in Tasks,
             TakeInflight(t) \/ TakePending(t) \/ Discard(t) \/ Delivered(t) \/ Refused(t) \/ Transient(t)
      PROVE  ReachedIsPassed'
  <2>1. \A s \in Tasks : at'[s] # "answer"
    <3>1. at[t] \in {"take", "post", "answer"} /\ \A s \in Tasks : s # t => at'[s] = at[s]
      BY <1>2 DEF TakeInflight, TakePending, Discard, Delivered, Refused, Transient, Leave, Goto
    <3>2. \A s \in Tasks : s # t => at[s] # "answer"
      BY <3>1 DEF Serialized
    <3>3. at'[t] # "answer"
      BY <1>2 DEF TakeInflight, TakePending, Discard, Delivered, Refused, Transient, Leave, Goto
    <3>4. QED
      BY <3>1, <3>2, <3>3
  <2>2. QED
    BY <2>1 DEF ReachedIsPassed
<1>3. ASSUME NEW t \in Tasks, PostBatch(t) PROVE ReachedIsPassed'
  BY <1>3 DEF PostBatch, ReachedIsPassed
<1>4. ASSUME NEW t \in CheckIns, Keyframe(t) PROVE ReachedIsPassed'
  BY <1>4 DEF Keyframe, KeyframeSeq, AfterKeyframe, Goto, ReachedIsPassed
<1>5. ASSUME NEW post \in wire, Arrive(post) PROVE ReachedIsPassed'
  <2>1. /\ UNCHANGED hub /\ post.seq <= newest'[post.boot] /\ newest[boot] <= newest'[boot]
        /\ post \in Post
    BY <1>5, Arrival
  <2>2. ASSUME NEW t \in Tasks, at[t] = "answer", reached' PROVE hand.seq <= newest'[boot]
    <3>1. hand \in Latest /\ hand \in Post /\ hand.boot = boot
      BY <2>2 DEF Serialized, Latest, PostsLeftQueue
    <3>2. hand.seq \in Nat /\ newest[boot] \in Nat
      BY <3>1 DEF Post
    <3>3. newest'[boot] \in Nat
      BY <1>5, <2>1, <3>2 DEF Arrive, cloud, Post
    <3>4. CASE reached
      BY <2>1, <2>2, <3>2, <3>3, <3>4 DEF ReachedIsPassed
    <3>5. CASE post = hand
      BY <2>1, <3>1, <3>5
    <3>6. QED
      BY <1>5, <2>2, <3>4, <3>5 DEF Arrive
  <2>3. QED
    BY <2>1, <2>2 DEF ReachedIsPassed, hub
<1>6. CASE Restart
  BY <1>6 DEF Restart, ReachedIsPassed
<1>7. CASE Register \/ UNCHANGED vars
  BY <1>7 DEF Register, vars, hub, cloud, ReachedIsPassed
<1>8. QED
  BY <1>1, <1>2, <1>3, <1>4, <1>5, <1>6, <1>7 DEF Next, Drain

-----------------------------------------------------------------------------
(* What becomes of a report *)

Held == Pending \union Numbers(inflight) \union Numbers(hand)

\* A step that makes no report and loses sight of none.
LEMMA AccountedWhen ==
    ASSUME Accounted, boot' = boot, made'[boot] = made[boot], taken \subseteq taken', lost \subseteq lost',
           \A n \in Held : n \in Held' \/ <<boot, n>> \in taken' \/ n \in lost'
    PROVE  Accounted'
BY DEF Accounted, Held

LEMMA AccountedStep ==
    ASSUME TypeOK, Serialized, PostsLeftQueue, PassedIsTaken, ReachedIsPassed, Unborn, Accounted, [Next]_vars
    PROVE  Accounted'
<1>0. made[boot] \in Nat /\ head \in Nat \ {0} /\ head <= made[boot] + 1 /\ boot \in Boots
  BY DEF TypeOK
<1>1. ASSUME NEW t \in Tasks, EnqueueReport(t) PROVE Accounted'
  <2> DEFINE shed == Shed(made[boot] + 2 - head)
  <2>1. shed \in Nat /\ head + shed <= made[boot] + 1
    BY <1>0, DeliveryAssumption DEF Shed
  <2>2. /\ boot' = boot /\ made'[boot] = made[boot] + 1 /\ head' = head + shed
        /\ lost' = lost \union head..(head + shed - 1)
        /\ UNCHANGED <<inflight, hand, taken>>
    BY <1>0, <1>1 DEF EnqueueReport, cloud, TypeOK
  <2>3. ASSUME NEW n \in 1..made'[boot]
        PROVE  \/ n \in (Pending \union Numbers(inflight) \union Numbers(hand))'
               \/ <<boot, n>> \in taken' \/ n \in lost'
    <3>1. n \in Nat /\ (n = made[boot] + 1 \/ n \in 1..made[boot])
      BY <1>0, <2>2
    <3>2. CASE n >= head
      <4>1. n \in head'..made'[boot'] \/ n \in head..(head + shed - 1)
        BY <1>0, <2>1, <2>2, <3>1, <3>2
      <4>2. QED
        BY <2>2, <4>1 DEF Pending
    <3>3. CASE n < head
      <4>1. n \in 1..made[boot] /\ n \notin Pending
        BY <1>0, <3>1, <3>3 DEF Pending
      <4>2. n \in Numbers(inflight) \union Numbers(hand) \/ <<boot, n>> \in taken \/ n \in lost
        BY <4>1 DEF Accounted
      <4>3. QED
        BY <2>2, <4>2 DEF Numbers
    <3>4. QED
      BY <1>0, <3>1, <3>2, <3>3
  <2>4. QED
    BY <2>2, <2>3 DEF Accounted
<1>2. ASSUME NEW t \in Tasks, Enter(t) \/ Drained(t) \/ PostBatch(t) PROVE Accounted'
  BY <1>2 DEF Enter, Drained, PostBatch, Accounted, Pending, Numbers, cloud
<1>3. ASSUME NEW t \in Tasks, TakeInflight(t) PROVE Accounted'
  <2>1. hand = NoPost /\ hand' = inflight /\ UNCHANGED <<boot, made, head, taken, lost>>
    BY <1>3 DEF TakeInflight, Again, Serialized, cloud
  <2>2. \A n \in Held : n \in Held'
    BY <2>1 DEF Held, Pending, Numbers
  <2>3. QED
    BY <2>1, <2>2, AccountedWhen
<1>4. ASSUME NEW t \in Tasks, TakePending(t) PROVE Accounted'
  <2>1. /\ hand' = NewPost /\ NewPost \in Post /\ head' = Last + 1 /\ Last \in Nat
        /\ UNCHANGED <<boot, made, cloud>>
    BY <1>4, PendingTaken
  <2>2. UNCHANGED <<inflight, lost>> /\ hand = NoPost
    BY <1>4 DEF TakePending, Serialized
  <2>3. \A n \in Pending : n \in head..Last \/ n \in (Last + 1)..made[boot]
    BY <1>0, <2>1 DEF Pending
  <2>4. Numbers(NewPost) = head..Last
    BY <2>1, DeliveryAssumption DEF Numbers, NewPost
  <2>5. \A n \in Held : n \in Held'
    BY <2>1, <2>2, <2>3, <2>4 DEF Held, Pending, Numbers
  <2>6. QED
    BY <2>1, <2>2, <2>5, AccountedWhen DEF cloud
<1>5. ASSUME NEW t \in Tasks, Discard(t) PROVE Accounted'
  <2>1. /\ lost' = lost \union Numbers(hand) \union Pending
        /\ UNCHANGED <<boot, made, inflight, taken>>
    BY <1>5 DEF Discard, cloud
  <2>2. \A n \in Held : n \in Held' \/ n \in lost'
    BY <2>1 DEF Held, Numbers
  <2>3. QED
    BY <2>1, <2>2, AccountedWhen
<1>6. ASSUME NEW t \in Tasks, Delivered(t) PROVE Accounted'
  <2>1. Reports(hand) \subseteq taken /\ hand \in Post /\ hand.boot = boot
    <3>1. hand \in Latest /\ hand \in Post
      BY <1>6 DEF Delivered, Serialized, Latest, TypeOK
    <3>2. hand.seq <= newest[boot]
      BY <1>6 DEF Delivered, ReachedIsPassed
    <3>3. QED
      BY <3>1, <3>2 DEF PassedIsTaken, PostsLeftQueue
  <2>2. UNCHANGED <<boot, made, head, inflight, taken, lost>>
    BY <1>6 DEF Delivered, cloud
  <2>3. \A n \in Numbers(hand) : <<boot, n>> \in taken
    BY <2>1, DeliveryAssumption DEF Numbers, Reports
  <2>4. \A n \in Held : n \in Held' \/ <<boot, n>> \in taken'
    BY <2>2, <2>3 DEF Held, Pending, Numbers
  <2>5. QED
    BY <2>2, <2>4, AccountedWhen
<1>7. ASSUME NEW t \in Tasks, Refused(t) PROVE Accounted'
  <2>1. lost' = lost \union Numbers(hand) /\ UNCHANGED <<boot, made, head, inflight, taken>>
    BY <1>7 DEF Refused, cloud
  <2>2. \A n \in Held : n \in Held' \/ n \in lost'
    BY <2>1 DEF Held, Pending, Numbers
  <2>3. QED
    BY <2>1, <2>2, AccountedWhen
<1>8. ASSUME NEW t \in Tasks, Transient(t) PROVE Accounted'
  <2>1. hand # NoPost /\ inflight = NoPost /\ inflight' = hand /\ UNCHANGED <<boot, made, head, taken, lost>>
    BY <1>8 DEF Transient, Kept, Serialized, cloud
  <2>2. \A n \in Held : n \in Held'
    BY <2>1 DEF Held, Pending, Numbers
  <2>3. QED
    BY <2>1, <2>2, AccountedWhen
<1>9. ASSUME NEW t \in CheckIns, Keyframe(t) PROVE Accounted'
  BY <1>9 DEF Keyframe, Accounted, Pending, Numbers
<1>10. ASSUME NEW post \in wire, Arrive(post) PROVE Accounted'
  <2>1. UNCHANGED <<hub, lost>> /\ taken \subseteq taken'
    BY <1>10, Arrival DEF Arrive
  <2>2. \A n \in Held : n \in Held'
    BY <2>1 DEF hub, Held, Pending, Numbers
  <2>3. QED
    BY <2>1, <2>2, AccountedWhen DEF hub
<1>11. CASE Restart
  <2>1. made'[boot'] = 0
    BY <1>0, <1>11 DEF Restart, Unborn, Boots
  <2>2. QED
    BY <2>1 DEF Accounted
<1>12. CASE Register \/ UNCHANGED vars
  BY <1>12 DEF Register, vars, hub, cloud, Accounted, Pending, Numbers
<1>13. QED
  BY <1>1, <1>2, <1>3, <1>4, <1>5, <1>6, <1>7, <1>8, <1>9, <1>10, <1>11, <1>12 DEF Next, Drain

-----------------------------------------------------------------------------
(* The theorems *)

\* The inductive invariant: what serialises the drains, orders the posts and relates them
\* to the queue (hub_server.rs, drain_reports) and to what the cloud has taken.
THEOREM Invariance == Spec => []IInv
<1>1. ASSUME IInv, [Next]_vars PROVE IInv'
  <2>1. TypeOK' /\ Serialized' /\ PostsLeftQueue' /\ PostsInOrder'
    BY <1>1, TypeStep, SerializedStep, PostsLeftQueueStep, PostsInOrderStep DEF IInv
  <2>2. NewComesLater' /\ TakenLeftQueue' /\ Unborn'
    BY <1>1, <2>1, NewComesLaterStep, TakenLeftQueueStep, UnbornStep DEF IInv
  <2>3. PassedIsTaken' /\ ReachedIsPassed' /\ Accounted'
    BY <1>1, PassedIsTakenStep, ReachedIsPassedStep, AccountedStep DEF IInv
  <2>4. QED
    BY <2>1, <2>2, <2>3 DEF IInv
<1>2. QED
  BY InitInv, <1>1, PTL DEF Spec

\* The queue keeps its bound, and no report of a process vanishes between enqueue_report and the cloud.
THEOREM EveryReportAccounted == Spec => []DeliveryInv
<1>1. IInv => DeliveryInv
  BY DEF IInv, DeliveryInv
<1>2. QED
  BY Invariance, <1>1, PTL

\* A post that post_batch says was delivered has been taken by the cloud.
THEOREM NoneDiscarded == Spec => NoSilentDiscard
<1>1. ASSUME IInv, NEW t \in Tasks, Delivered(t) PROVE Reports(hand) \subseteq taken
  <2>1. hand \in Latest
    BY <1>1 DEF IInv, Delivered, Serialized, Latest
  <2>2. hand.seq <= newest[boot]
    BY <1>1 DEF IInv, Delivered, ReachedIsPassed
  <2>3. QED
    BY <1>1, <2>1, <2>2 DEF IInv, PassedIsTaken
<1>2. IInv => [\A t \in Tasks : Delivered(t) => Reports(hand) \subseteq taken]_vars
  BY <1>1
<1>3. QED
  BY Invariance, <1>2, PTL DEF Spec, NoSilentDiscard

\* The posts that reach the cloud are the log's takes, the reports queued its makes, and
\* all else that the hub and the cloud do changes nothing of the log.
THEOREM ImplementsEventLog == Spec => InOrderAndOnce
<1>1. Init => Log!Init
  BY DEF Init, Log!Init
<1>2. ASSUME IInv, [Next]_vars PROVE [Log!Next]_(Log!vars)
  <2>1. ASSUME NEW t \in Tasks, EnqueueReport(t) PROVE Log!Make(boot) /\ boot \in Boots
    BY <1>2, <2>1 DEF IInv, TypeOK, EnqueueReport, cloud, Log!Make
  <2>2. ASSUME NEW post \in wire, Arrive(post) PROVE [Log!Next]_(Log!vars)
    <3>1. /\ post \in Posts /\ post \in Post /\ made' = made
          /\ (UNCHANGED cloud \/ Taken(post))
      BY <1>2, <2>2, Arrival DEF IInv, hub
    <3>2. CASE Taken(post)
      <4>1. post.boot \in Boots /\ post.first \in Nat \ {0} /\ post.last \in Nat \ {0} /\ made \in [Boots -> Nat]
        BY <1>2, <3>1 DEF IInv, TypeOK, Post
      <4>2. post.first \in 1..made[post.boot] /\ post.last \in 1..made[post.boot]
        BY <1>2, <3>1, <4>1 DEF IInv, PostsLeftQueue
      <4>3. \A r \in taken : r[1] = post.boot => r[2] < post.first
        BY <1>2, <3>1, <3>2 DEF IInv, NewComesLater, Taken
      <4>4. Log!Take(post.boot, post.first, post.last)
        BY <3>1, <3>2, <4>3 DEF Taken, Reports, Log!Take
      <4>5. QED
        BY <4>1, <4>2, <4>4 DEF Log!Next
    <3>3. QED
      BY <3>1, <3>2 DEF cloud, Log!vars
  <2>3. UNCHANGED <<made, taken, takes>> \/ (\E t \in Tasks : EnqueueReport(t)) \/ (\E post \in wire : Arrive(post))
    BY <1>2 DEF Next, Drain, Enter, TakeInflight, TakePending, Drained, PostBatch, Discard,
       Delivered, Refused, Transient, Keyframe, Restart, Register, cloud, hub, vars
  <2>4. QED
    BY <2>1, <2>2, <2>3 DEF Log!Next, Log!vars
<1>3. QED
  BY Invariance, <1>1, <1>2, PTL DEF Spec, InOrderAndOnce, Log!Spec
=============================================================================
