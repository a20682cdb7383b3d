------------------------------- MODULE KeySync -------------------------------
(***************************************************************************)
(* How the hub keeps its copy of the member keys current                   *)
(* (daemon/src/key_sync.rs and its callers in hub_server.rs and            *)
(* hub_relay.rs).  The cloud's replies name the set they hold by its       *)
(* signature; a hub that holds another fetches.  Sets also come pushed     *)
(* over the relay.  The fetch and the push each write the gate, the live   *)
(* keys and hub.json in three sections of their own.  A set is a number,   *)
(* the next change of it the next number.                                  *)
(***************************************************************************)
EXTENDS Naturals, Sequences, FiniteSets

CONSTANTS
    LastSet,        \* bound: changes of the cloud's set
    NoSig,          \* no signature known, or none on a reply
    NoReason,       \* no fetch is due
    NotModified,    \* a fetch answered 304
    Workers,        \* bound: the workers looked at: do they sign replies, send ETags,
                    \* sign a set as the hub does
    MaxReplies,     \* bound: replies on their way
    MaxPushes,      \* bound: sets pushed over the relay
    MaxKnocks,      \* bound: unknown keys at the LAN door
    MaxRestarts     \* bound: restarts of the hub

Sets == 0..LastSet
Reasons == {"boot", "signature", "door miss", "safety"}

ASSUME KeyAssumption ==
    /\ LastSet \in Nat
    /\ NoSig \notin Nat /\ NotModified \notin Nat
    /\ NoReason \notin Reasons
    /\ Workers \subseteq [signs: BOOLEAN, etags: BOOLEAN, twin: BOOLEAN]
    /\ MaxReplies \in Nat /\ MaxPushes \in Nat /\ MaxKnocks \in Nat /\ MaxRestarts \in Nat

VARIABLES
    cloud,          \* the set the cloud holds
    worker,         \* the worker that answers
    socket,         \* sets pushed and not yet read, in order
    reply,          \* signatures on replies not yet handled
    gate,           \* KeySync: applied, want, wantSig, aged (a day unconfirmed), backoff
    keys,           \* rt.keys
    store,          \* hub.json: member_keys and member_keys_sig
    fetch,          \* where sync_member_keys is, what it offered, what it was answered
    push,           \* where apply_keys is, and the set it applies
    pushes, knocks, restarts,
    crossed         \* history: a fetch has met a change in one of the two ways it cannot tell

external == <<cloud, worker>>
bounds == <<pushes, knocks, restarts>>
keyVars == <<external, socket, reply, gate, keys, store, fetch, push, bounds, crossed>>

\* member_set_sig: the hub signs a set as the cloud does, or (some worker) it does not.
MemberSetSig(set) == IF worker.twin THEN set ELSE LastSet + 1 + set

Idle == [at |-> "idle", known |-> NoSig, got |-> NotModified, etag |-> NoSig]
NoPush == [at |-> "idle", set |-> 0]

\* KeySync::boot.
Boot(sig) == [applied |-> sig, want |-> "boot", wantSig |-> NoSig, aged |-> FALSE, backoff |-> FALSE]

KeyInit ==
    /\ cloud = 0
    /\ worker \in Workers
    /\ socket = <<>>
    /\ reply = {}
    /\ keys = 0
    /\ store = [keys |-> 0, sig |-> NoSig]
    /\ gate = Boot(NoSig)
    /\ fetch = Idle
    /\ push = NoPush
    /\ pushes = 0 /\ knocks = 0 /\ restarts = 0
    /\ crossed = FALSE

-----------------------------------------------------------------------------
(* The gate *)

Due ==
    IF gate.backoff THEN NoReason
    ELSE IF gate.want # NoReason THEN gate.want
    ELSE IF gate.aged THEN "safety" ELSE NoReason

\* What every proof that the set is current resets.
Fresh(g) == [g EXCEPT !.want = NoReason, !.wantSig = NoSig, !.aged = FALSE, !.backoff = FALSE]

NoteReplySig(g, sig) ==
    IF sig = NoSig THEN g
    ELSE IF sig = g.applied THEN [g EXCEPT !.aged = FALSE]
    ELSE [g EXCEPT !.wantSig = sig, !.want = IF @ = NoReason THEN "signature" ELSE @]

NoteDoorMiss(g) == [g EXCEPT !.want = IF @ = NoReason THEN "door miss" ELSE @]

\* Mutant: a signature that is known already is kept.
NotePushedNamed(g, set) == [Fresh(g) EXCEPT !.applied = IF @ = NoSig THEN MemberSetSig(set) ELSE @]

NotePushed(g, set) == [Fresh(g) EXCEPT !.applied = MemberSetSig(set)]

\* Mutant: the hub goes by its own signature of a set, whatever the cloud calls it.
AdoptedOwn(g, set, etag) == MemberSetSig(set)

\* The worker's ETag, or the signature a reply advertised, or our own.
Adopted(g, set, etag) ==
    IF etag # NoSig THEN etag ELSE IF g.wantSig # NoSig THEN g.wantSig ELSE MemberSetSig(set)

AppliedSet(g, set, etag) == [Fresh(g) EXCEPT !.applied = Adopted(g, set, etag)]

Failed(g) == [g EXCEPT !.backoff = TRUE]

-----------------------------------------------------------------------------
(* The cloud *)

Change ==
    /\ cloud < LastSet
    /\ cloud' = cloud + 1
    /\ UNCHANGED <<worker, socket, reply, gate, keys, store, fetch, push, bounds, crossed>>

\* On a change, or to a hub that has just connected.
CloudPushes ==
    /\ pushes < MaxPushes
    /\ pushes' = pushes + 1
    /\ socket' = Append(socket, cloud)
    /\ UNCHANGED <<external, reply, gate, keys, store, fetch, push, knocks, restarts, crossed>>

SocketDrops ==
    /\ socket # <<>>
    /\ socket' = <<>>
    /\ UNCHANGED <<external, reply, gate, keys, store, fetch, push, bounds, crossed>>

\* A post is answered; answers of posts that overlap are handled in any order.
CloudReplies ==
    /\ Cardinality(reply) < MaxReplies
    /\ reply' = reply \union {IF worker.signs THEN cloud ELSE NoSig}
    /\ UNCHANGED <<external, socket, gate, keys, store, fetch, push, bounds, crossed>>

\* /api/hub/keys: a worker with ETags answers 304 to the signature it holds.
CloudServes ==
    /\ fetch.at = "asked"
    /\ fetch' = IF worker.etags /\ fetch.known = cloud
                THEN [Idle EXCEPT !.at = "answered"]
                ELSE [Idle EXCEPT !.at = "answered", !.got = cloud,
                                  !.etag = IF worker.etags THEN cloud ELSE NoSig]
    /\ UNCHANGED <<external, socket, reply, gate, keys, store, push, bounds, crossed>>

-----------------------------------------------------------------------------
(* The hub *)

\* A reply names another set than the answer that is on its way without a name.
Misnamed(sig) ==
    /\ fetch.at = "answered" /\ fetch.got # NotModified /\ fetch.etag = NoSig
    /\ sig \notin {NoSig, gate.applied, fetch.got}

ApplyKeysReply(sig) ==
    /\ sig \in reply
    /\ reply' = reply \ {sig}
    /\ gate' = NoteReplySig(gate, sig)
    /\ crossed' = (crossed \/ Misnamed(sig))
    /\ UNCHANGED <<external, socket, keys, store, fetch, push, bounds>>

NoteUnknownKey ==
    /\ knocks < MaxKnocks
    /\ knocks' = knocks + 1
    /\ gate' = NoteDoorMiss(gate)
    /\ UNCHANGED <<external, socket, reply, keys, store, fetch, push, pushes, restarts, crossed>>

\* key_sync_loop: the gate says so, and sync_member_keys asks, offering what it holds.
Ask ==
    /\ fetch.at = "idle"
    /\ Due # NoReason
    /\ fetch' = [fetch EXCEPT !.at = "asked", !.known = gate.applied]
    /\ UNCHANGED <<external, socket, reply, gate, keys, store, push, bounds, crossed>>

FetchFails ==
    /\ fetch.at \in {"asked", "answered"}
    /\ fetch' = Idle
    /\ gate' = Failed(gate)
    /\ UNCHANGED <<external, socket, reply, keys, store, push, bounds, crossed>>

FetchNotModified ==
    /\ fetch.at = "answered" /\ fetch.got = NotModified
    /\ fetch' = Idle
    /\ gate' = Fresh(gate)
    /\ UNCHANGED <<external, socket, reply, keys, store, push, bounds, crossed>>

Writing(task) == task.at \in {"keys", "store"}

FetchApplied ==
    /\ fetch.at = "answered" /\ fetch.got # NotModified
    /\ gate' = AppliedSet(gate, fetch.got, fetch.etag)
    /\ fetch' = [fetch EXCEPT !.at = "keys", !.etag = gate'.applied]
    /\ crossed' = (crossed \/ Writing(push))
    /\ UNCHANGED <<external, socket, reply, keys, store, push, bounds>>

FetchKeys ==
    /\ fetch.at = "keys"
    /\ keys' = fetch.got
    /\ fetch' = [fetch EXCEPT !.at = "store"]
    /\ UNCHANGED <<external, socket, reply, gate, store, push, bounds, crossed>>

\* Mutant: the set is written without its signature.
StoredUnsigned(set, sig) == [keys |-> set, sig |-> store.sig]

Stored(set, sig) == [keys |-> set, sig |-> sig]

FetchStore ==
    /\ fetch.at = "store"
    /\ store' = Stored(fetch.got, fetch.etag)
    /\ fetch' = Idle
    /\ UNCHANGED <<external, socket, reply, gate, keys, push, bounds, crossed>>

\* apply_keys.
PushNoted ==
    /\ push.at = "idle" /\ socket # <<>>
    /\ push' = [at |-> "keys", set |-> Head(socket)]
    /\ socket' = Tail(socket)
    /\ gate' = NotePushed(gate, Head(socket))
    /\ crossed' = (crossed \/ Writing(fetch))
    /\ UNCHANGED <<external, reply, keys, store, fetch, bounds>>

PushKeys ==
    /\ push.at = "keys"
    /\ keys' = push.set
    /\ push' = [push EXCEPT !.at = "store"]
    /\ UNCHANGED <<external, socket, reply, gate, store, fetch, bounds, crossed>>

PushStore ==
    /\ push.at = "store"
    /\ store' = Stored(push.set, MemberSetSig(push.set))
    /\ push' = NoPush
    /\ UNCHANGED <<external, socket, reply, gate, keys, fetch, bounds, crossed>>

\* A day since the set was last confirmed; the wait after a failure is over.
DayPasses ==
    /\ ~gate.aged
    /\ gate' = [gate EXCEPT !.aged = TRUE]
    /\ UNCHANGED <<external, socket, reply, keys, store, fetch, push, bounds, crossed>>

BackoffPasses ==
    /\ gate.backoff
    /\ gate' = [gate EXCEPT !.backoff = FALSE]
    /\ UNCHANGED <<external, socket, reply, keys, store, fetch, push, bounds, crossed>>

Restart ==
    /\ restarts < MaxRestarts
    /\ restarts' = restarts + 1
    /\ keys' = store.keys
    /\ gate' = Boot(store.sig)
    /\ fetch' = Idle
    /\ push' = NoPush
    /\ socket' = <<>>
    /\ reply' = {}
    /\ UNCHANGED <<external, store, pushes, knocks, crossed>>

-----------------------------------------------------------------------------

Fetch == Ask \/ FetchNotModified \/ FetchApplied \/ FetchKeys \/ FetchStore
ApplyKeys == PushNoted \/ PushKeys \/ PushStore
SomeReply == \E sig \in Sets \union {NoSig} : ApplyKeysReply(sig)

KeyNext ==
    \/ Change \/ CloudPushes \/ SocketDrops \/ CloudReplies \/ CloudServes
    \/ SomeReply \/ NoteUnknownKey
    \/ Fetch \/ FetchFails \/ ApplyKeys
    \/ DayPasses \/ BackoffPasses \/ Restart

KeySpec == KeyInit /\ [][KeyNext]_keyVars

\* The loop ticks every minute, tasks go on, time passes; posts are answered and some
\* fetches are served and read.  A day without a word is fair only for a worker that does
\* not sign: the replies of one that does keep confirming the set.
KeyFairSpec ==
    /\ KeySpec
    /\ WF_keyVars(Ask) /\ WF_keyVars(ApplyKeys)
    /\ WF_keyVars(FetchKeys \/ FetchStore)
    /\ SF_keyVars(CloudServes) /\ SF_keyVars(FetchApplied \/ FetchNotModified)
    /\ SF_keyVars(CloudReplies) /\ \A sig \in Sets \union {NoSig} : SF_keyVars(ApplyKeysReply(sig))
    /\ WF_keyVars(~worker.signs /\ DayPasses) /\ WF_keyVars(BackoffPasses)

-----------------------------------------------------------------------------
(* Properties *)

KeyTypeOK ==
    /\ cloud \in Sets
    /\ worker \in Workers
    /\ socket \in Seq(Sets)
    /\ reply \subseteq Sets \union {NoSig}
    /\ gate \in [applied: Nat \union {NoSig}, want: Reasons \union {NoReason},
                 wantSig: Sets \union {NoSig}, aged: BOOLEAN, backoff: BOOLEAN]
    /\ keys \in Sets
    /\ store \in [keys: Sets, sig: Nat \union {NoSig}]
    /\ fetch.at \in {"idle", "asked", "answered", "keys", "store"}
    /\ push.at \in {"idle", "keys", "store"} /\ push.set \in Sets
    /\ crossed \in BOOLEAN

\* A change of the members reaches the hub whatever fails, is pushed late, lost or
\* overtaken by an older fetch, on a worker of any age: the live keys become the cloud's
\* and stay so.  Excepted are the two crossings a fetch cannot tell.
Converges == <>[](keys = cloud) \/ <>crossed

\* Key sync costs nothing while nothing changes: signatures stop making fetches due, even
\* where hub and cloud sign the same set differently, unless whole days go unconfirmed.
FetchesStop == <>[]~gate.aged => <>[](gate.want # "signature")

\* The keys converge and the fetches stop (KeyGate).
KeysSettle == Converges /\ FetchesStop

\* What a restart would load is what the hub holds: the set on disk is stored with its own
\* signature, or the conditional fetch at boot is told that nothing has changed.
Quiet == ~Writing(fetch) /\ ~Writing(push)
StoreFollows == Quiet /\ ~crossed => store = [keys |-> keys, sig |-> gate.applied]

\* Memory and disk agree (StoreFollows), in variables of their types.
KeySyncInv == KeyTypeOK /\ StoreFollows

=============================================================================
