--------------------------- MODULE RouterRegistry ---------------------------
(***************************************************************************)
(* A managed router: its slot in hub.json, the snapshot in memory          *)
(* (router_state) and the router itself, under the calls of the app        *)
(* (do_routers in daemon/src/hub_server.rs) and the polls.  A call reads   *)
(* the slot, asks the router and writes slot and snapshot, with an await   *)
(* between each two; only the write of the slot is under rt.store.  The    *)
(* hub may restart, and the owner may change the router, at any point.     *)
(***************************************************************************)
EXTENDS RouterDriver

CONSTANTS
    LanCalls,       \* calls and polls under way at once
    Devices,        \* bound: the routers looked at, as they are at first
    MaxCalls,       \* bound: calls and polls
    MaxChanges      \* bound: changes of the router by its owner, and restarts of the hub

Passwords == {1, 2}

\* No password: a dish, or none given with a request.
NoPassword == 0

Device == [vendor: Vendors, cred: Passwords, gps: GpsOfDevice, apn: [manual: BOOLEAN, named: BOOLEAN]]

ASSUME RegistryAssumption ==
    /\ Devices \subseteq {d \in Device : d.apn.manual => d.apn.named}
    /\ {MaxCalls, MaxChanges} \subseteq Nat

VARIABLES
    slot,       \* the router's entry in hub.json
    snap,       \* gps_supported of its snapshot, "absent" without one
    device,     \* the router
    call,       \* what is under way
    used,       \* calls and changes so far
    gained      \* history: the router has got GPS it did not have

registryVars == <<slot, snap, device, call, used, gained>>

Slots == [managed: BOOLEAN, cred: Passwords \union {NoPassword}, gps: BOOLEAN]
NoSlot == [managed |-> FALSE, cred |-> NoPassword, gps |-> FALSE]

Steps == {"idle", "probe", "gps", "switch", "read", "apn", "store", "note"}
Kinds == {"none", "add", "remove", "poll", "apn", "gps", "password"}

\* slot: as read and edited; on: GPS is asked for; word: what the router said of it; rekeyed: its
\* password has changed since the call proved one.
Calls == [at: Steps, kind: Kinds, slot: Slots, on: BOOLEAN, word: Words \union {"absent"}, rekeyed: BOOLEAN]
NoCall == [at |-> "idle", kind |-> "none", slot |-> NoSlot, on |-> FALSE, word |-> "absent", rekeyed |-> FALSE]

RegistryInit ==
    /\ slot = NoSlot /\ snap = "absent"
    /\ device \in Devices
    /\ call = [c \in LanCalls |-> NoCall]
    /\ used = [calls |-> 0, changes |-> 0]
    /\ gained = FALSE

-----------------------------------------------------------------------------
(* A call starts: it reads the slot, and the snapshot if it goes by it *)

Starts(c, kind, at, copy, on) ==
    /\ call[c] = NoCall /\ used.calls < MaxCalls
    /\ call' = [call EXCEPT ![c] = [NoCall EXCEPT !.at = at, !.kind = kind, !.slot = copy, !.on = on, !.word = snap]]
    /\ used' = [used EXCEPT !.calls = @ + 1]
    /\ UNCHANGED <<slot, snap, device, gained>>

\* "add": the whole slot as it will be stored; what the request omits is kept, and the password a
\* vendor signs in with is required.
Add(c) ==
    \E given \in Passwords \union {NoPassword}, asked \in {"on", "off", "kept"} :
        LET kept == IF given = NoPassword THEN slot.cred ELSE given
            cred == IF NeedsPassword(device.vendor) THEN kept ELSE NoPassword
            gps == IF asked = "kept" THEN slot.gps ELSE asked = "on" IN
        /\ NeedsPassword(device.vendor) => cred # NoPassword
        /\ Starts(c, "add", "probe", [managed |-> TRUE, cred |-> cred, gps |-> gps], asked = "on")

Remove(c) == Starts(c, "remove", "store", NoSlot, FALSE)

\* The poll loop and "refresh" (routers::poll, poll_in_background).
Poll(c) == slot.managed /\ Starts(c, "poll", "read", slot, FALSE)

\* (Its `read` only asks.)
Apn(c) == /\ slot.managed /\ ~Unsupported(device.vendor, "apn")
          /\ \E manual \in BOOLEAN : Starts(c, "apn", "apn", slot, manual)

SwitchGps(c) == \E on \in BOOLEAN : slot.managed /\ Starts(c, "gps", IF on THEN "gps" ELSE "switch", slot, on)

ChangePassword(c) ==
    /\ slot.managed /\ ~Unsupported(device.vendor, "password")
    /\ \E new \in Passwords : Starts(c, "password", "probe", [slot EXCEPT !.cred = new], FALSE)

-----------------------------------------------------------------------------
(* It asks the router *)

Goes(c, at) == call' = [call EXCEPT ![c].at = at]
Ends(c) == call' = [call EXCEPT ![c] = NoCall]
Asks == UNCHANGED <<slot, snap, used, gained>>

\* "The sign-in is PROVED against the router before anything is stored."
Prove(c) ==
    /\ call[c].at = "probe" /\ Asks /\ UNCHANGED device
    /\ \E proved \in Probe(device, call[c].slot.cred) :
          CASE ~proved -> Ends(c)
            [] proved /\ call[c].kind = "add" -> Goes(c, "gps")
            [] OTHER -> Goes(c, "store")

\* gps_on_refusal.
Refuses(c, word) == call[c].on /\ word = "no"

\* Has the router GPS?  Where it says no, nothing is stored of a request to turn it on; "gps" keeps
\* the word in the snapshot first.  (Its own switch, which "add" then sets as best it can, is left out.)
AskGps(c) ==
    /\ call[c].at = "gps" /\ Asks /\ UNCHANGED device
    /\ \E word \in Gps(device, call[c].slot.cred) :
          IF call[c].kind = "add" /\ Refuses(c, word) THEN Ends(c)
          ELSE call' = [call EXCEPT ![c].at = IF call[c].kind = "add" THEN "store" ELSE "note", ![c].word = word]

\* "gps": the router must take the switch.
Switch(c) ==
    /\ call[c].at = "switch" /\ Asks /\ UNCHANGED device
    /\ \E taken \in SetGps(device, call[c].slot.cred, call[c].on) : IF taken THEN Goes(c, "store") ELSE Ends(c)

\* gps_polling: a position is asked for until the router has said that it has none.
GpsPolling(c) == call[c].slot.gps /\ call[c].word # "no"

\* poll_with: a poll that fails, or does not ask, keeps what the snapshot it started from knew.
Read(c) ==
    /\ call[c].at = "read" /\ Asks /\ UNCHANGED device
    /\ \E read \in Status(device, call[c].slot.cred) :
       \E word \in IF read /\ GpsPolling(c) THEN Gps(device, call[c].slot.cred)
                   ELSE {IF call[c].word = "absent" THEN "unknown" ELSE call[c].word} :
          call' = [call EXCEPT ![c].at = "note", ![c].word = word]

WriteApn(c) ==
    /\ call[c].at = "apn" /\ Asks
    /\ \E wrote \in SetApn(device, call[c].slot.cred, call[c].on) :
          /\ device' = [device EXCEPT !.apn = wrote.apn]
          /\ IF wrote.ok THEN Goes(c, "note") ELSE Ends(c)

-----------------------------------------------------------------------------
(* It writes the slot, under rt.store, and the snapshot *)

\* "add" replaces the slot by the one it made of what it read before its requests.
Upserted(c) == call[c].slot

\* "gps" and "password" change their part of the slot as it is now, if it is still there.
Retuned(c) == IF slot.managed THEN [slot EXCEPT !.gps = call[c].on] ELSE slot
Rekeyed(c) == IF slot.managed THEN [slot EXCEPT !.cred = call[c].slot.cred] ELSE slot

Stored(c) ==
    CASE call[c].kind = "add" -> Upserted(c)
      [] call[c].kind = "remove" -> NoSlot
      [] call[c].kind = "gps" -> Retuned(c)
      [] call[c].kind = "password" -> Rekeyed(c)

\* A router that is gone is not removed again (404), and a file that cannot be written ends the call (500).
Store(c) ==
    /\ call[c].at = "store"
    /\ \/ Ends(c) /\ UNCHANGED slot
       \/ /\ call[c].kind = "remove" => slot.managed
          /\ slot' = Stored(c)
          /\ IF call[c].kind \in {"add", "remove"} THEN Goes(c, "note") ELSE Ends(c)
    /\ UNCHANGED <<snap, device, used, gained>>

\* The entry, or a new one that knows nothing.
Entry == IF snap = "absent" THEN "unknown" ELSE snap

Noted(c) ==
    CASE call[c].kind \in {"add", "poll", "gps"} -> call[c].word
      [] call[c].kind = "apn" -> Entry
      [] call[c].kind = "remove" -> "absent"

Note(c) ==
    /\ call[c].at = "note"
    /\ snap' = Noted(c)
    /\ IF call[c].kind = "gps" /\ ~Refuses(c, call[c].word) THEN Goes(c, "switch") ELSE Ends(c)
    /\ UNCHANGED <<slot, device, used, gained>>

-----------------------------------------------------------------------------
(* The router's owner, and the hub's restart *)

Changes == used.changes < MaxChanges /\ used' = [used EXCEPT !.changes = @ + 1]

RouterRekeyed ==
    /\ Changes
    /\ \E new \in Passwords \ {device.cred} : device' = [device EXCEPT !.cred = new]
    /\ call' = [c \in LanCalls |-> IF call[c] = NoCall THEN NoCall ELSE [call[c] EXCEPT !.rekeyed = call[c].at # "probe"]]
    /\ UNCHANGED <<slot, snap, gained>>

RouterGpsChanges ==
    /\ Changes
    /\ \E gps \in GpsOfDevice \ {device.gps} : device' = [device EXCEPT !.gps = gps]
    /\ gained' = (gained \/ device.gps = "none")
    /\ UNCHANGED <<slot, snap, call>>

\* Memory is lost; what is on disk and in the router stays.
LanRestart ==
    /\ Changes
    /\ call' = [c \in LanCalls |-> NoCall] /\ snap' = "absent"
    /\ UNCHANGED <<slot, device, gained>>

RegistryNext ==
    \/ \E c \in LanCalls :
          \/ Add(c) \/ Remove(c) \/ Poll(c) \/ Apn(c) \/ SwitchGps(c) \/ ChangePassword(c)
          \/ Prove(c) \/ AskGps(c) \/ Switch(c) \/ Read(c) \/ WriteApn(c) \/ Store(c) \/ Note(c)
    \/ RouterRekeyed \/ RouterGpsChanges \/ LanRestart

RegistrySpec == RegistryInit /\ [][RegistryNext]_registryVars

-----------------------------------------------------------------------------
(* Properties *)

RegistryTypeOK ==
    /\ slot \in Slots /\ snap \in Words \union {"absent"} /\ device \in Device
    /\ call \in [LanCalls -> Calls] /\ gained \in BOOLEAN
    /\ used \in [calls: 0..MaxCalls, changes: 0..MaxChanges]

\* "Never `no`" but where the device says so (ncos_gps_support, peplink::gps_support,
\* gps_support_of_refusal): no failure on the way makes the hub stop asking a router for its position,
\* unless the router got GPS later.
NoMeansNo == ~gained /\ snap = "no" => device.gps = "none"

\* "The name is written FIRST so the mode flip never points at an empty name" (set_apn), over writes
\* that fail half way, whatever was tried before.
ManualIsNamed == device.apn.manual => device.apn.named

\* What the hub knows of a router is the router's word, and what it writes there is whole.
RegistryInv == RegistryTypeOK /\ NoMeansNo /\ ManualIsNamed

\* "a typo cannot evict a working credential": a password in the store that works is replaced by one
\* that does not only where the router changed its own after the call had proved it.  (One router to a
\* slot: `add` may also move the slot to another address, and a `password` proved at the old one follows.)
CredentialStays ==
    [][\A c \in LanCalls :
          Store(c) /\ slot.managed /\ Accepts(device, slot.cred) /\ slot'.managed /\ ~call[c].rekeyed
          => Accepts(device, slot'.cred)]_registryVars

\* The hub's record of a router, over every call, poll, restart and change of the router.
RegistryKeeps == []RegistryInv /\ CredentialStays
=============================================================================
