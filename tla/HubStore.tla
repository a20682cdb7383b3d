------------------------------ MODULE HubStore ------------------------------
(***************************************************************************)
(* hub.json, the hub's one store (daemon/src/hub_config.rs), under every   *)
(* operation of hub_server.rs and hub_relay.rs that writes it.  Each       *)
(* holds rt.store, reads the whole file, edits its own fields and          *)
(* replaces the file; setup calls are admitted before they get the lock.   *)
(* The power may fail at any point, and an edit by hand may leave the file *)
(* unreadable, until another repairs it.  The value of a field is the      *)
(* number of the call that wrote it, 0 by default.                         *)
(***************************************************************************)
EXTENDS Naturals

CONSTANTS
    Writers,          \* calls and tasks that write the store, under way at once
    NoCaller,       \* nobody holds rt.store
    MaxWrites,       \* bound: calls
    MaxMishaps      \* bound: power cuts, and edits by hand

ASSUME StoreAssumption == NoCaller \notin Writers /\ {MaxWrites, MaxMishaps} \subseteq Nat

\* settings: the name, the intervals and the switches; gateway: host, gw_id and dev_ids of LinkTap.
Fields == {"hubId", "vid", "token", "settings", "keys", "allowed", "gateway", "gps", "routers", "sensors"}

VARIABLES
    file,       \* hub.json
    holder,     \* rt.store
    calls,      \* the calls under way
    made, mishaps,
    answered,   \* history: what the calls that succeeded have written, since the file was last removed
    told        \* history: the hub id the app has been given, 0 for none

storeVars == <<file, holder, calls, made, mishaps, answered, told>>

Blank == [f \in Fields |-> 0]
NoFile == [state |-> "missing", cfg |-> Blank]

\* kind: the operation; n: its number; cfg: the file it is about to write.
Away == [at |-> "away", kind |-> "none", n |-> 0, cfg |-> Blank]

StoreInit ==
    /\ file = NoFile /\ holder = NoCaller
    /\ calls = [c \in Writers |-> Away]
    /\ made = 0 /\ mishaps = 0
    /\ answered = Blank /\ told = 0

-----------------------------------------------------------------------------
(* The file (hub_config.rs) *)

\* read_config_state_in, read_config_in: one that is damaged reads as defaults.
ReadConfig == IF file.state = "whole" THEN file.cfg ELSE Blank

\* Mutant: whatever was read is saved.
WritableAlways == TRUE
\* write_config_in refuses to save over a file it cannot read.
Writable == file.state # "damaged"

\* Temp and rename: the new file, or (power cut) the old one.  The file system is taken to keep that
\* order of its own: nothing is synced.
WriteConfig(cfg) == [state |-> "whole", cfg |-> cfg]

-----------------------------------------------------------------------------
(* The operations: what each makes of the file *)

\* with_hub_id.
WithHubId(cfg, n) == IF cfg.hubId = 0 THEN [cfg EXCEPT !.hubId = n] ELSE cfg

Bootstrapped(cfg, n) == [WithHubId(cfg, n) EXCEPT !.vid = n, !.token = n, !.settings = n]

\* apply_linktap_reply: the plan's word, if it is another than the one on file.
Permitted(cfg, n) == [cfg EXCEPT !.allowed = IF @ = 0 THEN n ELSE 0]

\* discover_linktap_gateway: "a typed address must never be clobbered".
Discovered(cfg, n) == IF cfg.gateway = 0 THEN [cfg EXCEPT !.gateway = n] ELSE cfg

\* The operation of a kind; one that writes a single field is named for it.
Edited(kind, cfg, n) ==
    CASE kind = "identity" -> WithHubId(cfg, n)
      [] kind = "bootstrap" -> Bootstrapped(cfg, n)
      [] kind = "permit" -> Permitted(cfg, n)
      [] kind = "discover" -> Discovered(cfg, n)
      [] kind = "clear" -> Blank
      [] kind \in Fields -> [cfg EXCEPT ![kind] = n]

-----------------------------------------------------------------------------
(* The calls *)

Comes(c, kind) ==
    /\ calls[c] = Away /\ made < MaxWrites
    /\ made' = made + 1
    /\ calls' = [calls EXCEPT ![c] = [Away EXCEPT !.at = "waiting", !.kind = kind, !.n = made + 1]]
    /\ UNCHANGED <<file, holder, mishaps, answered, told>>

\* first_run_only; whom may_set_up lets in at what time is left out.
FirstRun == file.state # "damaged" /\ file.cfg.vid = 0 /\ file.cfg.token = 0

Identity(c) == FirstRun /\ Comes(c, "identity")
Bootstrap(c) == FirstRun /\ Comes(c, "bootstrap")

Config(c) == Comes(c, "settings")
Token(c) == Comes(c, "token")
GpsSource(c) == Comes(c, "gps")
RouterEdit(c) == Comes(c, "routers")
SensorEdit(c) == Comes(c, "sensors")
Clear(c) == Comes(c, "clear")

\* The hub's own: the members' keys, fetched or pushed; the plan's word on valves; a gateway found.
MemberKeys(c) == Comes(c, "keys")
LinktapReply(c) == Comes(c, "permit")
Discovery(c) == Comes(c, "discover")

\* rt.store.lock, the file read under it, and the edit.
Enter(c) ==
    /\ calls[c].at = "waiting" /\ holder = NoCaller
    /\ holder' = c
    /\ calls' = [calls EXCEPT ![c].at = "holding", ![c].cfg = Edited(calls[c].kind, ReadConfig, calls[c].n)]
    /\ UNCHANGED <<file, made, mishaps, answered, told>>

Done(c) == holder' = NoCaller /\ calls' = [calls EXCEPT ![c] = Away]

\* The id on file is the app's answer.
Gives(c, id) == told' = IF calls[c].kind = "identity" THEN id ELSE told

\* Nothing to write.
Unchanged(c) ==
    /\ calls[c].at = "holding" /\ calls[c].kind \in {"identity", "discover"}
    /\ calls[c].cfg = ReadConfig
    /\ Done(c) /\ Gives(c, calls[c].cfg.hubId)
    /\ UNCHANGED <<file, made, mishaps, answered>>

Replace(c) ==
    /\ calls[c].at = "holding" /\ calls[c].kind # "clear" /\ Writable
    /\ file' = WriteConfig(calls[c].cfg)
    /\ answered' = Edited(calls[c].kind, answered, calls[c].n)
    /\ Done(c) /\ Gives(c, calls[c].cfg.hubId)
    /\ UNCHANGED <<made, mishaps>>

\* A damaged file, or one that cannot be written: 500.
Refused(c) ==
    /\ calls[c].at = "holding"
    /\ Done(c)
    /\ UNCHANGED <<file, made, mishaps, answered, told>>

Removed == file' = NoFile /\ answered' = Blank /\ told' = 0

\* clear_in, of a damaged file too.
Unlink(c) ==
    /\ calls[c].at = "holding" /\ calls[c].kind = "clear"
    /\ Removed /\ Done(c)
    /\ UNCHANGED <<made, mishaps>>

-----------------------------------------------------------------------------
(* What happens to the file from outside *)

Mishap == mishaps < MaxMishaps /\ mishaps' = mishaps + 1

\* Every call is lost; one that was replacing the file has, or has not.
PowerCut ==
    /\ Mishap
    /\ \/ UNCHANGED <<file, answered>>
       \/ /\ holder # NoCaller /\ calls[holder].kind # "clear" /\ Writable
          /\ file' = WriteConfig(calls[holder].cfg)
          /\ answered' = Edited(calls[holder].kind, answered, calls[holder].n)
    /\ holder' = NoCaller /\ calls' = [c \in Writers |-> Away]
    /\ UNCHANGED <<made, told>>

\* An editor leaves the file unreadable (strip_bom takes the commonest case); what it holds is still there.
EditedByHand ==
    /\ Mishap /\ file.state = "whole"
    /\ file' = [file EXCEPT !.state = "damaged"]
    /\ UNCHANGED <<holder, calls, made, answered, told>>

\* (Not in the instant that a call holds the file.)
RepairedByHand ==
    /\ file.state = "damaged" /\ holder = NoCaller
    /\ file' = [file EXCEPT !.state = "whole"]
    /\ UNCHANGED <<holder, calls, made, mishaps, answered, told>>

StoreNext ==
    \/ \E c \in Writers :
          \/ Identity(c) \/ Bootstrap(c) \/ Config(c) \/ Token(c) \/ GpsSource(c) \/ RouterEdit(c) \/ SensorEdit(c) \/ Clear(c)
          \/ MemberKeys(c) \/ LinktapReply(c) \/ Discovery(c)
          \/ Enter(c) \/ Unchanged(c) \/ Replace(c) \/ Refused(c) \/ Unlink(c)
    \/ PowerCut \/ EditedByHand \/ RepairedByHand

StoreSpec == StoreInit /\ [][StoreNext]_storeVars

-----------------------------------------------------------------------------
(* Properties *)

Configs == [Fields -> 0 .. MaxWrites]

StoreTypeOK ==
    /\ file \in [state: {"missing", "whole", "damaged"}, cfg: Configs]
    /\ holder \in Writers \union {NoCaller}
    /\ \A c \in Writers : calls[c].at \in {"away", "waiting", "holding"} /\ calls[c].cfg \in Configs
    /\ made \in 0 .. MaxWrites /\ mishaps \in 0 .. MaxMishaps
    /\ answered \in Configs /\ told \in 0 .. MaxWrites

\* The file holds just what the calls that succeeded since it was last cleared have written, as if each
\* had come after the other: no call undoes the fields of another that came while it waited or wrote,
\* no power cut leaves a part of one, and defaults are never saved over a file that could not be read
\* ("a recoverable fault recoverable").
NothingLost == file.cfg = answered

\* "stable for the life of THIS FILE": the id the app was given, and enrolled, is the one on file.
IdIsStable == told \in {0, file.cfg.hubId}

\* hub.json is the record of its writers.
StoreInv == StoreTypeOK /\ NothingLost /\ IdIsStable
=============================================================================
