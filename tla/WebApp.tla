------------------------------- MODULE WebApp -------------------------------
(***************************************************************************)
(* The web app the hub serves (daemon/src/web_bundle.rs, and h_web,        *)
(* apply_web_ui_switch and the update loop in hub_server.rs): bundles are  *)
(* fetched, unpacked beside the one in service and switched to, while the  *)
(* owner may turn the web app off and on and the power may fail.           *)
(***************************************************************************)
EXTENDS Naturals

CONSTANTS
    Owners,         \* calls of do_config that carry the switch, under way at once
    LastVersion,    \* bound: the newest app release
    MaxSwitches,    \* bound: calls
    MaxCuts         \* bound: restarts

ASSUME WebAssumption == LastVersion \in Nat \ {0} /\ {MaxSwitches, MaxCuts} \subseteq Nat

NoBundle == 0
Versions == 1 .. LastVersion
\* Of a version's directory: there is no index.html, or there is, of a part of the bundle or all of it.
Directory == {"none", "partial", "whole"}

VARIABLES
    release,    \* the version the stable manifest names
    unpacked,   \* web/<version>
    marker,     \* web/current
    disabled,   \* hub.json: web_ui_disabled
    off,        \* rt.web_ui_disabled
    web,        \* rt.web: the version in service
    refresh,    \* the web part of the update loop
    switch,     \* the calls
    switches, cuts,
    crossed     \* history: a call has met another, or a refresh

webVars == <<release, unpacked, marker, disabled, off, web, refresh, switch, switches, cuts, crossed>>

AtRest == [at |-> "asleep", version |-> NoBundle]
NoSwitch == [at |-> "none", on |-> FALSE, was |-> FALSE, version |-> NoBundle]

WebInit ==
    /\ release = 1
    /\ unpacked = [v \in Versions |-> "none"] /\ marker = NoBundle
    /\ disabled = FALSE /\ off = FALSE /\ web = NoBundle
    /\ refresh = AtRest
    /\ switch = [c \in Owners |-> NoSwitch]
    /\ switches = 0 /\ cuts = 0 /\ crossed = FALSE

AppRelease ==
    /\ release < LastVersion /\ release' = release + 1
    /\ UNCHANGED <<unpacked, marker, disabled, off, web, refresh, switch, switches, cuts, crossed>>

\* load_current: what the marker names, if its index.html is there.
LoadCurrent == IF marker # NoBundle /\ unpacked[marker] # "none" THEN marker ELSE NoBundle

-----------------------------------------------------------------------------
(* The refresh (web_bundle::refresh), with each check for an update *)

Switching == \E c \in Owners : switch[c] # NoSwitch

Refreshing ==
    /\ crossed' = (crossed \/ Switching)
    /\ UNCHANGED <<release, disabled, off, switch, switches, cuts>>

\* No download while the owner has the web app off; the manifest names another version than the one in
\* service, or nothing is done.
AskManifest ==
    /\ refresh.at = "asleep" /\ ~off
    /\ release # web
    /\ refresh' = [at |-> IF unpacked[release] = "none" THEN "fetch" ELSE "mark", version |-> release]
    /\ Refreshing /\ UNCHANGED <<unpacked, marker, web>>

\* Mutant: the bundle is unpacked where it is served from.
UnpackInPlace(v) == {[unpacked EXCEPT ![v] = "partial"]}
\* install, up to its rename: in <version>.tmp.
Unpacking(v) == {unpacked}

\* The signature and the bundle are fetched and verified; a bundle that does not verify is never unpacked.
FetchBundle ==
    /\ refresh.at = "fetch"
    /\ \/ refresh' = AtRest /\ UNCHANGED unpacked
       \/ refresh' = [refresh EXCEPT !.at = "commit"] /\ unpacked' \in Unpacking(refresh.version)
    /\ Refreshing /\ UNCHANGED <<marker, web>>

\* install: the directory is renamed, or unpacking fails.
CommitBundle ==
    /\ refresh.at = "commit"
    /\ \/ refresh' = AtRest /\ UNCHANGED unpacked
       \/ refresh' = [refresh EXCEPT !.at = "mark"] /\ unpacked' = [unpacked EXCEPT ![refresh.version] = "whole"]
    /\ Refreshing /\ UNCHANGED <<marker, web>>

\* write_marker, temp and rename, and the bundle is loaded.
Mark ==
    /\ refresh.at = "mark"
    /\ \/ refresh' = AtRest /\ UNCHANGED marker
       \/ refresh' = [refresh EXCEPT !.at = "serve"] /\ marker' = refresh.version
    /\ Refreshing /\ UNCHANGED <<unpacked, web>>

ServeNew ==
    /\ refresh.at = "serve"
    /\ web' = refresh.version
    /\ refresh' = AtRest
    /\ Refreshing /\ UNCHANGED <<unpacked, marker>>

-----------------------------------------------------------------------------
(* The owner's switch (do_config, then apply_web_ui_switch) *)

\* The setting is on disk first.
SetSwitch(c) ==
    /\ switch[c] = NoSwitch /\ switches < MaxSwitches
    /\ switches' = switches + 1
    /\ \E on \in BOOLEAN :
          disabled' = ~on /\ switch' = [switch EXCEPT ![c] = [NoSwitch EXCEPT !.at = "flag", !.on = on]]
    /\ crossed' = (crossed \/ Switching \/ refresh # AtRest)
    /\ UNCHANGED <<release, unpacked, marker, off, web, refresh, cuts>>

\* The flag is swapped.
Flag(c) == ~switch[c].on

\* What is to be served is read before rt.web is locked.
SwapFlag(c) ==
    /\ switch[c].at = "flag"
    /\ off' = Flag(c)
    /\ switch' = [switch EXCEPT ![c].at = "web", ![c].was = off, ![c].version = IF switch[c].on THEN LoadCurrent ELSE NoBundle]
    /\ UNCHANGED <<release, unpacked, marker, disabled, web, refresh, switches, cuts, crossed>>

\* Turned off, or on again after it was off.
SwapWeb(c) ==
    /\ switch[c].at = "web"
    /\ web' = IF ~switch[c].on \/ switch[c].was THEN switch[c].version ELSE web
    /\ switch' = [switch EXCEPT ![c] = NoSwitch]
    /\ UNCHANGED <<release, unpacked, marker, disabled, off, refresh, switches, cuts, crossed>>

\* new_rt.
WebRestart ==
    /\ cuts < MaxCuts /\ cuts' = cuts + 1
    /\ off' = disabled
    /\ web' = IF disabled THEN NoBundle ELSE LoadCurrent
    /\ refresh' = AtRest /\ switch' = [c \in Owners |-> NoSwitch]
    /\ crossed' = FALSE
    /\ UNCHANGED <<release, unpacked, marker, disabled, switches>>

WebNext ==
    \/ AppRelease \/ AskManifest \/ FetchBundle \/ CommitBundle \/ Mark \/ ServeNew \/ WebRestart
    \/ \E c \in Owners : SetSwitch(c) \/ SwapFlag(c) \/ SwapWeb(c)

WebSpec == WebInit /\ [][WebNext]_webVars

-----------------------------------------------------------------------------
(* Properties *)

WebTypeOK ==
    /\ release \in Versions /\ {marker, web} \subseteq Versions \union {NoBundle}
    /\ unpacked \in [Versions -> Directory]
    /\ {disabled, off, crossed} \subseteq BOOLEAN
    /\ refresh.at \in {"asleep", "fetch", "commit", "mark", "serve"}
    /\ \A c \in Owners : switch[c].at \in {"none", "flag", "web"}
    /\ switches \in 0 .. MaxSwitches /\ cuts \in 0 .. MaxCuts

\* "a crash mid-install leaves the previous bundle in service ... never a half-written one being served":
\* the bundle in service, and the one a restart would load, is all there.
ServedIsWhole == \A v \in {web, LoadCurrent} \ {NoBundle} : unpacked[v] = "whole"

\* "turn the local web app on or off NOW": once the calls are done, the hub serves and announces it
\* just when hub.json says so.  (Not after a call that met another, or a refresh: they set the file, the
\* flag and the bundle in three steps.)
SwitchHolds ==
    ~Switching /\ ~crossed => off = disabled /\ (off => web = NoBundle)

\* What the hub serves of the web app is whole, and the owner's to turn off.
WebInv == WebTypeOK /\ ServedIsWhole /\ SwitchHolds
=============================================================================
