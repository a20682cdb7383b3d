------------------------------ MODULE LanProofs ------------------------------
(***************************************************************************)
(* What the hub keeps and watches on the boat's network.  Every write of   *)
(* hub.json keeps what the others wrote; the web interface it serves is    *)
(* whole; a managed router is the one a member added, under a password it  *)
(* accepts; what the hub says of its routers is their own word, said in    *)
(* time; so is what it says of the wiring of a sensor, and of the gateway  *)
(* of the valves; and what the tray shows is what a look found.            *)
(***************************************************************************)
EXTENDS Routers, RouterRegistry, SensorWiring, Gateway, HubStore, WebApp, Tray, FiniteSetTheorems, SequenceTheorems, TLAPS

-----------------------------------------------------------------------------
(* hub.json (HubStore) *)

\* What a call may be about, and a call under way.
WriterKinds ==
    {"identity", "bootstrap", "permit", "discover", "clear", "settings", "token", "gps", "routers", "sensors", "keys"}
WriterCall == [at: {"away", "waiting", "holding"}, kind: WriterKinds \union {"none"}, n: 0 .. MaxWrites, cfg: Configs]

\* A call has a kind and a number from when it comes; the one that holds the lock, and it alone, is
\* about to write its own edit of the file as it is, unless that has been damaged since.
HoldsItsEdit(c) ==
    /\ calls[c].at # "away" => calls[c].kind \in WriterKinds /\ calls[c].n # 0
    /\ calls[c].at = "away" => calls[c] = Away
    /\ calls[c].at = "holding" <=> holder = c
    /\ calls[c].at = "holding" /\ file.state # "damaged" =>
          calls[c].cfg = Edited(calls[c].kind, file.cfg, calls[c].n)
    /\ calls[c].at = "holding" /\ calls[c].kind = "identity" => calls[c].cfg.hubId # 0

StoreIInv ==
    /\ StoreInv
    /\ calls \in [Writers -> WriterCall]
    /\ file.state = "missing" => file.cfg = Blank
    /\ \A c \in Writers : HoldsItsEdit(c)

\* A hub.json that is not there reads as one, of no hub.
LEMMA BlankType == Blank \in Configs /\ Blank.hubId = 0
BY StoreAssumption DEF Blank, Configs, Fields

\* Every edit of a hub.json is a hub.json.
LEMMA EditedType ==
    ASSUME NEW kind \in WriterKinds, NEW cfg \in Configs, NEW n \in 0 .. MaxWrites
    PROVE  Edited(kind, cfg, n) \in Configs
<1>1. WithHubId(cfg, n) \in Configs
  BY DEF WithHubId, Configs, Fields
<1>2. Bootstrapped(cfg, n) \in Configs
  BY <1>1 DEF Bootstrapped, Configs, Fields
<1>3. Permitted(cfg, n) \in Configs
  <2>1. (IF cfg.allowed = 0 THEN n ELSE 0) \in 0 .. MaxWrites
    BY StoreAssumption
  <2> QED
    BY <2>1 DEF Permitted, Configs
<1>4. Discovered(cfg, n) \in Configs
  BY DEF Discovered, Configs, Fields
<1>5. kind \in Fields => [cfg EXCEPT ![kind] = n] \in Configs
  BY DEF Configs
<1>6. kind \in {"identity", "bootstrap", "permit", "discover", "clear"} \/ kind \in Fields
  BY DEF WriterKinds, Fields
<1>7. \A k \in {"identity", "bootstrap", "permit", "discover", "clear"} : k \notin Fields
  BY DEF Fields
<1> HIDE DEF Fields
<1>8. ASSUME kind \in Fields PROVE Edited(kind, cfg, n) = [cfg EXCEPT ![kind] = n]
  BY <1>7, <1>8 DEF Edited
<1>9. ASSUME kind \notin Fields PROVE Edited(kind, cfg, n) \in Configs
  BY <1>1, <1>2, <1>3, <1>4, <1>6, <1>9, BlankType DEF Edited
<1> QED
  BY <1>5, <1>8, <1>9

\* "An id is made once": no edit but a clear replaces one, and "identity" leaves one.
LEMMA EditedId ==
    ASSUME NEW kind \in WriterKinds, NEW cfg \in Configs, NEW n \in 0 .. MaxWrites
    PROVE  /\ kind # "clear" /\ cfg.hubId # 0 => Edited(kind, cfg, n).hubId = cfg.hubId
           /\ kind = "identity" /\ n # 0 => Edited(kind, cfg, n).hubId # 0
<1>1. /\ cfg.hubId # 0 => WithHubId(cfg, n).hubId = cfg.hubId
      /\ n # 0 => WithHubId(cfg, n).hubId # 0
      /\ WithHubId(cfg, n) \in Configs
  BY DEF WithHubId, Configs, Fields
<1>2. Bootstrapped(cfg, n).hubId = WithHubId(cfg, n).hubId
  BY <1>1 DEF Bootstrapped, Configs, Fields
<1>3. Permitted(cfg, n).hubId = cfg.hubId /\ Discovered(cfg, n).hubId = cfg.hubId
  BY DEF Permitted, Discovered, Configs, Fields
<1>4. kind \in Fields => kind # "hubId"
  BY DEF WriterKinds
<1>5. kind \in Fields => [cfg EXCEPT ![kind] = n].hubId = cfg.hubId
  BY <1>4 DEF Configs, Fields
<1> QED
  BY <1>1, <1>2, <1>3, <1>5 DEF Edited, WriterKinds, Fields

LEMMA StoreInitially == StoreInit => StoreIInv
<1> SUFFICES ASSUME StoreInit PROVE StoreIInv
  OBVIOUS
<1>1. Away \in WriterCall
  BY BlankType, StoreAssumption DEF Away, WriterCall
<1> QED
  BY <1>1, BlankType, StoreAssumption
     DEF StoreInit, StoreIInv, StoreInv, StoreTypeOK, NothingLost, IdIsStable, HoldsItsEdit, NoFile, Away, WriterCall

\* The one who holds the lock writes what it read a moment ago, with its edit.
LEMMA StoreStep == StoreIInv /\ [StoreNext]_storeVars => StoreIInv'
<1> SUFFICES ASSUME StoreIInv, [StoreNext]_storeVars PROVE StoreIInv'
  OBVIOUS
<1> USE DEF StoreIInv, StoreInv
<1>1. ASSUME NEW c \in Writers, NEW kind \in WriterKinds, Comes(c, kind) PROVE StoreIInv'
  <2>1. /\ calls'[c] \in WriterCall /\ calls'[c].at = "waiting" /\ calls'[c].kind = kind
        /\ calls'[c].n = made + 1 /\ made + 1 \in 1 .. MaxWrites
    <3>1. Away \in WriterCall
      BY BlankType, StoreAssumption DEF Away, WriterCall
    <3>2. calls'[c] = [Away EXCEPT !.at = "waiting", !.kind = kind, !.n = made + 1]
      BY <1>1 DEF Comes
    <3>3. PICK n \in 1 .. MaxWrites : n = made + 1
      BY <1>1, StoreAssumption DEF Comes, StoreTypeOK
    <3>4. n \in 0 .. MaxWrites
      OBVIOUS
    <3>5. calls'[c] = [Away EXCEPT !.at = "waiting", !.kind = kind, !.n = n]
      BY <3>2, <3>3
    <3>6. calls'[c] \in WriterCall /\ calls'[c].at = "waiting" /\ calls'[c].kind = kind /\ calls'[c].n = n
      BY <3>1, <3>4, <3>5 DEF WriterCall
    <3> QED
      BY <3>3, <3>6
  <2>3. \A d \in Writers : d # c => calls'[d] = calls[d]
    BY <1>1 DEF Comes
  <2>4. calls' \in [Writers -> WriterCall]
    BY <1>1, <2>1 DEF Comes
  <2>5. calls[c].at = "away"
    BY <1>1 DEF Comes, Away
  <2>6. StoreTypeOK' /\ NothingLost' /\ IdIsStable'
    BY <1>1, <2>1, <2>4, StoreAssumption DEF Comes, StoreTypeOK, NothingLost, IdIsStable, WriterCall
  <2>7. HoldsItsEdit(c)'
    BY <1>1, <2>1, <2>5 DEF Comes, HoldsItsEdit
  <2>8. \A d \in Writers : d # c => HoldsItsEdit(d)'
    BY <1>1, <2>3 DEF Comes, HoldsItsEdit
  <2> QED
    BY <1>1, <2>4, <2>6, <2>7, <2>8 DEF Comes
<1>2. ASSUME NEW c \in Writers, Enter(c) PROVE StoreIInv'
  <2> DEFINE cfg == Edited(calls[c].kind, ReadConfig, calls[c].n)
  <2>1. ReadConfig \in Configs /\ (file.state # "damaged" => ReadConfig = file.cfg)
    BY BlankType DEF ReadConfig, StoreTypeOK
  <2>2. calls[c] \in WriterCall /\ calls[c].kind \in WriterKinds /\ calls[c].n # 0 /\ calls[c].n \in 0 .. MaxWrites
    BY <1>2 DEF Enter, HoldsItsEdit, WriterCall
  <2>3. cfg \in Configs /\ (calls[c].kind = "identity" => cfg.hubId # 0)
    BY <2>1, <2>2, EditedType, EditedId
  <2> HIDE DEF cfg
  <2>4. calls'[c] = [calls[c] EXCEPT !.at = "holding", !.cfg = cfg]
    BY <1>2 DEF Enter, cfg
  <2>5. \A d \in Writers : d # c => calls'[d] = calls[d]
    BY <1>2 DEF Enter
  <2>6. calls'[c] \in WriterCall /\ calls'[c].at = "holding" /\ calls'[c].cfg = cfg
        /\ calls'[c].kind = calls[c].kind /\ calls'[c].n = calls[c].n
    BY <2>2, <2>3, <2>4 DEF WriterCall
  <2>7. calls' \in [Writers -> WriterCall]
    BY <1>2, <2>6 DEF Enter
  <2>8. StoreTypeOK' /\ NothingLost' /\ IdIsStable'
    BY <1>2, <2>7 DEF Enter, StoreTypeOK, NothingLost, IdIsStable, WriterCall
  <2>9. HoldsItsEdit(c)'
    BY <1>2, <2>1, <2>2, <2>3, <2>6 DEF Enter, HoldsItsEdit, cfg
  <2>10. \A d \in Writers : d # c => HoldsItsEdit(d)'
    BY <1>2, <2>5, StoreAssumption DEF Enter, HoldsItsEdit
  <2> QED
    BY <1>2, <2>7, <2>8, <2>9, <2>10 DEF Enter
\* A call that is done leaves the others, of which none holds the lock.
<1>3. ASSUME NEW c \in Writers, calls[c].at = "holding", Done(c)
      PROVE  /\ calls' \in [Writers -> WriterCall]
             /\ holder' \in Writers \union {NoCaller}
             /\ \A d \in Writers : HoldsItsEdit(d)'
  <2>1. Away \in WriterCall /\ Away.at = "away"
    BY BlankType, StoreAssumption DEF Away, WriterCall
  <2>2. calls' \in [Writers -> WriterCall] /\ calls'[c] = Away
    BY <1>3, <2>1 DEF Done
  <2>3. \A d \in Writers : d # c => calls'[d] = calls[d]
    BY <1>3 DEF Done
  <2>4. \A d \in Writers : calls'[d].at # "holding"
    BY <1>3, <2>1, <2>2, <2>3 DEF HoldsItsEdit
  <2>5. \A d \in Writers : HoldsItsEdit(d)'
    BY <1>3, <2>1, <2>2, <2>3, <2>4, StoreAssumption DEF Done, HoldsItsEdit
  <2> QED
    BY <1>3, <2>2, <2>5 DEF Done
<1>4. ASSUME NEW c \in Writers, calls[c].at = "holding"
      PROVE  /\ calls[c].kind \in WriterKinds /\ calls[c].n \in 0 .. MaxWrites /\ calls[c].cfg \in Configs
             /\ file.state # "damaged" => calls[c].cfg = Edited(calls[c].kind, file.cfg, calls[c].n)
  BY <1>4 DEF HoldsItsEdit, WriterCall
\* What replaces the file is the file with one call more.
<1>5. ASSUME NEW c \in Writers, calls[c].at = "holding", calls[c].kind # "clear", Writable,
             file' = WriteConfig(calls[c].cfg), answered' = Edited(calls[c].kind, answered, calls[c].n)
      PROVE  /\ file' \in [state: {"missing", "whole", "damaged"}, cfg: Configs] /\ file'.state # "missing"
             /\ answered' \in Configs /\ NothingLost'
             /\ told \in {0, file'.cfg.hubId}
             /\ file'.cfg = calls[c].cfg
  <2>1. file' = [state |-> "whole", cfg |-> calls[c].cfg] /\ file.state # "damaged"
    BY <1>5 DEF WriteConfig, Writable
  <2>2. calls[c].cfg = Edited(calls[c].kind, file.cfg, calls[c].n)
    BY <1>4, <1>5, <2>1
  <2>3. file.cfg \in Configs /\ file.cfg = answered
    BY DEF StoreTypeOK, NothingLost
  <2>4. file.cfg.hubId # 0 => calls[c].cfg.hubId = file.cfg.hubId
    BY <1>4, <1>5, <2>2, <2>3, EditedId
  <2> QED
    BY <1>4, <1>5, <2>1, <2>2, <2>3, <2>4 DEF NothingLost, IdIsStable
<1>6. ASSUME NEW c \in Writers, Unchanged(c) PROVE StoreIInv'
  <2>1. calls[c].at = "holding" /\ Done(c)
    BY <1>6 DEF Unchanged
  <2>2. calls[c].kind = "identity" => told' = file.cfg.hubId
    <3> SUFFICES ASSUME calls[c].kind = "identity" PROVE told' = file.cfg.hubId
      OBVIOUS
    <3>1. ReadConfig.hubId # 0
      BY <1>6, <2>1 DEF Unchanged, HoldsItsEdit
    <3>2. ReadConfig = file.cfg
      BY <3>1, BlankType DEF ReadConfig
    <3> QED
      BY <1>6, <3>2 DEF Unchanged, Gives
  <2>3. told' \in {0, file.cfg.hubId} /\ told' \in 0 .. MaxWrites
    BY <1>6, <2>2 DEF Unchanged, Gives, IdIsStable, StoreTypeOK, Configs, Fields
  <2>4. UNCHANGED <<file, made, mishaps, answered>>
    BY <1>6 DEF Unchanged
  <2>5. StoreTypeOK' /\ NothingLost' /\ IdIsStable'
    BY <1>3, <2>1, <2>3, <2>4 DEF StoreTypeOK, NothingLost, IdIsStable, WriterCall
  <2> QED
    BY <1>3, <2>1, <2>4, <2>5
<1>7. ASSUME NEW c \in Writers, Replace(c) PROVE StoreIInv'
  <2>1. calls[c].at = "holding" /\ Done(c) /\ UNCHANGED <<made, mishaps>>
    BY <1>7 DEF Replace
  <2>2. /\ file' \in [state: {"missing", "whole", "damaged"}, cfg: Configs] /\ file'.state # "missing"
        /\ answered' \in Configs /\ NothingLost'
        /\ told \in {0, file'.cfg.hubId} /\ file'.cfg = calls[c].cfg
    BY <1>5, <1>7 DEF Replace
  <2>3. told' \in {0, file'.cfg.hubId} /\ told' \in 0 .. MaxWrites
    BY <1>7, <2>2 DEF Replace, Gives, StoreTypeOK, Configs, Fields
  <2>4. StoreTypeOK' /\ IdIsStable'
    BY <1>3, <2>1, <2>2, <2>3 DEF StoreTypeOK, IdIsStable, WriterCall
  <2> QED
    BY <1>3, <2>1, <2>2, <2>4
<1>8. ASSUME NEW c \in Writers, Refused(c) PROVE StoreIInv'
  <2>1. calls[c].at = "holding" /\ Done(c) /\ UNCHANGED <<file, made, mishaps, answered, told>>
    BY <1>8 DEF Refused
  <2>2. StoreTypeOK' /\ NothingLost' /\ IdIsStable'
    BY <1>3, <2>1 DEF StoreTypeOK, NothingLost, IdIsStable, WriterCall
  <2> QED
    BY <1>3, <2>1, <2>2
<1>9. ASSUME NEW c \in Writers, Unlink(c) PROVE StoreIInv'
  <2>1. calls[c].at = "holding" /\ Done(c) /\ UNCHANGED <<made, mishaps>> /\ Removed
    BY <1>9 DEF Unlink
  <2>2. /\ file' \in [state: {"missing", "whole", "damaged"}, cfg: Configs] /\ file'.cfg = Blank
        /\ answered' = Blank /\ told' = 0 /\ answered' \in Configs
    BY <2>1, BlankType DEF Removed, NoFile
  <2>3. StoreTypeOK' /\ NothingLost' /\ IdIsStable'
    BY <1>3, <2>1, <2>2, StoreAssumption DEF StoreTypeOK, NothingLost, IdIsStable, WriterCall
  <2> QED
    BY <1>3, <2>1, <2>2, <2>3
<1>10. CASE PowerCut
  <2>1. calls' = [c \in Writers |-> Away] /\ holder' = NoCaller /\ made' = made /\ told' = told
    BY <1>10 DEF PowerCut
  <2>2. Away \in WriterCall /\ Away.at = "away"
    BY BlankType, StoreAssumption DEF Away, WriterCall
  <2>3. calls' \in [Writers -> WriterCall] /\ \A c \in Writers : calls'[c] = Away
    BY <2>1, <2>2
  <2>4. \A c \in Writers : HoldsItsEdit(c)'
    BY <2>1, <2>2, <2>3, StoreAssumption DEF HoldsItsEdit
  <2>5. mishaps' \in 0 .. MaxMishaps
    BY <1>10, StoreAssumption DEF PowerCut, Mishap, StoreTypeOK
  <2>6. CASE UNCHANGED <<file, answered>>
    <3>1. StoreTypeOK' /\ NothingLost' /\ IdIsStable'
      BY <2>1, <2>3, <2>5, <2>6 DEF StoreTypeOK, NothingLost, IdIsStable, WriterCall
    <3> QED
      BY <2>3, <2>4, <2>6, <3>1
  <2>7. CASE /\ holder # NoCaller /\ calls[holder].kind # "clear" /\ Writable
             /\ file' = WriteConfig(calls[holder].cfg)
             /\ answered' = Edited(calls[holder].kind, answered, calls[holder].n)
    <3>1. holder \in Writers /\ calls[holder].at = "holding"
      BY <2>7 DEF StoreTypeOK, HoldsItsEdit
    <3>2. /\ file' \in [state: {"missing", "whole", "damaged"}, cfg: Configs] /\ file'.state # "missing"
          /\ answered' \in Configs /\ NothingLost' /\ told \in {0, file'.cfg.hubId}
      BY <1>5, <2>7, <3>1
    <3>3. StoreTypeOK' /\ IdIsStable'
      BY <2>1, <2>3, <2>5, <3>2 DEF StoreTypeOK, IdIsStable, WriterCall
    <3> QED
      BY <2>3, <2>4, <3>2, <3>3
  <2> QED
    BY <1>10, <2>6, <2>7 DEF PowerCut
<1>11. CASE EditedByHand
  <2>1. file' \in [state: {"missing", "whole", "damaged"}, cfg: Configs] /\ file'.state = "damaged" /\ file'.cfg = file.cfg
    BY <1>11 DEF EditedByHand, StoreTypeOK
  <2>2. UNCHANGED <<holder, calls, made, answered, told>> /\ mishaps' \in 0 .. MaxMishaps
    BY <1>11, StoreAssumption DEF EditedByHand, Mishap, StoreTypeOK
  <2>3. StoreTypeOK' /\ NothingLost' /\ IdIsStable'
    BY <2>1, <2>2 DEF StoreTypeOK, NothingLost, IdIsStable
  <2>4. \A c \in Writers : HoldsItsEdit(c)'
    BY <2>1, <2>2 DEF HoldsItsEdit
  <2> QED
    BY <2>1, <2>2, <2>3, <2>4
<1>12. CASE RepairedByHand
  <2>1. file' \in [state: {"missing", "whole", "damaged"}, cfg: Configs] /\ file'.state = "whole" /\ file'.cfg = file.cfg
    BY <1>12 DEF RepairedByHand, StoreTypeOK
  <2>2. UNCHANGED <<holder, calls, made, mishaps, answered, told>> /\ holder = NoCaller
    BY <1>12 DEF RepairedByHand
  <2>3. StoreTypeOK' /\ NothingLost' /\ IdIsStable'
    BY <2>1, <2>2 DEF StoreTypeOK, NothingLost, IdIsStable
  <2>4. \A c \in Writers : HoldsItsEdit(c)'
    BY <2>1, <2>2, StoreAssumption DEF HoldsItsEdit
  <2> QED
    BY <2>1, <2>2, <2>3, <2>4
<1>13. CASE UNCHANGED storeVars
  <2>1. StoreTypeOK' /\ NothingLost' /\ IdIsStable'
    BY <1>13 DEF storeVars, StoreTypeOK, NothingLost, IdIsStable
  <2>2. \A c \in Writers : HoldsItsEdit(c)'
    BY <1>13 DEF storeVars, HoldsItsEdit
  <2> QED
    BY <1>13, <2>1, <2>2 DEF storeVars
<1>14. ASSUME NEW c \in Writers,
              \/ Identity(c) \/ Bootstrap(c) \/ Config(c) \/ Token(c) \/ GpsSource(c) \/ RouterEdit(c) \/ SensorEdit(c) \/ Clear(c)
              \/ MemberKeys(c) \/ LinktapReply(c) \/ Discovery(c)
       PROVE  \E kind \in WriterKinds : Comes(c, kind)
  BY <1>14 DEF Identity, Bootstrap, Config, Token, GpsSource, RouterEdit, SensorEdit, Clear,
               MemberKeys, LinktapReply, Discovery, WriterKinds
<1> HIDE DEF StoreIInv, StoreInv
<1> QED
  BY <1>1, <1>2, <1>6, <1>7, <1>8, <1>9, <1>10, <1>11, <1>12, <1>13, <1>14 DEF StoreNext

\* Whatever calls write hub.json, in whatever order, over power cuts and edits by hand: none undoes
\* another's fields, no part of a file is read as one, and the id that was told is the one on file.
THEOREM StoreLosesNothing == StoreSpec => []StoreInv
<1>1. StoreIInv => StoreInv
  BY DEF StoreIInv
<1> QED
  BY <1>1, StoreInitially, StoreStep, PTL DEF StoreSpec

-----------------------------------------------------------------------------
(* The web interface (WebApp) *)

Bundles == Versions \union {NoBundle}

\* The bundles on disk: none is a part of one, and what the marker names is there.
DiskIsWhole ==
    /\ \A v \in Versions : unpacked[v] # "partial"
    /\ marker # NoBundle => unpacked[marker] = "whole"

\* The refresh holds a version of its own, which is on disk by the time it is marked.
RefreshKnows ==
    /\ refresh \in [at: {"asleep", "fetch", "commit", "mark", "serve"}, version: Bundles]
    /\ refresh.at = "asleep" => refresh = AtRest
    /\ refresh.at # "asleep" => refresh.version # NoBundle
    /\ refresh.at \in {"mark", "serve"} => unpacked[refresh.version] = "whole"

\* What a call is about to serve is whole; as long as no call has met another or a refresh, the file,
\* the flag and the bundle follow it one after the other.
SwitchKnows(c) ==
    /\ switch[c].at = "none" => switch[c] = NoSwitch
    /\ switch[c].at # "web" => switch[c].version = NoBundle
    /\ switch[c].version # NoBundle => unpacked[switch[c].version] = "whole"
    /\ ~crossed /\ switch[c].at = "flag" => disabled = ~switch[c].on /\ (off => web = NoBundle)
    /\ ~crossed /\ switch[c].at = "web" => /\ disabled = ~switch[c].on /\ off = disabled
                                           /\ ~switch[c].on => switch[c].version = NoBundle

\* None has met another.
OneAtATime ==
    ~crossed =>
        /\ refresh # AtRest => ~Switching /\ ~off
        /\ \A c, d \in Owners : switch[c] # NoSwitch /\ switch[d] # NoSwitch => c = d

WebTyped ==
    /\ WebTypeOK
    /\ switch \in [Owners -> [at: {"none", "flag", "web"}, on: BOOLEAN, was: BOOLEAN, version: Bundles]]

WebIInv ==
    /\ WebTyped /\ DiskIsWhole /\ RefreshKnows
    /\ web # NoBundle => unpacked[web] = "whole"
    /\ \A c \in Owners : SwitchKnows(c)
    /\ OneAtATime /\ SwitchHolds

LEMMA NoSwitchType ==
    /\ NoSwitch \in [at: {"none", "flag", "web"}, on: BOOLEAN, was: BOOLEAN, version: Bundles]
    /\ NoSwitch.at = "none" /\ NoSwitch.version = NoBundle
BY DEF NoSwitch, Bundles

LEMMA WebInitially == WebInit => WebIInv
<1> SUFFICES ASSUME WebInit PROVE WebIInv
  OBVIOUS
<1>1. WebTyped
  <2>2. switch \in [Owners -> [at: {"none", "flag", "web"}, on: BOOLEAN, was: BOOLEAN, version: Bundles]]
    BY NoSwitchType DEF WebInit
  <2>3. unpacked \in [Versions -> Directory]
    BY DEF WebInit, Directory
  <2>4. release \in Versions /\ {marker, web} \subseteq Versions \union {NoBundle} /\ \A c \in Owners : switch[c].at = "none"
    BY WebAssumption, NoSwitchType DEF WebInit, Versions
  <2>5. refresh.at = "asleep"
    BY DEF WebInit, AtRest
  <2>6. switches \in 0 .. MaxSwitches /\ cuts \in 0 .. MaxCuts
    BY WebAssumption DEF WebInit
  <2>7. disabled \in BOOLEAN /\ off \in BOOLEAN /\ crossed \in BOOLEAN
    BY Zenon DEF WebInit
  <2> QED
    BY <2>2, <2>3, <2>4, <2>5, <2>6, <2>7 DEF WebTyped, WebTypeOK
<1> QED
  BY <1>1, WebAssumption
     DEF WebInit, WebIInv, DiskIsWhole, RefreshKnows, SwitchKnows, OneAtATime, SwitchHolds, Switching,
         NoSwitch, AtRest, Bundles, NoBundle

\* What a restart would load is all there.
LEMMA LoadCurrentIsWhole ==
    ASSUME WebTyped, DiskIsWhole
    PROVE  LoadCurrent \in Bundles /\ (LoadCurrent # NoBundle => unpacked[LoadCurrent] = "whole")
BY DEF WebTyped, WebTypeOK, DiskIsWhole, LoadCurrent, Bundles

\* A bundle is unpacked before it is marked, and marked before it is served.
LEMMA WebStep == WebIInv /\ [WebNext]_webVars => WebIInv'
<1> SUFFICES ASSUME WebIInv, [WebNext]_webVars PROVE WebIInv'
  OBVIOUS
<1>0. /\ WebTyped /\ DiskIsWhole /\ RefreshKnows /\ OneAtATime /\ SwitchHolds
      /\ web # NoBundle => unpacked[web] = "whole"
      /\ \A c \in Owners : SwitchKnows(c)
  BY DEF WebIInv
\* The refresh takes a step: the calls are as they were, and what was whole still is.
<1>1. ASSUME Refreshing, ~crossed /\ ~Switching => ~off, RefreshKnows', DiskIsWhole',
             marker' \in Bundles, web' \in Bundles, unpacked' \in [Versions -> Directory],
             \A v \in Versions : unpacked[v] = "whole" => unpacked'[v] = "whole",
             web' # NoBundle => unpacked'[web'] = "whole",
             refresh # AtRest \/ web' = web
      PROVE  WebIInv'
  <2>1. UNCHANGED <<release, disabled, off, switch, switches, cuts>> /\ crossed' = (crossed \/ Switching)
    BY <1>1 DEF Refreshing
  <2>2. Switching' = Switching
    BY <2>1 DEF Switching
  <2>3. WebTyped'
    <3>1. crossed' \in BOOLEAN
      BY <2>1, <1>0 DEF WebTyped, WebTypeOK
    <3>2. refresh'.at \in {"asleep", "fetch", "commit", "mark", "serve"}
      BY <1>1 DEF RefreshKnows
    <3> QED
      BY <1>0, <1>1, <2>1, <3>1, <3>2 DEF WebTyped, WebTypeOK, Bundles
  <2>4. ASSUME NEW c \in Owners PROVE SwitchKnows(c)'
    <3>1. switch[c].version \in Bundles
      BY <1>0 DEF WebTyped
    <3>2. ~crossed' => ~crossed /\ switch[c] = NoSwitch
      BY <2>1 DEF Switching
    <3> QED
      BY <1>0, <1>1, <2>1, <3>1, <3>2 DEF SwitchKnows, NoSwitch, Bundles
  <2>5. OneAtATime'
    BY <1>0, <1>1, <2>1, <2>2 DEF OneAtATime, Switching
  <2>6. SwitchHolds'
    BY <1>0, <1>1, <2>1, <2>2 DEF SwitchHolds
  <2> QED
    BY <1>1, <2>3, <2>4, <2>5, <2>6 DEF WebIInv
<1>2. refresh # AtRest => (~crossed /\ ~Switching => ~off)
  BY <1>0 DEF OneAtATime
<1>3. marker \in Bundles /\ web \in Bundles /\ unpacked \in [Versions -> Directory] /\ release \in Versions
  BY <1>0 DEF WebTyped, WebTypeOK, Bundles
<1>4. AtRest \in [at: {"asleep", "fetch", "commit", "mark", "serve"}, version: Bundles] /\ AtRest.at = "asleep"
  BY DEF AtRest, Bundles
<1>5. CASE AskManifest
  <2>1. refresh' = [at |-> IF unpacked[release] = "none" THEN "fetch" ELSE "mark", version |-> release]
        /\ Refreshing /\ UNCHANGED <<unpacked, marker, web>> /\ ~off
    BY <1>5 DEF AskManifest
  <2>2. release # NoBundle /\ release \in Bundles
    BY <1>3, WebAssumption DEF Versions, NoBundle, Bundles
  <2>3. refresh'.at = "mark" => unpacked'[refresh'.version] = "whole"
    BY <1>0, <1>3, <2>1 DEF DiskIsWhole, Directory
  <2>4. RefreshKnows'
    BY <2>1, <2>2, <2>3 DEF RefreshKnows
  <2> QED
    BY <1>0, <1>1, <1>3, <2>1, <2>4 DEF DiskIsWhole
<1>6. CASE FetchBundle
  <2>1. refresh.at = "fetch" /\ Refreshing /\ UNCHANGED <<marker, web, unpacked>> /\ refresh # AtRest
        /\ (refresh' = AtRest \/ refresh' = [refresh EXCEPT !.at = "commit"])
    BY <1>4, <1>6 DEF FetchBundle, Unpacking
  <2>2. RefreshKnows'
    BY <1>0, <1>4, <2>1 DEF RefreshKnows
  <2> QED
    BY <1>0, <1>1, <1>2, <1>3, <2>1, <2>2 DEF DiskIsWhole
<1>7. CASE CommitBundle
  <2>1. refresh.at = "commit" /\ Refreshing /\ UNCHANGED <<marker, web>> /\ refresh # AtRest
    BY <1>4, <1>7 DEF CommitBundle
  <2>2. refresh.version \in Versions
    BY <1>0, <2>1 DEF RefreshKnows, Bundles
  <2>3. \/ refresh' = AtRest /\ unpacked' = unpacked
        \/ refresh' = [refresh EXCEPT !.at = "mark"] /\ unpacked' = [unpacked EXCEPT ![refresh.version] = "whole"]
    BY <1>7 DEF CommitBundle
  <2>4. /\ unpacked' \in [Versions -> Directory]
        /\ \A v \in Versions : unpacked[v] = "whole" => unpacked'[v] = "whole"
    BY <1>3, <2>2, <2>3 DEF Directory
  <2>5. RefreshKnows'
    BY <1>0, <1>3, <1>4, <2>1, <2>2, <2>3 DEF RefreshKnows
  <2>6. DiskIsWhole'
    BY <1>0, <1>3, <2>1, <2>2, <2>3 DEF DiskIsWhole, Bundles
  <2>7. web' # NoBundle => unpacked'[web'] = "whole"
    BY <1>0, <1>3, <2>1, <2>4 DEF Bundles
  <2> QED
    BY <1>1, <1>2, <1>3, <2>1, <2>4, <2>5, <2>6, <2>7
<1>8. CASE Mark
  <2>1. refresh.at = "mark" /\ Refreshing /\ UNCHANGED <<unpacked, web>> /\ refresh # AtRest
        /\ (\/ refresh' = AtRest /\ marker' = marker
            \/ refresh' = [refresh EXCEPT !.at = "serve"] /\ marker' = refresh.version)
    BY <1>4, <1>8 DEF Mark
  <2>2. RefreshKnows'
    BY <1>0, <1>4, <2>1 DEF RefreshKnows
  <2>3. marker' \in Bundles /\ DiskIsWhole'
    BY <1>0, <1>3, <2>1 DEF RefreshKnows, DiskIsWhole
  <2> QED
    BY <1>0, <1>1, <1>2, <1>3, <2>1, <2>2, <2>3
<1>9. CASE ServeNew
  <2>1. refresh.at = "serve" /\ Refreshing /\ UNCHANGED <<unpacked, marker>> /\ refresh # AtRest
        /\ refresh' = AtRest /\ web' = refresh.version
    BY <1>4, <1>9 DEF ServeNew
  <2>2. RefreshKnows'
    BY <1>4, <2>1 DEF RefreshKnows
  <2>3. web' \in Bundles /\ (web' # NoBundle => unpacked'[web'] = "whole") /\ DiskIsWhole'
    BY <1>0, <2>1 DEF RefreshKnows, DiskIsWhole
  <2> QED
    BY <1>1, <1>2, <1>3, <2>1, <2>2, <2>3
<1>10. CASE AppRelease
  <2>1. UNCHANGED <<unpacked, marker, disabled, off, web, refresh, switch, switches, cuts, crossed>> /\ release' \in Versions
    BY <1>3, <1>10, WebAssumption DEF AppRelease, Versions
  <2>2. WebTyped'
    BY <1>0, <2>1 DEF WebTyped, WebTypeOK
  <2> QED
    BY <1>0, <2>1, <2>2 DEF WebIInv, DiskIsWhole, RefreshKnows, SwitchKnows, OneAtATime, SwitchHolds, Switching
<1>11. CASE WebRestart
  <2>1. /\ off' = disabled /\ web' = IF disabled THEN NoBundle ELSE LoadCurrent
        /\ refresh' = AtRest /\ switch' = [c \in Owners |-> NoSwitch] /\ crossed' = FALSE
        /\ UNCHANGED <<release, unpacked, marker, disabled, switches>>
    BY <1>11 DEF WebRestart
  <2>2. web' \in Bundles /\ (web' # NoBundle => unpacked'[web'] = "whole")
    BY <1>0, <2>1, LoadCurrentIsWhole DEF Bundles
  <2>3. NoSwitch \in [at: {"none", "flag", "web"}, on: BOOLEAN, was: BOOLEAN, version: Bundles]
        /\ NoSwitch.at = "none" /\ NoSwitch.version = NoBundle
    BY DEF NoSwitch, Bundles
  <2>4. cuts' \in 0 .. MaxCuts
    BY <1>0, <1>11, WebAssumption DEF WebRestart, WebTyped, WebTypeOK
  <2>5. switch' \in [Owners -> [at: {"none", "flag", "web"}, on: BOOLEAN, was: BOOLEAN, version: Bundles]]
        /\ \A c \in Owners : switch'[c] = NoSwitch
    BY <2>1, <2>3
  <2>6. WebTypeOK'
    BY <1>0, <1>3, <1>4, <2>1, <2>2, <2>3, <2>4, <2>5 DEF WebTyped, WebTypeOK, Bundles
  <2>7. DiskIsWhole' /\ RefreshKnows'
    BY <1>0, <1>4, <2>1 DEF DiskIsWhole, RefreshKnows
  <2>8. \A c \in Owners : SwitchKnows(c)'
    BY <2>3, <2>5 DEF SwitchKnows
  <2>9. OneAtATime' /\ SwitchHolds'
    BY <2>1, <2>5 DEF OneAtATime, SwitchHolds
  <2> QED
    BY <2>2, <2>5, <2>6, <2>7, <2>8, <2>9 DEF WebIInv, WebTyped
\* A call takes a step: the disk and the refresh are as they were.
<1>12. ASSUME NEW c \in Owners, UNCHANGED <<release, unpacked, marker, refresh, cuts>>,
              disabled' \in BOOLEAN, off' \in BOOLEAN, crossed' \in BOOLEAN, web' \in Bundles, switches' \in 0 .. MaxSwitches,
              web' # NoBundle => unpacked[web'] = "whole",
              NEW mine \in [at: {"none", "flag", "web"}, on: BOOLEAN, was: BOOLEAN, version: Bundles],
              switch' = [switch EXCEPT ![c] = mine],
              SwitchKnows(c)',
              ~crossed' => ~crossed /\ (\A d \in Owners : d # c => switch[d] = NoSwitch) /\ refresh = AtRest,
              ~crossed' /\ mine = NoSwitch => off' = disabled' /\ (off' => web' = NoBundle)
       PROVE  WebIInv'
  <2>1. switch' \in [Owners -> [at: {"none", "flag", "web"}, on: BOOLEAN, was: BOOLEAN, version: Bundles]]
        /\ switch'[c] = mine /\ \A d \in Owners : d # c => switch'[d] = switch[d]
    BY <1>0, <1>12 DEF WebTyped
  <2>2. WebTypeOK'
    BY <1>0, <1>3, <1>12, <2>1 DEF WebTyped, WebTypeOK, Bundles
  <2>3. DiskIsWhole' /\ RefreshKnows' /\ (web' # NoBundle => unpacked'[web'] = "whole")
    BY <1>0, <1>12 DEF DiskIsWhole, RefreshKnows
  <2>4. ASSUME NEW d \in Owners, d # c PROVE SwitchKnows(d)'
    <3>1. ~crossed' => switch'[d].at = "none"
      BY <1>12, <2>1, <2>4 DEF NoSwitch
    <3>2. SwitchKnows(d) /\ switch'[d] = switch[d] /\ unpacked' = unpacked
      BY <1>0, <1>12, <2>1, <2>4
    <3> QED
      BY <3>1, <3>2 DEF SwitchKnows
  <2>5. OneAtATime'
    BY <1>12, <2>1 DEF OneAtATime
  <2>6. SwitchHolds'
    BY <1>12, <2>1 DEF SwitchHolds, Switching
  <2> QED
    BY <1>12, <2>1, <2>2, <2>3, <2>4, <2>5, <2>6 DEF WebIInv, WebTyped
<1>13. ASSUME NEW c \in Owners, SetSwitch(c) PROVE WebIInv'
  <2>1. PICK on \in BOOLEAN : disabled' = ~on /\ switch' = [switch EXCEPT ![c] = [NoSwitch EXCEPT !.at = "flag", !.on = on]]
    BY <1>13 DEF SetSwitch
  <2> DEFINE mine == [NoSwitch EXCEPT !.at = "flag", !.on = on]
  <2>2. switch' = [switch EXCEPT ![c] = mine]
    BY <2>1
  <2>3. /\ mine \in [at: {"none", "flag", "web"}, on: BOOLEAN, was: BOOLEAN, version: Bundles]
        /\ mine.at = "flag" /\ mine.on = on /\ mine.version = NoBundle
    BY NoSwitchType
  <2> HIDE DEF mine
  <2>4. /\ UNCHANGED <<release, unpacked, marker, off, web, refresh, cuts>>
        /\ crossed' = (crossed \/ Switching \/ refresh # AtRest)
        /\ switches' \in 0 .. MaxSwitches
    BY <1>0, <1>13, WebAssumption DEF SetSwitch, WebTyped, WebTypeOK
  <2>5. ~crossed' => ~crossed /\ ~Switching /\ refresh = AtRest
    BY <2>4
  <2>6. ~crossed' => (\A d \in Owners : switch[d] = NoSwitch) /\ (off => web = NoBundle)
    BY <1>0, <2>5 DEF Switching, SwitchHolds
  <2>7. switch'[c] = mine
    BY <1>0, <2>2 DEF WebTyped
  <2>8. SwitchKnows(c)'
    <3>1. switch'[c].at = "flag" /\ switch'[c].on = on /\ switch'[c].version = NoBundle
      BY <2>3, <2>7
    <3> QED
      BY <2>1, <2>4, <2>6, <3>1 DEF SwitchKnows
  <2>9. disabled' \in BOOLEAN /\ off' \in BOOLEAN /\ crossed' \in BOOLEAN
    BY <1>0, <2>1, <2>4 DEF WebTyped, WebTypeOK
  <2>10. mine # NoSwitch
    BY <2>3, NoSwitchType
  <2> QED
    BY <1>0, <1>3, <1>12, <2>2, <2>3, <2>4, <2>5, <2>6, <2>8, <2>9, <2>10
\* Nobody else is at it, unless crossed.
<1>14. ASSUME NEW c \in Owners, switch[c].at # "none", ~crossed
       PROVE  (\A d \in Owners : d # c => switch[d] = NoSwitch) /\ refresh = AtRest
  <2>1. switch[c] # NoSwitch
    BY <1>14 DEF NoSwitch
  <2> QED
    BY <1>0, <1>14, <2>1 DEF OneAtATime, Switching
<1>15. ASSUME NEW c \in Owners, SwapFlag(c) PROVE WebIInv'
  <2> DEFINE mine == [switch[c] EXCEPT !.at = "web", !.was = off, !.version = IF switch[c].on THEN LoadCurrent ELSE NoBundle]
  <2>1. /\ switch[c].at = "flag" /\ off' = ~switch[c].on
        /\ switch' = [switch EXCEPT ![c] = mine]
        /\ UNCHANGED <<release, unpacked, marker, disabled, web, refresh, switches, cuts, crossed>>
    BY <1>15 DEF SwapFlag, Flag
  <2>2. /\ switch[c] \in [at: {"none", "flag", "web"}, on: BOOLEAN, was: BOOLEAN, version: Bundles]
        /\ off \in BOOLEAN /\ disabled \in BOOLEAN /\ crossed \in BOOLEAN /\ switches \in 0 .. MaxSwitches
    BY <1>0 DEF WebTyped, WebTypeOK
  <2>3. LoadCurrent \in Bundles /\ (LoadCurrent # NoBundle => unpacked[LoadCurrent] = "whole") /\ NoBundle \in Bundles
    BY <1>0, LoadCurrentIsWhole DEF Bundles
  <2>4. /\ mine \in [at: {"none", "flag", "web"}, on: BOOLEAN, was: BOOLEAN, version: Bundles]
        /\ mine.at = "web" /\ mine.on = switch[c].on
        /\ mine.version # NoBundle => unpacked[mine.version] = "whole"
        /\ ~mine.on => mine.version = NoBundle
    BY <2>2, <2>3
  <2> HIDE DEF mine
  <2>5. switch'[c] = mine
    BY <1>0, <2>1 DEF WebTyped
  <2>6. ~crossed => disabled = ~switch[c].on
    BY <1>0, <2>1 DEF SwitchKnows
  <2>7. SwitchKnows(c)'
    BY <2>1, <2>4, <2>5, <2>6 DEF SwitchKnows
  <2>8. mine # NoSwitch
    BY <2>4 DEF NoSwitch
  <2>9. off' \in BOOLEAN
    BY <2>1
  <2> QED
    BY <1>0, <1>3, <1>12, <1>14, <2>1, <2>2, <2>4, <2>7, <2>8, <2>9
<1>16. ASSUME NEW c \in Owners, SwapWeb(c) PROVE WebIInv'
  <2>1. /\ switch[c].at = "web" /\ web' = IF ~switch[c].on \/ switch[c].was THEN switch[c].version ELSE web
        /\ switch' = [switch EXCEPT ![c] = NoSwitch]
        /\ UNCHANGED <<release, unpacked, marker, disabled, off, refresh, switches, cuts, crossed>>
    BY <1>16 DEF SwapWeb
  <2>2. /\ switch[c] \in [at: {"none", "flag", "web"}, on: BOOLEAN, was: BOOLEAN, version: Bundles]
        /\ off \in BOOLEAN /\ disabled \in BOOLEAN /\ crossed \in BOOLEAN /\ switches \in 0 .. MaxSwitches
    BY <1>0 DEF WebTyped, WebTypeOK
  <2>3. NoSwitch \in [at: {"none", "flag", "web"}, on: BOOLEAN, was: BOOLEAN, version: Bundles]
        /\ NoSwitch.at = "none" /\ NoSwitch.version = NoBundle
    BY DEF NoSwitch, Bundles
  <2>4. web' \in Bundles /\ (web' # NoBundle => unpacked[web'] = "whole")
    BY <1>0, <1>3, <2>1, <2>2 DEF SwitchKnows
  <2>5. switch'[c] = NoSwitch
    BY <1>0, <2>1 DEF WebTyped
  <2>6. SwitchKnows(c)'
    BY <2>3, <2>5 DEF SwitchKnows
  <2>7. ~crossed => off = disabled /\ (off => web' = NoBundle)
    BY <1>0, <2>1, <2>2 DEF SwitchKnows
  <2> QED
    BY <1>0, <1>3, <1>12, <1>14, <2>1, <2>2, <2>3, <2>4, <2>6, <2>7
<1>17. CASE UNCHANGED webVars
  <2>1. WebTyped'
    BY <1>0, <1>17 DEF webVars, WebTyped, WebTypeOK
  <2> QED
    BY <1>0, <1>17, <2>1
       DEF webVars, WebIInv, DiskIsWhole, RefreshKnows, SwitchKnows, OneAtATime, SwitchHolds, Switching
<1> HIDE DEF WebIInv
<1> QED
  BY <1>5, <1>6, <1>7, <1>8, <1>9, <1>10, <1>11, <1>13, <1>15, <1>16, <1>17 DEF WebNext

\* For every number of versions, calls and power cuts: what is served of the web app is whole, and it is
\* off when the owner has turned it off.
THEOREM WebAppHolds == WebSpec => []WebInv
<1>1. WebIInv => WebInv
  <2> SUFFICES ASSUME WebIInv PROVE WebInv
    OBVIOUS
  <2>1. WebTypeOK /\ SwitchHolds /\ (web # NoBundle => unpacked[web] = "whole")
    BY DEF WebIInv, WebTyped
  <2>2. LoadCurrent # NoBundle => unpacked[LoadCurrent] = "whole"
    BY LoadCurrentIsWhole DEF WebIInv
  <2> QED
    BY <2>1, <2>2 DEF WebInv, ServedIsWhole
<1> QED
  BY <1>1, WebInitially, WebStep, PTL DEF WebSpec

-----------------------------------------------------------------------------
(* The router registry (RouterRegistry) *)

\* Where a call of each kind can be.
Phase(kind) ==
    CASE kind = "none" -> {"idle"}
      [] kind = "add" -> {"probe", "gps", "store", "note"}
      [] kind = "remove" -> {"store", "note"}
      [] kind = "poll" -> {"read", "note"}
      [] kind = "apn" -> {"apn", "note"}
      [] kind = "gps" -> {"gps", "note", "switch", "store"}
      [] kind = "password" -> {"probe", "store"}

\* What a call knows of the router is so: the password it has proved, unless the router changed its own,
\* and that the router has no GPS, unless it has got one.
CallKnows(c) ==
    /\ call[c].at \in Phase(call[c].kind)
    /\ call[c].at = "idle" => call[c] = NoCall
    /\ call[c].kind \in {"add", "password"} /\ call[c].at \in {"gps", "store"} /\ ~call[c].rekeyed =>
          Accepts(device, call[c].slot.cred)
    /\ ~gained /\ call[c].word = "no" => device.gps = "none"

RegistryIInv == RegistryInv /\ \A c \in LanCalls : CallKnows(c)

-----------------------------------------------------------------------------
(* What the drivers may answer *)

\* A request that is answered was signed in with a credential the device accepts.
LEMMA RequestAnswers ==
    ASSUME NEW d \in Device, NEW key, NEW answer, NEW c \in Request(d, key, answer)
    PROVE  /\ c \in {"failed", "refused", answer}
           /\ answer \notin {"failed", "refused"} /\ c = answer => Accepts(d, key)
<1>1. CASE d.vendor = "cradlepoint"
  BY <1>1 DEF Request, NcosCall
<1>2. CASE d.vendor = "peplink"
  BY <1>2 DEF Request, PeplinkCall, SignedIn
<1>3. CASE d.vendor = "starlink"
  BY <1>3 DEF Request, DishCall, Accepts, NeedsPassword
<1> QED
  BY <1>1, <1>2, <1>3 DEF Device, Vendors

\* A proof is the router's own acceptance of the password.
LEMMA ProbeProves ==
    ASSUME NEW d \in Device, NEW key, NEW proved \in Probe(d, key)
    PROVE  proved \in BOOLEAN /\ (proved => Accepts(d, key))
<1> SUFFICES ASSUME NEW c \in Request(d, key, "ok"), c = "ok" PROVE Accepts(d, key)
  BY DEF Probe
<1> QED
  BY RequestAnswers

\* "Never `no`" of a device that has GPS, whatever fails on the way.
LEMMA GpsWord ==
    ASSUME NEW d \in Device, NEW key, NEW word \in Gps(d, key)
    PROVE  word \in Words /\ (word = "no" => d.gps = "none")
<1>1. CASE d.vendor = "cradlepoint"
  BY <1>1 DEF Gps, NcosSupport, Words
<1>2. CASE d.vendor = "peplink"
  <2>1. \A c : PeplinkSupport(d, c) \in Words /\ (PeplinkSupport(d, c) = "no" => c = "fail")
    BY DEF PeplinkSupport, Words
  <2>2. \A c \in Request(d, key, "ok") : c # "fail"
    BY RequestAnswers
  <2>3. ASSUME NEW c \in Request(d, key, Or(d, "fail")), c = "fail" PROVE d.gps = "none"
    BY <2>3, RequestAnswers DEF Or
  <2> QED
    BY <1>2, <2>1, <2>2, <2>3 DEF Gps
<1>3. CASE d.vendor = "starlink"
  <2>1. \A c : DishSupport(c) \in Words /\ (DishSupport(c) = "no" => c = "denied")
    BY DEF DishSupport, Words
  <2>2. ASSUME NEW c \in Request(d, key, Or(d, "denied")), c = "denied" PROVE d.gps = "none"
    BY <2>2, RequestAnswers DEF Or
  <2> QED
    BY <1>3, <2>1, <2>2 DEF Gps
<1> QED
  BY <1>1, <1>2, <1>3 DEF Device, Vendors

\* The name is written first: no write of set_apn leaves a manual APN without one.
LEMMA ApnStaysNamed ==
    ASSUME NEW d \in Device, d.apn.manual => d.apn.named, NEW key, NEW manual \in BOOLEAN,
           NEW wrote \in SetApn(d, key, manual)
    PROVE  /\ wrote.apn \in [manual: BOOLEAN, named: BOOLEAN] /\ wrote.ok \in BOOLEAN
           /\ wrote.apn.manual => wrote.apn.named
<1>1. d.apn \in [manual: BOOLEAN, named: BOOLEAN]
  BY DEF Device
<1>2. CASE ~Accepts(d, key)
  <2>1. wrote = [apn |-> d.apn, ok |-> FALSE]
    BY <1>2 DEF SetApn
  <2> QED
    BY <1>1, <2>1
<1>3. CASE Accepts(d, key) /\ manual
  <2> DEFINE first == [d.apn EXCEPT !.named = TRUE]
             second == [manual |-> TRUE, named |-> TRUE]
  <2>1. first \in [manual: BOOLEAN, named: BOOLEAN] /\ first.named
    BY <1>1
  <2>2. second \in [manual: BOOLEAN, named: BOOLEAN] /\ second.named
    OBVIOUS
  <2>3. NameFirst(d.apn)[1] = first /\ NameFirst(d.apn)[2] = second
    BY DEF NameFirst
  <2> HIDE DEF first, second
  <2>4. wrote \in [apn: {d.apn, first, second}, ok: {FALSE}] \union [apn: {second}, ok: {TRUE}]
    BY <1>3, <2>3 DEF SetApn
  <2>5. wrote.apn \in {d.apn, first, second} /\ wrote.ok \in BOOLEAN
    BY <2>4
  <2> QED
    BY <1>1, <2>1, <2>2, <2>5
<1>4. CASE Accepts(d, key) /\ ~manual
  <2>1. Automatic(d.apn) \in [manual: BOOLEAN, named: BOOLEAN] /\ ~Automatic(d.apn).manual
    <3>1. Automatic(d.apn) = [d.apn EXCEPT !.manual = FALSE]
      BY DEF Automatic
    <3> QED
      BY <1>1, <3>1
  <2>2. SetApn(d, key, manual) = [apn: {d.apn, Automatic(d.apn), Automatic(d.apn)}, ok: {FALSE}] \union [apn: {Automatic(d.apn)}, ok: {TRUE}]
    BY <1>4 DEF SetApn
  <2>3. wrote.apn \in {d.apn, Automatic(d.apn)} /\ wrote.ok \in BOOLEAN
    BY <2>2
  <2> QED
    BY <1>1, <2>1, <2>3
<1> QED
  BY <1>2, <1>3, <1>4

-----------------------------------------------------------------------------

LEMMA NoCallType == NoCall \in Calls /\ NoCall.at = "idle" /\ NoCall.kind = "none" /\ NoCall.word = "absent" /\ ~NoCall.rekeyed /\ NoSlot \in Slots
BY DEF NoCall, Calls, NoSlot, Slots, Steps, Kinds

LEMMA RegistryInitially == RegistryInit => RegistryIInv
<1> SUFFICES ASSUME RegistryInit PROVE RegistryIInv
  OBVIOUS
<1>1. device \in Device /\ (device.apn.manual => device.apn.named)
  BY RegistryAssumption DEF RegistryInit
<1>2. used \in [calls: 0..MaxCalls, changes: 0..MaxChanges]
  BY RegistryAssumption DEF RegistryInit
<1>3. call \in [LanCalls -> Calls] /\ \A c \in LanCalls : call[c] = NoCall
  BY NoCallType DEF RegistryInit
<1>4. RegistryInv
  BY <1>1, <1>2, <1>3, NoCallType DEF RegistryInit, RegistryInv, RegistryTypeOK, NoMeansNo, ManualIsNamed
<1>5. \A c \in LanCalls : CallKnows(c)
  BY <1>3, NoCallType DEF CallKnows, Phase
<1> QED
  BY <1>4, <1>5 DEF RegistryIInv

\* One call goes on, or ends, and the router stays as it is: the others know what they knew.
LEMMA OneCallGoesOn ==
    ASSUME RegistryIInv, NEW c \in LanCalls, NEW next \in Calls, call' = [call EXCEPT ![c] = next],
           slot' \in Slots, snap' \in Words \union {"absent"}, used' \in [calls: 0..MaxCalls, changes: 0..MaxChanges],
           device' \in Device, device'.vendor = device.vendor, device'.cred = device.cred, device'.gps = device.gps,
           gained' = gained, ManualIsNamed', NoMeansNo',
           next = NoCall \/ (next.at # "idle" /\ CallKnows(c)')
    PROVE  RegistryIInv'
<1>1. call' \in [LanCalls -> Calls] /\ call'[c] = next /\ \A d \in LanCalls : d # c => call'[d] = call[d]
  BY DEF RegistryIInv, RegistryInv, RegistryTypeOK
<1>2. RegistryTypeOK'
  BY <1>1 DEF RegistryIInv, RegistryInv, RegistryTypeOK
<1>3. \A cred : Accepts(device', cred) <=> Accepts(device, cred)
  BY DEF Accepts
<1>4. ASSUME NEW d \in LanCalls, d # c PROVE CallKnows(d)'
  <2>1. CallKnows(d) /\ call'[d] = call[d]
    BY <1>1, <1>4 DEF RegistryIInv
  <2> QED
    BY <1>3, <2>1 DEF CallKnows
<1>5. CallKnows(c)'
  BY <1>1, NoCallType DEF CallKnows, Phase
<1> QED
  BY <1>2, <1>4, <1>5 DEF RegistryIInv, RegistryInv

\* No call writes a password that the router refused while the call proved it.
LEMMA RegistryStep == RegistryIInv /\ [RegistryNext]_registryVars => RegistryIInv'
<1> SUFFICES ASSUME RegistryIInv, [RegistryNext]_registryVars PROVE RegistryIInv'
  OBVIOUS
<1>0. /\ slot \in Slots /\ snap \in Words \union {"absent"} /\ device \in Device
      /\ call \in [LanCalls -> Calls] /\ gained \in BOOLEAN
      /\ used \in [calls: 0..MaxCalls, changes: 0..MaxChanges]
      /\ NoMeansNo /\ ManualIsNamed /\ \A c \in LanCalls : CallKnows(c)
  BY DEF RegistryIInv, RegistryInv, RegistryTypeOK
\* A call starts.
<1>1. ASSUME NEW c \in LanCalls, NEW kind \in Kinds \ {"none"}, NEW at \in Phase(kind) \ {"idle"}, at \in Steps,
             NEW copy \in Slots, NEW on \in BOOLEAN, Starts(c, kind, at, copy, on),
             kind \in {"add", "password"} => at = "probe"
      PROVE  RegistryIInv'
  <2> DEFINE next == [NoCall EXCEPT !.at = at, !.kind = kind, !.slot = copy, !.on = on, !.word = snap]
  <2>1. call' = [call EXCEPT ![c] = next] /\ UNCHANGED <<slot, snap, device, gained>>
    BY <1>1 DEF Starts
  <2>2. /\ next \in Calls /\ next.at = at /\ next.kind = kind /\ next.slot = copy /\ next.word = snap
        /\ ~next.rekeyed
    BY <1>0, <1>1, NoCallType DEF Calls
  <2> HIDE DEF next
  <2>3. used' \in [calls: 0..MaxCalls, changes: 0..MaxChanges]
    BY <1>0, <1>1, RegistryAssumption DEF Starts
  <2>4. call'[c] = next
    BY <1>0, <2>1
  <2>5. CallKnows(c)'
    BY <1>0, <1>1, <2>1, <2>2, <2>4 DEF CallKnows, NoMeansNo
  <2>6. NoMeansNo' /\ ManualIsNamed'
    BY <1>0, <2>1 DEF NoMeansNo, ManualIsNamed
  <2>7. next.at # "idle"
    BY <1>1, <2>2
  <2> QED
    BY <1>0, <2>1, <2>2, <2>3, <2>5, <2>6, <2>7, OneCallGoesOn
<1>2. ASSUME NEW c \in LanCalls,
             Add(c) \/ Remove(c) \/ Poll(c) \/ Apn(c) \/ SwitchGps(c) \/ ChangePassword(c)
      PROVE  RegistryIInv'
  <2>1. ASSUME Add(c) PROVE RegistryIInv'
    <3>1. PICK given \in Passwords \union {NoPassword}, wish \in {"on", "off", "kept"} :
             Starts(c, "add", "probe",
                    [managed |-> TRUE,
                     cred |-> IF NeedsPassword(device.vendor) THEN (IF given = NoPassword THEN slot.cred ELSE given)
                              ELSE NoPassword,
                     gps |-> IF wish = "kept" THEN slot.gps ELSE wish = "on"], wish = "on")
      BY <2>1 DEF Add
    <3> DEFINE copy == [managed |-> TRUE,
                        cred |-> IF NeedsPassword(device.vendor) THEN (IF given = NoPassword THEN slot.cred ELSE given)
                                 ELSE NoPassword,
                        gps |-> IF wish = "kept" THEN slot.gps ELSE wish = "on"]
    <3>2. copy \in Slots
      BY <1>0 DEF Slots
    <3>3. (wish = "on") \in BOOLEAN
      OBVIOUS
    <3>4. Starts(c, "add", "probe", copy, wish = "on")
      BY <3>1
    <3>5. "probe" \in Phase("add") \ {"idle"} /\ "probe" \in Steps /\ "add" \in Kinds \ {"none"}
      BY DEF Phase, Steps, Kinds
    <3> HIDE DEF copy
    <3> QED
      BY <1>1, <3>2, <3>3, <3>4, <3>5
  <2>2. ASSUME Remove(c) PROVE RegistryIInv'
    <3>1. "store" \in Phase("remove") \ {"idle"} /\ "store" \in Steps /\ "remove" \in Kinds \ {"none"}
      BY DEF Phase, Steps, Kinds
    <3> QED
      BY <1>1, <2>2, <3>1, NoCallType DEF Remove
  <2>3. ASSUME Poll(c) PROVE RegistryIInv'
    <3>1. "read" \in Phase("poll") \ {"idle"} /\ "read" \in Steps /\ "poll" \in Kinds \ {"none"}
      BY DEF Phase, Steps, Kinds
    <3> QED
      BY <1>0, <1>1, <2>3, <3>1 DEF Poll
  <2>4. ASSUME Apn(c) PROVE RegistryIInv'
    <3>1. "apn" \in Phase("apn") \ {"idle"} /\ "apn" \in Steps /\ "apn" \in Kinds \ {"none"}
      BY DEF Phase, Steps, Kinds
    <3> QED
      BY <1>0, <1>1, <2>4, <3>1 DEF Apn
  <2>5. ASSUME SwitchGps(c) PROVE RegistryIInv'
    <3>1. {"gps", "switch"} \subseteq Phase("gps") \ {"idle"} /\ {"gps", "switch"} \subseteq Steps /\ "gps" \in Kinds \ {"none"}
      BY DEF Phase, Steps, Kinds
    <3>2. PICK on \in BOOLEAN : Starts(c, "gps", IF on THEN "gps" ELSE "switch", slot, on)
      BY <2>5 DEF SwitchGps
    <3>3. (IF on THEN "gps" ELSE "switch") \in {"gps", "switch"}
      OBVIOUS
    <3> QED
      BY <1>0, <1>1, <3>1, <3>2, <3>3
  <2>6. ASSUME ChangePassword(c) PROVE RegistryIInv'
    <3>1. "probe" \in Phase("password") \ {"idle"} /\ "probe" \in Steps /\ "password" \in Kinds \ {"none"}
      BY DEF Phase, Steps, Kinds
    <3>2. PICK new \in Passwords : Starts(c, "password", "probe", [slot EXCEPT !.cred = new], FALSE)
      BY <2>6 DEF ChangePassword
    <3>3. [slot EXCEPT !.cred = new] \in Slots
      BY <1>0 DEF Slots
    <3> QED
      BY <1>1, <3>1, <3>2, <3>3
  <2> QED
    BY <1>2, <2>1, <2>2, <2>3, <2>4, <2>5, <2>6
\* A call that only asks, and ends or goes on.
<1>3. ASSUME NEW c \in LanCalls, call[c].at # "idle", Asks, UNCHANGED device, Ends(c)
      PROVE  RegistryIInv'
  <2>1. NoMeansNo' /\ ManualIsNamed'
    BY <1>0, <1>3 DEF Asks, NoMeansNo, ManualIsNamed
  <2> QED
    BY <1>0, <1>3, <2>1, NoCallType, OneCallGoesOn DEF Asks, Ends
<1>4. ASSUME NEW c \in LanCalls, NEW at \in Steps \ {"idle"}, NEW word \in Words \union {"absent"},
             at \in Phase(call[c].kind),
             call[c].at # "idle", Asks, UNCHANGED device,
             call' = [call EXCEPT ![c] = [call[c] EXCEPT !.at = at, !.word = word]],
             ~gained /\ word = "no" => device.gps = "none",
             call[c].kind \in {"add", "password"} /\ at \in {"gps", "store"} /\ ~call[c].rekeyed =>
                Accepts(device, call[c].slot.cred)
      PROVE  RegistryIInv'
  <2> DEFINE next == [call[c] EXCEPT !.at = at, !.word = word]
  <2>1. next \in Calls /\ next.at = at /\ next.word = word /\ next.kind = call[c].kind
        /\ next.slot = call[c].slot /\ next.rekeyed = call[c].rekeyed
    BY <1>0 DEF Calls
  <2>2. call'[c] = next /\ call' = [call EXCEPT ![c] = next]
    BY <1>0, <1>4
  <2> HIDE DEF next
  <2>3. NoMeansNo' /\ ManualIsNamed'
    BY <1>0, <1>4 DEF Asks, NoMeansNo, ManualIsNamed
  <2>4. CallKnows(c)'
    BY <1>4, <2>1, <2>2 DEF CallKnows, Asks
  <2> QED
    BY <1>0, <1>4, <2>1, <2>2, <2>3, <2>4, OneCallGoesOn DEF Asks
\* Goes is that, with the word it had.
<1>5. ASSUME NEW c \in LanCalls, NEW at, Goes(c, at)
      PROVE  call' = [call EXCEPT ![c] = [call[c] EXCEPT !.at = at, !.word = call[c].word]]
  <2>1. [call[c] EXCEPT !.at = at, !.word = call[c].word] = [call[c] EXCEPT !.at = at]
    BY <1>0 DEF Calls
  <2> QED
    BY <1>5, <2>1 DEF Goes
<1>6. ASSUME NEW c \in LanCalls
      PROVE  /\ call[c] \in Calls /\ call[c].slot \in Slots /\ CallKnows(c)
             /\ call[c].word \in Words \union {"absent"}
  BY <1>0 DEF Calls
<1>7. ASSUME NEW c \in LanCalls, Prove(c) PROVE RegistryIInv'
  <2>1. call[c].at = "probe" /\ call[c].at # "idle" /\ Asks /\ UNCHANGED device
    BY <1>7 DEF Prove
  <2>2. call[c].kind \in {"add", "password"}
    BY <1>6, <2>1 DEF CallKnows, Phase, Calls, Kinds
  <2>3. PICK proved \in Probe(device, call[c].slot.cred) :
           CASE ~proved -> Ends(c)
             [] proved /\ call[c].kind = "add" -> Goes(c, "gps")
             [] OTHER -> Goes(c, "store")
    BY <1>7 DEF Prove
  <2>4. proved \in BOOLEAN /\ (proved => Accepts(device, call[c].slot.cred))
    BY <1>0, ProbeProves
  <2>5. CASE ~proved
    BY <1>3, <2>1, <2>3, <2>5
  <2>6. ASSUME proved, call[c].kind = "add", Goes(c, "gps") PROVE RegistryIInv'
    <3>1. "gps" \in Phase("add") /\ "gps" \in Steps \ {"idle"}
      BY DEF Phase, Steps
    <3> QED
      BY <1>4, <1>5, <1>6, <2>1, <2>4, <2>6, <3>1 DEF CallKnows
  <2>7. ASSUME proved, call[c].kind # "add", Goes(c, "store") PROVE RegistryIInv'
    <3>1. "store" \in Phase("password") /\ "store" \in Steps \ {"idle"} /\ call[c].kind = "password"
      BY <2>2, <2>7 DEF Phase, Steps
    <3> QED
      BY <1>4, <1>5, <1>6, <2>1, <2>4, <2>7, <3>1 DEF CallKnows
  <2> QED
    BY <2>3, <2>4, <2>5, <2>6, <2>7
<1>8. ASSUME NEW c \in LanCalls, AskGps(c) PROVE RegistryIInv'
  <2>1. call[c].at = "gps" /\ call[c].at # "idle" /\ Asks /\ UNCHANGED device
    BY <1>8 DEF AskGps
  <2>2. call[c].kind \in {"add", "gps"}
    BY <1>6, <2>1 DEF CallKnows, Phase, Calls, Kinds
  <2>3. PICK word \in Gps(device, call[c].slot.cred) :
           IF call[c].kind = "add" /\ Refuses(c, word) THEN Ends(c)
           ELSE call' = [call EXCEPT ![c].at = IF call[c].kind = "add" THEN "store" ELSE "note", ![c].word = word]
    BY <1>8 DEF AskGps
  <2>4. word \in Words /\ (word = "no" => device.gps = "none")
    BY <1>0, GpsWord
  <2>5. CASE Ends(c)
    BY <1>3, <2>1, <2>5
  <2>6. ASSUME call' = [call EXCEPT ![c].at = IF call[c].kind = "add" THEN "store" ELSE "note", ![c].word = word]
        PROVE  RegistryIInv'
    <3> DEFINE at == IF call[c].kind = "add" THEN "store" ELSE "note"
    <3>1. call' = [call EXCEPT ![c] = [call[c] EXCEPT !.at = at, !.word = word]]
      BY <1>0, <2>6
    <3>2. at \in Steps \ {"idle"} /\ at \in Phase(call[c].kind) /\ (at = "store" => call[c].kind = "add")
      BY <2>2 DEF Steps, Phase
    <3>3. call[c].kind = "add" /\ ~call[c].rekeyed => Accepts(device, call[c].slot.cred)
      BY <1>6, <2>1 DEF CallKnows
    <3> HIDE DEF at
    <3> QED
      BY <1>4, <2>1, <2>2, <2>4, <3>1, <3>2, <3>3
  <2> QED
    BY <2>3, <2>5, <2>6
<1>9. ASSUME NEW c \in LanCalls, Switch(c) PROVE RegistryIInv'
  <2>1. call[c].at = "switch" /\ call[c].at # "idle" /\ Asks /\ UNCHANGED device /\ (Ends(c) \/ Goes(c, "store"))
    BY <1>9 DEF Switch
  <2>2. call[c].kind = "gps"
    BY <1>6, <2>1 DEF CallKnows, Phase, Calls, Kinds
  <2>3. "store" \in Phase("gps") /\ "store" \in Steps \ {"idle"}
    BY DEF Phase, Steps
  <2> QED
    BY <1>3, <1>4, <1>5, <1>6, <2>1, <2>2, <2>3 DEF CallKnows
<1>10. ASSUME NEW c \in LanCalls, Read(c) PROVE RegistryIInv'
  <2>1. call[c].at = "read" /\ call[c].at # "idle" /\ Asks /\ UNCHANGED device
    BY <1>10 DEF Read
  <2>2. call[c].kind = "poll"
    BY <1>6, <2>1 DEF CallKnows, Phase, Calls, Kinds
  <2>3. PICK read \in Status(device, call[c].slot.cred) :
        \E word \in IF read /\ GpsPolling(c) THEN Gps(device, call[c].slot.cred)
                    ELSE {IF call[c].word = "absent" THEN "unknown" ELSE call[c].word} :
           call' = [call EXCEPT ![c].at = "note", ![c].word = word]
    BY <1>10 DEF Read
  <2>4. PICK word \in IF read /\ GpsPolling(c) THEN Gps(device, call[c].slot.cred)
                      ELSE {IF call[c].word = "absent" THEN "unknown" ELSE call[c].word} :
           call' = [call EXCEPT ![c].at = "note", ![c].word = word]
    BY <2>3
  <2>5. word \in Words \union {"absent"} /\ (~gained /\ word = "no" => device.gps = "none")
    <3>1. word \in Gps(device, call[c].slot.cred) => word \in Words /\ (word = "no" => device.gps = "none")
      BY <1>0, GpsWord
    <3>2. word \in {"unknown", call[c].word} => word \in Words \union {"absent"} /\ (~gained /\ word = "no" => device.gps = "none")
      BY <1>6 DEF CallKnows, Words
    <3> QED
      BY <2>4, <3>1, <3>2
  <2>6. call' = [call EXCEPT ![c] = [call[c] EXCEPT !.at = "note", !.word = word]]
    BY <1>0, <2>4
  <2>7. "note" \in Phase("poll") /\ "note" \in Steps \ {"idle"}
    BY DEF Phase, Steps
  <2> QED
    BY <1>4, <2>1, <2>2, <2>5, <2>6, <2>7
<1>11. ASSUME NEW c \in LanCalls, WriteApn(c) PROVE RegistryIInv'
  <2>1. call[c].at = "apn" /\ Asks
    BY <1>11 DEF WriteApn
  <2>2. call[c].kind = "apn" /\ call[c].on \in BOOLEAN
    BY <1>6, <2>1 DEF CallKnows, Phase, Calls, Kinds
  <2>3. PICK wrote \in SetApn(device, call[c].slot.cred, call[c].on) :
           device' = [device EXCEPT !.apn = wrote.apn] /\ (Ends(c) \/ Goes(c, "note"))
    BY <1>11 DEF WriteApn
  <2>4. wrote.apn \in [manual: BOOLEAN, named: BOOLEAN] /\ (wrote.apn.manual => wrote.apn.named)
    BY <1>0, <2>2, ApnStaysNamed DEF ManualIsNamed
  <2>5. /\ device' \in Device /\ device'.vendor = device.vendor /\ device'.cred = device.cred
        /\ device'.gps = device.gps /\ device'.apn = wrote.apn
    BY <1>0, <2>3, <2>4 DEF Device
  <2>6. NoMeansNo' /\ ManualIsNamed'
    BY <1>0, <2>1, <2>4, <2>5 DEF Asks, NoMeansNo, ManualIsNamed
  <2>7. CASE Ends(c)
    BY <1>0, <2>1, <2>5, <2>6, <2>7, NoCallType, OneCallGoesOn DEF Asks, Ends
  <2>8. CASE Goes(c, "note")
    <3> DEFINE next == [call[c] EXCEPT !.at = "note"]
    <3>1. next \in Calls /\ next.at = "note" /\ next.kind = "apn" /\ next.word = call[c].word
      BY <1>6, <2>2 DEF Calls, Steps
    <3>2. call' = [call EXCEPT ![c] = next] /\ call'[c] = next
      BY <1>0, <2>8 DEF Goes
    <3> HIDE DEF next
    <3>3. CallKnows(c)'
      BY <1>6, <2>1, <2>5, <3>1, <3>2 DEF CallKnows, Phase, Asks
    <3> QED
      BY <1>0, <2>1, <2>5, <2>6, <3>1, <3>2, <3>3, OneCallGoesOn DEF Asks
  <2> QED
    BY <2>3, <2>7, <2>8
<1>12. ASSUME NEW c \in LanCalls, Store(c) PROVE RegistryIInv'
  <2>1. call[c].at = "store" /\ UNCHANGED <<snap, device, used, gained>>
    BY <1>12 DEF Store
  <2>2. call[c].kind \in {"add", "remove", "gps", "password"}
    BY <1>6, <2>1 DEF CallKnows, Phase, Calls, Kinds
  <2>3. NoMeansNo' /\ ManualIsNamed'
    BY <1>0, <2>1 DEF NoMeansNo, ManualIsNamed
  <2>4. slot' \in Slots
    <3>1. [slot EXCEPT !.gps = call[c].on] \in Slots /\ [slot EXCEPT !.cred = call[c].slot.cred] \in Slots
      BY <1>0, <1>6 DEF Slots, Calls
    <3>2. Stored(c) \in Slots
      BY <1>0, <1>6, <2>2, <3>1, NoCallType DEF Stored, Upserted, Retuned, Rekeyed
    <3> QED
      BY <1>0, <1>12, <3>2 DEF Store
  <2>5. CASE Ends(c)
    BY <1>0, <2>1, <2>3, <2>4, <2>5, NoCallType, OneCallGoesOn DEF Ends
  <2>6. ASSUME Goes(c, "note"), call[c].kind \in {"add", "remove"} PROVE RegistryIInv'
    <3> DEFINE next == [call[c] EXCEPT !.at = "note"]
    <3>1. next \in Calls /\ next.at = "note" /\ next.kind = call[c].kind /\ next.word = call[c].word
      BY <1>6 DEF Calls, Steps
    <3>2. call' = [call EXCEPT ![c] = next] /\ call'[c] = next
      BY <1>0, <2>6 DEF Goes
    <3> HIDE DEF next
    <3>3. CallKnows(c)'
      BY <1>6, <2>1, <2>6, <3>1, <3>2 DEF CallKnows, Phase
    <3> QED
      BY <1>0, <2>1, <2>3, <2>4, <3>1, <3>2, <3>3, OneCallGoesOn
  <2> QED
    BY <1>12, <2>5, <2>6 DEF Store
<1>13. ASSUME NEW c \in LanCalls, Note(c) PROVE RegistryIInv'
  <2>1. call[c].at = "note" /\ UNCHANGED <<slot, device, used, gained>> /\ snap' = Noted(c)
        /\ (IF call[c].kind = "gps" /\ ~Refuses(c, call[c].word) THEN Goes(c, "switch") ELSE Ends(c))
    BY <1>13 DEF Note
  <2>2. call[c].kind \in {"add", "remove", "poll", "gps", "apn"}
    BY <1>6, <2>1 DEF CallKnows, Phase, Calls, Kinds
  <2>3. snap' \in Words \union {"absent"} /\ (~gained /\ snap' = "no" => device.gps = "none")
    <3>1. Entry \in Words /\ (Entry = "no" => snap = "no")
      BY <1>0 DEF Entry, Words
    <3>2. Noted(c) \in {call[c].word, Entry, "absent"}
      BY <2>2 DEF Noted
    <3> QED
      BY <1>0, <1>6, <2>1, <3>1, <3>2 DEF CallKnows, NoMeansNo
  <2>4. NoMeansNo' /\ ManualIsNamed'
    BY <1>0, <2>1, <2>3 DEF NoMeansNo, ManualIsNamed
  <2>5. CASE Ends(c)
    BY <1>0, <2>1, <2>3, <2>4, <2>5, NoCallType, OneCallGoesOn DEF Ends
  <2>6. ASSUME Goes(c, "switch"), call[c].kind = "gps" PROVE RegistryIInv'
    <3> DEFINE next == [call[c] EXCEPT !.at = "switch"]
    <3>1. next \in Calls /\ next.at = "switch" /\ next.kind = "gps" /\ next.word = call[c].word
      BY <1>6, <2>6 DEF Calls, Steps
    <3>2. call' = [call EXCEPT ![c] = next] /\ call'[c] = next
      BY <1>0, <2>6 DEF Goes
    <3> HIDE DEF next
    <3>3. CallKnows(c)'
      BY <1>6, <2>1, <3>1, <3>2 DEF CallKnows, Phase
    <3> QED
      BY <1>0, <2>1, <2>3, <2>4, <3>1, <3>2, <3>3, OneCallGoesOn
  <2> QED
    BY <2>1, <2>5, <2>6
\* The router's owner changes it: what it took before may not work now, and what is there by now
\* may not have been.
<1>14. ASSUME Changes PROVE used' \in [calls: 0..MaxCalls, changes: 0..MaxChanges]
  BY <1>0, <1>14, RegistryAssumption DEF Changes
<1>15. CASE RouterRekeyed
  <2>1. PICK new \in Passwords \ {device.cred} : device' = [device EXCEPT !.cred = new]
    BY <1>15 DEF RouterRekeyed
  <2>2. device' \in Device /\ device'.gps = device.gps /\ device'.apn = device.apn
    BY <1>0, <2>1 DEF Device
  <2>3. /\ call' = [c \in LanCalls |-> IF call[c] = NoCall THEN NoCall ELSE [call[c] EXCEPT !.rekeyed = call[c].at # "probe"]]
        /\ UNCHANGED <<slot, snap, gained>>
    BY <1>15 DEF RouterRekeyed
  <2>4. used' \in [calls: 0..MaxCalls, changes: 0..MaxChanges]
    BY <1>14, <1>15 DEF RouterRekeyed
  <2>5. ASSUME NEW c \in LanCalls PROVE call'[c] \in Calls /\ CallKnows(c)'
    <3>1. CASE call[c] = NoCall
      BY <1>6, <2>2, <2>3, <3>1, NoCallType DEF CallKnows, Phase
    <3>2. CASE call[c] # NoCall
      <4>1. call'[c] = [call[c] EXCEPT !.rekeyed = call[c].at # "probe"]
        BY <2>3, <3>2
      <4>2. /\ call'[c] \in Calls /\ call'[c].at = call[c].at /\ call'[c].kind = call[c].kind
            /\ call'[c].slot = call[c].slot /\ call'[c].word = call[c].word
            /\ call'[c].rekeyed = (call[c].at # "probe")
        BY <1>6, <4>1 DEF Calls
      <4>3. call[c].at # "idle"
        BY <1>6, <3>2 DEF CallKnows
      <4> QED
        BY <1>6, <2>2, <2>3, <4>2, <4>3 DEF CallKnows
    <3> QED
      BY <3>1, <3>2
  <2>6. call' \in [LanCalls -> Calls]
    BY <2>3, <2>5
  <2>7. NoMeansNo' /\ ManualIsNamed'
    BY <1>0, <2>2, <2>3 DEF NoMeansNo, ManualIsNamed
  <2> QED
    BY <1>0, <2>2, <2>3, <2>4, <2>5, <2>6, <2>7 DEF RegistryIInv, RegistryInv, RegistryTypeOK
<1>16. CASE RouterGpsChanges
  <2>1. PICK gps \in GpsOfDevice \ {device.gps} : device' = [device EXCEPT !.gps = gps]
    BY <1>16 DEF RouterGpsChanges
  <2>2. device' \in Device /\ device'.vendor = device.vendor /\ device'.cred = device.cred /\ device'.apn = device.apn
    BY <1>0, <2>1 DEF Device
  <2>3. UNCHANGED <<slot, snap, call>> /\ (~gained' => ~gained /\ device.gps # "none") /\ gained' \in BOOLEAN
    BY <1>0, <1>16 DEF RouterGpsChanges
  <2>4. used' \in [calls: 0..MaxCalls, changes: 0..MaxChanges]
    BY <1>14, <1>16 DEF RouterGpsChanges
  <2>5. \A cred : Accepts(device', cred) <=> Accepts(device, cred)
    BY <2>2 DEF Accepts
  <2>6. \A c \in LanCalls : CallKnows(c)'
    BY <1>0, <2>3, <2>5 DEF CallKnows
  <2>7. NoMeansNo' /\ ManualIsNamed'
    BY <1>0, <2>2, <2>3 DEF NoMeansNo, ManualIsNamed
  <2> QED
    BY <1>0, <2>2, <2>3, <2>4, <2>6, <2>7 DEF RegistryIInv, RegistryInv, RegistryTypeOK
<1>17. CASE LanRestart
  <2>1. call' = [c \in LanCalls |-> NoCall] /\ snap' = "absent" /\ UNCHANGED <<slot, device, gained>>
    BY <1>17 DEF LanRestart
  <2>2. used' \in [calls: 0..MaxCalls, changes: 0..MaxChanges]
    BY <1>14, <1>17 DEF LanRestart
  <2>3. call' \in [LanCalls -> Calls] /\ \A c \in LanCalls : call'[c] = NoCall
    BY <2>1, NoCallType
  <2>4. \A c \in LanCalls : CallKnows(c)'
    BY <2>3, NoCallType DEF CallKnows, Phase
  <2>5. NoMeansNo' /\ ManualIsNamed'
    BY <1>0, <2>1 DEF NoMeansNo, ManualIsNamed
  <2> QED
    BY <1>0, <2>1, <2>2, <2>3, <2>4, <2>5 DEF RegistryIInv, RegistryInv, RegistryTypeOK
<1>18. CASE UNCHANGED registryVars
  BY <1>0, <1>18 DEF registryVars, RegistryIInv, RegistryInv, RegistryTypeOK, NoMeansNo, ManualIsNamed, CallKnows
<1> QED
  BY <1>2, <1>7, <1>8, <1>9, <1>10, <1>11, <1>12, <1>13, <1>15, <1>16, <1>17, <1>18 DEF RegistryNext

\* For all devices and calls: only the router's own word makes it one without GPS, an APN is named before
\* it is used, and no call evicts a password that works for one that does not.
THEOREM RegistryIsKept == RegistrySpec => RegistryKeeps
<1>1. RegistryIInv => RegistryInv
  BY DEF RegistryIInv
<1>2. RegistryIInv /\ [RegistryNext]_registryVars =>
        [\A c \in LanCalls :
           Store(c) /\ slot.managed /\ Accepts(device, slot.cred) /\ slot'.managed /\ ~call[c].rekeyed
           => Accepts(device, slot'.cred)]_registryVars
  <2> SUFFICES ASSUME RegistryIInv, NEW c \in LanCalls,
                      Store(c), slot.managed, Accepts(device, slot.cred), slot'.managed, ~call[c].rekeyed
               PROVE  Accepts(device, slot'.cred)
    OBVIOUS
  <2>1. /\ call[c] \in Calls /\ CallKnows(c) /\ slot \in Slots
        /\ call[c].at = "store" /\ call[c].kind \in {"add", "remove", "gps", "password"}
    BY DEF RegistryIInv, RegistryInv, RegistryTypeOK, Store, CallKnows, Phase, Calls, Kinds
  <2>2. CASE slot' = slot
    BY <2>2
  <2>3. CASE slot' = Stored(c)
    <3>1. CASE call[c].kind \in {"add", "password"}
      <4>1. Accepts(device, call[c].slot.cred)
        BY <2>1, <3>1 DEF CallKnows
      <4>2. slot'.cred = call[c].slot.cred
        BY <2>1, <2>3, <3>1 DEF Stored, Upserted, Rekeyed, Slots
      <4> QED
        BY <4>1, <4>2
    <3>2. CASE call[c].kind = "gps"
      <4>1. slot'.cred = slot.cred
        BY <2>1, <2>3, <3>2 DEF Stored, Retuned, Slots
      <4> QED
        BY <4>1
    <3>3. CASE call[c].kind = "remove"
      BY <2>3, <3>3 DEF Stored, NoSlot
    <3> QED
      BY <2>1, <3>1, <3>2, <3>3
  <2> QED
    BY <2>2, <2>3 DEF Store
<1> QED
  BY <1>1, <1>2, RegistryInitially, RegistryStep, PTL DEF RegistrySpec, RegistryKeeps, CredentialStays

-----------------------------------------------------------------------------
(* The poll of the routers (Routers) *)

(* Numbers *)

\* The longest a pass can take that posts n events.
PassLimit(n) == CallLimit + n * PostLimit

\* How many routers there are.
K == Cardinality(Routers)

\* The limit of a pass grows with the posts it awaits; AgeCap is beyond two passes.
LEMMA PassLimits ==
    /\ K \in Nat
    /\ \A n \in Nat : PassLimit(n) \in Nat /\ PassLimit(n + 1) = PassLimit(n) + PostLimit /\ CallLimit <= PassLimit(n)
    /\ \A m, n \in Nat : m <= n => PassLimit(m) <= PassLimit(n)
    /\ AgeCap \in Nat /\ AgeCap = OutageMin + 2 * (PassLimit(K) + 1)
<1>1. K \in Nat
  BY RoutersAssumption, FS_CardinalityType DEF K
<1>2. CallLimit \in Nat /\ PostLimit \in Nat /\ OutageMin \in Nat
  BY RoutersAssumption
<1>3. ASSUME NEW n \in Nat PROVE n * PostLimit \in Nat /\ (n + 1) * PostLimit = n * PostLimit + PostLimit
  BY <1>2
<1>4. ASSUME NEW m \in Nat, NEW n \in Nat, m <= n PROVE m * PostLimit <= n * PostLimit
  <2>1. PICK d \in Nat : n = m + d
    <3>1. n - m \in Nat /\ n = m + (n - m)
      BY <1>4
    <3> QED
      BY <3>1
  <2>2. n * PostLimit = m * PostLimit + d * PostLimit /\ d * PostLimit \in Nat /\ m * PostLimit \in Nat
    BY <1>2, <2>1
  <2> QED
    BY <2>2
<1>5. \A n \in Nat : PassLimit(n) \in Nat /\ PassLimit(n + 1) = PassLimit(n) + PostLimit /\ CallLimit <= PassLimit(n)
  <2> TAKE n \in Nat
  <2>1. n * PostLimit \in Nat /\ (n + 1) * PostLimit = n * PostLimit + PostLimit
    BY <1>3
  <2> QED
    BY <1>2, <2>1 DEF PassLimit
<1>6. \A m, n \in Nat : m <= n => PassLimit(m) <= PassLimit(n)
  <2> SUFFICES ASSUME NEW m \in Nat, NEW n \in Nat, m <= n PROVE PassLimit(m) <= PassLimit(n)
    OBVIOUS
  <2>1. m * PostLimit <= n * PostLimit /\ m * PostLimit \in Nat /\ n * PostLimit \in Nat
    BY <1>3, <1>4
  <2> QED
    BY <1>2, <2>1 DEF PassLimit
<1>7. AgeCap = OutageMin + 2 * (PassLimit(K) + 1)
  BY DEF AgeCap, PassLimit, K
<1>8. AgeCap \in Nat
  BY <1>1, <1>2, <1>5, <1>7
<1> QED
  BY <1>1, <1>5, <1>6, <1>7, <1>8

\* Ages and numbers of routers are numbers.
LEMMA CapType == AgeCap \in Nat /\ K \in Nat
BY PassLimits

\* More posts, more time.
LEMMA LimitGrows ==
    ASSUME NEW m \in Nat, NEW n \in Nat, m <= n
    PROVE  PassLimit(m) \in Nat /\ PassLimit(n) \in Nat /\ PassLimit(m) <= PassLimit(n)
<1>1. PassLimit(m) \in Nat /\ PassLimit(n) \in Nat
  BY PassLimits
<1>2. PassLimit(m) <= PassLimit(n)
  BY PassLimits
<1> QED
  BY <1>1, <1>2

\* A power of two exceeds its exponent: a set has more subsets than members.
LEMMA PowerExceeds == \A n \in Nat : 2 ^ n \in Nat /\ 2 ^ n >= n
<1> TAKE n \in Nat
<1> DEFINE S == 1 .. n
           Singles == {{i} : i \in S}
           f == [i \in S |-> {i}]
<1>1. IsFiniteSet(S) /\ Cardinality(S) = n
  BY FS_Interval
<1>2. IsFiniteSet(SUBSET S) /\ Cardinality(SUBSET S) = 2 ^ n
  BY <1>1, FS_SUBSET
<1>3. Singles \subseteq SUBSET S
  OBVIOUS
<1>4. IsFiniteSet(Singles) /\ Cardinality(Singles) <= Cardinality(SUBSET S)
  BY <1>2, <1>3, FS_Subset
<1>5. f \in Bijection(S, Singles)
  <2>1. f \in [S -> Singles]
    OBVIOUS
  <2>2. \A i, j \in S : f[i] = f[j] => i = j
    OBVIOUS
  <2>3. \A t \in Singles : \E i \in S : f[i] = t
    OBVIOUS
  <2> HIDE DEF f, S, Singles
  <2>4. IsInjective(f)
    BY <2>1, <2>2 DEF IsInjective
  <2> QED
    BY <2>1, <2>3, <2>4 DEF Bijection, Injection, Surjection
<1>6. Cardinality(Singles) = n
  BY <1>1, <1>5, FS_Bijection DEF ExistsBijection
<1>7. Cardinality(SUBSET S) \in Nat
  BY <1>2, FS_CardinalityType
<1> QED
  BY <1>2, <1>4, <1>6, <1>7

-----------------------------------------------------------------------------
(* What the grace machine returns *)

\* The health of a router.
Run == [n: 0 .. MaxRetry + 1, first: 0 .. AgeCap, retryIn: 0 .. MaxRetry, down: BOOLEAN]

\* The delay of a retry is capped, and has reached its cap when the count stops growing.
LEMMA Retry ==
    ASSUME NEW n \in Nat \ {0}
    PROVE  RetryDelay(n) \in 0 .. MaxRetry /\ (n > MaxRetry => RetryDelay(n) = MaxRetry)
<1>1. 2 ^ (n - 1) \in Nat /\ 2 ^ (n - 1) >= n - 1
  BY PowerExceeds
<1> QED
  BY <1>1, RoutersAssumption DEF RetryDelay, Cap

\* A bad sample decides when the grace is over at its second poll, or sets a retry before that.
LEMMA ObservedIs ==
    ASSUME NEW h \in Run, NEW sample, NEW age \in 0 .. AgeCap, NEW lag \in Nat,
           NEW new, new = Observed(h, sample, age, lag)
    PROVE  /\ new \in Run
           /\ sample = "up" => new = Healthy
           /\ sample # "up" => /\ new.n > 0 /\ (h.down => new.down)
                               /\ new.down /\ ~h.down => sample = "measured" \/ (h.n > 0 /\ age - lag >= Grace)
                               /\ ~new.down => /\ new.first = age
                                               /\ new.retryIn > 0 => age + new.retryIn <= Grace
                                               /\ h.n > 0 => age - lag < Grace
<1> DEFINE n == IF h.n > 1 /\ RetryDelay(h.n) = MaxRetry THEN h.n ELSE h.n + 1
           decided == Decided(sample, n, age, lag)
           down == h.down \/ decided
           backoff == RetryDelay(n) - lag
           deadline == Grace - age
           at == IF down \/ backoff < deadline THEN backoff ELSE deadline
<1>0. MaxRetry \in Nat \ {0} /\ Grace \in Nat \ {0} /\ AgeCap \in Nat /\ h.n \in 0 .. MaxRetry + 1 /\ h.down \in BOOLEAN
  BY RoutersAssumption, PassLimits DEF Run
<1>1. n \in 1 .. MaxRetry + 1 /\ (h.n > 0 => n >= 2)
  <2>1. h.n = MaxRetry + 1 => h.n > 1 /\ RetryDelay(h.n) = MaxRetry
    BY <1>0, Retry
  <2> HIDE DEF decided
  <2> QED
    BY <1>0, <2>1
<1>2. RetryDelay(n) \in 0 .. MaxRetry
  BY <1>0, <1>1, Retry
<1>3. RetryIn(n, age, lag, down) = IF at > 0 THEN at ELSE 0
  BY DEF RetryIn
<1>4. sample # "up" => new = [n |-> n, first |-> IF down THEN 0 ELSE age, retryIn |-> RetryIn(n, age, lag, down), down |-> down]
  BY DEF Observed
<1>5. decided \in BOOLEAN /\ down \in BOOLEAN
  BY <1>0 DEF Decided
<1>6. /\ decided => sample = "measured" \/ (n >= 2 /\ age - lag >= Grace)
      /\ ~decided => ~(n >= 2 /\ age - lag >= Grace)
  BY DEF Decided
<1>7. n = h.n + 1 \/ n = h.n
  OBVIOUS
<1>8. n >= 2 => h.n > 0
  BY <1>0, <1>7
<1> HIDE DEF n, decided
<1>9. at \in Int /\ at <= MaxRetry /\ (~down => at <= Grace - age)
  BY <1>0, <1>2
<1>10. CASE sample = "up"
  <2>1. new = Healthy
    BY <1>10 DEF Observed
  <2>2. Healthy \in Run
    BY <1>0 DEF Healthy, Run
  <2> QED
    BY <1>10, <2>1, <2>2
<1>11. CASE sample # "up"
  <2> DEFINE retry == IF at > 0 THEN at ELSE 0
  <2>1. new = [n |-> n, first |-> IF down THEN 0 ELSE age, retryIn |-> retry, down |-> down]
    BY <1>3, <1>4, <1>11
  <2>2. retry \in 0 .. MaxRetry /\ (~down /\ retry > 0 => age + retry <= Grace)
    BY <1>0, <1>9
  <2> HIDE DEF retry, at
  <2>3. (IF down THEN 0 ELSE age) \in 0 .. AgeCap
    BY <1>0
  <2>4. new \in Run /\ new.n = n /\ new.down = down /\ new.retryIn = retry /\ new.first = IF down THEN 0 ELSE age
    BY <1>0, <1>1, <1>5, <2>1, <2>2, <2>3 DEF Run
  <2>5. ~down => (h.n > 0 => age - lag < Grace)
    <3>1. age - lag \in Int
      BY <1>0
    <3> QED
      BY <1>0, <1>1, <1>6, <3>1
  <2>6. down /\ ~h.down => sample = "measured" \/ (h.n > 0 /\ age - lag >= Grace)
    BY <1>6, <1>8
  <2>7. n > 0 /\ (h.down => down)
    BY <1>1
  <2> HIDE DEF down
  <2>8. new.n > 0 /\ (h.down => new.down)
    BY <2>4, <2>7
  <2>9. new.down /\ ~h.down => sample = "measured" \/ (h.n > 0 /\ age - lag >= Grace)
    BY <2>4, <2>6
  <2>10. ASSUME ~new.down
         PROVE  /\ new.first = age
                /\ new.retryIn > 0 => age + new.retryIn <= Grace
                /\ h.n > 0 => age - lag < Grace
    BY <2>2, <2>4, <2>5, <2>10
  <2> QED
    BY <1>11, <2>4, <2>8, <2>9, <2>10
<1> QED
  BY <1>10, <1>11
-----------------------------------------------------------------------------
(* The pass: its type, and how long it may have lasted *)

Replies == {"asked", "up", "down", "out", "longOut", "failed"}

\* A pass, or the next one.
PassType(p) ==
    /\ p = [phase |-> p.phase, reads |-> p.reads, took |-> p.took, spent |-> p.spent, wait |-> p.wait, left |-> p.left]
    /\ p.phase \in {"asleep", "reading", "folding", "posting"}
    /\ DOMAIN p.reads \subseteq Routers /\ p.left \subseteq DOMAIN p.reads
    /\ p.reads \in [DOMAIN p.reads -> Replies] /\ p.took \in [DOMAIN p.reads -> Nat]
    /\ p.spent \in Nat /\ p.wait \in 0 .. PostLimit
    /\ \A r \in DOMAIN p.reads : /\ p.took[r] <= p.spent
                                 /\ p.reads[r] = "asked" \/ p.reads[r] \in Answers(r)
                                 /\ p.phase # "reading" => p.reads[r] # "asked"
    /\ p.phase = "reading" => p.left = DOMAIN p.reads
    /\ p.phase = "asleep" => p.left = {}

\* In a bad run that is not decided.
Held(h) == h.n > 0 /\ ~h.down

\* The routers an event may have been posted for in this pass: what is held is not reported.
Settled(h, p) == {q \in Routers \ p.left : ~Held(h[q])}

\* The pass, of which n routers are settled.
PassLasts(p, n) ==
    /\ p.phase \in {"asleep", "reading"} => p.spent <= CallLimit
    /\ p.phase = "folding" => p.spent <= PassLimit(n)
    /\ p.phase = "posting" => n > 0 /\ p.spent + PostLimit <= PassLimit(n) + p.wait

PassKnows == PassType(pass) /\ PassLasts(pass, Cardinality(Settled(health, pass)))

\* Each router that is folded in is settled, or is held and had nothing posted.
LEMMA SettledCounts ==
    ASSUME NEW h, NEW p
    PROVE  /\ Cardinality(Settled(h, p)) \in 0 .. K
           /\ \A r \in Routers : r \notin Settled(h, p) => Cardinality(Settled(h, p)) + 1 <= K
           /\ \A g, q : Settled(h, p) \subseteq Settled(g, q) =>
                /\ Cardinality(Settled(h, p)) <= Cardinality(Settled(g, q))
                /\ \A r \in Settled(g, q) \ Settled(h, p) : Cardinality(Settled(h, p)) + 1 <= Cardinality(Settled(g, q))
<1>1. \A g, q : Settled(g, q) \subseteq Routers
  BY DEF Settled
<1>2. \A S \in SUBSET Routers : IsFiniteSet(S) /\ Cardinality(S) \in Nat /\ Cardinality(S) <= K
  BY RoutersAssumption, FS_Subset, FS_CardinalityType DEF K
<1>3. ASSUME NEW S \in SUBSET Routers, NEW T \in SUBSET Routers, S \subseteq T
      PROVE  Cardinality(S) <= Cardinality(T) /\ \A r \in T \ S : Cardinality(S) + 1 <= Cardinality(T)
  <2>1. Cardinality(S) <= Cardinality(T)
    BY <1>2, <1>3, FS_Subset
  <2>2. ASSUME NEW r \in T \ S PROVE Cardinality(S) + 1 <= Cardinality(T)
    <3>1. Cardinality(S \union {r}) = Cardinality(S) + 1
      BY <1>2, FS_AddElement
    <3>2. S \union {r} \subseteq T
      BY <1>3
    <3>3. Cardinality(S \union {r}) <= Cardinality(T)
      BY <1>2, <3>2, FS_Subset
    <3> QED
      BY <3>1, <3>3
  <2> QED
    BY <2>1, <2>2
<1>4. K \in Nat
  BY PassLimits
<1>5. Cardinality(Settled(h, p)) \in 0 .. K
  BY <1>1, <1>2, <1>4
<1>6. \A r \in Routers : r \notin Settled(h, p) => Cardinality(Settled(h, p)) + 1 <= K
  BY <1>1, <1>3 DEF K
<1>7. ASSUME NEW g, NEW q, Settled(h, p) \subseteq Settled(g, q)
      PROVE  /\ Cardinality(Settled(h, p)) <= Cardinality(Settled(g, q))
             /\ \A r \in Settled(g, q) \ Settled(h, p) : Cardinality(Settled(h, p)) + 1 <= Cardinality(Settled(g, q))
  BY <1>1, <1>3, <1>7
<1> QED
  BY <1>5, <1>6, <1>7

\* However it goes on, a pass has lasted no longer than its calls and the posts for who is settled.
LEMMA SpentIsBounded ==
    ASSUME NEW p, PassType(p), NEW n \in Nat, PassLasts(p, n)
    PROVE  p.spent <= PassLimit(n)
<1>1. /\ p.phase \in {"asleep", "reading", "folding", "posting"} /\ p.spent \in Nat
      /\ p.wait \in 0 .. PostLimit
  BY DEF PassType
<1>2. PassLimit(n) \in Nat /\ CallLimit <= PassLimit(n) /\ CallLimit \in Nat /\ PostLimit \in Nat
  BY PassLimits, RoutersAssumption
<1> QED
  BY <1>1, <1>2 DEF PassLasts

\* No pass lasts longer than its calls and a post for every router.
LEMMA SpentInAll ==
    ASSUME PassKnows
    PROVE  pass.spent \in Nat /\ PassLimit(K) \in Nat /\ pass.spent <= PassLimit(K)
<1> DEFINE n == Cardinality(Settled(health, pass))
<1>1. n \in 0 .. K
  BY SettledCounts
<1>2. n \in Nat /\ K \in Nat /\ n <= K
  BY <1>1, CapType
<1>3. pass.spent <= PassLimit(n) /\ pass.spent \in Nat
  BY <1>2, SpentIsBounded DEF PassKnows, PassType
<1>4. PassLimit(n) \in Nat /\ PassLimit(K) \in Nat /\ PassLimit(n) <= PassLimit(K)
  BY <1>2, LimitGrows
<1> HIDE DEF n
<1> QED
  BY <1>3, <1>4

-----------------------------------------------------------------------------
(* The inductive invariant *)

\* The time of a run that is not decided: as long as no pass was held back it is bounded, wherever the
\* pass is, and the next attempt is set for the end of the grace at the latest.
TimeKnows(r) ==
    Held(health[r]) =>
        /\ health[r].retryIn > 0 => health[r].first + health[r].retryIn <= Grace
        /\ hist[r].bad = health[r].first
        /\ ~hist[r].held =>
             /\ pass.phase = "asleep" => health[r].first < Grace + PassLimit(K - 1)
             /\ pass.phase # "asleep" /\ r \notin pass.left => health[r].first < Grace + pass.spent
             /\ r \in pass.left => health[r].first <= Grace + PassLimit(K - 1) + pass.spent

\* The age of a dish's outage, against its history.
OutageKnows(r) ==
    /\ outage[r] = NoRun <=> hist[r].out = 0
    /\ outage[r] # NoRun => outage[r] + 1 <= hist[r].out \/ hist[r].out = AgeCap

Histories == [bad: Nat, out: Nat, said: {"none", "up", "down", "measured"}, held: BOOLEAN]

RoutersIInv ==
    /\ TypeOK /\ DownIsItsWord /\ PassKnows
    /\ hist \in [Routers -> Histories]
    /\ \A r \in Routers : TimeKnows(r)
    /\ \A r \in Dishes : OutageKnows(r)

\* The strengthening bounds the age of every run that is not decided.
LEMMA InTime == RoutersIInv => DecidedInTime
<1> SUFFICES ASSUME RoutersIInv, NEW r \in Routers, Held(health[r]), ~hist[r].held
             PROVE  health[r].first <= Grace + 2 * (CallLimit + (Cardinality(Routers) - 1) * PostLimit)
  BY DEF DecidedInTime, Held
<1> DEFINE n == Cardinality(Settled(health, pass))
<1>1. r \notin Settled(health, pass)
  BY DEF Settled
<1>2. n \in 0 .. K /\ n <= K - 1 /\ K - 1 \in Nat
  <2>1. n \in 0 .. K /\ n + 1 <= K
    BY <1>1, SettledCounts
  <2> QED
    BY <2>1, PassLimits
<1>3. pass.spent <= PassLimit(n)
  BY <1>2, SpentIsBounded DEF RoutersIInv, PassKnows
<1>4. pass.spent \in Nat /\ PassLimit(n) \in Nat /\ PassLimit(K - 1) \in Nat /\ PassLimit(n) <= PassLimit(K - 1)
      /\ Grace \in Nat
  BY <1>2, PassLimits, RoutersAssumption DEF RoutersIInv, PassKnows, PassType
<1>5. health[r].first \in Nat
  BY DEF RoutersIInv, TypeOK
<1>6. TimeKnows(r) /\ pass.phase \in {"asleep", "reading", "folding", "posting"}
  BY DEF RoutersIInv, TypeOK
<1> HIDE DEF n
<1>7. health[r].first <= Grace + PassLimit(K - 1) + PassLimit(K - 1)
  BY <1>3, <1>4, <1>5, <1>6 DEF TimeKnows
<1>8. PassLimit(K - 1) = CallLimit + (Cardinality(Routers) - 1) * PostLimit
  BY DEF PassLimit, K
<1> QED
  BY <1>4, <1>5, <1>7, <1>8

-----------------------------------------------------------------------------
(* How a pass goes on *)

\* A pass that begins.
LEMMA ReadingIs ==
    ASSUME NEW due \in SUBSET Routers, NEW p, p = Reading(due)
    PROVE  /\ PassType(p) /\ p.spent = 0 /\ p.left = due
           /\ p.phase = IF due = {} THEN "asleep" ELSE "reading"
           /\ \A n \in Nat : PassLasts(p, n)
<1> DEFINE reads == [r \in due |-> "asked"]
           took == [r \in due |-> 0]
<1>1. p = [phase |-> IF due = {} THEN "asleep" ELSE "reading", reads |-> reads, took |-> took, spent |-> 0, wait |-> 0, left |-> due]
  BY DEF Reading
<1>2. /\ reads \in [due -> Replies] /\ took \in [due -> Nat] /\ DOMAIN reads = due
      /\ \A r \in due : reads[r] = "asked" /\ took[r] = 0
  BY DEF Replies
<1> HIDE DEF reads, took
<1>3. /\ p.phase = (IF due = {} THEN "asleep" ELSE "reading") /\ p.reads = reads /\ p.took = took
      /\ p.spent = 0 /\ p.wait = 0 /\ p.left = due
  BY <1>1
<1>4. p = [phase |-> p.phase, reads |-> p.reads, took |-> p.took, spent |-> p.spent, wait |-> p.wait, left |-> p.left]
  BY <1>1, <1>3
<1>5. CallLimit \in Nat /\ PostLimit \in Nat /\ 0 \in 0 .. PostLimit
  BY RoutersAssumption
<1>6. p.phase \in {"asleep", "reading"} /\ (p.phase = "asleep" => due = {})
  BY <1>3
<1>7. \A r \in due : p.took[r] <= p.spent /\ p.reads[r] = "asked"
  BY <1>2, <1>3
<1>8. PassType(p)
  BY <1>2, <1>3, <1>4, <1>5, <1>6, <1>7 DEF PassType
<1>9. \A n \in Nat : PassLasts(p, n)
  BY <1>3, <1>5 DEF PassLasts
<1> QED
  BY <1>3, <1>8, <1>9

\* A pass that goes on, with a post or without.
LEMMA OnwardIs ==
    ASSUME PassType(pass), pass.phase \in {"folding", "posting"}, NEW left \in SUBSET pass.left, NEW posts \in BOOLEAN,
           NEW p, p = Onward(left, posts)
    PROVE  /\ PassType(p) /\ p.left = left
           /\ posts => p.phase = "posting" /\ p.wait = 0 /\ p.spent = pass.spent
           /\ ~posts /\ left # {} => p.phase = "folding" /\ p.spent = pass.spent
           /\ ~posts /\ left = {} => p.phase = "asleep" /\ p.spent = 0
<1>1. pass = [phase |-> pass.phase, reads |-> pass.reads, took |-> pass.took, spent |-> pass.spent, wait |-> pass.wait, left |-> pass.left]
  BY DEF PassType
<1>2. PostLimit \in Nat
  BY RoutersAssumption
<1>3. CASE posts
  <2>1. p = [pass EXCEPT !.phase = "posting", !.wait = 0, !.left = left]
    BY <1>3 DEF Onward
  <2>2. p = [phase |-> "posting", reads |-> pass.reads, took |-> pass.took, spent |-> pass.spent, wait |-> 0, left |-> left]
    BY <1>1, <2>1
  <2>3. /\ p.phase = "posting" /\ p.reads = pass.reads /\ p.took = pass.took /\ p.spent = pass.spent
        /\ p.wait = 0 /\ p.left = left
        /\ p = [phase |-> p.phase, reads |-> p.reads, took |-> p.took, spent |-> p.spent, wait |-> p.wait, left |-> p.left]
    BY <2>2
  <2>4. p.wait \in 0 .. PostLimit
    BY <1>2, <2>3
  <2> HIDE DEF Onward
  <2> QED
    BY <1>3, <2>3, <2>4 DEF PassType
<1>4. CASE ~posts /\ left # {}
  <2>1. p = [pass EXCEPT !.phase = "folding", !.left = left]
    BY <1>4 DEF Onward
  <2>2. p = [phase |-> "folding", reads |-> pass.reads, took |-> pass.took, spent |-> pass.spent, wait |-> pass.wait, left |-> left]
    BY <1>1, <2>1
  <2>3. /\ p.phase = "folding" /\ p.reads = pass.reads /\ p.took = pass.took /\ p.spent = pass.spent
        /\ p.wait = pass.wait /\ p.left = left
        /\ p = [phase |-> p.phase, reads |-> p.reads, took |-> p.took, spent |-> p.spent, wait |-> p.wait, left |-> p.left]
    BY <2>2
  <2> QED
    BY <1>4, <2>3 DEF PassType
<1>5. CASE ~posts /\ left = {}
  <2>1. p = Reading({})
    BY <1>5 DEF Onward, Asleep
  <2> QED
    BY <1>5, <2>1, ReadingIs
<1> QED
  BY <1>3, <1>4, <1>5

\* One in a run that is not decided is not settled: the posts were all for others.
LEMMA OthersPost ==
    ASSUME PassKnows, NEW r \in Routers, r \notin Settled(health, pass)
    PROVE  pass.spent <= PassLimit(K - 1) /\ PassLimit(K - 1) \in Nat /\ pass.spent \in Nat
<1> DEFINE n == Cardinality(Settled(health, pass))
<1>1. n \in 0 .. K /\ n + 1 <= K
  BY SettledCounts
<1>2. n \in Nat /\ K - 1 \in Nat /\ n <= K - 1
  BY <1>1, PassLimits
<1>3. pass.spent <= PassLimit(n)
  BY <1>2, SpentIsBounded DEF PassKnows
<1>4. pass.spent \in Nat /\ PassLimit(n) \in Nat /\ PassLimit(K - 1) \in Nat /\ PassLimit(n) <= PassLimit(K - 1)
  BY <1>2, PassLimits DEF PassKnows, PassType
<1> HIDE DEF n
<1> QED
  BY <1>3, <1>4

\* r is folded in: the pass goes on, and the time of the others is bounded as before.
LEMMA FoldedIn ==
    ASSUME RoutersIInv, pass.phase = "folding", NEW r \in pass.left, NEW posts \in BOOLEAN,
           pass' = Onward(pass.left \ {r}, posts),
           \A q \in Routers : q # r => health'[q] = health[q] /\ hist'[q] = hist[q],
           posts => ~Held(health'[r])
    PROVE  /\ PassKnows'
           /\ \A q \in Routers : q # r => TimeKnows(q)'
           /\ r \notin pass'.left
           /\ pass'.phase # "asleep" => pass'.spent = pass.spent
           /\ Held(health'[r]) => pass.spent <= PassLimit(K - 1) /\ PassLimit(K - 1) \in Nat
<1> DEFINE left == pass.left \ {r}
           old == Settled(health, pass)
           new == Settled(health', pass')
<1>0. PassType(pass) /\ PassKnows /\ PassLasts(pass, Cardinality(old)) /\ r \in Routers /\ pass.spent \in Nat
  BY DEF RoutersIInv, PassKnows, PassType
<1>1. /\ PassType(pass') /\ pass'.left = left
      /\ posts => pass'.phase = "posting" /\ pass'.wait = 0 /\ pass'.spent = pass.spent
      /\ ~posts /\ left # {} => pass'.phase = "folding" /\ pass'.spent = pass.spent
      /\ ~posts /\ left = {} => pass'.phase = "asleep" /\ pass'.spent = 0
  BY <1>0, OnwardIs
<1>2. old \subseteq new /\ r \notin old /\ (posts => r \in new)
  BY <1>0, <1>1 DEF Settled
<1>3. /\ Cardinality(old) \in Nat /\ Cardinality(new) \in Nat /\ Cardinality(old) <= Cardinality(new)
      /\ posts => Cardinality(old) + 1 <= Cardinality(new)
  <2>1. Cardinality(old) \in 0 .. K /\ Cardinality(new) \in 0 .. K
    BY SettledCounts
  <2>2. \A g, q : old \subseteq Settled(g, q) =>
           /\ Cardinality(old) <= Cardinality(Settled(g, q))
           /\ \A x \in Settled(g, q) \ old : Cardinality(old) + 1 <= Cardinality(Settled(g, q))
    BY SettledCounts
  <2>3. Cardinality(old) <= Cardinality(new) /\ \A x \in new \ old : Cardinality(old) + 1 <= Cardinality(new)
    BY <1>2, <2>2
  <2> HIDE DEF old, new
  <2> QED
    BY <1>2, <2>1, <2>3
<1> HIDE DEF left, old, new
<1>4. pass.spent <= PassLimit(Cardinality(old))
  BY <1>0, <1>3, SpentIsBounded
<1>5. PassLasts(pass', Cardinality(new))
  <2> DEFINE m == Cardinality(old)
             n == Cardinality(new)
  <2>0. m \in Nat /\ n \in Nat /\ m <= n /\ (posts => m + 1 <= n) /\ pass.spent <= PassLimit(m)
    BY <1>3, <1>4
  <2> HIDE DEF m, n
  <2>1. PassLimit(m) \in Nat /\ PassLimit(n) \in Nat /\ PassLimit(m) <= PassLimit(n) /\ CallLimit \in Nat /\ PostLimit \in Nat
    BY <2>0, PassLimits, RoutersAssumption
  <2>2. posts => PassLimit(m) + PostLimit <= PassLimit(n) /\ n > 0
    <3>1. PassLimit(m + 1) = PassLimit(m) + PostLimit /\ m + 1 \in Nat
      BY <2>0, PassLimits
    <3>2. posts => PassLimit(m + 1) <= PassLimit(n)
      BY <2>0, <3>1, PassLimits
    <3> QED
      BY <2>0, <3>1, <3>2
  <2>3. PassLasts(pass', n)
    BY <1>0, <1>1, <2>0, <2>1, <2>2 DEF PassLasts
  <2> QED
    BY <2>3 DEF n
<1>6. ASSUME NEW q \in Routers, Held(health'[q])
      PROVE  pass.spent <= PassLimit(K - 1) /\ PassLimit(K - 1) \in Nat
  <2>1. q \notin old
    BY <1>2, <1>6 DEF old, Settled
  <2> QED
    BY <1>0, <1>6, <2>1, OthersPost DEF old
<1>7. ASSUME NEW q \in Routers, q # r PROVE TimeKnows(q)'
  <2> SUFFICES ASSUME Held(health'[q]) PROVE TimeKnows(q)'
    BY DEF TimeKnows
  <2>1. health'[q] = health[q] /\ hist'[q] = hist[q] /\ TimeKnows(q) /\ Held(health[q])
    BY <1>7 DEF RoutersIInv
  <2>2. pass.spent <= PassLimit(K - 1) /\ PassLimit(K - 1) \in Nat /\ Grace \in Nat /\ health[q].first \in Nat
    BY <1>6, RoutersAssumption DEF RoutersIInv, TypeOK
  <2>3. q \in pass'.left <=> q \in pass.left
    BY <1>1, <1>7 DEF left
  <2>4. pass'.phase = "asleep" => q \notin pass.left
    BY <1>1, <1>7 DEF left
  <2>5. pass'.phase # "asleep" => pass'.spent = pass.spent
    BY <1>1
  <2>6. pass'.phase = "asleep" => q \notin pass'.left
    BY <2>3, <2>4
  <2> QED
    BY <1>0, <2>1, <2>2, <2>3, <2>4, <2>5, <2>6 DEF TimeKnows
<1>8. r \notin pass'.left /\ (pass'.phase # "asleep" => pass'.spent = pass.spent)
  BY <1>1 DEF left
<1> QED
  BY <1>0, <1>1, <1>5, <1>6, <1>7, <1>8 DEF PassKnows, new

-----------------------------------------------------------------------------
(* The steps *)

LEMMA RoutersInitially == Init => RoutersIInv
<1> SUFFICES ASSUME Init PROVE RoutersIInv
  OBVIOUS
<1>1. /\ MaxRetry \in Nat \ {0} /\ Cadence \in Nat \ {0} /\ AgeCap \in Nat /\ CallLimit \in Nat
  BY RoutersAssumption, PassLimits
<1>2. Healthy \in Run /\ Healthy.n = 0
  BY <1>1 DEF Healthy, Run
<1>3. health \in [Routers -> Run] /\ \A r \in Routers : ~Held(health[r])
  BY <1>2 DEF Init, Held
<1>4. PassType(pass) /\ \A n \in Nat : PassLasts(pass, n)
  BY ReadingIs DEF Init
<1>5. PassKnows
  BY <1>4, SettledCounts DEF PassKnows
<1>6. NewHist \in Histories
  BY DEF NewHist, Histories
<1>7. hist \in [Routers -> Histories] /\ \A r \in Routers : hist[r].out = 0
  BY <1>6 DEF Init, NewHist
<1>8. NoWord \in Readings /\ NoWord.up = "none"
  BY DEF NoWord, Readings
<1>9. latest \in [Routers -> Readings] /\ \A r \in Routers : latest[r].up = "none"
  BY <1>8 DEF Init
<1>10. sincePoll \in [Routers -> 0 .. Cadence] /\ outage \in [Dishes -> NoRun .. AgeCap] /\ \A r \in Dishes : outage[r] = NoRun
  BY <1>1 DEF Init, NoRun
<1>11. TypeOK
  BY <1>3, <1>4, <1>9, <1>10 DEF TypeOK, Run, PassType
<1>12. DownIsItsWord /\ (\A r \in Routers : TimeKnows(r)) /\ \A r \in Dishes : OutageKnows(r)
  BY <1>3, <1>7, <1>9, <1>10, RoutersAssumption DEF DownIsItsWord, TimeKnows, OutageKnows
<1> QED
  BY <1>5, <1>7, <1>11, <1>12 DEF RoutersIInv

\* The parts of the invariant, by name.
LEMMA RoutersTyped ==
    ASSUME RoutersIInv
    PROVE  /\ health \in [Routers -> Run] /\ hist \in [Routers -> Histories] /\ latest \in [Routers -> Readings]
           /\ outage \in [Dishes -> NoRun .. AgeCap] /\ sincePoll \in [Routers -> 0 .. Cadence]
           /\ PassType(pass) /\ PassLasts(pass, Cardinality(Settled(health, pass))) /\ PassKnows
           /\ \A r \in Routers : TimeKnows(r)
           /\ \A r \in Dishes : OutageKnows(r)
           /\ DownIsItsWord
BY DEF RoutersIInv, TypeOK, Run, PassKnows

LEMMA AnswerStep == ASSUME RoutersIInv, NEW r \in Routers, Answer(r) PROVE RoutersIInv'
<1>0. PassType(pass) /\ PassLasts(pass, Cardinality(Settled(health, pass)))
  BY RoutersTyped
<1>1. /\ pass.phase = "reading" /\ r \in DOMAIN pass.reads /\ UNCHANGED <<health, sincePoll, outage, latest, hist>>
      /\ pass.left = DOMAIN pass.reads
  BY <1>0 DEF Answer, PassType
<1>2. PICK a \in Answers(r) :
         pass' = [pass EXCEPT !.reads = [pass.reads EXCEPT ![r] = a], !.took[r] = pass.spent,
                     !.phase = IF \E q \in DOMAIN [pass.reads EXCEPT ![r] = a] : [pass.reads EXCEPT ![r] = a][q] = "asked"
                               THEN "reading" ELSE "folding"]
  BY DEF Answer
<1> DEFINE reads == [pass.reads EXCEPT ![r] = a]
           took == [pass.took EXCEPT ![r] = pass.spent]
           phase == IF \E q \in DOMAIN reads : reads[q] = "asked" THEN "reading" ELSE "folding"
<1>3. pass' = [phase |-> phase, reads |-> reads, took |-> took, spent |-> pass.spent, wait |-> pass.wait, left |-> pass.left]
  <2>1. pass = [phase |-> pass.phase, reads |-> pass.reads, took |-> pass.took, spent |-> pass.spent, wait |-> pass.wait, left |-> pass.left]
    BY <1>0 DEF PassType
  <2>2. pass' = [pass EXCEPT !.reads = reads, !.took = took, !.phase = phase]
    BY <1>2, <2>1
  <2> HIDE DEF reads, took, phase
  <2> QED
    BY <2>1, <2>2
<1>4. a \in Replies /\ a # "asked"
  BY DEF Answers, Replies
<1>5. /\ DOMAIN reads = DOMAIN pass.reads /\ reads \in [DOMAIN reads -> Replies] /\ took \in [DOMAIN reads -> Nat]
      /\ \A q \in DOMAIN reads : reads[q] = IF q = r THEN a ELSE pass.reads[q]
      /\ \A q \in DOMAIN reads : took[q] = IF q = r THEN pass.spent ELSE pass.took[q]
  BY <1>0, <1>1, <1>4 DEF PassType
<1>6. phase \in {"reading", "folding"} /\ (phase = "folding" => \A q \in DOMAIN reads : reads[q] # "asked")
  OBVIOUS
<1> HIDE DEF reads, took, phase
<1>7. /\ pass'.phase = phase /\ pass'.reads = reads /\ pass'.took = took /\ pass'.spent = pass.spent
      /\ pass'.wait = pass.wait /\ pass'.left = pass.left
      /\ pass' = [phase |-> pass'.phase, reads |-> pass'.reads, took |-> pass'.took, spent |-> pass'.spent,
                  wait |-> pass'.wait, left |-> pass'.left]
  BY <1>3
<1>8. PassType(pass)'
  <2>1. \A q \in DOMAIN reads : took[q] <= pass.spent /\ (reads[q] = "asked" \/ reads[q] \in Answers(q))
    BY <1>0, <1>1, <1>5 DEF PassType
  <2> QED
    BY <1>0, <1>1, <1>5, <1>6, <1>7, <2>1 DEF PassType
<1>9. Settled(health, pass)' = Settled(health, pass)
  BY <1>1, <1>7 DEF Settled
<1>10. PassLasts(pass, Cardinality(Settled(health, pass)))'
  <2> DEFINE n == Cardinality(Settled(health, pass))
  <2>1. n \in Nat /\ pass.spent <= CallLimit
    BY <1>0, <1>1, SettledCounts DEF PassLasts
  <2> HIDE DEF n
  <2>2. PassLimit(n) \in Nat /\ CallLimit <= PassLimit(n) /\ CallLimit \in Nat /\ pass.spent \in Nat
    BY <1>0, <2>1, PassLimits, RoutersAssumption DEF PassType
  <2>3. PassLasts(pass', n)
    BY <1>6, <1>7, <2>1, <2>2 DEF PassLasts
  <2> QED
    BY <1>9, <2>3 DEF n
<1>11. PassKnows' /\ TypeOK' /\ DownIsItsWord'
  BY <1>1, <1>7, <1>8, <1>10 DEF RoutersIInv, PassKnows, TypeOK, PassType, DownIsItsWord
<1>12. \A q \in Routers : TimeKnows(q)'
  BY <1>1, <1>6, <1>7 DEF RoutersIInv, TimeKnows
<1>13. \A q \in Dishes : OutageKnows(q)'
  BY <1>1 DEF RoutersIInv, OutageKnows
<1> QED
  BY <1>1, <1>11, <1>12, <1>13 DEF RoutersIInv

\* A poll's outcome sets the age of a dish's outage as it sets its history.
LEMMA SnapshotStep ==
    ASSUME RoutersIInv, NEW r \in pass.left, pass.phase = "folding", Snapshot(r),
           hist' \in [Routers -> Histories],
           \A q \in Routers : q # r => hist'[q] = hist[q],
           hist'[r].out = IF pass.reads[r] \notin {"out", "longOut"} THEN 0
                          ELSE IF hist[r].out = 0 THEN pass.spent + 1 ELSE hist[r].out
    PROVE  outage' \in [Dishes -> NoRun .. AgeCap] /\ \A q \in Dishes : OutageKnows(q)'
<1>0. /\ outage \in [Dishes -> NoRun .. AgeCap] /\ AgeCap \in Nat /\ pass.spent \in Nat /\ Dishes \subseteq Routers
      /\ r \in Routers
  BY RoutersTyped, PassLimits, RoutersAssumption DEF PassType
<1>1. r \in Dishes => pass.reads[r] \in {"up", "out", "longOut", "failed"}
  BY RoutersTyped DEF PassType, Answers
<1>2. ASSUME NEW q \in Dishes, q # r, outage'[q] = outage[q] PROVE OutageKnows(q)'
  <2>1. hist'[q] = hist[q] /\ OutageKnows(q)
    BY <1>0, <1>2, RoutersTyped
  <2> QED
    BY <1>2, <2>1 DEF OutageKnows
<1>3. CASE r \notin Dishes
  <2>1. outage' = outage
    BY <1>3 DEF Snapshot
  <2> QED
    BY <1>0, <1>2, <1>3, <2>1
<1>4. CASE r \in Dishes
  <2> DEFINE age == IF pass.reads[r] \in {"up", "failed"} THEN NoRun
                    ELSE IF outage[r] = NoRun THEN Cap(pass.spent, AgeCap) ELSE outage[r]
  <2>1. outage' = [outage EXCEPT ![r] = age]
    BY <1>4 DEF Snapshot
  <2>2. age \in NoRun .. AgeCap /\ (outage[r] = NoRun => age \in {NoRun, Cap(pass.spent, AgeCap)})
    BY <1>0, <1>4 DEF Cap, NoRun
  <2>3. outage' \in [Dishes -> NoRun .. AgeCap] /\ outage'[r] = age /\ \A q \in Dishes : q # r => outage'[q] = outage[q]
    BY <1>0, <1>4, <2>1, <2>2
  <2>4. OutageKnows(r) /\ hist[r].out \in Nat
    BY <1>0, <1>4, RoutersTyped DEF Histories
  <2>5. OutageKnows(r)'
    <3>1. CASE pass.reads[r] \in {"up", "failed"}
      BY <1>1, <1>4, <2>3, <3>1 DEF OutageKnows
    <3>2. CASE pass.reads[r] \in {"out", "longOut"} /\ outage[r] = NoRun
      <4>1. hist[r].out = 0
        BY <2>4, <3>2 DEF OutageKnows
      <4>2. hist'[r].out = pass.spent + 1 /\ age = Cap(pass.spent, AgeCap)
        BY <3>2, <4>1
      <4>3. age \in Nat /\ age <= pass.spent
        BY <1>0, <4>2 DEF Cap
      <4> HIDE DEF age
      <4> QED
        BY <1>0, <2>3, <4>2, <4>3 DEF OutageKnows, NoRun
    <3>3. CASE pass.reads[r] \in {"out", "longOut"} /\ outage[r] # NoRun
      <4>1. hist[r].out # 0
        BY <2>4, <3>3 DEF OutageKnows
      <4>2. hist'[r].out = hist[r].out /\ outage'[r] = outage[r]
        BY <2>3, <3>3, <4>1
      <4> QED
        BY <2>4, <4>2 DEF OutageKnows
    <3> QED
      BY <1>1, <1>4, <3>1, <3>2, <3>3
  <2> QED
    BY <1>2, <2>3, <2>5
<1> QED
  BY <1>3, <1>4

\* What a sample is made of.
LEMMA SampleIs ==
    ASSUME RoutersIInv, NEW r \in pass.left, pass.phase = "folding"
    PROVE  /\ Sample(r) \in {"up", "down", "measured", "failed"}
           /\ pass.reads[r] = "failed" => Sample(r) = "failed"
           /\ Sample(r) = "measured" => pass.reads[r] = "longOut" \/ (pass.reads[r] = "out" /\ r \in Dishes /\ OutLong(CarryOutage(r)))
<1>1. pass.reads[r] \in Answers(r)
  BY RoutersTyped DEF PassType
<1>2. (r \in Dishes /\ pass.reads[r] \in {"up", "out", "longOut", "failed"}) \/ pass.reads[r] \in {"up", "down", "failed"}
  BY <1>1 DEF Answers
<1> QED
  BY <1>2 DEF Sample

LEMMA SuppressStep == ASSUME RoutersIInv, NEW r \in Routers, Suppress(r) PROVE RoutersIInv'
<1>1. /\ pass.phase = "folding" /\ r \in pass.left /\ pass.reads[r] = "failed" /\ pass' = Onward(pass.left \ {r}, FALSE)
      /\ sincePoll' = [sincePoll EXCEPT ![r] = Cap(pass.spent, Cadence)] /\ Snapshot(r) /\ UNCHANGED <<health, latest>>
  BY DEF Suppress
<1> DEFINE new == [hist[r] EXCEPT !.held = Held(health[r]), !.out = 0]
<1>2. hist' = [hist EXCEPT ![r] = new]
  BY RoutersTyped DEF Suppress, Held, Histories
<1>3. new \in Histories /\ new.held = Held(health[r]) /\ new.out = 0 /\ new.bad = hist[r].bad /\ new.said = hist[r].said
  BY RoutersTyped DEF Histories, Held, Run
<1> HIDE DEF new
<1>4. hist' \in [Routers -> Histories] /\ hist'[r] = new /\ \A q \in Routers : q # r => hist'[q] = hist[q]
  BY <1>2, <1>3, RoutersTyped
<1>5. outage' \in [Dishes -> NoRun .. AgeCap] /\ \A q \in Dishes : OutageKnows(q)'
  BY <1>1, <1>3, <1>4, SnapshotStep
<1>6. PassKnows' /\ \A q \in Routers : q # r => TimeKnows(q)'
  BY <1>1, <1>4, FoldedIn
<1>7. TimeKnows(r)'
  BY <1>1, <1>3, <1>4, RoutersTyped DEF TimeKnows
<1>8. sincePoll' \in [Routers -> 0 .. Cadence]
  <2>1. Cap(pass.spent, Cadence) \in 0 .. Cadence
    BY RoutersTyped, RoutersAssumption DEF PassType, Cap
  <2> QED
    BY <1>1, <2>1, RoutersTyped
<1>9. TypeOK'
  BY <1>1, <1>5, <1>6, <1>8 DEF RoutersIInv, TypeOK, PassKnows, PassType
<1>10. DownIsItsWord'
  <2>1. \A q \in Routers : hist'[q].said = hist[q].said
    BY <1>3, <1>4
  <2> QED
    BY <1>1, <2>1 DEF RoutersIInv, DownIsItsWord
<1> QED
  BY <1>4, <1>5, <1>6, <1>7, <1>9, <1>10 DEF RoutersIInv

\* What one answer makes of a router's health.
LEMMA Verdicts ==
    ASSUME RoutersIInv, NEW r \in pass.left, pass.phase = "folding",
           NEW lag, lag = pass.spent - pass.took[r],
           NEW age, age = (IF health[r].n = 0 THEN pass.spent ELSE health[r].first),
           NEW new, new = Observed(health[r], Sample(r), age, lag)
    PROVE  /\ lag \in Nat /\ lag <= pass.spent /\ age \in 0 .. AgeCap /\ new \in Run
           /\ Sample(r) = "up" => new = Healthy
           /\ Sample(r) # "up" => /\ new.n > 0 /\ (health[r].down => new.down)
                                  /\ new.down /\ ~health[r].down =>
                                       Sample(r) = "measured" \/ (health[r].n > 0 /\ age - lag >= Grace)
                                  /\ ~new.down => /\ new.first = age
                                                  /\ new.retryIn > 0 => age + new.retryIn <= Grace
                                                  /\ health[r].n > 0 => age - lag < Grace
<1>1. /\ r \in Routers /\ health[r] \in Run /\ pass.spent \in Nat /\ pass.took[r] \in Nat /\ pass.took[r] <= pass.spent
  BY RoutersTyped DEF PassType
<1>2. lag \in Nat /\ lag <= pass.spent
  BY <1>1
<1>3. pass.spent <= PassLimit(K)
  BY RoutersTyped, SpentInAll
<1>4. PassLimit(K) \in Nat /\ AgeCap = OutageMin + 2 * (PassLimit(K) + 1) /\ OutageMin \in Nat /\ AgeCap \in Nat
  BY PassLimits, RoutersAssumption
<1>5. age \in 0 .. AgeCap
  BY <1>1, <1>3, <1>4 DEF Run
<1> QED
  BY <1>1, <1>2, <1>5, ObservedIs

LEMMA ObserveStep == ASSUME RoutersIInv, NEW r \in Routers, Observe(r) PROVE RoutersIInv'
<1> DEFINE lag == pass.spent - pass.took[r]
           age == IF health[r].n = 0 THEN pass.spent ELSE health[r].first
           new == Observed(health[r], Sample(r), age, lag)
           verdict == Verdict(health[r], new)
           params == Params(r, verdict)
           word == IF params = {} THEN latest[r] ELSE CHOOSE w \in params : TRUE
           story == Recorded(r, new.down)
<1>1. /\ pass.phase = "folding" /\ r \in pass.left /\ Snapshot(r)
      /\ health' = [health EXCEPT ![r] = new]
      /\ latest' = [latest EXCEPT ![r] = word]
      /\ hist' = [hist EXCEPT ![r] = story]
      /\ sincePoll' = [sincePoll EXCEPT ![r] = Cap(pass.spent, Cadence)]
  BY DEF Observe
<1>2. PICK posts \in BOOLEAN : (posts => params # {}) /\ pass' = Onward(pass.left \ {r}, posts)
  BY DEF Observe
<1>3. /\ lag \in Nat /\ lag <= pass.spent /\ age \in 0 .. AgeCap /\ new \in Run
      /\ Sample(r) = "up" => new = Healthy
      /\ Sample(r) # "up" => /\ new.n > 0 /\ (health[r].down => new.down)
                             /\ ~new.down => /\ new.first = age
                                             /\ new.retryIn > 0 => age + new.retryIn <= Grace
                                             /\ health[r].n > 0 => age - lag < Grace
  BY <1>1, Verdicts
<1>4. /\ Sample(r) \in {"up", "down", "measured", "failed"} /\ pass.spent \in Nat /\ health[r] \in Run /\ hist[r] \in Histories
      /\ TimeKnows(r) /\ latest[r] \in Readings /\ Grace \in Nat \ {0}
  BY <1>1, SampleIs, RoutersTyped, RoutersAssumption DEF PassType
<1>5. verdict = (IF new.n = 0 THEN "Report" ELSE IF health[r].down THEN "StillDown" ELSE IF new.down THEN "WentDown" ELSE "Hold")
  BY <1>3, <1>4 DEF Verdict, Run
<1> HIDE DEF lag, new, verdict
\* What is held is not reported.
<1>6. Held(new) => verdict = "Hold" /\ Sample(r) # "up" /\ ~health[r].down /\ ~new.down
  BY <1>3, <1>5 DEF Held, Healthy
<1>7. posts => ~Held(new)
  BY <1>2, <1>6 DEF Params
<1>8. /\ story \in Histories
      /\ story.bad = (IF Sample(r) = "up" \/ new.down THEN 0 ELSE IF health[r].n = 0 THEN pass.spent ELSE hist[r].bad)
      /\ story.out = (IF pass.reads[r] \notin {"out", "longOut"} THEN 0 ELSE IF hist[r].out = 0 THEN pass.spent + 1 ELSE hist[r].out)
      /\ story.said = (IF Sample(r) = "failed" THEN hist[r].said ELSE Sample(r))
      /\ story.held => hist[r].held /\ Sample(r) # "up" /\ ~new.down
      /\ hist[r].held /\ Sample(r) # "up" /\ ~new.down => story.held
  <2> DEFINE bad == IF Sample(r) = "up" \/ new.down THEN 0 ELSE IF health[r].n = 0 THEN pass.spent ELSE hist[r].bad
             out == IF pass.reads[r] \notin {"out", "longOut"} THEN 0 ELSE IF hist[r].out = 0 THEN pass.spent + 1 ELSE hist[r].out
             said == IF Sample(r) = "failed" THEN hist[r].said ELSE Sample(r)
             held == hist[r].held /\ Sample(r) # "up" /\ ~new.down
  <2>1. story = [bad |-> bad, out |-> out, said |-> said, held |-> held]
    BY DEF Recorded
  <2>2. bad \in Nat /\ out \in Nat /\ said \in {"none", "up", "down", "measured"}
    BY <1>4 DEF Histories
  <2>3. held \in BOOLEAN
    BY <1>3, <1>4 DEF Histories, Run
  <2> HIDE DEF bad, out, said, held, story
  <2>4. story.bad = bad /\ story.out = out /\ story.said = said /\ story.held = held /\ story \in Histories
    BY <2>1, <2>2, <2>3 DEF Histories
  <2> QED
    BY <2>4 DEF bad, out, said, held
<1> HIDE DEF story, age, params, word
<1>9. /\ health' \in [Routers -> Run] /\ health'[r] = new /\ \A q \in Routers : q # r => health'[q] = health[q]
      /\ hist' \in [Routers -> Histories] /\ hist'[r] = story /\ \A q \in Routers : q # r => hist'[q] = hist[q]
  <2>1. health \in [Routers -> Run] /\ hist \in [Routers -> Histories]
    BY RoutersTyped
  <2>2. new \in Run /\ story \in Histories
    BY <1>3, <1>8
  <2> QED
    BY <1>1, <2>1, <2>2
<1>10. outage' \in [Dishes -> NoRun .. AgeCap] /\ \A q \in Dishes : OutageKnows(q)'
  <2>1. hist'[r].out = IF pass.reads[r] \notin {"out", "longOut"} THEN 0
                       ELSE IF hist[r].out = 0 THEN pass.spent + 1 ELSE hist[r].out
    BY <1>8, <1>9
  <2> QED
    BY <1>1, <1>9, <2>1, SnapshotStep
<1>11. /\ PassKnows' /\ \A q \in Routers : q # r => TimeKnows(q)'
       /\ r \notin pass'.left /\ (pass'.phase # "asleep" => pass'.spent = pass.spent)
       /\ Held(new) => pass.spent <= PassLimit(K - 1) /\ PassLimit(K - 1) \in Nat
  BY <1>1, <1>2, <1>7, <1>9, FoldedIn
<1>12. TimeKnows(r)'
  <2> SUFFICES ASSUME Held(new) PROVE TimeKnows(r)'
    BY <1>9 DEF TimeKnows
  <2>1. /\ Sample(r) # "up" /\ ~new.down /\ ~health[r].down /\ new.first = age
        /\ new.retryIn > 0 => new.first + new.retryIn <= Grace
        /\ health[r].n > 0 => age - lag < Grace
    BY <1>3, <1>6
  <2>2. age = (IF health[r].n = 0 THEN pass.spent ELSE health[r].first) /\ health[r].n \in Nat
    BY <1>4 DEF age, Run
  <2>3. story.bad = new.first
    <3>1. health[r].n > 0 => hist[r].bad = health[r].first
      BY <1>4, <2>1 DEF TimeKnows, Held
    <3>2. story.bad = IF health[r].n = 0 THEN pass.spent ELSE hist[r].bad
      BY <1>8, <2>1
    <3> QED
      BY <2>1, <2>2, <3>1, <3>2
  <2>4. age \in Nat /\ age < Grace + pass.spent
    BY <1>3, <1>4, <2>1, <2>2
  <2>5. age < Grace + PassLimit(K - 1)
    BY <1>4, <1>11, <2>4
  <2> QED
    BY <1>9, <1>11, <2>1, <2>3, <2>4, <2>5 DEF TimeKnows
<1>13. sincePoll' \in [Routers -> 0 .. Cadence]
  <2>1. Cap(pass.spent, Cadence) \in 0 .. Cadence
    BY <1>4, RoutersAssumption DEF Cap
  <2> QED
    BY <1>1, <2>1, RoutersTyped
\* The reading that is reported.
<1>14. word \in Readings /\ (word.up = "0" => story.said \in {"down", "measured"})
  <2>1. latest[r].up = "0" => hist[r].said \in {"down", "measured"}
    BY <1>1, RoutersTyped DEF DownIsItsWord
  <2>2. CASE params = {}
    <3>1. Sample(r) = "failed" \/ verdict = "Hold"
      BY <2>2 DEF params, Params
    <3>2. verdict = "Hold" => Sample(r) # "up"
      BY <1>3, <1>5 DEF Healthy
    <3>3. Sample(r) \in {"down", "measured"} \/ Sample(r) = "failed"
      BY <1>4, <3>1, <3>2
    <3>4. word = latest[r]
      BY <2>2 DEF word
    <3>5. Sample(r) = "failed" => story.said = hist[r].said
      BY <1>8
    <3>6. Sample(r) # "failed" => story.said = Sample(r)
      BY <1>8
    <3> QED
      BY <1>4, <2>1, <3>3, <3>4, <3>5, <3>6
  <2>3. CASE params # {} /\ Sample(r) # "failed"
    <3> DEFINE w == [up |-> IF Sample(r) = "up" THEN "1" ELSE "0", src |-> "read"]
    <3>1. params = {w}
      BY <2>3 DEF params, Params
    <3>2. word = w
      BY <2>3, <3>1 DEF word
    <3>3. w \in Readings /\ (w.up = "0" => Sample(r) # "up")
      <4>1. (IF Sample(r) = "up" THEN "1" ELSE "0") \in {"0", "1", "none"}
        OBVIOUS
      <4> QED
        BY <4>1 DEF Readings
    <3>4. story.said = Sample(r)
      BY <1>8, <2>3
    <3> HIDE DEF w
    <3> QED
      BY <1>4, <2>3, <3>2, <3>3, <3>4
  <2>4. CASE params # {} /\ Sample(r) = "failed"
    <3>1. params = {Unread(latest[r])}
      BY <2>4 DEF params, Params
    <3>2. word = Unread(latest[r])
      BY <2>4, <3>1 DEF word
    <3>3. Unread(latest[r]) \in Readings /\ Unread(latest[r]).up = latest[r].up
      <4>1. latest[r] \in [up: {"0", "1", "none"}, src: {"read", "unread", "none"}]
        BY <1>4 DEF Readings, NoWord
      <4> QED
        BY <4>1 DEF Unread, Readings
    <3>4. story.said = hist[r].said
      BY <1>8, <2>4
    <3> QED
      BY <2>1, <3>2, <3>3, <3>4
  <2> QED
    BY <2>2, <2>3, <2>4
<1>15. latest' \in [Routers -> Readings] /\ latest'[r] = word /\ \A q \in Routers : q # r => latest'[q] = latest[q]
  BY <1>1, <1>14, RoutersTyped
<1>16. DownIsItsWord'
  BY <1>9, <1>14, <1>15, RoutersTyped DEF DownIsItsWord
<1>17. TypeOK'
  BY <1>9, <1>10, <1>11, <1>13, <1>15 DEF TypeOK, Run, PassKnows, PassType
<1> QED
  BY <1>9, <1>10, <1>11, <1>12, <1>16, <1>17 DEF RoutersIInv

LEMMA PostEndsStep == ASSUME RoutersIInv, PostEnds PROVE RoutersIInv'
<1>1. pass.phase = "posting" /\ pass' = Onward(pass.left, FALSE) /\ UNCHANGED <<health, sincePoll, outage, latest, hist>>
  BY DEF PostEnds
<1>2. PassType(pass) /\ PassLasts(pass, Cardinality(Settled(health, pass))) /\ PassKnows /\ pass.spent \in Nat
  BY RoutersTyped DEF PassType
<1>3. /\ PassType(pass') /\ pass'.left = pass.left
      /\ pass.left # {} => pass'.phase = "folding" /\ pass'.spent = pass.spent
      /\ pass.left = {} => pass'.phase = "asleep" /\ pass'.spent = 0
  <2>1. pass.left \in SUBSET pass.left /\ pass.phase \in {"folding", "posting"}
    BY <1>1
  <2>2. PICK left \in SUBSET pass.left : left = pass.left
    BY <2>1
  <2>3. PICK posts \in BOOLEAN : ~posts /\ posts = FALSE
    OBVIOUS
  <2>4. pass' = Onward(left, posts)
    BY <1>1, <2>2, <2>3, Zenon
  <2>5. /\ PassType(pass') /\ pass'.left = left
        /\ ~posts /\ left # {} => pass'.phase = "folding" /\ pass'.spent = pass.spent
        /\ ~posts /\ left = {} => pass'.phase = "asleep" /\ pass'.spent = 0
    BY <1>2, <2>1, <2>4, OnwardIs
  <2> QED
    BY <2>2, <2>3, <2>5
<1>4. Settled(health, pass)' = Settled(health, pass)
  BY <1>1, <1>3 DEF Settled
<1>5. PassLasts(pass, Cardinality(Settled(health, pass)))'
  <2> DEFINE n == Cardinality(Settled(health, pass))
  <2>1. n \in Nat /\ pass.spent <= PassLimit(n)
    <3>1. n \in Nat
      BY SettledCounts
    <3> QED
      BY <1>2, <3>1, SpentIsBounded
  <2> HIDE DEF n
  <2>2. CallLimit \in Nat
    BY RoutersAssumption
  <2>3. PassLasts(pass', n)
    BY <1>3, <2>1, <2>2 DEF PassLasts
  <2> QED
    BY <1>4, <2>3 DEF n
<1>6. ASSUME NEW q \in Routers PROVE TimeKnows(q)'
  <2> SUFFICES ASSUME Held(health[q]) PROVE TimeKnows(q)'
    BY <1>1 DEF TimeKnows
  <2>1. q \notin Settled(health, pass)
    BY DEF Settled
  <2>2. pass.spent <= PassLimit(K - 1) /\ PassLimit(K - 1) \in Nat
    BY <1>2, <2>1, OthersPost
  <2>3. TimeKnows(q) /\ health[q] \in Run /\ Grace \in Nat
    BY RoutersTyped, RoutersAssumption
  <2>4. health[q].first \in Nat
    BY <2>3, CapType DEF Run
  <2>5. CASE pass.left = {}
    <3>1. health[q].first < Grace + pass.spent \/ hist[q].held
      BY <1>1, <2>3, <2>5 DEF TimeKnows
    <3>2. health[q].first < Grace + PassLimit(K - 1) \/ hist[q].held
      BY <1>2, <2>2, <2>3, <2>4, <3>1
    <3> QED
      BY <1>1, <1>3, <2>3, <2>5, <3>2 DEF TimeKnows
  <2>6. CASE pass.left # {}
    BY <1>1, <1>3, <2>3, <2>6 DEF TimeKnows
  <2> QED
    BY <2>5, <2>6
<1>7. TypeOK' /\ DownIsItsWord'
  BY <1>1, <1>3 DEF RoutersIInv, TypeOK, PassType, DownIsItsWord
<1>8. \A q \in Dishes : OutageKnows(q)'
  BY <1>1 DEF RoutersIInv, OutageKnows
<1> QED
  BY <1>1, <1>3, <1>5, <1>6, <1>7, <1>8 DEF RoutersIInv, PassKnows

LEMMA WakeStep == ASSUME RoutersIInv, Wake PROVE RoutersIInv'
<1>1. pass.phase = "asleep" /\ pass' = Reading(Routers) /\ UNCHANGED <<health, outage, latest, hist>>
  BY DEF Wake
<1>2. PassType(pass') /\ pass'.spent = 0 /\ pass'.left = Routers /\ \A n \in Nat : PassLasts(pass', n)
  BY <1>1, ReadingIs
<1>3. PassKnows'
  <2>1. Cardinality(Settled(health', pass')) \in Nat
    BY SettledCounts
  <2> QED
    BY <1>2, <2>1 DEF PassKnows
<1>4. ASSUME NEW q \in Routers PROVE TimeKnows(q)'
  <2>1. TimeKnows(q) /\ health[q] \in Run /\ Grace \in Nat
    BY RoutersTyped, RoutersAssumption
  <2>2. health[q].first \in Nat
    BY <2>1, CapType DEF Run
  <2>3. K - 1 \in Nat /\ PassLimit(K - 1) \in Nat
    <3>1. K # 0 /\ K \in Nat
      BY RoutersAssumption, FS_EmptySet, PassLimits DEF K
    <3>2. K - 1 \in Nat
      BY <3>1
    <3> QED
      BY <3>2, PassLimits
  <2>4. pass'.phase # "asleep"
    BY <1>2 DEF PassType
  <2> QED
    BY <1>1, <1>2, <2>1, <2>2, <2>3, <2>4 DEF TimeKnows
<1>5. sincePoll' \in [Routers -> 0 .. Cadence]
  BY RoutersAssumption DEF Wake
<1>6. TypeOK' /\ DownIsItsWord'
  BY <1>1, <1>2, <1>5 DEF RoutersIInv, TypeOK, PassType, DownIsItsWord
<1>7. \A q \in Dishes : OutageKnows(q)'
  BY <1>1 DEF RoutersIInv, OutageKnows
<1> QED
  BY <1>1, <1>3, <1>4, <1>6, <1>7 DEF RoutersIInv

\* What a tick does to the clocks of one router.
LEMMA Ticks ==
    ASSUME RoutersIInv, Tick, NEW q \in Routers
    PROVE  /\ health'[q] \in Run /\ health'[q].n = health[q].n /\ health'[q].down = health[q].down
           /\ health[q].retryIn > 0 => health'[q].retryIn = health[q].retryIn - 1
           /\ health[q].retryIn = 0 => health'[q].retryIn = 0
           /\ Held(health[q]) => /\ health'[q].first = Cap(health[q].first + 1, AgeCap)
                                 /\ health'[q].first <= health[q].first + 1
           /\ hist'[q] \in Histories /\ hist'[q].held = hist[q].held /\ hist'[q].said = hist[q].said
           /\ Held(health[q]) => hist'[q].bad = Cap(hist[q].bad + 1, AgeCap)
           /\ hist'[q].out = IF hist[q].out = 0 THEN 0 ELSE Cap(hist[q].out + 1, AgeCap)
<1> DEFINE first == IF Held(health[q]) THEN Cap(health[q].first + 1, AgeCap) ELSE 0
           retry == IF health[q].retryIn > 0 THEN health[q].retryIn - 1 ELSE 0
           bad == IF Held(health[q]) THEN Cap(hist[q].bad + 1, AgeCap) ELSE 0
           out == IF hist[q].out = 0 THEN 0 ELSE Cap(hist[q].out + 1, AgeCap)
<1>1. health'[q] = [health[q] EXCEPT !.first = first, !.retryIn = retry]
  BY DEF Tick, Held
<1>2. hist'[q] = [hist[q] EXCEPT !.bad = bad, !.out = out]
  BY DEF Tick, Aged, Held
<1>3. health[q] \in Run /\ hist[q] \in Histories /\ AgeCap \in Nat /\ MaxRetry \in Nat
  BY RoutersTyped, PassLimits, RoutersAssumption
<1>4. first \in 0 .. AgeCap /\ (Held(health[q]) => first <= health[q].first + 1)
  BY <1>3 DEF Run, Cap
<1>5. retry \in 0 .. MaxRetry
  BY <1>3 DEF Run
<1>6. bad \in Nat /\ out \in Nat
  BY <1>3 DEF Histories, Cap
<1> HIDE DEF first, retry, bad, out
<1>7. /\ health'[q] \in Run /\ health'[q].n = health[q].n /\ health'[q].down = health[q].down
      /\ health'[q].first = first /\ health'[q].retryIn = retry
  BY <1>1, <1>3, <1>4, <1>5 DEF Run
<1>8. /\ hist'[q] \in Histories /\ hist'[q].held = hist[q].held /\ hist'[q].said = hist[q].said
      /\ hist'[q].bad = bad /\ hist'[q].out = out
  BY <1>2, <1>3, <1>6 DEF Histories
<1> QED
  BY <1>4, <1>7, <1>8 DEF first, retry, bad, out

\* A tick makes the pass older, or begins one with all who are due.
LEMMA TickPass ==
    ASSUME RoutersIInv, Tick
    PROVE  /\ PassKnows'
           /\ pass.phase = "asleep" =>
                /\ pass'.spent = 0 /\ (pass'.phase = IF pass'.left = {} THEN "asleep" ELSE "reading")
                /\ \A q \in Routers : q \notin pass'.left => ~Due(health'[q], sincePoll'[q])
           /\ pass.phase # "asleep" => pass'.phase = pass.phase /\ pass'.left = pass.left /\ pass'.spent = pass.spent + 1
<1>1. PassType(pass) /\ PassLasts(pass, Cardinality(Settled(health, pass)))
  BY RoutersTyped
<1>2. Cardinality(Settled(health', pass')) \in Nat
  BY SettledCounts
<1>3. CASE pass.phase = "asleep"
  <2> DEFINE due == {q \in Routers : Due(health'[q], sincePoll'[q])}
  <2>1. pass' = Reading(due) /\ due \in SUBSET Routers
    BY <1>3 DEF Tick
  <2>2. \A q \in Routers : q \notin due => ~Due(health'[q], sincePoll'[q])
    OBVIOUS
  <2> HIDE DEF due
  <2>3. /\ PassType(pass') /\ pass'.spent = 0 /\ pass'.left = due
        /\ (pass'.phase = IF due = {} THEN "asleep" ELSE "reading") /\ \A n \in Nat : PassLasts(pass', n)
    BY <2>1, ReadingIs
  <2> QED
    BY <1>2, <1>3, <2>2, <2>3 DEF PassKnows
<1>4. CASE pass.phase # "asleep"
  <2> DEFINE wait == IF pass.phase = "posting" THEN pass.wait + 1 ELSE pass.wait
  <2>1. pass' = [pass EXCEPT !.spent = @ + 1, !.wait = wait]
    BY <1>4 DEF Tick
  <2>2. pass = [phase |-> pass.phase, reads |-> pass.reads, took |-> pass.took, spent |-> pass.spent, wait |-> pass.wait, left |-> pass.left]
    BY <1>1 DEF PassType
  <2>3. /\ pass.phase \in {"reading", "posting"}
        /\ pass.phase = "reading" => pass.spent < CallLimit
        /\ pass.phase = "posting" => pass.wait < PostLimit
    BY <1>1, <1>4 DEF Tick, PassType
  <2>4. /\ wait \in 0 .. PostLimit /\ PostLimit \in Nat /\ CallLimit \in Nat /\ pass.spent \in Nat /\ pass.wait \in 0 .. PostLimit
        /\ pass.phase = "posting" => wait = pass.wait + 1
    BY <1>1, <2>3, RoutersAssumption DEF PassType
  <2> HIDE DEF wait
  <2>5. pass' = [phase |-> pass.phase, reads |-> pass.reads, took |-> pass.took, spent |-> pass.spent + 1, wait |-> wait, left |-> pass.left]
    BY <2>1, <2>2
  <2>6. /\ pass'.phase = pass.phase /\ pass'.reads = pass.reads /\ pass'.took = pass.took /\ pass'.spent = pass.spent + 1
        /\ pass'.wait = wait /\ pass'.left = pass.left
        /\ pass' = [phase |-> pass'.phase, reads |-> pass'.reads, took |-> pass'.took, spent |-> pass'.spent, wait |-> pass'.wait, left |-> pass'.left]
    BY <2>5
  <2>7. PassType(pass')
    <3>1. \A q \in DOMAIN pass.reads : pass.took[q] <= pass.spent + 1
      BY <1>1, <2>4 DEF PassType
    <3>2. pass.spent + 1 \in Nat
      BY <2>4
    <3> QED
      BY <1>1, <2>4, <2>6, <3>1, <3>2 DEF PassType
  <2>8. Settled(health', pass') = Settled(health, pass)
    <3>1. \A q \in Routers : Held(health'[q]) = Held(health[q])
      BY Ticks DEF Held
    <3> QED
      BY <2>6, <3>1 DEF Settled
  <2>9. PassLasts(pass', Cardinality(Settled(health, pass)))
    <3> DEFINE n == Cardinality(Settled(health, pass))
    <3>1. n \in Nat /\ PassLasts(pass, n)
      BY <1>1, SettledCounts
    <3> HIDE DEF n
    <3>2. PassLimit(n) \in Nat
      BY <3>1, PassLimits
    <3>3. PassLasts(pass', n)
      BY <2>3, <2>4, <2>6, <3>1, <3>2 DEF PassLasts
    <3> QED
      BY <3>3 DEF n
  <2> QED
    BY <1>4, <2>6, <2>7, <2>8, <2>9 DEF PassKnows
<1> QED
  BY <1>3, <1>4

LEMMA TickStep == ASSUME RoutersIInv, Tick PROVE RoutersIInv'
<1>1. \A q \in Routers : /\ health'[q] \in Run /\ hist'[q] \in Histories /\ hist'[q].said = hist[q].said
  BY Ticks
<1>2. /\ health' \in [Routers -> Run] /\ hist' \in [Routers -> Histories]
  <2>1. DOMAIN health' = Routers /\ DOMAIN hist' = Routers /\ health' = [q \in Routers |-> health'[q]] /\ hist' = [q \in Routers |-> hist'[q]]
    BY DEF Tick
  <2> QED
    BY <1>1, <2>1
<1>3. PassKnows'
  BY TickPass
<1>4. sincePoll' \in [Routers -> 0 .. Cadence]
  <2>1. \A q \in Routers : Cap(sincePoll[q] + 1, Cadence) \in 0 .. Cadence
    BY RoutersTyped, RoutersAssumption DEF Cap
  <2> QED
    BY <2>1 DEF Tick
<1>5. ASSUME NEW q \in Dishes
      PROVE  outage'[q] \in NoRun .. AgeCap /\ OutageKnows(q)'
  <2>1. OutageKnows(q) /\ outage[q] \in NoRun .. AgeCap /\ hist[q].out \in Nat /\ q \in Routers
    BY RoutersTyped, RoutersAssumption DEF Histories
  <2>2. AgeCap \in Nat /\ AgeCap >= 2
    BY PassLimits, RoutersAssumption
  <2>3. outage'[q] = IF outage[q] = NoRun THEN NoRun ELSE Cap(outage[q] + 1, AgeCap)
    BY DEF Tick
  <2>4. hist'[q].out = IF hist[q].out = 0 THEN 0 ELSE Cap(hist[q].out + 1, AgeCap)
    BY <2>1, Ticks
  <2> QED
    BY <2>1, <2>2, <2>3, <2>4 DEF OutageKnows, NoRun, Cap
<1>6. outage' \in [Dishes -> NoRun .. AgeCap]
  <2>1. outage' = [q \in Dishes |-> outage'[q]]
    BY DEF Tick
  <2> QED
    BY <1>5, <2>1
<1>7. ASSUME NEW q \in Routers PROVE TimeKnows(q)'
  <2> SUFFICES ASSUME Held(health[q]) PROVE TimeKnows(q)'
    BY Ticks DEF TimeKnows, Held
  <2>1. TimeKnows(q) /\ health[q] \in Run /\ Grace \in Nat /\ pass.spent \in Nat /\ health[q].n > 0
    BY RoutersTyped, RoutersAssumption DEF PassType, Held
  <2>2. /\ health'[q].first \in Nat /\ health[q].first \in Nat /\ health'[q].first <= health[q].first + 1
        /\ health'[q].retryIn \in Nat /\ health[q].retryIn \in Nat
        /\ health[q].retryIn > 0 => health'[q].retryIn = health[q].retryIn - 1
        /\ health[q].retryIn = 0 => health'[q].retryIn = 0
        /\ health'[q].n = health[q].n /\ hist'[q].held = hist[q].held
    <3>1. health'[q] \in Run /\ AgeCap \in Nat /\ MaxRetry \in Nat
      BY Ticks, PassLimits, RoutersAssumption
    <3>2. /\ health'[q].first \in Nat /\ health[q].first \in Nat
          /\ health'[q].retryIn \in Nat /\ health[q].retryIn \in Nat
      BY <2>1, <3>1 DEF Run
    <3> QED
      BY <3>2, Ticks
  <2>3. hist'[q].bad = health'[q].first
    <3>1. hist[q].bad = health[q].first
      BY <2>1 DEF TimeKnows
    <3> QED
      BY <3>1, Ticks
  <2>4. health'[q].retryIn > 0 => health'[q].first + health'[q].retryIn <= Grace
    BY <2>1, <2>2 DEF TimeKnows
  <2>5. K - 1 \in Nat /\ PassLimit(K - 1) \in Nat
    <3>1. K # 0 /\ K \in Nat
      BY RoutersAssumption, FS_EmptySet, PassLimits DEF K
    <3>2. K - 1 \in Nat
      BY <3>1
    <3> QED
      BY <3>2, PassLimits
  <2>6. CASE pass.phase = "asleep"
    <3>1. /\ pass'.spent = 0 /\ (pass'.phase = IF pass'.left = {} THEN "asleep" ELSE "reading")
          /\ q \notin pass'.left => ~Due(health'[q], sincePoll'[q])
      BY <2>6, TickPass
    <3>2. q \notin pass'.left => health'[q].retryIn > 0
      <4>1. health'[q].n > 0
        BY <2>1, <2>2
      <4>2. q \notin pass'.left => health'[q].retryIn # 0
        BY <3>1, <4>1 DEF Due
      <4>3. health'[q].retryIn \in Nat
        BY <2>2
      <4> QED
        BY <4>2, <4>3
    <3>3. q \notin pass'.left => health'[q].first < Grace
      BY <2>1, <2>2, <2>4, <3>2
    <3>4. RoutersIInv /\ pass.left = {}
      BY <2>6, RoutersTyped DEF PassType
    <3>5. ~hist[q].held => health[q].first < Grace + PassLimit(K - 1)
      BY <2>1, <2>6 DEF TimeKnows
    <3>6. ~hist[q].held => health'[q].first <= Grace + PassLimit(K - 1)
      BY <2>1, <2>2, <2>5, <3>5
    <3>7. q \notin pass'.left => health'[q].first < Grace + PassLimit(K - 1)
      BY <2>1, <2>2, <2>5, <3>3
    <3>8. pass'.phase = "asleep" => q \notin pass'.left
      BY <3>1
    <3> QED
      BY <2>1, <2>2, <2>3, <2>4, <2>5, <3>1, <3>3, <3>6, <3>7, <3>8 DEF TimeKnows
  <2>7. CASE pass.phase # "asleep"
    <3>1. pass'.phase = pass.phase /\ pass'.left = pass.left /\ pass'.spent = pass.spent + 1
      BY <2>7, TickPass
    <3>2. ~hist[q].held /\ q \notin pass.left => health'[q].first < Grace + pass'.spent
      <4>1. ~hist[q].held /\ q \notin pass.left => health[q].first < Grace + pass.spent
        BY <2>1, <2>7 DEF TimeKnows
      <4> QED
        BY <2>1, <2>2, <3>1, <4>1
    <3>3. ~hist[q].held /\ q \in pass.left => health'[q].first <= Grace + PassLimit(K - 1) + pass'.spent
      <4>1. ~hist[q].held /\ q \in pass.left => health[q].first <= Grace + PassLimit(K - 1) + pass.spent
        BY <2>1, <2>7 DEF TimeKnows
      <4> QED
        BY <2>1, <2>2, <2>5, <3>1, <4>1
    <3> QED
      BY <2>2, <2>3, <2>4, <2>7, <3>1, <3>2, <3>3 DEF TimeKnows
  <2> QED
    BY <2>6, <2>7
<1>8. TypeOK'
  BY <1>2, <1>3, <1>4, <1>6, RoutersTyped DEF Tick, TypeOK, Run, PassKnows, PassType
<1>9. DownIsItsWord'
  BY <1>1, RoutersTyped DEF Tick, DownIsItsWord
<1> QED
  BY <1>2, <1>3, <1>5, <1>7, <1>8, <1>9 DEF RoutersIInv

LEMMA RoutersStep == RoutersIInv /\ [Next]_vars => RoutersIInv'
<1> SUFFICES ASSUME RoutersIInv, [Next]_vars PROVE RoutersIInv'
  OBVIOUS
<1>1. CASE UNCHANGED vars
  BY <1>1 DEF vars, RoutersIInv, TypeOK, DownIsItsWord, PassKnows, PassType, PassLasts, Settled, TimeKnows, OutageKnows
<1> QED
  BY <1>1, AnswerStep, ObserveStep, SuppressStep, PostEndsStep, WakeStep, TickStep DEF Next

-----------------------------------------------------------------------------
(* The window *)

\* The step that calls a router down is the one that folds its answer in.
LEMMA WindowStep ==
    ASSUME RoutersIInv, [Next]_vars, NEW r \in Routers, ~health[r].down, health'[r].down
    PROVE  \/ pass.reads[r] = "longOut"
           \/ pass.reads[r] = "out" /\ hist[r].out - 1 - pass.spent > OutageMin
           \/ Sample(r) # "measured" /\ health[r].n > 0 /\ hist[r].bad >= Grace + pass.spent - pass.took[r]
<1>1. Observe(r)
  <2>1. health' # health
    OBVIOUS
  <2>2. ~Tick
    BY Ticks
  <2>3. \E q \in Routers : Observe(q)
    BY <2>1, <2>2 DEF Next, vars, Answer, Suppress, PostEnds, Wake
  <2>4. \A q \in Routers : Observe(q) => \A x \in Routers : x # q => health'[x] = health[x]
    BY RoutersTyped DEF Observe
  <2> QED
    BY <2>3, <2>4
<1> DEFINE lag == pass.spent - pass.took[r]
           age == IF health[r].n = 0 THEN pass.spent ELSE health[r].first
           new == Observed(health[r], Sample(r), age, lag)
<1>2. pass.phase = "folding" /\ r \in pass.left /\ health'[r] = new
  BY <1>1, RoutersTyped DEF Observe
<1>3. Sample(r) = "measured" \/ (health[r].n > 0 /\ age - lag >= Grace)
  <2>1. /\ Sample(r) = "up" => new = Healthy
        /\ Sample(r) # "up" => (new.down /\ ~health[r].down => Sample(r) = "measured" \/ (health[r].n > 0 /\ age - lag >= Grace))
    BY <1>2, Verdicts
  <2> HIDE DEF new, age, lag
  <2> QED
    BY <1>2, <2>1 DEF Healthy
<1>4. /\ health[r] \in Run /\ hist[r] \in Histories /\ TimeKnows(r) /\ pass.spent \in Nat /\ pass.took[r] \in Nat
      /\ Grace \in Nat /\ OutageMin \in Nat
  BY <1>2, RoutersTyped, RoutersAssumption DEF PassType
<1>5. CASE Sample(r) # "measured"
  <2>1. health[r].n > 0 /\ health[r].first - lag >= Grace
    BY <1>3, <1>5
  <2>2. hist[r].bad = health[r].first
    BY <1>4, <2>1 DEF TimeKnows, Held
  <2>3. health[r].first \in Nat
    BY <1>4, CapType DEF Run
  <2> QED
    BY <1>4, <1>5, <2>1, <2>2, <2>3
<1>6. CASE Sample(r) = "measured"
  <2>1. pass.reads[r] = "longOut" \/ (pass.reads[r] = "out" /\ r \in Dishes /\ OutLong(CarryOutage(r)))
    BY <1>2, <1>6, SampleIs
  <2> SUFFICES ASSUME pass.reads[r] = "out", r \in Dishes, OutLong(CarryOutage(r))
               PROVE  hist[r].out - 1 - pass.spent > OutageMin
    BY <2>1
  <2>2. OutageKnows(r) /\ outage[r] \in NoRun .. AgeCap /\ hist[r].out \in Nat
    BY <1>4, RoutersTyped DEF Histories
  <2>3. outage[r] # NoRun /\ outage[r] - pass.spent > OutageMin
    BY <1>4 DEF OutLong, CarryOutage
  <2>4. pass.spent <= PassLimit(K) /\ PassLimit(K) \in Nat
    BY RoutersTyped, SpentInAll
  <2>5. AgeCap = OutageMin + 2 * (PassLimit(K) + 1)
    BY PassLimits
  <2> QED
    BY <1>4, <2>2, <2>3, <2>4, <2>5 DEF OutageKnows, NoRun
<1> QED
  BY <1>5, <1>6

\* What the hub says of its routers is their word, said in time, and no sooner than the window allows.
THEOREM RoutersAreToldInTime == Spec => RoutersHold
<1>1. RoutersIInv => RoutersInv
  BY InTime DEF RoutersIInv, RoutersInv
<1>2. RoutersIInv /\ [Next]_vars =>
        [\A r \in Routers :
         ~health[r].down /\ health'[r].down =>
            \/ pass.reads[r] = "longOut"
            \/ pass.reads[r] = "out" /\ hist[r].out - 1 - pass.spent > OutageMin
            \/ Sample(r) # "measured" /\ health[r].n > 0 /\ hist[r].bad >= Grace + pass.spent - pass.took[r]]_vars
  BY WindowStep
<1> QED
  BY <1>1, <1>2, RoutersInitially, RoutersStep, PTL DEF Spec, RoutersHold, WindowIsContinuous

-----------------------------------------------------------------------------
(* The wiring of a sensor (SensorWiring) *)

\* What the sensor has are hooks in a row.
HooksInRow == \E S : sensor.hooks \in Seq(S)

\* The numbers of jobs, wherever they are.
Numbered ==
    /\ \A c \in Callers : asked[c].job.n \in 0 .. MaxWires
    /\ hunt.job.n \in 0 .. MaxWires

\* An attempt is at a job; as long as one is under way, the outcome the hub owes is of that job, and
\* once it is said none is owed.
AttemptKnows ==
    /\ hunt.at \notin {"boot", "rest"} => hunt.job # NoJob
    /\ owed # 0 /\ hunt.job # NoJob => owed = hunt.job.n
    /\ hunt.at = "forget" => owed = 0

WiringParts ==
    /\ jobs.n \in 0 .. MaxWires
    /\ state.n \in 0 .. MaxWires /\ state.word \in {"absent", "pending", "wired", "failed"}
    /\ owed \in 0 .. MaxWires
    /\ hunt.at \in WiringSteps
    /\ sensor = [keeps |-> sensor.keeps, hooks |-> sensor.hooks, ble |-> sensor.ble]
    /\ jobs = [n |-> jobs.n, hooks |-> jobs.hooks, bleOff |-> jobs.bleOff, here |-> jobs.here]
    /\ hunt = [at |-> hunt.at, job |-> hunt.job, read |-> hunt.read, todo |-> hunt.todo, gaps |-> hunt.gaps]
    /\ asked = [c \in Callers |-> [at |-> asked[c].at, job |-> asked[c].job]]
    /\ Len(sensor.hooks) <= HookSlots
    /\ wires \in 0 .. MaxWires /\ moves \in 0 .. MaxMoves

WiringIInv ==
    /\ WiringParts
    /\ HooksInRow
    /\ Numbered
    /\ AttemptKnows
    /\ VerifiedIsCarried
    /\ OwedIsOnFile

LEMMA WiringImplied == WiringIInv => WiringInv
BY DEF WiringIInv, WiringInv, WiringParts, WiringTypeOK

LEMMA WiringInitial == WiringInit => WiringIInv
<1> SUFFICES ASSUME WiringInit PROVE WiringIInv
  OBVIOUS
<1> USE WiringAssumption
<1>1. sensor \in [keeps: Nat \ {0}, hooks: Seq(Hook), ble: BOOLEAN]
  BY DEF WiringInit
<1>2. HooksInRow
  BY <1>1 DEF HooksInRow
<1>3. WiringParts
  BY <1>1 DEF WiringInit, WiringParts, NoJob, NoState, Hunting, Unasked, WiringSteps
<1>4. Numbered
  BY DEF WiringInit, Numbered, NoJob, Hunting, Unasked
<1>5. AttemptKnows
  BY DEF WiringInit, AttemptKnows, Hunting
<1>6. VerifiedIsCarried
  BY DEF WiringInit, VerifiedIsCarried, Hunting
<1>7. OwedIsOnFile
  BY DEF WiringInit, OwedIsOnFile
<1> QED
  BY <1>2, <1>3, <1>4, <1>5, <1>6, <1>7 DEF WiringIInv

\* A hook written over keeps the row and its length.
LEMMA HookReplaced ==
    ASSUME NEW S, NEW s \in Seq(S), NEW i, NEW e
    PROVE  /\ [s EXCEPT ![i] = e] \in Seq(S \union {e})
           /\ Len([s EXCEPT ![i] = e]) = Len(s)
<1>1. s \in Seq(S \union {e})
  <2> QED
    BY SeqDef
<1>2. CASE i \in 1 .. Len(s)
  BY <1>1, <1>2, ExceptSeq
<1>3. CASE i \notin 1 .. Len(s)
  <2>1. s = [j \in 1 .. Len(s) |-> s[j]]
    BY SeqDef
  <2>2. [s EXCEPT ![i] = e] = s
    BY <2>1, <1>3, Zenon
  <2> QED
    BY <1>1, <2>2
<1> QED
  BY <1>2, <1>3

\* A hook added, if there is room.
LEMMA HookAdded ==
    ASSUME NEW event, NEW urls, WiringParts, HooksInRow
    PROVE  /\ Len(Created(event, urls)) <= HookSlots
           /\ \E S : Created(event, urls) \in Seq(S)
<1> DEFINE e == [event |-> event, urls |-> Kept(urls)]
<1>1. PICK S : sensor.hooks \in Seq(S)
  BY DEF HooksInRow
<1>2. sensor.hooks \in Seq(S \union {e})
  BY <1>1, SeqDef
<1>3. /\ Append(sensor.hooks, e) \in Seq(S \union {e})
      /\ Len(Append(sensor.hooks, e)) = Len(sensor.hooks) + 1
  <2> HIDE DEF e
  <2> QED
    BY <1>2, AppendProperties
<1>4. Created(event, urls) \in {Append(sensor.hooks, e), sensor.hooks}
  BY DEF Created
<1>5. CASE Len(sensor.hooks) < HookSlots
  <2>1. Created(event, urls) = Append(sensor.hooks, e)
    BY <1>5 DEF Created
  <2> HIDE DEF e
  <2>2. Len(sensor.hooks) \in Nat
    BY <1>2, LenProperties
  <2> QED
    BY <2>1, <2>2, <1>3, <1>5, WiringAssumption
<1>6. CASE ~(Len(sensor.hooks) < HookSlots)
  BY <1>6, <1>1 DEF Created, WiringParts
<1> QED
  BY <1>5, <1>6

\* So with every hook written.
LEMMA HookWritten ==
    ASSUME NEW h, WiringParts, HooksInRow
    PROVE  /\ Len(Written(h)) <= HookSlots
           /\ \E S : Written(h) \in Seq(S)
<1>1. CASE Written(h) = Created(h.event, h.urls)
  BY <1>1, HookAdded
<1>2. CASE \E i, e : Written(h) = [sensor.hooks EXCEPT ![i] = e]
  <2>1. PICK i, e : Written(h) = [sensor.hooks EXCEPT ![i] = e]
    BY <1>2
  <2>2. PICK S : sensor.hooks \in Seq(S)
    BY DEF HooksInRow
  <2> DEFINE new == [sensor.hooks EXCEPT ![i] = e]
  <2>3. new \in Seq(S \union {e}) /\ Len(new) = Len(sensor.hooks)
    BY <2>2, HookReplaced
  <2>4. Written(h) = new
    BY <2>1
  <2> HIDE DEF new
  <2>5. Written(h) \in Seq(S \union {e}) /\ Len(Written(h)) = Len(sensor.hooks)
    BY <2>3, <2>4, Zenon
  <2>6. Len(Written(h)) <= HookSlots
    BY <2>5 DEF WiringParts
  <2> QED
    BY <2>5, <2>6, Zenon
<1> QED
  BY <1>1, <1>2 DEF Written

\* A step that leaves the sensor and the hunt alone.
LEMMA HuntUntouched ==
    ASSUME WiringIInv, UNCHANGED <<sensor, hunt>>
    PROVE  HooksInRow' /\ VerifiedIsCarried'
<1>1. HooksInRow' = HooksInRow
  BY Zenon DEF HooksInRow
<1>2. VerifiedIsCarried' = VerifiedIsCarried
  BY Zenon DEF VerifiedIsCarried
<1> QED
  BY <1>1, <1>2 DEF WiringIInv

\* What the app and the sensor's own reports do.
LEMMA CallStep ==
    ASSUME WiringIInv,
           \/ \E c \in Callers : Wire(c) \/ Cancel(c) \/ InMemory(c)
           \/ NoteSeen \/ SensorMoves
    PROVE  WiringIInv'
<1> USE WiringAssumption DEF WiringIInv, WiringParts, Numbered, AttemptKnows, OwedIsOnFile
<1>1. UNCHANGED <<sensor, hunt>>
  BY DEF Wire, Cancel, InMemory, NoteSeen, SensorMoves
<1>2. HooksInRow' /\ VerifiedIsCarried'
  BY <1>1, HuntUntouched
<1>3. ASSUME NEW c \in Callers, Wire(c)
      PROVE  WiringParts' /\ Numbered' /\ AttemptKnows' /\ OwedIsOnFile'
  <2>1. PICK wish \in Wishes, lan \in BOOLEAN, here \in BOOLEAN :
           /\ jobs' = [n |-> wires + 1, hooks |-> Offered(wish.hooks, lan), bleOff |-> wish.bleOff, here |-> here]
           /\ asked' = [asked EXCEPT ![c] = [at |-> "insert", job |-> jobs']]
    BY <1>3 DEF Wire
  <2>2. /\ wires < MaxWires /\ wires' = wires + 1
        /\ owed' = IF hunt.job = NoJob THEN wires + 1 ELSE 0
        /\ UNCHANGED <<state, sensor, hunt, moves>>
    BY <1>3 DEF Wire
  <2>3. jobs'.n = wires + 1 /\ wires + 1 \in 0 .. MaxWires
    BY <2>1, <2>2
  <2>4. owed' \in {0, wires + 1}
    BY <2>2
  <2>5. jobs' = [n |-> jobs'.n, hooks |-> jobs'.hooks, bleOff |-> jobs'.bleOff, here |-> jobs'.here]
    BY <2>1
  <2>6. asked' = [k \in Callers |-> [at |-> asked'[k].at, job |-> asked'[k].job]]
    BY <2>1, Zenon
  <2>7. \A k \in Callers : asked'[k].job \in {asked[k].job, jobs'}
    BY <2>1
  <2>8. WiringParts'
    BY <2>2, <2>3, <2>4, <2>5, <2>6
  <2>9. Numbered'
    BY <2>2, <2>3, <2>7
  <2>10. AttemptKnows'
    BY <2>2, <2>4
  <2> QED
    BY <2>3, <2>4, <2>8, <2>9, <2>10
<1>4. ASSUME NEW c \in Callers, Cancel(c)
      PROVE  WiringParts' /\ Numbered' /\ AttemptKnows' /\ OwedIsOnFile'
  <2>1. /\ jobs' = NoJob /\ asked' = [asked EXCEPT ![c].at = "remove"] /\ owed' = 0
        /\ wires < MaxWires /\ wires' = wires + 1
        /\ UNCHANGED <<state, sensor, hunt, moves>>
    BY <1>4 DEF Cancel
  <2>2. asked' = [k \in Callers |-> [at |-> asked'[k].at, job |-> asked'[k].job]]
    BY <2>1
  <2>3. \A k \in Callers : asked'[k].job = asked[k].job
    BY <2>1
  <2> QED
    BY <2>1, <2>2, <2>3 DEF NoJob
<1>5. ASSUME NEW c \in Callers, InMemory(c)
      PROVE  WiringParts' /\ Numbered' /\ AttemptKnows' /\ OwedIsOnFile'
  <2>1. /\ state' \in {Pending(asked[c].job), NoState}
        /\ asked' = [asked EXCEPT ![c] = Unasked]
        /\ UNCHANGED <<jobs, sensor, hunt, wires, moves, owed>>
    BY <1>5 DEF InMemory
  <2>2. asked' = [k \in Callers |-> [at |-> asked'[k].at, job |-> asked'[k].job]]
    BY <2>1 DEF Unasked
  <2>3. \A k \in Callers : asked'[k].job \in {asked[k].job, NoJob}
    BY <2>1 DEF Unasked
  <2>4. state'.n \in 0 .. MaxWires /\ state'.word \in {"absent", "pending"}
    BY <2>1 DEF Pending, NoState
  <2> QED
    BY <2>1, <2>2, <2>3, <2>4 DEF NoJob
<1>6. ASSUME NoteSeen \/ SensorMoves
      PROVE  WiringParts' /\ Numbered' /\ AttemptKnows' /\ OwedIsOnFile'
  <2>1. /\ jobs' = [jobs EXCEPT !.here = jobs'.here]
        /\ UNCHANGED <<state, sensor, hunt, asked, wires, owed>>
        /\ moves' \in 0 .. MaxMoves
    BY <1>6 DEF NoteSeen, SensorMoves
  <2>2. jobs' = [n |-> jobs'.n, hooks |-> jobs'.hooks, bleOff |-> jobs'.bleOff, here |-> jobs'.here] /\ jobs'.n = jobs.n
    BY <2>1
  <2> QED
    BY <2>1, <2>2
<1> QED
  BY <1>2, <1>3, <1>4, <1>5, <1>6

\* Hooks that miss nothing of a job carry all of it.
LEMMA NothingMissing ==
    ASSUME NEW hooks, NEW job, Missing(hooks, job) = {}
    PROVE  \A h \in Range(Installed(job)) : \A u \in Range(h.urls) :
              \E x \in Range(hooks) : x.event = h.event /\ u \in Range(x.urls)
<1> DEFINE Pairs(hs) == UNION {{<<h.event, u>> : u \in Range(h.urls)} : h \in Range(hs)}
<1>1. Pairs(Installed(job)) \subseteq Pairs(hooks)
  BY DEF Missing
<1> SUFFICES ASSUME NEW h \in Range(Installed(job)), NEW u \in Range(h.urls)
             PROVE  \E x \in Range(hooks) : x.event = h.event /\ u \in Range(x.urls)
  OBVIOUS
<1>2. <<h.event, u>> \in Pairs(hooks)
  <2>1. <<h.event, u>> \in {<<h.event, v>> : v \in Range(h.urls)}
    OBVIOUS
  <2>2. <<h.event, u>> \in Pairs(Installed(job))
    BY <2>1, Zenon
  <2> QED
    BY <1>1, <2>2
<1>3. PICK x \in Range(hooks) : \E v \in Range(x.urls) : <<h.event, u>> = <<x.event, v>>
  BY <1>2
<1> QED
  BY <1>3

\* What the hunt does of itself.
LEMMA HuntStep ==
    ASSUME WiringIInv,
           Adopt \/ ReadJobs \/ Identify \/ List \/ Write \/ Verify \/ Split \/ BleOff \/ Record \/ Forget \/ HubRestarts
    PROVE  WiringIInv'
<1> USE WiringAssumption DEF WiringIInv, WiringParts, Numbered, AttemptKnows, OwedIsOnFile
<1> DEFINE Shaped == hunt' = [at |-> hunt'.at, job |-> hunt'.job, read |-> hunt'.read, todo |-> hunt'.todo, gaps |-> hunt'.gaps]
<1>1. CASE Adopt
  <2>1. /\ hunt' = Resting /\ state' \in {state, Pending(jobs)}
        /\ UNCHANGED <<jobs, sensor, asked, wires, moves, owed>>
    BY <1>1 DEF Adopt
  <2>2. Shaped /\ hunt'.at = "rest" /\ hunt'.job = NoJob
    BY <2>1 DEF Resting, Hunting
  <2>3. HooksInRow' = HooksInRow
    BY <2>1, Zenon DEF HooksInRow
  <2> QED
    BY <2>1, <2>2, <2>3 DEF Pending, VerifiedIsCarried, NoJob, WiringSteps
<1>2. CASE ReadJobs
  <2>1. /\ hunt' = Hunting("next", jobs) /\ jobs # NoJob
        /\ UNCHANGED <<jobs, state, asked, wires, moves, owed, sensor>>
    BY <1>2 DEF ReadJobs, Hunts
  <2>2. Shaped /\ hunt'.at = "next" /\ hunt'.job = jobs
    BY <2>1 DEF Hunting
  <2>3. HooksInRow' = HooksInRow
    BY <2>1, Zenon DEF HooksInRow
  <2> QED
    BY <2>1, <2>2, <2>3 DEF VerifiedIsCarried, WiringSteps
<1>3. CASE Identify \/ List
  <2>1. UNCHANGED <<jobs, state, asked, wires, moves, owed, sensor>>
    BY <1>3 DEF Identify, List, Hunts
  <2> DEFINE Seen == /\ Shaped
                     /\ hunt'.at \in {"rest", "list", "write"} /\ hunt'.job \in {hunt.job, NoJob}
                     /\ hunt'.at # "rest" => hunt'.job = hunt.job /\ hunt.at \in {"next", "list"}
  <2>2. Seen
    <3>1. CASE hunt' = Resting
      BY <3>1 DEF Resting, Hunting
    <3>2. CASE hunt.at = "next" /\ hunt' = [hunt EXCEPT !.at = "list"]
      BY <3>2
    <3>3. CASE hunt.at = "list" /\ \E read : hunt' = [hunt EXCEPT !.at = "write", !.read = read, !.todo = Installed(hunt.job)]
      <4>1. PICK read : hunt' = [hunt EXCEPT !.at = "write", !.read = read, !.todo = Installed(hunt.job)]
        BY <3>3
      <4> QED
        BY <4>1, <3>3
    <3> QED
      BY <1>3, <3>1, <3>2, <3>3, Zenon DEF Identify, List
  <2>4. HooksInRow' = HooksInRow
    BY <2>1, Zenon DEF HooksInRow
  <2> QED
    BY <2>1, <2>2, <2>4 DEF VerifiedIsCarried, NoJob, WiringSteps
<1>4. CASE Write \/ Split
  <2>1. UNCHANGED <<jobs, state, asked, wires, moves, owed>>
    BY <1>4 DEF Write, Split, Hunts
  <2>2. Shaped /\ hunt'.at \in {"write", "verify", "split", "again"} /\ hunt'.job = hunt.job /\ hunt.at \in {"write", "split"}
    BY <1>4 DEF Write, Split
  <2>3. \/ UNCHANGED sensor
        \/ \E h : sensor' = [sensor EXCEPT !.hooks = Written(h)]
        \/ \E event, urls : sensor' = [sensor EXCEPT !.hooks = Created(event, urls)]
    <3>1. CASE Write
      <4>1. \/ UNCHANGED sensor
            \/ sensor' \in {sensor, [sensor EXCEPT !.hooks = Written(Head(hunt.todo))]}
        BY <3>1, Zenon DEF Write
      <4> QED
        BY <4>1, Zenon
    <3>2. CASE Split
      <4>1. \/ UNCHANGED sensor
            \/ \E g : sensor' \in {sensor, [sensor EXCEPT !.hooks = Created(g[1], <<g[2]>>)]}
        BY <3>2, Zenon DEF Split
      <4> QED
        BY <4>1, Zenon
    <3> QED
      BY <1>4, <3>1, <3>2
  <2>4. /\ sensor' = [keeps |-> sensor'.keeps, hooks |-> sensor'.hooks, ble |-> sensor'.ble]
        /\ Len(sensor'.hooks) <= HookSlots
        /\ \E S : sensor'.hooks \in Seq(S)
    <3>1. CASE UNCHANGED sensor
      BY <3>1 DEF HooksInRow
    <3>2. CASE \E h : sensor' = [sensor EXCEPT !.hooks = Written(h)]
      <4>1. PICK h : sensor' = [sensor EXCEPT !.hooks = Written(h)]
        BY <3>2
      <4>2. sensor' = [keeps |-> sensor'.keeps, hooks |-> sensor'.hooks, ble |-> sensor'.ble] /\ sensor'.hooks = Written(h)
        BY <4>1
      <4> QED
        BY <4>2, HookWritten
    <3>3. CASE \E event, urls : sensor' = [sensor EXCEPT !.hooks = Created(event, urls)]
      <4>1. PICK event, urls : sensor' = [sensor EXCEPT !.hooks = Created(event, urls)]
        BY <3>3
      <4>2. sensor' = [keeps |-> sensor'.keeps, hooks |-> sensor'.hooks, ble |-> sensor'.ble] /\ sensor'.hooks = Created(event, urls)
        BY <4>1
      <4> QED
        BY <4>2, HookAdded
    <3> QED
      BY <2>3, <3>1, <3>2, <3>3
  <2>5. HooksInRow'
    BY <2>4 DEF HooksInRow
  <2> QED
    BY <2>1, <2>2, <2>4, <2>5 DEF VerifiedIsCarried, WiringSteps
<1>5. CASE Verify
  <2>1. UNCHANGED <<jobs, state, asked, wires, moves, owed, sensor>> /\ hunt.at \in {"verify", "again"}
    BY <1>5 DEF Verify, Hunts
  <2>2. PICK read \in Listed :
           hunt' = [hunt EXCEPT !.gaps = Missing(read, hunt.job),
                     !.at = CASE Missing(read, hunt.job) = {} -> AfterVerified(hunt.job)
                              [] Missing(read, hunt.job) # {} -> IF hunt.at = "verify" THEN "split" ELSE "failed"]
    BY <1>5 DEF Verify
  <2>3. /\ Shaped /\ hunt'.job = hunt.job /\ hunt'.at \in {"ble", "wired", "split", "failed"}
        /\ hunt'.at \in {"ble", "wired"} => Missing(read, hunt.job) = {}
    BY <2>2 DEF AfterVerified
  <2>4. HooksInRow' = HooksInRow
    BY <2>1, Zenon DEF HooksInRow
  <2>5. ASSUME Missing(read, hunt.job) = {}
        PROVE  \A h \in Range(Installed(hunt.job)) : \A u \in Range(h.urls) :
                  \E x \in Range(sensor.hooks) : x.event = h.event /\ u \in Range(x.urls)
    <3>1. \A h \in Range(Installed(hunt.job)) : \A u \in Range(h.urls) :
              \E x \in Range(read) : x.event = h.event /\ u \in Range(x.urls)
      BY <2>5, NothingMissing
    <3>2. Range(read) \subseteq Range(sensor.hooks)
      BY DEF Listed, Range
    <3> QED
      BY <3>1, <3>2
  <2>6. VerifiedIsCarried'
    BY <2>1, <2>3, <2>5 DEF VerifiedIsCarried
  <2> QED
    BY <2>1, <2>3, <2>4, <2>6 DEF WiringSteps
<1>6. CASE BleOff
  <2>1. UNCHANGED <<jobs, state, asked, wires, moves, owed>> /\ hunt.at = "ble"
    BY <1>6 DEF BleOff, Hunts
  <2>2. Shaped /\ hunt'.job = hunt.job /\ hunt'.at = "wired"
    BY <1>6 DEF BleOff
  <2>3. /\ sensor' = [keeps |-> sensor'.keeps, hooks |-> sensor'.hooks, ble |-> sensor'.ble]
        /\ sensor'.hooks = sensor.hooks
    BY <1>6 DEF BleOff
  <2>4. HooksInRow' = HooksInRow
    BY <2>3, Zenon DEF HooksInRow
  <2>5. VerifiedIsCarried'
    BY <2>1, <2>2, <2>3 DEF VerifiedIsCarried
  <2> QED
    BY <2>1, <2>2, <2>3, <2>4, <2>5 DEF WiringSteps
<1>7. CASE Record
  <2>1. /\ hunt.at \in {"wired", "failed"} /\ state' = [n |-> hunt.job.n, word |-> hunt.at]
        /\ hunt' = [hunt EXCEPT !.at = "forget"]
        /\ owed' = IF owed = hunt.job.n THEN 0 ELSE owed
        /\ UNCHANGED <<jobs, sensor, asked, wires, moves>>
    BY <1>7 DEF Record
  <2>2. Shaped /\ hunt'.job = hunt.job /\ hunt'.at = "forget"
    BY <2>1
  <2>3. owed' = 0
    BY <2>1
  <2>4. HooksInRow' = HooksInRow
    BY <2>1, Zenon DEF HooksInRow
  <2> QED
    BY <2>1, <2>2, <2>3, <2>4 DEF VerifiedIsCarried, WiringSteps
<1>8. CASE Forget
  <2>1. /\ hunt.at = "forget" /\ jobs' \in {jobs, NoJob} /\ hunt' = Resting
        /\ UNCHANGED <<state, sensor, asked, wires, moves, owed>>
    BY <1>8 DEF Forget
  <2>2. Shaped /\ hunt'.at = "rest" /\ hunt'.job = NoJob
    BY <2>1 DEF Resting, Hunting
  <2>3. HooksInRow' = HooksInRow
    BY <2>1, Zenon DEF HooksInRow
  <2> QED
    BY <2>1, <2>2, <2>3 DEF VerifiedIsCarried, NoJob, WiringSteps
<1>9. CASE HubRestarts
  <2>1. /\ moves' \in 0 .. MaxMoves /\ state' = NoState /\ hunt' = Hunting("boot", NoJob)
        /\ asked' = [c \in Callers |-> Unasked]
        /\ UNCHANGED <<jobs, sensor, wires, owed>>
    BY <1>9 DEF HubRestarts
  <2>2. Shaped /\ hunt'.at = "boot" /\ hunt'.job = NoJob
    BY <2>1 DEF Hunting
  <2>3. HooksInRow' = HooksInRow
    BY <2>1, Zenon DEF HooksInRow
  <2>4. asked' = [c \in Callers |-> [at |-> asked'[c].at, job |-> asked'[c].job]] /\ \A c \in Callers : asked'[c].job = NoJob
    BY <2>1 DEF Unasked
  <2> QED
    BY <2>1, <2>2, <2>3, <2>4 DEF VerifiedIsCarried, NoJob, NoState, WiringSteps
<1> QED
  BY <1>1, <1>2, <1>3, <1>4, <1>5, <1>6, <1>7, <1>8, <1>9

LEMMA WiringStuttering == WiringIInv /\ UNCHANGED wiringVars => WiringIInv'
<1> SUFFICES ASSUME WiringIInv, UNCHANGED wiringVars PROVE WiringIInv'
  OBVIOUS
<1>1. HooksInRow' /\ VerifiedIsCarried'
  BY HuntUntouched DEF wiringVars
<1> QED
  BY <1>1 DEF WiringIInv, wiringVars, WiringParts, Numbered, AttemptKnows, OwedIsOnFile

\* What the hub says of a sensor's wiring is so: by the time it says `wired` the sensor carries every
\* url of the job, and a job handed over stays on file until it has an outcome.
THEOREM WiringIsTrue == WiringSpec => []WiringInv
<1>1. WiringIInv /\ [WiringNext]_wiringVars => WiringIInv'
  BY CallStep, HuntStep, WiringStuttering DEF WiringNext
<1> QED
  BY <1>1, WiringInitial, WiringImplied, PTL DEF WiringSpec

-----------------------------------------------------------------------------
(* The gateway (Gateway) *)

\* No two gateways answer at one address.
OneAtAnAddress == \A g, h \in Gateways : where[g] = where[h] /\ where[g] # Nowhere => g = h

\* A gateway that has stood still is yet to be probed, or has been found.
SweepMeetsThemAll ==
    poller.at = "sweep" =>
        \A g \in sweep.steady :
            /\ where[g] # Nowhere
            /\ where[g] \in sweep.left \/ [host |-> where[g], id |-> g] \in sweep.found

\* The gateway that is driven is the one watched; where there is none, nobody has asked.
WatchesWhatItDrives ==
    /\ machine # NoGateway => machine = watched
    /\ machine = NoGateway => past.kept = 0
    /\ poller.at = "ask" => machine # NoGateway
    /\ poller.at # "ask" => ~poller.heard
    /\ poller.at = "sweep" => past.kept = 0
    /\ poller.at \in {"sweep", "sync"} => poller.spent = 0
    /\ poller.at = "nap" => poller.spent <= 1
    /\ poller.at = "ask" => poller.spent <= PassTime

\* The word given is the owner's last, and the time of a watch is no longer than the silence.
WatchIsHonest ==
    /\ reach.told <=> past.word = "offline"
    /\ reach.told => reach.seen
    /\ ~reach.seen => reach.age = 0
    /\ reach.seen /\ ~poller.heard => reach.age <= past.silent

\* Nor is it much shorter.
WatchKeepsUp ==
    /\ poller.at = "ask" /\ poller.heard => past.silent <= poller.spent
    /\ ~reach.seen /\ poller.at # "ask" => watched = NoGateway /\ past.kept = 0
    /\ ~reach.seen /\ poller.at = "ask" => past.kept <= poller.spent
    /\ reach.seen => past.silent <= reach.age + PassTime \/ past.kept <= reach.age + PassTime

\* What has not been told cannot have lasted.
WaitsForTheGrace ==
    reach.seen /\ ~reach.told =>
        \/ poller.at = "nap" /\ (machine = NoGateway \/ reach.age < OfflineGrace + poller.spent)
        \/ poller.at = "sweep"
        \/ poller.at = "sync" /\ (past.kept = 0 \/ reach.age <= OfflineGrace)
        \/ poller.at = "ask" /\ (past.kept <= poller.spent \/ reach.age <= OfflineGrace + poller.spent)

GatewayIInv ==
    /\ GatewayTypes /\ TypedStands /\ AdoptedAlone
    /\ OneAtAnAddress /\ SweepMeetsThemAll
    /\ WatchesWhatItDrives /\ WatchIsHonest /\ WatchKeepsUp /\ WaitsForTheGrace

LEMMA GatewayInitial == GatewayInit => GatewayIInv
<1> SUFFICES ASSUME GatewayInit PROVE GatewayIInv
  OBVIOUS
<1> USE GatewayAssumption DEF GatewayInit, Napping, NoSweep, NoGateway, Unseen, Fresh
<1>1. GatewayTypes
  BY DEF GatewayTypes, Places
<1>2. TypedStands /\ AdoptedAlone /\ OneAtAnAddress /\ SweepMeetsThemAll
  BY DEF TypedStands, AdoptedAlone, OneAtAnAddress, SweepMeetsThemAll
<1>3. WatchesWhatItDrives /\ WatchIsHonest
  BY DEF WatchesWhatItDrives, WatchIsHonest
<1>4. WatchKeepsUp /\ WaitsForTheGrace
  BY DEF WatchKeepsUp, WaitsForTheGrace
<1> QED
  BY <1>1, <1>2, <1>3, <1>4 DEF GatewayIInv

\* What the owner is told comes of the watch, and the watch of the polls.
LEMMA ToldInTimeImplied == GatewayIInv => ToldInTime
<1> SUFFICES ASSUME GatewayIInv, ~reach.told,
                    past.silent > OfflineGrace + 2 * PassTime, past.kept > OfflineGrace + 2 * PassTime
             PROVE  FALSE
  BY DEF ToldInTime
<1>1. /\ OfflineGrace \in Nat /\ OfflineGrace >= 1 /\ PassTime \in Nat /\ reach.age \in Nat
      /\ poller.spent \in Nat /\ past.silent \in Nat /\ past.kept \in Nat
      /\ poller.at \in {"nap", "sweep", "sync", "ask"}
  BY GatewayAssumption DEF GatewayIInv, GatewayTypes
<1>2. reach.seen
  BY <1>1 DEF GatewayIInv, WatchKeepsUp, WatchesWhatItDrives
<1>3. machine # NoGateway /\ poller.at # "sweep"
  BY <1>1 DEF GatewayIInv, WatchesWhatItDrives
<1>4. reach.age <= OfflineGrace + PassTime
  <2>1. CASE poller.at = "nap"
    BY <1>1, <1>2, <1>3, <2>1 DEF GatewayIInv, WaitsForTheGrace, WatchesWhatItDrives
  <2>2. CASE poller.at = "sync"
    BY <1>1, <1>2, <1>3, <2>2 DEF GatewayIInv, WaitsForTheGrace, WatchesWhatItDrives
  <2>3. CASE poller.at = "ask"
    BY <1>1, <1>2, <1>3, <2>3 DEF GatewayIInv, WaitsForTheGrace, WatchesWhatItDrives
  <2> QED
    BY <1>1, <1>3, <2>1, <2>2, <2>3
<1> QED
  BY <1>1, <1>2, <1>4 DEF GatewayIInv, WatchKeepsUp
LEMMA PlaceTypes == NoGateway \in Places /\ \A h \in Hosts, g \in Gateways : [host |-> h, id |-> g] \in Places
BY DEF NoGateway, Places

LEMMA NoneLeft == Valves \in Nat \ {0} /\ 0 \in 0 .. Valves /\ Valves \in 0 .. Valves
BY GatewayAssumption

PollerType == [at: {"nap", "sweep", "sync", "ask"}, read: Places, allowed: BOOLEAN,
               left: 0 .. Valves, heard: BOOLEAN, spent: Nat]
SweepType == [left: SUBSET Hosts, found: SUBSET Places, steady: SUBSET Gateways]

\* A loop that sets out.
LEMMA PollerSetsOut ==
    ASSUME NEW at \in {"nap", "sweep", "sync", "ask"}, NEW place \in Places, NEW allowed \in BOOLEAN
    PROVE  [at |-> at, read |-> place, allowed |-> allowed, left |-> 0, heard |-> FALSE, spent |-> 0] \in PollerType
BY NoneLeft DEF PollerType

\* The poll loop, its sweep and its history alone.
LEMMA LoopTypes ==
    ASSUME GatewayTypes, poller' \in PollerType, sweep' \in SweepType,
           past' \in [silent: Nat, kept: Nat, word: {"none", "offline", "online"}],
           UNCHANGED <<where, machine, watched, reach, upsets>>,
           entry' \in [allowed: BOOLEAN, place: Places, typed: Places, alone: BOOLEAN]
    PROVE  GatewayTypes'
BY DEF GatewayTypes, PollerType, SweepType

\* The watch does not depend on what is on the network, in the file, or found.
LEMMA WatchUntouched ==
    ASSUME GatewayIInv, UNCHANGED <<poller, machine, watched, reach, past>>
    PROVE  WatchesWhatItDrives' /\ WatchIsHonest' /\ WatchKeepsUp' /\ WaitsForTheGrace'
BY DEF GatewayIInv, WatchesWhatItDrives, WatchIsHonest, WatchKeepsUp, WaitsForTheGrace

\* Nor the search on the watch.
LEMMA SearchUntouched ==
    ASSUME GatewayIInv, UNCHANGED <<where, entry, sweep>>, poller'.at = "sweep" => poller.at = "sweep"
    PROVE  TypedStands' /\ AdoptedAlone' /\ OneAtAnAddress' /\ SweepMeetsThemAll'
<1>1. TypedStands' /\ AdoptedAlone' /\ OneAtAnAddress'
  BY Zenon DEF GatewayIInv, TypedStands, AdoptedAlone, OneAtAnAddress
<1>2. SweepMeetsThemAll'
  BY DEF GatewayIInv, SweepMeetsThemAll
<1> QED
  BY <1>1, <1>2

LEMMA SearchStep ==
    ASSUME GatewayIInv,
           \/ StartsSweep
           \/ \E g \in Gateways : ProbeFinds(g)
           \/ \E h \in Hosts : ProbeFindsNone(h)
           \/ FindsNoneToAdopt
           \/ \E written \in BOOLEAN : Adopts(written)
    PROVE  GatewayIInv'
<1> USE GatewayAssumption DEF GatewayIInv
<1>1. CASE StartsSweep
  <2> USE <1>1 DEF StartsSweep, Napping
  <2>1. GatewayTypes'
    <3>1. poller' = [at |-> "sweep", read |-> NoGateway, allowed |-> TRUE, left |-> 0, heard |-> FALSE, spent |-> 0]
      OBVIOUS
    <3>2. poller' \in PollerType
      BY <3>1, PlaceTypes, PollerSetsOut
    <3>3. sweep' \in SweepType
      BY DEF SweepType
    <3>4. past' \in [silent: Nat, kept: Nat, word: {"none", "offline", "online"}]
      BY DEF GatewayTypes
    <3> QED
      BY <3>2, <3>3, <3>4, LoopTypes DEF GatewayTypes
  <2>2. TypedStands' /\ AdoptedAlone' /\ OneAtAnAddress'
    BY Zenon DEF TypedStands, AdoptedAlone, OneAtAnAddress
  <2>3. SweepMeetsThemAll'
    BY DEF SweepMeetsThemAll, GatewayTypes
  <2>4. WatchesWhatItDrives' /\ WatchIsHonest'
    BY DEF WatchesWhatItDrives, WatchIsHonest, GatewayTypes
  <2>5. WatchKeepsUp' /\ WaitsForTheGrace'
    BY DEF WatchKeepsUp, WaitsForTheGrace, GatewayTypes
  <2> QED
    BY <2>1, <2>2, <2>3, <2>4, <2>5
<1>2. ASSUME NEW g \in Gateways, ProbeFinds(g) PROVE GatewayIInv'
  <2> USE <1>2 DEF ProbeFinds
  <2>1. GatewayTypes'
    <3>1. [host |-> where[g], id |-> g] \in Places
      BY PlaceTypes DEF GatewayTypes
    <3>2. sweep' \in SweepType
      BY <3>1 DEF GatewayTypes, SweepType
    <3> QED
      BY <3>2, LoopTypes DEF GatewayTypes, PollerType
  <2>2. TypedStands' /\ AdoptedAlone' /\ OneAtAnAddress'
    BY Zenon DEF TypedStands, AdoptedAlone, OneAtAnAddress
  <2>3. SweepMeetsThemAll'
    BY DEF SweepMeetsThemAll, OneAtAnAddress, GatewayTypes
  <2> QED
    BY <2>1, <2>2, <2>3, WatchUntouched
<1>3. ASSUME NEW h \in Hosts, ProbeFindsNone(h) PROVE GatewayIInv'
  <2> USE <1>3 DEF ProbeFindsNone
  <2>1. GatewayTypes'
    BY DEF GatewayTypes
  <2>2. TypedStands' /\ AdoptedAlone' /\ OneAtAnAddress'
    BY Zenon DEF TypedStands, AdoptedAlone, OneAtAnAddress
  <2>3. SweepMeetsThemAll'
    BY DEF SweepMeetsThemAll, GatewayTypes
  <2> QED
    BY <2>1, <2>2, <2>3, WatchUntouched
<1>4. ASSUME poller.at = "sweep", GatewayTypes',
             sweep' = NoSweep, UNCHANGED <<where, machine, watched, reach, past>>,
             poller'.at = "sync", ~poller'.heard, poller'.spent = poller.spent
      PROVE  SweepMeetsThemAll' /\ OneAtAnAddress'
             /\ WatchesWhatItDrives' /\ WatchIsHonest' /\ WatchKeepsUp' /\ WaitsForTheGrace'
  <2>1. SweepMeetsThemAll' /\ OneAtAnAddress'
    BY <1>4 DEF SweepMeetsThemAll, OneAtAnAddress
  <2>2. WatchesWhatItDrives' /\ WatchIsHonest'
    BY <1>4 DEF WatchesWhatItDrives, WatchIsHonest, GatewayTypes
  <2>3. WatchKeepsUp' /\ WaitsForTheGrace'
    BY <1>4 DEF WatchKeepsUp, WaitsForTheGrace, WatchesWhatItDrives, GatewayTypes
  <2> QED
    BY <2>1, <2>2, <2>3
<1>5. CASE FindsNoneToAdopt
  <2> USE <1>5 DEF FindsNoneToAdopt
  <2>1. GatewayTypes'
    BY DEF GatewayTypes, NoSweep
  <2>2. TypedStands' /\ AdoptedAlone'
    BY Zenon DEF TypedStands, AdoptedAlone
  <2>3. poller'.at = "sync" /\ ~poller'.heard /\ poller'.spent = poller.spent
    BY DEF GatewayTypes, WatchesWhatItDrives
  <2> QED
    BY <1>4, <2>1, <2>2, <2>3
<1>6. ASSUME NEW written \in BOOLEAN, Adopts(written) PROVE GatewayIInv'
  <2>1. PICK d \in sweep.found :
          /\ sweep.found = {d}
          /\ IF written
             THEN /\ entry' = [entry EXCEPT !.place = Taken(d),
                                            !.alone = @ /\ (Taken(d) = d => sweep.steady \subseteq {d.id})]
                  /\ poller' = [poller EXCEPT !.at = "sync", !.read = entry'.place, !.allowed = entry.allowed]
             ELSE entry.place.host = Nowhere /\ UNCHANGED entry /\ poller' = [poller EXCEPT !.at = "sync"]
    BY <1>6 DEF Adopts
  <2>2. /\ poller.at = "sweep" /\ sweep.left = {} /\ sweep' = NoSweep
        /\ UNCHANGED <<where, machine, watched, reach, past, upsets>>
    BY <1>6 DEF Adopts
  <2>3. d \in Places /\ Taken(d) \in Places
    BY <2>1 DEF GatewayTypes, Taken
  <2>4. sweep.steady \subseteq {d.id}
    BY <2>1, <2>2, <2>3 DEF SweepMeetsThemAll, GatewayTypes, Places
  <2>5. /\ entry' \in [allowed: BOOLEAN, place: Places, typed: Places, alone: BOOLEAN]
        /\ entry'.typed = entry.typed /\ entry'.alone
        /\ entry.place.host # Nowhere => entry'.place = entry.place
    <3>1. CASE written
      <4>1. (entry.alone /\ (Taken(d) = d => sweep.steady \subseteq {d.id})) = TRUE
        BY <2>4 DEF AdoptedAlone
      <4>2. entry' = [entry EXCEPT !.place = Taken(d), !.alone = TRUE]
        BY <2>1, <3>1, <4>1, Zenon
      <4> QED
        BY <2>3, <4>2 DEF GatewayTypes, Taken
    <3>2. CASE ~written
      BY <2>1, <3>2 DEF GatewayTypes, AdoptedAlone
    <3> QED
      BY <3>1, <3>2
  <2>6. GatewayTypes'
    <3>1. poller \in PollerType /\ entry \in [allowed: BOOLEAN, place: Places, typed: Places, alone: BOOLEAN]
      BY DEF GatewayTypes, PollerType
    <3>2. entry'.place \in Places /\ entry.allowed \in BOOLEAN
      BY <2>5, <3>1
    <3>3. \/ poller' = [poller EXCEPT !.at = "sync", !.read = entry'.place, !.allowed = entry.allowed]
          \/ poller' = [poller EXCEPT !.at = "sync"]
      BY <2>1, Zenon
    <3>4. poller' \in PollerType
      BY <3>1, <3>2, <3>3 DEF PollerType
    <3>5. sweep' \in SweepType
      BY <2>2 DEF NoSweep, SweepType
    <3> QED
      BY <2>2, <2>5, <3>4, <3>5, LoopTypes DEF GatewayTypes
  <2>7. TypedStands' /\ AdoptedAlone'
    BY <2>5 DEF TypedStands, AdoptedAlone
  <2>8. poller'.at = "sync" /\ ~poller'.heard /\ poller'.spent = poller.spent
    BY <2>1, <2>2 DEF GatewayTypes, WatchesWhatItDrives
  <2> QED
    BY <1>4, <2>2, <2>6, <2>7, <2>8
<1> QED
  BY <1>1, <1>2, <1>3, <1>5, <1>6

LEMMA PassStep ==
    ASSUME GatewayIInv,
           StartsPass \/ Withdraws \/ Syncs \/ (\E replied \in BOOLEAN : AsksValve(replied)) \/ EndsPass
    PROVE  GatewayIInv'
<1> USE DEF GatewayIInv
<1>0. poller \in PollerType /\ sweep \in SweepType /\ OfflineGrace \in Nat \ {0} /\ PassTime \in Nat
  BY GatewayAssumption DEF GatewayTypes, PollerType, SweepType
<1>1. ASSUME poller' = Napping PROVE poller' \in PollerType /\ poller'.at = "nap" /\ ~poller'.heard /\ poller'.spent = 0
  BY <1>1, PlaceTypes, NoneLeft DEF Napping, PollerType
<1>2. CASE StartsPass
  <2>1. /\ poller' = [at |-> "sync", read |-> entry.place, allowed |-> entry.allowed,
                      left |-> 0, heard |-> FALSE, spent |-> 0]
        /\ poller.at = "nap" /\ UNCHANGED <<where, entry, sweep, machine, watched, reach, past, upsets>>
    BY <1>2 DEF StartsPass, Napping
  <2>2. /\ poller' \in PollerType /\ poller'.at = "sync" /\ ~poller'.heard /\ poller'.spent = 0
        /\ ~poller.heard
    <3>1. entry.place \in Places /\ entry.allowed \in BOOLEAN
      BY DEF GatewayTypes
    <3>2. poller' \in PollerType
      BY <2>1, <3>1, PollerSetsOut
    <3>3. poller'.at = "sync" /\ ~poller'.heard /\ poller'.spent = 0
      BY <2>1
    <3>4. ~poller.heard
      BY <2>1 DEF WatchesWhatItDrives
    <3> QED
      BY <3>2, <3>3, <3>4
  <2>3. GatewayTypes'
    BY <1>0, <2>1, <2>2, LoopTypes DEF GatewayTypes
  <2>4. TypedStands' /\ AdoptedAlone' /\ OneAtAnAddress' /\ SweepMeetsThemAll'
    BY <2>1, SearchUntouched
  <2>5. WatchesWhatItDrives' /\ WatchIsHonest'
    BY <1>0, <2>1, <2>2 DEF WatchesWhatItDrives, WatchIsHonest
  <2>6. WatchKeepsUp' /\ WaitsForTheGrace'
    BY <1>0, <2>1 DEF WatchKeepsUp, WaitsForTheGrace, WatchesWhatItDrives, PollerType, GatewayTypes
  <2> QED
    BY <2>3, <2>4, <2>5, <2>6
<1>3. CASE Withdraws
  <2>1. /\ machine' = NoGateway /\ poller' = Napping /\ past' = [past EXCEPT !.kept = 0]
        /\ poller.at = "sync" /\ UNCHANGED <<where, entry, sweep, watched, reach, upsets>>
    BY <1>3 DEF Withdraws
  <2>2. /\ past' \in [silent: Nat, kept: Nat, word: {"none", "offline", "online"}]
        /\ past'.kept = 0 /\ past'.silent = past.silent /\ past'.word = past.word
    BY <2>1 DEF GatewayTypes
  <2>3. GatewayTypes'
    BY <1>0, <1>1, <2>1, <2>2, PlaceTypes DEF GatewayTypes, PollerType
  <2>4. TypedStands' /\ AdoptedAlone' /\ OneAtAnAddress' /\ SweepMeetsThemAll'
    BY <1>1, <2>1, SearchUntouched
  <2>5. WatchesWhatItDrives' /\ WatchIsHonest'
    BY <1>0, <1>1, <2>1, <2>2 DEF WatchesWhatItDrives, WatchIsHonest, PollerType
  <2>6. WatchKeepsUp' /\ WaitsForTheGrace'
    BY <1>0, <1>1, <2>1, <2>2 DEF WatchKeepsUp, WaitsForTheGrace, GatewayTypes
  <2> QED
    BY <2>3, <2>4, <2>5, <2>6
<1>4. CASE Syncs
  <2>1. /\ poller.at = "sync" /\ poller.read # NoGateway
        /\ machine' = poller.read /\ watched' = poller.read
        /\ reach' = Watching(poller.read)
        /\ past' = IF poller.read = watched THEN past ELSE Fresh
        /\ poller' = [poller EXCEPT !.at = "ask", !.left = Valves]
        /\ UNCHANGED <<where, entry, sweep, upsets>>
    BY <1>4 DEF Syncs, Usable, NoGateway
  <2>2. /\ poller' \in PollerType /\ poller'.at = "ask" /\ poller'.spent = poller.spent
        /\ ~poller'.heard
    BY <1>0, <2>1, NoneLeft DEF PollerType, WatchesWhatItDrives
  <2>3. CASE poller.read = watched
    <3>1. UNCHANGED <<reach, past>> /\ reach.seen
      BY <2>1, <2>3 DEF Watching, WatchKeepsUp
    <3>2. GatewayTypes'
      BY <1>0, <2>1, <2>2, <3>1 DEF GatewayTypes, PollerType
    <3>3. TypedStands' /\ AdoptedAlone' /\ OneAtAnAddress' /\ SweepMeetsThemAll'
      BY <2>1, <2>2, SearchUntouched
    <3>4. WatchesWhatItDrives' /\ WatchIsHonest'
      <4>1. poller.spent = 0
        BY <1>0, <2>1 DEF PollerType, WatchesWhatItDrives
      <4> QED
        BY <1>0, <2>1, <2>2, <3>1, <4>1 DEF WatchesWhatItDrives, WatchIsHonest
    <3>5. WatchKeepsUp' /\ WaitsForTheGrace'
      BY <1>0, <2>1, <2>2, <3>1 DEF WatchKeepsUp, WaitsForTheGrace, GatewayTypes, PollerType
    <3> QED
      BY <3>2, <3>3, <3>4, <3>5
  <2>4. CASE poller.read # watched
    <3>1. reach' = Unseen /\ past' = Fresh
      BY <2>1, <2>4 DEF Watching
    <3>2. GatewayTypes'
      BY <1>0, <2>1, <2>2, <3>1 DEF GatewayTypes, PollerType, Unseen, Fresh
    <3>3. TypedStands' /\ AdoptedAlone' /\ OneAtAnAddress' /\ SweepMeetsThemAll'
      BY <2>1, <2>2, SearchUntouched
    <3>4. WatchesWhatItDrives' /\ WatchIsHonest'
      BY <1>0, <2>1, <2>2, <3>1 DEF WatchesWhatItDrives, WatchIsHonest, PollerType, Unseen, Fresh
    <3>5. WatchKeepsUp' /\ WaitsForTheGrace'
      BY <1>0, <2>1, <2>2, <3>1 DEF WatchKeepsUp, WaitsForTheGrace, PollerType, Unseen, Fresh
    <3> QED
      BY <3>2, <3>3, <3>4, <3>5
  <2> QED
    BY <2>3, <2>4
<1>5. ASSUME NEW replied \in BOOLEAN, AsksValve(replied) PROVE GatewayIInv'
  <2>1. /\ poller.at = "ask" /\ poller.left > 0
        /\ poller' = [poller EXCEPT !.left = @ - 1, !.heard = @ \/ replied]
        /\ past' = IF replied THEN [past EXCEPT !.silent = 0] ELSE past
        /\ UNCHANGED <<where, entry, sweep, machine, watched, reach, upsets>>
    BY <1>5 DEF AsksValve
  <2>2. /\ poller' \in PollerType /\ poller'.at = "ask" /\ poller'.spent = poller.spent
        /\ poller'.heard <=> poller.heard \/ replied
    <3>1. poller.left - 1 \in 0 .. Valves /\ (poller.heard \/ replied) \in BOOLEAN
      BY <1>0, <2>1, NoneLeft DEF PollerType
    <3>2. poller' \in PollerType
      BY <1>0, <2>1, <3>1 DEF PollerType
    <3>3. poller'.heard = (poller.heard \/ replied) /\ poller'.at = "ask" /\ poller'.spent = poller.spent
      BY <1>0, <2>1 DEF PollerType
    <3> QED
      BY <3>2, <3>3
  <2>3. /\ past' \in [silent: Nat, kept: Nat, word: {"none", "offline", "online"}]
        /\ past'.kept = past.kept /\ past'.word = past.word
        /\ past'.silent = IF replied THEN 0 ELSE past.silent
    BY <2>1 DEF GatewayTypes
  <2>4. GatewayTypes'
    BY <1>0, <2>1, <2>2, <2>3, LoopTypes DEF GatewayTypes
  <2>5. TypedStands' /\ AdoptedAlone' /\ OneAtAnAddress' /\ SweepMeetsThemAll'
    BY <2>1, <2>2, SearchUntouched
  <2>6. WatchesWhatItDrives' /\ WatchIsHonest'
    BY <1>0, <2>1, <2>2, <2>3 DEF WatchesWhatItDrives, WatchIsHonest, PollerType
  <2>7. WatchKeepsUp' /\ WaitsForTheGrace'
    BY <1>0, <2>1, <2>2, <2>3 DEF WatchKeepsUp, WaitsForTheGrace, GatewayTypes, PollerType
  <2> QED
    BY <2>4, <2>5, <2>6, <2>7
<1>6. CASE EndsPass
  <2>1. /\ poller.at = "ask" /\ reach' = WatchStep.reach /\ poller' = Napping
        /\ past' = IF WatchStep.word = "none" THEN past ELSE [past EXCEPT !.word = WatchStep.word]
        /\ UNCHANGED <<where, entry, sweep, machine, watched, upsets>>
    BY <1>6 DEF EndsPass, Tells
  <2>2. reach \in [seen: BOOLEAN, age: Nat, told: BOOLEAN]
        /\ past \in [silent: Nat, kept: Nat, word: {"none", "offline", "online"}]
    BY DEF GatewayTypes
  <2>3. CASE poller.heard
    <3>1. /\ reach' = [seen |-> TRUE, age |-> 0, told |-> FALSE]
          /\ past' = IF reach.told THEN [past EXCEPT !.word = "online"] ELSE past
      BY <2>1, <2>3 DEF WatchStep, WhenHeard
    <3>2. /\ past' \in [silent: Nat, kept: Nat, word: {"none", "offline", "online"}]
          /\ past'.silent = past.silent /\ past'.kept = past.kept /\ past'.word # "offline"
      BY <2>2, <3>1 DEF WatchIsHonest
    <3>3. GatewayTypes'
      BY <1>0, <1>1, <2>1, <3>1, <3>2 DEF GatewayTypes, PollerType
    <3>4. TypedStands' /\ AdoptedAlone' /\ OneAtAnAddress' /\ SweepMeetsThemAll'
      BY <1>1, <2>1, SearchUntouched
    <3>5. WatchesWhatItDrives' /\ WatchIsHonest'
      BY <1>0, <1>1, <2>1, <3>1, <3>2 DEF WatchesWhatItDrives, WatchIsHonest, PollerType
    <3>6. WatchKeepsUp' /\ WaitsForTheGrace'
      BY <1>0, <1>1, <2>1, <2>2, <2>3, <3>1, <3>2 DEF WatchKeepsUp, WaitsForTheGrace, WatchesWhatItDrives, PollerType
    <3> QED
      BY <3>3, <3>4, <3>5, <3>6
  <2>4. CASE ~poller.heard
    <3>1. \/ /\ ~reach.seen /\ reach' = [reach EXCEPT !.seen = TRUE] /\ UNCHANGED past
          \/ /\ reach.seen /\ ~reach.told /\ reach.age >= OfflineGrace
             /\ reach' = [reach EXCEPT !.told = TRUE] /\ past' = [past EXCEPT !.word = "offline"]
          \/ /\ reach.seen /\ (reach.told \/ ~(reach.age >= OfflineGrace)) /\ UNCHANGED <<reach, past>>
      BY <2>1, <2>2, <2>4 DEF WatchStep, WhenSilent
    <3>2. /\ reach' \in [seen: BOOLEAN, age: Nat, told: BOOLEAN]
          /\ reach'.seen /\ reach'.age = reach.age
          /\ past' \in [silent: Nat, kept: Nat, word: {"none", "offline", "online"}]
          /\ past'.silent = past.silent /\ past'.kept = past.kept
          /\ reach'.told <=> past'.word = "offline"
          /\ ~reach.seen \/ reach'.told \/ reach.age < OfflineGrace
      <4>1. CASE /\ reach.seen /\ ~reach.told /\ reach.age >= OfflineGrace
                 /\ reach' = [reach EXCEPT !.told = TRUE] /\ past' = [past EXCEPT !.word = "offline"]
        BY <2>2, <4>1
      <4>2. CASE ~reach.seen /\ reach' = [reach EXCEPT !.seen = TRUE] /\ UNCHANGED past
        BY <2>2, <4>2 DEF WatchIsHonest
      <4>3. CASE reach.seen /\ (reach.told \/ ~(reach.age >= OfflineGrace)) /\ UNCHANGED <<reach, past>>
        BY <1>0, <2>2, <4>3 DEF WatchIsHonest
      <4> QED
        BY <3>1, <4>1, <4>2, <4>3
    <3>3. GatewayTypes'
      BY <1>0, <1>1, <2>1, <3>2 DEF GatewayTypes, PollerType
    <3>4. TypedStands' /\ AdoptedAlone' /\ OneAtAnAddress' /\ SweepMeetsThemAll'
      BY <1>1, <2>1, SearchUntouched
    <3>5. WatchesWhatItDrives' /\ WatchIsHonest'
      BY <1>0, <1>1, <2>1, <2>2, <2>4, <3>2 DEF WatchesWhatItDrives, WatchIsHonest, PollerType
    <3>6. WatchKeepsUp' /\ WaitsForTheGrace'
      BY <1>0, <1>1, <2>1, <2>2, <2>4, <3>2
         DEF WatchKeepsUp, WaitsForTheGrace, WatchesWhatItDrives, WatchIsHonest, PollerType
    <3> QED
      BY <3>3, <3>4, <3>5, <3>6
  <2> QED
    BY <2>3, <2>4
<1> QED
  BY <1>2, <1>3, <1>4, <1>5, <1>6

LEMMA GatewayUpset ==
    ASSUME GatewayIInv,
           \/ \E g \in Gateways, h \in Hosts \union {Nowhere} : GatewayMoves(g, h)
           \/ PlanTurns
           \/ \E place \in Places : OwnerTypes(place)
           \/ PollerRestart
    PROVE  GatewayIInv'
<1> USE DEF GatewayIInv
<1>0. Upset => upsets' \in 0 .. MaxUpsets
  BY GatewayAssumption DEF Upset, GatewayTypes
<1>1. ASSUME NEW g \in Gateways, NEW h \in Hosts \union {Nowhere}, GatewayMoves(g, h) PROVE GatewayIInv'
  <2>1. /\ h # Nowhere => \A other \in Gateways : where[other] # h
        /\ where' = [where EXCEPT ![g] = h]
        /\ sweep' = [sweep EXCEPT !.steady = @ \ {g}]
        /\ UNCHANGED <<entry, poller, machine, watched, reach, past>>
    BY <1>1 DEF GatewayMoves
  <2>2. sweep'.left = sweep.left /\ sweep'.found = sweep.found /\ sweep'.steady = sweep.steady \ {g}
    BY <2>1 DEF GatewayTypes
  <2>3. where' \in [Gateways -> Hosts \union {Nowhere}]
    BY <2>1 DEF GatewayTypes
  <2>4. sweep' \in SweepType
    BY <2>1 DEF GatewayTypes, SweepType
  <2>5. GatewayTypes'
    BY <1>0, <1>1, <2>1, <2>3, <2>4 DEF GatewayTypes, SweepType, GatewayMoves
  <2>6. TypedStands' /\ AdoptedAlone'
    BY <2>1 DEF TypedStands, AdoptedAlone
  <2>7. OneAtAnAddress'
    BY <2>1 DEF OneAtAnAddress, GatewayTypes
  <2>8. SweepMeetsThemAll'
    BY <2>1, <2>2 DEF SweepMeetsThemAll, GatewayTypes
  <2> QED
    BY <2>1, <2>5, <2>6, <2>7, <2>8, WatchUntouched
<1>2. CASE PlanTurns
  <2>1. /\ entry' = [entry EXCEPT !.allowed = ~@]
        /\ UNCHANGED <<where, poller, sweep, machine, watched, reach, past>>
    BY <1>2 DEF PlanTurns
  <2>2. /\ entry' \in [allowed: BOOLEAN, place: Places, typed: Places, alone: BOOLEAN]
        /\ entry'.place = entry.place /\ entry'.typed = entry.typed /\ entry'.alone = entry.alone
    BY <2>1 DEF GatewayTypes
  <2>3. GatewayTypes'
    BY <1>0, <1>2, <2>1, <2>2 DEF GatewayTypes, PlanTurns
  <2>4. TypedStands' /\ AdoptedAlone' /\ OneAtAnAddress' /\ SweepMeetsThemAll'
    BY <2>1, <2>2 DEF TypedStands, AdoptedAlone, OneAtAnAddress, SweepMeetsThemAll
  <2> QED
    BY <2>1, <2>3, <2>4, WatchUntouched
<1>3. ASSUME NEW place \in Places, OwnerTypes(place) PROVE GatewayIInv'
  <2>1. /\ entry' = [entry EXCEPT !.place = place, !.typed = place, !.alone = TRUE]
        /\ UNCHANGED <<where, poller, sweep, machine, watched, reach, past>>
    BY <1>3 DEF OwnerTypes
  <2>2. /\ entry' \in [allowed: BOOLEAN, place: Places, typed: Places, alone: BOOLEAN]
        /\ entry'.place = place /\ entry'.typed = place /\ entry'.alone
    BY <2>1 DEF GatewayTypes
  <2>3. GatewayTypes'
    BY <1>0, <1>3, <2>1, <2>2 DEF GatewayTypes, OwnerTypes
  <2>4. TypedStands' /\ AdoptedAlone' /\ OneAtAnAddress' /\ SweepMeetsThemAll'
    BY <2>1, <2>2 DEF TypedStands, AdoptedAlone, OneAtAnAddress, SweepMeetsThemAll
  <2> QED
    BY <2>1, <2>3, <2>4, WatchUntouched
<1>4. CASE PollerRestart
  <2>1. /\ poller' = Napping /\ sweep' = NoSweep /\ machine' = NoGateway /\ watched' = NoGateway
        /\ reach' = Unseen /\ past' = Fresh /\ UNCHANGED <<where, entry>>
    BY <1>4 DEF PollerRestart
  <2>2. poller' \in PollerType /\ poller'.at = "nap" /\ ~poller'.heard /\ poller'.spent = 0
    BY <2>1, PlaceTypes, PollerSetsOut DEF Napping
  <2>3. GatewayTypes'
    BY <1>0, <1>4, <2>1, <2>2, PlaceTypes DEF GatewayTypes, PollerRestart, PollerType, NoSweep, Unseen, Fresh
  <2>4. TypedStands' /\ AdoptedAlone' /\ OneAtAnAddress' /\ SweepMeetsThemAll'
    BY <2>1, <2>2 DEF TypedStands, AdoptedAlone, OneAtAnAddress, SweepMeetsThemAll
  <2>5. WatchesWhatItDrives' /\ WatchIsHonest' /\ WatchKeepsUp' /\ WaitsForTheGrace'
    BY <2>1, <2>2 DEF WatchesWhatItDrives, WatchIsHonest, WatchKeepsUp, WaitsForTheGrace, Unseen, Fresh
  <2> QED
    BY <2>3, <2>4, <2>5
<1> QED
  BY <1>1, <1>2, <1>3, <1>4

LEMMA LaterIsLater ==
    ASSUME NEW n \in Nat
    PROVE  /\ Later(n) \in Nat /\ n <= Later(n) /\ Later(n) <= n + 1
           /\ \A k \in Nat : n <= k => Later(n) <= Later(k)
           /\ \A k \in Nat : n <= k + PassTime => Later(n) <= Later(k) + PassTime
BY GatewayAssumption DEF Later, LongAgo

LEMMA TimeStep ==
    ASSUME GatewayIInv, TimeGoesOn
    PROVE  GatewayIInv'
<1> USE DEF GatewayIInv
<1>0. /\ poller \in PollerType /\ sweep \in SweepType /\ OfflineGrace \in Nat \ {0} /\ PassTime \in Nat
      /\ reach \in [seen: BOOLEAN, age: Nat, told: BOOLEAN]
      /\ past \in [silent: Nat, kept: Nat, word: {"none", "offline", "online"}]
  BY GatewayAssumption DEF GatewayTypes, PollerType, SweepType
<1>1. UNCHANGED <<where, entry, sweep, machine, watched, upsets>>
  BY DEF TimeGoesOn
<1>2. /\ reach' \in [seen: BOOLEAN, age: Nat, told: BOOLEAN]
      /\ reach'.seen = reach.seen /\ reach'.told = reach.told
      /\ reach'.age = IF reach.seen THEN Later(reach.age) ELSE reach.age
  BY <1>0, LaterIsLater DEF TimeGoesOn
<1>3. /\ past' \in [silent: Nat, kept: Nat, word: {"none", "offline", "online"}]
      /\ past'.silent = Later(past.silent) /\ past'.word = past.word
      /\ past'.kept = IF machine = NoGateway \/ poller.at = "sweep" THEN 0 ELSE Later(past.kept)
  BY <1>0, LaterIsLater DEF TimeGoesOn
<1>4. /\ poller' \in PollerType /\ poller'.at = poller.at /\ poller'.heard = poller.heard
      /\ poller'.spent = IF poller.at = "sweep" THEN poller.spent ELSE poller.spent + 1
  BY <1>0 DEF TimeGoesOn, PollerType
<1>5. \/ poller.at = "nap" /\ poller.spent < 1
      \/ poller.at = "sweep"
      \/ poller.at = "ask" /\ poller.spent < PassTime
  BY DEF TimeGoesOn
<1>6. GatewayTypes'
  BY <1>1, <1>2, <1>3, <1>4 DEF GatewayTypes, PollerType
<1>7. TypedStands' /\ AdoptedAlone' /\ OneAtAnAddress' /\ SweepMeetsThemAll'
  BY <1>1, <1>4, SearchUntouched
<1>8. poller.spent \in Nat /\ reach.age \in Nat /\ past.silent \in Nat /\ past.kept \in Nat
  BY <1>0 DEF PollerType
<1>9. /\ Later(reach.age) \in Nat /\ Later(past.silent) \in Nat /\ Later(past.kept) \in Nat
      /\ Later(reach.age) <= reach.age + 1 /\ Later(past.silent) <= past.silent + 1 /\ Later(past.kept) <= past.kept + 1
      /\ reach.age <= past.silent => Later(reach.age) <= Later(past.silent)
      /\ past.silent <= reach.age + PassTime => Later(past.silent) <= Later(reach.age) + PassTime
      /\ past.kept <= reach.age + PassTime => Later(past.kept) <= Later(reach.age) + PassTime
  BY <1>8, LaterIsLater
<1>10. WatchesWhatItDrives'
  BY <1>0, <1>1, <1>3, <1>4, <1>5, <1>8 DEF WatchesWhatItDrives
<1>11. WatchIsHonest'
  BY <1>2, <1>3, <1>4, <1>9 DEF WatchIsHonest
<1>12. WatchKeepsUp'
  BY <1>0, <1>1, <1>2, <1>3, <1>4, <1>5, <1>8, <1>9 DEF WatchKeepsUp, WatchesWhatItDrives
<1>13. WaitsForTheGrace'
  BY <1>0, <1>1, <1>2, <1>3, <1>4, <1>5, <1>8, <1>9 DEF WaitsForTheGrace, WatchesWhatItDrives
<1> QED
  BY <1>6, <1>7, <1>10, <1>11, <1>12, <1>13

LEMMA GatewayStep == GatewayIInv /\ [GatewayNext]_gatewayVars => GatewayIInv'
<1>1. ASSUME GatewayIInv, UNCHANGED gatewayVars PROVE GatewayIInv'
  <2>1. GatewayTypes'
    BY <1>1 DEF GatewayIInv, gatewayVars, GatewayTypes
  <2>2. TypedStands' /\ AdoptedAlone' /\ OneAtAnAddress' /\ SweepMeetsThemAll'
    BY <1>1, SearchUntouched DEF gatewayVars
  <2>3. WatchesWhatItDrives' /\ WatchIsHonest' /\ WatchKeepsUp' /\ WaitsForTheGrace'
    BY <1>1, WatchUntouched DEF gatewayVars
  <2> QED
    BY <2>1, <2>2, <2>3 DEF GatewayIInv
<1> QED
  BY <1>1, SearchStep, PassStep, GatewayUpset, TimeStep DEF GatewayNext

\* A word is the outcome of a pass.
LEMMA ToldForCauseStep == GatewayIInv => ToldForCause
<1>1. ASSUME GatewayIInv, EndsPass, Tells("offline") PROVE past.silent >= OfflineGrace /\ past.word # "offline"
  <2>1. ~poller.heard /\ reach.seen /\ ~reach.told /\ reach.age >= OfflineGrace
    BY <1>1 DEF Tells, WatchStep, WhenHeard, WhenSilent
  <2> QED
    BY <1>1, <2>1, GatewayAssumption DEF GatewayIInv, WatchIsHonest, GatewayTypes
<1>2. ASSUME GatewayIInv, EndsPass, Tells("online") PROVE past.word = "offline"
  <2>1. reach.told
    BY <1>2 DEF Tells, WatchStep, WhenHeard, WhenSilent
  <2> QED
    BY <1>2, <2>1 DEF GatewayIInv, WatchIsHonest
<1> QED
  BY <1>1, <1>2 DEF ToldForCause

\* The hub adopts the one gateway there is and lets what is typed stand; of the gateway it polls it says,
\* each time for cause and within the grace and two passes, that it is gone and that it is back.
THEOREM GatewayIsWatched == GatewaySpec => GatewayHolds
<1>1. GatewayIInv => GatewayTypes /\ TypedStands /\ AdoptedAlone /\ ToldInTime
  BY ToldInTimeImplied DEF GatewayIInv
<1>2. GatewayIInv => [ToldForCause]_gatewayVars
  BY ToldForCauseStep
<1> QED
  BY <1>1, <1>2, GatewayInitial, GatewayStep, PTL DEF GatewaySpec, GatewayHolds

-----------------------------------------------------------------------------
(* The tray (Tray) *)

Serving == box.process = "serving"

\* A look that saw the computer as it still is.
GlanceIsTrue ==
    "look" \in account.steady =>
        /\ glance.at # "rest"
        /\ glance.answering <=> Serving
        /\ glance.registered <=> Serving /\ box.signed
        /\ glance.at = "found" => glance.program = box.program

SentIsTrue ==
    "sent" \in account.steady =>
        /\ sighted # NoObservation
        /\ sighted.answering <=> Serving
        /\ sighted.registered <=> Serving /\ box.signed
        /\ sighted.program = box.program /\ sighted.service = box.service

\* What the tray knows of the look it last showed.
ShownIsTrue ==
    "shown" \in account.steady =>
        /\ monitor.last = "ok" <=> Serving /\ box.signed
        /\ monitor.last = "unsigned" <=> Serving /\ ~box.signed
        /\ monitor.last = "absent" => ~box.service /\ ~box.program
        /\ monitor.last = "bad" /\ account.looks = 2 => monitor.reason = IF box.program THEN "stopped" ELSE "removed"

\* The tray remembers whether it met a hub, and the owner's last word is the reason it holds.
MonitorRemembers ==
    /\ monitor.seen = account.met
    /\ monitor.last = "none" <=> account.looks = 0
    /\ monitor.last = "none" => notice = "none"
    /\ monitor.last = "absent" => ~monitor.seen
    /\ monitor.last # "bad" => monitor.reason = "none" /\ notice \in {"none", "recovered"}
    /\ monitor.last = "bad" /\ account.looks = 1 => monitor.reason = "none" /\ notice = "none"
    /\ monitor.last = "bad" /\ account.looks = 2 => monitor.reason # "none" /\ notice = monitor.reason

TrayIInv ==
    /\ TrayTypes
    /\ GlanceIsTrue /\ SentIsTrue /\ ShownIsTrue /\ MonitorRemembers

LEMMA TrayInitial == TrayInit => TrayIInv
<1> SUFFICES ASSUME TrayInit PROVE TrayIInv
  OBVIOUS
<1> USE DEF TrayInit, NotLooking, NoObservation, Blind, NoAccount
<1>1. TrayTypes
  <2>1. box \in [service: BOOLEAN, program: BOOLEAN, process: {"off", "starting", "serving"}, signed: BOOLEAN,
                 asked: BOOLEAN]
    OBVIOUS
  <2>2. sighted \in Observation
    BY DEF Observation
  <2>3. monitor \in [last: Icons \union {"none"}, seen: BOOLEAN, reason: {"none", "removed", "stopped"}]
        /\ notice \in Alerts \union {"none"}
    OBVIOUS
  <2> QED
    BY <2>1, <2>2, <2>3, TrayAssumption DEF TrayTypes
<1>2. GlanceIsTrue /\ SentIsTrue /\ ShownIsTrue /\ MonitorRemembers
  BY DEF GlanceIsTrue, SentIsTrue, ShownIsTrue, MonitorRemembers
<1> QED
  BY <1>1, <1>2 DEF TrayIInv

Box == [service: BOOLEAN, program: BOOLEAN, process: {"off", "starting", "serving"}, signed: BOOLEAN, asked: BOOLEAN]
Account == [looks: 0 .. 2, met: BOOLEAN, steady: SUBSET {"look", "sent", "shown"}]

\* The computer changes: nothing that was seen need be so any more.
LEMMA Altered ==
    ASSUME TrayIInv, NEW new \in Box, Alters(new), turns' \in 0 .. MaxTurns
    PROVE  TrayIInv'
<1>1. /\ box' = new /\ account' = [account EXCEPT !.steady = {}]
      /\ UNCHANGED <<glance, sighted, monitor, notice>>
  BY DEF Alters
<1>2. account' \in Account /\ account'.looks = account.looks /\ account'.met = account.met /\ account'.steady = {}
  BY <1>1 DEF TrayIInv, TrayTypes, Account
<1>3. TrayTypes'
  BY <1>1, <1>2 DEF TrayIInv, TrayTypes, Box, Account
<1>4. GlanceIsTrue' /\ SentIsTrue' /\ ShownIsTrue'
  BY <1>2 DEF GlanceIsTrue, SentIsTrue, ShownIsTrue
<1>5. MonitorRemembers'
  BY <1>1, <1>2 DEF TrayIInv, MonitorRemembers
<1> QED
  BY <1>3, <1>4, <1>5 DEF TrayIInv

LEMMA ComputerStep ==
    ASSUME TrayIInv,
           \/ Installs \/ Uninstalls \/ Quarantines \/ RemovesEntry \/ Crashes \/ ProcessStarts
           \/ Binds \/ BindFails \/ StopAsked \/ WindsDown \/ Signs
    PROVE  TrayIInv'
<1>1. Turns \/ UNCHANGED turns => turns' \in 0 .. MaxTurns
  BY TrayAssumption DEF Turns, TrayIInv, TrayTypes
<1>2. box \in Box /\ Dead(box) \in Box
  BY DEF TrayIInv, TrayTypes, Box, Dead
<1>3. /\ [box EXCEPT !.service = TRUE, !.program = TRUE] \in Box
      /\ [Dead(box) EXCEPT !.service = FALSE, !.program = FALSE] \in Box
      /\ [box EXCEPT !.program = FALSE] \in Box /\ [Dead(box) EXCEPT !.program = FALSE] \in Box
      /\ [box EXCEPT !.service = FALSE] \in Box
      /\ [box EXCEPT !.process = "starting"] \in Box /\ [box EXCEPT !.process = "serving"] \in Box
      /\ [box EXCEPT !.asked = TRUE] \in Box /\ [box EXCEPT !.signed = ~@] \in Box
  BY <1>2 DEF Box
<1>4. PICK new \in Box : Alters(new) /\ (Turns \/ UNCHANGED turns)
  <2>1. CASE Installs \/ Uninstalls \/ RemovesEntry \/ Crashes \/ ProcessStarts \/ Signs \/ StopAsked
    BY <1>2, <1>3, <2>1, Zenon DEF Installs, Uninstalls, RemovesEntry, Crashes, ProcessStarts, Signs, StopAsked
  <2>2. CASE Binds \/ BindFails \/ WindsDown
    BY <1>2, <1>3, <2>2, Zenon DEF Binds, BindFails, WindsDown
  <2>3. CASE Quarantines
    BY <1>2, <1>3, <2>3, Zenon DEF Quarantines
  <2> QED
    BY <2>1, <2>2, <2>3
<1> QED
  BY <1>1, <1>4, Altered

LEMMA LookStep ==
    ASSUME TrayIInv, (\E answering \in BOOLEAN : Pings(answering)) \/ FindsProgram \/ FindsService
    PROVE  TrayIInv'
<1> USE DEF TrayIInv
<1>0. /\ box \in Box /\ account \in Account /\ sighted \in Observation
      /\ glance \in [at: {"rest", "pinged", "found"}, answering: BOOLEAN, registered: BOOLEAN, program: BOOLEAN]
  BY DEF TrayTypes, Box, Account
<1>1. ASSUME NEW answering \in BOOLEAN, Pings(answering) PROVE TrayIInv'
  <2>1. /\ answering => Serving
        /\ glance' = [at |-> "pinged", answering |-> answering, registered |-> answering /\ box.signed, program |-> FALSE]
        /\ account' = [account EXCEPT !.steady =
                         IF answering = Serving THEN @ \union {"look"} ELSE @ \ {"look"}]
        /\ UNCHANGED <<box, sighted, monitor, notice, turns>>
    BY <1>1 DEF Pings, NotLooking, Serving
  <2>2. /\ account' \in Account /\ account'.looks = account.looks /\ account'.met = account.met
        /\ "look" \in account'.steady => (answering <=> Serving)
        /\ account'.steady \subseteq account.steady \union {"look"}
    BY <1>0, <2>1 DEF Account
  <2>3. (answering /\ box.signed) \in BOOLEAN
    BY <1>0 DEF Box
  <2>4. TrayTypes'
    BY <2>1, <2>2, <2>3 DEF TrayTypes, Account
  <2>5. GlanceIsTrue'
    <3>1. glance'.answering = answering /\ glance'.registered = (answering /\ box.signed) /\ glance'.at = "pinged"
      BY <2>1
    <3> QED
      BY <2>1, <2>2, <3>1 DEF GlanceIsTrue, Serving
  <2>6. SentIsTrue' /\ ShownIsTrue' /\ MonitorRemembers'
    BY <2>1, <2>2 DEF SentIsTrue, ShownIsTrue, MonitorRemembers, Serving
  <2> QED
    BY <2>4, <2>5, <2>6
<1>2. CASE FindsProgram
  <2>1. /\ glance.at = "pinged" /\ glance' = [glance EXCEPT !.at = "found", !.program = box.program]
        /\ UNCHANGED <<box, sighted, monitor, notice, account, turns>>
    BY <1>2 DEF FindsProgram
  <2>2. /\ glance' \in [at: {"rest", "pinged", "found"}, answering: BOOLEAN, registered: BOOLEAN, program: BOOLEAN]
        /\ glance'.at = "found" /\ glance'.answering = glance.answering /\ glance'.registered = glance.registered
        /\ glance'.program = box.program
    BY <1>0, <2>1 DEF Box
  <2>3. TrayTypes'
    BY <2>1, <2>2 DEF TrayTypes
  <2>4. GlanceIsTrue' /\ SentIsTrue' /\ ShownIsTrue' /\ MonitorRemembers'
    BY <2>1, <2>2 DEF GlanceIsTrue, SentIsTrue, ShownIsTrue, MonitorRemembers, Serving
  <2> QED
    BY <2>3, <2>4
<1>3. CASE FindsService
  <2>1. /\ glance.at = "found" /\ sighted = NoObservation
        /\ sighted' = [answering |-> glance.answering, registered |-> glance.registered,
                       program |-> glance.program, service |-> box.service]
        /\ glance' = NotLooking
        /\ account' = [account EXCEPT !.steady =
                         IF "look" \in @ THEN (@ \ {"look"}) \union {"sent"} ELSE @ \ {"sent"}]
        /\ UNCHANGED <<box, monitor, notice, turns>>
    BY <1>3 DEF FindsService
  <2>2. /\ account' \in Account /\ account'.looks = account.looks /\ account'.met = account.met
        /\ "look" \notin account'.steady
        /\ "sent" \in account'.steady => "look" \in account.steady
        /\ account'.steady \subseteq account.steady \union {"sent"}
    BY <1>0, <2>1 DEF Account
  <2>3. /\ sighted' \in Observation
        /\ sighted'.answering = glance.answering /\ sighted'.registered = glance.registered
        /\ sighted'.program = glance.program /\ sighted'.service = box.service
    BY <1>0, <2>1 DEF Observation, Box
  <2>4. TrayTypes'
    BY <2>1, <2>2, <2>3 DEF TrayTypes, Account, NotLooking
  <2>5. SentIsTrue'
    BY <2>1, <2>2, <2>3 DEF GlanceIsTrue, SentIsTrue, Serving, NoObservation
  <2>6. GlanceIsTrue' /\ ShownIsTrue' /\ MonitorRemembers'
    BY <2>1, <2>2 DEF GlanceIsTrue, ShownIsTrue, MonitorRemembers, Serving
  <2> QED
    BY <2>4, <2>5, <2>6
<1> QED
  BY <1>1, <1>2, <1>3

\* What one look makes of the monitor.
LEMMA ObservesOne ==
    ASSUME TrayTypes, NEW o \in Observation
    PROVE  /\ LookedAt(o).last = Classify(o) /\ Classify(o) \in Icons
           /\ LookedAt(o).seen = SeenAfter(o) /\ SeenAfter(o) \in BOOLEAN
           /\ LookedAt(o).reason = IF Classify(o) = "bad" THEN Unless(AlertAt(o), monitor.reason) ELSE "none"
           /\ Classify(o) = "ok" <=> o.answering /\ o.registered
           /\ Classify(o) = "unsigned" <=> o.answering /\ ~o.registered
           /\ Classify(o) = "bad" <=> ~o.answering /\ SeenAfter(o)
           /\ Classify(o) = "absent" => ~SeenAfter(o)
           /\ Diagnose(o) \in {"removed", "stopped"}
           /\ Diagnose(o) = IF o.program THEN "stopped" ELSE "removed"
<1>1. SeenAfter(o) \in BOOLEAN
  BY DEF SeenAfter, TrayTypes, Observation
<1>2. o.answering \in BOOLEAN /\ o.registered \in BOOLEAN
  BY DEF Observation
<1>3. LookedAt(o).last = Classify(o) /\ LookedAt(o).seen = SeenAfter(o)
      /\ LookedAt(o).reason = IF Classify(o) = "bad" THEN Unless(AlertAt(o), monitor.reason) ELSE "none"
  BY DEF LookedAt
<1>4. /\ Classify(o) \in Icons
      /\ Classify(o) = "ok" <=> o.answering /\ o.registered
      /\ Classify(o) = "unsigned" <=> o.answering /\ ~o.registered
      /\ Classify(o) = "bad" <=> ~o.answering /\ SeenAfter(o)
      /\ Classify(o) = "absent" => ~SeenAfter(o)
  BY <1>1, <1>2 DEF Classify, Icons
<1> QED
  BY <1>1, <1>3, <1>4 DEF Diagnose

\* The word that goes with it: the reason when that is new, and that the hub is back.
LEMMA AlertOfOne ==
    ASSUME TrayTypes, MonitorRemembers, NEW o \in Observation
    PROVE  /\ monitor.last = "none" => AlertAt(o) = "none"
           /\ monitor.last \notin {"none", "bad"} /\ Classify(o) = "bad" => AlertAt(o) = Diagnose(o)
           /\ monitor.last = "bad" /\ Classify(o) = "bad" =>
                AlertAt(o) = IF monitor.reason # Diagnose(o) THEN Diagnose(o) ELSE "none"
           /\ monitor.last \notin {"none", "bad"} /\ Classify(o) # "bad" => AlertAt(o) = "none"
           /\ monitor.last = "bad" /\ Classify(o) # "bad" => AlertAt(o) = "recovered"
BY DEF AlertAt, WasBad

LEMMA ObservesStep ==
    ASSUME TrayIInv, Observes
    PROVE  TrayIInv' /\ NeverNags
<1> USE DEF TrayIInv
<1> DEFINE o == sighted
<1>0. /\ account \in Account /\ sighted \in Observation /\ box \in Box
      /\ monitor \in [last: Icons \union {"none"}, seen: BOOLEAN, reason: {"none", "removed", "stopped"}]
      /\ notice \in Alerts \union {"none"}
  BY DEF TrayTypes, Account, Box
<1>1. /\ sighted # NoObservation /\ monitor' = LookedAt(o) /\ notice' = Unless(AlertAt(o), notice)
      /\ sighted' = NoObservation
      /\ account' = [looks |-> IF account.looks = 0 THEN 1 ELSE 2,
                     met |-> account.met \/ o.service \/ o.program \/ o.answering,
                     steady |-> IF "sent" \in account.steady THEN (account.steady \ {"sent"}) \union {"shown"}
                                ELSE account.steady \ {"shown"}]
      /\ UNCHANGED <<box, glance, turns>>
  BY DEF Observes
<1>2. /\ account'.looks = IF account.looks = 0 THEN 1 ELSE 2
      /\ account'.met = (account.met \/ o.service \/ o.program \/ o.answering)
      /\ "sent" \notin account'.steady
      /\ "shown" \in account'.steady => "sent" \in account.steady
      /\ "look" \in account'.steady => "look" \in account.steady
      /\ account' \in Account
  BY <1>0, <1>1 DEF Account, Observation
<1> HIDE DEF o
<1>3. o \in Observation /\ o = sighted
  BY <1>0 DEF o
<1>4. /\ monitor'.last = Classify(o) /\ monitor'.seen = SeenAfter(o)
      /\ monitor'.reason = IF Classify(o) = "bad" THEN Unless(AlertAt(o), monitor.reason) ELSE "none"
      /\ monitor' = [last |-> Classify(o), seen |-> SeenAfter(o), reason |-> monitor'.reason]
  BY <1>1, <1>3, ObservesOne DEF LookedAt
<1>5. /\ MonitorRemembers' /\ NeverNags
      /\ monitor'.reason \in {"none", "removed", "stopped"} /\ notice' \in Alerts \union {"none"}
      /\ account'.looks = 2 /\ Classify(o) = "bad" => monitor'.reason = Diagnose(o)
  <2>1. monitor'.seen = account'.met
    BY <1>2, <1>4 DEF SeenAfter, MonitorRemembers
  <2>2. Classify(o) \in Icons /\ Diagnose(o) \in {"removed", "stopped"} /\ (Classify(o) = "absent" => ~SeenAfter(o))
    BY <1>3, ObservesOne
  <2>3. (monitor.last = "none" <=> account.looks = 0) /\ account.looks \in 0 .. 2
    BY <1>0 DEF MonitorRemembers, Account
  <2>4. CASE monitor.last = "none"
    <3>1. AlertAt(o) = "none" /\ monitor.reason = "none" /\ notice = "none"
      BY <1>3, <2>4, AlertOfOne DEF MonitorRemembers
    <3>2. account'.looks = 1 /\ notice' = notice /\ monitor'.reason = "none"
      BY <1>1, <1>2, <1>4, <2>3, <2>4, <3>1 DEF Unless
    <3>3. NeverNags
      BY <1>3, <3>1 DEF NeverNags
    <3>4. MonitorRemembers'
      <4>1. monitor'.last = Classify(o) /\ monitor'.seen = SeenAfter(o) /\ monitor'.last \in Icons
        BY <1>4, <2>2
      <4>2. monitor'.last # "none"
        BY <4>1 DEF Icons
      <4> QED
        BY <2>1, <2>2, <3>1, <3>2, <4>1, <4>2 DEF MonitorRemembers
    <3> QED
      BY <3>1, <3>2, <3>3, <3>4 DEF Alerts
  <2>5. CASE monitor.last \notin {"none", "bad"}
    <3>1. AlertAt(o) = (IF Classify(o) = "bad" THEN Diagnose(o) ELSE "none")
      BY <1>3, <2>5, AlertOfOne
    <3>2. account'.looks = 2 /\ notice \in {"none", "recovered"}
      BY <1>2, <2>3, <2>5 DEF MonitorRemembers
    <3> QED
      BY <1>1, <1>3, <1>4, <2>1, <2>2, <2>5, <3>1, <3>2 DEF MonitorRemembers, NeverNags, Alerts, Icons, Unless
  <2>6. CASE monitor.last = "bad"
    <3>1. /\ account'.looks = 2 /\ notice = monitor.reason /\ account.looks \in {1, 2}
          /\ monitor.reason \in {"none", "removed", "stopped"}
      BY <1>0, <1>2, <2>3, <2>6 DEF MonitorRemembers
    <3>2. AlertAt(o) = IF Classify(o) # "bad" THEN "recovered"
                       ELSE IF monitor.reason # Diagnose(o) THEN Diagnose(o) ELSE "none"
      BY <1>3, <2>6, AlertOfOne
    <3> QED
      BY <1>1, <1>3, <1>4, <2>1, <2>2, <2>6, <3>1, <3>2 DEF MonitorRemembers, NeverNags, Alerts, Icons, Unless
  <2> QED
    BY <1>0, <2>4, <2>5, <2>6
<1>6. TrayTypes'
  <2>1. SeenAfter(o) \in BOOLEAN /\ Classify(o) \in Icons
    BY <1>3, ObservesOne
  <2>2. monitor' \in [last: Icons \union {"none"}, seen: BOOLEAN, reason: {"none", "removed", "stopped"}]
    BY <1>4, <1>5, <2>1
  <2> QED
    BY <1>1, <1>2, <1>5, <2>2 DEF TrayTypes, Account, NoObservation, Observation
<1>7. GlanceIsTrue' /\ SentIsTrue'
  BY <1>1, <1>2 DEF GlanceIsTrue, SentIsTrue, Serving
<1>8. ShownIsTrue'
  <2> SUFFICES ASSUME "shown" \in account'.steady
               PROVE  /\ monitor'.last = "ok" <=> Serving /\ box.signed
                      /\ monitor'.last = "unsigned" <=> Serving /\ ~box.signed
                      /\ monitor'.last = "absent" => ~box.service /\ ~box.program
                      /\ monitor'.last = "bad" /\ account'.looks = 2 =>
                            monitor'.reason = IF box.program THEN "stopped" ELSE "removed"
    BY <1>1 DEF ShownIsTrue, Serving
  <2>1. /\ o.answering <=> Serving
        /\ o.registered <=> Serving /\ box.signed
        /\ o.program = box.program /\ o.service = box.service
    BY <1>2, <1>3 DEF SentIsTrue
  <2>2. /\ Classify(o) = "ok" <=> o.answering /\ o.registered
        /\ Classify(o) = "unsigned" <=> o.answering /\ ~o.registered
        /\ Classify(o) = "absent" => ~SeenAfter(o)
        /\ Diagnose(o) = IF o.program THEN "stopped" ELSE "removed"
    BY <1>3, ObservesOne
  <2>3. ~SeenAfter(o) => ~o.service /\ ~o.program
    BY DEF SeenAfter
  <2>4. /\ o.answering \in BOOLEAN /\ o.registered \in BOOLEAN /\ box.signed \in BOOLEAN
        /\ Serving \in BOOLEAN
    BY <1>0, <1>3 DEF Observation, Box, Serving
  <2>5. Classify(o) = "ok" <=> Serving /\ box.signed
    BY <2>1, <2>2, <2>4
  <2>6. Classify(o) = "unsigned" <=> Serving /\ ~box.signed
    BY <2>1, <2>2, <2>4
  <2>7. Classify(o) = "absent" => ~box.service /\ ~box.program
    BY <2>1, <2>2, <2>3
  <2> QED
    BY <1>4, <1>5, <2>1, <2>2, <2>5, <2>6, <2>7
<1> QED
  BY <1>5, <1>6, <1>7, <1>8

LEMMA SignsInStep ==
    ASSUME TrayIInv, SignsIn
    PROVE  TrayIInv'
<1>1. /\ glance' = NotLooking /\ sighted' = NoObservation /\ monitor' = Blind /\ notice' = "none"
      /\ account' = NoAccount /\ UNCHANGED box
  BY DEF SignsIn
<1>2. turns' \in 0 .. MaxTurns
  BY TrayAssumption DEF SignsIn, Turns, TrayIInv, TrayTypes
<1>3. TrayTypes'
  BY <1>1, <1>2 DEF TrayIInv, TrayTypes, NotLooking, NoObservation, Observation, Blind, NoAccount
<1>4. GlanceIsTrue' /\ SentIsTrue' /\ ShownIsTrue' /\ MonitorRemembers'
  BY <1>1 DEF GlanceIsTrue, SentIsTrue, ShownIsTrue, MonitorRemembers, NoAccount, Blind
<1> QED
  BY <1>3, <1>4 DEF TrayIInv

LEMMA TrayStep == TrayIInv /\ [TrayNext]_trayVars => TrayIInv'
<1>1. ASSUME TrayIInv, UNCHANGED trayVars PROVE TrayIInv'
  <2>1. TrayTypes'
    BY <1>1 DEF TrayIInv, TrayTypes, trayVars
  <2>2. GlanceIsTrue' /\ SentIsTrue' /\ ShownIsTrue' /\ MonitorRemembers'
    BY <1>1 DEF TrayIInv, GlanceIsTrue, SentIsTrue, ShownIsTrue, MonitorRemembers, Serving, trayVars
  <2> QED
    BY <2>1, <2>2 DEF TrayIInv
<1> QED
  BY <1>1, ComputerStep, LookStep, ObservesStep, SignsInStep DEF TrayNext

LEMMA TrayImplied == TrayIInv => IconIsTrue /\ WordIsTrue
<1> SUFFICES ASSUME TrayIInv PROVE IconIsTrue /\ WordIsTrue
  OBVIOUS
<1>1. IconIsTrue
  BY DEF TrayIInv, IconIsTrue, ShownIsTrue, MonitorRemembers, TrayTypes, Serving
<1>2. WordIsTrue
  BY DEF TrayIInv, WordIsTrue, ShownIsTrue, MonitorRemembers, TrayTypes
<1> QED
  BY <1>1, <1>2

\* The tray shows the hub as a look found it, gives the reason that holds now, and never twice in a row.
THEOREM TrayTellsOnce == TraySpec => TrayHolds
<1>1. TrayIInv => TrayTypes /\ IconIsTrue /\ WordIsTrue
  BY TrayImplied DEF TrayIInv
<1>2. TrayIInv => [NeverNags]_trayVars
  BY ObservesStep DEF NeverNags
<1> QED
  BY <1>1, <1>2, TrayInitial, TrayStep, PTL DEF TraySpec, TrayHolds
=============================================================================
