-------------------------------- MODULE MCLan --------------------------------
(***************************************************************************)
(* The hub, its computer and its LAN, one part at a time.  Of hub.json     *)
(* each part knows its own entry; that no writer disturbs the entry of     *)
(* another is what HubStore is about, and nothing else is shared.  A modem *)
(* router and a dish, of two vendors; each vendor's router with GPS and    *)
(* without; a Flood G4 and a sensor that keeps both urls; the gateways;    *)
(* hub.json; the web app; the tray.                                        *)
(***************************************************************************)
EXTENDS Routers, RouterRegistry, SensorWiring, Gateway, HubStore, WebApp, Tray

VARIABLE part

MCVendor == [r \in {"cell", "dish"} |-> r]

MCDevices ==
    [vendor: Vendors, cred: {1}, gps: {"locked", "none"}, apn: {[manual |-> FALSE, named |-> FALSE]}]

Alarm(urls) == [event |-> "alarm", urls |-> urls]
Measured == [event |-> "measurement", urls |-> <<"cloud">>]

MCWishes ==
    {[hooks |-> <<Alarm(<<"hub", "cloud">>), Measured>>, bleOff |-> TRUE],
     [hooks |-> <<Alarm(<<"cloud">>)>>, bleOff |-> FALSE]}

MCSensors == [keeps: {1, 2}, hooks: {<<[Measured EXCEPT !.urls = <<"hub">>]>>}, ble: {TRUE}]

Parts == {"routers", "registry", "wiring", "gateway", "store", "web", "tray"}

\* Of a part that is not checked, one initial state is enough.
LanInit ==
    /\ part \in Parts
    /\ Init /\ RegistryInit /\ WiringInit /\ GatewayInit /\ StoreInit /\ WebInit /\ TrayInit
    /\ part # "registry" => device = CHOOSE d \in Devices : TRUE
    /\ part # "wiring" => sensor = CHOOSE s \in Sensors : TRUE
    /\ part # "gateway" => where = [g \in Gateways |-> Nowhere]
    /\ part # "tray" => ~box.service /\ ~box.program /\ ~box.signed

lanVars == <<part, vars, registryVars, wiringVars, gatewayVars, storeVars, webVars, trayVars>>

LanNext ==
    /\ UNCHANGED part
    /\ part # "routers" => UNCHANGED vars
    /\ part # "registry" => UNCHANGED registryVars
    /\ part # "wiring" => UNCHANGED wiringVars
    /\ part # "gateway" => UNCHANGED gatewayVars
    /\ part # "store" => UNCHANGED storeVars
    /\ part # "web" => UNCHANGED webVars
    /\ part # "tray" => UNCHANGED trayVars
    /\ \/ part = "routers" /\ Next
       \/ part = "registry" /\ RegistryNext
       \/ part = "wiring" /\ WiringNext
       \/ part = "gateway" /\ GatewayNext
       \/ part = "store" /\ StoreNext
       \/ part = "web" /\ WebNext
       \/ part = "tray" /\ TrayNext

LanSpec == LanInit /\ [][LanNext]_lanVars

=============================================================================
