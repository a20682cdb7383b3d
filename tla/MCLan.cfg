SPECIFICATION LanSpec
CONSTANTS
    Routers = {"cell", "dish"}
    Vendor <- MCVendor
    Dishes = {"dish"}
    Grace = 2
    OutageMin = 3
    MaxRetry = 2
    Cadence = 4
    CallLimit = 1
    PostLimit = 1
    LanCalls = {c1, c2}
    Devices <- MCDevices
    MaxCalls = 3
    MaxChanges = 1
    Callers = {a}
    Wishes <- MCWishes
    Sensors <- MCSensors
    HookSlots = 3
    MaxWires = 2
    MaxMoves = 1
    Writers = {w1, w2}
    NoCaller = NoCaller
    MaxWrites = 3
    MaxMishaps = 1
    Owners = {o1, o2}
    LastVersion = 2
    MaxSwitches = 3
    MaxCuts = 1
    Gateways = {g1, g2, g3}
    Unpaired = {g3}
    Hosts = {h1, h2}
    Nowhere = Nowhere
    Valves = 2
    OfflineGrace = 2
    PassTime = 1
    MaxUpsets = 2
    MaxTurns = 4
CHECK_DEADLOCK FALSE
INVARIANTS WiringInv StoreInv WebInv
PROPERTIES RoutersHold RegistryKeeps GatewayHolds TrayHolds
