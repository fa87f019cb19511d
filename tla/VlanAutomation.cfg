SPECIFICATION Spec
CHECK_DEADLOCK FALSE
CONSTANTS
    Switches = {"s4", "s5"}
    Devices = {1, 2, 5}
    Attach <- MCAttach
    Vlans = {10, 20}
    Plans <- MCPlans
    Uplink = 9
    KnownPorts = {1, 2, 9}
    Online = {"s4"}
    InitialFiles <- MCInitialFiles
    Clients = {1, 2}
    MaxRequests = 2
    MaxDrops = 1
INVARIANTS
    TypeOK
    ConfigsWellFormed
    InstalledIsApplied
    RulesIsolate
PROPERTIES
    RegisterSpec
    Settles
