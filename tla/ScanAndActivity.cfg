SPECIFICATION MCSpec
CHECK_DEADLOCK FALSE
CONSTANTS
    Sources = {"a", "b"}
    DstPorts = {1, 2, 3}
    Switches = {"s1", "s2"}
    Limit = 2
    Window = 1
    BlockTime = 2

    PCs = {"wifi1"}
    Activities = {"idle", "exam"}
    Idle = "idle"
    Clients = {"client1", "client2"}
    Requests <- MCRequests
    MaxAsks = 2
    Slots = {1, 2}
INVARIANTS
    PartsTypeOK
    ScansAreAlerted
    OneWorkerEach
PROPERTIES
    DroppedEverywhere
    MissedSourcesReturn
    BlockOfOneExpires
    PcSettles
