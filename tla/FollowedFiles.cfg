SPECIFICATION MCSpec
CHECK_DEADLOCK FALSE
CONSTANTS
    Modes = {"normal", "exam"}
    OverrideModes = {"normal", "exam"}
    Normal = "normal"

    Bridges = {1, 2, 3}
    Jacks = {1, 2, 4, 7}
    Endpoints = {"server1", "server2", "lab3", "lab7"}
    HostAt <- MCHostAt
    Trunk <- MCTrunk
    Toward <- MCToward
    Primary = "server1"
    Backup = "server2"
    BackupPort <- MCBackupPort
    PolicyMap <- MCPolicyMap
    Policies <- MCPolicies
    MaxSends = 2
    MaxPolicies = 1
    MaxRestarts = 1

    Jobs = {1, 2}
    Scenarios = {"congestion", "ddos"}
    RampSteps = 1
    EaseSteps = 1
    MaxTimers = 1
INVARIANTS
    PartsTypeOK
    NothingSkipped
    FlowsLeadToHost
    OverlayOfActiveJob
PROPERTIES
    Settles
    Delivery
    PolicySettles
