SPECIFICATION RuntimeSpec
CHECK_DEADLOCK FALSE
CONSTANTS
    Hosts = {1, 2}
    Static = {1}
    Dynamic = {2}
    Traffic = {21, 22}
    TypesOn <- MCTypesOn
    Callers = {11}
    Threads = {11, 21, 22}
    MaxBacklog = 3
    Addrs = {1, 2}
    Home <- MCHome
    NewAddrs = {1}
    Attempts = 2
    Pids = {1, 2}
    MaxCalls = 2
INVARIANTS
    RuntimeTypeOK
    NothingRunsUntracked
    OwnOutput
PROPERTIES
    RequestsEnd
    ProbesSettle
