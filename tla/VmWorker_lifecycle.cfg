SPECIFICATION FairSpec
CONSTANTS
    w1 = w1
    w2 = w2
    s1 = s1
    s2 = s2
    Workloads = {w1}
    W = w1
    Slots = {s1}
    QueueCap = 2
    TailLines = 2
    Burst = 2
    MaxLines = 2
    HeartbeatConfigs = {"valid", "invalid"}
    Lines = {"cert", "failed"}
    SlowCreate = FALSE
    EnvUpdates = {FALSE, TRUE}
    Overlap = FALSE
    CrashReporting = FALSE
    MaxOps = 2
    MaxFaults = 1
CHECK_DEADLOCK FALSE
INVARIANTS
    VmOwned
 
 
