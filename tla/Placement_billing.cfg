SPECIFICATION FairSpec
CONSTANTS
    a1 = a1
    r1 = r1
    r2 = r2
    MinimumSpendable = 1
    Workloads = {1, 2}
    OwnDomain = {2}
    Stoppable = {1}
    Instances = {1}
    Accounts = {a1}
    Reqs = {r1, r2}
    Owner <- MCOwner
    Demand <- MCDemand
    Capacity <- MCCapacity
    Cost <- MCCost
    Credit = 2
    MinDuration = 1
    Hour = 2
    MaxFaults = 1
INVARIANTS
    
    NoLeak
    BilledOnce
PROPERTY DepletedReaped
