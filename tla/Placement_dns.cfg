SPECIFICATION Spec
CONSTANTS
    a1 = a1
    r1 = r1
    r2 = r2
    MinimumSpendable = 1
    Workloads = {1, 2}
    OwnDomain = {}
    Stoppable = {1}
    Instances = {1}
    Accounts = {a1}
    Reqs = {r1, r2}
    Owner <- MCOwner
    Demand <- MCDemand
    Capacity <- RoomyCapacity
    Cost <- MCCost
    Credit = 6
    MinDuration = 1
    Hour = 2
    MaxFaults = 1
PROPERTY OwnRecordOnly
