SPECIFICATION Spec
CONSTANTS
    w1 = w1
    w2 = w2
    w3 = w3
    r1 = r1
    r2 = r2
    s1 = s1
    s2 = s2
    Workloads = {w1, w2, w3}
    Reqs = {r1, r2}
    Slots = {s1, s2}
    Scalars <- MCScalars
    Total <- FullTotal
    Kinds <- MCKinds
    AllUnits <- MCAllUnits
    Demand <- FullDemand
    Need <- MCNeed
    Heartbeat = {w1}
    Domain <- FullDomain
    Keys = {0}
    Ops = {"create", "delete", "stop", "start", "restart"}
    Serialised = TRUE
    AbandonAt <- ErrorSteps
    QmpFails = TRUE
    MaxCrashes = 1
VIEW WithoutCvms
SYMMETRY Symmetry
INVARIANTS
    TypeOK
    KeyOwnedOnce
    KeysNotLost
    UnitsExclusive
    ResourcesConserved
    AmountsInRange
    AlwaysBootable
