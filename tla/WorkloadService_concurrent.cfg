SPECIFICATION Spec
CONSTANTS
    w1 = w1
    w2 = w2
    w3 = w3
    r1 = r1
    r2 = r2
    s1 = s1
    s2 = s2
    Workloads = {w1, w2}
    Reqs = {r1, r2}
    Slots = {s1, s2}
    Scalars <- MCScalars
    Total <- MCTotal
    Kinds <- MCKinds
    AllUnits <- MCAllUnits
    Demand <- MCDemand
    Need <- MCNeed
    Heartbeat = {w1}
    Domain <- MCDomain
    Keys = {0, 1}
    Ops = {"create", "delete"}
    Serialised = FALSE
    AbandonAt <- NoSteps
    QmpFails = FALSE
    MaxCrashes = 0
VIEW WithoutCvms
SYMMETRY Symmetry
INVARIANT UnitsExclusive
