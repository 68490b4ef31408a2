SPECIFICATION Spec
CONSTANTS
    i1 = i1
    i2 = i2
    w1 = w1
    w2 = w2
    Versions = {1, 2}
    Workloads = {w1, w2}
    Installers = {i1}
    Admin = {"install", "cleanup"}
    Faulty = TRUE
    Overlap = FALSE
    MaxChanges = 1
    MaxCrashes = 1
SYMMETRY Symmetry
INVARIANTS
    TypeOK
    UsedInstalled
