SPECIFICATION FairSpec
CONSTANTS
    i1 = i1
    i2 = i2
    w1 = w1
    w2 = w2
    Versions = {1, 2}
    Workloads = {w1}
    Installers = {i1}
    Admin = {}
    Faulty = FALSE
    Overlap = FALSE
    MaxChanges = 3
    MaxCrashes = 0
 
PROPERTIES
    ExpectedInstalled
    RedundantRemoved
