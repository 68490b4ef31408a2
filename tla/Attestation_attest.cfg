SPECIFICATION FairSpec
CONSTANTS
    Clients = {"c1", "c2"}
    Requests <- MCRequests
    Composes = {"h1", "h2"}
    Cvm <- MCCvm
    Gpu = TRUE
    Foreign <- MCForeign
    Environments <- MCEnvironments
    OtherKeys = {101}
    OtherRuns <- MCOtherRuns
    AmdChain <- MCAmdChain
    Kds <- MCKds
    MirrorCerts <- MCMirrorCerts
    ChipKeys = {"chip1", "chip2"}
    Files <- MCFiles
    Renders = {"v1"}
    MaxRetries = 20
    MaxCerts = 2
    MaxFaults = 1
INVARIANTS
    AcceptedGenuine
    NoFalseAlarm
PROPERTIES
    CertificateAttested
CHECK_DEADLOCK FALSE
