\* Two replicas that see the same events at different times; the leader is lost once.
\* A limit of none or one configmap, which users change.
CONSTANTS
    A = A
    B = B
    n1 = n1
    n2 = n2
    x1 = x1
    x2 = x2
    Projects = {A}
    Objects = {x1}
    NamespaceOrder <- OneNamespace
    NamespaceLists <- SometimesN1
    KindOrder <- ConfigMapKind
    KindOf <- AllConfigMaps
    NamespaceOf <- AllInN1
    Resources <- ConfigMapResource
    Demand <- NoDemand
    Hards <- UpToOne
    MaxUnits = 1
    FailOpen = FALSE
    MaxFaults = 1
    MaxLag = 1
    None = None
    Absent = Absent
SPECIFICATION RolloutSpec
INVARIANTS
    SettledUsageAccurate
PROPERTIES
    StatusPromised
    CleanupUndoneOnlyByLag
    LeavesOnlyRacedOrUndone
    OvershootOnlyUnseenOrAdopted
    LimitsCoverSettledUsage
