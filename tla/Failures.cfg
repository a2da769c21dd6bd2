\* One configmap, unreachable webhooks, one failed call or restart at any point.
CONSTANTS
    A = A
    B = B
    n1 = n1
    n2 = n2
    x1 = x1
    x2 = x2
    Projects = {A}
    Objects = {x1}
    NamespaceOrder <- OneNamespace
    NamespaceLists <- SometimesN1
    KindOrder <- ConfigMapKind
    KindOf <- AllConfigMaps
    NamespaceOf <- AllInN1
    Resources <- ConfigMapResource
    Demand <- NoDemand
    Hards <- OneConfigMap
    MaxUnits = 1
    FailOpen = TRUE
    MaxFaults = 1
    MaxLag = 2
    None = None
    Absent = Absent
SPECIFICATION FairSpec
INVARIANTS
    TypeOK
    SettledUsageAccurate
PROPERTIES
    StatusPromised
    LeavesOnlyRacedObjects
    StripsMemberOnlyWhenStale
    DeletionCompletes
    UsageConverges
    ControllerRests
