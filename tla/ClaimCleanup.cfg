\* A configmap of a project that is deleted or gives up its namespace, and two replicas.
CONSTANTS
    A = A
    B = B
    n1 = n1
    n2 = n2
    x1 = x1
    x2 = x2
    Projects = {A}
    Objects = {x1}
    NamespaceOrder <- OneNamespace
    NamespaceLists <- SometimesN1
    KindOrder <- ConfigMapKind
    KindOf <- AllConfigMaps
    NamespaceOf <- AllInN1
    Resources <- ConfigMapResource
    Demand <- NoDemand
    Hards <- OneConfigMap
    MaxUnits = 1
    FailOpen = FALSE
    MaxFaults = 0
    MaxLag = 1
    None = None
    Absent = Absent
SPECIFICATION RolloutSpec
PROPERTIES
    LeavesOnlyRacedObjects
