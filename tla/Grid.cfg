\* Two namespaces and two kinds: every reconcile reads several lists.
CONSTANTS
    A = A
    B = B
    n1 = n1
    n2 = n2
    x1 = x1
    x2 = x2
    Projects = {A}
    Objects = {x1, x2}
    NamespaceOrder <- TwoNamespaces
    NamespaceLists <- SometimesN2
    KindOrder <- TwoKinds
    KindOf <- ConfigMapAndSecret
    NamespaceOf <- Apart
    Resources <- TwoResources
    Demand <- NoDemand
    Hards <- OneOfEach
    MaxUnits = 1
    FailOpen = FALSE
    MaxFaults = 0
    MaxLag = 1
    None = None
    Absent = Absent
SPECIFICATION Spec
PROPERTIES
    StatusPromised
    LeavesOnlyRacedObjects
