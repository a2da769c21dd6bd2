\* A service in a project that is deleted.
CONSTANTS
    A = A
    B = B
    n1 = n1
    n2 = n2
    x1 = x1
    x2 = x2
    Projects = {A}
    Objects = {x1}
    NamespaceOrder <- OneNamespace
    NamespaceLists <- AlwaysN1
    KindOrder <- ServiceKind
    KindOf <- AllServices
    NamespaceOf <- AllInN1
    Resources <- ServiceResources
    Demand <- NoDemand
    Hards <- OneService
    MaxUnits = 1
    FailOpen = FALSE
    MaxFaults = 0
    MaxLag = 1
    None = None
    Absent = Absent
SPECIFICATION FairSpec
PROPERTIES
    DeletionCompletes
