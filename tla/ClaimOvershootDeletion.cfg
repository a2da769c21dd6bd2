\* A project over its limit that is deleted.
CONSTANTS
    A = A
    B = B
    n1 = n1
    n2 = n2
    x1 = x1
    x2 = x2
    Projects = {A}
    Objects = {x1, x2}
    NamespaceOrder <- OneNamespace
    NamespaceLists <- AlwaysN1
    KindOrder <- ConfigMapKind
    KindOf <- AllConfigMaps
    NamespaceOf <- AllInN1
    Resources <- ConfigMapResource
    Demand <- NoDemand
    Hards <- OneConfigMap
    MaxUnits = 1
    FailOpen = FALSE
    MaxFaults = 0
    MaxLag = 1
    None = None
    Absent = Absent
SPECIFICATION FairSpec
PROPERTIES
    DeletionCompletes
