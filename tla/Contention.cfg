\* Two requests at once for two projects that want the same namespace.
CONSTANTS
    A = A
    B = B
    n1 = n1
    n2 = n2
    x1 = x1
    x2 = x2
    Projects = {A, B}
    Objects = {}
    NamespaceOrder <- OneNamespace
    NamespaceLists <- SharedN1
    KindOrder <- ConfigMapKind
    KindOf <- AllConfigMaps
    NamespaceOf <- AllInN1
    Resources <- ConfigMapResource
    Demand <- NoDemand
    Hards <- OneConfigMap
    MaxUnits = 1
    FailOpen = FALSE
    MaxFaults = 0
    MaxLag = 2
    UserAnnotations = {}
    MaxRequests = 2
    None = None
    Absent = Absent
SPECIFICATION AdmissionSpec
PROPERTIES
    OverlapOnlyWhenRaced
