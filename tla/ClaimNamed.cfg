\* Pods that ask for CPU in a project that limits only their number.
CONSTANTS
    A = A
    B = B
    n1 = n1
    n2 = n2
    x1 = x1
    x2 = x2
    Projects = {A}
    Objects = {x1, x2}
    NamespaceOrder <- OneNamespace
    NamespaceLists <- AlwaysN1
    KindOrder <- PodKind
    KindOf <- AllPods
    NamespaceOf <- AllInN1
    Resources <- PodAndCpu
    PodSpec <- TwoPodSpecs
    Demand <- CpuDemand
    Hards <- TwoPods
    MaxUnits = 3
    FailOpen = FALSE
    MaxFaults = 0
    MaxLag = 1
    None = None
    Absent = Absent
SPECIFICATION Spec
INVARIANTS
    OnlyNamedLimitsReject
