------------------------------ MODULE QuotaRules ------------------------------
(***************************************************************************)
(* The rules of the ProjectResourceQuota operator as operators without     *)
(* state: the values its objects take, what an object consumes of a        *)
(* resource, how the usage of a project is added up, and what each         *)
(* admission webhook of api/v1 answers.                                    *)
(*                                                                         *)
(* A webhook reads the ProjectResourceQuotas through the manager's cached  *)
(* client, so the operators that model one take a "view": a function from  *)
(* projects and objects to the values the reader sees, Absent where it     *)
(* sees nothing.                                                           *)
(***************************************************************************)
EXTENDS Integers, Sequences, FiniteSets, Functions

CONSTANTS
    Projects,        \* names of ProjectResourceQuotas (cluster scoped)
    Objects,         \* configmaps, pods, services ... that may come to exist
    NamespaceOrder,  \* every namespace, in the order sets.String.List() gives
    KindOrder,       \* the kinds of Objects, in the order the code visits them
    KindOf,          \* the kind of each object
    NamespaceOf,     \* the namespace of each object
    Demand,          \* a pod's effective request or limit of each resource
    MaxUnits,        \* bound: no object consumes more of a resource
    Resources,       \* the resource names the instance tells apart
    Hards,           \* the spec.hard maps users write
    NamespaceLists,  \* the spec.namespaces lists users write, per project
    FailOpen,        \* may the API server fail to reach an object webhook?
    None,            \* no project annotation
    Absent           \* no such object

-----------------------------------------------------------------------------
(* Kinds and resource names *)

\* The kinds Reconcile and removeAnnotationFromObjects go through, in order.
AllKinds == <<"configmaps", "persistentvolumeclaims", "pods",
              "replicationcontrollers", "resourcequotas", "secrets", "services">>

ComputeRequests == {"cpu", "memory", "storage", "ephemeral-storage",
                    "requests.cpu", "requests.memory", "requests.storage",
                    "requests.ephemeral-storage"}
ComputeLimits == {"limits.cpu", "limits.memory", "limits.ephemeral-storage"}
ComputeResources == ComputeRequests \union ComputeLimits

\* The resource that counts the services of a type.
PortResource == [NodePort |-> "services.nodeports",
                 LoadBalancer |-> "services.loadbalancers"]

resourceNameList ==
    Range(AllKinds) \union ComputeResources \union Range(PortResource)

\* Reconcile computes a resource only under the test that spec.hard has the
\* kind the resource is counted on.
Gate(r) == IF r \in ComputeResources THEN "pods"
           ELSE IF r \in Range(PortResource) THEN "services"
           ELSE r

\* What an update of an object can change that a quota depends on: a
\* service's type, and whether a pod's phase is terminal.
Shapes(k) == CASE k = "pods" -> {"Active", "Terminated"}
               [] k = "services" -> {"ClusterIP", "NodePort", "LoadBalancer"}
               [] OTHER -> {"Plain"}

Units == 1 .. MaxUnits

ASSUME ItemsAssumption ==
    /\ IsFiniteSet(Projects) /\ IsFiniteSet(Objects)
    /\ Projects \intersect Objects = {}
    /\ None \notin Projects
    /\ \A p \in Projects : NamespaceLists[p] \subseteq Seq(Range(NamespaceOrder))
    /\ DOMAIN NamespaceLists = Projects

ASSUME KindsAssumption ==
    /\ NamespaceOrder \in Seq(Range(NamespaceOrder))
    /\ KindOrder \in Seq(Range(AllKinds)) /\ KindOrder # <<>>
    /\ KindOf \in [Objects -> Range(KindOrder)]
    /\ NamespaceOf \in [Objects -> Range(NamespaceOrder)]

ASSUME QuantityAssumption ==
    /\ MaxUnits \in Nat \ {0}
    /\ Range(KindOrder) \subseteq Resources /\ Resources \subseteq resourceNameList
    /\ "services" \in Range(KindOrder) => Range(PortResource) \subseteq Resources
    /\ Demand \in [Objects -> [Resources -> 0 .. MaxUnits]]
    /\ \A h \in Hards : \A r \in DOMAIN h : h[r] \in Int
    /\ FailOpen \in BOOLEAN

\* The code visits the kinds in the fixed order of AllKinds; an instance may
\* leave kinds out but not reorder them.
ASSUME KindOrderAssumption ==
    \E f \in [1 .. Len(KindOrder) -> 1 .. Len(AllKinds)] :
        /\ \A i \in DOMAIN f : KindOrder[i] = AllKinds[f[i]]
        /\ \A i, j \in DOMAIN f : i < j => f[i] < f[j]

-----------------------------------------------------------------------------
(* Values of the API objects.  An absent key of a Go ResourceList reads as *)
(* the zero quantity; status.used is total here, spec.hard is not because  *)
(* the code tests its keys.                                                *)

PrqOver(namespaceLists) ==
    [namespaces : namespaceLists,
     hard : Hards,
     deleting : BOOLEAN,
     finalizer : BOOLEAN,
     used : [Resources -> Nat],
     statusNamespaces : namespaceLists \union {<<>>}]

ObjectOver(shapes) == [anno : Projects \union {None}, shape : shapes]

Prq(p) == PrqOver(NamespaceLists[p])

Object(o) == ObjectOver(Shapes(KindOf[o]))

ASSUME AbsentAssumption == \A p \in Projects : Absent \notin Prq(p)

Limit(hard, r) == IF r \in DOMAIN hard THEN hard[r] ELSE 0

NoUsage == [r \in Resources |-> 0]

Live(prq) == prq # Absent /\ ~prq.deleting

IsAnnotationExists(v) == v # Absent /\ v.anno # None

AddAnnotation(v, p) == [v EXCEPT !.anno = p]

RemoveAnnotationFromCopy(v) == v

RemoveAnnotation(v) == [v EXCEPT !.anno = None]

AddFinalizer(prq) == [prq EXCEPT !.finalizer = TRUE]

RemoveFinalizer(prq) == [prq EXCEPT !.finalizer = FALSE]

-----------------------------------------------------------------------------
(* Usage of a project *)

isPodTerminated(shape) == shape = "Terminated"

\* What object o, seen with the given shape, consumes of resource r.
Amount(o, shape, r) ==
    IF Gate(r) # KindOf[o] \/ isPodTerminated(shape) THEN 0
    ELSE IF r \in ComputeResources THEN Demand[o][r]
    ELSE IF r \in Range(PortResource)
         THEN IF shape \in DOMAIN PortResource /\ r = PortResource[shape]
              THEN 1 ELSE 0
    ELSE 1

\* The kinds whose lists the usage of a project with limits hard depends on.
Counts(hard, k) == k \in DOMAIN hard

AnnotatedInAll(view, n, k) ==
    {o \in Objects : NamespaceOf[o] = n /\ KindOf[o] = k /\ view[o] # Absent}

\* The annotated objects of kind k that a List of namespace n returns.
AnnotatedIn(view, n, k) ==
    {o \in Objects : /\ NamespaceOf[o] = n
                     /\ KindOf[o] = k
                     /\ IsAnnotationExists(view[o])}

\* The charges on resource r in the lists of a reconcile, where lists[i] holds
\* what the List calls of the i-th entry of spec.namespaces returned and counted:
\* an object that consumes m of r makes m charges <<i, <<object, unit>>>>.
Charges(lists, r) ==
    {x \in (DOMAIN lists) \X (Objects \X Units) :
        LET v == lists[x[1]][x[2][1]]
        IN v # Absent /\ x[2][2] <= Amount(x[2][1], v.shape, r)}

\* The totals Reconcile accumulates in status.used.
UsedBy(hard, lists) ==
    [r \in Resources |->
        IF r \in DOMAIN hard /\ Counts(hard, Gate(r))
        THEN Cardinality(Charges(lists, r)) ELSE 0]

\* What the lists of a reconcile would hold, all taken from one view.
ListsOf(prq, view) ==
    [i \in DOMAIN prq.namespaces |->
        [o \in Objects |->
            IF /\ Counts(prq.hard, KindOf[o])
               /\ o \in AnnotatedIn(view, prq.namespaces[i], KindOf[o])
            THEN view[o] ELSE Absent]]

CurrentUsage(prq, view) == UsedBy(prq.hard, ListsOf(prq, view))

-----------------------------------------------------------------------------
(* Webhooks of the object kinds.  The seven annotators are one algorithm;  *)
(* the validators of the kinds other than pods and services are another.   *)

ClaimantsDeleting(view, o) ==
    {p \in Projects : view[p] # Absent /\ NamespaceOf[o] \in Range(view[p].namespaces)}

ClaimantsByStatus(view, o) ==
    {p \in Projects : Live(view[p]) /\ NamespaceOf[o] \in Range(view[p].statusNamespaces)}

\* Projects the annotator's loop can stop at: the cached List has no fixed
\* order, so where two live projects claim the namespace either may come first.
Claimants(view, o) ==
    {p \in Projects : Live(view[p]) /\ NamespaceOf[o] \in Range(view[p].namespaces)}

\* The mutating webhook: the outcomes of Default for object o submitted as v.
Default(view, o, v) ==
    IF Claimants(view, o) = {} THEN {v}
    ELSE {IF Counts(view[p].hard, KindOf[o]) THEN AddAnnotation(v, p) ELSE v :
             p \in Claimants(view, o)}

BelowHardOrEqual(prq, r) == Limit(prq.hard, r) >= prq.used[r]

\* hard.Cmp(used) == 1
BelowHard(prq, r) == Limit(prq.hard, r) > prq.used[r]

checkQuotaUsedOnly(prq, o, r) == prq.used[r] <= Limit(prq.hard, r)

\* total.Cmp(hard) != 1
checkQuota(prq, o, r) == Demand[o][r] + prq.used[r] <= Limit(prq.hard, r)

validatePod(prq, o) ==
    /\ BelowHard(prq, "pods")
    /\ \A r \in ComputeResources \intersect Resources : checkQuota(prq, o, r)

validateService(prq) == BelowHard(prq, "services")

\* validateServiceNodePort and validateServiceLoadBalancer, by the new type.
validateServicePort(prq, shape) ==
    shape \in DOMAIN PortResource => BelowHard(prq, PortResource[shape])

ServiceValidateUpdate(view, old, new) ==
    /\ IsAnnotationExists(new)
    /\ view[new.anno] # Absent
    /\ validateService(view[new.anno])
    /\ new.shape # old.shape => validateServicePort(view[new.anno], new.shape)

QuotaAdmits(prq, o, v) ==
    CASE KindOf[o] = "pods" -> validatePod(prq, o)
      [] KindOf[o] = "services" -> /\ validateService(prq)
                                   /\ validateServicePort(prq, v.shape)
      [] OTHER -> BelowHard(prq, KindOf[o])

ValidateCreate(view, o, v) ==
    IsAnnotationExists(v) => /\ view[v.anno] # Absent
                             /\ QuotaAdmits(view[v.anno], o, v)

ValidateUpdate(view, o, old, new) ==
    KindOf[o] = "services" => ServiceValidateUpdate(view, old, new)

\* The API server ignores an object webhook it cannot reach
\* (failurePolicy=ignore): the submitted value then stands, or the check is
\* passed over.
Mutations(view, o, v) == Default(view, o, v) \union (IF FailOpen THEN {v} ELSE {})

Passes(valid) == valid \/ FailOpen

-----------------------------------------------------------------------------
(* Webhooks of the ProjectResourceQuota itself (failurePolicy=fail) *)

PrqDefaultAlways(prq) == AddFinalizer(prq)

PrqDefault(prq) == IF prq.deleting THEN prq ELSE AddFinalizer(prq)

validateNamespace(view, p, namespaces) ==
    \A q \in Projects \ {p} :
        view[q] # Absent =>
            Range(view[q].namespaces) \intersect Range(namespaces) = {}

validateResourceName(hard) == DOMAIN hard \subseteq resourceNameList

PrqValidateCreate(view, p, prq) ==
    /\ validateNamespace(view, p, prq.namespaces)
    /\ validateResourceName(prq.hard)

PrqValidateUpdateHardOnly(view, p, prq) ==
    /\ validateResourceName(prq.hard)
    /\ \A r \in Resources : Limit(prq.hard, r) >= prq.used[r]

PrqValidateUpdateSetLimits(view, p, prq) ==
    /\ PrqValidateCreate(view, p, prq)
    /\ \A r \in DOMAIN prq.hard : prq.hard[r] >= prq.used[r]

PrqValidateUpdateAsCreate(view, p, prq) == PrqValidateCreate(view, p, prq)

PrqValidateUpdate(view, p, prq) ==
    /\ PrqValidateCreate(view, p, prq)
    /\ \A r \in Resources : Limit(prq.hard, r) >= prq.used[r]

=============================================================================
