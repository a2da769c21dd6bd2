----------------------------- MODULE Limits_proofs -----------------------------
(***************************************************************************)
(* Theorems about ProjectQuota: what projects use and their hard limits.   *)
(***************************************************************************)
EXTENDS Usage_proofs, FunctionTheorems

\* No list users write names a namespace twice.
NoRepeats ==
    \A p \in Projects : \A l \in NamespaceLists[p] :
        \A i, j \in DOMAIN l : l[i] = l[j] => i = j

\* The units of r that project prq holds, object by object.
HeldUnits(prq, view, r) ==
    {x \in Objects \X Units : /\ Claims(prq, NamespaceOf[x[1]])
                              /\ IsAnnotationExists(view[x[1]])
                              /\ x[2] <= Amount(x[1], view[x[1]].shape, r)}

-----------------------------------------------------------------------------
(* Amounts *)

\* The resources that count services of a type.
LEMMA PortRange == Range(PortResource) = {"services.nodeports", "services.loadbalancers"}
<1>1. DOMAIN PortResource = {"NodePort", "LoadBalancer"}
  BY DEF PortResource
<1>2. PortResource["NodePort"] = "services.nodeports"
      /\ PortResource["LoadBalancer"] = "services.loadbalancers"
  BY DEF PortResource
<1> HIDE DEF PortResource
<1> QED
  BY <1>1, <1>2 DEF Range

\* An object consumes a whole number of a resource, and nothing of one that is
\* counted on another kind.
LEMMA AmountType ==
    ASSUME NEW o \in Objects, NEW shape, NEW r \in Resources
    PROVE  /\ Amount(o, shape, r) \in 0 .. MaxUnits
           /\ Amount(o, shape, r) > 0 => Gate(r) = KindOf[o] /\ ~isPodTerminated(shape)
<1>1. Demand[o][r] \in 0 .. MaxUnits /\ MaxUnits \in Nat \ {0}
  BY QuantityAssumption
<1> QED
  BY <1>1 DEF Amount

\* The units a project holds are finitely many.
LEMMA HeldFinite ==
    ASSUME NEW prq, NEW view, NEW r
    PROVE  IsFiniteSet(HeldUnits(prq, view, r))
<1>1. IsFiniteSet(Objects \X Units)
  <2>1. IsFiniteSet(Units)
    BY FS_Interval, QuantityAssumption DEF Units
  <2> QED
    BY <2>1, FS_Product, ItemsAssumption
<1>2. HeldUnits(prq, view, r) \in SUBSET (Objects \X Units)
  BY DEF HeldUnits
<1> QED
  BY <1>1, <1>2, FS_Subset

-----------------------------------------------------------------------------
(* Usage counts each object once *)

\* A fresh reconcile of a project that lists its namespaces once each charges each
\* unit it holds once.
LEMMA ChargesHeld ==
    ASSUME NEW prq, NEW view, NEW r \in Resources, prq # Absent,
           \A i, j \in DOMAIN prq.namespaces : prq.namespaces[i] = prq.namespaces[j] => i = j,
           Counts(prq.hard, Gate(r))
    PROVE  Cardinality(Charges(ListsOf(prq, view), r)) = Cardinality(HeldUnits(prq, view, r))
<1> DEFINE L == ListsOf(prq, view)
           C == Charges(L, r)
           H == HeldUnits(prq, view, r)
           f == [x \in C |-> x[2]]
<1>1. DOMAIN L = DOMAIN prq.namespaces
  BY DEF ListsOf
<1>2. ASSUME NEW i \in DOMAIN prq.namespaces, NEW o \in Objects, NEW u \in Units
      PROVE  <<i, <<o, u>>>> \in C <=> <<o, u>> \in H /\ NamespaceOf[o] = prq.namespaces[i]
  <2>1. u \in Nat \ {0}
    BY QuantityAssumption DEF Units
  <2>2. <<i, <<o, u>>>> \in C <=> L[i][o] # Absent /\ u <= Amount(o, L[i][o].shape, r)
    BY <1>1 DEF Charges
  <2>3. L[i][o] = IF /\ Counts(prq.hard, KindOf[o]) /\ NamespaceOf[o] = prq.namespaces[i]
                     /\ IsAnnotationExists(view[o])
                  THEN view[o] ELSE Absent
    BY DEF ListsOf, AnnotatedIn
  <2>4. \A shape : u <= Amount(o, shape, r) => Counts(prq.hard, KindOf[o])
    <3> SUFFICES ASSUME NEW shape, u <= Amount(o, shape, r)
                 PROVE  Counts(prq.hard, KindOf[o])
      OBVIOUS
    <3>1. Amount(o, shape, r) \in 0 .. MaxUnits
      BY AmountType
    <3>2. Amount(o, shape, r) > 0
      BY <2>1, <3>1
    <3> QED
      BY <3>2, AmountType
  <2>5. NamespaceOf[o] = prq.namespaces[i] => Claims(prq, NamespaceOf[o])
    BY DEF Claims, Range
  <2>6. <<o, u>> \in H <=> /\ Claims(prq, NamespaceOf[o]) /\ IsAnnotationExists(view[o])
                           /\ u <= Amount(o, view[o].shape, r)
    BY DEF HeldUnits
  <2> HIDE DEF L, C, H
  <2> QED
    BY <2>2, <2>3, <2>4, <2>5, <2>6 DEF IsAnnotationExists
<1>3. ASSUME NEW x \in C
      PROVE  /\ x = <<x[1], <<x[2][1], x[2][2]>>>>
             /\ x[1] \in DOMAIN prq.namespaces /\ x[2][1] \in Objects /\ x[2][2] \in Units
             /\ x[2] = <<x[2][1], x[2][2]>>
  BY <1>1 DEF Charges
<1>4. ASSUME NEW y \in H
      PROVE  /\ y = <<y[1], y[2]>> /\ y[1] \in Objects /\ y[2] \in Units
             /\ \E i \in DOMAIN prq.namespaces : prq.namespaces[i] = NamespaceOf[y[1]]
  BY DEF HeldUnits, Claims, Range
<1> HIDE DEF L, C, H
<1>5. f \in [C -> H]
  <2> SUFFICES ASSUME NEW x \in C PROVE x[2] \in H
    OBVIOUS
  <2> QED
    BY <1>2, <1>3
<1>6. \A a, b \in C : f[a] = f[b] => a = b
  <2> SUFFICES ASSUME NEW a \in C, NEW b \in C, a[2] = b[2] PROVE a = b
    OBVIOUS
  <2>1. NamespaceOf[a[2][1]] = prq.namespaces[a[1]] /\ NamespaceOf[b[2][1]] = prq.namespaces[b[1]]
    BY <1>2, <1>3
  <2>2. a[1] = b[1]
    BY <1>3, <2>1
  <2> QED
    BY <1>3, <2>2
<1>7. \A y \in H : \E x \in C : f[x] = y
  <2> SUFFICES ASSUME NEW y \in H PROVE \E x \in C : x[2] = y
    OBVIOUS
  <2>1. PICK i \in DOMAIN prq.namespaces : prq.namespaces[i] = NamespaceOf[y[1]]
    BY <1>4
  <2>2. <<i, <<y[1], y[2]>>>> \in C
    BY <1>2, <1>4, <2>1
  <2> QED
    BY <1>4, <2>2
<1>8. f \in Bijection(C, H)
  BY <1>5, <1>6, <1>7, Fun_IsBij
<1>9. ExistsBijection(C, H) /\ ExistsBijection(H, C)
  BY <1>8, Fun_ExistsBij, Fun_ExistsBijSymmetric
<1>10. IsFiniteSet(H)
  BY HeldFinite DEF H
<1> QED
  BY <1>9, <1>10, FS_Bijection DEF C, H, L

\* So what a reconcile would record is the project's total.
LEMMA UsageIsTotal ==
    ASSUME NEW prq, NEW view, prq # Absent,
           \A i, j \in DOMAIN prq.namespaces : prq.namespaces[i] = prq.namespaces[j] => i = j
    PROVE  CurrentUsage(prq, view) = ProjectTotal(prq, view)
<1>1. ASSUME NEW r \in Resources, Counts(prq.hard, Gate(r))
      PROVE  Cardinality(Charges(ListsOf(prq, view), r))
             = Cardinality({x \in Objects \X Units :
                               /\ Claims(prq, NamespaceOf[x[1]])
                               /\ IsAnnotationExists(view[x[1]])
                               /\ x[2] <= Amount(x[1], view[x[1]].shape, r)})
  BY <1>1, ChargesHeld DEF HeldUnits
<1> QED
  BY <1>1 DEF CurrentUsage, UsedBy, ProjectTotal

\* Settled status that is accurate is the project's total.
LEMMA AccurateIsTotal ==
    ASSUME NoRepeats, TypeOK, SettledUsageAccurate
    PROVE  SettledUsageIsProjectTotal
<1> SUFFICES ASSUME NEW p \in Projects, Settled(p), Live(store[p])
             PROVE  store[p].used = ProjectTotal(store[p], store)
  BY DEF SettledUsageIsProjectTotal
<1>1. store[p] # Absent /\ store[p].namespaces \in NamespaceLists[p]
  BY ViewType, ItemCases DEF TypeOK, Live, Prq, PrqOver
<1>2. CurrentUsage(store[p], store) = ProjectTotal(store[p], store)
  BY <1>1, UsageIsTotal DEF NoRepeats
<1> QED
  BY <1>2 DEF SettledUsageAccurate

\* The calculation of Reconcile, where no list of a project names a namespace twice
\* and names agree: settled status is the project's total, each object once.
THEOREM SettledTotal == NoRepeats /\ Spec /\ []NamesAgree => []SettledUsageIsProjectTotal
<1>1. NoRepeats /\ TypeOK /\ SettledUsageAccurate => SettledUsageIsProjectTotal
  BY AccurateIsTotal
<1>2. NoRepeats => []NoRepeats
  BY DEF NoRepeats
<1> QED
  BY <1>1, <1>2, TypeCorrect, SettledAccurate, PTL

-----------------------------------------------------------------------------
(* Hard limits: a change of spec.hard *)

\* Only an update of the project changes spec.hard of one that stays.
LEMMA WhoSetsLimits ==
    ASSUME IInv, NEW view, StepBy(view), NEW p \in Projects,
           store[p] # Absent, store'[p] # Absent,
           store'[p].hard # store[p].hard
    PROVE  UpdateProject(view, p)
<1>0. /\ TypeOK /\ WorkerFresh /\ DOMAIN store = Items /\ p \in Items /\ p \notin Objects
      /\ store[p] \in Prq(p)
  BY ViewType, ItemCases DEF IInv, TypeOK, ApiTypeOK, View
<1>1. ~UNCHANGED apiVars
  BY DEF apiVars
<1>2. ASSUME NEW x \in Items, NEW v, Write(x, v)
      PROVE  x = p /\ v # Absent /\ v.hard # store[p].hard
  BY <1>0, <1>2 DEF Write
<1>3. ASSUME NEW q \in Projects, CreateProject(view, q) \/ DeleteProject(q)
      PROVE  FALSE
  <2>1. CASE CreateProject(view, q)
    BY <1>2, <2>1, ItemCases DEF CreateProject, Persist
  <2>2. CASE DeleteProject(q)
    <3>1. \E v \in {Absent, [store[q] EXCEPT !.deleting = TRUE]} : Write(q, v)
      BY <2>2 DEF DeleteProject, Persist
    <3>2. [store[p] EXCEPT !.deleting = TRUE].hard = store[p].hard
      BY <1>0 DEF Prq, PrqOver
    <3> QED
      BY <1>2, <3>1, <3>2, ItemCases
  <2> QED
    BY <1>3, <2>1, <2>2
<1>4. ASSUME NEW o \in Objects,
             CreateObject(view, o) \/ UpdateObject(view, o) \/ PodTerminates(o) \/ DeleteObject(o)
      PROVE  FALSE
  BY <1>0, <1>2, <1>4, ItemCases
  DEF CreateObject, UpdateObject, PodTerminates, DeleteObject, Persist
<1>5. CASE UserRequest(view)
  BY <1>2, <1>3, <1>4, <1>5, ItemCases DEF UserRequest, UpdateProject, Persist
<1>6. CASE UNCHANGED vars
  BY <1>1, <1>6 DEF vars
<1>7. ASSUME NEW seen, NEW o \in Objects, RemoveUpdate(seen, o)
      PROVE  FALSE
  BY <1>0, <1>1, <1>2, <1>7, RemoveUpdateWrites, ItemCases
<1>8. CASE UpdateStatus
  <2> DEFINE w == [snap EXCEPT !.used = UsedBy(snap.hard, lists),
                               !.statusNamespaces = snap.namespaces]
  <2>1. cur \in Projects /\ cur \notin stale /\ Write(cur, w) /\ pc # "idle"
    BY <1>0, <1>1, <1>8, UpdateStatusWrites DEF UpdateStatus
  <2>2. p = cur /\ snap = store[p] /\ w.hard # store[p].hard
    BY <1>0, <1>2, <2>1, ItemCases DEF WorkerFresh
  <2> QED
    BY <1>0, <2>2 DEF Prq, PrqOver
<1>9. ASSUME NEW seen, Finalize(seen)
      PROVE  FALSE
  <2>1. PICK v \in {Absent, PrqDefault(RemoveFinalizer(snap))} :
          cur \in Projects /\ cur \notin stale /\ Write(cur, v) /\ pc # "idle"
    BY <1>0, <1>1, <1>9, FinalizeWrites DEF Finalize
  <2>2. p = cur /\ snap = store[p] /\ v = PrqDefault(RemoveFinalizer(snap))
        /\ v.hard # store[p].hard
    BY <1>0, <1>2, <2>1, ItemCases DEF WorkerFresh
  <2> QED
    BY <1>0, <2>2 DEF PrqDefault, AddFinalizer, RemoveFinalizer, Prq, PrqOver
<1>10. CASE \/ \E q \in Projects : Dequeue(q)
            \/ RemoveList \/ RemoveDone \/ CalcList \/ TransientError \/ Restart
            \/ \E s \in Streams : Deliver(s)
  BY <1>10 DEF Dequeue, RemoveList, RemoveDone, CalcList, TransientError, Restart, Resync,
               Deliver, Observe, apiVars
<1> QED
  BY <1>5, <1>6, <1>7, <1>8, <1>9, <1>10 DEF StepBy, ReconcilerNext, WorkerStep

\* The validator of projects compares every limit with what status says is used, so
\* where the status is accurate no limit is set below what is used.
LEMMA LimitsStep ==
    ASSUME IInv, SettledUsageAccurate, NEW view, StepBy(view),
           NEW p \in Projects, Settled(p), Live(store[p]),
           store'[p] # Absent, store'[p].hard # store[p].hard, NEW r \in Resources
    PROVE  CurrentUsage(store[p], store)[r] <= Limit(store'[p].hard, r)
<1>1. store[p] # Absent /\ store[p] \in Prq(p) /\ DOMAIN store = Items /\ p \in Items
  BY ViewType, ItemCases DEF IInv, TypeOK, ApiTypeOK, View, Live
<1>2. UpdateProject(view, p)
  BY <1>1, WhoSetsLimits
<1>3. PICK namespaces \in NamespaceLists[p], hard \in Hards :
        LET prq == PrqDefault([store[p] EXCEPT !.namespaces = namespaces, !.hard = hard])
        IN PrqValidateUpdate(view, p, prq) /\ Persist(p, prq)
  BY <1>2 DEF UpdateProject
<1> DEFINE prq == PrqDefault([store[p] EXCEPT !.namespaces = namespaces, !.hard = hard])
<1>4. PrqValidateUpdate(view, p, prq) /\ store'[p] = prq
  BY <1>1, <1>3 DEF Persist, Write
<1>5. prq.used = store[p].used
  BY <1>1 DEF PrqDefault, AddFinalizer, Prq, PrqOver
<1>6. store[p].used = CurrentUsage(store[p], store)
  BY DEF SettledUsageAccurate
<1>7. Limit(prq.hard, r) \in Int /\ prq.used[r] \in Nat
  <2>1. prq.hard = hard
    BY <1>1 DEF PrqDefault, AddFinalizer, Prq, PrqOver
  <2> QED
    BY <1>1, <1>5, <2>1, QuantityAssumption DEF Limit, Prq, PrqOver
<1> HIDE DEF prq
<1> QED
  BY <1>4, <1>5, <1>6, <1>7 DEF PrqValidateUpdate

\* projectResourceQuotaValidator.ValidateUpdate, where names agree: a change of
\* spec.hard is persisted only if what the project is settled to use fits under it.
THEOREM LimitsCover == Spec /\ []NamesAgree => LimitsCoverSettledUsage
<1>1. IInv /\ SettledUsageAccurate /\ [Next]_vars =>
        \A p \in Projects :
          /\ Settled(p) /\ Live(store[p])
          /\ store'[p] # Absent /\ store'[p].hard # store[p].hard
          => \A r \in Resources :
                CurrentUsage(store[p], store)[r] <= Limit(store'[p].hard, r)
  BY LimitsStep, NextIsStepBy
<1> QED
  BY <1>1, Invariant, SettledAccurate, PTL DEF Spec, LimitsCoverSettledUsage

-----------------------------------------------------------------------------
(* Hard limits: a new charge *)

\* The annotators change nothing but the annotation.
LEMMA MutationsShape ==
    ASSUME NEW view, NEW o \in Objects, NEW v \in Object(o), NEW w \in Mutations(view, o, v)
    PROVE  w.shape = v.shape /\ w \in Object(o)
<1>1. CASE w = v
  BY <1>1
<1>2. ASSUME NEW p \in Claimants(view, o), w = AddAnnotation(v, p)
      PROVE  w.shape = v.shape
  BY <1>2 DEF AddAnnotation, Object, ObjectOver
<1>3. w = v \/ \E p \in Claimants(view, o) : w = AddAnnotation(v, p)
  BY DEF Mutations, Default
<1> QED
  BY <1>1, <1>2, <1>3, MutationsType

\* A new charge that is not adopted unchecked is made in a creation, or in an update of a
\* service that gets a new type or counts for the first time, and the object's validator
\* answered for it from what it read.
LEMMA WhoCharges ==
    ASSUME IInv, NEW view, StepBy(view), NEW o \in Objects, NEW p \in Projects, NEW r \in Resources,
           NewCharge(o, p, r), ~AdoptedUnchecked(o, p, r)
    PROVE  \E v \in Object(o) : \E seen \in {view, cache} :
              /\ Write(o, v) /\ store'[o] = v
              /\ \/ store[o] = Absent /\ Passes(ValidateCreate(seen, o, v))
                 \/ /\ store[o] \in Object(o) /\ store[o] # Absent /\ KindOf[o] = "services"
                    /\ r = "services" \/ v.shape # store[o].shape
                    /\ Passes(ValidateUpdate(seen, o, store[o], v))
<1>0. /\ TypeOK /\ WorkerFresh /\ DOMAIN store = Items /\ o \in Items /\ o \notin Projects
      /\ store[o] # Absent => store[o] \in Object(o)
      /\ store'[o] # Absent /\ Amount(o, store'[o].shape, r) > 0
  BY ViewType, ItemCases DEF IInv, TypeOK, ApiTypeOK, View, NewCharge
<1>1. store[o] # Absent => store[o].anno # p \/ Amount(o, store[o].shape, r) = 0
  BY DEF NewCharge
<1>2. store[o] # Absent =>
        store'[o].shape # store[o].shape \/ (KindOf[o] = "services" /\ r = "services")
  BY <1>0, <1>1 DEF AdoptedUnchecked
<1>3. store'[o] # store[o]
  <2> SUFFICES ASSUME store'[o] = store[o] PROVE FALSE
    OBVIOUS
  <2>1. store[o].anno = p /\ store'[o].shape = store[o].shape
    BY DEF NewCharge
  <2>2. Amount(o, store[o].shape, r) = 0
    BY <1>0, <1>1, <2>1
  <2>3. Amount(o, store'[o].shape, r) = 0
    BY <2>1, <2>2
  <2> QED
    BY <1>0, <2>3
<1>4. ASSUME NEW x \in Items, NEW v, Write(x, v)
      PROVE  x = o /\ v # Absent /\ store'[o] = v
  BY <1>0, <1>3, <1>4 DEF Write
<1>5. CASE CreateObject(view, o)
  <2>1. PICK shape \in NewShapes(o) :
          \E v \in Mutations(view, o, [anno |-> None, shape |-> shape]) :
             Passes(ValidateCreate(view, o, v)) /\ Write(o, v)
    BY <1>5 DEF CreateObject, Persist
  <2>2. [anno |-> None, shape |-> shape] \in Object(o)
    BY DEF NewShapes, Object, ObjectOver
  <2> QED
    BY <1>0, <1>4, <1>5, <2>1, <2>2, MutationsShape DEF CreateObject
<1>6. CASE UpdateObject(view, o)
  <2>0. store[o] # Absent
    BY <1>6 DEF UpdateObject
  <2>1. PICK shape \in UpdatedShapes(o) :
          \E v \in Mutations(view, o, [store[o] EXCEPT !.shape = shape]) :
             Passes(ValidateUpdate(view, o, store[o], v)) /\ Write(o, v)
    BY <1>6 DEF UpdateObject, Persist
  <2>2. PICK old : old = [store[o] EXCEPT !.shape = shape]
    OBVIOUS
  <2>3. old \in Object(o) /\ old.shape = shape
    BY <1>0, <2>0, <2>1, <2>2 DEF UpdatedShapes, Object, ObjectOver
  <2>4. PICK v \in Mutations(view, o, old) :
          Passes(ValidateUpdate(view, o, store[o], v)) /\ Write(o, v)
    BY <2>1, <2>2
  <2>5. v \in Object(o) /\ v.shape = shape
    BY <2>3, <2>4, MutationsShape
  <2>6. /\ store'[o] = v
        /\ shape # store[o].shape \/ (KindOf[o] = "services" /\ r = "services")
    BY <1>0, <1>2, <1>4, <2>0, <2>4, <2>5
  <2>7. KindOf[o] = "services"
    BY <2>1, <2>6 DEF UpdatedShapes
  <2> QED
    BY <1>0, <2>0, <2>4, <2>5, <2>6, <2>7
<1>7. CASE PodTerminates(o)
  <2>1. store[o] # Absent /\ Write(o, [store[o] EXCEPT !.shape = "Terminated"])
    BY <1>7 DEF PodTerminates, Persist
  <2>2. store'[o].shape = "Terminated"
    BY <1>0, <1>4, <2>1 DEF Object, ObjectOver
  <2> QED
    BY <1>0, <2>2, AmountType DEF isPodTerminated
<1>8. CASE DeleteObject(o)
  BY <1>0, <1>4, <1>8 DEF DeleteObject, Persist
<1>9. ASSUME NEW seen \in {view, cache}, RemoveUpdate(seen, o)
      PROVE  \E v \in Object(o) :
                /\ Write(o, v) /\ store'[o] = v
                /\ store[o] \in Object(o) /\ store[o] # Absent /\ KindOf[o] = "services"
                /\ r = "services" /\ Passes(ValidateUpdate(seen, o, store[o], v))
  <2>1. ~UNCHANGED apiVars
    BY <1>3 DEF apiVars
  <2>2. /\ o \notin stale
        /\ \E v \in Mutations(seen, o, RemoveAnnotation(store[o])) :
              Passes(ValidateUpdate(seen, o, store[o], v)) /\ Write(o, v)
    BY <1>9, <2>1 DEF RemoveUpdate
  <2>3. store[o] \in Object(o) /\ store[o] # Absent
    BY <1>0, <1>9, <2>2 DEF WorkerFresh, RemoveUpdate
  <2>4. PICK old : old = RemoveAnnotation(store[o])
    OBVIOUS
  <2>5. old \in Object(o) /\ old.shape = store[o].shape
    BY <2>3, <2>4, RemoveAnnotationType DEF RemoveAnnotation, Object, ObjectOver
  <2>6. PICK v \in Mutations(seen, o, old) :
          Passes(ValidateUpdate(seen, o, store[o], v)) /\ Write(o, v)
    BY <2>2, <2>4
  <2>7. v \in Object(o) /\ v.shape = store[o].shape /\ store'[o] = v
    BY <1>4, <2>5, <2>6, MutationsShape, ItemCases
  <2> QED
    BY <1>2, <2>3, <2>6, <2>7
<1>10. ASSUME NEW x \in Items, x # o,
              \/ CreateObject(view, x) \/ UpdateObject(view, x) \/ PodTerminates(x) \/ DeleteObject(x)
              \/ CreateProject(view, x) \/ UpdateProject(view, x) \/ DeleteProject(x)
       PROVE  FALSE
  BY <1>4, <1>10 DEF CreateObject, UpdateObject, PodTerminates, DeleteObject,
     CreateProject, UpdateProject, DeleteProject, Persist
<1>11. ASSUME NEW seen, NEW x \in Objects, x # o, RemoveUpdate(seen, x)
       PROVE  FALSE
  BY <1>0, <1>3, <1>4, <1>11, RemoveUpdateWrites, ItemCases DEF apiVars
<1>12. CASE UpdateStatus
  BY <1>0, <1>3, <1>4, <1>12, UpdateStatusWrites, ItemCases DEF apiVars
<1>13. ASSUME NEW seen, Finalize(seen)
       PROVE  FALSE
  BY <1>0, <1>3, <1>4, <1>13, FinalizeWrites, ItemCases DEF apiVars
<1>14. CASE \/ UNCHANGED vars
            \/ \E q \in Projects : Dequeue(q)
            \/ RemoveList \/ RemoveDone \/ CalcList \/ TransientError \/ Restart
            \/ \E s \in Streams : Deliver(s)
  BY <1>3, <1>14 DEF vars, Dequeue, RemoveList, RemoveDone, CalcList, TransientError, Restart,
              Resync, Deliver, Observe, apiVars
<1>15. CASE UserRequest(view)
  BY <1>0, <1>5, <1>6, <1>7, <1>8, <1>10, <1>15, ItemCases DEF UserRequest
<1>16. ASSUME NEW seen \in {view, cache}, NEW x \in Objects, RemoveUpdate(seen, x)
       PROVE  RemoveUpdate(seen, o)
  BY <1>11, <1>16
<1> QED
  BY <1>9, <1>12, <1>13, <1>14, <1>15, <1>16 DEF StepBy, ReconcilerNext, WorkerStep

\* A limit of a project's is a whole number, and so is what its status says is used.
LEMMA LimitType ==
    ASSUME NEW p \in Projects, NEW prq \in Prq(p), NEW r \in Resources
    PROVE  Limit(prq.hard, r) \in Int /\ prq.used[r] \in Nat
BY QuantityAssumption DEF Limit, Prq, PrqOver

\* checkQuota and the comparisons of the other validators: what is used and what the
\* new object adds fit under the limit of every resource.
LEMMA AdmitsFits ==
    ASSUME NEW p \in Projects, NEW prq \in Prq(p), NEW o \in Objects, NEW v \in Object(o),
           QuotaAdmits(prq, o, v), NEW r \in Resources, Amount(o, v.shape, r) > 0
    PROVE  prq.used[r] + Amount(o, v.shape, r) <= Limit(prq.hard, r)
<1>1. Gate(r) = KindOf[o] /\ ~isPodTerminated(v.shape)
  BY AmountType
<1>2. Limit(prq.hard, r) \in Int /\ prq.used[r] \in Nat
  BY LimitType
<1>3. Amount(o, v.shape, r) = IF r \in ComputeResources THEN Demand[o][r]
                              ELSE IF r \in Range(PortResource)
                                   THEN IF v.shape \in DOMAIN PortResource /\ r = PortResource[v.shape]
                                        THEN 1 ELSE 0
                              ELSE 1
  BY <1>1 DEF Amount
<1>4. CASE r \in ComputeResources
  <2>1. KindOf[o] = "pods"
    BY <1>1, <1>4 DEF Gate
  <2>2. checkQuota(prq, o, r)
    BY <1>4, <2>1 DEF QuotaAdmits, validatePod
  <2>3. Demand[o][r] \in Int
    BY QuantityAssumption
  <2> QED
    BY <1>2, <1>3, <1>4, <2>2, <2>3 DEF checkQuota
<1>5. CASE r \notin ComputeResources /\ r \in Range(PortResource)
  <2>1. KindOf[o] = "services"
    BY <1>1, <1>5 DEF Gate
  <2>2. v.shape \in DOMAIN PortResource /\ r = PortResource[v.shape] /\ Amount(o, v.shape, r) = 1
    BY <1>3, <1>5
  <2>3. BelowHard(prq, r)
    BY <2>1, <2>2 DEF QuotaAdmits, validateServicePort
  <2> QED
    BY <1>2, <2>2, <2>3 DEF BelowHard
<1>6. CASE r \notin ComputeResources /\ r \notin Range(PortResource)
  <2>1. KindOf[o] = r /\ Amount(o, v.shape, r) = 1
    BY <1>1, <1>3, <1>6 DEF Gate
  <2>2. BelowHard(prq, r)
    BY <2>1 DEF QuotaAdmits, validatePod, validateService
  <2> QED
    BY <1>2, <2>1, <2>2 DEF BelowHard
<1> QED
  BY <1>4, <1>5, <1>6

\* serviceValidator.ValidateUpdate: so they do where a service counts for the first time,
\* or changes its type.
LEMMA ServiceUpdateFits ==
    ASSUME NEW p \in Projects, NEW prq \in Prq(p), NEW o \in Objects, KindOf[o] = "services",
           NEW v \in Object(o), NEW r \in Resources, Amount(o, v.shape, r) > 0,
           validateService(prq), r = "services" \/ validateServicePort(prq, v.shape)
    PROVE  prq.used[r] + Amount(o, v.shape, r) <= Limit(prq.hard, r)
<1>1. Gate(r) = "services" /\ ~isPodTerminated(v.shape)
  BY AmountType
<1>2. r \notin ComputeResources /\ (r = "services" \/ r \in Range(PortResource))
  BY <1>1 DEF Gate
<1>3. Limit(prq.hard, r) \in Int /\ prq.used[r] \in Nat
  BY LimitType
<1>4. Amount(o, v.shape, r) = 1
  BY <1>1, <1>2 DEF Amount
<1>5. r # "services" => v.shape \in DOMAIN PortResource /\ r = PortResource[v.shape]
  BY <1>1, <1>2 DEF Amount
<1>6. BelowHard(prq, r)
  BY <1>5 DEF validateServicePort, validateService
<1> QED
  BY <1>3, <1>4, <1>6 DEF BelowHard

\* Where no change of a project waits to be delivered, the cache has it as it is.
LEMMA SettledIsCached ==
    ASSUME IInv, NEW p \in Projects, Settled(p)
    PROVE  cache[p] = store[p]
BY ItemStreams, ItemCases DEF Settled, Pending, IInv, CacheCoherent

\* While nothing is under way for a project, what validators admit that read it as it
\* is stored fits.
LEMMA ChargeFits ==
    ASSUME ~FailOpen, IInv, SettledUsageAccurate, NEW view, StepBy(view), NEW p \in Projects,
           view[p] = store[p], NEW o \in Objects, NEW r \in Resources,
           Settled(p), Live(store[p]), NewCharge(o, p, r), ~AdoptedUnchecked(o, p, r)
    PROVE  CurrentUsage(store[p], store)[r] + Amount(o, store'[o].shape, r)
           <= Limit(store[p].hard, r)
<1>1. store[p] \in Prq(p) /\ store[p].used = CurrentUsage(store[p], store)
  BY ViewType, ItemCases DEF IInv, TypeOK, SettledUsageAccurate, Live
<1>2. PICK v \in Object(o), seen \in {view, cache} :
        /\ store'[o] = v
        /\ \/ store[o] = Absent /\ Passes(ValidateCreate(seen, o, v))
           \/ /\ store[o] \in Object(o) /\ store[o] # Absent /\ KindOf[o] = "services"
              /\ r = "services" \/ v.shape # store[o].shape
              /\ Passes(ValidateUpdate(seen, o, store[o], v))
  BY WhoCharges
<1>3. v # Absent /\ v.anno = p /\ IsAnnotationExists(v) /\ Amount(o, v.shape, r) > 0
  BY <1>2, ItemsAssumption DEF NewCharge, IsAnnotationExists
<1>4. seen[p] = store[p]
  BY SettledIsCached
<1>5. CASE store[o] = Absent
  <2>1. QuotaAdmits(store[p], o, v)
    BY <1>1, <1>2, <1>3, <1>5, <1>4 DEF Passes, ValidateCreate
  <2> QED
    BY <1>1, <1>2, <1>3, <2>1, AdmitsFits
<1>6. CASE store[o] # Absent
  <2>1. KindOf[o] = "services" /\ ServiceValidateUpdate(seen, store[o], v)
    BY <1>2, <1>6 DEF Passes, ValidateUpdate
  <2>2. /\ validateService(store[p])
        /\ r = "services" \/ validateServicePort(store[p], v.shape)
    BY <1>2, <1>3, <1>6, <1>4, <2>1 DEF ServiceValidateUpdate
  <2> QED
    BY <1>1, <1>2, <1>3, <2>1, <2>2, ServiceUpdateFits
<1> QED
  BY <1>5, <1>6

\* A new charge adds to what its project holds the units of its object, no more.
LEMMA ChargeAdds ==
    ASSUME NEW prq, NEW before, NEW after, NEW o \in Objects, NEW r \in Resources,
           \A x \in Objects : x # o => after[x] = before[x]
    PROVE  Cardinality(HeldUnits(prq, after, r))
           <= Cardinality(HeldUnits(prq, before, r)) + Amount(o, after[o].shape, r)
<1> DEFINE n == Amount(o, after[o].shape, r)
           H == HeldUnits(prq, before, r)
           G == {o} \X (1 .. n)
<1>1. n \in 0 .. MaxUnits /\ MaxUnits \in Nat
  BY AmountType, QuantityAssumption
<1> HIDE DEF n
<1>2. IsFiniteSet(1 .. n) /\ Cardinality(1 .. n) = n
  BY <1>1, FS_Interval
<1>3. IsFiniteSet({o}) /\ Cardinality({o}) = 1
  BY FS_Singleton
<1>4. IsFiniteSet(G) /\ Cardinality(G) = Cardinality({o}) * Cardinality(1 .. n)
  <2>. PICK S, T : S = {o} /\ T = 1 .. n
    OBVIOUS
  <2>1. IsFiniteSet(S \X T) /\ Cardinality(S \X T) = Cardinality(S) * Cardinality(T)
    BY <1>2, <1>3, FS_Product
  <2> QED
    BY <2>1
<1>5. Cardinality(G) = n
  BY <1>1, <1>2, <1>3, <1>4
<1>6. IsFiniteSet(H) /\ Cardinality(H) \in Nat
  BY HeldFinite, FS_CardinalityType
<1>7. HeldUnits(prq, after, r) \subseteq H \union G
  <2> SUFFICES ASSUME NEW x \in Objects, NEW u \in Units, <<x, u>> \in HeldUnits(prq, after, r)
               PROVE  <<x, u>> \in H \union G
    BY DEF HeldUnits
  <2>1. CASE x = o
    <3>1. u \in 1 .. n
      BY <1>1, <2>1 DEF HeldUnits, Units, n
    <3> QED
      BY <2>1, <3>1
  <2>2. CASE x # o
    BY <2>2 DEF HeldUnits
  <2> QED
    BY <2>1, <2>2
<1> HIDE DEF G, H
<1>8. IsFiniteSet(H \union G)
      /\ Cardinality(H \union G) = Cardinality(H) + Cardinality(G) - Cardinality(H \intersect G)
  BY <1>4, <1>6, FS_Union
<1>9. Cardinality(H \intersect G) \in Nat
  <2>1. IsFiniteSet(H \intersect G)
    BY <1>4, FS_Subset
  <2> QED
    BY <2>1, FS_CardinalityType
<1>10. Cardinality(HeldUnits(prq, after, r)) <= Cardinality(H \union G)
       /\ Cardinality(HeldUnits(prq, after, r)) \in Nat
  BY <1>7, <1>8, FS_Subset, HeldFinite, FS_CardinalityType
<1>11. Cardinality(HeldUnits(prq, after, r)) <= Cardinality(H) + n
  BY <1>1, <1>5, <1>6, <1>8, <1>9, <1>10
<1> QED
  BY <1>11 DEF H, n

\* An admitted charge on a project for which nothing is under way stays under its limit.
LEMMA OvershootStep ==
    ASSUME ~FailOpen, NoRepeats, IInv, SettledUsageAccurate,
           NEW view, StepBy(view), NEW p \in Projects, view[p] = store[p],
           NEW o \in Objects, NEW r \in Resources,
           Settled(p), Live(store[p]), NewCharge(o, p, r), ~AdoptedUnchecked(o, p, r)
    PROVE  CurrentUsage(store[p], store')[r] <= Limit(store[p].hard, r)
<1> DEFINE before == CurrentUsage(store[p], store)[r]
           after == CurrentUsage(store[p], store')[r]
           m == Amount(o, store'[o].shape, r)
<1>1. store[p] \in Prq(p) /\ store[p] # Absent /\ store[p].namespaces \in NamespaceLists[p]
  BY ViewType, ItemCases DEF IInv, TypeOK, Live, Prq, PrqOver
<1>2. before + m <= Limit(store[p].hard, r)
  BY ChargeFits
<1>3. Limit(store[p].hard, r) \in Int /\ before \in Nat
  <2>1. before = store[p].used[r]
    BY DEF SettledUsageAccurate
  <2> QED
    BY <1>1, <2>1, LimitType
<1>4. m \in Nat
  BY AmountType, QuantityAssumption
<1>5. \A x \in Objects : x # o => store'[x] = store[x]
  <2>1. PICK v : Write(o, v)
    BY WhoCharges
  <2> QED
    BY <2>1, ItemCases DEF Write, IInv, TypeOK, ApiTypeOK, View
<1>6. CASE r \in DOMAIN store[p].hard /\ Counts(store[p].hard, Gate(r))
  <2>1. PICK now : now = store'
    OBVIOUS
  <2>2. \A i, j \in DOMAIN store[p].namespaces :
           store[p].namespaces[i] = store[p].namespaces[j] => i = j
    BY <1>1 DEF NoRepeats
  <2>3. Cardinality(HeldUnits(store[p], now, r))
        <= Cardinality(HeldUnits(store[p], store, r)) + m
    BY <1>5, <2>1, ChargeAdds
  <2>4. Cardinality(Charges(ListsOf(store[p], now), r)) = Cardinality(HeldUnits(store[p], now, r))
    BY <1>1, <1>6, <2>2, ChargesHeld
  <2>5. Cardinality(Charges(ListsOf(store[p], store), r)) = Cardinality(HeldUnits(store[p], store, r))
    BY <1>1, <1>6, <2>2, ChargesHeld
  <2>6. after = Cardinality(HeldUnits(store[p], now, r))
        /\ before = Cardinality(HeldUnits(store[p], store, r))
    BY <1>6, <2>1, <2>4, <2>5 DEF CurrentUsage, UsedBy
  <2>7. Cardinality(HeldUnits(store[p], now, r)) \in Nat
    BY HeldFinite, FS_CardinalityType
  <2> HIDE DEF before, after, m
  <2>8. after <= Limit(store[p].hard, r)
    BY <1>2, <1>3, <1>4, <2>3, <2>6, <2>7
  <2> QED
    BY <2>8 DEF after
<1>7. CASE ~(r \in DOMAIN store[p].hard /\ Counts(store[p].hard, Gate(r)))
  <2>1. after = 0
    BY <1>7 DEF CurrentUsage, UsedBy
  <2> HIDE DEF before, after, m
  <2>2. after <= Limit(store[p].hard, r)
    BY <1>2, <1>3, <1>4, <2>1
  <2> QED
    BY <2>2 DEF after
<1> QED
  BY <1>6, <1>7

\* The validators of objects, reached and reading a status that does not lag, where
\* names agree and no list names a namespace twice: no step but an unchecked update that
\* adopts an object takes a project over its hard limit, whatever objects demand.
THEOREM OvershootLaggedOrAdopted ==
    ~FailOpen /\ NoRepeats /\ Spec /\ []NamesAgree => OvershootOnlyLaggedOrAdopted
<1>1. ~FailOpen /\ NoRepeats /\ IInv /\ SettledUsageAccurate /\ [Next]_vars =>
        \A o \in Objects, p \in Projects, r \in Resources :
          Settled(p) /\ Live(store[p]) /\ NewCharge(o, p, r)
             => \/ CurrentUsage(store[p], store')[r] <= Limit(store[p].hard, r)
                \/ AdoptedUnchecked(o, p, r)
  BY OvershootStep, NextIsStepBy, SettledIsCached
<1>2. ~FailOpen /\ NoRepeats => [](~FailOpen /\ NoRepeats)
  BY DEF NoRepeats
<1> QED
  BY <1>1, <1>2, Invariant, SettledAccurate, PTL DEF Spec, OvershootOnlyLaggedOrAdopted

================================================================================
