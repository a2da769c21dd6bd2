---------------------------- MODULE Requests_proofs ----------------------------
(***************************************************************************)
(* Theorems about Admission: what the status and the hard limits are worth *)
(* while requests are in flight.                                           *)
(***************************************************************************)
EXTENDS Admission_proofs, Limits_proofs

-----------------------------------------------------------------------------
(* Usage *)

\* A step of Admission is one of ProjectQuota, whatever its webhooks answered.
LEMMA AdmissionAnyStep ==
    ASSUME RequestsType, IInv, [AdmissionNext]_admissionVars
    PROVE  AnyStep
<1>1. CASE UNCHANGED vars
  BY <1>1 DEF AnyStep
<1>2. CASE Unasked
  BY <1>2, UnaskedIsNext, NextIsAnyStep DEF IInv
<1>3. ASSUME NEW r \in requests, PersistRequest(r)
      PROVE  AnyStep
  BY <1>3, RequestFields DEF RequestsType, PersistRequest, AnyStep
<1> QED
  BY <1>1, <1>2, <1>3, StepCases
  DEF admissionVars, SubmitObject, SubmitProject, Open, Validate

\* What settled status promises does not depend on requests being atomic.
THEOREM AdmissionAccurate == AdmissionSpec /\ []NamesAgree => []SettledUsageAccurate
<1>1. AdmissionInit => UsageInv
  BY UsageInit DEF AdmissionInit
<1>2. AdmissionInv /\ UsageInv /\ NamesAgree /\ NamesAgree' /\ [AdmissionNext]_admissionVars
        => UsageInv'
  BY AdmissionAnyStep, UsageStep DEF AdmissionInv
<1>3. AdmissionInv /\ UsageInv => SettledUsageAccurate
  BY UsageIsAccurate DEF AdmissionInv
<1> QED
  BY <1>1, <1>2, <1>3, AdmissionInvariant, PTL DEF AdmissionSpec

\* A request for an object names, if any, a project that may list its namespace.
RequestsHome == \A r \in requests : r.item \in Objects => AtHome(r.item, r.val)

\* Requests stay at home where users write no project's name.
LEMMA RequestsHomeStep ==
    ASSUME UserAnnotations \subseteq {None},
           IInv, RequestsType, NamesHome, RequestsHome, [AdmissionNext]_admissionVars
    PROVE  RequestsHome'
<1>0. ApiTypeOK
  BY DEF IInv, TypeOK
<1>1. CASE UNCHANGED admissionVars
  BY <1>1 DEF admissionVars, RequestsHome
<1>2. ASSUME NEW o \in Objects, SubmitObject(o)
      PROVE  RequestsHome'
  <2>1. store[o] # Absent => store[o] \in Object(o) /\ AtHome(o, store[o])
    BY <1>0, ViewType, ItemCases DEF NamesHome, Seen
  <2>2. PICK shape \in IF store[o] = Absent THEN NewShapes(o) ELSE UpdatedShapes(o),
             anno \in UserAnnotations \union {IF store[o] = Absent THEN None ELSE store[o].anno} :
          \E v \in Mutations(cache, o, [anno |-> anno, shape |-> shape]) : Open(o, v)
    BY <1>2 DEF SubmitObject
  <2>3. PICK given : given = [anno |-> anno, shape |-> shape]
    OBVIOUS
  <2>4. given \in Object(o)
    <3>1. shape \in Shapes(KindOf[o])
      BY <2>1, <2>2 DEF NewShapes, UpdatedShapes, Object, ObjectOver
    <3>2. anno \in Projects \union {None}
      BY <2>1, <2>2 DEF Object, ObjectOver
    <3> QED
      BY <2>3, <3>1, <3>2 DEF Object, ObjectOver
  <2>5. AtHome(o, given)
    BY <2>1, <2>2, <2>3 DEF AtHome, IsAnnotationExists
  <2>6. PICK v \in Mutations(cache, o, given) : Open(o, v)
    BY <2>2, <2>3
  <2>7. AtHome(o, v)
    BY <1>0, <2>4, <2>5, <2>6, MutationsHome DEF ApiTypeOK
  <2> QED
    BY <2>6, <2>7 DEF Open, RequestsHome
<1>3. ASSUME NEW p \in Projects, SubmitProject(p)
      PROVE  RequestsHome'
  BY <1>0, <1>3, SubmitProjectOpens, ItemCases DEF Open, RequestsHome
<1>4. ASSUME NEW r \in requests, Validate(r)
      PROVE  RequestsHome'
  BY <1>4, ValidateLeaves DEF RequestsHome
<1>5. ASSUME NEW inflight, inflight \subseteq requests, requests' = Continue(inflight)
      PROVE  RequestsHome'
  BY <1>5, ContinueFields DEF RequestsType, RequestsHome
<1> QED
  BY <1>1, <1>2, <1>3, <1>4, <1>5, StepCases DEF PersistRequest

\* So does what is stored, cached and on its way.
LEMMA AdmissionHomeStep ==
    ASSUME IInv, RequestsType, NamesHome, RequestsHome, [AdmissionNext]_admissionVars
    PROVE  NamesHome'
<1>1. CASE UNCHANGED vars
  BY <1>1 DEF vars, apiVars, NamesHome, Seen
<1>2. CASE Unasked
  BY <1>2, UnaskedIsNext, NextIsStepBy, HomeStep DEF IInv, TypeOK, ApiTypeOK
<1>3. ASSUME NEW r \in requests, PersistRequest(r)
      PROVE  NamesHome'
  <2> SUFFICES ASSUME NEW o \in Objects, NEW v \in Seen(o)'
               PROVE  AtHome(o, v)
    BY DEF NamesHome
  <2>1. v \in Seen(o) \union {store'[o]}
    BY AdmissionAnyStep, SeenGrowth, ItemCases
  <2>2. store' = [store EXCEPT ![r.item] = r.val] /\ DOMAIN store = Items
    BY <1>3 DEF PersistRequest, Persist, Write, IInv, TypeOK, ApiTypeOK, View
  <2>3. store'[o] = IF o = r.item THEN r.val ELSE store[o]
    BY <2>2, ItemCases
  <2> QED
    BY <1>3, <2>1, <2>3 DEF NamesHome, RequestsHome, Seen
<1> QED
  BY <1>1, <1>2, <1>3, StepCases
  DEF admissionVars, SubmitObject, SubmitProject, Open, Validate

\* Where users offer no namespace to two projects and take annotations off but put
\* none on, names agree however requests interleave.
THEOREM AdmissionApart ==
    NamespacesApart /\ UserAnnotations \subseteq {None} /\ AdmissionSpec => []NamesAgree
<1>1. AdmissionInit => NamesHome /\ RequestsHome
  <2>1. ASSUME AdmissionInit, NEW o \in Objects, NEW v \in Seen(o) PROVE ~IsAnnotationExists(v)
    <3>1. store[o] = Absent /\ cache[o] = Absent /\ watch[StreamOf(o)] = <<>>
      BY <2>1, ItemStreams, ItemCases DEF AdmissionInit, Init, ApiInit
    <3> QED
      BY <3>1 DEF Seen, IsAnnotationExists
  <2> QED
    BY <2>1 DEF AdmissionInit, NamesHome, AtHome, RequestsHome
<1>2. /\ UserAnnotations \subseteq {None} /\ AdmissionInv /\ NamesHome /\ RequestsHome
      /\ [AdmissionNext]_admissionVars
      => NamesHome' /\ RequestsHome'
  BY RequestsHomeStep, AdmissionHomeStep DEF AdmissionInv
<1>3. NamespacesApart /\ AdmissionInv /\ NamesHome => NamesAgree
  BY HomeAgree DEF AdmissionInv, IInv, TypeOK
<1>4. NamespacesApart /\ UserAnnotations \subseteq {None}
        => [](NamespacesApart /\ UserAnnotations \subseteq {None})
  BY DEF NamespacesApart
<1> QED
  BY <1>1, <1>2, <1>3, <1>4, AdmissionInvariant, PTL DEF AdmissionSpec

-----------------------------------------------------------------------------
(* What the validators read *)

\* A live project that is neither queued nor being reconciled, and has no change
\* undelivered, records what a reconcile would find in the cache: whatever is on its
\* way to the cache, the webhooks read both sides of their comparison at one moment.
CacheRecorded ==
    \A p \in Projects :
        Live(store[p]) /\ ~Pending(p) /\ p \notin queue /\ p # cur
        => store[p].used = CurrentUsage(store[p], cache)

\* While the worker's copy of its project is current and the project is not queued
\* again, what the calculation has listed is what the cache still holds.
CacheListed ==
    pc = "calculate" /\ cur \notin stale /\ cur \notin queue =>
        \A i \in DOMAIN snap.namespaces, o \in Objects :
            lists[i][o] = IF Visited(i, KindOf[o]) THEN ListsOf(snap, cache)[i][o]
                          ELSE Absent

CacheInv == CacheRecorded /\ CacheListed /\ BranchTaken

\* An event that leaves a live project out of the queue changes nothing the project
\* lists: what is annotated in its namespaces names it, before and after.
LEMMA QuietDelivery ==
    ASSUME IInv, NamesAgree, NamesAgree', NEW s \in Streams, Deliver(s),
           NEW p \in Projects, Live(store[p]), p \notin queue'
    PROVE  /\ p \notin queue /\ (Pending(p) => Pending(p)')
           /\ ListsOf(store[p], cache') = ListsOf(store[p], cache)
<1> DEFINE e == Head(watch[s])
<1>0. /\ ApiTypeOK /\ CacheCoherent /\ Observe(s) /\ e.item \in Items
      /\ cache' = [cache EXCEPT ![e.item] = e.val] /\ DOMAIN cache = Items /\ store' = store
  BY HeadType DEF IInv, TypeOK, Deliver, Observe, ApiTypeOK, View
<1>1. /\ queue \subseteq queue'
      /\ e.item \in Projects => e.item \in queue'
      /\ e.item \in Objects => findObjects(cache[e.item], e.val) \subseteq queue'
  BY ItemCases DEF Deliver
<1>2. p # e.item
  BY <1>1
<1>3. Pending(p) => Pending(p)'
  BY <1>0, <1>2, ObserveSeen, ItemCases
<1>4. ASSUME NEW o \in Objects, cache'[o] # cache[o],
             NamespaceOf[o] \in Range(store[p].namespaces)
      PROVE  ~IsAnnotationExists(cache[o]) /\ ~IsAnnotationExists(cache'[o])
  <2>1. o = e.item /\ cache'[o] = e.val
    BY <1>0, <1>4, ItemCases
  <2>2. Claims(store[p], NamespaceOf[o])
    BY <1>4 DEF Claims, Live
  <2>3. Claims(store[p], NamespaceOf[o])' /\ Live(store[p])'
    BY <1>0, <2>2
  <2>4. cache[o] \in Seen(o) /\ cache'[o] \in Seen(o)'
    BY DEF Seen
  <2>5. /\ IsAnnotationExists(cache[o]) => cache[o].anno = p
        /\ IsAnnotationExists(cache'[o]) => cache'[o].anno = p
    BY <2>2, <2>3, <2>4 DEF NamesAgree
  <2>6. p \notin findObjects(cache[o], e.val)
    BY <1>1, <2>1
  <2> QED
    BY <2>1, <2>5, <2>6 DEF findObjects
<1>5. PICK after : after = cache'
  OBVIOUS
<1>6. ListsOf(store[p], after) = ListsOf(store[p], cache)
  BY <1>4, <1>5, ListsDepend
<1> QED
  BY <1>1, <1>3, <1>5, <1>6

\* A list keeps CacheListed.
LEMMA CalcListCached ==
    ASSUME IInv, CacheListed, CalcList
    PROVE  CacheListed'
<1> DEFINE k == KindOrder[col]
           found == AnnotatedIn(cache, snap.namespaces[row], k)
           fresh == ListsOf(snap, cache)
<1> SUFFICES ASSUME pc = "calculate", cur \notin stale, cur \notin queue,
                    NEW i \in DOMAIN snap.namespaces, NEW o \in Objects
             PROVE  lists'[i][o] = IF Visited(i, KindOf[o])' THEN fresh[i][o] ELSE Absent
  BY DEF CacheListed, CalcList, apiVars
<1>1. /\ cur \in Projects /\ snap \in Prq(cur)
      /\ DOMAIN lists = DOMAIN snap.namespaces /\ ReconcilerTypeOK
      /\ \A j \in DOMAIN lists : DOMAIN lists[j] = Objects
      /\ row \in Nat /\ Advance(row)
  BY DEF IInv, TypeOK, ReconcilerTypeOK, CalcList
<1>2. DOMAIN snap.namespaces = 1 .. Len(snap.namespaces) /\ i \in Nat
  <2>1. snap.namespaces \in Seq(Range(NamespaceOrder))
    BY <1>1, ItemsAssumption DEF Prq, PrqOver
  <2> QED
    BY <2>1, LenProperties
<1>3. Visited(i, KindOf[o])' <=> Visited(i, KindOf[o]) \/ (i = row /\ KindOf[o] = k)
  BY <1>1, <1>2, AdvanceVisited
<1>4. lists[i][o] = IF Visited(i, KindOf[o]) THEN fresh[i][o] ELSE Absent
  BY DEF CacheListed
<1>5. lists' = IF Counts(snap.hard, k)
               THEN [lists EXCEPT ![row] =
                        [x \in Objects |-> IF x \in found THEN cache[x] ELSE @[x]]]
               ELSE lists
  BY DEF CalcList
<1>6. CASE i = row /\ KindOf[o] = k /\ Counts(snap.hard, k)
  <2>1. lists'[i][o] = IF o \in found THEN cache[o] ELSE lists[i][o]
    BY <1>1, <1>5, <1>6
  <2>2. fresh[i][o] = IF o \in found THEN cache[o] ELSE Absent
    BY <1>6 DEF ListsOf
  <2> HIDE DEF fresh, found
  <2> QED
    BY <1>3, <1>4, <1>6, <2>1, <2>2
<1>7. CASE i = row /\ KindOf[o] = k /\ ~Counts(snap.hard, k)
  BY <1>3, <1>4, <1>5, <1>7 DEF ListsOf
<1>8. CASE ~(i = row /\ KindOf[o] = k)
  <2>1. lists'[i][o] = lists[i][o]
    BY <1>1, <1>5, <1>8 DEF AnnotatedIn
  <2> QED
    BY <1>3, <1>4, <1>8, <2>1
<1> QED
  BY <1>6, <1>7, <1>8

\* When the calculation has gone through its whole grid, its totals are those of the
\* cache.
LEMMA CalculationCached ==
    ASSUME IInv, CacheListed, pc = "calculate", row > Len(snap.namespaces),
           cur \notin stale, cur \notin queue
    PROVE  UsedBy(snap.hard, lists) = CurrentUsage(snap, cache)
<1> DEFINE fresh == ListsOf(snap, cache)
<1>1. /\ cur \in Projects /\ snap \in Prq(cur)
      /\ DOMAIN lists = DOMAIN snap.namespaces /\ row \in Nat \ {0}
  BY DEF IInv, TypeOK, ReconcilerTypeOK
<1>2. DOMAIN snap.namespaces = 1 .. Len(snap.namespaces) /\ Len(snap.namespaces) \in Nat
  <2>1. snap.namespaces \in Seq(Range(NamespaceOrder))
    BY <1>1, ItemsAssumption DEF Prq, PrqOver
  <2> QED
    BY <2>1, LenProperties
<1>3. ASSUME NEW i \in DOMAIN snap.namespaces, NEW o \in Objects
      PROVE  lists[i][o] = fresh[i][o]
  <2>1. PICK c \in DOMAIN KindOrder : KindOrder[c] = KindOf[o]
    BY KindsAssumption DEF Range
  <2>2. Visited(i, KindOf[o])
    BY <1>1, <1>2, <2>1 DEF Visited
  <2> QED
    BY <1>3, <2>2 DEF CacheListed
<1>4. DOMAIN fresh = DOMAIN lists
  BY <1>1 DEF ListsOf
<1>5. ASSUME NEW r \in Resources
      PROVE  Charges(lists, r) = Charges(fresh, r)
  <2> HIDE DEF fresh
  <2> QED
    BY <1>1, <1>3, <1>4 DEF Charges
<1> QED
  BY <1>5 DEF CurrentUsage, UsedBy

\* CacheListed survives every step.
LEMMA CacheListedStep ==
    ASSUME IInv, CacheListed, BranchTaken, NamesAgree, NamesAgree', AnyStep
    PROVE  CacheListed'
<1>0. /\ TypeOK /\ ReconcilerTypeOK /\ WorkerFresh
  BY DEF IInv, TypeOK
<1>1. CASE pc' # "calculate"
  BY <1>1 DEF CacheListed
<1>2. CASE /\ UNCHANGED <<pc, cur, snap, row, col, lists, cache>>
           /\ stale \subseteq stale' /\ queue \subseteq queue'
  BY <1>2 DEF CacheListed, Visited
<1>3. CASE UNCHANGED vars
  BY <1>2, <1>3 DEF vars, reconcilerVars, workVars, apiVars
<1>4. ASSUME NEW x \in Items, NEW v \in ValuesOf(x), Persist(x, v)
      PROVE  CacheListed'
  BY <1>2, <1>4 DEF Persist, Write, workVars
<1>5. CASE (\E p \in Projects : Dequeue(p)) \/ RemoveList
  BY <1>0, <1>1, <1>2, <1>5 DEF Dequeue, RemoveList
<1>6. ASSUME NEW view, NEW o \in Objects, RemoveUpdate(view, o)
      PROVE  CacheListed'
  BY <1>0, <1>1, <1>6, RemoveUpdateWrites DEF ReturnError, Idle, RemoveUpdate
<1>7. CASE RemoveDone
  <2>1. CASE snap.deleting
    BY <1>1, <1>7, <2>1 DEF RemoveDone
  <2>2. CASE ~snap.deleting
    <3>1. /\ lists' = [i \in DOMAIN snap.namespaces |-> [o \in Objects |-> Absent]]
          /\ row' = 1 /\ col' = 1 /\ snap' = snap
      BY <1>7, <2>2 DEF RemoveDone
    <3>2. snap \in Prq(cur) /\ cur \in Projects
      BY <1>0, <1>7 DEF ReconcilerTypeOK, RemoveDone
    <3>3. DOMAIN snap.namespaces = 1 .. Len(snap.namespaces)
          /\ DOMAIN KindOrder = 1 .. Len(KindOrder)
      <4>1. snap.namespaces \in Seq(Range(NamespaceOrder))
        BY <3>2, ItemsAssumption DEF Prq, PrqOver
      <4> QED
        BY <4>1, KindsAssumption, LenProperties
    <3>4. \A i \in DOMAIN snap.namespaces : \A k : ~Visited(i, k)'
      BY <3>1, <3>3 DEF Visited
    <3> QED
      BY <3>1, <3>4 DEF CacheListed
  <2> QED
    BY <2>1, <2>2
<1>8. CASE CalcList
  BY <1>8, CalcListCached
<1>9. CASE UpdateStatus \/ TransientError \/ Restart \/ \E view : Finalize(view)
  BY <1>1, <1>9 DEF UpdateStatus, Finalize, TransientError, Restart, Return, ReturnError, Idle
<1>10. ASSUME NEW s \in Streams, Deliver(s)
       PROVE  CacheListed'
  <2>1. UNCHANGED <<pc, cur, snap, row, col, lists, stale>>
    BY <1>10 DEF Deliver, workVars
  <2> SUFFICES ASSUME NEW p \in Projects, p = cur, pc = "calculate", p \notin stale, p \notin queue'
               PROVE  \A i \in DOMAIN snap.namespaces, o \in Objects :
                          lists[i][o] = IF Visited(i, KindOf[o]) THEN ListsOf(snap, cache')[i][o]
                                        ELSE Absent
    <3>1. pc = "calculate" => cur \in Projects
      BY <1>0 DEF ReconcilerTypeOK
    <3> QED
      BY <2>1, <3>1 DEF CacheListed, Visited
  <2>2. snap = store[p] /\ snap \in Prq(p)
    BY <1>0 DEF ReconcilerTypeOK, WorkerFresh
  <2>3. Live(store[p])
    BY <2>2, AbsentAssumption DEF BranchTaken, Live
  <2>4. p \notin queue /\ ListsOf(snap, cache') = ListsOf(snap, cache)
    BY <1>10, <2>2, <2>3, QuietDelivery
  <2> QED
    BY <2>4 DEF CacheListed
<1> QED
  BY <1>3, <1>4, <1>5, <1>6, <1>7, <1>8, <1>9, <1>10 DEF AnyStep, ReconcilerNext, WorkerStep

\* A write that leaves no change of a project undelivered leaves the project as it is.
LEMMA QuietProject ==
    ASSUME IInv, NEW x \in Items, NEW v \in ValuesOf(x), Write(x, v),
           NEW p \in Projects, ~Pending(p)'
    PROVE  ~Pending(p) /\ store'[p] = store[p] /\ cache' = cache /\ (x = p => v = store[p])
<1>1. ApiTypeOK /\ CacheCoherent /\ DOMAIN store = Items /\ p \in Items
  BY ItemCases DEF IInv, TypeOK, ApiTypeOK, View
<1>2. ~Pending(p) /\ (x = p => v = store[p]) /\ store' = [store EXCEPT ![x] = v]
  BY <1>1, WriteSeen
<1> QED
  BY <1>1, <1>2 DEF Write

\* So does CacheRecorded.
LEMMA CacheRecordedStep ==
    ASSUME IInv, CacheInv, NamesAgree, NamesAgree', AnyStep
    PROVE  CacheRecorded'
<1>0. /\ TypeOK /\ ReconcilerTypeOK /\ CacheCoherent /\ WorkerFresh
      /\ CacheRecorded /\ CacheListed /\ BranchTaken
  BY DEF IInv, TypeOK, CacheInv
<1> SUFFICES ASSUME NEW p \in Projects, Live(store'[p]), ~Pending(p)', p \notin queue', p # cur'
             PROVE  store'[p].used = CurrentUsage(store'[p], cache')
  BY DEF CacheRecorded
<1> DEFINE Goal == store'[p].used = CurrentUsage(store'[p], cache')
<1>1. CASE UNCHANGED apiVars /\ p \notin queue /\ p # cur
  <2>1. UNCHANGED <<store, cache, watch>>
    BY <1>1 DEF apiVars
  <2> QED
    BY <1>0, <1>1, <2>1 DEF CacheRecorded, Pending
<1>2. CASE /\ \E x \in Items : \E v \in ValuesOf(x) : Write(x, v)
           /\ p \notin queue /\ p # cur
  <2>1. ~Pending(p) /\ store'[p] = store[p] /\ cache' = cache
    BY <1>2, QuietProject
  <2> QED
    BY <1>0, <1>2, <2>1 DEF CacheRecorded
<1>3. CASE ReturnError /\ UNCHANGED apiVars
  BY <1>1, <1>3 DEF ReturnError
<1>4. CASE UNCHANGED vars
  BY <1>1, <1>4 DEF vars, reconcilerVars, workVars
<1>5. CASE \E x \in Items : \E v \in ValuesOf(x) : Persist(x, v)
  BY <1>2, <1>5 DEF Persist, workVars
<1>6. ASSUME NEW q \in Projects, Dequeue(q)
      PROVE  Goal
  <2>1. cur = None /\ queue' = queue \ {q} /\ UNCHANGED <<store, cache, watch>>
    BY <1>0, <1>6 DEF Dequeue, ReconcilerTypeOK, apiVars
  <2>2. p # q
    <3>1. ~Pending(p)
      BY <2>1 DEF Pending
    <3>2. cache[p] = store[p] /\ store[p] # Absent
      BY <1>0, <2>1, <3>1, ItemCases DEF CacheCoherent, Live
    <3> QED
      BY <1>6, <3>2 DEF Dequeue
  <2> QED
    BY <1>1, <1>6, <2>1, <2>2, ItemsAssumption DEF Dequeue
<1>7. CASE RemoveList \/ RemoveDone \/ CalcList
  BY <1>1, <1>7 DEF RemoveList, RemoveDone, CalcList
<1>8. ASSUME NEW view, NEW o \in Objects, RemoveUpdate(view, o)
      PROVE  Goal
  BY <1>0, <1>2, <1>3, <1>8, RemoveUpdateWrites, ItemCases
<1>9. CASE UpdateStatus
  <2> DEFINE w == [snap EXCEPT !.used = UsedBy(snap.hard, lists),
                               !.statusNamespaces = snap.namespaces]
  <2>1. CASE Write(cur, w) /\ w \in Prq(cur) /\ cur \in Projects /\ cur \notin stale /\ Return
    <3>0. w \in ValuesOf(cur) /\ cur \in Items /\ queue' = queue
      BY <2>1, ItemCases DEF Return
    <3>1. CASE p # cur
      BY <1>2, <2>1, <3>0, <3>1
    <3>2. CASE p = cur
      <4>1. /\ snap = store[cur] /\ snap \in Prq(cur)
            /\ pc = "calculate" /\ row > Len(snap.namespaces)
        BY <1>0, <1>9, <2>1 DEF UpdateStatus, WorkerFresh, ReconcilerTypeOK
      <4>2. w = store[p] /\ store'[p] = store[p] /\ cache' = cache
        BY <2>1, <3>0, <3>2, QuietProject
      <4>3. UsedBy(snap.hard, lists) = CurrentUsage(snap, cache)
        BY <1>0, <2>1, <3>0, <3>2, <4>1, CalculationCached
      <4>4. w.used = UsedBy(snap.hard, lists)
        BY <4>1 DEF Prq, PrqOver
      <4> QED
        BY <3>2, <4>1, <4>2, <4>3, <4>4
    <3> QED
      BY <3>1, <3>2
  <2> QED
    BY <1>0, <1>3, <1>9, <2>1, UpdateStatusWrites
<1>10. ASSUME NEW view, Finalize(view)
       PROVE  Goal
  <2>1. CASE /\ cur \in Projects /\ cur \notin stale
             /\ \E v \in ValuesOf(cur) : Write(cur, v)
             /\ Return
    <3>1. ~Pending(p) /\ store'[p] = store[p] /\ queue' = queue
      BY <2>1, QuietProject, ItemCases DEF Return
    <3>2. p # cur
      BY <1>0, <1>10, <2>1, <3>1 DEF Finalize, WorkerFresh, BranchTaken, Live
    <3> QED
      BY <1>2, <2>1, <3>1, <3>2, ItemCases
  <2> QED
    BY <1>0, <1>3, <1>10, <2>1, FinalizeWrites, ItemCases
<1>11. ASSUME NEW s \in Streams, Deliver(s)
       PROVE  Goal
  <2>1. store' = store /\ cur' = cur
    BY <1>11 DEF Deliver, Observe, workVars
  <2>2. /\ p \notin queue /\ ~Pending(p)
        /\ ListsOf(store[p], cache') = ListsOf(store[p], cache)
    BY <1>11, <2>1, QuietDelivery
  <2>3. store[p].used = CurrentUsage(store[p], cache)
    BY <1>0, <2>1, <2>2 DEF CacheRecorded
  <2> QED
    BY <2>1, <2>2, <2>3 DEF CurrentUsage
<1>12. CASE TransientError
  BY <1>3, <1>12 DEF TransientError
<1>13. CASE Restart
  BY <1>13 DEF Restart, Resync, StartQueue, Live
<1> QED
  BY <1>4, <1>5, <1>6, <1>7, <1>8, <1>9, <1>10, <1>11, <1>12, <1>13
  DEF AnyStep, ReconcilerNext, WorkerStep

-----------------------------------------------------------------------------
(* Hard limits and requests in flight *)

\* The answer of the validating webhook to r still stands for project p: p owed no
\* reconcile then, and neither p nor another object in its namespaces was or has
\* become different from what the webhook saw.
StandsFor(r, p) ==
    /\ r.settled /\ p \notin r.missed
    /\ \A x \in r.missed \ Projects : ~Claims(store[p], NamespaceOf[x])

\* Persisting r would make a charge of resource s on project p that the validating
\* webhook compares with the limit.
WouldCharge(r, p, s) ==
    /\ r.val # Absent /\ r.val.anno = p /\ Amount(r.item, r.val.shape, s) > 0
    /\ \/ store[r.item] = Absent
       \/ store[r.item].anno = p /\ Amount(r.item, store[r.item].shape, s) = 0
       \/ KindOf[r.item] = "services" /\ (s = "services" \/ r.val.shape # store[r.item].shape)

\* An accepted request whose answer stands would keep its project under its limits.
RequestsFit ==
    \A r \in requests : \A p \in Projects : \A s \in Resources :
        /\ r.item \in Objects /\ r.stage = "validated" /\ StandsFor(r, p)
        /\ Live(store[p]) /\ WouldCharge(r, p, s)
        => CurrentUsage(store[p], [store EXCEPT ![r.item] = r.val])[s]
           <= Limit(store[p].hard, s)

\* Only a service changes its shape in a request.
ShapesKept ==
    \A r \in requests :
        /\ r.item \in Objects /\ store[r.item] # Absent /\ KindOf[r.item] # "services"
        => r.val.shape = store[r.item].shape

\* Requests for anything but a service keep the shape of what they update.
LEMMA ShapesKeptStep ==
    ASSUME IInv, RequestsType, ShapesKept, [AdmissionNext]_admissionVars
    PROVE  ShapesKept'
<1>0. ApiTypeOK
  BY DEF IInv, TypeOK
<1>1. CASE UNCHANGED admissionVars
  BY <1>1 DEF admissionVars, vars, apiVars, ShapesKept
<1>2. ASSUME NEW o \in Objects, SubmitObject(o)
      PROVE  ShapesKept'
  <2>1. store[o] # Absent => store[o] \in Object(o)
    BY <1>0, ViewType, ItemCases
  <2>2. PICK shape \in IF store[o] = Absent THEN NewShapes(o) ELSE UpdatedShapes(o),
             anno \in UserAnnotations \union {IF store[o] = Absent THEN None ELSE store[o].anno} :
          \E v \in Mutations(cache, o, [anno |-> anno, shape |-> shape]) : Open(o, v)
    BY <1>2 DEF SubmitObject
  <2>3. PICK given : given = [anno |-> anno, shape |-> shape]
    OBVIOUS
  <2>4. given \in Object(o) /\ given.shape = shape
    <3>1. shape \in Shapes(KindOf[o])
      BY <2>1, <2>2 DEF NewShapes, UpdatedShapes, Object, ObjectOver
    <3>2. anno \in Projects \union {None}
      BY <2>1, <2>2, AdmissionAssumption DEF Object, ObjectOver
    <3> QED
      BY <2>3, <3>1, <3>2 DEF Object, ObjectOver
  <2>5. PICK v \in Mutations(cache, o, given) : Open(o, v)
    BY <2>2, <2>3
  <2>6. v.shape = shape
    BY <2>4, <2>5, MutationsShape
  <2>7. store[o] # Absent /\ KindOf[o] # "services" => v.shape = store[o].shape
    BY <2>2, <2>6 DEF UpdatedShapes
  <2>8. store' = store /\ \A r \in requests' : r \in requests \/ (r.item = o /\ r.val = v)
    BY <2>5 DEF Open, vars, apiVars
  <2> QED
    BY <2>7, <2>8 DEF ShapesKept
<1>3. ASSUME NEW p \in Projects, SubmitProject(p)
      PROVE  ShapesKept'
  BY <1>0, <1>3, SubmitProjectOpens, ItemCases DEF Open, vars, apiVars, ShapesKept
<1>4. ASSUME NEW r \in requests, Validate(r)
      PROVE  ShapesKept'
  <2>1. store' = store
    BY <1>4 DEF Validate, vars, apiVars
  <2>2. ASSUME NEW s \in requests'
        PROVE  \E t \in requests : s.item = t.item /\ s.val = t.val
    BY <1>4, ValidateLeaves
  <2> QED
    BY <2>1, <2>2 DEF ShapesKept
<1>5. ASSUME NEW inflight, inflight \subseteq requests, requests' = Continue(inflight)
      PROVE  ShapesKept'
  <2>1. ASSUME NEW s \in requests'
        PROVE  \E t \in requests : s.item = t.item /\ s.val = t.val
                                   /\ store'[s.item] = store[s.item]
    BY <1>5, ContinueFields DEF RequestsType
  <2> QED
    BY <2>1 DEF ShapesKept
<1> QED
  BY <1>1, <1>2, <1>3, <1>4, <1>5, StepCases DEF PersistRequest

\* What a project uses depends, of the objects, on those in its namespaces.
LEMMA UsageOfClaimed ==
    ASSUME NEW prq, prq # Absent, NEW before, NEW after,
           \A o \in Objects : Claims(prq, NamespaceOf[o]) => after[o] = before[o]
    PROVE  CurrentUsage(prq, after) = CurrentUsage(prq, before)
<1>1. ListsOf(prq, after) = ListsOf(prq, before)
  BY ListsDepend DEF Claims
<1> QED
  BY <1>1, UsageDepends

\* A new charge adds to what its project uses the amount of its object, no more.
LEMMA ChargeUsage ==
    ASSUME NEW p \in Projects, NEW prq \in Prq(p), NoRepeats,
           NEW before, NEW after, NEW o \in Objects, NEW s \in Resources,
           \A x \in Objects : x # o => after[x] = before[x],
           CurrentUsage(prq, before)[s] + Amount(o, after[o].shape, s) <= Limit(prq.hard, s)
    PROVE  CurrentUsage(prq, after)[s] <= Limit(prq.hard, s)
<1> DEFINE m == Amount(o, after[o].shape, s)
           C == Cardinality(HeldUnits(prq, after, s))
           B == Cardinality(HeldUnits(prq, before, s))
<1>1. prq # Absent /\ \A i, j \in DOMAIN prq.namespaces :
                          prq.namespaces[i] = prq.namespaces[j] => i = j
  BY AbsentAssumption DEF Prq, PrqOver, NoRepeats
<1>2. Limit(prq.hard, s) \in Int
  BY LimitType
<1>3. m \in Nat
  BY AmountType, QuantityAssumption
<1>4. C \in Nat /\ B \in Nat
  BY HeldFinite, FS_CardinalityType
<1>5. C <= B + m
  BY ChargeAdds
<1>6. CASE s \in DOMAIN prq.hard /\ Counts(prq.hard, Gate(s))
  <2>1. Cardinality(Charges(ListsOf(prq, after), s)) = C
        /\ Cardinality(Charges(ListsOf(prq, before), s)) = B
    BY <1>1, <1>6, ChargesHeld
  <2>2. CurrentUsage(prq, after)[s] = C /\ CurrentUsage(prq, before)[s] = B
    BY <1>6, <2>1 DEF CurrentUsage, UsedBy
  <2> HIDE DEF m, C, B
  <2>3. B + m <= Limit(prq.hard, s)
    BY <2>2 DEF m
  <2> QED
    BY <1>2, <1>3, <1>4, <1>5, <2>2, <2>3
<1>7. CASE ~(s \in DOMAIN prq.hard /\ Counts(prq.hard, Gate(s)))
  <2>1. CurrentUsage(prq, after)[s] = 0 /\ CurrentUsage(prq, before)[s] = 0
    BY <1>7 DEF CurrentUsage, UsedBy
  <2> HIDE DEF m
  <2>2. 0 + m <= Limit(prq.hard, s)
    BY <2>1 DEF m
  <2> QED
    BY <1>2, <1>3, <2>1, <2>2
<1> QED
  BY <1>6, <1>7

\* The validators compare what a request adds with what the cache holds, which is what
\* is stored wherever their answer stands.
LEMMA AnswerFits ==
    ASSUME ~FailOpen, NoRepeats, IInv, CacheRecorded, RequestsType, ShapesKept,
           NEW r \in requests, r.item \in Objects, Valid(r),
           NEW p \in Projects, NEW s \in Resources, Live(store[p]), WouldCharge(r, p, s),
           p \notin queue, p # cur, p \notin Undelivered \intersect Reads(r.item),
           \A x \in (Undelivered \intersect Reads(r.item)) \ Projects :
               ~Claims(store[p], NamespaceOf[x])
    PROVE  CurrentUsage(store[p], [store EXCEPT ![r.item] = r.val])[s]
           <= Limit(store[p].hard, s)
<1>0. /\ ApiTypeOK /\ CacheCoherent /\ DOMAIN store = Items
      /\ store[p] \in Prq(p) /\ store[p] # Absent
  BY ViewType, ItemCases DEF IInv, TypeOK, ApiTypeOK, View, Live
<1>1. PICK o \in Objects : o = r.item
  OBVIOUS
<1>2. PICK v : v = r.val
  OBVIOUS
<1>3. /\ v \in Object(o) /\ v # Absent /\ v.anno = p /\ Amount(o, v.shape, s) > 0
      /\ IsAnnotationExists(v)
      /\ store[o] # Absent => store[o] \in Object(o)
  <2>1. r.val \in ValuesOf(r.item)
    BY RequestFields DEF RequestsType
  <2> QED
    BY <1>0, <1>1, <1>2, <2>1, ViewType, ItemCases, ItemsAssumption DEF WouldCharge, IsAnnotationExists
<1>4. ~Pending(p) /\ cache[p] = store[p]
  <2>1. p \in Items /\ p \in Reads(o)
    BY <1>1, ItemCases DEF Reads
  <2> QED
    BY <1>0, <1>1, <2>1 DEF Undelivered, CacheCoherent
<1>5. store[p].used = CurrentUsage(store[p], cache)
  BY <1>4 DEF CacheRecorded
<1>6. store[p].used[s] + Amount(o, v.shape, s) <= Limit(store[p].hard, s)
  <2>1. CASE store[o] = Absent
    <3>1. QuotaAdmits(store[p], o, v)
      BY <1>1, <1>2, <1>3, <1>4, <2>1, ItemCases DEF Valid, Passes, ValidateCreate
    <3> QED
      BY <1>0, <1>3, <3>1, AdmitsFits
  <2>2. CASE store[o] # Absent
    <3>1. ASSUME store[o].anno = p, Amount(o, store[o].shape, s) = 0
          PROVE  KindOf[o] = "services" /\ v.shape # store[o].shape
      <4>1. v.shape # store[o].shape
        BY <1>3, <3>1
      <4> QED
        BY <1>1, <1>2, <2>2, <4>1 DEF ShapesKept
    <3>2. KindOf[o] = "services" /\ (s = "services" \/ v.shape # store[o].shape)
      BY <1>1, <1>2, <2>2, <3>1 DEF WouldCharge
    <3>3. ValidateUpdate(cache, o, store[o], v)
      BY <1>1, <1>2, <2>2, ItemCases DEF Valid, Passes
    <3>4. /\ validateService(store[p])
          /\ s = "services" \/ validateServicePort(store[p], v.shape)
      BY <1>3, <1>4, <3>2, <3>3 DEF ValidateUpdate, ServiceValidateUpdate
    <3> QED
      BY <1>0, <1>3, <3>2, <3>4, ServiceUpdateFits
  <2> QED
    BY <2>1, <2>2
<1>7. PICK view : view = [x \in Objects |-> IF x = o THEN v ELSE cache[x]]
  OBVIOUS
<1>8. CurrentUsage(store[p], view)[s] <= Limit(store[p].hard, s)
  BY <1>0, <1>5, <1>6, <1>7, ChargeUsage
<1>9. PICK after : after = [store EXCEPT ![o] = v]
  OBVIOUS
<1>10. \A x \in Objects : Claims(store[p], NamespaceOf[x]) => after[x] = view[x]
  <2>1. \A x \in Objects : x # o /\ Claims(store[p], NamespaceOf[x]) => ~Pending(x)
    BY <1>1, ItemCases DEF Undelivered, Reads
  <2> QED
    BY <1>0, <1>7, <1>9, <2>1, ItemCases DEF CacheCoherent
<1>11. CurrentUsage(store[p], after) = CurrentUsage(store[p], view)
  BY <1>0, <1>10, UsageOfClaimed
<1> QED
  BY <1>1, <1>2, <1>8, <1>9, <1>11

\* RequestsFit survives every step.
LEMMA RequestsFitStep ==
    ASSUME ~FailOpen, NoRepeats, IInv, CacheRecorded, RequestsType, ShapesKept, RequestsFit,
           [AdmissionNext]_admissionVars
    PROVE  RequestsFit'
<1>1. CASE UNCHANGED admissionVars
  BY <1>1 DEF admissionVars, vars, apiVars, RequestsFit, StandsFor, WouldCharge
<1>2. ASSUME NEW x, NEW v, Open(x, v)
      PROVE  RequestsFit'
  BY <1>2 DEF Open, vars, apiVars, RequestsFit, StandsFor, WouldCharge
<1>3. ASSUME NEW r \in requests, Validate(r)
      PROVE  RequestsFit'
  <2>1. store' = store
    BY <1>3 DEF Validate, vars, apiVars
  <2> SUFFICES ASSUME NEW q \in requests', NEW p \in Projects, NEW s \in Resources,
                      q.item \in Objects, q.stage = "validated", StandsFor(q, p),
                      Live(store[p]), WouldCharge(q, p, s)
               PROVE  CurrentUsage(store[p], [store EXCEPT ![q.item] = q.val])[s]
                      <= Limit(store[p].hard, s)
    BY <2>1 DEF RequestsFit, StandsFor, WouldCharge
  <2>2. CASE q \in requests
    BY <2>2 DEF RequestsFit
  <2>3. CASE /\ q \in Request /\ Valid(r)
             /\ q.item = r.item /\ q.val = r.val /\ q.unseen = r.unseen
             /\ q.missed = Undelivered \intersect Reads(r.item)
             /\ q.settled => r.val.anno \notin queue \union {cur, None}
    <3>1. WouldCharge(r, p, s) /\ r.val.anno = p /\ r.item \in Objects
      BY <2>3 DEF WouldCharge
    <3>2. /\ p \notin queue /\ p # cur /\ p \notin Undelivered \intersect Reads(r.item)
          /\ \A x \in (Undelivered \intersect Reads(r.item)) \ Projects :
                 ~Claims(store[p], NamespaceOf[x])
      BY <2>3, <3>1 DEF StandsFor
    <3> QED
      BY <2>3, <3>1, <3>2, AnswerFits
  <2> QED
    BY <1>3, <2>2, <2>3, ValidateLeaves
<1>4. ASSUME NEW inflight, inflight \subseteq requests, requests' = Continue(inflight)
      PROVE  RequestsFit'
  <2> SUFFICES ASSUME NEW q \in requests', NEW p \in Projects, NEW s \in Resources,
                      q.item \in Objects, q.stage = "validated", StandsFor(q, p)',
                      Live(store'[p]), WouldCharge(q, p, s)'
               PROVE  CurrentUsage(store'[p], [store' EXCEPT ![q.item] = q.val])[s]
                      <= Limit(store'[p].hard, s)
    BY DEF RequestsFit
  <2>1. PICK t \in inflight :
          /\ q.item = t.item /\ q.val = t.val /\ q.stage = t.stage /\ q.settled = t.settled
          /\ store'[q.item] = store[q.item]
          /\ t.missed \subseteq q.missed
          /\ \A x \in Reads(q.item) : store'[x] # store[x] => x \in q.missed
    BY <1>4, ContinueFields DEF RequestsType
  <2>2. store'[p] = store[p]
    <3>1. p \in Reads(q.item)
      BY ItemCases DEF Reads
    <3> QED
      BY <2>1, <3>1 DEF StandsFor
  <2>3. \A x \in Objects : Claims(store[p], NamespaceOf[x]) => store'[x] = store[x]
    <3>1. \A x \in Objects : x # q.item => x \in Reads(q.item) /\ x \notin Projects
      BY ItemCases DEF Reads
    <3> QED
      BY <2>1, <2>2, <3>1 DEF StandsFor
  <2>4. StandsFor(t, p) /\ WouldCharge(t, p, s)
    BY <2>1, <2>2 DEF StandsFor, WouldCharge
  <2>5. CurrentUsage(store[p], [store EXCEPT ![t.item] = t.val])[s] <= Limit(store[p].hard, s)
    BY <1>4, <2>1, <2>2, <2>4 DEF RequestsFit
  <2>6. PICK before, after : /\ before = [store EXCEPT ![t.item] = t.val]
                             /\ after = [store' EXCEPT ![q.item] = q.val]
    OBVIOUS
  <2>7. \A x \in Objects : Claims(store[p], NamespaceOf[x]) => after[x] = before[x]
    <3>1. DOMAIN store = Items /\ DOMAIN store' = Items
      BY InvariantAdmission DEF IInv, TypeOK, ApiTypeOK, View
    <3> QED
      BY <2>1, <2>3, <2>6, <3>1, ItemCases
  <2>8. CurrentUsage(store[p], after) = CurrentUsage(store[p], before)
    BY <2>2, <2>7, UsageOfClaimed DEF Live
  <2> QED
    BY <2>2, <2>5, <2>6, <2>8
<1> QED
  BY <1>1, <1>2, <1>3, <1>4, StepCases DEF SubmitObject, SubmitProject, PersistRequest

\* Persisting a request whose answer stands makes the charge it would, unless it adopts
\* its object unchecked.
LEMMA PersistedFits ==
    ASSUME IInv, RequestsType, RequestsFit, [AdmissionNext]_admissionVars,
           NEW r \in requests, NEW p \in Projects, NEW s \in Resources,
           r.item \in Objects, Persists(r), Live(store[p]), NewCharge(r.item, p, s),
           ~AdoptedUnchecked(r.item, p, s), StandsFor(r, p)
    PROVE  CurrentUsage(store[p], store')[s] <= Limit(store[p].hard, s)
<1>0. DOMAIN store = Items /\ r.item \in Items
  BY ItemCases DEF IInv, TypeOK, ApiTypeOK, View
<1>1. store'[r.item] # store[r.item] /\ store'[r.item] = r.val
  BY DEF Persists
<1>2. \E x \in Items : \E v \in ValuesOf(x) : Write(x, v)
  BY <1>1, AdmissionAnyStep, ApiStep DEF apiVars, Observe, Resync
<1>3. store' = [store EXCEPT ![r.item] = r.val]
  BY <1>0, <1>1, <1>2 DEF Write
<1>4. WouldCharge(r, p, s)
  BY <1>1 DEF WouldCharge, NewCharge, AdoptedUnchecked
<1>5. CurrentUsage(store[p], [store EXCEPT ![r.item] = r.val])[s] <= Limit(store[p].hard, s)
  BY <1>4 DEF RequestsFit, Persists
<1> QED
  BY <1>3, <1>5

\* The validators of objects, reached: with any number of requests in flight, and
\* objects that demand whatever they do, a request takes its project over a limit only
\* where the project was due a reconcile when the webhook answered, or it or another of
\* its objects was not as the webhook saw it, or where it is an update that adopts an
\* object unchecked.
THEOREM OvershootRacedOrAdopted ==
    ~FailOpen /\ NoRepeats /\ AdmissionSpec /\ []NamesAgree => OvershootOnlyRacedOrAdopted
<1> DEFINE Step == \A r \in requests, p \in Projects, s \in Resources :
          /\ r.item \in Objects /\ Persists(r)
          /\ Live(store[p]) /\ NewCharge(r.item, p, s)
          /\ r.settled /\ p \notin r.missed
          /\ \A o \in r.missed \ Projects : ~Claims(store[p], NamespaceOf[o])
          => \/ CurrentUsage(store[p], store')[s] <= Limit(store[p].hard, s)
             \/ AdoptedUnchecked(r.item, p, s)
           Kept == CacheInv /\ ShapesKept /\ RequestsFit
<1>1. AdmissionInit => Kept
  BY ItemCases DEF AdmissionInit, Init, ApiInit, ReconcilerInit, CacheInv, CacheRecorded, CacheListed,
     BranchTaken, ShapesKept, RequestsFit, Live
<1>2. /\ ~FailOpen /\ NoRepeats /\ AdmissionInv /\ Kept /\ NamesAgree /\ NamesAgree'
      /\ [AdmissionNext]_admissionVars
      => Kept'
  BY AdmissionAnyStep, CacheRecordedStep, CacheListedStep, BranchStep, ShapesKeptStep, RequestsFitStep
  DEF AdmissionInv, CacheInv
<1>3. AdmissionInv /\ Kept /\ [AdmissionNext]_admissionVars => Step
  BY PersistedFits DEF AdmissionInv, StandsFor
<1>4. ~FailOpen /\ NoRepeats => [](~FailOpen /\ NoRepeats)
  BY DEF NoRepeats
<1> QED
  BY <1>1, <1>2, <1>3, <1>4, AdmissionInvariant, PTL DEF AdmissionSpec, OvershootOnlyRacedOrAdopted

================================================================================
