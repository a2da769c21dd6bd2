-------------------------- MODULE ProjectQuota_proofs --------------------------
(***************************************************************************)
(* Theorems about ProjectQuota, for any projects, objects, namespaces,     *)
(* limits and bounds.                                                      *)
(***************************************************************************)
EXTENDS ProjectQuota, FiniteSetTheorems, SequenceTheorems, TLAPS

-----------------------------------------------------------------------------
(* The types of the operators *)

\* The values of one item are among those of all items.
LEMMA ValuesInValue ==
    ASSUME NEW x \in Items
    PROVE  ValuesOf(x) \subseteq Value
<1>1. CASE x \in Projects
  <2>1. NamespaceLists[x] \subseteq UNION Range(NamespaceLists)
    BY <1>1, ItemsAssumption DEF Range
  <2>2. Prq(x) \subseteq PrqOver(UNION Range(NamespaceLists))
    BY <2>1 DEF Prq, PrqOver
  <2> QED
    BY <1>1, <2>2 DEF ValuesOf, Value
<1>2. CASE x \notin Projects
  <2>1. x \in Objects /\ KindOf[x] \in Range(KindOrder)
    BY <1>2, KindsAssumption DEF Items
  <2>2. Shapes(KindOf[x]) \subseteq UNION {Shapes(k) : k \in Range(KindOrder)}
    BY <2>1
  <2>3. Object(x) \subseteq ObjectOver(UNION {Shapes(k) : k \in Range(KindOrder)})
    BY <2>2 DEF Object, ObjectOver
  <2> QED
    BY <1>2, <2>3 DEF ValuesOf, Value
<1> QED
  BY <1>1, <1>2

\* Every item's changes go to one of the informers' streams.
LEMMA ItemStreams ==
    ASSUME NEW x \in Items
    PROVE  StreamOf(x) \in Streams
BY KindsAssumption DEF Items, StreamOf, Streams

\* Projects and objects are distinct items, each with its own values.
LEMMA ItemCases ==
    /\ \A p \in Projects : p \in Items /\ p \notin Objects /\ ValuesOf(p) = {Absent} \union Prq(p)
    /\ \A o \in Objects : o \in Items /\ o \notin Projects /\ ValuesOf(o) = {Absent} \union Object(o)
BY ItemsAssumption DEF Items, ValuesOf

\* An event of x that carries one of its values belongs to the stream of x.
LEMMA EventType ==
    ASSUME NEW x \in Items, NEW v \in ValuesOf(x)
    PROVE  [item |-> x, val |-> v] \in EventsOf(StreamOf(x))
BY ValuesInValue DEF EventsOf

\* A total is a natural number: a reconcile lists finitely many objects.
LEMMA UsedByType ==
    ASSUME NEW hard, NEW counted, IsFiniteSet(DOMAIN counted)
    PROVE  UsedBy(hard, counted) \in [Resources -> Nat]
<1>1. ASSUME NEW r \in Resources
      PROVE  Cardinality(Charges(counted, r)) \in Nat
  <2>1. IsFiniteSet(Units)
    BY FS_Interval, QuantityAssumption DEF Units
  <2>2. IsFiniteSet(Objects \X Units)
    BY <2>1, FS_Product, ItemsAssumption
  <2>3. IsFiniteSet((DOMAIN counted) \X (Objects \X Units))
    BY <2>2, FS_Product
  <2>4. Charges(counted, r) \in SUBSET ((DOMAIN counted) \X (Objects \X Units))
    BY DEF Charges
  <2> QED
    BY <2>3, <2>4, FS_Subset, FS_CardinalityType
<1> QED
  BY <1>1 DEF UsedBy

\* The annotators return a value of the object they were given.
LEMMA MutationsType ==
    ASSUME NEW view, NEW o \in Objects, NEW v \in Object(o)
    PROVE  Mutations(view, o, v) \subseteq Object(o)
BY DEF Mutations, Default, AddAnnotation, Object, ObjectOver, Claimants

\* RemoveAnnotation returns a value of the object it was given.
LEMMA RemoveAnnotationType ==
    ASSUME NEW o \in Objects, NEW v \in Object(o)
    PROVE  RemoveAnnotation(v) \in Object(o)
BY DEF RemoveAnnotation, Object, ObjectOver

\* The webhook's Default returns a value of the project it was given.
LEMMA PrqDefaultType ==
    ASSUME NEW p \in Projects, NEW v \in Prq(p)
    PROVE  PrqDefault(v) \in Prq(p)
BY DEF PrqDefault, AddFinalizer, Prq, PrqOver

\* A new project is a value of the project.
LEMMA NewPrqType ==
    ASSUME NEW p \in Projects, NEW namespaces \in NamespaceLists[p], NEW hard \in Hards
    PROVE  NewPrq(namespaces, hard) \in Prq(p)
BY DEF NewPrq, Prq, PrqOver, NoUsage

\* RemoveFinalizer returns a value of the project it was given.
LEMMA RemoveFinalizerType ==
    ASSUME NEW p \in Projects, NEW v \in Prq(p)
    PROVE  RemoveFinalizer(v) \in Prq(p)
BY DEF RemoveFinalizer, Prq, PrqOver

-----------------------------------------------------------------------------
(* The API server's part of TypeOK *)

\* Persisting one of its values as an item keeps the API server's types.
LEMMA WriteType ==
    ASSUME ApiTypeOK, NEW x \in Items, NEW v \in ValuesOf(x), Write(x, v)
    PROVE  ApiTypeOK'
<1>1. store' \in View
  BY ValuesInValue DEF ApiTypeOK, Write, View
<1>2. cache' \in View
  BY DEF ApiTypeOK, Write, View, Value, ValuesOf
<1>3. DOMAIN watch' = Streams
  BY DEF ApiTypeOK, Write
<1>4. ASSUME NEW s \in Streams
      PROVE  watch'[s] \in Seq(EventsOf(s))
  BY EventType, ItemStreams DEF ApiTypeOK, Write
<1> QED
  BY <1>1, <1>2, <1>3, <1>4 DEF ApiTypeOK, EventsOf, View, Value, ValuesOf

\* The next event of a stream carries a value of its item.
LEMMA HeadType ==
    ASSUME ApiTypeOK, NEW s \in Streams, watch[s] # <<>>
    PROVE  /\ Head(watch[s]).item \in Items
           /\ StreamOf(Head(watch[s]).item) = s
           /\ Head(watch[s]).val \in ValuesOf(Head(watch[s]).item)
           /\ Tail(watch[s]) \in Seq(EventsOf(s))
<1>1. watch[s] \in Seq(EventsOf(s))
  BY DEF ApiTypeOK
<1>2. Head(watch[s]) \in EventsOf(s) /\ Tail(watch[s]) \in Seq(EventsOf(s))
  BY <1>1, HeadTailProperties
<1> QED
  BY <1>2 DEF EventsOf

\* An informer taking an event keeps the API server's types.
LEMMA ObserveType ==
    ASSUME ApiTypeOK, NEW s \in Streams, Observe(s)
    PROVE  ApiTypeOK'
<1>1. store' \in View
  BY DEF ApiTypeOK, Observe, View, Value, ValuesOf
<1>2. cache' \in View
  BY HeadType, ValuesInValue DEF ApiTypeOK, Observe, View
<1>3. DOMAIN watch' = Streams
  BY DEF ApiTypeOK, Observe
<1>4. ASSUME NEW t \in Streams
      PROVE  watch'[t] \in Seq(EventsOf(t))
  BY HeadType DEF ApiTypeOK, Observe
<1> QED
  BY <1>1, <1>2, <1>3, <1>4 DEF ApiTypeOK, EventsOf, View, Value, ValuesOf

\* So does a fresh list of everything.
LEMMA ResyncType ==
    ASSUME ApiTypeOK, Resync
    PROVE  ApiTypeOK'
BY DEF ApiTypeOK, Resync

\* So does leaving the API server alone.
LEMMA ApiUnchanged ==
    ASSUME ApiTypeOK, UNCHANGED apiVars
    PROVE  ApiTypeOK'
BY DEF ApiTypeOK, apiVars

\* What is stored or cached as an item is one of its values.
LEMMA ViewType ==
    ASSUME ApiTypeOK, NEW x \in Items
    PROVE  store[x] \in ValuesOf(x) /\ cache[x] \in ValuesOf(x)
BY DEF ApiTypeOK, View

-----------------------------------------------------------------------------
(* The reconciler's part of TypeOK *)

\* The worker at rest has its types.
LEMMA IdleType ==
    ASSUME Idle, queue' \subseteq Projects, faults' \in 0 .. MaxFaults
    PROVE  ReconcilerTypeOK'
<1>1. 1 \in DOMAIN KindOrder
  BY KindsAssumption, EmptySeq, LenProperties
<1> QED
  BY <1>1 DEF Idle, ReconcilerTypeOK, Stages

\* The names that findObjects enqueues are those of projects.
LEMMA FindObjectsType ==
    ASSUME NEW o \in Objects, NEW old \in ValuesOf(o), NEW new \in ValuesOf(o)
    PROVE  findObjects(old, new) \subseteq Projects
BY ItemCases DEF findObjects, IsAnnotationExists, Object, ObjectOver

\* A request of a user changes nothing of the reconciler but stale.
LEMMA PersistType ==
    ASSUME ReconcilerTypeOK, NEW x \in Items, NEW v, Persist(x, v)
    PROVE  ReconcilerTypeOK'
BY DEF Persist, ReconcilerTypeOK, workVars

\* A reconcile that ends with an error keeps the types.
LEMMA ReturnErrorType ==
    ASSUME ReconcilerTypeOK, pc # "idle", ReturnError, faults' \in 0 .. MaxFaults
    PROVE  ReconcilerTypeOK'
<1>1. queue' \subseteq Projects
  BY DEF ReconcilerTypeOK, ReturnError
<1>2. Idle
  BY DEF ReturnError
<1> QED
  BY <1>1, <1>2, IdleType

\* So does one that ends without.
LEMMA ReturnType ==
    ASSUME ReconcilerTypeOK, Return, faults' \in 0 .. MaxFaults
    PROVE  ReconcilerTypeOK'
<1>1. queue' \subseteq Projects
  BY DEF ReconcilerTypeOK, Return
<1>2. Idle
  BY DEF Return
<1> QED
  BY <1>1, <1>2, IdleType

\* Advance stays in the grid.
LEMMA AdvanceType ==
    ASSUME ReconcilerTypeOK, NEW at \in Nat \ {0}, Advance(at)
    PROVE  row' \in Nat \ {0} /\ col' \in DOMAIN KindOrder
<1>1. DOMAIN KindOrder = 1 .. Len(KindOrder) /\ Len(KindOrder) \in Nat /\ Len(KindOrder) # 0
  BY KindsAssumption, EmptySeq, LenProperties
<1> QED
  BY <1>1 DEF ReconcilerTypeOK, Advance

\* The empty cluster and the idle controller have the types of TypeOK.
THEOREM TypeInit == Init => TypeOK
<1> SUFFICES ASSUME Init PROVE TypeOK
  OBVIOUS
<1>1. ApiTypeOK
  BY ItemCases DEF Init, ApiInit, ApiTypeOK, View, Value, ValuesOf
<1>2. 1 \in DOMAIN KindOrder
  BY KindsAssumption, EmptySeq, LenProperties
<1>3. ReconcilerTypeOK
  BY <1>2, MaxFaultsAssumption DEF Init, ReconcilerInit, ReconcilerTypeOK, Stages
<1> QED
  BY <1>1, <1>3 DEF TypeOK

\* A request of a user persists one value of one item, whatever the webhooks read.
LEMMA UserWrites ==
    ASSUME TypeOK, NEW view, UserRequest(view)
    PROVE  \E x \in Items : \E v \in ValuesOf(x) : Persist(x, v)
<1> DEFINE Goal == \E x \in Items : \E v \in ValuesOf(x) : Persist(x, v)
<1>0. ApiTypeOK
  BY DEF TypeOK
<1>1. ASSUME NEW o \in Objects, CreateObject(view, o)
      PROVE  Goal
  <2>1. PICK shape \in NewShapes(o) :
          \E v \in Mutations(view, o, [anno |-> None, shape |-> shape]) : Persist(o, v)
    BY <1>1 DEF CreateObject
  <2>2. [anno |-> None, shape |-> shape] \in Object(o)
    BY DEF NewShapes, Object, ObjectOver
  <2> QED
    BY <2>1, <2>2, <1>0, MutationsType, ItemCases
<1>2. ASSUME NEW o \in Objects, UpdateObject(view, o)
      PROVE  Goal
  <2>1. store[o] \in Object(o)
    BY <1>0, <1>2, ViewType, ItemCases DEF UpdateObject
  <2>2. PICK shape \in UpdatedShapes(o) :
          \E v \in Mutations(view, o, [store[o] EXCEPT !.shape = shape]) : Persist(o, v)
    BY <1>2 DEF UpdateObject
  <2>3. [store[o] EXCEPT !.shape = shape] \in Object(o)
    BY <2>1 DEF UpdatedShapes, Object, ObjectOver
  <2> QED
    BY <2>2, <2>3, <1>0, MutationsType, ItemCases
<1>3. ASSUME NEW o \in Objects, PodTerminates(o)
      PROVE  Goal
  <2>1. store[o] \in Object(o)
    BY <1>0, <1>3, ViewType, ItemCases DEF PodTerminates
  <2>2. [store[o] EXCEPT !.shape = "Terminated"] \in Object(o)
    BY <1>3, <2>1 DEF PodTerminates, Object, ObjectOver, Shapes
  <2> QED
    BY <1>3, <2>2, <1>0, ItemCases DEF PodTerminates
<1>4. ASSUME NEW o \in Objects, DeleteObject(o)
      PROVE  Goal
  BY <1>4, <1>0, ItemCases DEF DeleteObject
<1>5. ASSUME NEW p \in Projects, CreateProject(view, p)
      PROVE  Goal
  <2>1. PICK namespaces \in NamespaceLists[p], hard \in Hards :
          Persist(p, PrqDefault(NewPrq(namespaces, hard)))
    BY <1>5 DEF CreateProject
  <2> QED
    BY <2>1, <1>0, NewPrqType, PrqDefaultType, ItemCases
<1>6. ASSUME NEW p \in Projects, UpdateProject(view, p)
      PROVE  Goal
  <2>1. store[p] \in Prq(p)
    BY <1>0, <1>6, ViewType, ItemCases DEF UpdateProject
  <2>2. PICK namespaces \in NamespaceLists[p], hard \in Hards :
          Persist(p, PrqDefault([store[p] EXCEPT !.namespaces = namespaces, !.hard = hard]))
    BY <1>6 DEF UpdateProject
  <2>3. [store[p] EXCEPT !.namespaces = namespaces, !.hard = hard] \in Prq(p)
    BY <2>1 DEF Prq, PrqOver
  <2> QED
    BY <2>2, <2>3, <1>0, PrqDefaultType, ItemCases
<1>7. ASSUME NEW p \in Projects, DeleteProject(p)
      PROVE  Goal
  <2>1. store[p] \in Prq(p)
    BY <1>0, <1>7, ViewType, ItemCases DEF DeleteProject, Live
  <2>2. [store[p] EXCEPT !.deleting = TRUE] \in Prq(p)
    BY <2>1 DEF Prq, PrqOver
  <2> QED
    BY <1>7, <2>2, <1>0, ItemCases DEF DeleteProject
<1> QED
  BY <1>1, <1>2, <1>3, <1>4, <1>5, <1>6, <1>7 DEF UserRequest

\* A step of the operator, whatever the webhooks read and whatever they answer users.
AnyStep ==
    \/ UNCHANGED vars
    \/ \E x \in Items : \E v \in ValuesOf(x) : Persist(x, v)
    \/ \E view : Finalize(view) \/ \E o \in Objects : RemoveUpdate(view, o)
    \/ ReconcilerNext

\* A step in which the webhooks of users' and of the worker's requests read view.
StepBy(view) ==
    \/ UNCHANGED vars
    \/ UserRequest(view)
    \/ Finalize(view) \/ \E o \in Objects : RemoveUpdate(view, o)
    \/ ReconcilerNext

\* Such a step is one of them.
LEMMA StepByIsAnyStep ==
    ASSUME TypeOK, NEW view, StepBy(view)
    PROVE  AnyStep
BY UserWrites DEF AnyStep, StepBy

\* In ProjectQuota the webhooks read the manager's cache.
LEMMA NextIsStepBy ==
    ASSUME [Next]_vars
    PROVE  StepBy(cache)
BY DEF StepBy, Next, UserNext

\* Hence its steps are steps of that kind.
LEMMA NextIsAnyStep ==
    ASSUME TypeOK, [Next]_vars
    PROVE  AnyStep
BY UserWrites DEF AnyStep, Next, UserNext

\* The worker's own writes, and what it otherwise leaves alone.
LEMMA RemoveUpdateWrites ==
    ASSUME TypeOK, WorkerFresh, NEW view, NEW o \in Objects, RemoveUpdate(view, o)
    PROVE  \/ ReturnError /\ UNCHANGED <<apiVars, faults>>
           \/ /\ \E v \in Object(o) : Write(o, v)
              /\ o \notin stale /\ batch' = batch \ {o}
              /\ UNCHANGED <<queue, pc, cur, snap, row, col, lists, stale, faults>>
<1>1. CASE ReturnError /\ UNCHANGED apiVars
  BY <1>1 DEF RemoveUpdate
<1>2. CASE /\ o \notin stale
           /\ \E v \in Mutations(view, o, RemoveAnnotation(store[o])) :
                 /\ Write(o, v)
                 /\ batch' = batch \ {o}
                 /\ UNCHANGED <<queue, pc, cur, snap, row, col, lists, stale>>
  <2>1. store[o] \in Object(o)
    BY <1>2, ViewType, ItemCases DEF WorkerFresh, RemoveUpdate, TypeOK
  <2>2. PICK v \in Mutations(view, o, RemoveAnnotation(store[o])) : Write(o, v)
    BY <1>2
  <2>3. v \in Object(o)
    BY <2>1, RemoveAnnotationType, MutationsType
  <2> QED
    BY <1>2, <2>2, <2>3 DEF RemoveUpdate
<1> QED
  BY <1>1, <1>2 DEF RemoveUpdate

\* Reconcile's Status().Update writes one value of the project it works for, and
\* only where that project is at the version it read.
LEMMA UpdateStatusWrites ==
    ASSUME TypeOK, UpdateStatus
    PROVE  \/ ReturnError /\ UNCHANGED <<apiVars, faults>>
           \/ /\ cur \in Projects /\ cur \notin stale
              /\ [snap EXCEPT !.used = UsedBy(snap.hard, lists),
                              !.statusNamespaces = snap.namespaces] \in Prq(cur)
              /\ Write(cur, [snap EXCEPT !.used = UsedBy(snap.hard, lists),
                                         !.statusNamespaces = snap.namespaces])
              /\ Return /\ UNCHANGED faults
<1>1. cur \in Projects /\ snap \in Prq(cur) /\ DOMAIN lists = DOMAIN snap.namespaces
  BY DEF UpdateStatus, ReconcilerTypeOK, TypeOK
<1>2. snap.namespaces \in Seq(Range(NamespaceOrder))
  BY <1>1, ItemsAssumption DEF Prq, PrqOver
<1>3. IsFiniteSet(DOMAIN lists)
  BY <1>1, <1>2, LenProperties, FS_Interval
<1>4. [snap EXCEPT !.used = UsedBy(snap.hard, lists),
                   !.statusNamespaces = snap.namespaces] \in Prq(cur)
  BY <1>1, <1>3, UsedByType DEF Prq, PrqOver
<1> QED
  BY <1>1, <1>4 DEF UpdateStatus

\* The update that removes the finalizer does so too, or deletes the project.
LEMMA FinalizeWrites ==
    ASSUME TypeOK, NEW view, Finalize(view)
    PROVE  \/ ReturnError /\ UNCHANGED <<apiVars, faults>>
           \/ /\ cur \in Projects /\ cur \notin stale
              /\ PrqDefault(RemoveFinalizer(snap)) \in Prq(cur)
              /\ \/ Write(cur, PrqDefault(RemoveFinalizer(snap)))
                 \/ Write(cur, Absent)
              /\ Return /\ UNCHANGED faults
<1>1. cur \in Projects /\ snap \in Prq(cur)
  BY DEF Finalize, ReconcilerTypeOK, TypeOK
<1>2. PrqDefault(RemoveFinalizer(snap)) \in Prq(cur)
  BY <1>1, PrqDefaultType, RemoveFinalizerType
<1> QED
  BY <1>1, <1>2 DEF Finalize

\* No step breaks the types: not a user's, the informers', the worker's or a failure.
THEOREM TypeStep == TypeOK /\ WorkerFresh /\ AnyStep => TypeOK'
<1> SUFFICES ASSUME TypeOK, WorkerFresh, AnyStep PROVE TypeOK'
  OBVIOUS
<1>0. ApiTypeOK /\ ReconcilerTypeOK
  BY DEF TypeOK
<1>a. pc # "idle" => cur \in Projects /\ snap \in Prq(cur)
  BY <1>0 DEF ReconcilerTypeOK
<1>1. ASSUME NEW p \in Projects, Dequeue(p)
      PROVE  TypeOK'
  <2>1. ApiTypeOK'
    BY <1>0, <1>1, ApiUnchanged DEF Dequeue
  <2>2. cache[p] # Absent => cache[p] \in Prq(p)
    BY <1>0, ViewType, ItemCases
  <2>3. ReconcilerTypeOK'
    BY <1>0, <1>1, <2>2, ItemCases DEF ReconcilerTypeOK, Dequeue, Stages
  <2> QED
    BY <2>1, <2>3 DEF TypeOK
<1>2. ASSUME RemoveList
      PROVE  TypeOK'
  <2>1. ApiTypeOK'
    BY <1>0, <1>2, ApiUnchanged DEF RemoveList
  <2>2. PICK i \in RemovedFrom(snap, row) : Advance(i)
    BY <1>2 DEF RemoveList
  <2>3. i \in Nat \ {0}
    BY KindsAssumption, LenProperties DEF RemovedFrom
  <2>4. row' \in Nat \ {0} /\ col' \in DOMAIN KindOrder
    BY <1>0, <2>2, <2>3, AdvanceType
  <2>5. batch' \subseteq Objects /\ stale' \subseteq Items
    BY <1>0, <1>2 DEF RemoveList, Cell, Items, ReconcilerTypeOK
  <2>6. ReconcilerTypeOK'
    BY <1>0, <1>2, <2>4, <2>5 DEF ReconcilerTypeOK, RemoveList
  <2> QED
    BY <2>1, <2>6 DEF TypeOK
<1>3. ASSUME NEW view, NEW o \in Objects, RemoveUpdate(view, o)
      PROVE  TypeOK'
  <2>1. CASE ReturnError /\ UNCHANGED <<apiVars, faults>>
    BY <1>0, <1>3, <2>1, ApiUnchanged, ReturnErrorType DEF RemoveUpdate, ReconcilerTypeOK, TypeOK
  <2>2. CASE /\ \E v \in Object(o) : Write(o, v)
             /\ batch' = batch \ {o}
             /\ UNCHANGED <<queue, pc, cur, snap, row, col, lists, stale, faults>>
    <3>1. ApiTypeOK'
      BY <1>0, <2>2, WriteType, ItemCases
    <3>2. ReconcilerTypeOK'
      BY <1>0, <2>2 DEF ReconcilerTypeOK
    <3> QED
      BY <3>1, <3>2 DEF TypeOK
  <2> QED
    BY <1>3, <2>1, <2>2, RemoveUpdateWrites
<1>4. ASSUME RemoveDone
      PROVE  TypeOK'
  <2>1. ApiTypeOK'
    BY <1>0, <1>4, ApiUnchanged DEF RemoveDone
  <2>2. 1 \in DOMAIN KindOrder
    BY KindsAssumption, EmptySeq, LenProperties
  <2>3. ReconcilerTypeOK'
    BY <1>0, <1>4, <2>2, ItemCases DEF ReconcilerTypeOK, RemoveDone, Stages
  <2> QED
    BY <2>1, <2>3 DEF TypeOK
<1>5. ASSUME CalcList
      PROVE  TypeOK'
  <2>1. ApiTypeOK'
    BY <1>0, <1>5, ApiUnchanged DEF CalcList
  <2>2. row' \in Nat \ {0} /\ col' \in DOMAIN KindOrder
    <3>1. row \in Nat \ {0} /\ Advance(row)
      BY <1>0, <1>5 DEF CalcList, ReconcilerTypeOK
    <3> QED
      BY <1>0, <3>1, AdvanceType
  <2>3. DOMAIN lists' = DOMAIN lists
    BY <1>5 DEF CalcList
  <2>4. ASSUME NEW i \in DOMAIN lists
        PROVE  /\ DOMAIN lists'[i] = Objects
               /\ \A o \in Objects : lists'[i][o] \in ValuesOf(o)
    BY <1>0, <1>5, <2>4, ViewType, ItemCases DEF CalcList, ReconcilerTypeOK
  <2>5. ReconcilerTypeOK'
    BY <1>0, <1>5, <2>2, <2>3, <2>4 DEF ReconcilerTypeOK, CalcList, ValuesOf
  <2> QED
    BY <2>1, <2>5 DEF TypeOK
<1>6. ASSUME UpdateStatus
      PROVE  TypeOK'
  <2>1. CASE ReturnError /\ UNCHANGED <<apiVars, faults>>
    BY <1>0, <1>6, <2>1, ApiUnchanged, ReturnErrorType DEF UpdateStatus, ReconcilerTypeOK, TypeOK
  <2>2. CASE ApiTypeOK' /\ Return /\ UNCHANGED faults
    BY <1>0, <2>2, ReturnType DEF ReconcilerTypeOK, TypeOK
  <2> QED
    BY <1>0, <1>6, <2>1, <2>2, UpdateStatusWrites, WriteType, ItemCases
<1>7. ASSUME NEW view, Finalize(view)
      PROVE  TypeOK'
  <2>1. CASE ReturnError /\ UNCHANGED <<apiVars, faults>>
    BY <1>0, <1>7, <2>1, ApiUnchanged, ReturnErrorType DEF Finalize, ReconcilerTypeOK, TypeOK
  <2>2. CASE ApiTypeOK' /\ Return /\ UNCHANGED faults
    BY <1>0, <2>2, ReturnType DEF ReconcilerTypeOK, TypeOK
  <2> QED
    BY <1>0, <1>7, <2>1, <2>2, FinalizeWrites, WriteType, ItemCases
<1>8. ASSUME NEW s \in Streams, Deliver(s)
      PROVE  TypeOK'
  <2>1. ApiTypeOK'
    BY <1>0, <1>8, ObserveType DEF Deliver
  <2> DEFINE e == Head(watch[s])
  <2>2. e.item \in Items /\ e.val \in ValuesOf(e.item)
    BY <1>0, <1>8, HeadType DEF Deliver, Observe
  <2>3. e.item \in Objects => findObjects(cache[e.item], e.val) \subseteq Projects
    BY <1>0, <2>2, FindObjectsType, ViewType
  <2>4. queue' \subseteq Projects
    BY <1>0, <1>8, <2>2, <2>3 DEF Deliver, ReconcilerTypeOK, Items
  <2>5. ReconcilerTypeOK'
    BY <1>0, <1>8, <2>4 DEF Deliver, ReconcilerTypeOK, workVars
  <2> QED
    BY <2>1, <2>5 DEF TypeOK
<1>9. ASSUME TransientError
      PROVE  TypeOK'
  <2>1. faults' \in 0 .. MaxFaults
    BY <1>0, <1>9, MaxFaultsAssumption DEF TransientError, ReconcilerTypeOK
  <2> QED
    BY <1>0, <1>9, <2>1, ApiUnchanged, ReturnErrorType DEF TransientError, TypeOK
<1>10. ASSUME Restart
       PROVE  TypeOK'
  <2>1. faults' \in 0 .. MaxFaults
    BY <1>0, <1>10, MaxFaultsAssumption DEF Restart, ReconcilerTypeOK
  <2> QED
    BY <1>0, <1>10, <2>1, ResyncType, IdleType DEF Restart, StartQueue, TypeOK
<1>11. ASSUME NEW x \in Items, NEW v \in ValuesOf(x), Persist(x, v)
       PROVE  TypeOK'
  BY <1>0, <1>11, WriteType, PersistType DEF Persist, TypeOK
<1>12. CASE UNCHANGED vars
  BY <1>0, <1>12 DEF TypeOK, ApiTypeOK, ReconcilerTypeOK, vars, apiVars, reconcilerVars, workVars
<1> QED
  BY <1>1, <1>2, <1>3, <1>4, <1>5, <1>6, <1>7, <1>8, <1>9, <1>10, <1>11, <1>12
  DEF AnyStep, ReconcilerNext, WorkerStep

-----------------------------------------------------------------------------
(* The cache and the store *)

\* The events on their way in w are of the streams' items.
Watched(w) == DOMAIN w = Streams /\ \A s \in Streams : w[s] \in Seq(EventsOf(s))

\* A cache that has x as cached and is sent the events of q comes to stored.
ComesTo(q, x, cached, stored) ==
    /\ (\A i \in DOMAIN q : q[i].item # x) => cached = stored
    /\ \A i \in DOMAIN q :
          (q[i].item = x /\ \A j \in DOMAIN q : j > i => q[j].item # x) => q[i].val = stored

\* A cache c that is sent the events of w comes to what is stored.
Follows(w, c, stored) == \A x \in Items : ComesTo(w[StreamOf(x)], x, c[x], stored[x])

\* The events w with the change of x to v added, and with the oldest of s taken.
Sent(w, x, v) == [w EXCEPT ![StreamOf(x)] = Append(@, [item |-> x, val |-> v])]

Taken(w, s) == [w EXCEPT ![s] = Tail(@)]

\* f with v for x.
Put(f, x, v) == [f EXCEPT ![x] = v]

\* CacheCoherent says so of the manager's cache.
LEMMA CoherentFollows ==
    CacheCoherent <=> Follows(watch, cache, store)
BY DEF CacheCoherent, Pending, Follows, ComesTo

\* A write adds its event at the end of the item's stream, so what the stream ends
\* with is still what is stored.
LEMMA SentFollows ==
    ASSUME NEW w, NEW c, NEW stored \in View, Watched(w), Follows(w, c, stored),
           NEW x \in Items, NEW v \in ValuesOf(x), NEW later, NEW now,
           now = Put(stored, x, v), later = Sent(w, x, v)
    PROVE  Watched(later) /\ Follows(later, c, now)
<1> DEFINE s == StreamOf(x)
           e == [item |-> x, val |-> v]
<1>1. s \in Streams /\ w[s] \in Seq(EventsOf(s)) /\ e \in EventsOf(s)
  BY ItemStreams, EventType DEF Watched
<1>2. /\ DOMAIN later = Streams
      /\ later[s] = Append(w[s], e)
      /\ \A t \in Streams : t # s => later[t] = w[t]
      /\ \A y \in Items : now[y] = IF y = x THEN v ELSE stored[y]
  BY <1>1 DEF Watched, View, Sent, Put
<1>3. /\ DOMAIN later[s] = 1 .. Len(w[s]) + 1
      /\ DOMAIN w[s] = 1 .. Len(w[s]) /\ Len(w[s]) \in Nat
      /\ \A i \in 1 .. Len(w[s]) : later[s][i] = w[s][i]
      /\ later[s][Len(w[s]) + 1] = e
      /\ later[s] \in Seq(EventsOf(s))
  BY <1>1, <1>2, AppendProperties, LenProperties
<1> HIDE DEF s, e
<1>4. ASSUME NEW y \in Items, StreamOf(y) # s
      PROVE  ComesTo(later[StreamOf(y)], y, c[y], now[y])
  <2>1. y # x /\ later[StreamOf(y)] = w[StreamOf(y)] /\ now[y] = stored[y]
    BY <1>2, <1>4, ItemStreams DEF s
  <2> QED
    BY <2>1 DEF Follows
<1>5. ASSUME NEW y \in Items, StreamOf(y) = s
      PROVE  ComesTo(later[s], y, c[y], now[y])
  <2>1. CASE y = x
    <3>1. now[y] = v
      BY <1>2, <2>1
    <3>2. Len(w[s]) + 1 \in DOMAIN later[s] /\ e.item = y /\ e.val = v
      BY <1>3, <2>1 DEF e
    <3>3. ASSUME NEW i \in DOMAIN later[s],
                 \A j \in DOMAIN later[s] : j > i => later[s][j].item # y
          PROVE  i = Len(w[s]) + 1
      BY <1>3, <3>2, <3>3
    <3> QED
      BY <1>3, <3>1, <3>2, <3>3 DEF ComesTo
  <2>2. CASE y # x
    <3>1. now[y] = stored[y]
      BY <1>2, <2>2
    <3>2. ASSUME NEW i \in DOMAIN w[s]
          PROVE  i \in DOMAIN later[s] /\ later[s][i] = w[s][i]
      BY <1>3
    <3>3. ASSUME NEW i \in DOMAIN later[s], later[s][i].item = y
          PROVE  i \in DOMAIN w[s] /\ later[s][i] = w[s][i]
      BY <1>3, <2>2, <3>3 DEF e
    <3> QED
      BY <1>5, <3>1, <3>2, <3>3 DEF Follows, ComesTo
  <2> QED
    BY <2>1, <2>2
<1>6. Watched(later)
  BY <1>2, <1>3 DEF Watched
<1> QED
  BY <1>4, <1>5, <1>6 DEF Follows

\* An informer takes the oldest event, so where none is left the cache has what is
\* stored.
LEMMA TakenFollows ==
    ASSUME NEW w, NEW c \in View, NEW stored, Watched(w), Follows(w, c, stored),
           NEW s \in Streams, w[s] # <<>>, NEW later, NEW seen,
           seen = Put(c, Head(w[s]).item, Head(w[s]).val), later = Taken(w, s)
    PROVE  seen \in View /\ Watched(later) /\ Follows(later, seen, stored)
<1> DEFINE e == Head(w[s])
<1>1. /\ w[s] \in Seq(EventsOf(s)) /\ e \in EventsOf(s) /\ e = w[s][1]
      /\ e.item \in Items /\ StreamOf(e.item) = s /\ e.val \in ValuesOf(e.item)
  <2>1. w[s] \in Seq(EventsOf(s))
    BY DEF Watched
  <2>2. e \in EventsOf(s) /\ e = w[s][1]
    BY <2>1, HeadTailProperties
  <2> QED
    BY <2>1, <2>2 DEF EventsOf
<1>2. /\ DOMAIN later = Streams /\ later[s] = Tail(w[s])
      /\ \A t \in Streams : t # s => later[t] = w[t]
      /\ \A y \in Items : seen[y] = IF y = e.item THEN e.val ELSE c[y]
  BY DEF Watched, View, Taken, Put
<1>3. /\ DOMAIN w[s] = 1 .. Len(w[s]) /\ Len(w[s]) \in Nat \ {0}
      /\ DOMAIN later[s] = 1 .. Len(w[s]) - 1
      /\ \A i \in 1 .. Len(w[s]) - 1 : later[s][i] = w[s][i + 1]
      /\ later[s] \in Seq(EventsOf(s))
  BY <1>1, <1>2, EmptySeq, HeadTailProperties, LenProperties
<1>4. seen \in View
  BY <1>1, ValuesInValue DEF View, Put
<1>5. Watched(later)
  BY <1>2, <1>3 DEF Watched
<1> HIDE DEF e
<1>6. ASSUME NEW y \in Items, StreamOf(y) # s
      PROVE  ComesTo(later[StreamOf(y)], y, seen[y], stored[y])
  <2>1. y # e.item /\ later[StreamOf(y)] = w[StreamOf(y)] /\ seen[y] = c[y]
    BY <1>1, <1>2, <1>6, ItemStreams
  <2> QED
    BY <2>1 DEF Follows
<1>7. ASSUME NEW y \in Items, StreamOf(y) = s
      PROVE  ComesTo(later[s], y, seen[y], stored[y])
  <2>1. ASSUME NEW i \in DOMAIN later[s], later[s][i].item = y,
               \A j \in DOMAIN later[s] : j > i => later[s][j].item # y
        PROVE  later[s][i].val = stored[y]
    <3>1. i + 1 \in DOMAIN w[s] /\ w[s][i + 1] = later[s][i]
      BY <1>3, <2>1
    <3>2. ASSUME NEW j \in DOMAIN w[s], j > i + 1
          PROVE  w[s][j].item # y
      <4>1. j - 1 \in DOMAIN later[s] /\ j - 1 > i /\ later[s][j - 1] = w[s][j]
        BY <1>3, <2>1, <3>2
      <4> QED
        BY <2>1, <4>1
    <3> QED
      BY <1>7, <2>1, <3>1, <3>2 DEF Follows, ComesTo
  <2>2. ASSUME \A i \in DOMAIN later[s] : later[s][i].item # y
        PROVE  seen[y] = stored[y]
    <3>1. ASSUME NEW j \in DOMAIN w[s], j > 1
          PROVE  w[s][j].item # y
      <4>1. j - 1 \in DOMAIN later[s] /\ later[s][j - 1] = w[s][j]
        BY <1>3, <3>1
      <4> QED
        BY <2>2, <4>1
    <3>2. CASE y = e.item
      <4>1. 1 \in DOMAIN w[s] /\ w[s][1].item = y
        BY <1>1, <1>3, <3>2
      <4>2. w[s][1].val = stored[y]
        BY <1>7, <3>1, <4>1 DEF Follows, ComesTo
      <4> QED
        BY <1>1, <1>2, <3>2, <4>2
    <3>3. CASE y # e.item
      <4>1. ASSUME NEW j \in DOMAIN w[s] PROVE w[s][j].item # y
        BY <1>1, <1>3, <3>1, <3>3
      <4> QED
        BY <1>2, <1>7, <3>3, <4>1 DEF Follows, ComesTo
    <3> QED
      BY <3>2, <3>3
  <2> QED
    BY <2>1, <2>2 DEF ComesTo
<1> QED
  BY <1>4, <1>5, <1>6, <1>7 DEF Follows

\* Hence CacheCoherent survives what the API server persists.
LEMMA WriteCoherent ==
    ASSUME ApiTypeOK, CacheCoherent, NEW x \in Items, NEW v \in ValuesOf(x), Write(x, v)
    PROVE  CacheCoherent'
<1>1. CASE v = store[x]
  <2>1. store' = store /\ watch' = watch /\ cache' = cache
    BY <1>1 DEF Write, ApiTypeOK, View
  <2> QED
    BY <2>1 DEF CacheCoherent, Pending
<1>2. CASE v # store[x]
  <2>1. store \in View /\ Watched(watch) /\ Follows(watch, cache, store)
    BY CoherentFollows DEF ApiTypeOK, Watched
  <2>2. PICK now, later : now = store' /\ later = watch'
    OBVIOUS
  <2>3. Follows(later, cache, now)
    <3>1. later = Sent(watch, x, v) /\ now = Put(store, x, v)
      BY <1>2, <2>2 DEF Write, Sent, Put
    <3> QED
      BY <2>1, <3>1, SentFollows
  <2>4. cache' = cache
    BY DEF Write
  <2> QED
    BY <2>2, <2>3, <2>4 DEF CacheCoherent, Pending, Follows, ComesTo
<1> QED
  BY <1>1, <1>2

\* And an informer taking its next event.
LEMMA ObserveCoherent ==
    ASSUME ApiTypeOK, CacheCoherent, NEW s \in Streams, Observe(s)
    PROVE  CacheCoherent'
<1>1. cache \in View /\ Watched(watch) /\ Follows(watch, cache, store)
  BY CoherentFollows DEF ApiTypeOK, Watched
<1>2. PICK seen, later : seen = cache' /\ later = watch'
  OBVIOUS
<1>3. Follows(later, seen, store)
  <2>1. /\ later = Taken(watch, s) /\ watch[s] # <<>>
        /\ seen = Put(cache, Head(watch[s]).item, Head(watch[s]).val)
    BY <1>2 DEF Observe, Taken, Put
  <2> QED
    BY <1>1, <2>1, TakenFollows
<1>4. store' = store
  BY DEF Observe
<1> QED
  BY <1>2, <1>3, <1>4 DEF CacheCoherent, Pending, Follows, ComesTo

\* After a fresh list of everything the cache is the store.
LEMMA ResyncCoherent ==
    ASSUME ApiTypeOK, Resync
    PROVE  CacheCoherent'
BY ItemStreams DEF Resync, CacheCoherent, Pending

\* No step breaks the order of the watches: every write of a user or the worker
\* makes its event, and only informers and a restart touch the cache.
THEOREM CoherentStep == IInv /\ AnyStep => CacheCoherent'
<1> SUFFICES ASSUME IInv, AnyStep PROVE CacheCoherent'
  OBVIOUS
<1>0. TypeOK /\ ApiTypeOK /\ CacheCoherent /\ WorkerFresh
  BY DEF IInv, TypeOK
<1>1. CASE UNCHANGED apiVars
  BY <1>0, <1>1 DEF CacheCoherent, Pending, apiVars
<1>2. CASE \E x \in Items : \E v \in ValuesOf(x) : Write(x, v)
  BY <1>0, <1>2, WriteCoherent
<1>3. CASE \E s \in Streams : Observe(s)
  BY <1>0, <1>3, ObserveCoherent
<1>4. CASE Resync
  BY <1>0, <1>4, ResyncCoherent
<1>5. CASE UNCHANGED vars
  BY <1>1, <1>5 DEF vars
<1>6. CASE \E x \in Items : \E v \in ValuesOf(x) : Persist(x, v)
  BY <1>2, <1>6 DEF Persist
<1>7. ASSUME NEW view, NEW o \in Objects, RemoveUpdate(view, o)
      PROVE  CacheCoherent'
  BY <1>0, <1>1, <1>2, <1>7, RemoveUpdateWrites, ItemCases
<1>8. CASE UpdateStatus
  BY <1>0, <1>1, <1>2, <1>8, UpdateStatusWrites, ItemCases
<1>9. ASSUME NEW view, Finalize(view)
      PROVE  CacheCoherent'
  BY <1>0, <1>1, <1>2, <1>9, FinalizeWrites, ItemCases
<1>10. CASE \E s \in Streams : Deliver(s)
  BY <1>3, <1>10 DEF Deliver
<1>11. CASE Restart
  BY <1>4, <1>11 DEF Restart
<1>12. CASE (\E p \in Projects : Dequeue(p)) \/ RemoveList \/ RemoveDone \/ CalcList \/ TransientError
  BY <1>1, <1>12 DEF Dequeue, RemoveList, RemoveDone, CalcList, TransientError
<1> QED
  BY <1>5, <1>6, <1>7, <1>8, <1>9, <1>10, <1>11, <1>12 DEF AnyStep, ReconcilerNext, WorkerStep

-----------------------------------------------------------------------------
(* What the worker holds *)

\* A request of a user marks the item it changes as stale.
LEMMA PersistFresh ==
    ASSUME TypeOK, WorkerFresh, NEW x \in Items, NEW v \in ValuesOf(x), Persist(x, v)
    PROVE  WorkerFresh'
<1>1. store' = [store EXCEPT ![x] = v] /\ DOMAIN store = Items
  BY DEF Persist, Write, TypeOK, ApiTypeOK, View
<1>2. UNCHANGED <<pc, cur, snap, batch>>
  BY DEF Persist, workVars
<1>3. CASE pc = "idle"
  BY <1>2, <1>3 DEF WorkerFresh, TypeOK, ReconcilerTypeOK
<1>4. CASE pc # "idle"
  <2>1. stale \subseteq stale' /\ (v # store[x] => x \in stale')
    BY <1>4 DEF Persist
  <2>2. \A y : y \notin stale' => store'[y] = store[y]
    BY <1>1, <2>1
  <2> QED
    BY <1>2, <1>4, <2>1, <2>2 DEF WorkerFresh
<1> QED
  BY <1>3, <1>4

\* Every step keeps WorkerFresh: the worker marks as stale what it reads while a
\* change of it is undelivered, and users what they change under its hands.
THEOREM FreshStep == IInv /\ AnyStep => WorkerFresh'
<1> SUFFICES ASSUME IInv, AnyStep PROVE WorkerFresh'
  OBVIOUS
<1>0. TypeOK /\ ApiTypeOK /\ ReconcilerTypeOK /\ CacheCoherent /\ WorkerFresh
  BY DEF IInv, TypeOK
<1>a. /\ \A x \in Items : ~Pending(x) => cache[x] = store[x]
      /\ pc # "idle" => cur \in Projects
      /\ pc = "idle" => batch = {}
  BY <1>0 DEF CacheCoherent, ReconcilerTypeOK
<1>1. CASE Idle
  BY <1>1 DEF Idle, WorkerFresh
<1>2. CASE UNCHANGED vars
  BY <1>0, <1>2 DEF WorkerFresh, vars, apiVars, reconcilerVars, workVars
<1>3. CASE \E x \in Items : \E v \in ValuesOf(x) : Persist(x, v)
  BY <1>0, <1>3, PersistFresh
<1>4. ASSUME NEW p \in Projects, Dequeue(p)
      PROVE  WorkerFresh'
  <2>1. batch' = {} /\ store' = store /\ pc = "idle"
    BY <1>a, <1>4 DEF Dequeue, apiVars
  <2>2. pc' # "idle" /\ cur' \notin stale' => snap' = store[cur']
    BY <1>a, <1>4, <2>1, ItemCases DEF Dequeue
  <2> QED
    BY <2>1, <2>2 DEF WorkerFresh
<1>5. ASSUME RemoveList
      PROVE  WorkerFresh'
  <2>0. PICK i \in RemovedFrom(snap, row) :
          LET cell == Cell(NamespaceOrder[i], KindOrder[col])
          IN /\ batch' = {o \in cell : IsAnnotationExists(cache[o])}
             /\ stale' = (stale \ cell) \union {o \in cell : Pending(o)}
    BY <1>5 DEF RemoveList
  <2> DEFINE cell == Cell(NamespaceOrder[i], KindOrder[col])
  <2>1. /\ batch' = {o \in cell : IsAnnotationExists(cache[o])}
        /\ stale' = (stale \ cell) \union {o \in cell : Pending(o)}
        /\ UNCHANGED <<pc, cur, snap, store>> /\ pc = "remove"
        /\ cell \subseteq Objects
    BY <1>5, <2>0 DEF RemoveList, apiVars, Cell
  <2>2. \A o \in batch' \ stale' : store'[o] # Absent
    BY <1>a, <2>1, ItemCases DEF IsAnnotationExists
  <2>3. cur \notin cell /\ (cur \notin stale' => cur \notin stale)
    BY <1>a, <2>1, ItemCases
  <2> QED
    BY <1>0, <2>1, <2>2, <2>3 DEF WorkerFresh
<1>6. ASSUME NEW view, NEW o \in Objects, RemoveUpdate(view, o)
      PROVE  WorkerFresh'
  <2>1. CASE /\ \E v \in Object(o) : Write(o, v)
             /\ batch' = batch \ {o}
             /\ UNCHANGED <<queue, pc, cur, snap, row, col, lists, stale, faults>>
    <3>1. \A y : y # o => store'[y] = store[y]
      BY <2>1 DEF Write
    <3>2. pc # "idle" => cur # o
      BY <1>a, ItemCases
    <3> QED
      BY <1>0, <2>1, <3>1, <3>2 DEF WorkerFresh
  <2> QED
    BY <1>0, <1>1, <1>6, <2>1, RemoveUpdateWrites DEF ReturnError
<1>7. CASE RemoveDone \/ CalcList
  BY <1>0, <1>7 DEF RemoveDone, CalcList, WorkerFresh, apiVars
<1>8. CASE UpdateStatus \/ \E view : Finalize(view)
  BY <1>1, <1>8 DEF UpdateStatus, Finalize, ReturnError, Return
<1>9. ASSUME NEW s \in Streams, Deliver(s)
      PROVE  WorkerFresh'
  BY <1>0, <1>9 DEF Deliver, Observe, WorkerFresh, workVars
<1>10. CASE TransientError \/ Restart
  BY <1>1, <1>10 DEF TransientError, Restart, ReturnError
<1> QED
  BY <1>2, <1>3, <1>4, <1>5, <1>6, <1>7, <1>8, <1>9, <1>10
  DEF AnyStep, ReconcilerNext, WorkerStep

-----------------------------------------------------------------------------
(* Theorems of the specification *)

\* The empty cluster satisfies the invariant.
LEMMA InvariantInit == Init => IInv
<1> SUFFICES ASSUME Init PROVE IInv
  OBVIOUS
<1>1. CacheCoherent
  BY ItemStreams DEF Init, ApiInit, CacheCoherent, Pending
<1>2. WorkerFresh
  BY DEF Init, ReconcilerInit, WorkerFresh
<1> QED
  BY <1>1, <1>2, TypeInit DEF IInv

\* Every step keeps the invariant.
LEMMA InvariantStep == IInv /\ AnyStep => IInv'
BY TypeStep, CoherentStep, FreshStep DEF IInv

\* The inductive invariant holds throughout: caches follow the store in the order
\* of its changes, and what the worker does not know to be stale is current.
THEOREM Invariant == Spec => []IInv
<1>1. IInv /\ [Next]_vars => IInv'
  BY NextIsAnyStep, InvariantStep DEF IInv
<1> QED
  BY <1>1, InvariantInit, PTL DEF Spec

\* The operator's variables keep their types, whatever the numbers of projects,
\* objects and namespaces and however far the caches lag.
THEOREM TypeCorrect == Spec => []TypeOK
<1>1. IInv => TypeOK
  BY DEF IInv
<1> QED
  BY <1>1, Invariant, PTL

================================================================================
