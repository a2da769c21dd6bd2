---------------------------- MODULE Cleanup_proofs ----------------------------
(***************************************************************************)
(* Theorems about ProjectQuota: what projects leave behind in the          *)
(* namespaces they give up.                                                *)
(***************************************************************************)
EXTENDS Usage_proofs

-----------------------------------------------------------------------------
(* The invariant *)

\* A project is stored with its finalizer until the controller takes it off.
HaveFinalizer == \A p \in Projects : store[p] # Absent => store[p].finalizer

\* The worker reads its project before any change of it that is still undelivered.
CurDelivered == pc # "idle" /\ cur \notin stale => ~Pending(cur)

\* The worker updates objects while it goes through the removed namespaces, and
\* nowhere else.
BatchRemoved ==
    /\ pc # "remove" => batch = {}
    /\ \A o \in batch : NamespaceOf[o] \in RemovedNamespaces(snap)

\* It starts with the first kind, and is past it only in a namespace that is removed.
RowRemoved ==
    /\ pc = "idle" => row = 1 /\ col = 1
    /\ pc = "remove" /\ col # 1 => row \in RemovedFrom(snap, row)

\* The worker has listed the kind of o in its namespace.
Passed(o) ==
    \/ pc \in {"calculate", "finalize"}
    \/ \E i \in DOMAIN NamespaceOrder : NamespaceOrder[i] = NamespaceOf[o] /\ Visited(i, KindOf[o])

\* While the worker's copy of its project is current, an object it has passed in a
\* removed namespace names the project only if the worker is about to update it or
\* it changed, or had a change undelivered, since it was listed; or it is one of left.
CleanedBut(left) ==
    pc # "idle" /\ cur \notin stale =>
        \A o \in Objects :
            /\ NamespaceOf[o] \in RemovedNamespaces(snap) /\ Passed(o)
            /\ store[o] # Absent /\ store[o].anno = cur
            => o \in batch \union stale \union left

CleanedSoFar == CleanedBut({})

CleanInv == HaveFinalizer /\ CurDelivered /\ BatchRemoved /\ RowRemoved /\ CleanedSoFar

-----------------------------------------------------------------------------
(* Finalizers *)

\* A step writes a project, if at all, with its finalizer: the webhook adds it, a user
\* keeps it, and without it the API server deletes the project.
LEMMA FinalizerStep ==
    ASSUME IInv, HaveFinalizer, NEW view, StepBy(view)
    PROVE  HaveFinalizer'
<1> SUFFICES ASSUME NEW p \in Projects, store'[p] # Absent
             PROVE  store'[p].finalizer
  BY DEF HaveFinalizer
<1>0. /\ TypeOK /\ WorkerFresh /\ DOMAIN store = Items /\ p \in Items /\ p \notin Objects
      /\ store[p] # Absent => store[p] \in Prq(p) /\ store[p].finalizer
  BY ViewType, ItemCases DEF IInv, TypeOK, ApiTypeOK, View, HaveFinalizer
<1>1. CASE store'[p] = store[p]
  BY <1>0, <1>1
<1>2. ASSUME NEW x \in Items, NEW v, Write(x, v), x # p \/ v = Absent \/ v.finalizer
      PROVE  store'[p].finalizer
  BY <1>0, <1>2 DEF Write
<1>3. ASSUME NEW q \in Projects, CreateProject(view, q)
      PROVE  store'[p].finalizer
  <2>1. PICK namespaces \in NamespaceLists[q], hard \in Hards :
          Write(q, PrqDefault(NewPrq(namespaces, hard)))
    BY <1>3 DEF CreateProject, Persist
  <2>2. PrqDefault(NewPrq(namespaces, hard)).finalizer
    BY DEF PrqDefault, NewPrq, AddFinalizer
  <2> QED
    BY <1>2, <2>1, <2>2, ItemCases
<1>4. ASSUME NEW q \in Projects, UpdateProject(view, q)
      PROVE  store'[p].finalizer
  <2>1. PICK namespaces \in NamespaceLists[q], hard \in Hards :
          Write(q, PrqDefault([store[q] EXCEPT !.namespaces = namespaces, !.hard = hard]))
    BY <1>4 DEF UpdateProject, Persist
  <2>2. q = p =>
          PrqDefault([store[q] EXCEPT !.namespaces = namespaces, !.hard = hard]).finalizer
    BY <1>0, <1>4 DEF PrqDefault, AddFinalizer, Prq, PrqOver, UpdateProject
  <2> QED
    BY <1>2, <2>1, <2>2, ItemCases
<1>5. ASSUME NEW q \in Projects, DeleteProject(q)
      PROVE  store'[p].finalizer
  <2>1. PICK v \in {Absent, [store[q] EXCEPT !.deleting = TRUE]} : Write(q, v)
    BY <1>5 DEF DeleteProject, Persist
  <2>2. q = p => v = Absent \/ v.finalizer
    BY <1>0, <1>5, <2>1 DEF Prq, PrqOver, DeleteProject, Live
  <2> QED
    BY <1>2, <2>1, <2>2, ItemCases
<1>6. ASSUME NEW o \in Objects,
             CreateObject(view, o) \/ UpdateObject(view, o) \/ PodTerminates(o) \/ DeleteObject(o)
      PROVE  store'[p].finalizer
  BY <1>0, <1>2, <1>6, ItemCases
  DEF CreateObject, UpdateObject, PodTerminates, DeleteObject, Persist
<1>7. ASSUME NEW seen, NEW o \in Objects, RemoveUpdate(seen, o)
      PROVE  store'[p].finalizer
  BY <1>0, <1>1, <1>2, <1>7, RemoveUpdateWrites, ItemCases DEF apiVars
<1>8. CASE UpdateStatus
  <2> DEFINE w == [snap EXCEPT !.used = UsedBy(snap.hard, lists),
                               !.statusNamespaces = snap.namespaces]
  <2>1. CASE cur \in Projects /\ cur \notin stale /\ Write(cur, w) /\ pc # "idle"
    <3>1. p = cur => snap = store[p] /\ snap \in Prq(p)
      BY <1>0, <2>1 DEF WorkerFresh, TypeOK, ReconcilerTypeOK
    <3>2. p = cur => w.finalizer
      BY <1>0, <3>1, AbsentAssumption DEF Prq, PrqOver
    <3> HIDE DEF w
    <3> QED
      BY <1>2, <2>1, <3>2, ItemCases
  <2> QED
    BY <1>0, <1>1, <1>8, <2>1, UpdateStatusWrites DEF UpdateStatus, apiVars
<1>9. ASSUME NEW seen, Finalize(seen)
      PROVE  store'[p].finalizer
  <2>1. CASE UNCHANGED apiVars
    BY <1>1, <2>1 DEF apiVars
  <2>2. CASE ~UNCHANGED apiVars
    <3>1. PICK prq : cur \in Projects /\ Write(cur, IF prq.finalizer THEN prq ELSE Absent)
      BY <1>0, <1>9, <2>2 DEF Finalize, TypeOK, ReconcilerTypeOK
    <3> QED
      BY <1>2, <3>1, ItemCases
  <2> QED
    BY <2>1, <2>2
<1>10. CASE \/ UNCHANGED vars
            \/ \E q \in Projects : Dequeue(q)
            \/ RemoveList \/ RemoveDone \/ CalcList \/ TransientError \/ Restart
            \/ \E s \in Streams : Deliver(s)
  BY <1>1, <1>10 DEF vars, Dequeue, RemoveList, RemoveDone, CalcList, TransientError, Restart,
              Resync, Deliver, Observe, apiVars
<1> QED
  BY <1>3, <1>4, <1>5, <1>6, <1>7, <1>8, <1>9, <1>10
  DEF StepBy, UserRequest, ReconcilerNext, WorkerStep

-----------------------------------------------------------------------------
(* The project the worker reads *)

\* What is not written has no more changes undelivered than before.
LEMMA PendingLess ==
    ASSUME IInv, AnyStep, NEW y \in Items, store'[y] = store[y], Pending(y)'
    PROVE  Pending(y)
<1>0. ApiTypeOK /\ StreamOf(y) \in Streams
  BY ItemStreams DEF IInv, TypeOK
<1>1. CASE UNCHANGED apiVars
  BY <1>1 DEF apiVars, Pending
<1>2. ASSUME NEW x \in Items, NEW v \in ValuesOf(x), Write(x, v)
      PROVE  Pending(y)
  <2> DEFINE s == StreamOf(x)
             e == [item |-> x, val |-> v]
  <2>1. s \in Streams /\ watch[s] \in Seq(EventsOf(s)) /\ e \in EventsOf(s)
    BY <1>0, ItemStreams, EventType DEF ApiTypeOK
  <2>2. CASE watch'[StreamOf(y)] = watch[StreamOf(y)]
    BY <2>2 DEF Pending
  <2>3. CASE watch'[StreamOf(y)] # watch[StreamOf(y)]
    <3>1. StreamOf(y) = s /\ watch'[s] = Append(watch[s], e) /\ x # y
      BY <1>0, <1>2, <2>1, <2>3 DEF Write, ApiTypeOK, View
    <3>2. /\ DOMAIN watch'[s] = 1 .. Len(watch[s]) + 1
          /\ DOMAIN watch[s] = 1 .. Len(watch[s]) /\ Len(watch[s]) \in Nat
          /\ \A j \in 1 .. Len(watch[s]) : watch'[s][j] = watch[s][j]
          /\ watch'[s][Len(watch[s]) + 1] = e
      BY <2>1, <3>1, AppendProperties, LenProperties
    <3>3. PICK i \in DOMAIN watch'[s] : watch'[s][i].item = y
      BY <3>1 DEF Pending
    <3>4. i \in DOMAIN watch[s] /\ watch[s][i].item = y
      BY <3>1, <3>2, <3>3
    <3> QED
      BY <3>1, <3>4 DEF Pending
  <2> QED
    BY <2>2, <2>3
<1>3. ASSUME NEW s \in Streams, Observe(s)
      PROVE  Pending(y)
  <2>1. /\ watch[s] \in Seq(EventsOf(s)) /\ watch[s] # <<>>
        /\ watch'[s] = Tail(watch[s])
        /\ \A t \in Streams : t # s => watch'[t] = watch[t]
    BY <1>0, <1>3 DEF Observe, ApiTypeOK
  <2>2. /\ DOMAIN watch[s] = 1 .. Len(watch[s]) /\ Len(watch[s]) \in Nat \ {0}
        /\ DOMAIN watch'[s] = 1 .. Len(watch[s]) - 1
        /\ \A i \in 1 .. Len(watch[s]) - 1 : watch'[s][i] = watch[s][i + 1]
    BY <2>1, EmptySeq, HeadTailProperties, LenProperties
  <2>3. PICK i \in DOMAIN watch'[StreamOf(y)] : watch'[StreamOf(y)][i].item = y
    BY DEF Pending
  <2>4. CASE StreamOf(y) = s
    <3>1. i + 1 \in DOMAIN watch[s] /\ watch[s][i + 1] = watch'[s][i]
      BY <2>2, <2>3, <2>4
    <3> QED
      BY <2>3, <2>4, <3>1 DEF Pending
  <2>5. CASE StreamOf(y) # s
    BY <1>0, <2>1, <2>3, <2>5 DEF Pending
  <2> QED
    BY <2>4, <2>5
<1>4. CASE Resync
  BY <1>0, <1>4 DEF Resync, Pending
<1> QED
  BY <1>1, <1>2, <1>3, <1>4, ApiStep

\* CurDelivered survives every step: whoever changes the project has the worker hold
\* it as stale.
LEMMA CurDeliveredStep ==
    ASSUME IInv, CurDelivered, AnyStep
    PROVE  CurDelivered'
<1>0. /\ TypeOK /\ ReconcilerTypeOK /\ WorkerFresh /\ WorkerFresh'
      /\ pc # "idle" => cur \in Projects
  BY InvariantStep DEF IInv, TypeOK, ReconcilerTypeOK
<1> SUFFICES ASSUME NEW p \in Projects, pc' # "idle", cur' = p, p \notin stale'
             PROVE  ~Pending(p)'
  <2>1. pc' # "idle" => cur' \in Projects
    BY InvariantStep DEF IInv, TypeOK, ReconcilerTypeOK
  <2>2. \A p \in Projects : p = cur' => (Pending(cur)' <=> Pending(p)')
    BY DEF Pending
  <2> QED
    BY <2>1, <2>2 DEF CurDelivered
<1>1. CASE pc # "idle" /\ cur = p /\ p \notin stale /\ snap' = snap
  <2>1. store'[p] = store[p]
    BY <1>0, <1>1 DEF WorkerFresh
  <2> QED
    BY <1>1, <2>1, PendingLess, ItemCases DEF CurDelivered
<1>2. CASE Idle
  BY <1>2 DEF Idle
<1>3. ASSUME NEW q \in Projects, Dequeue(q)
      PROVE  ~Pending(p)'
  <2>1. p = q /\ cache[p] # Absent /\ UNCHANGED apiVars
    BY <1>0, <1>3, ItemsAssumption DEF Dequeue
  <2>2. ~Pending(p)
    BY <1>3, <2>1 DEF Dequeue
  <2> QED
    BY <2>1, <2>2 DEF Pending, apiVars
<1>4. CASE UNCHANGED vars
  BY <1>1, <1>4 DEF vars, reconcilerVars, workVars
<1>5. ASSUME NEW x \in Items, NEW v \in ValuesOf(x), Persist(x, v)
      PROVE  ~Pending(p)'
  BY <1>0, <1>1, <1>5 DEF Persist, workVars
<1>6. CASE RemoveList
  <2>1. PICK i \in RemovedFrom(snap, row) :
          stale' = (stale \ Cell(NamespaceOrder[i], KindOrder[col]))
                   \union {o \in Cell(NamespaceOrder[i], KindOrder[col]) : Pending(o)}
    BY <1>6 DEF RemoveList
  <2>2. p \notin stale
    BY <2>1, ItemCases DEF Cell
  <2> QED
    BY <1>1, <1>6, <2>2 DEF RemoveList
<1>7. ASSUME NEW view, NEW o \in Objects, RemoveUpdate(view, o)
      PROVE  ~Pending(p)'
  BY <1>0, <1>1, <1>2, <1>7, RemoveUpdateWrites DEF ReturnError, RemoveUpdate
<1>8. CASE RemoveDone \/ CalcList \/ \E s \in Streams : Deliver(s)
  BY <1>0, <1>1, <1>8 DEF RemoveDone, CalcList, Deliver, workVars
<1>9. CASE UpdateStatus \/ TransientError \/ Restart \/ \E view : Finalize(view)
  BY <1>2, <1>9 DEF UpdateStatus, Finalize, TransientError, Restart, Return, ReturnError
<1> QED
  BY <1>3, <1>4, <1>5, <1>6, <1>7, <1>8, <1>9 DEF AnyStep, ReconcilerNext, WorkerStep

-----------------------------------------------------------------------------
(* The worker's way through the removed namespaces *)

\* BatchRemoved and RowRemoved survive every step.
LEMMA BatchStep ==
    ASSUME IInv, BatchRemoved, AnyStep
    PROVE  BatchRemoved'
<1>0. TypeOK /\ WorkerFresh /\ (pc = "idle" => batch = {})
  BY DEF IInv, TypeOK, ReconcilerTypeOK
<1>1. CASE UNCHANGED <<pc, snap>> /\ batch' \subseteq batch
  BY <1>1 DEF BatchRemoved, RemovedNamespaces
<1>2. CASE Idle
  BY <1>2 DEF Idle, BatchRemoved
<1>3. CASE batch' = {}
  BY <1>3 DEF BatchRemoved
<1>4. CASE UNCHANGED vars \/ \E x \in Items : \E v \in ValuesOf(x) : Persist(x, v)
  BY <1>1, <1>4 DEF vars, reconcilerVars, workVars, Persist
<1>5. ASSUME NEW q \in Projects, Dequeue(q)
      PROVE  BatchRemoved'
  BY <1>0, <1>3, <1>5 DEF Dequeue
<1>6. CASE RemoveList
  <2>1. PICK i \in RemovedFrom(snap, row) :
          batch' = {o \in Cell(NamespaceOrder[i], KindOrder[col]) : IsAnnotationExists(cache[o])}
    BY <1>6 DEF RemoveList
  <2>2. NamespaceOrder[i] \in RemovedNamespaces(snap)
    BY <2>1 DEF RemovedFrom
  <2>3. \A o \in batch' : NamespaceOf[o] \in RemovedNamespaces(snap)
    BY <2>1, <2>2 DEF Cell
  <2> QED
    BY <1>6, <2>3 DEF RemoveList, BatchRemoved, RemovedNamespaces
<1>7. ASSUME NEW view, NEW o \in Objects, RemoveUpdate(view, o)
      PROVE  BatchRemoved'
  BY <1>0, <1>1, <1>2, <1>7, RemoveUpdateWrites DEF ReturnError
<1>8. CASE RemoveDone
  BY <1>3, <1>8 DEF RemoveDone
<1>9. CASE CalcList \/ \E s \in Streams : Deliver(s)
  BY <1>1, <1>9 DEF CalcList, Deliver, workVars
<1>10. CASE UpdateStatus \/ TransientError \/ Restart \/ \E view : Finalize(view)
  BY <1>2, <1>10 DEF UpdateStatus, Finalize, TransientError, Restart, Return, ReturnError
<1> QED
  BY <1>4, <1>5, <1>6, <1>7, <1>8, <1>9, <1>10 DEF AnyStep, ReconcilerNext, WorkerStep

\* Whatever is between two steps of the removal, the copy of the project is the same.
LEMMA RemovedSame ==
    ASSUME snap' = snap, row' = row
    PROVE  /\ RemovedNamespaces(snap)' = RemovedNamespaces(snap)
           /\ RemovedFrom(snap, row)' = RemovedFrom(snap, row)
BY DEF RemovedNamespaces, RemovedFrom

\* A kind that is not the first is listed in the namespace of the one before.
LEMMA RowStep ==
    ASSUME IInv, RowRemoved, AnyStep
    PROVE  RowRemoved'
<1>0. TypeOK /\ WorkerFresh
  BY DEF IInv
<1>1. CASE UNCHANGED <<pc, snap, row, col>>
  BY <1>1, RemovedSame DEF RowRemoved
<1>2. CASE Idle
  BY <1>2 DEF Idle, RowRemoved
<1>3. CASE UNCHANGED vars \/ \E x \in Items : \E v \in ValuesOf(x) : Persist(x, v)
  BY <1>1, <1>3 DEF vars, reconcilerVars, workVars, Persist
<1>4. ASSUME NEW q \in Projects, Dequeue(q)
      PROVE  RowRemoved'
  BY <1>4 DEF Dequeue, RowRemoved
<1>5. CASE RemoveList
  <2>1. PICK i \in RemovedFrom(snap, row) : Advance(i)
    BY <1>5 DEF RemoveList
  <2>2. snap' = snap /\ pc' = pc
    BY <1>5 DEF RemoveList
  <2>3. col' # 1 => row' = i
    BY <2>1 DEF Advance
  <2>4. i \in DOMAIN NamespaceOrder /\ NamespaceOrder[i] \in RemovedNamespaces(snap) /\ i >= i
    <3>1. DOMAIN NamespaceOrder = 1 .. Len(NamespaceOrder)
      BY KindsAssumption, LenProperties
    <3> QED
      BY <2>1, <3>1 DEF RemovedFrom
  <2> QED
    BY <1>5, <2>2, <2>3, <2>4 DEF RemoveList, RowRemoved, RemovedFrom, RemovedNamespaces
<1>6. ASSUME NEW view, NEW o \in Objects, RemoveUpdate(view, o)
      PROVE  RowRemoved'
  BY <1>0, <1>1, <1>2, <1>6, RemoveUpdateWrites DEF ReturnError
<1>7. CASE RemoveDone \/ CalcList
  BY <1>7 DEF RemoveDone, CalcList, RowRemoved
<1>8. CASE \E s \in Streams : Deliver(s)
  BY <1>1, <1>8 DEF Deliver, workVars
<1>9. CASE UpdateStatus \/ TransientError \/ Restart \/ \E view : Finalize(view)
  BY <1>2, <1>9 DEF UpdateStatus, Finalize, TransientError, Restart, Return, ReturnError
<1> QED
  BY <1>3, <1>4, <1>5, <1>6, <1>7, <1>8, <1>9 DEF AnyStep, ReconcilerNext, WorkerStep

\* What the worker writes of an object does not name its project again while its copy
\* is current and the annotator finds that same copy.
LEMMA RemovalUnnames ==
    ASSUME IInv, BatchRemoved, pc = "remove", cur \notin stale,
           NEW o \in Objects, o \in batch, o \notin stale,
           NEW view, view[cur] = store[cur],
           NEW v \in Mutations(view, o, RemoveAnnotation(store[o]))
    PROVE  v.anno # cur
<1>1. /\ cur \in Projects /\ snap = store[cur] /\ snap \in Prq(cur)
      /\ store[o] \in Object(o)
  BY ViewType, ItemCases DEF IInv, TypeOK, ReconcilerTypeOK, WorkerFresh
<1>2. view[cur] = snap
  BY <1>1
<1>3. cur \notin Claimants(view, o)
  BY <1>2 DEF Claimants, Live, BatchRemoved, RemovedNamespaces
<1>4. RemoveAnnotation(store[o]).anno = None /\ RemoveAnnotation(store[o]) \in Object(o)
  BY <1>1, RemoveAnnotationType DEF RemoveAnnotation, Object, ObjectOver
<1>5. \A q \in Claimants(view, o) : AddAnnotation(RemoveAnnotation(store[o]), q).anno = q
  BY <1>4 DEF AddAnnotation, Object, ObjectOver
<1>6. \/ v = RemoveAnnotation(store[o])
      \/ \E q \in Claimants(view, o) : v = AddAnnotation(RemoveAnnotation(store[o]), q)
  BY DEF Mutations, Default
<1> QED
  BY <1>1, <1>3, <1>4, <1>5, <1>6, ItemsAssumption

\* A list adds one cell to what the worker has passed in the removed namespaces.
LEMMA PassedGrowth ==
    ASSUME IInv, RowRemoved, pc = "remove",
           NEW i \in RemovedFrom(snap, row), \A j \in RemovedFrom(snap, row) : i <= j,
           Advance(i), pc' = pc,
           NEW o \in Objects, NamespaceOf[o] \in RemovedNamespaces(snap), Passed(o)'
    PROVE  Passed(o) \/ o \in Cell(NamespaceOrder[i], KindOrder[col])
<1>1. /\ DOMAIN KindOrder = 1 .. Len(KindOrder) /\ Len(KindOrder) \in Nat
      /\ DOMAIN NamespaceOrder = 1 .. Len(NamespaceOrder) /\ Len(NamespaceOrder) \in Nat
      /\ row \in Nat \ {0} /\ col \in DOMAIN KindOrder
  BY KindsAssumption, LenProperties DEF IInv, TypeOK, ReconcilerTypeOK
<1>2. i \in DOMAIN NamespaceOrder /\ i >= row /\ NamespaceOrder[i] \in RemovedNamespaces(snap)
  BY DEF RemovedFrom
<1>3. PICK j \in DOMAIN NamespaceOrder :
        NamespaceOrder[j] = NamespaceOf[o] /\ Visited(j, KindOf[o])'
  BY DEF Passed
<1>4. PICK c \in DOMAIN KindOrder :
        KindOrder[c] = KindOf[o] /\ (j < row' \/ (j = row' /\ c < col'))
  BY <1>3 DEF Visited
<1>5. j < i \/ (j = i /\ (c < col \/ c = col))
  BY <1>1, <1>2, <1>3, <1>4 DEF Advance
<1>6. j < i => j < row
  BY <1>1, <1>2, <1>3 DEF RemovedFrom
<1>7. j = i /\ c < col => i = row
  <2>1. c < col => col # 1
    BY <1>1, <1>4
  <2>2. col # 1 => i <= row
    BY DEF RowRemoved
  <2> QED
    BY <1>1, <1>2, <2>1, <2>2
<1>8. CASE j < row \/ (j = row /\ c < col)
  BY <1>3, <1>4, <1>8 DEF Passed, Visited
<1>9. CASE j = i /\ c = col
  BY <1>3, <1>4, <1>9 DEF Cell
<1> QED
  BY <1>5, <1>6, <1>7, <1>8, <1>9

\* It survives every step, whichever objects an annotator names again in an update, if
\* left takes these in.
LEMMA CleanedStep ==
    ASSUME IInv, BatchRemoved, BatchRemoved', RowRemoved, NEW view, StepBy(view),
           NEW left, CleanedBut(left), NEW after, cur' = cur => left \subseteq after,
           \A o \in batch \ batch' :
              cur' = cur /\ cur \notin stale /\ store'[o] # Absent /\ store'[o].anno = cur
              => o \in after
    PROVE  CleanedBut(after)'
<1>0. /\ TypeOK /\ ApiTypeOK /\ ReconcilerTypeOK /\ CacheCoherent /\ WorkerFresh
      /\ DOMAIN store = Items /\ (pc = "idle" => batch = {} /\ stale = {})
  BY DEF IInv, TypeOK, ApiTypeOK, ReconcilerTypeOK, View
<1> SUFFICES ASSUME pc' # "idle", cur' \notin stale', NEW o \in Objects,
                    NamespaceOf[o] \in RemovedNamespaces(snap'), Passed(o)',
                    store'[o] # Absent, store'[o].anno = cur'
             PROVE  o \in batch' \union stale' \union after
  BY DEF CleanedBut, RemovedNamespaces
<1>1. CASE /\ UNCHANGED <<pc, cur, snap, row, col, batch>> /\ store'[o] = store[o]
           /\ cur \notin stale /\ (o \in stale => o \in stale')
  <2>1. Passed(o)
    BY <1>1 DEF Passed, Visited
  <2> QED
    BY <1>1, <2>1 DEF CleanedBut
<1>2. CASE Idle
  BY <1>2 DEF Idle
<1>3. CASE UNCHANGED vars
  BY <1>1, <1>3 DEF vars, apiVars, reconcilerVars, workVars
<1>4. ASSUME NEW x \in Items, NEW v \in ValuesOf(x), Persist(x, v)
      PROVE  o \in batch' \union stale' \union after
  <2>1. /\ UNCHANGED <<pc, cur, snap, row, col, batch>> /\ stale \subseteq stale'
        /\ store' = [store EXCEPT ![x] = v] /\ (v # store[x] => x \in stale')
    BY <1>4 DEF Persist, Write, workVars
  <2>2. store'[o] # store[o] => o \in stale'
    BY <1>0, <2>1, ItemCases
  <2> QED
    BY <1>1, <2>1, <2>2
<1>5. ASSUME NEW q \in Projects, Dequeue(q)
      PROVE  o \in batch' \union stale' \union after
  <2>1. pc' = "remove" /\ row' = 1 /\ col' = 1
    BY <1>5 DEF Dequeue, RowRemoved
  <2>2. DOMAIN NamespaceOrder = 1 .. Len(NamespaceOrder) /\ DOMAIN KindOrder = 1 .. Len(KindOrder)
    BY KindsAssumption, LenProperties
  <2>3. ~Passed(o)'
    BY <2>1, <2>2 DEF Passed, Visited
  <2> QED
    BY <2>3
<1>6. CASE RemoveList
  <2>1. PICK i \in RemovedFrom(snap, row) :
          /\ \A j \in RemovedFrom(snap, row) : i <= j
          /\ batch' = {x \in Cell(NamespaceOrder[i], KindOrder[col]) : IsAnnotationExists(cache[x])}
          /\ stale' = (stale \ Cell(NamespaceOrder[i], KindOrder[col]))
                      \union {x \in Cell(NamespaceOrder[i], KindOrder[col]) : Pending(x)}
          /\ Advance(i)
    BY <1>6 DEF RemoveList
  <2>2. /\ pc = "remove" /\ batch = {} /\ UNCHANGED <<pc, cur, snap, store>>
        /\ cur \in Projects
    BY <1>0, <1>6 DEF RemoveList, apiVars, ReconcilerTypeOK
  <2>3. CASE o \in Cell(NamespaceOrder[i], KindOrder[col])
    <3>1. ~Pending(o) => cache[o] = store[o]
      BY <1>0, ItemCases DEF CacheCoherent
    <3>2. IsAnnotationExists(store[o])
      BY <2>2, ItemsAssumption DEF IsAnnotationExists
    <3> QED
      BY <2>1, <2>3, <3>1, <3>2
  <2>4. CASE o \notin Cell(NamespaceOrder[i], KindOrder[col])
    <3>1. Passed(o)
      BY <2>1, <2>2, <2>4, PassedGrowth
    <3>2. cur \notin stale
      BY <2>1, <2>2, ItemCases DEF Cell
    <3> QED
      BY <2>1, <2>2, <2>4, <3>1, <3>2 DEF CleanedBut
  <2> QED
    BY <2>3, <2>4
<1>7. ASSUME NEW seen, NEW x \in Objects, RemoveUpdate(seen, x)
      PROVE  o \in batch' \union stale' \union after
  <2>1. CASE ReturnError
    BY <1>2, <2>1 DEF ReturnError
  <2>2. CASE /\ x \in batch /\ pc = "remove"
             /\ \E v \in Mutations(seen, x, RemoveAnnotation(store[x])) : Write(x, v)
             /\ batch' = batch \ {x}
             /\ UNCHANGED <<pc, cur, snap, row, col, stale>>
    <3>1. Passed(o)
      BY <2>2 DEF Passed, Visited
    <3>2. CASE o = x
      BY <2>2, <3>2
    <3>3. CASE o # x
      <4>1. store'[o] = store[o]
        BY <1>0, <2>2, <3>3, ItemCases DEF Write
      <4> QED
        BY <2>2, <3>1, <3>3, <4>1 DEF CleanedBut
    <3> QED
      BY <3>2, <3>3
  <2> QED
    BY <1>7, <2>1, <2>2 DEF RemoveUpdate
<1>8. CASE RemoveDone
  <2>1. /\ pc = "remove" /\ UNCHANGED <<cur, snap, batch, stale, store>>
        /\ RemovedFrom(snap, row) = {}
    BY <1>8 DEF RemoveDone, apiVars
  <2>2. PICK i \in DOMAIN NamespaceOrder : NamespaceOrder[i] = NamespaceOf[o]
    BY KindsAssumption DEF Range
  <2>3. PICK c \in DOMAIN KindOrder : KindOrder[c] = KindOf[o]
    BY KindsAssumption DEF Range
  <2>4. i < row
    <3>1. i \in Nat /\ row \in Nat
      BY <1>0, <2>2, KindsAssumption, LenProperties DEF ReconcilerTypeOK
    <3> QED
      BY <2>1, <2>2, <3>1 DEF RemovedFrom
  <2>5. Passed(o)
    BY <2>2, <2>3, <2>4 DEF Passed, Visited
  <2> QED
    BY <2>1, <2>5 DEF CleanedBut
<1>9. CASE CalcList
  <2>1. pc = "calculate" /\ UNCHANGED <<pc, cur, snap, batch, stale, store>>
    BY <1>9 DEF CalcList, apiVars
  <2> QED
    BY <2>1 DEF CleanedBut, Passed
<1>10. ASSUME NEW s \in Streams, Deliver(s)
       PROVE  o \in batch' \union stale' \union after
  BY <1>1, <1>10 DEF Deliver, Observe, workVars
<1>11. CASE UpdateStatus \/ TransientError \/ Restart \/ \E seen : Finalize(seen)
  BY <1>2, <1>11 DEF UpdateStatus, Finalize, TransientError, Restart, Return, ReturnError
<1>12. CASE UserRequest(view)
  BY <1>0, <1>4, <1>12, UserWrites
<1> QED
  BY <1>3, <1>5, <1>6, <1>7, <1>8, <1>9, <1>10, <1>11, <1>12
  DEF StepBy, ReconcilerNext, WorkerStep

\* While the worker goes through a batch, an object leaves it only in an update.
LEMMA BatchLeaves ==
    ASSUME IInv, BatchRemoved, NEW view, StepBy(view),
           NEW o \in batch, o \notin batch', cur' = cur
    PROVE  /\ pc = "remove" /\ o \in Objects /\ o \notin stale /\ cur \in Projects
           /\ \E seen \in {cache, view} :
                \E v \in Mutations(seen, o, RemoveAnnotation(store[o])) : Write(o, v)
<1>0. pc = "remove" /\ cur \in Projects /\ o \in Objects /\ batch # {}
  BY DEF IInv, TypeOK, ReconcilerTypeOK, BatchRemoved
<1>1. ~Idle
  BY <1>0, ItemsAssumption DEF Idle
<1>2. ASSUME NEW seen, NEW x \in Objects, RemoveUpdate(seen, x)
      PROVE  o \notin stale /\ \E v \in Mutations(seen, o, RemoveAnnotation(store[o])) : Write(o, v)
  <2>1. /\ x \notin stale /\ batch' = batch \ {x}
        /\ \E v \in Mutations(seen, x, RemoveAnnotation(store[x])) : Write(x, v)
    BY <1>1, <1>2 DEF RemoveUpdate, ReturnError
  <2>2. x = o
    BY <2>1
  <2> QED
    BY <2>1, <2>2
<1>3. ~UNCHANGED vars /\ ~UserRequest(view)
  <2>1. ~UNCHANGED batch
    OBVIOUS
  <2>2. UserRequest(view) => \E x \in Items : \E v \in ValuesOf(x) : Persist(x, v)
    BY UserWrites DEF IInv
  <2> QED
    BY <2>1, <2>2 DEF vars, reconcilerVars, workVars, Persist
<1>4. ~RemoveList /\ ~RemoveDone /\ \A p \in Projects : ~Dequeue(p)
  BY <1>0 DEF RemoveList, RemoveDone, Dequeue
<1>5. ~CalcList /\ ~UpdateStatus /\ \A seen : ~Finalize(seen)
  BY <1>0 DEF CalcList, UpdateStatus, Finalize
<1>6. ~TransientError /\ ~Restart /\ \A s \in Streams : ~Deliver(s)
  BY <1>1 DEF TransientError, Restart, ReturnError, Deliver, workVars
<1> QED
  BY <1>0, <1>2, <1>3, <1>4, <1>5, <1>6 DEF StepBy, ReconcilerNext, WorkerStep

\* The worker's annotator, where it reads the cache the worker reads, names no object
\* again: an update that leaves the annotation worked from a copy that is out of date.
LEMMA UpdateUnnames ==
    ASSUME IInv, CurDelivered, BatchRemoved, [Next]_vars, NEW o \in batch \ batch',
           cur' = cur, cur \notin stale, store'[o] # Absent, store'[o].anno = cur
    PROVE  FALSE
<1>1. /\ o \in Objects /\ o \notin stale /\ pc = "remove" /\ cur \in Projects
      /\ \E v \in Mutations(cache, o, RemoveAnnotation(store[o])) : Write(o, v)
  BY NextIsStepBy, BatchLeaves
<1>2. PICK v \in Mutations(cache, o, RemoveAnnotation(store[o])) : Write(o, v)
  BY <1>1
<1>3. cache[cur] = store[cur]
  BY <1>1, ItemCases DEF CurDelivered, IInv, CacheCoherent
<1>4. v.anno # cur
  BY <1>1, <1>2, <1>3, RemovalUnnames
<1> QED
  BY <1>1, <1>2, <1>4, ItemCases DEF Write, IInv, TypeOK, ApiTypeOK, View

\* The invariant of the cleanup is inductive.
LEMMA CleanStep ==
    ASSUME IInv, CleanInv, [Next]_vars
    PROVE  CleanInv'
<1>1. AnyStep
  BY NextIsAnyStep DEF IInv
<1>2. HaveFinalizer' /\ CurDelivered' /\ BatchRemoved' /\ RowRemoved'
  BY <1>1, NextIsStepBy, FinalizerStep, CurDeliveredStep, BatchStep, RowStep DEF CleanInv
<1>3. CleanedSoFar'
  <2>1. \A o \in batch \ batch' :
           ~(cur' = cur /\ cur \notin stale /\ store'[o] # Absent /\ store'[o].anno = cur)
    BY UpdateUnnames DEF CleanInv
  <2>2. StepBy(cache)
    BY NextIsStepBy
  <2>3. CleanedBut({})'
    BY <1>2, <2>1, <2>2, CleanedStep DEF CleanInv, CleanedSoFar
  <2> QED
    BY <2>3 DEF CleanedSoFar
<1> QED
  BY <1>2, <1>3 DEF CleanInv

\* An empty cluster satisfies it.
LEMMA CleanInit == Init => CleanInv
BY ItemCases DEF Init, ApiInit, ReconcilerInit, CleanInv, HaveFinalizer, CurDelivered, BatchRemoved,
   RowRemoved, CleanedSoFar, CleanedBut

\* It holds throughout, and the worker takes the branch its copy calls for.
LEMMA CleanAlways == Spec => []CleanInv /\ []BranchTaken
<1>1. Init => IInv /\ CleanInv /\ BranchTaken
  BY InvariantInit, CleanInit DEF Init, ReconcilerInit, BranchTaken
<1>2. IInv /\ CleanInv /\ BranchTaken /\ [Next]_vars => IInv' /\ CleanInv' /\ BranchTaken'
  BY InvariantStep, CleanStep, NextIsAnyStep, BranchStep DEF IInv
<1> QED
  BY <1>1, <1>2, PTL DEF Spec

-----------------------------------------------------------------------------
(* What is left behind *)

\* A project gives up namespaces only where its own reconcile ends, with a copy that
\* is current, and gives up those that reconcile went through.
LEMMA WhoReleases ==
    ASSUME IInv, HaveFinalizer, BranchTaken, NEW view, StepBy(view),
           NEW p \in Projects, NEW n \in Released(p)
    PROVE  /\ p = cur /\ p \notin stale /\ pc \in {"calculate", "finalize"}
           /\ n \in RemovedNamespaces(snap)
<1>0. /\ TypeOK /\ WorkerFresh /\ DOMAIN store = Items /\ p \in Items /\ p \notin Objects
      /\ store[p] # Absent /\ store[p] \in Prq(p)
  BY ViewType, ItemCases DEF IInv, TypeOK, ApiTypeOK, View, Released
<1>1. store'[p] # store[p]
  BY <1>0 DEF Released
<1>2. ~UNCHANGED apiVars /\ ~UNCHANGED vars
  BY <1>1 DEF apiVars, vars
<1>3. ~UserRequest(view)
  <2>1. ASSUME UserRequest(view), store'[p] # Absent
        PROVE  FALSE
    BY <1>0, <2>1, UserKeepsStatus DEF SameStatus, Released
  <2>2. ASSUME UserRequest(view), store'[p] = Absent
        PROVE  FALSE
    <3>1. ASSUME NEW x \in Items, NEW v, Write(x, v), x # p \/ v # Absent
          PROVE  FALSE
      BY <1>0, <2>2, <3>1 DEF Write
    <3>2. store[p].finalizer
      BY <1>0 DEF HaveFinalizer
    <3>3. ASSUME NEW q \in Projects, DeleteProject(q)
          PROVE  FALSE
      <4>1. q = p => [store[p] EXCEPT !.deleting = TRUE] # Absent
        BY <1>0, AbsentAssumption DEF Prq, PrqOver
      <4>2. \E v : Write(q, v) /\ (q = p => v = [store[p] EXCEPT !.deleting = TRUE])
        BY <3>2, <3>3 DEF DeleteProject, Persist
      <4> QED
        BY <3>1, <4>1, <4>2, ItemCases
    <3>4. ASSUME NEW q \in Projects, CreateProject(view, q)
          PROVE  FALSE
      BY <1>0, <3>1, <3>4, ItemCases DEF CreateProject, Persist
    <3>5. ASSUME NEW q \in Projects, UpdateProject(view, q)
          PROVE  FALSE
      <4>1. PICK namespaces \in NamespaceLists[q], hard \in Hards :
              Write(q, PrqDefault([store[q] EXCEPT !.namespaces = namespaces, !.hard = hard]))
        BY <3>5 DEF UpdateProject, Persist
      <4>2. q = p =>
              PrqDefault([store[q] EXCEPT !.namespaces = namespaces, !.hard = hard]) # Absent
        <5>1. q = p => [store[q] EXCEPT !.namespaces = namespaces, !.hard = hard] \in Prq(p)
          BY <1>0, <4>1 DEF Prq, PrqOver
        <5> QED
          BY <5>1, PrqDefaultType, AbsentAssumption
      <4> QED
        BY <3>1, <4>1, <4>2, ItemCases
    <3>6. ASSUME NEW o \in Objects,
                 CreateObject(view, o) \/ UpdateObject(view, o) \/ PodTerminates(o) \/ DeleteObject(o)
          PROVE  FALSE
      <4>1. o \in Items /\ o # p /\ \E v : Write(o, v)
        BY <1>0, <3>6, ItemCases
        DEF CreateObject, UpdateObject, PodTerminates, DeleteObject, Persist
      <4> QED
        BY <3>1, <4>1
    <3> QED
      BY <2>2, <3>3, <3>4, <3>5, <3>6 DEF UserRequest
  <2> QED
    BY <2>1, <2>2
<1>4. ASSUME NEW seen, NEW o \in Objects
      PROVE  ~RemoveUpdate(seen, o)
  BY <1>0, <1>1, <1>2, RemoveUpdateWrites DEF Write
<1>5. CASE UpdateStatus
  <2> DEFINE w == [snap EXCEPT !.used = UsedBy(snap.hard, lists),
                               !.statusNamespaces = snap.namespaces]
  <2>1. /\ cur \in Projects /\ cur \notin stale /\ Write(cur, w) /\ pc = "calculate"
        /\ w \in Prq(cur)
    BY <1>0, <1>2, <1>5, UpdateStatusWrites DEF UpdateStatus
  <2>2. p = cur /\ store' = [store EXCEPT ![p] = w] /\ snap = store[p]
    BY <1>0, <1>1, <2>1 DEF Write, WorkerFresh
  <2>3. w.statusNamespaces = store[p].namespaces /\ w # Absent
    BY <1>0, <2>1, <2>2, AbsentAssumption DEF Prq, PrqOver
  <2>4. n \in Range(store[p].statusNamespaces) \ Range(store[p].namespaces)
    BY <1>0, <2>2, <2>3 DEF Released
  <2>5. ~snap.deleting
    BY <2>1 DEF BranchTaken
  <2> QED
    BY <2>1, <2>2, <2>4, <2>5 DEF RemovedNamespaces
<1>6. ASSUME NEW seen, Finalize(seen)
      PROVE  /\ p = cur /\ p \notin stale /\ pc \in {"calculate", "finalize"}
             /\ n \in RemovedNamespaces(snap)
  <2>1. cur \in Projects /\ cur \notin stale /\ pc = "finalize" /\ snap.deleting
    BY <1>0, <1>2, <1>6, FinalizeWrites DEF Finalize, BranchTaken
  <2>2. snap = store[cur] /\ snap \in Prq(cur)
    BY <1>0, <2>1 DEF WorkerFresh, TypeOK, ReconcilerTypeOK
  <2>3. ~PrqDefault(RemoveFinalizer(snap)).finalizer
    BY <2>1, <2>2 DEF PrqDefault, RemoveFinalizer, Prq, PrqOver
  <2>4. Write(cur, Absent)
    BY <1>2, <1>6, <2>3 DEF Finalize
  <2>5. p = cur /\ store'[p] = Absent
    BY <1>0, <1>1, <2>1, <2>4 DEF Write
  <2> QED
    BY <1>0, <2>1, <2>2, <2>5 DEF Released, RemovedNamespaces
<1>7. CASE \/ \E q \in Projects : Dequeue(q)
           \/ RemoveList \/ RemoveDone \/ CalcList \/ TransientError \/ Restart
           \/ \E s \in Streams : Deliver(s)
  BY <1>1, <1>7 DEF Dequeue, RemoveList, RemoveDone, CalcList, TransientError, Restart, Resync,
              Deliver, Observe, apiVars
<1> QED
  BY <1>2, <1>3, <1>4, <1>5, <1>6, <1>7 DEF StepBy, ReconcilerNext, WorkerStep

\* Both branches of Reconcile that clean up leave behind only objects that a change
\* raced with, whatever users do and wherever the controller fails.
THEOREM LeavesRaced == Spec => LeavesOnlyRacedObjects
<1>1. ASSUME IInv, CleanInv, BranchTaken, [Next]_vars,
             NEW p \in Projects, NEW o \in Objects, NamespaceOf[o] \in Released(p),
             store[o] # Absent, store[o].anno = p
      PROVE  o \in stale
  <2>1. /\ p = cur /\ p \notin stale /\ pc \in {"calculate", "finalize"}
        /\ NamespaceOf[o] \in RemovedNamespaces(snap)
    BY <1>1, NextIsStepBy, WhoReleases DEF CleanInv
  <2>2. batch = {} /\ Passed(o)
    BY <1>1, <2>1 DEF CleanInv, BatchRemoved, Passed
  <2> QED
    BY <1>1, <2>1, <2>2 DEF CleanInv, CleanedSoFar, CleanedBut
<1>2. IInv /\ CleanInv /\ BranchTaken /\ [Next]_vars =>
        \A p \in Projects, o \in Objects :
          /\ NamespaceOf[o] \in Released(p)
          /\ store[o] # Absent /\ store[o].anno = p
          => o \in stale
  BY <1>1
<1> QED
  BY <1>2, Invariant, CleanAlways, PTL DEF Spec, LeavesOnlyRacedObjects

-----------------------------------------------------------------------------
(* What is stripped *)

\* Where lists are apart, an annotator that finds o named by the project that may list
\* its namespace leaves it so.
LEMMA MutationsKeepOwner ==
    ASSUME NamespacesApart, NEW view \in View, NEW p \in Projects, NEW o \in Objects,
           NEW l \in NamespaceLists[p], NamespaceOf[o] \in Range(l),
           NEW v \in Object(o), v.anno = p, NEW w \in Mutations(view, o, v)
    PROVE  w.anno = p
<1>1. ASSUME NEW q \in Claimants(view, o), w = AddAnnotation(v, q)
      PROVE  w.anno = p
  <2>1. /\ q \in Projects /\ view[q].namespaces \in NamespaceLists[q]
        /\ NamespaceOf[o] \in Range(view[q].namespaces)
    BY ItemCases DEF Claimants, Live, View, Prq, PrqOver
  <2>2. q = p
    BY <2>1 DEF NamespacesApart
  <2> QED
    BY <1>1, <2>2 DEF AddAnnotation, Object, ObjectOver
<1> QED
  BY <1>1 DEF Mutations, Default

\* Of an object in the namespace of a live project, only the removal of that project's
\* own reconcile takes the annotation, and only from a copy that is not current.
LEMMA StripStep ==
    ASSUME NamespacesApart, IInv, BatchRemoved, NEW view \in View, StepBy(view),
           NEW p \in Projects, NEW o \in Objects,
           Live(store[p]), Claims(store[p], NamespaceOf[o]),
           store[o] # Absent, store[o].anno = p, store'[o] # Absent, store'[o].anno # p
    PROVE  p = cur /\ p \in stale
<1>0. /\ TypeOK /\ ApiTypeOK /\ WorkerFresh /\ DOMAIN store = Items
      /\ o \in Items /\ o \notin Projects /\ store[o] \in Object(o)
      /\ store[p].namespaces \in NamespaceLists[p]
      /\ NamespaceOf[o] \in Range(store[p].namespaces)
  BY ViewType, ItemCases DEF IInv, TypeOK, ApiTypeOK, View, Live, Claims, Prq, PrqOver
<1>1. store'[o] # store[o] /\ ~UNCHANGED apiVars /\ ~UNCHANGED vars
  BY DEF apiVars, vars
<1>2. ASSUME NEW x \in Items, NEW v, Write(x, v)
      PROVE  x = o /\ v # Absent /\ v.anno # p
  BY <1>0, <1>1, <1>2 DEF Write
<1>3. ASSUME UserRequest(view)
      PROVE  FALSE
  <2>1. ASSUME NEW x \in Projects, CreateProject(view, x) \/ UpdateProject(view, x) \/ DeleteProject(x)
        PROVE  FALSE
    <3>1. x \in Items /\ x # o /\ \E v : Write(x, v)
      BY <1>0, <2>1, ItemCases DEF CreateProject, UpdateProject, DeleteProject, Persist
    <3> QED
      BY <1>2, <3>1
  <2>2. ASSUME NEW x \in Objects,
               CreateObject(view, x) \/ UpdateObject(view, x) \/ PodTerminates(x) \/ DeleteObject(x)
        PROVE  FALSE
    <3>1. x = o
      <4>1. x \in Items /\ \E v : Write(x, v)
        BY <2>2, ItemCases DEF CreateObject, UpdateObject, PodTerminates, DeleteObject, Persist
      <4> QED
        BY <1>2, <4>1
    <3>2. CASE CreateObject(view, x) \/ DeleteObject(x)
      BY <1>0, <1>2, <3>1, <3>2 DEF CreateObject, DeleteObject, Persist
    <3>3. CASE UpdateObject(view, x)
      <4>1. PICK shape \in UpdatedShapes(o) :
              \E v \in Mutations(view, o, [store[o] EXCEPT !.shape = shape]) : Write(o, v)
        BY <3>1, <3>3 DEF UpdateObject, Persist
      <4>2. /\ [store[o] EXCEPT !.shape = shape] \in Object(o)
            /\ [store[o] EXCEPT !.shape = shape].anno = p
        BY <1>0, <4>1 DEF UpdatedShapes, Object, ObjectOver
      <4>3. PICK given : given = [store[o] EXCEPT !.shape = shape]
        OBVIOUS
      <4>4. PICK v \in Mutations(view, o, given) : Write(o, v)
        BY <4>1, <4>3
      <4>5. PICK l \in NamespaceLists[p] : NamespaceOf[o] \in Range(l)
        BY <1>0
      <4>6. given \in Object(o) /\ given.anno = p
        BY <4>2, <4>3
      <4>7. v.anno = p
        BY <1>0, <4>4, <4>5, <4>6, MutationsKeepOwner
      <4> QED
        BY <1>0, <1>2, <4>4, <4>7
    <3>4. CASE PodTerminates(x)
      <4>1. Write(o, [store[o] EXCEPT !.shape = "Terminated"])
        BY <3>1, <3>4 DEF PodTerminates, Persist
      <4>2. [store[o] EXCEPT !.shape = "Terminated"].anno = p
        BY <1>0 DEF Object, ObjectOver
      <4> QED
        BY <1>0, <1>2, <4>1, <4>2
    <3> QED
      BY <2>2, <3>2, <3>3, <3>4
  <2> QED
    BY <1>3, <2>1, <2>2 DEF UserRequest
<1>4. ASSUME NEW seen, NEW x \in Objects, RemoveUpdate(seen, x)
      PROVE  p = cur /\ p \in stale
  <2>1. x = o
    <3>1. x \in Items /\ \E v : Write(x, v)
      BY <1>0, <1>1, <1>4, RemoveUpdateWrites, ItemCases
    <3> QED
      BY <1>2, <3>1
  <2>2. /\ pc = "remove" /\ cur \in Projects /\ snap \in Prq(cur)
        /\ NamespaceOf[o] \in RemovedNamespaces(snap)
    BY <1>0, <1>4, <2>1 DEF RemoveUpdate, BatchRemoved, TypeOK, ReconcilerTypeOK
  <2>3. PICK l \in {snap.namespaces, snap.statusNamespaces} : NamespaceOf[o] \in Range(l)
    BY <2>2 DEF RemovedNamespaces
  <2>4. l \in NamespaceLists[cur]
    <3>1. Range(<<>>) = {}
      BY DEF Range
    <3> QED
      BY <2>2, <2>3, <3>1 DEF Prq, PrqOver
  <2>5. p = cur
    BY <1>0, <2>2, <2>3, <2>4 DEF NamespacesApart
  <2>6. cur \notin stale => snap = store[p]
    BY <1>0, <2>2, <2>5 DEF WorkerFresh
  <2> QED
    BY <1>0, <2>2, <2>5, <2>6 DEF Live, RemovedNamespaces
<1>5. ~UpdateStatus /\ \A seen : ~Finalize(seen)
  <2>1. \A seen : UpdateStatus \/ Finalize(seen) => cur \in Items /\ cur # o /\ \E v : Write(cur, v)
    BY <1>0, <1>1, UpdateStatusWrites, FinalizeWrites, ItemCases
  <2> QED
    BY <1>2, <2>1
<1>6. CASE \/ \E q \in Projects : Dequeue(q)
           \/ RemoveList \/ RemoveDone \/ CalcList \/ TransientError \/ Restart
           \/ \E s \in Streams : Deliver(s)
  BY <1>1, <1>6 DEF Dequeue, RemoveList, RemoveDone, CalcList, TransientError, Restart, Resync,
              Deliver, Observe, apiVars
<1> QED
  BY <1>1, <1>3, <1>4, <1>5, <1>6 DEF StepBy, ReconcilerNext, WorkerStep

\* Where users offer no namespace to two projects, an object loses the annotation of a
\* live project that has its namespace only to a reconcile of that project that is
\* behind, and whose status update will be refused.
THEOREM StripsStale == NamespacesApart /\ Spec => StripsMemberOnlyWhenStale
<1>1. NamespacesApart /\ IInv /\ CleanInv /\ [Next]_vars =>
        \A p \in Projects, o \in Objects :
          /\ Live(store[p]) /\ Claims(store[p], NamespaceOf[o])
          /\ store[o] # Absent /\ store[o].anno = p
          /\ store'[o] # Absent /\ store'[o].anno # p
          => p = cur /\ p \in stale
  BY StripStep, NextIsStepBy DEF CleanInv, IInv, TypeOK, ApiTypeOK
<1>2. NamespacesApart => []NamespacesApart
  BY DEF NamespacesApart
<1> QED
  BY <1>1, <1>2, Invariant, CleanAlways, PTL DEF Spec, StripsMemberOnlyWhenStale

================================================================================
