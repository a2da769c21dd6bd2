------------------------------ MODULE Usage_proofs ------------------------------
(***************************************************************************)
(* Theorems about ProjectQuota: recorded usage follows what projects hold. *)
(***************************************************************************)
EXTENDS ProjectQuota_proofs, WellFoundedInduction

-----------------------------------------------------------------------------
(* The invariant *)

\* No object in a namespace of a live project names another project, as it is
\* stored, cached, or on its way to the cache.
NamesAgree ==
    \A p \in Projects, o \in Objects :
        Live(store[p]) /\ Claims(store[p], NamespaceOf[o]) =>
            \A v \in Seen(o) : IsAnnotationExists(v) => v.anno = p

\* The calculation has been through kind k in the i-th entry of spec.namespaces.
Visited(i, k) ==
    \E c \in DOMAIN KindOrder : KindOrder[c] = k /\ (i < row \/ (i = row /\ c < col))

\* What status records of prq is what a reconcile would record.
Accurate(prq) ==
    /\ prq.used = CurrentUsage(prq, store)
    /\ prq.statusNamespaces = prq.namespaces

\* A project that nothing is owed has an accurate record.
OnlyOwedInaccurate ==
    \A p \in Projects : Live(store[p]) /\ ~Owed(p) => Accurate(store[p])

\* While the worker's copy of its project is current and nothing that concerns the
\* project has still to be taken up, what the calculation has listed is what a
\* fresh list would give.
ListsCurrent ==
    pc = "calculate" /\ cur \notin stale /\ ~Waiting(cur) =>
        \A i \in DOMAIN snap.namespaces, o \in Objects :
            lists[i][o] = IF Visited(i, KindOf[o]) THEN ListsOf(snap, store)[i][o]
                          ELSE Absent

\* Which branch of Reconcile the worker is in.
BranchTaken ==
    /\ pc = "calculate" => ~snap.deleting
    /\ pc = "finalize" => snap.deleting

UsageInv == OnlyOwedInaccurate /\ ListsCurrent /\ BranchTaken

-----------------------------------------------------------------------------
(* Steps *)

\* A nonempty set of positions has a last one.
LEMMA LastPosition ==
    ASSUME NEW n \in Nat, NEW T \in SUBSET (1 .. n), T # {}
    PROVE  \E i \in T : \A j \in T : j <= i
<1> DEFINE U == {n - i : i \in T}
<1>1. U \subseteq Nat /\ U # {}
  <2>1. \A i \in T : i \in 1 .. n /\ n - i \in Nat
    OBVIOUS
  <2>2. PICK i \in T : TRUE
    OBVIOUS
  <2>3. n - i \in U
    BY <2>2
  <2> QED
    BY <2>1, <2>3
<1>2. PICK u \in U : \A w \in U : ~(<<w, u>> \in OpToRel(<, Nat))
  BY <1>1, NatLessThanWellFounded, WFMin
<1>3. \A w \in U : ~(w < u)
  BY <1>1, <1>2 DEF OpToRel
<1>4. PICK i \in T : u = n - i
  BY <1>2
<1>5. ASSUME NEW j \in T PROVE j <= i
  <2>1. n - j \in U
    OBVIOUS
  <2> QED
    BY <1>3, <1>4, <2>1
<1> QED
  BY <1>4, <1>5

-----------------------------------------------------------------------------
(* What is on its way *)

\* What is stored as an item is in the cache or is on its way there.
LEMMA StoredOnWay ==
    ASSUME ApiTypeOK, CacheCoherent, NEW x \in Items
    PROVE  \/ store[x] = cache[x]
           \/ \E i \in DOMAIN watch[StreamOf(x)] :
                 /\ watch[StreamOf(x)][i].item = x
                 /\ watch[StreamOf(x)][i].val = store[x]
<1> DEFINE w == watch[StreamOf(x)]
           T == {i \in DOMAIN w : w[i].item = x}
<1>1. w \in Seq(EventsOf(StreamOf(x)))
  BY ItemStreams DEF ApiTypeOK
<1>2. DOMAIN w = 1 .. Len(w) /\ Len(w) \in Nat
  BY <1>1, LenProperties
<1>3. CASE T = {}
  BY <1>3 DEF CacheCoherent, Pending
<1>4. CASE T # {}
  <2>1. T \in SUBSET (1 .. Len(w))
    BY <1>2
  <2>2. PICK i \in T : \A j \in T : j <= i
    BY <1>2, <1>4, <2>1, LastPosition
  <2>3. \A j \in DOMAIN w : j > i => w[j].item # x
    BY <1>2, <2>2
  <2> QED
    BY <2>2, <2>3 DEF CacheCoherent
<1> QED
  BY <1>3, <1>4

\* The events after a write that changes something.
LEMMA WriteEvents ==
    ASSUME ApiTypeOK, NEW x \in Items, NEW v \in ValuesOf(x), Write(x, v), v # store[x],
           NEW y \in Items
    PROVE  LET w == watch[StreamOf(y)]
           IN /\ DOMAIN w \subseteq DOMAIN watch'[StreamOf(y)]
              /\ \A i \in DOMAIN w : watch'[StreamOf(y)][i] = w[i]
              /\ y = x => \E i \in DOMAIN watch'[StreamOf(y)] :
                             watch'[StreamOf(y)][i] = [item |-> x, val |-> v]
<1> DEFINE s == StreamOf(x)
           e == [item |-> x, val |-> v]
<1>1. s \in Streams /\ StreamOf(y) \in Streams
      /\ watch[s] \in Seq(EventsOf(s)) /\ e \in EventsOf(s)
  BY ItemStreams, EventType DEF ApiTypeOK
<1>2. /\ watch'[s] = Append(watch[s], e)
      /\ \A t \in Streams : t # s => watch'[t] = watch[t]
  BY <1>1 DEF Write, ApiTypeOK
<1>3. /\ DOMAIN watch'[s] = 1 .. Len(watch[s]) + 1
      /\ DOMAIN watch[s] = 1 .. Len(watch[s]) /\ Len(watch[s]) \in Nat
      /\ \A i \in 1 .. Len(watch[s]) : watch'[s][i] = watch[s][i]
      /\ watch'[s][Len(watch[s]) + 1] = e
  BY <1>1, <1>2, AppendProperties, LenProperties
<1>4. Len(watch[s]) + 1 \in DOMAIN watch'[s]
  BY <1>3
<1>5. CASE StreamOf(y) = s
  BY <1>3, <1>4, <1>5
<1>6. CASE StreamOf(y) # s
  BY <1>1, <1>2, <1>6
<1> QED
  BY <1>5, <1>6

\* A write takes nothing from what is on its way, and puts the new value of its
\* item there next to the old one.
LEMMA WriteSeen ==
    ASSUME ApiTypeOK, CacheCoherent, NEW x \in Items, NEW v \in ValuesOf(x), Write(x, v)
    PROVE  /\ \A y \in Items : /\ Pending(y) => Pending(y)'
                               /\ Seen(y) \subseteq Seen(y)'
           /\ v # store[x] => Pending(x)'
           /\ store' = [store EXCEPT ![x] = v] /\ store'[x] = v
<1>0. store' = [store EXCEPT ![x] = v] /\ store'[x] = v /\ cache' = cache
  BY DEF Write, ApiTypeOK, View
<1>1. CASE v = store[x]
  <2>1. store' = store /\ watch' = watch
    BY <1>1 DEF Write, ApiTypeOK, View
  <2> QED
    BY <1>0, <1>1, <2>1 DEF Pending, Seen
<1>2. CASE v # store[x]
  <2>1. ASSUME NEW y \in Items, NEW i \in DOMAIN watch[StreamOf(y)]
        PROVE  i \in DOMAIN watch'[StreamOf(y)] /\ watch'[StreamOf(y)][i] = watch[StreamOf(y)][i]
    BY <1>2, WriteEvents
  <2>2. ASSUME NEW y \in Items, NEW i \in DOMAIN watch[StreamOf(y)],
               watch[StreamOf(y)][i].item = y
        PROVE  Pending(y)' /\ watch[StreamOf(y)][i].val \in Seen(y)'
    BY <2>1, <2>2 DEF Pending, Seen
  <2>3. ASSUME NEW y \in Items
        PROVE  store[y] \in Seen(y)' /\ cache[y] \in Seen(y)'
    <3>1. cache[y] \in Seen(y)'
      BY <1>0 DEF Seen
    <3> QED
      BY <2>2, <3>1, StoredOnWay
  <2>4. \A y \in Items : Seen(y) \subseteq Seen(y)'
    BY <2>2, <2>3 DEF Seen
  <2>5. PICK i \in DOMAIN watch'[StreamOf(x)] :
          watch'[StreamOf(x)][i] = [item |-> x, val |-> v]
    BY <1>2, WriteEvents
  <2>6. Pending(x)'
    BY <2>5 DEF Pending
  <2> QED
    BY <1>0, <2>2, <2>4, <2>6 DEF Pending
<1> QED
  BY <1>1, <1>2

\* When an informer takes an event, what was on its way still is, unless it is
\* what the item was cached as or is cached as now.
LEMMA ObserveSeen ==
    ASSUME ApiTypeOK, CacheCoherent, NEW s \in Streams, Observe(s), NEW y \in Items
    PROVE  LET e == Head(watch[s])
           IN /\ Pending(y) => y = e.item \/ Pending(y)'
              /\ y # e.item => Seen(y) \subseteq Seen(y)'
              /\ y = e.item => \A v \in Seen(y) \ {cache[y], e.val} :
                                   Pending(y)' /\ v \in Seen(y)'
<1> DEFINE e == Head(watch[s])
<1>1. /\ watch[s] \in Seq(EventsOf(s)) /\ watch[s] # <<>>
      /\ e.item \in Items /\ StreamOf(e.item) = s /\ e = watch[s][1]
  BY HeadType DEF Observe, ApiTypeOK
<1>2. /\ watch'[s] = Tail(watch[s])
      /\ \A t \in Streams : t # s => watch'[t] = watch[t]
      /\ store' = store /\ cache' = [cache EXCEPT ![e.item] = e.val]
      /\ StreamOf(y) \in Streams
  BY ItemStreams DEF Observe, ApiTypeOK
<1>3. /\ DOMAIN watch[s] = 1 .. Len(watch[s]) /\ Len(watch[s]) \in Nat \ {0}
      /\ DOMAIN watch'[s] = 1 .. Len(watch[s]) - 1
      /\ \A i \in 1 .. Len(watch[s]) - 1 : watch'[s][i] = watch[s][i + 1]
  BY <1>1, <1>2, EmptySeq, HeadTailProperties, LenProperties
<1>4. ASSUME NEW i \in DOMAIN watch[StreamOf(y)], watch[StreamOf(y)][i].item = y
      PROVE  \/ y = e.item /\ watch[StreamOf(y)][i].val = e.val
             \/ \E j \in DOMAIN watch'[StreamOf(y)] :
                   watch'[StreamOf(y)][j] = watch[StreamOf(y)][i]
  <2>1. CASE StreamOf(y) # s
    BY <1>2, <2>1
  <2>2. CASE StreamOf(y) = s /\ i = 1
    BY <1>1, <1>4, <2>2
  <2>3. CASE StreamOf(y) = s /\ i # 1
    <3>1. i - 1 \in DOMAIN watch'[s] /\ watch'[s][i - 1] = watch[s][i]
      BY <1>3, <2>3
    <3> QED
      BY <2>3, <3>1
  <2> QED
    BY <2>1, <2>2, <2>3
<1>5. Pending(y) => y = e.item \/ Pending(y)'
  BY <1>4 DEF Pending
<1>6. ASSUME NEW i \in DOMAIN watch[StreamOf(y)], watch[StreamOf(y)][i].item = y,
             y # e.item \/ watch[StreamOf(y)][i].val # e.val
      PROVE  Pending(y)' /\ watch[StreamOf(y)][i].val \in Seen(y)'
  BY <1>4, <1>6 DEF Pending, Seen
<1>7. y # e.item => Seen(y) \subseteq Seen(y)'
  <2>1. y # e.item => store[y] \in Seen(y)' /\ cache[y] \in Seen(y)'
    BY <1>2 DEF Seen, ApiTypeOK, View
  <2> QED
    BY <1>6, <2>1 DEF Seen
<1>8. ASSUME y = e.item, NEW v \in Seen(y), v # cache[y], v # e.val
      PROVE  Pending(y)' /\ v \in Seen(y)'
  <2>1. PICK i \in DOMAIN watch[StreamOf(y)] :
          watch[StreamOf(y)][i].item = y /\ watch[StreamOf(y)][i].val = v
    BY <1>8, StoredOnWay DEF Seen
  <2> QED
    BY <1>6, <1>8, <2>1
<1> QED
  BY <1>5, <1>7, <1>8

-----------------------------------------------------------------------------
(* Who is waiting *)

\* A write that changes a project, or an object that names it before or after, has
\* the project wait.
LEMMA WriteWakes ==
    ASSUME ApiTypeOK, CacheCoherent, NEW x \in Items, NEW v \in ValuesOf(x), Write(x, v),
           v # store[x], NEW p \in Projects,
           \/ x = p
           \/ /\ x \in Objects
              /\ \/ store[x] # Absent /\ store[x].anno = p
                 \/ v # Absent /\ v.anno = p
    PROVE  Waiting(p)'
<1>1. Pending(x)' /\ store'[x] = v /\ Seen(x) \subseteq Seen(x)'
  BY WriteSeen
<1>2. store[x] \in Seen(x)' /\ v \in Seen(x)'
  BY <1>1 DEF Seen
<1> HIDE DEF Write
<1> QED
  BY <1>1, <1>2 DEF Waiting

\* A write ends nobody's wait.
LEMMA WriteWaiting ==
    ASSUME ApiTypeOK, CacheCoherent, NEW x \in Items, NEW v \in ValuesOf(x), Write(x, v),
           queue \subseteq queue', NEW p \in Projects, Waiting(p)
    PROVE  Waiting(p)'
<1>1. \A y \in Items : (Pending(y) => Pending(y)') /\ Seen(y) \subseteq Seen(y)'
  BY WriteSeen
<1>2. CASE p \in queue \/ Pending(p)
  BY <1>1, <1>2, ItemCases DEF Waiting
<1>3. ASSUME NEW o \in Objects, Pending(o), NEW w \in Seen(o), w # Absent, w.anno = p
      PROVE  Waiting(p)'
  <2>1. Pending(o)' /\ w \in Seen(o)'
    BY <1>1, <1>3, ItemCases
  <2> QED
    BY <1>3, <2>1 DEF Waiting
<1> QED
  BY <1>2, <1>3 DEF Waiting

\* Nor does a delivery: the projects it makes nothing more wait for are enqueued.
LEMMA DeliverWaiting ==
    ASSUME ApiTypeOK, CacheCoherent, NEW s \in Streams, Deliver(s),
           NEW p \in Projects, Waiting(p)
    PROVE  Waiting(p)'
<1> DEFINE e == Head(watch[s])
<1>0. Observe(s) /\ e.item \in Items
  BY HeadType DEF Deliver, Observe
<1>1. /\ queue \subseteq queue'
      /\ e.item \in Projects => e.item \in queue'
      /\ e.item \in Objects => findObjects(cache[e.item], e.val) \subseteq queue'
  BY ItemCases DEF Deliver
<1>2. CASE p \in queue
  BY <1>1, <1>2 DEF Waiting
<1>3. CASE Pending(p)
  <2>1. p = e.item \/ Pending(p)'
    BY <1>0, <1>3, ObserveSeen, ItemCases
  <2> QED
    BY <1>1, <2>1 DEF Waiting
<1>4. ASSUME NEW o \in Objects, Pending(o), NEW w \in Seen(o), w # Absent, w.anno = p
      PROVE  Waiting(p)'
  <2>1. CASE o # e.item
    <3>1. Pending(o)' /\ w \in Seen(o)'
      BY <1>0, <1>4, <2>1, ObserveSeen, ItemCases
    <3> QED
      BY <1>4, <3>1 DEF Waiting
  <2>2. CASE o = e.item /\ w \notin {cache[o], e.val}
    <3>1. Pending(o)' /\ w \in Seen(o)'
      BY <1>0, <2>2, ObserveSeen, ItemCases
    <3> QED
      BY <1>4, <3>1 DEF Waiting
  <2>3. CASE o = e.item /\ w \in {cache[o], e.val}
    <3>1. IsAnnotationExists(w)
      BY <1>4, ItemsAssumption DEF IsAnnotationExists
    <3>2. p \in findObjects(cache[o], e.val)
      BY <1>4, <2>3, <3>1 DEF findObjects
    <3> QED
      BY <1>1, <2>3, <3>2 DEF Waiting
  <2> QED
    BY <2>1, <2>2, <2>3
<1> QED
  BY <1>2, <1>3, <1>4 DEF Waiting

\* A step writes one value of one item, takes an event, lists everything again, or
\* leaves the API server and its informers alone.
LEMMA ApiStep ==
    ASSUME IInv, AnyStep
    PROVE  \/ UNCHANGED apiVars
           \/ \E x \in Items : \E v \in ValuesOf(x) : Write(x, v)
           \/ \E s \in Streams : Observe(s)
           \/ Resync
<1>0. TypeOK /\ WorkerFresh
  BY DEF IInv
<1>1. CASE UNCHANGED vars
  BY <1>1 DEF vars
<1>2. CASE \E x \in Items : \E v \in ValuesOf(x) : Persist(x, v)
  BY <1>2 DEF Persist
<1>3. CASE \E view : \E o \in Objects : RemoveUpdate(view, o)
  BY <1>0, <1>3, RemoveUpdateWrites, ItemCases
<1>4. CASE UpdateStatus
  BY <1>0, <1>4, UpdateStatusWrites, ItemCases
<1>5. CASE \E view : Finalize(view)
  BY <1>0, <1>5, FinalizeWrites, ItemCases
<1>6. CASE (\E p \in Projects : Dequeue(p)) \/ RemoveList \/ RemoveDone \/ CalcList \/ TransientError
  BY <1>6 DEF Dequeue, RemoveList, RemoveDone, CalcList, TransientError
<1>7. CASE (\E s \in Streams : Deliver(s)) \/ Restart
  BY <1>7 DEF Deliver, Restart
<1> QED
  BY <1>1, <1>2, <1>3, <1>4, <1>5, <1>6, <1>7 DEF AnyStep, ReconcilerNext, WorkerStep

-----------------------------------------------------------------------------
(* What a project holds *)

\* What a reconcile lists for a project depends on the project's lists and limits
\* and on the objects in its namespaces.
LEMMA ListsDepend ==
    ASSUME NEW old, NEW new, NEW before, NEW after,
           new.namespaces = old.namespaces, new.hard = old.hard,
           \A o \in Objects : \/ after[o] = before[o]
                              \/ /\ NamespaceOf[o] \notin Range(old.namespaces)
                              \/ /\ ~IsAnnotationExists(before[o])
                                 /\ ~IsAnnotationExists(after[o])
    PROVE  ListsOf(new, after) = ListsOf(old, before)
<1>1. ASSUME NEW i \in DOMAIN old.namespaces, NEW o \in Objects
      PROVE  ListsOf(new, after)[i][o] = ListsOf(old, before)[i][o]
  <2>1. old.namespaces[i] \in Range(old.namespaces)
    BY DEF Range
  <2> QED
    BY <2>1 DEF ListsOf, AnnotatedIn
<1> QED
  BY <1>1 DEF ListsOf

\* So does its usage.
LEMMA UsageDepends ==
    ASSUME NEW old, NEW new, NEW before, NEW after,
           new.hard = old.hard, ListsOf(new, after) = ListsOf(old, before)
    PROVE  CurrentUsage(new, after) = CurrentUsage(old, before)
BY DEF CurrentUsage

\* A write after which a project does not wait changes neither the project nor
\* anything it lists: whatever names a live project's namespace and an annotation
\* names that project, and so would have it wait.
LEMMA QuietWrite ==
    ASSUME ApiTypeOK, CacheCoherent, NamesAgree, NamesAgree',
           NEW x \in Items, NEW v \in ValuesOf(x), Write(x, v),
           NEW p \in Projects, ~Waiting(p)'
    PROVE  /\ store'[p] = store[p]
           /\ Live(store[p]) => ListsOf(store[p], store') = ListsOf(store[p], store)
<1>1. /\ store' = [store EXCEPT ![x] = v] /\ store'[x] = v /\ DOMAIN store = Items
      /\ \A y \in Items : y # x => store'[y] = store[y]
  BY WriteSeen DEF ApiTypeOK, View
<1>2. CASE v = store[x]
  <2>1. store' = store
    BY <1>1, <1>2 DEF ApiTypeOK, View
  <2> QED
    BY <2>1
<1>3. CASE v # store[x]
  <2>1. x # p /\ store'[p] = store[p]
    BY <1>1, <1>3, WriteWakes, ItemCases
  <2>2. ASSUME Live(store[p]), NEW o \in Objects, store'[o] # store[o],
               NamespaceOf[o] \in Range(store[p].namespaces)
        PROVE  ~IsAnnotationExists(store[o]) /\ ~IsAnnotationExists(store'[o])
    <3>1. o = x /\ store'[o] = v
      BY <1>1, <2>2, ItemCases
    <3>2. Claims(store[p], NamespaceOf[o])
      BY <2>2 DEF Claims, Live
    <3>3. Claims(store[p], NamespaceOf[o])' /\ Live(store[p])'
      BY <2>1, <2>2, <3>2
    <3>4. store[o] \in Seen(o) /\ store'[o] \in Seen(o)'
      BY DEF Seen
    <3>5. /\ IsAnnotationExists(store[o]) => store[o].anno = p
          /\ IsAnnotationExists(store'[o]) => store'[o].anno = p
      BY <2>2, <3>2, <3>3, <3>4 DEF NamesAgree
    <3> QED
      BY <1>3, <3>1, <3>5, WriteWakes, ItemCases DEF IsAnnotationExists
  <2>3. Live(store[p]) => ListsOf(store[p], store') = ListsOf(store[p], store)
    BY <2>2, ListsDepend
  <2> QED
    BY <2>1, <2>3
<1> QED
  BY <1>2, <1>3

\* A step after which a project is not owed anything changes neither the project nor
\* anything it lists.
LEMMA QuietStep ==
    ASSUME IInv, AnyStep, NamesAgree, NamesAgree', NEW p \in Projects, ~Waiting(p)'
    PROVE  /\ store'[p] = store[p]
           /\ Live(store[p]) => ListsOf(store[p], store') = ListsOf(store[p], store)
<1>1. CASE store' = store
  BY <1>1
<1>2. ASSUME NEW x \in Items, NEW v \in ValuesOf(x), Write(x, v)
      PROVE  /\ store'[p] = store[p]
             /\ Live(store[p]) => ListsOf(store[p], store') = ListsOf(store[p], store)
  BY <1>2, QuietWrite DEF IInv, TypeOK
<1> QED
  BY <1>1, <1>2, ApiStep DEF apiVars, Observe, Resync

-----------------------------------------------------------------------------
(* The worker's calculation *)

\* When the calculation has gone through its whole grid, and its project is current
\* and does not wait, its totals are those of a fresh reconcile.
LEMMA CalculationAccurate ==
    ASSUME IInv, ListsCurrent, pc = "calculate", row > Len(snap.namespaces),
           cur \notin stale, ~Waiting(cur)
    PROVE  UsedBy(snap.hard, lists) = CurrentUsage(snap, store)
<1> DEFINE fresh == ListsOf(snap, store)
<1>1. /\ cur \in Projects /\ snap \in Prq(cur)
      /\ DOMAIN lists = DOMAIN snap.namespaces /\ row \in Nat \ {0}
  BY DEF IInv, TypeOK, ReconcilerTypeOK
<1>2. DOMAIN snap.namespaces = 1 .. Len(snap.namespaces) /\ Len(snap.namespaces) \in Nat
  <2>1. snap.namespaces \in Seq(Range(NamespaceOrder))
    BY <1>1, ItemsAssumption DEF Prq, PrqOver
  <2> QED
    BY <2>1, LenProperties
<1>3. ASSUME NEW i \in DOMAIN snap.namespaces, NEW o \in Objects
      PROVE  lists[i][o] = fresh[i][o]
  <2>1. PICK c \in DOMAIN KindOrder : KindOrder[c] = KindOf[o]
    BY KindsAssumption DEF Range
  <2>2. Visited(i, KindOf[o])
    BY <1>1, <1>2, <2>1 DEF Visited
  <2> QED
    BY <1>3, <2>2 DEF ListsCurrent
<1>4. DOMAIN fresh = DOMAIN lists
  BY <1>1 DEF ListsOf
<1>5. ASSUME NEW r \in Resources
      PROVE  Charges(lists, r) = Charges(fresh, r)
  <2> HIDE DEF fresh
  <2> QED
    BY <1>1, <1>3, <1>4 DEF Charges
<1> QED
  BY <1>5 DEF CurrentUsage, UsedBy

\* Listing a kind in a namespace while the project is current and does not wait finds
\* what is stored: an object it missed, or saw at an older version, would have an
\* event to come that names the project.
LEMMA ListedCurrent ==
    ASSUME IInv, NamesAgree, pc = "calculate", cur \notin stale, ~Waiting(cur), ~snap.deleting,
           NEW i \in DOMAIN snap.namespaces, NEW o \in Objects,
           NamespaceOf[o] = snap.namespaces[i],
           IsAnnotationExists(cache[o]) \/ IsAnnotationExists(store[o])
    PROVE  cache[o] = store[o]
<1>1. cur \in Projects /\ snap \in Prq(cur) /\ snap = store[cur] /\ CacheCoherent
  BY DEF IInv, TypeOK, ReconcilerTypeOK, WorkerFresh
<1>2. Live(store[cur]) /\ Claims(store[cur], NamespaceOf[o])
  BY <1>1, AbsentAssumption DEF Live, Claims, Range
<1>3. store[o] \in Seen(o) /\ cache[o] \in Seen(o)
  BY DEF Seen
<1>4. \E v \in Seen(o) : v # Absent /\ v.anno = cur
  BY <1>1, <1>2, <1>3 DEF NamesAgree, IsAnnotationExists
<1>5. ~Pending(o)
  BY <1>4 DEF Waiting
<1> QED
  BY <1>1, <1>5, ItemCases DEF CacheCoherent

\* A list adds its kind to what the calculation has been through, in its namespace.
LEMMA AdvanceVisited ==
    ASSUME ReconcilerTypeOK, Advance(row), NEW i \in Nat, NEW k
    PROVE  Visited(i, k)' <=> Visited(i, k) \/ (i = row /\ k = KindOrder[col])
<1>1. /\ DOMAIN KindOrder = 1 .. Len(KindOrder) /\ Len(KindOrder) \in Nat
      /\ row \in Nat /\ col \in DOMAIN KindOrder
  BY KindsAssumption, LenProperties DEF ReconcilerTypeOK
<1>2. ASSUME NEW c \in DOMAIN KindOrder
      PROVE  (i < row' \/ (i = row' /\ c < col')) <=>
             (i < row \/ (i = row /\ c < col)) \/ (i = row /\ c = col)
  BY <1>1 DEF Advance
<1>3. Visited(i, k)' <=>
        \E c \in DOMAIN KindOrder : KindOrder[c] = k /\ (i < row' \/ (i = row' /\ c < col'))
  BY DEF Visited
<1> QED
  BY <1>1, <1>2, <1>3 DEF Visited

\* A list keeps ListsCurrent.
LEMMA CalcListCurrent ==
    ASSUME IInv, NamesAgree, ListsCurrent, BranchTaken, CalcList
    PROVE  ListsCurrent'
<1> DEFINE k == KindOrder[col]
           found == AnnotatedIn(cache, snap.namespaces[row], k)
           fresh == ListsOf(snap, store)
<1> SUFFICES ASSUME pc = "calculate", cur \notin stale, ~Waiting(cur),
                    NEW i \in DOMAIN snap.namespaces, NEW o \in Objects
             PROVE  lists'[i][o] = IF Visited(i, KindOf[o])' THEN fresh[i][o] ELSE Absent
  <2>1. UNCHANGED <<pc, cur, snap, stale, queue, store, cache, watch>>
    BY DEF CalcList, apiVars
  <2>2. Waiting(cur)' <=> Waiting(cur)
    BY <2>1 DEF Waiting, Pending, Seen
  <2> QED
    BY <2>1, <2>2 DEF ListsCurrent
<1>1. /\ cur \in Projects /\ snap \in Prq(cur) /\ ~snap.deleting
      /\ DOMAIN lists = DOMAIN snap.namespaces /\ ReconcilerTypeOK
      /\ \A j \in DOMAIN lists : DOMAIN lists[j] = Objects
      /\ row \in Nat /\ Advance(row)
  BY DEF IInv, TypeOK, ReconcilerTypeOK, CalcList, BranchTaken
<1>2. DOMAIN snap.namespaces = 1 .. Len(snap.namespaces) /\ i \in Nat
  <2>1. snap.namespaces \in Seq(Range(NamespaceOrder))
    BY <1>1, ItemsAssumption DEF Prq, PrqOver
  <2> QED
    BY <2>1, LenProperties
<1>3. Visited(i, KindOf[o])' <=> Visited(i, KindOf[o]) \/ (i = row /\ KindOf[o] = k)
  BY <1>1, <1>2, AdvanceVisited
<1>4. lists[i][o] = IF Visited(i, KindOf[o]) THEN fresh[i][o] ELSE Absent
  BY DEF ListsCurrent
<1>5. lists' = IF Counts(snap.hard, k)
               THEN [lists EXCEPT ![row] =
                        [x \in Objects |-> IF x \in found THEN cache[x] ELSE @[x]]]
               ELSE lists
  BY DEF CalcList
<1>6. CASE i = row /\ KindOf[o] = k /\ Counts(snap.hard, k)
  <2>1. lists'[i][o] = IF o \in found THEN cache[o] ELSE lists[i][o]
    BY <1>1, <1>5, <1>6
  <2>2. fresh[i][o] = IF o \in AnnotatedIn(store, snap.namespaces[i], k) THEN store[o] ELSE Absent
    BY <1>6 DEF ListsOf
  <2>3. o \in found \/ o \in AnnotatedIn(store, snap.namespaces[i], k) => cache[o] = store[o]
    BY <1>1, <1>6, ListedCurrent DEF AnnotatedIn
  <2> QED
    BY <1>3, <1>4, <1>6, <2>1, <2>2, <2>3 DEF AnnotatedIn
<1>7. CASE i = row /\ KindOf[o] = k /\ ~Counts(snap.hard, k)
  BY <1>3, <1>4, <1>5, <1>7 DEF ListsOf
<1>8. CASE ~(i = row /\ KindOf[o] = k)
  <2>1. lists'[i][o] = lists[i][o]
    BY <1>1, <1>5, <1>8 DEF AnnotatedIn
  <2> QED
    BY <1>3, <1>4, <1>8, <2>1
<1> QED
  BY <1>6, <1>7, <1>8

-----------------------------------------------------------------------------
(* Recorded usage *)

\* A reconcile that ends with an error still owes what was owed.
LEMMA ReturnErrorOwed ==
    ASSUME ReturnError, UNCHANGED apiVars, NEW p \in Projects, Owed(p)
    PROVE  Owed(p)'
<1>1. queue' = queue \union {cur} /\ UNCHANGED <<store, cache, watch>>
  BY DEF ReturnError, apiVars
<1>2. CASE p \in queue \/ p = cur \/ Pending(p)
  BY <1>1, <1>2 DEF Owed, Waiting, Pending
<1>3. ASSUME NEW o \in Objects, Pending(o), NEW v \in Seen(o), v # Absent, v.anno = p
      PROVE  Owed(p)'
  <2>1. Pending(o)' /\ v \in Seen(o)'
    BY <1>1, <1>3 DEF Pending, Seen
  <2> QED
    BY <1>3, <2>1 DEF Owed, Waiting
<1> QED
  BY <1>2, <1>3 DEF Owed, Waiting

\* A step that leaves the API and the queue alone leaves who waits.
LEMMA SameWaiting ==
    ASSUME UNCHANGED apiVars, queue \subseteq queue', NEW p \in Projects, Waiting(p)
    PROVE  Waiting(p)'
<1>1. UNCHANGED <<store, cache, watch>>
  BY DEF apiVars
<1>2. CASE p \in queue \/ Pending(p)
  BY <1>1, <1>2 DEF Waiting, Pending
<1>3. ASSUME NEW o \in Objects, Pending(o), NEW v \in Seen(o), v # Absent, v.anno = p
      PROVE  Waiting(p)'
  <2>1. Pending(o)' /\ v \in Seen(o)'
    BY <1>1, <1>3 DEF Pending, Seen
  <2> QED
    BY <1>3, <2>1 DEF Waiting
<1> QED
  BY <1>2, <1>3 DEF Waiting

\* A live project stops being owed a reconcile only in a step that finds its record
\* right: the status update of a current calculation that changes nothing.
LEMMA SettlesAccurate ==
    ASSUME IInv, UsageInv, NamesAgree, NamesAgree', AnyStep,
           NEW p \in Projects, Live(store[p]), Owed(p), ~Owed(p)'
    PROVE  Accurate(store[p])
<1>0. /\ TypeOK /\ ApiTypeOK /\ ReconcilerTypeOK /\ CacheCoherent /\ WorkerFresh
      /\ p \in Items /\ ~Waiting(p)'
  BY ItemCases DEF IInv, TypeOK, Owed
<1>1. CASE ReturnError /\ UNCHANGED apiVars
  BY <1>1, ReturnErrorOwed
<1>2. CASE UNCHANGED apiVars /\ queue \subseteq queue' /\ cur' = cur
  BY <1>2, SameWaiting DEF Owed
<1>3. CASE /\ \E x \in Items : \E v \in ValuesOf(x) : Write(x, v)
           /\ queue \subseteq queue' /\ cur' = cur
  BY <1>0, <1>3, WriteWaiting DEF Owed
<1>4. CASE UNCHANGED vars
  BY <1>2, <1>4 DEF vars, reconcilerVars, workVars
<1>5. CASE \E x \in Items : \E v \in ValuesOf(x) : Persist(x, v)
  BY <1>3, <1>5 DEF Persist, workVars
<1>6. ASSUME NEW q \in Projects, Dequeue(q)
      PROVE  Accurate(store[p])
  <2>1. pc = "idle" /\ cur = None /\ queue' = queue \ {q} /\ UNCHANGED <<store, cache, watch>>
    BY <1>0, <1>6 DEF Dequeue, ReconcilerTypeOK, apiVars
  <2>2. Waiting(p)
    BY <2>1, ItemsAssumption DEF Owed
  <2>3. ~Pending(p) /\ \A o \in Objects : Pending(o) => \A v \in Seen(o) : v = Absent \/ v.anno # p
    BY <1>0, <2>1 DEF Waiting, Pending, Seen
  <2>4. p = q
    BY <1>0, <2>1, <2>2, <2>3 DEF Waiting
  <2>5. cache[p] = store[p]
    BY <1>0, <2>3 DEF CacheCoherent
  <2> QED
    BY <1>6, <2>4, <2>5 DEF Dequeue, Live, Owed
<1>7. CASE RemoveList \/ RemoveDone \/ CalcList
  BY <1>2, <1>7 DEF RemoveList, RemoveDone, CalcList
<1>8. ASSUME NEW view, NEW o \in Objects, RemoveUpdate(view, o)
      PROVE  Accurate(store[p])
  BY <1>0, <1>1, <1>3, <1>8, RemoveUpdateWrites, ItemCases
<1>9. CASE UpdateStatus
  <2> DEFINE w == [snap EXCEPT !.used = UsedBy(snap.hard, lists),
                               !.statusNamespaces = snap.namespaces]
  <2>1. CASE Write(cur, w) /\ w \in Prq(cur) /\ cur \in Projects /\ cur \notin stale /\ Return
    <3>0. w \in ValuesOf(cur) /\ cur \in Items /\ queue \subseteq queue'
      BY <2>1, ItemCases DEF Return
    <3>1. ~Waiting(p)
      BY <1>0, <2>1, <3>0, WriteWaiting
    <3>2. p = cur /\ snap = store[cur] /\ snap \in Prq(cur)
      BY <1>0, <1>9, <2>1, <3>1 DEF Owed, UpdateStatus, WorkerFresh, ReconcilerTypeOK
    <3>3. w = store[cur]
      BY <1>0, <2>1, <3>0, <3>2, WriteWakes
    <3>4. UsedBy(snap.hard, lists) = CurrentUsage(snap, store)
      BY <1>9, <2>1, <3>1, <3>2, CalculationAccurate DEF UsageInv, UpdateStatus
    <3>5. w.used = UsedBy(snap.hard, lists) /\ w.statusNamespaces = snap.namespaces
      BY <3>2 DEF Prq, PrqOver
    <3> QED
      BY <3>2, <3>3, <3>4, <3>5 DEF Accurate
  <2> QED
    BY <1>0, <1>1, <1>9, <2>1, UpdateStatusWrites
<1>10. ASSUME NEW view, Finalize(view)
       PROVE  Accurate(store[p])
  <2>1. CASE /\ cur \in Projects /\ cur \notin stale
             /\ \E v \in ValuesOf(cur) : Write(cur, v)
             /\ Return
    <3>1. ~Waiting(p)
      BY <1>0, <2>1, WriteWaiting, ItemCases DEF Return
    <3>2. p = cur /\ snap = store[cur]
      BY <1>0, <1>10, <2>1, <3>1 DEF Owed, Finalize, WorkerFresh
    <3> QED
      BY <1>10, <3>2 DEF Finalize, UsageInv, BranchTaken, Live
  <2> QED
    BY <1>0, <1>1, <1>10, <2>1, FinalizeWrites, ItemCases
<1>11. ASSUME NEW s \in Streams, Deliver(s)
       PROVE  Accurate(store[p])
  BY <1>0, <1>11, DeliverWaiting DEF Deliver, Owed, workVars
<1>12. CASE TransientError
  BY <1>1, <1>12 DEF TransientError
<1>13. CASE Restart
  <2>1. p \in queue'
    BY <1>13 DEF Restart, StartQueue, Live
  <2> QED
    BY <1>0, <2>1 DEF Waiting
<1> QED
  BY <1>4, <1>5, <1>6, <1>7, <1>8, <1>9, <1>10, <1>11, <1>12, <1>13
  DEF AnyStep, ReconcilerNext, WorkerStep

\* OnlyOwedInaccurate survives every step.
LEMMA OnlyOwedStep ==
    ASSUME IInv, UsageInv, NamesAgree, NamesAgree', AnyStep
    PROVE  OnlyOwedInaccurate'
<1> SUFFICES ASSUME NEW p \in Projects, Live(store'[p]), ~Owed(p)'
             PROVE  Accurate(store[p])'
  BY DEF OnlyOwedInaccurate
<1>1. ~Waiting(p)'
  BY DEF Owed
<1>2. /\ store'[p] = store[p]
      /\ Live(store[p]) => ListsOf(store[p], store') = ListsOf(store[p], store)
  BY <1>1, QuietStep
<1>3. Live(store[p]) /\ CurrentUsage(store[p], store') = CurrentUsage(store[p], store)
  BY <1>2, UsageDepends
<1>4. Accurate(store[p])
  BY <1>3, SettlesAccurate DEF UsageInv, OnlyOwedInaccurate
<1> QED
  BY <1>2, <1>3, <1>4 DEF Accurate

\* So does ListsCurrent.
LEMMA ListsStep ==
    ASSUME IInv, UsageInv, NamesAgree, NamesAgree', AnyStep
    PROVE  ListsCurrent'
<1>0. /\ TypeOK /\ ApiTypeOK /\ ReconcilerTypeOK /\ CacheCoherent /\ WorkerFresh
      /\ ListsCurrent /\ BranchTaken
  BY DEF IInv, TypeOK, UsageInv
<1>1. CASE pc' # "calculate"
  BY <1>1 DEF ListsCurrent
<1>2. CASE /\ UNCHANGED <<pc, cur, snap, row, col, lists>>
           /\ stale \subseteq stale'
           /\ \A p \in Projects : Waiting(p) => Waiting(p)'
  <2> SUFFICES ASSUME NEW p \in Projects, p = cur, pc = "calculate", p \notin stale,
                      ~Waiting(p)'
               PROVE  \A i \in DOMAIN snap.namespaces, o \in Objects :
                          lists[i][o] = IF Visited(i, KindOf[o]) THEN ListsOf(snap, store')[i][o]
                                        ELSE Absent
    <3>1. \A i, k : Visited(i, k)' <=> Visited(i, k)
      BY <1>2 DEF Visited
    <3>2. pc = "calculate" => cur \in Projects
      BY <1>0 DEF ReconcilerTypeOK
    <3>3. \A p \in Projects : p = cur => (Waiting(cur)' <=> Waiting(p)')
      BY <1>2 DEF Waiting, Pending
    <3> QED
      BY <1>2, <3>1, <3>2, <3>3 DEF ListsCurrent
  <2>1. snap = store[p] /\ snap \in Prq(p) /\ ~Waiting(p)
    BY <1>0, <1>2 DEF ReconcilerTypeOK, WorkerFresh
  <2>2. Live(store[p])
    BY <1>0, <2>1, AbsentAssumption DEF BranchTaken, Live
  <2>3. ListsOf(snap, store') = ListsOf(snap, store)
    BY <2>1, <2>2, QuietStep
  <2> QED
    BY <1>0, <2>1, <2>3 DEF ListsCurrent
<1>3. CASE UNCHANGED vars
  <2>1. UNCHANGED <<pc, cur, snap, row, col, lists, stale, queue, apiVars>>
    BY <1>3 DEF vars, reconcilerVars, workVars
  <2> QED
    BY <1>2, <2>1, SameWaiting
<1>4. ASSUME NEW x \in Items, NEW v \in ValuesOf(x), Persist(x, v)
      PROVE  ListsCurrent'
  <2>1. UNCHANGED <<pc, cur, snap, row, col, lists, queue>> /\ Write(x, v) /\ stale \subseteq stale'
    BY <1>4 DEF Persist, workVars
  <2> QED
    BY <1>0, <1>2, <2>1, WriteWaiting
<1>5. ASSUME NEW p \in Projects, Dequeue(p)
      PROVE  pc' # "calculate"
  BY <1>5 DEF Dequeue
<1>6. CASE RemoveList
  BY <1>1, <1>6 DEF RemoveList
<1>7. ASSUME NEW view, NEW o \in Objects, RemoveUpdate(view, o)
      PROVE  pc' # "calculate"
  BY <1>0, <1>7, RemoveUpdateWrites DEF ReturnError, Idle, RemoveUpdate
<1>8. CASE RemoveDone
  <2>1. CASE snap.deleting
    BY <1>1, <1>8, <2>1 DEF RemoveDone
  <2>2. CASE ~snap.deleting
    <3>1. /\ lists' = [i \in DOMAIN snap.namespaces |-> [o \in Objects |-> Absent]]
          /\ row' = 1 /\ col' = 1 /\ snap' = snap
      BY <1>8, <2>2 DEF RemoveDone
    <3>2. snap \in Prq(cur) /\ cur \in Projects
      BY <1>0, <1>8 DEF ReconcilerTypeOK, RemoveDone
    <3>3. DOMAIN snap.namespaces = 1 .. Len(snap.namespaces)
          /\ DOMAIN KindOrder = 1 .. Len(KindOrder)
      <4>1. snap.namespaces \in Seq(Range(NamespaceOrder))
        BY <3>2, ItemsAssumption DEF Prq, PrqOver
      <4> QED
        BY <4>1, KindsAssumption, LenProperties
    <3>4. \A i \in DOMAIN snap.namespaces : \A k : ~Visited(i, k)'
      BY <3>1, <3>3 DEF Visited
    <3> QED
      BY <3>1, <3>4 DEF ListsCurrent
  <2> QED
    BY <2>1, <2>2
<1>9. CASE CalcList
  BY <1>0, <1>9, CalcListCurrent
<1>10. CASE UpdateStatus \/ TransientError \/ Restart \/ \E view : Finalize(view)
  BY <1>1, <1>10 DEF UpdateStatus, Finalize, TransientError, Restart, Return, ReturnError, Idle
<1>11. ASSUME NEW s \in Streams, Deliver(s)
       PROVE  ListsCurrent'
  BY <1>0, <1>2, <1>11, DeliverWaiting DEF Deliver, workVars
<1> QED
  BY <1>1, <1>3, <1>4, <1>5, <1>6, <1>7, <1>8, <1>9, <1>10, <1>11
  DEF AnyStep, ReconcilerNext, WorkerStep

\* And BranchTaken.
LEMMA BranchStep ==
    ASSUME BranchTaken, AnyStep
    PROVE  BranchTaken'
<1>1. CASE UNCHANGED <<pc, snap>>
  BY <1>1 DEF BranchTaken
<1>2. CASE pc' \in {"idle", "remove"}
  BY <1>2 DEF BranchTaken
<1>3. CASE UNCHANGED vars \/ \E x \in Items : \E v \in ValuesOf(x) : Persist(x, v)
  BY <1>1, <1>3 DEF vars, reconcilerVars, workVars, Persist
<1>4. CASE RemoveDone
  BY <1>4 DEF RemoveDone, BranchTaken
<1>5. CASE (\E p \in Projects : Dequeue(p)) \/ RemoveList \/ (\E view : \E o \in Objects : RemoveUpdate(view, o))
  BY <1>1, <1>2, <1>5 DEF Dequeue, RemoveList, RemoveUpdate, ReturnError, Idle
<1>6. CASE CalcList \/ \E s \in Streams : Deliver(s)
  BY <1>1, <1>6 DEF CalcList, Deliver, workVars
<1>7. CASE UpdateStatus \/ TransientError \/ Restart \/ \E view : Finalize(view)
  BY <1>2, <1>7 DEF UpdateStatus, Finalize, TransientError, Restart, Return, ReturnError, Idle
<1> QED
  BY <1>3, <1>4, <1>5, <1>6, <1>7 DEF AnyStep, ReconcilerNext, WorkerStep

\* The invariant of usage is inductive where names agree.
LEMMA UsageStep ==
    ASSUME IInv, UsageInv, NamesAgree, NamesAgree', AnyStep
    PROVE  UsageInv'
<1>1. BranchTaken
  BY DEF UsageInv
<1> QED
  BY <1>1, OnlyOwedStep, ListsStep, BranchStep DEF UsageInv

\* An empty cluster satisfies it.
LEMMA UsageInit == Init => UsageInv
BY DEF Init, ApiInit, ReconcilerInit, UsageInv, OnlyOwedInaccurate, ListsCurrent, BranchTaken,
       Live, Items

\* A settled project is not owed anything.
LEMMA SettledNotOwed ==
    ASSUME ApiTypeOK, NEW p \in Projects, Settled(p)
    PROVE  ~Owed(p)
<1>1. ASSUME NEW x \in Items PROVE ~Pending(x)
  BY ItemStreams DEF Settled, Pending
<1> QED
  BY <1>1, ItemCases DEF Settled, Owed, Waiting

\* The invariant says what the runs check.
LEMMA UsageIsAccurate ==
    ASSUME IInv, UsageInv
    PROVE  SettledUsageAccurate
BY SettledNotOwed DEF SettledUsageAccurate, UsageInv, OnlyOwedInaccurate, Accurate, IInv, TypeOK

\* Reconcile, SetupWithManager and findObjects together, for any cluster in which no
\* object is annotated with another project than the one that lists its namespace:
\* once nothing is under way for a live project, its status is exactly what a fresh
\* reconcile would compute.
THEOREM SettledAccurate == Spec /\ []NamesAgree => []SettledUsageAccurate
<1>1. Init => IInv /\ UsageInv
  BY InvariantInit, UsageInit
<1>2. IInv /\ UsageInv /\ NamesAgree /\ NamesAgree' /\ [Next]_vars => IInv' /\ UsageInv'
  BY InvariantStep, NextIsAnyStep, UsageStep DEF IInv
<1>3. IInv /\ UsageInv => SettledUsageAccurate
  BY UsageIsAccurate
<1> QED
  BY <1>1, <1>2, <1>3, PTL DEF Spec

-----------------------------------------------------------------------------
(* The refinement of StatusPromise *)

SameStatus(v, w) == v.used = w.used /\ v.statusNamespaces = w.statusNamespaces

\* No request of a user changes a project's status.
LEMMA UserKeepsStatus ==
    ASSUME IInv, NEW view, UserRequest(view), NEW p \in Projects, store[p] # Absent, store'[p] # Absent
    PROVE  SameStatus(store'[p], store[p])
<1>0. /\ DOMAIN store = Items /\ p \in Items /\ p \notin Objects
      /\ store[p] \in Prq(p)
  BY ViewType, ItemCases DEF IInv, TypeOK, ApiTypeOK, View
<1>1. ASSUME NEW x \in Items, NEW v, Persist(x, v), x # p \/ v = Absent \/ SameStatus(v, store[p])
      PROVE  SameStatus(store'[p], store[p])
  BY <1>0, <1>1 DEF Persist, Write, SameStatus
<1>2. ASSUME NEW o \in Objects,
             CreateObject(view, o) \/ UpdateObject(view, o) \/ PodTerminates(o) \/ DeleteObject(o)
      PROVE  SameStatus(store'[p], store[p])
  <2>1. o \in Items /\ o # p /\ \E v : Persist(o, v)
    BY <1>0, <1>2, ItemCases DEF CreateObject, UpdateObject, PodTerminates, DeleteObject
  <2> QED
    BY <1>1, <2>1
<1>3. ASSUME NEW q \in Projects, CreateProject(view, q)
      PROVE  SameStatus(store'[p], store[p])
  <2>1. q \in Items /\ q # p /\ \E v : Persist(q, v)
    BY <1>3, ItemCases DEF CreateProject
  <2> QED
    BY <1>1, <2>1
<1>4. ASSUME NEW q \in Projects, UpdateProject(view, q)
      PROVE  SameStatus(store'[p], store[p])
  <2>1. PICK namespaces \in NamespaceLists[q], hard \in Hards :
          Persist(q, PrqDefault([store[q] EXCEPT !.namespaces = namespaces, !.hard = hard]))
    BY <1>4 DEF UpdateProject
  <2>2. q = p => SameStatus(PrqDefault([store[q] EXCEPT !.namespaces = namespaces, !.hard = hard]),
                            store[p])
    BY <1>0 DEF SameStatus, PrqDefault, AddFinalizer, Prq, PrqOver
  <2> QED
    BY <1>1, <2>1, <2>2, ItemCases
<1>5. ASSUME NEW q \in Projects, DeleteProject(q)
      PROVE  SameStatus(store'[p], store[p])
  <2>1. PICK v \in {Absent, [store[q] EXCEPT !.deleting = TRUE]} : Persist(q, v)
    BY <1>5 DEF DeleteProject
  <2>2. q = p => v = Absent \/ SameStatus(v, store[p])
    BY <1>0 DEF SameStatus, Prq, PrqOver
  <2> QED
    BY <1>1, <2>1, <2>2, ItemCases
<1> QED
  BY <1>2, <1>3, <1>4, <1>5 DEF UserRequest

\* Recorded usage of a live project changes only in the status update of its own
\* reconcile, which leaves all that its total depends on.
LEMMA WhoRecords ==
    ASSUME IInv, NEW view, StepBy(view), NEW p \in Projects, Live(store[p]), Live(store'[p]),
           store'[p].used # store[p].used
    PROVE  p = cur /\ CurrentUsage(store'[p], store') = CurrentUsage(store[p], store)
<1>0. /\ TypeOK /\ WorkerFresh /\ DOMAIN store = Items /\ p \in Items /\ p \notin Objects
      /\ store[p] \in Prq(p) /\ store[p] # Absent /\ store'[p] # Absent
  BY ViewType, ItemCases DEF IInv, TypeOK, ApiTypeOK, View, Live
<1>1. ~UserRequest(view)
  BY <1>0, UserKeepsStatus DEF SameStatus
<1>2. ~UNCHANGED apiVars
  BY DEF apiVars
<1>3. ~UNCHANGED vars
  BY <1>2 DEF vars
<1>4. ASSUME NEW seen, NEW o \in Objects
      PROVE  ~RemoveUpdate(seen, o)
  <2>1. RemoveUpdate(seen, o) => store'[p] = store[p]
    BY <1>0, <1>2, RemoveUpdateWrites DEF Write
  <2> QED
    BY <2>1
<1>5. CASE UpdateStatus
  <2> DEFINE w == [snap EXCEPT !.used = UsedBy(snap.hard, lists),
                               !.statusNamespaces = snap.namespaces]
  <2>1. cur \in Projects /\ cur \notin stale /\ Write(cur, w) /\ pc # "idle"
    BY <1>0, <1>2, <1>5, UpdateStatusWrites DEF UpdateStatus
  <2>2. p = cur /\ store' = [store EXCEPT ![p] = w] /\ snap = store[p]
    BY <1>0, <2>1 DEF Write, WorkerFresh
  <2>3. store'[p].namespaces = store[p].namespaces /\ store'[p].hard = store[p].hard
    BY <1>0, <2>2 DEF Prq, PrqOver
  <2>4. \A o \in Objects : store'[o] = store[o]
    BY <1>0, <2>2
  <2>5. PICK after, new : after = store' /\ new = store'[p]
    OBVIOUS
  <2>6. ListsOf(new, after) = ListsOf(store[p], store)
    BY <2>3, <2>4, <2>5, ListsDepend
  <2>7. CurrentUsage(new, after) = CurrentUsage(store[p], store)
    BY <2>3, <2>5, <2>6, UsageDepends
  <2> QED
    BY <2>2, <2>5, <2>7
<1>6. ASSUME NEW seen, Finalize(seen)
      PROVE  p = cur /\ CurrentUsage(store'[p], store') = CurrentUsage(store[p], store)
  <2>1. CASE Write(cur, Absent)
    BY <1>0, <2>1 DEF Write
  <2>2. CASE /\ Write(cur, PrqDefault(RemoveFinalizer(snap)))
             /\ cur \notin stale
    <3>1. snap = store[cur]
      BY <1>0, <1>6, <2>2 DEF WorkerFresh, Finalize
    <3>2. PrqDefault(RemoveFinalizer(store[p])).used = store[p].used
      BY <1>0 DEF PrqDefault, AddFinalizer, RemoveFinalizer, Prq, PrqOver
    <3> QED
      BY <1>0, <2>2, <3>1, <3>2 DEF Write
  <2> QED
    BY <1>0, <1>2, <1>6, <2>1, <2>2, FinalizeWrites
<1>7. CASE \/ \E q \in Projects : Dequeue(q)
           \/ RemoveList \/ RemoveDone \/ CalcList \/ TransientError \/ Restart
           \/ \E s \in Streams : Deliver(s)
  BY <1>7 DEF Dequeue, RemoveList, RemoveDone, CalcList, TransientError, Restart, Resync,
              Deliver, Observe, apiVars
<1> QED
  BY <1>1, <1>3, <1>4, <1>5, <1>6, <1>7 DEF StepBy, ReconcilerNext, WorkerStep

\* Every step implements one of the abstract promise for every project.
LEMMA PromiseStep ==
    ASSUME IInv, UsageInv, UsageInv', NamesAgree, NamesAgree', NEW view, StepBy(view)
    PROVE  Promise!Next
<1> SUFFICES ASSUME NEW p \in Projects
             PROVE  \/ Promise!Change(p) \/ Promise!Record(p)
                    \/ Promise!Settle(p) \/ Promise!Rest(p)
  BY DEF Promise!Next
<1>0. AnyStep
  BY StepByIsAnyStep DEF IInv
<1>1. CASE ~Owed(p)'
  <2>1. ~Waiting(p)'
    BY <1>1 DEF Owed
  <2>2. /\ store'[p] = store[p]
        /\ Live(store[p]) => ListsOf(store[p], store') = ListsOf(store[p], store)
    BY <1>0, <2>1, QuietStep
  <2>3. Live(store[p]) => CurrentUsage(store'[p], store') = CurrentUsage(store[p], store)
    BY <2>2, UsageDepends
  <2>4. Live(store[p]) => store'[p].used = CurrentUsage(store'[p], store')
    BY <1>1, <2>2 DEF UsageInv, OnlyOwedInaccurate, Accurate
  <2>5. Promise!Unchanged(p)
    BY <2>2, <2>3 DEF Promise!Unchanged
  <2>6. CASE Owed(p)
    <3>1. Live(store[p]) => store[p].used = CurrentUsage(store[p], store)
      BY <2>2, <2>3, <2>4
    <3> QED
      BY <1>1, <2>5, <2>6, <3>1 DEF Promise!Settle
  <2>7. CASE ~Owed(p)
    BY <1>1, <2>5, <2>7 DEF Promise!Rest
  <2> QED
    BY <2>6, <2>7
<1>2. CASE Owed(p)'
  <2>1. CASE Live(store[p]) /\ Live(store'[p]) => store'[p].used = store[p].used
    BY <1>2, <2>1 DEF Promise!Change
  <2>2. CASE Live(store[p]) /\ Live(store'[p]) /\ store'[p].used # store[p].used
    <3>1. Owed(p) /\ CurrentUsage(store'[p], store') = CurrentUsage(store[p], store)
      BY <2>2, WhoRecords DEF Owed
    <3> QED
      BY <1>2, <2>2, <3>1 DEF Promise!Record
  <2> QED
    BY <2>1, <2>2
<1> QED
  BY <1>1, <1>2

\* An empty cluster with an idle controller promises nothing yet.
LEMMA PromiseInit == Init => Promise!Init
<1> SUFFICES ASSUME Init PROVE Promise!Init
  OBVIOUS
<1>1. ASSUME NEW x \in Items PROVE store[x] = Absent /\ ~Pending(x)
  BY <1>1, ItemStreams DEF Init, ApiInit, Pending
<1>2. cur = None /\ queue = {}
  BY DEF Init, ReconcilerInit
<1>3. ASSUME NEW p \in Projects PROVE ~Live(store[p]) /\ ~Owed(p)
  BY <1>1, <1>2, ItemCases, ItemsAssumption DEF Live, Owed, Waiting
<1> QED
  BY <1>3 DEF Promise!Init

\* Where names agree the projects' status implements the abstract promise: every
\* change of a total leaves its project owed a reconcile, recorded usage changes only
\* while it is, and it stops being owed only in a step that finds the record right.
THEOREM Refinement == Spec /\ []NamesAgree => StatusPromised
<1>1. Init => IInv /\ UsageInv /\ Promise!Init
  BY InvariantInit, UsageInit, PromiseInit
<1>2. IInv /\ UsageInv /\ NamesAgree /\ NamesAgree' /\ [Next]_vars
      => IInv' /\ UsageInv' /\ [Promise!Next]_(Promise!vars)
  BY InvariantStep, NextIsStepBy, NextIsAnyStep, UsageStep, PromiseStep DEF IInv
<1> QED
  BY <1>1, <1>2, PTL DEF Spec, StatusPromised, Promise!Spec

-----------------------------------------------------------------------------
(* Where names agree *)

\* Users offer no namespace to two projects.
NamespacesApart ==
    \A p, q \in Projects : p # q =>
        \A l \in NamespaceLists[p], m \in NamespaceLists[q] : Range(l) \intersect Range(m) = {}

\* v as object o names, if any, a project that may list the namespace of o.
AtHome(o, v) ==
    IsAnnotationExists(v) => \E l \in NamespaceLists[v.anno] : NamespaceOf[o] \in Range(l)

NamesHome == \A o \in Objects : \A v \in Seen(o) : AtHome(o, v)

\* A write puts nothing on its way but its value; other steps put nothing there.
LEMMA SeenGrowth ==
    ASSUME IInv, AnyStep, NEW y \in Items
    PROVE  Seen(y)' \subseteq Seen(y) \union {store'[y]}
<1>0. ApiTypeOK /\ CacheCoherent /\ StreamOf(y) \in Streams
  BY ItemStreams DEF IInv, TypeOK
<1>1. CASE UNCHANGED apiVars
  BY <1>1 DEF apiVars, Seen
<1>2. ASSUME NEW x \in Items, NEW v \in ValuesOf(x), Write(x, v)
      PROVE  Seen(y)' \subseteq Seen(y) \union {store'[y]}
  <2> DEFINE s == StreamOf(x)
             e == [item |-> x, val |-> v]
  <2>1. s \in Streams /\ watch[s] \in Seq(EventsOf(s)) /\ e \in EventsOf(s)
    BY <1>0, ItemStreams, EventType DEF ApiTypeOK
  <2>2. store'[x] = v /\ cache' = cache
    BY <1>0, <1>2, WriteSeen DEF Write
  <2>3. ASSUME NEW i \in DOMAIN watch'[StreamOf(y)], watch'[StreamOf(y)][i].item = y
        PROVE  \/ watch'[StreamOf(y)][i].val = store'[y]
               \/ i \in DOMAIN watch[StreamOf(y)] /\ watch'[StreamOf(y)][i] = watch[StreamOf(y)][i]
    <3>1. CASE watch'[StreamOf(y)] = watch[StreamOf(y)]
      BY <2>3, <3>1
    <3>2. CASE watch'[StreamOf(y)] # watch[StreamOf(y)]
      <4>1. StreamOf(y) = s /\ watch'[s] = Append(watch[s], e)
        BY <1>0, <1>2, <2>1, <3>2 DEF Write, ApiTypeOK
      <4>2. /\ DOMAIN watch'[s] = 1 .. Len(watch[s]) + 1
            /\ DOMAIN watch[s] = 1 .. Len(watch[s]) /\ Len(watch[s]) \in Nat
            /\ \A j \in 1 .. Len(watch[s]) : watch'[s][j] = watch[s][j]
            /\ watch'[s][Len(watch[s]) + 1] = e
        BY <2>1, <4>1, AppendProperties, LenProperties
      <4>3. CASE i = Len(watch[s]) + 1
        BY <2>2, <2>3, <4>1, <4>2, <4>3
      <4>4. CASE i # Len(watch[s]) + 1
        BY <2>3, <4>1, <4>2, <4>4
      <4> QED
        BY <4>3, <4>4
    <3> QED
      BY <3>1, <3>2
  <2> QED
    BY <2>2, <2>3 DEF Seen
<1>3. ASSUME NEW s \in Streams, Observe(s)
      PROVE  Seen(y)' \subseteq Seen(y) \union {store'[y]}
  <2> DEFINE e == Head(watch[s])
  <2>1. /\ watch[s] \in Seq(EventsOf(s)) /\ watch[s] # <<>>
        /\ e.item \in Items /\ StreamOf(e.item) = s /\ e = watch[s][1]
    BY <1>0, <1>3, HeadType DEF Observe, ApiTypeOK
  <2>2. /\ watch'[s] = Tail(watch[s])
        /\ \A t \in Streams : t # s => watch'[t] = watch[t]
        /\ store' = store /\ cache' = [cache EXCEPT ![e.item] = e.val]
    BY <1>0, <1>3 DEF Observe, ApiTypeOK
  <2>3. /\ DOMAIN watch[s] = 1 .. Len(watch[s]) /\ Len(watch[s]) \in Nat \ {0}
        /\ DOMAIN watch'[s] = 1 .. Len(watch[s]) - 1
        /\ \A i \in 1 .. Len(watch[s]) - 1 : watch'[s][i] = watch[s][i + 1]
    BY <2>1, <2>2, EmptySeq, HeadTailProperties, LenProperties
  <2>4. ASSUME NEW i \in DOMAIN watch'[StreamOf(y)]
        PROVE  \E j \in DOMAIN watch[StreamOf(y)] :
                   watch[StreamOf(y)][j] = watch'[StreamOf(y)][i]
    <3>1. CASE StreamOf(y) = s
      <4>1. i + 1 \in DOMAIN watch[s] /\ watch[s][i + 1] = watch'[s][i]
        BY <2>3, <3>1
      <4> QED
        BY <3>1, <4>1
    <3> QED
      BY <1>0, <2>2, <3>1
  <2>5. cache'[y] \in Seen(y)
    <3>1. 1 \in DOMAIN watch[s]
      BY <2>3
    <3>2. y = e.item => e.val \in Seen(y)
      BY <2>1, <3>1 DEF Seen
    <3> QED
      BY <1>0, <2>2, <3>2 DEF Seen, ApiTypeOK, View
  <2> QED
    BY <2>2, <2>4, <2>5 DEF Seen
<1>4. CASE Resync
  BY <1>0, <1>4 DEF Resync, Seen
<1> QED
  BY <1>1, <1>2, <1>3, <1>4, ApiStep

\* What the annotators make of an object is at home if what they were given is: they
\* take the name from a cached project that lists the namespace.
LEMMA MutationsHome ==
    ASSUME NEW view \in View, NEW o \in Objects, NEW v \in Object(o), AtHome(o, v),
           NEW w \in Mutations(view, o, v)
    PROVE  AtHome(o, w)
<1>1. CASE w = v
  BY <1>1
<1>2. ASSUME NEW p \in Claimants(view, o), w = AddAnnotation(v, p)
      PROVE  AtHome(o, w)
  <2>1. p \in Projects /\ view[p] \in Prq(p) /\ NamespaceOf[o] \in Range(view[p].namespaces)
    BY ItemCases DEF Claimants, Live, View
  <2>2. w.anno = p /\ view[p].namespaces \in NamespaceLists[p]
    BY <1>2, <2>1 DEF AddAnnotation, Object, ObjectOver, Prq, PrqOver
  <2> QED
    BY <2>1, <2>2 DEF AtHome
<1> QED
  BY <1>1, <1>2 DEF Mutations, Default

\* Whatever a step stores as an object is at home if what was stored is.
LEMMA WritesHome ==
    ASSUME IInv, NamesHome, NEW view \in View, StepBy(view), NEW o \in Objects
    PROVE  AtHome(o, store'[o])
<1>0. /\ TypeOK /\ ApiTypeOK /\ WorkerFresh
      /\ DOMAIN store = Items /\ o \in Items /\ o \notin Projects
      /\ store[o] \in Seen(o) /\ AtHome(o, store[o])
  BY ItemCases DEF IInv, TypeOK, ApiTypeOK, View, Seen, NamesHome
<1>1. CASE store'[o] = store[o]
  BY <1>0, <1>1
<1>2. ASSUME NEW v, Write(o, v), AtHome(o, v)
      PROVE  AtHome(o, store'[o])
  BY <1>0, <1>2 DEF Write
<1>3. ASSUME NEW x \in Items, x # o, NEW v, Write(x, v)
      PROVE  AtHome(o, store'[o])
  BY <1>0, <1>1, <1>3 DEF Write
<1>4. CASE CreateObject(view, o)
  <2>1. PICK shape \in NewShapes(o) :
          \E v \in Mutations(view, o, [anno |-> None, shape |-> shape]) : Persist(o, v)
    BY <1>4 DEF CreateObject
  <2>2. [anno |-> None, shape |-> shape] \in Object(o)
        /\ AtHome(o, [anno |-> None, shape |-> shape])
    BY DEF NewShapes, Object, ObjectOver, AtHome, IsAnnotationExists
  <2> QED
    BY <1>0, <1>2, <2>1, <2>2, MutationsHome DEF Persist
<1>5. CASE UpdateObject(view, o)
  <2>1. store[o] \in Object(o)
    BY <1>0, <1>5, ViewType, ItemCases DEF UpdateObject
  <2>2. PICK shape \in UpdatedShapes(o) :
          \E v \in Mutations(view, o, [store[o] EXCEPT !.shape = shape]) : Persist(o, v)
    BY <1>5 DEF UpdateObject
  <2>3. [store[o] EXCEPT !.shape = shape] \in Object(o)
    BY <2>1 DEF UpdatedShapes, Object, ObjectOver
  <2>4. AtHome(o, [store[o] EXCEPT !.shape = shape])
    <3>1. store[o] # Absent
      BY <1>5 DEF UpdateObject
    <3>2. [store[o] EXCEPT !.shape = shape].anno = store[o].anno
      BY <2>1 DEF Object, ObjectOver
    <3> QED
      BY <1>0, <3>1, <3>2 DEF AtHome, IsAnnotationExists
  <2> QED
    BY <1>0, <1>2, <2>2, <2>3, <2>4, MutationsHome DEF Persist
<1>6. CASE PodTerminates(o)
  <2>1. store[o] \in Object(o) /\ store[o] # Absent
    BY <1>0, <1>6, ViewType, ItemCases DEF PodTerminates
  <2>2. [store[o] EXCEPT !.shape = "Terminated"].anno = store[o].anno
    BY <2>1 DEF Object, ObjectOver
  <2>3. AtHome(o, [store[o] EXCEPT !.shape = "Terminated"])
    BY <1>0, <2>1, <2>2 DEF AtHome, IsAnnotationExists
  <2> QED
    BY <1>2, <1>6, <2>3 DEF PodTerminates, Persist
<1>7. CASE DeleteObject(o)
  <2>1. AtHome(o, Absent)
    BY DEF AtHome, IsAnnotationExists
  <2> QED
    BY <1>2, <1>7, <2>1 DEF DeleteObject, Persist
<1>8. ASSUME NEW seen \in View, RemoveUpdate(seen, o)
      PROVE  AtHome(o, store'[o])
  <2>1. CASE UNCHANGED apiVars
    BY <1>1, <2>1 DEF apiVars
  <2>2. CASE /\ o \notin stale
             /\ \E v \in Mutations(seen, o, RemoveAnnotation(store[o])) : Write(o, v)
    <3>1. store[o] \in Object(o)
      BY <1>0, <1>8, <2>2, ViewType, ItemCases DEF WorkerFresh, RemoveUpdate
    <3>2. RemoveAnnotation(store[o]) \in Object(o) /\ AtHome(o, RemoveAnnotation(store[o]))
      <4>1. RemoveAnnotation(store[o]).anno = None
        BY <3>1 DEF RemoveAnnotation, Object, ObjectOver
      <4> QED
        BY <3>1, <4>1, RemoveAnnotationType DEF AtHome, IsAnnotationExists
    <3> QED
      BY <1>0, <1>2, <2>2, <3>2, MutationsHome
  <2> QED
    BY <1>8, <2>1, <2>2 DEF RemoveUpdate
<1>9. ASSUME NEW x \in Items, x # o,
             \/ CreateObject(view, x) \/ UpdateObject(view, x) \/ PodTerminates(x) \/ DeleteObject(x)
             \/ CreateProject(view, x) \/ UpdateProject(view, x) \/ DeleteProject(x)
             \/ x \in Objects /\ \E seen : RemoveUpdate(seen, x)
      PROVE  AtHome(o, store'[o])
  <2>1. CASE x \in Objects /\ \E seen : RemoveUpdate(seen, x)
    BY <1>0, <1>1, <1>3, <1>9, <2>1, RemoveUpdateWrites DEF apiVars
  <2> QED
    BY <1>3, <1>9, <2>1 DEF CreateObject, UpdateObject, PodTerminates, DeleteObject,
       CreateProject, UpdateProject, DeleteProject, Persist
<1>10. CASE UpdateStatus
  BY <1>0, <1>1, <1>3, <1>10, UpdateStatusWrites, ItemCases DEF apiVars
<1>11. CASE \E seen : Finalize(seen)
  BY <1>0, <1>1, <1>3, <1>11, FinalizeWrites, ItemCases DEF apiVars
<1>12. CASE \/ UNCHANGED vars
            \/ \E q \in Projects : Dequeue(q)
            \/ RemoveList \/ RemoveDone \/ CalcList \/ TransientError \/ Restart
            \/ \E s \in Streams : Deliver(s)
  BY <1>1, <1>12 DEF vars, Dequeue, RemoveList, RemoveDone, CalcList, TransientError, Restart,
              Resync, Deliver, Observe, apiVars
<1>13. CASE UserRequest(view)
  BY <1>4, <1>5, <1>6, <1>7, <1>9, <1>13, <1>0, ItemCases DEF UserRequest
<1>14. CASE \E seen \in View : \E x \in Objects : RemoveUpdate(seen, x)
  BY <1>8, <1>9, <1>14, ItemCases
<1>15. cache \in View
  BY <1>0 DEF ApiTypeOK
<1> QED
  BY <1>10, <1>11, <1>12, <1>13, <1>14, <1>15 DEF StepBy, ReconcilerNext, WorkerStep

\* So names stay at home.
LEMMA HomeStep ==
    ASSUME IInv, NamesHome, NEW view \in View, StepBy(view)
    PROVE  NamesHome'
<1> SUFFICES ASSUME NEW o \in Objects, NEW v \in Seen(o)'
             PROVE  AtHome(o, v)
  BY DEF NamesHome, AtHome
<1>1. v \in Seen(o) \union {store'[o]}
  BY StepByIsAnyStep, SeenGrowth, ItemCases DEF IInv
<1> QED
  BY <1>1, WritesHome DEF NamesHome

\* What has been seen of an item is a value of it.
LEMMA SeenType ==
    ASSUME ApiTypeOK, NEW y \in Items, NEW v \in Seen(y)
    PROVE  v \in ValuesOf(y)
<1>1. ASSUME NEW i \in DOMAIN watch[StreamOf(y)], watch[StreamOf(y)][i].item = y
      PROVE  watch[StreamOf(y)][i].val \in ValuesOf(y)
  <2>1. watch[StreamOf(y)] \in Seq(EventsOf(StreamOf(y)))
    BY ItemStreams DEF ApiTypeOK
  <2>2. watch[StreamOf(y)][i] \in EventsOf(StreamOf(y))
    BY <2>1, ElementOfSeq, LenProperties
  <2> QED
    BY <1>1, <2>2 DEF EventsOf
<1> QED
  BY <1>1, ViewType DEF Seen

\* Where the projects' lists are apart, what is at home names nobody else.
LEMMA HomeAgree ==
    ASSUME NamespacesApart, ApiTypeOK, NamesHome
    PROVE  NamesAgree
<1> SUFFICES ASSUME NEW p \in Projects, NEW o \in Objects, Live(store[p]),
                    Claims(store[p], NamespaceOf[o]), NEW v \in Seen(o), IsAnnotationExists(v)
             PROVE  v.anno = p
  BY DEF NamesAgree
<1>1. store[p].namespaces \in NamespaceLists[p] /\ NamespaceOf[o] \in Range(store[p].namespaces)
  BY ViewType, ItemCases DEF Live, Claims, Prq, PrqOver
<1>2. v.anno \in Projects
  BY SeenType, ItemCases DEF IsAnnotationExists, Object, ObjectOver
<1>3. PICK l \in NamespaceLists[v.anno] : NamespaceOf[o] \in Range(l)
  BY DEF NamesHome, AtHome
<1> QED
  BY <1>1, <1>2, <1>3 DEF NamespacesApart

\* The annotators, and nobody else, write annotations in ProjectQuota: where users
\* offer no namespace to two projects, names agree throughout.
THEOREM ApartAgree == NamespacesApart /\ Spec => []NamesAgree
<1>1. Init => IInv /\ NamesHome
  <2>1. Init => NamesHome
    <3> SUFFICES ASSUME Init, NEW o \in Objects, NEW v \in Seen(o) PROVE ~IsAnnotationExists(v)
      BY DEF NamesHome, AtHome
    <3>1. store[o] = Absent /\ cache[o] = Absent /\ watch[StreamOf(o)] = <<>>
      BY ItemStreams, ItemCases DEF Init, ApiInit
    <3> QED
      BY <3>1 DEF Seen, IsAnnotationExists
  <2> QED
    BY <2>1, InvariantInit
<1>2. IInv /\ NamesHome /\ [Next]_vars => IInv' /\ NamesHome'
  BY InvariantStep, NextIsAnyStep, NextIsStepBy, HomeStep DEF IInv, TypeOK, ApiTypeOK
<1>3. NamespacesApart /\ IInv /\ NamesHome => NamesAgree
  BY HomeAgree DEF IInv, TypeOK
<1>4. NamespacesApart => []NamespacesApart
  BY DEF NamespacesApart
<1> QED
  BY <1>1, <1>2, <1>3, <1>4, PTL DEF Spec

\* So is, then, what SettledAccurate and Refinement promise.
THEOREM ApartAccurate == NamespacesApart /\ Spec => []SettledUsageAccurate /\ StatusPromised
BY ApartAgree, SettledAccurate, Refinement

================================================================================
