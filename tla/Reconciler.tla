------------------------------ MODULE Reconciler ------------------------------
(***************************************************************************)
(* The controller of internal/controller: its work queue and its single    *)
(* worker (MaxConcurrentReconciles is left at 1), which runs Reconcile as  *)
(* a sequence of cached reads and API writes that anything may interleave  *)
(* with.                                                                   *)
(*                                                                         *)
(* Every Update carries the resourceVersion its object was read at and is  *)
(* refused when the stored version is another.  The model keeps, instead   *)
(* of versions, the set of items whose version is not the one the worker   *)
(* last read: those it read while a change was pending and those that      *)
(* changed since.                                                          *)
(***************************************************************************)
EXTENDS ApiServer

CONSTANT MaxFaults   \* bound: failed API calls and manager restarts

ASSUME MaxFaultsAssumption == MaxFaults \in Nat

VARIABLES
    queue,   \* the work queue: projects to reconcile, each at most once
    pc,      \* what the worker is doing, "idle" between reconciles
    cur,     \* the project being reconciled, None when idle
    snap,    \* prq as Reconcile read it
    row,     \* position in the namespaces being gone through
    col,     \* position in KindOrder
    batch,   \* listed objects whose annotation is still to be removed
    lists,   \* what the List calls of the calculation returned, per namespace
    stale,   \* items the worker holds at another version than the stored one
    faults   \* failures so far

workVars == <<pc, cur, snap, row, col, batch, lists>>
reconcilerVars == <<queue, workVars, stale, faults>>

Stages == {"idle", "remove", "calculate", "finalize"}

-----------------------------------------------------------------------------
(* Helpers *)

RemovedNamespacesNoDifference(prq) ==
    Range(IF prq.deleting THEN prq.namespaces ELSE prq.statusNamespaces)

RemovedNamespacesByStatus(prq) ==
    {n \in Range(prq.statusNamespaces) : prq.deleting \/ n \notin Range(prq.namespaces)}

\* removedNamespaces of the two branches of Reconcile.
RemovedNamespaces(prq) ==
    IF prq.deleting THEN Range(prq.namespaces)
    ELSE Range(prq.statusNamespaces) \ Range(prq.namespaces)

\* Where they are from position r on, in the order sets.String.List() gives.
RemovedFrom(prq, r) ==
    {i \in DOMAIN NamespaceOrder : i >= r /\ NamespaceOrder[i] \in RemovedNamespaces(prq)}

\* The objects one List call of removeAnnotationFromObjects looks at.
Cell(n, k) == {o \in Objects : NamespaceOf[o] = n /\ KindOf[o] = k}

findObjectsNewOnly(old, new) ==
    {v.anno : v \in {w \in {new} : IsAnnotationExists(w)}}

\* findObjects, for the old and the new value of an update.
findObjects(old, new) ==
    {v.anno : v \in {w \in {old, new} : IsAnnotationExists(w)}}

\* Persist a write of x that is not the worker's own.
Persist(x, v) ==
    /\ Write(x, v)
    /\ stale' = IF pc = "idle" \/ v = store[x] THEN stale ELSE stale \union {x}
    /\ UNCHANGED <<queue, workVars, faults>>

AdvanceTooFar(at) == IF col <= Len(KindOrder) THEN row' = at /\ col' = col + 1
                                              ELSE row' = at + 1 /\ col' = 1

\* Step from a cell of row at to the next of a grid with a column per kind.
Advance(at) == IF col < Len(KindOrder) THEN row' = at /\ col' = col + 1
                                       ELSE row' = at + 1 /\ col' = 1

Idle ==
    /\ pc' = "idle" /\ cur' = None /\ snap' = Absent
    /\ row' = 1 /\ col' = 1
    /\ batch' = {} /\ lists' = <<>>
    /\ stale' = {}

Return == UNCHANGED queue /\ Idle

ReturnErrorSwallowed == Return

\* Reconcile returns an error: the project goes back to the work queue.
ReturnError == queue' = queue \union {cur} /\ Idle

-----------------------------------------------------------------------------
(* The worker *)

ReconcilerInit ==
    /\ queue = {}
    /\ pc = "idle" /\ cur = None /\ snap = Absent
    /\ row = 1 /\ col = 1
    /\ batch = {} /\ lists = <<>>
    /\ stale = {}
    /\ faults = 0

\* Take a project and Get it from the cache; one that is gone needs nothing.
Dequeue(p) ==
    /\ pc = "idle" /\ p \in queue
    /\ queue' = queue \ {p}
    /\ IF cache[p] = Absent
       THEN UNCHANGED <<pc, cur, snap, stale>>
       ELSE /\ pc' = "remove" /\ cur' = p /\ snap' = cache[p]
            /\ stale' = IF Pending(p) THEN {p} ELSE {}
    /\ UNCHANGED <<row, col, batch, lists, faults, apiVars>>

\* List the objects of the next kind in the next removed namespace.
RemoveList ==
    /\ pc = "remove" /\ batch = {}
    /\ \E i \in RemovedFrom(snap, row) :
          /\ \A j \in RemovedFrom(snap, row) : i <= j
          /\ LET cell == Cell(NamespaceOrder[i], KindOrder[col])
             IN /\ batch' = {o \in cell : IsAnnotationExists(cache[o])}
                /\ stale' = (stale \ cell) \union {o \in cell : Pending(o)}
          /\ Advance(i)
    /\ UNCHANGED <<queue, pc, cur, snap, lists, faults, apiVars>>

\* Update one listed object without its annotation.  The update passes through
\* the object's webhooks, which answer from view, and any refusal ends the reconcile
\* with an error.
RemoveUpdate(view, o) ==
    /\ pc = "remove" /\ o \in batch
    /\ \/ /\ o \notin stale
          /\ \E v \in Mutations(view, o, RemoveAnnotation(store[o])) :
                \/ /\ Passes(ValidateUpdate(view, o, store[o], v))
                   /\ Write(o, v)
                   /\ batch' = batch \ {o}
                   /\ UNCHANGED <<queue, pc, cur, snap, row, col, lists, stale>>
                \/ /\ ~ValidateUpdate(view, o, store[o], v)
                   /\ ReturnError
                   /\ UNCHANGED apiVars
       \/ /\ o \in stale
          /\ ReturnError
          /\ UNCHANGED apiVars
    /\ UNCHANGED faults

RemoveDone ==
    /\ pc = "remove" /\ batch = {} /\ RemovedFrom(snap, row) = {}
    /\ pc' = IF snap.deleting THEN "finalize" ELSE "calculate"
    /\ row' = 1 /\ col' = 1
    /\ lists' = IF snap.deleting THEN <<>>
                ELSE [i \in DOMAIN snap.namespaces |-> [o \in Objects |-> Absent]]
    /\ UNCHANGED <<queue, cur, snap, batch, stale, faults, apiVars>>

\* List and count one kind in one entry of spec.namespaces, if spec.hard
\* names the kind.
CalcList ==
    /\ pc = "calculate" /\ row <= Len(snap.namespaces)
    /\ LET k == KindOrder[col]
           found == AnnotatedIn(cache, snap.namespaces[row], k)
       IN lists' = IF Counts(snap.hard, k)
                   THEN [lists EXCEPT ![row] =
                            [o \in Objects |-> IF o \in found THEN cache[o] ELSE @[o]]]
                   ELSE lists
    /\ Advance(row)
    /\ UNCHANGED <<queue, pc, cur, snap, batch, stale, faults, apiVars>>

UpdateStatusNoReset ==
    /\ pc = "calculate" /\ row > Len(snap.namespaces)
    /\ IF cur \in stale
       THEN ReturnError /\ UNCHANGED apiVars
       ELSE /\ Write(cur, [snap EXCEPT
                  !.used = [r \in Resources |-> @[r] + UsedBy(snap.hard, lists)[r]],
                  !.statusNamespaces = snap.namespaces])
            /\ Return
    /\ UNCHANGED faults

UpdateStatusRequeues ==
    /\ pc = "calculate" /\ row > Len(snap.namespaces)
    /\ IF cur \in stale
       THEN UNCHANGED apiVars
       ELSE Write(cur, [snap EXCEPT !.used = UsedBy(snap.hard, lists),
                                    !.statusNamespaces = snap.namespaces])
    /\ ReturnError
    /\ UNCHANGED faults

\* Write status.used and status.namespaces; a stored version other than the
\* one read makes the API server refuse.
UpdateStatus ==
    /\ pc = "calculate" /\ row > Len(snap.namespaces)
    /\ IF cur \in stale
       THEN ReturnError /\ UNCHANGED apiVars
       ELSE /\ Write(cur, [snap EXCEPT !.used = UsedBy(snap.hard, lists),
                                       !.statusNamespaces = snap.namespaces])
            /\ Return
    /\ UNCHANGED faults

\* Remove the finalizer, through the project's own webhooks, which answer from view;
\* the API server then deletes the project.
Finalize(view) ==
    /\ pc = "finalize"
    /\ LET prq == PrqDefault(RemoveFinalizer(snap))
       IN IF cur \in stale \/ ~PrqValidateUpdate(view, cur, prq)
          THEN ReturnError /\ UNCHANGED apiVars
          ELSE /\ Write(cur, IF prq.finalizer THEN prq ELSE Absent)
               /\ Return
    /\ UNCHANGED faults

-----------------------------------------------------------------------------
(* What happens to the worker *)

\* With a predicate on metadata.generation, which a status change leaves alone.
DeliverGenerationChanged(s) ==
    /\ Observe(s)
    /\ LET e == Head(watch[s])
           old == cache[e.item]
       IN queue' = queue \union
             (IF e.item \in Projects THEN {e.item}
              ELSE IF KindOf[e.item] = "pods" /\ e.val # Absent /\ old # Absent
                      /\ e.val.anno = old.anno THEN {}
              ELSE findObjects(old, e.val))
    /\ UNCHANGED <<workVars, stale, faults>>

\* An event reaches the cache and then the queue.  A project's own event
\* enqueues it, an object's enqueues the projects its annotations name.
Deliver(s) ==
    /\ Observe(s)
    /\ LET e == Head(watch[s])
       IN queue' = queue \union (IF e.item \in Projects THEN {e.item}
                                 ELSE findObjects(cache[e.item], e.val))
    /\ UNCHANGED <<workVars, stale, faults>>

\* An API call of the worker fails for a reason of its own.
TransientError ==
    /\ faults < MaxFaults /\ pc # "idle"
    /\ ReturnError
    /\ faults' = faults + 1
    /\ UNCHANGED apiVars

StartQueueEmpty(view) == {}

\* A controller that starts takes everything its cache holds for new.
StartQueue(view) ==
    {p \in Projects : \/ view[p] # Absent
                      \/ \E o \in Objects : p \in findObjects(view[o], view[o])}

\* The manager stops, at any point, and another starts: its caches and its
\* queue are rebuilt from what the API server lists.
Restart ==
    /\ faults < MaxFaults
    /\ Resync
    /\ queue' = StartQueue(store)
    /\ Idle
    /\ faults' = faults + 1

WorkerStep ==
    \/ RemoveList
    \/ \E o \in Objects : RemoveUpdate(cache, o)
    \/ RemoveDone
    \/ CalcList
    \/ UpdateStatus
    \/ Finalize(cache)

ReconcilerNext ==
    \/ \E p \in Projects : Dequeue(p)
    \/ WorkerStep
    \/ \E s \in Streams : Deliver(s)
    \/ TransientError
    \/ Restart

ReconcilerTypeOK ==
    /\ queue \subseteq Projects
    /\ pc \in Stages
    /\ IF pc = "idle" THEN cur = None /\ snap = Absent /\ batch = {} /\ stale = {}
                      ELSE cur \in Projects /\ snap \in Prq(cur)
    /\ row \in Nat \ {0} /\ col \in DOMAIN KindOrder
    /\ batch \subseteq Objects
    /\ DOMAIN lists = IF pc = "calculate" THEN DOMAIN snap.namespaces ELSE {}
    /\ \A i \in DOMAIN lists : /\ DOMAIN lists[i] = Objects
                               /\ \A o \in Objects : lists[i][o] \in ValuesOf(o)
    /\ stale \subseteq Items
    /\ faults \in 0 .. MaxFaults

\* What the worker holds and is not stale is what the API server stores.
WorkerFresh ==
    /\ \A o \in batch \ stale : store[o] # Absent
    /\ pc # "idle" /\ cur \notin stale => snap = store[cur]


================================================================================
