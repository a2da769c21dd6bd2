------------------------------ MODULE ProjectQuota ------------------------------
(***************************************************************************)
(* The whole operator: users create, change and delete objects and         *)
(* ProjectResourceQuotas through the admission webhooks while the          *)
(* controller keeps annotations and status.used up to date.                *)
(*                                                                         *)
(* A request is one step: the webhooks answer from the manager's cache and *)
(* the API server persists what they admit.  The cache lags behind the     *)
(* store by any number of steps, up to a bound on undelivered events.      *)
(***************************************************************************)
EXTENDS Reconciler

CONSTANT MaxLag   \* bound: undelivered events of a stream when a user writes

vars == <<apiVars, reconcilerVars>>

Room(x) == Len(watch[StreamOf(x)]) < MaxLag

-----------------------------------------------------------------------------
(* Users.  The webhooks that answer their requests read view. *)

\* The shape of a new object, and what an update may make of it.
NewShapes(o) == Shapes(KindOf[o]) \ {"Terminated"}

UpdatedShapes(o) == IF KindOf[o] = "services" THEN Shapes("services")
                    ELSE {store[o].shape}

CreateObject(view, o) ==
    /\ store[o] = Absent /\ Room(o)
    /\ \E shape \in NewShapes(o) :
          \E v \in Mutations(view, o, [anno |-> None, shape |-> shape]) :
             /\ Passes(ValidateCreate(view, o, v))
             /\ Persist(o, v)

\* A user's update keeps the annotations it finds.
UpdateObject(view, o) ==
    /\ store[o] # Absent /\ Room(o)
    /\ \E shape \in UpdatedShapes(o) :
          \E v \in Mutations(view, o, [store[o] EXCEPT !.shape = shape]) :
             /\ Passes(ValidateUpdate(view, o, store[o], v))
             /\ Persist(o, v)

\* The kubelet reports a terminal phase: a status update, which no webhook sees.
PodTerminates(o) ==
    /\ KindOf[o] = "pods" /\ Room(o)
    /\ store[o] # Absent /\ store[o].shape = "Active"
    /\ Persist(o, [store[o] EXCEPT !.shape = "Terminated"])

DeleteObject(o) ==
    /\ store[o] # Absent /\ Room(o)
    /\ Persist(o, Absent)

\* The API server drops the status of a project that is being created.
NewPrq(namespaces, hard) ==
    [namespaces |-> namespaces, hard |-> hard,
     deleting |-> FALSE, finalizer |-> FALSE,
     used |-> NoUsage, statusNamespaces |-> <<>>]

CreateProject(view, p) ==
    /\ store[p] = Absent /\ Room(p)
    /\ \E namespaces \in NamespaceLists[p], hard \in Hards :
          LET prq == PrqDefault(NewPrq(namespaces, hard))
          IN PrqValidateCreate(view, p, prq) /\ Persist(p, prq)

\* The status is a subresource: an update of the project leaves it as stored.
UpdateProject(view, p) ==
    /\ store[p] # Absent /\ Room(p)
    /\ \E namespaces \in NamespaceLists[p], hard \in Hards :
          LET prq == PrqDefault([store[p] EXCEPT !.namespaces = namespaces,
                                                 !.hard = hard])
          IN PrqValidateUpdate(view, p, prq) /\ Persist(p, prq)

\* A finalizer turns the deletion into a mark.
DeleteProject(p) ==
    /\ Live(store[p]) /\ Room(p)
    /\ Persist(p, IF store[p].finalizer THEN [store[p] EXCEPT !.deleting = TRUE]
                  ELSE Absent)

UserRequest(view) ==
    \/ \E o \in Objects : \/ CreateObject(view, o) \/ UpdateObject(view, o)
                          \/ PodTerminates(o) \/ DeleteObject(o)
    \/ \E p \in Projects : \/ CreateProject(view, p) \/ UpdateProject(view, p)
                           \/ DeleteProject(p)

UserNext == UserRequest(cache)

-----------------------------------------------------------------------------
(* The specification *)

Init == ApiInit /\ ReconcilerInit

Next == UserNext \/ ReconcilerNext

Spec == Init /\ [][Next]_vars

\* The informers and the worker keep going, and the work queue is first in,
\* first out: a project that is queued is taken in the end.  Users and faults
\* owe nothing.
Fairness ==
    /\ \A s \in Streams : WF_vars(Deliver(s))
    /\ WF_vars(WorkerStep)
    /\ \A p \in Projects : SF_vars(Dequeue(p))

FairSpec == Spec /\ Fairness

-----------------------------------------------------------------------------
(* Notions the properties are stated with *)

\* Nothing is under way that concerns p: no event to deliver, p neither queued
\* nor being reconciled.
Settled(p) ==
    /\ \A s \in Streams : watch[s] = <<>>
    /\ p \notin queue /\ cur # p

\* The values of x that some part of the operator may have yet to act on: what is
\* stored, what is cached, and what is on its way to the cache.
Seen(x) ==
    LET w == watch[StreamOf(x)]
    IN {store[x], cache[x]} \union {w[i].val : i \in {j \in DOMAIN w : w[j].item = x}}

\* The operator has still to take up something that concerns p: p is queued, or a
\* change of p or of an object that names p before or after it is undelivered.
Waiting(p) ==
    \/ p \in queue \/ Pending(p)
    \/ \E o \in Objects : Pending(o) /\ \E v \in Seen(o) : v # Absent /\ v.anno = p

Owed(p) == p = cur \/ Waiting(p)

Claims(prq, n) == prq # Absent /\ n \in Range(prq.namespaces)

\* The namespaces project p gives up in a step: its own when it disappears, those
\* its status no longer records otherwise.
Released(p) ==
    IF store[p] = Absent THEN {}
    ELSE IF store'[p] = Absent THEN Range(store[p].namespaces)
    ELSE Range(store[p].statusNamespaces) \ Range(store'[p].statusNamespaces)

\* What project prq holds of each resource, each object counted once.
ProjectTotal(prq, view) ==
    [r \in Resources |->
        IF r \in DOMAIN prq.hard /\ Counts(prq.hard, Gate(r))
        THEN Cardinality({x \in Objects \X Units :
                             /\ Claims(prq, NamespaceOf[x[1]])
                             /\ IsAnnotationExists(view[x[1]])
                             /\ x[2] <= Amount(x[1], view[x[1]].shape, r)})
        ELSE 0]

\* A step makes object o a charge on p that it was not before: it creates o, changes
\* the type of a service of p, or annotates an object that is older than p.
NewCharge(o, p, r) ==
    /\ store'[o] # Absent /\ store'[o].anno = p
    /\ Amount(o, store'[o].shape, r) > 0
    /\ \/ store[o] = Absent
       \/ store[o].anno # p
       \/ Amount(o, store[o].shape, r) = 0

\* Such an update adopts o, and no validator compares it with the limit: those of the
\* kinds other than services accept every update, that of services looks at their
\* number, and at the resource of a type only where the type changes.
AdoptedUnchecked(o, p, r) ==
    /\ store[o] # Absent /\ store[o].anno # p
    /\ \/ KindOf[o] # "services"
       \/ r # "services" /\ store'[o].shape = store[o].shape

-----------------------------------------------------------------------------
(* Properties *)

\* Every variable has its type; in particular status.namespaces and the
\* worker's copy of a project hold only lists that were once in its spec, and
\* the annotations of cached, stored and in-flight objects name projects.
TypeOK == ApiTypeOK /\ ReconcilerTypeOK

\* The inductive invariant: types, the watches' order, and what the worker holds.
IInv == TypeOK /\ CacheCoherent /\ WorkerFresh

\* Reconcile, SetupWithManager and findObjects together: once no event is
\* undelivered and a live project is neither queued nor being reconciled, its
\* status shows exactly what a fresh reconcile would compute.  A lost wake-up,
\* an unnoticed stale read or an annotation that stops naming the project that
\* counts it breaks this.
SettledUsageAccurate ==
    \A p \in Projects : Settled(p) /\ Live(store[p]) =>
        /\ store[p].used = CurrentUsage(store[p], store)
        /\ store[p].statusNamespaces = store[p].namespaces

\* The same status is the project's total with each object counted once.
SettledUsageIsProjectTotal ==
    \A p \in Projects : Settled(p) /\ Live(store[p]) =>
        store[p].used = ProjectTotal(store[p], store)

\* SettledUsageAccurate with its reasons: the projects' status implements the
\* abstract StatusPromise.  Every change of a total leaves its project owed a
\* reconcile, recorded usage changes only while it is, and it stops being owed only
\* in a step that finds the record right.
Promise == INSTANCE StatusPromise WITH
    live <- {p \in Projects : Live(store[p])},
    total <- [p \in Projects |->
                 IF Live(store[p]) THEN CurrentUsage(store[p], store) ELSE NoUsage],
    used <- [p \in Projects |-> IF Live(store[p]) THEN store[p].used ELSE NoUsage],
    owed <- {p \in Projects : Owed(p)}

StatusPromised == Promise!Spec

\* The webhooks of pods, services and the other kinds check a new charge
\* against a status that lags.  When it does not lag, what takes the project over its
\* hard limit is an update that adopts an object unchecked (configmap_webhook.go:55
\* and 98-100 and their likes), and nothing else.
OvershootOnlyLaggedOrAdopted ==
    [][\A o \in Objects, p \in Projects, r \in Resources :
          Settled(p) /\ Live(store[p]) /\ NewCharge(o, p, r)
             => \/ CurrentUsage(store[p], store')[r] <= Limit(store[p].hard, r)
                \/ AdoptedUnchecked(o, p, r)]_vars

\* projectResourceQuotaValidator.ValidateUpdate: a change of spec.hard, a limit
\* taken out included, is persisted only if what the project is settled to use
\* fits under it.
LimitsCoverSettledUsage ==
    [][\A p \in Projects :
          /\ Settled(p) /\ Live(store[p])
          /\ store'[p] # Absent /\ store'[p].hard # store[p].hard
          => \A r \in Resources :
                CurrentUsage(store[p], store)[r] <= Limit(store'[p].hard, r)]_vars

\* Both branches of Reconcile that clean up: when a project disappears, or its
\* status stops recording a namespace, the objects there that still name it are
\* ones that changed, or had an undelivered change, since they were listed.
LeavesOnlyRacedObjects ==
    [][\A p \in Projects, o \in Objects :
          /\ NamespaceOf[o] \in Released(p)
          /\ store[o] # Absent /\ store[o].anno = p
          => o \in stale]_vars

\* The removal branch of Reconcile works from a copy of the project.  An object
\* loses the annotation of a live project that has its namespace only when that
\* project changed after it was read, so that the status update will be refused.
StripsMemberOnlyWhenStale ==
    [][\A p \in Projects, o \in Objects :
          /\ Live(store[p]) /\ Claims(store[p], NamespaceOf[o])
          /\ store[o] # Absent /\ store[o].anno = p
          /\ store'[o] # Absent /\ store'[o].anno # p
          => p = cur /\ p \in stale]_vars

-----------------------------------------------------------------------------
(* Liveness, once users leave the cluster alone *)

UsersStop == <>[][~UserNext]_vars

\* The deletion branch of Reconcile and its retries: a project under deletion
\* disappears.
DeletionCompletes ==
    UsersStop =>
        \A p \in Projects :
            (store[p] # Absent /\ ~Live(store[p])) ~> (store[p] = Absent)

\* Reconcile and its retries: in the end status.used of every live project is
\* its total, and stays so.
UsageConverges ==
    UsersStop =>
        \A p \in Projects :
            <>[](Live(store[p]) => store[p].used = ProjectTotal(store[p], store))

\* Status writes wake up the controller that makes them; it comes to rest all the
\* same, as one that changes nothing makes no event.
ControllerRests == UsersStop => Promise!Rests

================================================================================
