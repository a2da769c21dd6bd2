# ProjectResourceQuota in TLA+

A model of the operator in this repository, which limits what a *project*, a
set of namespaces, may hold of each Kubernetes resource: TLA+ modules
translated from its Go sources, TLC configurations that check them on small
instances, and theorems that TLAPS proves for all instances.

## The system

| Part | Source | State | Operations |
| --- | --- | --- | --- |
| Controller | `internal/controller/projectresourcequota_controller.go` | a work queue; in `Reconcile`, local copies of what it read | `Reconcile` (clean up, count, write status, or remove the finalizer), `findObjects` |
| Object webhooks (configmaps, persistent volume claims, pods, replication controllers, resource quotas, secrets, services) | `api/v1/*_webhook.go` | none; they read the cache | annotate an object with its project; check `status.used` against `spec.hard` |
| Project webhook | `api/v1/projectresourcequota_webhook.go` | none; reads the cache | add the finalizer; keep projects' namespaces apart; check names of resources and limits |
| Types and helpers | `api/v1/projectresourcequota_types.go`, `common.go`, `util.go` | a project's `spec`, `status`, finalizer, deletion mark; an object's annotation | annotations, finalizers, a pod's effective requests and limits |
| Manager | `cmd/main.go` | the informer cache | start-up, leader election |
| API server (external) | | the stored objects, the undelivered watch events | write, watch, list |

How they interact. A user's request goes through the kind's webhooks, which
read the manager's **cache**, and is persisted by the API server. The change
comes back as a watch event, which updates the cache and puts projects on the
controller's queue: the project itself, or the one that the object's annotation
named before or after the change. The controller's one worker takes a project,
reads it from the cache, lists objects from the cache, and writes back to the
API server - objects without the annotation, the project's status, or the
project without its finalizer. Its updates of objects and of the finalizer pass
through the *same webhooks* as those of users; its status update does not.

What makes this hard:

- every decision is taken on a cache that is behind, by a different amount for
  each kind (a watch orders the changes of its own kind only);
- a reconcile is a long sequence of reads and writes and the cluster changes
  between any two of them; its writes are refused when their object changed;
- counting goes by namespace, waking up goes by annotation;
- cleaning up depends on what an earlier reconcile wrote (`status.namespaces`);
- webhooks may be unreachable (`failurePolicy=ignore` for objects), API calls
  fail, managers restart.

What each part owes. Controller: once things settle, `status.used` is what the
project holds; removed namespaces and deleted projects leave no annotations
behind; a deletion ends. Object webhooks: no object that is created, and no service
that changes its type, takes a project over its limit (other updates are not, or
not in full, compared with limits); nothing else is refused. Project webhook: no two
projects share a namespace; only a limit below current usage is refused.

## Modules

    PodResources            what a pod is charged
    StatusPromise           abstract: recorded usage follows a total
    QuotaRules              values, amounts, totals, the answers of the webhooks
      ApiServer             store, cache, watch (external)
        Reconciler          queue, worker, deliveries, failures
          ProjectQuota      users, the specification, the properties
            Admission       requests in three steps, users' annotations
            Rollout         two replicas, change of leader
            PodUsage        pods with containers (with PodResources)
            DocumentedClaims     what the documentation says and the code does not keep
            ProjectQuota_proofs  theorems: types, coherence of cache and worker
              Usage_proofs       settled status, the abstract specification
                Cleanup_proofs   what clean-ups leave and take
                  Rollout_proofs   theorems about two replicas (with Limits_proofs)
                Limits_proofs    totals, limits
                  Pods_proofs      pods of any size (with PodUsage)
            Admission_proofs     theorems about requests in three steps
              Requests_proofs    settled status and limits under them
              MCProjectQuota, MCPods, MCAdmission, MCRollout  values of the constants for TLC

**QuotaRules** has no variables. A *view* is a function from projects and
objects to values; a webhook's answer is an operator on the view it reads.
`Default` is the annotator shared by the seven kinds; its result is a set,
because the order of a cached `List` is not fixed and the loop stops at the
first live project with the namespace. `ValidateCreate`, `ValidateUpdate` and
`QuotaAdmits` are the validators; `PrqDefault`, `PrqValidateCreate` and
`PrqValidateUpdate` those of projects. `Charges` and `UsedBy` are the
calculation of `status.used`: a namespace listed twice charges twice, a service
charges `services` and the port resource of its type, a pod that terminated
charges nothing. An absent key of a Go `ResourceList` reads as zero, so the
recorded usage is total and `Limit` reads a missing limit as 0, where `Counts`
tests for the key as the code does.

**PodResources** is `PodEffectiveRequests` and `PodEffectiveLimits`, the library
they call included (external): a fold over init containers, sidecars and
containers, in whose place the pod's own resources (`spec.resources`) stand where it
states them, with the overhead on top. `Peak` is the reference definition of what the
containers hold, `PodHeld` of the pod. Amounts are in units of one resource, such as
CPU, that pods may state as a whole. **PodUsage** gives the pods of `ProjectQuota` their
containers: `PodAssumption` says that what a pod demands of CPU is what this
computation makes of its spec. Other instances take `Demand` as it comes.

**ApiServer**: `Write`, `Observe` (an informer takes an event), `Resync` (a new
process lists everything). One event queue per kind.

**Reconciler** divides `Reconcile` at every read of the cache and every write:

| Action | Code |
| --- | --- |
| `Dequeue` | `r.Get` and its not-found return |
| `RemoveList`, `RemoveUpdate` | one `List` and one `Update` of `removeAnnotationFromObjects` |
| `RemoveDone` | the branch on the deletion mark, the reset of `status.used` |
| `CalcList` | one kind in one namespace of the calculation |
| `UpdateStatus` | `status.namespaces` and `Status().Update` |
| `Finalize` | `RemoveFinalizer` and `Update`; the API server then deletes the project |
| `Deliver` | an event reaches cache and queue (`SetupWithManager`, `findObjects`) |
| `TransientError`, `Restart` | an API call fails; the process is replaced |

`row` and `col` walk the fixed grid of namespaces and kinds. Optimistic
concurrency is modelled without version numbers: `stale` holds the items whose
stored version is not the one the worker read, because a change was undelivered
when it read them or because they changed since. An update of a stale item is a
conflict; every error puts the project back on the queue, as
controller-runtime does.

**ProjectQuota** adds the users: they create, update and delete objects and
projects, pods terminate (a status update no webhook sees). A request is one
step: mutate, validate, persist.

**Admission** takes that step apart. `SubmitObject` and `SubmitProject` are the
mutating webhook's answer, `Validate` the validating webhook's, `PersistRequest`
the write; any other request, delivery or step of the worker comes between
them. A request whose item changed in the meantime is refused by the API server
and dropped (`Continue`). Users write annotations (`UserAnnotations`). `unseen`, `missed` and `settled` are history: they record which
projects and objects were not as the webhook saw them, and whether a reconcile
was due; no action reads them.

**Rollout** adds a second replica with a cache and a watch of its own, as a
rolling update has. The actions in which a webhook answers take the view it reads
(`UserRequest(view)`, `RemoveUpdate(view, o)`, `Finalize(view)`), so both answer by
the same definitions; `Peer` is `ApiServer` with the peer's cache and watch. A
user's request or an update by the controller reaches
either replica's webhooks; the leader's worker reads the leader's cache.
`Takeover` stops the leader at any point: the peer's cache, however far behind,
becomes the leader's and its queue starts from it (`StartQueue`), and a fresh
replica becomes the peer. `undone` is history: the objects whose update in the
present reconcile left the annotation in place while the peer lagged.

**StatusPromise** is the abstract specification: projects that are live, their
totals, the recorded usage, and the projects that are *owed* something. Its steps
say, per project, that a change makes it owed, that the record is changed only
while it is owed and remains so, and that it stops being owed in a step that
finds record and total equal. `ProjectQuota` implements it under the mapping
`Promise`, with `Owed` for the events, queue entry or reconcile that will still
act on the project.

## What is checked

Bounds: `MaxLag` limits undelivered events of a stream *when a user writes* (the
worker and the informers are not limited), `MaxFaults` failures, restarts and
changes of leader, `MaxUnits` the amount a pod requests, `MaxRequests` the
requests in flight; `BothRoom` applies `MaxLag` to both replicas' streams after a
user's write.

| Run | Instance | Shows |
| --- | --- | --- |
| `Failures` | one configmap, lag 2, one failure at any point, unreachable webhooks, fairness | `TypeOK`, `SettledUsageAccurate`, `StatusPromised`, `LeavesOnlyRacedObjects`, `StripsMemberOnlyWhenStale`, `DeletionCompletes`, `UsageConverges`, `ControllerRests` |
| `Grid` | two namespaces, two kinds | `StatusPromised`, `LeavesOnlyRacedObjects` when a reconcile reads several lists at different times |
| `Services` | services that change type | `SettledUsageIsProjectTotal`, `OvershootOnlyLaggedOrAdopted` |
| `Pods` | pods that terminate, one with amounts of its own, one with a sidecar and overhead,, CPU limits that users take out | the same, `LimitsCoverSettledUsage` and `SettledCpuIsPeak` |
| `Admission` | two configmaps, two requests in flight, users who take annotations off | `SettledUsageAccurate`, `EscapesOnlyWhenRaced`, `OvershootOnlyRacedOrAdopted` |
| `Contention` | two projects, one namespace, lag 2, two requests in flight | `OverlapOnlyWhenRaced` |
| `Rollout` | two replicas, a limit of none or one, one failure or change of leader | `SettledUsageAccurate`, `StatusPromised`, `CleanupUndoneOnlyByLag`, `LeavesOnlyRacedOrUndone`, `OvershootOnlyUnseenOrAdopted`, `LimitsCoverSettledUsage` |

- `SettledUsageAccurate`: with no event under way and the project neither queued
  nor being reconciled, its status is what a reconcile would compute now. It
  fails if any wake-up is lost, if a mixture of old and new lists can survive, or
  if an error is not retried.
- `SettledUsageIsProjectTotal`: it is then also the number of things the project
  holds, each counted once.
- `StatusPromised`: the refinement. It gives `SettledUsageAccurate` its reasons,
  step by step: no change of a total leaves its project unowed, and no step but
  one that finds the record right lets the operator forget a project.
- `OvershootOnlyLaggedOrAdopted`, `OvershootOnlyRacedOrAdopted`, `OvershootOnlyUnseenOrAdopted`,
  `OverlapOnlyWhenRaced`, `EscapesOnlyWhenRaced`: limits, exclusive namespaces and the
  tie of an object to its project give way to what the deciding webhook could not see.
  Limits give way to one thing more, which needs neither lag nor race: an update
  annotates an object that did not name the project, and so makes it count, and no
  validator compares it with the limit (`AdoptedUnchecked`: `ValidateUpdate` of the
  kinds other than services checks nothing, that of services checks their number, and
  the resource of a type only if the type changes). In each of the four runs steps of that kind do go
  over the limit: without the last disjunct of the property, TLC finds one.
- `LimitsCoverSettledUsage`: a changed `spec.hard` covers what the project is
  settled to use, also where a limit is taken out.
- `LeavesOnlyRacedObjects`, `StripsMemberOnlyWhenStale`, `CleanupUndoneOnlyByLag`,
  `LeavesOnlyRacedOrUndone`: what racing changes and lagging replicas can do to the clean-up of the
  namespaces that a step gives up.
- `DeletionCompletes`, `UsageConverges`, `ControllerRests`: after users stop.
- `SettledCpuIsPeak`: the CPU a settled project shows is the most that its running
  pods can hold between them, each in the worst moment of its start or after it.

Why these bounds. One object shows every conflict of the worker with a user on
one item, a second one that its lists mix old and new; two namespaces and two
kinds give every position a list can have (first, last, other row, other
column). With lag 1 users wait for the previous change of a kind to be
delivered, with lag 2 they do not; overlapping projects need 2. One failure can
strike at any of the worker's steps; the state it leaves is the one from which a
second would start. Two requests in flight give every pair of steps of two
requests; a third would race with each of them as the second does. `Admission`
uses the symmetry of its two configmaps, which differ in name only: no action,
bound or property tells them apart, and no liveness property is checked there.

Fairness (`FairSpec`): informers deliver (`WF`), the worker takes its next step
(`WF`), and a queued project is taken (`SF`, since the work queue is first in
first out while the worker is busy again and again). Nothing is assumed of
users or failures: the liveness properties are about behaviours in which users
stop in the end (`UsersStop`), and failures are bounded.

### Where the documentation and the code part

Each of these runs ends in a counterexample; the property is what the quoted
line says.

| Run | Said at | The code |
| --- | --- | --- |
| `ClaimUsage` | README.md:11 | counts objects of a namespace that name another project, but is not woken up by them: when a namespace has moved from one project to another, the new one's status can stay wrong |
| `ClaimNamed` | README.md:12 | treats a limit that is not set as zero once pods are limited: a project with a pods limit only rejects every pod that requests CPU |
| `ClaimServiceDeletion` | controller, line 31 | never deletes a project that holds a service: `ValidateUpdate` of services wants the annotation that the update is to remove |
| `ClaimOvershootDeletion` | README.md:22 | never deletes a project that is over its limit: the removal of the finalizer is validated as a modification |
| `ClaimCleanup` | controller, line 31 | takes the annotation off an object through the annotators; those of a replica that does not know of the deletion, or of the new list of namespaces, put it back, and nobody looks again |

The last three have one shape: the controller's own updates pass through
webhooks written for users. `DeletionCompletes` holds in `Failures` because its
instance has one configmap and a limit that it cannot overshoot, and
`LeavesOnlyRacedObjects` because its webhooks and its worker share a cache.

Limits that "cannot exceed" (README.md:27) are overshot in all runs with two
objects: two creations are admitted on one old status. They are overshot on a status
that is current, too, by updates of objects older than the project, although README.md:12
has the webhooks reject a "creation/modification"; README.md:112 says that objects
older than the project are not limited. `OvershootOnlyLaggedOrAdopted`,
`OvershootOnlyRacedOrAdopted` and `OvershootOnlyUnseenOrAdopted` say when.

The same mechanisms show in other ways that have no run of their own here. By
`api/v1/service_webhook.go:141` a service in a namespace of no project cannot be
updated, and a namespace with a service cannot leave a project; by line 151 no
service of a project at its limit can be updated. By
`projectresourcequota_webhook.go:136` two projects that came to share a namespace
block each other's deletion; by line 147 a limit with usage cannot be taken away.
By `pod_webhook.go:51` compute limits are ignored unless pods are limited. An
object older than the project is annotated and counted from its next update
(against README.md:112), and goes over the limit there; a namespace listed twice counts twice
(`SettledUsageIsProjectTotal` is checked without such lists), and a namespace
added and removed between two reconciles keeps its annotations, as
`status.namespaces` never had it; so does a namespace taken out just before the
project is deleted, as line 230 of the controller goes by `spec.namespaces`
(`Released` says which namespaces a step gives up). A clean-up takes off any
project's annotation, not its own only. An annotation that a user sets to name
another project makes the same mismatch as `ClaimUsage`; the annotators correct
it only where a project limits the kind.

## What is proved

For any projects, objects, kinds, namespaces, limits and bounds that satisfy the
named assumptions (finitely many projects and objects, kinds in the code's
order, whole non-negative amounts, `Absent` not the value of a project, users'
annotations naming projects or none, pods of `PodUsage` with the demand of their
containers), with what each theorem assumes besides:

| Theorem | States | Assumes |
| --- | --- | --- |
| `TypeCorrect` | `TypeOK` | |
| `Invariant` | `IInv` | |
| `LeavesRaced` | `LeavesOnlyRacedObjects` | |
| `SettledAccurate` | `SettledUsageAccurate` | `NamesAgree` |
| `Refinement` | `StatusPromised` | `NamesAgree` |
| `LimitsCover` | `LimitsCoverSettledUsage` | `NamesAgree` |
| `SettledTotal` | `SettledUsageIsProjectTotal` | `NamesAgree`, `NoRepeats` |
| `OvershootLaggedOrAdopted` | `OvershootOnlyLaggedOrAdopted` | `NamesAgree`, `NoRepeats`, `~FailOpen` |
| `ApartAgree` | `NamesAgree` throughout | `NamespacesApart` |
| `ApartAccurate` | `SettledUsageAccurate`, `StatusPromised` | `NamespacesApart` |
| `StripsStale` | `StripsMemberOnlyWhenStale` | `NamespacesApart` |
| `AdmissionInvariant` | `AdmissionInv` | |
| `OverlapFromRace` | `OverlapOnlyWhenRaced` | |
| `EscapeFromRace` | `EscapesOnlyWhenRaced` | `~FailOpen` |
| `AdmissionAccurate` | `SettledUsageAccurate`, of `AdmissionSpec` | `NamesAgree` |
| `OvershootRacedOrAdopted` | `OvershootOnlyRacedOrAdopted` | `NamesAgree`, `NoRepeats`, `~FailOpen` |
| `AdmissionApart` | `NamesAgree` throughout | `NamespacesApart`, `UserAnnotations` without projects |
| `RolloutInvariant` | `RolloutInv` | |
| `RolloutAccurate` | `SettledUsageAccurate`, of `RolloutSpec` | `NamesAgree` |
| `RolloutPromise` | `StatusPromised`, of `RolloutSpec` | `NamesAgree` |
| `UndoneByLag` | `CleanupUndoneOnlyByLag` | |
| `RolloutApart` | `NamesAgree` throughout | `NamespacesApart` |
| `RolloutApartAccurate` | `SettledUsageAccurate`, `StatusPromised`, of `RolloutSpec` | `NamespacesApart` |
| `LeavesUndone` | `LeavesOnlyRacedOrUndone` | |
| `RolloutStrips` | `StripsMemberOnlyWhenStale`, of `RolloutSpec` | `NamespacesApart` |
| `RolloutTotal` | `SettledUsageIsProjectTotal`, of `RolloutSpec` | `NamesAgree`, `NoRepeats` |
| `RolloutLimits` | `LimitsCoverSettledUsage`, of `RolloutSpec` | `NamesAgree` |
| `OvershootUnseenOrAdopted` | `OvershootOnlyUnseenOrAdopted` | `NamesAgree`, `NoRepeats`, `~FailOpen` |
| `PodChargedPeak` | what a pod is charged is its peak | |
| `SettledPeak` | `SettledCpuIsPeak` | `NamesAgree`, `NoRepeats` |

The assumptions, and why they are needed:

- `NamesAgree`: no object in a namespace of a live project names another project,
  as it is stored, cached or on its way. `ClaimUsage` is the counterexample
  without it: counting goes by namespace, waking up by annotation. It is an
  assumption about every state of a behaviour, hence weaker than
  `NamespacesApart`: projects may pass a namespace on, if its objects have lost the
  old name by then.
- `NamespacesApart`: the lists that users write for two projects have no namespace
  in common. It speaks of constants only; `ApartAgree`, `AdmissionApart` and
  `RolloutApart` show that it gives `NamesAgree`. `Failures`, `Grid`, `Services`, `Pods`,
  `Admission` and `Rollout` satisfy it, having one project each.
- `NoRepeats`: no list names a namespace twice; the code would count it twice.
- `~FailOpen`: the API server reaches the webhooks of objects. While it does not,
  nothing checks a limit.

**Types and coherence.** `TypeOK` is not inductive: the value the worker writes
back is a project's only if its copy is one, and the object it updates exists
only if it is not stale. So `IInv` adds `WorkerFresh` - what the worker holds and
is not `stale` is what is stored - which in turn needs `CacheCoherent`: an item
without undelivered events is stored as it is cached, and the last undelivered
event of an item carries its stored value. Each has its preservation theorem
(`TypeStep`, `CoherentStep`, `FreshStep`), built on what each handler writes
(`UserWrites`, `RemoveUpdateWrites`, `UpdateStatusWrites`, `FinalizeWrites`). They are
about any step in which *some* value of an item is persisted (`AnyStep`), and so about
every way in which a webhook may answer. What a client is sent and takes up
(`SentFollows`, `TakenFollows`) is stated of any cache and any watch, and serves both
replicas.

**Settled status.** `UsageInv` is inductive with `IInv`. `OnlyOwedInaccurate` says that
a live project that nothing is owed records what a reconcile would. It needs
`ListsCurrent`: while the worker's copy of its project is current and nothing that
concerns the project waits to be taken up, the cells that the calculation has
visited are what a list would give now, and the others are empty - so at
`UpdateStatus` the sum of a mixture of moments is the sum of this one, or the
project is owed another reconcile. It needs `BranchTaken` too, since a project in
deletion records nothing. The heart is that a step that changes the total of a
live project leaves it owed: the change is an event, and until the event is taken
up the project waits (here `NamesAgree` is used, for the old and the new value).
That argument never asks what a webhook answered (`AnyStep`), and so holds for
`Admission` as it stands: each of its steps is an `AnyStep` of `ProjectQuota`.
`Refinement` follows step by step from the same facts: the steps of the abstract
specification are read off per project.

**Totals and limits.** `SettledTotal` compares two ways to count: the calculation
sums charges over the entries of `spec.namespaces`, the total is the number of
units held. `HeldUnits` is the set both count, once no entry repeats. The rest is
what validators compare: `LimitsCover` for projects, `OvershootLaggedOrAdopted` for objects,
where the one charge that a request adds is put on top of an accurate status
(`WhoCharges`: it is made in a creation, or in an update that a service's validator has
compared, or it adopts its object unchecked).

**Clean-up.** `CleanInv`: while the worker's copy is current, every object that it
has passed in a removed namespace (`Passed`) and that names the project is in the
batch it is about to update, or is stale. `BatchRemoved` and `RowRemoved` tie batch
and position to the removed namespaces; `HaveFinalizer` and `CurDelivered` make sure
that a project disappears, or records new namespaces, only by the worker's own
write, and that the copy it goes by is the stored one. `LeavesRaced` needs nothing
else. It is about the namespaces that a step gives up (`Released`): one that was
taken out of `spec.namespaces` just before the project was deleted is not among them, and
its objects keep the annotation without any race.

**Requests in three steps.** Admission keeps `IInv` because none of its parts
depends on what the webhooks answered: a persisted request is an `AnyStep`, and what
happens without a request is a step of
`ProjectQuota` (`UnaskedIsNext`). `AdmissionInv` adds the type of requests and
`ProjectsApart`: the namespaces of an accepted request are free of every project not
in `missed`. At the moment of validation that is what `validateNamespace` found,
since a project without an undelivered change is cached as stored
(`CacheCoherent`); later it stands because whatever changes is missed.
`OverlapFromRace` follows with `UnaskedClaims`: only a persisted request gives a
project a namespace, the worker's writes giving none because its copy, not being
stale, has the stored namespaces (`WorkerFresh`). `EscapeFromRace` rests on
`NamesOwner` in the same way: where nothing of the projects is undelivered, the
owner is the annotator's one choice.

`OvershootRacedOrAdopted` needs more than settled status, because other objects may have
changes undelivered when the webhook answers. `CacheRecorded` says what the webhook
compares then: a live project that is not queued, not being reconciled and has no
change of its own undelivered records what a reconcile would find *in the cache*
(`CacheListed` is its part for a reconcile under way). `RequestsFit` carries the
comparison on to the write: as long as the project and its other objects stand as
they were seen (`StandsFor`), an accepted request whose charge was compared (`WouldCharge`) fits under the limit. `ShapesKept`
says that only a service changes what it charges in a request.

**Two replicas.** `RolloutInv` is `IInv` and `PeerFollows`, the part of coherence that
speaks of a cache, for the peer's. The peer is sent exactly what is written
(`SentIsWritten`: what a step adds to a stream is the one event of its write), so that
its cache keeps up with the same store (`PeerSent`, `PeerTakes`). Whichever replica
answers, the step is one of `ProjectQuota` with that replica's view (`StepBy(view)`),
an `AnyStep` in either case, and everything proved of those carries over
(`RolloutSteps`). What is new is `Takeover`: coherence goes over with the peer's cache,
and afterwards every live project is owed (`TakeoverOwes`), being in the cache the new
leader queues from or in an event it has yet to see. `UndoneByLag` looks at one
update of the clean-up: the leader's own annotator knows of the deletion or of the
new list, since the worker's copy is what its cache has or is stale
(`CurDelivered`), and so does the peer's, if no change of the project waits for it
(`PeerDelivered`); `BatchLeaves` says that only an update takes an object out of the
batch, and `RemovalUnnames` that one that knows the project leaves no annotation.

What a replica that lags may leave, `CleanedBut` says: it is the clean-up's invariant
with a set of objects that may still be annotated, none with one replica and `undone`
with two (`RolloutCleanInv`). An update that leaves the annotation puts its object
in that set if the peer had yet to see a change of the project; if the peer had none
to see, its annotator knew what the leader's knows, and the update took the annotation
off, or the worker's copy is stale and the invariant says nothing.
`LeavesUndone` follows as `LeavesRaced` does.

The lemmas about limits, too, are about a step with any view. A project's validator
compares the new limits with the usage in the request, which is the stored one
whoever answers, so that `RolloutLimits` needs no more than `LimitsCover`. An object's
validator reads the project in its own cache (`ChargeFits`): the leader's is the stored
one because nothing of a settled project is undelivered (`SettledIsCached`), the peer's
if no change waits for it - which is the one clause that `OvershootOnlyUnseenOrAdopted` adds.

`RolloutApart` needs that what the peer caches, or is on its way to it, comes from
where it belongs too (`PeerHome`).

**Pods of any size.** `Aggregate` is a fold over the init containers, `Peak` a maximum
over moments. `InitNeedsFolds` says what the fold has computed after any number of
them: the sum of the sidecars so far, and the largest moment so far. It is by
induction on that number, with two facts proved for the purpose: that a set of numbers
that holds 0 and with each number its successor is all of them (`Induction`), and that
the recursive function behind a fold exists and takes its steps (`Recursion`).
`AggregateIsPeak` puts the containers on top as the last moment; `PodChargedPeak` is
its consequence for requests and limits. For a project, `SumCounts` says that a sum of
whole amounts is the number of their units, by induction over finite sets
(`SetInduction`). The units of its running pods are those `ProjectTotal` counts
(`TotalIsPeak`), and `SettledPeak` follows from `SettledTotal`.

Before each was proved, TLC checked the parts of these invariants as invariants
of `Failures`, `Services`, `Admission` and `Rollout`.

**Only model-checked.** `DeletionCompletes`, `UsageConverges` and `ControllerRests`:
liveness under fairness is outside what the prover does. Every other property of a
passing run is a theorem's.

## What is not modelled, and abstractions

- The lease: two processes never both lead. Between losing its lease and
  stopping, a manager could still write; each of its writes would be refused or
  not as those of any other client.
- Health probes and start-up errors. More than two replicas.
- An informer updates its cache and enqueues in one step.
- A call that takes effect but reports a timeout is the write followed by
  `TransientError`; rate limiting is only that a retry comes later.
- In `Admission` a call of the API server to a webhook is made once; in-tree
  admission that mutates objects is left out. A request that was dropped is one
  that the user may submit again.
- The controller's updates are one step with their webhooks, also in `Admission`:
  the worker waits for the answer, and a change of the object meanwhile is a
  conflict.
- The controller's `List` calls of one kind and namespace are atomic, as they
  are in the cache.
- Manifests, generated code, logging and metrics.

## Plan

Done: the modules above and their theorems, for one replica, for requests in three
steps, for two replicas and for pods of any size; every invariant and action
property that a run checks is proved.

Open:

1. How far objects escape from their projects, and projects overlap, with two replicas:
   as `EscapesOnlyWhenRaced` and `OverlapOnlyWhenRaced`, but by what the answering
   replica has not seen.
2. Requests in three steps together with two replicas: each is an extension of
   `ProjectQuota` by itself.
