------------------------------- MODULE Admission -------------------------------
(***************************************************************************)
(* ProjectQuota with requests that take time.  The API server calls the    *)
(* mutating webhook, then the validating webhook, then persists: three     *)
(* steps, and other requests, the informers and the controller run between *)
(* them, on the same cache.  Users write annotations of their own.         *)
(*                                                                         *)
(* A request's item has the resourceVersion it was submitted against, or   *)
(* is absent, or the API server refuses to persist it.  The model forgets  *)
(* such a request as soon as its item changes, so for those it keeps the   *)
(* stored value of the item is the old one.                                *)
(***************************************************************************)
EXTENDS ProjectQuota

CONSTANTS
    UserAnnotations,  \* the annotations users write themselves
    MaxRequests       \* bound: requests in flight

ASSUME AdmissionAssumption ==
    UserAnnotations \subseteq Projects \union {None} /\ MaxRequests \in Nat

VARIABLE requests   \* the requests in flight, at most one per item

admissionVars == <<vars, requests>>

\* unseen: the projects that are not as the mutating webhook saw them, because a
\* change was undelivered or was made since.  missed: the items the answer of the
\* validating webhook is about that are not as it saw them.  settled: the object's
\* project was neither queued nor being reconciled at that moment.
Request ==
    {r \in [item : Items, val : Value, stage : {"mutated", "validated"},
            unseen : SUBSET Projects, missed : SUBSET Items, settled : BOOLEAN] :
        r.val \in ValuesOf(r.item)}

\* A project's validator goes through the other projects; an object's reads a
\* project whose status stands for other objects.
Reads(x) == IF x \in Projects THEN Projects \ {x} ELSE Items \ {x}

Undelivered == {x \in Items : Pending(x)}

-----------------------------------------------------------------------------
(* The steps of a request *)

\* Requests that go on after a step that may have changed the store.
Continue(inflight) ==
    LET changed == {x \in Items : store'[x] # store[x]}
    IN {[r EXCEPT !.unseen = @ \union (changed \intersect Projects),
                  !.missed = IF r.stage = "validated"
                             THEN @ \union (changed \intersect Reads(r.item)) ELSE @] :
           r \in {q \in inflight : q.item \notin changed}}

\* The mutating webhook has made v of a request for x.
Open(x, v) ==
    /\ requests' = requests \union {[item |-> x, val |-> v, stage |-> "mutated",
                                     unseen |-> Undelivered \intersect Projects,
                                     missed |-> {}, settled |-> FALSE]}
    /\ UNCHANGED vars

CanSubmit(x) ==
    /\ Cardinality(requests) < MaxRequests /\ Room(x)
    /\ \A r \in requests : r.item # x

SubmitObject(o) ==
    /\ CanSubmit(o)
    /\ LET shapes == IF store[o] = Absent THEN NewShapes(o) ELSE UpdatedShapes(o)
           found == IF store[o] = Absent THEN None ELSE store[o].anno
       IN \E shape \in shapes, anno \in UserAnnotations \union {found} :
             \E v \in Mutations(cache, o, [anno |-> anno, shape |-> shape]) : Open(o, v)

SubmitProject(p) ==
    /\ CanSubmit(p)
    /\ \E namespaces \in NamespaceLists[p], hard \in Hards :
          Open(p, PrqDefault(IF store[p] = Absent THEN NewPrq(namespaces, hard)
                             ELSE [store[p] EXCEPT !.namespaces = namespaces,
                                                   !.hard = hard]))

\* What the validating webhook of the item answers.
Valid(r) ==
    LET x == r.item
    IN CASE x \in Projects /\ store[x] = Absent -> PrqValidateCreate(cache, x, r.val)
         [] x \in Projects /\ store[x] # Absent -> PrqValidateUpdate(cache, x, r.val)
         [] x \in Objects /\ store[x] = Absent -> Passes(ValidateCreate(cache, x, r.val))
         [] x \in Objects /\ store[x] # Absent ->
               Passes(ValidateUpdate(cache, x, store[x], r.val))

Validate(r) ==
    /\ r \in requests /\ r.stage = "mutated"
    /\ requests' = (requests \ {r}) \union
          (IF Valid(r)
           THEN {[r EXCEPT !.stage = "validated",
                           !.missed = Undelivered \intersect Reads(r.item),
                           !.settled = r.item \in Objects
                                          /\ r.val.anno \notin queue \union {cur, None}]}
           ELSE {})
    /\ UNCHANGED vars

PersistRequest(r) ==
    /\ r \in requests /\ r.stage = "validated" /\ Room(r.item)
    /\ Persist(r.item, r.val)
    /\ requests' = Continue(requests \ {r})

-----------------------------------------------------------------------------
(* The specification *)

\* What changes the store without a webhook of a user's request.
Unasked ==
    \/ \E o \in Objects : PodTerminates(o) \/ DeleteObject(o)
    \/ \E p \in Projects : DeleteProject(p)
    \/ ReconcilerNext

AdmissionInit == Init /\ requests = {}

AdmissionNext ==
    \/ \E o \in Objects : SubmitObject(o)
    \/ \E p \in Projects : SubmitProject(p)
    \/ \E r \in requests : Validate(r) \/ PersistRequest(r)
    \/ Unasked /\ requests' = Continue(requests)

AdmissionSpec == AdmissionInit /\ [][AdmissionNext]_admissionVars

-----------------------------------------------------------------------------
(* Properties *)

\* This step persists request r.
Persists(r) ==
    r.stage = "validated" /\ store[r.item] # r.val /\ store'[r.item] = r.val

\* The annotators (configmap_webhook.go and its six likes): an object persisted in
\* a namespace of a live project that limits its kind names that project, whatever
\* annotation the user wrote, unless some project changed behind the annotator.
EscapesOnlyWhenRaced ==
    [][\A r \in requests, p \in Projects :
          /\ r.item \in Objects /\ Persists(r) /\ Live(store[p])
          /\ Claims(store[p], NamespaceOf[r.item]) /\ Counts(store[p].hard, KindOf[r.item])
          /\ r.unseen = {}
          /\ \A q \in Projects \ {p} : ~Claims(store[q], NamespaceOf[r.item])
          => r.val.anno = p]_admissionVars

\* The validators of the objects: a request that is persisted takes a live project
\* over its limit only if, when the webhook answered, the project was due a reconcile,
\* or the project or another of its objects was not as the webhook saw it - or if it
\* is an update that adopts an object, which the webhook does not check.
OvershootOnlyRacedOrAdopted ==
    [][\A r \in requests, p \in Projects, s \in Resources :
          /\ r.item \in Objects /\ Persists(r)
          /\ Live(store[p]) /\ NewCharge(r.item, p, s)
          /\ r.settled /\ p \notin r.missed
          /\ \A o \in r.missed \ Projects : ~Claims(store[p], NamespaceOf[o])
          => \/ CurrentUsage(store[p], store')[s] <= Limit(store[p].hard, s)
             \/ AdoptedUnchecked(r.item, p, s)]_admissionVars

\* validateNamespace: a project gains a namespace that another has only if the
\* other changed, or had an undelivered change, after the webhook looked.
OverlapOnlyWhenRaced ==
    [][\A p, q \in Projects, n \in Range(NamespaceOrder) :
          /\ p # q
          /\ Claims(store'[p], n) /\ ~Claims(store[p], n)
          /\ Claims(store[q], n) /\ Claims(store'[q], n)
          => \E r \in requests : r.item = p /\ Persists(r) /\ q \in r.missed]_admissionVars

================================================================================
