---------------------------- MODULE Admission_proofs ----------------------------
(***************************************************************************)
(* Theorems about Admission: what requests in three steps, any number of   *)
(* them at once, can and cannot do to projects that share a cluster.       *)
(***************************************************************************)
EXTENDS Admission, ProjectQuota_proofs

-----------------------------------------------------------------------------
(* Requests *)

RequestsType == requests \subseteq Request

\* A request that validateNamespace accepted has a project list namespaces that no
\* other project has, of those that did not change behind it.
ProjectsApart ==
    \A r \in requests : \A q \in Projects :
        /\ r.item \in Projects /\ r.stage = "validated"
        /\ q # r.item /\ q \notin r.missed /\ store[q] # Absent
        => Range(store[q].namespaces) \intersect Range(r.val.namespaces) = {}

\* A request names the one project that owns and limits its object, unless projects
\* changed behind the annotator.
NamesOwner ==
    \A r \in requests : \A p \in Projects :
        /\ r.item \in Objects /\ r.unseen = {} /\ Live(store[p])
        /\ Claims(store[p], NamespaceOf[r.item]) /\ Counts(store[p].hard, KindOf[r.item])
        /\ \A q \in Projects \ {p} : ~Claims(store[q], NamespaceOf[r.item])
        => r.val.anno = p

\* The inductive invariant of Admission.
AdmissionInv == IInv /\ RequestsType /\ ProjectsApart

\* What a request in flight is made of.
LEMMA RequestFields ==
    ASSUME NEW r \in Request
    PROVE  /\ r.item \in Items /\ r.val \in ValuesOf(r.item)
           /\ r.stage \in {"mutated", "validated"}
           /\ r.unseen \subseteq Projects /\ r.missed \subseteq Items
           /\ r.settled \in BOOLEAN
BY DEF Request

\* What the API server keeps of a request that a change of the store does not
\* concern.
LEMMA ContinueFields ==
    ASSUME NEW inflight, inflight \subseteq Request, NEW r \in Continue(inflight)
    PROVE  /\ r \in Request
           /\ \E q \in inflight :
                 /\ r.item = q.item /\ r.val = q.val /\ r.stage = q.stage
                 /\ r.settled = q.settled
                 /\ store'[r.item] = store[r.item]
                 /\ q.unseen \subseteq r.unseen /\ q.missed \subseteq r.missed
                 /\ \A x \in Projects : store'[x] # store[x] => x \in r.unseen
                 /\ \A x \in Reads(r.item) :
                       r.stage = "validated" /\ store'[x] # store[x] => x \in r.missed
<1> DEFINE changed == {x \in Items : store'[x] # store[x]}
<1>1. PICK q \in inflight :
        /\ q.item \notin changed
        /\ r = [q EXCEPT !.unseen = @ \union (changed \intersect Projects),
                         !.missed = IF q.stage = "validated"
                                    THEN @ \union (changed \intersect Reads(q.item)) ELSE @]
  BY DEF Continue
<1>2. q \in Request
  OBVIOUS
<1>3. /\ r.item = q.item /\ r.val = q.val /\ r.stage = q.stage /\ r.settled = q.settled
      /\ r.unseen = q.unseen \union (changed \intersect Projects)
      /\ r.missed = IF q.stage = "validated"
                    THEN q.missed \union (changed \intersect Reads(q.item)) ELSE q.missed
  BY <1>1, <1>2 DEF Request
<1>4. r \in Request
  BY <1>1, <1>2 DEF Request
<1>5. Projects \subseteq Items /\ Reads(q.item) \subseteq Items
  BY DEF Items, Reads
<1> QED
  BY <1>1, <1>2, <1>3, <1>4, <1>5, RequestFields

\* The mutating webhooks make values of the item they are given.
LEMMA OpenType ==
    ASSUME RequestsType, NEW x \in Items, NEW v \in ValuesOf(x), Open(x, v)
    PROVE  RequestsType'
<1> DEFINE r == [item |-> x, val |-> v, stage |-> "mutated",
                 unseen |-> Undelivered \intersect Projects,
                 missed |-> {}, settled |-> FALSE]
<1>1. v \in Value
  BY ValuesInValue
<1>2. r \in Request
  BY <1>1 DEF Request
<1> QED
  BY <1>2 DEF Open, RequestsType

\* A submitted object is a value of that object, before and after the annotator.
LEMMA SubmitObjectOpens ==
    ASSUME ApiTypeOK, NEW o \in Objects, SubmitObject(o)
    PROVE  \E v0 \in Object(o) : \E v \in Mutations(cache, o, v0) :
              v \in Object(o) /\ Open(o, v)
<1>1. store[o] # Absent => store[o] \in Object(o)
  BY ViewType, ItemCases
<1>2. PICK shape \in IF store[o] = Absent THEN NewShapes(o) ELSE UpdatedShapes(o),
           anno \in UserAnnotations \union {IF store[o] = Absent THEN None ELSE store[o].anno} :
        \E v \in Mutations(cache, o, [anno |-> anno, shape |-> shape]) : Open(o, v)
  BY DEF SubmitObject
<1>3. shape \in Shapes(KindOf[o])
  BY <1>1 DEF NewShapes, UpdatedShapes, Object, ObjectOver
<1>4. anno \in Projects \union {None}
  BY <1>1, AdmissionAssumption DEF Object, ObjectOver
<1>5. [anno |-> anno, shape |-> shape] \in Object(o)
  BY <1>3, <1>4 DEF Object, ObjectOver
<1> QED
  BY <1>2, <1>5, MutationsType

\* A submitted project is a value of that project.
LEMMA SubmitProjectOpens ==
    ASSUME ApiTypeOK, NEW p \in Projects, SubmitProject(p)
    PROVE  \E v \in Prq(p) : Open(p, v)
<1>1. PICK namespaces \in NamespaceLists[p], hard \in Hards :
        Open(p, PrqDefault(IF store[p] = Absent THEN NewPrq(namespaces, hard)
                           ELSE [store[p] EXCEPT !.namespaces = namespaces, !.hard = hard]))
  BY DEF SubmitProject
<1>2. CASE store[p] = Absent
  BY <1>1, <1>2, NewPrqType, PrqDefaultType
<1>3. CASE store[p] # Absent
  <2>1. store[p] \in Prq(p)
    BY <1>3, ViewType, ItemCases
  <2>2. [store[p] EXCEPT !.namespaces = namespaces, !.hard = hard] \in Prq(p)
    BY <2>1 DEF Prq, PrqOver
  <2> QED
    BY <1>1, <1>3, <2>2, PrqDefaultType
<1> QED
  BY <1>2, <1>3

\* What the validating webhook leaves of a request, if anything.
LEMMA ValidateLeaves ==
    ASSUME RequestsType, NEW r \in requests, Validate(r), NEW q \in requests'
    PROVE  \/ q \in requests
           \/ /\ q \in Request /\ Valid(r)
              /\ q.item = r.item /\ q.val = r.val /\ q.unseen = r.unseen
              /\ q.missed = Undelivered \intersect Reads(r.item)
              /\ q.settled => r.val.anno \notin queue \union {cur, None}
<1>1. r \in Request
  BY DEF RequestsType
<1>2. CASE q \notin requests
  <2>1. /\ Valid(r)
        /\ q = [r EXCEPT !.stage = "validated",
                         !.missed = Undelivered \intersect Reads(r.item),
                         !.settled = r.item \in Objects
                                        /\ r.val.anno \notin queue \union {cur, None}]
    BY <1>2 DEF Validate
  <2>2. Undelivered \intersect Reads(r.item) \subseteq Items
    BY DEF Undelivered
  <2>3. (r.item \in Objects /\ r.val.anno \notin queue \union {cur, None}) \in BOOLEAN
    OBVIOUS
  <2>4. q \in Request /\ q.item = r.item /\ q.val = r.val /\ q.unseen = r.unseen
        /\ q.missed = Undelivered \intersect Reads(r.item)
    BY <1>1, <2>1, <2>2, <2>3 DEF Request
  <2>5. q.settled => r.val.anno \notin queue \union {cur, None}
    BY <1>1, <2>1, <2>3 DEF Request
  <2> QED
    BY <2>1, <2>4, <2>5
<1> QED
  BY <1>2

\* A project's request is valid only if validateNamespace accepted it.
LEMMA ValidProject ==
    ASSUME NEW r, r.item \in Projects, Valid(r)
    PROVE  validateNamespace(cache, r.item, r.val.namespaces)
<1>1. r.item \notin Objects
  BY ItemCases
<1>2. CASE store[r.item] = Absent
  BY <1>1, <1>2 DEF Valid, PrqValidateCreate
<1>3. CASE store[r.item] # Absent
  BY <1>1, <1>3 DEF Valid, PrqValidateUpdate, PrqValidateCreate
<1> QED
  BY <1>2, <1>3

-----------------------------------------------------------------------------
(* Steps *)

\* The kinds of step a request or the rest of the operator can take.
LEMMA StepCases ==
    ASSUME [AdmissionNext]_admissionVars
    PROVE  \/ UNCHANGED admissionVars
           \/ \E o \in Objects : SubmitObject(o)
           \/ \E p \in Projects : SubmitProject(p)
           \/ \E r \in requests : Validate(r)
           \/ \E r \in requests : PersistRequest(r)
           \/ Unasked /\ requests' = Continue(requests)
BY DEF AdmissionNext

\* What happens without a request is a step of ProjectQuota.
LEMMA UnaskedIsNext == Unasked => Next
BY DEF Unasked, Next, UserNext, UserRequest

\* The invariant of ProjectQuota holds in Admission too.
LEMMA InvariantAdmission ==
    ASSUME IInv, RequestsType, [AdmissionNext]_admissionVars
    PROVE  IInv'
<1>1. CASE UNCHANGED vars
  BY <1>1, InvariantStep DEF AnyStep
<1>2. CASE Unasked
  BY <1>2, UnaskedIsNext, NextIsAnyStep, InvariantStep DEF IInv
<1>3. ASSUME NEW r \in requests, PersistRequest(r)
      PROVE  IInv'
  BY <1>3, RequestFields, InvariantStep DEF RequestsType, PersistRequest, AnyStep
<1> QED
  BY <1>1, <1>2, <1>3, StepCases
  DEF admissionVars, SubmitObject, SubmitProject, Open, Validate

\* Requests keep their type.
LEMMA RequestsTypeStep ==
    ASSUME IInv, RequestsType, [AdmissionNext]_admissionVars
    PROVE  RequestsType'
<1>0. ApiTypeOK
  BY DEF IInv, TypeOK
<1>1. CASE UNCHANGED admissionVars
  BY <1>1 DEF admissionVars, RequestsType
<1>2. ASSUME NEW o \in Objects, SubmitObject(o)
      PROVE  RequestsType'
  BY <1>0, <1>2, SubmitObjectOpens, OpenType, ItemCases
<1>3. ASSUME NEW p \in Projects, SubmitProject(p)
      PROVE  RequestsType'
  BY <1>0, <1>3, SubmitProjectOpens, OpenType, ItemCases
<1>4. ASSUME NEW r \in requests, Validate(r)
      PROVE  RequestsType'
  BY <1>4, ValidateLeaves DEF RequestsType
<1>5. ASSUME NEW inflight, inflight \subseteq requests, requests' = Continue(inflight)
      PROVE  RequestsType'
  BY <1>5, ContinueFields DEF RequestsType
<1> QED
  BY <1>1, <1>2, <1>3, <1>4, <1>5, StepCases DEF PersistRequest

-----------------------------------------------------------------------------
(* Who claims a namespace *)

\* What happens without a request gives no project a namespace.
LEMMA UnaskedClaims ==
    ASSUME IInv, Unasked
    PROVE  \A p \in Projects, n \in Range(NamespaceOrder) :
              Claims(store'[p], n) => Claims(store[p], n)
<1> DEFINE Keeps == \A p \in Projects, n \in Range(NamespaceOrder) :
                       Claims(store'[p], n) => Claims(store[p], n)
<1>0. TypeOK /\ ApiTypeOK /\ ReconcilerTypeOK /\ WorkerFresh
  BY DEF IInv, TypeOK
<1>1. CASE UNCHANGED store
  BY <1>1
<1>2. ASSUME NEW x \in Items, NEW v, Write(x, v), x \in Objects
      PROVE  Keeps
  BY <1>2, ItemCases DEF Write
<1>3. ASSUME NEW p \in Projects, NEW v, Write(p, v),
             v = Absent \/ (store[p] # Absent /\ v.namespaces = store[p].namespaces)
      PROVE  Keeps
  <2>1. \A q \in Projects : store'[q] = IF q = p THEN v ELSE store[q]
    BY <1>0, <1>3, ItemCases DEF Write, ApiTypeOK, View
  <2> QED
    BY <1>3, <2>1 DEF Claims
<1>4. ASSUME NEW p \in Projects, DeleteProject(p)
      PROVE  Keeps
  <2>1. store[p] \in Prq(p)
    BY <1>0, <1>4, ViewType, ItemCases DEF DeleteProject, Live
  <2>2. [store[p] EXCEPT !.deleting = TRUE].namespaces = store[p].namespaces
    BY <2>1 DEF Prq, PrqOver
  <2>3. PICK v \in {[store[p] EXCEPT !.deleting = TRUE], Absent} : Write(p, v)
    BY <1>4 DEF DeleteProject, Persist
  <2>4. v = Absent \/ (store[p] # Absent /\ v.namespaces = store[p].namespaces)
    BY <1>4, <2>2 DEF DeleteProject, Live
  <2> QED
    BY <1>3, <2>3, <2>4
<1>5. CASE \E o \in Objects : RemoveUpdate(cache, o)
  BY <1>0, <1>1, <1>2, <1>5, RemoveUpdateWrites, ItemCases DEF apiVars
<1>6. CASE UpdateStatus
  <2> DEFINE v == [snap EXCEPT !.used = UsedBy(snap.hard, lists),
                               !.statusNamespaces = snap.namespaces]
  <2>1. CASE cur \in Projects /\ cur \notin stale /\ Write(cur, v)
    <3>1. snap \in Prq(cur) /\ pc # "idle"
      BY <1>0, <1>6 DEF ReconcilerTypeOK, UpdateStatus
    <3>2. snap = store[cur] /\ store[cur] # Absent
      BY <1>0, <2>1, <3>1, AbsentAssumption DEF WorkerFresh
    <3>3. v.namespaces = snap.namespaces
      BY <3>1 DEF Prq, PrqOver
    <3> HIDE DEF v
    <3> QED
      BY <1>3, <2>1, <3>2, <3>3
  <2> QED
    BY <1>0, <1>1, <1>6, <2>1, UpdateStatusWrites DEF apiVars
<1>7. CASE Finalize(cache)
  <2> DEFINE v == PrqDefault(RemoveFinalizer(snap))
  <2>1. CASE cur \in Projects /\ cur \notin stale /\ (Write(cur, v) \/ Write(cur, Absent))
    <3>1. snap \in Prq(cur) /\ pc # "idle"
      BY <1>0, <1>7 DEF ReconcilerTypeOK, Finalize
    <3>2. snap = store[cur] /\ store[cur] # Absent
      BY <1>0, <2>1, <3>1, AbsentAssumption DEF WorkerFresh
    <3>3. v.namespaces = snap.namespaces
      BY <3>1 DEF PrqDefault, AddFinalizer, RemoveFinalizer, Prq, PrqOver
    <3> HIDE DEF v
    <3> QED
      BY <1>3, <2>1, <3>2, <3>3
  <2> QED
    BY <1>0, <1>1, <1>7, <2>1, FinalizeWrites DEF apiVars
<1>8. CASE (\E p \in Projects : Dequeue(p)) \/ RemoveList \/ RemoveDone \/ CalcList
           \/ (\E s \in Streams : Deliver(s)) \/ TransientError \/ Restart
  BY <1>1, <1>8 DEF apiVars, Dequeue, RemoveList, RemoveDone, CalcList, Deliver,
                    Observe, TransientError, Restart, Resync
<1>9. CASE \E o \in Objects : PodTerminates(o) \/ DeleteObject(o)
  BY <1>2, <1>9, ItemCases DEF PodTerminates, DeleteObject, Persist
<1> QED
  BY <1>4, <1>5, <1>6, <1>7, <1>8, <1>9 DEF Unasked, ReconcilerNext, WorkerStep

\* The validating webhook saw as stored every project that has no undelivered
\* change, and what changes later is missed.
LEMMA ApartStep ==
    ASSUME IInv, RequestsType, ProjectsApart, [AdmissionNext]_admissionVars
    PROVE  ProjectsApart'
<1>0. CacheCoherent
  BY DEF IInv
<1>1. CASE UNCHANGED admissionVars
  BY <1>1 DEF admissionVars, vars, apiVars, ProjectsApart
<1>2. ASSUME NEW x, NEW v, Open(x, v)
      PROVE  ProjectsApart'
  BY <1>2 DEF Open, vars, apiVars, ProjectsApart
<1>3. ASSUME NEW r \in requests, Validate(r)
      PROVE  ProjectsApart'
  <2> SUFFICES ASSUME NEW s \in requests', NEW q \in Projects,
                      s.item \in Projects, s.stage = "validated",
                      q # s.item, q \notin s.missed, store[q] # Absent
               PROVE  Range(store[q].namespaces) \intersect Range(s.val.namespaces) = {}
    BY <1>3 DEF Validate, vars, apiVars, ProjectsApart
  <2>1. CASE s \in requests
    BY <2>1 DEF ProjectsApart
  <2>2. CASE /\ Valid(r) /\ s.item = r.item /\ s.val = r.val
             /\ s.missed = Undelivered \intersect Reads(r.item)
    <3>1. ~Pending(q)
      BY <2>2, ItemCases DEF Undelivered, Reads
    <3>2. cache[q] = store[q]
      BY <1>0, <3>1, ItemCases DEF CacheCoherent
    <3> QED
      BY <2>2, <3>2, ValidProject DEF validateNamespace
  <2> QED
    BY <1>3, <2>1, <2>2, ValidateLeaves
<1>4. ASSUME NEW inflight, inflight \subseteq requests, requests' = Continue(inflight)
      PROVE  ProjectsApart'
  <2> SUFFICES ASSUME NEW s \in requests', NEW q \in Projects,
                      s.item \in Projects, s.stage = "validated",
                      q # s.item, q \notin s.missed, store'[q] # Absent
               PROVE  Range(store'[q].namespaces) \intersect Range(s.val.namespaces) = {}
    BY DEF ProjectsApart
  <2>1. PICK t \in inflight :
          /\ s.item = t.item /\ s.val = t.val /\ s.stage = t.stage
          /\ t.missed \subseteq s.missed
          /\ \A x \in Reads(s.item) :
                s.stage = "validated" /\ store'[x] # store[x] => x \in s.missed
    BY <1>4, ContinueFields DEF RequestsType
  <2>2. store'[q] = store[q]
    BY <2>1 DEF Reads
  <2> QED
    BY <1>4, <2>1, <2>2 DEF ProjectsApart
<1> QED
  BY <1>1, <1>2, <1>3, <1>4, StepCases DEF SubmitObject, SubmitProject, PersistRequest

\* Admission's invariant holds of the empty cluster and is kept by every step.
THEOREM AdmissionInvariant == AdmissionSpec => []AdmissionInv
<1>1. AdmissionInit => AdmissionInv
  BY InvariantInit DEF AdmissionInit, AdmissionInv, RequestsType, ProjectsApart
<1>2. AdmissionInv /\ [AdmissionNext]_admissionVars => AdmissionInv'
  BY InvariantAdmission, RequestsTypeStep, ApartStep DEF AdmissionInv
<1> QED
  BY <1>1, <1>2, PTL DEF AdmissionSpec

\* validateNamespace keeps any number of projects apart, however many requests are
\* in flight and whatever happens between their steps: two projects come to share a
\* namespace only if the one that had it was not as the webhook saw it.
THEOREM OverlapFromRace == AdmissionSpec => OverlapOnlyWhenRaced
<1> DEFINE Step == \A p, q \in Projects, n \in Range(NamespaceOrder) :
                      /\ p # q
                      /\ Claims(store'[p], n) /\ ~Claims(store[p], n)
                      /\ Claims(store[q], n) /\ Claims(store'[q], n)
                      => \E r \in requests : r.item = p /\ Persists(r) /\ q \in r.missed
<1>1. ASSUME AdmissionInv, [AdmissionNext]_admissionVars
      PROVE  Step
  <2> SUFFICES ASSUME NEW p \in Projects, NEW q \in Projects, NEW n \in Range(NamespaceOrder),
                      p # q,
                      Claims(store'[p], n), ~Claims(store[p], n),
                      Claims(store[q], n), Claims(store'[q], n)
               PROVE  \E r \in requests : r.item = p /\ Persists(r) /\ q \in r.missed
    OBVIOUS
  <2>0. IInv /\ ApiTypeOK /\ RequestsType /\ ProjectsApart
    BY <1>1 DEF AdmissionInv, IInv, TypeOK
  <2>1. ~Unasked
    BY <2>0, UnaskedClaims
  <2>2. store'[p] # store[p]
    OBVIOUS
  <2>3. PICK r \in requests : PersistRequest(r)
    BY <1>1, <2>1, <2>2, StepCases
    DEF admissionVars, vars, apiVars, SubmitObject, SubmitProject, Open, Validate
  <2>4. r.item \in Items /\ store' = [store EXCEPT ![r.item] = r.val]
    BY <2>0, <2>3, RequestFields DEF RequestsType, PersistRequest, Persist, Write
  <2>5. r.item = p /\ store'[p] = r.val /\ r.stage = "validated"
    BY <2>0, <2>2, <2>3, <2>4, ItemCases DEF ApiTypeOK, View, PersistRequest
  <2>6. q \in r.missed
    BY <2>0, <2>5 DEF ProjectsApart, Claims
  <2> QED
    BY <2>2, <2>5, <2>6 DEF Persists
<1> QED
  BY <1>1, AdmissionInvariant, PTL DEF AdmissionSpec, OverlapOnlyWhenRaced

-----------------------------------------------------------------------------
(* Who is charged for an object *)

\* While the API server reaches the annotators, an object submitted when they see
\* the projects as stored names the one project that owns and limits it.
LEMMA AnnotatorNames ==
    ASSUME ~FailOpen, IInv,
           NEW o \in Objects, NEW v0 \in Object(o), NEW v \in Mutations(cache, o, v0),
           \A q \in Projects : ~Pending(q),
           NEW p \in Projects, Live(store[p]), Claims(store[p], NamespaceOf[o]),
           Counts(store[p].hard, KindOf[o]),
           \A q \in Projects \ {p} : ~Claims(store[q], NamespaceOf[o])
    PROVE  v.anno = p
<1>1. \A q \in Projects : cache[q] = store[q]
  BY ItemCases DEF IInv, CacheCoherent
<1>2. Claimants(cache, o) = {p}
  BY <1>1 DEF Claimants, Claims, Live
<1>3. v = AddAnnotation(v0, p)
  BY <1>1, <1>2 DEF Mutations, Default
<1> QED
  BY <1>3 DEF AddAnnotation, Object, ObjectOver

\* The annotator's choice stands as long as no project changes.
LEMMA NamesOwnerStep ==
    ASSUME ~FailOpen, AdmissionInv, NamesOwner, [AdmissionNext]_admissionVars
    PROVE  NamesOwner'
<1>0. IInv /\ ApiTypeOK /\ RequestsType
  BY DEF AdmissionInv, IInv, TypeOK
<1>1. CASE UNCHANGED admissionVars
  BY <1>1 DEF admissionVars, vars, apiVars, NamesOwner
<1>2. ASSUME NEW o \in Objects, SubmitObject(o)
      PROVE  NamesOwner'
  <2>1. PICK v0 \in Object(o) : \E v \in Mutations(cache, o, v0) : Open(o, v)
    BY <1>0, <1>2, SubmitObjectOpens
  <2>2. PICK v \in Mutations(cache, o, v0) : Open(o, v)
    BY <2>1
  <2> DEFINE r0 == [item |-> o, val |-> v, stage |-> "mutated",
                    unseen |-> Undelivered \intersect Projects,
                    missed |-> {}, settled |-> FALSE]
  <2>3. requests' = requests \union {r0} /\ store' = store
    BY <2>2 DEF Open, vars, apiVars
  <2>4. r0.unseen = {} => \A q \in Projects : ~Pending(q)
    BY ItemCases DEF Undelivered
  <2>5. ASSUME NEW p \in Projects, r0.unseen = {}, Live(store[p]),
               Claims(store[p], NamespaceOf[o]), Counts(store[p].hard, KindOf[o]),
               \A q \in Projects \ {p} : ~Claims(store[q], NamespaceOf[o])
        PROVE  v.anno = p
    BY <1>0, <2>1, <2>4, <2>5, AnnotatorNames
  <2>6. r0.item = o /\ r0.val = v
    OBVIOUS
  <2> HIDE DEF r0
  <2> QED
    BY <2>3, <2>5, <2>6 DEF NamesOwner
<1>3. ASSUME NEW p \in Projects, SubmitProject(p)
      PROVE  NamesOwner'
  BY <1>0, <1>3, SubmitProjectOpens, ItemCases DEF Open, vars, apiVars, NamesOwner
<1>4. ASSUME NEW r \in requests, Validate(r)
      PROVE  NamesOwner'
  <2>1. store' = store
    BY <1>4 DEF Validate, vars, apiVars
  <2>2. ASSUME NEW s \in requests'
        PROVE  \E t \in requests : s.item = t.item /\ s.val = t.val /\ s.unseen = t.unseen
    BY <1>0, <1>4, ValidateLeaves
  <2> QED
    BY <2>1, <2>2 DEF NamesOwner
<1>5. ASSUME NEW inflight, inflight \subseteq requests, requests' = Continue(inflight)
      PROVE  NamesOwner'
  <2> SUFFICES ASSUME NEW s \in requests', s.unseen = {}
               PROVE  /\ \A x \in Projects : store'[x] = store[x]
                      /\ \E t \in requests : s.item = t.item /\ s.val = t.val /\ t.unseen = {}
    BY DEF NamesOwner
  <2> QED
    BY <1>0, <1>5, ContinueFields DEF RequestsType
<1> QED
  BY <1>1, <1>2, <1>3, <1>4, <1>5, StepCases DEF PersistRequest

\* While the API server reaches the annotators, no annotation a user writes or
\* removes lets an object escape its project: what is persisted names it, for any
\* number of projects and requests, unless a project changed behind the annotator.
THEOREM EscapeFromRace ==
    ASSUME ~FailOpen
    PROVE  AdmissionSpec => EscapesOnlyWhenRaced
<1> DEFINE Step == \A r \in requests, p \in Projects :
          /\ r.item \in Objects /\ Persists(r) /\ Live(store[p])
          /\ Claims(store[p], NamespaceOf[r.item]) /\ Counts(store[p].hard, KindOf[r.item])
          /\ r.unseen = {}
          /\ \A q \in Projects \ {p} : ~Claims(store[q], NamespaceOf[r.item])
          => r.val.anno = p
<1>1. AdmissionInit => NamesOwner
  BY DEF AdmissionInit, NamesOwner
<1>2. AdmissionInv /\ NamesOwner /\ [AdmissionNext]_admissionVars => NamesOwner'
  BY NamesOwnerStep
<1>3. NamesOwner => Step
  BY DEF NamesOwner
<1> QED
  BY <1>1, <1>2, <1>3, AdmissionInvariant, PTL DEF AdmissionSpec, EscapesOnlyWhenRaced

================================================================================
