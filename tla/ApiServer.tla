------------------------------- MODULE ApiServer -------------------------------
(***************************************************************************)
(* What the operator relies on between the Kubernetes API server and its   *)
(* manager's cached client: an object's stored value, the value the        *)
(* manager's informer cache holds of it, and the watch events that have    *)
(* not been delivered yet.  A watch preserves the order of the changes to  *)
(* the objects of one kind and says nothing of the order between kinds, so *)
(* there is one queue of events per kind.                                  *)
(***************************************************************************)
EXTENDS QuotaRules

VARIABLES
    store,   \* [Items -> value]: what the API server has persisted
    cache,   \* [Items -> value]: what mgr.GetClient() reads
    watch    \* [Streams -> Seq(event)]: changes the informers have yet to see

apiVars == <<store, cache, watch>>

Items == Projects \union Objects

Streams == {"projectresourcequotas"} \union Range(KindOrder)

StreamOf(x) == IF x \in Projects THEN "projectresourcequotas" ELSE KindOf[x]

\* The values an item of the API can have, and those of any item.
ValuesOf(x) == {Absent} \union (IF x \in Projects THEN Prq(x) ELSE Object(x))

Value == {Absent} \union PrqOver(UNION Range(NamespaceLists))
         \union ObjectOver(UNION {Shapes(k) : k \in Range(KindOrder)})

View == {f \in [Items -> Value] : \A x \in Items : f[x] \in ValuesOf(x)}

EventsOf(s) == {e \in [item : Items, val : Value] :
                   StreamOf(e.item) = s /\ e.val \in ValuesOf(e.item)}

ApiTypeOK ==
    /\ store \in View
    /\ cache \in View
    /\ DOMAIN watch = Streams
    /\ \A s \in Streams : watch[s] \in Seq(EventsOf(s))

ApiInit ==
    /\ store = [x \in Items |-> Absent]
    /\ cache = [x \in Items |-> Absent]
    /\ watch = [s \in Streams |-> <<>>]

\* Some change of x has not reached the cache.
Pending(x) ==
    \E i \in DOMAIN watch[StreamOf(x)] : watch[StreamOf(x)][i].item = x

\* Persist v as x.  A write that changes nothing makes no event.
Write(x, v) ==
    /\ store' = [store EXCEPT ![x] = v]
    /\ watch' = IF v = store[x] THEN watch
                ELSE [watch EXCEPT ![StreamOf(x)] = Append(@, [item |-> x, val |-> v])]
    /\ UNCHANGED cache

\* The informer of stream s takes its next event.
Observe(s) ==
    /\ watch[s] # <<>>
    /\ cache' = [cache EXCEPT ![Head(watch[s]).item] = Head(watch[s]).val]
    /\ watch' = [watch EXCEPT ![s] = Tail(@)]
    /\ UNCHANGED store

\* A new manager process lists everything before its controller starts.
Resync ==
    /\ cache' = store
    /\ watch' = [s \in Streams |-> <<>>]
    /\ UNCHANGED store

\* The events of x still to be delivered end with what is stored, and where
\* there are none the cache has it: a watch loses nothing and keeps its order.
CacheCoherent ==
    \A x \in Items :
        LET w == watch[StreamOf(x)]
        IN /\ ~Pending(x) => cache[x] = store[x]
           /\ \A i \in DOMAIN w :
                 (w[i].item = x /\ \A j \in DOMAIN w : j > i => w[j].item # x)
                     => w[i].val = store[x]


================================================================================
