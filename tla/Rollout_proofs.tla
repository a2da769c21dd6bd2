----------------------------- MODULE Rollout_proofs -----------------------------
(***************************************************************************)
(* Theorems about Rollout: two replicas of the manager, whose caches lag   *)
(* each on its own.                                                        *)
(***************************************************************************)
EXTENDS Rollout, Cleanup_proofs, Limits_proofs

-----------------------------------------------------------------------------
(* The invariant *)

\* w is a function of streams.
OfStreams(w) == w = [s \in Streams |-> w[s]]

\* The peer's cache follows the store as the leader's does.
PeerFollows ==
    /\ peerCache \in View
    /\ Watched(peerWatch) /\ OfStreams(peerWatch)
    /\ Follows(peerWatch, peerCache, store)

RolloutInv == IInv /\ PeerFollows

-----------------------------------------------------------------------------
(* Steps *)

\* The webhooks that answer are the leader's or the peer's, the peer's informer takes
\* an event, or the peer takes over.
LEMMA RolloutCases ==
    ASSUME [RolloutNext]_rolloutVars
    PROVE  \/ PeerIsSent /\ StepBy(cache)
           \/ PeerIsSent /\ StepBy(peerCache)
           \/ UNCHANGED vars /\ \E s \in Streams : Peer!Observe(s)
           \/ UNCHANGED vars /\ UNCHANGED <<peerCache, peerWatch>>
           \/ Takeover
<1>1. CASE LeaderAnswers
  BY <1>1 DEF LeaderAnswers, UserNext, StepBy
<1>2. CASE PeerAnswers
  BY <1>2 DEF PeerAnswers, StepBy
<1>3. CASE PeerObserves
  BY <1>3 DEF PeerObserves, Peer!Observe, vars, apiVars
<1>4. CASE UNCHANGED rolloutVars
  BY <1>4 DEF rolloutVars
<1> QED
  BY <1>1, <1>2, <1>3, <1>4 DEF RolloutNext

\* A stream that got no longer was added nothing.
LEMMA NothingAdded ==
    ASSUME NEW S, NEW q \in Seq(S), NEW r \in Seq(S), Len(r) <= Len(q), NEW t \in Seq(S)
    PROVE  t \o SubSeq(r, Len(q) + 1, Len(r)) = t
<1>1. Len(q) \in Nat /\ Len(r) \in Nat
  BY LenProperties
<1>2. SubSeq(r, Len(q) + 1, Len(r)) = <<>>
  BY <1>1, SubSeqEmpty
<1> QED
  BY <1>2, ConcatEmptySeq

\* One that got an event was added that event.
LEMMA EventAdded ==
    ASSUME NEW S, NEW q \in Seq(S), NEW e \in S, NEW t \in Seq(S)
    PROVE  t \o SubSeq(Append(q, e), Len(q) + 1, Len(Append(q, e))) = Append(t, e)
<1>1. /\ Append(q, e) \in Seq(S) /\ Len(Append(q, e)) = Len(q) + 1 /\ Len(q) \in Nat
      /\ Append(q, e)[Len(q) + 1] = e
  BY AppendProperties, LenProperties
<1>2. PICK r : r = Append(q, e)
  OBVIOUS
<1>3. PICK n \in Nat : n = Len(q) + 1
  BY <1>1
<1>4. r \in Seq(S) /\ Len(r) = n /\ r[n] = e /\ n >= 1
  BY <1>1, <1>2, <1>3
<1>5. SubSeq(r, n, n) = <<e>>
  <2>1. \A i \in n .. n : r[i] \in S
    BY <1>4
  <2>2. PICK u : u = SubSeq(r, n, n)
    OBVIOUS
  <2>3. u \in Seq(S) /\ Len(u) = 1 /\ u[1] = e
    <3>1. /\ u \in Seq(S) /\ Len(u) = IF n <= n THEN n - n + 1 ELSE 0
          /\ \A i \in 1 .. n - n + 1 : u[i] = r[n + i - 1]
      BY <1>3, <2>1, <2>2, SubSeqProperties
    <3> QED
      BY <1>4, <3>1
  <2>4. u = <<e>>
    BY <2>3, LenProperties
  <2> QED
    BY <2>2, <2>4
<1>6. t \o <<e>> = Append(t, e)
  <2>1. PICK one : one = <<e>>
    OBVIOUS
  <2>2. one \in Seq(S) /\ Len(one) = 1 /\ one[1] = e
    BY <2>1
  <2>3. PICK a, b : a = t \o one /\ b = Append(t, e)
    OBVIOUS
  <2>4. /\ a \in Seq(S) /\ Len(a) = Len(t) + 1 /\ Len(t) \in Nat
        /\ \A i \in 1 .. Len(t) + 1 : a[i] = IF i <= Len(t) THEN t[i] ELSE one[i - Len(t)]
    <3>1. /\ a \in Seq(S) /\ Len(a) = Len(t) + Len(one)
          /\ \A i \in 1 .. Len(t) + Len(one) : a[i] = IF i <= Len(t) THEN t[i] ELSE one[i - Len(t)]
      BY <2>2, <2>3, ConcatProperties
    <3> QED
      BY <2>2, <3>1, LenProperties
  <2>5. /\ b \in Seq(S) /\ Len(b) = Len(t) + 1 /\ b[Len(t) + 1] = e
        /\ \A i \in 1 .. Len(t) : b[i] = t[i]
    BY <2>3, AppendProperties
  <2>6. \A i \in 1 .. Len(a) : a[i] = b[i]
    BY <2>2, <2>4, <2>5
  <2>7. a = b
    BY <2>4, <2>5, <2>6, SeqEqual
  <2> QED
    BY <2>1, <2>3, <2>7
<1> QED
  BY <1>1, <1>2, <1>3, <1>5, <1>6

\* A replica is sent what is written and nothing else.
LEMMA SentIsWritten ==
    ASSUME IInv, PeerFollows, AnyStep, PeerIsSent
    PROVE  \/ UNCHANGED <<store, peerWatch>>
           \/ \E x \in Items : \E v \in ValuesOf(x) :
                 /\ store' = [store EXCEPT ![x] = v]
                 /\ peerWatch' = [peerWatch EXCEPT ![StreamOf(x)] =
                                      Append(@, [item |-> x, val |-> v])]
<1>0. /\ ApiTypeOK /\ DOMAIN watch = Streams /\ DOMAIN peerWatch = Streams
      /\ \A s \in Streams : watch[s] \in Seq(EventsOf(s)) /\ peerWatch[s] \in Seq(EventsOf(s))
  BY DEF IInv, TypeOK, ApiTypeOK, PeerFollows, Watched
<1>a. peerWatch' = [s \in Streams |->
          peerWatch[s] \o SubSeq(watch'[s], Len(watch[s]) + 1, Len(watch'[s]))]
  BY DEF PeerIsSent, Added
<1>1. ASSUME \A s \in Streams : watch'[s] \in Seq(EventsOf(s)) /\ Len(watch'[s]) <= Len(watch[s])
      PROVE  peerWatch' = peerWatch
  <2>1. ASSUME NEW s \in Streams
        PROVE  peerWatch'[s] = peerWatch[s]
    <3>1. PICK q, r, t : q = watch[s] /\ r = watch'[s] /\ t = peerWatch[s]
      OBVIOUS
    <3>2. /\ q \in Seq(EventsOf(s)) /\ r \in Seq(EventsOf(s)) /\ t \in Seq(EventsOf(s))
          /\ Len(r) <= Len(q)
      BY <1>0, <1>1, <3>1
    <3>3. t \o SubSeq(r, Len(q) + 1, Len(r)) = t
      BY <3>2, NothingAdded
    <3> QED
      BY <1>a, <3>1, <3>3
  <2>2. PICK f : f = [s \in Streams |-> peerWatch[s]]
    OBVIOUS
  <2>3. peerWatch = f
    BY <2>2 DEF PeerFollows, OfStreams
  <2>4. peerWatch' = f
    BY <1>a, <2>1, <2>2
  <2> QED
    BY <2>3, <2>4
<1>2. CASE UNCHANGED apiVars
  <2>1. ASSUME NEW s \in Streams
        PROVE  watch'[s] \in Seq(EventsOf(s)) /\ Len(watch'[s]) <= Len(watch[s])
    <3>1. watch'[s] = watch[s] /\ watch[s] \in Seq(EventsOf(s)) /\ Len(watch[s]) \in Nat
      BY <1>0, <1>2, LenProperties DEF apiVars
    <3> QED
      BY <3>1
  <2> QED
    BY <1>1, <1>2, <2>1 DEF apiVars
<1>3. ASSUME NEW x \in Items, NEW v \in ValuesOf(x), Write(x, v), v # store[x]
      PROVE  peerWatch' = [peerWatch EXCEPT ![StreamOf(x)] = Append(@, [item |-> x, val |-> v])]
  <2> DEFINE e == [item |-> x, val |-> v]
             k == StreamOf(x)
  <2>1. k \in Streams /\ e \in EventsOf(k)
    BY ItemStreams, EventType
  <2>2. watch'[k] = Append(watch[k], e) /\ \A s \in Streams : s # k => watch'[s] = watch[s]
    BY <1>0, <1>3, <2>1 DEF Write
  <2> HIDE DEF e, k
  <2>3. peerWatch'[k] = Append(peerWatch[k], e)
    BY <1>0, <1>a, <2>1, <2>2, EventAdded
  <2>4. ASSUME NEW s \in Streams, s # k
        PROVE  peerWatch'[s] = peerWatch[s]
    <3>1. Len(watch[s]) \in Nat
      BY <1>0, LenProperties
    <3> QED
      BY <1>0, <1>a, <2>2, <2>4, <3>1, NothingAdded
  <2>5. peerWatch' = [s \in Streams |-> peerWatch'[s]]
    BY <1>a
  <2>6. peerWatch' = [peerWatch EXCEPT ![k] = Append(@, e)]
    BY <1>0, <2>1, <2>3, <2>4, <2>5
  <2> QED
    BY <2>6 DEF e, k
<1>4. ASSUME NEW x \in Items, NEW v \in ValuesOf(x), Write(x, v), v = store[x]
      PROVE  UNCHANGED apiVars
  BY <1>0, <1>4 DEF Write, ApiTypeOK, View, apiVars
<1>5. ASSUME NEW s \in Streams, Observe(s)
      PROVE  UNCHANGED <<store, peerWatch>>
  <2>1. ASSUME NEW t \in Streams
        PROVE  watch'[t] \in Seq(EventsOf(t)) /\ Len(watch'[t]) <= Len(watch[t])
    <3>1. Len(watch[t]) \in Nat
      BY <1>0, LenProperties
    <3>2. watch[s] # <<>> /\ watch'[s] = Tail(watch[s]) /\ (t # s => watch'[t] = watch[t])
      BY <1>0, <1>5 DEF Observe
    <3>3. Tail(watch[s]) \in Seq(EventsOf(s)) /\ Len(Tail(watch[s])) = Len(watch[s]) - 1
      BY <1>0, <3>2, HeadTailProperties
    <3>4. CASE t = s
      <4>1. watch'[t] = Tail(watch[t]) /\ Tail(watch[t]) \in Seq(EventsOf(t))
            /\ Len(Tail(watch[t])) <= Len(watch[t])
        BY <3>1, <3>2, <3>3, <3>4
      <4> QED
        BY <4>1
    <3>5. CASE t # s
      BY <1>0, <3>1, <3>2, <3>5
    <3> QED
      BY <3>4, <3>5
  <2> QED
    <3>1. store' = store
      BY <1>5 DEF Observe
    <3>2. peerWatch' = peerWatch
      BY <1>1, <2>1
    <3> QED
      BY <3>1, <3>2
<1>6. CASE Resync
  <2>1. ASSUME NEW t \in Streams
        PROVE  watch'[t] \in Seq(EventsOf(t)) /\ Len(watch'[t]) <= Len(watch[t])
    <3>1. Len(watch[t]) \in Nat
      BY <1>0, LenProperties
    <3>2. watch'[t] = <<>>
      BY <1>6 DEF Resync
    <3> QED
      BY <3>1, <3>2, EmptySeq
  <2> QED
    BY <1>1, <1>6, <2>1 DEF Resync
<1>7. CASE \E x \in Items : \E v \in ValuesOf(x) : Write(x, v)
  <2>1. PICK x \in Items : \E v \in ValuesOf(x) : Write(x, v)
    BY <1>7
  <2>2. PICK v \in ValuesOf(x) : Write(x, v)
    BY <2>1
  <2>3. CASE v = store[x]
    BY <1>2, <1>4, <2>2, <2>3
  <2>4. CASE v # store[x]
    BY <1>3, <2>2, <2>4 DEF Write
  <2> QED
    BY <2>3, <2>4
<1> QED
  BY <1>1, <1>2, <1>5, <1>6, <1>7, ApiStep DEF apiVars

\* What the peer is sent keeps its cache on the way to the store.
LEMMA PeerSent ==
    ASSUME IInv, PeerFollows, AnyStep, PeerIsSent
    PROVE  PeerFollows'
<1>1. PICK c, w, now : c = peerCache' /\ w = peerWatch' /\ now = store'
  OBVIOUS
<1>2. c = peerCache /\ c \in View /\ OfStreams(w)
  BY <1>1 DEF PeerIsSent, PeerFollows, OfStreams
<1>3. Watched(w) /\ Follows(w, c, now)
  <2>1. CASE UNCHANGED <<store, peerWatch>>
    BY <1>1, <1>2, <2>1 DEF PeerFollows
  <2>2. CASE \E x \in Items : \E v \in ValuesOf(x) :
                /\ store' = [store EXCEPT ![x] = v]
                /\ peerWatch' = [peerWatch EXCEPT ![StreamOf(x)] =
                                     Append(@, [item |-> x, val |-> v])]
    <3>1. store \in View /\ Watched(peerWatch) /\ Follows(peerWatch, peerCache, store)
      BY DEF IInv, TypeOK, ApiTypeOK, PeerFollows
    <3>2. PICK x \in Items : \E v \in ValuesOf(x) : now = Put(store, x, v) /\ w = Sent(peerWatch, x, v)
      BY <1>1, <2>2 DEF Put, Sent
    <3>3. Watched(w) /\ Follows(w, peerCache, now)
      BY <3>1, <3>2, SentFollows
    <3> QED
      BY <1>2, <3>3
  <2> QED
    BY <2>1, <2>2, SentIsWritten
<1> QED
  BY <1>1, <1>2, <1>3 DEF PeerFollows, Watched, Follows, ComesTo, OfStreams

\* So does an event the peer's informer takes.
LEMMA PeerTakes ==
    ASSUME PeerFollows, NEW s \in Streams, Peer!Observe(s)
    PROVE  PeerFollows'
<1>1. PICK c, w, now : c = peerCache' /\ w = peerWatch' /\ now = store'
  OBVIOUS
<1>2. /\ peerWatch[s] # <<>> /\ now = store
      /\ c = Put(peerCache, Head(peerWatch[s]).item, Head(peerWatch[s]).val)
      /\ w = Taken(peerWatch, s)
  BY <1>1 DEF Peer!Observe, Put, Taken
<1>3. c \in View /\ Watched(w) /\ Follows(w, c, now)
  <2>1. peerCache \in View /\ Watched(peerWatch) /\ Follows(peerWatch, peerCache, store)
    BY DEF PeerFollows
  <2> QED
    BY <1>2, <2>1, TakenFollows
<1>4. OfStreams(w)
  BY <1>2 DEF PeerFollows, OfStreams, Watched, Taken
<1> QED
  BY <1>1, <1>3, <1>4 DEF PeerFollows, Watched, Follows, ComesTo, OfStreams

\* The peer that takes over has a cache of the leader's kind, and a replica that has
\* just listed everything follows the store.
LEMMA TakeoverInvariant ==
    ASSUME IInv, PeerFollows, Takeover
    PROVE  IInv' /\ PeerFollows'
<1>1. store \in View /\ faults \in 0 .. MaxFaults /\ queue \subseteq Projects
  BY DEF IInv, TypeOK, ApiTypeOK, ReconcilerTypeOK
<1>2. ApiTypeOK'
  BY <1>1 DEF Takeover, ApiTypeOK, PeerFollows, Watched, View, ValuesOf, Value, EventsOf
<1>3. ReconcilerTypeOK'
  <2>1. faults' \in 0 .. MaxFaults
    BY <1>1, MaxFaultsAssumption DEF Takeover
  <2> QED
    BY <2>1, IdleType DEF Takeover, StartQueue
<1>4. CacheCoherent'
  <2>1. cache' = peerCache /\ watch' = peerWatch /\ store' = store
    BY DEF Takeover
  <2> QED
    BY <2>1 DEF PeerFollows, Follows, ComesTo, CacheCoherent, Pending
<1>5. WorkerFresh'
  BY DEF Takeover, Idle, WorkerFresh
<1>6. PeerFollows'
  <2>1. /\ peerCache' = store /\ store' = store
        /\ DOMAIN peerWatch' = Streams /\ \A s \in Streams : peerWatch'[s] = <<>>
        /\ peerWatch' = [s \in Streams |-> <<>>]
    BY DEF Takeover
  <2>2. OfStreams(peerWatch')
    BY <2>1 DEF OfStreams
  <2>3. Watched(peerWatch')
    BY <2>1 DEF Watched
  <2>4. Follows(peerWatch', peerCache', store')
    BY <2>1, ItemStreams DEF Follows, ComesTo
  <2> QED
    BY <1>1, <2>1, <2>2, <2>3, <2>4 DEF PeerFollows, Watched, Follows, ComesTo, OfStreams
<1> QED
  BY <1>2, <1>3, <1>4, <1>5, <1>6 DEF IInv, TypeOK

\* Every step of one replica is a step of ProjectQuota but for what its webhooks read.
LEMMA RolloutSteps ==
    ASSUME RolloutInv, [RolloutNext]_rolloutVars
    PROVE  \/ Takeover
           \/ AnyStep /\ \E view \in {cache, peerCache} : StepBy(view)
<1>1. CASE UNCHANGED vars
  BY <1>1 DEF AnyStep, StepBy
<1> QED
  BY <1>1, RolloutCases, StepByIsAnyStep DEF RolloutInv, IInv

\* The invariant of two replicas is inductive.
LEMMA RolloutStep == RolloutInv /\ [RolloutNext]_rolloutVars => RolloutInv'
<1> SUFFICES ASSUME RolloutInv, [RolloutNext]_rolloutVars PROVE RolloutInv'
  OBVIOUS
<1>0. IInv /\ PeerFollows /\ TypeOK
  BY DEF RolloutInv, IInv
<1>1. CASE Takeover
  BY <1>0, <1>1, TakeoverInvariant DEF RolloutInv
<1>2. CASE AnyStep /\ PeerIsSent
  BY <1>0, <1>2, InvariantStep, PeerSent DEF RolloutInv
<1>3. CASE UNCHANGED vars /\ \E s \in Streams : Peer!Observe(s)
  BY <1>0, <1>3, InvariantStep, PeerTakes DEF RolloutInv, AnyStep
<1>4. CASE UNCHANGED vars /\ UNCHANGED <<peerCache, peerWatch>>
  <2>1. IInv'
    BY <1>0, <1>4, InvariantStep DEF AnyStep
  <2> QED
    BY <1>0, <1>4, <2>1 DEF RolloutInv, PeerFollows, vars, apiVars
<1> QED
  BY <1>0, <1>1, <1>2, <1>3, <1>4, RolloutCases, StepByIsAnyStep

\* Two replicas start as one.
LEMMA RolloutStarts == RolloutInit => RolloutInv
<1> SUFFICES ASSUME RolloutInit PROVE RolloutInv
  OBVIOUS
<1>1. IInv
  BY InvariantInit DEF RolloutInit
<1>2. watch = [s \in Streams |-> <<>>]
  BY DEF RolloutInit, Init, ApiInit
<1>3. peerCache = cache /\ peerWatch = watch
  BY DEF RolloutInit
<1>4. Follows(watch, cache, store)
  BY <1>1, CoherentFollows DEF IInv
<1>5. OfStreams(watch)
  BY <1>2 DEF OfStreams
<1> QED
  BY <1>1, <1>3, <1>4, <1>5 DEF RolloutInv, PeerFollows, Watched, IInv, TypeOK, ApiTypeOK

\* Throughout, what the leader's worker does not know to be stale is current, and the
\* caches of both replicas follow the store in the order of its changes.
THEOREM RolloutInvariant == RolloutSpec => []RolloutInv
BY RolloutStarts, RolloutStep, PTL DEF RolloutSpec

-----------------------------------------------------------------------------
(* Recorded usage *)

\* The peer that takes over queues the projects it knows, and those it does not know
\* it will: every live project is owed a reconcile.
LEMMA TakeoverOwes ==
    ASSUME IInv, PeerFollows, Takeover, NEW p \in Projects, Live(store[p])
    PROVE  Owed(p)'
<1>0. p \in Items /\ store[p] # Absent
  BY ItemCases DEF Live
<1>1. queue' = StartQueue(peerCache) /\ watch' = peerWatch
  BY DEF Takeover
<1>2. CASE peerCache[p] # Absent
  BY <1>1, <1>2 DEF StartQueue, Owed, Waiting
<1>3. CASE peerCache[p] = Absent
  <2>1. ~\A i \in DOMAIN peerWatch[StreamOf(p)] : peerWatch[StreamOf(p)][i].item # p
    BY <1>0, <1>3 DEF PeerFollows, Follows, ComesTo
  <2>2. Pending(p)'
    BY <1>1, <2>1 DEF Pending
  <2> QED
    BY <2>2 DEF Owed, Waiting
<1> QED
  BY <1>2, <1>3

\* So the invariant of usage survives.
LEMMA TakeoverUsage ==
    ASSUME IInv, PeerFollows, Takeover
    PROVE  UsageInv'
<1>1. pc' = "idle" /\ store' = store
  BY DEF Takeover, Idle
<1>2. OnlyOwedInaccurate'
  BY <1>1, TakeoverOwes DEF OnlyOwedInaccurate
<1> QED
  BY <1>1, <1>2 DEF UsageInv, ListsCurrent, BranchTaken

\* And a takeover breaks no promise.
LEMMA TakeoverPromise ==
    ASSUME IInv, PeerFollows, Takeover
    PROVE  Promise!Next
<1> SUFFICES ASSUME NEW p \in Projects
             PROVE  \/ Promise!Change(p) \/ Promise!Record(p)
                    \/ Promise!Settle(p) \/ Promise!Rest(p)
  BY DEF Promise!Next
<1>1. store' = store
  BY DEF Takeover
<1>3. Promise!Unchanged(p)
  BY <1>1 DEF Promise!Unchanged
<1>4. CASE Owed(p)'
  BY <1>1, <1>4 DEF Promise!Change
<1>5. CASE ~Owed(p)'
  <2>1. ~Live(store[p])
    BY <1>5, TakeoverOwes
  <2>2. CASE Owed(p)
    BY <1>3, <1>5, <2>1, <2>2 DEF Promise!Settle
  <2>3. CASE ~Owed(p)
    BY <1>3, <1>5, <2>3 DEF Promise!Rest
  <2> QED
    BY <2>2, <2>3
<1> QED
  BY <1>4, <1>5

\* The steps of two replicas keep the invariant of usage and implement the promise.
LEMMA RolloutUsageStep ==
    ASSUME RolloutInv, UsageInv, NamesAgree, NamesAgree', [RolloutNext]_rolloutVars
    PROVE  UsageInv' /\ Promise!Next
<1>0. IInv /\ PeerFollows
  BY DEF RolloutInv
<1>1. CASE Takeover
  BY <1>0, <1>1, TakeoverUsage, TakeoverPromise
<1>2. CASE AnyStep /\ \E view \in {cache, peerCache} : StepBy(view)
  <2>1. UsageInv'
    BY <1>0, <1>2, UsageStep
  <2> QED
    BY <1>0, <1>2, <2>1, PromiseStep
<1> QED
  BY <1>1, <1>2, RolloutSteps

\* Two replicas, whichever answers and however far their caches are apart: once
\* nothing is under way for a live project, its status is what a fresh reconcile
\* would compute, a change of leader included.
THEOREM RolloutAccurate == RolloutSpec /\ []NamesAgree => []SettledUsageAccurate
<1>1. RolloutInit => UsageInv
  BY UsageInit DEF RolloutInit
<1>2. RolloutInv /\ UsageInv /\ NamesAgree /\ NamesAgree' /\ [RolloutNext]_rolloutVars => UsageInv'
  BY RolloutUsageStep
<1>3. RolloutInv /\ UsageInv => SettledUsageAccurate
  BY UsageIsAccurate DEF RolloutInv
<1> QED
  BY <1>1, <1>2, <1>3, RolloutInvariant, PTL DEF RolloutSpec

\* And they implement the abstract promise: a new leader owes every project a reconcile.
THEOREM RolloutPromise == RolloutSpec /\ []NamesAgree => StatusPromised
<1>1. RolloutInit => UsageInv /\ Promise!Init
  BY UsageInit, PromiseInit DEF RolloutInit
<1>2. RolloutInv /\ UsageInv /\ NamesAgree /\ NamesAgree' /\ [RolloutNext]_rolloutVars
        => UsageInv' /\ [Promise!Next]_(Promise!vars)
  BY RolloutUsageStep
<1> QED
  BY <1>1, <1>2, RolloutInvariant, PTL DEF RolloutSpec, StatusPromised, Promise!Spec

-----------------------------------------------------------------------------
(* Cleaning up *)

\* Where the peer's cache has nothing to come of its project, it has it as stored.
LEMMA PeerDelivered ==
    ASSUME PeerFollows, NEW x \in Items, ~Peer!Pending(x)
    PROVE  peerCache[x] = store[x]
BY DEF PeerFollows, Follows, ComesTo, Peer!Pending, Peer!StreamOf, StreamOf

\* Of two replicas too: the annotators put an annotation that the cleanup takes off
\* back only where the one that answers has a change of the project to come, or the
\* worker's own copy is out of date.
LEMMA UndoneStep ==
    ASSUME RolloutInv, CurDelivered, BatchRemoved, [RolloutNext]_rolloutVars,
           NEW o \in batch \ batch', cur' = cur, store'[o] # Absent, store'[o].anno = cur,
           cur \notin stale, ~Peer!Pending(cur)
    PROVE  FALSE
<1>0. IInv /\ PeerFollows /\ CacheCoherent /\ DOMAIN store = Items
  BY DEF RolloutInv, IInv, TypeOK, ApiTypeOK, View
<1>1. pc = "remove" /\ cur \in Projects
  BY <1>0 DEF IInv, TypeOK, ReconcilerTypeOK, BatchRemoved
<1>2. ~Takeover
  BY <1>1, ItemsAssumption DEF Takeover, Idle
<1>3. PICK view \in {cache, peerCache} : StepBy(view)
  BY <1>2, RolloutSteps
<1>4. /\ o \in Objects /\ o \notin stale
      /\ \E seen \in {cache, peerCache} :
            \E v \in Mutations(seen, o, RemoveAnnotation(store[o])) : Write(o, v)
  BY <1>0, <1>3, BatchLeaves
<1>5. cache[cur] = store[cur] /\ peerCache[cur] = store[cur]
  BY <1>0, <1>1, PeerDelivered, ItemCases DEF CurDelivered, CacheCoherent
<1>6. PICK seen \in {cache, peerCache} :
            \E v \in Mutations(seen, o, RemoveAnnotation(store[o])) : Write(o, v)
  BY <1>4
<1>7. PICK v \in Mutations(seen, o, RemoveAnnotation(store[o])) : Write(o, v)
  BY <1>6
<1>8. v.anno # cur
  BY <1>0, <1>1, <1>4, <1>5, <1>6, <1>7, RemovalUnnames
<1>9. store'[o] = v
  BY <1>0, <1>4, <1>7, ItemCases DEF Write
<1> QED
  BY <1>8, <1>9

\* What holds of the clean-up with two replicas: all that holds with one, but for the
\* objects that a replica that lags named again.
RolloutCleanInv ==
    /\ HaveFinalizer /\ CurDelivered /\ BatchRemoved /\ RowRemoved /\ BranchTaken
    /\ CleanedBut(undone)

\* It survives every step: undone takes in the objects that are named again while the
\* worker's copy is current.
LEMMA RolloutCleanStep ==
    ASSUME RolloutInv, RolloutCleanInv, [RolloutNext]_rolloutVars
    PROVE  RolloutCleanInv'
<1>0. IInv /\ TypeOK
  BY DEF RolloutInv, IInv
<1>1. CASE Takeover
  BY <1>1 DEF Takeover, Idle, RolloutCleanInv, HaveFinalizer, CurDelivered, BatchRemoved,
              RowRemoved, BranchTaken, CleanedBut
<1>2. ASSUME AnyStep, NEW view, StepBy(view)
      PROVE  RolloutCleanInv'
  <2>1. HaveFinalizer' /\ CurDelivered' /\ BatchRemoved' /\ RowRemoved' /\ BranchTaken'
    BY <1>0, <1>2, FinalizerStep, CurDeliveredStep, BatchStep, RowStep, BranchStep
    DEF RolloutCleanInv
  <2>2. PICK left, after : left = undone /\ after = undone'
    OBVIOUS
  <2>3. \/ UNCHANGED rolloutVars
        \/ Undone
    BY DEF RolloutNext
  <2>4. cur' = cur => left \subseteq after
    BY <2>2, <2>3 DEF Undone, rolloutVars
  <2>5. ASSUME NEW o \in batch \ batch', cur' = cur, cur \notin stale,
               store'[o] # Absent, store'[o].anno = cur
        PROVE  o \in after
    <3>1. Peer!Pending(cur)
      BY <2>5, UndoneStep DEF RolloutCleanInv
    <3>2. ~UNCHANGED rolloutVars
      BY <2>5 DEF rolloutVars, vars, reconcilerVars, workVars
    <3> QED
      BY <2>2, <2>3, <2>5, <3>1, <3>2 DEF Undone
  <2>6. CleanedBut(left)
    BY <2>2 DEF RolloutCleanInv, CleanedBut
  <2>7. CleanedBut(after)'
    BY <1>0, <1>2, <2>1, <2>4, <2>5, <2>6, CleanedStep DEF RolloutCleanInv
  <2> QED
    BY <2>1, <2>2, <2>7 DEF RolloutCleanInv, CleanedBut
<1> QED
  BY <1>1, <1>2, RolloutSteps

\* It holds throughout.
LEMMA RolloutClean == RolloutSpec => []RolloutCleanInv
<1>1. RolloutInit => RolloutCleanInv
  <2> SUFFICES ASSUME RolloutInit PROVE RolloutCleanInv
    OBVIOUS
  <2>1. CleanInv /\ pc = "idle"
    BY CleanInit DEF RolloutInit, Init, ReconcilerInit
  <2> QED
    BY <2>1 DEF CleanInv, RolloutCleanInv, BranchTaken, CleanedBut
<1>2. RolloutInv /\ RolloutCleanInv /\ [RolloutNext]_rolloutVars => RolloutCleanInv'
  BY RolloutCleanStep
<1> QED
  BY <1>1, <1>2, RolloutInvariant, PTL DEF RolloutSpec

\* removeAnnotationFromObjects, with two replicas: an annotation survives its removal
\* only by lag, whichever replica's annotator the update reached.
THEOREM UndoneByLag == RolloutSpec => CleanupUndoneOnlyByLag
<1> DEFINE Step == \A o \in batch \ batch' :
                      /\ cur' = cur /\ store'[o] # Absent /\ store'[o].anno = cur
                      => cur \in stale \/ Peer!Pending(cur)
<1>1. RolloutInv /\ RolloutCleanInv /\ [RolloutNext]_rolloutVars => Step
  BY UndoneStep DEF RolloutCleanInv
<1>2. RolloutSpec => [][Step]_rolloutVars
  <2> HIDE DEF Step
  <2> QED
    BY <1>1, RolloutClean, RolloutInvariant, PTL DEF RolloutSpec
<1> QED
  BY <1>2 DEF CleanupUndoneOnlyByLag

\* Both branches of Reconcile that clean up, with two replicas and changes of leader:
\* the objects left behind are ones that a change raced with or that the annotator of
\* a replica that lags named again.
THEOREM LeavesUndone == RolloutSpec => LeavesOnlyRacedOrUndone
<1> DEFINE Step == \A p \in Projects, o \in Objects :
                      /\ NamespaceOf[o] \in Released(p)
                      /\ store[o] # Absent /\ store[o].anno = p
                      => o \in stale \union undone
<1>1. RolloutInv /\ RolloutCleanInv /\ [RolloutNext]_rolloutVars => Step
  <2> SUFFICES ASSUME RolloutInv, RolloutCleanInv, [RolloutNext]_rolloutVars,
                      NEW p \in Projects, NEW o \in Objects, NamespaceOf[o] \in Released(p),
                      store[o] # Absent, store[o].anno = p
               PROVE  o \in stale \union undone
    OBVIOUS
  <2>1. ~Takeover
    BY DEF Takeover, Released
  <2>2. PICK view : StepBy(view)
    BY <2>1, RolloutSteps
  <2>3. /\ p = cur /\ p \notin stale /\ pc \in {"calculate", "finalize"}
        /\ NamespaceOf[o] \in RemovedNamespaces(snap)
    BY <2>2, WhoReleases DEF RolloutInv, RolloutCleanInv
  <2>4. batch = {} /\ Passed(o)
    BY <2>3 DEF RolloutCleanInv, BatchRemoved, Passed
  <2> QED
    BY <2>3, <2>4 DEF RolloutCleanInv, CleanedBut
<1>2. RolloutSpec => [][Step]_rolloutVars
  <2> HIDE DEF Step
  <2> QED
    BY <1>1, RolloutClean, RolloutInvariant, PTL DEF RolloutSpec
<1> QED
  BY <1>2 DEF LeavesOnlyRacedOrUndone

\* The removal branch of Reconcile, with two replicas, where users offer no namespace to
\* two projects: whichever replica answers, only a reconcile that is behind takes the
\* annotation off a member of a live project.
THEOREM RolloutStrips == NamespacesApart /\ RolloutSpec => StripsMemberOnlyWhenStale
<1> DEFINE Step == \A p \in Projects, o \in Objects :
                      /\ Live(store[p]) /\ Claims(store[p], NamespaceOf[o])
                      /\ store[o] # Absent /\ store[o].anno = p
                      /\ store'[o] # Absent /\ store'[o].anno # p
                      => p = cur /\ p \in stale
<1>1. NamespacesApart /\ RolloutInv /\ RolloutCleanInv /\ [RolloutNext]_rolloutVars => Step
  <2> SUFFICES ASSUME NamespacesApart, RolloutInv, RolloutCleanInv, [RolloutNext]_rolloutVars,
                      NEW p \in Projects, NEW o \in Objects,
                      Live(store[p]), Claims(store[p], NamespaceOf[o]),
                      store[o] # Absent, store[o].anno = p,
                      store'[o] # Absent, store'[o].anno # p
               PROVE  p = cur /\ p \in stale
    OBVIOUS
  <2>1. ~Takeover
    BY DEF Takeover
  <2>2. PICK view \in {cache, peerCache} : StepBy(view)
    BY <2>1, RolloutSteps
  <2>3. view \in View
    BY DEF RolloutInv, PeerFollows, IInv, TypeOK, ApiTypeOK
  <2> QED
    BY <2>2, <2>3, StripStep DEF RolloutInv, RolloutCleanInv
<1>2. NamespacesApart => []NamespacesApart
  BY DEF NamespacesApart
<1>3. NamespacesApart /\ RolloutSpec => [][Step]_vars
  <2> HIDE DEF Step
  <2> QED
    BY <1>1, <1>2, RolloutClean, RolloutInvariant, PTL DEF RolloutSpec
<1> QED
  BY <1>3 DEF StripsMemberOnlyWhenStale

-----------------------------------------------------------------------------
(* Totals and limits *)

\* With two replicas too, where no list of a project names a namespace twice and names
\* agree, settled status is the project's total.
THEOREM RolloutTotal ==
    NoRepeats /\ RolloutSpec /\ []NamesAgree => []SettledUsageIsProjectTotal
<1>1. NoRepeats /\ RolloutInv /\ SettledUsageAccurate => SettledUsageIsProjectTotal
  BY AccurateIsTotal DEF RolloutInv, IInv
<1>2. NoRepeats => []NoRepeats
  BY DEF NoRepeats
<1> QED
  BY <1>1, <1>2, RolloutInvariant, RolloutAccurate, PTL

\* projectResourceQuotaValidator.ValidateUpdate of either replica, where names agree: it
\* compares the new limits with the usage in the project it is sent, not in its cache.
THEOREM RolloutLimits == RolloutSpec /\ []NamesAgree => LimitsCoverSettledUsage
<1> DEFINE Step == \A p \in Projects :
                      /\ Settled(p) /\ Live(store[p])
                      /\ store'[p] # Absent /\ store'[p].hard # store[p].hard
                      => \A r \in Resources :
                            CurrentUsage(store[p], store)[r] <= Limit(store'[p].hard, r)
<1>1. RolloutInv /\ SettledUsageAccurate /\ [RolloutNext]_rolloutVars => Step
  <2> SUFFICES ASSUME RolloutInv, SettledUsageAccurate, [RolloutNext]_rolloutVars,
                      NEW p \in Projects, Settled(p), Live(store[p]),
                      store'[p] # Absent, store'[p].hard # store[p].hard, NEW r \in Resources
               PROVE  CurrentUsage(store[p], store)[r] <= Limit(store'[p].hard, r)
    OBVIOUS
  <2>1. ~Takeover
    BY DEF Takeover
  <2>2. PICK view : StepBy(view)
    BY <2>1, RolloutSteps
  <2> QED
    BY <2>2, LimitsStep DEF RolloutInv
<1>2. RolloutSpec /\ []NamesAgree => [][Step]_vars
  <2> HIDE DEF Step
  <2> QED
    BY <1>1, RolloutAccurate, RolloutInvariant, PTL DEF RolloutSpec
<1> QED
  BY <1>2 DEF LimitsCoverSettledUsage

\* The validators of objects of either replica, where names agree and no list names a
\* namespace twice: only a status that lags, a peer that has yet to see a change of the
\* project, or an unchecked update that adopts an object takes it over its limit.
THEOREM OvershootUnseenOrAdopted ==
    ~FailOpen /\ NoRepeats /\ RolloutSpec /\ []NamesAgree => OvershootOnlyUnseenOrAdopted
<1> DEFINE Step == \A o \in Objects, p \in Projects, r \in Resources :
                      /\ Settled(p) /\ Live(store[p]) /\ ~Peer!Pending(p)
                      /\ NewCharge(o, p, r)
                      => \/ CurrentUsage(store[p], store')[r] <= Limit(store[p].hard, r)
                         \/ AdoptedUnchecked(o, p, r)
<1>1. ~FailOpen /\ NoRepeats /\ RolloutInv /\ SettledUsageAccurate /\ [RolloutNext]_rolloutVars
        => Step
  <2> SUFFICES ASSUME ~FailOpen, NoRepeats, RolloutInv, SettledUsageAccurate,
                      [RolloutNext]_rolloutVars,
                      NEW o \in Objects, NEW p \in Projects, NEW r \in Resources,
                      Settled(p), Live(store[p]), ~Peer!Pending(p), NewCharge(o, p, r),
                      ~AdoptedUnchecked(o, p, r)
               PROVE  CurrentUsage(store[p], store')[r] <= Limit(store[p].hard, r)
    OBVIOUS
  <2>1. ~Takeover
    <3>1. store' # store
      BY DEF NewCharge
    <3> QED
      BY <3>1 DEF Takeover
  <2>2. PICK view \in {cache, peerCache} : StepBy(view)
    BY <2>1, RolloutSteps
  <2>3. view[p] = store[p]
    BY SettledIsCached, PeerDelivered, ItemCases DEF RolloutInv
  <2> QED
    BY <2>2, <2>3, OvershootStep DEF RolloutInv
<1>2. ~FailOpen /\ NoRepeats => [](~FailOpen /\ NoRepeats)
  BY DEF NoRepeats
<1>3. ~FailOpen /\ NoRepeats /\ RolloutSpec /\ []NamesAgree => [][Step]_rolloutVars
  <2> HIDE DEF Step
  <2> QED
    BY <1>1, <1>2, RolloutAccurate, RolloutInvariant, PTL DEF RolloutSpec
<1> QED
  BY <1>3 DEF OvershootOnlyUnseenOrAdopted

-----------------------------------------------------------------------------
(* Where names agree *)

\* What the peer has cached, or has yet to see, of an object is at home.
PeerHome ==
    \A o \in Objects :
        LET q == peerWatch[StreamOf(o)]
        IN /\ AtHome(o, peerCache[o])
           /\ \A i \in DOMAIN q : q[i].item = o => AtHome(o, q[i].val)

\* A write of what is at home keeps it so.
LEMMA PeerHomeSent ==
    ASSUME IInv, PeerFollows, AnyStep, PeerIsSent, PeerHome, NamesHome'
    PROVE  PeerHome'
<1> SUFFICES ASSUME NEW o \in Objects
             PROVE  /\ AtHome(o, peerCache'[o])
                    /\ \A i \in DOMAIN peerWatch'[StreamOf(o)] :
                          peerWatch'[StreamOf(o)][i].item = o
                          => AtHome(o, peerWatch'[StreamOf(o)][i].val)
  BY DEF PeerHome, AtHome
<1>0. /\ peerCache' = peerCache /\ o \in Items /\ StreamOf(o) \in Streams
      /\ peerWatch[StreamOf(o)] \in Seq(EventsOf(StreamOf(o)))
      /\ store \in View /\ DOMAIN peerWatch = Streams
  BY ItemCases, ItemStreams DEF PeerIsSent, PeerFollows, Watched, IInv, TypeOK, ApiTypeOK
<1>1. AtHome(o, store'[o])
  BY DEF NamesHome, Seen, AtHome
<1>2. CASE peerWatch'[StreamOf(o)] = peerWatch[StreamOf(o)]
  BY <1>0, <1>2 DEF PeerHome
<1>3. ASSUME NEW x \in Items, NEW v \in ValuesOf(x), store' = [store EXCEPT ![x] = v],
             peerWatch' = [peerWatch EXCEPT ![StreamOf(x)] = Append(@, [item |-> x, val |-> v])],
             StreamOf(x) = StreamOf(o)
      PROVE  \A i \in DOMAIN peerWatch'[StreamOf(o)] :
                peerWatch'[StreamOf(o)][i].item = o
                => AtHome(o, peerWatch'[StreamOf(o)][i].val)
  <2> DEFINE e == [item |-> x, val |-> v]
             q == peerWatch[StreamOf(o)]
             r == peerWatch'[StreamOf(o)]
  <2>1. e \in EventsOf(StreamOf(o)) /\ r = Append(q, e)
    BY <1>0, <1>3, EventType
  <2>2. /\ DOMAIN r = 1 .. Len(q) + 1 /\ DOMAIN q = 1 .. Len(q) /\ Len(q) \in Nat
        /\ \A i \in 1 .. Len(q) : r[i] = q[i]
        /\ r[Len(q) + 1] = e
    BY <1>0, <2>1, AppendProperties, LenProperties
  <2>3. \A i \in DOMAIN q : q[i].item = o => AtHome(o, q[i].val)
    BY DEF PeerHome
  <2>4. e.item = o => AtHome(o, e.val)
    BY <1>0, <1>1, <1>3 DEF View
  <2> HIDE DEF e, q, r
  <2>5. \A i \in DOMAIN r : r[i].item = o => AtHome(o, r[i].val)
    BY <2>2, <2>3, <2>4
  <2> QED
    BY <2>5 DEF r
<1>4. CASE UNCHANGED <<store, peerWatch>>
  BY <1>2, <1>4
<1>5. ASSUME NEW x \in Items, NEW v \in ValuesOf(x), store' = [store EXCEPT ![x] = v],
             peerWatch' = [peerWatch EXCEPT ![StreamOf(x)] = Append(@, [item |-> x, val |-> v])],
             StreamOf(x) # StreamOf(o)
      PROVE  peerWatch'[StreamOf(o)] = peerWatch[StreamOf(o)]
  BY <1>0, <1>5, ItemStreams
<1>6. AtHome(o, peerCache'[o])
  BY <1>0 DEF PeerHome
<1> QED
  BY <1>2, <1>3, <1>4, <1>5, <1>6, SentIsWritten

\* So does an event the peer's informer takes.
LEMMA PeerHomeTakes ==
    ASSUME PeerFollows, PeerHome, NEW s \in Streams, Peer!Observe(s)
    PROVE  PeerHome'
<1> DEFINE e == Head(peerWatch[s])
<1>1. /\ peerWatch[s] # <<>> /\ peerWatch[s] \in Seq(EventsOf(s)) /\ DOMAIN peerWatch = Streams
      /\ DOMAIN peerCache = Items
      /\ peerCache' = [peerCache EXCEPT ![e.item] = e.val]
      /\ peerWatch' = [peerWatch EXCEPT ![s] = Tail(@)]
  BY DEF Peer!Observe, PeerFollows, Watched, View
<1>2. /\ DOMAIN peerWatch[s] = 1 .. Len(peerWatch[s]) /\ Len(peerWatch[s]) \in Nat \ {0}
      /\ e = peerWatch[s][1] /\ e \in EventsOf(s)
      /\ peerWatch'[s] = Tail(peerWatch[s])
      /\ DOMAIN peerWatch'[s] = 1 .. Len(peerWatch[s]) - 1
      /\ \A i \in 1 .. Len(peerWatch[s]) - 1 : peerWatch'[s][i] = peerWatch[s][i + 1]
  BY <1>1, EmptySeq, HeadTailProperties, LenProperties
<1>3. StreamOf(e.item) = s /\ e.item \in Items
  BY <1>2 DEF EventsOf
<1> HIDE DEF e
<1> SUFFICES ASSUME NEW o \in Objects
             PROVE  /\ AtHome(o, peerCache'[o])
                    /\ \A i \in DOMAIN peerWatch'[StreamOf(o)] :
                          peerWatch'[StreamOf(o)][i].item = o
                          => AtHome(o, peerWatch'[StreamOf(o)][i].val)
  BY DEF PeerHome, AtHome
<1>4. o \in Items /\ StreamOf(o) \in Streams
  BY ItemCases, ItemStreams
<1>5. /\ AtHome(o, peerCache[o])
      /\ \A i \in DOMAIN peerWatch[StreamOf(o)] :
            peerWatch[StreamOf(o)][i].item = o => AtHome(o, peerWatch[StreamOf(o)][i].val)
  BY DEF PeerHome
<1>6. AtHome(o, peerCache'[o])
  <2>1. CASE e.item = o
    <3>1. peerCache'[o] = e.val
      BY <1>1, <1>3, <2>1
    <3>2. 1 \in DOMAIN peerWatch[StreamOf(o)] /\ peerWatch[StreamOf(o)][1] = e
      BY <1>2, <1>3, <2>1
    <3> QED
      BY <1>5, <2>1, <3>1, <3>2
  <2>2. CASE e.item # o
    BY <1>1, <1>5, <2>2
  <2> QED
    BY <2>1, <2>2
<1>7. ASSUME NEW i \in DOMAIN peerWatch'[StreamOf(o)]
      PROVE  \E j \in DOMAIN peerWatch[StreamOf(o)] :
                 peerWatch[StreamOf(o)][j] = peerWatch'[StreamOf(o)][i]
  <2>1. CASE StreamOf(o) = s
    <3>1. i + 1 \in DOMAIN peerWatch[s] /\ peerWatch[s][i + 1] = peerWatch'[s][i]
      <4>1. PICK n \in Nat \ {0} : n = Len(peerWatch[s])
        BY <1>2
      <4>2. i \in 1 .. n - 1
        BY <1>2, <1>7, <2>1, <4>1
      <4>3. peerWatch[s][i + 1] = peerWatch'[s][i]
        BY <1>2, <4>1, <4>2
      <4>4. i + 1 \in 1 .. n
        BY <4>2
      <4> QED
        BY <1>2, <4>1, <4>3, <4>4
    <3> QED
      BY <2>1, <3>1
  <2>2. CASE StreamOf(o) # s
    BY <1>1, <1>4, <1>7, <2>2
  <2> QED
    BY <2>1, <2>2
<1> QED
  BY <1>5, <1>6, <1>7

\* Two replicas keep names at home: whichever answers, it takes names from projects
\* that list the namespace, and the peer that takes over had only such.
LEMMA RolloutHomeStep ==
    ASSUME RolloutInv, NamesHome, PeerHome, [RolloutNext]_rolloutVars
    PROVE  NamesHome' /\ PeerHome'
<1>0. IInv /\ PeerFollows /\ TypeOK /\ cache \in View /\ peerCache \in View
  BY DEF RolloutInv, PeerFollows, IInv, TypeOK, ApiTypeOK
<1>1. CASE Takeover
  <2>1. /\ cache' = peerCache /\ watch' = peerWatch /\ store' = store
        /\ peerCache' = store /\ \A s \in Streams : peerWatch'[s] = <<>>
    BY <1>1 DEF Takeover
  <2>2. \A o \in Objects : AtHome(o, store[o])
    BY DEF NamesHome, Seen
  <2>3. NamesHome'
    BY <2>1, <2>2 DEF NamesHome, Seen, PeerHome, AtHome
  <2>4. PeerHome'
    BY <2>1, <2>2, ItemStreams, ItemCases DEF PeerHome, AtHome
  <2> QED
    BY <2>3, <2>4
<1>2. ASSUME NEW view \in {cache, peerCache}, StepBy(view), PeerIsSent
      PROVE  NamesHome' /\ PeerHome'
  <2>1. NamesHome' /\ AnyStep
    BY <1>0, <1>2, HomeStep, StepByIsAnyStep
  <2> QED
    BY <1>0, <1>2, <2>1, PeerHomeSent
<1>3. ASSUME UNCHANGED vars
      PROVE  NamesHome'
  BY <1>3 DEF vars, apiVars, NamesHome, Seen, AtHome
<1>4. ASSUME NEW s \in Streams, UNCHANGED vars, Peer!Observe(s)
      PROVE  NamesHome' /\ PeerHome'
  BY <1>0, <1>3, <1>4, PeerHomeTakes
<1>5. CASE UNCHANGED vars /\ UNCHANGED <<peerCache, peerWatch>>
  BY <1>3, <1>5 DEF PeerHome, AtHome
<1> QED
  BY <1>1, <1>2, <1>4, <1>5, RolloutCases

\* Where users offer no namespace to two projects, names agree with two replicas too.
THEOREM RolloutApart == NamespacesApart /\ RolloutSpec => []NamesAgree
<1>1. RolloutInit => NamesHome /\ PeerHome
  <2> SUFFICES ASSUME RolloutInit PROVE NamesHome /\ PeerHome
    OBVIOUS
  <2>1. ASSUME NEW o \in Objects
        PROVE  /\ store[o] = Absent /\ cache[o] = Absent /\ watch[StreamOf(o)] = <<>>
               /\ peerCache[o] = Absent /\ peerWatch[StreamOf(o)] = <<>>
    BY ItemStreams, ItemCases DEF RolloutInit, Init, ApiInit
  <2> QED
    BY <2>1 DEF NamesHome, PeerHome, Seen, AtHome, IsAnnotationExists
<1>2. RolloutInv /\ NamesHome /\ PeerHome /\ [RolloutNext]_rolloutVars => NamesHome' /\ PeerHome'
  BY RolloutHomeStep
<1>3. NamespacesApart /\ RolloutInv /\ NamesHome => NamesAgree
  BY HomeAgree DEF RolloutInv, IInv, TypeOK
<1>4. NamespacesApart => []NamespacesApart
  BY DEF NamespacesApart
<1> QED
  BY <1>1, <1>2, <1>3, <1>4, RolloutInvariant, PTL DEF RolloutSpec

\* So is what RolloutAccurate and RolloutPromise say.
THEOREM RolloutApartAccurate ==
    NamespacesApart /\ RolloutSpec => []SettledUsageAccurate /\ StatusPromised
BY RolloutApart, RolloutAccurate, RolloutPromise

================================================================================
