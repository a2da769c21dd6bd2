-------------------------------- MODULE Rollout --------------------------------
(***************************************************************************)
(* Two replicas of the manager, as during a rolling update.  Each has a    *)
(* cache of its own and answers webhooks from it; which replica a call     *)
(* reaches, one of the controller's own calls included, is not determined. *)
(* Only the leader runs the controller.  When it stops, its peer becomes   *)
(* the leader, and a new peer starts.                                      *)
(*                                                                         *)
(* The variables of ProjectQuota are the leader's; Peer is ApiServer with  *)
(* the peer's cache and watch in place of the leader's.                    *)
(***************************************************************************)
EXTENDS ProjectQuota

VARIABLES
    peerCache,  \* what the peer's client reads
    peerWatch,  \* changes that the peer's informers have yet to see
    undone      \* history, which no action reads: see Undone

rolloutVars == <<vars, peerCache, peerWatch, undone>>

Peer == INSTANCE ApiServer WITH cache <- peerCache, watch <- peerWatch

\* The events that a step adds to the streams of one replica.
Added(before, after) ==
    [s \in Streams |-> SubSeq(after[s], Len(before[s]) + 1, Len(after[s]))]

\* Every watch gets every event.
PeerIsSent ==
    /\ peerWatch' = [s \in Streams |-> peerWatch[s] \o Added(watch, watch')[s]]
    /\ UNCHANGED peerCache

\* When a user writes, MaxLag bounds every stream of both replicas: one may be
\* filled by the controller while the user writes to another.
BothRoom == \A s \in Streams : Len(watch'[s]) <= MaxLag /\ Len(peerWatch'[s]) <= MaxLag

\* The leader's webhooks answer, or none is called.
LeaderAnswers ==
    \/ UserNext /\ PeerIsSent /\ BothRoom
    \/ ReconcilerNext /\ PeerIsSent

\* The peer's webhooks answer a user or the controller.
PeerAnswers ==
    \/ UserRequest(peerCache) /\ PeerIsSent /\ BothRoom
    \/ (\E o \in Objects : RemoveUpdate(peerCache, o)) /\ PeerIsSent
    \/ Finalize(peerCache) /\ PeerIsSent

PeerObserves ==
    /\ \E s \in Streams : Peer!Observe(s)
    /\ UNCHANGED <<cache, watch, reconcilerVars>>

\* The leader stops, at any point, and the peer gets the lease.  Its controller
\* starts from the cache it has; a replica that has just listed everything
\* becomes the new peer.
Takeover ==
    /\ faults < MaxFaults
    /\ cache' = peerCache /\ watch' = peerWatch
    /\ queue' = StartQueue(peerCache)
    /\ Idle
    /\ faults' = faults + 1
    /\ UNCHANGED store
    /\ peerCache' = store /\ peerWatch' = [s \in Streams |-> <<>>]

\* undone is the objects whose update in the present reconcile left the annotation
\* where it was while the peer had yet to see a change of the project.
Undone ==
    undone' = IF cur' # cur THEN {}
              ELSE undone \union {o \in batch \ batch' : /\ Peer!Pending(cur)
                                                       /\ store'[o] # Absent
                                                       /\ store'[o].anno = cur}

RolloutInit == Init /\ peerCache = cache /\ peerWatch = watch /\ undone = {}

RolloutNext == (LeaderAnswers \/ PeerAnswers \/ PeerObserves \/ Takeover) /\ Undone

RolloutSpec == RolloutInit /\ [][RolloutNext]_rolloutVars

-----------------------------------------------------------------------------
(* Properties *)

\* removeAnnotationFromObjects updates objects through the annotators, which skip a
\* project under deletion.  An update that leaves the annotation of the project
\* being cleaned up where it was reached a replica that does not know the project
\* as it is stored, or works from a copy of it that is out of date.
CleanupUndoneOnlyByLag ==
    [][\A o \in batch \ batch' :
          /\ cur' = cur /\ store'[o] # Absent /\ store'[o].anno = cur
          => cur \in stale \/ Peer!Pending(cur)]_rolloutVars

\* LeavesOnlyRacedObjects, of two replicas: when a project disappears, or its status
\* stops recording a namespace, the objects there that still name it are ones that
\* changed since they were listed, or whose update was undone by a replica that lags.
LeavesOnlyRacedOrUndone ==
    [][\A p \in Projects, o \in Objects :
          /\ NamespaceOf[o] \in Released(p)
          /\ store[o] # Absent /\ store[o].anno = p
          => o \in stale \union undone]_rolloutVars

\* OvershootOnlyLaggedOrAdopted, of two replicas: whichever validators answer, what
\* takes a project whose status does not lag over its limit is an update that adopts
\* an object unchecked, unless the peer has yet to see a change of the project.
OvershootOnlyUnseenOrAdopted ==
    [][\A o \in Objects, p \in Projects, r \in Resources :
          /\ Settled(p) /\ Live(store[p]) /\ ~Peer!Pending(p)
          /\ NewCharge(o, p, r)
          => \/ CurrentUsage(store[p], store')[r] <= Limit(store[p].hard, r)
             \/ AdoptedUnchecked(o, p, r)]_rolloutVars

================================================================================
