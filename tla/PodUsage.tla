------------------------------- MODULE PodUsage -------------------------------
(***************************************************************************)
(* ProjectQuota with pods that have containers: what an object demands of  *)
(* CPU is what PodEffectiveRequests and PodEffectiveLimits make of it.     *)
(***************************************************************************)
EXTENDS ProjectQuota, PodResources

CONSTANT PodSpec  \* the containers of each object that is a pod

CpuResources == {"cpu", "requests.cpu", "limits.cpu"}

ASSUME PodAssumption ==
    \A o \in Objects : KindOf[o] = "pods" =>
        /\ PodSpec[o] \in Pod
        /\ \A r \in CpuResources \intersect Resources :
              Demand[o][r] = PodDemand(PodSpec[o], r)

\* The most that each of the pods can hold of CPU, added up.
PeakOf(pods, r) ==
    SumFunctionOnSet([o \in pods |-> IF r = "limits.cpu" THEN PeakLimits(PodSpec[o])
                                     ELSE PeakRequests(PodSpec[o])],
                     pods)

RunningPods(prq, view) ==
    {o \in Objects : /\ KindOf[o] = "pods" /\ IsAnnotationExists(view[o])
                     /\ ~isPodTerminated(view[o].shape)
                     /\ Claims(prq, NamespaceOf[o])}

\* util.go:12-30 and the controller's calculation together: settled status shows
\* the most that the project's running pods can hold between them, each in the
\* worst moment of its start or after it.  Without a limit on pods the controller
\* computes no CPU.
SettledCpuIsPeak ==
    \A p \in Projects : Settled(p) /\ Live(store[p]) =>
        \A r \in CpuResources \intersect Resources :
            {"pods", r} \subseteq DOMAIN store[p].hard
                => store[p].used[r] = PeakOf(RunningPods(store[p], store), r)

================================================================================
