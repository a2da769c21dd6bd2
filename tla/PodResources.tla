----------------------------- MODULE PodResources -----------------------------
(***************************************************************************)
(* What a pod asks for, as the webhook and the controller compute it with  *)
(* PodEffectiveRequests and PodEffectiveLimits of api/v1/util.go, for one  *)
(* compute resource.  The aggregation is that of the library they call;    *)
(* the module states what it is to give and checks that it does.           *)
(*                                                                         *)
(* A container is a record [requests, limits, sidecar].  Init containers   *)
(* run one after the other before the others start; a sidecar among them   *)
(* keeps running.  What the pod as a whole states (spec.resources) stands  *)
(* for what its containers add up to.                                      *)
(***************************************************************************)
EXTENDS Integers, FiniteSetsExt, SequencesExt, Functions

Container == [requests : Nat, limits : Nat, sidecar : BOOLEAN]

\* Requests, limits, both or neither.
PodLevelAmounts ==
    [{} -> Nat] \union [{"requests"} -> Nat] \union [{"limits"} -> Nat]
        \union [{"requests", "limits"} -> Nat]

Pod == [containers : Seq(Container), initContainers : Seq(Container),
        resources : PodLevelAmounts, overhead : Nat]

SumOfSeq(containers, a) ==
    SumFunction([i \in DOMAIN containers |-> containers[i][a]])

\* What the init containers keep running, taken in their order, and the
\* largest that one of them asks for next to the sidecars started before it.
InitNeeds(pod, a) ==
    FoldLeft(LAMBDA acc, c :
                 [sidecars |-> acc.sidecars + IF c.sidecar THEN c[a] ELSE 0,
                  largest |-> Max({acc.largest, acc.sidecars + c[a]})],
             [sidecars |-> 0, largest |-> 0], pod.initContainers)

\* The sidecars stay next to the containers.
Aggregate(pod, a) ==
    Max({SumOfSeq(pod.containers, a) + InitNeeds(pod, a).sidecars,
         InitNeeds(pod, a).largest})

PodLevel(pod, a) ==
    IF a \in DOMAIN pod.resources THEN pod.resources[a] ELSE Aggregate(pod, a)

PodEffectiveRequests(pod) == PodLevel(pod, "requests") + pod.overhead

\* Overhead is added to a limit only where there is one.
PodEffectiveLimits(pod) ==
    LET limit == PodLevel(pod, "limits")
    IN IF limit = 0 THEN 0 ELSE limit + pod.overhead

PodDemandLimitsAsRequests(pod, r) == PodEffectiveRequests(pod)

\* The amount checked against, and charged to, each resource name: "cpu" and
\* "requests.cpu" are one amount, as are those of the other compute resources.
PodDemand(pod, r) ==
    CASE r \in {"cpu", "requests.cpu"} -> PodEffectiveRequests(pod)
      [] r = "limits.cpu" -> PodEffectiveLimits(pod)
      [] OTHER -> 0

-----------------------------------------------------------------------------
(* Reference: the most that the pod can hold at one moment *)

\* Before the i-th init container starts, all sidecars before it run.
SidecarsBefore(pod, a, i) ==
    SumFunctionOnSet([j \in DOMAIN pod.initContainers |-> pod.initContainers[j][a]],
                     {j \in 1 .. i - 1 : pod.initContainers[j].sidecar})

HeldAt(pod, a, i) ==
    SidecarsBefore(pod, a, i)
    + IF i <= Len(pod.initContainers) THEN pod.initContainers[i][a]
      ELSE SumOfSeq(pod.containers, a)

Peak(pod, a) == Max({HeldAt(pod, a, i) : i \in 1 .. Len(pod.initContainers) + 1})

\* A pod that states an amount of its own holds that, however its containers run.
PodHeld(pod, a) ==
    CASE a \in DOMAIN pod.resources -> pod.resources[a]
      [] OTHER -> Peak(pod, a)

PeakRequests(pod) == PodHeld(pod, "requests") + pod.overhead

PeakLimits(pod) ==
    IF PodHeld(pod, "limits") = 0 THEN 0 ELSE PodHeld(pod, "limits") + pod.overhead

================================================================================
