-------------------------------- MODULE MCPods --------------------------------
(***************************************************************************)
(* Instances of PodUsage for TLC.                                          *)
(***************************************************************************)
EXTENDS PodUsage, MCProjectQuota

\* The first pod states amounts of its own: more than its containers request, less
\* than their limits add up to.  In the second a sidecar keeps running, next to an
\* init container and then next to the container, and there is overhead.
TwoPodSpecs ==
    LET C(requests, limits, sidecar) ==
            [requests |-> requests, limits |-> limits, sidecar |-> sidecar]
    IN x1 :> [containers |-> <<C(0, 1, FALSE), C(0, 1, FALSE)>>, initContainers |-> <<>>,
              resources |-> [requests |-> 1, limits |-> 1], overhead |-> 0]
       @@ x2 :> [containers |-> <<C(1, 0, FALSE)>>,
                 initContainers |-> <<C(1, 1, TRUE), C(1, 0, FALSE)>>,
                 resources |-> <<>>, overhead |-> 1]

CpuDemand == [o \in Objects |-> [r \in Resources |-> PodDemand(TwoPodSpecs[o], r)]]

================================================================================
