---------------------------- MODULE MCProjectQuota ----------------------------
(***************************************************************************)
(* Instances of ProjectQuota for TLC: the values the configurations give   *)
(* to its constants.                                                       *)
(***************************************************************************)
EXTENDS DocumentedClaims, TLC

CONSTANTS A, B,     \* projects
          n1, n2,   \* namespaces
          x1, x2    \* objects

\* Namespaces and who may list them
OneNamespace == <<n1>>
TwoNamespaces == <<n1, n2>>

AlwaysN1 == A :> {<<n1>>}
SometimesN1 == A :> {<<n1>>, <<>>}
SometimesN2 == A :> {<<n1, n2>>, <<n1>>}
SharedN1 == A :> {<<n1>>, <<>>} @@ B :> {<<n1>>, <<>>}

\* Kinds
ConfigMapKind == <<"configmaps">>
PodKind == <<"pods">>
ServiceKind == <<"services">>
TwoKinds == <<"configmaps", "secrets">>

AllConfigMaps == [o \in Objects |-> "configmaps"]
AllPods == [o \in Objects |-> "pods"]
AllServices == [o \in Objects |-> "services"]
ConfigMapAndSecret == x1 :> "configmaps" @@ x2 :> "secrets"

AllInN1 == [o \in Objects |-> n1]
Apart == x1 :> n1 @@ x2 :> n2

\* Resources, limits and demands
ConfigMapResource == {"configmaps"}
TwoResources == {"configmaps", "secrets"}
ServiceResources == {"services", "services.nodeports", "services.loadbalancers"}
PodAndCpu == {"pods", "requests.cpu", "limits.cpu"}

NoDemand == [o \in Objects |-> [r \in Resources |-> 0]]

OneConfigMap == {[configmaps |-> 1]}
UpToOne == {[configmaps |-> 0], [configmaps |-> 1]}
OneOfEach == {[configmaps |-> 1, secrets |-> 1]}
OneService == {[services |-> 1]}
OneNodePort == {"services" :> 2 @@ "services.nodeports" :> 1}
TwoPods == {"pods" :> 2}
PodsOrCpus == TwoPods \union {"pods" :> 2 @@ "requests.cpu" :> 3 @@ "limits.cpu" :> 2}

\* Two objects that differ in name only
ObjectSymmetry == Permutations({x1, x2})

================================================================================
