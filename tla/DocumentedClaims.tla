---------------------------- MODULE DocumentedClaims ----------------------------
(***************************************************************************)
(* What the repository's documentation says of the operator, its code does *)
(* not keep, and no property of ProjectQuota says.  The README of this     *)
(* directory explains the runs that end in a counterexample.               *)
(***************************************************************************)
EXTENDS ProjectQuota

\* README.md:12, for a new pod in a project that limits pods: a resource the
\* project sets no limit for is no reason to reject it.
OnlyNamedLimitsReject ==
    \A o \in Objects, p \in Projects :
        /\ KindOf[o] = "pods" /\ store[o] = Absent /\ Settled(p) /\ Live(store[p])
        /\ Claims(store[p], NamespaceOf[o])
        /\ BelowHard(store[p], "pods")
        /\ \A r \in ComputeResources \intersect DOMAIN store[p].hard :
              checkQuota(store[p], o, r)
        => ValidateCreate(cache, o, [anno |-> p, shape |-> "Active"])

================================================================================
