---------------------------- MODULE StatusPromise ----------------------------
(***************************************************************************)
(* What the operator promises of the projects' status, whatever caches,    *)
(* watches, queues and webhooks it is built from: recorded usage follows   *)
(* the total, and only a project that is owed a reconcile may show         *)
(* anything else or have its record changed.                               *)
(***************************************************************************)
CONSTANT Projects

VARIABLES
    live,    \* the projects that exist and are not under deletion
    total,   \* what each project uses
    used,    \* what its status says it uses
    owed     \* the projects for which the operator has still to act on a change

vars == <<live, total, used, owed>>

Init == live = {} /\ owed = {}

\* Objects or the project change; from then on it is owed a reconcile.  The
\* record stays, unless it comes or goes with the project.
Change(p) ==
    /\ p \in owed'
    /\ p \in live \intersect live' => used'[p] = used[p]

\* A reconcile records what it added up, which may be out of date already; it has
\* to look again before it rests.
Record(p) ==
    /\ p \in live \intersect live' \intersect owed \intersect owed'
    /\ total'[p] = total[p]

Unchanged(p) ==
    /\ p \in live <=> p \in live'
    /\ total'[p] = total[p] /\ used'[p] = used[p]

\* Nothing is left to do for p.
Settle(p) ==
    /\ p \in owed \ owed'
    /\ p \in live => used[p] = total[p]
    /\ Unchanged(p)

Rest(p) == p \notin owed \union owed' /\ Unchanged(p)

Next == \A p \in Projects : Change(p) \/ Record(p) \/ Settle(p) \/ Rest(p)

Spec == Init /\ [][Next]_vars

\* No project is owed anything in the end.
Rests == <>[](owed = {})

================================================================================
