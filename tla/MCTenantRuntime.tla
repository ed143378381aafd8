--------------------------- MODULE MCTenantRuntime ---------------------------
(* Instances of TenantRuntime for TLC. *)
EXTENDS TenantRuntime, TLC

\* No request is at work.
Settled == \A q \in Requests : ~Active(q)

\* FairSpec with containers that crash and come back while nobody is at work: so are
\* the states from which requests begin, and the graph is small enough for liveness.
MCNext ==
    \/ \E p \in Requests : Step(p) \/ Fail(p) \/ \E op \in Ops, t \in Tenants : Begin(p, op, t)
    \/ \E t \in Tenants : \/ Settled /\ ContainerCrash(t)
                          \/ Settled /\ ContainerRestart(t)
MCSpec == Init /\ [][MCNext]_vars /\ Fairness

=============================================================================
