------------------------------ MODULE Deletion ------------------------------
(***************************************************************************)
(* What a deleted tenant leaves behind.  TenantRuntime shows that a tenant *)
(* may be left with a container that nobody lists (DeletedTenantLeaves-    *)
(* Nothing fails).  This module watches its requests, with two history     *)
(* variables that no step reads, to say which deletions are complete,      *)
(* whatever else runs: those beside which nobody starts or wakes the       *)
(* tenant.                                                                 *)
(***************************************************************************)
EXTENDS TenantRuntime

VARIABLES
    unstarted,  \* the deletes beside which no start or wake has been at work
    cleared     \* the tenants that such a delete has deleted

dvars == <<vars, unstarted, cleared>>

StartOps == {"start", "wake"}

\* q starts or wakes t.
Starts(q, t) == T(q) = t /\ req[q].op \in StartOps

\* The deletes at work that have met no start and no wake so far.
Observe ==
    /\ unstarted' = {p \in Requests :
           /\ Active(p)' /\ req'[p].op = "delete" /\ (p \in unstarted \/ ~Active(p))
           /\ \A q \in Requests : ~Starts(q, T(p))'}
    /\ cleared' = cleared \cup {T(p) : p \in {q \in unstarted :
                                                Commits(q) /\ req[q].pc = "delete_row"}}

DInit == Init /\ unstarted = {} /\ cleared = {}
DNext == Next /\ Observe
DSpec == DInit /\ [][DNext]_dvars

-----------------------------------------------------------------------------

\* A tenant whose delete met no start and no wake stays deleted with all that belonged
\* to it, whatever stops, pauses and deletes ran beside it in the API process and in
\* CLI commands, whatever earlier ones left half done, and whoever starts or wakes it
\* afterwards.
ClearedStaysEmpty ==
    \A t \in cleared : /\ ~Exists(t) /\ ~dek[t]
                       /\ container[t] = NoContainer /\ ~network[t] /\ ~dirs[t]

=============================================================================
