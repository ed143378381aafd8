---------------------------- MODULE MCHibernation ----------------------------
(* Instances of Hibernation for TLC.  They begin in states that HSpec reaches, with the *)
(* faults counted from there on.                                                        *)
EXTENDS Hibernation

Ids == CHOOSE f \in [Tenants -> ContainerIds] : \A t, u \in Tenants : f[t] = f[u] => t = u
First == CHOOSE t \in Tenants : TRUE
FirstSlot == CHOOSE p \in ApiRequests : TRUE

\* Nobody is at work.  The tenants in keyless were started before they had a data key, the
\* start failed at its commit, and then they were paused; the others have been started.
Beginning(keyless, idle) ==
    /\ row = [t \in Tenants |->
                IF t \in keyless THEN [status |-> "paused", cid |-> None, idle |-> idle[t]]
                ELSE [status |-> "running", cid |-> Ids[t], idle |-> idle[t]]]
    /\ container = [t \in Tenants |->
                      [id |-> Ids[t], state |-> IF t \in keyless THEN "paused" ELSE "running"]]
    /\ dek = [t \in Tenants |-> t \notin keyless]
    /\ rowLock = [t \in Tenants |-> None]
    /\ network = [t \in Tenants |-> TRUE]
    /\ dirs = [t \in Tenants |-> TRUE]
    /\ loop = None
    /\ req = [p \in Requests |-> Idle("none")]
    /\ pass = Asleep
    /\ traffic = [t \in Tenants |-> FALSE]
    /\ faults = 0

\* All tenants have been started.
MCInit == Beginning({}, [t \in Tenants |-> 0])
MCSpec == MCInit /\ [][HNext]_hvars /\ HFairness

\* A pass over tenants that are idle already: one beyond the stop threshold and another
\* beyond the pause threshold, or both beyond the stop threshold and without a data key.
BusyInit ==
    \/ Beginning({}, [t \in Tenants |-> IF t = First THEN 2 ELSE 1])
    \/ Beginning(Tenants, [t \in Tenants |-> 2])

\* Each slot serves one request, the first a deletion and the others a start, at any
\* time, and nobody falls idle again meanwhile.
BusyNext ==
    \/ PassStep \/ PassFail
    \/ \E p \in Requests :
         \/ RequestStep(p) \/ RequestFail(p)
         \/ /\ req[p] = Idle("none")
            /\ \E op \in Commands, t \in Tenants :
                  (op = "delete") = (p = FirstSlot) /\ Arrive(p, op, t)
    \/ \E t \in Tenants : Crash(t) \/ Restart(t)
BusySpec == BusyInit /\ [][BusyNext]_hvars /\ HFairness

=============================================================================
