-------------------------------- MODULE Edge --------------------------------
(***************************************************************************)
(* Wake-on-request: octw-edge (edge/proxy.py) in front of the handlers of  *)
(* TenantRuntime.  proxy_path asks the internal API for the tenant's       *)
(* status, has the tenant woken if need be, asks for its address again and *)
(* proxies; every answer that it acts on may be out of date.               *)
(*                                                                         *)
(* A visit is one coroutine of octw-edge; the call of the API that it is   *)
(* waiting for runs in the API request slot of the same name.  get_status  *)
(* resolves the slug in one step and reads Docker in the next, for it      *)
(* awaits the first and not the second.                                    *)
(*                                                                         *)
(* A container that runs is not yet a gateway that listens: the healthcheck*)
(* gives it ten seconds to start (docker_orch.py:366-372) and the proxy    *)
(* looks at the container's state only.                                    *)
(*                                                                         *)
(* Assumed: octw-edge has a way to the tenants' networks, as it has when it*)
(* runs on the Docker host (`octw server edge`), and tenants are named by  *)
(* slugs that do not parse as UUIDs (a UUID skips the lookup of            *)
(* _resolve_tenant_id).                                                    *)
(***************************************************************************)
EXTENDS TenantRuntime

CONSTANTS
    Commands,    \* the kinds of request that arrive beside the visits
    Impatient    \* the slots in which httpx may give up (timeout=30.0)

ASSUME CommandsAssumption == Commands \subseteq Ops
ASSUME ImpatientAssumption == Impatient \subseteq ApiRequests

VARIABLES
    edge,        \* edge[p]: the visit that uses slot p
    listening    \* listening[t]: the gateway in t's container accepts connections

evars == <<vars, edge, listening>>

\* cid: the container whose address the edge has been told; calm: nobody has taken
\* the tenant away from the visit; warm: and the gateway listened when the API took
\* the visit up (calm and warm are auxiliary fields: no action reads them).
EdgePcs == {"idle", "resolve", "inspect", "ensure", "waking",
            "resolve_again", "inspect_again", "proxy"}
Answers == {"none", "served", "not_found", "unavailable", "unreachable", "refused",
            "timeout"}
Visits == [pc : EdgePcs, tenant : Tenants \cup {None}, cid : ContainerIds \cup {None},
           answer : Answers, calm : BOOLEAN, warm : BOOLEAN]
NoVisit == [pc |-> "idle", tenant |-> None, cid |-> None, answer |-> "none",
            calm |-> FALSE, warm |-> FALSE]

V(p) == container[edge[p].tenant]
EdgeAt(p, pc) == edge[p].pc = pc
\* The call of the API that the visit waits for gets the event loop.
ApiServes(p, pc) == EdgeAt(p, pc) /\ loop = None

EdgeGoto(p, pc, cid) == edge' = [edge EXCEPT ![p].pc = pc, ![p].cid = cid]
Answer(p, answer) ==
    edge' = [edge EXCEPT ![p] =
        [NoVisit EXCEPT !.answer = answer, !.calm = edge[p].calm, !.warm = edge[p].warm]]

\* A gateway listens as long as its container's process lives, paused or not.
Listeners ==
    listening' = [t \in Tenants |-> /\ listening[t]
                                    /\ container'[t].id = container[t].id
                                    /\ container'[t].state \in {"running", "paused"}]

-----------------------------------------------------------------------------
(* A visit: proxy_path and _resolve_and_ensure. *)

\* The requests that take a tenant away on purpose.
Disturbing == {"stop", "pause", "delete"}

Visit(p, t) ==
    /\ EdgeAt(p, "idle") /\ ~Active(p)
    /\ edge' = [edge EXCEPT ![p] =
           [NoVisit EXCEPT
              !.pc = "resolve", !.tenant = t,
              !.calm = /\ Exists(t) /\ container[t].state # "restarting"
                       /\ \A q \in Requests : T(q) = t => req[q].op \notin Disturbing]]
    /\ UNCHANGED <<vars, listening>>

\* get_status: _resolve_tenant_id.
EdgeResolve(p) ==
    /\ ApiServes(p, "resolve")
    /\ IF Exists(edge[p].tenant)
       THEN edge' = [edge EXCEPT ![p].pc = "inspect",
                                 ![p].warm = edge[p].calm /\ listening[edge[p].tenant]]
       ELSE Answer(p, "not_found")
    /\ UNCHANGED <<vars, listening>>

\* get_status: get_container_state and get_container_ip.  A container that Docker
\* is restarting is in state "error", which nobody wakes.
EdgeInspect(p) ==
    /\ ApiServes(p, "inspect")
    /\ CASE V(p).state = "running" -> EdgeGoto(p, "proxy", V(p).id)
         [] V(p).state = "restarting" -> Answer(p, "unavailable")
         [] OTHER -> EdgeGoto(p, "ensure", None)
    /\ UNCHANGED <<vars, listening>>

\* ensure_running resolves the slug and calls wake_tenant.
EdgeEnsure(p) ==
    /\ ApiServes(p, "ensure")
    /\ \/ Exists(edge[p].tenant) /\ Begin(p, "wake", edge[p].tenant) /\ EdgeGoto(p, "waking", None)
       \/ ~Exists(edge[p].tenant) /\ Answer(p, "unavailable") /\ UNCHANGED vars
    /\ UNCHANGED listening

EdgeEnsured(p) ==
    /\ EdgeAt(p, "waking") /\ ~Active(p)
    /\ IF req[p].result = "ok" THEN EdgeGoto(p, "resolve_again", None)
       ELSE Answer(p, "unavailable")
    /\ UNCHANGED <<vars, listening>>

\* get_status once more: an error has no address.
EdgeResolveAgain(p) ==
    /\ ApiServes(p, "resolve_again")
    /\ IF Exists(edge[p].tenant) THEN EdgeGoto(p, "inspect_again", None)
       ELSE Answer(p, "unavailable")
    /\ UNCHANGED <<vars, listening>>

\* Mutant of EdgeInspectAgain: the second answer is not looked at.
EdgeAddressUnread(p) ==
    /\ ApiServes(p, "inspect_again")
    /\ EdgeGoto(p, "proxy", row[edge[p].tenant].cid)
    /\ UNCHANGED <<vars, listening>>

\* Only the address counts now: a paused container has one.
EdgeInspectAgain(p) ==
    /\ ApiServes(p, "inspect_again")
    /\ IF V(p).state \in {"running", "paused"} THEN EdgeGoto(p, "proxy", V(p).id)
       ELSE Answer(p, "unavailable")
    /\ UNCHANGED <<vars, listening>>

\* client.request to the address, at once: nobody may be there any more, the gateway
\* may not listen yet, and a paused container does not answer.
EdgeProxy(p) ==
    /\ EdgeAt(p, "proxy")
    /\ Answer(p, CASE V(p) = [id |-> edge[p].cid, state |-> "running"] ->
                        IF listening[edge[p].tenant] THEN "served" ELSE "refused"
                   [] V(p) = [id |-> edge[p].cid, state |-> "paused"] -> "timeout"
                   [] OTHER -> "unreachable")
    /\ UNCHANGED <<vars, listening>>

\* A call of the API outlasts the client's timeout: the visitor gets an error, and a
\* wake that has begun goes on.
EdgeTimeout(p) ==
    /\ p \in Impatient /\ edge[p].pc \notin {"idle", "proxy"}
    /\ edge' = [edge EXCEPT ![p] = [NoVisit EXCEPT !.answer = "timeout"]]
    /\ UNCHANGED <<vars, listening>>

EdgeStep(p) ==
    \/ EdgeResolve(p) \/ EdgeInspect(p) \/ EdgeEnsure(p) \/ EdgeEnsured(p)
    \/ EdgeResolveAgain(p) \/ EdgeInspectAgain(p) \/ EdgeProxy(p)

-----------------------------------------------------------------------------
(* Around the visits. *)

\* The visits to t are no longer calm.
Disturb(t) ==
    edge' = [q \in ApiRequests |->
        [edge[q] EXCEPT !.calm = @ /\ edge[q].tenant # t, !.warm = @ /\ edge[q].tenant # t]]

\* A slot serves either a visit or a request of its own.
Arrive(p, op, t) ==
    /\ p \in ApiRequests => EdgeAt(p, "idle")
    /\ Begin(p, op, t)
    /\ IF op \in Disturbing THEN Disturb(t) ELSE UNCHANGED edge
    /\ UNCHANGED listening

RequestStep(p) == Step(p) /\ Listeners /\ UNCHANGED edge
RequestFail(p) == Fail(p) /\ Listeners /\ Disturb(T(p))
Crash(t) == ContainerCrash(t) /\ Listeners /\ Disturb(t)
Restart(t) == ContainerRestart(t) /\ Listeners /\ UNCHANGED edge

\* The gateway of a container that runs has started.
GatewayUp(t) ==
    /\ container[t].state = "running" /\ ~listening[t]
    /\ listening' = [listening EXCEPT ![t] = TRUE]
    /\ UNCHANGED <<vars, edge>>

ENext ==
    \/ \E p \in ApiRequests :
         EdgeStep(p) \/ EdgeTimeout(p) \/ \E t \in Tenants : Visit(p, t)
    \/ \E p \in Requests : \/ RequestStep(p) \/ RequestFail(p)
                           \/ \E op \in Commands, t \in Tenants : Arrive(p, op, t)
    \/ \E t \in Tenants : Crash(t) \/ Restart(t) \/ GatewayUp(t)

EInit ==
    /\ Init
    /\ edge = [p \in ApiRequests |-> NoVisit]
    /\ listening = [t \in Tenants |-> FALSE]

ESpec == EInit /\ [][ENext]_evars

\* Once a secret has been stored for every tenant: no wake inserts a data key.
KeyedInit == EInit /\ \A t \in Tenants : dek[t]
KeyedSpec == KeyedInit /\ [][ENext]_evars

-----------------------------------------------------------------------------
(* Properties. *)

\* Wake-on-request without the wait: "Edge proxy triggers ensure-running, waits, then
\* proxies" (docs/architecture.md:107).  A visit that meets no stop, pause, delete,
\* failure, crash or timeout reaches the tenant's own container, however many visits and
\* starts wake the tenant at the same time and whatever is left of earlier requests.  If the gateway listened when the API
\* took the visit up, in a container that ran or was paused, the visitor gets its
\* answer: no wake or start of the others replaces what runs.
EdgeReaches ==
    \A p \in ApiRequests :
        /\ edge[p].calm => edge[p].answer \in {"none", "served", "refused"}
        /\ edge[p].warm => edge[p].answer \in {"none", "served"}

\* Wake-on-request with the wait that docs/architecture.md:107 promises: a visit that
\* nobody disturbs is served, to a tenant that has to be woken for it too.
EdgeServes ==
    \A p \in ApiRequests :
        edge[p].calm => edge[p].answer \in {"none", "served"}

=============================================================================
