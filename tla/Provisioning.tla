---------------------------- MODULE Provisioning ----------------------------
(***************************************************************************)
(* How tenants come into being and go: the provision route                 *)
(* (provision_router.py), create_tenant as POST /tenants and `octw tenant  *)
(* create` call it, and delete_tenant, against the tenants table with its  *)
(* unique slug, the Docker daemon and the tenants' directories.            *)
(*                                                                         *)
(* A request is one handler in one transaction (READ COMMITTED).  Its pc   *)
(* names the SQL statement or the Docker call it is about to make; `draft` *)
(* is the row as its uncommitted statements have made it so far.  The      *)
(* Docker objects of a tenant without a committed row are named after an   *)
(* id that nobody else knows, so nothing depends here on the event loop    *)
(* (module TenantRuntime), and what start, stop, pause and wake do to a    *)
(* listed tenant is left to that module.                                   *)
(***************************************************************************)
EXTENDS Naturals

CONSTANTS
    Slugs,          \* slugs that requests ask for
    MaxTenants,     \* bound: how many ids are drawn in a behaviour
    ApiRequests,    \* request slots of the API process
    CliCommands,    \* CLI commands that run beside it
    Faulty,         \* requests in which any call may raise, or that may be killed
    None            \* Python's None

Requests == ApiRequests \cup CliCommands
\* uuid4 never returns an id twice: the n-th id drawn is n.
Ids == 1..MaxTenants

ASSUME MaxTenantsAssumption == MaxTenants \in Nat
ASSUME NoneAssumption == None \notin Ids \cup Slugs
ASSUME FaultyAssumption == Faulty \subseteq Requests

VARIABLES
    drawn,          \* how many ids have been drawn
    row,            \* row[i]: the committed tenants row of id i
    network,        \* network[i]: whether Docker has the network octw_tenant_<i>
    home,           \* home[i]: the tenant's directories and its openclaw.json
    container,      \* container[i]: the state of the container octw_tenant_<i>
    initJob,        \* initJob[i]: the state of the container octw_init_<i>
    req             \* req[p]: the progress of request p

docker == <<network, home, container, initJob>>
vars == <<drawn, row, docker, req>>

\* network: network_id is set; admin: the creator's membership; dek: the data key and
\* the secrets of the request.  "absent": no committed row yet; "deleted": no more.
\* A flushed "provisioning" is never committed.
Statuses == {"absent", "provisioning", "stopped", "running", "deleted"}
Rows == [slug : Slugs \cup {None}, status : Statuses, network : BOOLEAN,
         admin : BOOLEAN, provider : BOOLEAN, dek : BOOLEAN]
NoRow == [slug |-> None, status |-> "absent", network |-> FALSE, admin |-> FALSE,
          provider |-> FALSE, dek |-> FALSE]
DeletedRow == [NoRow EXCEPT !.status = "deleted"]
Listed(r) == r.status \in {"provisioning", "stopped", "running"}

\* "empty": the directories alone; "onboarded": the init job has written
\* openclaw.json; "configured": configure_tenant has rewritten it.
Homes == {"none", "empty", "onboarded", "configured"}
ContainerStates == {"none", "created", "running"}
InitStates == {"none", "created", "running", "succeeded", "failed"}

Ops == {"provision", "create", "delete"}
CreatePcs == {"create_dirs", "create_network", "record", "set_provider", "store_secrets",
              "create_job", "run_job", "wait_job", "remove_job", "configure",
              "create_container", "run_container", "set_running"}
DeletePcs == {"stop_container", "remove_network", "remove_dirs", "delete_row"}
Pcs == CreatePcs \cup DeletePcs \cup {"select_slug", "insert", "get", "set_deleting", "idle"}
RequestRecords ==
    [op : Ops \cup {"none"}, slug : Slugs \cup {None}, id : Ids \cup {None}, pc : Pcs,
     draft : Rows]
Begun(op, s, i, pc) ==
    [op |-> op, slug |-> s, id |-> i, pc |-> pc, draft |-> NoRow]
Idle == Begun("none", None, None, "idle")

Active(p) == req[p].pc # "idle"
At(p, pc) == req[p].pc = pc
I(p) == req[p].id

\* p has inserted an uncommitted row with slug s, or updated the one that has it.
HoldsSlug(p, s) ==
    \/ req[p].pc \in CreatePcs /\ req[p].slug = s
    \/ req[p].pc \in DeletePcs /\ row[I(p)].slug = s

-----------------------------------------------------------------------------
(* A step that leaves the transaction open, and the ends of one. *)

Goto(p, pc, draft) ==
    /\ req' = [req EXCEPT ![p] = [req[p] EXCEPT !.pc = pc, !.draft = draft]]
    /\ UNCHANGED <<drawn, row>>
Statement(p, pc, draft) == Goto(p, pc, draft) /\ UNCHANGED docker
DockerCall(p, pc) == Goto(p, pc, req[p].draft)

\* The session is closed without a commit; what Docker has stays.
Close(p) == req' = [req EXCEPT ![p] = Idle] /\ UNCHANGED <<drawn, row>>
Abort(p) == Close(p) /\ UNCHANGED docker

Commit(p, r) ==
    /\ row' = [row EXCEPT ![I(p)] = r]
    /\ req' = [req EXCEPT ![p] = Idle]
    /\ UNCHANGED <<drawn, docker>>

-----------------------------------------------------------------------------
(* The handlers begin. *)

Begin(p, r) == ~Active(p) /\ req' = [req EXCEPT ![p] = r] /\ UNCHANGED <<row, docker>>

\* The id is the one that the row is going to get.
Draw(p, op, s, pc) ==
    /\ drawn < MaxTenants
    /\ drawn' = drawn + 1
    /\ Begin(p, Begun(op, s, drawn + 1, pc))

Provision(p, s) == p \in ApiRequests /\ Draw(p, "provision", s, "select_slug")
CreateTenant(p, s) == Draw(p, "create", s, "insert")
DeleteTenant(p, i) ==
    /\ Begin(p, Begun("delete", None, i, "get"))
    /\ UNCHANGED drawn

-----------------------------------------------------------------------------
(* The slug is taken. *)

\* get_tenant_by_slug; a listed tenant has the slug: HTTP 409.
SelectSlug(p) ==
    /\ At(p, "select_slug")
    /\ IF \E i \in Ids : Listed(row[i]) /\ row[i].slug = req[p].slug
       THEN Abort(p)
       ELSE Statement(p, "insert", NoRow)

InsertedRow(p) == [NoRow EXCEPT !.slug = req[p].slug, !.status = "provisioning"]

\* Mutant of InsertTenant: the row is committed at once, which reserves the slug.
InsertTenantCommitted(p) ==
    /\ At(p, "insert")
    /\ \A q \in Requests \ {p} : ~HoldsSlug(q, req[p].slug)
    /\ ~\E i \in Ids : Listed(row[i]) /\ row[i].slug = req[p].slug
    /\ row' = [row EXCEPT ![I(p)] = InsertedRow(p)]
    /\ req' = [req EXCEPT ![p] = [@ EXCEPT !.pc = "create_dirs", !.draft = InsertedRow(p)]]
    /\ UNCHANGED <<drawn, docker>>

\* Mutant of InsertTenant: the slug column is not unique.
InsertTenantNotUnique(p) ==
    /\ At(p, "insert")
    /\ Statement(p, "create_dirs", InsertedRow(p))

\* INSERT INTO tenants: waits for a transaction that has inserted the slug, or that has
\* updated the row that has it; then fails if the slug is taken (HTTP 500).
InsertTenant(p) ==
    /\ At(p, "insert")
    /\ \A q \in Requests \ {p} : ~HoldsSlug(q, req[p].slug)
    /\ IF \E i \in Ids : Listed(row[i]) /\ row[i].slug = req[p].slug
       THEN Abort(p)
       ELSE Statement(p, "create_dirs", InsertedRow(p))

-----------------------------------------------------------------------------
(* The rest of create_tenant. *)

CreateDirs(p) ==
    /\ At(p, "create_dirs")
    /\ DockerCall(p, "create_network")
    /\ home' = [home EXCEPT ![I(p)] = "empty"]
    /\ UNCHANGED <<network, container, initJob>>

CreateNetwork(p) ==
    /\ At(p, "create_network")
    /\ DockerCall(p, "record")
    /\ network' = [network EXCEPT ![I(p)] = TRUE]
    /\ UNCHANGED <<home, container, initJob>>

Recorded(p) == [req[p].draft EXCEPT !.status = "stopped", !.network = TRUE,
                                    !.admin = p \in ApiRequests]

\* Mutant of Record: create_tenant commits what it has made.
RecordCommitted(p) ==
    /\ At(p, "record")
    /\ \/ req[p].op = "create" /\ Commit(p, Recorded(p))
       \/ /\ req[p].op = "provision"
          /\ row' = [row EXCEPT ![I(p)] = Recorded(p)]
          /\ req' = [req EXCEPT ![p].pc = "set_provider", ![p].draft = Recorded(p)]
          /\ UNCHANGED <<drawn, docker>>

\* UPDATE status and network_id, INSERT the audit event, INSERT the creator's
\* membership (a CLI command has no creator); POST /tenants and the CLI commit.
Record(p) ==
    /\ At(p, "record")
    /\ \/ req[p].op = "create" /\ Commit(p, Recorded(p))
       \/ req[p].op = "provision" /\ Statement(p, "set_provider", Recorded(p))

-----------------------------------------------------------------------------
(* The rest of provision_tenant. *)

SetProvider(p) ==
    /\ At(p, "set_provider")
    /\ Statement(p, "store_secrets", [req[p].draft EXCEPT !.provider = TRUE])

\* store_secret for each secret, get_decrypted_secrets: at least the DEK is inserted.
StoreSecrets(p) ==
    /\ At(p, "store_secrets")
    /\ Statement(p, "create_job", [req[p].draft EXCEPT !.dek = TRUE])

InitJobBecomes(p, state) ==
    /\ initJob' = [initJob EXCEPT ![I(p)] = state]
    /\ UNCHANGED <<network, home, container>>

\* containers.run creates the init container and starts it.
CreateInitJob(p) ==
    At(p, "create_job") /\ DockerCall(p, "run_job") /\ InitJobBecomes(p, "created")
RunInitJob(p) ==
    At(p, "run_job") /\ DockerCall(p, "wait_job") /\ InitJobBecomes(p, "running")

\* Mutant of WaitInitJob: wait() without a timeout.
WaitInitJobForever(p) ==
    /\ At(p, "wait_job")
    /\ initJob[I(p)] \in {"succeeded", "failed"}
    /\ Statement(p, "remove_job", req[p].draft)

\* container.wait(timeout=120) returns or raises.
WaitInitJob(p) ==
    /\ At(p, "wait_job")
    /\ \/ initJob[I(p)] \in {"succeeded", "failed"} /\ Statement(p, "remove_job", req[p].draft)
       \/ initJob[I(p)] = "running" /\ Abort(p)

InitJobFailed(p) == initJob[I(p)] = "failed" /\ home[I(p)] = "empty"

\* Mutant of RemoveInitJob: the container is left to Docker's garbage collection.
RemoveInitJobLater(p) ==
    /\ At(p, "remove_job")
    /\ \/ InitJobFailed(p) /\ Close(p)
       \/ ~InitJobFailed(p) /\ DockerCall(p, "configure")
    /\ UNCHANGED docker

\* container.remove(), and then the verdict: a job that exits with an error after it
\* has written its configuration has done its work.
RemoveInitJob(p) ==
    /\ At(p, "remove_job")
    /\ \/ InitJobFailed(p) /\ Close(p)
       \/ ~InitJobFailed(p) /\ DockerCall(p, "configure")
    /\ InitJobBecomes(p, "none")

\* configure_tenant; without an openclaw.json it only logs a warning.
ConfigureTenant(p) ==
    /\ At(p, "configure")
    /\ DockerCall(p, "create_container")
    /\ home' = [home EXCEPT ![I(p)] = IF @ = "onboarded" THEN "configured" ELSE @]
    /\ UNCHANGED <<network, container, initJob>>

\* start_tenant on the request's own row: no container has the name yet.
ContainerBecomes(p, state) ==
    /\ container' = [container EXCEPT ![I(p)] = state]
    /\ UNCHANGED <<network, home, initJob>>
CreateContainer(p) ==
    At(p, "create_container") /\ DockerCall(p, "run_container") /\ ContainerBecomes(p, "created")
RunContainer(p) ==
    At(p, "run_container") /\ DockerCall(p, "set_running") /\ ContainerBecomes(p, "running")
SetRunning(p) ==
    At(p, "set_running") /\ Commit(p, [req[p].draft EXCEPT !.status = "running"])

CreateStep(p) ==
    \/ SelectSlug(p) \/ InsertTenant(p) \/ CreateDirs(p) \/ CreateNetwork(p) \/ Record(p)
    \/ SetProvider(p) \/ StoreSecrets(p) \/ CreateInitJob(p) \/ RunInitJob(p)
    \/ WaitInitJob(p) \/ RemoveInitJob(p) \/ ConfigureTenant(p) \/ CreateContainer(p)
    \/ RunContainer(p) \/ SetRunning(p)

-----------------------------------------------------------------------------
(* delete_tenant, each Docker call of cleanup_tenant a step. *)

\* A tenant that is gone is no error.
GetTenant(p) ==
    /\ At(p, "get")
    /\ \/ Listed(row[I(p)]) /\ Statement(p, "set_deleting", NoRow)
       \/ ~Listed(row[I(p)]) /\ Abort(p)

\* The flushed UPDATE of the status: waits for the lock of the row; a row that is gone
\* is a StaleDataError.
SetDeleting(p) ==
    /\ At(p, "set_deleting")
    /\ \A q \in Requests \ {p} : ~(req[q].pc \in DeletePcs /\ I(q) = I(p))
    /\ \/ Listed(row[I(p)]) /\ Statement(p, "stop_container", NoRow)
       \/ ~Listed(row[I(p)]) /\ Abort(p)

StopContainer(p) ==
    At(p, "stop_container") /\ DockerCall(p, "remove_network") /\ ContainerBecomes(p, "none")

RemoveNetwork(p) ==
    /\ At(p, "remove_network")
    /\ DockerCall(p, "remove_dirs")
    /\ network' = [network EXCEPT ![I(p)] = FALSE]
    /\ UNCHANGED <<home, container, initJob>>

RemoveTenantDirs(p) ==
    /\ At(p, "remove_dirs")
    /\ DockerCall(p, "delete_row")
    /\ home' = [home EXCEPT ![I(p)] = "none"]
    /\ UNCHANGED <<network, container, initJob>>

\* The audit event, DELETE (the memberships and the DEK go with the row) and COMMIT.
DeleteRow(p) == At(p, "delete_row") /\ Commit(p, DeletedRow)

DeleteStep(p) ==
    \/ GetTenant(p) \/ SetDeleting(p) \/ StopContainer(p) \/ RemoveNetwork(p)
    \/ RemoveTenantDirs(p) \/ DeleteRow(p)

-----------------------------------------------------------------------------
(* Around them. *)

\* A call of p raises, or its process is killed.
Fail(p) == p \in Faulty /\ Active(p) /\ Abort(p)

\* The onboarding ends, with or without an openclaw.json and an error, if it ever does;
\* a directory that is gone is not written to.
InitJobEnds(i) ==
    /\ initJob[i] = "running"
    /\ \E state \in {"succeeded", "failed"} : initJob' = [initJob EXCEPT ![i] = state]
    /\ \/ home[i] = "empty" /\ home' = [home EXCEPT ![i] = "onboarded"]
       \/ UNCHANGED home
    /\ UNCHANGED <<drawn, row, network, container, req>>

\* What a request does by itself once it has begun.
Step(p) == CreateStep(p) \/ DeleteStep(p)
Handler(p) ==
    \/ \E s \in Slugs : Provision(p, s) \/ CreateTenant(p, s)
    \/ \E i \in Ids : DeleteTenant(p, i)

Next ==
    \/ \E p \in Requests : Handler(p) \/ Step(p) \/ Fail(p)
    \/ \E i \in Ids : InitJobEnds(i)

\* An installation without tenants.
Init ==
    /\ drawn = 0
    /\ row = [i \in Ids |-> NoRow]
    /\ network = [i \in Ids |-> FALSE]
    /\ home = [i \in Ids |-> "none"]
    /\ container = [i \in Ids |-> "none"]
    /\ initJob = [i \in Ids |-> "none"]
    /\ req = [p \in Requests |-> Idle]

Spec == Init /\ [][Next]_vars

\* PostgreSQL grants locks and asyncio runs ready tasks in turn.  Nothing is assumed of
\* the init job, and no call need ever fail.
FairSpec == Spec /\ \A p \in Requests : SF_vars(Step(p))

-----------------------------------------------------------------------------
(* Properties. *)

\* Every variable has its type, and no committed row has the status "provisioning".
TypeOK ==
    /\ drawn \in 0..MaxTenants
    /\ row \in [Ids -> Rows] /\ \A i \in Ids : row[i].status # "provisioning"
    /\ network \in [Ids -> BOOLEAN]
    /\ home \in [Ids -> Homes]
    /\ container \in [Ids -> ContainerStates]
    /\ initJob \in [Ids -> InitStates]
    /\ req \in [Requests -> RequestRecords]

\* What the caller of provision and of create is told, of the tenant i.
Complete(i) ==
    /\ network[i] /\ row[i].network /\ home[i] # "none" /\ initJob[i] = "none"
    /\ IF row[i].provider
       THEN /\ row[i].status = "running" /\ row[i].dek /\ row[i].admin
            /\ container[i] = "running" /\ home[i] # "onboarded"
       ELSE row[i].status = "stopped" /\ container[i] = "none"

\* A tenant is listed all at once: whatever fails between two of its calls, and whoever
\* asks for the same slug meanwhile, nobody sees a tenant before its network,
\* directories, configuration, membership, container and status agree, nor one that a
\* provision has created and not yet started.
PublishedComplete ==
    [][\A i \in Ids : row[i].status = "absent" /\ row'[i].status # "absent" =>
         /\ Complete(i)'
         /\ \A p \in Requests : I(p) = i /\ req[p].op = "provision" => row'[i].provider]_vars

\* "Delete tenant and all resources" (docs/api.md:138): of a tenant that was
\* provisioned or created and then deleted, after however many failed deletes, Docker
\* and the disk hold nothing, and no init job either, of which cleanup_tenant does not know.
DeletedLeavesNothing ==
    \A i \in Ids : row[i].status = "deleted" =>
        ~network[i] /\ home[i] = "none" /\ container[i] = "none" /\ initJob[i] = "none"

\* The tenants table implements the directory of slugs, however provisions, creations
\* and deletions of a slug race: the two checks of provision_tenant, the SELECT and the
\* unique index, let no slug be listed twice.
Dir == INSTANCE Directory WITH
    Tenants <- Ids,
    listed <- {[slug |-> row[i].slug, tenant |-> i] : i \in {j \in Ids : Listed(row[j])}},
    known <- {i \in Ids : row[i].status # "absent"}
ImplementsDirectory == Dir!Spec

\* Every request ends: those that wait for a slug, whatever becomes of the request that
\* holds it, and those that wait for an init job, which itself may hang for ever.
EveryRequestEnds == \A p \in Requests : Active(p) ~> ~Active(p)

=============================================================================
