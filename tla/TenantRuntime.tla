---------------------------- MODULE TenantRuntime ----------------------------
(***************************************************************************)
(* The runtime of OCTW's tenants: the start, stop, pause, wake and delete  *)
(* handlers of TenantService (orchestrator/tenant_service.py) as they run, *)
(* call by call, against the Docker daemon (orchestrator/docker_orch.py)   *)
(* and the tenants table (db/tables.py).                                   *)
(*                                                                         *)
(* A request is a record whose pc names its next await or Docker call.     *)
(* One step is one such call.  API requests share one event loop and the   *)
(* Docker SDK is synchronous, so an API request keeps the loop from the    *)
(* first Docker call of a section to the last; a CLI command is a process  *)
(* of its own and keeps nothing.  Each request runs in one PostgreSQL      *)
(* transaction (READ COMMITTED): a write that no other transaction can     *)
(* see before the commit that follows it is one step with that commit.     *)
(***************************************************************************)
EXTENDS Integers

CONSTANTS
    Tenants,       \* tenant ids
    ApiRequests,   \* request slots of the one API process
    CliCommands,   \* `octw tenant ...` commands, a process each
    ContainerIds,  \* container ids Docker may hand out
    Faulty,        \* requests in which any call may raise, or that may be killed
    Flaky,         \* tenants whose container may crash and be restarted by Docker
    Others,        \* other transactions that lock rows: none but beside this module
    None           \* Python's None: no container id, no holder, no tenant

Requests == ApiRequests \cup CliCommands

\* Who may hold the lock of a row.
Holders == Requests \cup Others \cup {None}

ASSUME NoneAssumption == None \notin Tenants \cup Requests \cup ContainerIds
ASSUME RequestsAssumption == /\ ApiRequests \cap CliCommands = {}
                             /\ Faulty \subseteq Requests
ASSUME FlakyAssumption == Flaky \subseteq Tenants

VARIABLES
    row,        \* row[t]: the committed row of t in the tenants table
    dek,        \* dek[t]: whether tenant_deks holds a committed row for t
    rowLock,    \* rowLock[t]: the transaction that has updated t's row, uncommitted
    container,  \* container[t]: the container named octw_tenant_<t>
    network,    \* network[t]: whether the bridge network octw_tenant_<t> exists
    dirs,       \* dirs[t]: whether the directories of t exist
    loop,       \* the API request inside a synchronous section, or None
    req         \* req[p]: the progress of request p

db == <<row, dek, rowLock>>
docker == <<container, network, dirs>>
vars == <<row, dek, rowLock, container, network, dirs, loop, req>>

-----------------------------------------------------------------------------
(* Data. *)

Statuses == {"absent", "stopped", "running", "paused"}
\* idle: how long ago last_activity_at is; below settings.idle_pause_seconds (0),
\* beyond it (1), beyond settings.idle_stop_seconds (2).
RowRecords == [status : Statuses, cid : ContainerIds \cup {None}, idle : 0..2]
NoRow == [status |-> "absent", cid |-> None, idle |-> 0]

ContainerStates ==
    {"not_found", "created", "running", "paused", "exited", "restarting"}
Containers == [id : ContainerIds \cup {None}, state : ContainerStates]
NoContainer == [id |-> None, state |-> "not_found"]

Ops == {"start", "stop", "pause", "wake", "delete"}

\* The first await or Docker call of each handler.
Entry == [start |-> "get_tenant", stop |-> "stop_inspect",
          pause |-> "pause_inspect", wake |-> "wake_inspect",
          delete |-> "delete_get"]

\* The pcs at which a request holds a container object it has fetched or created.
HandlePcs == {"start_unpause", "start_remove", "run_container", "set_running",
              "stop_container", "remove_container", "pause_container",
              "unpause_container"}

\* Mutant of SyncPcs: Docker calls moved off the event loop, to threads.
NoSyncPcs == {}

\* The pcs reached without an await from the call before: the event loop runs
\* nothing else in between.
SyncPcs == {"start_inspect", "start_unpause", "start_remove", "create_network",
            "create_container", "run_container", "stop_container",
            "remove_container", "pause_container", "unpause_inspect",
            "unpause_container", "remove_network", "remove_dirs"}

\* The pcs reached by an await.
AwaitPcs == {"get_tenant", "get_secrets", "insert_dek", "create_dirs",
             "set_running", "stop_inspect", "set_stopped", "pause_inspect",
             "set_paused", "wake_inspect", "wake_touch", "wake_update",
             "delete_get", "set_deleting", "delete_row"}

\* cid: the id of the container object held; newDek: a DEK row is inserted and not
\* committed; alone: no other request on the same tenant, and no crash of its
\* container, since the request began (an auxiliary field: no action reads it).
RequestRecords ==
    [op : Ops \cup {"none"}, tenant : Tenants \cup {None},
     pc : SyncPcs \cup AwaitPcs \cup {"idle"}, cid : ContainerIds \cup {None},
     newDek : BOOLEAN, alone : BOOLEAN, result : {"none", "ok", "error"}]
Idle(result) ==
    [op |-> "none", tenant |-> None, pc |-> "idle", cid |-> None,
     newDek |-> FALSE, alone |-> FALSE, result |-> result]
Begun(op, t, alone) ==
    [op |-> op, tenant |-> t, pc |-> Entry[op], cid |-> None,
     newDek |-> FALSE, alone |-> alone, result |-> "none"]

T(p) == req[p].tenant
Active(p) == req[p].pc # "idle"
Exists(t) == row[t].status # "absent"
State(p) == container[T(p)].state
Gone(p) == container[T(p)].id # req[p].cid  \* Docker answers 404 for p's object

-----------------------------------------------------------------------------
(* Steps of a request. *)

\* p is the code that runs next: an API request needs the event loop.
Runs(p) == p \in ApiRequests => loop \in {None, p}
At(p, pc) == req[p].pc = pc /\ Runs(p)

Become(p, r) ==
    /\ req' = [req EXCEPT ![p] = r]
    /\ loop' = IF p \notin ApiRequests THEN loop
               ELSE IF r.pc \in SyncPcs THEN p ELSE None

Goto(p, pc) ==
    Become(p, [req[p] EXCEPT !.pc = pc, !.cid = IF pc \in HandlePcs THEN @ ELSE None])

\* Mutant of EndTransaction: a failing handler never gives its session back.
EndTransactionLeakingSession(p, result) ==
    /\ Become(p, Idle(result))
    /\ rowLock' = [t \in Tenants |-> IF rowLock[t] = p /\ result = "ok" THEN None
                                     ELSE rowLock[t]]

\* The transaction ends: its row lock goes with it.
EndTransaction(p, result) ==
    /\ Become(p, Idle(result))
    /\ rowLock' = [t \in Tenants |-> IF rowLock[t] = p THEN None ELSE rowLock[t]]

\* An exception leaves the handler: get_session closes the session uncommitted.
Abort(p) == EndTransaction(p, "error") /\ UNCHANGED <<row, dek>>

\* UPDATE tenants ... WHERE tenant_id = t and COMMIT: a row that is gone matches
\* nothing, and the statement waits for another transaction's row lock.
CommitUpdate(p, r) ==
    /\ rowLock[T(p)] = None
    /\ row' = IF Exists(T(p)) THEN [row EXCEPT ![T(p)] = r] ELSE row
    /\ dek' = [dek EXCEPT ![T(p)] = @ \/ req[p].newDek]
    /\ EndTransaction(p, "ok")
    /\ UNCHANGED docker

\* containers.get at pc, and a branch on what it returns.
Fetch(p, pc, next) ==
    /\ At(p, pc)
    /\ Become(p, [req[p] EXCEPT
           !.pc = next,
           !.cid = IF next \in HandlePcs THEN container[T(p)].id ELSE None])
    /\ UNCHANGED <<db, docker>>

\* A call on the container object held: NotFound is caught and leads to gonePc;
\* in the accepted states the container becomes c; in any other Docker refuses.
HandleCall(p, pc, gonePc, accepted, c, next) ==
    /\ At(p, pc)
    /\ \/ Gone(p) /\ Goto(p, gonePc) /\ UNCHANGED <<db, container>>
       \/ /\ ~Gone(p) /\ State(p) \in accepted
          /\ container' = [container EXCEPT ![T(p)] = c]
          /\ Goto(p, next) /\ UNCHANGED db
       \/ ~Gone(p) /\ State(p) \notin accepted /\ Abort(p) /\ UNCHANGED container
    /\ UNCHANGED <<network, dirs>>

\* The container p holds, in another state.
InState(p, state) == [id |-> req[p].cid, state |-> state]

Begin(p, op, t) ==
    /\ ~Active(p)
    /\ Runs(p)
    /\ req' = [q \in Requests |->
                 IF q = p
                 THEN Begun(op, t, \A o \in Requests \ {p} : T(o) # t)
                 ELSE [req[q] EXCEPT !.alone = @ /\ T(q) # t]]
    /\ UNCHANGED <<db, docker, loop>>

-----------------------------------------------------------------------------
(* start_tenant and DockerOrchestrator.start_container. *)

GetTenant(p) ==
    /\ At(p, "get_tenant")
    /\ \/ Exists(T(p)) /\ Goto(p, "get_secrets") /\ UNCHANGED db
       \/ ~Exists(T(p)) /\ Abort(p)
    /\ UNCHANGED docker

\* get_decrypted_secrets reads the tenant's DEK; the first read makes one.
GetSecrets(p) ==
    /\ At(p, "get_secrets")
    /\ Goto(p, IF dek[T(p)] THEN "create_dirs" ELSE "insert_dek")
    /\ UNCHANGED <<db, docker>>

\* INSERT INTO tenant_deks: waits for an uncommitted duplicate, then fails if the
\* key or the tenant's row (foreign key) says so.  Until it ends the transaction
\* holds a FOR KEY SHARE lock on the tenant's row.
InsertDek(p) ==
    /\ At(p, "insert_dek")
    /\ \A q \in Requests \ {p} : T(q) = T(p) => ~req[q].newDek
    /\ \/ /\ Exists(T(p)) /\ ~dek[T(p)]
          /\ Become(p, [req[p] EXCEPT !.newDek = TRUE, !.pc = "create_dirs"])
          /\ UNCHANGED db
       \/ ~(Exists(T(p)) /\ ~dek[T(p)]) /\ Abort(p)
    /\ UNCHANGED docker

CreateTenantDirs(p) ==
    /\ At(p, "create_dirs")
    /\ dirs' = [dirs EXCEPT ![T(p)] = TRUE]
    /\ Goto(p, "start_inspect")
    /\ UNCHANGED <<db, container, network>>

\* Mutants of StartCase: an exited container taken for a running one, and a paused
\* container removed and created again.
StartCaseTrustingExited ==
    [not_found |-> "create_network", running |-> "set_running",
     paused |-> "start_unpause", exited |-> "set_running",
     created |-> "start_remove", restarting |-> "start_remove"]
StartCaseReplacingPaused ==
    [not_found |-> "create_network", running |-> "set_running",
     paused |-> "start_remove", exited |-> "start_remove",
     created |-> "start_remove", restarting |-> "start_remove"]

\* What start_container does about the container it finds under the name.
StartCase == [not_found |-> "create_network", running |-> "set_running",
              paused |-> "start_unpause", exited |-> "start_remove",
              created |-> "start_remove", restarting |-> "start_remove"]

StartInspect(p) == Fetch(p, "start_inspect", StartCase[State(p)])

StartUnpause(p) ==
    HandleCall(p, "start_unpause", "create_network",
               {"paused"}, InState(p, "running"), "set_running")

\* existing.remove(), with force unless it was seen exited.
StartRemove(p) ==
    HandleCall(p, "start_remove", "create_network",
               ContainerStates, NoContainer, "create_network")

CreateNetwork(p) ==
    /\ At(p, "create_network")
    /\ network' = [network EXCEPT ![T(p)] = TRUE]
    /\ Goto(p, "create_container")
    /\ UNCHANGED <<db, container, dirs>>

UsedIds == {container[t].id : t \in Tenants} \cup {row[t].cid : t \in Tenants}
           \cup {req[p].cid : p \in Requests}

\* containers.run, first half: Docker creates the container, unless the name is
\* taken or a bind mount has no source directory.
CreateContainer(p) ==
    /\ At(p, "create_container")
    /\ \/ /\ container[T(p)] = NoContainer /\ dirs[T(p)]
          /\ \E id \in ContainerIds \ UsedIds :
               /\ container' = [container EXCEPT ![T(p)] = [id |-> id, state |-> "created"]]
               /\ Become(p, [req[p] EXCEPT !.pc = "run_container", !.cid = id])
          /\ UNCHANGED db
       \/ (container[T(p)] # NoContainer \/ ~dirs[T(p)]) /\ Abort(p) /\ UNCHANGED container
    /\ UNCHANGED <<network, dirs>>

\* containers.run, second half: Docker starts what it created, unless it has been
\* removed or has no network to join; then it is left behind as created.
RunContainer(p) ==
    /\ At(p, "run_container")
    /\ \/ /\ ~Gone(p) /\ network[T(p)]
          /\ container' = [container EXCEPT ![T(p)] = InState(p, "running")]
          /\ Goto(p, "set_running") /\ UNCHANGED db
       \/ (Gone(p) \/ ~network[T(p)]) /\ Abort(p) /\ UNCHANGED container
    /\ UNCHANGED <<network, dirs>>

SetRunning(p) ==
    /\ At(p, "set_running")
    /\ CommitUpdate(p, [status |-> "running", cid |-> req[p].cid, idle |-> 0])

-----------------------------------------------------------------------------
(* stop_tenant and DockerOrchestrator.stop_container, which delete_tenant       *)
(* calls too.                                                                   *)

\* What follows stop_container in the handler of p.
Stopped(p) == IF req[p].op = "delete" THEN "remove_network" ELSE "set_stopped"

\* Mutant of StopInspect: it takes what runs and leaves the rest.
StopInspectRunning(p) ==
    Fetch(p, "stop_inspect", IF State(p) = "running" THEN "stop_container" ELSE Stopped(p))

StopInspect(p) ==
    Fetch(p, "stop_inspect",
          IF container[T(p)] = NoContainer THEN Stopped(p) ELSE "stop_container")

\* container.stop(): a container that never ran stays as it is.
StopContainer(p) ==
    HandleCall(p, "stop_container", Stopped(p), ContainerStates,
               InState(p, IF State(p) = "created" THEN "created" ELSE "exited"),
               "remove_container")

\* container.remove(), without force: Docker refuses if it was started meanwhile.
RemoveContainer(p) ==
    HandleCall(p, "remove_container", Stopped(p),
               {"exited", "created"}, NoContainer, Stopped(p))

SetStopped(p) ==
    /\ At(p, "set_stopped")
    /\ CommitUpdate(p, [row[T(p)] EXCEPT !.status = "stopped", !.cid = None])

-----------------------------------------------------------------------------
(* pause_tenant and DockerOrchestrator.pause_container. *)

PauseInspect(p) ==
    Fetch(p, "pause_inspect",
          IF State(p) = "running" THEN "pause_container" ELSE "set_paused")

PauseContainer(p) ==
    HandleCall(p, "pause_container", "set_paused",
               {"running"}, InState(p, "paused"), "set_paused")

SetPaused(p) ==
    /\ At(p, "set_paused")
    /\ CommitUpdate(p, [row[T(p)] EXCEPT !.status = "paused"])

-----------------------------------------------------------------------------
(* wake_tenant and DockerOrchestrator.unpause_container. *)

WakeInspect(p) ==
    Fetch(p, "wake_inspect", CASE State(p) = "running" -> "wake_touch"
                               [] State(p) = "paused" -> "unpause_inspect"
                               [] OTHER -> "get_tenant")

\* unpause_container fetches the container a second time.
UnpauseInspect(p) ==
    Fetch(p, "unpause_inspect",
          IF State(p) = "paused" THEN "unpause_container" ELSE "wake_update")

UnpauseContainer(p) ==
    HandleCall(p, "unpause_container", "wake_update",
               {"paused"}, InState(p, "running"), "wake_update")

\* Both branches end by reading the row back: its absence is an AttributeError.
WakeCommit(p, r) ==
    \/ Exists(T(p)) /\ CommitUpdate(p, r)
    \/ ~Exists(T(p)) /\ Abort(p) /\ UNCHANGED docker

WakeTouch(p) ==
    At(p, "wake_touch") /\ WakeCommit(p, [row[T(p)] EXCEPT !.idle = 0])

WakeUpdate(p) ==
    /\ At(p, "wake_update")
    /\ WakeCommit(p, [status |-> "running", cid |-> row[T(p)].cid, idle |-> 0])

-----------------------------------------------------------------------------
(* delete_tenant; cleanup_tenant is stop_container, remove_network and         *)
(* remove_tenant_dirs in one synchronous section.                              *)

DeleteGet(p) ==
    /\ At(p, "delete_get")
    /\ \/ Exists(T(p)) /\ Goto(p, "set_deleting") /\ UNCHANGED db
       \/ ~Exists(T(p)) /\ EndTransaction(p, "ok") /\ UNCHANGED <<row, dek>>
    /\ UNCHANGED docker

\* Mutant of SetDeleting: the DELETING status is committed, not only flushed.
SetDeletingCommitted(p) ==
    /\ At(p, "set_deleting")
    /\ Exists(T(p)) /\ rowLock[T(p)] = None
    /\ row' = [row EXCEPT ![T(p)].status = "deleting"]
    /\ Goto(p, "stop_inspect")
    /\ UNCHANGED <<dek, rowLock, docker>>

\* The flushed DELETING status is never visible to others; its row lock is.  The
\* flush of a row that has been deleted raises StaleDataError.
SetDeleting(p) ==
    /\ At(p, "set_deleting")
    /\ rowLock[T(p)] = None
    /\ \/ /\ Exists(T(p))
          /\ rowLock' = [rowLock EXCEPT ![T(p)] = p]
          /\ Goto(p, "stop_inspect") /\ UNCHANGED <<row, dek>>
       \/ ~Exists(T(p)) /\ Abort(p)
    /\ UNCHANGED docker

\* Docker refuses to remove a network that a running container is attached to.
RemoveNetwork(p) ==
    /\ At(p, "remove_network")
    /\ LET attached == network[T(p)] /\ State(p) \in {"running", "paused"} IN
       \/ /\ ~attached
          /\ network' = [network EXCEPT ![T(p)] = FALSE]
          /\ Goto(p, "remove_dirs") /\ UNCHANGED db
       \/ attached /\ Abort(p) /\ UNCHANGED network
    /\ UNCHANGED <<container, dirs>>

RemoveTenantDirs(p) ==
    /\ At(p, "remove_dirs")
    /\ dirs' = [dirs EXCEPT ![T(p)] = FALSE]
    /\ Goto(p, "delete_row")
    /\ UNCHANGED <<db, container, network>>

\* DELETE and COMMIT; the DEK goes by ON DELETE CASCADE.  The DELETE waits for the
\* FOR KEY SHARE lock of a transaction that has inserted a DEK.
DeleteRow(p) ==
    /\ At(p, "delete_row")
    /\ \A q \in Requests : T(q) = T(p) => ~req[q].newDek
    /\ row' = [row EXCEPT ![T(p)] = NoRow]
    /\ dek' = [dek EXCEPT ![T(p)] = FALSE]
    /\ EndTransaction(p, "ok")
    /\ UNCHANGED docker

-----------------------------------------------------------------------------
(* Failures and the environment. *)

\* A Docker or database call of p raises, or its process is killed.
Fail(p) ==
    /\ p \in Faulty /\ Active(p) /\ Runs(p)
    /\ Abort(p)
    /\ UNCHANGED docker

\* The pcs whose statement UPDATEs the tenant's row, and those whose statement needs
\* that no other transaction has a DEK of the tenant to commit.
UpdatePcs == {"set_running", "set_stopped", "set_paused", "wake_touch", "wake_update",
              "set_deleting"}
KeyPcs == {"delete_row", "insert_dek"}

\* p's statement waits for a lock that q's transaction holds.
WaitsFor(p, q) ==
    /\ Active(p) /\ Active(q) /\ p # q /\ T(p) = T(q)
    /\ \/ req[p].pc \in UpdatePcs /\ rowLock[T(p)] = q
       \/ req[p].pc \in KeyPcs /\ req[q].newDek

\* PostgreSQL aborts one of the transactions that wait for each other.
DeadlockAbort(p) ==
    /\ Runs(p)
    /\ \E q \in Requests : WaitsFor(p, q) /\ WaitsFor(q, p)
    /\ Abort(p)
    /\ UNCHANGED docker

\* The container process dies; its restart policy (unless-stopped) makes Docker
\* try again.
ContainerCrash(t) ==
    /\ t \in Flaky /\ container[t].state = "running"
    /\ container' = [container EXCEPT ![t].state = "restarting"]
    /\ req' = [q \in Requests |-> [req[q] EXCEPT !.alone = @ /\ T(q) # t]]
    /\ UNCHANGED <<db, network, dirs, loop>>

ContainerRestart(t) ==
    /\ container[t].state = "restarting"
    /\ container' = [container EXCEPT ![t].state = "running"]
    /\ req' = [q \in Requests |-> [req[q] EXCEPT !.alone = @ /\ T(q) # t]]
    /\ UNCHANGED <<db, network, dirs, loop>>

-----------------------------------------------------------------------------

StartStep(p) ==
    \/ GetTenant(p) \/ GetSecrets(p) \/ InsertDek(p) \/ CreateTenantDirs(p)
    \/ StartInspect(p) \/ StartUnpause(p) \/ StartRemove(p) \/ CreateNetwork(p)
    \/ CreateContainer(p) \/ RunContainer(p) \/ SetRunning(p)
StopStep(p) ==
    StopInspect(p) \/ StopContainer(p) \/ RemoveContainer(p) \/ SetStopped(p)
PauseStep(p) == PauseInspect(p) \/ PauseContainer(p) \/ SetPaused(p)
WakeStep(p) ==
    \/ WakeInspect(p) \/ UnpauseInspect(p) \/ UnpauseContainer(p)
    \/ WakeTouch(p) \/ WakeUpdate(p)
DeleteStep(p) ==
    \/ DeleteGet(p) \/ SetDeleting(p) \/ RemoveNetwork(p) \/ RemoveTenantDirs(p)
    \/ DeleteRow(p)

\* What a request does by itself once it has begun.
Step(p) ==
    StartStep(p) \/ StopStep(p) \/ PauseStep(p) \/ WakeStep(p) \/ DeleteStep(p)
    \/ DeadlockAbort(p)

Next ==
    \/ \E p \in Requests : Step(p) \/ Fail(p) \/ \E op \in Ops, t \in Tenants : Begin(p, op, t)
    \/ \E t \in Tenants : ContainerCrash(t) \/ ContainerRestart(t)

\* create_tenant leaves a stopped row, a network and the directories; a DEK is
\* there if a secret has been stored.
Init ==
    /\ row = [t \in Tenants |-> [status |-> "stopped", cid |-> None, idle |-> 0]]
    /\ dek \in [Tenants -> BOOLEAN]
    /\ rowLock = [t \in Tenants |-> None]
    /\ container = [t \in Tenants |-> NoContainer]
    /\ network = [t \in Tenants |-> TRUE]
    /\ dirs = [t \in Tenants |-> TRUE]
    /\ loop = None
    /\ req = [p \in Requests |-> Idle("none")]

Spec == Init /\ [][Next]_vars

\* PostgreSQL grants row locks and asyncio runs ready tasks first come first
\* served: a request whose next step is enabled again and again takes it.
Fairness == \A p \in Requests : SF_vars(Step(p))
FairSpec == Spec /\ Fairness

-----------------------------------------------------------------------------
(* Properties. *)

\* Every variable has its type; in particular DELETING and PROVISIONING are never
\* the committed status of a row.
TypeOK ==
    /\ row \in [Tenants -> RowRecords]
    /\ dek \in [Tenants -> BOOLEAN]
    /\ rowLock \in [Tenants -> Holders]
    /\ container \in [Tenants -> Containers]
    /\ network \in [Tenants -> BOOLEAN]
    /\ dirs \in [Tenants -> BOOLEAN]
    /\ loop \in ApiRequests \cup {None}
    /\ req \in [Requests -> RequestRecords]

Commits(p) == Active(p) /\ req'[p].pc = "idle" /\ req'[p].result = "ok"

\* What each handler is to leave behind.
Delivered(op, t) ==
    CASE op = "start" -> /\ container[t].state = "running"
                         /\ row[t] = [status |-> "running", cid |-> container[t].id, idle |-> 0]
      [] op = "stop" -> container[t] = NoContainer /\ row[t].status \in {"stopped", "absent"}
      [] op = "pause" -> /\ container[t].state # "running"
                         /\ row[t].status \in {"paused", "absent"}
      [] op = "wake" -> container[t].state = "running" /\ Exists(t) /\ row[t].idle = 0
      [] op = "delete" -> /\ ~Exists(t) /\ ~dek[t]
                          /\ container[t] = NoContainer /\ ~network[t] /\ ~dirs[t]

\* A request that succeeds and that met no other request on its tenant delivers
\* what it promises, whatever mismatch of row, container, network and directories
\* earlier races, failures and half done requests have left.  (A delete that finds
\* no row returns at once and is exempt: delete_tenant lines 133-135.)
AloneDelivers ==
    [][\A p \in Requests, op \in Ops, t \in Tenants :
          /\ Commits(p) /\ req[p].alone /\ req[p].pc # "delete_get"
          /\ req[p].op = op /\ T(p) = t
          => Delivered(op, t)']_vars

\* While only the API process drives Docker, no request meets a container other
\* than the one it has looked at: every Docker call of a synchronous section finds
\* what the section's first calls saw, so no name conflict, no unpause of a running
\* container and no removal of a live one can happen, however many requests start
\* the tenant at the same time (pause_container alone may find it crashed).
NoDockerConflict ==
    \A p \in ApiRequests :
        /\ req[p].pc \in HandlePcs \cap SyncPcs => ~Gone(p)
        /\ req[p].pc \in {"start_unpause", "unpause_container"} => State(p) = "paused"
        /\ req[p].pc = "remove_container" => State(p) \in {"exited", "created"}
        /\ req[p].pc \in {"create_network", "create_container"} =>
               container[T(p)] = NoContainer /\ dirs[T(p)]
        /\ req[p].pc = "run_container" => State(p) = "created" /\ network[T(p)]

\* A paused container keeps its memory (plans/octw-spec.md:378) until it is unpaused
\* in place or a stop or a delete takes it: no start or wake replaces it.
PauseRetainsMemory ==
    [][\A t \in Tenants : container[t].state = "paused" =>
          \/ container'[t].id = container[t].id /\ container'[t].state \in {"paused", "running"}
          \/ \E p \in Requests : /\ T(p) = t /\ req[p].op \in {"stop", "delete"}
                                 /\ req'[p] # req[p]]_vars

\* p's statement cannot be executed now.
Blocked(p) ==
    \/ req[p].pc \in UpdatePcs /\ rowLock[T(p)] # None
    \/ req[p].pc \in KeyPcs /\ \E q \in Requests \ {p} : T(q) = T(p) /\ req[q].newDek

\* Its statement runs, or PostgreSQL finds it in a deadlock and may end it.
Unstuck(p) == Blocked(p) => \E q \in Requests : WaitsFor(p, q) /\ WaitsFor(q, p)

\* Nobody waits for ever: who cannot go on waits for the lock of a live transaction,
\* which is unstuck itself or waits for one that is; no lock outlives its transaction
\* and no more than two wait for each other.  The request that keeps the event loop
\* waits for no lock, so the holder of a lock gets the loop in the end.
WaitsEnd ==
    /\ \A p \in Requests : Blocked(p) =>
           \E q \in Requests :
               /\ WaitsFor(p, q)
               /\ Unstuck(q) \/ \E r \in Requests : WaitsFor(q, r) /\ Unstuck(r)
    /\ loop # None => Active(loop) /\ ~Blocked(loop)

\* Every request ends, whatever row locks, key locks and event loop it waits for.
EveryRequestCompletes == \A p \in Requests : Active(p) ~> ~Active(p)

Quiescent == \A p \in Requests : ~Active(p)

\* "Delete tenant and all resources" (docs/api.md:138): once no request is running,
\* a tenant without a row has no container, network or directories.
DeletedTenantLeavesNothing ==
    Quiescent => \A t \in Tenants : ~Exists(t) =>
        container[t] = NoContainer /\ ~network[t] /\ ~dirs[t]

=============================================================================
