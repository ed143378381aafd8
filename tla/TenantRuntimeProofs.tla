------------------------- MODULE TenantRuntimeProofs -------------------------
(***************************************************************************)
(* Theorems about TenantRuntime, for any number of tenants, API requests,  *)
(* CLI commands and container ids.                                         *)
(***************************************************************************)
EXTENDS TenantRuntime, TLAPS

-----------------------------------------------------------------------------
(* Types. *)

Pcs == SyncPcs \cup AwaitPcs

\* TypeOK is inductive together with: a request at work has a tenant.
Typed == TypeOK /\ \A p \in Requests : Active(p) => T(p) \in Tenants

SameRequest(p, r) ==
    /\ r.tenant = T(p) /\ T(p) \in Tenants
    /\ r.op = req[p].op /\ r.alone = req[p].alone

\* What a step of p does to the request records and to the event loop.
Moves(p) ==
    /\ req' = [req EXCEPT ![p] = req'[p]]
    /\ req'[p] \in RequestRecords
    /\ IF req'[p].pc = "idle" THEN ~req'[p].alone /\ req'[p].tenant = None
       ELSE SameRequest(p, req'[p])
    /\ loop' \in ApiRequests \cup {None}
    /\ loop' = IF p \notin ApiRequests THEN loop
               ELSE IF req'[p].pc \in SyncPcs THEN p ELSE None

LEMMA BecomeMoves ==
    ASSUME Typed, NEW p \in Requests, NEW r \in RequestRecords,
           IF r.pc = "idle" THEN ~r.alone /\ r.tenant = None ELSE SameRequest(p, r),
           Become(p, r)
    PROVE  Moves(p) /\ req'[p] = r
BY DEF Typed, TypeOK, Become, Moves

LEMMA GotoMoves ==
    ASSUME Typed, NEW p \in Requests, Active(p), NEW pc \in Pcs, Goto(p, pc)
    PROVE  /\ Moves(p) /\ req'[p].pc = pc
           /\ req'[p].cid = IF pc \in HandlePcs THEN req[p].cid ELSE None
<1> DEFINE r == [req[p] EXCEPT !.pc = pc, !.cid = IF pc \in HandlePcs THEN @ ELSE None]
<1>0. req[p] \in RequestRecords /\ req[p].tenant \in Tenants
  BY DEF Typed, TypeOK, T
<1>1. r \in RequestRecords
  BY <1>0 DEF RequestRecords, Pcs
<1>2. Become(p, r)
  BY DEF Goto
<1>3. r.pc # "idle"
  BY <1>0 DEF Pcs, SyncPcs, AwaitPcs, RequestRecords
<1>4. SameRequest(p, r)
  BY <1>0 DEF SameRequest, T, RequestRecords
<1>5. r.pc = pc /\ r.cid = IF pc \in HandlePcs THEN req[p].cid ELSE None
  BY <1>0 DEF RequestRecords
<1>6. Moves(p) /\ req'[p] = r
  BY <1>1, <1>2, <1>3, <1>4, BecomeMoves
<1> QED BY <1>5, <1>6

LEMMA EndTransactionMoves ==
    ASSUME Typed, NEW p \in Requests, NEW result \in {"ok", "error"},
           EndTransaction(p, result)
    PROVE  /\ Moves(p) /\ req'[p] = Idle(result)
           /\ rowLock' \in [Tenants -> Holders]
<1>1. /\ Idle(result) \in RequestRecords /\ Idle(result).pc = "idle"
      /\ ~Idle(result).alone /\ Idle(result).tenant = None
  BY DEF Idle, RequestRecords
<1> QED BY <1>1, BecomeMoves DEF EndTransaction, Typed, TypeOK, Holders

\* What a step of p does to the database and to Docker: the types stay, and only
\* p's own tenant is touched.
Local(p) ==
    /\ row' \in [Tenants -> RowRecords] /\ dek' \in [Tenants -> BOOLEAN]
    /\ rowLock' \in [Tenants -> Holders]
    /\ container' \in [Tenants -> Containers]
    /\ network' \in [Tenants -> BOOLEAN] /\ dirs' \in [Tenants -> BOOLEAN]
    /\ \A t \in Tenants \ {T(p)} :
          /\ row'[t] = row[t] /\ dek'[t] = dek[t] /\ container'[t] = container[t]
          /\ network'[t] = network[t] /\ dirs'[t] = dirs[t]

Steps(p) == Moves(p) /\ Local(p)

LEMMA AbortSteps ==
    ASSUME Typed, NEW p \in Requests, Abort(p),
           UNCHANGED docker
    PROVE  Steps(p) /\ req'[p] = Idle("error") /\ UNCHANGED <<row, dek, docker>>
<1>1. EndTransaction(p, "error") /\ UNCHANGED <<row, dek>>
  BY DEF Abort
<1> QED BY <1>1, EndTransactionMoves DEF Steps, Local, Typed, TypeOK, docker

LEMMA CommitUpdateSteps ==
    ASSUME Typed, NEW p \in Requests, Active(p), NEW r \in RowRecords, CommitUpdate(p, r)
    PROVE  /\ Steps(p) /\ req'[p] = Idle("ok") /\ UNCHANGED docker
           /\ row'[T(p)] = IF Exists(T(p)) THEN r ELSE row[T(p)]
<1>1. EndTransaction(p, "ok")
  BY DEF CommitUpdate
<1>2. Moves(p) /\ req'[p] = Idle("ok") /\ rowLock' \in [Tenants -> Holders]
  BY <1>1, EndTransactionMoves
<1>3. T(p) \in Tenants /\ req[p].newDek \in BOOLEAN
  BY DEF Typed, TypeOK, RequestRecords
<1>4. row' \in [Tenants -> RowRecords] /\ dek' \in [Tenants -> BOOLEAN]
  BY <1>3 DEF CommitUpdate, Typed, TypeOK
<1> QED BY <1>2, <1>3, <1>4 DEF Steps, Local, Typed, TypeOK, docker, CommitUpdate

LEMMA FetchSteps ==
    ASSUME Typed, NEW p \in Requests, NEW pc, NEW next \in Pcs, pc # "idle",
           Fetch(p, pc, next)
    PROVE  /\ Steps(p) /\ UNCHANGED <<db, docker>> /\ req'[p].pc = next
           /\ req'[p].cid = IF next \in HandlePcs THEN container[T(p)].id ELSE None
<1> DEFINE r == [req[p] EXCEPT
             !.pc = next,
             !.cid = IF next \in HandlePcs THEN container[T(p)].id ELSE None]
<1>1. req[p] \in RequestRecords /\ req[p].tenant \in Tenants
  BY DEF Typed, TypeOK, T, Active, Fetch, At
<1>2. container[T(p)].id \in ContainerIds \cup {None}
  BY <1>1 DEF Typed, TypeOK, T, Containers
<1>3. r \in RequestRecords /\ SameRequest(p, r)
  BY <1>1, <1>2 DEF RequestRecords, Pcs, SameRequest, T
<1>4. Become(p, r)
  BY DEF Fetch
<1>5. r.pc # "idle"
  BY <1>1 DEF Pcs, SyncPcs, AwaitPcs, RequestRecords
<1>6. Moves(p) /\ req'[p] = r
  BY <1>3, <1>4, <1>5, BecomeMoves
<1>7. UNCHANGED <<db, docker>>
  BY DEF Fetch
<1>8. r.pc = next /\ r.cid = IF next \in HandlePcs THEN container[T(p)].id ELSE None
  BY <1>1 DEF RequestRecords
<1> QED BY <1>6, <1>7, <1>8 DEF Steps, Local, Typed, TypeOK, db, docker

LEMMA HandleCallSteps ==
    ASSUME Typed, NEW p \in Requests, NEW pc, pc # "idle", NEW gonePc \in Pcs,
           NEW accepted, NEW c \in Containers, NEW next \in Pcs,
           HandleCall(p, pc, gonePc, accepted, c, next)
    PROVE  Steps(p)
<1>1. Active(p) /\ T(p) \in Tenants
  BY DEF Typed, Active, HandleCall, At
<1>2. container' \in [Tenants -> Containers]
  BY <1>1 DEF HandleCall, Typed, TypeOK
<1>3. \A t \in Tenants \ {T(p)} : container'[t] = container[t]
  BY <1>1 DEF HandleCall, Typed, TypeOK
<1>4. CASE Goto(p, gonePc) /\ UNCHANGED db
  BY <1>1, <1>2, <1>3, <1>4, GotoMoves DEF Steps, Local, Typed, TypeOK, db, HandleCall
<1>5. CASE Goto(p, next) /\ UNCHANGED db
  BY <1>1, <1>2, <1>3, <1>5, GotoMoves DEF Steps, Local, Typed, TypeOK, db, HandleCall
<1>6. CASE Abort(p) /\ UNCHANGED container
  BY <1>6, AbortSteps DEF HandleCall, Typed, TypeOK, docker
<1> QED BY <1>4, <1>5, <1>6 DEF HandleCall

LEMMA PcsFacts == HandlePcs \subseteq Pcs /\ SyncPcs \subseteq Pcs /\ AwaitPcs \subseteq Pcs
BY DEF Pcs, HandlePcs, SyncPcs, AwaitPcs

LEMMA ActiveFacts ==
    ASSUME Typed, NEW p \in Requests, Active(p)
    PROVE  /\ T(p) \in Tenants /\ req[p] \in RequestRecords
           /\ container[T(p)] \in Containers /\ row[T(p)] \in RowRecords
           /\ State(p) \in ContainerStates
           /\ req[p].cid \in ContainerIds \cup {None}
           /\ Stopped(p) \in Pcs
<1>1. T(p) \in Tenants /\ req[p] \in RequestRecords
  BY DEF Typed, TypeOK
<1>2. container[T(p)] \in Containers /\ row[T(p)] \in RowRecords
  BY <1>1 DEF Typed, TypeOK
<1>3. State(p) \in ContainerStates
  BY <1>2 DEF State, Containers
<1>4. req[p].cid \in ContainerIds \cup {None}
  BY <1>1 DEF RequestRecords
<1>5. Stopped(p) \in Pcs
  BY DEF Stopped, Pcs, SyncPcs, AwaitPcs
<1> QED BY <1>1, <1>2, <1>3, <1>4, <1>5

LEMMA StartSteps ==
    ASSUME Typed, NEW p \in Requests, Active(p), StartStep(p)
    PROVE  Steps(p)
<1> USE ActiveFacts, PcsFacts
<1>1. CASE GetTenant(p)
  <2>1. "get_secrets" \in Pcs
    BY DEF Pcs, AwaitPcs
  <2>2. CASE Goto(p, "get_secrets") /\ UNCHANGED db
    BY <1>1, <2>1, <2>2, GotoMoves DEF GetTenant, Steps, Local, Typed, TypeOK, db, docker
  <2>3. CASE Abort(p)
    BY <1>1, <2>3, AbortSteps DEF GetTenant
  <2> QED BY <1>1, <2>2, <2>3 DEF GetTenant
<1>2. CASE GetSecrets(p)
  <2>1. (IF dek[T(p)] THEN "create_dirs" ELSE "insert_dek") \in Pcs
    BY DEF Pcs, AwaitPcs
  <2> QED BY <1>2, <2>1, GotoMoves DEF GetSecrets, Steps, Local, Typed, TypeOK, db, docker
<1>3. CASE InsertDek(p)
  <2> DEFINE r == [req[p] EXCEPT !.newDek = TRUE, !.pc = "create_dirs"]
  <2>1. r \in RequestRecords /\ SameRequest(p, r) /\ r.pc # "idle"
    BY DEF RequestRecords, AwaitPcs, T, SameRequest
  <2>2. CASE Become(p, r) /\ UNCHANGED db
    BY <1>3, <2>1, <2>2, BecomeMoves DEF InsertDek, Steps, Local, Typed, TypeOK, db, docker
  <2>3. CASE Abort(p)
    BY <1>3, <2>3, AbortSteps DEF InsertDek
  <2> QED BY <1>3, <2>2, <2>3 DEF InsertDek
<1>4. CASE CreateTenantDirs(p)
  <2>1. "start_inspect" \in Pcs
    BY DEF Pcs, SyncPcs
  <2>2. Moves(p)
    BY <1>4, <2>1, GotoMoves DEF CreateTenantDirs
  <2> QED BY <1>4, <2>2 DEF CreateTenantDirs, Steps, Local, Typed, TypeOK, db
<1>5. CASE StartInspect(p)
  <2>1. StartCase[State(p)] \in Pcs
    BY DEF StartCase, ContainerStates, Pcs, SyncPcs, AwaitPcs
  <2> QED BY <1>5, <2>1, FetchSteps DEF StartInspect
<1>6. CASE StartUnpause(p)
  <2>1. InState(p, "running") \in Containers
    BY DEF InState, Containers, ContainerStates
  <2>2. "create_network" \in Pcs /\ "set_running" \in Pcs
    BY DEF Pcs, SyncPcs, AwaitPcs
  <2> QED BY <1>6, <2>1, <2>2, HandleCallSteps DEF StartUnpause
<1>7. CASE StartRemove(p)
  <2>1. NoContainer \in Containers
    BY DEF NoContainer, Containers, ContainerStates
  <2>2. "create_network" \in Pcs
    BY DEF Pcs, SyncPcs
  <2> QED BY <1>7, <2>1, <2>2, HandleCallSteps DEF StartRemove
<1>8. CASE CreateNetwork(p)
  <2>1. "create_container" \in Pcs
    BY DEF Pcs, SyncPcs
  <2>2. Moves(p)
    BY <1>8, <2>1, GotoMoves DEF CreateNetwork
  <2> QED BY <1>8, <2>2 DEF CreateNetwork, Steps, Local, Typed, TypeOK, db
<1>9. CASE CreateContainer(p)
  <2>1. CASE Abort(p) /\ UNCHANGED container
    BY <1>9, <2>1, AbortSteps DEF CreateContainer, docker
  <2>2. ASSUME NEW id \in ContainerIds,
               container' = [container EXCEPT ![T(p)] = [id |-> id, state |-> "created"]],
               Become(p, [req[p] EXCEPT !.pc = "run_container", !.cid = id]),
               UNCHANGED db
        PROVE  Steps(p)
    <3> DEFINE r == [req[p] EXCEPT !.pc = "run_container", !.cid = id]
    <3>1. r \in RequestRecords /\ SameRequest(p, r) /\ r.pc # "idle"
      BY DEF RequestRecords, SyncPcs, T, SameRequest
    <3>2. Moves(p)
      BY <2>2, <3>1, BecomeMoves
    <3>3. [id |-> id, state |-> "created"] \in Containers
      BY DEF Containers, ContainerStates
    <3> QED BY <1>9, <2>2, <3>2, <3>3 DEF CreateContainer, Steps, Local, Typed, TypeOK, db
  <2> QED BY <1>9, <2>1, <2>2 DEF CreateContainer
<1>10. CASE RunContainer(p)
  <2>1. InState(p, "running") \in Containers /\ "set_running" \in Pcs
    BY DEF InState, Containers, ContainerStates, Pcs, AwaitPcs
  <2>2. CASE Abort(p) /\ UNCHANGED container
    BY <1>10, <2>2, AbortSteps DEF RunContainer, docker
  <2>3. CASE Goto(p, "set_running") /\ UNCHANGED db
            /\ container' = [container EXCEPT ![T(p)] = InState(p, "running")]
    BY <1>10, <2>1, <2>3, GotoMoves DEF RunContainer, Steps, Local, Typed, TypeOK, db
  <2> QED BY <1>10, <2>2, <2>3 DEF RunContainer
<1>11. CASE SetRunning(p)
  <2>1. [status |-> "running", cid |-> req[p].cid, idle |-> 0] \in RowRecords
    BY DEF RowRecords, Statuses
  <2> QED BY <1>11, <2>1, CommitUpdateSteps DEF SetRunning
<1> QED BY <1>1, <1>2, <1>3, <1>4, <1>5, <1>6, <1>7, <1>8, <1>9, <1>10, <1>11 DEF StartStep

LEMMA StopSteps ==
    ASSUME Typed, NEW p \in Requests, Active(p), StopStep(p)
    PROVE  Steps(p)
<1> USE ActiveFacts
<1>1. CASE StopInspect(p)
  <2>1. (IF container[T(p)] = NoContainer THEN Stopped(p) ELSE "stop_container") \in Pcs
    BY DEF Pcs, SyncPcs
  <2> QED BY <1>1, <2>1, FetchSteps DEF StopInspect
<1>2. CASE StopContainer(p)
  <2>1. InState(p, IF State(p) = "created" THEN "created" ELSE "exited") \in Containers
    BY DEF InState, Containers, ContainerStates
  <2>2. "remove_container" \in Pcs
    BY DEF Pcs, SyncPcs
  <2> QED BY <1>2, <2>1, <2>2, HandleCallSteps DEF StopContainer
<1>3. CASE RemoveContainer(p)
  <2>1. NoContainer \in Containers
    BY DEF NoContainer, Containers, ContainerStates
  <2> QED BY <1>3, <2>1, HandleCallSteps DEF RemoveContainer
<1>4. CASE SetStopped(p)
  <2>1. [row[T(p)] EXCEPT !.status = "stopped", !.cid = None] \in RowRecords
    BY DEF RowRecords, Statuses
  <2> QED BY <1>4, <2>1, CommitUpdateSteps DEF SetStopped
<1> QED BY <1>1, <1>2, <1>3, <1>4 DEF StopStep

LEMMA PauseSteps ==
    ASSUME Typed, NEW p \in Requests, Active(p), PauseStep(p)
    PROVE  Steps(p)
<1> USE ActiveFacts
<1>0. "pause_container" \in Pcs /\ "set_paused" \in Pcs
  BY DEF Pcs, SyncPcs, AwaitPcs
<1>1. CASE PauseInspect(p)
  BY <1>0, <1>1, FetchSteps DEF PauseInspect
<1>2. CASE PauseContainer(p)
  <2>1. InState(p, "paused") \in Containers
    BY DEF InState, Containers, ContainerStates
  <2> QED BY <1>0, <1>2, <2>1, HandleCallSteps DEF PauseContainer
<1>3. CASE SetPaused(p)
  <2>1. [row[T(p)] EXCEPT !.status = "paused"] \in RowRecords
    BY DEF RowRecords, Statuses
  <2> QED BY <1>3, <2>1, CommitUpdateSteps DEF SetPaused
<1> QED BY <1>1, <1>2, <1>3 DEF PauseStep

LEMMA WakeCommitSteps ==
    ASSUME Typed, NEW p \in Requests, Active(p), NEW r \in RowRecords, WakeCommit(p, r)
    PROVE  Steps(p)
BY CommitUpdateSteps, AbortSteps DEF WakeCommit

LEMMA WakeSteps ==
    ASSUME Typed, NEW p \in Requests, Active(p), WakeStep(p)
    PROVE  Steps(p)
<1> USE ActiveFacts
<1>0. {"wake_touch", "unpause_inspect", "get_tenant", "unpause_container", "wake_update"}
         \subseteq Pcs
  BY DEF Pcs, SyncPcs, AwaitPcs
<1>1. CASE WakeInspect(p)
  <2>1. (CASE State(p) = "running" -> "wake_touch"
           [] State(p) = "paused" -> "unpause_inspect"
           [] OTHER -> "get_tenant") \in Pcs
    BY <1>0
  <2> QED BY <1>1, <2>1, FetchSteps DEF WakeInspect
<1>2. CASE UnpauseInspect(p)
  BY <1>0, <1>2, FetchSteps DEF UnpauseInspect
<1>3. CASE UnpauseContainer(p)
  <2>1. InState(p, "running") \in Containers
    BY DEF InState, Containers, ContainerStates
  <2> QED BY <1>0, <1>3, <2>1, HandleCallSteps DEF UnpauseContainer
<1>4. CASE WakeTouch(p)
  <2>1. [row[T(p)] EXCEPT !.idle = 0] \in RowRecords
    BY DEF RowRecords
  <2> QED BY <1>4, <2>1, WakeCommitSteps DEF WakeTouch
<1>5. CASE WakeUpdate(p)
  <2>1. [status |-> "running", cid |-> row[T(p)].cid, idle |-> 0] \in RowRecords
    BY DEF RowRecords, Statuses
  <2> QED BY <1>5, <2>1, WakeCommitSteps DEF WakeUpdate
<1> QED BY <1>1, <1>2, <1>3, <1>4, <1>5 DEF WakeStep

LEMMA DeleteSteps ==
    ASSUME Typed, NEW p \in Requests, Active(p), DeleteStep(p)
    PROVE  Steps(p)
<1> USE ActiveFacts
<1>0. {"set_deleting", "stop_inspect", "remove_dirs", "delete_row"} \subseteq Pcs
  BY DEF Pcs, SyncPcs, AwaitPcs
<1>1. CASE DeleteGet(p)
  <2>1. CASE Goto(p, "set_deleting") /\ UNCHANGED db
    BY <1>0, <1>1, <2>1, GotoMoves DEF DeleteGet, Steps, Local, Typed, TypeOK, db, docker
  <2>2. CASE EndTransaction(p, "ok") /\ UNCHANGED <<row, dek>>
    BY <1>1, <2>2, EndTransactionMoves DEF DeleteGet, Steps, Local, Typed, TypeOK, docker
  <2> QED BY <1>1, <2>1, <2>2 DEF DeleteGet
<1>2. CASE SetDeleting(p)
  <2>1. CASE /\ rowLock' = [rowLock EXCEPT ![T(p)] = p]
             /\ Goto(p, "stop_inspect") /\ UNCHANGED <<row, dek>>
    BY <1>0, <1>2, <2>1, GotoMoves DEF SetDeleting, Steps, Local, Typed, TypeOK, docker, Holders
  <2>2. CASE Abort(p)
    BY <1>2, <2>2, AbortSteps DEF SetDeleting
  <2> QED BY <1>2, <2>1, <2>2 DEF SetDeleting
<1>3. CASE RemoveNetwork(p)
  <2>1. CASE /\ network' = [network EXCEPT ![T(p)] = FALSE]
             /\ Goto(p, "remove_dirs") /\ UNCHANGED db
    BY <1>0, <1>3, <2>1, GotoMoves DEF RemoveNetwork, Steps, Local, Typed, TypeOK, db
  <2>2. CASE Abort(p) /\ UNCHANGED network
    BY <1>3, <2>2, AbortSteps DEF RemoveNetwork, docker
  <2> QED BY <1>3, <2>1, <2>2 DEF RemoveNetwork
<1>4. CASE RemoveTenantDirs(p)
  <2>1. Moves(p)
    BY <1>0, <1>4, GotoMoves DEF RemoveTenantDirs
  <2> QED BY <1>4, <2>1 DEF RemoveTenantDirs, Steps, Local, Typed, TypeOK, db
<1>5. CASE DeleteRow(p)
  <2>1. Moves(p) /\ rowLock' \in [Tenants -> Holders]
    BY <1>5, EndTransactionMoves DEF DeleteRow
  <2>2. NoRow \in RowRecords
    BY DEF NoRow, RowRecords, Statuses
  <2> QED BY <1>5, <2>1, <2>2 DEF DeleteRow, Steps, Local, Typed, TypeOK, docker
<1> QED BY <1>1, <1>2, <1>3, <1>4, <1>5 DEF DeleteStep

\* Every step of a request is taken by a request at work, keeps the types and
\* touches its own record and its own tenant only.
LEMMA RequestSteps ==
    ASSUME Typed, NEW p \in Requests, Step(p) \/ Fail(p)
    PROVE  Active(p) /\ Steps(p)
<1>1. Active(p)
  BY DEF Step, Fail, DeadlockAbort, WaitsFor, Active, StartStep, StopStep, PauseStep,
         WakeStep, DeleteStep, GetTenant, GetSecrets, InsertDek, CreateTenantDirs,
         StartInspect, StartUnpause, StartRemove, CreateNetwork, CreateContainer,
         RunContainer, SetRunning, StopInspect, StopContainer, RemoveContainer,
         SetStopped, PauseInspect, PauseContainer, SetPaused, WakeInspect,
         UnpauseInspect, UnpauseContainer, WakeTouch, WakeUpdate, DeleteGet,
         SetDeleting, RemoveNetwork, RemoveTenantDirs, DeleteRow, Fetch, HandleCall, At
<1>2. CASE DeadlockAbort(p) \/ Fail(p)
  BY <1>1, <1>2, AbortSteps DEF DeadlockAbort, Fail
<1>3. CASE StartStep(p) \/ StopStep(p) \/ PauseStep(p) \/ WakeStep(p) \/ DeleteStep(p)
  BY <1>1, <1>3, StartSteps, StopSteps, PauseSteps, WakeSteps, DeleteSteps
<1> QED BY <1>1, <1>2, <1>3 DEF Step

\* A request met by another one, or whose container crashes, only loses its alone.
LEMMA NotAloneTyped ==
    ASSUME Typed, NEW q \in Requests, NEW b \in BOOLEAN
    PROVE  /\ [req[q] EXCEPT !.alone = b] \in RequestRecords
           /\ [req[q] EXCEPT !.alone = b].pc = req[q].pc
           /\ [req[q] EXCEPT !.alone = b].tenant = req[q].tenant
<1>1. req[q] \in RequestRecords
  BY DEF Typed, TypeOK
<1> QED BY <1>1 DEF RequestRecords

LEMMA BeginTyped ==
    ASSUME Typed, NEW p \in Requests, NEW op \in Ops, NEW t \in Tenants, Begin(p, op, t)
    PROVE  Typed'
<1>1. Entry[op] \in AwaitPcs
  BY DEF Ops, Entry, AwaitPcs
<1>2. \A b \in BOOLEAN : Begun(op, t, b) \in RequestRecords
  BY <1>1 DEF Begun, RequestRecords
<1>3. \A q \in Requests :
        /\ [req[q] EXCEPT !.alone = @ /\ T(q) # t] \in RequestRecords
        /\ [req[q] EXCEPT !.alone = @ /\ T(q) # t].pc = req[q].pc
        /\ [req[q] EXCEPT !.alone = @ /\ T(q) # t].tenant = req[q].tenant
  BY NotAloneTyped
<1>4. req' \in [Requests -> RequestRecords]
  BY <1>2, <1>3 DEF Begin
<1>5. \A q \in Requests : Active(q)' => T(q)' \in Tenants
  BY <1>3 DEF Begin, Typed, Active, T, Begun
<1> QED BY <1>4, <1>5 DEF Begin, Typed, TypeOK, db, docker

LEMMA EnvironmentTyped ==
    ASSUME Typed, NEW t \in Tenants, ContainerCrash(t) \/ ContainerRestart(t)
    PROVE  Typed'
<1>1. container' \in [Tenants -> Containers]
  <2>1. container \in [Tenants -> Containers] /\ container[t] \in Containers
    BY DEF Typed, TypeOK
  <2>2. \A s \in ContainerStates : [container[t] EXCEPT !.state = s] \in Containers
    BY <2>1 DEF Containers
  <2>3. "restarting" \in ContainerStates /\ "running" \in ContainerStates
    BY DEF ContainerStates
  <2> QED BY <2>1, <2>2, <2>3 DEF ContainerCrash, ContainerRestart
<1>2. \A q \in Requests :
        /\ [req[q] EXCEPT !.alone = @ /\ T(q) # t] \in RequestRecords
        /\ [req[q] EXCEPT !.alone = @ /\ T(q) # t].pc = req[q].pc
        /\ [req[q] EXCEPT !.alone = @ /\ T(q) # t].tenant = req[q].tenant
  BY NotAloneTyped
<1>3. req' \in [Requests -> RequestRecords]
  BY <1>2 DEF ContainerCrash, ContainerRestart
<1>4. \A q \in Requests : Active(q)' => T(q)' \in Tenants
  BY <1>2 DEF ContainerCrash, ContainerRestart, Typed, Active, T
<1> QED BY <1>1, <1>3, <1>4 DEF ContainerCrash, ContainerRestart, Typed, TypeOK, db

LEMMA InitTyped == Init => Typed
BY DEF Init, Typed, TypeOK, Holders, RowRecords, Statuses, Containers, ContainerStates,
       NoContainer, RequestRecords, Idle, Active

LEMMA NextTyped == Typed /\ [Next]_vars => Typed'
<1> SUFFICES ASSUME Typed, [Next]_vars
             PROVE  Typed'
  OBVIOUS
<1>1. CASE UNCHANGED vars
  BY <1>1 DEF vars, Typed, TypeOK, Active, T
<1>2. ASSUME NEW p \in Requests, Step(p) \/ Fail(p)
      PROVE  Typed'
  <2>1. Steps(p)
    BY <1>2, RequestSteps
  <2> QED BY <2>1 DEF Steps, Moves, Local, SameRequest, Typed, TypeOK, Active, T
<1> QED BY <1>1, <1>2, BeginTyped, EnvironmentTyped DEF Next

\* In every reachable state each variable has its type; no committed row is in
\* status DELETING or PROVISIONING (tenant_service.py:136 is flushed, never committed).
THEOREM TypeCorrect == Spec => []TypeOK
<1>1. Typed => TypeOK
  BY DEF Typed
<1> QED BY <1>1, InitTyped, NextTyped, PTL DEF Spec

LEMMA TypedAlways == Spec => []Typed
BY InitTyped, NextTyped, PTL DEF Spec

-----------------------------------------------------------------------------
(* The inductive invariant.  A request that nobody disturbs, because no other    *)
(* request is on its tenant or because the event loop runs nothing else, knows   *)
(* at each pc what Docker looks like.                                            *)

\* Which handlers pass through which pcs.
HandlerPcs ==
    [start |-> {"get_tenant", "get_secrets", "insert_dek", "create_dirs",
                "start_inspect", "start_unpause", "start_remove", "create_network",
                "create_container", "run_container", "set_running"},
     stop |-> {"stop_inspect", "stop_container", "remove_container", "set_stopped"},
     pause |-> {"pause_inspect", "pause_container", "set_paused"},
     wake |-> {"wake_inspect", "wake_touch", "unpause_inspect", "unpause_container",
               "wake_update", "get_tenant", "get_secrets", "insert_dek",
               "create_dirs", "start_inspect", "start_unpause", "start_remove",
               "create_network", "create_container", "run_container", "set_running"},
     delete |-> {"delete_get", "set_deleting", "stop_inspect", "stop_container",
                 "remove_container", "remove_network", "remove_dirs", "delete_row"}]
InHandler(p) == Active(p) => req[p].op \in Ops /\ req[p].pc \in HandlerPcs[req[p].op]

Proper(c) == c.state = "not_found" => c = NoContainer

\* Inside a synchronous section.
SectionFacts(p) ==
    /\ req[p].pc \in {"start_inspect", "start_unpause", "start_remove",
                      "create_network", "create_container"} => dirs[T(p)]
    /\ req[p].pc \in {"create_network", "create_container", "remove_network",
                      "remove_dirs"} => container[T(p)] = NoContainer
    /\ req[p].pc = "create_container" => network[T(p)]
    /\ req[p].pc = "run_container" => ~Gone(p) /\ State(p) = "created" /\ network[T(p)]
    /\ req[p].pc \in {"start_unpause", "unpause_container"} =>
           ~Gone(p) /\ State(p) = "paused"
    /\ req[p].pc = "unpause_inspect" => State(p) = "paused"
    /\ req[p].pc = "start_remove" => ~Gone(p) /\ State(p) # "paused"
    /\ req[p].pc \in {"stop_container", "pause_container"} => ~Gone(p)
    /\ req[p].pc = "remove_container" => ~Gone(p) /\ State(p) \in {"exited", "created"}
    /\ req[p].pc = "remove_dirs" => ~network[T(p)]

\* Across the awaits of a request that is alone.
AloneFacts(p) ==
    /\ req[p].pc \in HandlerPcs["start"] \ {"get_tenant"} => Exists(T(p))
    /\ req[p].pc = "set_running" => ~Gone(p) /\ State(p) = "running"
    /\ req[p].pc = "set_stopped" => container[T(p)] = NoContainer
    /\ req[p].pc = "set_paused" => State(p) # "running"
    /\ req[p].pc \in {"wake_touch", "wake_update"} => State(p) = "running"
    /\ req[p].pc = "delete_row" =>
           container[T(p)] = NoContainer /\ ~network[T(p)] /\ ~dirs[T(p)]

Undisturbed(p) == req[p].alone \/ CliCommands = {}

RequestInv(p) ==
    /\ InHandler(p)
    /\ Undisturbed(p) => SectionFacts(p)
    /\ req[p].alone => AloneFacts(p)

IInv ==
    /\ Typed
    /\ \A t \in Tenants : Proper(container[t])
    /\ \A p \in ApiRequests : req[p].pc \in SyncPcs => loop = p
    /\ \A p \in Requests : req[p].alone =>
           Active(p) /\ \A q \in Requests \ {p} : T(q) # T(p)
    /\ \A p \in Requests : RequestInv(p)

-----------------------------------------------------------------------------
(* Each step of a request keeps its own RequestInv.                              *)

LEMMA HandleCallResult ==
    ASSUME Typed, NEW p \in Requests, NEW pc, pc # "idle", NEW gonePc \in Pcs,
           NEW accepted, NEW c \in Containers, NEW next \in Pcs,
           HandleCall(p, pc, gonePc, accepted, c, next)
    PROVE  /\ UNCHANGED <<row, network, dirs>>
           /\ \/ Gone(p) /\ container' = container /\ req'[p].pc = gonePc
              \/ /\ ~Gone(p) /\ State(p) \in accepted /\ container'[T(p)] = c
                 /\ req'[p].pc = next
                 /\ req'[p].cid = IF next \in HandlePcs THEN req[p].cid ELSE None
              \/ container' = container /\ req'[p].pc = "idle"
<1>1. Active(p)
  BY DEF HandleCall, At, Active
<1>2. T(p) \in Tenants /\ req[p] \in RequestRecords
  BY <1>1, ActiveFacts
<1>3. CASE Gone(p) /\ Goto(p, gonePc) /\ UNCHANGED <<db, container>>
  BY <1>1, <1>2, <1>3, GotoMoves DEF HandleCall, db, RequestRecords
<1>4. CASE /\ ~Gone(p) /\ State(p) \in accepted
           /\ container' = [container EXCEPT ![T(p)] = c]
           /\ Goto(p, next) /\ UNCHANGED db
  <2>1. container'[T(p)] = c
    BY <1>2, <1>4 DEF Typed, TypeOK
  <2>2. req'[p].pc = next /\ req'[p].cid = IF next \in HandlePcs THEN req[p].cid ELSE None
    BY <1>1, <1>2, <1>4, GotoMoves DEF RequestRecords
  <2> QED BY <1>4, <2>1, <2>2 DEF HandleCall, db
<1>5. CASE ~Gone(p) /\ State(p) \notin accepted /\ Abort(p) /\ UNCHANGED container
  BY <1>5, AbortSteps DEF HandleCall, docker, Idle
<1> QED BY <1>3, <1>4, <1>5 DEF HandleCall

\* A request that has ended has nothing to keep.
LEMMA EndedInv ==
    ASSUME Typed, NEW p \in Requests, Moves(p), req'[p].pc = "idle"
    PROVE  RequestInv(p)'
BY DEF Moves, RequestInv, InHandler, SectionFacts, AloneFacts, Active, Undisturbed,
       HandlerPcs

\* A step of p that leads to pc keeps what pc asks for.
LEMMA MovedInv ==
    ASSUME Typed, NEW p \in Requests, Active(p), Moves(p), NEW pc \in Pcs,
           req'[p].pc = pc, RequestInv(p),
           req[p].op \in Ops => pc \in HandlerPcs[req[p].op],
           Undisturbed(p) => SectionFacts(p)', req[p].alone => AloneFacts(p)'
    PROVE  RequestInv(p)'
<1>1. pc # "idle"
  BY DEF Pcs, SyncPcs, AwaitPcs
<1>2. SameRequest(p, req'[p])
  BY <1>1 DEF Moves
<1> QED BY <1>2 DEF RequestInv, InHandler, Undisturbed, SameRequest, Active

LEMMA AbortInv ==
    ASSUME Typed, NEW p \in Requests, Abort(p), UNCHANGED docker
    PROVE  RequestInv(p)' /\ UNCHANGED container
BY AbortSteps, EndedInv DEF Steps, Idle, docker

LEMMA CommitInv ==
    ASSUME Typed, NEW p \in Requests, Active(p), NEW r \in RowRecords, CommitUpdate(p, r)
    PROVE  RequestInv(p)' /\ UNCHANGED container
BY CommitUpdateSteps, EndedInv DEF Steps, Idle, docker

LEMMA StartInv ==
    ASSUME Typed, NEW p \in Requests, Active(p), Proper(container[T(p)]), RequestInv(p),
           StartStep(p)
    PROVE  RequestInv(p)' /\ Proper(container'[T(p)])
<1>0. /\ Moves(p) /\ T(p) \in Tenants /\ State(p) \in ContainerStates
      /\ req[p] \in RequestRecords /\ dirs \in [Tenants -> BOOLEAN]
      /\ network \in [Tenants -> BOOLEAN] /\ container \in [Tenants -> Containers]
  BY StartSteps, ActiveFacts DEF Steps, Typed, TypeOK
<1>h. InHandler(p) /\ (Undisturbed(p) => SectionFacts(p)) /\ (req[p].alone => AloneFacts(p))
  BY DEF RequestInv
<1>a. req[p].alone => Undisturbed(p)
  BY DEF Undisturbed
<1>s. req'[p].pc # "idle" => T(p)' = T(p)
  BY <1>0 DEF Moves, SameRequest, T
<1>p. req[p].pc \in HandlerPcs["start"]
  BY DEF StartStep, GetTenant, GetSecrets, InsertDek, CreateTenantDirs, StartInspect,
         StartUnpause, StartRemove, CreateNetwork, CreateContainer, RunContainer,
         SetRunning, Fetch, HandleCall, At, HandlerPcs
<1>o. req[p].op \in Ops => HandlerPcs["start"] \subseteq HandlerPcs[req[p].op]
  BY <1>p, <1>h DEF InHandler, Ops, HandlerPcs
<1>m. ASSUME NEW pc \in HandlerPcs["start"], req'[p].pc = pc,
             Undisturbed(p) => SectionFacts(p)', req[p].alone => AloneFacts(p)'
      PROVE  RequestInv(p)'
  <2>1. pc \in Pcs
    BY DEF HandlerPcs, Pcs, SyncPcs, AwaitPcs
  <2> QED BY <1>0, <1>o, <1>m, <2>1, MovedInv
<1>1. CASE GetTenant(p)
  <2>1. CASE Goto(p, "get_secrets") /\ UNCHANGED db /\ Exists(T(p))
    <3>1. req'[p].pc = "get_secrets"
      BY <2>1, GotoMoves DEF Pcs, AwaitPcs
    <3>2. SectionFacts(p)' /\ AloneFacts(p)'
      BY <1>s, <2>1, <3>1 DEF SectionFacts, AloneFacts, Exists, db
    <3>3. RequestInv(p)'
      BY <1>m, <3>1, <3>2 DEF HandlerPcs
    <3> QED BY <1>1, <3>3 DEF GetTenant, docker
  <2>2. CASE Abort(p)
    BY <1>1, <2>2, AbortInv DEF GetTenant
  <2> QED BY <1>1, <2>1, <2>2 DEF GetTenant
<1>2. CASE GetSecrets(p)
  <2>1. req'[p].pc \in {"create_dirs", "insert_dek"} /\ UNCHANGED <<row, container>>
    BY <1>2, GotoMoves DEF GetSecrets, Pcs, AwaitPcs, db, docker
  <2>2. SectionFacts(p)' /\ (req[p].alone => AloneFacts(p)')
    BY <1>2, <1>h, <1>s, <2>1 DEF GetSecrets, At, SectionFacts, AloneFacts, Exists, HandlerPcs
  <2> QED BY <1>m, <2>1, <2>2 DEF HandlerPcs
<1>3. CASE InsertDek(p)
  <2> DEFINE r == [req[p] EXCEPT !.newDek = TRUE, !.pc = "create_dirs"]
  <2>1. CASE Become(p, r) /\ UNCHANGED db
    <3>1. req'[p].pc = "create_dirs" /\ UNCHANGED <<row, container>>
      BY <1>0, <1>3, <2>1 DEF InsertDek, Become, Typed, TypeOK, RequestRecords, db, docker
    <3>2. SectionFacts(p)' /\ (req[p].alone => AloneFacts(p)')
      BY <1>3, <1>h, <1>s, <3>1 DEF InsertDek, At, SectionFacts, AloneFacts, Exists, HandlerPcs
    <3> QED BY <1>m, <3>1, <3>2 DEF HandlerPcs
  <2>2. CASE Abort(p)
    BY <1>3, <2>2, AbortInv DEF InsertDek
  <2> QED BY <1>3, <2>1, <2>2 DEF InsertDek
<1>4. CASE CreateTenantDirs(p)
  <2>1. req'[p].pc = "start_inspect" /\ UNCHANGED <<row, container>> /\ dirs'[T(p)]
    BY <1>0, <1>4, GotoMoves DEF CreateTenantDirs, Pcs, SyncPcs, db
  <2>2. SectionFacts(p)' /\ (req[p].alone => AloneFacts(p)')
    BY <1>4, <1>h, <1>s, <2>1 DEF CreateTenantDirs, At, SectionFacts, AloneFacts, Exists,
                                  HandlerPcs
  <2> QED BY <1>m, <2>1, <2>2 DEF HandlerPcs
<1>5. CASE StartInspect(p)
  <2>1. StartCase[State(p)] \in Pcs /\ StartCase[State(p)] \in HandlerPcs["start"]
    BY <1>0 DEF StartCase, ContainerStates, Pcs, SyncPcs, AwaitPcs, HandlerPcs
  <2>2. /\ UNCHANGED <<row, container, network, dirs>> /\ req'[p].pc = StartCase[State(p)]
        /\ req'[p].cid = IF StartCase[State(p)] \in HandlePcs THEN container[T(p)].id ELSE None
    BY <1>5, <2>1, FetchSteps DEF StartInspect, db, docker
  <2>3. Undisturbed(p) => SectionFacts(p)'
    BY <1>0, <1>5, <1>h, <1>s, <2>1, <2>2 DEF StartInspect, Fetch, At, SectionFacts, StartCase,
        ContainerStates, HandlePcs, Gone, State, Proper
  <2>4. req[p].alone => AloneFacts(p)'
    BY <1>0, <1>5, <1>h, <1>s, <2>1, <2>2 DEF StartInspect, Fetch, At, AloneFacts, StartCase,
        ContainerStates, HandlePcs, Gone, State, Exists, HandlerPcs
  <2> QED BY <1>m, <2>1, <2>2, <2>3, <2>4
<1>6. CASE StartUnpause(p)
  <2>0. /\ "create_network" \in Pcs /\ "set_running" \in Pcs
        /\ InState(p, "running") \in Containers
    BY <1>0 DEF Pcs, SyncPcs, AwaitPcs, InState, Containers, ContainerStates, RequestRecords
  <2>1. UNCHANGED <<row, network, dirs>>
    BY <1>6, <2>0, HandleCallResult DEF StartUnpause
  <2>2. CASE Gone(p) /\ container' = container /\ req'[p].pc = "create_network"
    <3>1. ~Undisturbed(p)
      BY <1>6, <1>h, <2>2 DEF StartUnpause, HandleCall, At, SectionFacts
    <3> QED BY <1>a, <1>m, <2>2, <3>1 DEF HandlerPcs
  <2>3. CASE /\ container'[T(p)] = InState(p, "running")
             /\ req'[p].pc = "set_running" /\ req'[p].cid = req[p].cid
    <3>1. SectionFacts(p)' /\ (req[p].alone => AloneFacts(p)')
      BY <1>6, <1>h, <1>s, <2>1, <2>3 DEF StartUnpause, HandleCall, At, SectionFacts,
         AloneFacts, Exists, Gone, State, InState, HandlerPcs
    <3>2. Proper(container'[T(p)])
      BY <2>3 DEF Proper, InState
    <3> QED BY <1>m, <2>3, <3>1, <3>2 DEF HandlerPcs
  <2>4. CASE container' = container /\ req'[p].pc = "idle"
    BY <1>0, <2>4, EndedInv
  <2> QED BY <1>6, <2>0, <2>2, <2>3, <2>4, HandleCallResult DEF StartUnpause, HandlePcs
<1>7. CASE StartRemove(p)
  <2>0. "create_network" \in Pcs /\ NoContainer \in Containers
    BY DEF Pcs, SyncPcs, NoContainer, Containers, ContainerStates
  <2>1. UNCHANGED <<row, network, dirs>>
    BY <1>7, <2>0, HandleCallResult DEF StartRemove
  <2>2. CASE Gone(p) /\ container' = container /\ req'[p].pc = "create_network"
    <3>1. ~Undisturbed(p)
      BY <1>7, <1>h, <2>2 DEF StartRemove, HandleCall, At, SectionFacts
    <3> QED BY <1>a, <1>m, <2>2, <3>1 DEF HandlerPcs
  <2>3. CASE container'[T(p)] = NoContainer /\ req'[p].pc = "create_network"
    <3>1. (Undisturbed(p) => SectionFacts(p)') /\ (req[p].alone => AloneFacts(p)')
      BY <1>7, <1>h, <1>s, <2>1, <2>3 DEF StartRemove, HandleCall, At, SectionFacts,
         AloneFacts, Exists, HandlerPcs
    <3>2. Proper(container'[T(p)])
      BY <2>3 DEF Proper
    <3> QED BY <1>m, <2>3, <3>1, <3>2 DEF HandlerPcs
  <2>4. CASE container' = container /\ req'[p].pc = "idle"
    BY <1>0, <2>4, EndedInv
  <2> QED BY <1>7, <2>0, <2>2, <2>3, <2>4, HandleCallResult DEF StartRemove
<1>8. CASE CreateNetwork(p)
  <2>1. /\ req'[p].pc = "create_container" /\ UNCHANGED <<row, container, dirs>>
        /\ network'[T(p)]
    BY <1>0, <1>8, GotoMoves DEF CreateNetwork, Pcs, SyncPcs, db
  <2>2. (Undisturbed(p) => SectionFacts(p)') /\ (req[p].alone => AloneFacts(p)')
    BY <1>8, <1>h, <1>s, <2>1 DEF CreateNetwork, At, SectionFacts, AloneFacts, Exists, HandlerPcs
  <2> QED BY <1>m, <2>1, <2>2 DEF HandlerPcs
<1>9. CASE CreateContainer(p)
  <2>1. CASE Abort(p) /\ UNCHANGED container
    BY <1>9, <2>1, AbortInv DEF CreateContainer, docker
  <2>2. ASSUME NEW id \in ContainerIds,
               container' = [container EXCEPT ![T(p)] = [id |-> id, state |-> "created"]],
               Become(p, [req[p] EXCEPT !.pc = "run_container", !.cid = id]),
               UNCHANGED db
        PROVE  RequestInv(p)' /\ Proper(container'[T(p)])
    <3>1. container'[T(p)] = [id |-> id, state |-> "created"] /\ UNCHANGED <<row, network>>
      BY <1>0, <1>9, <2>2 DEF CreateContainer, db
    <3>2. req'[p].pc = "run_container" /\ req'[p].cid = id
      BY <1>0, <2>2 DEF Become, Typed, TypeOK, RequestRecords
    <3>3. T(p)' = T(p) /\ req[p].pc = "create_container"
      BY <1>9, <1>s, <3>2 DEF CreateContainer, At
    <3>4. Undisturbed(p) => SectionFacts(p)'
      BY <1>h, <3>1, <3>2, <3>3 DEF SectionFacts, Gone, State
    <3>5. req[p].alone => AloneFacts(p)'
      BY <1>h, <3>1, <3>2, <3>3 DEF AloneFacts, Exists, HandlerPcs
    <3>6. Proper(container'[T(p)])
      BY <3>1 DEF Proper
    <3> QED BY <1>m, <3>2, <3>4, <3>5, <3>6 DEF HandlerPcs
  <2> QED BY <1>9, <2>1, <2>2 DEF CreateContainer
<1>10. CASE RunContainer(p)
  <2>1. CASE Abort(p) /\ UNCHANGED container
    BY <1>10, <2>1, AbortInv DEF RunContainer, docker
  <2>2. CASE Goto(p, "set_running") /\ UNCHANGED db /\ ~Gone(p)
            /\ container' = [container EXCEPT ![T(p)] = InState(p, "running")]
    <3>1. container'[T(p)] = InState(p, "running") /\ UNCHANGED row
      BY <1>0, <2>2 DEF db
    <3>2. req'[p].pc = "set_running" /\ req'[p].cid = req[p].cid
      BY <2>2, GotoMoves DEF Pcs, AwaitPcs, HandlePcs
    <3>3. (Undisturbed(p) => SectionFacts(p)') /\ (req[p].alone => AloneFacts(p)')
      BY <1>10, <1>h, <1>s, <3>1, <3>2 DEF RunContainer, At, SectionFacts, AloneFacts,
         Exists, Gone, State, InState, HandlerPcs
    <3>4. Proper(container'[T(p)])
      BY <3>1 DEF Proper, InState
    <3> QED BY <1>m, <3>2, <3>3, <3>4 DEF HandlerPcs
  <2> QED BY <1>10, <2>1, <2>2 DEF RunContainer
<1>11. CASE SetRunning(p)
  <2>1. [status |-> "running", cid |-> req[p].cid, idle |-> 0] \in RowRecords
    BY ActiveFacts DEF RowRecords, Statuses
  <2> QED BY <1>11, <2>1, CommitInv DEF SetRunning
<1> QED BY <1>1, <1>2, <1>3, <1>4, <1>5, <1>6, <1>7, <1>8, <1>9, <1>10, <1>11 DEF StartStep

LEMMA StopInv ==
    ASSUME Typed, NEW p \in Requests, Active(p), Proper(container[T(p)]), RequestInv(p),
           StopStep(p)
    PROVE  RequestInv(p)' /\ Proper(container'[T(p)])
<1>0. /\ Moves(p) /\ T(p) \in Tenants /\ State(p) \in ContainerStates /\ Stopped(p) \in Pcs
      /\ req[p].cid \in ContainerIds \cup {None}
  BY StopSteps, ActiveFacts DEF Steps
<1>h. InHandler(p) /\ (Undisturbed(p) => SectionFacts(p)) /\ (req[p].alone => AloneFacts(p))
  BY DEF RequestInv
<1>a. req[p].alone => Undisturbed(p)
  BY DEF Undisturbed
<1>s. req'[p].pc # "idle" => T(p)' = T(p)
  BY <1>0 DEF Moves, SameRequest, T
<1>o. /\ Stopped(p) \in {"remove_network", "set_stopped"}
      /\ ~SetStopped(p) =>
           {Stopped(p), "stop_container", "remove_container"} \subseteq HandlerPcs[req[p].op]
  <2>1. CASE SetStopped(p)
    BY <2>1 DEF Stopped
  <2>2. CASE StopInspect(p) \/ StopContainer(p) \/ RemoveContainer(p)
    BY <1>h, <2>2 DEF InHandler, Active, StopInspect, StopContainer, RemoveContainer, Fetch,
         HandleCall, At, Ops, HandlerPcs, Stopped
  <2> QED BY <2>1, <2>2 DEF StopStep
<1>n. /\ "stop_container" \in Pcs /\ "remove_container" \in Pcs
      /\ Stopped(p) \notin HandlePcs /\ NoContainer \in Containers
  BY <1>o DEF Pcs, SyncPcs, HandlePcs, NoContainer, Containers, ContainerStates
<1>1. CASE StopInspect(p)
  <2> DEFINE next == IF container[T(p)] = NoContainer THEN Stopped(p) ELSE "stop_container"
  <2>1. next \in Pcs /\ ~SetStopped(p)
    BY <1>0, <1>1, <1>n DEF StopInspect, SetStopped, Fetch, At
  <2>2. /\ container' = container /\ req'[p].pc = next
        /\ req'[p].cid = IF next \in HandlePcs THEN container[T(p)].id ELSE None
    BY <1>1, <2>1, FetchSteps DEF StopInspect, docker
  <2>3. T(p)' = T(p)
    BY <1>s, <2>1, <2>2 DEF Pcs, SyncPcs, AwaitPcs
  <2>4. CASE container[T(p)] = NoContainer
    <3>1. SectionFacts(p)' /\ AloneFacts(p)'
      BY <1>o, <2>2, <2>3, <2>4 DEF SectionFacts, AloneFacts, HandlerPcs
    <3> QED BY <1>0, <1>o, <2>1, <2>2, <2>4, <3>1, MovedInv
  <2>5. CASE container[T(p)] # NoContainer
    <3>1. SectionFacts(p)' /\ AloneFacts(p)'
      BY <2>2, <2>3, <2>5 DEF SectionFacts, AloneFacts, HandlerPcs, HandlePcs, Gone
    <3> QED BY <1>0, <1>o, <2>1, <2>2, <2>5, <3>1, MovedInv
  <2> QED BY <2>4, <2>5
<1>2. CASE StopContainer(p)
  <2> DEFINE c == InState(p, IF State(p) = "created" THEN "created" ELSE "exited")
  <2>0. c \in Containers /\ Proper(c) /\ ~SetStopped(p)
    BY <1>0, <1>2 DEF StopContainer, SetStopped, HandleCall, At, InState, Containers,
                      ContainerStates, Proper
  <2>2. CASE Gone(p) /\ container' = container /\ req'[p].pc = Stopped(p)
    <3>1. ~Undisturbed(p)
      BY <1>2, <1>h, <2>2 DEF StopContainer, HandleCall, At, SectionFacts
    <3> QED BY <1>0, <1>a, <1>o, <2>0, <2>2, <3>1, MovedInv
  <2>3. CASE /\ container'[T(p)] = c
             /\ req'[p].pc = "remove_container" /\ req'[p].cid = req[p].cid
    <3>1. T(p)' = T(p)
      BY <1>s, <2>3
    <3>2. SectionFacts(p)' /\ AloneFacts(p)'
      BY <2>3, <3>1 DEF SectionFacts, AloneFacts, HandlerPcs, Gone, State, InState
    <3> QED BY <1>0, <1>o, <1>n, <2>0, <2>3, <3>2, MovedInv
  <2>4. CASE container' = container /\ req'[p].pc = "idle"
    BY <1>0, <2>4, EndedInv
  <2> QED BY <1>0, <1>2, <1>n, <2>0, <2>2, <2>3, <2>4, HandleCallResult DEF StopContainer, HandlePcs
<1>3. CASE RemoveContainer(p)
  <2>0. ~SetStopped(p)
    BY <1>3 DEF RemoveContainer, SetStopped, HandleCall, At
  <2>2. CASE Gone(p) /\ container' = container /\ req'[p].pc = Stopped(p)
    <3>1. ~Undisturbed(p)
      BY <1>3, <1>h, <2>2 DEF RemoveContainer, HandleCall, At, SectionFacts
    <3> QED BY <1>0, <1>a, <1>o, <2>0, <2>2, <3>1, MovedInv
  <2>3. CASE container'[T(p)] = NoContainer /\ req'[p].pc = Stopped(p)
    <3>1. T(p)' = T(p)
      BY <1>s, <1>o, <2>3
    <3>2. SectionFacts(p)' /\ AloneFacts(p)'
      BY <1>o, <2>3, <3>1 DEF SectionFacts, AloneFacts, HandlerPcs
    <3>3. Proper(container'[T(p)])
      BY <2>3 DEF Proper
    <3> QED BY <1>0, <1>o, <2>0, <2>3, <3>2, <3>3, MovedInv
  <2>4. CASE container' = container /\ req'[p].pc = "idle"
    BY <1>0, <2>4, EndedInv
  <2> QED BY <1>0, <1>3, <1>n, <2>2, <2>3, <2>4, HandleCallResult DEF RemoveContainer
<1>4. CASE SetStopped(p)
  <2>1. [row[T(p)] EXCEPT !.status = "stopped", !.cid = None] \in RowRecords
    BY ActiveFacts DEF RowRecords, Statuses
  <2> QED BY <1>4, <2>1, CommitInv DEF SetStopped
<1> QED BY <1>1, <1>2, <1>3, <1>4 DEF StopStep

LEMMA PauseInv ==
    ASSUME Typed, NEW p \in Requests, Active(p), Proper(container[T(p)]), RequestInv(p),
           PauseStep(p)
    PROVE  RequestInv(p)' /\ Proper(container'[T(p)])
<1>0. /\ Moves(p) /\ T(p) \in Tenants /\ State(p) \in ContainerStates
      /\ req[p].cid \in ContainerIds \cup {None}
  BY PauseSteps, ActiveFacts DEF Steps
<1>h. InHandler(p) /\ (Undisturbed(p) => SectionFacts(p)) /\ (req[p].alone => AloneFacts(p))
  BY DEF RequestInv
<1>a. req[p].alone => Undisturbed(p)
  BY DEF Undisturbed
<1>s. req'[p].pc # "idle" => T(p)' = T(p)
  BY <1>0 DEF Moves, SameRequest, T
<1>n. "pause_container" \in Pcs /\ "set_paused" \in Pcs
  BY DEF Pcs, SyncPcs, AwaitPcs
<1>o. {"pause_container", "set_paused"} \subseteq HandlerPcs[req[p].op]
  BY <1>h DEF PauseStep, InHandler, Active, PauseInspect, PauseContainer, SetPaused, Fetch,
       HandleCall, At, Ops, HandlerPcs
<1>1. CASE PauseInspect(p)
  <2> DEFINE next == IF State(p) = "running" THEN "pause_container" ELSE "set_paused"
  <2>1. next \in Pcs
    BY <1>n
  <2>2. /\ container' = container /\ req'[p].pc = next
        /\ req'[p].cid = IF next \in HandlePcs THEN container[T(p)].id ELSE None
    BY <1>1, <2>1, FetchSteps DEF PauseInspect, docker
  <2>3. T(p)' = T(p)
    BY <1>s, <2>2
  <2>4. SectionFacts(p)' /\ AloneFacts(p)'
    BY <2>2, <2>3 DEF SectionFacts, AloneFacts, HandlerPcs, HandlePcs, Gone, State
  <2> QED BY <1>0, <1>o, <2>1, <2>2, <2>4, MovedInv
<1>2. CASE PauseContainer(p)
  <2>0. InState(p, "paused") \in Containers /\ Proper(InState(p, "paused"))
    BY <1>0 DEF InState, Containers, ContainerStates, Proper
  <2>2. CASE Gone(p) /\ container' = container /\ req'[p].pc = "set_paused"
    <3>1. ~Undisturbed(p)
      BY <1>2, <1>h, <2>2 DEF PauseContainer, HandleCall, At, SectionFacts
    <3> QED BY <1>0, <1>a, <1>o, <1>n, <2>2, <3>1, MovedInv
  <2>3. CASE container'[T(p)] = InState(p, "paused") /\ req'[p].pc = "set_paused"
    <3>1. T(p)' = T(p)
      BY <1>s, <2>3
    <3>2. SectionFacts(p)' /\ AloneFacts(p)'
      BY <2>3, <3>1 DEF SectionFacts, AloneFacts, HandlerPcs, State, InState
    <3> QED BY <1>0, <1>o, <1>n, <2>0, <2>3, <3>2, MovedInv
  <2>4. CASE container' = container /\ req'[p].pc = "idle"
    BY <1>0, <2>4, EndedInv
  <2> QED BY <1>0, <1>2, <1>n, <2>0, <2>2, <2>3, <2>4, HandleCallResult DEF PauseContainer
<1>3. CASE SetPaused(p)
  <2>1. [row[T(p)] EXCEPT !.status = "paused"] \in RowRecords
    BY ActiveFacts DEF RowRecords, Statuses
  <2> QED BY <1>3, <2>1, CommitInv DEF SetPaused
<1> QED BY <1>1, <1>2, <1>3 DEF PauseStep

LEMMA WakeInv ==
    ASSUME Typed, NEW p \in Requests, Active(p), Proper(container[T(p)]), RequestInv(p),
           WakeStep(p)
    PROVE  RequestInv(p)' /\ Proper(container'[T(p)])
<1>0. /\ Moves(p) /\ T(p) \in Tenants /\ State(p) \in ContainerStates
      /\ req[p].cid \in ContainerIds \cup {None}
  BY WakeSteps, ActiveFacts DEF Steps
<1>h. InHandler(p) /\ (Undisturbed(p) => SectionFacts(p)) /\ (req[p].alone => AloneFacts(p))
  BY DEF RequestInv
<1>a. req[p].alone => Undisturbed(p)
  BY DEF Undisturbed
<1>s. req'[p].pc # "idle" => T(p)' = T(p)
  BY <1>0 DEF Moves, SameRequest, T
<1> DEFINE nexts == {"wake_touch", "unpause_inspect", "get_tenant", "unpause_container",
                     "wake_update"}
<1>n. nexts \subseteq Pcs
  BY DEF Pcs, SyncPcs, AwaitPcs
<1>o. nexts \subseteq HandlerPcs[req[p].op]
  BY <1>h DEF WakeStep, InHandler, Active, WakeInspect, UnpauseInspect, UnpauseContainer,
       WakeTouch, WakeUpdate, Fetch, HandleCall, At, Ops, HandlerPcs
<1>1. CASE WakeInspect(p)
  <2> DEFINE next == CASE State(p) = "running" -> "wake_touch"
                       [] State(p) = "paused" -> "unpause_inspect"
                       [] OTHER -> "get_tenant"
  <2>1. next \in nexts
    OBVIOUS
  <2>2. container' = container /\ req'[p].pc = next
    BY <1>1, <1>n, <2>1, FetchSteps DEF WakeInspect, docker
  <2>3. T(p)' = T(p)
    BY <1>s, <2>2
  <2>4. SectionFacts(p)' /\ AloneFacts(p)'
    BY <2>2, <2>3 DEF SectionFacts, AloneFacts, HandlerPcs, State
  <2> QED BY <1>0, <1>o, <1>n, <2>1, <2>2, <2>4, MovedInv
<1>2. CASE UnpauseInspect(p)
  <2> DEFINE next == IF State(p) = "paused" THEN "unpause_container" ELSE "wake_update"
  <2>2. /\ container' = container /\ req'[p].pc = next
        /\ req'[p].cid = IF next \in HandlePcs THEN container[T(p)].id ELSE None
    BY <1>2, <1>n, FetchSteps DEF UnpauseInspect, docker
  <2>3. T(p)' = T(p)
    BY <1>s, <2>2
  <2>4. Undisturbed(p) => next = "unpause_container"
    BY <1>2, <1>h DEF UnpauseInspect, Fetch, At, SectionFacts
  <2>5. SectionFacts(p)'
    BY <2>2, <2>3 DEF SectionFacts, HandlePcs, Gone, State
  <2>6. req[p].alone => AloneFacts(p)'
    BY <1>a, <2>2, <2>3, <2>4 DEF AloneFacts, HandlerPcs
  <2> QED BY <1>0, <1>o, <1>n, <2>2, <2>5, <2>6, MovedInv
<1>3. CASE UnpauseContainer(p)
  <2>0. InState(p, "running") \in Containers /\ Proper(InState(p, "running"))
    BY <1>0 DEF InState, Containers, ContainerStates, Proper
  <2>2. CASE Gone(p) /\ container' = container /\ req'[p].pc = "wake_update"
    <3>1. ~Undisturbed(p)
      BY <1>3, <1>h, <2>2 DEF UnpauseContainer, HandleCall, At, SectionFacts
    <3> QED BY <1>0, <1>a, <1>o, <1>n, <2>2, <3>1, MovedInv
  <2>3. CASE container'[T(p)] = InState(p, "running") /\ req'[p].pc = "wake_update"
    <3>1. T(p)' = T(p)
      BY <1>s, <2>3
    <3>2. SectionFacts(p)' /\ AloneFacts(p)'
      BY <2>3, <3>1 DEF SectionFacts, AloneFacts, HandlerPcs, State, InState
    <3> QED BY <1>0, <1>o, <1>n, <2>0, <2>3, <3>2, MovedInv
  <2>4. CASE container' = container /\ req'[p].pc = "idle"
    BY <1>0, <2>4, EndedInv
  <2> QED BY <1>0, <1>3, <1>n, <2>0, <2>2, <2>3, <2>4, HandleCallResult DEF UnpauseContainer
<1>4. CASE WakeTouch(p) \/ WakeUpdate(p)
  <2>1. /\ [row[T(p)] EXCEPT !.idle = 0] \in RowRecords
        /\ [status |-> "running", cid |-> row[T(p)].cid, idle |-> 0] \in RowRecords
    BY ActiveFacts DEF RowRecords, Statuses
  <2> QED BY <1>4, <2>1, CommitInv, AbortInv DEF WakeTouch, WakeUpdate, WakeCommit
<1> QED BY <1>1, <1>2, <1>3, <1>4 DEF WakeStep

LEMMA DeleteInv ==
    ASSUME Typed, NEW p \in Requests, Active(p), Proper(container[T(p)]), RequestInv(p),
           DeleteStep(p)
    PROVE  RequestInv(p)' /\ Proper(container'[T(p)])
<1>0. /\ Moves(p) /\ T(p) \in Tenants
      /\ network \in [Tenants -> BOOLEAN] /\ dirs \in [Tenants -> BOOLEAN]
  BY DeleteSteps, ActiveFacts DEF Steps, Typed, TypeOK
<1>h. InHandler(p) /\ (Undisturbed(p) => SectionFacts(p)) /\ (req[p].alone => AloneFacts(p))
  BY DEF RequestInv
<1>a. req[p].alone => Undisturbed(p)
  BY DEF Undisturbed
<1>s. req'[p].pc # "idle" => T(p)' = T(p)
  BY <1>0 DEF Moves, SameRequest, T
<1> DEFINE nexts == {"set_deleting", "stop_inspect", "remove_dirs", "delete_row"}
<1>n. nexts \subseteq Pcs
  BY DEF Pcs, SyncPcs, AwaitPcs
<1>o. nexts \subseteq HandlerPcs[req[p].op]
  BY <1>h DEF DeleteStep, InHandler, Active, DeleteGet, SetDeleting, RemoveNetwork,
       RemoveTenantDirs, DeleteRow, At, Ops, HandlerPcs
<1>1. CASE DeleteGet(p) \/ SetDeleting(p)
  <2>1. CASE Goto(p, "set_deleting") \/ Goto(p, "stop_inspect")
    <3>1. req'[p].pc \in {"set_deleting", "stop_inspect"}
      BY <1>n, <2>1, GotoMoves
    <3>2. SectionFacts(p)' /\ AloneFacts(p)'
      BY <3>1 DEF SectionFacts, AloneFacts, HandlerPcs
    <3>3. container' = container
      BY <1>1 DEF DeleteGet, SetDeleting, docker
    <3> QED BY <1>0, <1>o, <1>n, <3>1, <3>2, <3>3, MovedInv
  <2>2. CASE EndTransaction(p, "ok") \/ Abort(p)
    <3>1. req'[p].pc = "idle"
      BY <2>2, EndTransactionMoves DEF Abort, Idle
    <3>2. container' = container
      BY <1>1 DEF DeleteGet, SetDeleting, docker
    <3> QED BY <1>0, <3>1, <3>2, EndedInv
  <2> QED BY <1>1, <2>1, <2>2 DEF DeleteGet, SetDeleting
<1>2. CASE RemoveNetwork(p)
  <2>1. CASE Abort(p) /\ UNCHANGED network
    BY <1>2, <2>1, AbortInv DEF RemoveNetwork, docker
  <2>2. CASE network' = [network EXCEPT ![T(p)] = FALSE] /\ Goto(p, "remove_dirs")
    <3>1. ~network'[T(p)] /\ container' = container /\ req'[p].pc = "remove_dirs"
      BY <1>0, <1>2, <1>n, <2>2, GotoMoves DEF RemoveNetwork
    <3>2. T(p)' = T(p)
      BY <1>s, <3>1
    <3>3. Undisturbed(p) => SectionFacts(p)'
      BY <1>2, <1>h, <3>1, <3>2 DEF RemoveNetwork, At, SectionFacts
    <3>4. AloneFacts(p)'
      BY <3>1 DEF AloneFacts, HandlerPcs
    <3> QED BY <1>0, <1>o, <1>n, <3>1, <3>3, <3>4, MovedInv
  <2> QED BY <1>2, <2>1, <2>2 DEF RemoveNetwork
<1>3. CASE RemoveTenantDirs(p)
  <2>1. /\ ~dirs'[T(p)] /\ UNCHANGED <<container, network>> /\ req'[p].pc = "delete_row"
    BY <1>0, <1>3, <1>n, GotoMoves DEF RemoveTenantDirs
  <2>2. T(p)' = T(p)
    BY <1>s, <2>1
  <2>3. SectionFacts(p)'
    BY <2>1 DEF SectionFacts
  <2>4. req[p].alone => AloneFacts(p)'
    BY <1>3, <1>a, <1>h, <2>1, <2>2 DEF RemoveTenantDirs, At, SectionFacts, AloneFacts,
                                        HandlerPcs
  <2> QED BY <1>0, <1>o, <1>n, <2>1, <2>3, <2>4, MovedInv
<1>4. CASE DeleteRow(p)
  <2>1. req'[p].pc = "idle" /\ container' = container
    BY <1>4, EndTransactionMoves DEF DeleteRow, Idle, docker
  <2> QED BY <1>0, <2>1, EndedInv
<1> QED BY <1>1, <1>2, <1>3, <1>4 DEF DeleteStep

-----------------------------------------------------------------------------
(* Each step keeps the RequestInv of the others: they are on another tenant, or   *)
(* wait at an await while the event loop is taken.                                *)

LEMMA StepRuns ==
    ASSUME NEW p \in Requests, Step(p) \/ Fail(p)
    PROVE  Runs(p)
BY DEF Step, Fail, DeadlockAbort, StartStep, StopStep, PauseStep, WakeStep, DeleteStep,
       GetTenant, GetSecrets, InsertDek, CreateTenantDirs, StartInspect, StartUnpause,
       StartRemove, CreateNetwork, CreateContainer, RunContainer, SetRunning,
       StopInspect, StopContainer, RemoveContainer, SetStopped, PauseInspect,
       PauseContainer, SetPaused, WakeInspect, UnpauseInspect, UnpauseContainer,
       WakeTouch, WakeUpdate, DeleteGet, SetDeleting, RemoveNetwork, RemoveTenantDirs,
       DeleteRow, Fetch, HandleCall, At

LEMMA SectionPcs ==
    ASSUME NEW p \in Requests, req[p].pc \notin SyncPcs
    PROVE  SectionFacts(p)
BY DEF SectionFacts, SyncPcs

LEMMA OwnInv ==
    ASSUME IInv, NEW p \in Requests, Step(p) \/ Fail(p)
    PROVE  RequestInv(p)' /\ Proper(container'[T(p)])
<1>1. Typed /\ Active(p) /\ T(p) \in Tenants /\ Proper(container[T(p)]) /\ RequestInv(p)
  BY RequestSteps, ActiveFacts DEF IInv
<1>2. CASE DeadlockAbort(p) \/ Fail(p)
  BY <1>1, <1>2, AbortInv DEF DeadlockAbort, Fail
<1>3. CASE StartStep(p) \/ StopStep(p) \/ PauseStep(p) \/ WakeStep(p) \/ DeleteStep(p)
  BY <1>1, <1>3, StartInv, StopInv, PauseInv, WakeInv, DeleteInv
<1> QED BY <1>2, <1>3 DEF Step

LEMMA OthersInv ==
    ASSUME IInv, NEW p \in Requests, Step(p) \/ Fail(p), NEW q \in Requests \ {p}
    PROVE  RequestInv(q)'
<1>1. Typed /\ Steps(p) /\ Runs(p) /\ RequestInv(q) /\ (Active(q) => T(q) \in Tenants)
  BY RequestSteps, StepRuns DEF IInv, Typed
<1>2. req'[q] = req[q]
  BY <1>1 DEF Steps, Moves, Typed, TypeOK
<1>3. CASE req[q].alone
  <2>1. T(q) \in Tenants \ {T(p)}
    BY <1>1, <1>3 DEF IInv
  <2>2. /\ row'[T(q)] = row[T(q)] /\ container'[T(q)] = container[T(q)]
        /\ network'[T(q)] = network[T(q)] /\ dirs'[T(q)] = dirs[T(q)]
    BY <1>1, <2>1 DEF Steps, Local
  <2>3. T(q)' = T(q) /\ Exists(T(q))' = Exists(T(q)) /\ Gone(q)' = Gone(q) /\ State(q)' = State(q)
    BY <1>2, <2>2 DEF T, Exists, Gone, State
  <2>4. SectionFacts(q) /\ AloneFacts(q) /\ InHandler(q)
    BY <1>1, <1>3 DEF RequestInv, Undisturbed
  <2>5. SectionFacts(q)'
    BY <1>2, <2>2, <2>3, <2>4 DEF SectionFacts
  <2>6. AloneFacts(q)'
    BY <1>2, <2>2, <2>3, <2>4 DEF AloneFacts
  <2>7. InHandler(q)'
    BY <1>2, <2>4 DEF InHandler, Active
  <2> QED BY <2>5, <2>6, <2>7 DEF RequestInv
<1>4. CASE ~req[q].alone
  <2>1. InHandler(q)'
    BY <1>1, <1>2 DEF RequestInv, InHandler, Active
  <2>2. Undisturbed(q)' => SectionFacts(q)'
    <3>1. SUFFICES ASSUME CliCommands = {}
                   PROVE  SectionFacts(q)'
      BY <1>2, <1>4 DEF Undisturbed
    <3>2. p \in ApiRequests /\ q \in ApiRequests
      BY <3>1 DEF Requests
    <3>3. req[q].pc \notin SyncPcs
      BY <1>1, <3>2, NoneAssumption DEF IInv, Runs, Requests
    <3>4. req'[q].pc \notin SyncPcs
      BY <1>2, <3>3
    <3> QED BY <3>4 DEF SectionFacts, SyncPcs
  <2> QED BY <1>2, <1>4, <2>1, <2>2 DEF RequestInv
<1> QED BY <1>3, <1>4

LEMMA RequestStepInv ==
    ASSUME IInv, NEW p \in Requests, Step(p) \/ Fail(p)
    PROVE  IInv'
<1>0. Typed /\ Steps(p) /\ Runs(p) /\ Active(p)
  BY RequestSteps, StepRuns DEF IInv
<1>1. Typed'
  BY <1>0, NextTyped DEF IInv, Next
<1>2. \A t \in Tenants : Proper(container'[t])
  BY <1>0, OwnInv DEF IInv, Steps, Local
<1>r. \A q \in Requests \ {p} : req'[q] = req[q]
  BY <1>0 DEF Steps, Moves, Typed, TypeOK
<1>3. \A q \in ApiRequests : req'[q].pc \in SyncPcs => loop' = q
  <2>1. CASE p \in ApiRequests
    <3>1. \A q \in ApiRequests \ {p} : req[q].pc \notin SyncPcs
      BY <1>0, <2>1, NoneAssumption DEF IInv, Runs, Requests
    <3> QED BY <1>0, <1>r, <2>1, <3>1 DEF Steps, Moves, Requests
  <2>2. CASE p \notin ApiRequests
    BY <1>0, <1>r, <2>2 DEF Steps, Moves, IInv, Requests
  <2> QED BY <2>1, <2>2
<1>4. ASSUME NEW q \in Requests, req'[q].alone
      PROVE  Active(q)' /\ \A o \in Requests \ {q} : T(o)' # T(q)'
  <2>1. CASE q = p
    <3>1. SameRequest(p, req'[p]) /\ req'[p].pc # "idle"
      BY <1>0, <1>4, <2>1 DEF Steps, Moves
    <3> QED BY <1>r, <1>4, <2>1, <3>1 DEF SameRequest, IInv, Active, T
  <2>2. CASE q # p
    <3>1. Active(q) /\ T(q) \in Tenants /\ \A o \in Requests \ {q} : T(o) # T(q)
      BY <1>r, <1>4, <2>2 DEF IInv, Typed
    <3>2. T(p)' = T(p) \/ T(p)' = None
      BY <1>0 DEF Steps, Moves, SameRequest, T
    <3> QED BY <1>r, <2>2, <3>1, <3>2, NoneAssumption DEF Active, T
  <2> QED BY <2>1, <2>2
<1>5. \A q \in Requests : RequestInv(q)'
  BY OwnInv, OthersInv
<1> QED BY <1>1, <1>2, <1>3, <1>4, <1>5 DEF IInv

LEMMA NotAloneFields ==
    ASSUME Typed, NEW q \in Requests, NEW b \in BOOLEAN,
           req'[q] = [req[q] EXCEPT !.alone = b]
    PROVE  /\ req'[q].op = req[q].op /\ req'[q].pc = req[q].pc /\ req'[q].cid = req[q].cid
           /\ req'[q].tenant = req[q].tenant /\ req'[q].alone = b
<1>1. req[q] \in RequestRecords
  BY DEF Typed, TypeOK
<1> QED BY <1>1 DEF RequestRecords

LEMMA BeginInv ==
    ASSUME IInv, NEW p \in Requests, NEW op \in Ops, NEW t \in Tenants, Begin(p, op, t)
    PROVE  IInv'
<1>0. Typed /\ Typed' /\ UNCHANGED <<row, container, network, dirs, loop>>
  BY BeginTyped DEF IInv, Begin, db, docker
<1>1. \A q \in Requests \ {p} :
        /\ req'[q].op = req[q].op /\ req'[q].pc = req[q].pc /\ req'[q].cid = req[q].cid
        /\ req'[q].tenant = req[q].tenant
        /\ req'[q].alone => req[q].alone /\ T(q) # t
  <2> TAKE q \in Requests \ {p}
  <2> DEFINE b == req[q].alone /\ T(q) # t
  <2>1. req[q].alone \in BOOLEAN
    BY <1>0 DEF Typed, TypeOK, RequestRecords
  <2>2. b \in BOOLEAN /\ (b => req[q].alone /\ T(q) # t)
    BY <2>1
  <2>3. req'[q] = [req[q] EXCEPT !.alone = b]
    BY DEF Begin
  <2> QED BY <1>0, <2>2, <2>3, NotAloneFields
<1>2. /\ req'[p].op = op /\ req'[p].pc = Entry[op] /\ req'[p].tenant = t
      /\ req'[p].alone => \A o \in Requests \ {p} : T(o) # t
  BY DEF Begin, Begun
<1>3. /\ Entry[op] \in HandlerPcs[op] /\ Entry[op] \notin SyncPcs /\ Entry[op] # "idle"
      /\ Entry[op] \in {"get_tenant", "stop_inspect", "pause_inspect", "wake_inspect",
                        "delete_get"}
  BY DEF Ops, Entry, HandlerPcs, SyncPcs
<1>4. \A q \in ApiRequests : req'[q].pc \in SyncPcs => loop' = q
  BY <1>0, <1>1, <1>2, <1>3 DEF IInv, Requests
<1>5. ASSUME NEW q \in Requests, req'[q].alone
      PROVE  Active(q)' /\ \A o \in Requests \ {q} : T(o)' # T(q)'
  BY <1>1, <1>2, <1>3, <1>5 DEF IInv, Active, T
<1>6. RequestInv(p)'
  <2>1. SectionFacts(p)' /\ AloneFacts(p)'
    BY <1>2, <1>3 DEF SectionFacts, AloneFacts, HandlerPcs
  <2> QED BY <1>2, <1>3, <2>1 DEF RequestInv, InHandler
<1>7. ASSUME NEW q \in Requests \ {p}
      PROVE  RequestInv(q)'
  <2>1. /\ T(q)' = T(q) /\ Active(q)' = Active(q) /\ Exists(T(q))' = Exists(T(q))
        /\ Gone(q)' = Gone(q) /\ State(q)' = State(q)
    BY <1>0, <1>1 DEF T, Active, Exists, Gone, State
  <2>2. RequestInv(q)
    BY DEF IInv
  <2>3. InHandler(q)'
    BY <1>1, <2>1, <2>2 DEF RequestInv, InHandler
  <2>4. Undisturbed(q)' => SectionFacts(q)'
    <3>1. SUFFICES ASSUME Undisturbed(q)'
                   PROVE  SectionFacts(q)'
      OBVIOUS
    <3>2. SectionFacts(q)
      BY <1>1, <2>2, <3>1 DEF RequestInv, Undisturbed
    <3> QED BY <1>0, <1>1, <2>1, <3>2 DEF SectionFacts
  <2>5. req'[q].alone => AloneFacts(q)'
    <3>1. SUFFICES ASSUME req'[q].alone
                   PROVE  AloneFacts(q)'
      OBVIOUS
    <3>2. AloneFacts(q)
      BY <1>1, <2>2, <3>1 DEF RequestInv
    <3> QED BY <1>0, <1>1, <2>1, <3>2 DEF AloneFacts
  <2> QED BY <2>3, <2>4, <2>5 DEF RequestInv
<1>8. \A u \in Tenants : Proper(container'[u])
  BY <1>0 DEF IInv
<1> QED BY <1>0, <1>4, <1>5, <1>6, <1>7, <1>8 DEF IInv

\* A crash or a restart changes no id and no state that a section relies on.
LEMMA EnvironmentInv ==
    ASSUME IInv, NEW t \in Tenants, ContainerCrash(t) \/ ContainerRestart(t)
    PROVE  IInv'
<1>0. Typed /\ Typed' /\ UNCHANGED <<row, network, dirs, loop>>
  BY EnvironmentTyped DEF IInv, ContainerCrash, ContainerRestart, db
<1>1. \A q \in Requests :
        /\ req'[q].op = req[q].op /\ req'[q].pc = req[q].pc /\ req'[q].cid = req[q].cid
        /\ req'[q].tenant = req[q].tenant
        /\ req'[q].alone => req[q].alone /\ T(q) # t
  <2> TAKE q \in Requests
  <2> DEFINE b == req[q].alone /\ T(q) # t
  <2>1. req[q].alone \in BOOLEAN
    BY <1>0 DEF Typed, TypeOK, RequestRecords
  <2>2. b \in BOOLEAN /\ (b => req[q].alone /\ T(q) # t)
    BY <2>1
  <2>3. req'[q] = [req[q] EXCEPT !.alone = b]
    BY DEF ContainerCrash, ContainerRestart
  <2> QED BY <1>0, <2>2, <2>3, NotAloneFields
<1>2. \A u \in Tenants \ {t} : container'[u] = container[u]
  BY <1>0 DEF ContainerCrash, ContainerRestart, Typed, TypeOK
<1>3. /\ container'[t].id = container[t].id
      /\ container[t].state \in {"running", "restarting"}
      /\ container'[t].state \in {"running", "restarting"}
  <2>1. container \in [Tenants -> Containers] /\ container[t] \in Containers
    BY <1>0 DEF Typed, TypeOK
  <2> QED BY <2>1 DEF ContainerCrash, ContainerRestart, Containers
<1>4. \A q \in ApiRequests : req'[q].pc \in SyncPcs => loop' = q
  BY <1>0, <1>1 DEF IInv, Requests
<1>5. ASSUME NEW q \in Requests, req'[q].alone
      PROVE  Active(q)' /\ \A o \in Requests \ {q} : T(o)' # T(q)'
  BY <1>1, <1>5 DEF IInv, Active, T
<1>6. ASSUME NEW q \in Requests
      PROVE  RequestInv(q)'
  <2>0. RequestInv(q) /\ (Active(q) => T(q) \in Tenants)
    BY DEF IInv, Typed
  <2>1. T(q)' = T(q) /\ Active(q)' = Active(q) /\ Exists(T(q))' = Exists(T(q))
    BY <1>0, <1>1 DEF T, Active, Exists
  <2>2. InHandler(q)'
    BY <1>1, <2>0, <2>1 DEF RequestInv, InHandler
  <2>3. Undisturbed(q)' => SectionFacts(q)'
    <3>1. SUFFICES ASSUME Undisturbed(q)', Active(q)
                   PROVE  SectionFacts(q)'
      BY <1>1 DEF Active, SectionFacts
    <3>2. SectionFacts(q)
      BY <1>1, <2>0, <3>1 DEF RequestInv, Undisturbed
    <3>3. CASE T(q) = t
      <4>1. Gone(q)' = Gone(q) /\ State(q) \in {"running", "restarting"}
            /\ State(q)' \in {"running", "restarting"} /\ container[T(q)] # NoContainer
        BY <1>1, <1>3, <2>1, <3>3 DEF Gone, State, NoContainer
      <4> QED BY <1>0, <1>1, <2>1, <3>2, <4>1 DEF SectionFacts
    <3>4. CASE T(q) # t
      <4>1. container'[T(q)] = container[T(q)]
        BY <1>2, <2>0, <3>1, <3>4
      <4>2. Gone(q)' = Gone(q) /\ State(q)' = State(q)
        BY <1>1, <2>1, <4>1 DEF Gone, State
      <4> QED BY <1>0, <1>1, <2>1, <3>2, <4>1, <4>2 DEF SectionFacts
    <3> QED BY <3>3, <3>4
  <2>4. req'[q].alone => AloneFacts(q)'
    <3>1. SUFFICES ASSUME req'[q].alone
                   PROVE  AloneFacts(q)'
      OBVIOUS
    <3>2. AloneFacts(q) /\ T(q) \in Tenants \ {t}
      BY <1>1, <2>0, <3>1 DEF RequestInv, IInv
    <3>3. container'[T(q)] = container[T(q)]
      BY <1>2, <3>2
    <3>4. Gone(q)' = Gone(q) /\ State(q)' = State(q)
      BY <1>1, <2>1, <3>3 DEF Gone, State
    <3> QED BY <1>0, <1>1, <2>1, <3>2, <3>3, <3>4 DEF AloneFacts
  <2> QED BY <2>2, <2>3, <2>4 DEF RequestInv
<1>7. \A u \in Tenants : Proper(container'[u])
  BY <1>2, <1>3 DEF IInv, Proper
<1> QED BY <1>0, <1>4, <1>5, <1>6, <1>7 DEF IInv

LEMMA InitInv == Init => IInv
<1> SUFFICES ASSUME Init
             PROVE  IInv
  OBVIOUS
<1>1. \A p \in Requests : req[p].pc = "idle" /\ ~req[p].alone
  BY DEF Init, Idle
<1>2. \A p \in Requests : RequestInv(p)
  BY <1>1 DEF RequestInv, InHandler, Active, SectionFacts, AloneFacts, HandlerPcs
<1>3. \A t \in Tenants : Proper(container[t])
  BY DEF Init, Proper
<1>4. "idle" \notin SyncPcs
  BY DEF SyncPcs
<1> QED BY <1>1, <1>2, <1>3, <1>4, InitTyped DEF IInv, Requests

LEMMA StutterInv == IInv /\ UNCHANGED vars => IInv'
<1> SUFFICES ASSUME IInv, UNCHANGED vars
             PROVE  IInv'
  OBVIOUS
<1>1. Typed'
  BY NextTyped DEF IInv
<1> QED BY <1>1 DEF IInv, vars, Proper, RequestInv, InHandler, SectionFacts, AloneFacts,
                    Undisturbed, Active, T, Gone, State, Exists

LEMMA NextInv == IInv /\ [Next]_vars => IInv'
BY StutterInv, RequestStepInv, BeginInv, EnvironmentInv DEF Next

\* The inductive invariant holds in every reachable state.
LEMMA InvAlways == Spec => []IInv
BY InitInv, NextInv, PTL DEF Spec

-----------------------------------------------------------------------------
(* What follows from it.                                                         *)

LEMMA NoConflictFacts ==
    ASSUME IInv, CliCommands = {}
    PROVE  NoDockerConflict
<1>1. \A p \in ApiRequests : SectionFacts(p)
  BY DEF IInv, RequestInv, Undisturbed, Requests
<1>2. NoContainer.state = "not_found"
  BY DEF NoContainer
<1> QED BY <1>1, <1>2 DEF NoDockerConflict, SectionFacts, HandlePcs, SyncPcs

\* While no CLI command runs beside the API process, however many API requests
\* there are, no request's Docker calls meet a container its synchronous section
\* has not seen (docker_orch.py:286-456).
THEOREM NoConflict ==
    ASSUME CliCommands = {}
    PROVE  Spec => []NoDockerConflict
<1>1. IInv => NoDockerConflict
  BY NoConflictFacts
<1> QED BY <1>1, InvAlways, PTL

LEMMA FetchGoesOn ==
    ASSUME Typed, NEW p \in Requests, NEW pc, NEW next \in Pcs, pc # "idle",
           Fetch(p, pc, next)
    PROVE  ~Commits(p)
BY FetchSteps DEF Commits, Pcs, SyncPcs, AwaitPcs

LEMMA HandleCallGoesOn ==
    ASSUME Typed, NEW p \in Requests, NEW pc, pc # "idle", NEW gonePc \in Pcs,
           NEW accepted, NEW c, NEW next \in Pcs,
           HandleCall(p, pc, gonePc, accepted, c, next)
    PROVE  ~Commits(p)
<1>1. Active(p)
  BY DEF HandleCall, At, Active
<1>2. CASE Goto(p, gonePc) \/ Goto(p, next)
  BY <1>1, <1>2, GotoMoves DEF Commits, Pcs, SyncPcs, AwaitPcs
<1>3. CASE Abort(p)
  BY <1>3, EndTransactionMoves DEF Abort, Idle, Commits
<1> QED BY <1>2, <1>3 DEF HandleCall

\* A request that commits does so at the last pc of its handler.
LEMMA CommitPcs ==
    ASSUME Typed, NEW p \in Requests, [Next]_vars, Commits(p), req[p].pc # "delete_get"
    PROVE  \/ SetRunning(p) \/ SetStopped(p) \/ SetPaused(p) \/ WakeTouch(p)
           \/ WakeUpdate(p) \/ DeleteRow(p)
<1>1. CASE UNCHANGED vars
  BY <1>1 DEF vars, Commits, Active
<1>2. ASSUME NEW q \in Requests, Step(q) \/ Fail(q), q # p
      PROVE  FALSE
  <2>1. req'[p] = req[p]
    BY <1>2, RequestSteps DEF Steps, Moves, Typed, TypeOK
  <2> QED BY <2>1 DEF Commits, Active
<1>3. ASSUME NEW q \in Requests, NEW op \in Ops, NEW t \in Tenants, Begin(q, op, t)
      PROVE  FALSE
  <2>1. p # q /\ req[p].alone \in BOOLEAN
    BY <1>3 DEF Begin, Commits, Typed, TypeOK, RequestRecords
  <2>2. req'[p] = [req[p] EXCEPT !.alone = @ /\ T(p) # t]
    BY <1>3, <2>1 DEF Begin
  <2>3. req'[p].pc = req[p].pc
    BY <2>1, <2>2, NotAloneFields
  <2> QED BY <2>3 DEF Commits, Active
<1>4. ASSUME NEW t \in Tenants, ContainerCrash(t) \/ ContainerRestart(t)
      PROVE  FALSE
  <2>1. req[p].alone \in BOOLEAN
    BY DEF Typed, TypeOK, RequestRecords
  <2>2. req'[p] = [req[p] EXCEPT !.alone = @ /\ T(p) # t]
    BY <1>4 DEF ContainerCrash, ContainerRestart
  <2>3. req'[p].pc = req[p].pc
    BY <2>1, <2>2, NotAloneFields
  <2> QED BY <2>3 DEF Commits, Active
<1>5. ASSUME Step(p) \/ Fail(p)
      PROVE  \/ SetRunning(p) \/ SetStopped(p) \/ SetPaused(p) \/ WakeTouch(p)
             \/ WakeUpdate(p) \/ DeleteRow(p)
  <2>0. Active(p)
    BY DEF Commits
  <2>1. ~Abort(p)
    BY EndTransactionMoves DEF Abort, Idle, Commits
  <2>2. \A pc \in Pcs : ~Goto(p, pc)
    BY <2>0, GotoMoves DEF Commits, Pcs, SyncPcs, AwaitPcs
  <2>5. CASE StartStep(p)
    <3>1. ~GetTenant(p) /\ ~GetSecrets(p) /\ ~CreateTenantDirs(p) /\ ~CreateNetwork(p)
      BY <2>1, <2>2 DEF GetTenant, GetSecrets, CreateTenantDirs, CreateNetwork, Pcs, SyncPcs,
                        AwaitPcs
    <3>2. ~InsertDek(p) /\ ~CreateContainer(p)
      <4>1. req[p] \in RequestRecords
        BY DEF Typed, TypeOK
      <4> DEFINE r == [req[p] EXCEPT !.newDek = TRUE, !.pc = "create_dirs"]
      <4>2. ~InsertDek(p)
        <5>1. Become(p, r) => req'[p].pc = "create_dirs"
          BY <4>1 DEF Become, Typed, TypeOK, RequestRecords
        <5> QED BY <2>1, <5>1 DEF InsertDek, Commits
      <4>3. \A id : ~Become(p, [req[p] EXCEPT !.pc = "run_container", !.cid = id])
        <5> SUFFICES ASSUME NEW id,
                            Become(p, [req[p] EXCEPT !.pc = "run_container", !.cid = id])
                     PROVE  FALSE
          OBVIOUS
        <5>1. req'[p].pc = "run_container"
          BY <4>1 DEF Become, Typed, TypeOK, RequestRecords
        <5> QED BY <5>1 DEF Commits
      <4>4. ~CreateContainer(p)
        BY <2>1, <4>3 DEF CreateContainer
      <4> QED BY <4>2, <4>4
    <3>3. ~StartInspect(p)
      <4>1. StartCase[State(p)] \in Pcs
        BY <2>0, ActiveFacts DEF StartCase, ContainerStates, Pcs, SyncPcs, AwaitPcs
      <4> QED BY <4>1, FetchGoesOn DEF StartInspect
    <3>4. "create_network" \in Pcs /\ "set_running" \in Pcs
      BY DEF Pcs, SyncPcs, AwaitPcs
    <3>5. ~StartUnpause(p) /\ ~StartRemove(p)
      BY <3>4, HandleCallGoesOn DEF StartUnpause, StartRemove
    <3>6. ~RunContainer(p)
      BY <2>1, <2>2, <3>4 DEF RunContainer
    <3> QED BY <2>5, <3>1, <3>2, <3>3, <3>5, <3>6 DEF StartStep
  <2>6. CASE StopStep(p)
    <3>1. Stopped(p) \in Pcs /\ {"stop_container", "remove_container"} \subseteq Pcs
      BY DEF Stopped, Pcs, SyncPcs, AwaitPcs
    <3>2. ~StopInspect(p)
      BY <3>1, FetchGoesOn DEF StopInspect
    <3>3. ~StopContainer(p) /\ ~RemoveContainer(p)
      BY <3>1, HandleCallGoesOn DEF StopContainer, RemoveContainer
    <3> QED BY <2>6, <3>2, <3>3 DEF StopStep
  <2>7. CASE PauseStep(p)
    <3>1. {"pause_container", "set_paused"} \subseteq Pcs
      BY DEF Pcs, SyncPcs, AwaitPcs
    <3>2. ~PauseInspect(p)
      BY <3>1, FetchGoesOn DEF PauseInspect
    <3>3. ~PauseContainer(p)
      BY <3>1, HandleCallGoesOn DEF PauseContainer
    <3> QED BY <2>7, <3>2, <3>3 DEF PauseStep
  <2>8. CASE WakeStep(p)
    <3>1. {"wake_touch", "unpause_inspect", "get_tenant", "unpause_container",
           "wake_update"} \subseteq Pcs
      BY DEF Pcs, SyncPcs, AwaitPcs
    <3>2. (CASE State(p) = "running" -> "wake_touch"
             [] State(p) = "paused" -> "unpause_inspect"
             [] OTHER -> "get_tenant") \in Pcs
      BY <3>1
    <3>3. ~WakeInspect(p) /\ ~UnpauseInspect(p)
      BY <3>1, <3>2, FetchGoesOn DEF WakeInspect, UnpauseInspect
    <3>4. ~UnpauseContainer(p)
      BY <3>1, HandleCallGoesOn DEF UnpauseContainer
    <3> QED BY <2>8, <3>3, <3>4 DEF WakeStep
  <2>9. CASE DeleteStep(p)
    <3>1. {"set_deleting", "stop_inspect", "remove_dirs", "delete_row"} \subseteq Pcs
      BY DEF Pcs, SyncPcs, AwaitPcs
    <3> QED BY <2>1, <2>2, <2>9, <3>1 DEF DeleteStep, DeleteGet, SetDeleting, RemoveNetwork,
                                          RemoveTenantDirs, At
  <2> QED BY <1>5, <2>1, <2>5, <2>6, <2>7, <2>8, <2>9 DEF Step, DeadlockAbort, Fail
<1> QED BY <1>1, <1>2, <1>3, <1>4, <1>5 DEF Next

LEMMA CommitDelivers ==
    ASSUME IInv, [Next]_vars, NEW p \in Requests, NEW op \in Ops, NEW t \in Tenants,
           Commits(p), req[p].alone, req[p].pc # "delete_get", req[p].op = op, T(p) = t
    PROVE  Delivered(op, t)'
<1>1. /\ Typed /\ Active(p) /\ InHandler(p) /\ AloneFacts(p) /\ SectionFacts(p)
      /\ row[t] \in RowRecords /\ container[t] \in Containers
      /\ row \in [Tenants -> RowRecords] /\ dek \in [Tenants -> BOOLEAN]
  BY ActiveFacts DEF IInv, RequestInv, Undisturbed, Commits, Typed, TypeOK
<1>c. ASSUME NEW r \in RowRecords, CommitUpdate(p, r)
      PROVE  /\ UNCHANGED docker
             /\ row'[t] = IF Exists(t) THEN r ELSE row[t]
  BY <1>1, <1>c, CommitUpdateSteps
<1>2. CASE SetRunning(p)
  <2>1. [status |-> "running", cid |-> req[p].cid, idle |-> 0] \in RowRecords
    BY <1>1, ActiveFacts DEF RowRecords, Statuses
  <2>2. req[p].pc = "set_running" /\ op \in {"start", "wake"}
    BY <1>1, <1>2 DEF SetRunning, At, InHandler, Ops, HandlerPcs
  <2>3. /\ container'[t] = container[t] /\ container[t].state = "running"
        /\ container[t].id = req[p].cid /\ Exists(t)
    BY <1>1, <1>2, <1>c, <2>1, <2>2
       DEF SetRunning, AloneFacts, Gone, State, docker, HandlerPcs
  <2>4. row'[t] = [status |-> "running", cid |-> container[t].id, idle |-> 0]
    BY <1>2, <1>c, <2>1, <2>3 DEF SetRunning
  <2>5. row'[t].status # "absent" /\ row'[t].idle = 0
    BY <2>4
  <2>6. /\ container'[t].state = "running"
        /\ row'[t] = [status |-> "running", cid |-> container'[t].id, idle |-> 0]
    BY <2>3, <2>4
  <2>7. CASE op = "start"
    BY <2>6, <2>7 DEF Delivered
  <2>8. CASE op = "wake"
    BY <2>5, <2>6, <2>8 DEF Delivered, Exists
  <2> QED BY <2>2, <2>7, <2>8
<1>3. CASE SetStopped(p)
  <2>1. [row[t] EXCEPT !.status = "stopped", !.cid = None] \in RowRecords
    BY <1>1 DEF RowRecords, Statuses
  <2>2. req[p].pc = "set_stopped" /\ op = "stop"
    BY <1>1, <1>3 DEF SetStopped, At, InHandler, Ops, HandlerPcs
  <2>3. container'[t] = NoContainer
    BY <1>1, <1>3, <1>c, <2>1, <2>2 DEF SetStopped, AloneFacts, docker
  <2>4. row'[t] = IF Exists(t) THEN [row[t] EXCEPT !.status = "stopped", !.cid = None]
                  ELSE row[t]
    BY <1>3, <1>c, <2>1 DEF SetStopped
  <2>5. [row[t] EXCEPT !.status = "stopped", !.cid = None].status = "stopped"
    BY <1>1 DEF RowRecords
  <2>6. row'[t].status \in {"stopped", "absent"}
    BY <2>4, <2>5 DEF Exists
  <2> QED BY <2>2, <2>3, <2>6 DEF Delivered
<1>4. CASE SetPaused(p)
  <2>1. [row[t] EXCEPT !.status = "paused"] \in RowRecords
    BY <1>1 DEF RowRecords, Statuses
  <2>2. req[p].pc = "set_paused" /\ op = "pause"
    BY <1>1, <1>4 DEF SetPaused, At, InHandler, Ops, HandlerPcs
  <2>3. container'[t].state # "running"
    BY <1>1, <1>4, <1>c, <2>1, <2>2 DEF SetPaused, AloneFacts, State, docker
  <2>4. row'[t] = IF Exists(t) THEN [row[t] EXCEPT !.status = "paused"] ELSE row[t]
    BY <1>4, <1>c, <2>1 DEF SetPaused
  <2>5. [row[t] EXCEPT !.status = "paused"].status = "paused"
    BY <1>1 DEF RowRecords
  <2> QED BY <2>2, <2>3, <2>4, <2>5 DEF Delivered, Exists
<1>5. CASE WakeTouch(p)
  <2>1. [row[t] EXCEPT !.idle = 0] \in RowRecords
    BY <1>1 DEF RowRecords
  <2>2. req[p].pc = "wake_touch" /\ op = "wake"
    BY <1>1, <1>5 DEF WakeTouch, At, InHandler, Ops, HandlerPcs
  <2>3. ~Abort(p)
    BY <1>1, EndTransactionMoves DEF Abort, Idle, Commits
  <2>4. Exists(t) /\ CommitUpdate(p, [row[t] EXCEPT !.idle = 0])
    BY <1>5, <2>3 DEF WakeTouch, WakeCommit
  <2>5. container'[t].state = "running"
    BY <1>1, <1>c, <2>1, <2>2, <2>4 DEF AloneFacts, State, docker
  <2>6. row'[t].status # "absent" /\ row'[t].idle = 0
    BY <1>1, <1>c, <2>1, <2>4 DEF RowRecords, Exists
  <2> QED BY <2>2, <2>5, <2>6 DEF Delivered, Exists
<1>6. CASE WakeUpdate(p)
  <2> DEFINE r == [status |-> "running", cid |-> row[t].cid, idle |-> 0]
  <2>1. r \in RowRecords
    BY <1>1 DEF RowRecords, Statuses
  <2>2. req[p].pc = "wake_update" /\ op = "wake"
    BY <1>1, <1>6 DEF WakeUpdate, At, InHandler, Ops, HandlerPcs
  <2>3. ~Abort(p)
    BY <1>1, EndTransactionMoves DEF Abort, Idle, Commits
  <2>4. Exists(t) /\ CommitUpdate(p, r)
    BY <1>6, <2>3 DEF WakeUpdate, WakeCommit
  <2>5. container'[t].state = "running"
    BY <1>1, <1>c, <2>1, <2>2, <2>4 DEF AloneFacts, State, docker
  <2>6. row'[t] = r
    BY <1>c, <2>1, <2>4
  <2> QED BY <2>2, <2>5, <2>6 DEF Delivered, Exists
<1>7. CASE DeleteRow(p)
  <2>1. req[p].pc = "delete_row" /\ op = "delete"
    BY <1>1, <1>7 DEF DeleteRow, At, InHandler, Ops, HandlerPcs
  <2>2. row'[t] = NoRow /\ ~dek'[t] /\ UNCHANGED docker
    BY <1>1, <1>7 DEF DeleteRow
  <2> QED BY <1>1, <2>1, <2>2 DEF Delivered, AloneFacts, Exists, NoRow, docker
<1> QED BY <1>1, <1>2, <1>3, <1>4, <1>5, <1>6, <1>7, CommitPcs

\* A request that commits and was alone on its tenant leaves what its handler is
\* to deliver (tenant_service.py:127-225), from every reachable mismatch of rows,
\* containers, networks and directories.
THEOREM AloneDelivered == Spec => AloneDelivers
<1> DEFINE A == \A p \in Requests, op \in Ops, t \in Tenants :
                  /\ Commits(p) /\ req[p].alone /\ req[p].pc # "delete_get"
                  /\ req[p].op = op /\ T(p) = t
                  => Delivered(op, t)'
<1>1. IInv /\ [Next]_vars => [A]_vars
  BY CommitDelivers
<1>2. Spec => [][A]_vars
  BY <1>1, InvAlways, PTL DEF Spec
<1> QED BY <1>2 DEF AloneDelivers

\* What an undisturbed request may do to a paused container.
LEMMA PausedStep ==
    ASSUME IInv, NEW p \in Requests, Undisturbed(p), Step(p) \/ Fail(p), State(p) = "paused"
    PROVE  \/ container' = container
           \/ container'[T(p)] = [id |-> container[T(p)].id, state |-> "running"]
           \/ req[p].op \in {"stop", "delete"} /\ req'[p].pc # req[p].pc
<1>1. /\ Typed /\ Active(p) /\ T(p) \in Tenants /\ InHandler(p) /\ SectionFacts(p)
      /\ req[p].cid \in ContainerIds \cup {None} /\ State(p) \in ContainerStates
      /\ Stopped(p) \in Pcs
  BY RequestSteps, ActiveFacts DEF IInv, RequestInv
<1>2. container[T(p)] # NoContainer
  BY DEF State, NoContainer
<1>3. CASE Abort(p) /\ UNCHANGED docker
  BY <1>3 DEF docker
<1>4. CASE StartStep(p)
  <2>1. ~StartRemove(p) /\ ~CreateContainer(p) /\ ~RunContainer(p)
    BY <1>1, <1>2 DEF StartRemove, CreateContainer, RunContainer, HandleCall, At, SectionFacts
  <2>2. CASE StartUnpause(p)
    <3>1. ~Gone(p)
      BY <1>1, <2>2 DEF StartUnpause, HandleCall, At, SectionFacts
    <3>2. InState(p, "running") = [id |-> container[T(p)].id, state |-> "running"]
      BY <3>1 DEF InState, Gone
    <3>3. InState(p, "running") \in Containers /\ {"create_network", "set_running"} \subseteq Pcs
      BY <1>1 DEF InState, Containers, ContainerStates, Pcs, SyncPcs, AwaitPcs
    <3> QED BY <1>1, <2>2, <3>1, <3>2, <3>3, HandleCallResult DEF StartUnpause
  <2>3. CASE ~StartUnpause(p)
    BY <1>4, <2>1, <2>3 DEF StartStep, GetTenant, GetSecrets, InsertDek, CreateTenantDirs,
       StartInspect, CreateNetwork, SetRunning, CommitUpdate, Fetch, docker
  <2> QED BY <2>2, <2>3
<1>5. CASE StopStep(p)
  <2>1. CASE StopInspect(p) \/ SetStopped(p)
    BY <2>1 DEF StopInspect, SetStopped, CommitUpdate, Fetch, docker
  <2>2. CASE StopContainer(p)
    <3>1. req[p].pc = "stop_container" /\ req[p].op \in {"stop", "delete"}
      BY <1>1, <2>2 DEF StopContainer, HandleCall, At, InHandler, Ops, HandlerPcs
    <3>2. /\ InState(p, IF State(p) = "created" THEN "created" ELSE "exited") \in Containers
          /\ "remove_container" \in Pcs
      BY <1>1 DEF InState, Containers, ContainerStates, Pcs, SyncPcs
    <3>3. req'[p].pc \in {Stopped(p), "remove_container", "idle"}
      BY <1>1, <2>2, <3>2, HandleCallResult DEF StopContainer
    <3> QED BY <3>1, <3>3 DEF Stopped
  <2>3. CASE RemoveContainer(p)
    <3>1. req[p].pc = "remove_container" /\ req[p].op \in {"stop", "delete"}
      BY <1>1, <2>3 DEF RemoveContainer, HandleCall, At, InHandler, Ops, HandlerPcs
    <3>2. NoContainer \in Containers
      BY DEF NoContainer, Containers, ContainerStates
    <3>3. req'[p].pc \in {Stopped(p), "idle"}
      BY <1>1, <2>3, <3>2, HandleCallResult DEF RemoveContainer
    <3> QED BY <3>1, <3>3 DEF Stopped
  <2> QED BY <1>5, <2>1, <2>2, <2>3 DEF StopStep
<1>6. CASE PauseStep(p)
  <2>1. CASE PauseContainer(p)
    BY <2>1 DEF PauseContainer, HandleCall
  <2> QED BY <1>6, <2>1 DEF PauseStep, PauseInspect, SetPaused, CommitUpdate, Fetch, docker
<1>7. CASE WakeStep(p)
  <2>1. CASE UnpauseContainer(p)
    <3>1. ~Gone(p)
      BY <1>1, <2>1 DEF UnpauseContainer, HandleCall, At, SectionFacts
    <3>2. InState(p, "running") = [id |-> container[T(p)].id, state |-> "running"]
      BY <3>1 DEF InState, Gone
    <3>3. InState(p, "running") \in Containers /\ "wake_update" \in Pcs
      BY <1>1 DEF InState, Containers, ContainerStates, Pcs, AwaitPcs
    <3> QED BY <1>1, <2>1, <3>1, <3>2, <3>3, HandleCallResult DEF UnpauseContainer
  <2>2. CASE ~UnpauseContainer(p)
    BY <1>7, <2>2 DEF WakeStep, WakeInspect, UnpauseInspect, WakeTouch, WakeUpdate, WakeCommit,
                      CommitUpdate, Fetch, docker
  <2> QED BY <2>1, <2>2
<1>8. CASE DeleteStep(p)
  BY <1>8 DEF DeleteStep, DeleteGet, SetDeleting, RemoveNetwork, RemoveTenantDirs, DeleteRow,
              docker
<1> QED BY <1>3, <1>4, <1>5, <1>6, <1>7, <1>8 DEF Step, DeadlockAbort, Fail

\* While no CLI command runs, a request replaces no paused container.
LEMMA PausedNext ==
    ASSUME CliCommands = {}, IInv, [Next]_vars, NEW t \in Tenants,
           container[t].state = "paused"
    PROVE  \/ container'[t].id = container[t].id /\ container'[t].state \in {"paused", "running"}
           \/ \E p \in Requests : /\ T(p) = t /\ req[p].op \in {"stop", "delete"}
                                  /\ req'[p] # req[p]
<1>1. CASE container'[t] = container[t]
  BY <1>1
<1>2. ASSUME NEW p \in Requests, Step(p) \/ Fail(p), T(p) # t
      PROVE  container'[t] = container[t]
  BY <1>2, RequestSteps DEF IInv, Steps, Local
<1>3. ASSUME NEW p \in Requests, Step(p) \/ Fail(p), T(p) = t
      PROVE  \/ container' = container
             \/ container'[t] = [id |-> container[t].id, state |-> "running"]
             \/ req[p].op \in {"stop", "delete"} /\ req'[p].pc # req[p].pc
  BY <1>3, PausedStep DEF Undisturbed, State
<1>4. ASSUME NEW u \in Tenants, ContainerCrash(u) \/ ContainerRestart(u)
      PROVE  container'[t] = container[t]
  <2>1. u # t
    BY <1>4 DEF ContainerCrash, ContainerRestart
  <2> QED BY <1>4, <2>1 DEF ContainerCrash, ContainerRestart, IInv, Typed, TypeOK
<1>5. ASSUME NEW p \in Requests, NEW op \in Ops, NEW u \in Tenants, Begin(p, op, u)
      PROVE  container'[t] = container[t]
  BY <1>5 DEF Begin, docker
<1>6. CASE UNCHANGED vars
  BY <1>1, <1>6 DEF vars
<1>7. ASSUME NEW p \in Requests, Step(p) \/ Fail(p)
      PROVE  \/ /\ container'[t].id = container[t].id
                /\ container'[t].state \in {"paused", "running"}
             \/ T(p) = t /\ req[p].op \in {"stop", "delete"} /\ req'[p] # req[p]
  <2>1. CASE T(p) # t
    BY <1>2, <1>7, <2>1
  <2>2. CASE T(p) = t
    BY <1>3, <1>7, <2>2
  <2> QED BY <2>1, <2>2
<1>8. CASE \E p \in Requests : Step(p) \/ Fail(p)
  BY <1>7, <1>8
<1> QED BY <1>1, <1>4, <1>5, <1>6, <1>8 DEF Next

\* While no CLI command runs beside the API process, a paused container is unpaused
\* in place or taken by a stop or a delete, and never replaced (docker_orch.py:328-341).
THEOREM PauseRetained ==
    ASSUME CliCommands = {}
    PROVE  Spec => PauseRetainsMemory
<1> DEFINE A == \A t \in Tenants : container[t].state = "paused" =>
                  \/ container'[t].id = container[t].id /\ container'[t].state \in {"paused", "running"}
                  \/ \E p \in Requests : /\ T(p) = t /\ req[p].op \in {"stop", "delete"}
                                         /\ req'[p] # req[p]
<1>1. IInv /\ [Next]_vars => [A]_vars
  BY PausedNext
<1>2. Spec => [][A]_vars
  BY <1>1, InvAlways, PTL DEF Spec
<1> QED BY <1>2 DEF PauseRetainsMemory

-----------------------------------------------------------------------------
(* Locks.  The holder of a row lock is a delete on its way through Docker, and   *)
(* the holder of an uncommitted key a start or a wake on its way to set_running. *)

HoldPcs == {"stop_inspect", "stop_container", "remove_container", "remove_network",
            "remove_dirs", "delete_row"}
KeyedPcs == {"create_dirs", "start_inspect", "start_unpause", "start_remove",
             "create_network", "create_container", "run_container", "set_running"}

Holding(q) == req[q].op = "delete" /\ req[q].pc \in HoldPcs

LockInv ==
    /\ \A t \in Tenants, q \in Requests : rowLock[t] = q => T(q) = t /\ Holding(q)
    /\ \A p \in Requests : req[p].newDek => req[p].pc \in KeyedPcs
    /\ loop # None => req[loop].pc \in SyncPcs

\* A step of p that goes on in its handler.
GoesOn(p) ==
    /\ req'[p].newDek = req[p].newDek
    /\ Holding(p) => req'[p].pc \in HoldPcs
    /\ req[p].pc \in KeyedPcs => req'[p].pc \in KeyedPcs

Ends(p) == \E result \in {"ok", "error"} : EndTransaction(p, result)

\* What a step of p does to the locks.
LockStep(p) ==
    \/ Ends(p)
    \/ GoesOn(p) /\ rowLock' = rowLock
    \/ rowLock' = rowLock /\ req[p].pc = "insert_dek" /\ req'[p].pc = "create_dirs"
    \/ /\ req[p].pc = "set_deleting" /\ req[p].op = "delete"
       /\ req'[p].pc = "stop_inspect" /\ req'[p].newDek = req[p].newDek
       /\ rowLock' = [rowLock EXCEPT ![T(p)] = p]

LEMMA GotoKeepsLocks ==
    ASSUME Typed, NEW p \in Requests, Active(p), NEW pc \in Pcs, Goto(p, pc)
    PROVE  req'[p].pc = pc /\ req'[p].newDek = req[p].newDek
<1>1. req[p] \in RequestRecords /\ req \in [Requests -> RequestRecords]
  BY DEF Typed, TypeOK
<1> QED BY <1>1 DEF Goto, Become, RequestRecords

LEMMA FetchKeepsLocks ==
    ASSUME Typed, NEW p \in Requests, NEW pc, NEW next \in Pcs, Fetch(p, pc, next)
    PROVE  /\ req'[p].pc = next /\ req'[p].newDek = req[p].newDek
           /\ rowLock' = rowLock /\ req[p].pc = pc
<1>1. req[p] \in RequestRecords /\ req \in [Requests -> RequestRecords]
  BY DEF Typed, TypeOK
<1> QED BY <1>1 DEF Fetch, At, Become, RequestRecords, db

LEMMA HandleCallKeepsLocks ==
    ASSUME Typed, NEW p \in Requests, NEW pc, pc # "idle", NEW gonePc \in Pcs,
           NEW accepted, NEW c, NEW next \in Pcs,
           HandleCall(p, pc, gonePc, accepted, c, next)
    PROVE  \/ Ends(p)
           \/ /\ req'[p].pc \in {gonePc, next} /\ req'[p].newDek = req[p].newDek
              /\ rowLock' = rowLock /\ req[p].pc = pc
<1>1. Active(p) /\ req[p].pc = pc
  BY DEF HandleCall, At, Active
<1>2. CASE (Goto(p, gonePc) \/ Goto(p, next)) /\ UNCHANGED db
  BY <1>1, <1>2, GotoKeepsLocks DEF db
<1>3. CASE Abort(p)
  BY <1>3 DEF Abort, Ends
<1> QED BY <1>2, <1>3 DEF HandleCall

LEMMA StepLocks ==
    ASSUME IInv, NEW p \in Requests, Step(p) \/ Fail(p)
    PROVE  LockStep(p)
<1>1. Typed /\ Active(p) /\ InHandler(p) /\ T(p) \in Tenants /\ State(p) \in ContainerStates
      /\ req[p] \in RequestRecords
  BY RequestSteps, ActiveFacts DEF IInv, RequestInv
<1>p. HoldPcs \cup KeyedPcs \cup {"get_secrets", "insert_dek", "set_stopped", "pause_container",
         "set_paused", "wake_touch", "unpause_inspect", "get_tenant", "unpause_container",
         "wake_update", "set_deleting"} \subseteq Pcs
  BY DEF HoldPcs, KeyedPcs, Pcs, SyncPcs, AwaitPcs
<1>a. CASE Abort(p)
  BY <1>a DEF Abort, LockStep, Ends
<1>c. ASSUME NEW r, CommitUpdate(p, r)
      PROVE  LockStep(p)
  BY <1>c DEF CommitUpdate, LockStep, Ends
<1>g. ASSUME NEW pc \in Pcs, Goto(p, pc), rowLock' = rowLock,
             Holding(p) => pc \in HoldPcs, req[p].pc \in KeyedPcs => pc \in KeyedPcs
      PROVE  LockStep(p)
  BY <1>1, <1>g, GotoKeepsLocks DEF LockStep, GoesOn
<1>2. CASE StartStep(p)
  <2>1. CASE GetTenant(p) \/ GetSecrets(p)
    BY <1>p, <1>a, <1>g, <2>1 DEF GetTenant, GetSecrets, At, Holding, HoldPcs, KeyedPcs, db
  <2>2. CASE InsertDek(p)
    <3>1. CASE Become(p, [req[p] EXCEPT !.newDek = TRUE, !.pc = "create_dirs"]) /\ UNCHANGED db
      BY <1>1, <2>2, <3>1
         DEF InsertDek, At, Become, LockStep, db, Typed, TypeOK, RequestRecords
    <3> QED BY <1>a, <2>2, <3>1 DEF InsertDek
  <2>3. CASE CreateTenantDirs(p) \/ CreateNetwork(p)
    BY <1>p, <1>g, <2>3 DEF CreateTenantDirs, CreateNetwork, At, Holding, HoldPcs, KeyedPcs, db
  <2>4. CASE StartInspect(p)
    <3>1. StartCase[State(p)] \in KeyedPcs
      BY <1>1 DEF StartCase, ContainerStates, KeyedPcs
    <3>2. StartCase[State(p)] \in Pcs
      BY <1>p, <3>1
    <3> HIDE DEF KeyedPcs
    <3> QED BY <1>1, <2>4, <3>1, <3>2, FetchKeepsLocks
         DEF StartInspect, LockStep, GoesOn, Holding, HoldPcs
  <2>5. CASE StartUnpause(p) \/ StartRemove(p)
    <3>1. "create_network" \in Pcs /\ "set_running" \in Pcs
      BY <1>p DEF KeyedPcs
    <3>2. \/ Ends(p)
          \/ /\ req'[p].pc \in {"create_network", "set_running"}
             /\ req'[p].newDek = req[p].newDek /\ rowLock' = rowLock
             /\ req[p].pc \in {"start_unpause", "start_remove"}
      BY <1>1, <2>5, <3>1, HandleCallKeepsLocks DEF StartUnpause, StartRemove
    <3> QED BY <3>2 DEF LockStep, GoesOn, Holding, HoldPcs, KeyedPcs
  <2>6. CASE CreateContainer(p)
    <3>1. ASSUME NEW id, Become(p, [req[p] EXCEPT !.pc = "run_container", !.cid = id]),
                 UNCHANGED db
          PROVE  LockStep(p)
      <4>1. req'[p].pc = "run_container" /\ req'[p].newDek = req[p].newDek
        BY <1>1, <3>1 DEF Become, Typed, TypeOK, RequestRecords
      <4> QED BY <2>6, <3>1, <4>1
           DEF CreateContainer, At, LockStep, GoesOn, Holding, HoldPcs, KeyedPcs, db
    <3> QED BY <1>a, <2>6, <3>1 DEF CreateContainer
  <2>7. CASE RunContainer(p)
    BY <1>p, <1>a, <1>g, <2>7 DEF RunContainer, At, Holding, HoldPcs, KeyedPcs, db
  <2>8. CASE SetRunning(p)
    BY <1>c, <2>8 DEF SetRunning
  <2> QED BY <1>2, <2>1, <2>2, <2>3, <2>4, <2>5, <2>6, <2>7, <2>8 DEF StartStep
<1>3. CASE StopStep(p)
  <2>0. /\ Stopped(p) \in Pcs /\ "remove_container" \in Pcs /\ "stop_container" \in Pcs
        /\ req[p].op = "delete" => Stopped(p) \in HoldPcs
    BY <1>p DEF Stopped, HoldPcs
  <2>1. ASSUME req[p].pc \in {"stop_inspect", "stop_container", "remove_container"},
               req'[p].pc \in {Stopped(p), "stop_container", "remove_container"},
               req'[p].newDek = req[p].newDek, rowLock' = rowLock
        PROVE  LockStep(p)
    BY <2>0, <2>1 DEF LockStep, GoesOn, Holding, HoldPcs, KeyedPcs
  <2>2. CASE StopInspect(p)
    BY <1>1, <2>0, <2>1, <2>2, FetchKeepsLocks DEF StopInspect
  <2>3. CASE StopContainer(p)
    BY <1>1, <2>0, <2>1, <2>3, HandleCallKeepsLocks DEF StopContainer, LockStep
  <2>4. CASE RemoveContainer(p)
    BY <1>1, <2>0, <2>1, <2>4, HandleCallKeepsLocks DEF RemoveContainer, LockStep
  <2>5. CASE SetStopped(p)
    BY <1>c, <2>5 DEF SetStopped
  <2> QED BY <1>3, <2>2, <2>3, <2>4, <2>5 DEF StopStep
<1>4. CASE PauseStep(p)
  <2>1. CASE PauseInspect(p)
    BY <1>1, <1>p, <2>1, FetchKeepsLocks DEF PauseInspect, LockStep, GoesOn, Holding, HoldPcs, KeyedPcs
  <2>2. CASE PauseContainer(p)
    <3>1. \/ Ends(p)
          \/ /\ req'[p].newDek = req[p].newDek /\ rowLock' = rowLock
             /\ req[p].pc = "pause_container"
      BY <1>1, <1>p, <2>2, HandleCallKeepsLocks DEF PauseContainer
    <3> QED BY <3>1 DEF LockStep, GoesOn, Holding, HoldPcs, KeyedPcs
  <2>3. CASE SetPaused(p)
    BY <1>c, <2>3 DEF SetPaused
  <2> QED BY <1>4, <2>1, <2>2, <2>3 DEF PauseStep
<1>5. CASE WakeStep(p)
  <2>1. CASE WakeInspect(p)
    <3>1. (CASE State(p) = "running" -> "wake_touch"
             [] State(p) = "paused" -> "unpause_inspect"
             [] OTHER -> "get_tenant") \in Pcs
      BY <1>p
    <3>2. /\ req'[p].newDek = req[p].newDek /\ rowLock' = rowLock
          /\ req[p].pc = "wake_inspect"
      BY <1>1, <2>1, <3>1, FetchKeepsLocks DEF WakeInspect
    <3> QED BY <3>2 DEF LockStep, GoesOn, Holding, HoldPcs, KeyedPcs
  <2>2. CASE UnpauseInspect(p)
    BY <1>1, <1>p, <2>2, FetchKeepsLocks
       DEF UnpauseInspect, LockStep, GoesOn, Holding, HoldPcs, KeyedPcs
  <2>3. CASE UnpauseContainer(p)
    <3>1. \/ Ends(p)
          \/ /\ req'[p].newDek = req[p].newDek /\ rowLock' = rowLock
             /\ req[p].pc = "unpause_container"
      BY <1>1, <1>p, <2>3, HandleCallKeepsLocks DEF UnpauseContainer
    <3> QED BY <3>1 DEF LockStep, GoesOn, Holding, HoldPcs, KeyedPcs
  <2>4. CASE WakeTouch(p) \/ WakeUpdate(p)
    BY <1>a, <1>c, <2>4 DEF WakeTouch, WakeUpdate, WakeCommit
  <2> QED BY <1>5, <2>1, <2>2, <2>3, <2>4 DEF WakeStep
<1>6. CASE DeleteStep(p)
  <2>1. CASE DeleteGet(p)
    <3>1. CASE EndTransaction(p, "ok")
      BY <3>1 DEF LockStep, Ends
    <3>2. CASE Goto(p, "set_deleting") /\ UNCHANGED db
      BY <1>p, <1>g, <2>1, <3>2 DEF DeleteGet, At, Holding, HoldPcs, KeyedPcs, db
    <3> QED BY <2>1, <3>1, <3>2 DEF DeleteGet
  <2>2. CASE SetDeleting(p)
    <3>1. CASE /\ rowLock' = [rowLock EXCEPT ![T(p)] = p]
               /\ Goto(p, "stop_inspect") /\ UNCHANGED <<row, dek>>
      <4>1. "stop_inspect" \in Pcs
        BY <1>p DEF HoldPcs
      <4>2. req[p].pc = "set_deleting" /\ req[p].op = "delete"
        BY <1>1, <2>2 DEF SetDeleting, At, InHandler, HandlerPcs, Ops
      <4> QED BY <1>1, <3>1, <4>1, <4>2, GotoKeepsLocks DEF LockStep
    <3> QED BY <1>a, <2>2, <3>1 DEF SetDeleting
  <2>3. CASE RemoveNetwork(p) \/ RemoveTenantDirs(p)
    BY <1>p, <1>a, <1>g, <2>3
       DEF RemoveNetwork, RemoveTenantDirs, At, Holding, HoldPcs, KeyedPcs, db
  <2>4. CASE DeleteRow(p)
    BY <2>4 DEF DeleteRow, LockStep, Ends
  <2> QED BY <1>6, <2>1, <2>2, <2>3, <2>4 DEF DeleteStep
<1> QED BY <1>a, <1>2, <1>3, <1>4, <1>5, <1>6 DEF Step, DeadlockAbort, Fail

LEMMA RequestStepLocks ==
    ASSUME IInv, LockInv, NEW p \in Requests, Step(p) \/ Fail(p)
    PROVE  LockInv'
<1>1. /\ Typed /\ Active(p) /\ Moves(p) /\ LockStep(p) /\ Runs(p)
      /\ rowLock \in [Tenants -> Holders] /\ req \in [Requests -> RequestRecords]
      /\ T(p) \in Tenants
  BY RequestSteps, StepLocks, StepRuns, ActiveFacts DEF IInv, Steps, Typed, TypeOK
<1>2. \A q \in Requests \ {p} : req'[q] = req[q]
  BY <1>1 DEF Moves
<1>3. loop' # None => req'[loop'].pc \in SyncPcs
  <2>1. CASE p \in ApiRequests
    BY <1>1, <2>1 DEF Moves
  <2>2. CASE p \notin ApiRequests
    <3>1. loop' = loop /\ loop \in ApiRequests \cup {None}
      BY <1>1, <2>2 DEF Moves, Typed, TypeOK
    <3> QED BY <1>2, <2>2, <3>1 DEF LockInv, Requests
  <2> QED BY <2>1, <2>2
<1>4. CASE Ends(p)
  <2>1. PICK result \in {"ok", "error"} : EndTransaction(p, result)
    BY <1>4 DEF Ends
  <2>2. req'[p] = Idle(result)
    BY <1>1, <2>1, EndTransactionMoves
  <2>3. ~req'[p].newDek
    BY <2>2 DEF Idle
  <2>4. \A t \in Tenants : rowLock'[t] = IF rowLock[t] = p THEN None ELSE rowLock[t]
    BY <2>1 DEF EndTransaction
  <2>5. None \notin Requests
    BY NoneAssumption
  <2>6. ASSUME NEW t \in Tenants, NEW q \in Requests, rowLock'[t] = q
        PROVE  T(q)' = t /\ Holding(q)'
    <3>1. rowLock'[t] = rowLock[t] /\ rowLock[t] # p
      BY <2>4, <2>5, <2>6
    <3> QED BY <1>2, <2>6, <3>1 DEF LockInv, T, Holding
  <2> QED BY <1>2, <1>3, <2>3, <2>6 DEF LockInv
<1>5. CASE ~Ends(p)
  <2>1. ASSUME NEW t \in Tenants, NEW q \in Requests \ {p}, rowLock'[t] = q
        PROVE  T(q)' = t /\ Holding(q)'
    <3>1. rowLock[t] = q
      BY <1>1, <1>5, <2>1 DEF LockStep
    <3> QED BY <1>2, <2>1, <3>1 DEF LockInv, T, Holding
  <2>2. ASSUME NEW t \in Tenants, rowLock'[t] = p
        PROVE  T(p)' = t /\ Holding(p)'
    <3>1. T(p) = t /\ req[p].op = "delete" /\ req'[p].pc \in HoldPcs
      <4>1. CASE rowLock[t] = p
        <5>1. T(p) = t /\ Holding(p)
          BY <4>1 DEF LockInv
        <5> QED BY <1>1, <1>5, <5>1 DEF LockStep, GoesOn, Holding, HoldPcs
      <4>2. CASE rowLock[t] # p
        BY <1>1, <1>5, <2>2, <4>2 DEF LockStep, HoldPcs
      <4> QED BY <4>1, <4>2
    <3>2. req'[p].pc # "idle"
      BY <3>1 DEF HoldPcs
    <3> QED BY <1>1, <3>1, <3>2 DEF Moves, SameRequest, T, Holding
  <2>3. req'[p].newDek => req'[p].pc \in KeyedPcs
    BY <1>1, <1>5 DEF LockStep, GoesOn, LockInv, KeyedPcs
  <2> QED BY <1>2, <1>3, <2>1, <2>2, <2>3 DEF LockInv
<1> QED BY <1>4, <1>5

\* What leaves the handlers where they are leaves the locks.
LEMMA StillLocks ==
    ASSUME LockInv, UNCHANGED <<rowLock, loop>>, loop \in ApiRequests \cup {None},
           \A q \in Requests :
               \/ /\ req'[q].op = req[q].op /\ req'[q].pc = req[q].pc
                  /\ req'[q].tenant = req[q].tenant /\ req'[q].newDek = req[q].newDek
               \/ ~Active(q) /\ ~req'[q].newDek
    PROVE  LockInv'
<1>1. \A q \in Requests : Holding(q) \/ req[q].pc \in SyncPcs => Active(q)
  BY DEF Holding, HoldPcs, SyncPcs, Active
<1> QED BY <1>1 DEF LockInv, T, Holding, Requests

LEMMA NextLocks ==
    ASSUME IInv, LockInv, [Next]_vars
    PROVE  LockInv'
<1>0. Typed /\ loop \in ApiRequests \cup {None} /\ req \in [Requests -> RequestRecords]
  BY DEF IInv, Typed, TypeOK
<1>1. CASE UNCHANGED vars
  BY <1>0, <1>1, StillLocks DEF vars
<1>2. ASSUME NEW q \in Requests, NEW b \in BOOLEAN
      PROVE  /\ [req[q] EXCEPT !.alone = b].op = req[q].op
             /\ [req[q] EXCEPT !.alone = b].pc = req[q].pc
             /\ [req[q] EXCEPT !.alone = b].tenant = req[q].tenant
             /\ [req[q] EXCEPT !.alone = b].newDek = req[q].newDek
  BY <1>0 DEF RequestRecords
<1>b. \A q \in Requests, t \in Tenants : (req[q].alone /\ T(q) # t) \in BOOLEAN
  OBVIOUS
<1>3. ASSUME NEW p \in Requests, NEW op \in Ops, NEW t \in Tenants, Begin(p, op, t)
      PROVE  LockInv'
  <2>1. \A q \in Requests \ {p} : req'[q] = [req[q] EXCEPT !.alone = @ /\ T(q) # t]
    BY <1>3 DEF Begin
  <2>2. ~Active(p) /\ ~req'[p].newDek
    BY <1>3 DEF Begin, Begun
  <2>3. UNCHANGED <<rowLock, loop>>
    BY <1>3 DEF Begin, db
  <2> QED BY <1>0, <1>2, <1>b, <2>1, <2>2, <2>3, StillLocks
<1>4. ASSUME NEW t \in Tenants, ContainerCrash(t) \/ ContainerRestart(t)
      PROVE  LockInv'
  <2>1. \A q \in Requests : req'[q] = [req[q] EXCEPT !.alone = @ /\ T(q) # t]
    BY <1>4 DEF ContainerCrash, ContainerRestart
  <2>2. UNCHANGED <<rowLock, loop>>
    BY <1>4 DEF ContainerCrash, ContainerRestart, db
  <2> QED BY <1>0, <1>2, <1>b, <2>1, <2>2, StillLocks
<1> QED BY <1>1, <1>3, <1>4, RequestStepLocks DEF Next

LEMMA InitLocks == Init => LockInv
<1> SUFFICES ASSUME Init
             PROVE  LockInv
  OBVIOUS
<1>1. \A p \in Requests : ~req[p].newDek
  BY DEF Init, Idle
<1> QED BY <1>1, NoneAssumption DEF Init, LockInv

\* Who holds a lock goes on, or waits for one who does; a chain of waits is longer only
\* if it leads to a transaction that is no request's.
Settled(q) == Unstuck(q) \/ \E r \in Requests : WaitsFor(q, r) /\ Unstuck(r)

LEMMA KeyHolder ==
    ASSUME IInv, LockInv, NEW q \in Requests, req[q].newDek,
           rowLock[T(q)] \in Requests \cup {None}
    PROVE  \/ ~Blocked(q)
           \/ \E d \in Requests : WaitsFor(q, d) /\ (Blocked(d) => WaitsFor(d, q))
<1>1. Active(q) /\ T(q) \in Tenants /\ req[q].pc \in KeyedPcs
  BY DEF LockInv, KeyedPcs, Active, IInv, Typed
<1>2. CASE rowLock[T(q)] = None \/ req[q].pc \notin UpdatePcs
  BY <1>1, <1>2 DEF Blocked, KeyedPcs, KeyPcs
<1>3. CASE rowLock[T(q)] \in Requests /\ req[q].pc \in UpdatePcs
  <2> DEFINE d == rowLock[T(q)]
  <2>1. T(d) = T(q) /\ Holding(d)
    BY <1>1, <1>3 DEF LockInv
  <2>2. Active(d) /\ d # q
    BY <1>1, <2>1 DEF Holding, HoldPcs, KeyedPcs, Active
  <2>3. WaitsFor(q, d)
    BY <1>1, <1>3, <2>1, <2>2 DEF WaitsFor
  <2>4. ASSUME Blocked(d)
        PROVE  WaitsFor(d, q)
    <3>1. req[d].pc \in KeyPcs
      BY <2>1, <2>4 DEF Blocked, Holding, HoldPcs, UpdatePcs
    <3> QED BY <1>1, <2>1, <2>2, <3>1 DEF WaitsFor
  <2> QED BY <1>3, <2>3, <2>4
<1> QED BY <1>2, <1>3

LEMMA KeyHolderSettled ==
    ASSUME IInv, LockInv, NEW q \in Requests, req[q].newDek,
           rowLock[T(q)] \in Requests \cup {None}
    PROVE  Settled(q)
<1>1. CASE ~Blocked(q)
  BY <1>1 DEF Settled, Unstuck
<1>2. ASSUME NEW d \in Requests, WaitsFor(q, d), Blocked(d) => WaitsFor(d, q)
      PROVE  Settled(q)
  BY <1>2 DEF Settled, Unstuck
<1> QED BY <1>1, <1>2, KeyHolder

LEMMA RowHolderSettled ==
    ASSUME IInv, LockInv, NEW t \in Tenants, rowLock[t] \in Requests
    PROVE  Settled(rowLock[t])
<1> DEFINE d == rowLock[t]
<1>1. T(d) = t /\ Holding(d) /\ Active(d)
  BY DEF LockInv, Holding, HoldPcs, Active
<1>2. CASE ~Blocked(d)
  BY <1>2 DEF Settled, Unstuck
<1>3. CASE Blocked(d)
  <2>1. PICK q \in Requests \ {d} :
            T(q) = T(d) /\ req[q].newDek /\ req[d].pc \in KeyPcs
    BY <1>1, <1>3 DEF Blocked, Holding, HoldPcs, UpdatePcs
  <2>2. WaitsFor(d, q)
    BY <1>1, <2>1 DEF WaitsFor, LockInv, KeyedPcs, Active
  <2>3. Unstuck(q)
    <3>1. SUFFICES ASSUME Blocked(q)
                   PROVE  WaitsFor(q, d)
      BY <2>2 DEF Unstuck
    <3>2. req[q].pc \in UpdatePcs
      BY <2>1, <3>1 DEF Blocked, LockInv, KeyedPcs, KeyPcs
    <3> QED BY <1>1, <2>1, <3>2 DEF WaitsFor, UpdatePcs, Active
  <2> QED BY <2>2, <2>3 DEF Settled
<1> QED BY <1>2, <1>3

\* A blocked request waits for a settled one, unless it waits for another transaction.
LEMMA BlockedWaits ==
    ASSUME IInv, LockInv, NEW p \in Requests, Blocked(p),
           rowLock[T(p)] \in Requests \cup {None}
    PROVE  \E q \in Requests : WaitsFor(p, q) /\ Settled(q)
<1>1. Active(p) /\ T(p) \in Tenants
  BY DEF Blocked, UpdatePcs, KeyPcs, Active, IInv, Typed
<1>2. CASE req[p].pc \in UpdatePcs /\ rowLock[T(p)] \in Requests
  <2> DEFINE d == rowLock[T(p)]
  <2>1. T(d) = T(p) /\ Holding(d)
    BY <1>1, <1>2 DEF LockInv
  <2>2. WaitsFor(p, d)
    BY <1>1, <1>2, <2>1 DEF WaitsFor, Holding, HoldPcs, UpdatePcs, Active
  <2> QED BY <1>1, <1>2, <2>2, RowHolderSettled
<1>3. CASE req[p].pc \in KeyPcs
  <2>1. PICK q \in Requests \ {p} : T(q) = T(p) /\ req[q].newDek
    BY <1>3 DEF Blocked, KeyPcs, UpdatePcs
  <2>2. WaitsFor(p, q)
    BY <1>1, <1>3, <2>1 DEF WaitsFor, LockInv, KeyedPcs, Active
  <2> QED BY <2>1, <2>2, KeyHolderSettled
<1> QED BY <1>2, <1>3 DEF Blocked

LEMMA SectionUnblocked ==
    ASSUME LockInv, loop # None
    PROVE  Active(loop) /\ ~Blocked(loop)
BY DEF LockInv, SyncPcs, UpdatePcs, KeyPcs, Active, Blocked

\* Beside no other transactions, only requests hold row locks.
OwnLocks == \A t \in Tenants : rowLock[t] \in Requests \cup {None}

LEMMA NextOwnLocks ==
    ASSUME IInv, OwnLocks, [Next]_vars
    PROVE  OwnLocks'
<1>1. ASSUME NEW p \in Requests, Step(p) \/ Fail(p)
      PROVE  OwnLocks'
  BY <1>1, StepLocks DEF OwnLocks, LockStep, Ends, EndTransaction, IInv, Typed, TypeOK
<1>2. CASE UNCHANGED rowLock
  BY <1>2 DEF OwnLocks
<1> QED BY <1>1, <1>2 DEF Next, Begin, ContainerCrash, ContainerRestart, db, vars

LEMMA LocksAlways == Spec => [](IInv /\ LockInv /\ OwnLocks)
<1>1. Init => OwnLocks
  BY DEF Init, OwnLocks
<1> QED BY <1>1, InitInv, InitLocks, NextInv, NextLocks, NextOwnLocks, PTL DEF Spec

\* However many requests start, wake, stop, pause and delete the same tenants, each
\* one that waits for a lock waits for a live transaction that goes on, or that
\* waits for one that does, or that PostgreSQL's deadlock detector ends
\* (tenant_service.py:127-225): locks are never waited for in a longer chain.
THEOREM WaitingEnds == Spec => []WaitsEnd
<1>1. IInv /\ LockInv /\ OwnLocks => WaitsEnd
  <2> SUFFICES ASSUME IInv, LockInv, OwnLocks
               PROVE  WaitsEnd
    OBVIOUS
  <2>1. ASSUME NEW p \in Requests, Blocked(p)
        PROVE  \E q \in Requests : WaitsFor(p, q) /\ Settled(q)
    <3>1. T(p) \in Tenants
      BY <2>1 DEF Blocked, UpdatePcs, KeyPcs, Active, IInv, Typed
    <3> QED BY <2>1, <3>1, BlockedWaits DEF OwnLocks
  <2> QED BY <2>1, SectionUnblocked DEF WaitsEnd, Settled
<1> QED BY <1>1, LocksAlways, PTL

=============================================================================
