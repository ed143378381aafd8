--------------------------- MODULE DeletionProofs ---------------------------
(***************************************************************************)
(* What Deletion says of complete deletes, for any number of tenants,      *)
(* requests and CLI commands, each of which may fail at any call.          *)
(***************************************************************************)
EXTENDS Deletion, TenantRuntimeProofs

-----------------------------------------------------------------------------
(* Container ids. *)

HeldId(p) == req[p].pc \in HandlePcs => req[p].cid # None

\* Containers have ids, and who holds a container object holds its id.
Named ==
    /\ \A t \in Tenants : container[t].id = None => container[t] = NoContainer
    /\ \A p \in Requests : HeldId(p)

\* What a step of p does to the container of its tenant.
Effect(p) ==
    LET c == container[T(p)]
        d == container'[T(p)]
    IN  \/ d = c \/ d = NoContainer
        \/ d.id = c.id /\ c.id # None
        \/ c = NoContainer /\ d.id # None /\ req[p].pc = "create_container"

LEMMA HandleCallEffect ==
    ASSUME Typed, Named, NEW p \in Requests, NEW pc \in HandlePcs, pc # "idle",
           NEW gonePc \in Pcs \ HandlePcs, NEW accepted, NEW c \in Containers,
           c = NoContainer \/ c.id = req[p].cid, NEW next \in Pcs,
           HandleCall(p, pc, gonePc, accepted, c, next)
    PROVE  Effect(p) /\ HeldId(p)'
<1>1. req[p].pc = pc /\ req[p].cid # None /\ "idle" \notin HandlePcs
  BY DEF HandleCall, At, Named, HeldId, HandlePcs
<1>2. CASE Gone(p) /\ container' = container /\ req'[p].pc = gonePc
  BY <1>2 DEF Effect, HeldId
<1>3. CASE /\ ~Gone(p) /\ container'[T(p)] = c /\ req'[p].pc = next
           /\ req'[p].cid = IF next \in HandlePcs THEN req[p].cid ELSE None
  BY <1>1, <1>3 DEF Effect, HeldId, Gone
<1>4. CASE container' = container /\ req'[p].pc = "idle"
  BY <1>1, <1>4 DEF Effect, HeldId
<1> QED BY <1>2, <1>3, <1>4, HandleCallResult

LEMMA FetchEffect ==
    ASSUME Typed, Named, NEW p \in Requests, NEW pc, pc # "idle", NEW next \in Pcs,
           next \in HandlePcs => container[T(p)] # NoContainer,
           Fetch(p, pc, next)
    PROVE  Effect(p) /\ HeldId(p)'
<1>1. T(p) \in Tenants
  BY ActiveFacts DEF Fetch, At, Active
<1>2. /\ UNCHANGED container /\ req'[p].pc = next
      /\ req'[p].cid = IF next \in HandlePcs THEN container[T(p)].id ELSE None
  BY FetchSteps DEF docker
<1> QED BY <1>1, <1>2 DEF Effect, HeldId, Named

LEMMA AbortEffect ==
    ASSUME Typed, NEW p \in Requests, Abort(p), UNCHANGED container
    PROVE  Effect(p) /\ HeldId(p)'
<1>1. req'[p] = Idle("error")
  BY EndTransactionMoves DEF Abort
<1> QED BY <1>1 DEF Effect, HeldId, Idle, HandlePcs

LEMMA CommitEffect ==
    ASSUME Typed, NEW p \in Requests, NEW r, CommitUpdate(p, r)
    PROVE  Effect(p) /\ HeldId(p)'
<1>1. req'[p] = Idle("ok") /\ UNCHANGED container
  BY EndTransactionMoves DEF CommitUpdate, docker
<1> QED BY <1>1 DEF Effect, HeldId, Idle, HandlePcs

\* A step that leads away from container objects and leaves the container.
LEMMA GotoEffect ==
    ASSUME Typed, NEW p \in Requests, Active(p), NEW pc \in Pcs \ HandlePcs, Goto(p, pc),
           UNCHANGED container
    PROVE  Effect(p) /\ HeldId(p)'
BY GotoMoves DEF Effect, HeldId

LEMMA StepEffect ==
    ASSUME IInv, Named, NEW p \in Requests, Step(p) \/ Fail(p)
    PROVE  Effect(p) /\ HeldId(p)'
<1>1. /\ Typed /\ Active(p) /\ T(p) \in Tenants /\ State(p) \in ContainerStates
      /\ req[p] \in RequestRecords /\ Stopped(p) \in Pcs /\ Proper(container[T(p)])
      /\ container \in [Tenants -> Containers] /\ req \in [Requests -> RequestRecords]
      /\ \A s \in ContainerStates : InState(p, s) \in Containers /\ InState(p, s).id = req[p].cid
      /\ NoContainer \in Containers /\ {"running", "created", "exited", "paused"} \subseteq ContainerStates
  <2>1. Typed /\ Active(p)
    BY RequestSteps DEF IInv
  <2>2. \A s \in ContainerStates : InState(p, s) \in Containers /\ InState(p, s).id = req[p].cid
    BY <2>1, ActiveFacts DEF InState, Containers
  <2>3. NoContainer \in Containers /\ {"running", "created", "exited", "paused"} \subseteq ContainerStates
    BY DEF NoContainer, Containers, ContainerStates
  <2> QED BY <2>1, <2>2, <2>3, ActiveFacts DEF IInv, Typed, TypeOK
<1>p. /\ HandlePcs \subseteq Pcs /\ Stopped(p) \notin HandlePcs
      /\ {"get_secrets", "insert_dek", "create_dirs", "start_inspect", "create_network",
          "create_container", "set_paused", "wake_touch", "unpause_inspect", "get_tenant",
          "wake_update", "set_deleting", "stop_inspect", "remove_dirs", "delete_row"}
            \subseteq Pcs \ HandlePcs
  BY PcsFacts DEF Stopped, Pcs, SyncPcs, AwaitPcs, HandlePcs
<1>s. State(p) # "not_found" => container[T(p)] # NoContainer
  BY DEF State, NoContainer
<1>a. CASE Abort(p) /\ UNCHANGED container
  BY <1>1, <1>a, AbortEffect
<1>2. CASE StartStep(p)
  <2>1. CASE GetTenant(p) \/ GetSecrets(p) \/ CreateTenantDirs(p) \/ CreateNetwork(p)
    BY <1>1, <1>p, <1>a, <2>1, GotoEffect
       DEF GetTenant, GetSecrets, CreateTenantDirs, CreateNetwork, docker
  <2>2. CASE InsertDek(p)
    <3>1. CASE Become(p, [req[p] EXCEPT !.newDek = TRUE, !.pc = "create_dirs"])
      <4>1. req'[p].pc = "create_dirs"
        BY <1>1, <3>1 DEF Become, RequestRecords
      <4> QED BY <2>2, <4>1 DEF InsertDek, Effect, HeldId, HandlePcs, docker
    <3> QED BY <1>a, <2>2, <3>1 DEF InsertDek, docker
  <2>3. CASE StartInspect(p)
    <3>1. /\ StartCase[State(p)] \in Pcs
          /\ StartCase[State(p)] \in HandlePcs => State(p) # "not_found"
      BY <1>1 DEF StartCase, ContainerStates, HandlePcs, Pcs, SyncPcs, AwaitPcs
    <3> QED BY <1>1, <1>s, <2>3, <3>1, FetchEffect DEF StartInspect
  <2>4. CASE StartUnpause(p) \/ StartRemove(p)
    <3>1. {"start_unpause", "start_remove", "set_running"} \subseteq HandlePcs
      BY DEF HandlePcs
    <3> QED BY <1>1, <1>p, <2>4, <3>1, HandleCallEffect DEF StartUnpause, StartRemove
  <2>5. CASE CreateContainer(p)
    <3>1. ASSUME NEW id \in ContainerIds, container[T(p)] = NoContainer,
                 container' = [container EXCEPT ![T(p)] = [id |-> id, state |-> "created"]],
                 Become(p, [req[p] EXCEPT !.pc = "run_container", !.cid = id])
          PROVE  Effect(p) /\ HeldId(p)'
      <4>1. req'[p].cid = id /\ container'[T(p)].id = id /\ id # None
        BY <1>1, <3>1, NoneAssumption DEF Become, RequestRecords
      <4> QED BY <2>5, <3>1, <4>1 DEF CreateContainer, At, Effect, HeldId
    <3> QED BY <1>a, <2>5, <3>1 DEF CreateContainer
  <2>6. CASE RunContainer(p)
    <3>1. CASE /\ ~Gone(p) /\ container' = [container EXCEPT ![T(p)] = InState(p, "running")]
               /\ Goto(p, "set_running")
      <4>1. req[p].cid # None
        BY <2>6 DEF RunContainer, At, Named, HeldId, HandlePcs
      <4>2. container'[T(p)] = InState(p, "running") /\ container[T(p)].id = req[p].cid
        BY <1>1, <3>1 DEF Gone
      <4>3. "set_running" \in Pcs
        BY DEF Pcs, AwaitPcs
      <4>4. req'[p].pc = "set_running" /\ req'[p].cid = req[p].cid
        BY <1>1, <3>1, <4>3, GotoMoves DEF HandlePcs
      <4> QED BY <1>1, <4>1, <4>2, <4>4 DEF Effect, HeldId
    <3> QED BY <1>a, <2>6, <3>1 DEF RunContainer
  <2>7. CASE SetRunning(p)
    BY <1>1, <2>7, CommitEffect DEF SetRunning
  <2> QED BY <1>2, <2>1, <2>2, <2>3, <2>4, <2>5, <2>6, <2>7 DEF StartStep
<1>3. CASE StopStep(p)
  <2>1. {"stop_container", "remove_container"} \subseteq HandlePcs
    BY DEF HandlePcs
  <2>2. CASE StopInspect(p)
    BY <1>1, <1>p, <2>1, <2>2, FetchEffect DEF StopInspect
  <2>3. CASE StopContainer(p)
    <3>1. (IF State(p) = "created" THEN "created" ELSE "exited") \in ContainerStates
      BY <1>1
    <3> QED BY <1>1, <1>p, <2>1, <2>3, <3>1, HandleCallEffect DEF StopContainer
  <2>4. CASE RemoveContainer(p)
    BY <1>1, <1>p, <2>1, <2>4, HandleCallEffect DEF RemoveContainer
  <2>5. CASE SetStopped(p)
    BY <1>1, <2>5, CommitEffect DEF SetStopped
  <2> QED BY <1>3, <2>2, <2>3, <2>4, <2>5 DEF StopStep
<1>4. CASE PauseStep(p)
  <2>1. "pause_container" \in HandlePcs
    BY DEF HandlePcs
  <2>2. CASE PauseInspect(p)
    BY <1>1, <1>p, <1>s, <2>1, <2>2, FetchEffect DEF PauseInspect
  <2>3. CASE PauseContainer(p)
    BY <1>1, <1>p, <2>1, <2>3, HandleCallEffect DEF PauseContainer
  <2>4. CASE SetPaused(p)
    BY <1>1, <2>4, CommitEffect DEF SetPaused
  <2> QED BY <1>4, <2>2, <2>3, <2>4 DEF PauseStep
<1>5. CASE WakeStep(p)
  <2>1. "unpause_container" \in HandlePcs
    BY DEF HandlePcs
  <2>2. CASE WakeInspect(p)
    <3>1. (CASE State(p) = "running" -> "wake_touch"
             [] State(p) = "paused" -> "unpause_inspect"
             [] OTHER -> "get_tenant") \in Pcs \ HandlePcs
      BY <1>p
    <3> QED BY <1>1, <2>2, <3>1, FetchEffect DEF WakeInspect
  <2>3. CASE UnpauseInspect(p)
    BY <1>1, <1>p, <1>s, <2>1, <2>3, FetchEffect DEF UnpauseInspect
  <2>4. CASE UnpauseContainer(p)
    BY <1>1, <1>p, <2>1, <2>4, HandleCallEffect DEF UnpauseContainer
  <2>5. CASE WakeTouch(p) \/ WakeUpdate(p)
    BY <1>1, <1>a, <2>5, CommitEffect DEF WakeTouch, WakeUpdate, WakeCommit, docker
  <2> QED BY <1>5, <2>2, <2>3, <2>4, <2>5 DEF WakeStep
<1>6. CASE DeleteStep(p)
  <2>1. ASSUME NEW result \in {"ok", "error"}, EndTransaction(p, result), UNCHANGED container
        PROVE  Effect(p) /\ HeldId(p)'
    BY <1>1, <2>1, EndTransactionMoves DEF Effect, HeldId, Idle, HandlePcs
  <2> QED BY <1>1, <1>p, <1>a, <1>6, <2>1, GotoEffect
          DEF DeleteStep, DeleteGet, SetDeleting, RemoveNetwork, RemoveTenantDirs, DeleteRow, docker
<1> QED BY <1>a, <1>2, <1>3, <1>4, <1>5, <1>6 DEF Step, DeadlockAbort, Fail, docker

\* The other steps change no id.
LEMMA OtherSteps ==
    ASSUME Typed,
           \/ \E p \in Requests, op \in Ops, t \in Tenants : Begin(p, op, t)
           \/ \E t \in Tenants : ContainerCrash(t) \/ ContainerRestart(t)
           \/ UNCHANGED vars
    PROVE  /\ UNCHANGED <<row, dek, network, dirs>>
           /\ \A t \in Tenants : \/ container'[t] = container[t]
                                 \/ /\ container[t].state \in {"running", "restarting"}
                                    /\ container'[t].state \in {"running", "restarting"}
                                    /\ container'[t].id = container[t].id
           /\ \A q \in Requests :
                 \/ /\ req'[q].op = req[q].op /\ req'[q].pc = req[q].pc
                    /\ req'[q].tenant = req[q].tenant /\ req'[q].cid = req[q].cid
                 \/ /\ ~Active(q) /\ req'[q].pc = Entry[req'[q].op] /\ req'[q].op \in Ops
                    /\ req'[q].tenant \in Tenants
<1>0. \A q \in Requests, t \in Tenants : (req[q].alone /\ T(q) # t) \in BOOLEAN
  OBVIOUS
<1>1. ASSUME NEW p \in Requests, NEW op \in Ops, NEW t \in Tenants, Begin(p, op, t)
      PROVE  \A q \in Requests :
                 \/ /\ req'[q].op = req[q].op /\ req'[q].pc = req[q].pc
                    /\ req'[q].tenant = req[q].tenant /\ req'[q].cid = req[q].cid
                 \/ /\ ~Active(q) /\ req'[q].pc = Entry[req'[q].op] /\ req'[q].op \in Ops
                    /\ req'[q].tenant \in Tenants
  <2>1. \A q \in Requests \ {p} : req'[q] = [req[q] EXCEPT !.alone = @ /\ T(q) # t]
    BY <1>1 DEF Begin
  <2>2. /\ ~Active(p) /\ req'[p].pc = Entry[op] /\ req'[p].op = op /\ req'[p].tenant = t
    BY <1>1 DEF Begin, Begun
  <2> QED BY <1>0, <2>1, <2>2, NotAloneFields
<1>2. ASSUME NEW t \in Tenants, ContainerCrash(t) \/ ContainerRestart(t)
      PROVE  /\ \A q \in Requests :
                  /\ req'[q].op = req[q].op /\ req'[q].pc = req[q].pc
                  /\ req'[q].tenant = req[q].tenant /\ req'[q].cid = req[q].cid
             /\ \A u \in Tenants \ {t} : container'[u] = container[u]
             /\ container[t].state \in {"running", "restarting"}
             /\ container'[t].state \in {"running", "restarting"}
             /\ container'[t].id = container[t].id
  <2>1. \A q \in Requests : req'[q] = [req[q] EXCEPT !.alone = @ /\ T(q) # t]
    BY <1>2 DEF ContainerCrash, ContainerRestart
  <2>2. container \in [Tenants -> Containers] /\ container[t] \in Containers
    BY DEF Typed, TypeOK
  <2>3. \A q \in Requests :
          /\ req'[q].op = req[q].op /\ req'[q].pc = req[q].pc
          /\ req'[q].tenant = req[q].tenant /\ req'[q].cid = req[q].cid
    BY <1>0, <2>1, NotAloneFields
  <2>4. /\ \A u \in Tenants \ {t} : container'[u] = container[u]
        /\ container[t].state \in {"running", "restarting"}
        /\ container'[t].state \in {"running", "restarting"}
        /\ container'[t].id = container[t].id
    BY <1>2, <2>2 DEF ContainerCrash, ContainerRestart, Containers
  <2> QED BY <2>3, <2>4
<1>3. CASE UNCHANGED vars
  BY <1>3 DEF vars
<1>4. UNCHANGED <<row, dek, network, dirs>>
  BY DEF Begin, ContainerCrash, ContainerRestart, vars, db, docker
<1>5. CASE \E p \in Requests, op \in Ops, t \in Tenants : Begin(p, op, t)
  <2>1. UNCHANGED container
    BY <1>5 DEF Begin, docker
  <2> QED BY <1>1, <1>4, <1>5, <2>1
<1> QED BY <1>2, <1>3, <1>4, <1>5

LEMMA NextNamed ==
    ASSUME IInv, Named, [Next]_vars
    PROVE  Named'
<1>0. Typed
  BY DEF IInv
<1>1. ASSUME NEW p \in Requests, Step(p) \/ Fail(p)
      PROVE  Named'
  <2>1. Effect(p) /\ HeldId(p)' /\ Steps(p) /\ req \in [Requests -> RequestRecords]
    BY <1>0, <1>1, StepEffect, RequestSteps DEF Typed, TypeOK
  <2>2. \A q \in Requests : HeldId(q)'
    BY <2>1 DEF Steps, Moves, Named, HeldId
  <2>3. \A t \in Tenants : container'[t].id = None => container'[t] = NoContainer
    BY <2>1 DEF Steps, Local, Effect, Named
  <2> QED BY <2>2, <2>3 DEF Named
<1>2. CASE \/ \E p \in Requests, op \in Ops, t \in Tenants : Begin(p, op, t)
           \/ \E t \in Tenants : ContainerCrash(t) \/ ContainerRestart(t)
           \/ UNCHANGED vars
  <2>1. \A op \in Ops : Entry[op] \notin HandlePcs
    BY DEF Ops, Entry, HandlePcs
  <2>2. \A q \in Requests : HeldId(q)'
    BY <1>0, <1>2, <2>1, OtherSteps DEF Named, HeldId
  <2>3. \A t \in Tenants : container'[t].id = None => container'[t] = NoContainer
    <3>1. NoContainer.state = "not_found"
      BY DEF NoContainer
    <3> QED BY <1>0, <1>2, <3>1, OtherSteps DEF Named
  <2> QED BY <2>2, <2>3 DEF Named
<1> QED BY <1>1, <1>2 DEF Next

-----------------------------------------------------------------------------
(* Who may bring a tenant's things back. *)

\* What belongs to t stays or goes; a container that stays is the same one.
Shrinks(t) ==
    /\ \/ container'[t] = container[t] \/ container'[t] = NoContainer
       \/ container'[t].id = container[t].id /\ container[t].id # None
    /\ network'[t] => network[t]
    /\ dirs'[t] => dirs[t]
    /\ dek'[t] => dek[t]
    /\ Exists(t)' => Exists(t)

\* A stop, a pause or a delete is in no part of start_tenant or wake_tenant.
LEMMA NoStartSteps ==
    ASSUME NEW p \in Requests, Active(p), InHandler(p), req[p].op \notin StartOps
    PROVE  /\ ~StartStep(p) /\ ~WakeStep(p) /\ req[p].pc \notin KeyedPcs
           /\ req[p].op # "delete" => ~DeleteStep(p)
<1>1. /\ req[p].op \in {"stop", "pause", "delete"}
      /\ req[p].pc \in HandlerPcs["stop"] \cup HandlerPcs["pause"] \cup HandlerPcs["delete"]
      /\ req[p].op # "delete" => req[p].pc \in HandlerPcs["stop"] \cup HandlerPcs["pause"]
  BY DEF InHandler, Ops, StartOps
<1>2. ~StartStep(p)
  BY <1>1 DEF HandlerPcs, StartStep, GetTenant, GetSecrets, InsertDek, CreateTenantDirs,
              StartInspect, StartUnpause, StartRemove, CreateNetwork, CreateContainer,
              RunContainer, SetRunning, Fetch, HandleCall, At
<1>3. ~WakeStep(p)
  BY <1>1 DEF HandlerPcs, WakeStep, WakeInspect, UnpauseInspect, UnpauseContainer,
              WakeTouch, WakeUpdate, Fetch, HandleCall, At
<1>4. req[p].pc \notin KeyedPcs
  BY <1>1 DEF HandlerPcs, KeyedPcs
<1>5. req[p].op # "delete" => ~DeleteStep(p)
  BY <1>1 DEF HandlerPcs, DeleteStep, DeleteGet, SetDeleting, RemoveNetwork,
              RemoveTenantDirs, DeleteRow, At
<1> QED BY <1>2, <1>3, <1>4, <1>5

LEMMA AbortShrinks ==
    ASSUME NEW p, Abort(p), UNCHANGED docker
    PROVE  \A t \in Tenants : Shrinks(t)
BY DEF Abort, docker, Shrinks, Exists

LEMMA CommitShrinks ==
    ASSUME Typed, NEW p \in Requests, Active(p), ~req[p].newDek,
           NEW r \in RowRecords, CommitUpdate(p, r)
    PROVE  \A t \in Tenants : Shrinks(t)
<1>1. T(p) \in Tenants /\ UNCHANGED docker
  BY ActiveFacts DEF CommitUpdate
<1>2. \A t \in Tenants : dek'[t] => dek[t]
  BY <1>1 DEF CommitUpdate, Typed, TypeOK
<1>3. \A t \in Tenants : Exists(t)' => Exists(t)
  BY <1>1 DEF CommitUpdate, Typed, TypeOK, Exists
<1> QED BY <1>1, <1>2, <1>3 DEF docker, Shrinks

\* No stop, pause or delete brings anything back.
LEMMA StepShrinks ==
    ASSUME IInv, LockInv, Named, NEW p \in Requests, Step(p) \/ Fail(p),
           req[p].op \notin StartOps
    PROVE  \A t \in Tenants : Shrinks(t)
<1>1. /\ Typed /\ Active(p) /\ Steps(p) /\ Effect(p) /\ T(p) \in Tenants
      /\ ~StartStep(p) /\ ~WakeStep(p) /\ req[p].pc \notin KeyedPcs /\ ~req[p].newDek
      /\ row[T(p)] \in RowRecords
  BY RequestSteps, StepEffect, NoStartSteps, ActiveFacts DEF IInv, RequestInv, LockInv
<1>2. CASE Fail(p) \/ DeadlockAbort(p)
  BY <1>2, AbortShrinks DEF Fail, DeadlockAbort
<1>3. ASSUME UNCHANGED <<row, dek>>, network'[T(p)] => network[T(p)], dirs'[T(p)] => dirs[T(p)]
      PROVE  \A t \in Tenants : Shrinks(t)
  <2>1. req[p].pc # "create_container"
    BY <1>1 DEF KeyedPcs
  <2> QED BY <1>1, <1>3, <2>1 DEF Steps, Local, Effect, Shrinks, Exists
<1>4. CASE StopStep(p)
  <2>1. CASE SetStopped(p)
    <3>1. [row[T(p)] EXCEPT !.status = "stopped", !.cid = None] \in RowRecords
      BY <1>1 DEF RowRecords, Statuses
    <3> QED BY <1>1, <2>1, <3>1, CommitShrinks DEF SetStopped
  <2>2. CASE StopInspect(p) \/ StopContainer(p) \/ RemoveContainer(p)
    BY <1>3, <2>2
       DEF StopInspect, StopContainer, RemoveContainer, Fetch, HandleCall, Abort, db, docker
  <2> QED BY <1>4, <2>1, <2>2 DEF StopStep
<1>5. CASE PauseStep(p)
  <2>1. CASE SetPaused(p)
    <3>1. [row[T(p)] EXCEPT !.status = "paused"] \in RowRecords
      BY <1>1 DEF RowRecords, Statuses
    <3> QED BY <1>1, <2>1, <3>1, CommitShrinks DEF SetPaused
  <2>2. CASE PauseInspect(p) \/ PauseContainer(p)
    BY <1>3, <2>2 DEF PauseInspect, PauseContainer, Fetch, HandleCall, Abort, db, docker
  <2> QED BY <1>5, <2>1, <2>2 DEF PauseStep
<1>6. CASE DeleteStep(p)
  <2>1. CASE DeleteGet(p) \/ SetDeleting(p)
    BY <1>3, <2>1 DEF DeleteGet, SetDeleting, Abort, db, docker
  <2>2. CASE RemoveNetwork(p) \/ RemoveTenantDirs(p)
    BY <1>1, <1>3, <2>2 DEF RemoveNetwork, RemoveTenantDirs, Abort, db, Typed, TypeOK
  <2>3. CASE DeleteRow(p)
    <3>1. /\ row' = [row EXCEPT ![T(p)] = NoRow] /\ dek' = [dek EXCEPT ![T(p)] = FALSE]
          /\ UNCHANGED docker
      BY <2>3 DEF DeleteRow
    <3> QED BY <1>1, <3>1 DEF Shrinks, Exists, docker, Typed, TypeOK, NoRow
  <2> QED BY <1>6, <2>1, <2>2, <2>3 DEF DeleteStep
<1> QED BY <1>1, <1>2, <1>4, <1>5, <1>6 DEF Step

\* A start or a wake that finds no row and no container ends, having touched nothing.
LEMMA LateStarterShrinks ==
    ASSUME IInv, NEW p \in Requests, Step(p) \/ Fail(p), req[p].op \in StartOps,
           req[p].pc \in {"get_tenant", "wake_inspect"},
           ~Exists(T(p)), container[T(p)] = NoContainer
    PROVE  /\ \A t \in Tenants : Shrinks(t)
           /\ req'[p].pc \in {"idle", "get_tenant"}
<1>1. Typed /\ Active(p)
  BY RequestSteps DEF IInv
<1>2. CASE Abort(p) /\ UNCHANGED docker
  BY <1>1, <1>2, AbortShrinks, AbortSteps DEF Idle
<1>3. CASE GetTenant(p)
  BY <1>2, <1>3 DEF GetTenant
<1>4. CASE WakeInspect(p)
  <2>1. Fetch(p, "wake_inspect", "get_tenant")
    BY <1>4 DEF WakeInspect, State, NoContainer
  <2>2. "get_tenant" \in Pcs
    BY DEF Pcs, AwaitPcs
  <2>3. req'[p].pc = "get_tenant" /\ UNCHANGED <<db, docker>>
    BY <1>1, <2>1, <2>2, FetchSteps
  <2> QED BY <2>3 DEF db, docker, Shrinks, Exists
<1>5. ~(StopStep(p) \/ PauseStep(p) \/ DeleteStep(p))
  BY DEF StopStep, PauseStep, DeleteStep, StopInspect, StopContainer, RemoveContainer,
         SetStopped, PauseInspect, PauseContainer, SetPaused, DeleteGet, SetDeleting,
         RemoveNetwork, RemoveTenantDirs, DeleteRow, Fetch, HandleCall, At
<1>6. StartStep(p) => GetTenant(p)
  BY DEF StartStep, GetSecrets, InsertDek, CreateTenantDirs, StartInspect, StartUnpause,
         StartRemove, CreateNetwork, CreateContainer, RunContainer, SetRunning, Fetch,
         HandleCall, At
<1>7. WakeStep(p) => WakeInspect(p)
  BY DEF WakeStep, UnpauseInspect, UnpauseContainer, WakeTouch, WakeUpdate, Fetch,
         HandleCall, At
<1> QED BY <1>2, <1>3, <1>4, <1>5, <1>6, <1>7 DEF Step, Fail, DeadlockAbort

-----------------------------------------------------------------------------
(* The inductive invariant. *)

\* Nothing is left of t, and who starts or wakes it has not got past looking for it.
Empty(t) ==
    /\ ~Exists(t) /\ ~dek[t] /\ container[t] = NoContainer /\ ~network[t] /\ ~dirs[t]
    /\ \A q \in Requests : Starts(q, t) => req[q].pc \in {"get_tenant", "wake_inspect"}

\* What a delete has removed by each pc.
Removed(p) ==
    /\ req[p].pc \in {"stop_container", "remove_container"} =>
           container[T(p)] = NoContainer \/ ~Gone(p)
    /\ req[p].pc \in {"remove_network", "remove_dirs", "delete_row"} =>
           container[T(p)] = NoContainer
    /\ req[p].pc \in {"remove_dirs", "delete_row"} => ~network[T(p)]
    /\ req[p].pc = "delete_row" => ~dirs[T(p)]

\* Nobody starts or wakes p's tenant, and what p has removed is gone.
Unmet(p) ==
    /\ Active(p) /\ req[p].op = "delete" /\ \A q \in Requests : ~Starts(q, T(p))
    /\ Removed(p)

DInv ==
    /\ Named
    /\ cleared \subseteq Tenants /\ unstarted \subseteq Requests
    /\ \A p \in unstarted : Unmet(p)
    /\ \A t \in cleared : Empty(t)

\* Whoever starts t finds neither a row nor a container.
Unstartable(t) ==
    \A q \in Requests : Starts(q, t) => /\ req[q].pc \in {"get_tenant", "wake_inspect"}
                                        /\ ~Exists(t) /\ container[t] = NoContainer

LEMMA NextShrinks ==
    ASSUME IInv, LockInv, Named, [Next]_vars, NEW t \in Tenants, Unstartable(t)
    PROVE  Shrinks(t)
<1>0. Typed
  BY DEF IInv
<1>1. ASSUME NEW q \in Requests, Step(q) \/ Fail(q)
      PROVE  Shrinks(t)
  <2>1. Active(q) /\ Local(q)
    BY <1>0, <1>1, RequestSteps DEF Steps
  <2>2. CASE T(q) # t
    BY <2>1, <2>2 DEF Local, Shrinks, Exists
  <2>3. CASE T(q) = t
    BY <1>1, <2>3, StepShrinks, LateStarterShrinks DEF Unstartable, Starts
  <2> QED BY <2>2, <2>3
<1>2. CASE \/ \E p \in Requests, op \in Ops, u \in Tenants : Begin(p, op, u)
           \/ \E u \in Tenants : ContainerCrash(u) \/ ContainerRestart(u)
           \/ UNCHANGED vars
  <2>1. container[t].state \in {"running", "restarting"} => container[t].id # None
    BY DEF Named, NoContainer
  <2> QED BY <1>0, <1>2, <2>1, OtherSteps DEF Shrinks, Exists
<1> QED BY <1>1, <1>2 DEF Next

\* What a step leaves of a request that does not take it.
LEMMA NextRequests ==
    ASSUME IInv, [Next]_vars, NEW q \in Requests, ~(Step(q) \/ Fail(q))
    PROVE  \/ /\ req'[q].op = req[q].op /\ req'[q].pc = req[q].pc
              /\ req'[q].tenant = req[q].tenant /\ req'[q].cid = req[q].cid
           \/ ~Active(q) /\ req'[q].pc = Entry[req'[q].op] /\ req'[q].op \in Ops
<1>0. Typed
  BY DEF IInv
<1>1. ASSUME NEW p \in Requests, Step(p) \/ Fail(p)
      PROVE  req'[q] = req[q]
  <2>1. p # q
    BY <1>1
  <2> QED BY <1>0, <1>1, <2>1, RequestSteps DEF Steps, Moves, Typed, TypeOK
<1> QED BY <1>0, <1>1, OtherSteps DEF Next

\* A start that finds nothing gets no further, and one that begins has not got far.
LEMMA NextUnstartable ==
    ASSUME IInv, [Next]_vars, NEW t \in Tenants, Unstartable(t), NEW q \in Requests,
           Starts(q, t)'
    PROVE  req'[q].pc \in {"get_tenant", "wake_inspect"}
<1>0. Typed /\ None \notin Tenants
  BY NoneAssumption DEF IInv
<1>1. CASE Step(q) \/ Fail(q)
  <2>1. Active(q) /\ Moves(q)
    BY <1>0, <1>1, RequestSteps DEF Steps
  <2>2. req'[q].pc # "idle" /\ Starts(q, t)
    BY <1>0, <2>1 DEF Moves, Starts, T, SameRequest
  <2> QED BY <1>1, <2>2, LateStarterShrinks DEF Unstartable, Starts
<1>2. CASE ~(Step(q) \/ Fail(q))
  BY <1>2, NextRequests DEF Unstartable, Starts, StartOps, T, Entry
<1> QED BY <1>1, <1>2

LEMMA NextEmpty ==
    ASSUME IInv, LockInv, Named, [Next]_vars, NEW t \in Tenants, Empty(t)
    PROVE  Empty(t)'
<1>1. Unstartable(t)
  BY DEF Empty, Unstartable
<1>2. Shrinks(t)
  BY <1>1, NextShrinks
<1>3. \A q \in Requests : Starts(q, t)' => req'[q].pc \in {"get_tenant", "wake_inspect"}
  BY <1>1, NextUnstartable
<1>4. container'[t] = NoContainer
  BY <1>2 DEF Empty, Shrinks, NoContainer
<1> QED BY <1>2, <1>3, <1>4 DEF Empty, Shrinks, Exists

\* A delete's own steps remove one thing after the other.
LEMMA DeleteRemoves ==
    ASSUME IInv, LockInv, Named, NEW p \in Requests, Step(p) \/ Fail(p), Unmet(p),
           Active(p)'
    PROVE  Removed(p)'
<1>1. /\ Typed /\ Active(p) /\ Moves(p) /\ T(p) \in Tenants /\ T(p)' = T(p)
      /\ ~StartStep(p) /\ ~WakeStep(p) /\ HeldId(p) /\ State(p) \in ContainerStates
      /\ req[p].cid \in ContainerIds \cup {None}
      /\ container \in [Tenants -> Containers] /\ network \in [Tenants -> BOOLEAN]
      /\ dirs \in [Tenants -> BOOLEAN] /\ req[p].op = "delete" /\ Shrinks(T(p))
      /\ req[p].pc \in HandlerPcs["delete"]
  <2>1. Typed /\ Active(p) /\ Moves(p)
    BY RequestSteps DEF IInv, Steps
  <2>2. req[p].op = "delete" /\ req[p].op \notin StartOps /\ InHandler(p) /\ HeldId(p)
    BY DEF Unmet, StartOps, IInv, RequestInv, Named
  <2>3. ~StartStep(p) /\ ~WakeStep(p) /\ T(p) \in Tenants /\ Shrinks(T(p))
    BY <2>1, <2>2, NoStartSteps, StepShrinks, ActiveFacts
  <2>4. T(p)' = T(p)
    BY <2>1 DEF Moves, SameRequest, Active, T
  <2> QED BY <2>1, <2>2, <2>3, <2>4, ActiveFacts DEF Typed, TypeOK, InHandler
<1>a. ~Abort(p)
  BY <1>1, EndTransactionMoves DEF Abort, Idle, Active
<1>2. {"remove_network", "set_deleting", "stop_inspect", "remove_dirs", "delete_row"}
         \subseteq Pcs \ HandlePcs
  BY DEF Pcs, SyncPcs, AwaitPcs, HandlePcs
<1>3. {"stop_container", "remove_container"} \subseteq Pcs \cap HandlePcs
  BY DEF Pcs, SyncPcs, HandlePcs
<1>4. Stopped(p) = "remove_network"
  BY <1>1 DEF Stopped
<1>5. CASE StopInspect(p)
  <2> DEFINE next == IF container[T(p)] = NoContainer THEN "remove_network" ELSE "stop_container"
  <2>1. Fetch(p, "stop_inspect", next) /\ next \in Pcs
    BY <1>2, <1>3, <1>4, <1>5 DEF StopInspect
  <2>2. /\ UNCHANGED <<db, docker>> /\ req'[p].pc = next
        /\ req'[p].cid = IF next \in HandlePcs THEN container[T(p)].id ELSE None
    BY <1>1, <2>1, FetchSteps
  <2>3. CASE container[T(p)] = NoContainer
    BY <1>1, <2>2, <2>3 DEF Removed, docker
  <2>4. CASE container[T(p)] # NoContainer
    <3>1. req'[p].pc = "stop_container" /\ req'[p].cid = container'[T(p)].id
      BY <1>3, <2>2, <2>4 DEF docker
    <3> QED BY <1>1, <3>1 DEF Removed, Gone
  <2> QED BY <2>3, <2>4
<1>6. CASE StopContainer(p)
  <2> DEFINE c == InState(p, IF State(p) = "created" THEN "created" ELSE "exited")
  <2>1. c \in Containers /\ c.id = req[p].cid
    BY <1>1 DEF InState, Containers, ContainerStates
  <2>2. /\ HandleCall(p, "stop_container", "remove_network", ContainerStates, c,
                      "remove_container")
        /\ req[p].pc = "stop_container"
    BY <1>4, <1>6 DEF StopContainer, HandleCall, At
  <2>3. \/ Gone(p) /\ container' = container /\ req'[p].pc = "remove_network"
        \/ /\ container'[T(p)] = c /\ req'[p].pc = "remove_container"
           /\ req'[p].cid = req[p].cid
    BY <1>1, <1>2, <1>3, <2>1, <2>2, HandleCallResult DEF Active
  <2> QED BY <1>1, <2>1, <2>2, <2>3 DEF Unmet, Removed, Gone
<1>7. CASE RemoveContainer(p)
  <2>1. NoContainer \in Containers
    BY DEF NoContainer, Containers, ContainerStates
  <2>2. /\ HandleCall(p, "remove_container", "remove_network", {"exited", "created"},
                      NoContainer, "remove_network")
        /\ req[p].pc = "remove_container"
    BY <1>4, <1>7 DEF RemoveContainer, HandleCall, At
  <2>3. \/ Gone(p) /\ container' = container /\ req'[p].pc = "remove_network"
        \/ container'[T(p)] = NoContainer /\ req'[p].pc = "remove_network"
    BY <1>1, <1>2, <2>1, <2>2, HandleCallResult DEF Active
  <2> QED BY <1>1, <2>2, <2>3 DEF Unmet, Removed
<1>8. CASE DeleteGet(p) \/ SetDeleting(p)
  <2>1. req'[p].pc \in {"set_deleting", "stop_inspect"}
    BY <1>1, <1>2, <1>a, <1>8, GotoMoves, EndTransactionMoves
       DEF DeleteGet, SetDeleting, Idle, Active
  <2> QED BY <2>1 DEF Removed
<1>9. CASE RemoveNetwork(p)
  <2>1. /\ req[p].pc = "remove_network" /\ network' = [network EXCEPT ![T(p)] = FALSE]
        /\ UNCHANGED container /\ Goto(p, "remove_dirs")
    BY <1>a, <1>9 DEF RemoveNetwork, At
  <2>2. req'[p].pc = "remove_dirs"
    BY <1>1, <1>2, <2>1, GotoMoves
  <2> QED BY <1>1, <2>1, <2>2 DEF Unmet, Removed
<1>10. CASE RemoveTenantDirs(p)
  <2>1. /\ req[p].pc = "remove_dirs" /\ dirs' = [dirs EXCEPT ![T(p)] = FALSE]
        /\ UNCHANGED <<container, network>> /\ Goto(p, "delete_row")
    BY <1>10 DEF RemoveTenantDirs, At
  <2>2. req'[p].pc = "delete_row"
    BY <1>1, <1>2, <2>1, GotoMoves
  <2> QED BY <1>1, <2>1, <2>2 DEF Unmet, Removed
<1>11. ~DeleteRow(p)
  BY <1>1, EndTransactionMoves DEF DeleteRow, Idle, Active
<1>12. ~SetStopped(p) /\ ~PauseStep(p)
  BY <1>1 DEF HandlerPcs, SetStopped, PauseStep, PauseInspect, PauseContainer, SetPaused,
              Fetch, HandleCall, At
<1> QED BY <1>1, <1>a, <1>5, <1>6, <1>7, <1>8, <1>9, <1>10, <1>11, <1>12
        DEF Step, Fail, DeadlockAbort, StopStep, DeleteStep

LEMMA NextUnmet ==
    ASSUME IInv, LockInv, Named, [Next]_vars, NEW p \in Requests,
           Unmet(p) \/ ~Active(p), Active(p)', (req[p].op = "delete")',
           (\A q \in Requests : ~Starts(q, T(p)))'
    PROVE  Unmet(p)'
<1>1. SUFFICES Removed(p)'
  BY DEF Unmet, Removed
<1>2. CASE Step(p) \/ Fail(p)
  <2>1. Active(p)
    BY <1>2, RequestSteps DEF IInv
  <2> QED BY <1>2, <2>1, DeleteRemoves
<1>3. CASE ~(Step(p) \/ Fail(p)) /\ ~Active(p)
  <2>1. req'[p].pc = "delete_get"
    BY <1>3, NextRequests DEF Active, Entry
  <2> QED BY <2>1 DEF Removed
<1>4. CASE ~(Step(p) \/ Fail(p)) /\ Active(p)
  <2>1. /\ req'[p].pc = req[p].pc /\ req'[p].tenant = req[p].tenant
        /\ req'[p].cid = req[p].cid
    BY <1>4, NextRequests
  <2>2. Unmet(p) /\ T(p) \in Tenants /\ Unstartable(T(p))
    BY <1>4 DEF Unmet, Unstartable, IInv, Typed
  <2>3. Shrinks(T(p))
    BY <2>2, NextShrinks
  <2>4. container[T(p)] = NoContainer => container'[T(p)] = NoContainer
    BY <2>3 DEF Shrinks, NoContainer
  <2>5. T(p)' = T(p)
    BY <2>1 DEF T
  <2>6. ~Gone(p) => container'[T(p)] = NoContainer \/ ~Gone(p)'
    BY <2>1, <2>3, <2>5 DEF Gone, Shrinks
  <2> QED BY <2>1, <2>2, <2>3, <2>4, <2>5, <2>6 DEF Unmet, Removed, Shrinks
<1> QED BY <1>2, <1>3, <1>4

\* A delete that commits beside no start has removed everything.
LEMMA DeleteClears ==
    ASSUME IInv, [Next]_vars, NEW p \in Requests, Unmet(p), Commits(p),
           req[p].pc = "delete_row", NEW t, t = T(p)
    PROVE  t \in Tenants /\ Empty(t)'
<1>1. Typed /\ Active(p) /\ t \in Tenants
  BY DEF IInv, Typed, Commits
<1>2. Step(p) \/ Fail(p)
  BY NextRequests DEF Commits, Active
<1>3. DeleteRow(p)
  <2>1. ~Abort(p)
    BY <1>1, EndTransactionMoves DEF Abort, Idle, Commits
  <2>2. ~(StartStep(p) \/ StopStep(p) \/ PauseStep(p) \/ WakeStep(p))
    BY DEF StartStep, GetTenant, GetSecrets, InsertDek, CreateTenantDirs, StartInspect,
           StartUnpause, StartRemove, CreateNetwork, CreateContainer, RunContainer,
           SetRunning, StopStep, StopInspect, StopContainer, RemoveContainer, SetStopped,
           PauseStep, PauseInspect, PauseContainer, SetPaused, WakeStep, WakeInspect,
           UnpauseInspect, UnpauseContainer, WakeTouch, WakeUpdate, Fetch, HandleCall, At
  <2> QED BY <1>2, <2>1, <2>2
          DEF Step, Fail, DeadlockAbort, DeleteStep, DeleteGet, SetDeleting, RemoveNetwork,
              RemoveTenantDirs, At
<1>4. /\ row'[t] = NoRow /\ dek'[t] = FALSE /\ UNCHANGED docker
  BY <1>1, <1>3 DEF DeleteRow, Typed, TypeOK
<1>5. \A q \in Requests : ~Starts(q, t)'
  <2>1. Moves(p) /\ req'[p] = Idle("ok")
    BY <1>1, <1>3, EndTransactionMoves DEF DeleteRow
  <2>2. ~(req'[p].op \in StartOps)
    BY <2>1 DEF Idle, StartOps
  <2>3. \A q \in Requests \ {p} : req'[q] = req[q]
    BY <1>1, <2>1 DEF Moves, Typed, TypeOK
  <2> QED BY <2>2, <2>3 DEF Unmet, Starts, T
<1> QED BY <1>1, <1>4, <1>5 DEF Unmet, Removed, Empty, Exists, NoRow, docker

-----------------------------------------------------------------------------

LEMMA InitDInv == DInit => DInv
<1> SUFFICES ASSUME DInit
             PROVE  DInv
  OBVIOUS
<1>1. \A t \in Tenants : container[t] = NoContainer
  BY DEF DInit, Init
<1>2. \A p \in Requests : req[p].pc = "idle"
  BY DEF DInit, Init, Idle
<1> QED BY <1>1, <1>2 DEF DInit, DInv, Named, HeldId, HandlePcs

LEMMA NextDInv ==
    ASSUME IInv, LockInv, DInv, [DNext]_dvars
    PROVE  DInv'
<1>1. Named /\ [Next]_vars
  BY DEF DInv, DNext, dvars
<1>2. Named'
  BY <1>1, NextNamed
<1>3. \A t \in cleared : t \in Tenants /\ Empty(t)'
  BY <1>1, NextEmpty DEF DInv
<1>4. CASE UNCHANGED dvars
  <2>1. UNCHANGED vars /\ UNCHANGED <<unstarted, cleared>>
    BY <1>4 DEF dvars
  <2>2. \A p \in Requests : Unmet(p) => Unmet(p)'
    BY <2>1 DEF vars, Unmet, Removed, Active, Starts, T, Gone
  <2> QED BY <1>2, <1>3, <2>1, <2>2 DEF DInv
<1>5. CASE Observe
  <2>1. /\ cleared' \subseteq Tenants
        /\ \A t \in cleared' : Empty(t)'
    <3>1. ASSUME NEW p \in unstarted, Commits(p), req[p].pc = "delete_row", NEW t, t = T(p)
          PROVE  t \in Tenants /\ Empty(t)'
      BY <1>1, <3>1, DeleteClears DEF DInv
    <3>2. \A t \in cleared' : t \in cleared
             \/ \E p \in unstarted : Commits(p) /\ req[p].pc = "delete_row" /\ t = T(p)
      BY <1>5 DEF Observe
    <3> QED BY <1>3, <3>1, <3>2
  <2>2. ASSUME NEW p \in unstarted'
        PROVE  p \in Requests /\ Unmet(p)'
    <3>1. /\ p \in Requests /\ Active(p)' /\ (req[p].op = "delete")'
          /\ (\A q \in Requests : ~Starts(q, T(p)))'
          /\ p \in unstarted \/ ~Active(p)
      BY <1>5, <2>2 DEF Observe
    <3> QED BY <1>1, <3>1, NextUnmet DEF DInv
  <2> QED BY <1>2, <2>1, <2>2 DEF DInv
<1> QED BY <1>4, <1>5 DEF DNext

\* A delete beside which nobody starts or wakes the tenant removes the container, the
\* network, the directories, the DEK and the row for good (tenant_service.py:127-147),
\* however many requests and commands stop, pause and delete the tenant meanwhile,
\* wherever earlier ones have failed, and whoever tries to start it afterwards.
THEOREM ClearedForGood == DSpec => []ClearedStaysEmpty
<1>1. DInit => IInv /\ LockInv /\ DInv
  BY InitInv, InitLocks, InitDInv DEF DInit
<1>2. IInv /\ LockInv /\ DInv /\ [DNext]_dvars => (IInv /\ LockInv /\ DInv)'
  <2>1. [DNext]_dvars => [Next]_vars
    BY DEF DNext, dvars
  <2> QED BY <2>1, NextInv, NextLocks, NextDInv
<1>3. DInv => ClearedStaysEmpty
  BY DEF DInv, Empty, ClearedStaysEmpty
<1> QED BY <1>1, <1>2, <1>3, PTL DEF DSpec

=============================================================================
