----------------------------- MODULE EdgeProofs -----------------------------
(***************************************************************************)
(* Theorems about Edge, for any number of tenants, visits and requests:    *)
(* a visit that nobody disturbs reaches the tenant's container, and its    *)
(* gateway if that was up before, however many others there are, when the  *)
(* API process alone drives Docker and each tenant has its data key.       *)
(***************************************************************************)
EXTENDS Edge, TenantRuntimeProofs

-----------------------------------------------------------------------------
(* The inductive invariant. *)

\* A tenant has its data key as long as it has a row, so that no start inserts one.
Keyed ==
    /\ \A t \in Tenants : Exists(t) => dek[t]
    /\ \A q \in Requests : ~req[q].newDek /\ (req[q].pc = "insert_dek" => ~Exists(T(q)))

Up(t) == container[t].state = "running"

\* The container's process lives.
Alive(t) == container[t].state \in {"running", "paused"}

\* What listens lives.
Heard ==
    /\ listening \in [Tenants -> BOOLEAN]
    /\ \A t \in Tenants : listening[t] => Alive(t)

\* Nobody takes t away.
Quiet(t) ==
    /\ t \in Tenants /\ Exists(t) /\ container[t].state # "restarting"
    /\ \A q \in Requests : T(q) = t => req[q].op \notin Disturbing

\* No start is about to remove a container that lives.  One may be when a visit begins,
\* if Docker has just restarted what the start saw restarting.
Spared(t) == \A q \in Requests : T(q) = t /\ req[q].pc = "start_remove" => ~Alive(t)

WakeEndPcs == {"set_running", "wake_touch", "wake_update"}

\* The wake of a visit to t in slot p brings the tenant up, and does not fail.
Waking(p, t) ==
    IF Active(p)
    THEN T(p) = t /\ req[p].op = "wake" /\ (req[p].pc \in WakeEndPcs => Up(t))
    ELSE req[p].result = "ok" /\ Up(t)

\* What a visit to t knows at each pc.
Knows(p, t) ==
    /\ Quiet(t)
    /\ edge[p].pc # "resolve" => Spared(t)
    /\ edge[p].pc = "waking" => Waking(p, t)
    /\ edge[p].pc \in {"resolve_again", "inspect_again", "proxy"} => Up(t)
    /\ edge[p].pc = "proxy" => edge[p].cid = container[t].id
    /\ edge[p].warm => edge[p].pc # "resolve" /\ listening[t]

Reached(p) ==
    /\ edge[p].answer \in {"none", "served", "refused"}
    /\ edge[p].warm => edge[p].answer \in {"none", "served"}

VisitInv(p) ==
    /\ edge[p].warm => edge[p].calm
    /\ edge[p].calm => Reached(p) /\ (edge[p].pc # "idle" => Knows(p, edge[p].tenant))

EdgeTyped ==
    /\ edge \in [ApiRequests -> Visits]
    /\ \A p \in ApiRequests : ~EdgeAt(p, "idle") => edge[p].tenant \in Tenants /\ edge[p].answer = "none"

EInv ==
    /\ IInv
    /\ Keyed
    /\ EdgeTyped
    /\ Heard
    /\ \A p \in ApiRequests : VisitInv(p)

-----------------------------------------------------------------------------
(* No step inserts a data key. *)

\* A step of q neither holds a new data key, nor is about to insert one for a tenant
\* that has a row.
Keeps(q) == ~req'[q].newDek /\ (req'[q].pc = "insert_dek" => ~Exists(T(q))')

\* Rows only go, and data keys go with their rows.
Dwindles == \A t \in Tenants : Exists(t)' => Exists(t) /\ (dek[t] => dek'[t])

LEMMA BecomeKeeps ==
    ASSUME Typed, NEW q \in Requests, NEW r, Become(q, r), ~r.newDek, r.pc # "insert_dek"
    PROVE  Keeps(q)
BY DEF Become, Typed, TypeOK, Keeps

LEMMA GotoKeeps ==
    ASSUME Typed, Keyed, NEW q \in Requests, NEW pc, pc # "insert_dek", Goto(q, pc)
    PROVE  Keeps(q)
<1> DEFINE r == [req[q] EXCEPT !.pc = pc, !.cid = IF pc \in HandlePcs THEN @ ELSE None]
<1>1. req[q] \in RequestRecords
  BY DEF Typed, TypeOK
<1>2. ~r.newDek /\ r.pc # "insert_dek"
  BY <1>1 DEF RequestRecords, Keyed
<1> QED BY <1>2, BecomeKeeps DEF Goto

LEMMA FetchKeeps ==
    ASSUME Typed, Keyed, NEW q \in Requests, NEW pc, NEW next, next # "insert_dek",
           Fetch(q, pc, next)
    PROVE  Keeps(q) /\ Dwindles
<1> DEFINE r == [req[q] EXCEPT
             !.pc = next,
             !.cid = IF next \in HandlePcs THEN container[T(q)].id ELSE None]
<1>1. req[q] \in RequestRecords
  BY DEF Typed, TypeOK
<1>2. ~r.newDek /\ r.pc # "insert_dek"
  BY <1>1 DEF RequestRecords, Keyed
<1> QED BY <1>2, BecomeKeeps DEF Fetch, db, Dwindles, Exists

LEMMA EndKeeps ==
    ASSUME Typed, NEW q \in Requests, NEW result, EndTransaction(q, result)
    PROVE  Keeps(q)
<1>1. ~Idle(result).newDek /\ Idle(result).pc # "insert_dek"
  BY DEF Idle
<1> QED BY <1>1, BecomeKeeps DEF EndTransaction

LEMMA AbortKeeps ==
    ASSUME Typed, NEW q \in Requests, Abort(q)
    PROVE  Keeps(q) /\ Dwindles
BY EndKeeps DEF Abort, Dwindles, Exists

LEMMA HandleCallKeeps ==
    ASSUME Typed, Keyed, NEW q \in Requests, NEW pc, NEW gonePc, NEW accepted, NEW c,
           NEW next, gonePc # "insert_dek", next # "insert_dek",
           HandleCall(q, pc, gonePc, accepted, c, next)
    PROVE  Keeps(q) /\ Dwindles
<1>1. CASE Abort(q)
  BY <1>1, AbortKeeps
<1>2. CASE (Goto(q, gonePc) \/ Goto(q, next)) /\ UNCHANGED db
  BY <1>2, GotoKeeps DEF db, Dwindles, Exists
<1> QED BY <1>1, <1>2 DEF HandleCall, db

LEMMA CommitKeeps ==
    ASSUME Typed, NEW q \in Requests, Active(q), NEW r, CommitUpdate(q, r)
    PROVE  Keeps(q) /\ Dwindles
<1>1. T(q) \in Tenants
  BY DEF Typed
<1>2. ASSUME NEW t \in Tenants, Exists(t)'
      PROVE  Exists(t) /\ (dek[t] => dek'[t])
  <2>1. dek[t] => dek'[t]
    BY <1>1 DEF CommitUpdate, Typed, TypeOK
  <2>2. Exists(t)
    BY <1>1, <1>2 DEF CommitUpdate, Typed, TypeOK, Exists
  <2> QED BY <2>1, <2>2
<1> QED BY <1>2, EndKeeps DEF CommitUpdate, Dwindles

LEMMA StartKeeps ==
    ASSUME Typed, Keyed, NEW q \in Requests, Active(q), StartStep(q)
    PROVE  Keeps(q) /\ Dwindles
<1>0. T(q) \in Tenants /\ State(q) \in ContainerStates
  BY ActiveFacts
<1>1. CASE GetTenant(q)
  BY <1>1, GotoKeeps, AbortKeeps DEF GetTenant, db, Dwindles, Exists
<1>2. CASE GetSecrets(q)
  <2>1. UNCHANGED <<row, dek>>
    BY <1>2 DEF GetSecrets, db
  <2>2. CASE dek[T(q)]
    BY <1>2, <2>1, <2>2, GotoKeeps DEF GetSecrets, Dwindles, Exists
  <2>3. CASE ~dek[T(q)]
    <3>1. ~Exists(T(q))
      BY <1>0, <2>3 DEF Keyed
    <3>2. Moves(q) /\ req'[q].pc = "insert_dek"
      BY <1>2, <2>3, GotoMoves DEF GetSecrets, Pcs, AwaitPcs
    <3>3. T(q)' = T(q)
      BY <3>2 DEF Moves, SameRequest, T
    <3>4. ~req'[q].newDek
      <4>1. Goto(q, "insert_dek") /\ req[q] \in RequestRecords /\ ~req[q].newDek
        BY <1>2, <2>3 DEF GetSecrets, Typed, TypeOK, Keyed
      <4> QED BY <4>1 DEF Goto, Become, Typed, TypeOK, RequestRecords
    <3> QED BY <2>1, <3>1, <3>3, <3>4 DEF Keeps, Dwindles, Exists
  <2> QED BY <2>2, <2>3
<1>3. CASE InsertDek(q)
  <2>1. Abort(q)
    BY <1>3 DEF InsertDek, At, Keyed
  <2> QED BY <2>1, AbortKeeps
<1>4. CASE CreateTenantDirs(q) \/ CreateNetwork(q)
  BY <1>4, GotoKeeps DEF CreateTenantDirs, CreateNetwork, db, Dwindles, Exists
<1>5. CASE StartInspect(q)
  <2>1. StartCase[State(q)] # "insert_dek"
    BY <1>0 DEF StartCase, ContainerStates
  <2> QED BY <1>5, <2>1, FetchKeeps DEF StartInspect
<1>6. CASE StartUnpause(q) \/ StartRemove(q)
  BY <1>6, HandleCallKeeps DEF StartUnpause, StartRemove
<1>7. CASE CreateContainer(q)
  <2>1. ASSUME NEW id \in ContainerIds, UNCHANGED db,
               Become(q, [req[q] EXCEPT !.pc = "run_container", !.cid = id])
        PROVE  Keeps(q) /\ Dwindles
    <3> DEFINE r == [req[q] EXCEPT !.pc = "run_container", !.cid = id]
    <3>1. ~r.newDek /\ r.pc # "insert_dek"
      BY DEF Typed, TypeOK, RequestRecords, Keyed
    <3> QED BY <2>1, <3>1, BecomeKeeps DEF db, Dwindles, Exists
  <2> QED BY <1>7, <2>1, AbortKeeps DEF CreateContainer
<1>8. CASE RunContainer(q)
  BY <1>8, GotoKeeps, AbortKeeps DEF RunContainer, db, Dwindles, Exists
<1>9. CASE SetRunning(q)
  BY <1>9, CommitKeeps DEF SetRunning
<1> QED BY <1>1, <1>2, <1>3, <1>4, <1>5, <1>6, <1>7, <1>8, <1>9 DEF StartStep

LEMMA OtherKeeps ==
    ASSUME Typed, Keyed, NEW q \in Requests, Active(q),
           StopStep(q) \/ PauseStep(q) \/ WakeStep(q) \/ DeleteStep(q)
    PROVE  Keeps(q) /\ Dwindles
<1>0. T(q) \in Tenants /\ Stopped(q) # "insert_dek"
  BY ActiveFacts DEF Stopped
<1>1. CASE StopStep(q)
  <2>1. CASE StopInspect(q)
    BY <1>0, <2>1, FetchKeeps DEF StopInspect
  <2>2. CASE StopContainer(q) \/ RemoveContainer(q)
    BY <1>0, <2>2, HandleCallKeeps DEF StopContainer, RemoveContainer
  <2>3. CASE SetStopped(q)
    BY <2>3, CommitKeeps DEF SetStopped
  <2> QED BY <1>1, <2>1, <2>2, <2>3 DEF StopStep
<1>2. CASE PauseStep(q)
  <2>1. CASE PauseInspect(q)
    BY <2>1, FetchKeeps DEF PauseInspect
  <2>2. CASE PauseContainer(q)
    BY <2>2, HandleCallKeeps DEF PauseContainer
  <2>3. CASE SetPaused(q)
    BY <2>3, CommitKeeps DEF SetPaused
  <2> QED BY <1>2, <2>1, <2>2, <2>3 DEF PauseStep
<1>3. CASE WakeStep(q)
  <2>1. CASE WakeInspect(q)
    <3> DEFINE next == CASE State(q) = "running" -> "wake_touch"
                         [] State(q) = "paused" -> "unpause_inspect"
                         [] OTHER -> "get_tenant"
    <3>1. next # "insert_dek"
      OBVIOUS
    <3>2. Fetch(q, "wake_inspect", next)
      BY <2>1 DEF WakeInspect
    <3> HIDE DEF next
    <3> QED BY <3>1, <3>2, FetchKeeps
  <2>2. CASE UnpauseInspect(q)
    BY <2>2, FetchKeeps DEF UnpauseInspect
  <2>3. CASE UnpauseContainer(q)
    BY <2>3, HandleCallKeeps DEF UnpauseContainer
  <2>4. CASE WakeTouch(q) \/ WakeUpdate(q)
    BY <2>4, CommitKeeps, AbortKeeps DEF WakeTouch, WakeUpdate, WakeCommit
  <2> QED BY <1>3, <2>1, <2>2, <2>3, <2>4 DEF WakeStep
<1>4. CASE DeleteStep(q)
  <2>1. CASE DeleteGet(q)
    BY <2>1, GotoKeeps, EndKeeps DEF DeleteGet, db, Dwindles, Exists
  <2>2. CASE SetDeleting(q)
    BY <2>2, GotoKeeps, AbortKeeps DEF SetDeleting, Dwindles, Exists
  <2>3. CASE RemoveNetwork(q) \/ RemoveTenantDirs(q)
    BY <2>3, GotoKeeps, AbortKeeps DEF RemoveNetwork, RemoveTenantDirs, db, Dwindles, Exists
  <2>4. CASE DeleteRow(q)
    BY <1>0, <2>4, EndKeeps DEF DeleteRow, Typed, TypeOK, Dwindles, Exists, NoRow
  <2> QED BY <1>4, <2>1, <2>2, <2>3, <2>4 DEF DeleteStep
<1> QED BY <1>1, <1>2, <1>3, <1>4

LEMMA StepKeeps ==
    ASSUME Typed, Keyed, NEW q \in Requests, Step(q) \/ Fail(q)
    PROVE  Keyed' /\ Dwindles
<1>1. Active(q) /\ Steps(q)
  BY RequestSteps
<1>2. Keeps(q) /\ Dwindles
  BY <1>1, StartKeeps, OtherKeeps, AbortKeeps DEF Step, Fail, DeadlockAbort
<1>3. \A p \in Requests \ {q} : req'[p] = req[p]
  BY <1>1 DEF Steps, Moves, Typed, TypeOK
<1>4. ASSUME NEW p \in Requests \ {q}, req[p].pc = "insert_dek"
      PROVE  ~Exists(T(p))'
  <2>1. T(p) \in Tenants
    BY <1>4 DEF Typed, Active
  <2> QED BY <1>2, <1>3, <1>4, <2>1 DEF Keyed, Dwindles, T, Exists
<1>5. \A p \in Requests : ~req'[p].newDek /\ (req'[p].pc = "insert_dek" => ~Exists(T(p))')
  BY <1>2, <1>3, <1>4 DEF Keyed, Keeps
<1> QED BY <1>2, <1>5 DEF Keyed, Dwindles

-----------------------------------------------------------------------------
(* What a start or a wake does to a quiet tenant t. *)

Effect(q, t) ==
    /\ Exists(t)' /\ container'[t].state # "restarting"
    /\ Up(t) /\ req[q].pc # "start_remove" => container'[t] = container[t]
    /\ Alive(t) /\ req[q].pc # "start_remove" =>
         Alive(t)' /\ container'[t].id = container[t].id
    /\ ~Alive(t) /\ Alive(t)' => req[q].pc \in SyncPcs
    /\ req'[q].pc = "start_remove" => ~Alive(t)'
    /\ req'[q].pc \in WakeEndPcs => Up(t)'
    /\ req'[q].pc = "idle" =>
         req'[q].result = "ok" /\ req[q].pc \in WakeEndPcs /\ container' = container

\* A call that leaves the container as it is.
LEMMA GoesOnEffect ==
    ASSUME Typed, NEW q \in Requests, NEW t \in Tenants, Quiet(t),
           UNCHANGED <<row, container>>, req'[q].pc # "idle",
           req'[q].pc = "start_remove" => ~Alive(t),
           req'[q].pc \in WakeEndPcs => Up(t)
    PROVE  Effect(q, t)
BY DEF Effect, Quiet, Up, Alive, Exists

\* The commit at the end.
LEMMA CommitEffect ==
    ASSUME Typed, NEW q \in Requests, NEW t \in Tenants, T(q) = t, Quiet(t), Active(q),
           NEW r \in RowRecords, r.status # "absent", req[q].pc \in WakeEndPcs,
           CommitUpdate(q, r)
    PROVE  Effect(q, t)
<1>1. req'[q] = Idle("ok") /\ container' = container /\ row'[t] = r
  BY CommitUpdateSteps DEF docker, Quiet
<1>2. req'[q].pc = "idle" /\ req'[q].result = "ok"
  BY <1>1 DEF Idle
<1> QED BY <1>1, <1>2 DEF Effect, Quiet, Up, Alive, Exists, WakeEndPcs

\* A call on the container object, which is there and in an accepted state.
LEMMA CallEffect ==
    ASSUME Typed, NEW q \in Requests, NEW t \in Tenants, T(q) = t, Quiet(t),
           NEW pc \in SyncPcs, NEW gonePc \in Pcs, NEW accepted, NEW c \in Containers,
           NEW next \in Pcs, HandleCall(q, pc, gonePc, accepted, c, next),
           ~Gone(q), State(q) \in accepted, c.state # "restarting",
           Up(t) => pc = "start_remove", next # "start_remove", next # "idle",
           pc # "start_remove" /\ Alive(t) =>
              c.state \in {"running", "paused"} /\ c.id = container[t].id,
           next \in WakeEndPcs => c.state = "running"
    PROVE  Effect(q, t)
<1>1. pc # "idle"
  BY DEF SyncPcs
<1>2. Active(q) /\ req[q].pc = pc
  BY <1>1 DEF HandleCall, At, Active
<1>3. container' = [container EXCEPT ![t] = c] /\ Goto(q, next) /\ UNCHANGED db
  BY DEF HandleCall
<1>4. container'[t] = c /\ req'[q].pc = next /\ row' = row
  BY <1>2, <1>3, GotoMoves DEF Typed, TypeOK, db
<1> QED BY <1>2, <1>4 DEF Effect, Quiet, Up, Alive, Exists

LEMMA StartEffect ==
    ASSUME Typed, Keyed, NEW q \in Requests, NEW t \in Tenants, T(q) = t, Quiet(t), Active(q),
           SectionFacts(q), StartStep(q)
    PROVE  Effect(q, t)
<1>0. /\ State(q) \in ContainerStates /\ State(q) # "restarting" /\ Exists(t)
      /\ req[q].cid \in ContainerIds \cup {None} /\ container[t] \in Containers
      /\ container \in [Tenants -> Containers]
  BY ActiveFacts DEF Quiet, State, Typed, TypeOK
<1>1. CASE GetTenant(q)
  <2>1. Goto(q, "get_secrets") /\ UNCHANGED <<db, docker>>
    BY <1>0, <1>1 DEF GetTenant
  <2>2. req'[q].pc = "get_secrets"
    BY <2>1, GotoMoves DEF Pcs, AwaitPcs
  <2> QED BY <2>1, <2>2, GoesOnEffect DEF db, docker, WakeEndPcs
<1>2. CASE GetSecrets(q)
  <2>1. Goto(q, "create_dirs") /\ UNCHANGED <<db, docker>>
    BY <1>0, <1>2 DEF GetSecrets, Keyed
  <2>2. req'[q].pc = "create_dirs"
    BY <2>1, GotoMoves DEF Pcs, AwaitPcs
  <2> QED BY <2>1, <2>2, GoesOnEffect DEF db, docker, WakeEndPcs
<1>3. CASE InsertDek(q)
  BY <1>0, <1>3 DEF InsertDek, At, Keyed
<1>4. CASE CreateTenantDirs(q)
  <2>1. req'[q].pc = "start_inspect"
    BY <1>4, GotoMoves DEF CreateTenantDirs, Pcs, SyncPcs
  <2> QED BY <1>4, <2>1, GoesOnEffect DEF CreateTenantDirs, db, WakeEndPcs
<1>5. CASE StartInspect(q)
  <2>1. StartCase[State(q)] \in Pcs
    BY <1>0 DEF StartCase, ContainerStates, Pcs, SyncPcs, AwaitPcs
  <2>2. UNCHANGED <<db, docker>> /\ req'[q].pc = StartCase[State(q)]
    BY <1>5, <2>1, FetchSteps DEF StartInspect
  <2>3. /\ StartCase[State(q)] # "idle"
        /\ StartCase[State(q)] = "start_remove" => State(q) \notin {"running", "paused"}
        /\ StartCase[State(q)] \in WakeEndPcs => State(q) = "running"
    BY <1>0 DEF StartCase, ContainerStates, WakeEndPcs
  <2> QED BY <2>2, <2>3, GoesOnEffect DEF db, docker, Up, Alive, State
<1>6. CASE StartUnpause(q)
  <2>1. ~Gone(q) /\ State(q) = "paused"
    BY <1>6 DEF StartUnpause, HandleCall, At, SectionFacts
  <2>2. /\ InState(q, "running") \in Containers /\ InState(q, "running").state = "running"
        /\ InState(q, "running").id = container[t].id
    BY <1>0, <2>1 DEF InState, Gone, Containers, ContainerStates
  <2>3. /\ "create_network" \in Pcs /\ "set_running" \in Pcs /\ "start_unpause" \in SyncPcs
    BY DEF Pcs, SyncPcs, AwaitPcs
  <2> QED BY <1>6, <2>1, <2>2, <2>3, CallEffect DEF StartUnpause, Up, State
<1>7. CASE StartRemove(q)
  <2>1. ~Gone(q)
    BY <1>7 DEF StartRemove, HandleCall, At, SectionFacts
  <2>2. NoContainer \in Containers /\ NoContainer.state = "not_found"
    BY DEF NoContainer, Containers, ContainerStates
  <2>3. "create_network" \in Pcs /\ "start_remove" \in SyncPcs
    BY DEF Pcs, SyncPcs
  <2> QED BY <1>0, <1>7, <2>1, <2>2, <2>3, CallEffect DEF StartRemove, WakeEndPcs
<1>8. CASE CreateNetwork(q)
  <2>1. req'[q].pc = "create_container"
    BY <1>8, GotoMoves DEF CreateNetwork, Pcs, SyncPcs
  <2> QED BY <1>8, <2>1, GoesOnEffect DEF CreateNetwork, db, WakeEndPcs
<1>9. CASE CreateContainer(q)
  <2>1. container[t] = NoContainer /\ dirs[t] /\ req[q].pc = "create_container"
    BY <1>9 DEF CreateContainer, At, SectionFacts
  <2>2. PICK id \in ContainerIds :
           /\ container' = [container EXCEPT ![t] = [id |-> id, state |-> "created"]]
           /\ Become(q, [req[q] EXCEPT !.pc = "run_container", !.cid = id])
           /\ UNCHANGED db
    BY <1>9, <2>1 DEF CreateContainer
  <2>3. container'[t].state = "created" /\ ~Up(t) /\ row' = row
    BY <1>0, <2>1, <2>2 DEF Up, NoContainer, db
  <2>4. req'[q].pc = "run_container"
    BY <2>2 DEF Become, Typed, TypeOK, RequestRecords
  <2>5. ~Alive(t) /\ ~Alive(t)'
    BY <2>1, <2>3 DEF Alive, NoContainer
  <2> QED BY <1>0, <2>3, <2>4, <2>5 DEF Effect, Up, Exists, WakeEndPcs
<1>10. CASE RunContainer(q)
  <2>1. /\ ~Gone(q) /\ State(q) = "created" /\ network[t] /\ req[q].pc = "run_container"
    BY <1>10 DEF RunContainer, At, SectionFacts
  <2>2. /\ container' = [container EXCEPT ![t] = InState(q, "running")]
        /\ Goto(q, "set_running") /\ UNCHANGED db
    BY <1>10, <2>1 DEF RunContainer
  <2>3. container'[t].state = "running" /\ ~Up(t) /\ row' = row
    BY <1>0, <2>1, <2>2 DEF Up, State, InState, db
  <2>4. req'[q].pc = "set_running"
    BY <2>2, GotoMoves DEF Pcs, AwaitPcs
  <2>5. ~Alive(t)
    BY <2>1 DEF Alive, State
  <2> QED BY <1>0, <2>1, <2>3, <2>4, <2>5 DEF Effect, Up, Exists, WakeEndPcs, SyncPcs
<1>11. CASE SetRunning(q)
  <2>1. [status |-> "running", cid |-> req[q].cid, idle |-> 0] \in RowRecords
    BY <1>0 DEF RowRecords, Statuses
  <2> QED BY <1>11, <2>1, CommitEffect DEF SetRunning, At, WakeEndPcs
<1> QED BY <1>1, <1>2, <1>3, <1>4, <1>5, <1>6, <1>7, <1>8, <1>9, <1>10, <1>11 DEF StartStep

LEMMA WakeEffect ==
    ASSUME Typed, NEW q \in Requests, NEW t \in Tenants, T(q) = t, Quiet(t), Active(q),
           SectionFacts(q), WakeStep(q)
    PROVE  Effect(q, t)
<1>0. /\ State(q) \in ContainerStates /\ Exists(t) /\ row[t] \in RowRecords
      /\ req[q].cid \in ContainerIds \cup {None}
  BY ActiveFacts DEF Quiet
<1>1. CASE WakeInspect(q)
  <2> DEFINE next == CASE State(q) = "running" -> "wake_touch"
                       [] State(q) = "paused" -> "unpause_inspect"
                       [] OTHER -> "get_tenant"
  <2>1. next \in Pcs /\ next \notin {"idle", "start_remove"}
        /\ (next \in WakeEndPcs => State(q) = "running")
    BY DEF Pcs, SyncPcs, AwaitPcs, WakeEndPcs
  <2>2. Fetch(q, "wake_inspect", next)
    BY <1>1 DEF WakeInspect
  <2> HIDE DEF next
  <2>3. UNCHANGED <<db, docker>> /\ req'[q].pc = next
    BY <2>1, <2>2, FetchSteps
  <2> QED BY <2>1, <2>3, GoesOnEffect DEF db, docker, Up, State
<1>2. CASE UnpauseInspect(q)
  <2>1. State(q) = "paused"
    BY <1>2 DEF UnpauseInspect, Fetch, At, SectionFacts
  <2>2. "unpause_container" \in Pcs
    BY DEF Pcs, SyncPcs
  <2>3. UNCHANGED <<db, docker>> /\ req'[q].pc = "unpause_container"
    BY <1>2, <2>1, <2>2, FetchSteps DEF UnpauseInspect
  <2> QED BY <2>3, GoesOnEffect DEF db, docker, WakeEndPcs
<1>3. CASE UnpauseContainer(q)
  <2>1. ~Gone(q) /\ State(q) = "paused"
    BY <1>3 DEF UnpauseContainer, HandleCall, At, SectionFacts
  <2>2. /\ InState(q, "running") \in Containers /\ InState(q, "running").state = "running"
        /\ InState(q, "running").id = container[t].id
    BY <1>0, <2>1 DEF InState, Gone, Containers, ContainerStates
  <2>3. "wake_update" \in Pcs /\ "unpause_container" \in SyncPcs
    BY DEF Pcs, SyncPcs, AwaitPcs
  <2> QED BY <1>3, <2>1, <2>2, <2>3, CallEffect DEF UnpauseContainer, Up, State
<1>4. CASE WakeTouch(q)
  <2>1. [row[t] EXCEPT !.idle = 0] \in RowRecords /\ [row[t] EXCEPT !.idle = 0].status # "absent"
    BY <1>0 DEF RowRecords, Exists
  <2> QED BY <1>0, <1>4, <2>1, CommitEffect DEF WakeTouch, WakeCommit, At, WakeEndPcs
<1>5. CASE WakeUpdate(q)
  <2>1. [status |-> "running", cid |-> row[t].cid, idle |-> 0] \in RowRecords
    BY <1>0 DEF RowRecords, Statuses
  <2> QED BY <1>0, <1>5, <2>1, CommitEffect DEF WakeUpdate, WakeCommit, At, WakeEndPcs
<1> QED BY <1>1, <1>2, <1>3, <1>4, <1>5 DEF WakeStep

LEMMA StepEffect ==
    ASSUME IInv, Keyed, CliCommands = {}, NEW q \in Requests, NEW t \in Tenants, T(q) = t,
           Quiet(t), Step(q)
    PROVE  Effect(q, t)
<1>1. Typed /\ Active(q) /\ SectionFacts(q) /\ InHandler(q) /\ req[q].op \notin Disturbing
  BY RequestSteps DEF IInv, RequestInv, Undisturbed, Quiet
<1>2. req[q].op \in {"start", "wake"}
  BY <1>1 DEF InHandler, Ops, Disturbing
<1>3. req[q].pc \in HandlerPcs["wake"]
  BY <1>1, <1>2 DEF InHandler, HandlerPcs
<1>4. ~(StopStep(q) \/ PauseStep(q) \/ DeleteStep(q))
  BY <1>3 DEF HandlerPcs, StopStep, PauseStep, DeleteStep, StopInspect, StopContainer,
       RemoveContainer, SetStopped, PauseInspect, PauseContainer, SetPaused, DeleteGet,
       SetDeleting, RemoveNetwork, RemoveTenantDirs, DeleteRow, Fetch, HandleCall, At
<1>5. ~DeadlockAbort(q)
  BY DEF DeadlockAbort, WaitsFor, Keyed
<1> QED BY <1>1, <1>4, <1>5, StartEffect, WakeEffect DEF Step

-----------------------------------------------------------------------------
(* What a visit knows lasts. *)

\* Whatever leaves the tenant alone and brings it no request that disturbs.
LEMMA KeptKnows ==
    ASSUME NEW p \in ApiRequests, NEW t \in Tenants, Knows(p, t),
           edge'[p].pc = edge[p].pc, edge'[p].cid = edge[p].cid,
           edge'[p].warm => edge[p].warm,
           row'[t] = row[t], container'[t] = container[t], listening'[t] = listening[t],
           \A x \in Requests : req'[x].tenant = t =>
              \/ /\ req[x].tenant = t /\ req'[x].op = req[x].op
                 /\ req'[x].pc = req[x].pc
              \/ req'[x].op \notin Disturbing /\ req'[x].pc # "start_remove",
           EdgeAt(p, "waking") =>
              /\ req'[p].pc = req[p].pc /\ req'[p].tenant = req[p].tenant
              /\ req'[p].op = req[p].op /\ req'[p].result = req[p].result
    PROVE  Knows(p, t)'
<1>1. Quiet(t)'
  BY DEF Knows, Quiet, T, Exists
<1>2. edge[p].pc # "resolve" => Spared(t)'
  BY DEF Knows, Spared, T, Alive
<1>3. edge[p].pc = "waking" => Waking(p, t)'
  BY DEF Knows, Waking, Active, T, Up, EdgeAt
<1> QED BY <1>1, <1>2, <1>3 DEF Knows, Up

\* A gateway whose container's process lives on.
LEMMA LivesOn ==
    ASSUME Heard, Listeners, NEW t \in Tenants,
           Alive(t) => Alive(t)' /\ container'[t].id = container[t].id
    PROVE  listening'[t] = listening[t]
BY DEF Heard, Listeners, Alive

LEMMA ListenersHeard ==
    ASSUME Heard, Listeners
    PROVE  Heard'
BY DEF Heard, Listeners, Alive

\* A step of a request on another tenant.
LEMMA ElsewhereKnows ==
    ASSUME Typed, Heard, Listeners, NEW p \in ApiRequests, NEW t \in Tenants, Knows(p, t),
           edge'[p].pc = edge[p].pc, edge'[p].cid = edge[p].cid, edge'[p].warm => edge[p].warm,
           NEW q \in Requests, Step(q) \/ Fail(q), T(q) # t
    PROVE  Knows(p, t)'
<1>1. Active(q) /\ Steps(q)
  BY RequestSteps
<1>2. row'[t] = row[t] /\ container'[t] = container[t] /\ listening'[t] = listening[t]
  <2>1. row'[t] = row[t] /\ container'[t] = container[t]
    BY <1>1 DEF Steps, Local
  <2> QED BY <2>1, LivesOn DEF Alive
<1>3. \A x \in Requests \ {q} : req'[x] = req[x]
  BY <1>1 DEF Steps, Moves, Typed, TypeOK
<1>4. req'[q].tenant # t
  BY <1>1, NoneAssumption DEF Steps, Moves, SameRequest, T
<1>5. EdgeAt(p, "waking") => p # q
  BY <1>1 DEF Knows, Waking, EdgeAt
<1>6. p \in Requests
  BY DEF Requests
<1> QED BY <1>2, <1>3, <1>4, <1>5, <1>6, KeptKnows

\* A step of any other start or wake on the tenant, or of the visit's own.
LEMMA StepKnows ==
    ASSUME IInv, Keyed, Heard, Listeners, CliCommands = {}, NEW p \in ApiRequests,
           NEW t \in Tenants, Knows(p, t), UNCHANGED edge, NEW q \in Requests, Step(q)
    PROVE  Knows(p, t)'
<1>0. /\ Typed /\ Active(q) /\ Steps(q) /\ Runs(q) /\ Quiet(t)
      /\ Requests = ApiRequests /\ None \notin ApiRequests
  BY RequestSteps, StepRuns, NoneAssumption DEF IInv, Knows, Requests
<1>1. CASE T(q) # t
  BY <1>0, <1>1, ElsewhereKnows
<1>2. CASE T(q) = t
  <2>1. Effect(q, t)
    BY <1>0, <1>2, StepEffect
  <2>2. \A x \in Requests \ {q} : req'[x] = req[x]
    BY <1>0 DEF Steps, Moves, Typed, TypeOK
  <2>3. req'[q].pc # "idle" => T(q)' = t /\ req'[q].op = req[q].op
    BY <1>0, <1>2 DEF Steps, Moves, SameRequest, T
  <2>4. T(q)' = t => req'[q].op = req[q].op
    BY <1>0, <1>2, NoneAssumption DEF Steps, Moves, SameRequest, T
  <2>5. Quiet(t)'
    BY <1>0, <1>2, <2>1, <2>2, <2>4 DEF Quiet, Effect, T
  <2>6. ASSUME Spared(t)
        PROVE  /\ Spared(t)' /\ listening'[t] = listening[t]
               /\ Up(t) => container'[t] = container[t]
    <3>0. req[q].pc # "start_remove" \/ ~Alive(t)
      BY <1>2, <2>6 DEF Spared
    <3>1. Up(t) => container'[t] = container[t]
      BY <2>1, <3>0 DEF Effect, Up, Alive
    <3>2. ASSUME NEW x \in Requests \ {q}, T(x)' = t, req'[x].pc = "start_remove", Alive(t)'
          PROVE  FALSE
      <4>1. T(x) = t /\ req[x].pc = "start_remove"
        BY <2>2, <3>2 DEF T
      <4>2. loop = x
        BY <1>0, <4>1 DEF IInv, SyncPcs
      <4>3. req[q].pc \in SyncPcs
        BY <2>1, <2>6, <3>2, <4>1 DEF Spared, Effect
      <4> QED BY <1>0, <3>2, <4>2, <4>3 DEF IInv
    <3>3. listening'[t] = listening[t]
      BY <2>1, <3>0, LivesOn DEF Effect
    <3> QED BY <2>1, <3>1, <3>2, <3>3 DEF Spared, Effect
  <2>7. CASE edge[p].pc = "resolve"
    BY <2>5, <2>7 DEF Knows
  <2>8. CASE edge[p].pc # "resolve"
    <3>1. /\ Spared(t)' /\ listening'[t] = listening[t]
          /\ Up(t) => container'[t] = container[t]
      BY <2>6, <2>8 DEF Knows
    <3>2. edge[p].pc = "waking" => Waking(p, t)'
      <4>1. CASE p # q
        BY <1>0, <2>2, <3>1, <4>1 DEF Knows, Waking, Active, T, Up
      <4>2. CASE p = q
        <5>1. edge[p].pc = "waking" => req[p].op = "wake" /\ (req[p].pc \in WakeEndPcs => Up(t))
          BY <1>0, <4>2 DEF Knows, Waking
        <5> QED BY <2>1, <2>3, <4>2, <5>1 DEF Waking, Effect, Active, Up
      <4> QED BY <4>1, <4>2
    <3> QED BY <2>5, <3>1, <3>2 DEF Knows, Up
  <2> QED BY <2>7, <2>8
<1> QED BY <1>1, <1>2

\* A request arrives.
LEMMA BeginKnows ==
    ASSUME Typed, NEW p \in ApiRequests, NEW t \in Tenants, Knows(p, t),
           edge'[p].pc = edge[p].pc, edge'[p].cid = edge[p].cid, edge'[p].warm => edge[p].warm,
           UNCHANGED listening,
           NEW q \in Requests, NEW op \in Ops, NEW u \in Tenants, Begin(q, op, u),
           op \in Disturbing => u # t, EdgeAt(p, "waking") => p # q
    PROVE  Knows(p, t)'
<1>1. UNCHANGED <<row, container>>
  BY DEF Begin, db, docker
<1>2. ASSUME NEW x \in Requests \ {q}
      PROVE  /\ req'[x].op = req[x].op /\ req'[x].pc = req[x].pc
             /\ req'[x].tenant = req[x].tenant /\ req'[x].result = req[x].result
  <2>1. req[x] \in RequestRecords
    BY DEF Typed, TypeOK
  <2>2. req'[x] = [req[x] EXCEPT !.alone = @ /\ T(x) # u]
    BY <1>2 DEF Begin
  <2> QED BY <2>1, <2>2 DEF RequestRecords
<1>3. req'[q].tenant = u /\ req'[q].op = op /\ req'[q].pc # "start_remove"
  BY DEF Begin, Begun, Entry, Ops
<1>4. p \in Requests
  BY DEF Requests
<1> QED BY <1>1, <1>2, <1>3, <1>4, KeptKnows

\* The containers crash and come back by themselves.
LEMMA EnvironmentKnows ==
    ASSUME Typed, Heard, Listeners, NEW p \in ApiRequests, NEW t \in Tenants, Knows(p, t),
           edge'[p].pc = edge[p].pc, edge'[p].cid = edge[p].cid, edge'[p].warm => edge[p].warm,
           NEW u \in Tenants, (ContainerCrash(u) /\ u # t) \/ ContainerRestart(u)
    PROVE  Knows(p, t)'
<1>1. u # t
  BY DEF Knows, Quiet, ContainerRestart
<1>2. row' = row /\ container'[t] = container[t] /\ listening'[t] = listening[t]
  <2>1. row' = row /\ container'[t] = container[t]
    BY <1>1 DEF ContainerCrash, ContainerRestart, db, Typed, TypeOK
  <2> QED BY <2>1, LivesOn DEF Alive
<1>3. ASSUME NEW x \in Requests
      PROVE  /\ req'[x].op = req[x].op /\ req'[x].pc = req[x].pc
             /\ req'[x].tenant = req[x].tenant /\ req'[x].result = req[x].result
  <2>1. req[x] \in RequestRecords
    BY DEF Typed, TypeOK
  <2>2. req'[x] = [req[x] EXCEPT !.alone = @ /\ T(x) # u]
    BY DEF ContainerCrash, ContainerRestart
  <2> QED BY <2>1, <2>2 DEF RequestRecords
<1>4. p \in Requests
  BY DEF Requests
<1> QED BY <1>2, <1>3, <1>4, KeptKnows

-----------------------------------------------------------------------------
(* The steps of a visit keep what it knows itself. *)

\* What leads from visit p to another state of it.
Changes(p) ==
    /\ edge' = [edge EXCEPT ![p] = edge'[p]]
    /\ edge'[p] \in Visits
    /\ edge'[p].pc # "idle" => edge'[p].tenant \in Tenants /\ edge'[p].answer = "none"

LEMMA GotoChanges ==
    ASSUME EdgeTyped, NEW p \in ApiRequests, edge[p].pc # "idle", NEW pc \in EdgePcs,
           NEW cid \in ContainerIds \cup {None}, EdgeGoto(p, pc, cid)
    PROVE  /\ Changes(p) /\ edge'[p].pc = pc /\ edge'[p].cid = cid
           /\ edge'[p].tenant = edge[p].tenant /\ edge'[p].calm = edge[p].calm
           /\ edge'[p].answer = edge[p].answer /\ edge'[p].warm = edge[p].warm
<1>1. edge[p] \in Visits /\ edge[p].tenant \in Tenants /\ edge[p].answer = "none"
  BY DEF EdgeTyped, EdgeAt
<1>2. edge'[p] = [edge[p] EXCEPT !.pc = pc, !.cid = cid]
  BY DEF EdgeGoto, EdgeTyped
<1>3. edge' = [edge EXCEPT ![p] = edge'[p]]
  BY DEF EdgeGoto, EdgeTyped
<1> QED BY <1>1, <1>2, <1>3 DEF Visits, Changes

LEMMA ResolveChanges ==
    ASSUME EdgeTyped, Heard, NEW p \in ApiRequests, edge[p].pc = "resolve",
           edge' = [edge EXCEPT ![p].pc = "inspect",
                                ![p].warm = edge[p].calm /\ listening[edge[p].tenant]]
    PROVE  /\ Changes(p) /\ edge'[p].pc = "inspect" /\ edge'[p].calm = edge[p].calm
           /\ edge'[p].tenant = edge[p].tenant
           /\ edge'[p].warm => edge[p].calm /\ listening[edge[p].tenant]
<1> DEFINE warm == edge[p].calm /\ listening[edge[p].tenant]
           visit == [edge[p] EXCEPT !.pc = "inspect", !.warm = warm]
<1>1. edge[p] \in Visits /\ edge[p].tenant \in Tenants /\ edge[p].answer = "none"
  BY DEF EdgeTyped, EdgeAt
<1>2. warm \in BOOLEAN
  OBVIOUS
<1>3. edge' = [edge EXCEPT ![p] = visit] /\ edge'[p] = visit
  BY DEF EdgeTyped
<1> HIDE DEF warm
<1>4. /\ visit \in Visits /\ visit.pc = "inspect" /\ visit.calm = edge[p].calm
      /\ visit.tenant = edge[p].tenant /\ visit.warm = warm /\ visit.answer = "none"
  BY <1>1, <1>2 DEF Visits, EdgePcs
<1> QED BY <1>1, <1>3, <1>4 DEF Changes, warm

LEMMA AnswerChanges ==
    ASSUME EdgeTyped, NEW p \in ApiRequests, NEW answer \in Answers, Answer(p, answer)
    PROVE  /\ Changes(p) /\ edge'[p].pc = "idle" /\ edge'[p].answer = answer
           /\ edge'[p].calm = edge[p].calm /\ edge'[p].warm = edge[p].warm
<1>1. edge[p] \in Visits /\ NoVisit \in Visits
  BY DEF EdgeTyped, NoVisit, Visits, EdgePcs, Answers
<1>2. edge'[p] = [NoVisit EXCEPT !.answer = answer, !.calm = edge[p].calm,
                                  !.warm = edge[p].warm]
  BY DEF Answer, EdgeTyped
<1>3. edge' = [edge EXCEPT ![p] = edge'[p]]
  BY DEF Answer, EdgeTyped
<1> QED BY <1>1, <1>2, <1>3 DEF Visits, Changes, NoVisit

\* When the API runs the call of a visit it is in no synchronous section.
LEMMA LoopFree ==
    ASSUME IInv, CliCommands = {}, loop = None, NEW t
    PROVE  Spared(t)
<1>1. \A q \in Requests : q \in ApiRequests /\ q # None
  BY NoneAssumption DEF Requests
<1> QED BY <1>1 DEF IInv, SyncPcs, Spared

\* The next pc asks for nothing that the visit does not know.
LEMMA GoesOnInv ==
    ASSUME NEW p \in ApiRequests, NEW t, UNCHANGED <<row, container, req, listening>>,
           edge'[p].tenant = t, edge'[p].answer = "none", edge'[p].warm => edge'[p].calm,
           edge'[p].calm => /\ Quiet(t) /\ Spared(t)
                            /\ edge'[p].warm => edge'[p].pc # "resolve" /\ listening[t]
                            /\ edge'[p].pc \in {"resolve_again", "inspect_again", "proxy"} => Up(t)
                            /\ edge'[p].pc = "proxy" => edge'[p].cid = container[t].id,
           edge'[p].pc # "waking"
    PROVE  VisitInv(p)'
<1>1. edge'[p].calm => Quiet(t)' /\ Spared(t)' /\ (Up(t) => Up(t)')
  BY DEF Quiet, Spared, Up, Alive, T, Exists
<1> QED BY <1>1 DEF VisitInv, Knows, Reached, Up

\* An answer that a calm visit does not get.
LEMMA AnswerInv ==
    ASSUME EdgeTyped, NEW p \in ApiRequests, NEW answer \in Answers, Answer(p, answer),
           edge[p].warm => edge[p].calm,
           edge[p].calm => answer \in {"served", "refused"},
           edge[p].warm => answer = "served"
    PROVE  Changes(p) /\ VisitInv(p)'
BY AnswerChanges DEF VisitInv, Reached

LEMMA VisitStepInv ==
    ASSUME EInv, CliCommands = {}, NEW p \in ApiRequests, NEW t, edge[p].tenant = t, EdgeStep(p)
    PROVE  Changes(p) /\ VisitInv(p)'
<1>0. /\ Typed /\ EdgeTyped /\ edge[p] \in Visits /\ p \in Requests
      /\ (edge[p].pc # "idle" => edge[p].answer = "none")
      /\ (edge[p].calm /\ edge[p].pc # "idle" => Knows(p, t))
      /\ (edge[p].warm => edge[p].calm)
  BY DEF EInv, IInv, EdgeTyped, EdgeAt, VisitInv, Requests
<1>1. edge[p].pc # "idle"
  BY DEF EdgeStep, EdgeResolve, EdgeInspect, EdgeEnsure, EdgeEnsured, EdgeResolveAgain,
         EdgeInspectAgain, EdgeProxy, ApiServes, EdgeAt
<1>2. t \in Tenants /\ V(p) = container[t] /\ container[t] \in Containers
  BY <1>0, <1>1 DEF EdgeTyped, EdgeAt, Typed, TypeOK, V
<1>3. /\ {"inspect", "ensure", "waking", "resolve_again", "inspect_again", "proxy"} \subseteq EdgePcs
      /\ {"served", "refused", "not_found", "unavailable", "unreachable", "timeout"}
            \subseteq Answers
      /\ None \in ContainerIds \cup {None} /\ V(p).id \in ContainerIds \cup {None}
  BY <1>2 DEF EdgePcs, Answers, Containers
<1>4. /\ edge[p].calm => Quiet(t) /\ (edge[p].pc # "resolve" => Spared(t))
      /\ edge[p].calm /\ edge[p].pc \in {"resolve_again", "inspect_again", "proxy"} => Up(t)
      /\ edge[p].calm => Exists(t)
      /\ edge[p].warm => edge[p].calm /\ edge[p].pc # "resolve" /\ listening[t]
  BY <1>0, <1>1 DEF Knows, Quiet
<1>5. CASE EdgeResolve(p)
  <2>1. Spared(t)
    BY <1>5, LoopFree DEF EdgeResolve, ApiServes, EInv
  <2>2. CASE edge' = [edge EXCEPT ![p].pc = "inspect",
                                  ![p].warm = edge[p].calm /\ listening[edge[p].tenant]]
    <3>1. Heard /\ edge[p].pc = "resolve" /\ UNCHANGED <<row, container, req, listening>>
      BY <1>5 DEF EInv, EdgeResolve, ApiServes, EdgeAt, vars, db, docker
    <3>2. /\ Changes(p) /\ edge'[p].pc = "inspect" /\ edge'[p].tenant = edge[p].tenant
          /\ edge'[p].calm = edge[p].calm
          /\ edge'[p].warm => edge[p].calm /\ listening[edge[p].tenant]
      BY <1>0, <2>2, <3>1, ResolveChanges, Zenon
    <3>3. edge'[p].answer = "none"
      BY <3>2 DEF Changes
    <3> QED BY <1>4, <2>1, <3>1, <3>2, <3>3, GoesOnInv
  <2>3. CASE Answer(p, "not_found") /\ ~Exists(t)
    BY <1>0, <1>3, <1>4, <2>3, AnswerInv
  <2> QED BY <1>5, <2>2, <2>3 DEF EdgeResolve
<1>6. CASE EdgeInspect(p)
  <2>0. edge[p].pc = "inspect" /\ UNCHANGED <<row, container, req, listening>>
    BY <1>6 DEF EdgeInspect, ApiServes, EdgeAt, vars, db, docker
  <2>1. CASE V(p).state = "running"
    <3>1. EdgeGoto(p, "proxy", V(p).id)
      BY <1>6, <2>1 DEF EdgeInspect
    <3> QED BY <1>0, <1>1, <1>2, <1>3, <1>4, <2>0, <2>1, <3>1, GotoChanges, GoesOnInv DEF Up
  <2>2. CASE V(p).state = "restarting"
    <3>1. Answer(p, "unavailable")
      BY <1>6, <2>2 DEF EdgeInspect
    <3>2. ~edge[p].calm
      BY <1>2, <1>4, <2>2 DEF Quiet
    <3> QED BY <1>0, <1>3, <3>1, <3>2, AnswerInv
  <2>3. CASE V(p).state \notin {"running", "restarting"}
    <3>1. EdgeGoto(p, "ensure", None)
      BY <1>6, <2>3 DEF EdgeInspect
    <3> QED BY <1>0, <1>1, <1>3, <1>4, <2>0, <3>1, GotoChanges, GoesOnInv
  <2> QED BY <2>1, <2>2, <2>3
<1>7. CASE EdgeEnsure(p)
  <2>0. edge[p].pc = "ensure" /\ UNCHANGED listening
    BY <1>7 DEF EdgeEnsure, ApiServes, EdgeAt
  <2>1. CASE Begin(p, "wake", t) /\ EdgeGoto(p, "waking", None)
    <3>1. /\ Changes(p) /\ edge'[p].pc = "waking" /\ edge'[p].tenant = t
          /\ edge'[p].calm = edge[p].calm /\ edge'[p].answer = "none"
          /\ edge'[p].warm = edge[p].warm
      BY <1>0, <1>1, <1>3, <2>1, GotoChanges
    <3>2. UNCHANGED <<row, container>>
      BY <2>1 DEF Begin, db, docker
    <3>3. /\ req'[p].tenant = t /\ req'[p].op = "wake" /\ req'[p].pc = "wake_inspect"
      BY <1>0, <2>1 DEF Begin, Begun, Entry
    <3>4. ASSUME NEW x \in Requests \ {p}
          PROVE  req'[x].op = req[x].op /\ req'[x].pc = req[x].pc /\ req'[x].tenant = req[x].tenant
      <4>1. req[x] \in RequestRecords
        BY <1>0 DEF Typed, TypeOK
      <4>2. req'[x] = [req[x] EXCEPT !.alone = @ /\ T(x) # t]
        BY <2>1, <3>4 DEF Begin
      <4> QED BY <4>1, <4>2 DEF RequestRecords
    <3>5. edge[p].calm => Quiet(t)' /\ Spared(t)'
      BY <1>4, <2>0, <3>2, <3>3, <3>4 DEF Quiet, Spared, Alive, T, Exists, Disturbing
    <3>6. Waking(p, t)'
      BY <3>3 DEF Waking, Active, T, WakeEndPcs
    <3>7. edge'[p].warm => edge'[p].calm /\ listening'[t]
      BY <1>4, <2>0, <3>1
    <3> QED BY <3>1, <3>5, <3>6, <3>7 DEF VisitInv, Reached, Knows
  <2>2. CASE Answer(p, "unavailable") /\ ~Exists(t)
    BY <1>0, <1>3, <1>4, <2>2, AnswerInv
  <2> QED BY <1>7, <2>1, <2>2 DEF EdgeEnsure
<1>8. CASE EdgeEnsured(p)
  <2>0. edge[p].pc = "waking" /\ ~Active(p) /\ UNCHANGED <<row, container, req, listening>>
    BY <1>8 DEF EdgeEnsured, EdgeAt, vars, db, docker
  <2>1. edge[p].calm => req[p].result = "ok" /\ Up(t)
    BY <1>0, <2>0 DEF Knows, Waking
  <2>2. CASE EdgeGoto(p, "resolve_again", None)
    BY <1>0, <1>1, <1>3, <1>4, <2>0, <2>1, <2>2, GotoChanges, GoesOnInv
  <2>3. CASE Answer(p, "unavailable") /\ req[p].result # "ok"
    BY <1>0, <1>3, <2>1, <2>3, AnswerInv
  <2> QED BY <1>8, <2>2, <2>3 DEF EdgeEnsured
<1>9. CASE EdgeResolveAgain(p)
  <2>0. edge[p].pc = "resolve_again" /\ UNCHANGED <<row, container, req, listening>>
    BY <1>9 DEF EdgeResolveAgain, ApiServes, EdgeAt, vars, db, docker
  <2>1. CASE EdgeGoto(p, "inspect_again", None)
    BY <1>0, <1>1, <1>3, <1>4, <2>0, <2>1, GotoChanges, GoesOnInv
  <2>2. CASE Answer(p, "unavailable") /\ ~Exists(t)
    BY <1>0, <1>3, <1>4, <2>2, AnswerInv
  <2> QED BY <1>9, <2>1, <2>2 DEF EdgeResolveAgain
<1>10. CASE EdgeInspectAgain(p)
  <2>0. edge[p].pc = "inspect_again" /\ UNCHANGED <<row, container, req, listening>>
    BY <1>10 DEF EdgeInspectAgain, ApiServes, EdgeAt, vars, db, docker
  <2>1. CASE EdgeGoto(p, "proxy", V(p).id)
    BY <1>0, <1>1, <1>2, <1>3, <1>4, <2>0, <2>1, GotoChanges, GoesOnInv
  <2>2. CASE Answer(p, "unavailable") /\ V(p).state \notin {"running", "paused"}
    BY <1>0, <1>2, <1>3, <1>4, <2>0, <2>2, AnswerInv DEF Up
  <2> QED BY <1>10, <2>1, <2>2 DEF EdgeInspectAgain
<1>11. CASE EdgeProxy(p)
  <2>0. edge[p].pc = "proxy"
    BY <1>11 DEF EdgeProxy, EdgeAt
  <2> DEFINE answer == CASE V(p) = [id |-> edge[p].cid, state |-> "running"] ->
                              IF listening[t] THEN "served" ELSE "refused"
                         [] V(p) = [id |-> edge[p].cid, state |-> "paused"] -> "timeout"
                         [] OTHER -> "unreachable"
  <2>1. Answer(p, answer)
    BY <1>11 DEF EdgeProxy
  <2>2. answer \in Answers
    BY <1>3
  <2>3. edge[p].calm => V(p) = [id |-> edge[p].cid, state |-> "running"]
    BY <1>0, <1>1, <1>2, <1>4, <2>0 DEF Knows, Up, Containers
  <2>4. edge[p].calm => answer \in {"served", "refused"}
    BY <2>3
  <2>5. edge[p].warm => answer = "served"
    BY <1>4, <2>3
  <2> HIDE DEF answer
  <2> QED BY <1>0, <1>4, <2>1, <2>2, <2>4, <2>5, AnswerInv
<1> QED BY <1>5, <1>6, <1>7, <1>8, <1>9, <1>10, <1>11 DEF EdgeStep

\* A visit begins, or its client gives up.
LEMMA VisitChanges ==
    ASSUME EdgeTyped, NEW p \in ApiRequests, NEW t \in Tenants, Visit(p, t)
    PROVE  /\ Changes(p) /\ edge'[p].pc = "resolve" /\ edge'[p].tenant = t
           /\ edge'[p].answer = "none" /\ (edge'[p].calm => Quiet(t)) /\ ~edge'[p].warm
<1> DEFINE calm == /\ Exists(t) /\ container[t].state # "restarting"
                   /\ \A q \in Requests : T(q) = t => req[q].op \notin Disturbing
           visit == [NoVisit EXCEPT !.pc = "resolve", !.tenant = t, !.calm = calm]
<1>1. calm \in BOOLEAN /\ (calm => Quiet(t))
  BY DEF Exists, Quiet
<1> HIDE DEF calm
<1>2. /\ visit \in Visits /\ visit.pc = "resolve" /\ visit.tenant = t
      /\ visit.answer = "none" /\ visit.calm = calm /\ ~visit.warm
  BY <1>1 DEF NoVisit, Visits, EdgePcs, Answers
<1>3. edge' = [edge EXCEPT ![p] = visit] /\ edge'[p] = visit
  BY DEF Visit, EdgeTyped, calm
<1> QED BY <1>1, <1>2, <1>3 DEF Changes

LEMMA VisitInvBegins ==
    ASSUME EInv, NEW p \in ApiRequests, NEW t \in Tenants, Visit(p, t)
    PROVE  Changes(p) /\ VisitInv(p)'
<1>1. Quiet(t) => Quiet(t)'
  BY DEF Visit, vars, db, docker, Quiet, T, Exists
<1> QED BY <1>1, VisitChanges DEF VisitInv, Knows, Reached, EInv

LEMMA TimeoutChanges ==
    ASSUME EdgeTyped, NEW p \in ApiRequests, EdgeTimeout(p)
    PROVE  Changes(p) /\ ~edge'[p].calm /\ ~edge'[p].warm
<1> DEFINE visit == [NoVisit EXCEPT !.answer = "timeout"]
<1>1. visit \in Visits /\ visit.pc = "idle" /\ ~visit.calm /\ ~visit.warm
  BY DEF NoVisit, Visits, EdgePcs, Answers
<1>2. edge' = [edge EXCEPT ![p] = visit] /\ edge'[p] = visit
  BY DEF EdgeTimeout, EdgeTyped
<1> QED BY <1>1, <1>2 DEF Changes

-----------------------------------------------------------------------------
(* The invariant is inductive. *)

LEMMA EInitInv == KeyedInit => EInv
<1> SUFFICES ASSUME KeyedInit
             PROVE  EInv
  OBVIOUS
<1>1. IInv
  BY InitInv DEF KeyedInit, EInit
<1>2. Keyed
  BY DEF KeyedInit, EInit, Init, Keyed, Idle
<1>3. EdgeTyped /\ Heard /\ \A p \in ApiRequests : VisitInv(p)
  <2>1. NoVisit \in Visits /\ NoVisit.pc = "idle" /\ ~NoVisit.calm /\ ~NoVisit.warm
    BY DEF NoVisit, Visits, EdgePcs, Answers
  <2> QED BY <2>1 DEF KeyedInit, EInit, EdgeTyped, EdgeAt, Heard, VisitInv
<1> QED BY <1>1, <1>2, <1>3 DEF EInv

LEMMA StillKeyed ==
    ASSUME Keyed, UNCHANGED vars
    PROVE  Keyed'
BY DEF Keyed, vars, db, docker, Exists, T

LEMMA BeginKeyed ==
    ASSUME Typed, Keyed, NEW q \in Requests, NEW op \in Ops, NEW u \in Tenants, Begin(q, op, u)
    PROVE  Keyed'
<1>1. UNCHANGED <<row, dek>>
  BY DEF Begin, db
<1>2. ASSUME NEW x \in Requests \ {q}
      PROVE  req'[x].newDek = req[x].newDek /\ req'[x].pc = req[x].pc
             /\ req'[x].tenant = req[x].tenant
  <2>1. req[x] \in RequestRecords
    BY DEF Typed, TypeOK
  <2>2. req'[x] = [req[x] EXCEPT !.alone = @ /\ T(x) # u]
    BY <1>2 DEF Begin
  <2> QED BY <2>1, <2>2 DEF RequestRecords
<1>3. ~req'[q].newDek /\ req'[q].pc # "insert_dek"
  BY DEF Begin, Begun, Entry, Ops
<1> QED BY <1>1, <1>2, <1>3 DEF Keyed, Exists, T

LEMMA EnvironmentKeyed ==
    ASSUME Typed, Keyed, NEW u \in Tenants, ContainerCrash(u) \/ ContainerRestart(u)
    PROVE  Keyed'
<1>1. UNCHANGED <<row, dek>>
  BY DEF ContainerCrash, ContainerRestart, db
<1>2. ASSUME NEW x \in Requests
      PROVE  req'[x].newDek = req[x].newDek /\ req'[x].pc = req[x].pc
             /\ req'[x].tenant = req[x].tenant
  <2>1. req[x] \in RequestRecords
    BY DEF Typed, TypeOK
  <2>2. req'[x] = [req[x] EXCEPT !.alone = @ /\ T(x) # u]
    BY DEF ContainerCrash, ContainerRestart
  <2> QED BY <2>1, <2>2 DEF RequestRecords
<1> QED BY <1>1, <1>2 DEF Keyed, Exists, T

\* A visit that takes no step, and whose tenant is not taken away.
Stays(p) ==
    /\ edge'[p].pc = edge[p].pc /\ edge'[p].cid = edge[p].cid
    /\ edge'[p].tenant = edge[p].tenant /\ edge'[p].answer = edge[p].answer
    /\ edge'[p].calm => edge[p].calm
    /\ edge'[p].warm => edge[p].warm
    /\ edge'[p].warm /\ edge[p].calm => edge'[p].calm

LEMMA StaysInv ==
    ASSUME NEW p \in ApiRequests, VisitInv(p), Stays(p), NEW t, edge[p].tenant = t,
           edge'[p].calm /\ edge[p].pc # "idle" /\ Knows(p, t) => Knows(p, t)'
    PROVE  VisitInv(p)'
BY DEF VisitInv, Reached, Stays

\* A step of a visit.
LEMMA VisitsInv ==
    ASSUME EInv, CliCommands = {}, NEW p \in ApiRequests,
           EdgeStep(p) \/ EdgeTimeout(p) \/ \E t \in Tenants : Visit(p, t)
    PROVE  EInv'
<1>0. Typed /\ EdgeTyped /\ Keyed /\ p \in Requests
  BY DEF EInv, IInv, Requests
<1>1. Changes(p) /\ VisitInv(p)'
  BY <1>0, VisitStepInv, TimeoutChanges, VisitInvBegins DEF VisitInv
<1>2. EdgeTyped'
  BY <1>0, <1>1 DEF EdgeTyped, EdgeAt, Changes
<1>3. /\ UNCHANGED listening
      /\ UNCHANGED vars \/ (edge[p].pc = "ensure" /\ Begin(p, "wake", edge[p].tenant))
  BY DEF EdgeStep, EdgeResolve, EdgeInspect, EdgeEnsure, EdgeEnsured, EdgeResolveAgain,
         EdgeInspectAgain, EdgeProxy, EdgeTimeout, Visit, ApiServes, EdgeAt
<1>4. CASE UNCHANGED vars
  <2>1. IInv' /\ Keyed' /\ Heard'
    BY <1>3, <1>4, StutterInv, StillKeyed DEF EInv, Heard, Alive, vars, docker
  <2>2. ASSUME NEW x \in ApiRequests \ {p}, NEW t, edge[x].tenant = t
        PROVE  VisitInv(x)'
    <3>1. edge'[x] = edge[x] /\ UNCHANGED <<row, container, req, listening>>
      BY <1>0, <1>1, <1>3, <1>4 DEF Changes, EdgeTyped, vars, db, docker
    <3>2. edge[x].pc # "idle" => t \in Tenants
      BY <1>0, <2>2 DEF EdgeTyped, EdgeAt
    <3>3. edge[x].pc # "idle" /\ Knows(x, t) => Knows(x, t)'
      BY <3>1, <3>2, KeptKnows
    <3> QED BY <2>2, <3>1, <3>3, StaysInv DEF Stays, EInv
  <2> QED BY <1>1, <1>2, <2>1, <2>2 DEF EInv
<1>5. CASE edge[p].pc = "ensure" /\ Begin(p, "wake", edge[p].tenant)
  <2>1. edge[p].tenant \in Tenants /\ "wake" \in Ops /\ "wake" \notin Disturbing
    BY <1>0, <1>5 DEF EdgeTyped, EdgeAt, Ops, Disturbing
  <2>2. PICK u \in Tenants : u = edge[p].tenant
    BY <2>1
  <2>3. Begin(p, "wake", u)
    BY <1>5, <2>2
  <2>4. IInv' /\ Keyed' /\ Heard'
    BY <1>0, <1>3, <2>1, <2>3, BeginInv, BeginKeyed DEF EInv, Begin, docker, Heard, Alive
  <2>5. ASSUME NEW x \in ApiRequests \ {p}, NEW t, edge[x].tenant = t
        PROVE  VisitInv(x)'
    <3>1. edge'[x] = edge[x]
      BY <1>0, <1>1 DEF Changes, EdgeTyped
    <3>2. edge[x].pc # "idle" => t \in Tenants
      BY <1>0, <2>5 DEF EdgeTyped, EdgeAt
    <3>3. edge[x].pc # "idle" /\ Knows(x, t) => Knows(x, t)'
      BY <1>0, <1>3, <2>1, <2>3, <3>1, <3>2, BeginKnows
    <3> QED BY <2>5, <3>1, <3>3, StaysInv DEF Stays, EInv
  <2> QED BY <1>1, <1>2, <2>4, <2>5 DEF EInv
<1> QED BY <1>3, <1>4, <1>5

LEMMA DisturbStays ==
    ASSUME EdgeTyped, NEW u \in Tenants, Disturb(u)
    PROVE  EdgeTyped' /\ \A p \in ApiRequests : Stays(p) /\ (edge'[p].calm => edge[p].tenant # u)
<1>1. ASSUME NEW p \in ApiRequests
      PROVE  /\ edge'[p] \in Visits /\ Stays(p) /\ (edge'[p].calm => edge[p].tenant # u)
  <2>1. edge[p] \in Visits
    BY DEF EdgeTyped
  <2>2. edge'[p] = [edge[p] EXCEPT !.calm = @ /\ edge[p].tenant # u,
                                   !.warm = @ /\ edge[p].tenant # u]
    BY DEF Disturb
  <2> QED BY <2>1, <2>2 DEF Visits, Stays
<1>2. edge' = [p \in ApiRequests |-> edge'[p]]
  BY DEF Disturb
<1> QED BY <1>1, <1>2 DEF EdgeTyped, EdgeAt, Stays

\* The visits stay, and what the calm ones know lasts.
LEMMA EdgeStaysInv ==
    ASSUME EInv, EdgeTyped', IInv', Keyed', Heard', \A p \in ApiRequests : Stays(p),
           ASSUME NEW p \in ApiRequests, NEW t \in Tenants, edge[p].tenant = t,
                  edge[p].pc # "idle", edge'[p].calm, Knows(p, t)
           PROVE  Knows(p, t)'
    PROVE  EInv'
<1>1. ASSUME NEW p \in ApiRequests, NEW t, edge[p].tenant = t
      PROVE  VisitInv(p)'
  <2>1. edge[p].pc # "idle" => t \in Tenants
    BY <1>1 DEF EInv, EdgeTyped, EdgeAt
  <2> QED BY <1>1, <2>1, StaysInv DEF EInv
<1> QED BY <1>1 DEF EInv

LEMMA RequestsInv ==
    ASSUME EInv, CliCommands = {}, NEW q \in Requests,
           RequestStep(q) \/ RequestFail(q)
    PROVE  EInv'
<1>0. /\ Typed /\ EdgeTyped /\ Keyed /\ Active(q) /\ T(q) \in Tenants
      /\ Heard /\ Listeners /\ Heard'
  BY RequestSteps, ListenersHeard DEF EInv, IInv, RequestStep, RequestFail, Typed
<1>1. IInv' /\ Keyed'
  BY <1>0, RequestStepInv, StepKeeps DEF EInv, RequestStep, RequestFail
<1>2. CASE Step(q) /\ UNCHANGED edge
  <2>1. EdgeTyped' /\ \A p \in ApiRequests : Stays(p)
    BY <1>0, <1>2 DEF EdgeTyped, EdgeAt, Stays
  <2> QED BY <1>0, <1>1, <1>2, <2>1, StepKnows, EdgeStaysInv DEF EInv
<1>3. CASE RequestFail(q)
  <2>1. PICK u \in Tenants : u = T(q)
    BY <1>0
  <2>2. Fail(q) /\ Disturb(u)
    BY <1>3, <2>1 DEF RequestFail
  <2>3. EdgeTyped' /\ \A p \in ApiRequests : Stays(p) /\ (edge'[p].calm => edge[p].tenant # u)
    BY <1>0, <2>2, DisturbStays
  <2>4. ASSUME NEW p \in ApiRequests, NEW t \in Tenants, edge[p].tenant = t,
               edge'[p].calm, Knows(p, t)
        PROVE  Knows(p, t)'
    BY <1>0, <2>1, <2>2, <2>3, <2>4, ElsewhereKnows DEF Stays
  <2> QED BY <1>0, <1>1, <2>3, <2>4, EdgeStaysInv
<1> QED BY <1>2, <1>3 DEF RequestStep

LEMMA ArriveInv ==
    ASSUME EInv, NEW q \in Requests, NEW op \in Commands, NEW u \in Tenants, Arrive(q, op, u)
    PROVE  EInv'
<1>0. Typed /\ EdgeTyped /\ Keyed /\ op \in Ops /\ Begin(q, op, u) /\ UNCHANGED listening
  BY CommandsAssumption DEF EInv, IInv, Arrive
<1>1. IInv' /\ Keyed' /\ Heard'
  BY <1>0, BeginInv, BeginKeyed DEF EInv, Begin, docker, Heard, Alive
<1>2. /\ EdgeTyped' /\ \A p \in ApiRequests : Stays(p)
      /\ op \in Disturbing => \A p \in ApiRequests : edge'[p].calm => edge[p].tenant # u
  BY <1>0, DisturbStays DEF Arrive, EdgeTyped, EdgeAt, Stays
<1>3. ASSUME NEW p \in ApiRequests, NEW t \in Tenants, edge[p].tenant = t,
             edge'[p].calm, Knows(p, t)
      PROVE  Knows(p, t)'
  <2>1. EdgeAt(p, "waking") => p # q
    BY DEF Arrive, EdgeAt
  <2> QED BY <1>0, <1>2, <1>3, <2>1, BeginKnows DEF Stays
<1> QED BY <1>1, <1>2, <1>3, EdgeStaysInv

LEMMA ContainersInv ==
    ASSUME EInv, NEW u \in Tenants, Crash(u) \/ Restart(u)
    PROVE  EInv'
<1>0. Typed /\ EdgeTyped /\ Keyed /\ Heard /\ Listeners /\ Heard'
  BY ListenersHeard DEF EInv, IInv, Crash, Restart
<1>1. IInv' /\ Keyed'
  BY <1>0, EnvironmentInv, EnvironmentKeyed DEF EInv, Crash, Restart
<1>2. /\ EdgeTyped' /\ \A p \in ApiRequests : Stays(p)
      /\ Crash(u) => \A p \in ApiRequests : edge'[p].calm => edge[p].tenant # u
  BY <1>0, DisturbStays DEF Crash, Restart, EdgeTyped, EdgeAt, Stays
<1>3. ASSUME NEW p \in ApiRequests, NEW t \in Tenants, edge[p].tenant = t,
             edge'[p].calm, Knows(p, t)
      PROVE  Knows(p, t)'
  <2>1. (ContainerCrash(u) /\ u # t) \/ ContainerRestart(u)
    BY <1>2, <1>3 DEF Crash, Restart
  <2> QED BY <1>0, <1>2, <1>3, <2>1, EnvironmentKnows DEF Stays
<1> QED BY <1>0, <1>1, <1>2, <1>3, EdgeStaysInv

\* What the visits know asks for no gateway that does not listen.
LEMMA GatewayUpInv ==
    ASSUME EInv, NEW u \in Tenants, GatewayUp(u)
    PROVE  EInv'
<1>1. /\ UNCHANGED <<vars, edge, row, container, req>> /\ u \in Tenants
      /\ container[u].state = "running" /\ listening' = [listening EXCEPT ![u] = TRUE]
  BY DEF GatewayUp, vars, db, docker
<1>2. IInv' /\ Keyed' /\ EdgeTyped' /\ \A p \in ApiRequests : Stays(p)
  BY <1>1, StutterInv, StillKeyed DEF EInv, EdgeTyped, EdgeAt, Stays
<1>3. \A t \in Tenants : listening[t] => listening'[t]
  BY <1>1 DEF EInv, Heard
<1>4. Heard'
  BY <1>1 DEF EInv, Heard, Alive
<1>5. ASSUME NEW p \in ApiRequests, NEW t \in Tenants, Knows(p, t)
      PROVE  Knows(p, t)'
  BY <1>1, <1>3, <1>5 DEF Knows, Quiet, Spared, Waking, WakeEndPcs, Up, Alive, Exists, T, Active
<1> QED BY <1>2, <1>4, <1>5, EdgeStaysInv

LEMMA ENextInv ==
    ASSUME CliCommands = {}, EInv, [ENext]_evars
    PROVE  EInv'
<1>1. CASE UNCHANGED evars
  <2>1. IInv' /\ Keyed' /\ EdgeTyped' /\ Heard' /\ \A p \in ApiRequests : Stays(p)
    BY <1>1, StutterInv, StillKeyed
       DEF evars, EInv, EdgeTyped, EdgeAt, Heard, Alive, Stays, vars, docker
  <2>2. ASSUME NEW p \in ApiRequests, NEW t \in Tenants, Knows(p, t)
        PROVE  Knows(p, t)'
    BY <1>1, <2>1, <2>2, KeptKnows DEF evars, vars, db, docker, Stays
  <2> QED BY <2>1, <2>2, EdgeStaysInv
<1>2. CASE ENext
  BY <1>2, VisitsInv, RequestsInv, ArriveInv, ContainersInv, GatewayUpInv DEF ENext
<1> QED BY <1>1, <1>2

-----------------------------------------------------------------------------
(* Theorems. *)

\* Wake-on-request, without the wait: in the API process a visit that nobody disturbs
\* reaches the tenant's container, and its answer if the gateway listened before, however
\* many visits and starts wake the tenant at the same time and whatever they find of
\* earlier requests (edge/proxy.py:52-129), once the tenants have their data keys.
THEOREM VisitsReach ==
    ASSUME CliCommands = {}
    PROVE  KeyedSpec => []EdgeReaches
<1>1. EInv => EdgeReaches
  BY DEF EInv, VisitInv, Reached, EdgeReaches
<1>2. EInv /\ [ENext]_evars => EInv'
  BY ENextInv
<1> QED BY <1>1, <1>2, EInitInv, PTL DEF KeyedSpec

\* Without any invariant of the visits but their type.
LEMMA VisitStepChanges ==
    ASSUME Typed, EdgeTyped, Heard, NEW p \in ApiRequests, EdgeStep(p)
    PROVE  Changes(p)
<1>1. edge[p].pc # "idle"
  BY DEF EdgeStep, EdgeResolve, EdgeInspect, EdgeEnsure, EdgeEnsured, EdgeResolveAgain,
         EdgeInspectAgain, EdgeProxy, ApiServes, EdgeAt
<1>2. V(p).id \in ContainerIds \cup {None}
  BY <1>1 DEF V, EdgeTyped, EdgeAt, Typed, TypeOK, Containers
<1>3. CASE \E pc \in EdgePcs : EdgeGoto(p, pc, None) \/ EdgeGoto(p, pc, V(p).id)
  BY <1>1, <1>2, <1>3, GotoChanges
<1>4. CASE \E answer \in Answers : Answer(p, answer)
  BY <1>4, AnswerChanges
<1>5. CASE edge[p].pc = "resolve" /\ ~(\E answer \in Answers : Answer(p, answer))
  <2>1. "not_found" \in Answers
    BY DEF Answers
  <2>2. EdgeResolve(p)
    BY <1>5 DEF EdgeStep, EdgeInspect, EdgeEnsure, EdgeEnsured, EdgeResolveAgain,
           EdgeInspectAgain, EdgeProxy, ApiServes, EdgeAt
  <2> QED BY <1>5, <2>1, <2>2, ResolveChanges DEF EdgeResolve
<1>6. \/ \E pc \in EdgePcs : EdgeGoto(p, pc, None) \/ EdgeGoto(p, pc, V(p).id)
      \/ \E answer \in Answers : Answer(p, answer)
      \/ edge[p].pc = "resolve"
  <2> USE DEF EdgePcs, Answers
  <2>1. CASE EdgeResolve(p)
    BY <2>1 DEF EdgeResolve, ApiServes, EdgeAt
  <2>2. CASE EdgeInspect(p)
    BY <2>2 DEF EdgeInspect
  <2>3. CASE EdgeEnsure(p)
    BY <2>3 DEF EdgeEnsure
  <2>4. CASE EdgeEnsured(p)
    BY <2>4 DEF EdgeEnsured
  <2>5. CASE EdgeResolveAgain(p)
    BY <2>5 DEF EdgeResolveAgain
  <2>6. CASE EdgeInspectAgain(p)
    BY <2>6 DEF EdgeInspectAgain
  <2>7. CASE EdgeProxy(p)
    <3> DEFINE answer == CASE V(p) = [id |-> edge[p].cid, state |-> "running"] ->
                                IF listening[edge[p].tenant] THEN "served" ELSE "refused"
                           [] V(p) = [id |-> edge[p].cid, state |-> "paused"] -> "timeout"
                           [] OTHER -> "unreachable"
    <3>1. Answer(p, answer)
      BY <2>7 DEF EdgeProxy
    <3>2. answer \in Answers
      OBVIOUS
    <3> HIDE DEF answer
    <3> QED BY <3>1, <3>2
  <2> QED BY <2>1, <2>2, <2>3, <2>4, <2>5, <2>6, <2>7 DEF EdgeStep
<1> QED BY <1>3, <1>4, <1>5, <1>6

LEMMA HeardLasts ==
    ASSUME Heard, [ENext]_evars
    PROVE  Heard'
<1>1. CASE Listeners
  BY <1>1, ListenersHeard
<1>2. CASE \E u \in Tenants : GatewayUp(u)
  BY <1>2 DEF GatewayUp, vars, docker, Heard, Alive
<1>3. CASE UNCHANGED <<container, listening>>
  BY <1>3 DEF Heard, Alive
<1>4. ASSUME NEW p \in ApiRequests,
             EdgeStep(p) \/ EdgeTimeout(p) \/ \E t \in Tenants : Visit(p, t)
      PROVE  UNCHANGED <<container, listening>>
  <2>1. UNCHANGED listening /\ (UNCHANGED vars \/ UNCHANGED docker)
    BY <1>4 DEF EdgeStep, EdgeResolve, EdgeInspect, EdgeEnsure, EdgeEnsured,
           EdgeResolveAgain, EdgeInspectAgain, EdgeProxy, EdgeTimeout, Visit, Begin
  <2> QED BY <2>1 DEF vars, docker
<1>5. ASSUME NEW q \in Requests, NEW op, NEW u \in Tenants, Arrive(q, op, u)
      PROVE  UNCHANGED <<container, listening>>
  BY <1>5 DEF Arrive, Begin, docker
<1>6. UNCHANGED evars => UNCHANGED <<container, listening>>
  BY DEF evars, vars, docker
<1> QED BY <1>1, <1>2, <1>3, <1>4, <1>5, <1>6
       DEF ENext, RequestStep, RequestFail, Crash, Restart

\* What octw-edge does is requests of TenantRuntime and nothing else to Docker and the
\* database, timeouts and stale addresses included (edge/proxy.py:52-129): whatever holds
\* of every behaviour of TenantRuntime holds beside it.
THEOREM VisitsAreRequests == ESpec => Spec
<1>1. EInit => Init /\ Typed /\ EdgeTyped /\ Heard
  <2>1. NoVisit \in Visits /\ NoVisit.pc = "idle"
    BY DEF NoVisit, Visits, EdgePcs, Answers
  <2> QED BY <2>1, InitTyped DEF EInit, EdgeTyped, EdgeAt, Heard
<1>2. ASSUME Typed, EdgeTyped, Heard, [ENext]_evars
      PROVE  [Next]_vars /\ EdgeTyped'
  <2>1. CASE UNCHANGED evars
    BY <1>2, <2>1 DEF evars, EdgeTyped, EdgeAt
  <2>2. ASSUME NEW p \in ApiRequests, Changes(p)
        PROVE  EdgeTyped'
    BY <1>2, <2>2 DEF EdgeTyped, EdgeAt, Changes
  <2>3. ASSUME NEW p \in ApiRequests, EdgeStep(p)
        PROVE  [Next]_vars /\ EdgeTyped'
    <3>1. CASE UNCHANGED vars
      BY <1>2, <2>2, <2>3, <3>1, VisitStepChanges
    <3>2. CASE EdgeEnsure(p)
      <4>1. edge[p].tenant \in Tenants /\ "wake" \in Ops /\ p \in Requests
        BY <1>2, <3>2 DEF EdgeTyped, EdgeEnsure, ApiServes, EdgeAt, Ops, Requests
      <4>2. [Next]_vars
        BY <3>2, <4>1 DEF EdgeEnsure, Next
      <4> QED BY <1>2, <2>2, <2>3, <4>2, VisitStepChanges
    <3> QED BY <2>3, <3>1, <3>2 DEF EdgeStep, EdgeResolve, EdgeInspect, EdgeEnsured,
              EdgeResolveAgain, EdgeInspectAgain, EdgeProxy
  <2>4. ASSUME NEW p \in ApiRequests, EdgeTimeout(p)
        PROVE  [Next]_vars /\ EdgeTyped'
    BY <1>2, <2>2, <2>4, TimeoutChanges DEF EdgeTimeout
  <2>5. ASSUME NEW p \in ApiRequests, NEW t \in Tenants, Visit(p, t)
        PROVE  [Next]_vars /\ EdgeTyped'
    BY <1>2, <2>2, <2>5, VisitChanges DEF Visit
  <2>6. ASSUME NEW q \in Requests, NEW op \in Commands, NEW u \in Tenants, Arrive(q, op, u)
        PROVE  [Next]_vars /\ EdgeTyped'
    BY <1>2, <2>6, CommandsAssumption, DisturbStays DEF Arrive, Next, EdgeTyped, EdgeAt
  <2>7. ASSUME NEW q \in Requests, RequestStep(q) \/ RequestFail(q)
        PROVE  [Next]_vars /\ EdgeTyped'
    <3>1. T(q) \in Tenants
      BY <1>2, <2>7, RequestSteps DEF RequestStep, RequestFail, Typed
    <3>2. PICK u \in Tenants : u = T(q)
      BY <3>1
    <3> QED BY <1>2, <2>7, <3>2, DisturbStays DEF RequestStep, RequestFail, Next, EdgeTyped, EdgeAt
  <2>8. ASSUME NEW u \in Tenants, Crash(u) \/ Restart(u)
        PROVE  [Next]_vars /\ EdgeTyped'
    BY <1>2, <2>8, DisturbStays DEF Crash, Restart, Next, EdgeTyped, EdgeAt
  <2>9. ASSUME NEW u \in Tenants, GatewayUp(u)
        PROVE  [Next]_vars /\ EdgeTyped'
    BY <1>2, <2>9 DEF GatewayUp, EdgeTyped, EdgeAt
  <2> QED BY <1>2, <2>1, <2>3, <2>4, <2>5, <2>6, <2>7, <2>8, <2>9 DEF ENext
<1> QED BY <1>1, <1>2, NextTyped, HeardLasts, PTL DEF ESpec, Spec

=============================================================================
