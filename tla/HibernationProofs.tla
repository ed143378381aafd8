-------------------------- MODULE HibernationProofs --------------------------
(***************************************************************************)
(* Theorems about Hibernation, for any number of tenants and requests and  *)
(* any bound on the faults: what TenantRuntimeProofs shows of requests     *)
(* holds beside the scheduler too, and what a pass that commits has done.  *)
(***************************************************************************)
EXTENDS Hibernation, TenantRuntimeProofs

-----------------------------------------------------------------------------
(* Types. *)

PassTyped ==
    /\ pass \in Passes
    /\ traffic \in [Tenants -> BOOLEAN]
    /\ faults \in 0..MaxFaults

HTyped == Typed /\ PassTyped

\* A pass changes no field of a request but alone.
Overtaken ==
    \A q \in Requests :
        /\ req'[q].op = req[q].op /\ req'[q].pc = req[q].pc /\ req'[q].cid = req[q].cid
        /\ req'[q].tenant = req[q].tenant
        /\ req'[q].alone => /\ req[q].alone
                            /\ container'[T(q)] = container[T(q)] /\ row'[T(q)] = row[T(q)]

LEMMA OvertakeFacts ==
    ASSUME Typed, Overtake
    PROVE  Overtaken /\ req' \in [Requests -> RequestRecords]
<1>1. ASSUME NEW q \in Requests
      PROVE  /\ req'[q] \in RequestRecords
             /\ req'[q].op = req[q].op /\ req'[q].pc = req[q].pc /\ req'[q].cid = req[q].cid
             /\ req'[q].tenant = req[q].tenant
             /\ req'[q].alone => /\ req[q].alone
                                 /\ container'[T(q)] = container[T(q)] /\ row'[T(q)] = row[T(q)]
  <2> DEFINE b == /\ req[q].alone
                  /\ container'[T(q)] = container[T(q)] /\ row'[T(q)] = row[T(q)]
  <2>1. req[q] \in RequestRecords /\ req[q].alone \in BOOLEAN
    BY DEF Typed, TypeOK, RequestRecords
  <2>2. b \in BOOLEAN /\ (b => /\ req[q].alone
                              /\ container'[T(q)] = container[T(q)] /\ row'[T(q)] = row[T(q)])
    BY <2>1
  <2>3. req'[q] = [req[q] EXCEPT !.alone = b]
    BY DEF Overtake
  <2> QED BY <2>2, <2>3, NotAloneFields, NotAloneTyped
<1>2. req' = [q \in Requests |-> req'[q]]
  BY DEF Overtake
<1> QED BY <1>1, <1>2 DEF Overtaken

LEMMA AsleepTyped == Asleep \in Passes /\ Asleep.clean = {} /\ Asleep.pc = "asleep"
<1>1. NoRow \in RowRecords
  BY DEF NoRow, RowRecords, Statuses
<1> QED BY <1>1 DEF Asleep, Passes, Writes

LEMMA HibernatedTyped ==
    ASSUME NEW c \in Containers, Proper(c), NEW to \in Writes
    PROVE  Hibernated(c, to) \in Containers /\ Proper(Hibernated(c, to))
<1>1. CASE to = "stopped"
  BY <1>1 DEF Hibernated, NoContainer, Containers, ContainerStates, Proper
<1>2. CASE to = "paused" /\ c.state = "running"
  BY <1>2 DEF Hibernated, Containers, ContainerStates, Proper
<1>3. CASE to # "stopped" /\ ~(to = "paused" /\ c.state = "running")
  BY <1>3 DEF Hibernated
<1> QED BY <1>1, <1>2, <1>3

LEMMA PassFields ==
    ASSUME PassTyped
    PROVE  /\ pass.seen \in [Tenants -> RowRecords] /\ pass.write \in [Tenants -> Writes]
           /\ pass.clean \subseteq Tenants
           /\ pass.pc \in {"asleep", "loop_running", "flush_running", "loop_paused",
                           "flush_paused"}
BY DEF PassTyped, Passes

LEMMA DueTyped ==
    ASSUME PassTyped, NEW t \in Tenants
    PROVE  Due(t) \in Writes
BY DEF Due, Threshold, Writes

LEMMA WrittenTyped ==
    ASSUME PassTyped, NEW t \in Tenants, NEW r \in RowRecords
    PROVE  Written(r, t) \in RowRecords
<1>1. CASE pass.write[t] = "stopped"
  BY <1>1 DEF Written, RowRecords, Statuses
<1>2. CASE pass.write[t] = "paused"
  BY <1>2 DEF Written, RowRecords, Statuses
<1>3. CASE pass.write[t] \notin {"stopped", "paused"}
  BY <1>3 DEF Written
<1> QED BY <1>1, <1>2, <1>3

-----------------------------------------------------------------------------
(* What each step of the scheduler and of the environment changes.           *)

\* Nothing of TenantRuntime but the rows' locks and ages, and that only of committed
\* rows.
Ages ==
    /\ UNCHANGED <<container, network, dirs, loop, req, dek>>
    /\ row' \in [Tenants -> RowRecords] /\ rowLock' \in [Tenants -> Holders]
    /\ \A t \in Tenants : /\ row'[t].status = row[t].status /\ row'[t].cid = row[t].cid
                         /\ row'[t].idle >= row[t].idle

LEMMA RowsStay ==
    ASSUME Typed, UNCHANGED row
    PROVE  /\ row' \in [Tenants -> RowRecords]
           /\ \A t \in Tenants : /\ row'[t].status = row[t].status /\ row'[t].cid = row[t].cid
                                /\ row'[t].idle >= row[t].idle
<1>1. \A t \in Tenants : row[t].idle \in 0..2
  BY DEF Typed, TypeOK, RowRecords
<1> QED BY <1>1 DEF Typed, TypeOK

\* Containers and rows, between the synchronous sections of the requests.
Intervenes ==
    /\ loop = None
    /\ UNCHANGED <<network, dirs, loop, dek>>
    /\ row' \in [Tenants -> RowRecords] /\ rowLock' \in [Tenants -> Holders]
    /\ container' \in [Tenants -> Containers]
    /\ \A t \in Tenants : Proper(container'[t])
    /\ Overtake

LEMMA ReleaseTyped ==
    ASSUME Typed
    PROVE  [t \in Tenants |-> IF rowLock[t] = Scheduler THEN None ELSE rowLock[t]]
              \in [Tenants -> Holders]
BY DEF Typed, TypeOK, Holders

LEMMA SelectAges ==
    ASSUME HTyped, PassSelectRunning \/ PassSelectPaused
    PROVE  Ages /\ PassTyped'
<1>1. UNCHANGED <<row, dek, rowLock, container, network, dirs, loop, req, traffic, faults>>
  BY DEF PassSelectRunning, PassSelectPaused, vars
<1>2. \A s : Selected(s) \in [Tenants -> RowRecords]
  <2>1. NoRow \in RowRecords
    BY DEF NoRow, RowRecords, Statuses
  <2> QED BY <2>1 DEF Selected, HTyped, Typed, TypeOK
<1>3. pass' \in Passes
  <2>1. CASE PassSelectRunning
    <3> DEFINE c == {t \in Tenants : \A p \in Requests : T(p) # t}
    <3>1. pass' = [Asleep EXCEPT !.pc = "loop_running", !.seen = Selected("running"),
                                 !.clean = c]
      BY <2>1 DEF PassSelectRunning
    <3>2. c \in SUBSET Tenants
      OBVIOUS
    <3> HIDE DEF c
    <3> QED BY <1>2, <3>1, <3>2, AsleepTyped DEF Passes
  <2>2. CASE PassSelectPaused
    <3> DEFINE s == [t \in Tenants |-> IF pass.seen[t] # NoRow THEN pass.seen[t]
                                       ELSE Selected("paused")[t]]
    <3>1. s \in [Tenants -> RowRecords]
      BY <1>2, PassFields DEF HTyped
    <3>2. pass' = [pass EXCEPT !.pc = "loop_paused", !.seen = s]
      BY <2>2, PassFields DEF PassSelectPaused, HTyped
    <3> HIDE DEF s
    <3> QED BY <3>1, <3>2 DEF HTyped, PassTyped, Passes
  <2> QED BY <2>1, <2>2
<1> QED BY <1>1, <1>3, RowsStay DEF Ages, HTyped, Typed, TypeOK, PassTyped

LEMMA PassAbortTyped ==
    ASSUME HTyped, PassAbort
    PROVE  /\ pass' \in Passes /\ UNCHANGED <<row, dek>>
           /\ rowLock' \in [Tenants -> Holders]
BY ReleaseTyped, AsleepTyped DEF PassAbort, HTyped

LEMMA FlushAges ==
    ASSUME HTyped, NEW t \in Tenants, PassFlush(t)
    PROVE  Ages /\ PassTyped'
<1>1. UNCHANGED <<container, network, dirs, loop, req, traffic, faults>>
  BY DEF PassFlush, docker
<1>2. CASE /\ rowLock' = [rowLock EXCEPT ![t] = Scheduler]
           /\ UNCHANGED <<row, dek, pass>>
  <2>1. rowLock' \in [Tenants -> Holders]
    BY <1>2, SchedulerAssumption DEF HTyped, Typed, TypeOK, Holders
  <2> QED BY <1>1, <1>2, <2>1, RowsStay DEF Ages, HTyped, Typed, TypeOK, PassTyped
<1>3. CASE PassAbort
  BY <1>1, <1>3, PassAbortTyped, RowsStay DEF Ages, HTyped, Typed, TypeOK, PassTyped
<1>4. CASE /\ pass' = [pass EXCEPT !.write[t] = "none", !.seen[t] = NoRow]
           /\ UNCHANGED db
  <2>1. NoRow \in RowRecords /\ "none" \in Writes
    BY DEF NoRow, RowRecords, Statuses, Writes
  <2>2. pass' \in Passes
    BY <1>4, <2>1 DEF HTyped, PassTyped, Passes
  <2> QED BY <1>1, <1>4, <2>2, RowsStay DEF Ages, HTyped, Typed, TypeOK, PassTyped, db
<1> QED BY <1>2, <1>3, <1>4 DEF PassFlush

LEMMA TickAges ==
    ASSUME HTyped, NEW t \in Tenants, Tick(t) \/ EdgeProxy(t)
    PROVE  Ages /\ PassTyped' /\ UNCHANGED pass
<1>1. UNCHANGED <<container, network, dirs, loop, req, dek, rowLock, pass, faults>>
  BY DEF Tick, EdgeProxy, vars, docker
<1>2. traffic' \in [Tenants -> BOOLEAN]
  BY DEF Tick, EdgeProxy, HTyped, PassTyped
<1>3. row' \in [Tenants -> RowRecords]
      /\ \A u \in Tenants : /\ row'[u].status = row[u].status /\ row'[u].cid = row[u].cid
                           /\ row'[u].idle >= row[u].idle
  <2>1. CASE Tick(t)
    <3>1. row[t] \in RowRecords /\ row \in [Tenants -> RowRecords] /\ row[t].idle \in {0, 1}
      BY <2>1 DEF Tick, HTyped, Typed, TypeOK, RowRecords
    <3>2. row' = [row EXCEPT ![t] = [row[t] EXCEPT !.idle = row[t].idle + 1]]
      BY <2>1, <3>1 DEF Tick
    <3>3. [row[t] EXCEPT !.idle = row[t].idle + 1] \in RowRecords
      BY <3>1 DEF RowRecords
    <3>4. /\ [row[t] EXCEPT !.idle = row[t].idle + 1].status = row[t].status
          /\ [row[t] EXCEPT !.idle = row[t].idle + 1].cid = row[t].cid
          /\ [row[t] EXCEPT !.idle = row[t].idle + 1].idle >= row[t].idle
      BY <3>1 DEF RowRecords
    <3>5. \A u \in Tenants : row[u].idle >= row[u].idle
      BY <3>1 DEF RowRecords
    <3> QED BY <3>1, <3>2, <3>3, <3>4, <3>5
  <2>2. CASE EdgeProxy(t)
    BY <2>2, RowsStay DEF EdgeProxy, vars, HTyped
  <2> QED BY <2>1, <2>2
<1> QED BY <1>1, <1>2, <1>3 DEF Ages, HTyped, Typed, TypeOK, PassTyped

LEMMA LoopIntervenes ==
    ASSUME IInv, HTyped, PassLoopRunning \/ PassLoopPaused
    PROVE  Intervenes /\ PassTyped'
<1>1. /\ loop = None /\ UNCHANGED <<row, dek, rowLock, network, dirs, loop, traffic, faults>>
      /\ Overtake
  BY DEF PassLoopRunning, PassLoopPaused, PassLoop, PassAt, db
<1>2. \A t \in Tenants : Due(t) \in Writes
  BY DueTyped DEF HTyped
<1>3. container' = [t \in Tenants |-> Hibernated(container[t], Due(t))]
  BY DEF PassLoopRunning, PassLoopPaused, PassLoop
<1>4. \A t \in Tenants : container[t] \in Containers /\ Proper(container[t])
  BY DEF IInv, Typed, TypeOK
<1>5. \A t \in Tenants : container'[t] \in Containers /\ Proper(container'[t])
  BY <1>2, <1>3, <1>4, HibernatedTyped
<1>6. pass' \in Passes
  <2> DEFINE w == [t \in Tenants |-> IF Due(t) = "none" THEN pass.write[t] ELSE Due(t)]
  <2>1. w \in [Tenants -> Writes]
    BY <1>2, PassFields DEF HTyped
  <2>2. PICK next \in {"flush_running", "flush_paused"} :
           pass' = [pass EXCEPT !.pc = next, !.write = w]
    BY DEF PassLoopRunning, PassLoopPaused, PassLoop
  <2> HIDE DEF w
  <2> QED BY <2>1, <2>2 DEF HTyped, PassTyped, Passes
<1>7. container' \in [Tenants -> Containers]
  BY <1>3, <1>5
<1> QED BY <1>1, <1>5, <1>6, <1>7 DEF Intervenes, HTyped, Typed, TypeOK, PassTyped

LEMMA CommitIntervenes ==
    ASSUME IInv, HTyped, PassCommit
    PROVE  Intervenes /\ PassTyped'
<1>1. /\ loop = None /\ UNCHANGED <<dek, container, network, dirs, loop, traffic, faults>>
      /\ Overtake /\ pass' = Asleep
  BY DEF PassCommit, PassAt, docker
<1>2. \A t \in Tenants : Written(row[t], t) \in RowRecords
  BY WrittenTyped DEF HTyped, Typed, TypeOK
<1>3. row' \in [Tenants -> RowRecords]
  BY <1>2 DEF PassCommit
<1>4. rowLock' \in [Tenants -> Holders]
  BY ReleaseTyped DEF PassCommit, HTyped
<1> QED BY <1>1, <1>3, <1>4, AsleepTyped DEF Intervenes, IInv, Typed, TypeOK, HTyped, PassTyped

LEMMA FailIntervenes ==
    ASSUME IInv, HTyped, PassFail
    PROVE  Intervenes /\ PassTyped'
<1>1. /\ loop = None /\ UNCHANGED <<network, dirs, loop, traffic>>
      /\ Overtake /\ PassAbort /\ Fault
  BY DEF PassFail
<1>2. \A t \in Tenants : container[t] \in Containers /\ Proper(container[t])
  BY DEF IInv, Typed, TypeOK
<1>3. \A t \in Tenants : /\ Hibernated(container[t], Due(t)) \in Containers
                         /\ Proper(Hibernated(container[t], Due(t)))
                         /\ [container[t] EXCEPT !.state = "exited"] \in Containers
                         /\ Proper([container[t] EXCEPT !.state = "exited"])
  <2> TAKE t \in Tenants
  <2>1. Due(t) \in Writes
    BY DueTyped DEF HTyped
  <2>2. /\ [container[t] EXCEPT !.state = "exited"] \in Containers
        /\ [container[t] EXCEPT !.state = "exited"].state = "exited"
    BY <1>2 DEF Containers, ContainerStates
  <2> QED BY <1>2, <2>1, <2>2, HibernatedTyped DEF Proper
<1>4. /\ container' \in [Tenants -> Containers]
      /\ \A t \in Tenants : Proper(container'[t])
  <2>1. CASE UNCHANGED container
    BY <2>1, <1>2 DEF IInv, Typed, TypeOK
  <2>2. ASSUME NEW done, NEW last,
               container' = [t \in Tenants |->
                    IF t \in done THEN Hibernated(container[t], Due(t))
                    ELSE IF t = last /\ Due(t) = "stopped"
                            /\ container[t].state \notin {"not_found", "created"}
                         THEN [container[t] EXCEPT !.state = "exited"]
                    ELSE container[t]]
        PROVE  /\ container' \in [Tenants -> Containers]
               /\ \A t \in Tenants : Proper(container'[t])
    BY <1>2, <1>3, <2>2
  <2> QED BY <2>1, <2>2 DEF PassFail
<1>5. faults' \in 0..MaxFaults
  BY <1>1, MaxFaultsAssumption DEF Fault, HTyped, PassTyped
<1> QED BY <1>1, <1>4, <1>5, PassAbortTyped
        DEF Intervenes, HTyped, Typed, TypeOK, PassTyped

-----------------------------------------------------------------------------
(* Each of them keeps the invariant of TenantRuntime: the scheduler runs     *)
(* when no request is in a synchronous section, and a request on a tenant    *)
(* that it changes is no longer alone.                                       *)

LEMMA AgesInv ==
    ASSUME IInv, Ages
    PROVE  IInv'
<1>1. TypeOK'
  BY DEF Ages, IInv, Typed, TypeOK
<1>2. Typed'
  BY <1>1 DEF Ages, IInv, Typed, Active, T
<1>3. ASSUME NEW q \in Requests
      PROVE  RequestInv(q)'
  <2>1. RequestInv(q) /\ (Active(q) => T(q) \in Tenants)
    BY DEF IInv, Typed
  <2>2. /\ T(q)' = T(q) /\ Active(q)' = Active(q) /\ Gone(q)' = Gone(q) /\ State(q)' = State(q)
        /\ Undisturbed(q)' = Undisturbed(q)
    BY DEF Ages, T, Active, Gone, State, Undisturbed
  <2>3. InHandler(q)'
    BY <2>1, <2>2 DEF Ages, RequestInv, InHandler
  <2>4. SectionFacts(q)' = SectionFacts(q)
    BY <2>2 DEF Ages, SectionFacts
  <2>5. req[q].alone /\ AloneFacts(q) => AloneFacts(q)'
    <3>1. SUFFICES ASSUME req[q].alone, AloneFacts(q)
                   PROVE  AloneFacts(q)'
      OBVIOUS
    <3>2. T(q) \in Tenants
      BY <2>1, <3>1 DEF IInv
    <3>3. Exists(T(q))' = Exists(T(q))
      BY <2>2, <3>2 DEF Ages, Exists
    <3> QED BY <2>2, <3>1, <3>3 DEF Ages, AloneFacts
  <2> QED BY <2>1, <2>2, <2>3, <2>4, <2>5 DEF Ages, RequestInv
<1> QED BY <1>2, <1>3 DEF IInv, Ages, Active, T

LEMMA IntervenesInv ==
    ASSUME IInv, Intervenes
    PROVE  IInv'
<1>0. Typed /\ Overtaken /\ req' \in [Requests -> RequestRecords]
  BY OvertakeFacts DEF IInv, Intervenes
<1>1. Typed'
  <2>1. TypeOK'
    BY <1>0 DEF Intervenes, Typed, TypeOK
  <2> QED BY <1>0, <2>1 DEF Typed, Overtaken, Active, T
<1>2. \A q \in ApiRequests : req[q].pc \notin SyncPcs
  BY NoneAssumption DEF IInv, Intervenes, Requests
<1>3. ASSUME NEW q \in Requests
      PROVE  RequestInv(q)'
  <2>1. RequestInv(q) /\ T(q)' = T(q) /\ Active(q)' = Active(q)
    BY <1>0 DEF IInv, Overtaken, T, Active
  <2>2. InHandler(q)'
    BY <1>0, <2>1 DEF RequestInv, InHandler, Overtaken
  <2>3. ASSUME req'[q].alone
        PROVE  SectionFacts(q)' /\ AloneFacts(q)'
    <3>1. /\ SectionFacts(q) /\ AloneFacts(q)
          /\ container'[T(q)] = container[T(q)] /\ row'[T(q)] = row[T(q)]
      BY <1>0, <2>1, <2>3 DEF RequestInv, Undisturbed, Overtaken
    <3>2. Gone(q)' = Gone(q) /\ State(q)' = State(q) /\ Exists(T(q))' = Exists(T(q))
      BY <1>0, <2>1, <3>1 DEF Overtaken, Gone, State, Exists
    <3>3. SectionFacts(q)'
      BY <1>0, <2>1, <3>1, <3>2 DEF Intervenes, Overtaken, SectionFacts
    <3>4. AloneFacts(q)'
      BY <1>0, <2>1, <3>1, <3>2 DEF Intervenes, Overtaken, AloneFacts
    <3> QED BY <3>3, <3>4
  <2>4. ASSUME CliCommands = {}
        PROVE  SectionFacts(q)'
    BY <1>0, <1>2, <2>4 DEF Requests, Overtaken, SectionFacts, SyncPcs
  <2> QED BY <2>2, <2>3, <2>4 DEF RequestInv, Undisturbed
<1>4. \A q \in Requests : req'[q].alone =>
         Active(q)' /\ \A o \in Requests \ {q} : T(o)' # T(q)'
  BY <1>0 DEF IInv, Overtaken, Active, T
<1>5. \A q \in ApiRequests : req'[q].pc \in SyncPcs => loop' = q
  BY <1>0, <1>2 DEF Overtaken, Requests
<1> QED BY <1>1, <1>3, <1>4, <1>5 DEF IInv, Intervenes

\* A step of TenantRuntime beside the scheduler.
Accompanied ==
    /\ [Next]_vars
    /\ pass' = [pass EXCEPT !.clean = {t \in @ : /\ container'[t] = container[t]
                                                 /\ \A p \in Requests : req'[p].tenant # t}]
    /\ UNCHANGED traffic /\ faults' \in 0..MaxFaults

LEMMA AccompaniedTyped ==
    ASSUME HTyped, Accompanied
    PROVE  PassTyped'
<1> DEFINE c == {t \in pass.clean : /\ container'[t] = container[t]
                                    /\ \A p \in Requests : req'[p].tenant # t}
<1>1. pass' = [pass EXCEPT !.clean = c]
  BY DEF Accompanied, HTyped, PassTyped, Passes
<1>2. c \in SUBSET Tenants
  BY PassFields DEF HTyped
<1> HIDE DEF c
<1> QED BY <1>1, <1>2 DEF Accompanied, HTyped, PassTyped, Passes

LEMMA BesideAccompanied ==
    ASSUME PassTyped,
           \/ \E p \in Requests : \/ RequestStep(p) \/ RequestFail(p)
                                  \/ \E op \in Commands, t \in Tenants : Arrive(p, op, t)
           \/ \E t \in Tenants : Crash(t) \/ Restart(t)
    PROVE  Accompanied
<1>1. Fault \/ UNCHANGED faults => faults' \in 0..MaxFaults
  BY MaxFaultsAssumption DEF Fault, PassTyped
<1>2. CASE \E p \in Requests : RequestStep(p) \/ RequestFail(p)
  BY <1>1, <1>2 DEF RequestStep, RequestFail, Beside, Accompanied, Next
<1>3. CASE \E p \in Requests, op \in Commands, t \in Tenants : Arrive(p, op, t)
  BY <1>1, <1>3, CommandsAssumption DEF Arrive, Beside, Accompanied, Next
<1>4. CASE \E t \in Tenants : Crash(t) \/ Restart(t)
  BY <1>1, <1>4 DEF Crash, Restart, Beside, Accompanied, Next
<1> QED BY <1>2, <1>3, <1>4

\* Every step of Hibernation.
HStep ==
    \/ Accompanied
    \/ PassSelectRunning \/ PassSelectPaused \/ PassLoopRunning \/ PassLoopPaused
    \/ PassCommit \/ PassFail
    \/ \E t \in Tenants : PassFlush(t) \/ Tick(t) \/ EdgeProxy(t)
    \/ UNCHANGED hvars

LEMMA HNextSteps ==
    ASSUME PassTyped, [HNext]_hvars
    PROVE  HStep
BY BesideAccompanied DEF HNext, HStep, PassStep

HInv == IInv /\ PassTyped

LEMMA HInvTyped == HInv => HTyped
BY DEF HInv, HTyped, IInv

LEMMA HInitInv == HInit => HInv
<1> SUFFICES ASSUME HInit
             PROVE  HInv
  OBVIOUS
<1>1. PassTyped
  BY AsleepTyped, MaxFaultsAssumption DEF HInit, PassTyped
<1> QED BY <1>1, InitInv DEF HInit, HInv

LEMMA HNextInv == HInv /\ [HNext]_hvars => HInv'
<1> SUFFICES ASSUME HInv, [HNext]_hvars
             PROVE  HInv'
  OBVIOUS
<1>0. IInv /\ HTyped /\ HStep
  BY HInvTyped, HNextSteps DEF HInv
<1>1. CASE Accompanied
  BY <1>0, <1>1, AccompaniedTyped, NextInv DEF HInv, Accompanied
<1>2. CASE PassSelectRunning \/ PassSelectPaused
  BY <1>0, <1>2, SelectAges, AgesInv DEF HInv
<1>3. CASE PassLoopRunning \/ PassLoopPaused
  BY <1>0, <1>3, LoopIntervenes, IntervenesInv DEF HInv
<1>4. CASE PassCommit
  BY <1>0, <1>4, CommitIntervenes, IntervenesInv DEF HInv
<1>5. CASE PassFail
  BY <1>0, <1>5, FailIntervenes, IntervenesInv DEF HInv
<1>6. CASE \E t \in Tenants : PassFlush(t)
  BY <1>0, <1>6, FlushAges, AgesInv DEF HInv
<1>7. CASE \E t \in Tenants : Tick(t) \/ EdgeProxy(t)
  BY <1>0, <1>7, TickAges, AgesInv DEF HInv
<1>8. CASE UNCHANGED hvars
  <2>1. UNCHANGED vars /\ UNCHANGED <<pass, traffic, faults>>
    BY <1>8 DEF hvars
  <2> QED BY <1>0, <2>1, StutterInv DEF HInv, HTyped, PassTyped
<1> QED BY <1>0, <1>1, <1>2, <1>3, <1>4, <1>5, <1>6, <1>7, <1>8 DEF HStep

LEMMA HInvAlways == HSpec => []HInv
BY HInitInv, HNextInv, PTL DEF HSpec

\* Every variable has its type, the scheduler's row locks included.
THEOREM HTypeCorrect == HSpec => []HTypeOK
<1>1. HInv => HTypeOK
  BY DEF HInv, IInv, Typed, PassTyped, HTypeOK
<1> QED BY <1>1, HInvAlways, PTL

\* The scheduler and the requests of the API process never meet each other's containers:
\* a pass calls Docker between two synchronous sections and never inside one
\* (hibernation.py:48-72).
THEOREM NoConflictBesidePass ==
    ASSUME CliCommands = {}
    PROVE  HSpec => []NoDockerConflict
<1>1. HInv => NoDockerConflict
  BY NoConflictFacts DEF HInv
<1> QED BY <1>1, HInvAlways, PTL

LEMMA PassCommitsNothing ==
    ASSUME HInv, HStep, ~Accompanied, NEW p \in Requests
    PROVE  ~Commits(p)
<1>1. req'[p].pc = req[p].pc
  <2>1. CASE Ages
    BY <2>1 DEF Ages
  <2>2. CASE Intervenes
    BY <2>2, OvertakeFacts DEF Intervenes, Overtaken, HInv, IInv
  <2>3. CASE UNCHANGED hvars
    BY <2>3 DEF hvars, vars
  <2> QED BY <2>1, <2>2, <2>3, SelectAges, LoopIntervenes, CommitIntervenes, FailIntervenes,
             FlushAges, TickAges, HInvTyped DEF HStep, HInv
<1> QED BY <1>1 DEF Commits, Active

\* A request that met no other request and no pass on its tenant and succeeds delivers
\* what its handler promises, whatever passes before it, also half done ones, have left.
THEOREM AloneDeliveredBesidePass == HSpec => AloneDelivers
<1> DEFINE A == \A p \in Requests, op \in Ops, t \in Tenants :
                  /\ Commits(p) /\ req[p].alone /\ req[p].pc # "delete_get"
                  /\ req[p].op = op /\ T(p) = t
                  => Delivered(op, t)'
<1>1. HInv /\ [HNext]_hvars => [A]_vars
  <2> SUFFICES ASSUME HInv, HStep
               PROVE  [A]_vars
    BY HNextSteps DEF HInv
  <2>1. CASE Accompanied
    BY <2>1, CommitDelivers DEF HInv, Accompanied
  <2>2. CASE ~Accompanied
    BY <2>2, PassCommitsNothing
  <2> QED BY <2>1, <2>2
<1>2. HSpec => [][A]_vars
  BY <1>1, HInvAlways, PTL DEF HSpec
<1> QED BY <1>2 DEF AloneDelivers

-----------------------------------------------------------------------------
(* What a pass knows of the tenants that nobody has touched since it began.  *)

\* The row is as it was loaded, but older.
AsSeen(t) ==
    LET saw == pass.seen[t] IN
    saw # NoRow => /\ saw.status \in {"running", "paused"}
                   /\ row[t].status = saw.status /\ row[t].cid = saw.cid
                   /\ row[t].idle >= saw.idle

\* What the loops have done so far.
Dealt(t) ==
    LET saw == pass.seen[t] IN
    /\ pass.pc = "loop_running" =>
         pass.write[t] = "none" /\ (saw.status # "running" => saw = NoRow)
    /\ pass.pc \in {"flush_running", "loop_paused"} =>
         /\ saw.status = "running" /\ saw.idle = 2 =>
               pass.write[t] = "stopped" /\ container[t] = NoContainer
         /\ saw.status # "running" => pass.write[t] = "none"
    /\ pass.pc = "flush_paused" /\ saw.status # "absent" /\ saw.idle = 2 =>
         pass.write[t] = "stopped" /\ container[t] = NoContainer
    /\ pass.pc \in {"flush_running", "loop_paused", "flush_paused"} =>
         (saw.status = "running" /\ saw.idle = 1 =>
             pass.write[t] = "paused" /\ container[t].state # "running")

PassKnows ==
    \A t \in pass.clean : /\ \A p \in Requests : T(p) # t
                          /\ AsSeen(t) /\ Dealt(t)

LEMMA AsleepKnows ==
    ASSUME pass' = Asleep
    PROVE  PassKnows'
BY AsleepTyped DEF PassKnows

LEMMA AccompaniedKnows ==
    ASSUME HInv, PassKnows, Accompanied
    PROVE  PassKnows'
<1>0. IInv /\ HTyped /\ PassTyped
  BY HInvTyped DEF HInv
<1> DEFINE c == {t \in pass.clean : /\ container'[t] = container[t]
                                    /\ \A p \in Requests : req'[p].tenant # t}
<1>1. /\ pass'.clean = c /\ pass'.pc = pass.pc /\ pass'.seen = pass.seen
      /\ pass'.write = pass.write
  BY <1>0 DEF Accompanied, PassTyped, Passes
<1>2. SUFFICES ASSUME NEW t \in c
               PROVE  /\ \A p \in Requests : T(p)' # t
                      /\ AsSeen(t)' /\ Dealt(t)'
  BY <1>1 DEF PassKnows
<1>3. /\ t \in Tenants /\ AsSeen(t) /\ Dealt(t) /\ container'[t] = container[t]
      /\ \A p \in Requests : T(p) # t /\ T(p)' # t
  BY <1>0, <1>2, PassFields DEF PassKnows, T
<1>4. row'[t] = row[t]
  <2>1. ASSUME NEW p \in Requests, Step(p) \/ Fail(p)
        PROVE  row'[t] = row[t]
    BY <1>0, <1>3, <2>1, RequestSteps DEF IInv, Steps, Local
  <2>2. CASE UNCHANGED row
    BY <2>2
  <2> QED BY <2>1, <2>2 DEF Accompanied, Next, Begin, ContainerCrash, ContainerRestart, db, vars
<1>5. AsSeen(t)'
  BY <1>1, <1>3, <1>4 DEF AsSeen
<1>6. Dealt(t)'
  BY <1>1, <1>3 DEF Dealt
<1> QED BY <1>3, <1>5, <1>6

LEMMA SelectRunningKnows ==
    ASSUME HInv, PassSelectRunning
    PROVE  PassKnows'
<1>1. /\ pass'.pc = "loop_running" /\ pass'.seen = Selected("running")
      /\ pass'.clean = {t \in Tenants : \A p \in Requests : T(p) # t}
      /\ pass'.write = [t \in Tenants |-> "none"]
      /\ UNCHANGED <<row, req>>
  BY DEF PassSelectRunning, Asleep, vars
<1>2. ASSUME NEW t \in pass'.clean
      PROVE  AsSeen(t)' /\ Dealt(t)' /\ \A p \in Requests : T(p)' # t
  <2>1. t \in Tenants /\ \A p \in Requests : T(p)' # t
    BY <1>1, <1>2 DEF T
  <2>2. Selected("running")[t] = IF row[t].status = "running" THEN row[t] ELSE NoRow
    BY <2>1 DEF Selected
  <2>3. AsSeen(t)'
    <3>1. row[t].idle >= row[t].idle
      BY <2>1 DEF HInv, IInv, Typed, TypeOK, RowRecords
    <3> QED BY <1>1, <2>2, <3>1 DEF AsSeen
  <2>4. Dealt(t)'
    BY <1>1, <2>1, <2>2 DEF Dealt
  <2> QED BY <2>1, <2>3, <2>4
<1> QED BY <1>2 DEF PassKnows

LEMMA SelectPausedKnows ==
    ASSUME HInv, PassKnows, PassSelectPaused
    PROVE  PassKnows'
<1> DEFINE s == [t \in Tenants |-> IF pass.seen[t] # NoRow THEN pass.seen[t]
                                   ELSE Selected("paused")[t]]
<1>1. /\ pass'.pc = "loop_paused" /\ pass.pc = "flush_running" /\ pass'.seen = s
      /\ pass'.clean = pass.clean /\ pass'.write = pass.write
      /\ UNCHANGED <<row, req, container>>
  BY PassFields DEF PassSelectPaused, PassAt, HInv, PassTyped, Passes, vars
<1>2. ASSUME NEW t \in pass.clean
      PROVE  AsSeen(t)' /\ Dealt(t)' /\ \A p \in Requests : T(p)' # t
  <2>1. /\ t \in Tenants /\ AsSeen(t) /\ Dealt(t)
        /\ \A p \in Requests : T(p)' # t
    BY <1>1, <1>2, PassFields DEF PassKnows, T, HInv
  <2>2. s[t] = IF pass.seen[t] # NoRow THEN pass.seen[t]
               ELSE IF row[t].status = "paused" THEN row[t] ELSE NoRow
    BY <2>1 DEF Selected
  <2>3. AsSeen(t)'
    <3>1. row[t].idle >= row[t].idle
      BY <2>1 DEF HInv, IInv, Typed, TypeOK, RowRecords
    <3> QED BY <1>1, <2>1, <2>2, <3>1 DEF AsSeen
  <2>4. NoRow.status = "absent"
    BY DEF NoRow
  <2>5. Dealt(t)'
    BY <1>1, <2>1, <2>2, <2>4 DEF Dealt
  <2> QED BY <2>1, <2>3, <2>5
<1> QED BY <1>1, <1>2 DEF PassKnows

LEMMA LoopKnows ==
    ASSUME HInv, PassKnows, PassLoopRunning \/ PassLoopPaused
    PROVE  PassKnows'
<1> DEFINE w == [t \in Tenants |-> IF Due(t) = "none" THEN pass.write[t] ELSE Due(t)]
<1>1. /\ \/ pass.pc = "loop_running" /\ pass'.pc = "flush_running"
         \/ pass.pc = "loop_paused" /\ pass'.pc = "flush_paused"
      /\ pass'.clean = pass.clean /\ pass'.seen = pass.seen
      /\ pass'.write = w
      /\ container' = [t \in Tenants |-> Hibernated(container[t], Due(t))]
      /\ UNCHANGED row /\ Overtaken
  BY PassFields, OvertakeFacts
     DEF PassLoopRunning, PassLoopPaused, PassLoop, PassAt, HInv, IInv, PassTyped, Passes, db
<1>2. ASSUME NEW t \in pass.clean
      PROVE  AsSeen(t)' /\ Dealt(t)' /\ \A p \in Requests : T(p)' # t
  <2>1. /\ t \in Tenants /\ AsSeen(t) /\ Dealt(t)
        /\ \A p \in Requests : T(p)' # t
        /\ pass.seen[t] \in RowRecords
    BY <1>1, <1>2, PassFields DEF PassKnows, T, HInv, Overtaken
  <2>2. AsSeen(t)'
    BY <1>1, <2>1 DEF AsSeen
  <2>3. /\ w[t] = IF Due(t) = "none" THEN pass.write[t] ELSE Due(t)
        /\ container'[t] = Hibernated(container[t], Due(t))
    BY <1>1, <2>1
  <2>4. /\ Hibernated(container[t], "none") = container[t]
        /\ Hibernated(container[t], "stopped") = NoContainer
        /\ Hibernated(container[t], "paused").state # "running"
    <3>1. container[t] \in Containers
      BY <2>1 DEF HInv, IInv, Typed, TypeOK
    <3> QED BY <3>1 DEF Hibernated, Containers
  <2>5. NoRow.status = "absent" /\ NoRow.idle = 0 /\ pass.seen[t].idle \in 0..2
        /\ NoContainer.state # "running"
    BY <2>1 DEF NoRow, RowRecords, NoContainer
  <2>6. CASE pass.pc = "loop_running"
    <3>1. Due(t) = IF pass.seen[t].idle = 2 THEN "stopped"
                   ELSE IF pass.seen[t].idle = 1 THEN "paused" ELSE "none"
      BY <2>5, <2>6 DEF Due, Threshold
    <3> QED BY <1>1, <2>1, <2>2, <2>3, <2>4, <2>5, <2>6, <3>1 DEF Dealt
  <2>7. CASE pass.pc = "loop_paused"
    <3>1. Due(t) = IF pass.seen[t].idle = 2 /\ pass.write[t] = "none" THEN "stopped" ELSE "none"
      BY <2>7 DEF Due
    <3>2. Dealt(t)'
      BY <1>1, <2>1, <2>3, <2>4, <2>5, <2>7, <3>1 DEF Dealt, RowRecords, Statuses
    <3> QED BY <2>1, <2>2, <3>2
  <2> QED BY <1>1, <2>6, <2>7
<1> QED BY <1>1, <1>2 DEF PassKnows

LEMMA FlushKnows ==
    ASSUME HInv, PassKnows, NEW u \in Tenants, PassFlush(u)
    PROVE  PassKnows'
<1>1. UNCHANGED <<container, req>>
  BY DEF PassFlush, docker
<1>2. CASE UNCHANGED <<row, pass>>
  BY <1>1, <1>2 DEF PassKnows, AsSeen, Dealt, T
<1>3. CASE PassAbort
  BY <1>3, AsleepKnows DEF PassAbort
<1>4. CASE /\ pass' = [pass EXCEPT !.write[u] = "none", !.seen[u] = NoRow]
           /\ UNCHANGED db
  <2>1. /\ pass'.pc = pass.pc /\ pass'.clean = pass.clean
        /\ pass'.write = [pass.write EXCEPT ![u] = "none"]
        /\ pass'.seen = [pass.seen EXCEPT ![u] = NoRow] /\ UNCHANGED row
    BY <1>4, PassFields DEF HInv, PassTyped, Passes, db
  <2>2. NoRow.status = "absent"
    BY DEF NoRow
  <2>3. pass.pc \in {"flush_running", "flush_paused"}
    BY DEF PassFlush, PassAt
  <2>4. ASSUME NEW t \in pass.clean
        PROVE  AsSeen(t)' /\ Dealt(t)' /\ \A p \in Requests : T(p)' # t
    <3>1. /\ t \in Tenants /\ AsSeen(t) /\ Dealt(t) /\ \A p \in Requests : T(p)' # t
      BY <1>1, PassFields DEF PassKnows, T, HInv
    <3>2. CASE t = u
      <4>1. pass'.seen[t] = NoRow /\ pass'.write[t] = "none"
        BY <2>1, <3>1, <3>2, PassFields DEF HInv
      <4> QED BY <2>1, <2>2, <2>3, <3>1, <4>1 DEF AsSeen, Dealt
    <3>3. CASE t # u
      <4>1. pass'.seen[t] = pass.seen[t] /\ pass'.write[t] = pass.write[t]
        BY <2>1, <3>1, <3>3, PassFields DEF HInv
      <4> QED BY <1>1, <2>1, <3>1, <4>1 DEF AsSeen, Dealt
    <3> QED BY <3>2, <3>3
  <2> QED BY <2>1, <2>4 DEF PassKnows
<1> QED BY <1>2, <1>3, <1>4 DEF PassFlush

LEMMA TickKnows ==
    ASSUME HInv, PassKnows, NEW u \in Tenants, Tick(u) \/ EdgeProxy(u)
    PROVE  PassKnows'
<1>1. Ages /\ UNCHANGED pass
  BY TickAges, HInvTyped
<1>2. ASSUME NEW t \in pass.clean
      PROVE  AsSeen(t)' /\ Dealt(t)' /\ \A p \in Requests : T(p)' # t
  <2>1. t \in Tenants /\ AsSeen(t) /\ Dealt(t) /\ \A p \in Requests : T(p)' # t
    BY <1>1, PassFields DEF PassKnows, T, HInv, Ages
  <2>2. row[t].idle \in 0..2 /\ row'[t].idle \in 0..2 /\ pass.seen[t].idle \in 0..2
    BY <1>1, <2>1, PassFields DEF HInv, IInv, Typed, TypeOK, Ages, RowRecords
  <2>3. AsSeen(t)'
    BY <1>1, <2>1, <2>2 DEF Ages, AsSeen
  <2> QED BY <1>1, <2>1, <2>3 DEF Ages, Dealt
<1> QED BY <1>1, <1>2 DEF PassKnows

LEMMA KnowsInit == HInit => PassKnows
BY AsleepTyped DEF HInit, PassKnows

LEMMA KnowsNext == HInv /\ PassKnows /\ [HNext]_hvars => PassKnows'
<1> SUFFICES ASSUME HInv, PassKnows, [HNext]_hvars
             PROVE  PassKnows'
  OBVIOUS
<1>1. HStep
  BY HNextSteps DEF HInv
<1>2. CASE PassCommit \/ PassFail
  BY <1>2, AsleepKnows DEF PassCommit, PassFail, PassAbort
<1>3. CASE UNCHANGED hvars
  BY <1>3 DEF hvars, vars, PassKnows, AsSeen, Dealt, T
<1> QED BY <1>1, <1>2, <1>3, AccompaniedKnows, SelectRunningKnows, SelectPausedKnows,
           LoopKnows, FlushKnows, TickKnows DEF HStep

\* A pass that commits leaves each tenant that it has seen idle, and that nobody has
\* touched meanwhile, with a row that says what Docker has, for any number of tenants
\* (hibernation.py:42-74).
THEOREM PassReconciled == HSpec => PassReconciles
<1> DEFINE A == PassCommit => \A t \in pass.clean :
          LET saw == pass.seen[t] IN
          /\ saw.status # "absent" /\ saw.idle = 2 =>
                 /\ container'[t] = NoContainer
                 /\ row'[t].status = "stopped" /\ row'[t].cid = None
          /\ saw.status = "running" /\ saw.idle = 1 =>
                 container'[t].state # "running" /\ row'[t].status = "paused"
<1>1. ASSUME HInv, PassKnows, PassCommit, NEW t \in pass.clean
      PROVE  LET saw == pass.seen[t] IN
             /\ saw.status # "absent" /\ saw.idle = 2 =>
                    /\ container'[t] = NoContainer
                    /\ row'[t].status = "stopped" /\ row'[t].cid = None
             /\ saw.status = "running" /\ saw.idle = 1 =>
                    container'[t].state # "running" /\ row'[t].status = "paused"
  <2>1. /\ t \in Tenants /\ AsSeen(t) /\ Dealt(t) /\ row[t] \in RowRecords
        /\ pass.pc = "flush_paused"
    BY <1>1, PassFields DEF PassKnows, PassCommit, PassAt, HInv, IInv, Typed, TypeOK
  <2>2. container' = container /\ row'[t] = Written(row[t], t)
    BY <1>1, <2>1 DEF PassCommit, docker
  <2>3. ASSUME pass.seen[t].status # "absent", pass.seen[t].idle = 2
        PROVE  /\ container'[t] = NoContainer
               /\ row'[t].status = "stopped" /\ row'[t].cid = None
    <3>1. pass.write[t] = "stopped" /\ container[t] = NoContainer
      BY <2>1, <2>3 DEF Dealt
    <3>2. row[t].cid = pass.seen[t].cid
      BY <2>1, <2>3 DEF AsSeen, NoRow
    <3> QED BY <2>1, <2>2, <3>1, <3>2 DEF Written, RowRecords
  <2>4. ASSUME pass.seen[t].status = "running", pass.seen[t].idle = 1
        PROVE  container'[t].state # "running" /\ row'[t].status = "paused"
    BY <2>1, <2>2, <2>4 DEF Dealt, Written, RowRecords
  <2> QED BY <2>3, <2>4
<1>2. HInv /\ PassKnows /\ [HNext]_hvars => [A]_hvars
  BY <1>1
<1>3. HSpec => [][A]_hvars
  BY <1>2, KnowsInit, KnowsNext, HInitInv, HNextInv, PTL DEF HSpec
<1> QED BY <1>3 DEF PassReconciles

\* What the loops find due, they have read in a row that is idle.
LEMMA DueIdle ==
    ASSUME HInv, PassKnows, NEW t \in pass.clean,
           pass.pc \in {"loop_running", "loop_paused"}, Due(t) # "none"
    PROVE  /\ row[t].status \in {"running", "paused"} /\ row[t].idle >= 1
           /\ Due(t) = "stopped" => row[t].idle = 2
           /\ Due(t) \in {"stopped", "paused"}
<1>1. /\ t \in Tenants /\ AsSeen(t) /\ pass.seen[t].idle \in 0..2 /\ row[t].idle \in 0..2
      /\ NoRow.idle = 0
  BY PassFields DEF PassKnows, HInv, IInv, Typed, TypeOK, RowRecords, NoRow
<1>2. /\ pass.seen[t].idle \in {1, 2} /\ Due(t) \in {"stopped", "paused"}
      /\ Due(t) = "stopped" => pass.seen[t].idle = 2
  BY <1>1 DEF Due, Threshold
<1> QED BY <1>1, <1>2 DEF AsSeen

\* Beside a request that only the pass could have overtaken, a tenant's container is
\* paused or stopped by a pass only if its row, as it is now, is idle (hibernation.py:42-74).
THEOREM PassSparesTheActive == HSpec => PassSparesActive
<1> DEFINE A == \A t \in pass.clean : pass'.pc # pass.pc /\ container'[t] # container[t] =>
                  /\ row[t].status \in {"running", "paused"} /\ row[t].idle >= 1
                  /\ container'[t].state # "paused" => row[t].idle = 2
<1>1. ASSUME HInv, PassKnows, HStep, NEW t \in pass.clean, pass'.pc # pass.pc,
             container'[t] # container[t]
      PROVE  /\ row[t].status \in {"running", "paused"} /\ row[t].idle >= 1
             /\ container'[t].state # "paused" => row[t].idle = 2
  <2>1. t \in Tenants /\ container[t] \in Containers
    BY <1>1, PassFields DEF HInv, IInv, Typed, TypeOK
  <2>2. /\ Hibernated(container[t], "none") = container[t]
        /\ Hibernated(container[t], "paused") # container[t] =>
              Hibernated(container[t], "paused").state = "paused"
    BY <2>1 DEF Hibernated, Containers
  <2>3. CASE PassLoopRunning \/ PassLoopPaused
    <3>1. /\ pass.pc \in {"loop_running", "loop_paused"}
          /\ container'[t] = Hibernated(container[t], Due(t))
      BY <2>1, <2>3 DEF PassLoopRunning, PassLoopPaused, PassLoop, PassAt
    <3>2. Due(t) # "none"
      BY <1>1, <2>2, <3>1
    <3> QED BY <1>1, <2>2, <3>1, <3>2, DueIdle
  <2>4. CASE PassFail
    <3>1. PICK done \in SUBSET {u \in Tenants : Due(u) # "none"}, last \in Tenants :
             container' = [u \in Tenants |->
                    IF u \in done THEN Hibernated(container[u], Due(u))
                    ELSE IF u = last /\ Due(u) = "stopped"
                            /\ container[u].state \notin {"not_found", "created"}
                         THEN [container[u] EXCEPT !.state = "exited"]
                    ELSE container[u]]
      BY <1>1, <2>4 DEF PassFail
    <3>2. /\ pass.pc \in {"loop_running", "loop_paused"} /\ Due(t) # "none"
          /\ container'[t] = Hibernated(container[t], Due(t)) \/ Due(t) = "stopped"
      BY <1>1, <2>1, <2>4, <3>1 DEF PassFail
    <3> QED BY <1>1, <2>2, <3>2, DueIdle
  <2>5. CASE Accompanied \/ UNCHANGED hvars
    BY <1>1, <2>5 DEF Accompanied, HInv, PassTyped, Passes, hvars
  <2>6. CASE UNCHANGED container
    BY <1>1, <2>6
  <2> QED BY <1>1, <2>3, <2>4, <2>5, <2>6
          DEF HStep, PassSelectRunning, PassSelectPaused, PassCommit, PassFlush, Tick,
              EdgeProxy, vars, docker
<1>2. HInv /\ PassKnows /\ [HNext]_hvars => [A]_hvars
  <2> SUFFICES ASSUME HInv, PassKnows, HStep
               PROVE  A
    BY HNextSteps DEF HInv
  <2> QED BY <1>1
<1>3. HSpec => [][A]_hvars
  BY <1>2, KnowsInit, KnowsNext, HInitInv, HNextInv, PTL DEF HSpec
<1> QED BY <1>3 DEF PassSparesActive

\* Nobody replaces a paused container: beside the stops and deletes of the API process
\* only a pass takes it, and that of a tenant which it has read as idle for
\* idle_stop_seconds (docker_orch.py:328-341, hibernation.py:49-72).
THEOREM MemoryRetainedBesidePass ==
    ASSUME CliCommands = {}
    PROVE  HSpec => MemoryBesidePass
<1> DEFINE A == \A t \in Tenants : container[t].state = "paused" =>
                  \/ container'[t].id = container[t].id /\ container'[t].state \in {"paused", "running"}
                  \/ \E p \in Requests : /\ T(p) = t /\ req[p].op \in {"stop", "delete"}
                                         /\ req'[p] # req[p]
                  \/ pass'.pc # pass.pc /\ pass.seen[t].idle = 2
<1>1. ASSUME HInv, HStep, ~Accompanied, NEW t \in Tenants, container[t].state = "paused",
             container'[t] # container[t]
      PROVE  pass'.pc # pass.pc /\ pass.seen[t].idle = 2
  <2>1. Due(t) = "stopped" => pass.seen[t].idle = 2
    BY DEF Due, Threshold
  <2>2. Due(t) # "stopped" => Hibernated(container[t], Due(t)) = container[t]
    BY <1>1 DEF Hibernated
  <2>3. CASE PassLoopRunning \/ PassLoopPaused
    <3>1. container'[t] = Hibernated(container[t], Due(t))
      BY <2>3 DEF PassLoopRunning, PassLoopPaused, PassLoop
    <3>2. pass'.pc # pass.pc
      BY <1>1, <2>3, PassFields
         DEF PassLoopRunning, PassLoopPaused, PassLoop, PassAt, HInv, PassTyped, Passes
    <3> QED BY <1>1, <2>1, <2>2, <3>1, <3>2
  <2>4. CASE PassFail
    <3>1. container'[t] = Hibernated(container[t], Due(t)) \/ Due(t) = "stopped"
      BY <1>1, <2>4 DEF PassFail
    <3>2. pass'.pc # pass.pc
      BY <2>4, AsleepTyped DEF PassFail, PassAbort
    <3> QED BY <1>1, <2>1, <2>2, <3>1, <3>2
  <2> QED BY <1>1, <2>3, <2>4
          DEF HStep, PassSelectRunning, PassSelectPaused, PassCommit, PassFlush, Tick,
              EdgeProxy, vars, docker, hvars
<1>2. HInv /\ [HNext]_hvars => [A]_hvars
  <2> SUFFICES ASSUME HInv, HStep, NEW t \in Tenants, container[t].state = "paused"
               PROVE  \/ /\ container'[t].id = container[t].id
                         /\ container'[t].state \in {"paused", "running"}
                      \/ \E p \in Requests : /\ T(p) = t /\ req[p].op \in {"stop", "delete"}
                                             /\ req'[p] # req[p]
                      \/ pass'.pc # pass.pc /\ pass.seen[t].idle = 2
    BY HNextSteps DEF HInv
  <2>1. CASE Accompanied
    BY <2>1, PausedNext DEF HInv, Accompanied
  <2>2. CASE container'[t] = container[t]
    BY <2>2
  <2> QED BY <1>1, <2>1, <2>2
<1>3. HSpec => [][A]_hvars
  BY <1>2, HInvAlways, PTL DEF HSpec
<1> QED BY <1>3 DEF MemoryBesidePass

-----------------------------------------------------------------------------
(* Locks beside the pass. *)

\* The locks of requests are as in TenantRuntime, and those of the scheduler are held
\* while its transaction is under way.
HLockInv ==
    /\ LockInv
    /\ \A t \in Tenants :
          /\ rowLock[t] \in Requests \cup {None, Scheduler}
          /\ rowLock[t] = Scheduler =>
                pass.pc \in {"flush_running", "loop_paused", "flush_paused"}

LEMMA PassLocks ==
    ASSUME HInv, HLockInv, HStep, ~Accompanied
    PROVE  HLockInv'
<1>0. /\ HTyped /\ IInv /\ loop \in ApiRequests \cup {None}
      /\ Scheduler \notin Requests \cup {None} /\ None \notin Requests
      /\ rowLock \in [Tenants -> Holders]
  BY HInvTyped, SchedulerAssumption, NoneAssumption DEF HInv, IInv, Typed, TypeOK
<1>1. /\ UNCHANGED loop
      /\ \A q \in Requests :
            /\ req'[q].pc = req[q].pc /\ req'[q].op = req[q].op
            /\ req'[q].tenant = req[q].tenant /\ req'[q].newDek = req[q].newDek
  <2>1. CASE UNCHANGED <<loop, req>>
    BY <2>1
  <2>2. CASE Overtake /\ UNCHANGED loop
    <3>1. ASSUME NEW q \in Requests
          PROVE  req'[q].newDek = req[q].newDek
      BY <1>0, <2>2 DEF Overtake, HTyped, Typed, TypeOK, RequestRecords
    <3> QED BY <1>0, <2>2, <3>1, OvertakeFacts DEF Overtaken, IInv
  <2> QED BY <1>0, <2>1, <2>2, LoopIntervenes, CommitIntervenes, FailIntervenes
          DEF HStep, PassSelectRunning, PassSelectPaused, PassFlush, Tick, EdgeProxy,
              Intervenes, vars, hvars
<1>2. ASSUME \A t \in Tenants, q \in Requests : rowLock'[t] = q => rowLock[t] = q
      PROVE  LockInv'
  <2>1. ASSUME NEW t \in Tenants, NEW q \in Requests, rowLock'[t] = q
        PROVE  T(q)' = t /\ Holding(q)'
    BY <1>1, <1>2, <2>1 DEF HLockInv, LockInv, T, Holding
  <2>2. \A q \in Requests : req'[q].newDek => req'[q].pc \in KeyedPcs
    BY <1>1 DEF HLockInv, LockInv
  <2>3. loop' # None => req'[loop'].pc \in SyncPcs
    <3>1. loop # None => loop \in Requests /\ req[loop].pc \in SyncPcs
      BY <1>0 DEF HLockInv, LockInv, Requests
    <3> QED BY <1>1, <3>1
  <2> QED BY <2>1, <2>2, <2>3 DEF LockInv
<1>3. CASE UNCHANGED rowLock /\ pass.pc \in {"asleep", "loop_running"}
  <2>1. \A t \in Tenants : rowLock'[t] # Scheduler /\ rowLock'[t] = rowLock[t]
    BY <1>3 DEF HLockInv
  <2> QED BY <1>2, <1>3, <2>1 DEF HLockInv
<1>4. CASE UNCHANGED rowLock /\ pass'.pc \in {"flush_running", "loop_paused", "flush_paused"}
  BY <1>2, <1>4 DEF HLockInv
<1>5. CASE UNCHANGED <<rowLock, pass>>
  BY <1>2, <1>5 DEF HLockInv
<1>6. CASE rowLock' = [t \in Tenants |-> IF rowLock[t] = Scheduler THEN None ELSE rowLock[t]]
  <2>1. \A t \in Tenants : rowLock'[t] = IF rowLock[t] = Scheduler THEN None ELSE rowLock[t]
    BY <1>6
  <2> QED BY <1>0, <1>2, <2>1 DEF HLockInv
<1>7. ASSUME NEW t \in Tenants, PassFlush(t)
      PROVE  HLockInv'
  <2>1. CASE rowLock' = [rowLock EXCEPT ![t] = Scheduler] /\ UNCHANGED pass
    <3>1. pass.pc \in {"flush_running", "flush_paused"}
      BY <1>7 DEF PassFlush, PassAt
    <3>2. \A u \in Tenants : rowLock'[u] = IF u = t THEN Scheduler ELSE rowLock[u]
      BY <1>0, <2>1
    <3> QED BY <1>0, <1>2, <2>1, <3>1, <3>2 DEF HLockInv
  <2>2. CASE PassAbort
    BY <1>6, <2>2 DEF PassAbort
  <2>3. CASE pass' = [pass EXCEPT !.write[t] = "none", !.seen[t] = NoRow] /\ UNCHANGED db
    <3>1. pass'.pc = pass.pc
      BY <1>0, <2>3 DEF HTyped, PassTyped, Passes
    <3> QED BY <1>2, <2>3, <3>1 DEF HLockInv, db
  <2> QED BY <1>7, <2>1, <2>2, <2>3 DEF PassFlush
<1>8. CASE PassLoopRunning \/ PassLoopPaused
  BY <1>0, <1>4, <1>8
     DEF PassLoopRunning, PassLoopPaused, PassLoop, HTyped, PassTyped, Passes, db
<1>9. CASE PassSelectRunning
  BY <1>3, <1>9 DEF PassSelectRunning, PassAt, vars
<1>10. CASE PassSelectPaused
  BY <1>0, <1>4, <1>10 DEF PassSelectPaused, HTyped, PassTyped, Passes, vars
<1>11. CASE PassCommit \/ PassFail
  BY <1>6, <1>11 DEF PassCommit, PassFail, PassAbort
<1>12. CASE UNCHANGED hvars \/ \E t \in Tenants : Tick(t) \/ EdgeProxy(t)
  BY <1>5, <1>12 DEF hvars, vars, Tick, EdgeProxy
<1> QED BY <1>7, <1>8, <1>9, <1>10, <1>11, <1>12 DEF HStep

LEMMA AccompaniedLocks ==
    ASSUME HInv, HLockInv, Accompanied
    PROVE  HLockInv'
<1>0. IInv /\ Typed /\ LockInv' /\ pass'.pc = pass.pc
  BY NextLocks DEF HInv, IInv, HLockInv, Accompanied, PassTyped, Passes
<1>1. \A t \in Tenants : rowLock'[t] \in Requests \cup {None} \/ rowLock'[t] = rowLock[t]
  <2>1. ASSUME NEW p \in Requests, Step(p) \/ Fail(p)
        PROVE  \A t \in Tenants : rowLock'[t] \in Requests \cup {None} \/ rowLock'[t] = rowLock[t]
    BY <1>0, <2>1, StepLocks DEF LockStep, Ends, EndTransaction, Typed, TypeOK
  <2>2. CASE UNCHANGED rowLock
    BY <2>2
  <2> QED BY <2>1, <2>2 DEF Accompanied, Next, Begin, ContainerCrash, ContainerRestart, db, vars
<1>2. Scheduler \notin Requests \cup {None}
  BY SchedulerAssumption
<1> QED BY <1>0, <1>1, <1>2 DEF HLockInv

LEMMA HLocksAlways == HSpec => [](HInv /\ HLockInv)
<1>1. HInit => HLockInv
  BY InitLocks, SchedulerAssumption DEF HInit, Init, HLockInv
<1>2. HInv /\ HLockInv /\ [HNext]_hvars => HLockInv'
  BY PassLocks, AccompaniedLocks, HNextSteps DEF HInv
<1> QED BY <1>1, <1>2, HInitInv, HNextInv, PTL DEF HSpec

LEMMA PassLocksEnd ==
    ASSUME HInv, HLockInv
    PROVE  PassWaitsEnd
<1>0. IInv /\ LockInv
  BY DEF HInv, HLockInv
<1>1. ASSUME NEW t \in Tenants, PassWaits(t)
      PROVE  \E q \in Requests : rowLock[t] = q /\ Active(q) /\ Settled(q)
  <2>1. rowLock[t] \in Requests
    BY <1>1 DEF PassWaits, HLockInv
  <2>2. Active(rowLock[t])
    BY <1>0, <2>1 DEF LockInv, Holding, HoldPcs, Active
  <2> QED BY <1>0, <2>1, <2>2, RowHolderSettled
<1>2. ASSUME NEW p \in Requests, Blocked(p), ~WaitsForPass(p)
      PROVE  \E q \in Requests : WaitsFor(p, q) /\ (Settled(q) \/ WaitsForPass(q))
  <2>1. Active(p) /\ T(p) \in Tenants
    BY <1>0, <1>2 DEF Blocked, UpdatePcs, KeyPcs, Active, IInv, Typed
  <2>2. CASE rowLock[T(p)] # Scheduler
    BY <1>0, <1>2, <2>1, <2>2, BlockedWaits DEF HLockInv
  <2>3. CASE rowLock[T(p)] = Scheduler
    <3>1. PICK q \in Requests \ {p} :
              T(q) = T(p) /\ req[q].newDek /\ req[p].pc \in KeyPcs
      BY <1>2, <2>3 DEF Blocked, WaitsForPass
    <3>2. WaitsFor(p, q) /\ req[q].pc \in KeyedPcs
      BY <1>0, <2>1, <3>1 DEF WaitsFor, LockInv, KeyedPcs, Active
    <3>3. Blocked(q) => WaitsForPass(q)
      BY <2>3, <3>1, <3>2 DEF Blocked, WaitsForPass, KeyedPcs, KeyPcs
    <3> QED BY <3>2, <3>3 DEF Settled, Unstuck
  <2> QED BY <2>2, <2>3
<1> QED BY <1>0, <1>1, <1>2, SectionUnblocked DEF PassWaitsEnd, Settled, HLockInv

\* However many tenants a pass has updated in its one transaction (hibernation.py:41-74),
\* and whatever requests hold or wait for, waiting ends: the pass waits only for requests
\* that go on or wait for one that does, and requests only for those, or for the pass.
THEOREM PassWaitingEnds == HSpec => []PassWaitsEnd
<1>1. HInv /\ HLockInv => PassWaitsEnd
  BY PassLocksEnd
<1> QED BY <1>1, HLocksAlways, PTL

=============================================================================
