----------------------------- MODULE Hibernation -----------------------------
(***************************************************************************)
(* Idle hibernation (orchestrator/hibernation.py) beside the requests of   *)
(* TenantRuntime, and the traffic that octw-edge proxies (edge/proxy.py).  *)
(*                                                                         *)
(* HibernationScheduler is an asyncio task of the API process: it shares   *)
(* the event loop and DockerOrchestrator with the handlers.  One pass is   *)
(* one transaction over all tenants.  Each of its two for loops has no     *)
(* await, so with the API process alone driving Docker (CliCommands = {})  *)
(* a loop is one step; the UPDATEs of a flush are one step each, for each  *)
(* may wait for a row lock.                                                *)
(***************************************************************************)
EXTENDS TenantRuntime

CONSTANTS
    Scheduler,     \* the scheduler, as a holder of row locks
    Commands,      \* the kinds of request that arrive
    Visited,       \* the tenants that octw-edge proxies to
    MaxFaults      \* bound on the faults: a pass or a request fails, a container crashes

ASSUME SchedulerAssumption == Scheduler \in Others \ (Requests \cup {None})
ASSUME CommandsAssumption == Commands \subseteq Ops
ASSUME VisitedAssumption == Visited \subseteq Tenants
ASSUME MaxFaultsAssumption == MaxFaults \in Nat

VARIABLES
    pass,      \* the progress of the scheduler's pass
    traffic,   \* traffic[t]: octw-edge has proxied to t within idle_pause_seconds
    faults     \* how many faults there have been

hvars == <<vars, pass, traffic, faults>>

\* seen: the rows in hand, NoRow for the others; write: the status a row in hand has
\* been given, "none" for the others; clean: the tenants that no request and no
\* crash has touched since the pass began (an auxiliary field: no step reads it).
Writes == {"none", "stopped", "paused"}
Passes ==
    [pc : {"asleep", "loop_running", "flush_running", "loop_paused", "flush_paused"},
     seen : [Tenants -> RowRecords], write : [Tenants -> Writes],
     clean : SUBSET Tenants]
Asleep == [pc |-> "asleep", seen |-> [t \in Tenants |-> NoRow],
           write |-> [t \in Tenants |-> "none"], clean |-> {}]

\* Mutant of PassAt: the pass calls Docker from a thread.
PassAtThreaded(pc) == pass.pc = pc

\* The task runs next.
PassAt(pc) == pass.pc = pc /\ loop = None

\* A step of the pass: the requests on the tenants that it changes are no longer alone.
Overtake ==
    req' = [p \in Requests |-> [req[p] EXCEPT
               !.alone = @ /\ container'[T(p)] = container[T(p)] /\ row'[T(p)] = row[T(p)]]]

-----------------------------------------------------------------------------
(* One pass: _check_idle_tenants. *)

Selected(status) == [t \in Tenants |-> IF row[t].status = status THEN row[t] ELSE NoRow]

PassSelectRunning ==
    /\ PassAt("asleep")
    /\ pass' = [Asleep EXCEPT !.pc = "loop_running", !.seen = Selected("running"),
                              !.clean = {t \in Tenants : \A p \in Requests : T(p) # t}]
    /\ UNCHANGED <<vars, traffic, faults>>

\* Mutant of Threshold: the thresholds are compared in the other order.
ThresholdSwapped(r) == IF r.idle = 0 THEN "none" ELSE "paused"

\* What the first loop makes of a row in hand.
Threshold(r) == CASE r.idle = 2 -> "stopped" [] r.idle = 1 -> "paused" [] OTHER -> "none"

\* stop_container and pause_container, uninterrupted.
Hibernated(c, to) ==
    CASE to = "stopped" -> NoContainer
      [] to = "paused" /\ c.state = "running" -> [c EXCEPT !.state = "paused"]
      [] OTHER -> c

\* Mutants of Due: the second loop stops every paused row it meets; the first takes a
\* tenant that is due to be paused for one due to be stopped.
DueWhatever(t) ==
    IF pass.pc = "loop_running" THEN Threshold(pass.seen[t])
    ELSE IF pass.seen[t].status = "paused" THEN "stopped" ELSE "none"
DueEarly(t) ==
    LET r == pass.seen[t] IN
    IF pass.pc = "loop_running" THEN IF r.idle = 0 THEN "none" ELSE "stopped"
    ELSE IF r.idle = 2 /\ pass.write[t] = "none" THEN "stopped" ELSE "none"

\* What the loop at pc has to do about each tenant; the second loop meets the rows
\* that are paused and only compares the stop threshold.
Due(t) ==
    LET r == pass.seen[t] IN
    IF pass.pc = "loop_running" THEN Threshold(r)
    ELSE IF r.idle = 2 /\ pass.write[t] = "none" THEN "stopped" ELSE "none"

PassLoop(pc, next) ==
    /\ PassAt(pc)
    /\ container' = [t \in Tenants |-> Hibernated(container[t], Due(t))]
    /\ pass' = [pass EXCEPT !.pc = next,
                            !.write = [t \in Tenants |-> IF Due(t) = "none" THEN @[t]
                                                         ELSE Due(t)]]
    /\ UNCHANGED <<db, network, dirs, loop, traffic, faults>>
    /\ Overtake
PassLoopRunning == PassLoop("loop_running", "flush_running")
PassLoopPaused == PassLoop("loop_paused", "flush_paused")

\* run() logs the exception and sleeps; the session closes uncommitted.
PassAbort ==
    /\ pass' = Asleep
    /\ rowLock' = [t \in Tenants |-> IF rowLock[t] = Scheduler THEN None ELSE rowLock[t]]
    /\ UNCHANGED <<row, dek>>

\* UPDATE of one row, by the autoflush of the second SELECT or by the flush of the
\* commit.  A row that is gone raises StaleDataError, unless the driver has sent
\* the UPDATEs of several rows in one batch and has no count of rows to check.
PassFlush(t) ==
    /\ PassAt("flush_running") \/ PassAt("flush_paused")
    /\ pass.write[t] # "none" /\ rowLock[t] = None
    /\ \/ /\ Exists(t)
          /\ rowLock' = [rowLock EXCEPT ![t] = Scheduler]
          /\ UNCHANGED <<row, dek, pass>>
       \/ ~Exists(t) /\ PassAbort
       \/ /\ ~Exists(t)
          /\ pass' = [pass EXCEPT !.write[t] = "none", !.seen[t] = NoRow]
          /\ UNCHANGED db
    /\ UNCHANGED <<docker, loop, req, traffic, faults>>

Flushed == \A t \in Tenants : pass.write[t] # "none" => rowLock[t] = Scheduler

\* Mutant of PassSelectPaused: it selects the running tenants once more.
PassSelectRunningAgain ==
    /\ PassAt("flush_running") /\ Flushed
    /\ pass' = [pass EXCEPT
           !.pc = "loop_paused",
           !.seen = [t \in Tenants |-> IF @[t] # NoRow THEN @[t] ELSE Selected("running")[t]]]
    /\ UNCHANGED <<vars, traffic, faults>>

\* A row that is already in hand stays as it was loaded.
PassSelectPaused ==
    /\ PassAt("flush_running") /\ Flushed
    /\ pass' = [pass EXCEPT
           !.pc = "loop_paused",
           !.seen = [t \in Tenants |-> IF @[t] # NoRow THEN @[t] ELSE Selected("paused")[t]]]
    /\ UNCHANGED <<vars, traffic, faults>>

\* Mutant of Written: the container's state is written for the tenant's status.
WrittenContainerState(r, t) ==
    IF pass.write[t] = "none" THEN r ELSE [r EXCEPT !.status = container[t].state]

\* The row that a write makes of r: container_id = None is sent only if the row in
\* hand was loaded with another one.
Written(r, t) ==
    CASE pass.write[t] = "stopped" ->
             [r EXCEPT !.status = "stopped", !.cid = IF pass.seen[t].cid = None THEN @ ELSE None]
      [] pass.write[t] = "paused" -> [r EXCEPT !.status = "paused"]
      [] OTHER -> r

\* Mutant of PassCommit: flush() for commit(), in a session kept from pass to pass.
PassFlushedOnly ==
    /\ PassAt("flush_paused") /\ Flushed
    /\ pass' = Asleep
    /\ UNCHANGED <<vars, traffic, faults>>

PassCommit ==
    /\ PassAt("flush_paused") /\ Flushed
    /\ row' = [t \in Tenants |-> Written(row[t], t)]
    /\ rowLock' = [t \in Tenants |-> IF rowLock[t] = Scheduler THEN None ELSE rowLock[t]]
    /\ pass' = Asleep
    /\ UNCHANGED <<dek, docker, loop, traffic, faults>>
    /\ Overtake

Fault == faults < MaxFaults /\ faults' = faults + 1

\* A call raises: of the tenants that are due some have been dealt with, and one may
\* have been stopped and not removed.
PassFail ==
    /\ pass.pc # "asleep" /\ loop = None
    /\ Fault
    /\ \/ UNCHANGED container
       \/ /\ pass.pc \in {"loop_running", "loop_paused"}
          /\ \E done \in SUBSET {t \in Tenants : Due(t) # "none"}, last \in Tenants :
                container' = [t \in Tenants |->
                    IF t \in done THEN Hibernated(container[t], Due(t))
                    ELSE IF t = last /\ Due(t) = "stopped"
                            /\ container[t].state \notin {"not_found", "created"}
                         THEN [container[t] EXCEPT !.state = "exited"]
                    ELSE container[t]]
    /\ PassAbort
    /\ UNCHANGED <<network, dirs, loop, traffic>>
    /\ Overtake

PassStep ==
    \/ PassSelectRunning \/ PassLoopRunning \/ PassSelectPaused \/ PassLoopPaused
    \/ PassCommit \/ \E t \in Tenants : PassFlush(t)

-----------------------------------------------------------------------------
(* Around the pass. *)

\* A step of TenantRuntime; a pass notes which tenants it touches.
Beside(A) ==
    /\ A
    /\ pass' = [pass EXCEPT !.clean = {t \in @ : /\ container'[t] = container[t]
                                                 /\ \A p \in Requests : req'[p].tenant # t}]
    /\ UNCHANGED traffic

RequestStep(p) == Beside(Step(p)) /\ UNCHANGED faults
RequestFail(p) == Beside(Fail(p)) /\ Fault
Arrive(p, op, t) == Beside(Begin(p, op, t)) /\ UNCHANGED faults
Crash(t) == Beside(ContainerCrash(t)) /\ Fault
Restart(t) == Beside(ContainerRestart(t)) /\ UNCHANGED faults

\* _resolve_and_ensure finds the container running and the request is proxied: nothing
\* is written.  (Otherwise it calls ensure-running, a "wake" request.)
EdgeProxy(t) ==
    /\ t \in Visited /\ container[t].state = "running" /\ loop = None
    /\ traffic' = [traffic EXCEPT ![t] = TRUE]
    /\ UNCHANGED <<vars, pass, faults>>

\* Time passes: last_activity_at of t falls behind one more threshold.
Tick(t) ==
    /\ Exists(t) /\ row[t].idle < 2
    /\ row' = [row EXCEPT ![t].idle = @ + 1]
    /\ traffic' = [traffic EXCEPT ![t] = FALSE]
    /\ UNCHANGED <<dek, rowLock, docker, loop, req, pass, faults>>

HNext ==
    \/ PassStep \/ PassFail
    \/ \E p \in Requests : \/ RequestStep(p) \/ RequestFail(p)
                           \/ \E op \in Commands, t \in Tenants : Arrive(p, op, t)
    \/ \E t \in Tenants : Crash(t) \/ Restart(t) \/ EdgeProxy(t) \/ Tick(t)

HInit ==
    /\ Init
    /\ pass = Asleep
    /\ traffic = [t \in Tenants |-> FALSE]
    /\ faults = 0

HSpec == HInit /\ [][HNext]_hvars

\* run() repeats the pass for ever; requests are served as in TenantRuntime.
HFairness == SF_hvars(PassStep) /\ \A p \in Requests : SF_hvars(RequestStep(p))
FairHSpec == HSpec /\ HFairness

-----------------------------------------------------------------------------
(* Properties. *)

\* Every variable has its type: the row locks may also be the scheduler's.
HTypeOK ==
    /\ TypeOK
    /\ pass \in Passes
    /\ traffic \in [Tenants -> BOOLEAN]
    /\ faults \in 0..MaxFaults

\* A pass that commits has dealt with each tenant that it has seen idle, and that no
\* request and no crash has touched since it began: what the row says now, whatever
\* it said before, is what Docker has.
PassReconciles ==
    [][PassCommit => \A t \in pass.clean :
          LET saw == pass.seen[t] IN
          /\ saw.status # "absent" /\ saw.idle = 2 =>
                 /\ container'[t] = NoContainer
                 /\ row'[t].status = "stopped" /\ row'[t].cid = None
          /\ saw.status = "running" /\ saw.idle = 1 =>
                 container'[t].state # "running" /\ row'[t].status = "paused"]_hvars

\* A pass works on rows that it has read, and requests go on meanwhile.  The container
\* of a tenant that no request has touched since it began is paused only if the row says
\* now that it runs and is idle, and stopped only if it has been idle for
\* idle_stop_seconds, half done passes included.
PassSparesActive ==
    [][\A t \in pass.clean : pass'.pc # pass.pc /\ container'[t] # container[t] =>
          /\ row[t].status \in {"running", "paused"} /\ row[t].idle >= 1
          /\ container'[t].state # "paused" => row[t].idle = 2]_hvars

\* PauseRetainsMemory beside the scheduler: it takes a paused container only of a tenant
\* whose row it has read as idle for idle_stop_seconds.
MemoryBesidePass ==
    [][\A t \in Tenants : container[t].state = "paused" =>
          \/ container'[t].id = container[t].id /\ container'[t].state \in {"paused", "running"}
          \/ \E p \in Requests : /\ T(p) = t /\ req[p].op \in {"stop", "delete"}
                                 /\ req'[p] # req[p]
          \/ pass'.pc # pass.pc /\ pass.seen[t].idle = 2]_hvars

\* p's UPDATE waits for a row that the pass has updated, and the pass's UPDATE of t's row
\* for the request that has.
WaitsForPass(p) == req[p].pc \in UpdatePcs /\ rowLock[T(p)] = Scheduler
PassWaits(t) ==
    /\ pass.pc \in {"flush_running", "flush_paused"} /\ pass.write[t] # "none"
    /\ rowLock[t] \notin {None, Scheduler}

\* The pass is one transaction that locks the rows of many tenants and waits for more:
\* whoever it waits for goes on, or waits for a request that does, and never for a
\* request that waits for the pass; a blocked request waits for such a one, or for one
\* that waits for the pass, or for the pass itself, which is under way.
PassWaitsEnd ==
    /\ \A t \in Tenants : PassWaits(t) =>
           \E q \in Requests :
               /\ rowLock[t] = q /\ Active(q)
               /\ Unstuck(q) \/ \E r \in Requests : WaitsFor(q, r) /\ Unstuck(r)
    /\ \A p \in Requests : Blocked(p) =>
           \/ WaitsForPass(p)
           \/ \E q \in Requests :
                 /\ WaitsFor(p, q)
                 /\ \/ Unstuck(q) \/ WaitsForPass(q)
                    \/ \E r \in Requests : WaitsFor(q, r) /\ Unstuck(r)
    /\ \A t \in Tenants : rowLock[t] = Scheduler =>
           pass.pc \in {"flush_running", "loop_paused", "flush_paused"}
    /\ loop # None => Active(loop) /\ ~Blocked(loop)

\* "8 hours idle: stop container" (docs/architecture.md:106): a tenant whose row says
\* that it runs or is paused and that it has been idle for idle_stop_seconds does not
\* stay so, whatever requests, lost rows and failing passes come in between.
IdleTenantHibernates ==
    \A t \in Tenants :
        row[t].status \in {"running", "paused"} /\ row[t].idle = 2
            ~> row[t].status \in {"stopped", "absent"} \/ row[t].idle < 2

\* "Activity is defined as HTTP/WS traffic through octw-edge to the tenant"
\* (docs/architecture.md:109): no pass takes a tenant with recent traffic for idle.
TrafficIsActivity ==
    [][PassSelectRunning => \A t \in Tenants : traffic[t] => pass'.seen[t].idle = 0]_hvars

=============================================================================
