\* The scheduler beside one API request slot, on one visited tenant; one fault of any kind.
\* The row may hold one container id and the container another: two are enough.
SPECIFICATION MCSpec
CONSTANTS
    Tenants = {t1}
    ApiRequests = {a1}
    CliCommands = {}
    ContainerIds = {k1, k2}
    Faulty = {a1}
    Flaky = {t1}
    Others = {Scheduler}
    None = None
    Scheduler = Scheduler
    Commands = {"stop", "wake", "delete"}
    Visited = {t1}
    MaxFaults = 1
INVARIANTS NoDockerConflict
PROPERTIES MemoryBesidePass AloneDelivers EveryRequestCompletes IdleTenantHibernates
