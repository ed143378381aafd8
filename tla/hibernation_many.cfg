\* A pass over two idle tenants, which may have no data key, beside a start and a delete
\* of either; one fault of any kind.  Ids are never short.
SPECIFICATION BusySpec
CONSTANTS
    Tenants = {t1, t2}
    ApiRequests = {a1, a2}
    CliCommands = {}
    ContainerIds = {k1, k2, k3, k4}
    Faulty = {a1, a2}
    Flaky = {t1}
    Others = {Scheduler}
    None = None
    Scheduler = Scheduler
    Commands = {"start", "delete"}
    Visited = {}
    MaxFaults = 1
INVARIANTS HTypeOK PassWaitsEnd
PROPERTIES PassReconciles PassSparesActive IdleTenantHibernates
