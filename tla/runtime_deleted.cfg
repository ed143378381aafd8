\* Two API requests that neither fail nor meet a crash.
SPECIFICATION Spec
CONSTANTS
    Tenants = {t1}
    ApiRequests = {a1, a2}
    CliCommands = {}
    ContainerIds = {k1, k2, k3}
    Faulty = {}
    Flaky = {}
    Others = {}
    None = None
INVARIANTS
    DeletedTenantLeavesNothing
