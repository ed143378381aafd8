\* The API process alone, with three request slots on one tenant: every call may fail
\* and the container may crash.  When a container is created there is none, so the ids
\* in use are the row's and those that the other two requests hold: four are enough.
SPECIFICATION DSpec
CONSTANTS
    Tenants = {t1}
    ApiRequests = {a1, a2, a3}
    CliCommands = {}
    ContainerIds = {k1, k2, k3, k4}
    Faulty = {a1, a2, a3}
    Flaky = {t1}
    Others = {}
    None = None
INVARIANTS NoDockerConflict WaitsEnd ClearedStaysEmpty
PROPERTY PauseRetainsMemory
SYMMETRY Symmetry
