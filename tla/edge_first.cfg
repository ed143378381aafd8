\* The same visits to a tenant that may have no data key yet; nothing fails.
SPECIFICATION ESpec
CONSTANTS
    Tenants = {t1}
    ApiRequests = {a1, a2}
    CliCommands = {}
    ContainerIds = {k1, k2, k3}
    Faulty = {}
    Flaky = {}
    Others = {}
    None = None
    Commands = {}
    Impatient = {}
INVARIANTS EdgeReaches
