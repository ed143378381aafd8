\* One API request slot and one CLI process on one tenant; the CLI may fail or be killed
\* at any call, and the container may crash between requests.
SPECIFICATION MCSpec
CONSTANTS
    Tenants = {t1}
    ApiRequests = {a1}
    CliCommands = {c1}
    ContainerIds = {k1, k2, k3}
    Faulty = {c1}
    Flaky = {t1}
    Others = {}
    None = None
INVARIANTS
    TypeOK
PROPERTIES
    AloneDelivers
    EveryRequestCompletes
