\* One visit to a stopped tenant that has a data key; nothing fails and nobody disturbs.
SPECIFICATION KeyedSpec
CONSTANTS
    Tenants = {t1}
    ApiRequests = {a1}
    CliCommands = {}
    ContainerIds = {k1, k2}
    Faulty = {}
    Flaky = {}
    Others = {}
    None = None
    Commands = {}
    Impatient = {}
INVARIANTS EdgeServes
