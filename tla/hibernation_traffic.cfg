\* A running tenant that octw-edge proxies to.
SPECIFICATION MCSpec
CONSTANTS
    Tenants = {t1}
    ApiRequests = {a1}
    CliCommands = {}
    ContainerIds = {k1, k2}
    Faulty = {}
    Flaky = {}
    Others = {Scheduler}
    None = None
    Scheduler = Scheduler
    Commands = {"delete"}
    Visited = {t1}
    MaxFaults = 0
PROPERTY TrafficIsActivity
