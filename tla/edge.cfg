\* Two slots for visits, starts and stops of one tenant that has a data key; every
\* call may fail or time out and the container may crash.  Two requests hold a
\* container id each, the row and the container another.
SPECIFICATION KeyedSpec
CONSTANTS
    Tenants = {t1}
    ApiRequests = {a1, a2}
    CliCommands = {}
    ContainerIds = {k1, k2, k3}
    Faulty = {a1, a2}
    Flaky = {t1}
    Others = {}
    None = None
    Commands = {"start", "stop", "pause", "delete"}
    Impatient = {a1, a2}
SYMMETRY Symmetry
INVARIANTS EdgeReaches
