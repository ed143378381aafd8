SPECIFICATION FairSpec
CONSTANTS
    Slugs = {s1}
    MaxTenants = 2
    ApiRequests = {a1, a2}
    CliCommands = {c1}
    Faulty = {a2, c1}
    None = None
INVARIANTS
    TypeOK
    DeletedLeavesNothing
PROPERTIES
    PublishedComplete
    ImplementsDirectory
    EveryRequestEnds
