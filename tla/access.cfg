SPECIFICATION Spec
CONSTANTS
    Requests = {p1, p2}
    Emails = {e1, e2}
    UserIds = {u1, u2, u3}
    RowIds = {m1, m2, m3}
    Tokens = {k1}
    Names = {n1, n2}
    Roles = {"tenant_admin", "tenant_user"}
    Creator = e1
    Faulty = {p1, p2}
    MaxSurplus = 1
    None = None
INVARIANTS
    TypeOK
    LoginOnce
    SessionNamesUser
    NoOrphanMembers
    NoUnloggedRemoval
    NoDeadlock
PROPERTIES
    OnlyEntitledActors
    ImplementsRoster
SYMMETRY Symmetry
