\* Three handlers on one tenant.  A key is made only while no DEK is committed, so
\* those in use are the other two handlers'; a row id only while no row is there, so
\* those in use are held by the other two: three of each are enough.
SPECIFICATION Spec
CONSTANTS
    Requests = {r1, r2, r3}
    Names = {n1}
    EnvVars = {}
    Keys = {k1, k2, k3}
    RowIds = {i1, i2, i3}
    Faulty = {r1, r2, r3}
    None = None
INVARIANTS TypeOK SecretsReadable DecryptionNeverFails
SYMMETRY Symmetry
