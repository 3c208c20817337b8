SPECIFICATION Spec
CONSTANTS
    Calls = {c1, c2}
    Leases = {l1, l2}
    Configs = {f1, f2, f3}
    Sql = {f1, f2}
    Elsewhere = {e1}
    None = None
SYMMETRY Symmetry
INVARIANT TypeOK
INVARIANT CredentialsAreOfTheReadConfig
INVARIANT RefusedLeaseIsRevoked
PROPERTY OthersAreNotTouched
