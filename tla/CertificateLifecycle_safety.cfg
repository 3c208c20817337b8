SPECIFICATION Spec
CHECK_DEADLOCK FALSE
CONSTANTS
    Calls = {c1, c2}
    Ids = {i1, i2, i3}
    Offered = {"import", "renew", "revoke", "configure", "delete"}
    Serials = {s1}
    Issued = Issued
    None = None
SYMMETRY Symmetry
INVARIANT TypeOK
INVARIANT ImportsAreNotConfused
PROPERTY ImportsAreRecognised
PROPERTY HonestSpec
