SPECIFICATION Spec
CONSTANTS
    Calls = {c1, c2}
    Transfers = {t1}
    Operations <- KindsMixed
    Names = {n1, n2, n3}
    NoName = NoName
    MaxStaged = 2
    MaxBytes = 2
    Envelope = 1
    EnvelopeSizes = {1}
    UploadSizes = {1}
    Ttl = 1
    MaxTickets = 1
SYMMETRY Symmetry
INVARIANT TypeOK
INVARIANT RepliesAreTrue
INVARIANT SlotsFollowTheCall
INVARIANT StagedIsNamed
PROPERTY PlaneSpec
