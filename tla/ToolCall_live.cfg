SPECIFICATION FairSpec
CONSTANTS
    Calls = {c1, c2}
    Transfers = {}
    Operations <- KindsTwo
    Names = {n1, n2, n3, n4}
    NoName = NoName
    MaxStaged = 2
    MaxBytes = 2
    Envelope = 1
    EnvelopeSizes = {1}
    UploadSizes = {}
    Ttl = 0
    MaxTickets = 0
PROPERTY EveryCallEnds
