SPECIFICATION FairSpec
CONSTANTS
    Names = {n1, n2, n3}
    Requests = {r1, r2, r3}
    NoName = NoName
    MaxStaged = 2
    MaxBytes = 4
    Envelope = 2
    EnvelopeSizes = {1, 2}
    UploadSizes = {0, 1}
    Ttl = 1
    MaxTickets = 2
INVARIANT TypeOK
INVARIANT PlacesAreAccounted
INVARIANT BytesAreAccounted
INVARIANT TicketsServeOnce
PROPERTY NothingStaleIsUsed
PROPERTY EveryEntryGoes
