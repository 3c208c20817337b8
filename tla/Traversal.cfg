SPECIFICATION Spec
CONSTANTS
    Limits = {1, 2, 3, 9}
    Ceiling = 2
    MaxOffset = 4
    RouteOffset = 2
    MaxItems = 7
INVARIANT
    EveryItemOnce
PROPERTY
    TraversalEnds
CHECK_DEADLOCK FALSE
