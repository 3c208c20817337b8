SPECIFICATION Spec
CONSTANTS
    Catalogue <- MCOperations
    Steps <- MCSteps
    Promised <- MCDeclares
    Tier <- MCTier
    Trusted <- MCTrusted
INVARIANTS
    UnknownMeansReconcile
CHECK_DEADLOCK FALSE
