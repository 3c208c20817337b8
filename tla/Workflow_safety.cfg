SPECIFICATION Spec
CONSTANTS
    Catalogue <- MCOperations
    Steps <- MCSteps
    Promised <- MCDeclares
    Tier <- MCTier
    Trusted <- MCTrusted
INVARIANTS
    TypeOK
    FlawsStayLocal
    AdviceIsTrue
    ScopeIsProved
    ResultsFit
    TierIsTrue
    CallsAreDisciplined
CHECK_DEADLOCK FALSE
