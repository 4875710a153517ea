SPECIFICATION Spec
CONSTANTS
    Base = 6
    LenBytes = 2
    WordBytes = 2
    Marker <- KRN
    Version = 2
    Inputs <- AllInputs
INVARIANTS
    QuotedValueDecides
    FirstNumberDecides
    ParsedAsCommitted
CHECK_DEADLOCK FALSE
