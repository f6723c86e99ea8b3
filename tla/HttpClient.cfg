SPECIFICATION Spec
CONSTANTS
    Status = {200, 300, 400, 500}
    Bodies <- MCBodies
    NumberOf <- MCNumberOf
    Port = 8080
    Timeouts = {0, 30}
    None = None
    NotADict = NotADict
    Panic = Panic
INVARIANTS
    TypeOK
    ErrorIffNotSuccess
    ErrorCodeTellsFailure
PROPERTIES
    CallReturns
