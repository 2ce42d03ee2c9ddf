SPECIFICATION Spec
CONSTANTS
    Server = {a, b}
    Proxy = {p}
    None = None
    Call = {c1, c2}
    NoCall = NoCall
    MaxEdit = 2
    MaxPress = 2
    MaxRestart = 1
    MaxFail = 1
SYMMETRY Symmetry
CHECK_DEADLOCK FALSE
INVARIANTS
    TypeOK
    
    DotIsAboutForm
    CheckingIsPending
PROPERTIES
    SignInOnDiscovered
    CleanReset
