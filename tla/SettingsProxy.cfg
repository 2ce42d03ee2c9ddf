SPECIFICATION Spec
CONSTANTS
    Server = {a}
    Proxy = {p}
    None = None
    Call = {c1, c2}
    NoCall = NoCall
    MaxEdit = 2
    MaxPress = 0
    MaxRestart = 0
    MaxFail = 0
CHECK_DEADLOCK FALSE
INVARIANT
    NextLaunchKnows
