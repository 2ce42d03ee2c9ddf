SPECIFICATION Spec
CONSTANTS
    Thread = {t1, t2}
    Caller = {c1}
    Ssh = {s1, s2}
    Relay = {r1}
    NoProc = NoProc
    RelayModes = {TRUE, FALSE}
    InitialBackoff = 5
    MaxBackoff = 8
    MaxQuit = 0
SYMMETRY Symmetry
INVARIANTS
    TypeOK
    RunningIsSupervised
    ChildIsWatched
    StatusIsOwned
PROPERTIES
    ShowsTunnel
    RelaySurvivesRetry
    RelayNotLeftRunning
