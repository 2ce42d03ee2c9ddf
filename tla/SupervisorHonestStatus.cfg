SPECIFICATION PatientSpec
CONSTANTS
    Thread = {t1, t2}
    Caller = {c1}
    Ssh = {s1, s2}
    Relay = {}
    NoProc = NoProc
    RelayModes = {FALSE}
    InitialBackoff = 5
    MaxBackoff = 5
    MaxQuit = 0
PROPERTIES
    HonestStatus
