SPECIFICATION Spec
CONSTANTS
    Worker = {w1, w2}
    MaxKey = 2
    MaxToken = 2
    Commands = {"sign_in", "renew", "sign_out", "start_tunnel", "reset_all"}
    Rotates = TRUE
    MaxRestart = 0
SYMMETRY Symmetry
INVARIANTS
    TypeOK
    CertMatchesKey
    RefreshTokenKept
PROPERTIES
    CleanSignOut
    EnrolledIsUsable
