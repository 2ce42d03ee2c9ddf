SPECIFICATION Spec
CONSTANTS
    Worker = {w1, w2}
    MaxKey = 1
    MaxToken = 1
    Commands = {"sign_in", "reset_all"}
    Rotates = FALSE
    MaxRestart = 0
SYMMETRY Symmetry
INVARIANTS
    ResetIsComplete
