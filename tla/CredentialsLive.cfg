SPECIFICATION FairSpec
CONSTANTS
    Worker = {w1, w2}
    MaxKey = 2
    MaxToken = 1
    Commands = {"sign_in", "cancel_sign_in", "renew"}
    Rotates = FALSE
    MaxRestart = 1
PROPERTIES
    AuthSettles
