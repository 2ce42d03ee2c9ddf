SPECIFICATION Spec
CONSTANTS
    Worker = {w1}
    MaxKey = 2
    MaxToken = 2
    Commands = {"sign_in", "start_tunnel"}
    Rotates = TRUE
    MaxRestart = 0
PROPERTIES
    ConnectsOnWhatWeHave
