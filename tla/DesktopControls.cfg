SPECIFICATION Spec
CONSTANTS
    Port = {p1, p2}
    Down = down
    DefaultPort = p1
    Toggle = {t1, t2}
    Box = {b1, b2}
    Layout <- MCLayout
    Value <- MCValue
    Missing = missing
    MaxPress = 3
    MaxEvent = 1
SYMMETRY Symmetry
CHECK_DEADLOCK FALSE
INVARIANTS
    TypeOK
    OtherLinesKept
    BackupIsTheirs
    SpotifyFollowsTunnel
    EntryIsKnown
