SPECIFICATION FairSpec
CONSTANTS
    Profile = {p1, p2}
    Service = {s1, s2}
    None = None
    Room = 1
    Beyond = {"crossed", "unguarded", "refused", "late"}
INVARIANTS
    ConnectedIsUp
    OneBox
    SavedIsWished
    StopIsHeard
    RestsOnTruth
PROPERTY
    EventuallyQuiet
