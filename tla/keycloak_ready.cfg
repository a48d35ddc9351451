CONSTANTS
    h1 = h1
    h2 = h2
    o1 = o1
    NoHost = NoHost
    Order <- AllFive
    Edited = Edited
    ByName = ByName
    Generated = h1
    Hosts = {h1, h2}
    Options = {o1}
    Specs <- TwoSpecs
    Versioned = {"monitor"}
    MaxLag = 1
    MaxEdits = 1
    MaxDisturbances = 0
    MaxCollects = 0
    MaxTouches = 2
SPECIFICATION Spec
CHECK_DEADLOCK FALSE
INVARIANTS ReadyMeansServing
