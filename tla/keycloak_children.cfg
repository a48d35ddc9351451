CONSTANTS
    h1 = h1
    h2 = h2
    o1 = o1
    NoHost = NoHost
    Order <- Two
    Edited = Edited
    ByName = ByName
    Generated = h1
    Hosts = {h1, h2}
    Options = {o1}
    Specs <- TwoSpecs
    Versioned = {"route"}
    MaxLag = 1
    MaxEdits = 2
    MaxDisturbances = 1
    MaxCollects = 2
    MaxTouches = 2
SPECIFICATION Spec
CHECK_DEADLOCK FALSE
INVARIANTS TypeOK NothingMissed
PROPERTIES RolloutsSurvive
