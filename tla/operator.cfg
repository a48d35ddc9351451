CONSTANTS
    h1 = h1
    h2 = h2
    o1 = o1
    j1 = j1
    NoHost = NoHost
    Order <- Two
    Edited = Edited
    ByName = ByName
    Generated = h1
    Hosts = {h1, h2}
    Options = {o1}
    KeycloakSpecs <- TwoSpecs
    InstalledSpecs <- OneSpec
    Versioned = {}
    OneImport = i1
    Instance = k1
    Jsons = {j1}
    Sources = {}
    Values = {}
    NoValue = NoValue
    ImportSpecs <- BareSpec
    MaxLag = 1
    MaxEdits = 1
    MaxDisturbances = 1
    MaxImportEdits = 1
SPECIFICATION Spec
CHECK_DEADLOCK FALSE
INVARIANTS ChangesConverge
PROPERTIES RolloutsSurvive
