CONSTANTS
    i1 = i1
    i2 = i2
    k1 = k1
    k2 = k2
    n1 = n1
    n2 = n2
    j1 = j1
    bad = bad
    s1 = s1
    v1 = v1
    v2 = v2
    NoValue = NoValue
    Imports = {i1}
    Names = {i1}
    NameOf <- OwnNames
    Instances = {k1, k2}
    Namespaces = {n1, n2}
    NamespaceOf <- TwoNamespaces
    Jsons = {j1, bad}
    BadJsons = {bad}
    Sources = {}
    Values = {v1, v2}
    Specs <- TwoTargets
    Others = {FALSE}
    MaxLag = 1
    MaxEdits = 2
    MaxDeletes = 1
    MaxTouches = 0
    MaxCrashes = 0
SPECIFICATION Spec
CHECK_DEADLOCK FALSE
INVARIANTS NoOrphans
