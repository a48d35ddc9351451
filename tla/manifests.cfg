CONSTANTS
    Lower = {"a"}
    Digits = {"1", "2"}
    Marks = {"-"}
    ToUpper <- Upper
    Texts = {"x", "y"}
    NoText = ""
    Rates <- SomeRates
    Builds <- AllBuilds
SPECIFICATION Spec
CHECK_DEADLOCK FALSE
INVARIANTS OneValuePerName OptionsOverride JobStandsAlone
           ProvidersFromTheirURL CpuFollowsLoad ValuesReadBack
