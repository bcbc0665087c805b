SPECIFICATION Spec
CONSTANTS
    None = None
    Flags <- MCFlags
    Codes3 <- MCCodes3
    Codes2 <- MCCodes2
    CountryNames <- MCNames
    Countries = {"HK"}
    Unlocks = {0, 2}
    MaxHops = 2
    MaxRuns = 2
    Sources <- MCLists
    Verdicts <- MCVerdicts
    Requests <- MCRequests
INVARIANTS
    NamesDistinct
    ScoreAgrees
    CountIsWanted
    LabelledOnce
CHECK_DEADLOCK FALSE
