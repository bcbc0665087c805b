SPECIFICATION Spec
CONSTANTS
    None = None
    Flags <- MCFlags
    Codes3 <- MCCodes3
    Codes2 <- MCCodes2
    CountryNames <- MCNames
    Countries = {"HK"}
    Unlocks = {0}
    MaxHops = 3
    MaxRuns = 0
    Sources <- MCDocuments
    Verdicts <- MCVerdicts
    Requests <- MCFormats
PROPERTIES
    IdentityKept
    ConnectionKept
    Settled
CHECK_DEADLOCK FALSE
