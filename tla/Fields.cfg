SPECIFICATION Spec
CONSTANTS
    Callers = {c1, c2}
    Parts <- MCParts
    Texts <- MCTexts
    Flags <- MCFlags
    Multis <- MCMultis
    Secrets <- MCSecrets
    RowFields <- MCRowFields
    Normalised <- MCMultis
    Translates = "device"
    Calls <- MCCalls
    Records <- MCRecords
    Default <- MCDefault
    NoRecord = NoRecord
    MaxCalls = 3
    MaxEdits = 1
PROPERTIES
    ReturnsAsGiven
    SecondRunIsNoop
CHECK_DEADLOCK FALSE
