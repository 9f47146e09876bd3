SPECIFICATION Spec
CONSTANTS
    NoText = NoText
    NoTime = NoTime
    Naive = Naive
    NoValue = NoValue
    NumberOf <- MCNumberOf
    MaxFileSize = 2
    LastHour = 9
    Inputs <- MCInputs
INVARIANTS
    EventsTellTheRows
    ProblemsAreSignalled
    NothingIsSilent
    ValuesTellTheTrace
    ReloadIsInvisible
