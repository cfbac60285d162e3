SPECIFICATION FairSpec
CONSTANTS
    Calls = {c1, c2}
    Capacity = 1
    MaxOutput = 2
    MaxFaults = 1
CHECK_DEADLOCK FALSE
INVARIANTS
    TypeOK
    StateHasCause
    OutcomeIsExit
PROPERTIES
    CallsEnd
    ProcessesEnd
