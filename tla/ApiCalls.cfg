SPECIFICATION FairSpec
CONSTANTS
    Methods <- MCMethods
    Immediate = {"recv"}
    Accepts <- MCAccepts
    Async = {"MESSAGE"}
    Hwm = 3
    MaxCalls = 3
    MaxPushes = 2
CHECK_DEADLOCK FALSE
INVARIANTS
    TypeOK
    FlushedBeforeEnd
PROPERTIES
    RightAnswer
    CallsReturn
