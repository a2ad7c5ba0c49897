SPECIFICATION Spec
CONSTANTS
    Fields <- MCFields
    Signature = 9
    Byte = 4
    Objects <- MCObjects
    Strangers <- MCStrangers
    OwnId <- MCOwnId
    OtherId <- MCOtherId
    MaxMessages = 2
    Null = Null
CHECK_DEADLOCK FALSE
INVARIANTS
    TypeOK
    StaysInFrame
    FitsFrame
    EchoIsFaithful
PROPERTY RoundTrip
