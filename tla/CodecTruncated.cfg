SPECIFICATION Spec
CONSTANTS
    Fields <- MCFields
    Signature = 9
    Byte = 4
    Objects <- MCObjects
    Strangers <- MCStrangers
    OwnId <- MCOwnId
    OtherId <- MCOtherId
    MaxMessages = 1
    Null = Null
CHECK_DEADLOCK FALSE
PROPERTY TruncatedIsMalformed
