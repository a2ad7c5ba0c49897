SPECIFICATION Spec
CONSTANTS
    States <- MCStates
    First = "start"
    Events <- MCEvents
    Dialog <- MCDialog
    Before <- MCBefore
    After <- MCAfter
    Methods = {"connect", "disconnect"}
    Messages = {"ok"}
    Raised = {"retry"}
    Calls = {"expired"}
    Rearm = TRUE
    NoEvent = NoEvent
    NoState = NoState
    Malformed = "malformed"
    Star = Star
PROPERTY TrafficResetsExpiry
