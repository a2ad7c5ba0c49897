SPECIFICATION FairSpec
CONSTANTS
    States <- MCStates
    First = "start"
    Events <- MCEvents
    Dialog <- MCDialog
    Before <- MCBefore
    After <- MCAfter
    Methods = {"connect", "disconnect"}
    Messages = {"ok", "bogus", "malformed"}
    Raised = {"retry"}
    Calls = {"next", "exception", "wakeup", "expired", "heartbeat"}
    Rearm = FALSE
    NoEvent = NoEvent
    NoState = NoState
    Malformed = "malformed"
    Star = Star
INVARIANTS
    TypeOK
    TimersMatch
PROPERTIES
    HeartbeatGoesOn
    ExpiryGoesOn
