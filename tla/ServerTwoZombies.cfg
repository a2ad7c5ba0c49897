SPECIFICATION Spec
CONSTANTS
    Ids = {a}
    Ctx = {c1, c2}
    Slots = {s1, s2}
    States <- MCStates
    First = "start"
    Events <- MCEvents
    Dialog <- MCDialog
    Before <- MCBefore
    After <- MCAfter
    Messages = {"hello", "ping"}
    Raised = {"error"}
    Calls = {"get"}
    Reentry = "never"
    Timeouts = {TRUE}
    MaxDepth = 1
    NoCtx = NoCtx
    NoEvent = NoEvent
    NoState = NoState
    Zombie = Zombie
    Terminate = Terminate
    Expired = "expired"
    Malformed = "malformed"
    Star = Star
INVARIANT ShutdownFreesAll
