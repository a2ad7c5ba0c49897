SPECIFICATION Spec
CONSTANTS
    Ids = {a, b, d}
    Ctx = {c1, c2, c3}
    Slots = {}
    States <- MCStates
    First = "start"
    Events <- MCEvents
    Dialog <- MCDialog
    Before <- MCBefore
    After <- MCAfter
    Messages = {"hello", "ping"}
    Raised = {"error"}
    Calls = {"send", "broadcast"}
    Reentry = "never"
    Timeouts = {TRUE}
    MaxDepth = 4
    NoCtx = NoCtx
    NoEvent = NoEvent
    NoState = NoState
    Zombie = Zombie
    Terminate = Terminate
    Expired = "expired"
    Malformed = "malformed"
    Star = Star
INVARIANT BroadcastReachesClients
