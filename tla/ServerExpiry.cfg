SPECIFICATION FairSpec
CONSTANTS
    Ids = {a, b}
    Ctx = {c1, c2}
    Slots = {s1}
    States <- MCStates
    First = "start"
    Events <- MCEvents
    Dialog <- MCDialog
    Before <- MCBefore
    After <- MCAfter
    Messages = {"hello"}
    Raised = {"error"}
    Calls = {"wakeup", "get", "put"}
    Reentry = "never"
    Timeouts = {TRUE}
    MaxDepth = 2
    NoCtx = NoCtx
    NoEvent = NoEvent
    NoState = NoState
    Zombie = Zombie
    Terminate = Terminate
    Expired = "expired"
    Malformed = "malformed"
    Star = Star
PROPERTY IdleClientsExpire
