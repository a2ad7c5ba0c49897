SPECIFICATION Spec
CONSTANTS
    Ids = {a}
    Ctx = {c1, c2}
    Slots = {s1, s2}
    States <- MCStates
    First = "start"
    Events <- MCEvents
    Dialog <- StrictDialog
    Before <- MCBefore
    After <- MCAfter
    Messages = {"hello", "bogus", "malformed"}
    Raised = {"error"}
    Calls = {"next", "send", "broadcast", "get", "put", "configure"}
    Reentry = "held"
    Timeouts = {TRUE, FALSE}
    MaxDepth = 4
    NoCtx = NoCtx
    NoEvent = NoEvent
    NoState = NoState
    Zombie = Zombie
    Terminate = Terminate
    Expired = "expired"
    Malformed = "malformed"
    Star = Star
INVARIANTS
    StackIsAllocated
CHECK_DEADLOCK FALSE
