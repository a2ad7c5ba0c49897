SPECIFICATION Spec
CONSTANTS
    Ids = {a, b}
    Ctx = {c1, c2, c3}
    Slots = {s1}
    States <- MCStates
    First = "start"
    Events <- MCEvents
    Dialog <- MCDialog
    Before <- MCBefore
    After <- MCAfter
    Messages = {"hello", "ping"}
    Raised = {"error"}
    Calls = {"next", "exception", "wakeup", "send", "get", "put"}
    Reentry = "never"
    Timeouts = {TRUE}
    MaxDepth = 2
    NoCtx = NoCtx
    NoEvent = NoEvent
    NoState = NoState
    Zombie = Zombie
    Terminate = Terminate
    Expired = "expired"
    Malformed = "malformed"
    Star = Star
SYMMETRY Symmetry
INVARIANTS
    TypeOK
    StackIsLive
    RegistryConsistent
    ReferencesCounted
    TimersMatch
    ZombiesListed
    ShutdownFreesAll
PROPERTY ImplementsRegistry
