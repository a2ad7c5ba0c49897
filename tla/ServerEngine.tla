------------------------------ MODULE ServerEngine ------------------------------
(***************************************************************************)
(* The C server engine that zproto_server_c.gsl generates: one actor       *)
(* thread owns a reactor (zloop), a ROUTER socket, a table of client       *)
(* contexts and a table of zombie contexts, and runs every client's state  *)
(* machine through s_client_execute.                                       *)
(*                                                                         *)
(* There is one thread, yet executions nest: an action written by the      *)
(* application may call engine_send_event or engine_broadcast_event, which *)
(* run other clients' machines before the action returns.  The C call      *)
(* stack is therefore part of the state (frame[1..depth]), and each step   *)
(* below is what the code does between two points where application code   *)
(* may run.                                                                *)
(***************************************************************************)
EXTENDS Integers, Sequences, FiniteSets

CONSTANTS
    Ids,        \* routing identities of peers (the hash keys of the tables)
    Ctx,        \* memory blocks for s_client_t: a freed one may be reused
    Slots,      \* places where the application keeps counted references
    States,     \* the states of the dialog
    First,      \* the first state of the dialog
    Events,     \* the events the dialog names
    Dialog,     \* Dialog[s] : event or Star -> [acts, next], superstates resolved
    Before,     \* Before[s] : the <before> actions of state s
    After,      \* After[s]  : the <after> actions of state s
    Messages,   \* what a peer can send: protocol messages, or Malformed
    Raised,     \* events that application code passes to the engine
    Calls,      \* the engine functions that application code calls
    Reentry,    \* may application code re-enter a machine that is running?
    Timeouts,   \* values server/timeout takes: TRUE is a non-zero timeout
    MaxDepth    \* bound on the depth of nested calls

CONSTANTS NoCtx, NoEvent, NoState, Zombie, Terminate, Expired, Malformed, Star

AllEvents == Events \cup {NoEvent, Terminate, Expired, Malformed}

\* What a branch of the generated switch may do, step by step.
Step == [op : {"send", "terminate", "app"}, to : {NoState}]
          \cup [op : {"goto"}, to : States]

Branches == [acts : Seq(Step), next : States \cup {NoState}]

ASSUME ConstantsAssumption ==
    /\ MaxDepth \in Nat \ {0}
    /\ First \in States
    /\ Zombie \notin States /\ NoState \notin States
    /\ NoCtx \notin Ctx
    /\ NoEvent \notin Events /\ Terminate \notin Events /\ Star \notin Events
    /\ Terminate # NoEvent /\ Expired # NoEvent /\ Malformed # NoEvent
    /\ Reentry \in {"never", "held", "any"}
    /\ Timeouts \subseteq BOOLEAN
    /\ IsFiniteSet(Slots) /\ Ids # {}

ASSUME DialogAssumption ==
    /\ Raised \subseteq (Events \cup {Terminate})
    /\ \A s \in States :
        /\ Before[s] \in Seq(Step) /\ After[s] \in Seq(Step)
        /\ DOMAIN Dialog[s] \subseteq Events \cup {Star}
        /\ \A e \in DOMAIN Dialog[s] : Dialog[s][e] \in Branches

VARIABLES
    mem,        \* mem[c]: context c is allocated
    key,        \* self->hashkey
    fsm,        \* self->state
    next,       \* self->next_event
    exc,        \* self->exception
    wakeup,     \* self->wakeup and wakeup_event: NoEvent when wakeup is 0
    alarms,     \* number of pending zloop timers whose argument is c
    ticket,     \* self->ticket is not NULL
    tickets,    \* number of live zloop tickets whose argument is c
    ref,        \* self->refcount
    slot,       \* the application's references
    clients,    \* server->clients
    zombies,    \* server->zombies
    timeout,    \* server->timeout is not zero
    depth,      \* number of frames on the call stack
    frame,      \* the call stack, frame[1] outermost
    status      \* the actor: running, stopped, or aborted

machine == <<fsm, next, exc>>
memory  == <<mem, key, ref, slot, clients, zombies>>
timers  == <<wakeup, alarms, ticket, tickets>>
stack   == <<depth, frame>>
vars    == <<machine, memory, timers, stack, timeout, status>>

-------------------------------------------------------------------------------
\* The call stack

\* A frame is a call of s_client_execute (top: at the loop condition, body:
\* in a branch of the switch, app: inside an application action), of
\* client_initialize (init), of an application callback of the reactor (app
\* without context), or of engine_broadcast_event (bcast).
Frame == [c : Ctx \cup {NoCtx}, pc : {"top", "body", "app", "init", "bcast"},
          st : States, ev : AllEvents, at : Nat, keys : SUBSET Ids]

Blank == [c |-> NoCtx, pc |-> "app", st |-> First, ev |-> NoEvent,
          at |-> 1, keys |-> {}]

Top == frame[depth]
Running == status = "running"
Idle == Running /\ depth = 0
At(pc) == Running /\ depth > 0 /\ Top.pc = pc
Active(i) == frame[i].pc # "bcast" /\ frame[i].c # NoCtx
OnStack == {frame[i].c : i \in {j \in 1..depth : Active(j)}}
InApp == At("app") \/ At("init")

Pop == depth' = depth - 1 /\ frame' = [frame EXCEPT ![depth] = Blank]
Push(f) == depth' = depth + 1 /\ frame' = [frame EXCEPT ![depth + 1] = f]

-------------------------------------------------------------------------------
\* The branch of the generated switch for state s and event e: its actions and,
\* when it names a next state, the change of state around the after and before
\* actions.

Handled(s, e) == e \in DOMAIN Dialog[s] \/ Star \in DOMAIN Dialog[s]
Branch(s, e) == Dialog[s][IF e \in DOMAIN Dialog[s] THEN e ELSE Star]
Goto(s) == <<[op |-> "goto", to |-> s]>>

Program(s, e) ==
    LET b == Branch(s, e)
    IN IF b.next = NoState
       THEN b.acts
       ELSE ((b.acts \o After[s]) \o Goto(b.next)) \o Before[b.next]

\* The event a received message becomes; NoEvent when it is discarded.
EventOf(m) ==
    IF m = Malformed
    THEN IF Malformed \in Events THEN Malformed ELSE NoEvent
    ELSE IF m \in Events THEN m ELSE Terminate

-------------------------------------------------------------------------------
\* s_client_execute

\* The prologue: the event becomes the next event, a pending wakeup is dropped.
BugCancelAlways(c) == [alarms EXCEPT ![c] = @ - 1]
BugCancelNever(c) == alarms
Cancelled(c) == [alarms EXCEPT ![c] = IF wakeup[c] = NoEvent THEN @ ELSE @ - 1]
Begin(c, e) == /\ next' = [next EXCEPT ![c] = e]
               /\ wakeup' = [wakeup EXCEPT ![c] = NoEvent]
ExecFrame(c) == [Blank EXCEPT !.c = c, !.pc = "top"]
Execute(c, e) == /\ depth < MaxDepth
                 /\ Begin(c, e)
                 /\ alarms' = Cancelled(c)
                 /\ Push(ExecFrame(c))
                 /\ UNCHANGED <<fsm, exc, ticket, tickets>>

\* The loop condition and the switch: return, run the branch, return with an
\* error for a zombie, or assert (false).
TopOfLoop ==
    /\ At("top")
    /\ mem[Top.c]
    /\ LET c == Top.c
       IN \/ /\ next[c] = NoEvent
             /\ Pop
             /\ UNCHANGED <<next, exc, status>>
          \/ /\ next[c] # NoEvent
             /\ fsm[c] = Zombie
             /\ next' = [next EXCEPT ![c] = NoEvent]
             /\ exc' = [exc EXCEPT ![c] = NoEvent]
             /\ Pop
             /\ UNCHANGED status
          \/ /\ next[c] # NoEvent
             /\ fsm[c] # Zombie
             /\ Handled(fsm[c], next[c])
             /\ frame' = [frame EXCEPT ![depth] =
                    [@ EXCEPT !.pc = "body", !.st = fsm[c],
                              !.ev = next[c], !.at = 1]]
             /\ next' = [next EXCEPT ![c] = NoEvent]
             /\ exc' = [exc EXCEPT ![c] = NoEvent]
             /\ UNCHANGED <<depth, status>>
          \/ /\ next[c] # NoEvent
             /\ fsm[c] # Zombie
             /\ ~ Handled(fsm[c], next[c])
             /\ status' = "assert"
             /\ UNCHANGED <<next, exc, stack>>
    /\ UNCHANGED <<fsm, memory, timers, timeout>>

\* One step of the branch, skipped once an exception is set.
BodyStep ==
    /\ At("body")
    /\ mem[Top.c]
    /\ LET c    == Top.c
           prog == Program(Top.st, Top.ev)
           s    == prog[Top.at]
       IN /\ Top.at \in 1..Len(prog)
          /\ frame' = [frame EXCEPT ![depth] =
                [@ EXCEPT !.at = Top.at + 1,
                          !.pc = IF s.op = "app" /\ exc[c] = NoEvent
                                 THEN "app" ELSE "body"]]
          /\ next' = IF s.op = "terminate" /\ exc[c] = NoEvent
                     THEN [next EXCEPT ![c] = Terminate] ELSE next
          /\ fsm' = IF s.op = "goto" /\ exc[c] = NoEvent
                    THEN [fsm EXCEPT ![c] = s.to] ELSE fsm
    /\ UNCHANGED <<exc, depth, memory, timers, timeout, status>>

\* s_client_destroy, which the hash table calls when the entry is deleted: stop
\* the timers, then free the context or, if it is referenced, keep it as zombie
\* (zhash_insert does nothing when another zombie has the key).
BugFree(c) == [mem EXCEPT ![c] = FALSE]
Freed(c) == IF ref[c] = 0 THEN [mem EXCEPT ![c] = FALSE] ELSE mem

BugRetire(c) == fsm
Retired(c) == IF ref[c] = 0 THEN fsm ELSE [fsm EXCEPT ![c] = Zombie]

BugEnlist(c) == zombies
Enlisted(c) == IF ref[c] > 0 /\ zombies[key[c]] = NoCtx
               THEN [zombies EXCEPT ![key[c]] = c] ELSE zombies

Destroy(c) ==
    /\ alarms' = Cancelled(c)
    /\ tickets' = [tickets EXCEPT ![c] = IF ticket[c] THEN @ - 1 ELSE @]
    /\ mem' = Freed(c)
    /\ fsm' = Retired(c)
    /\ zombies' = Enlisted(c)

\* What the loop does next: an exception replaces the next event.
BugFollowing(c) == exc[c]
Following(c) == IF exc[c] = NoEvent THEN next[c] ELSE exc[c]

\* The bottom of the loop: terminate deletes the entry the table has for the key
\* of this context and leaves the loop.
EndOfPass ==
    /\ At("body")
    /\ mem[Top.c]
    /\ Top.at = Len(Program(Top.st, Top.ev)) + 1
    /\ LET c == Top.c
           n == Following(c)
           d == clients[key[c]]
       IN /\ next' = [next EXCEPT ![c] = n]
          /\ \/ /\ n # Terminate
                /\ frame' = [frame EXCEPT ![depth] = [@ EXCEPT !.pc = "top"]]
                /\ UNCHANGED <<depth, fsm, mem, clients, zombies, alarms, tickets>>
             \/ /\ n = Terminate
                /\ d = NoCtx
                /\ Pop
                /\ UNCHANGED <<fsm, mem, clients, zombies, alarms, tickets>>
             \/ /\ n = Terminate
                /\ d # NoCtx
                /\ clients' = [clients EXCEPT ![key[c]] = NoCtx]
                /\ Destroy(d)
                /\ Pop
    /\ UNCHANGED <<exc, key, ref, slot, wakeup, ticket, timeout, status>>

-------------------------------------------------------------------------------
\* What application code may call, from an action, from client_initialize or
\* from a callback of the reactor.

\* The contexts application code can name: its own, those it holds, and the
\* clients in the table, which it learns of in their own actions.
Known == {slot[s] : s \in Slots} \cup {clients[k] : k \in Ids} \cup {Top.c}
Targets == Known \ {NoCtx}
BugIsValid(c) == TRUE
IsValid(c) == fsm[c] # Zombie           \* engine_client_is_valid

MayEnter(c) == \/ c \notin OnStack
               \/ Reentry = "any"
               \/ Reentry = "held" /\ ref[c] > 0

SetNextEvent ==
    /\ "next" \in Calls /\ InApp
    /\ \E c \in Targets, e \in Raised :
        IsValid(c) /\ next' = [next EXCEPT ![c] = e]
    /\ UNCHANGED <<fsm, exc, memory, timers, stack, timeout, status>>

SetException ==
    /\ "exception" \in Calls /\ InApp
    /\ \E c \in Targets, e \in Raised :
        IsValid(c) /\ exc' = [exc EXCEPT ![c] = e]
    /\ UNCHANGED <<fsm, next, memory, timers, stack, timeout, status>>

\* A pending alarm is ended before the new one is started.
SetWakeupEvent ==
    /\ "wakeup" \in Calls /\ InApp
    /\ \E c \in Targets, e \in Raised :
        /\ IsValid(c)
        /\ wakeup' = [wakeup EXCEPT ![c] = e]
        /\ alarms' = [Cancelled(c) EXCEPT ![c] = @ + 1]
    /\ UNCHANGED <<ticket, tickets, machine, memory, stack, timeout, status>>

SendEvent ==
    /\ "send" \in Calls /\ InApp
    /\ \E c \in Targets, e \in Raised :
        IsValid(c) /\ MayEnter(c) /\ Execute(c, e)
    /\ UNCHANGED <<memory, timeout, status>>

\* The keys are copied before the first target runs.
BroadcastEvent ==
    /\ "broadcast" \in Calls /\ InApp /\ depth + 2 <= MaxDepth
    /\ \E x \in {Top.c, NoCtx}, e \in Raised :
        /\ \A k \in Ids : clients[k] \notin {x, NoCtx} => MayEnter(clients[k])
        /\ Push([Blank EXCEPT !.c = x, !.pc = "bcast", !.ev = e,
                              !.keys = {k \in Ids : clients[k] # NoCtx}])
    /\ UNCHANGED <<machine, memory, timers, timeout, status>>

\* One turn of the loop over the copied keys: zhash_lookup, compare, execute.  A
\* key that is gone gives NULL, which is the excluded client when that is NULL.
Skipped(target) == target = Top.c

BroadcastStep ==
    /\ At("bcast")
    /\ \E k \in Top.keys :
        LET target == clients[k]
            rest == [Top EXCEPT !.keys = Top.keys \ {k}]
        IN \/ /\ Skipped(target)
              /\ frame' = [frame EXCEPT ![depth] = rest]
              /\ UNCHANGED <<machine, timers, depth, status>>
           \/ /\ ~ Skipped(target) /\ target # NoCtx
              /\ Begin(target, Top.ev)
              /\ alarms' = Cancelled(target)
              /\ depth' = depth + 1
              /\ frame' = [frame EXCEPT ![depth] = rest,
                                        ![depth + 1] = ExecFrame(target)]
              /\ UNCHANGED <<fsm, exc, ticket, tickets, status>>
           \/ /\ ~ Skipped(target) /\ target = NoCtx
              /\ status' = "null"
              /\ UNCHANGED <<machine, timers, stack>>
    /\ UNCHANGED <<memory, timeout>>

BroadcastEnds ==
    /\ At("bcast") /\ Top.keys = {}
    /\ Pop
    /\ UNCHANGED <<machine, memory, timers, timeout, status>>

\* engine_client_get: the application counts a reference, to any client it knows.
ClientGet ==
    /\ "get" \in Calls /\ InApp
    /\ \E s \in Slots, c \in Targets :
        /\ slot[s] = NoCtx
        /\ slot' = [slot EXCEPT ![s] = c]
        /\ ref' = [ref EXCEPT ![c] = @ + 1]
    /\ UNCHANGED <<mem, key, clients, zombies, machine, timers, stack, timeout, status>>

\* engine_client_put: the last reference to a zombie finalises it.
ClientPut ==
    /\ "put" \in Calls /\ InApp
    /\ \E s \in Slots :
        LET c == slot[s]
            last == ref[c] = 1 /\ fsm[c] = Zombie
        IN /\ c # NoCtx
           /\ Reentry = "held" => c \notin OnStack \/ ref[c] > 1
           /\ slot' = [slot EXCEPT ![s] = NoCtx]
           /\ ref' = [ref EXCEPT ![c] = @ - 1]
           /\ zombies' = IF last THEN [zombies EXCEPT ![key[c]] = NoCtx] ELSE zombies
           /\ mem' = IF last THEN [mem EXCEPT ![c] = FALSE] ELSE mem
    /\ UNCHANGED <<key, clients, machine, timers, stack, timeout, status>>

\* engine_configure from an action, SET, LOAD or a reloaded file between events:
\* s_server_config_global stores the timeout, existing tickets keep running.
Configure ==
    /\ Idle \/ ("configure" \in Calls /\ InApp)
    /\ timeout' \in Timeouts
    /\ UNCHANGED <<machine, memory, timers, stack, status>>

\* The action, the callback returns to the engine.
ActionReturns ==
    /\ At("app") /\ Top.c # NoCtx
    /\ frame' = [frame EXCEPT ![depth] = [@ EXCEPT !.pc = "body"]]
    /\ UNCHANGED <<depth, machine, memory, timers, timeout, status>>

CallbackReturns ==
    /\ At("app") /\ Top.c = NoCtx
    /\ Pop
    /\ UNCHANGED <<machine, memory, timers, timeout, status>>

-------------------------------------------------------------------------------
\* The reactor's handlers

\* s_server_handle_protocol for a peer that has a context (resetting its ticket
\* moves the deadline, which is not modelled).
Receive(k, m) ==
    /\ Idle /\ clients[k] # NoCtx /\ EventOf(m) # NoEvent
    /\ Execute(clients[k], EventOf(m))
    /\ UNCHANGED <<memory, timeout, status>>

\* The same handler for an unknown peer: s_client_new, up to client_initialize.
Accept(k, m) ==
    /\ Idle /\ clients[k] = NoCtx
    /\ \E c \in Ctx :
        /\ ~ mem[c]
        /\ mem' = [mem EXCEPT ![c] = TRUE]
        /\ key' = [key EXCEPT ![c] = k]
        /\ fsm' = [fsm EXCEPT ![c] = First]
        /\ next' = [next EXCEPT ![c] = NoEvent]
        /\ exc' = [exc EXCEPT ![c] = NoEvent]
        /\ wakeup' = [wakeup EXCEPT ![c] = NoEvent]
        /\ ref' = [ref EXCEPT ![c] = 0]
        /\ ticket' = [ticket EXCEPT ![c] = timeout /\ Expired \in Events]
        /\ tickets' = IF timeout /\ Expired \in Events
                      THEN [tickets EXCEPT ![c] = @ + 1] ELSE tickets
        /\ Push([Blank EXCEPT !.c = c, !.pc = "init", !.ev = EventOf(m)])
    /\ UNCHANGED <<alarms, slot, clients, zombies, timeout, status>>

\* client_initialize returns: the context enters the table, then the message is
\* passed to its machine or, if malformed and not handled, discarded.
InitializeReturns ==
    /\ At("init")
    /\ LET c == Top.c
       IN /\ clients' = [clients EXCEPT ![key[c]] = c]
          /\ \/ /\ Top.ev = NoEvent
                /\ Pop
                /\ UNCHANGED timers
                /\ UNCHANGED next
             \/ /\ Top.ev # NoEvent
                /\ Begin(c, Top.ev)
                /\ alarms' = Cancelled(c)
                /\ frame' = [frame EXCEPT ![depth] = ExecFrame(c)]
                /\ UNCHANGED <<depth, ticket, tickets>>
    /\ UNCHANGED <<fsm, exc, mem, key, ref, slot, zombies, timeout, status>>

\* s_client_handle_wakeup: the one-shot timer is gone, its event is executed.
HandleWakeup(c) ==
    /\ Idle /\ alarms[c] > 0
    /\ Begin(c, wakeup[c])
    /\ alarms' = [alarms EXCEPT ![c] = @ - 1]
    /\ Push(ExecFrame(c))
    /\ UNCHANGED <<fsm, exc, ticket, tickets, memory, timeout, status>>

\* s_client_handle_ticket: the ticket is dead and is not renewed.
HandleTicket(c) ==
    /\ Idle /\ tickets[c] > 0
    /\ ticket' = [ticket EXCEPT ![c] = FALSE]
    /\ tickets' = [tickets EXCEPT ![c] = @ - 1]
    /\ Begin(c, Expired)
    /\ alarms' = Cancelled(c)
    /\ Push(ExecFrame(c))
    /\ UNCHANGED <<fsm, exc, memory, timeout, status>>

\* A monitor, a socket handler or server_method: application code that runs
\* outside any client.
Callback ==
    /\ Idle /\ Calls # {}
    /\ Push(Blank)
    /\ UNCHANGED <<machine, memory, timers, timeout, status>>

\* $TERM ends the reactor; s_server_destroy empties the table of clients, which
\* makes zombies of the referenced ones, then finalises the zombies it lists.
Listed(z) == {z[k] : k \in Ids}
BugAllZombies == zombies
AllZombies == [k \in Ids |-> IF /\ zombies[k] = NoCtx
                               /\ clients[k] # NoCtx
                               /\ ref[clients[k]] > 0
                            THEN clients[k] ELSE zombies[k]]
Stop ==
    /\ Idle
    /\ status' = "stopped"
    /\ zombies' = AllZombies
    /\ mem' = [c \in Ctx |-> /\ mem[c]
                             /\ c \in Listed(clients) => ref[c] > 0
                             /\ c \notin Listed(AllZombies)]
    /\ fsm' = [c \in Ctx |-> IF c \in Listed(clients) /\ ref[c] > 0
                             THEN Zombie ELSE fsm[c]]
    /\ clients' = [k \in Ids |-> NoCtx]
    /\ UNCHANGED <<key, ref, slot, next, exc, timers, stack, timeout>>

\* The process has ended.
Done == ~ Running /\ UNCHANGED vars

-------------------------------------------------------------------------------
Init ==
    /\ mem = [c \in Ctx |-> FALSE]
    /\ key = [c \in Ctx |-> CHOOSE k \in Ids : TRUE]
    /\ fsm = [c \in Ctx |-> First]
    /\ next = [c \in Ctx |-> NoEvent]
    /\ exc = [c \in Ctx |-> NoEvent]
    /\ wakeup = [c \in Ctx |-> NoEvent]
    /\ alarms = [c \in Ctx |-> 0]
    /\ ticket = [c \in Ctx |-> FALSE]
    /\ tickets = [c \in Ctx |-> 0]
    /\ ref = [c \in Ctx |-> 0]
    /\ slot = [s \in Slots |-> NoCtx]
    /\ clients = [k \in Ids |-> NoCtx]
    /\ zombies = [k \in Ids |-> NoCtx]
    /\ timeout \in Timeouts
    /\ depth = 0
    /\ frame = [i \in 1..MaxDepth |-> Blank]
    /\ status = "running"

AppCall == \/ SetNextEvent \/ SetException \/ SetWakeupEvent \/ SendEvent
           \/ BroadcastEvent \/ ClientGet \/ ClientPut

Return == ActionReturns \/ CallbackReturns \/ InitializeReturns

\* What the engine does by itself once a handler has started.
Engine == TopOfLoop \/ BodyStep \/ EndOfPass \/ BroadcastStep \/ BroadcastEnds
            \/ Return

Traffic == \E k \in Ids, m \in Messages : Receive(k, m) \/ Accept(k, m)

Next == \/ Engine \/ AppCall \/ Configure \/ Traffic \/ Callback \/ Stop \/ Done
        \/ \E c \in Ctx : HandleWakeup(c) \/ HandleTicket(c)

Spec == Init /\ [][Next]_vars

\* The thread never stops in the middle of a call, and every zloop cycle runs
\* each timer that is due before it polls: with the sockets quiet a live ticket
\* is not passed over for ever, although the engine is busy in between.
FairSpec == /\ Spec
            /\ WF_vars(Engine)
            /\ \A c \in Ctx : SF_vars(HandleTicket(c))

-------------------------------------------------------------------------------
\* Properties

TypeOK ==
    /\ mem \in [Ctx -> BOOLEAN]
    /\ key \in [Ctx -> Ids]
    /\ fsm \in [Ctx -> States \cup {Zombie}]
    /\ next \in [Ctx -> AllEvents]
    /\ exc \in [Ctx -> AllEvents]
    /\ wakeup \in [Ctx -> AllEvents]
    /\ alarms \in [Ctx -> Nat]
    /\ ticket \in [Ctx -> BOOLEAN]
    /\ tickets \in [Ctx -> Nat]
    /\ ref \in [Ctx -> Nat]
    /\ slot \in [Slots -> Ctx \cup {NoCtx}]
    /\ clients \in [Ids -> Ctx \cup {NoCtx}]
    /\ zombies \in [Ids -> Ctx \cup {NoCtx}]
    /\ timeout \in BOOLEAN
    /\ depth \in 0..MaxDepth
    /\ frame \in [1..MaxDepth -> Frame]
    /\ status \in {"running", "stopped", "assert", "null"}

Live(c) == mem[c] /\ fsm[c] # Zombie
Initialising(c) == \E i \in 1..depth : frame[i].c = c /\ frame[i].pc = "init"

\* A context on the call stack is neither freed nor a zombie, appears once, and
\* is the one the table holds for its peer, however executions nest:
\* s_client_execute touches self again after every action.
StackIsLive ==
    \A i \in 1..depth : Active(i) =>
        /\ Live(frame[i].c)
        /\ frame[i].pc # "init" => clients[key[frame[i].c]] = frame[i].c
        /\ \A j \in 1..depth : Active(j) /\ frame[j].c = frame[i].c => i = j

\* The table of clients and the live contexts correspond one to one: no entry
\* refers to freed memory or to a zombie, and no usable context is lost.
RegistryConsistent ==
    /\ \A k \in Ids : clients[k] # NoCtx =>
            Live(clients[k]) /\ key[clients[k]] = k
    /\ \A c \in Ctx : Running /\ Live(c) =>
            clients[key[c]] = c \/ Initialising(c)

Holders(c) == {s \in Slots : slot[s] = c}

\* What the application holds exists, the reference count says how often it is
\* held, and a zombie only lives on because it is held.
ReferencesCounted ==
    Running =>
        /\ \A s \in Slots : slot[s] # NoCtx => mem[slot[s]]
        /\ \A c \in Ctx : mem[c] =>
            /\ ref[c] = Cardinality(Holders(c))
            /\ fsm[c] = Zombie => ref[c] > 0

\* The reactor has a timer for a context exactly when the context remembers it,
\* so that no callback comes for a freed or zombie context, or comes twice.
TimersMatch ==
    Running => \A c \in Ctx :
        /\ alarms[c] = IF Live(c) /\ wakeup[c] # NoEvent THEN 1 ELSE 0
        /\ tickets[c] = IF Live(c) /\ ticket[c] THEN 1 ELSE 0

\* Every zombie is in the table of zombies, where shutdown and the release of
\* its last reference look for it.
ZombiesListed ==
    \A c \in Ctx : Running /\ mem[c] /\ fsm[c] = Zombie => zombies[key[c]] = c

\* The engine keeps the promises of ClientRegistry about its contexts.
Registry == INSTANCE ClientRegistry WITH
    phase <- [c \in Ctx |-> IF ~ mem[c] THEN "absent"
                            ELSE IF fsm[c] = Zombie THEN "limbo" ELSE "open"],
    peer <- key,
    refs <- ref
ImplementsRegistry == Registry!Spec

\* A context that the state change of an outer frame has revived: usable, but no
\* longer in the table, and never again.
NoneLost == \A c \in Ctx : Live(c) => clients[key[c]] = c \/ Initialising(c)

\* A reference taken with engine_client_get delays the destruction of a client:
\* with it, even a machine that is re-entered and terminated by its own action
\* finds its context allocated when the action returns, unless a context was
\* lost before.
StackIsAllocated ==
    NoneLost => \A i \in 1..depth : Active(i) => mem[frame[i].c]

\* Once peers are silent, every client that has a ticket is closed, provided the
\* dialog's expired events terminate: no other event, alarm or reference to the
\* client makes the engine lose the ticket.
IdleClientsExpire ==
    <>[][~ Traffic]_vars => \A c \in Ctx : ticket[c] ~> ~ Live(c)

-------------------------------------------------------------------------------
\* What the comments and the README say and the code does not do.

\* "Forcibly destroy any zombie clients as we are shutting down": nothing stays
\* allocated after s_server_destroy.
ShutdownFreesAll == status = "stopped" => \A c \in Ctx : ~ mem[c]

\* "Execute 'event' on all clients known to the server": a broadcast executes the
\* event on clients, not on the NULL that a client terminated meanwhile leaves.
BroadcastReachesClients == status # "null"
===============================================================================
