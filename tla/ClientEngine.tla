------------------------------ MODULE ClientEngine ------------------------------
(***************************************************************************)
(* The C client engine that zproto_client_c.gsl generates: one actor       *)
(* thread with a reactor, one state machine, and three kinds of one-shot   *)
(* timers that the engine starts, ends and starts again, often from inside *)
(* the handler that such a timer runs.                                     *)
(*                                                                         *)
(* Each step is what the code does between two points where application    *)
(* code may run; that code sets events, exceptions and timers in between.  *)
(***************************************************************************)
EXTENDS Integers, Sequences

CONSTANTS
    States,     \* the states of the dialog
    First,      \* the first state of the dialog
    Events,     \* the events the dialog names
    Dialog,     \* Dialog[s] : event or Star -> [acts, next], superstates resolved
    Before,     \* Before[s] : the <before> actions of state s
    After,      \* After[s]  : the <after> actions of state s
    Methods,    \* the events that commands of the calling API raise
    Messages,   \* what the server can send: protocol messages, or Malformed
    Raised,     \* events that application code passes to the engine
    Calls,      \* the engine functions that application code calls
    Rearm       \* may an action set the very timer that runs it to non-zero?

CONSTANTS NoEvent, NoState, Malformed, Star

\* The kinds of timers.  Those of Cycles start again by themselves and run the
\* event of that name; wakeup runs the event it was set for.
Cycles == {"expired", "heartbeat"}
Kinds == Cycles \cup {"wakeup"}
HasTimer(k) == k \in Events

Step == [op : {"send", "terminate", "app"}, to : {NoState}]
          \cup [op : {"goto"}, to : States]
Branches == [acts : Seq(Step), next : States \cup {NoState}]
AllEvents == Events \cup {NoEvent}

ASSUME ClientConstants ==
    /\ First \in States /\ NoState \notin States
    /\ NoEvent \notin Events /\ Star \notin Events
    /\ Rearm \in BOOLEAN
    /\ Methods \subseteq Events /\ Raised \subseteq Events

ASSUME ClientDialog ==
    \A s \in States :
        /\ Before[s] \in Seq(Step) /\ After[s] \in Seq(Step)
        /\ DOMAIN Dialog[s] \subseteq Events \cup {Star}
        /\ \A e \in DOMAIN Dialog[s] : Dialog[s][e] \in Branches

VARIABLES
    fsm,        \* self->state
    next,       \* self->next_event
    exc,        \* self->exception
    stopped,    \* self->fsm_stopped
    terminated, \* self->terminated
    interval,   \* interval[k]: self->expiry, self->heartbeat is not zero
    timer,      \* timer[k].live: number of zloop timers of the kind; timer[k].known:
                \*   the id the engine keeps is zero, of a live timer, or of a dead one
    alarm,      \* self->wakeup_event
    by,         \* the handler that is running
    pc,         \* where it is: in no handler, at the loop condition, in a branch
                \*   of the switch, in application code
    branch,     \* the branch: state, event, position
    status      \* the actor: running, ended, or aborted

machine == <<fsm, next, exc, stopped>>
timers  == <<interval, timer, alarm>>
control == <<by, pc, branch>>
vars    == <<machine, terminated, timers, control, status>>

Running == status = "running"
At(p) == Running /\ pc = p
Idle == At("idle")

-------------------------------------------------------------------------------
\* What the reactor has and what the engine keeps of one kind of timer

\* zloop_timer_end on the id that is kept, if any.
BugEnded(t) == [t EXCEPT !.known = "none"]
BugKept(t) == [t EXCEPT !.live = IF t.known = "live" THEN @ - 1 ELSE @]
Ended(t) == [known |-> "none",
             live |-> IF t.known = "live" THEN t.live - 1 ELSE t.live]

\* zloop_timer, whose id replaces the one that is kept.
Started(t) == [known |-> "live", live |-> t.live + 1]
Restarted(t, on) == IF on THEN Started(Ended(t)) ELSE Ended(t)

\* After the handler of a cycle: one more if the interval is not zero.
BugRenewed(t, on) == t
Renewed(t, on) == IF on THEN Started(t) ELSE t

\* A one-shot timer fires: the one whose id is kept, or another one.
Fired(t) == {x \in {[known |-> "dead", live |-> t.live - 1]} : t.known = "live"}
              \cup {x \in {[t EXCEPT !.live = @ - 1]} :
                        t.live > IF t.known = "live" THEN 1 ELSE 0}

-------------------------------------------------------------------------------
\* The branch of the generated switch for state s and event e: its actions and,
\* when it names a next state, the change of state around the after and before
\* actions.

Handled(s, e) == e \in DOMAIN Dialog[s] \/ Star \in DOMAIN Dialog[s]
Branch(s, e) == Dialog[s][IF e \in DOMAIN Dialog[s] THEN e ELSE Star]
Goto(s) == <<[op |-> "goto", to |-> s]>>

Program(s, e) ==
    LET b == Branch(s, e)
    IN IF b.next = NoState
       THEN b.acts
       ELSE ((b.acts \o After[s]) \o Goto(b.next)) \o Before[b.next]

-------------------------------------------------------------------------------
\* s_client_execute

\* The prologue, called by a handler that has turned the timers into t: the event
\* becomes the next event, a pending wakeup is ended.
Execute(handler, e, t) ==
    /\ next' = e
    /\ timer' = [t EXCEPT !["wakeup"] = Ended(t["wakeup"])]
    /\ by' = handler
    /\ pc' = "top"

Finished == terminated \/ stopped \/ next = NoEvent

\* The loop goes on: run the branch of the event, or assert (false).
TopOfLoop ==
    /\ At("top") /\ ~ Finished
    /\ \/ /\ Handled(fsm, next)
          /\ branch' = [st |-> fsm, ev |-> next, at |-> 1]
          /\ pc' = "body"
          /\ next' = NoEvent
          /\ exc' = NoEvent
          /\ UNCHANGED status
       \/ /\ ~ Handled(fsm, next)
          /\ status' = "assert"
          /\ UNCHANGED <<branch, pc, next, exc>>
    /\ UNCHANGED <<fsm, stopped, terminated, timers, by>>

\* One step of the branch, skipped once an exception is set.
BodyStep ==
    /\ At("body")
    /\ LET prog == Program(branch.st, branch.ev)
           s    == prog[branch.at]
           runs(op) == s.op = op /\ exc = NoEvent
       IN /\ branch.at \in 1..Len(prog)
          /\ branch' = [branch EXCEPT !.at = @ + 1]
          /\ pc' = IF runs("app") THEN "app" ELSE "body"
          /\ stopped' = (stopped \/ runs("terminate"))
          /\ fsm' = IF runs("goto") THEN s.to ELSE fsm
    /\ UNCHANGED <<next, exc, terminated, timers, by, status>>

\* The bottom of the loop: an exception replaces the next event.
EndOfPass ==
    /\ At("body")
    /\ branch.at = Len(Program(branch.st, branch.ev)) + 1
    /\ next' = IF exc = NoEvent THEN next ELSE exc
    /\ pc' = "top"
    /\ UNCHANGED <<fsm, exc, stopped, terminated, timers, by, branch, status>>

\* The loop ends and the handler returns to the reactor; a cycle starts again.
HandlerReturns ==
    /\ At("top") /\ Finished
    /\ \/ /\ terminated /\ by # "wakeup"
          /\ status' = "ended"
          /\ UNCHANGED <<timer, by, pc>>
       \/ /\ ~ terminated \/ by = "wakeup"
          /\ timer' = IF by \in Cycles
                      THEN [timer EXCEPT ![by] = Renewed(@, interval[by])] ELSE timer
          /\ by' = "none"
          /\ pc' = "idle"
          /\ UNCHANGED status
    /\ UNCHANGED <<machine, terminated, interval, alarm, branch>>

-------------------------------------------------------------------------------
\* What application code may call

InApp(call) == At("app") /\ call \in Calls

SetNextEvent ==
    /\ InApp("next")
    /\ next' \in Raised
    /\ UNCHANGED <<fsm, exc, stopped, terminated, timers, control, status>>

SetException ==
    /\ InApp("exception")
    /\ exc' \in Raised
    /\ UNCHANGED <<fsm, next, stopped, terminated, timers, control, status>>

SetWakeupEvent ==
    /\ InApp("wakeup")
    /\ alarm' \in Raised
    /\ timer' = [timer EXCEPT !["wakeup"] = Restarted(@, TRUE)]
    /\ UNCHANGED <<interval, machine, terminated, control, status>>

\* engine_set_heartbeat, engine_set_expiry
SetInterval(k) ==
    /\ InApp(k)
    /\ \E on \in BOOLEAN :
        /\ on /\ by = k => Rearm
        /\ interval' = [interval EXCEPT ![k] = on]
        /\ timer' = IF HasTimer(k)
                    THEN [timer EXCEPT ![k] = Restarted(@, on)] ELSE timer
    /\ UNCHANGED <<alarm, machine, terminated, control, status>>

ActionReturns ==
    /\ At("app") /\ by \notin {"initialize", "callback"}
    /\ pc' = "body"
    /\ UNCHANGED <<machine, terminated, timers, by, branch, status>>

\* client_initialize fails, or it or a socket handler returns to the reactor.
CallbackReturns ==
    /\ At("app") /\ by \in {"initialize", "callback"}
    /\ \/ /\ by = "initialize"
          /\ status' = "ended"
          /\ UNCHANGED <<by, pc>>
       \/ /\ by' = "none"
          /\ pc' = "idle"
          /\ UNCHANGED status
    /\ UNCHANGED <<machine, terminated, timers, branch>>

-------------------------------------------------------------------------------
\* The reactor's handlers

\* s_client_handle_cmdpipe: a method, or $TERM, which ends the reactor.
Command ==
    /\ Idle
    /\ \E m \in Methods : Execute("command", m, timer)
    /\ UNCHANGED <<fsm, exc, stopped, terminated, interval, alarm, branch, status>>

Term ==
    /\ Idle
    /\ terminated' = TRUE
    /\ status' = "ended"
    /\ UNCHANGED <<machine, timers, control>>

\* s_client_handle_protocol: every message restarts the expiry timer; one that
\* the dialog does not know halts the actor, through NULL_event.
Reset(t) == IF HasTimer("expired")
            THEN [t EXCEPT !["expired"] = Restarted(@, interval["expired"])] ELSE t

Receive ==
    /\ Idle
    /\ \E m \in Messages \ {Malformed} :
        /\ terminated' = (m \notin Events)
        /\ Execute("message", IF m \in Events THEN m ELSE NoEvent, Reset(timer))
    /\ UNCHANGED <<fsm, exc, stopped, interval, alarm, branch, status>>

\* The codec's error code ends the reactor.
ReceiveMalformed ==
    /\ Idle /\ Malformed \in Messages
    /\ status' = "ended"
    /\ UNCHANGED <<machine, terminated, timers, control>>

\* s_client_handle_heartbeat, s_client_handle_expiry
HandleCycle(k) ==
    /\ Idle
    /\ \E t \in Fired(timer[k]) : Execute(k, k, [timer EXCEPT ![k] = t])
    /\ UNCHANGED <<fsm, exc, stopped, terminated, interval, alarm, branch, status>>

HandleWakeup ==
    /\ Idle
    /\ \E t \in Fired(timer["wakeup"]) :
        Execute("wakeup", alarm, [timer EXCEPT !["wakeup"] = t])
    /\ UNCHANGED <<fsm, exc, stopped, terminated, interval, alarm, branch, status>>

\* A socket handler that the application added with engine_handle_socket.
Callback ==
    /\ Idle /\ Calls # {}
    /\ by' = "callback"
    /\ pc' = "app"
    /\ UNCHANGED <<machine, terminated, timers, branch, status>>

\* The actor's thread has ended.
Done == ~ Running /\ UNCHANGED vars

-------------------------------------------------------------------------------
\* s_client_new, up to client_initialize.
Init ==
    /\ fsm = First
    /\ next = NoEvent /\ exc = NoEvent
    /\ stopped = FALSE /\ terminated = FALSE
    /\ interval = [k \in Cycles |-> FALSE]
    /\ timer = [k \in Kinds |-> [known |-> "none", live |-> 0]]
    /\ alarm = NoEvent
    /\ by = "initialize" /\ pc = "app"
    /\ branch = [st |-> First, ev |-> NoEvent, at |-> 1]
    /\ status = "running"

AppCall == \/ SetNextEvent \/ SetException \/ SetWakeupEvent
           \/ \E k \in Cycles : SetInterval(k)

\* What the engine does by itself once a handler has started.
Engine == \/ TopOfLoop \/ BodyStep \/ EndOfPass \/ HandlerReturns
          \/ ActionReturns \/ CallbackReturns

Traffic == Receive \/ ReceiveMalformed

Next == \/ Engine \/ AppCall \/ Command \/ Term \/ Traffic \/ HandleWakeup
        \/ Callback \/ Done \/ \E k \in Cycles : HandleCycle(k)

Spec == Init /\ [][Next]_vars

\* The thread never stops in the middle of a call, and the reactor serves the
\* heartbeat's timer, which nothing restarts but the application: the server does
\* not for ever send faster than the loop in s_client_handle_protocol works.
FairSpec == /\ Spec /\ WF_vars(Engine) /\ SF_vars(HandleCycle("heartbeat"))

-------------------------------------------------------------------------------
\* Properties

TypeOK ==
    /\ fsm \in States
    /\ next \in AllEvents /\ exc \in AllEvents /\ alarm \in AllEvents
    /\ stopped \in BOOLEAN /\ terminated \in BOOLEAN
    /\ interval \in [Cycles -> BOOLEAN]
    /\ timer \in [Kinds -> [known : {"none", "live", "dead"}, live : Nat]]
    /\ by \in Kinds \cup {"none", "command", "message", "callback", "initialize"}
    /\ pc \in {"idle", "top", "body", "app"}
    /\ branch \in [st : States, ev : AllEvents, at : Nat]
    /\ status \in {"running", "ended", "assert"}

\* Between events the reactor has exactly one timer for each interval that is not
\* zero and none for the others, and never one whose id the engine has lost,
\* whatever was set, ended and started again inside handlers.
TimersMatch ==
    Idle =>
        /\ \A k \in Cycles :
             timer[k].live = IF interval[k] /\ HasTimer(k) THEN 1 ELSE 0
        /\ \A k \in Kinds : (timer[k].live = 1) <=> (timer[k].known = "live")
        /\ timer["wakeup"].live \in {0, 1}

\* Application code leaves the machine in peace at last: an action that sets an
\* event each time would keep s_client_execute in its loop.
Calm == <>[][~ (SetNextEvent \/ SetException)]_vars

\* The heartbeat happens every interval no matter what traffic the client is
\* sending or receiving.
HeartbeatGoesOn ==
    Calm /\ <>[](Running /\ interval["heartbeat"]) => []<>(by = "heartbeat")

\* With an expiry set and no traffic, which leaves the expiry timer to the reactor
\* as well, the machine is told so over and over.
ExpiryGoesOn ==
    /\ Calm /\ SF_vars(HandleCycle("expired"))
    /\ <>[][~ Traffic]_vars /\ <>[](Running /\ interval["expired"])
    => []<>(by = "expired")

-------------------------------------------------------------------------------
\* What the comments say and the code does not do.

\* "Setting a non-zero expiry causes the state machine to receive an "expired"
\* event if there is no incoming traffic for that many milliseconds": no expiry
\* timer from before a message is left when the message is handled.
TrafficResetsExpiry ==
    [][Receive => timer'["expired"].live <= 1]_vars
===============================================================================
