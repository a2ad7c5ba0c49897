------------------------------- MODULE ClientApi --------------------------------
(***************************************************************************)
(* The two threads of a C client that zproto_client_c.gsl generates: the   *)
(* caller's, which runs the class interface, and the actor's, which runs   *)
(* the engine.  They share two pipes.  On cmdpipe go commands and, back,   *)
(* replies, the status of $CONNECTED and signals, all in one queue; on     *)
(* msgpipe go messages both ways.  The state machine itself is in          *)
(* ClientEngine; here it is any code that answers each command once.       *)
(*                                                                         *)
(* Pipes, zactor and zsock_wait belong to CZMQ: a pipe holds at most Hwm   *)
(* messages each way and a writer waits for room, as one does whose peer   *)
(* has closed the pipe.                                                    *)
(***************************************************************************)
EXTENDS Integers, Sequences

CONSTANTS
    Methods,    \* the methods that send a command, "connected" not among them
    Immediate,  \* the methods that only wait for a reply
    Accepts,    \* Accepts[m]: the replies that method m accepts, none if it does
                \*   not wait
    Async,      \* the replies that the actor sends unasked
    Hwm,        \* the limit of a pipe
    MaxCalls,   \* bound on the calls of methods
    MaxPushes   \* bound on the messages, and on the unasked replies, of the actor

ASSUME ApiConstants ==
    /\ {"connected", "post", "destroy", "none", "$TERM"}
            \cap (Methods \cup Immediate) = {}
    /\ Methods \cap Immediate = {} /\ "destructor" \notin Immediate
    \* No reply is named like the number of a status or the bytes of a signal.
    /\ {"signal", "status"} \cap Async = {}
    /\ \A m \in Methods : {"signal", "status"} \cap Accepts[m] = {}
    /\ \A m \in Methods : Accepts[m] \cap Async = {}
    /\ \A m \in Immediate : Accepts[m] \subseteq Async
    /\ Hwm \in Nat \ {0} /\ MaxCalls \in Nat /\ MaxPushes \in Nat

VARIABLES
    pc,         \* where the caller's thread is
    call,       \* the method it is in
    no,         \* the number of that call
    commands,   \* cmdpipe, to the actor
    replies,    \* cmdpipe, to the caller
    outbox,     \* msgpipe, to the actor
    inbox,      \* msgpipe, to the caller: the number of messages
    actor,      \* what the actor's thread does
    owed,       \* the call whose answer the actor owes, or 0, and its method
    stopped,    \* self->fsm_stopped
    pushes      \* what the actor has sent unasked

caller == <<pc, call, no>>
pipes  == <<commands, replies, outbox, inbox>>
engine == <<actor, owed, stopped, pushes>>
vars   == <<caller, pipes, engine>>

Signal == [kind |-> "signal", no |-> 0]
Nothing == [no |-> 0, call |-> "none"]

\* Which ends of the pipes the actor still has, and whether there is room.
Running == actor \in {"idle", "serving", "pushing", "replying"}
Room(q) == Len(q) < Hwm
CanCommand == actor # "closed" /\ Room(commands)
CanPost == Running /\ Room(outbox)

At(p) == pc = p

-------------------------------------------------------------------------------
\* The caller's thread

\* zclient_new, that is zactor_new: wait for the signal that the actor has started.
New ==
    /\ At("starting") /\ replies # <<>>
    /\ replies' = Tail(replies)
    /\ pc' = "free"
    /\ UNCHANGED <<call, no, commands, outbox, inbox, engine>>

\* Call a method.
Begin(p, m) == pc' = p /\ call' = m /\ no' = no + 1

Call ==
    /\ At("free") /\ no < MaxCalls
    /\ \/ \E m \in (Methods \ {"destructor"}) \cup {"connected"} : Begin("sending", m)
       \/ \E m \in Immediate : Begin("waiting", m)
       \/ Begin("posting", "post")
    /\ UNCHANGED <<pipes, engine>>

\* After the destructor's method destroy goes on, after any other the caller does.
Return == pc' = IF call = "destructor" THEN "draining" ELSE "free"

SendCommand ==
    /\ At("sending") /\ CanCommand
    /\ commands' = Append(commands, [no |-> no, call |-> call])
    /\ \/ call = "connected" /\ pc' = "asking"
       \/ call # "connected" /\ Accepts[call] # {} /\ pc' = "waiting"
       \/ call # "connected" /\ Accepts[call] = {} /\ Return
    /\ UNCHANGED <<call, no, replies, outbox, inbox, engine>>

\* s_accept_reply: take replies until one of them is accepted.
BugAnyReply(m, r) == TRUE
BugFirstFilter(m, r) == r.kind = CHOOSE k \in Accepts[m] : TRUE
Accepted(m, r) == r.kind \in Accepts[m]

AcceptReply ==
    /\ At("waiting") /\ replies # <<>>
    /\ replies' = Tail(replies)
    /\ IF Accepted(call, Head(replies)) THEN Return ELSE pc' = pc
    /\ UNCHANGED <<call, no, commands, outbox, inbox, engine>>

\* zclient_connected: whatever comes first is taken for the status.
ReadStatus ==
    /\ At("asking") /\ replies # <<>>
    /\ replies' = Tail(replies)
    /\ Return
    /\ UNCHANGED <<call, no, commands, outbox, inbox, engine>>

\* A message for the server, and zclient_recv of one from the actor.
SendMessage ==
    /\ At("posting") /\ CanPost
    /\ outbox' = Append(outbox, "message")
    /\ pc' = "free"
    /\ UNCHANGED <<call, no, commands, replies, inbox, engine>>

Recv ==
    /\ At("free") /\ inbox > 0
    /\ inbox' = inbox - 1
    /\ UNCHANGED <<caller, commands, replies, outbox, engine>>

\* zclient_destroy: flush the messages, wait for the signal, call the destructor's
\* method if there is one, throw away what the actor sent, end the actor.
Destroy ==
    /\ At("free")
    /\ pc' = "flushing" /\ call' = "destroy"
    /\ UNCHANGED <<no, pipes, engine>>

SendFlush ==
    /\ At("flushing") /\ CanPost
    /\ outbox' = Append(outbox, "flush")
    /\ pc' = "awaiting"
    /\ UNCHANGED <<call, no, commands, replies, inbox, engine>>

\* zsock_wait goes on with the first signal and throws away all before it.
BugAwaited(r) == TRUE
Awaited(r) == r = Signal

AwaitFlushed ==
    /\ At("awaiting") /\ replies # <<>>
    /\ replies' = Tail(replies)
    /\ \/ /\ ~ Awaited(Head(replies))
          /\ UNCHANGED caller
       \/ /\ Awaited(Head(replies)) /\ "destructor" \notin Methods
          /\ pc' = "draining"
          /\ UNCHANGED <<call, no>>
       \/ /\ Awaited(Head(replies)) /\ "destructor" \in Methods
          /\ Begin("sending", "destructor")
    /\ UNCHANGED <<commands, outbox, inbox, engine>>

BugPending == TRUE
Pending == inbox > 0

Drain ==
    /\ At("draining")
    /\ \/ Pending /\ inbox' = inbox - 1 /\ pc' = pc
       \/ ~ Pending /\ inbox' = inbox /\ pc' = "ending"
    /\ UNCHANGED <<call, no, commands, replies, outbox, engine>>

\* zactor_destroy: send $TERM without waiting for room, and wait for the signal of
\* the thread's end if it went.
EndActor ==
    /\ At("ending")
    /\ \/ /\ CanCommand
          /\ commands' = Append(commands, [no |-> 0, call |-> "$TERM"])
          /\ pc' = "joining"
       \/ /\ ~ CanCommand
          /\ pc' = "destroyed"
          /\ UNCHANGED commands
    /\ UNCHANGED <<call, no, replies, outbox, inbox, engine>>

Join ==
    /\ At("joining") /\ replies # <<>>
    /\ replies' = Tail(replies)
    /\ pc' = IF Awaited(Head(replies)) THEN "destroyed" ELSE pc
    /\ UNCHANGED <<call, no, commands, outbox, inbox, engine>>

-------------------------------------------------------------------------------
\* The actor's thread

Reply(r) == Room(replies) /\ replies' = Append(replies, r)

\* The actor signals that it has started, or that client_initialize has failed.
StartActor ==
    /\ actor = "starting"
    /\ Reply(Signal)
    /\ actor' \in {"idle", "closing"}
    /\ UNCHANGED <<caller, commands, outbox, inbox, owed, stopped, pushes>>

\* s_client_handle_cmdpipe
HandleTerm ==
    /\ actor = "idle" /\ commands # <<>> /\ Head(commands).call = "$TERM"
    /\ commands' = Tail(commands)
    /\ actor' = "closing"
    /\ UNCHANGED <<caller, replies, outbox, inbox, owed, stopped, pushes>>

HandleConnected ==
    /\ actor = "idle" /\ commands # <<>> /\ Head(commands).call = "connected"
    /\ commands' = Tail(commands)
    /\ Reply([kind |-> "status", no |-> Head(commands).no])
    /\ UNCHANGED <<caller, outbox, inbox, engine>>

\* A machine that has stopped does nothing for a method.
HandleMethod ==
    /\ actor = "idle" /\ commands # <<>> /\ Head(commands).call \in Methods
    /\ commands' = Tail(commands)
    /\ \/ /\ ~ stopped
          /\ actor' = "serving"
          /\ owed' = IF Accepts[Head(commands).call] = {} THEN owed ELSE Head(commands)
       \/ /\ stopped
          /\ UNCHANGED <<actor, owed>>
    /\ UNCHANGED <<caller, replies, outbox, inbox, stopped, pushes>>

\* s_client_handle_msgpipe: a message goes to the server, $FLUSH is signalled.
HandleMessage ==
    /\ actor = "idle" /\ outbox # <<>>
    /\ outbox' = Tail(outbox)
    /\ IF Head(outbox) = "flush" THEN Reply(Signal) ELSE UNCHANGED replies
    /\ UNCHANGED <<caller, commands, inbox, engine>>

\* A message from the server or a timer runs the machine, or the message, being
\* malformed or unknown, ends the actor.
ServerEvent ==
    /\ actor = "idle" /\ ~ stopped
    /\ actor' = "serving"
    /\ UNCHANGED <<caller, pipes, owed, stopped, pushes>>

Halt ==
    /\ actor = "idle"
    /\ actor' = "closing"
    /\ UNCHANGED <<caller, pipes, owed, stopped, pushes>>

\* What the machine's actions do: answer the call, send the caller something
\* unasked on either pipe, terminate, return.
Answer ==
    /\ actor = "serving" /\ owed # Nothing
    /\ \E k \in Accepts[owed.call] : Reply([kind |-> k, no |-> owed.no])
    /\ owed' = Nothing
    /\ UNCHANGED <<caller, commands, outbox, inbox, actor, stopped, pushes>>

SendUnasked ==
    /\ actor = "serving" /\ pushes < MaxPushes
    /\ actor' \in {"pushing"} \cup {"replying" : k \in Async}
    /\ pushes' = pushes + 1
    /\ UNCHANGED <<caller, pipes, owed, stopped>>

Push ==
    /\ actor = "pushing" /\ inbox < Hwm
    /\ inbox' = inbox + 1
    /\ actor' = "serving"
    /\ UNCHANGED <<caller, commands, replies, outbox, owed, stopped, pushes>>

ReplyUnasked ==
    /\ actor = "replying"
    /\ \E k \in Async : Reply([kind |-> k, no |-> 0])
    /\ actor' = "serving"
    /\ UNCHANGED <<caller, commands, outbox, inbox, owed, stopped, pushes>>

Terminate ==
    /\ actor = "serving"
    /\ stopped' = TRUE
    /\ UNCHANGED <<caller, pipes, actor, owed, pushes>>

EndService ==
    /\ actor = "serving"
    /\ actor' = "idle"
    /\ UNCHANGED <<caller, pipes, owed, stopped, pushes>>

\* The reactor has ended: s_client_destroy closes msgpipe, then zactor's thread
\* signals, if there is room, and closes cmdpipe.
SignalEnd ==
    /\ actor = "closing"
    /\ replies' = IF Room(replies) THEN Append(replies, Signal) ELSE replies
    /\ actor' = "signalled"
    /\ UNCHANGED <<caller, commands, outbox, inbox, owed, stopped, pushes>>

CloseActor ==
    /\ actor = "signalled"
    /\ actor' = "closed"
    /\ UNCHANGED <<caller, pipes, owed, stopped, pushes>>
-------------------------------------------------------------------------------
Init ==
    /\ pc = "starting" /\ call = "none" /\ no = 0
    /\ commands = <<>> /\ replies = <<>> /\ outbox = <<>> /\ inbox = 0
    /\ actor = "starting" /\ owed = Nothing
    /\ stopped = FALSE /\ pushes = 0

\* What the caller's thread does by itself once it is in a call.
InCall == \/ New \/ SendCommand \/ AcceptReply \/ ReadStatus \/ SendMessage
          \/ SendFlush \/ AwaitFlushed \/ Drain \/ EndActor \/ Join

Handler == \/ HandleTerm \/ HandleConnected \/ HandleMethod \/ HandleMessage

\* What the actor's thread does by itself once it is in a handler.
InHandler == \/ StartActor \/ EndService \/ Push \/ ReplyUnasked
             \/ SignalEnd \/ CloseActor

Next == \/ Call \/ Recv \/ Destroy \/ InCall
        \/ Handler \/ ServerEvent \/ Halt
        \/ InHandler \/ Answer \/ SendUnasked \/ Terminate

Spec == Init /\ [][Next]_vars

\* Neither thread stops in the middle of something, the reactor serves both pipes,
\* and the dialog answers each call, if need be on a later message or timer.
FairSpec ==
    /\ Spec /\ WF_vars(InCall) /\ WF_vars(InHandler)
    /\ SF_vars(HandleTerm) /\ SF_vars(HandleConnected)
    /\ SF_vars(HandleMethod) /\ SF_vars(HandleMessage)
    /\ SF_vars(ServerEvent) /\ SF_vars(Answer)

-------------------------------------------------------------------------------
\* Properties

Calls == Methods \cup Immediate \cup {"connected", "post", "destroy", "none"}
Kinds == Async \cup {"signal", "status"} \cup UNION {Accepts[m] : m \in Methods}

TypeOK ==
    /\ pc \in {"starting", "free", "sending", "waiting", "asking", "posting",
              "flushing", "awaiting", "draining", "ending", "joining", "destroyed"}
    /\ call \in Calls /\ no \in Nat
    /\ commands \in Seq([no : Nat, call : Calls \cup {"$TERM"}])
    /\ replies \in Seq([kind : Kinds, no : Nat])
    /\ outbox \in Seq({"message", "flush"}) /\ inbox \in Nat
    /\ actor \in {"starting", "idle", "serving", "pushing", "replying", "closing",
                 "signalled", "closed"}
    /\ owed \in {Nothing} \cup [no : Nat, call : Methods]
    /\ stopped \in BOOLEAN /\ pushes \in Nat

\* A method that waits returns the answer to its own call, whatever the actor sends
\* unasked in between and whatever earlier calls have left in the pipe.
RightAnswer ==
    [][At("waiting") /\ ~ At("waiting")' /\ call \in Methods
        => Head(replies).no = no]_vars

\* When destroy goes on to end an actor that runs, each message that the caller sent
\* before has been passed on to the server.
FlushedBeforeEnd ==
    pc \in {"draining", "ending"} /\ Running => outbox = <<>>

\* Every call but those of immediate methods returns, destroy's included, unless
\* the actor ends by itself, the machine has stopped or a pipe is full.
Busy == pc \notin {"free", "destroyed"} /\ call \notin Immediate
Halted == actor \in {"closing", "signalled", "closed"}
            /\ pc \notin {"joining", "destroyed"}
Undisturbed == ~ Halted /\ ~ stopped /\ inbox < Hwm /\ Room(replies)

CallsReturn == []Undisturbed => (Busy ~> ~ Busy)
===============================================================================
