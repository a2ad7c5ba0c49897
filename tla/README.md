# TLA+ models of zproto

zproto turns an XML description of a protocol into codecs, and an XML
description of a dialog (a state machine) into complete protocol servers and
clients.  The code that runs is generated: the program to verify is the text the
GSL scripts under `src/src/` emit, for *every* model they may be given.  The
modules here therefore take the dialog as a constant, and the properties are
those of the engine that is wrapped around it.

Paths below are relative to the repository (`src/`), so
`src/zproto_server_c.gsl` is the script that `PROJECT.json` names
`src/src/zproto_server_c.gsl`.

## 1. The system

### 1.1 Components

| Component | Source | State it keeps | Operations |
|---|---|---|---|
| C server engine | `src/zproto_server_c.gsl` | one `s_server_t` per actor: `clients` and `zombies` tables, configuration tree, timeout, the one `message` object; one `s_client_t` per peer: state, event, next event, exception, wakeup timer, ticket, reference count | ROUTER messages, actor commands (`VERBOSE`, `BIND`, `PORT`, `LOAD`, `SET`, `SAVE`, `$TERM`, custom), alarms, tickets, monitors; internal API `engine_*` for actions |
| C client engine | `src/zproto_client_c.gsl` (actor part) | one `s_client_t`: state machine, `connected`, `terminated`, `fsm_stopped`, expiry / heartbeat / wakeup timers | API commands, pass-through messages (`$FLUSH`), server messages, three kinds of timers; internal API `engine_*` |
| C client API class | `src/zproto_client_c.gsl` (class part) | actor handle, message pipe, last reply's properties | `new`, `destroy`, methods with replies, `connected`, `send`, `recv` |
| C codec on the wire | `src/zproto_example.c`, output of `src/zproto_codec_c.gsl` | one message object: id, fields, needle / ceiling while parsing | `recv`, `send`, `encode` |
| C codec's objects | the same, `include/zproto_example.h` | memory: objects, the items they point to, the application's own | `new`, `destroy`, `dup`, getters and setters with and without transfer, `zpl`, `new_zpl` |
| C codec v1 | `src/zproto_codec_c_v1.gsl` | as above, older API (a message per recv) | as above |
| Other codecs | `src/zproto_codec_{java,go,python,php,cs,fs,clj}.gsl`, `src/zproto_lib_*.gsl` and their outputs | one message object per language | read, write |
| Go server | `src/zproto_server_go.gsl` | as the C server, with goroutines and channels | messages, pipe, expiry |
| Clojure server | `src/zproto_server_clj.gsl` | an immutable session map | messages, expiry |
| Peer engine | `src/zyre_peer_example/src/zproto_peer_c.gsl` | a Zyre-based relative of the client engine | as the client engine, Zyre events |
| Model preparation | the `.template 1` part of every script | the model tree | superstate inheritance, collection of events, actions, arguments |
| Documents and diagrams | `src/zproto_bnf.gsl`, `src/zproto_dot.gsl` | – | print the protocol or the dialog |
| Packaging, docs, vendored code | `packaging/`, `doc/`, `scripts/`, `src/php/` | – | – |

### 1.2 How they interact

* A **server actor** is one thread that runs a CZMQ reactor (`zloop`).  Three
  sources call into it: the ROUTER socket, the actor pipe and timers.  Each
  handler finds or creates a client context and calls `s_client_execute`, which
  runs the client's state machine until no event is left.
* **Actions** are application code called from the middle of
  `s_client_execute`.  They may call back into the engine: set the next event or
  an exception, set an alarm, count references, change the configuration, and
  *execute events on other clients* (`engine_send_event`,
  `engine_broadcast_event`), which nests executions on the C stack.
* A **client actor** has the same shape with one state machine, a DEALER socket
  and two pipes: `cmdpipe` for commands and replies, `msgpipe` for messages that
  bypass the state machine.  The **API class** runs in the caller's thread and
  waits for replies on `cmdpipe`.
* Both engines use a **codec** object: `recv` fills it from a socket, `send`
  writes it, and the two share one object per actor.

### 1.3 What is hard here

* There is one thread per actor but no run-to-completion: a nested execution may
  terminate any client, its caller included, while C frames refer to it.
* A context's life is decided by three parties: the table of clients (its free
  function), the reference count and the table of zombies.
* Timers are cancelled and re-armed from inside the handlers they run.
* Two threads (API and client actor) share two pipes, on which synchronous
  replies, asynchronous replies and signals are mixed.
* A message object is reused: what one event leaves in it is seen by the next.
* Parsing works on lengths a peer chooses.
* Items of a message object change owners: some setters copy and some take over,
  some getters lend and some give away; failures in the middle of `recv` and
  `new_zpl` leave objects half filled.

`PROJECT.json` lists each of these hazards at the line where it bites.

### 1.4 What makes each component correct

* **Server engine**: no frame of `s_client_execute` works on a freed or zombie
  context; table and contexts correspond; reference counts are right; timers
  belong to live contexts; zombies are found at shutdown; idle clients expire.
* **Client engine**: a timer of each kind at most once; an expiry only after
  silence; nothing runs once the actor is terminated or the machine stopped;
  `$TERM` ends the actor.
* **Client API**: a method returns one of the replies it accepts, and the right
  one; every call returns; nothing sent before `destroy` is lost.
* **Codec**: `recv` never reads past its frame, accepts exactly what is well
  formed, says so, and leaves the socket at a message boundary; what `send`
  writes `recv` reads back, to the same peer if it is sent back.
* **Codec's objects**: each block of memory has one owner; what is done to one
  object is not seen in another; `dup` and the two ZPL methods keep the message.
* **Go and Clojure servers**: the same promises as the C server, where they make
  them.
* **Inheritance**: a state has its own events, then those of its superstates,
  nearest first, each once.

## 2. Modules

| Module | What it is |
|---|---|
| `ServerEngine` | the C server engine: contexts, tables, timers, state machines, nested executions |
| `ClientRegistry` | abstract specification: what the server promises about contexts |
| `ServerEngineProofs` | the inductive invariant of `ServerEngine` without re-entry, theorems |
| `ServerRegistryProofs` | the tables of clients and zombies; `ServerEngine` implements `ClientRegistry` |
| `ServerHeldProofs` | the inductive invariant of `ServerEngine` with re-entry of held clients, theorems |
| `ClientEngine` | the C client engine: one state machine and three kinds of timers |
| `ClientEngineProofs` | the inductive invariant of `ClientEngine`, theorems |
| `ClientApi` | the C client's two threads, caller and actor, over two pipes |
| `ClientApiProofs` | the inductive invariants of `ClientApi`, theorems |
| `ExampleProtocol` | the messages of `zproto_example`, as its header lists them |
| `Codec` | the C codec on sockets: sizes and encoding of a message, parsing by needle and ceiling, replies |
| `CodecLemmas` | lemmas about the folds of the community modules, how long what the codec writes is, and that it is read as it was written |
| `CodecProofs` | the inductive invariants of `Codec`, theorems |
| `ExampleObject` | the C codec's objects: ownership of memory, `dup`, ZPL |
| `ExampleObjectProofs` | the inductive invariants of `ExampleObject`, theorems |
| `MCServerEngine`, `MCClientEngine`, `MCClientApi`, `MCCodec`, `MCExampleObject` | dialogs, methods, messages and symmetry for the runs |

### 2.1 ServerEngine

One behaviour is one server actor from `s_server_new` to `s_server_destroy`.

*State.*  A context is a memory block `c \in Ctx` that is allocated (`mem[c]`) or
not, and may be used again after it was freed.  `key`, `fsm`, `next`, `exc`,
`ref` are its fields; `wakeup[c]` is the wakeup event while `self->wakeup` is set
and `NoEvent` when it is 0.  `alarms[c]` and `tickets[c]` count what the *reactor*
has pending with `c` as argument, as opposed to what the context remembers
(`wakeup[c]`, `ticket[c]`): the difference is where dangling timers would show.
`slot` holds the references the application keeps (each counted by
`engine_client_get`).

*The call stack.*  `frame[1..depth]` is the C stack: executions
(`top`: at the loop condition; `body`: in a branch; `app`: inside an action),
`client_initialize` (`init`), a callback of the reactor (`app` without context)
and broadcasts (`bcast`).  A branch of the generated `switch` is a sequence of
steps, `Program(s, e)`, in the order in which `output_action_body` and
`output_state_change` emit them: the event's actions, the `after` actions of the
state, the assignment of the state, the `before` actions of the next state.  Each
step is skipped while an exception is set, as in the code.

*Actions.*  `TopOfLoop`, `BodyStep`, `EndOfPass` are `s_client_execute`;
`SetNextEvent` … `ClientPut`, `Configure` are the `engine_*` functions, enabled
while application code runs; `Receive` and `Accept` are
`s_server_handle_protocol` for a known and a new peer, with `InitializeReturns`
the part after `client_initialize`; `HandleWakeup`, `HandleTicket` are the timer
handlers; `Callback` is any other entry of application code (monitor, socket
handler, `server_method`); `Stop` is `$TERM` and `s_server_destroy`.

*What application code may do.*  Anything, within three rules that the
parameters state: it calls the engine functions in `Calls` with events of
`Raised`; it names clients it can know (its own, those in the table, those it
holds); and `Reentry` says whether it may execute an event on a client whose
machine is already running below it on the stack: "never", only while it holds a
reference ("held"), or "any".

### 2.2 ClientRegistry

A context is absent, open or in limbo.  A peer has at most one open context; a
closed context is in limbo exactly while it is referenced and never reopens;
shutdown leaves nothing.  `ServerEngine!Registry` maps the engine to it:
unallocated is absent, zombie is limbo, everything else is open.

### 2.3 ClientEngine

One behaviour is one client actor from `s_client_new` to the end of its reactor.

*State.*  `fsm`, `next`, `exc`, `stopped`, `terminated` are the fields of
`s_client_t`; `interval[k]` says whether `expiry` or `heartbeat` is not zero.
`timer[k]` has two parts that the code keeps in two places: how many timers of
the kind the reactor has (`live`), and what the id that the engine keeps refers
to (`known`: 0, a live timer, a dead one).  Several live timers of one kind and
an id that is dead or lost are states of the model, so that it can be asked
whether they occur.

*Actions.*  `TopOfLoop`, `BodyStep`, `EndOfPass` are `s_client_execute`, which
is not nested here; `HandlerReturns` is what each handler does after it, which
for the two cycles is to start the next timer.  `SetNextEvent` … `SetInterval`
are the `engine_*` functions that actions call.  `Command`, `Term`, `Receive`,
`ReceiveMalformed`, `HandleCycle`, `HandleWakeup`, `Callback` are the reactor's
handlers.  `Rearm` says whether an action may set the very cycle that runs it to
a new interval other than zero.

### 2.4 ClientApi

One behaviour is one client object from `new` to the end of `destroy`.  The
caller's thread is `pc`, the method it is in and the number of the call; the
actor's thread is `actor`.  `commands` and `replies` are the two directions of
cmdpipe, `outbox` and `inbox` those of msgpipe.  The machine inside the actor is
any code that answers a command once (`owed`) and may send something unasked or
terminate at any time; its dialog is the subject of `ClientEngine`.  Each call
carries its number to the actor and back, which the code does not: it is there to
say whose answer a reply is.

*Actions.*  `Call`, `SendCommand`, `AcceptReply` are a method (an immediate one
only waits); `SendCommand`, `ReadStatus` are `connected`; `SendMessage` and `Recv`
are messages; `Destroy`, `SendFlush`, `AwaitFlushed`, `Drain`, `EndActor`, `Join`
are `destroy` in the order of its statements.  `HandleTerm` … `HandleMessage` are
the actor's two pipe handlers; `ServerEvent` is a message of the server or a
timer, `Halt` a malformed message; `StartActor`, `SignalEnd`, `CloseActor` are the
actor function's ends.  The pipes, `zactor_destroy` and `zsock_wait` are CZMQ's
and are modelled from how they are used.

### 2.5 Codec

The code is `src/zproto_example.c`, one output of `zproto_codec_c.gsl`; the module's
definitions are per type of field, as the script generates them, and
`ExampleProtocol` gives the messages and fields of the example.

An application fills an object, sends it, changes it, takes a hash out of it
(`Take`), sends it again; others (`Stranger`) put any frames on the wire; a ROUTER
receives all into one object, and may send that object back (`Reply`), which goes
to the routing id in it.  `Encode` is `encode`: the first frame alone, for other
transports than sockets.

*Sending* computes the frame twice, as the code does: `FrameSize` (with
`SizeOf`, and `bytes` for `headers_bytes`) and `FirstFrame` (with `Put`).  Only
`filled` relates them.

*Receiving* is a step per item: `BeginRecv` takes the routing id and the first
frame, `ReadHeader` signature and id, then each field's step moves `needle`
after its check (`Has`), lists and hashes an item at a time (`todo`).  Returns
early leave the object half filled and the remaining frames of the message in the
socket (`rest`), where the next `BeginRecv` finds them.

*Abstraction.*  A frame is a sequence of cells, one for each number and each
character.  A length of one octet is stored modulo `Byte`.

### 2.6 ExampleObject

The same class as its user sees it: several objects that live at once, and the
memory behind them.  The library has no state of its own and takes no lock, so
one call is one step; what could go wrong is a sequence of calls.

*State.*  `at` says for each pointer (`Places`: the application's to an object, an
object's to a field that is an item of its own, the application's to an item of
each type) which block it points to, `heap` what is in each block that is
allocated, `id` and `val` the parts of an object that are in it directly.  Nothing
in the state ties a pointer to an allocated block, or a block to one pointer: that
is `SoleOwner`.  `lost` holds the blocks that `new_zpl` leaves behind.

*Memory* changes in two ways.  `Replace` frees what is at some pointers and
allocates for others: `new`, `destroy`, `dup`, the setters that copy, `recv` and
`new_zpl`.  `Move` frees what is at the target and hands over a pointer, which
becomes NULL: the setters that take ownership and the `get_` methods.

*Actions.*  `Make`, `Drop` and `Edit` are the application's, the last through a
getter that does not transfer.  `New`, `Destroy`, `Dup`, `SetId`, `SetInline`,
`SetCopy`, `SetOwn`, `Take` are the methods by how they treat what they get;
`Recv` replaces the fields up to any point of the message, as a message that ends
there or is malformed there would (what that point can be is the subject of
`Codec`).  `Zpl` and `NewZpl` go through a configuration: an exported one, or one
that somebody has edited, with an entry missing or unreadable.  An assertion of
the library that fails ends the process (`Abort`).  `send`, `encode`, `print`
and a `zpl` that succeeds change no object.

## 3. Runs

| Run | Bounds | Question |
|---|---|---|
| `server_core` | 2 peers, 3 blocks, 1 reference, depth 2 | do tables, counts, timers and stack stay consistent, does shutdown free all, and is `ClientRegistry` implemented? |
| `server_held` | 1 peer, 2 blocks, 2 references, depth 4, re-entry while held, malformed and unknown messages, an incomplete dialog, changing timeout | does a reference protect a running machine? |
| `server_expiry` | 2 peers, alarms, references, fairness | do idle clients expire? |
| `server_two_zombies` | 1 peer, 2 references | *violation*: a second zombie of a key is never finalised |
| `server_broadcast_null` | 3 peers, depth 4 | *violation*: a broadcast executes on NULL |
| `client_core` | 3 states, 2 commands, all `engine_*` calls, fairness | is there one timer for each interval, and do the cycles go on? |
| `client_rearm` | the same, `Rearm` | *violation*: a second expiry timer that no message resets |
| `api_calls` | 3 calls and the destructor, 2 unasked replies or messages, pipes of 3, fairness | does each call get its own answer and return, and does `destroy` flush? |
| `codec_core` | 4 messages of the example, 8 ways to fill an object, every cut and one lie per place, 2 messages sent | is what is sent received, inside the frame, and does a reply go back unchanged? |
| `codec_truncated` | 1 message sent | *violation*: a cut message is received with 0 |
| `example_core` | 2 objects of 2 messages, 4 kinds of items, 5 blocks, 2 values | has each block one owner, are objects apart, do `dup` and ZPL keep the message? |
| `example_dup` | the same with octets, 1 value | *violation*: `dup` loses the flags |

### 3.1 Bounds

*Server.*  A hazard of the registry involves a context, a second context of the
same peer (terminate and reconnect) and a bystander, hence three blocks and two
peers; one reference distinguishes held from not held, two give two zombies of
one key (which is why that is the violating run, and `ShutdownFreesAll` passes
with one); depth 2 has a caller and a callee, depth 4 has action, broadcast,
target's action and what that one executes.  For more of everything see the
theorems.  The dialog uses each feature of the generator: `before` and `after`
actions, a wildcard, an inherited event, `send`, `terminate`, application
actions, an internal event.

`server_core` and `server_expiry` assume Reentry = "never".
That is not a promise of the code but a rule for its user.  `server_held` assumes
the weaker "held", with two contexts of one peer, which is what it takes to revive
a zombie, have its peer connect again, and free the second context through the
first; section 5 says what happens then, and without any rule.

*Client engine.*  One machine, so the state space is finite without a bound on
anything: all interleavings of handlers, calls and timers are covered for the
dialog, which has states that handle a cycle's event, that only have `*`, and one
(`connected`) that does not handle everything and so reaches `assert (false)`.

*API.*  Two calls can leave a reply behind for a third; the destructor is a
method that is called from `destroy`.  Two unasked sendings can come one before
and one after an answer; with pipes of three both can be waiting and a third
message be written.  That a pipe is full is reachable, and then calls hang;
`CallsReturn` excludes it (section 5).

*Codec.*  Two messages show what the first leaves in the objects and in the
socket.  Strings of 0 to 2 characters, lists and hashes of 0 to 2 items, each
value unset, empty and set; lengths that lie upward.  `Byte` = 4 is more than any
string of the model.

*Objects.*  Two objects are an original and its copy, or an exported one and the
one that is read back; the application holds one more item.  The messages have a
number, a longstr, a chunk and a uuid, and the object a routing id: a field for
each way in which a setter treats what it gets (in the object, copied from a
string, taken over, copied from an item) and each way in which `new_zpl` treats an
entry.  Lists, hashes, frames and messages are owned as a chunk is.  Five blocks
are two objects and three items, so that a copy, an import and the application's
item can be there together.  A block is named for the place it was allocated for;
the run's VIEW forgets the names, and keeps what the places hold and how many
blocks there are, which is what the properties depend on.

CHECK_DEADLOCK is off for the API (after `destroy` nothing happens), for the
codec (with MaxMessages sent and received the wire is quiet), for objects (after
a failed assertion the process is gone) and for `server_held` (once a context was
lost, a deeper execution may free one that is running, and the model gives no
successor to a use of freed memory).

### 3.2 Fairness

*`server_expiry`*: weak fairness of `Engine`, because the thread never stops in
the middle of a call and application code returns; strong fairness of
`HandleTicket(c)`, because every cycle of the reactor runs what is due before it
polls, while in between the engine is busy and the action is disabled.  No
fairness of messages, alarms or application choices.

*`client_core`*: the same for `Engine` and for the heartbeat's timer.  It is an
assumption on the server: `s_client_handle_protocol` reads until the socket is
empty, so that one who sends for ever faster than the client works starves the
timers.  Both properties assume that application code does not for ever set the
next event in the action of the last one, which keeps `s_client_execute` in its
loop, and `ExpiryGoesOn` that the server has fallen silent.

*`api_calls`*: neither thread stops inside a step it can take; the reactor polls
both pipes in turn (strong fairness of its handlers, which other handlers disable
in between); the server or a timer runs the machine again and again, and the
dialog answers each command at last (strong fairness of `Answer`), which is what
a dialog must do whose method waits.

## 4. Proofs

`ServerEngineProofs` proves for every dialog, every number of peers, contexts and
references, and every depth of nesting, with `Reentry = "never"`:

| Theorem | Property |
|---|---|
| `TypeCorrect` | `TypeOK` |
| `StackStaysLive` | `StackIsLive` |
| `RegistryStaysConsistent` | `RegistryConsistent` |
| `ReferencesStayCounted` | `ReferencesCounted` |
| `TimersStayMatched` | `TimersMatch` |

*The argument.*  None of the five is inductive alone, since each action relies on
the others: to free a context at the end of a pass one must know that no other
frame runs it (stack), that it is in the table under its key (registry), what
holds it (references) and which timers it has.  `IInv` is their conjunction with
`FrameShape`, which says of each frame of the C stack what the code assumes
there: an execution has a context; `client_initialize` is the outermost frame, of
a context that is in no table yet; a branch exists for the event that is handled;
and, the part that broadcasts need, none of the keys that a broadcast still has
ahead leads to a context that a frame below is running.  With `Reentry = "never"`
that is true when a broadcast begins, and steps of deeper frames keep it, because
they terminate only contexts that they run and a terminated key leads nowhere.

*The layout.*  Lemmas about a step's shape (`QuietInv`: nothing but the frame
changes; push, pop and replace of the top frame) do the work that is common;
there is one lemma for each action, under it one step for each conjunct the action
disturbs; `NextInv` collects them and `Inductive` is the temporal step.  The
assumptions used are `ConstantsAssumption` and `DialogAssumption` of
`ServerEngine`, which TLC evaluates in every run.

`ServerRegistryProofs` proves, for as much and also with `Reentry = "never"`:

| Theorem | Property |
|---|---|
| `ZombiesStayListed` | `ZombiesListed` |
| `ShutdownLeavesNothing` | `ShutdownFreesAll` |
| `EngineImplementsRegistry` | `ImplementsRegistry` |
| `OneReferenceImplementsRegistry` | the three of them, with at most one reference |

*The proviso.*  The first three assume `[]OneHeldPerPeer`: the application never
holds two contexts of one peer.  The code does not check that, and without it they
are false, as the run `server_two_zombies` shows; so it is a hypothesis that the
theorem names and not a part of the model.  It is met by every application that
drops its reference when a peer is gone; with one reference it always is, which is
`OneReferenceImplementsRegistry`, and that is the instance `server_core` checks.

*The argument.*  Every step shows the tables one of five things, or ends the
process: nothing (`Quiet`), a context `Opens`, `Closes`, is held by one reference
more (`Gets`) or less (`Puts`).  `StepKinds` proves that for each action from
`IInv`; each kind is then a step of `ClientRegistry`, and each keeps the two
tables right (`TablesInv`).  So refinement and tables are proved over five kinds of
steps instead of some twenty actions.

`ServerHeldProofs` proves, for as much, when application code may re-enter a running
machine whose context it holds (`Reentry = "held"`):

| Theorem | Property |
|---|---|
| `HeldContextsStay` | `StackIsAllocated` (for "never" too) |
| `HeldCountsStay` | `ReferencesCounted` and `TimersMatch`, until a context is lost |
| `HeldTableStays` | whom the table of clients names is usable and has that key, always |

*The argument.*  `IInv` is false here: a running context may be a zombie, it may be
on the stack twice, and the state assignment of `src/zproto_server_c.gsl:715` may
bring a zombie back to life that is in no table any more.  Such a context is
*lost*: to terminate it is to delete the entry of its key, which is empty or another
context's, so that it stays for ever, and may take others with it.  `NoneLost` says
that there is none, and `HInv` has therefore two layers.  `Sound` holds always:
the form of frames, and that the table of clients is right.  `Intact` holds until a
context is lost, and is what takes the place of the stack being live: a context on
the stack is allocated; if it is there twice, or a broadcast has it ahead, it is
referenced; if it is a zombie, nobody has its key.  Most steps are `Tame`, that is,
they find no lost context again (`TameSound`), so that `Intact` has to be shown only
after steps from states where it held.  At a depth of at most one frame `HInv` gives `IInv` (`BottomInv`), and there the lemmas of
`ServerEngineProofs` are used again.  TLC has checked `HInv` on `server_held` and
with two peers.

`ClientEngineProofs` proves for every dialog, every set of commands, messages and
events, with `Rearm = FALSE`:

| Theorem | Property |
|---|---|
| `ClientTypeCorrect` | `TypeOK` |
| `ClientTimersMatch` | `TimersMatch` |
| `ClientTimersSingle` | `TimersKnown`, at every point of a handler |

*The argument.*  `TimersMatch` speaks of the points between events; what makes it
true is what holds inside handlers.  `TimersKnown`: at most one timer of a kind,
and if there is one its id is the one that is kept.  `CyclesTimed`: the cycle
whose handler is running has no timer, whatever its interval, until the handler
returns and starts it; every other one has its timer exactly if its interval is
set.  `ControlShape` ties the two to where the code is.  `Rearm = FALSE` is used at
one place, `SetIntervalInv`: otherwise the running cycle would have a timer before
its handler starts another, which is the violation of `client_rearm`.  Four lemmas
say what `zloop_timer` and `zloop_timer_end` do to one timer; `ExecuteInv` is the
common prologue of all handlers, which only have to show what they did to the
timers before.

`ClientApiProofs` proves for every set of methods, any number of calls and
unasked sendings, and pipes of any size, every interleaving of the two threads:

| Theorem | Property |
|---|---|
| `ApiTypeCorrect` | `TypeOK` |
| `CallsGetTheirAnswer` | `RightAnswer` |
| `FlushBeforeEnd` | `FlushedBeforeEnd` |

*The argument.*  An answer that is in the pipe, or that the actor still owes, is
numbered, and `PendingIsCurrent` says that it is for the call the caller is in:
each method waits for its answer before the next begins, and a method without
a reply asks for none.  `RightAnswer` follows, since what is unasked and what
is stale has a name the method does not accept.  `FlushInv` follows $FLUSH through
the two pipes: that destroy goes on to end the actor means that the last signal is
from the actor, after it found the message pipe empty or ended.  The assumption
is `ApiConstants`: no method accepts a reply that the actor sends unasked, methods
are not named like the pipe's own commands, and replies not like a status.

`CodecProofs` proves for every protocol, every object, and every sequence of frames
that others may send:

| Theorem | Property |
|---|---|
| `CodecTypeCorrect` | `TypeOK` |
| `NothingReadPastTheEnd` | `StaysInFrame` |
| `NothingWrittenPastTheEnd` | `FitsFrame` |
| `EchoFaithful` | `EchoIsFaithful` |
| `MessagesGoRound` | `RoundTrip` |

*The argument.*  `SenderInv` says that what is counted for a field is never less than
what `Put` writes for it; where a hash was taken out, the size that it left behind is
counted, which is more.  `ParserInv` ties `needle`, `at` and `todo`:
the field that is read exists, is of a type that is read item by item, and the
needle is inside the frame.  `ObjectInv` is the types of the object that receives.  Sums and
concatenations over all fields need an induction, which the library's theorems
cannot give (they take an operator); `CodecLemmas` makes it by the least
counterexample (`WFMin` on a set of lengths), and states once what
`FlattenSeq` and the sums over fields yield for one more element.  The
assumption is `CodecConstants`: a name has one type, and for a block of octets one
size, in all messages, as in the class, which has one member for it.  The
generator checks the types; that two messages give one name two sizes it does not
notice (`src/zproto_lib.gsl:76`).

The last two rest on `EchoInv`, which is about messages that were sent, not made
up by others, and was checked by TLC on the instance of `codec_core` before it was
proved.  A message that is on its way is the encoding of an object, padded by what a hash that was
taken out left behind (`WasSent`).  While it is read, `Reading` says in which place
of it the parser is: the needle is where the encodings of the fields, or of the
items of a list, before the next one end (`Start`, `AtField`, `InList`), the frames
not yet taken are those of the fields that follow, and each field passed is in the object as
it was sent (`Received`).  One lemma per type says that reading at that place gives
back what was written (`CodecLemmas`), one per action that it moves on to the next.
Their hypothesis is `ObjectsSendable`: strings and the keys of a hash are
shorter than 256 octets, since their length is sent in one, and a hash has no key
twice.  The strings of the class are `char [256]` and a `zhash` has no key twice, so
only keys are left to the application; a longer one is sent wrong (section 5).
TLC evaluates the hypothesis for the objects of `MCCodec`.

`ExampleObjectProofs` proves for every protocol, every number of objects, of blocks
and of values:

| Theorem | Property |
|---|---|
| `ObjectsTypeCorrect` | `TypeOK` |
| `ObjectsSoleOwner` | `SoleOwner` |
| `ObjectsStayApart` | `ObjectsApart` |
| `DupsKeep` | `DupKeeps` |
| `ZplGoesRound` | `ZplRoundTrip` |

*The argument.*  All methods change memory by `Replace` or `Move`, so that
`ReplaceInv` and `MoveInv` carry the proof and each action only has to show their
conditions: that no pointer is overwritten whose item is not freed, and that what
is filled belongs to an object that exists afterwards (`KeepsOwners`).  `SoleOwner`
is inductive with `TypeOK` and `LostStays`: if a lost block could be freed, its
memory could be given to an object while `lost` still names it.  The three other
theorems rest on it: two objects are apart because a block that one changes is no
other's (`ReplaceGet`, `MoveGet`, `EditApart`), and an export is complete because an
item that a pointer points to has a value in it (`ItemsFull`).  What a configuration
can contain after one edit is `EditsType`.  The assumption is `ObjectConstants`.

*Only model-checked:* liveness (`IdleClientsExpire`, `HeartbeatGoesOn`,
`ExpiryGoesOn`, `CallsReturn`), which TLAPS cannot prove.  All other properties of
the passing runs are stated by a theorem; those on the tables of the server under the
provisos named above.

## 5. Where code and words differ

Five runs end in a violation, each a disagreement between the code and a comment;
`PROJECT.json` quotes it.  While modelling, these were seen as well.  They follow
from the code directly and have no run.

* "Give application chance to initialize and set next event": the next event that
  `client_initialize` sets is overwritten by the message that created the client,
  or by the first handler that runs the machine, in both engines
  (`src/zproto_server_c.gsl:728` against `:621`; `src/zproto_client_c.gsl:998`
  against `:749`).
* "The alarm is cancelled on any other event" (`src/zproto_server_c.gsl:411`):
  only the first event that a handler runs cancels an alarm, not the internal
  events that follow it.
* An idle client whose `expired` event does not terminate it is never told again
  (`src/zproto_server_c.gsl:812` ends the ticket; `README.md:330`).
* An action that holds its own client and terminates it by an event of its own
  turns it from a zombie back into a live state with the assignment at the end of
  its branch (`src/zproto_server_c.gsl:715`).  Without the reference the context
  is freed under the action.  With it, the revived context is in no table: the peer
  connects again as a second context, and when the revived one terminates, its key
  deletes the entry of the second, that is, it frees another client's context, which
  may be running.  `StackIsAllocated` and `ServerHeldProofs` are about all that
  comes before (`NoneLost`).  A broadcast that excludes nobody re-enters the
  machine that calls it.
* A malformed message ends the client's actor (`src/zproto_client_c.gsl:1236`:
  any code but 0 is taken for an interrupt), and the server's only when the codec
  returns -1.
* The codec does return -1 after a malformed message of several frames: the
  frames it has not read stay in the socket, and the next `recv` takes the first
  of them for a routing id (`src/zproto_example.c:815`).
* A hash that is taken out of an object leaves its size behind
  (`src/zproto_example.c:1014`): the next frame is too long, and its last octets
  are whatever the allocator left there, which `src/zproto_example.bnf` has no
  place for.  A hash key of 256 characters or more is sent with a wrong length
  (`:192`).
* `new_zpl` on an odd number of hex digits returns from inside BYTES_FROM_STR
  (`src/zproto_example.c:242`) and loses the object; the lines after it that would
  destroy it are never reached.  Digits that are none leave an uninitialised
  variable (`:253`), a uuid that cannot be read a random one (`:573`).  `:551`
  assigns to an array, which is not valid C; the model takes it for the copy that
  `set_flags` makes.
* `zpl` of a BINARY without key, address or content ends the process (`:1489`), and
  `recv` can return 0 and leave such an object (see `codec_truncated`).  A LOG
  without data is exported without an entry that `new_zpl` insists on (`:1427`,
  `:454`); `ZplRoundTrip` names that exception.
* `set_data`, `set_routing_id` and `set_identifier` with the object's own value read
  what they have just freed (`:1753`, `:1562`, `:1890`).
* `connected` takes the first message in cmdpipe for the status: after a reply that
  nobody asked for, or that an earlier call left, it returns what is not the status
  (`src/zproto_client_c.gsl:1421` against `:1411`).
* A method that is called after the machine has terminated, or after the actor
  has halted, waits for ever, and so does `destroy` when the machine of a client
  with a destructor has terminated, or when msgpipe is full and the actor waits to
  write to it (`src/zproto_client_c.gsl:1356`).  A message that the actor sends
  between the last look at msgpipe (`:1363`) and $TERM is never freed.

## 6. Not modelled

*In the server engine:* the deadline of a ticket (that a message moves it), the
shared message object, verbose, configuration commands and the configuration
tree, `client_terminate` calling back into the engine, and CZMQ's habit of ending
a timer only after the handlers of the current cycle.  *In the client engine:*
`$CONNECTED`, `SET VERBOSE`, the message pipe (see `ClientApi`), the same habit
of timers.  *In the API:* arguments, `zsys_interrupted`, several threads on one
client.  *In the codec:* the virtual form, PUBSUB topics and `use_zmq_msg` (the
script generates them on request, the example has none), print, an interrupted
`recv`, numbers octet by octet, a reply to no routing id, and a key longer than a
length octet can say.  *In the objects:* the cursors of lists and hashes, which
send, print and zpl move; hash keys that hold a `/`, which ZPL takes for a path; a
`msg` that `zmsg_decode` refuses; setters called with the object's own value; the
strings of a list that does not own them, which `zlist_dup` shares.  Other parts are listed in `PROJECT.json`
with their reasons.

## 7. Plan

1. `ServerConfig`: bindings, LOAD, SET, SAVE and the reconfiguration of a running
   server.
2. `GoServer`: the C server's design with goroutines and channels.
3. `CljServer`, then `Inheritance` (superstates, as a pure function against its
   definition).
4. Compositions: the codec's object shared by the server's clients; the client
   engine behind `ClientApi`; two engines over a wire that loses messages.
5. The peer engine.
