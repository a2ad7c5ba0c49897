--------------------------- MODULE ClientEngineProofs ---------------------------
(***************************************************************************)
(* The timers of ClientEngine for every dialog and every order of          *)
(* commands, messages, alarms and engine calls, provided no action sets    *)
(* the interval of the very cycle that runs it (Rearm = FALSE).            *)
(***************************************************************************)
EXTENDS ClientEngine, SequenceTheorems, TLAPS

\* Of each kind there is at most one timer, and if there is one the engine knows it.
TimersKnown ==
    \A k \in Kinds : /\ timer[k].live \in {0, 1}
                     /\ (timer[k].live = 1) <=> (timer[k].known = "live")

\* A cycle has its timer exactly when its interval is set, but for the cycle whose
\* handler is running: that one has none until the handler returns.
CyclesTimed ==
    \A k \in Cycles :
        IF k = by THEN timer[k].live = 0 /\ HasTimer(k)
        ELSE timer[k].live = IF interval[k] /\ HasTimer(k) THEN 1 ELSE 0

\* Where the handlers are: none between events, and a branch that exists while
\* s_client_execute is in one.
InBranch == pc = "body" \/ (pc = "app" /\ by \notin {"initialize", "callback"})
ControlShape ==
    /\ pc = "idle" => by = "none"
    /\ InBranch => Handled(branch.st, branch.ev)

IInv == TypeOK /\ TimersKnown /\ CyclesTimed /\ ControlShape

-------------------------------------------------------------------------------
\* A branch of the switch is a sequence of steps.
LEMMA ProgramType ==
    ASSUME NEW s \in States, NEW e, Handled(s, e)
    PROVE  Program(s, e) \in Seq(Step)
<1> DEFINE b == Branch(s, e)
<1>1. b \in Branches
  BY ClientDialog DEF Branch, Handled
<1>2. b.acts \in Seq(Step) /\ b.next \in States \cup {NoState}
  BY <1>1 DEF Branches
<1>3. CASE b.next = NoState
  BY <1>2, <1>3 DEF Program
<1>4. CASE b.next # NoState
  <2>1. b.next \in States
    BY <1>2, <1>4
  <2>2. After[s] \in Seq(Step) /\ Before[b.next] \in Seq(Step)
    BY <2>1, ClientDialog
  <2>3. Goto(b.next) \in Seq(Step)
    BY <2>1 DEF Goto, Step
  <2>4. ((b.acts \o After[s]) \o Goto(b.next)) \in Seq(Step)
    BY <1>2, <2>2, <2>3, ConcatProperties
  <2>5. (((b.acts \o After[s]) \o Goto(b.next)) \o Before[b.next]) \in Seq(Step)
    BY <2>2, <2>4, ConcatProperties
  <2> QED
    BY <1>4, <2>5 DEF Program
<1> QED
  BY <1>3, <1>4

\* What the operations on one kind of timer do while there is at most one and it is
\* known.
One(t) == /\ t \in [known : {"none", "live", "dead"}, live : Nat]
          /\ t.live \in {0, 1}
          /\ (t.live = 1) <=> (t.known = "live")

LEMMA EndedOne ==
    ASSUME NEW t, One(t)
    PROVE  One(Ended(t)) /\ Ended(t).live = 0
BY DEF One, Ended

LEMMA StartedOne ==
    ASSUME NEW t, One(t), t.live = 0
    PROVE  One(Started(t)) /\ Started(t).live = 1
BY DEF One, Started

LEMMA RestartedOne ==
    ASSUME NEW t, One(t), NEW on \in BOOLEAN
    PROVE  One(Restarted(t, on)) /\ Restarted(t, on).live = IF on THEN 1 ELSE 0
<1>1. One(Ended(t)) /\ Ended(t).live = 0
  BY EndedOne
<1>2. One(Started(Ended(t))) /\ Started(Ended(t)).live = 1
  BY <1>1, StartedOne
<1> QED
  BY <1>1, <1>2 DEF Restarted

LEMMA FiredOne ==
    ASSUME NEW t, One(t), NEW u \in Fired(t)
    PROVE  One(u) /\ u.live = 0 /\ t.live = 1
BY DEF One, Fired

-------------------------------------------------------------------------------
\* How the invariant reads and is shown, timer by timer.
AllOne == timer \in [Kinds -> [known : {"none", "live", "dead"}, live : Nat]]
              /\ \A k \in Kinds : One(timer[k])

LEMMA AllOneIff ==
    ASSUME timer \in [Kinds -> [known : {"none", "live", "dead"}, live : Nat]]
    PROVE  AllOne <=> TimersKnown
BY DEF AllOne, TimersKnown, One

LEMMA AllOneNext ==
    ASSUME AllOne' PROVE TimersKnown'
BY DEF AllOne, TimersKnown, One

\* A handler that turns the timers into t runs s_client_execute.
LEMMA ExecuteInv ==
    ASSUME IInv, NEW h \in Kinds \cup {"command", "message"}, NEW e \in AllEvents,
           NEW t \in [Kinds -> [known : {"none", "live", "dead"}, live : Nat]],
           \A k \in Kinds : One(t[k]),
           \A k \in Cycles :
               IF k = h THEN t[k].live = 0 /\ HasTimer(k)
               ELSE t[k].live = IF interval[k] /\ HasTimer(k) THEN 1 ELSE 0,
           Execute(h, e, t), terminated' \in BOOLEAN,
           UNCHANGED <<fsm, exc, stopped, interval, alarm, branch, status>>
    PROVE  IInv'
<1>1. One(Ended(t["wakeup"])) /\ "wakeup" \in Kinds /\ "wakeup" \notin Cycles
  BY EndedOne DEF Kinds, Cycles
<1>2. timer' = [t EXCEPT !["wakeup"] = Ended(t["wakeup"])]
  BY DEF Execute
<1>3. AllOne'
  BY <1>1, <1>2 DEF AllOne, One
<1>4. TimersKnown'
  BY <1>3, AllOneNext
<1>5. next' = e /\ by' = h /\ pc' = "top"
  BY DEF Execute
<1>6. TypeOK'
  BY <1>3, <1>5 DEF IInv, TypeOK, AllOne
<1>7. CyclesTimed'
  <2> SUFFICES ASSUME NEW k \in Cycles
               PROVE IF k = h THEN timer'[k].live = 0 /\ HasTimer(k)
                     ELSE timer'[k].live = IF interval[k] /\ HasTimer(k) THEN 1 ELSE 0
    BY <1>5 DEF CyclesTimed
  <2>1. timer'[k] = t[k]
    BY <1>1, <1>2 DEF Kinds
  <2> QED
    BY <2>1
<1>8. ControlShape'
  BY <1>5 DEF ControlShape, InBranch
<1> QED
  BY <1>4, <1>6, <1>7, <1>8 DEF IInv

\* A step that leaves the timers and the handler alone.
LEMMA QuietInv ==
    ASSUME IInv, TypeOK', ControlShape', UNCHANGED <<interval, timer, by>>
    PROVE  IInv'
BY DEF IInv, TimersKnown, CyclesTimed

-------------------------------------------------------------------------------
LEMMA InitInv == Init => IInv
<1> SUFFICES ASSUME Init PROVE IInv
  OBVIOUS
<1>1. TypeOK
  BY ClientConstants DEF Init, TypeOK, AllEvents
<1>2. TimersKnown /\ CyclesTimed
  BY DEF Init, TimersKnown, CyclesTimed, Kinds, Cycles
<1>3. ControlShape
  BY DEF Init, ControlShape, InBranch
<1> QED
  BY <1>1, <1>2, <1>3 DEF IInv

LEMMA TopOfLoopInv == ASSUME IInv, TopOfLoop PROVE IInv'
<1>1. TypeOK'
  BY DEF IInv, TypeOK, TopOfLoop, timers, AllEvents
<1>2. ControlShape'
  BY DEF IInv, TopOfLoop, ControlShape, InBranch, At
<1> QED
  BY <1>1, <1>2, QuietInv DEF TopOfLoop, timers

LEMMA BodyStepInv == ASSUME IInv, BodyStep PROVE IInv'
<1> DEFINE prog == Program(branch.st, branch.ev)
           s == prog[branch.at]
<1>1. branch.st \in States /\ branch.at \in Nat
  BY DEF IInv, TypeOK
<1>2. Handled(branch.st, branch.ev)
  BY DEF IInv, ControlShape, InBranch, BodyStep, At
<1>3. branch.at \in 1..Len(prog)
  BY DEF BodyStep
<1>4. prog \in Seq(Step)
  BY <1>1, <1>2, ProgramType
<1>5. s \in Step
  BY <1>3, <1>4, ElementOfSeq
<1>6. s.op = "goto" => s.to \in States
  BY <1>5 DEF Step
<1>7. fsm' \in States
  BY <1>6 DEF BodyStep, IInv, TypeOK
<1>8. TypeOK'
  BY <1>1, <1>7 DEF IInv, TypeOK, BodyStep, timers
<1>9. ControlShape'
  BY <1>2 DEF IInv, TypeOK, ControlShape, InBranch, BodyStep
<1> QED
  BY <1>8, <1>9, QuietInv DEF BodyStep, timers

LEMMA EndOfPassInv == ASSUME IInv, EndOfPass PROVE IInv'
<1>1. TypeOK' /\ ControlShape'
  BY DEF IInv, TypeOK, EndOfPass, timers, ControlShape, InBranch
<1> QED
  BY <1>1, QuietInv DEF EndOfPass, timers

\* The handler of a cycle starts the timer that it has used up.
LEMMA HandlerReturnsInv == ASSUME IInv, HandlerReturns PROVE IInv'
<1>1. CASE terminated /\ by # "wakeup"
  <2>1. TypeOK' /\ ControlShape'
    BY <1>1 DEF IInv, TypeOK, HandlerReturns, machine, ControlShape, InBranch
  <2> QED
    BY <1>1, <2>1, QuietInv DEF HandlerReturns
<1>2. CASE ~ (terminated /\ by # "wakeup")
  <2>1. /\ timer' = IF by \in Cycles
                    THEN [timer EXCEPT ![by] = Renewed(@, interval[by])] ELSE timer
        /\ by' = "none" /\ pc' = "idle"
        /\ UNCHANGED <<machine, terminated, interval, alarm, branch, status>>
    BY <1>2 DEF HandlerReturns
  <2>2. AllOne
    BY AllOneIff DEF IInv, TypeOK
  <2>3. ASSUME by \in Cycles
        PROVE  LET t == Renewed(timer[by], interval[by])
               IN One(t) /\ t.live = IF interval[by] THEN 1 ELSE 0
    <3>1. by \in Kinds /\ timer[by].live = 0 /\ interval[by] \in BOOLEAN
      BY <2>3 DEF Kinds, IInv, CyclesTimed, TypeOK
    <3>2. One(timer[by])
      BY <2>2, <3>1 DEF AllOne
    <3> QED
      BY <3>1, <3>2, StartedOne DEF Renewed
  <2>4. AllOne'
    BY <2>1, <2>2, <2>3 DEF AllOne, One
  <2>5. TypeOK'
    BY <2>1, <2>4 DEF IInv, TypeOK, AllOne, machine
  <2>6. CyclesTimed'
    <3> SUFFICES ASSUME NEW k \in Cycles
                 PROVE timer'[k].live = IF interval[k] /\ HasTimer(k) THEN 1 ELSE 0
      BY <2>1 DEF CyclesTimed, Cycles
    <3>1. CASE k = by
      BY <2>1, <2>2, <2>3, <3>1 DEF AllOne, Kinds, IInv, CyclesTimed
    <3>2. CASE k # by
      BY <2>1, <2>2, <3>2 DEF AllOne, Kinds, IInv, CyclesTimed
    <3> QED
      BY <3>1, <3>2
  <2>7. ControlShape'
    BY <2>1 DEF ControlShape, InBranch
  <2> QED
    BY <2>4, <2>5, <2>6, <2>7, AllOneNext DEF IInv
<1> QED
  BY <1>1, <1>2

LEMMA ReturnInv == ASSUME IInv, ActionReturns \/ CallbackReturns PROVE IInv'
<1>1. CASE ActionReturns
  <2>1. TypeOK' /\ ControlShape'
    BY <1>1 DEF IInv, TypeOK, ActionReturns, machine, timers, ControlShape, InBranch, At
  <2> QED
    BY <1>1, <2>1, QuietInv DEF ActionReturns, timers
<1>2. CASE CallbackReturns
  <2>1. TypeOK' /\ ControlShape'
    BY <1>2 DEF IInv, TypeOK, CallbackReturns, machine, timers, ControlShape, InBranch,
                At
  <2>2. timer' = timer /\ interval' = interval /\ by \notin Cycles /\ by' \notin Cycles
    BY <1>2 DEF CallbackReturns, timers, Cycles
  <2> QED
    BY <2>1, <2>2 DEF IInv, TimersKnown, CyclesTimed
<1> QED
  BY <1>1, <1>2

\* The engine's functions, called from the middle of anything.
LEMMA SettersInv == ASSUME IInv, SetNextEvent \/ SetException PROVE IInv'
<1>1. TypeOK' /\ ControlShape'
  BY ClientConstants DEF IInv, TypeOK, SetNextEvent, SetException, timers, control,
                         ControlShape, InBranch, AllEvents
<1> QED
  BY <1>1, QuietInv DEF SetNextEvent, SetException, timers, control

LEMMA SetWakeupEventInv == ASSUME IInv, SetWakeupEvent PROVE IInv'
<1>1. AllOne /\ "wakeup" \in Kinds /\ "wakeup" \notin Cycles
  BY AllOneIff DEF IInv, TypeOK, Kinds, Cycles
<1>2. One(Restarted(timer["wakeup"], TRUE))
  BY <1>1, RestartedOne DEF AllOne
<1>3. timer' = [timer EXCEPT !["wakeup"] = Restarted(@, TRUE)]
  BY DEF SetWakeupEvent
<1>4. AllOne'
  BY <1>1, <1>2, <1>3 DEF AllOne, One
<1>5. TypeOK' /\ ControlShape'
  BY <1>4, ClientConstants, Zenon DEF IInv, TypeOK, SetWakeupEvent, AllOne, machine, control,
                               ControlShape, InBranch, AllEvents
<1>6. CyclesTimed'
  BY <1>1, <1>3 DEF IInv, CyclesTimed, SetWakeupEvent, control, AllOne, Kinds
<1> QED
  BY <1>4, <1>5, <1>6, AllOneNext DEF IInv

\* engine_set_heartbeat and engine_set_expiry: the cycle that is running may only be
\* switched off, and its timer is there no longer.
LEMMA SetIntervalInv ==
    ASSUME Rearm = FALSE, IInv, NEW k \in Cycles, SetInterval(k)
    PROVE  IInv'
<1>1. PICK on \in BOOLEAN :
        /\ on /\ by = k => Rearm
        /\ interval' = [interval EXCEPT ![k] = on]
        /\ timer' = IF HasTimer(k)
                    THEN [timer EXCEPT ![k] = Restarted(@, on)] ELSE timer
  BY DEF SetInterval
<1>2. AllOne /\ k \in Kinds
  BY AllOneIff DEF IInv, TypeOK, Kinds
<1>3. One(Restarted(timer[k], on)) /\ Restarted(timer[k], on).live = IF on THEN 1 ELSE 0
  BY <1>2, RestartedOne DEF AllOne
<1>4. AllOne'
  BY <1>1, <1>2, <1>3 DEF AllOne, One
<1>5. UNCHANGED <<alarm, machine, terminated, control, status>>
  BY DEF SetInterval
<1>6. interval' \in [Cycles -> BOOLEAN]
  BY <1>1 DEF IInv, TypeOK
<1>7. TypeOK' /\ ControlShape'
  BY <1>4, <1>5, <1>6 DEF IInv, TypeOK, AllOne, machine, control, ControlShape, InBranch
<1>8. CyclesTimed'
  <2> SUFFICES ASSUME NEW j \in Cycles
               PROVE IF j = by THEN timer'[j].live = 0 /\ HasTimer(j)
                     ELSE timer'[j].live = IF interval'[j] /\ HasTimer(j) THEN 1 ELSE 0
    BY <1>5 DEF CyclesTimed, control
  <2>1. CASE j # k
    <3>1. interval'[j] = interval[j]
      BY <1>1, <2>1 DEF IInv, TypeOK
    <3>2. timer'[j] = timer[j]
      BY <1>1, <1>2, <2>1 DEF AllOne, Kinds
    <3> QED
      BY <3>1, <3>2 DEF IInv, CyclesTimed
  <2>2. CASE j = k
    <3>1. interval'[k] = on
      BY <1>1 DEF IInv, TypeOK
    <3>2. CASE HasTimer(k)
      <4>1. timer'[k].live = IF on THEN 1 ELSE 0
        BY <1>1, <1>2, <1>3, <3>2 DEF AllOne
      <4> QED
        BY <1>1, <2>2, <3>1, <3>2, <4>1
    <3>3. CASE ~ HasTimer(k)
      BY <1>1, <2>2, <3>3 DEF IInv, CyclesTimed
    <3> QED
      BY <3>2, <3>3
  <2> QED
    BY <2>1, <2>2
<1> QED
  BY <1>4, <1>7, <1>8, AllOneNext DEF IInv

-------------------------------------------------------------------------------
\* The reactor's handlers.
LEMMA IdleTimed ==
    ASSUME IInv, Idle, NEW k \in Cycles
    PROVE  timer[k].live = IF interval[k] /\ HasTimer(k) THEN 1 ELSE 0
BY DEF IInv, Idle, At, ControlShape, CyclesTimed, Cycles

LEMMA CommandInv == ASSUME IInv, Command PROVE IInv'
<1>1. PICK m \in Methods : Execute("command", m, timer)
  BY DEF Command
<1>2. m \in AllEvents
  BY ClientConstants DEF AllEvents
<1>3. AllOne /\ "command" \notin Cycles
  BY AllOneIff DEF IInv, TypeOK, Cycles
<1>4. \A k \in Cycles : timer[k].live = IF interval[k] /\ HasTimer(k) THEN 1 ELSE 0
  BY IdleTimed DEF Command
<1>5. /\ timer \in [Kinds -> [known : {"none", "live", "dead"}, live : Nat]]
      /\ \A k \in Kinds : One(timer[k])
  BY <1>3 DEF AllOne
<1>6. terminated' \in BOOLEAN
  BY DEF Command, IInv, TypeOK
<1> QED
  BY <1>1, <1>2, <1>3, <1>4, <1>5, <1>6, ExecuteInv DEF Command

\* A message restarts the expiry timer.
LEMMA ReceiveInv == ASSUME IInv, Receive PROVE IInv'
<1>1. PICK m \in Messages \ {Malformed} :
        /\ terminated' = (m \notin Events)
        /\ Execute("message", IF m \in Events THEN m ELSE NoEvent, Reset(timer))
  BY DEF Receive
<1>2. AllOne /\ "message" \notin Cycles /\ "expired" \in Cycles /\ "expired" \in Kinds
  BY AllOneIff DEF IInv, TypeOK, Cycles, Kinds
<1>3. interval["expired"] \in BOOLEAN
  BY <1>2 DEF IInv, TypeOK
<1>4. LET t == Restarted(timer["expired"], interval["expired"])
      IN One(t) /\ t.live = IF interval["expired"] THEN 1 ELSE 0
  BY <1>2, <1>3, RestartedOne DEF AllOne
<1>5. \A k \in Cycles : timer[k].live = IF interval[k] /\ HasTimer(k) THEN 1 ELSE 0
  BY IdleTimed DEF Receive
<1>6. /\ Reset(timer) \in [Kinds -> [known : {"none", "live", "dead"}, live : Nat]]
      /\ \A k \in Kinds : One(Reset(timer)[k])
  BY <1>2, <1>4 DEF Reset, AllOne, One
<1>7. \A k \in Cycles :
        Reset(timer)[k].live = IF interval[k] /\ HasTimer(k) THEN 1 ELSE 0
  <2> SUFFICES ASSUME NEW k \in Cycles
               PROVE Reset(timer)[k].live = IF interval[k] /\ HasTimer(k) THEN 1 ELSE 0
    OBVIOUS
  <2>1. CASE k = "expired" /\ HasTimer(k)
    BY <1>2, <1>4, <2>1 DEF Reset, AllOne
  <2>2. CASE ~ (k = "expired" /\ HasTimer(k))
    <3>1. Reset(timer)[k] = timer[k]
      BY <1>2, <2>2 DEF Reset, AllOne, Kinds
    <3> QED
      BY <1>5, <3>1
  <2> QED
    BY <2>1, <2>2
<1>8. (IF m \in Events THEN m ELSE NoEvent) \in AllEvents
  BY DEF AllEvents
<1>9. terminated' \in BOOLEAN
  BY <1>1
<1> QED
  BY <1>1, <1>2, <1>6, <1>7, <1>8, <1>9, ExecuteInv DEF Receive

\* One timer fires: the one that is known, there being no other.
LEMMA HandleCycleInv == ASSUME IInv, NEW k \in Cycles, HandleCycle(k) PROVE IInv'
<1> DEFINE Left(t) == [timer EXCEPT ![k] = t]
<1>1. PICK t \in Fired(timer[k]) : Execute(k, k, Left(t))
  BY DEF HandleCycle
<1>2. AllOne /\ k \in Kinds
  BY AllOneIff DEF IInv, TypeOK, Kinds
<1>3. One(t) /\ t.live = 0 /\ timer[k].live = 1
  BY <1>2, FiredOne DEF AllOne
<1>4. \A j \in Cycles : timer[j].live = IF interval[j] /\ HasTimer(j) THEN 1 ELSE 0
  BY IdleTimed DEF HandleCycle
<1>5. HasTimer(k)
  BY <1>3, <1>4
<1>6. k \in AllEvents
  BY <1>5 DEF HasTimer, AllEvents
<1>7. /\ Left(t) \in
            [Kinds -> [known : {"none", "live", "dead"}, live : Nat]]
      /\ \A j \in Kinds : One(Left(t)[j])
  BY <1>2, <1>3 DEF AllOne, One
<1>8. \A j \in Cycles :
        IF j = k THEN Left(t)[j].live = 0 /\ HasTimer(j)
        ELSE Left(t)[j].live = IF interval[j] /\ HasTimer(j) THEN 1 ELSE 0
  BY <1>2, <1>3, <1>4, <1>5 DEF AllOne, Kinds
<1>9. terminated' \in BOOLEAN
  BY DEF HandleCycle, IInv, TypeOK
<1> HIDE DEF Left
<1> QED
  BY <1>1, <1>2, <1>6, <1>7, <1>8, <1>9, ExecuteInv DEF HandleCycle

LEMMA HandleWakeupInv == ASSUME IInv, HandleWakeup PROVE IInv'
<1> DEFINE Left(t) == [timer EXCEPT !["wakeup"] = t]
<1>1. PICK t \in Fired(timer["wakeup"]) : Execute("wakeup", alarm, Left(t))
  BY DEF HandleWakeup
<1>2. AllOne /\ "wakeup" \in Kinds /\ "wakeup" \notin Cycles
  BY AllOneIff DEF IInv, TypeOK, Kinds, Cycles
<1>3. One(t)
  BY <1>2, FiredOne DEF AllOne
<1>4. \A j \in Cycles : timer[j].live = IF interval[j] /\ HasTimer(j) THEN 1 ELSE 0
  BY IdleTimed DEF HandleWakeup
<1>5. alarm \in AllEvents /\ terminated' \in BOOLEAN
  BY DEF IInv, TypeOK, HandleWakeup
<1>6. /\ Left(t) \in
            [Kinds -> [known : {"none", "live", "dead"}, live : Nat]]
      /\ \A j \in Kinds : One(Left(t)[j])
  BY <1>2, <1>3 DEF AllOne, One
<1>7. \A j \in Cycles :
        Left(t)[j].live = IF interval[j] /\ HasTimer(j) THEN 1 ELSE 0
  BY <1>2, <1>4 DEF AllOne, Kinds
<1> HIDE DEF Left
<1> QED
  BY <1>1, <1>2, <1>5, <1>6, <1>7, ExecuteInv DEF HandleWakeup

LEMMA CallbackInv == ASSUME IInv, Callback PROVE IInv'
<1>1. TypeOK' /\ ControlShape'
  BY DEF IInv, TypeOK, Callback, machine, timers, ControlShape, InBranch
<1>2. by = "none" /\ by' = "callback" /\ UNCHANGED <<timer, interval>>
  BY DEF IInv, ControlShape, Callback, Idle, At, timers
<1> QED
  BY <1>1, <1>2 DEF IInv, TimersKnown, CyclesTimed, Cycles

LEMMA EndInv == ASSUME IInv, Term \/ ReceiveMalformed \/ Done PROVE IInv'
<1>1. TypeOK' /\ ControlShape'
  BY DEF IInv, TypeOK, Term, ReceiveMalformed, Done, vars, machine, timers, control,
         ControlShape, InBranch
<1> QED
  BY <1>1, QuietInv DEF Term, ReceiveMalformed, Done, vars, timers, control

LEMMA NextInv == ASSUME Rearm = FALSE, IInv, [Next]_vars PROVE IInv'
<1>1. CASE Engine
  BY <1>1, TopOfLoopInv, BodyStepInv, EndOfPassInv, HandlerReturnsInv, ReturnInv
     DEF Engine
<1>2. CASE AppCall
  BY <1>2, SettersInv, SetWakeupEventInv, SetIntervalInv DEF AppCall
<1>3. CASE Command \/ Traffic \/ HandleWakeup \/ Callback \/ Term \/ Done
  BY <1>3, CommandInv, ReceiveInv, HandleWakeupInv, CallbackInv, EndInv DEF Traffic
<1>4. CASE \E k \in Cycles : HandleCycle(k)
  BY <1>4, HandleCycleInv
<1>5. CASE UNCHANGED vars
  <2>1. TypeOK' /\ ControlShape'
    BY <1>5 DEF IInv, TypeOK, vars, machine, timers, control, ControlShape, InBranch
  <2> QED
    BY <1>5, <2>1, QuietInv DEF vars, timers, control
<1> QED
  BY <1>1, <1>2, <1>3, <1>4, <1>5 DEF Next

LEMMA Inductive == Rearm = FALSE => (Spec => []IInv)
<1> SUFFICES ASSUME Rearm = FALSE PROVE Spec => []IInv
  BY Zenon
<1>1. IInv /\ [Next]_vars => IInv'
  BY NextInv, Zenon
<1> QED
  BY <1>1, InitInv, PTL DEF Spec

\* No order of commands, messages, timers and engine calls takes the machine, its
\* timers or the loop of s_client_execute out of their types, for any dialog.
THEOREM ClientTypeCorrect == Rearm = FALSE => (Spec => []TypeOK)
<1>1. IInv => TypeOK
  BY DEF IInv
<1> QED
  BY <1>1, Inductive, PTL

\* Between events each interval that is set has its one timer in the reactor and the
\* engine knows its id, however handlers, messages and actions have ended and
\* restarted timers before: none is lost and none is left behind.
THEOREM ClientTimersMatch == Rearm = FALSE => (Spec => []TimersMatch)
<1>1. IInv => TimersMatch
  <2> SUFFICES ASSUME IInv, Idle PROVE
        /\ \A k \in Cycles :
             timer[k].live = IF interval[k] /\ HasTimer(k) THEN 1 ELSE 0
        /\ \A k \in Kinds : (timer[k].live = 1) <=> (timer[k].known = "live")
        /\ timer["wakeup"].live \in {0, 1}
    BY DEF TimersMatch
  <2>1. \A k \in Cycles : timer[k].live = IF interval[k] /\ HasTimer(k) THEN 1 ELSE 0
    BY IdleTimed
  <2> QED
    BY <2>1 DEF IInv, TimersKnown, Kinds
<1> QED
  BY <1>1, Inductive, PTL

\* A handler that starts its cycle again never finds the cycle's timer running: the
\* engine never has two timers of one kind, not even inside a handler.
THEOREM ClientTimersSingle == Rearm = FALSE => (Spec => []TimersKnown)
<1>1. IInv => TimersKnown
  BY DEF IInv
<1> QED
  BY <1>1, Inductive, PTL
===============================================================================
