----------------------------- MODULE ClientApiProofs ----------------------------
(***************************************************************************)
(* The caller and the actor of ClientApi, for every set of methods, every  *)
(* limit of the pipes and every order of the two threads: a call returns   *)
(* its own answer, and destroy ends the actor after its last message.      *)
(***************************************************************************)
EXTENDS ClientApi, SequenceTheorems, TLAPS

\* The methods that wait for an answer of the actor, and the replies that are one.
Waits(m) == m \in Methods /\ Accepts[m] # {}
Answering(r) == r.kind \notin Async \cup {"signal", "status"}

\* The caller waits for the answer to command c.
Awaits(c) == At("waiting") /\ Waits(c.call) /\ call = c.call /\ no = c.no

\* Whatever is still to be answered, or has been and is not read yet, is the call
\* that the caller waits in.
PendingIsCurrent ==
    /\ \A i \in 1..Len(commands) : Waits(commands[i].call) => Awaits(commands[i])
    /\ owed # Nothing => Awaits(owed)
    /\ \A i \in 1..Len(replies) : Answering(replies[i]) =>
            /\ At("waiting") /\ call \in Methods
            /\ replies[i].kind \in Accepts[call] /\ replies[i].no = no

\* That call is in one place only: a command, a debt of the actor, or a reply.
PendingOnce ==
    /\ \A i, j \in 1..Len(commands) :
            Waits(commands[i].call) /\ Waits(commands[j].call) => i = j
    /\ \A i, j \in 1..Len(replies) :
            Answering(replies[i]) /\ Answering(replies[j]) => i = j
    /\ \A i \in 1..Len(commands) : Waits(commands[i].call) => owed = Nothing
    /\ \A j \in 1..Len(replies) : Answering(replies[j]) => owed = Nothing
    /\ \A i \in 1..Len(commands), j \in 1..Len(replies) :
            ~ (Waits(commands[i].call) /\ Answering(replies[j]))

\* Before zclient_new has read the signal of the start nothing else has been sent.
StartShape ==
    /\ actor = "starting" => At("starting") /\ replies = <<>>
    /\ At("starting") => outbox = <<>>
    /\ At("asking") => call = "connected"

\* While the actor runs a signal in the pipe is that of the start, or that of the
\* flush, and then the messages before it are gone.
SignalsMean ==
    Running =>
        \A i \in 1..Len(replies) : replies[i] = Signal =>
            \/ At("starting") /\ i = 1
            \/ At("awaiting") /\ outbox = <<>>

SignalOnce ==
    Running => \A i, j \in 1..Len(replies) :
                    replies[i] = Signal /\ replies[j] = Signal => i = j

\* The flush is the last thing that is ever posted.
FlushIsLast ==
    Running =>
        \A i \in 1..Len(outbox) : outbox[i] = "flush" =>
            At("awaiting") /\ i = Len(outbox)

\* Once its signal has been read there is nothing in the pipe any more, be the
\* destructor's method under way or over.
Flushed == \/ pc \in {"draining", "ending"}
           \/ pc \in {"sending", "waiting"} /\ call = "destructor"
FlushedStays == Running /\ Flushed => outbox = <<>>

AnswerInv == TypeOK /\ PendingIsCurrent /\ PendingOnce
FlushParts == StartShape /\ SignalsMean /\ SignalOnce /\ FlushIsLast /\ FlushedStays
FlushInv == TypeOK /\ FlushParts

-------------------------------------------------------------------------------
\* What the next step sees of a pipe that it writes to or reads from.
LEMMA AppendFacts ==
    ASSUME NEW S, NEW q \in Seq(S), NEW x \in S
    PROVE  /\ Append(q, x) \in Seq(S)
           /\ Len(Append(q, x)) = Len(q) + 1 /\ Len(q) \in Nat
           /\ \A i \in 1..Len(q) : Append(q, x)[i] = q[i]
           /\ Append(q, x)[Len(q) + 1] = x
BY AppendProperties

LEMMA TailFacts ==
    ASSUME NEW S, NEW q \in Seq(S), q # <<>>
    PROVE  /\ Tail(q) \in Seq(S) /\ Head(q) \in S
           /\ Len(q) \in Nat \ {0} /\ Len(Tail(q)) = Len(q) - 1 /\ Head(q) = q[1]
           /\ \A i \in 1..Len(Tail(q)) : Tail(q)[i] = q[i + 1]
BY HeadTailProperties, LenProperties, EmptySeq

-------------------------------------------------------------------------------
LEMMA ReplyType ==
    ASSUME TypeOK, NEW r \in [kind : Kinds, no : Nat], Reply(r)
    PROVE  replies' \in Seq([kind : Kinds, no : Nat])
BY AppendFacts DEF TypeOK, Reply

LEMMA TypeInit == Init => TypeOK
<1> SUFFICES ASSUME Init PROVE TypeOK
  OBVIOUS
<1>1. /\ commands \in Seq([no : Nat, call : Calls \cup {"$TERM"}])
      /\ replies \in Seq([kind : Kinds, no : Nat])
      /\ outbox \in Seq({"message", "flush"})
  BY EmptySeq DEF Init
<1> QED
  BY <1>1 DEF Init, TypeOK, Calls

LEMMA TypeStep == TypeOK /\ [Next]_vars => TypeOK'
<1> SUFFICES ASSUME TypeOK, [Next]_vars PROVE TypeOK'
  OBVIOUS
<1> USE DEF TypeOK, At, caller, pipes, engine
<1>1. Signal \in [kind : Kinds, no : Nat]
  BY DEF Signal, Kinds
<1>2. CASE New
  BY <1>2, TailFacts DEF New
<1>3. CASE Call
  BY <1>3 DEF Call, Begin, Calls
<1>4. CASE SendCommand
  BY <1>4, AppendFacts DEF SendCommand, Return, Calls
<1>5. CASE AcceptReply
  BY <1>5, TailFacts DEF AcceptReply, Return
<1>6. CASE ReadStatus
  BY <1>6, TailFacts DEF ReadStatus, Return
<1>7. CASE SendMessage
  BY <1>7, AppendFacts DEF SendMessage
<1>8. CASE Recv
  BY <1>8 DEF Recv
<1>9. CASE Destroy
  BY <1>9 DEF Destroy, Calls
<1>10. CASE SendFlush
  BY <1>10, AppendFacts DEF SendFlush
<1>11. CASE AwaitFlushed
  BY <1>11, TailFacts DEF AwaitFlushed, Begin, Calls
<1>12. CASE Drain
  BY <1>12 DEF Drain, Pending
<1>13. CASE EndActor
  <2>1. [no |-> 0, call |-> "$TERM"] \in [no : Nat, call : Calls \cup {"$TERM"}]
    OBVIOUS
  <2> DEFINE T == [no : Nat, call : Calls \cup {"$TERM"}]
             end == [no |-> 0, call |-> "$TERM"]
  <2>2. CASE CanCommand
    <3>1. Append(commands, end) \in Seq(T)
      BY <2>1, AppendFacts
    <3>2. commands' = Append(commands, end) /\ pc' = "joining"
      BY <1>13, <2>2 DEF EndActor
    <3> QED
      BY <1>13, <3>1, <3>2 DEF EndActor
  <2>3. CASE ~ CanCommand
    BY <1>13, <2>3 DEF EndActor
  <2> QED
    BY <2>2, <2>3
<1>14. CASE Join
  BY <1>14, TailFacts DEF Join
<1>15. CASE StartActor
  BY <1>15, <1>1, ReplyType DEF StartActor
<1>16. CASE HandleTerm
  BY <1>16, TailFacts DEF HandleTerm
<1>17. CASE HandleConnected
  <2>1. Head(commands) \in [no : Nat, call : Calls \cup {"$TERM"}]
    BY <1>17, TailFacts DEF HandleConnected
  <2>2. [kind |-> "status", no |-> Head(commands).no] \in [kind : Kinds, no : Nat]
    BY <2>1 DEF Kinds
  <2> QED
    BY <1>17, <2>2, TailFacts, ReplyType DEF HandleConnected
<1>18. CASE HandleMethod
  <2>1. Head(commands) \in [no : Nat, call : Calls \cup {"$TERM"}]
    BY <1>18, TailFacts DEF HandleMethod
  <2>2. Head(commands) \in [no : Nat, call : Methods]
    BY <1>18, <2>1 DEF HandleMethod
  <2> QED
    BY <1>18, <2>2, TailFacts DEF HandleMethod
<1>19. CASE HandleMessage
  BY <1>19, <1>1, TailFacts, ReplyType DEF HandleMessage
<1>20. CASE ServerEvent
  BY <1>20 DEF ServerEvent
<1>21. CASE Halt
  BY <1>21 DEF Halt
<1>22. CASE Answer
  <2>1. PICK k \in Accepts[owed.call] : Reply([kind |-> k, no |-> owed.no])
    BY <1>22 DEF Answer
  <2>2. owed \in [no : Nat, call : Methods]
    BY <1>22 DEF Answer
  <2>3. [kind |-> k, no |-> owed.no] \in [kind : Kinds, no : Nat]
    BY <2>1, <2>2 DEF Kinds
  <2> QED
    BY <1>22, <2>1, <2>3, ReplyType DEF Answer
<1>23. CASE SendUnasked
  BY <1>23 DEF SendUnasked
<1>24. CASE Push
  BY <1>24 DEF Push
<1>25. CASE ReplyUnasked
  <2>1. PICK k \in Async : Reply([kind |-> k, no |-> 0])
    BY <1>25 DEF ReplyUnasked
  <2>2. [kind |-> k, no |-> 0] \in [kind : Kinds, no : Nat]
    BY <2>1 DEF Kinds
  <2> QED
    BY <1>25, <2>1, <2>2, ReplyType DEF ReplyUnasked
<1>26. CASE Terminate
  BY <1>26 DEF Terminate
<1>27. CASE EndService
  BY <1>27 DEF EndService
<1>28. CASE SignalEnd
  BY <1>28, <1>1, AppendFacts DEF SignalEnd
<1>29. CASE CloseActor
  BY <1>29 DEF CloseActor
<1>30. CASE UNCHANGED vars
  BY <1>30 DEF vars
<1> QED
  BY <1>2, <1>3, <1>4, <1>5, <1>6, <1>7, <1>8, <1>9, <1>10, <1>11, <1>12, <1>13,
     <1>14, <1>15, <1>16, <1>17, <1>18, <1>19, <1>20, <1>21, <1>22, <1>23, <1>24,
     <1>25, <1>26, <1>27, <1>28, <1>29, <1>30 DEF Next, InCall, Handler, InHandler

\* ApiTypeCorrect: the queues hold commands, replies and posts, and what the actor
\* owes is an answer to a method.
THEOREM ApiTypeCorrect == Spec => []TypeOK
BY TypeInit, TypeStep, PTL DEF Spec

-------------------------------------------------------------------------------
\* Nothing is to be answered unless the caller waits for it.
LEMMA NothingPending ==
    ASSUME AnswerInv, ~ At("waiting") \/ call \notin Methods
    PROVE  /\ \A i \in 1..Len(commands) : ~ Waits(commands[i].call)
           /\ owed = Nothing
           /\ \A i \in 1..Len(replies) : ~ Answering(replies[i])
BY DEF AnswerInv, PendingIsCurrent, Awaits, Waits

LEMMA NothingPendingNext ==
    ASSUME \A i \in 1..Len(commands') : ~ Waits(commands'[i].call),
           owed' = Nothing,
           \A i \in 1..Len(replies') : ~ Answering(replies'[i])
    PROVE  PendingIsCurrent' /\ PendingOnce'
BY DEF PendingIsCurrent, PendingOnce

\* A step that at most takes a command off the pipe and writes a reply that is no
\* answer leaves what is to be answered as it is.
Other == [kind : Kinds, no : Nat]

LEMMA Passing ==
    ASSUME AnswerInv, UNCHANGED <<pc, call, no, owed>>,
           commands' = commands \/ (commands # <<>> /\ commands' = Tail(commands)),
           replies' = replies
             \/ \E r \in Other : ~ Answering(r) /\ replies' = Append(replies, r)
    PROVE  PendingIsCurrent' /\ PendingOnce'
<1>1. PICK k \in {0, 1} :
        \A i \in 1..Len(commands') : /\ i + k \in 1..Len(commands)
                                   /\ commands'[i] = commands[i + k]
  <2>1. CASE commands' = commands
    <3>1. \A i \in 1..Len(commands') : /\ i + 0 \in 1..Len(commands)
                                     /\ commands'[i] = commands[i + 0]
      BY <2>1
    <3> QED
      BY <3>1
  <2>2. CASE commands # <<>> /\ commands' = Tail(commands)
    <3>1. /\ Len(commands) \in Nat /\ Len(commands') = Len(commands) - 1
          /\ \A i \in 1..Len(commands') : commands'[i] = commands[i + 1]
      BY <2>2, TailFacts DEF AnswerInv, TypeOK
    <3>2. \A i \in 1..Len(commands') : i + 1 \in 1..Len(commands)
      BY <3>1
    <3> QED
      BY <3>1, <3>2
  <2> QED
    BY <2>1, <2>2
<1>2. \A i \in 1..Len(replies') :
          Answering(replies'[i]) => i \in 1..Len(replies) /\ replies'[i] = replies[i]
  <2>1. CASE replies' = replies
    BY <2>1
  <2>2. ASSUME NEW r \in Other, ~ Answering(r), replies' = Append(replies, r)
        PROVE  \A i \in 1..Len(replies') :
                  Answering(replies'[i]) => i \in 1..Len(replies)
                                              /\ replies'[i] = replies[i]
    <3>1. /\ Len(replies) \in Nat /\ Len(replies') = Len(replies) + 1
          /\ \A i \in 1..Len(replies) : replies'[i] = replies[i]
          /\ replies'[Len(replies) + 1] = r
      BY <2>2, AppendFacts DEF AnswerInv, TypeOK, Other
    <3> QED
      BY <2>2, <3>1
  <2> QED
    BY <2>1, <2>2
<1>3. PendingIsCurrent'
  BY <1>1, <1>2, Zenon DEF AnswerInv, PendingIsCurrent, Awaits, At
<1>4. PendingOnce'
  <2>1. ASSUME NEW i \in 1..Len(commands'), NEW j \in 1..Len(commands'),
               Waits(commands'[i].call), Waits(commands'[j].call)
        PROVE  i = j
    <3>1. /\ i + k \in 1..Len(commands) /\ commands'[i] = commands[i + k]
          /\ j + k \in 1..Len(commands) /\ commands'[j] = commands[j + k]
      BY <1>1
    <3>2. i + k = j + k
      BY <2>1, <3>1 DEF AnswerInv, PendingOnce
    <3> QED
      BY <3>2
  <2>2. \A i, j \in 1..Len(replies') :
          Answering(replies'[i]) /\ Answering(replies'[j]) => i = j
    BY <1>2 DEF AnswerInv, PendingOnce
  <2>3. \A i \in 1..Len(commands') : Waits(commands'[i].call) => owed' = Nothing
    BY <1>1 DEF AnswerInv, PendingOnce
  <2>4. \A j \in 1..Len(replies') : Answering(replies'[j]) => owed' = Nothing
    BY <1>2 DEF AnswerInv, PendingOnce
  <2>5. \A i \in 1..Len(commands'), j \in 1..Len(replies') :
          ~ (Waits(commands'[i].call) /\ Answering(replies'[j]))
    BY <1>1, <1>2 DEF AnswerInv, PendingOnce
  <2> QED
    BY <2>1, <2>2, <2>3, <2>4, <2>5 DEF PendingOnce
<1> QED
  BY <1>3, <1>4

LEMMA AnswerInit == Init => PendingIsCurrent /\ PendingOnce
BY DEF Init, PendingIsCurrent, PendingOnce

\* A caller that is in no call, or gives up no answer, has nothing to be answered.
LEMMA CallerStep ==
    ASSUME AnswerInv, ~ At("waiting"),
           \A i \in 1..Len(commands') :
              Waits(commands'[i].call) =>
                  i \in 1..Len(commands) /\ commands'[i] = commands[i],
           replies' = replies \/ (replies # <<>> /\ replies' = Tail(replies)),
           owed' = owed
    PROVE  PendingIsCurrent' /\ PendingOnce'
<1>1. /\ \A i \in 1..Len(commands) : ~ Waits(commands[i].call)
      /\ owed = Nothing
      /\ \A i \in 1..Len(replies) : ~ Answering(replies[i])
  BY NothingPending
<1>2. \A i \in 1..Len(replies') : ~ Answering(replies'[i])
  <2>1. CASE replies # <<>> /\ replies' = Tail(replies)
    <3>1. /\ Len(replies) \in Nat /\ Len(replies') = Len(replies) - 1
          /\ \A i \in 1..Len(replies') : replies'[i] = replies[i + 1]
      BY <2>1, TailFacts DEF AnswerInv, TypeOK
    <3> QED
      BY <1>1, <3>1
  <2> QED
    BY <1>1, <2>1
<1> QED
  BY <1>1, <1>2, NothingPendingNext

LEMMA SendStep ==
    ASSUME AnswerInv, SendCommand
    PROVE  PendingIsCurrent' /\ PendingOnce'
<1> DEFINE c == [no |-> no, call |-> call]
<1>1. /\ \A i \in 1..Len(commands) : ~ Waits(commands[i].call)
      /\ owed = Nothing
      /\ \A i \in 1..Len(replies) : ~ Answering(replies[i])
  BY NothingPending DEF SendCommand, At
<1>2. c \in [no : Nat, call : Calls \cup {"$TERM"}]
  BY DEF AnswerInv, TypeOK
<1>3. commands' = Append(commands, c)
  BY DEF SendCommand
<1>4. /\ Len(commands) \in Nat /\ Len(commands') = Len(commands) + 1
      /\ \A i \in 1..Len(commands) : commands'[i] = commands[i]
      /\ commands'[Len(commands) + 1] = c
  BY <1>2, <1>3, AppendFacts DEF AnswerInv, TypeOK
<1>5. owed' = owed /\ replies' = replies /\ call' = call /\ no' = no
  BY DEF SendCommand, engine
<1>6. Waits(call) => pc' = "waiting"
  BY ApiConstants DEF SendCommand, Waits
<1>7. \A i \in 1..Len(commands') : Waits(commands'[i].call) =>
            i = Len(commands) + 1 /\ commands'[i].call = call /\ commands'[i].no = no
  BY <1>1, <1>4
<1>8. PendingIsCurrent'
  BY <1>1, <1>5, <1>6, <1>7 DEF PendingIsCurrent, Awaits, At
<1>9. PendingOnce'
  BY <1>1, <1>5, <1>7 DEF PendingOnce
<1> QED
  BY <1>8, <1>9

LEMMA AcceptStep ==
    ASSUME AnswerInv, AcceptReply
    PROVE  PendingIsCurrent' /\ PendingOnce'
<1>1. /\ Len(replies) \in Nat \ {0} /\ Len(replies') = Len(replies) - 1
      /\ Head(replies) = replies[1]
      /\ \A i \in 1..Len(replies') : replies'[i] = replies[i + 1]
  BY TailFacts DEF AcceptReply, AnswerInv, TypeOK
<1>2. /\ At("waiting") /\ UNCHANGED <<call, no, commands, owed>>
      /\ ~ Accepted(call, Head(replies)) => pc' = pc
  BY DEF AcceptReply, engine
<1>3. CASE pc' = pc
  <2>1. PendingIsCurrent'
    BY <1>1, <1>2, <1>3 DEF AnswerInv, PendingIsCurrent, Awaits, At
  <2>2. \A i \in 1..Len(replies') : i + 1 \in 1..Len(replies)
    BY <1>1
  <2>3. ASSUME NEW i \in 1..Len(replies'), NEW j \in 1..Len(replies'),
               Answering(replies'[i]), Answering(replies'[j])
        PROVE  i = j
    <3>1. i + 1 = j + 1
      BY <1>1, <2>2, <2>3 DEF AnswerInv, PendingOnce
    <3> QED
      BY <3>1
  <2>4. PendingOnce'
    BY <1>1, <1>2, <2>2, <2>3 DEF AnswerInv, PendingOnce
  <2> QED
    BY <2>1, <2>4
<1>4. CASE pc' # pc /\ call \notin Methods
  <2>1. /\ \A i \in 1..Len(commands) : ~ Waits(commands[i].call)
        /\ owed = Nothing
        /\ \A i \in 1..Len(replies) : ~ Answering(replies[i])
    BY <1>4, NothingPending
  <2> QED
    BY <1>1, <1>2, <2>1, NothingPendingNext
<1>5. CASE pc' # pc /\ call \in Methods
  <2>1. Answering(replies[1])
    BY <1>1, <1>2, <1>5, ApiConstants DEF Accepted, Answering
  <2>2. /\ \A i \in 1..Len(commands) : ~ Waits(commands[i].call)
        /\ owed = Nothing
        /\ \A i \in 1..Len(replies) : Answering(replies[i]) => i = 1
    BY <1>1, <2>1 DEF AnswerInv, PendingOnce
  <2>3. \A i \in 1..Len(replies') : ~ Answering(replies'[i])
    BY <1>1, <2>2
  <2> QED
    BY <1>2, <2>2, <2>3, NothingPendingNext
<1> QED
  BY <1>3, <1>4, <1>5

LEMMA MethodStep ==
    ASSUME AnswerInv, HandleMethod
    PROVE  PendingIsCurrent' /\ PendingOnce'
<1>1. /\ Len(commands) \in Nat \ {0} /\ Len(commands') = Len(commands) - 1
      /\ Head(commands) = commands[1]
      /\ \A i \in 1..Len(commands') : commands'[i] = commands[i + 1]
  BY TailFacts DEF HandleMethod, AnswerInv, TypeOK
<1>2. UNCHANGED <<pc, call, no, replies>> /\ owed' \in {owed, Head(commands)}
  BY DEF HandleMethod, caller
<1>3. CASE owed' = owed
  BY <1>2, <1>3, Passing DEF HandleMethod
<1>4. CASE owed' # owed
  <2>1. Waits(commands[1].call) /\ owed' = commands[1]
    BY <1>1, <1>4 DEF HandleMethod, Waits
  <2>2. /\ \A i \in 1..Len(commands') : ~ Waits(commands'[i].call)
        /\ \A i \in 1..Len(replies) : ~ Answering(replies[i])
        /\ Awaits(commands[1])
    BY <1>1, <2>1 DEF AnswerInv, PendingOnce, PendingIsCurrent
  <2>3. PendingIsCurrent'
    BY <1>2, <2>1, <2>2 DEF PendingIsCurrent, Awaits, At
  <2>4. PendingOnce'
    BY <1>2, <2>2 DEF PendingOnce
  <2> QED
    BY <2>3, <2>4
<1> QED
  BY <1>3, <1>4

LEMMA AnswerStep ==
    ASSUME AnswerInv, Answer
    PROVE  PendingIsCurrent' /\ PendingOnce'
<1>1. PICK k \in Accepts[owed.call] : Reply([kind |-> k, no |-> owed.no])
  BY DEF Answer
<1> DEFINE r == [kind |-> k, no |-> owed.no]
<1>2. Awaits(owed)
  BY DEF Answer, AnswerInv, PendingIsCurrent
<1>3. r \in [kind : Kinds, no : Nat] /\ Answering(r)
  BY <1>1, <1>2, ApiConstants DEF Awaits, Waits, Answering, Kinds, AnswerInv, TypeOK
<1>4. /\ \A i \in 1..Len(commands) : ~ Waits(commands[i].call)
      /\ \A i \in 1..Len(replies) : ~ Answering(replies[i])
  BY DEF Answer, AnswerInv, PendingOnce
<1>5. replies' = Append(replies, r) /\ owed' = Nothing
        /\ UNCHANGED <<pc, call, no, commands>>
  BY <1>1 DEF Answer, Reply, caller
<1>6. /\ Len(replies) \in Nat /\ Len(replies') = Len(replies) + 1
      /\ \A i \in 1..Len(replies) : replies'[i] = replies[i]
      /\ replies'[Len(replies) + 1] = r
  BY <1>3, <1>5, AppendFacts DEF AnswerInv, TypeOK
<1>7. \A i \in 1..Len(replies') : Answering(replies'[i]) =>
            /\ i = Len(replies) + 1
            /\ replies'[i].kind = k /\ replies'[i].no = owed.no
  BY <1>4, <1>6
<1>8. PendingIsCurrent'
  BY <1>1, <1>2, <1>4, <1>5, <1>7 DEF PendingIsCurrent, Awaits, At, Waits
<1>9. PendingOnce'
  BY <1>4, <1>5, <1>7 DEF PendingOnce
<1> QED
  BY <1>8, <1>9

LEMMA PendingStep == AnswerInv /\ [Next]_vars => PendingIsCurrent' /\ PendingOnce'
<1> SUFFICES ASSUME AnswerInv, [Next]_vars PROVE PendingIsCurrent' /\ PendingOnce'
  OBVIOUS
<1> USE DEF At, caller, pipes, engine
<1>2. Signal \in Other /\ ~ Answering(Signal)
  BY DEF Signal, Other, Kinds, Answering
<1>4. CASE New
  BY <1>4, CallerStep DEF New
<1>5. CASE ReadStatus
  BY <1>5, CallerStep DEF ReadStatus
<1>6. CASE SendMessage
  BY <1>6, CallerStep DEF SendMessage
<1>7. CASE Destroy
  BY <1>7, CallerStep DEF Destroy
<1>8. CASE SendFlush
  BY <1>8, CallerStep DEF SendFlush
<1>9. CASE Drain
  BY <1>9, CallerStep DEF Drain
<1>10. CASE Join
  BY <1>10, CallerStep DEF Join
<1>11. CASE Call
  BY <1>11, CallerStep DEF Call, Begin
<1>12. CASE AwaitFlushed
  BY <1>12, CallerStep DEF AwaitFlushed, Begin
<1>13. CASE EndActor
  <2>1. [no |-> 0, call |-> "$TERM"] \in [no : Nat, call : Calls \cup {"$TERM"}]
          /\ ~ Waits("$TERM")
    BY ApiConstants DEF Waits
  <2>2. \A i \in 1..Len(commands') : Waits(commands'[i].call) =>
            i \in 1..Len(commands) /\ commands'[i] = commands[i]
    <3> DEFINE T == [no : Nat, call : Calls \cup {"$TERM"}]
               end == [no |-> 0, call |-> "$TERM"]
    <3>1. CASE commands' = Append(commands, end)
      <4>1. /\ Len(commands) \in Nat /\ Len(commands') = Len(commands) + 1
            /\ \A i \in 1..Len(commands) : commands'[i] = commands[i]
            /\ commands'[Len(commands) + 1] = end
        BY <2>1, <3>1, AppendFacts DEF AnswerInv, TypeOK
      <4> QED
        BY <2>1, <4>1
    <3>2. CASE commands' = commands
      BY <3>2
    <3> QED
      BY <1>13, <3>1, <3>2 DEF EndActor
  <2> QED
    BY <1>13, <2>2, CallerStep DEF EndActor
<1>14. CASE SendCommand
  BY <1>14, SendStep
<1>15. CASE AcceptReply
  BY <1>15, AcceptStep
<1>16. CASE HandleMethod
  BY <1>16, MethodStep
<1>17. CASE Answer
  BY <1>17, AnswerStep
<1>18. CASE StartActor
  BY <1>18, <1>2, Passing DEF StartActor, Reply
<1>19. CASE HandleTerm
  BY <1>19, Passing DEF HandleTerm
<1>20. CASE HandleConnected
  <2> DEFINE r == [kind |-> "status", no |-> Head(commands).no]
  <2>1. Head(commands) \in [no : Nat, call : Calls \cup {"$TERM"}]
    BY <1>20, TailFacts DEF HandleConnected, AnswerInv, TypeOK
  <2>2. r \in Other /\ ~ Answering(r)
    BY <2>1 DEF Other, Kinds, Answering
  <2>3. commands # <<>> /\ commands' = Tail(commands) /\ replies' = Append(replies, r)
          /\ UNCHANGED <<pc, call, no, owed>>
    BY <1>20 DEF HandleConnected, Reply
  <2> QED
    BY <2>2, <2>3, Passing
<1>21. CASE HandleMessage
  BY <1>21, <1>2, Passing DEF HandleMessage, Reply
<1>22. CASE ReplyUnasked
  <2>1. PICK k \in Async : Reply([kind |-> k, no |-> 0])
    BY <1>22 DEF ReplyUnasked
  <2> DEFINE r == [kind |-> k, no |-> 0]
  <2>2. r \in Other /\ ~ Answering(r)
    BY DEF Other, Kinds, Answering
  <2>3. replies' = Append(replies, r) /\ UNCHANGED <<pc, call, no, commands, owed>>
    BY <1>22, <2>1 DEF ReplyUnasked, Reply
  <2> QED
    BY <2>2, <2>3, Passing
<1>23. CASE SignalEnd
  BY <1>23, <1>2, Passing DEF SignalEnd
<1>24. CASE Recv
  BY <1>24, Passing DEF Recv
<1>25. CASE ServerEvent
  BY <1>25, Passing DEF ServerEvent
<1>26. CASE Halt
  BY <1>26, Passing DEF Halt
<1>27. CASE SendUnasked
  BY <1>27, Passing DEF SendUnasked
<1>28. CASE Push
  BY <1>28, Passing DEF Push
<1>29. CASE Terminate
  BY <1>29, Passing DEF Terminate
<1>30. CASE EndService
  BY <1>30, Passing DEF EndService
<1>31. CASE CloseActor
  BY <1>31, Passing DEF CloseActor
<1>32. CASE UNCHANGED vars
  BY <1>32, Passing DEF vars
<1> QED
  BY <1>4, <1>5, <1>6, <1>7, <1>8, <1>9, <1>10, <1>11, <1>12, <1>13, <1>14, <1>15,
     <1>16, <1>17, <1>18, <1>19, <1>20, <1>21, <1>22, <1>23, <1>24, <1>25, <1>26,
     <1>27, <1>28, <1>29, <1>30, <1>31, <1>32 DEF Next, InCall, Handler, InHandler

\* A call returns its own answer: what the caller accepts for a method is the reply
\* that bears the number of its call.
LEMMA AnswerIsOwn ==
    ASSUME AnswerInv, [Next]_vars, At("waiting"), ~ At("waiting")', call \in Methods
    PROVE  Head(replies).no = no
<1>1. AcceptReply
  BY DEF Next, InCall, Handler, InHandler, At, vars, caller, pipes, engine, New, Call,
         SendCommand, ReadStatus, SendMessage, Recv, Destroy, SendFlush, AwaitFlushed,
         Drain, EndActor, Join, StartActor, HandleTerm, HandleConnected, HandleMethod,
         HandleMessage, ServerEvent, Halt, Answer, SendUnasked, Push, ReplyUnasked,
         Terminate, EndService, SignalEnd, CloseActor
<1>2. Len(replies) \in Nat \ {0} /\ Head(replies) = replies[1]
  BY <1>1, TailFacts DEF AcceptReply, AnswerInv, TypeOK
<1>3. replies[1].kind \in Accepts[call]
  BY <1>1, <1>2 DEF AcceptReply, Accepted, At
<1>4. Answering(replies[1])
  BY <1>3, ApiConstants DEF Answering
<1> QED
  BY <1>2, <1>4 DEF AnswerInv, PendingIsCurrent

\* CallsGetTheirAnswer: a method that waits returns the answer to its own call,
\* whatever the actor sends unasked and earlier calls have left in the pipe.
THEOREM CallsGetTheirAnswer == Spec => RightAnswer
<1>1. Init => AnswerInv
  BY TypeInit, AnswerInit DEF AnswerInv
<1>2. AnswerInv /\ [Next]_vars => AnswerInv'
  BY TypeStep, PendingStep DEF AnswerInv
<1>3. AnswerInv /\ [Next]_vars =>
        [At("waiting") /\ ~ At("waiting")' /\ call \in Methods
            => Head(replies).no = no]_vars
  BY AnswerIsOwn
<1> QED
  BY <1>1, <1>2, <1>3, PTL DEF Spec, RightAnswer

-------------------------------------------------------------------------------
LEMMA FlushInit == Init => FlushParts
BY DEF Init, FlushParts, StartShape, SignalsMean, SignalOnce, FlushIsLast,
       FlushedStays, Flushed, Running, At

\* The signals, and the flush, that are still there after a step are those that were.
LEMMA FlushKept ==
    ASSUME FlushInv, NEW a \in {0, 1}, NEW b \in {0, 1}, StartShape',
           Running' => Running,
           \A i \in 1..Len(replies') : replies'[i] = Signal =>
                i + a \in 1..Len(replies) /\ replies[i + a] = Signal,
           Len(outbox') = Len(outbox) - b,
           \A i \in 1..Len(outbox') :
                i + b \in 1..Len(outbox) /\ outbox'[i] = outbox[i + b],
           outbox = <<>> => outbox' = <<>>,
           pc' = pc,
           call' = call
    PROVE  FlushParts'
<1>1. Len(outbox) \in Nat
  BY DEF FlushInv, FlushParts, TypeOK
<1>2. SignalsMean'
  BY DEF FlushInv, FlushParts, SignalsMean, At
<1>3. SignalOnce'
  <2> SUFFICES ASSUME Running', NEW i \in 1..Len(replies'), NEW j \in 1..Len(replies'),
                      replies'[i] = Signal, replies'[j] = Signal
               PROVE  i = j
    BY DEF SignalOnce
  <2>1. i + a = j + a
    BY DEF FlushInv, FlushParts, SignalOnce
  <2> QED
    BY <2>1
<1>4. FlushIsLast'
  BY <1>1 DEF FlushInv, FlushParts, FlushIsLast, At
<1>5. FlushedStays'
  BY DEF FlushInv, FlushParts, FlushedStays, Flushed
<1> QED
  BY <1>2, <1>3, <1>4, <1>5 DEF FlushParts

\* Nothing is promised of an actor that has ended its reactor.
LEMMA FlushHalted ==
    ASSUME ~ Running', StartShape'
    PROVE  FlushParts'
BY DEF FlushParts, SignalsMean, SignalOnce, FlushIsLast, FlushedStays

\* Between the start and the flush there is no signal in the pipe and no flush.
LEMMA FlushQuiet ==
    ASSUME StartShape',
           Running' => /\ \A i \in 1..Len(replies') : replies'[i] # Signal
                       /\ \A i \in 1..Len(outbox') : outbox'[i] # "flush"
                       /\ Flushed' => outbox' = <<>>
    PROVE  FlushParts'
BY DEF FlushParts, SignalsMean, SignalOnce, FlushIsLast, FlushedStays

LEMMA NoSignal ==
    ASSUME FlushInv, Running, pc \notin {"starting", "awaiting"}
    PROVE  /\ \A i \in 1..Len(replies) : replies[i] # Signal
           /\ \A i \in 1..Len(outbox) : outbox[i] # "flush"
BY DEF FlushInv, FlushParts, SignalsMean, FlushIsLast, At

LEMMA TailNoSignal ==
    ASSUME FlushInv, replies # <<>>, replies' = Tail(replies),
           Running => \A i \in 1..Len(replies) : i # 1 => replies[i] # Signal
    PROVE  Running => \A i \in 1..Len(replies') : replies'[i] # Signal
BY TailFacts DEF FlushInv, TypeOK

LEMMA AppendNoSignal ==
    ASSUME FlushInv, NEW r \in Other, r # Signal, replies' = Append(replies, r)
    PROVE  \A i \in 1..Len(replies') : replies'[i] = Signal =>
                i + 0 \in 1..Len(replies) /\ replies[i + 0] = Signal
<1>1. /\ Len(replies) \in Nat /\ Len(replies') = Len(replies) + 1
      /\ \A i \in 1..Len(replies) : replies'[i] = replies[i]
      /\ replies'[Len(replies) + 1] = r
  BY AppendFacts DEF FlushInv, TypeOK, Other
<1> QED
  BY <1>1

\* A reply other than a signal, or none, changes nothing for the flush.
LEMMA FlushReply ==
    ASSUME FlushInv, StartShape', Running' => Running, UNCHANGED <<pc, call, outbox>>,
           replies' = replies
             \/ \E r \in Other : r # Signal /\ replies' = Append(replies, r)
    PROVE  FlushParts'
<1>1. \A i \in 1..Len(replies') : replies'[i] = Signal =>
            i + 0 \in 1..Len(replies) /\ replies[i + 0] = Signal
  <2>1. CASE replies' = replies
    BY <2>1 DEF FlushInv, TypeOK
  <2> QED
    BY <2>1, AppendNoSignal
<1>2. Len(outbox) \in Nat /\ Len(outbox') = Len(outbox) - 0
  BY DEF FlushInv, TypeOK
<1>3. \A i \in 1..Len(outbox') : i + 0 \in 1..Len(outbox) /\ outbox'[i] = outbox[i + 0]
  BY <1>2
<1>4. 0 \in {0, 1}
  OBVIOUS
<1> QED
  BY <1>1, <1>2, <1>3, <1>4, FlushKept, Zenon

LEMMA MessageStep ==
    ASSUME FlushInv, HandleMessage
    PROVE  FlushParts'
<1>1. /\ outbox # <<>> /\ outbox' = Tail(outbox) /\ Running
      /\ UNCHANGED <<pc, call, actor>>
  BY DEF HandleMessage, caller, engine, Running
<1>2. /\ Len(outbox) \in Nat \ {0} /\ Len(outbox') = Len(outbox) - 1
      /\ Head(outbox) = outbox[1]
      /\ \A i \in 1..Len(outbox') : i + 1 \in 1..Len(outbox)
                                 /\ outbox'[i] = outbox[i + 1]
      /\ outbox' \in Seq({"message", "flush"})
  BY <1>1, TailFacts DEF FlushInv, TypeOK
<1>3. StartShape'
  BY <1>1 DEF HandleMessage, FlushInv, FlushParts, StartShape, At
<1>4. CASE Head(outbox) = "flush"
  <2>1. At("awaiting") /\ Len(outbox) = 1
    <3>1. 1 \in 1..Len(outbox) /\ outbox[1] = "flush"
      BY <1>2, <1>4
    <3> QED
      BY <1>1, <3>1 DEF FlushInv, FlushParts, FlushIsLast
  <2>2. outbox' = <<>>
    BY <1>2, <2>1, EmptySeq
  <2>3. \A i \in 1..Len(replies) : replies[i] # Signal
    BY <1>1, <2>1 DEF FlushInv, FlushParts, SignalsMean, At
  <2>4. replies' = Append(replies, Signal) /\ Signal \in Other
    BY <1>4 DEF HandleMessage, Reply, Signal, Other, Kinds
  <2>5. \A i \in 1..Len(replies') : replies'[i] = Signal => i = Len(replies) + 1
    BY <2>3, <2>4, AppendFacts DEF FlushInv, TypeOK, Other
  <2>6. At("awaiting")' /\ ~ Flushed'
    BY <1>1, <2>1 DEF At, Flushed
  <2> QED
    BY <1>2, <1>3, <2>1, <2>2, <2>5, <2>6 DEF FlushParts, SignalsMean, SignalOnce,
       FlushIsLast, FlushedStays
<1>5. CASE Head(outbox) # "flush"
  <2>1. replies' = replies
    BY <1>5 DEF HandleMessage
  <2>2. \A i \in 1..Len(replies') : replies'[i] = Signal =>
              i + 0 \in 1..Len(replies) /\ replies[i + 0] = Signal
    BY <2>1 DEF FlushInv, TypeOK
  <2>3. 0 \in {0, 1} /\ 1 \in {0, 1} /\ (Running' => Running)
    BY <1>1
  <2> QED
    BY <1>1, <1>2, <1>3, <2>2, <2>3, FlushKept, Zenon
<1> QED
  BY <1>4, <1>5

LEMMA AwaitStep ==
    ASSUME FlushInv, AwaitFlushed
    PROVE  FlushParts'
<1>1. /\ At("awaiting") /\ replies # <<>> /\ replies' = Tail(replies)
      /\ outbox' = outbox /\ actor' = actor /\ (Running' <=> Running)
  BY DEF AwaitFlushed, engine, Running
<1>2. /\ Len(replies) \in Nat \ {0} /\ Head(replies) = replies[1]
      /\ Len(replies') = Len(replies) - 1
      /\ \A i \in 1..Len(replies') : i + 1 \in 1..Len(replies)
                                  /\ replies'[i] = replies[i + 1]
      /\ Len(outbox) \in Nat
  BY <1>1, TailFacts DEF FlushInv, TypeOK
<1>3. pc' \in {"awaiting", "draining", "sending"}
  BY DEF AwaitFlushed, Begin, caller, At
<1>4. StartShape'
  BY <1>1, <1>3 DEF FlushInv, FlushParts, StartShape, At
<1>5. CASE Head(replies) = Signal
  <2>1. ASSUME Running
        PROVE  /\ outbox = <<>>
               /\ \A i \in 1..Len(replies') : replies'[i] # Signal
    <3>1. 1 \in 1..Len(replies) /\ replies[1] = Signal
      BY <1>2, <1>5
    <3>2. outbox = <<>>
      BY <1>1, <2>1, <3>1 DEF FlushInv, FlushParts, SignalsMean, At
    <3>3. \A i \in 1..Len(replies) : replies[i] = Signal => i = 1
      BY <2>1, <3>1 DEF FlushInv, FlushParts, SignalOnce
    <3> QED
      BY <1>2, <3>2, <3>3
  <2>2. Running => \A i \in 1..Len(outbox') : outbox'[i] # "flush"
    BY <1>1, <2>1
  <2> QED
    BY <1>1, <1>4, <2>1, <2>2, FlushQuiet
<1>6. CASE Head(replies) # Signal
  <2>1. pc' = pc /\ call' = call
    BY <1>6 DEF AwaitFlushed, Awaited, caller
  <2>2. \A i \in 1..Len(replies') : replies'[i] = Signal =>
              i + 1 \in 1..Len(replies) /\ replies[i + 1] = Signal
    BY <1>2
  <2>3. /\ Len(outbox') = Len(outbox) - 0
        /\ \A i \in 1..Len(outbox') : i + 0 \in 1..Len(outbox)
                                   /\ outbox'[i] = outbox[i + 0]
        /\ 0 \in {0, 1} /\ 1 \in {0, 1} /\ (outbox = <<>> => outbox' = <<>>)
    BY <1>1, <1>2
  <2> QED
    BY <1>1, <1>4, <2>1, <2>2, <2>3, FlushKept, Zenon
<1> QED
  BY <1>5, <1>6

LEMMA FlushStep == FlushInv /\ [Next]_vars => FlushParts'
<1> SUFFICES ASSUME FlushInv, [Next]_vars PROVE FlushParts'
  OBVIOUS
<1> USE DEF At, caller, pipes, engine
<1>1. /\ actor = "starting" => pc = "starting" /\ replies = <<>>
      /\ pc = "starting" => outbox = <<>>
      /\ pc = "asking" => call = "connected"
  BY DEF FlushInv, FlushParts, StartShape
<1>2. CASE Call
  <2>1. StartShape'
    BY <1>1, <1>2 DEF Call, Begin, StartShape
  <2>2. (Running' <=> Running) /\ outbox' = outbox
    BY <1>2 DEF Call, Running
  <2>3. Running => /\ \A i \in 1..Len(replies') : replies'[i] # Signal
                   /\ \A i \in 1..Len(outbox) : outbox[i] # "flush"
    BY <1>2, NoSignal DEF Call
  <2>4. Running' /\ Flushed' => outbox' = <<>>
    BY <1>1, <1>2, <2>2, ApiConstants DEF Call, Begin, Flushed, FlushedStays,
       FlushInv, FlushParts
  <2> QED
    BY <2>1, <2>2, <2>3, <2>4, FlushQuiet
<1>3. CASE SendCommand
  <2>1. StartShape'
    BY <1>1, <1>3 DEF SendCommand, Return, StartShape
  <2>2. (Running' <=> Running) /\ outbox' = outbox
    BY <1>3 DEF SendCommand, Running
  <2>3. Running => /\ \A i \in 1..Len(replies') : replies'[i] # Signal
                   /\ \A i \in 1..Len(outbox) : outbox[i] # "flush"
    BY <1>3, NoSignal DEF SendCommand
  <2>4. Running' /\ Flushed' => outbox' = <<>>
    BY <1>1, <1>3, <2>2, ApiConstants DEF SendCommand, Return, Flushed,
       FlushedStays, FlushInv, FlushParts
  <2> QED
    BY <2>1, <2>2, <2>3, <2>4, FlushQuiet
<1>4. CASE AcceptReply
  <2>1. StartShape'
    BY <1>1, <1>4 DEF AcceptReply, Return, StartShape
  <2>2. (Running' <=> Running) /\ outbox' = outbox
    BY <1>4 DEF AcceptReply, Running
  <2>3. Running => /\ \A i \in 1..Len(replies') : replies'[i] # Signal
                   /\ \A i \in 1..Len(outbox) : outbox[i] # "flush"
    BY <1>4, NoSignal, TailNoSignal DEF AcceptReply
  <2>4. Running' /\ Flushed' => outbox' = <<>>
    BY <1>1, <1>4, <2>2, ApiConstants DEF AcceptReply, Return, Flushed,
       FlushedStays, FlushInv, FlushParts
  <2> QED
    BY <2>1, <2>2, <2>3, <2>4, FlushQuiet
<1>5. CASE ReadStatus
  <2>1. StartShape'
    BY <1>1, <1>5 DEF ReadStatus, Return, StartShape
  <2>2. (Running' <=> Running) /\ outbox' = outbox
    BY <1>5 DEF ReadStatus, Running
  <2>3. Running => /\ \A i \in 1..Len(replies') : replies'[i] # Signal
                   /\ \A i \in 1..Len(outbox) : outbox[i] # "flush"
    BY <1>5, NoSignal, TailNoSignal DEF ReadStatus
  <2>4. Running' /\ Flushed' => outbox' = <<>>
    BY <1>1, <1>5, <2>2, ApiConstants DEF ReadStatus, Return, Flushed, FlushedStays,
       FlushInv, FlushParts
  <2> QED
    BY <2>1, <2>2, <2>3, <2>4, FlushQuiet
<1>6. CASE Destroy
  <2>1. StartShape'
    BY <1>1, <1>6 DEF Destroy, StartShape
  <2>2. (Running' <=> Running) /\ outbox' = outbox
    BY <1>6 DEF Destroy, Running
  <2>3. Running => /\ \A i \in 1..Len(replies') : replies'[i] # Signal
                   /\ \A i \in 1..Len(outbox) : outbox[i] # "flush"
    BY <1>6, NoSignal DEF Destroy
  <2>4. Running' /\ Flushed' => outbox' = <<>>
    BY <1>1, <1>6, <2>2, ApiConstants DEF Destroy, Flushed, FlushedStays, FlushInv,
       FlushParts
  <2> QED
    BY <2>1, <2>2, <2>3, <2>4, FlushQuiet
<1>7. CASE Drain
  <2>1. StartShape'
    BY <1>1, <1>7 DEF Drain, StartShape
  <2>2. (Running' <=> Running) /\ outbox' = outbox
    BY <1>7 DEF Drain, Running
  <2>3. Running => /\ \A i \in 1..Len(replies') : replies'[i] # Signal
                   /\ \A i \in 1..Len(outbox) : outbox[i] # "flush"
    BY <1>7, NoSignal DEF Drain
  <2>4. Running' /\ Flushed' => outbox' = <<>>
    BY <1>1, <1>7, <2>2, ApiConstants DEF Drain, Flushed, FlushedStays, FlushInv,
       FlushParts
  <2> QED
    BY <2>1, <2>2, <2>3, <2>4, FlushQuiet
<1>8. CASE EndActor
  <2>1. StartShape'
    BY <1>1, <1>8 DEF EndActor, StartShape
  <2>2. (Running' <=> Running) /\ outbox' = outbox
    BY <1>8 DEF EndActor, Running
  <2>3. Running => /\ \A i \in 1..Len(replies') : replies'[i] # Signal
                   /\ \A i \in 1..Len(outbox) : outbox[i] # "flush"
    BY <1>8, NoSignal DEF EndActor
  <2>4. Running' /\ Flushed' => outbox' = <<>>
    BY <1>1, <1>8, <2>2, ApiConstants DEF EndActor, Flushed, FlushedStays, FlushInv,
       FlushParts
  <2> QED
    BY <2>1, <2>2, <2>3, <2>4, FlushQuiet
<1>9. CASE Join
  <2>1. StartShape'
    BY <1>1, <1>9 DEF Join, StartShape
  <2>2. (Running' <=> Running) /\ outbox' = outbox
    BY <1>9 DEF Join, Running
  <2>3. Running => /\ \A i \in 1..Len(replies') : replies'[i] # Signal
                   /\ \A i \in 1..Len(outbox) : outbox[i] # "flush"
    BY <1>9, NoSignal, TailNoSignal DEF Join
  <2>4. Running' /\ Flushed' => outbox' = <<>>
    BY <1>1, <1>9, <2>2, ApiConstants DEF Join, Flushed, FlushedStays, FlushInv,
       FlushParts
  <2> QED
    BY <2>1, <2>2, <2>3, <2>4, FlushQuiet
<1>10. CASE New
  <2>1. StartShape'
    BY <1>1, <1>10 DEF New, StartShape
  <2>2. (Running' <=> Running) /\ outbox' = outbox /\ outbox = <<>>
    BY <1>1, <1>10 DEF New, Running
  <2>3. Running => \A i \in 1..Len(replies) : i # 1 => replies[i] # Signal
    BY <1>10 DEF New, FlushInv, FlushParts, SignalsMean
  <2>4. Running => \A i \in 1..Len(replies') : replies'[i] # Signal
    BY <1>10, <2>3, TailNoSignal DEF New
  <2>5. \A i \in 1..Len(outbox') : outbox'[i] # "flush"
    BY <2>2
  <2> QED
    BY <2>1, <2>2, <2>4, <2>5, FlushQuiet
<1>11. CASE SendMessage
  <2>1. StartShape'
    BY <1>1, <1>11 DEF SendMessage, StartShape, CanPost, Running
  <2>2. Running /\ ~ Flushed' /\ replies' = replies
    BY <1>11 DEF SendMessage, CanPost, Flushed
  <2>3. /\ \A i \in 1..Len(replies) : replies[i] # Signal
        /\ \A i \in 1..Len(outbox) : outbox[i] # "flush"
    BY <1>11, <2>2, NoSignal DEF SendMessage
  <2>4. outbox' = Append(outbox, "message") /\ "message" \in {"message", "flush"}
    BY <1>11 DEF SendMessage
  <2>5. \A i \in 1..Len(outbox') : outbox'[i] # "flush"
    BY <2>3, <2>4, AppendFacts DEF FlushInv, TypeOK
  <2> QED
    BY <2>1, <2>2, <2>3, <2>5, FlushQuiet
<1>12. CASE SendFlush
  <2>1. StartShape'
    BY <1>1, <1>12 DEF SendFlush, StartShape, CanPost, Running
  <2>2. Running /\ ~ Flushed' /\ replies' = replies
    BY <1>12 DEF SendFlush, CanPost, Flushed
  <2>3. /\ \A i \in 1..Len(replies) : replies[i] # Signal
        /\ \A i \in 1..Len(outbox) : outbox[i] # "flush"
    BY <1>12, <2>2, NoSignal DEF SendFlush
  <2>4. outbox' = Append(outbox, "flush") /\ "flush" \in {"message", "flush"}
          /\ pc' = "awaiting"
    BY <1>12 DEF SendFlush
  <2>5. \A i \in 1..Len(outbox') : outbox'[i] = "flush" => i = Len(outbox')
    BY <2>3, <2>4, AppendFacts DEF FlushInv, TypeOK
  <2> QED
    BY <2>1, <2>2, <2>3, <2>4, <2>5 DEF FlushParts, SignalsMean, SignalOnce,
       FlushIsLast,
       FlushedStays
<1>13. CASE AwaitFlushed
  BY <1>13, AwaitStep
<1>14. CASE HandleMessage
  BY <1>14, MessageStep
<1>15. CASE StartActor
  <2>1. /\ replies = <<>> /\ outbox' = <<>> /\ pc' = "starting"
        /\ replies' = Append(<<>>, Signal) /\ actor' # "starting"
    BY <1>1, <1>15 DEF StartActor, Reply
  <2>2. Len(replies') = 1 /\ Len(outbox') = 0
    BY <2>1
  <2> QED
    BY <2>1, <2>2 DEF FlushParts, StartShape, SignalsMean, SignalOnce, FlushIsLast,
       FlushedStays
<1>16. CASE HandleTerm
  BY <1>1, <1>16, FlushHalted DEF HandleTerm, Running, StartShape
<1>17. CASE Halt
  BY <1>1, <1>17, FlushHalted DEF Halt, Running, StartShape
<1>18. CASE SignalEnd
  BY <1>1, <1>18, FlushHalted DEF SignalEnd, Running, StartShape
<1>19. CASE CloseActor
  BY <1>1, <1>19, FlushHalted DEF CloseActor, Running, StartShape
<1>20. CASE Recv
  <2>1. StartShape' /\ (Running' => Running)
    BY <1>1, <1>20 DEF Recv, StartShape, Running
  <2> QED
    BY <1>20, <2>1, FlushReply DEF Recv
<1>21. CASE HandleMethod
  <2>1. StartShape' /\ (Running' => Running)
    BY <1>1, <1>21 DEF HandleMethod, StartShape, Running
  <2> QED
    BY <1>21, <2>1, FlushReply DEF HandleMethod
<1>22. CASE ServerEvent
  <2>1. StartShape' /\ (Running' => Running)
    BY <1>1, <1>22 DEF ServerEvent, StartShape, Running
  <2> QED
    BY <1>22, <2>1, FlushReply DEF ServerEvent
<1>23. CASE SendUnasked
  <2>1. StartShape' /\ (Running' => Running)
    BY <1>1, <1>23 DEF SendUnasked, StartShape, Running
  <2> QED
    BY <1>23, <2>1, FlushReply DEF SendUnasked
<1>24. CASE Push
  <2>1. StartShape' /\ (Running' => Running)
    BY <1>1, <1>24 DEF Push, StartShape, Running
  <2> QED
    BY <1>24, <2>1, FlushReply DEF Push
<1>25. CASE Terminate
  <2>1. StartShape' /\ (Running' => Running)
    BY <1>1, <1>25 DEF Terminate, StartShape, Running
  <2> QED
    BY <1>25, <2>1, FlushReply DEF Terminate
<1>26. CASE EndService
  <2>1. StartShape' /\ (Running' => Running)
    BY <1>1, <1>26 DEF EndService, StartShape, Running
  <2> QED
    BY <1>26, <2>1, FlushReply DEF EndService
<1>27. CASE HandleConnected
  <2> DEFINE r == [kind |-> "status", no |-> Head(commands).no]
  <2>1. Head(commands) \in [no : Nat, call : Calls \cup {"$TERM"}]
    BY <1>27, TailFacts DEF HandleConnected, FlushInv, TypeOK
  <2>2. r \in Other /\ r # Signal
    BY <2>1 DEF Other, Kinds, Signal
  <2>3. replies' = Append(replies, r) /\ UNCHANGED <<pc, call, outbox, actor>>
    BY <1>27 DEF HandleConnected, Reply
  <2>4. StartShape' /\ (Running' => Running)
    BY <1>1, <1>27, <2>3 DEF HandleConnected, StartShape, Running
  <2> QED
    BY <2>2, <2>3, <2>4, FlushReply
<1>28. CASE Answer
  <2>1. PICK k \in Accepts[owed.call] : Reply([kind |-> k, no |-> owed.no])
    BY <1>28 DEF Answer
  <2> DEFINE r == [kind |-> k, no |-> owed.no]
  <2>2. owed \in [no : Nat, call : Methods]
    BY <1>28 DEF Answer, FlushInv, TypeOK
  <2>3. r \in Other
    BY <2>1, <2>2 DEF Other, Kinds
  <2>4. r # Signal
    BY <2>1, <2>2, ApiConstants DEF Signal
  <2>5. replies' = Append(replies, r) /\ UNCHANGED <<pc, call, outbox, actor>>
    BY <1>28, <2>1 DEF Answer, Reply
  <2>6. StartShape' /\ (Running' => Running)
    BY <1>1, <1>28, <2>5 DEF Answer, StartShape, Running
  <2> QED
    BY <2>3, <2>4, <2>5, <2>6, FlushReply
<1>29. CASE ReplyUnasked
  <2>1. PICK k \in Async : Reply([kind |-> k, no |-> 0])
    BY <1>29 DEF ReplyUnasked
  <2> DEFINE r == [kind |-> k, no |-> 0]
  <2>2. r \in Other
    BY DEF Other, Kinds
  <2>3. r # Signal
    BY <2>1, ApiConstants DEF Signal
  <2>4. replies' = Append(replies, r) /\ UNCHANGED <<pc, call, outbox>>
    BY <1>29, <2>1 DEF ReplyUnasked, Reply
  <2>5. StartShape' /\ (Running' => Running)
    BY <1>1, <1>29, <2>4 DEF ReplyUnasked, StartShape, Running
  <2> QED
    BY <2>2, <2>3, <2>4, <2>5, FlushReply
<1>30. CASE UNCHANGED vars
  <2>1. StartShape' /\ (Running' => Running)
    BY <1>1, <1>30 DEF vars, StartShape, Running
  <2> QED
    BY <1>30, <2>1, FlushReply DEF vars
<1> QED
  BY <1>2, <1>3, <1>4, <1>5, <1>6, <1>7, <1>8, <1>9, <1>10, <1>11, <1>12, <1>13,
     <1>14, <1>15, <1>16, <1>17, <1>18, <1>19, <1>20, <1>21, <1>22, <1>23, <1>24,
     <1>25, <1>26, <1>27, <1>28, <1>29, <1>30 DEF Next, InCall, Handler, InHandler

\* FlushBeforeEnd: when destroy goes on to end an actor that runs, the actor has taken
\* each message that the caller sent before.
THEOREM FlushBeforeEnd == Spec => []FlushedBeforeEnd
<1>1. Init => FlushInv
  BY TypeInit, FlushInit DEF FlushInv
<1>2. FlushInv /\ [Next]_vars => FlushInv'
  BY TypeStep, FlushStep DEF FlushInv
<1>3. FlushInv => FlushedBeforeEnd
  BY DEF FlushInv, FlushParts, FlushedStays, Flushed, FlushedBeforeEnd
<1> QED
  BY <1>1, <1>2, <1>3, PTL DEF Spec
================================================================================
