--------------------------- MODULE ServerEngineProofs ---------------------------
(***************************************************************************)
(* The contexts of ServerEngine for every dialog, every number of peers,   *)
(* contexts and references and every depth of nesting, provided no action  *)
(* re-enters a machine that is running (Reentry = "never").                *)
(***************************************************************************)
EXTENDS ServerEngine, FiniteSetTheorems, SequenceTheorems, TLAPS

\* What the frames of the call stack have in common besides StackIsLive: which
\* ones have a context, where client_initialize runs, that a branch exists for
\* the event being handled, and that a broadcast still has only contexts ahead
\* that none of its callers is running.
Shape(i) ==
    /\ frame[i].pc \in {"top", "body", "init"} => frame[i].c # NoCtx
    /\ frame[i].pc = "init" => i = 1 /\ clients[key[frame[i].c]] = NoCtx
    /\ frame[i].pc \in {"body", "app"} /\ frame[i].c # NoCtx =>
            Handled(frame[i].st, frame[i].ev)
    /\ frame[i].pc = "bcast" =>
        /\ i < MaxDepth
        /\ \A k \in frame[i].keys, j \in 1..(i - 1) :
            clients[k] \notin {frame[i].c, NoCtx} /\ Active(j) =>
                frame[j].c # clients[k]
FrameShape == \A i \in 1..depth : Shape(i)

IInv == /\ TypeOK
        /\ FrameShape
        /\ StackIsLive
        /\ RegistryConsistent
        /\ ReferencesCounted
        /\ TimersMatch

-------------------------------------------------------------------------------
\* A branch of the switch is a sequence of steps.
LEMMA ProgramType ==
    ASSUME NEW s \in States, NEW e, Handled(s, e)
    PROVE  Program(s, e) \in Seq(Step)
<1> DEFINE b == Branch(s, e)
<1>1. b \in Branches
  BY DialogAssumption DEF Branch, Handled
<1>2. b.acts \in Seq(Step) /\ b.next \in States \cup {NoState}
  BY <1>1 DEF Branches
<1>3. CASE b.next = NoState
  BY <1>2, <1>3 DEF Program
<1>4. CASE b.next # NoState
  <2>1. b.next \in States
    BY <1>2, <1>4
  <2>2. After[s] \in Seq(Step) /\ Before[b.next] \in Seq(Step)
    BY <2>1, DialogAssumption
  <2>3. [op |-> "goto", to |-> b.next] \in Step
    BY <2>1 DEF Step
  <2>4. Goto(b.next) \in Seq(Step)
    BY <2>3 DEF Goto
  <2>5. (b.acts \o After[s]) \in Seq(Step)
    BY <1>2, <2>2, ConcatProperties
  <2>6. ((b.acts \o After[s]) \o Goto(b.next)) \in Seq(Step)
    BY <2>4, <2>5, ConcatProperties
  <2>7. (((b.acts \o After[s]) \o Goto(b.next)) \o Before[b.next]) \in Seq(Step)
    BY <2>2, <2>6, ConcatProperties
  <2> QED
    BY <1>4, <2>7 DEF Program
<1> QED
  BY <1>3, <1>4

LEMMA InitInv == Init => IInv
<1> SUFFICES ASSUME Init PROVE IInv
  OBVIOUS
<1> USE ConstantsAssumption DEF Init
<1>1. Blank \in Frame
  BY DEF Blank, Frame, AllEvents
<1>2. TypeOK
  <2>1. (CHOOSE k \in Ids : TRUE) \in Ids
    BY Zenon
  <2>2. key \in [Ctx -> Ids]
    BY <2>1
  <2> QED
    BY <1>1, <2>2 DEF TypeOK, AllEvents
<1>3. FrameShape /\ StackIsLive
  BY DEF FrameShape, StackIsLive
<1>4. RegistryConsistent /\ TimersMatch /\ ReferencesCounted
  BY DEF RegistryConsistent, TimersMatch, ReferencesCounted, Live
<1> QED
  BY <1>2, <1>3, <1>4 DEF IInv

-------------------------------------------------------------------------------
\* The frame at the top.

LEMMA TopType ==
    ASSUME TypeOK, depth > 0
    PROVE  /\ depth \in 1..MaxDepth /\ MaxDepth \in Nat
           /\ Top = frame[depth]
           /\ Top.c \in Ctx \cup {NoCtx}
           /\ Top.st \in States
           /\ Top.ev \in AllEvents
           /\ Top.at \in Nat
           /\ Top.keys \subseteq Ids
           /\ Top.pc \in {"top", "body", "app", "init", "bcast"}
<1>1. depth \in 1..MaxDepth /\ MaxDepth \in Nat
  BY ConstantsAssumption DEF TypeOK
<1>2. frame[depth] \in Frame
  BY <1>1 DEF TypeOK
<1> QED
  BY <1>1, <1>2 DEF Top, Frame

\* The context of the machine at the top is live and in the table.
LEMMA TopLive ==
    ASSUME IInv, depth > 0, Top.pc \in {"top", "body", "app", "init"},
           Top.c # NoCtx
    PROVE  /\ Top.c \in Ctx
           /\ Live(Top.c)
           /\ key[Top.c] \in Ids
           /\ Top.pc # "init" => clients[key[Top.c]] = Top.c
           /\ \A j \in 1..(depth - 1) : Active(j) => frame[j].c # Top.c
<1>1. depth \in 1..MaxDepth /\ Top = frame[depth] /\ Top.c \in Ctx
  BY TopType DEF IInv
<1>2. Active(depth)
  BY <1>1 DEF Active
<1>3. depth \in 1..depth /\ \A j \in 1..(depth - 1) : j \in 1..depth /\ j # depth
  BY <1>1, ConstantsAssumption
<1> QED
  BY <1>1, <1>2, <1>3 DEF IInv, StackIsLive, TypeOK

\* A frame keeps its shape while the calls below it stay and the table of
\* clients only loses entries.
LEMMA ShapeKept ==
    ASSUME TypeOK, FrameShape, NEW i \in 1..depth,
           \A j \in 1..i : frame'[j] = frame[j],
           \A k \in Ids : clients'[k] \in {clients[k], NoCtx},
           key' = key
    PROVE  Shape(i)'
<1>1. /\ i \in 1..MaxDepth /\ MaxDepth \in Nat /\ depth \in Nat /\ i \in 1..i
      /\ \A j \in 1..(i - 1) : j \in 1..i
  BY ConstantsAssumption DEF TypeOK
<1>2. frame[i] \in Frame /\ frame'[i] = frame[i] /\ Shape(i)
  BY <1>1 DEF TypeOK, FrameShape
<1>3. frame[i].c \in Ctx \cup {NoCtx} /\ frame[i].keys \subseteq Ids
  BY <1>2 DEF Frame
<1>4. frame[i].pc = "init" => clients'[key'[frame[i].c]] = NoCtx
  BY <1>2, <1>3 DEF Shape, TypeOK
<1>5. \A j \in 1..(i - 1) : Active(j)' <=> Active(j)
  BY <1>1 DEF Active
<1>6. ASSUME frame[i].pc = "bcast", NEW k \in frame[i].keys, NEW j \in 1..(i - 1),
             clients'[k] \notin {frame[i].c, NoCtx}, Active(j)'
      PROVE  frame'[j].c # clients'[k]
  <2>1. clients'[k] = clients[k]
    BY <1>3, <1>6
  <2> QED
    BY <1>1, <1>2, <1>5, <1>6, <2>1 DEF Shape
<1> QED
  BY <1>2, <1>4, <1>6 DEF Shape

\* The count of holders of a context.
LEMMA HoldersCount ==
    ASSUME TypeOK, NEW c
    PROVE  /\ IsFiniteSet(Holders(c))
           /\ Cardinality(Holders(c)) \in Nat
           /\ (Cardinality(Holders(c)) = 0) <=> \A s \in Slots : slot[s] # c
<1>1. IsFiniteSet(Slots) /\ Holders(c) \subseteq Slots
  BY ConstantsAssumption DEF Holders
<1>2. IsFiniteSet(Holders(c))
  BY <1>1, FS_Subset
<1>3. Cardinality(Holders(c)) \in Nat
  BY <1>2, FS_CardinalityType
<1>4. (Cardinality(Holders(c)) = 0) <=> Holders(c) = {}
  BY <1>2, FS_EmptySet
<1> QED
  BY <1>2, <1>3, <1>4 DEF Holders

-------------------------------------------------------------------------------
\* The ways in which an action changes the call stack.

\* Nothing the invariant speaks of changes, but the actor may abort.
LEMMA QuietInv ==
    ASSUME IInv, TypeOK', status' = "running" => status = "running",
           UNCHANGED <<mem, key, ref, slot, clients, fsm, timers, depth, frame>>
    PROVE  IInv'
<1>1. UNCHANGED <<mem, key, ref, slot, clients, fsm, depth, frame,
                  wakeup, alarms, ticket, tickets>>
  BY DEF timers
<1>2. FrameShape' /\ StackIsLive'
  BY <1>1 DEF IInv, FrameShape, Shape, StackIsLive, Active, Live
<1>3. RegistryConsistent' /\ TimersMatch'
  BY <1>1 DEF IInv, RegistryConsistent, TimersMatch, Live, Initialising, Running
<1>4. ReferencesCounted'
  BY <1>1 DEF IInv, ReferencesCounted, Holders, Running
<1> QED
  BY <1>2, <1>3, <1>4 DEF IInv

\* A call other than client_initialize returns.
LEMMA PopInv ==
    ASSUME IInv, TypeOK', depth > 0, Top.pc # "init", Pop,
           UNCHANGED <<mem, key, ref, slot, clients, fsm, timers, status>>
    PROVE  IInv'
<1>1. /\ depth \in 1..MaxDepth /\ MaxDepth \in Nat /\ Top = frame[depth]
      /\ depth' = depth - 1
      /\ UNCHANGED <<mem, key, ref, slot, clients, fsm, status,
                     wakeup, alarms, ticket, tickets>>
  BY TopType DEF IInv, Pop, timers
<1>2. \A i \in 1..depth' : i \in 1..depth /\ i # depth /\ frame'[i] = frame[i]
  BY <1>1 DEF Pop, IInv, TypeOK
<1>3. FrameShape'
  <2>1. ASSUME NEW i \in 1..depth' PROVE Shape(i)'
    <3>1. i \in 1..depth /\ \A j \in 1..i : frame'[j] = frame[j]
      BY <1>1, <1>2
    <3> QED
      BY <1>1, <3>1, ShapeKept DEF IInv
  <2> QED
    BY <2>1 DEF FrameShape
<1>4. StackIsLive'
  BY <1>1, <1>2 DEF IInv, StackIsLive, Active, Live
<1>5. RegistryConsistent'
  <2>1. \A c \in Ctx : Initialising(c) => Initialising(c)'
    BY <1>1, <1>2 DEF Initialising
  <2> QED
    BY <1>1, <2>1 DEF IInv, RegistryConsistent, Live, Running
<1>6. TimersMatch' /\ ReferencesCounted'
  BY <1>1 DEF IInv, TimersMatch, ReferencesCounted, Holders, Live, Running
<1> QED
  BY <1>3, <1>4, <1>5, <1>6 DEF IInv

\* The machine at the top goes on, perhaps in another state of the dialog.
LEMMA TurnInv ==
    ASSUME IInv, TypeOK', depth > 0, NEW f \in Frame,
           frame' = [frame EXCEPT ![depth] = f],
           Top.c # NoCtx, f.c = Top.c, Running,
           Top.pc \in {"top", "body", "app"}, f.pc \in {"top", "body", "app"},
           f.pc \in {"body", "app"} => Handled(f.st, f.ev),
           UNCHANGED <<mem, key, ref, slot, clients, timers, depth, status>>,
           \A c \in Ctx : fsm'[c] # fsm[c] => c = Top.c /\ fsm'[c] # Zombie
    PROVE  IInv'
<1>1. /\ depth \in 1..MaxDepth /\ MaxDepth \in Nat /\ Top = frame[depth]
      /\ UNCHANGED <<mem, key, ref, slot, clients, depth, status,
                     wakeup, alarms, ticket, tickets>>
  BY TopType DEF IInv, timers
<1>2. /\ Top.c \in Ctx /\ Live(Top.c)
      /\ clients[key[Top.c]] = Top.c
  BY TopLive
<1>3. /\ frame'[depth] = f
      /\ \A i \in 1..depth : i # depth => frame'[i] = frame[i]
  BY <1>1 DEF IInv, TypeOK
<1>4. \A c \in Ctx : Live(c)' <=> Live(c)
  BY <1>1, <1>2 DEF Live
<1>5. \A i \in 1..depth : frame'[i].c = frame[i].c /\ (Active(i)' <=> Active(i))
                           /\ (frame'[i].pc = "init" <=> frame[i].pc = "init")
  BY <1>1, <1>3 DEF Active
<1>6. FrameShape'
  <2>1. ASSUME NEW i \in 1..depth, i # depth PROVE Shape(i)'
    <3>1. \A j \in 1..i : frame'[j] = frame[j]
      BY <1>1, <1>3, <2>1
    <3> QED
      BY <1>1, <3>1, ShapeKept DEF IInv
  <2>2. Shape(depth)'
    BY <1>1, <1>3 DEF Shape
  <2> QED
    BY <1>1, <2>1, <2>2 DEF FrameShape
<1>7. StackIsLive'
  <2>1. \A i \in 1..depth : Active(i) => frame[i].c \in Ctx
    BY <1>1 DEF IInv, TypeOK, Active, Frame
  <2>2. StackIsLive
    BY DEF IInv
  <2>3. frame'[depth].c = Top.c /\ clients'[key'[Top.c]] = Top.c
    BY <1>1, <1>2, <1>3
  <2> QED
    BY <1>1, <1>3, <1>4, <1>5, <2>1, <2>2, <2>3 DEF StackIsLive
<1>8. RegistryConsistent'
  <2>1. \A c \in Ctx : Initialising(c) => Initialising(c)'
    BY <1>1, <1>5 DEF Initialising
  <2> QED
    BY <1>1, <1>4, <2>1 DEF IInv, TypeOK, RegistryConsistent, Running
<1>9. TimersMatch'
  BY <1>1, <1>4 DEF IInv, TimersMatch, Running
<1>10. ReferencesCounted'
  <2>1. \A c \in Ctx : mem[c] /\ fsm'[c] = Zombie => fsm[c] = Zombie
    BY <1>1, <1>2
  <2> QED
    BY <1>1, <2>1 DEF IInv, ReferencesCounted, Holders, Running
<1> QED
  BY <1>6, <1>7, <1>8, <1>9, <1>10 DEF IInv

\* s_client_execute is entered for a context in the table that no caller runs.
LEMMA PushInv ==
    ASSUME IInv, TypeOK', TimersMatch', Running, NEW c \in Ctx,
           Live(c), clients[key[c]] = c,
           \A i \in 1..depth : Active(i) => frame[i].c # c,
           depth < MaxDepth, depth' = depth + 1,
           frame'[depth + 1] = ExecFrame(c),
           \A i \in 1..depth : /\ Shape(i)'
                               /\ frame'[i].c = frame[i].c
                               /\ frame'[i].pc = frame[i].pc,
           UNCHANGED <<mem, key, ref, slot, clients, fsm, status>>
    PROVE  IInv'
<1>1. /\ depth \in Nat /\ MaxDepth \in Nat /\ depth + 1 \in 1..depth'
      /\ \A i \in 1..depth' : i = depth + 1 \/ i \in 1..depth
  BY ConstantsAssumption DEF IInv, TypeOK
<1>2. frame'[depth + 1].pc = "top" /\ frame'[depth + 1].c = c /\ c # NoCtx
  BY ConstantsAssumption DEF ExecFrame, Blank
<1>3. \A i \in 1..depth : Active(i)' <=> Active(i)
  BY DEF Active
<1>4. FrameShape'
  <2>1. ASSUME NEW i, i = depth + 1 PROVE Shape(i)'
    BY <1>2, <2>1 DEF Shape
  <2> QED
    BY <1>1, <2>1 DEF FrameShape
<1>5. StackIsLive'
  <2>1. ASSUME NEW i \in 1..depth', Active(i)'
        PROVE  /\ Live(frame[i].c)' \/ i = depth + 1
               /\ Live(frame'[i].c)
               /\ frame'[i].pc # "init" => clients[key[frame'[i].c]] = frame'[i].c
               /\ \A j \in 1..depth' : Active(j)' /\ frame'[j].c = frame'[i].c => i = j
    <3>1. CASE i = depth + 1
      BY <1>1, <1>2, <1>3, <3>1 DEF IInv
    <3>2. CASE i \in 1..depth
      <4>1. Active(i) /\ frame[i].c # c /\ StackIsLive
        BY <1>3, <2>1, <3>2 DEF IInv
      <4> QED
        BY <1>1, <1>2, <1>3, <3>2, <4>1 DEF StackIsLive, Live
    <3> QED
      BY <1>1, <3>1, <3>2
  <2> QED
    BY <2>1 DEF StackIsLive, Live
<1>6. RegistryConsistent'
  <2>1. \A d \in Ctx : Initialising(d) => Initialising(d)'
    BY <1>1 DEF Initialising
  <2> QED
    BY <2>1 DEF IInv, RegistryConsistent, Live, Running
<1>7. ReferencesCounted'
  BY DEF IInv, ReferencesCounted, Holders, Running
<1> QED
  BY <1>4, <1>5, <1>6, <1>7 DEF IInv

-------------------------------------------------------------------------------
\* One lemma per group of actions.

LEMMA EndOfPassInv ==
    ASSUME IInv, EndOfPass
    PROVE  IInv'
<1> DEFINE c == Top.c
<1>1. /\ depth \in 1..MaxDepth /\ MaxDepth \in Nat /\ depth > 0
      /\ Top = frame[depth] /\ Top.pc = "body"
      /\ Running
  BY TopType DEF IInv, EndOfPass, At
<1>2. c # NoCtx
  BY <1>1 DEF IInv, FrameShape, Shape
<1>3. /\ c \in Ctx /\ Live(c) /\ key[c] \in Ids /\ clients[key[c]] = c
      /\ \A j \in 1..(depth - 1) : Active(j) => frame[j].c # c
  BY <1>1, <1>2, TopLive
<1>4. Following(c) \in AllEvents
  BY <1>3 DEF IInv, TypeOK, Following
<1>5. CASE Following(c) # Terminate
  <2>1. /\ next' = [next EXCEPT ![c] = Following(c)]
        /\ frame' = [frame EXCEPT ![depth] = [@ EXCEPT !.pc = "top"]]
        /\ UNCHANGED <<depth, fsm, mem, clients, zombies, alarms, tickets,
                       exc, key, ref, slot, wakeup, ticket, timeout, status>>
    BY <1>5 DEF EndOfPass
  <2>2. [frame[depth] EXCEPT !.pc = "top"] \in Frame
    BY <1>1, ZenonT(30) DEF IInv, TypeOK, Frame
  <2>3. TypeOK'
    BY <1>1, <1>3, <1>4, <2>1, <2>2 DEF IInv, TypeOK
  <2>4. PICK f : f = [frame[depth] EXCEPT !.pc = "top"]
    OBVIOUS
  <2>5. f \in Frame /\ f.pc = "top" /\ f.c = Top.c
    BY <1>1, <2>2, <2>4 DEF IInv, TypeOK, Frame
  <2>6. frame' = [frame EXCEPT ![depth] = f]
    BY <2>1, <2>4
  <2> QED
    BY <1>1, <1>2, <2>1, <2>3, <2>5, <2>6, TurnInv DEF timers
<1>6. CASE Following(c) = Terminate
  <2>1. /\ next' = [next EXCEPT ![c] = Following(c)]
        /\ clients' = [clients EXCEPT ![key[c]] = NoCtx]
        /\ alarms' = [alarms EXCEPT ![c] = IF wakeup[c] = NoEvent THEN @ ELSE @ - 1]
        /\ tickets' = [tickets EXCEPT ![c] = IF ticket[c] THEN @ - 1 ELSE @]
        /\ mem' = IF ref[c] = 0 THEN [mem EXCEPT ![c] = FALSE] ELSE mem
        /\ fsm' = IF ref[c] = 0 THEN fsm ELSE [fsm EXCEPT ![c] = Zombie]
        /\ zombies' = IF ref[c] > 0 /\ zombies[key[c]] = NoCtx
                      THEN [zombies EXCEPT ![key[c]] = c] ELSE zombies
        /\ depth' = depth - 1
        /\ frame' = [frame EXCEPT ![depth] = Blank]
        /\ UNCHANGED <<exc, key, ref, slot, wakeup, ticket, timeout, status>>
    <3> HIDE DEF c
    <3>1. /\ next' = [next EXCEPT ![c] = Following(c)]
          /\ clients' = [clients EXCEPT ![key[c]] = NoCtx]
          /\ Destroy(clients[key[c]])
          /\ Pop
          /\ UNCHANGED <<exc, key, ref, slot, wakeup, ticket, timeout, status>>
      BY <1>2, <1>3, <1>6 DEF EndOfPass, c
    <3>2. Destroy(c)
      BY <1>3, <3>1
    <3> QED
      BY <3>1, <3>2 DEF Destroy, Cancelled, Freed, Retired, Enlisted, Pop
  <2>2. alarms[c] = (IF wakeup[c] = NoEvent THEN 0 ELSE 1)
        /\ tickets[c] = (IF ticket[c] THEN 1 ELSE 0)
    BY <1>1, <1>3 DEF IInv, TimersMatch
  <2>3. TypeOK'
    <3>1. Blank \in Frame
      BY ConstantsAssumption DEF Blank, Frame, AllEvents
    <3>2. alarms' \in [Ctx -> Nat] /\ tickets' \in [Ctx -> Nat]
      BY <1>3, <2>1, <2>2 DEF IInv, TypeOK
    <3> QED
      BY <1>1, <1>3, <1>4, <2>1, <3>1, <3>2 DEF IInv, TypeOK
  <2>4. /\ depth' \in 0..MaxDepth /\ depth' = depth - 1
        /\ \A i \in 1..depth' : i \in 1..depth /\ i # depth /\ frame'[i] = frame[i]
    BY <1>1, <2>1 DEF IInv, TypeOK
  <2>5. \A i \in 1..depth' : Active(i) => frame[i].c # c
    BY <1>3, <2>4
  <2>6. FrameShape'
    <3>1. \A k \in Ids : clients'[k] \in {clients[k], NoCtx}
      BY <1>3, <2>1 DEF IInv, TypeOK
    <3>2. ASSUME NEW i \in 1..depth' PROVE Shape(i)'
      <4>1. i \in 1..depth /\ \A j \in 1..i : frame'[j] = frame[j]
        BY <1>1, <2>4
      <4> QED
        BY <2>1, <3>1, <4>1, ShapeKept DEF IInv
    <3> QED
      BY <3>2 DEF FrameShape
  <2>7. StackIsLive'
    <3>1. ASSUME NEW i \in 1..depth', Active(i)'
          PROVE  /\ Active(i) /\ i \in 1..depth /\ frame'[i] = frame[i]
                 /\ frame[i].c \in Ctx /\ frame[i].c # c
                 /\ Live(frame[i].c)
                 /\ frame[i].pc # "init" => clients[key[frame[i].c]] = frame[i].c
      <4>1. Active(i) /\ i \in 1..depth /\ frame'[i] = frame[i] /\ i \in 1..MaxDepth
        BY <1>1, <2>4, <3>1 DEF Active
      <4>2. frame[i].c \in Ctx /\ frame[i].c # c
        BY <2>5, <4>1 DEF IInv, TypeOK, Frame, Active
      <4> QED
        BY <4>1, <4>2 DEF IInv, StackIsLive
    <3>2. \A d \in Ctx : d # c => mem'[d] = mem[d] /\ fsm'[d] = fsm[d]
      BY <1>3, <2>1 DEF IInv, TypeOK
    <3>3. \A d \in Ctx : d # c /\ clients[key[d]] = d => clients'[key'[d]] = d
      BY <1>3, <2>1, SMTT(30) DEF IInv, TypeOK
    <3>4. \A i \in 1..depth', j \in 1..depth' :
            Active(i)' /\ Active(j)' /\ frame'[j].c = frame'[i].c => i = j
      BY <3>1 DEF IInv, StackIsLive
    <3> QED
      BY <3>1, <3>2, <3>3, <3>4 DEF StackIsLive, Live
  <2>8. RegistryConsistent'
    <3>1. ASSUME NEW d \in Ctx, d # c, Initialising(d) PROVE Initialising(d)'
      <4>1. PICK i \in 1..depth : frame[i].c = d /\ frame[i].pc = "init"
        BY <3>1 DEF Initialising
      <4>2. i # depth
        BY <1>1, <4>1
      <4>3. i \in 1..depth' /\ frame'[i] = frame[i]
        BY <1>1, <2>4, <4>2
      <4> QED
        BY <4>1, <4>3 DEF Initialising
    <3> QED
      BY <1>1, <1>3, <2>1, <3>1 DEF IInv, RegistryConsistent, TypeOK, Live, Running
  <2>9. ReferencesCounted'
    <3>1. \A d \in Ctx : Holders(d)' = Holders(d)
      BY <2>1 DEF Holders
    <3>2. \A s \in Slots : slot[s] = c => ref[c] # 0
      BY <1>1, <1>3, HoldersCount DEF IInv, ReferencesCounted, Live
    <3> QED
      BY <1>1, <1>3, <2>1, <3>1, <3>2 DEF IInv, ReferencesCounted, TypeOK, Running, Live
  <2>10. TimersMatch'
    BY <1>1, <1>3, <2>1, <2>2 DEF IInv, TimersMatch, TypeOK, Running, Live
  <2> QED
    BY <2>3, <2>6, <2>7, <2>8, <2>9, <2>10 DEF IInv
<1> QED
  BY <1>5, <1>6

LEMMA TopOfLoopInv == ASSUME IInv, TopOfLoop PROVE IInv'
<1> DEFINE c == Top.c
<1>1. /\ depth \in 1..MaxDepth /\ MaxDepth \in Nat /\ depth > 0 /\ Top = frame[depth]
      /\ Top.pc = "top" /\ Running /\ frame[depth] \in Frame
      /\ UNCHANGED <<fsm, memory, timers, timeout>>
  BY TopType DEF IInv, TypeOK, TopOfLoop, At
<1>2. c # NoCtx
  BY <1>1 DEF IInv, FrameShape, Shape
<1>3. c \in Ctx /\ fsm[c] \in States \cup {Zombie} /\ next[c] \in AllEvents
  BY <1>1, <1>2, TopLive DEF IInv, TypeOK
<1>4. NoEvent \in AllEvents /\ Blank \in Frame
  BY ConstantsAssumption DEF AllEvents, Blank, Frame
<1>5. CASE Pop /\ status' = status /\ next' \in [Ctx -> AllEvents]
                               /\ exc' \in [Ctx -> AllEvents]
  <2>1. TypeOK'
    BY <1>1, <1>4, <1>5 DEF IInv, TypeOK, Pop, memory, timers
  <2> QED
    BY <1>1, <1>5, <2>1, PopInv DEF memory
<1>6. CASE /\ fsm[c] # Zombie /\ Handled(fsm[c], next[c])
           /\ frame' = [frame EXCEPT ![depth] =
                [@ EXCEPT !.pc = "body", !.st = fsm[c], !.ev = next[c], !.at = 1]]
           /\ next' = [next EXCEPT ![c] = NoEvent]
           /\ exc' = [exc EXCEPT ![c] = NoEvent]
           /\ UNCHANGED <<depth, status>>
  <2> DEFINE f == [frame[depth] EXCEPT !.pc = "body", !.st = fsm[c], !.ev = next[c],
                                       !.at = 1]
  <2>1. f \in Frame /\ f.c = c /\ f.pc = "body" /\ f.st = fsm[c] /\ f.ev = next[c]
    BY <1>1, <1>3, <1>6 DEF Frame
  <2>2. frame' = [frame EXCEPT ![depth] = f]
    BY <1>6
  <2> HIDE DEF f
  <2>3. TypeOK'
    BY <1>1, <1>3, <1>4, <1>6, <2>1, <2>2 DEF IInv, TypeOK, memory, timers
  <2> QED
    BY <1>1, <1>2, <1>6, <2>1, <2>2, <2>3, TurnInv DEF memory
<1>7. CASE status' = "assert" /\ UNCHANGED <<next, exc, stack>>
  <2>1. TypeOK'
    BY <1>1, <1>7 DEF IInv, TypeOK, memory, timers, stack
  <2> QED
    BY <1>1, <1>7, <2>1, QuietInv DEF memory, stack
<1> HIDE DEF c
<1>8. \/ UNCHANGED <<next, exc>> /\ Pop /\ status' = status
      \/ /\ next' = [next EXCEPT ![c] = NoEvent] /\ exc' = [exc EXCEPT ![c] = NoEvent]
         /\ Pop /\ status' = status
      \/ /\ fsm[c] # Zombie /\ Handled(fsm[c], next[c])
         /\ frame' = [frame EXCEPT ![depth] =
                [@ EXCEPT !.pc = "body", !.st = fsm[c], !.ev = next[c], !.at = 1]]
         /\ next' = [next EXCEPT ![c] = NoEvent]
         /\ exc' = [exc EXCEPT ![c] = NoEvent]
         /\ UNCHANGED <<depth, status>>
      \/ status' = "assert" /\ UNCHANGED <<next, exc, stack>>
  BY DEF TopOfLoop, c
<1> QED
  BY <1>3, <1>4, <1>5, <1>6, <1>7, <1>8 DEF IInv, TypeOK

LEMMA BodyStepInv == ASSUME IInv, BodyStep PROVE IInv'
<1> DEFINE c == Top.c
           prog == Program(Top.st, Top.ev)
           s == prog[Top.at]
           pc == IF s.op = "app" /\ exc[c] = NoEvent THEN "app" ELSE "body"
           n == Top.at + 1
           f == [frame[depth] EXCEPT !.at = n, !.pc = pc]
<1>1. /\ depth \in 1..MaxDepth /\ MaxDepth \in Nat /\ depth > 0 /\ Top = frame[depth]
      /\ Top.pc = "body" /\ Running /\ frame[depth] \in Frame
      /\ Top.st \in States
  BY TopType DEF IInv, TypeOK, BodyStep, At
<1>2. c # NoCtx /\ Handled(Top.st, Top.ev)
  BY <1>1 DEF IInv, FrameShape, Shape
<1>3. c \in Ctx
  BY <1>1, <1>2, TopLive
<1>4. /\ Top.at \in 1..Len(prog)
      /\ frame' = [frame EXCEPT ![depth] = f]
      /\ next' = IF s.op = "terminate" /\ exc[c] = NoEvent
                 THEN [next EXCEPT ![c] = Terminate] ELSE next
      /\ fsm' = IF s.op = "goto" /\ exc[c] = NoEvent
                THEN [fsm EXCEPT ![c] = s.to] ELSE fsm
      /\ UNCHANGED <<exc, depth, memory, timers, timeout, status>>
  <2>1. frame' = [frame EXCEPT ![depth] = f]
    <3>1. frame' = [frame EXCEPT ![depth] = [@ EXCEPT !.at = Top.at + 1, !.pc = pc]]
      BY Zenon DEF BodyStep
    <3> HIDE DEF pc
    <3> QED
      BY <3>1, <1>1
  <2>2. Top.at \in 1..Len(prog) /\ UNCHANGED <<exc, depth, memory, timers, timeout, status>>
    BY DEF BodyStep
  <2>3. next' = IF s.op = "terminate" /\ exc[c] = NoEvent
                 THEN [next EXCEPT ![c] = Terminate] ELSE next
    BY Zenon DEF BodyStep
  <2>4. fsm' = IF s.op = "goto" /\ exc[c] = NoEvent
                THEN [fsm EXCEPT ![c] = s.to] ELSE fsm
    BY Zenon DEF BodyStep
  <2> QED
    BY <2>1, <2>2, <2>3, <2>4
<1>5. s \in Step
  <2>1. prog \in Seq(Step)
    BY <1>1, <1>2, ProgramType
  <2> QED
    BY <1>4, <2>1, ElementOfSeq
<1>6. s.op = "goto" => s.to \in States
  <2>1. \A t \in Step : t.op = "goto" => t.to \in States
    BY DEF Step
  <2> HIDE DEF s
  <2> QED
    BY <1>5, <2>1
<1>7. f \in Frame /\ f.c = c /\ f.pc \in {"app", "body"} /\ f.st = Top.st /\ f.ev = Top.ev
  <2>1. pc \in {"app", "body"}
    OBVIOUS
  <2> HIDE DEF pc, prog, s
  <2>2. n \in Nat
    BY <1>1 DEF Frame
  <2> HIDE DEF n
  <2>3. f \in Frame /\ f.c = frame[depth].c /\ f.pc = pc /\ f.st = frame[depth].st
        /\ f.ev = frame[depth].ev
    <3>1. frame[depth] \in Frame /\ pc \in {"app", "body"} /\ n \in Nat
      BY <1>1, <2>1, <2>2
    <3>2. f \in Frame
      BY <3>1 DEF Frame
    <3>3. f.c = frame[depth].c /\ f.pc = pc /\ f.st = frame[depth].st
      BY <3>1 DEF Frame
    <3>4. f.ev = frame[depth].ev
      BY <3>1 DEF Frame
    <3> QED
      BY <3>2, <3>3, <3>4
  <2> QED
    BY <1>1, <2>1, <2>3
<1> HIDE DEF f, prog, s, pc, n
<1>8. TypeOK'
  <2>1. Terminate \in AllEvents
    BY DEF AllEvents
  <2>2. fsm' \in [Ctx -> States \cup {Zombie}]
    BY <1>3, <1>4, <1>6 DEF IInv, TypeOK
  <2>3. next' \in [Ctx -> AllEvents]
    BY <1>3, <1>4, <2>1 DEF IInv, TypeOK
  <2> QED
    BY <1>1, <1>4, <1>7, <2>2, <2>3 DEF IInv, TypeOK, memory, timers
<1>9. \A d \in Ctx : fsm'[d] # fsm[d] => d = c /\ fsm'[d] # Zombie
  BY <1>3, <1>4, <1>6, ConstantsAssumption DEF IInv, TypeOK
<1> QED
  BY <1>1, <1>2, <1>4, <1>7, <1>8, <1>9, TurnInv DEF memory

LEMMA ReturnInv == ASSUME IInv, ActionReturns \/ CallbackReturns PROVE IInv'
<1>1. /\ depth \in 1..MaxDepth /\ MaxDepth \in Nat /\ depth > 0 /\ Top = frame[depth]
      /\ Top.pc = "app" /\ Running /\ frame[depth] \in Frame
      /\ UNCHANGED <<machine, memory, timers, timeout, status>>
  BY TopType DEF IInv, TypeOK, ActionReturns, CallbackReturns, At
<1>2. CASE ActionReturns
  <2> DEFINE f == [frame[depth] EXCEPT !.pc = "body"]
  <2>1. f \in Frame /\ f.c = Top.c /\ f.pc = "body" /\ f.st = Top.st /\ f.ev = Top.ev
    BY <1>1 DEF Frame
  <2>2. frame' = [frame EXCEPT ![depth] = f] /\ depth' = depth /\ Top.c # NoCtx
    BY <1>2 DEF ActionReturns
  <2>3. Handled(f.st, f.ev)
    BY <1>1, <2>1, <2>2 DEF IInv, FrameShape, Shape
  <2> HIDE DEF f
  <2>4. TypeOK'
    BY <1>1, <2>1, <2>2 DEF IInv, TypeOK, machine, memory, timers
  <2> QED
    BY <1>1, <2>1, <2>2, <2>3, <2>4, TurnInv DEF memory, machine
<1>3. CASE CallbackReturns
  <2>1. Pop
    BY <1>3 DEF CallbackReturns
  <2>2. Blank \in Frame
    BY ConstantsAssumption DEF Blank, Frame, AllEvents
  <2>3. TypeOK'
    BY <1>1, <2>1, <2>2 DEF IInv, TypeOK, machine, memory, timers, Pop
  <2> QED
    BY <1>1, <2>1, <2>3, PopInv DEF memory, machine
<1> QED
  BY <1>2, <1>3

\* A context the application can name is allocated.
LEMMA TargetAllocated ==
    ASSUME IInv, InApp, NEW c \in Targets
    PROVE  c \in Ctx /\ mem[c]
<1>1. Running /\ depth > 0 /\ Top.pc \in {"app", "init"}
  BY DEF InApp, At
<1>2. CASE \E s \in Slots : slot[s] = c
  BY <1>1, <1>2 DEF IInv, TypeOK, ReferencesCounted, Targets
<1>3. CASE \E k \in Ids : clients[k] = c
  BY <1>3 DEF IInv, TypeOK, RegistryConsistent, Live, Targets
<1>4. CASE c = Top.c
  BY <1>1, <1>4, TopLive DEF Live, Targets
<1> QED
  BY <1>2, <1>3, <1>4 DEF Targets, Known

\* If it is not a zombie and not running, it is in the table.
LEMMA TargetLive ==
    ASSUME IInv, InApp, NEW c \in Targets, IsValid(c)
    PROVE  /\ c \in Ctx /\ Live(c)
           /\ c \notin OnStack =>
                /\ clients[key[c]] = c
                /\ \A i \in 1..depth : Active(i) => frame[i].c # c
<1>1. Running
  BY DEF InApp, At
<1>2. c \in Ctx /\ Live(c)
  BY TargetAllocated DEF IsValid, Live
<1>3. ASSUME c \notin OnStack, NEW i \in 1..depth, Active(i) PROVE frame[i].c # c
  BY <1>3 DEF OnStack
<1>4. ASSUME c \notin OnStack PROVE clients[key[c]] = c
  <2>1. \A i \in 1..depth : frame[i].pc = "init" /\ frame[i].c = c => Active(i)
    BY <1>2, ConstantsAssumption DEF Active
  <2>2. ~ Initialising(c)
    BY <1>3, <1>4, <2>1 DEF Initialising
  <2> QED
    BY <1>1, <1>2, <2>2 DEF IInv, RegistryConsistent
<1> QED
  BY <1>2, <1>3, <1>4

LEMMA RaisedType == Raised \subseteq AllEvents \ {NoEvent}
BY DialogAssumption, ConstantsAssumption DEF AllEvents

LEMMA SettersInv ==
    ASSUME IInv, SetNextEvent \/ SetException \/ Configure \/ Done
    PROVE  IInv'
<1>1. UNCHANGED <<mem, key, ref, slot, clients, zombies, fsm, wakeup, alarms, ticket,
                  tickets, depth, frame, status>>
  BY DEF SetNextEvent, SetException, Configure, Done, vars, machine, memory, timers,
         stack
<1>2. /\ next' \in [Ctx -> AllEvents] /\ exc' \in [Ctx -> AllEvents]
      /\ timeout' \in BOOLEAN
  <2>1. CASE SetNextEvent
    <3>1. PICK c \in Targets, e \in Raised : next' = [next EXCEPT ![c] = e]
      BY <2>1 DEF SetNextEvent
    <3> QED
      BY <2>1, <3>1, RaisedType DEF SetNextEvent, IInv, TypeOK
  <2>2. CASE SetException
    <3>1. PICK c \in Targets, e \in Raised : exc' = [exc EXCEPT ![c] = e]
      BY <2>2 DEF SetException
    <3> QED
      BY <2>2, <3>1, RaisedType DEF SetException, IInv, TypeOK
  <2>3. CASE Configure
    BY <2>3, ConstantsAssumption DEF Configure, IInv, TypeOK, machine
  <2>4. CASE Done
    BY <2>4 DEF Done, vars, machine, IInv, TypeOK
  <2> QED
    BY <2>1, <2>2, <2>3, <2>4
<1>3. TypeOK'
  BY <1>1, <1>2 DEF IInv, TypeOK
<1> QED
  BY <1>1, <1>3, QuietInv DEF timers

LEMMA SetWakeupEventInv == ASSUME IInv, SetWakeupEvent PROVE IInv'
<1>1. InApp /\ UNCHANGED <<ticket, tickets, machine, memory, stack, timeout, status>>
  BY DEF SetWakeupEvent
<1>2. PICK c \in Targets, e \in Raised :
        /\ IsValid(c)
        /\ wakeup' = [wakeup EXCEPT ![c] = e]
        /\ alarms' = [Cancelled(c) EXCEPT ![c] = @ + 1]
  BY DEF SetWakeupEvent
<1>3. c \in Ctx /\ Live(c) /\ e \in AllEvents /\ e # NoEvent /\ Running
  BY <1>1, <1>2, TargetLive, RaisedType DEF InApp, At
<1>4. alarms[c] = IF wakeup[c] # NoEvent THEN 1 ELSE 0
  BY <1>3 DEF IInv, TimersMatch
<1>5. alarms' = [alarms EXCEPT ![c] = 1]
  BY <1>2, <1>3, <1>4 DEF IInv, TypeOK, Cancelled
<1>6. UNCHANGED <<mem, key, ref, slot, clients, zombies, fsm, next, exc, depth, frame,
                  ticket, tickets, timeout, status>>
  BY <1>1 DEF machine, memory, stack
<1>7. TypeOK'
  <2>1. wakeup' \in [Ctx -> AllEvents]
    BY <1>2, <1>3 DEF IInv, TypeOK
  <2>2. alarms' \in [Ctx -> Nat]
    BY <1>5 DEF IInv, TypeOK
  <2> QED
    BY <1>6, <2>1, <2>2 DEF IInv, TypeOK
<1>8. TimersMatch'
  BY <1>2, <1>3, <1>5, <1>6 DEF IInv, TypeOK, TimersMatch, Live, Running
<1>9. FrameShape' /\ StackIsLive'
  BY <1>6 DEF IInv, FrameShape, Shape, StackIsLive, Active, Live
<1>10. RegistryConsistent' /\ ReferencesCounted'
  BY <1>6 DEF IInv, RegistryConsistent, ReferencesCounted, Holders, Live,
      Initialising, Running
<1> QED
  BY <1>7, <1>8, <1>9, <1>10 DEF IInv

\* The prologue of s_client_execute stops the alarm of the context.
LEMMA BeginTimers ==
    ASSUME IInv, Running, NEW c \in Ctx, Live(c), NEW e \in AllEvents,
           Begin(c, e), alarms' = Cancelled(c),
           UNCHANGED <<mem, fsm, ticket, tickets>>
    PROVE  /\ TimersMatch'
           /\ next' \in [Ctx -> AllEvents]
           /\ wakeup' \in [Ctx -> AllEvents]
           /\ alarms' \in [Ctx -> Nat]
<1>1. alarms[c] = IF wakeup[c] # NoEvent THEN 1 ELSE 0
  BY DEF IInv, TimersMatch
<1>2. alarms' = [alarms EXCEPT ![c] = 0]
  BY <1>1 DEF IInv, TypeOK, Cancelled
<1>3. NoEvent \in AllEvents
  BY DEF AllEvents
<1>4. next' = [next EXCEPT ![c] = e] /\ wakeup' = [wakeup EXCEPT ![c] = NoEvent]
  BY DEF Begin
<1> QED
  BY <1>2, <1>3, <1>4 DEF IInv, TypeOK, TimersMatch, Live, Running

LEMMA ExecFrameType == \A c \in Ctx : ExecFrame(c) \in Frame /\ Blank \in Frame
BY ConstantsAssumption DEF ExecFrame, Blank, Frame, AllEvents

\* s_client_execute is called directly.
LEMMA ExecuteInv ==
    ASSUME IInv, Running, NEW c \in Ctx, Live(c), clients[key[c]] = c,
           \A i \in 1..depth : Active(i) => frame[i].c # c,
           NEW e \in AllEvents, Execute(c, e),
           UNCHANGED <<memory, timeout, status>>
    PROVE  IInv'
<1>1. /\ depth \in Nat /\ MaxDepth \in Nat /\ depth < MaxDepth /\ depth' = depth + 1
      /\ frame' = [frame EXCEPT ![depth + 1] = ExecFrame(c)]
      /\ depth + 1 \in 1..MaxDepth
      /\ UNCHANGED <<mem, key, ref, slot, clients, zombies, fsm, exc, ticket, tickets>>
  BY ConstantsAssumption DEF Execute, Push, IInv, TypeOK, memory
<1>2. /\ TimersMatch' /\ next' \in [Ctx -> AllEvents] /\ wakeup' \in [Ctx -> AllEvents]
      /\ alarms' \in [Ctx -> Nat]
  BY <1>1, BeginTimers DEF Execute
<1>3. TypeOK'
  BY <1>1, <1>2, ExecFrameType DEF IInv, TypeOK
<1>4. frame'[depth + 1] = ExecFrame(c) /\ \A i \in 1..depth : frame'[i] = frame[i]
  BY <1>1 DEF IInv, TypeOK
<1>5. ASSUME NEW i \in 1..depth PROVE Shape(i)'
  <2>1. \A j \in 1..i : frame'[j] = frame[j]
    BY <1>1, <1>4
  <2> QED
    BY <1>1, <2>1, ShapeKept DEF IInv
<1> QED
  BY <1>1, <1>2, <1>3, <1>4, <1>5, PushInv

LEMMA SendEventInv == ASSUME Reentry = "never", IInv, SendEvent PROVE IInv'
<1>1. PICK c \in Targets, e \in Raised : IsValid(c) /\ MayEnter(c) /\ Execute(c, e)
  BY DEF SendEvent
<1>2. InApp /\ Running /\ UNCHANGED <<memory, timeout, status>> /\ c \notin OnStack
  BY <1>1 DEF SendEvent, InApp, At, MayEnter
<1>3. /\ c \in Ctx /\ Live(c) /\ clients[key[c]] = c /\ e \in AllEvents
      /\ \A i \in 1..depth : Active(i) => frame[i].c # c
  BY <1>1, <1>2, TargetLive, RaisedType
<1> QED
  BY <1>1, <1>2, <1>3, ExecuteInv

LEMMA EventOfType == \A m : EventOf(m) \in AllEvents
BY DEF EventOf, AllEvents

LEMMA ReceiveInv ==
    ASSUME IInv, NEW k \in Ids, NEW m \in Messages, Receive(k, m)
    PROVE  IInv'
<1>1. /\ Running /\ depth = 0 /\ clients[k] # NoCtx
      /\ Execute(clients[k], EventOf(m)) /\ UNCHANGED <<memory, timeout, status>>
  BY DEF Receive, Idle
<1>2. clients[k] \in Ctx /\ Live(clients[k]) /\ key[clients[k]] = k
  BY <1>1 DEF IInv, TypeOK, RegistryConsistent
<1>3. EventOf(m) \in AllEvents /\ \A i \in 1..depth : FALSE
  BY <1>1, EventOfType
<1> QED
  BY <1>1, <1>2, <1>3, ExecuteInv

\* The reactor calls s_client_execute from a timer, with nothing on the stack.
LEMMA TimerPushInv ==
    ASSUME IInv, Idle, NEW c \in Ctx, Live(c), TypeOK', TimersMatch',
           Push(ExecFrame(c)),
           UNCHANGED <<mem, key, ref, slot, clients, fsm, status>>
    PROVE  IInv'
<1>1. /\ Running /\ depth = 0 /\ MaxDepth \in Nat \ {0}
      /\ \A i \in 1..depth : FALSE
  BY ConstantsAssumption DEF Idle
<1>2. clients[key[c]] = c
  BY <1>1 DEF IInv, RegistryConsistent, Initialising
<1>3. depth' = depth + 1 /\ frame'[depth + 1] = ExecFrame(c)
  BY <1>1 DEF Push, IInv, TypeOK
<1> QED
  BY <1>1, <1>2, <1>3, PushInv

LEMMA HandleWakeupInv == ASSUME IInv, NEW c \in Ctx, HandleWakeup(c) PROVE IInv'
<1>1. /\ Idle /\ Running /\ alarms[c] > 0 /\ Begin(c, wakeup[c])
      /\ alarms' = [alarms EXCEPT ![c] = @ - 1]
      /\ Push(ExecFrame(c))
      /\ UNCHANGED <<mem, key, ref, slot, clients, zombies, fsm, exc, ticket, tickets,
                     timeout, status>>
  BY DEF HandleWakeup, Idle, memory
<1>2. Live(c) /\ wakeup[c] # NoEvent
  BY <1>1 DEF IInv, TypeOK, TimersMatch
<1>3. alarms' = Cancelled(c) /\ wakeup[c] \in AllEvents
  BY <1>1, <1>2 DEF Cancelled, IInv, TypeOK
<1>4. /\ TimersMatch' /\ next' \in [Ctx -> AllEvents] /\ wakeup' \in [Ctx -> AllEvents]
      /\ alarms' \in [Ctx -> Nat]
  BY <1>1, <1>2, <1>3, BeginTimers
<1>5. depth' \in 0..MaxDepth /\ frame' \in [1..MaxDepth -> Frame]
  BY <1>1, ExecFrameType, ConstantsAssumption DEF Idle, Push, IInv, TypeOK
<1>6. TypeOK'
  BY <1>1, <1>4, <1>5 DEF IInv, TypeOK
<1> QED
  BY <1>1, <1>2, <1>4, <1>6, TimerPushInv

LEMMA HandleTicketInv == ASSUME IInv, NEW c \in Ctx, HandleTicket(c) PROVE IInv'
<1>1. /\ Idle /\ Running /\ tickets[c] > 0 /\ Begin(c, Expired)
      /\ alarms' = Cancelled(c)
      /\ ticket' = [ticket EXCEPT ![c] = FALSE]
      /\ tickets' = [tickets EXCEPT ![c] = @ - 1]
      /\ Push(ExecFrame(c))
      /\ UNCHANGED <<mem, key, ref, slot, clients, zombies, fsm, exc, timeout, status>>
  BY DEF HandleTicket, Idle, memory
<1>2. Live(c) /\ tickets[c] = 1
  BY <1>1 DEF IInv, TypeOK, TimersMatch
<1>3. tickets' = [tickets EXCEPT ![c] = 0] /\ Expired \in AllEvents
      /\ NoEvent \in AllEvents
  BY <1>1, <1>2 DEF AllEvents
<1>4. alarms[c] = IF wakeup[c] # NoEvent THEN 1 ELSE 0
  BY <1>1, <1>2 DEF IInv, TimersMatch
<1>5. alarms' = [alarms EXCEPT ![c] = 0]
  BY <1>1, <1>4 DEF IInv, TypeOK, Cancelled
<1>6. /\ next' = [next EXCEPT ![c] = Expired]
      /\ wakeup' = [wakeup EXCEPT ![c] = NoEvent]
  BY <1>1 DEF Begin
<1>7. TimersMatch'
  BY <1>1, <1>2, <1>3, <1>5, <1>6 DEF IInv, TypeOK, TimersMatch, Live, Running
<1>8. depth' \in 0..MaxDepth /\ frame' \in [1..MaxDepth -> Frame]
  BY <1>1, ExecFrameType, ConstantsAssumption DEF Idle, Push, IInv, TypeOK
<1>9. TypeOK'
  BY <1>1, <1>3, <1>5, <1>6, <1>8 DEF IInv, TypeOK
<1> QED
  BY <1>1, <1>2, <1>7, <1>9, TimerPushInv

\* engine_broadcast_event pushes a frame of its own.
LEMMA BroadcastEventInv ==
    ASSUME Reentry = "never", IInv, BroadcastEvent
    PROVE  IInv'
<1>1. PICK x \in {Top.c, NoCtx}, e \in Raised :
        /\ \A k \in Ids : clients[k] \notin {x, NoCtx} => MayEnter(clients[k])
        /\ Push([Blank EXCEPT !.c = x, !.pc = "bcast", !.ev = e,
                              !.keys = {k \in Ids : clients[k] # NoCtx}])
  BY Zenon DEF BroadcastEvent
<1> DEFINE f == [Blank EXCEPT !.c = x, !.pc = "bcast", !.ev = e,
                              !.keys = {k \in Ids : clients[k] # NoCtx}]
<1>2. /\ Running /\ depth \in Nat /\ MaxDepth \in Nat /\ depth + 2 <= MaxDepth
      /\ depth > 0 /\ Top.c \in Ctx \cup {NoCtx}
      /\ UNCHANGED <<mem, key, ref, slot, clients, zombies, fsm, next, exc, wakeup,
                     alarms, ticket, tickets, timeout, status>>
  BY ConstantsAssumption, TopType
     DEF BroadcastEvent, InApp, At, machine, memory, timers, IInv, TypeOK
<1>3. f \in Frame /\ f.c = x /\ f.pc = "bcast" /\ f.keys \subseteq Ids
  <2>1. e \in AllEvents /\ x \in Ctx \cup {NoCtx} /\ First \in States
    BY <1>1, <1>2, RaisedType, ConstantsAssumption
  <2> QED
    BY <2>1, Zenon DEF Blank, Frame
<1>4. depth' = depth + 1 /\ frame' = [frame EXCEPT ![depth + 1] = f]
  BY <1>1 DEF Push
<1> HIDE DEF f
<1>5. TypeOK'
  BY <1>2, <1>3, <1>4 DEF IInv, TypeOK
<1>6. /\ frame'[depth + 1] = f /\ depth + 1 \in 1..depth'
      /\ \A i \in 1..depth : frame'[i] = frame[i]
      /\ \A i \in 1..depth' : i = depth + 1 \/ i \in 1..depth
  BY <1>2, <1>4 DEF IInv, TypeOK
<1>7. FrameShape'
  <2>1. ASSUME NEW i \in 1..depth PROVE Shape(i)'
    <3>1. \A j \in 1..i : frame'[j] = frame[j]
      BY <1>2, <1>6
    <3> QED
      BY <1>2, <2>1, <3>1, ShapeKept DEF IInv
  <2>2. ASSUME NEW i, i = depth + 1 PROVE Shape(i)'
    <3>1. ASSUME NEW k \in Ids, NEW j \in 1..depth, Active(j),
                 clients[k] \notin {x, NoCtx}
          PROVE  frame[j].c # clients[k]
      BY <1>1, <3>1 DEF MayEnter, OnStack
    <3>2. \A j \in 1..(i - 1) : j \in 1..depth /\ (Active(j)' <=> Active(j))
      BY <1>2, <1>6, <2>2 DEF Active
    <3> QED
      BY <1>2, <1>3, <1>6, <2>2, <3>1, <3>2 DEF Shape
  <2> QED
    BY <1>6, <2>1, <2>2 DEF FrameShape
<1>8. StackIsLive'
  <2>1. ASSUME NEW i \in 1..depth', Active(i)' PROVE i \in 1..depth /\ Active(i)
    BY <1>3, <1>6, <2>1 DEF Active
  <2> QED
    BY <1>2, <1>6, <2>1 DEF IInv, StackIsLive, Live
<1>9. RegistryConsistent'
  <2>1. \A d \in Ctx : Initialising(d) => Initialising(d)'
    BY <1>2, <1>4, <1>6 DEF Initialising
  <2> QED
    BY <1>2, <2>1 DEF IInv, RegistryConsistent, Live, Running
<1>10. TimersMatch' /\ ReferencesCounted'
  BY <1>2 DEF IInv, TimersMatch, ReferencesCounted, Holders, Live, Running
<1> QED
  BY <1>5, <1>7, <1>8, <1>9, <1>10 DEF IInv

LEMMA BroadcastStepInv == ASSUME IInv, BroadcastStep PROVE IInv'
<1>1. /\ Running /\ depth \in 1..MaxDepth /\ MaxDepth \in Nat /\ depth > 0
      /\ Top = frame[depth] /\ Top.pc = "bcast" /\ Top \in Frame
      /\ Top.c \in Ctx \cup {NoCtx} /\ Top.keys \subseteq Ids /\ Top.ev \in AllEvents
      /\ UNCHANGED <<mem, key, ref, slot, clients, zombies, timeout>>
  BY TopType DEF IInv, TypeOK, BroadcastStep, At, memory
<1>2. PICK k \in Top.keys :
        \/ /\ Skipped(clients[k])
           /\ frame' = [frame EXCEPT ![depth] = [Top EXCEPT !.keys = Top.keys \ {k}]]
           /\ UNCHANGED <<machine, timers, depth, status>>
        \/ /\ ~ Skipped(clients[k]) /\ clients[k] # NoCtx
           /\ Begin(clients[k], Top.ev)
           /\ alarms' = Cancelled(clients[k])
           /\ depth' = depth + 1
           /\ frame' = [frame EXCEPT ![depth] = [Top EXCEPT !.keys = Top.keys \ {k}],
                                     ![depth + 1] = ExecFrame(clients[k])]
           /\ UNCHANGED <<fsm, exc, ticket, tickets, status>>
        \/ /\ status' = "null"
           /\ UNCHANGED <<machine, timers, stack>>
  BY DEF BroadcastStep
<1> DEFINE rest == [Top EXCEPT !.keys = Top.keys \ {k}]
<1>3. /\ rest \in Frame /\ rest.c = Top.c /\ rest.pc = "bcast"
      /\ rest.keys \subseteq Top.keys
  BY <1>1 DEF Frame
<1>4. /\ depth < MaxDepth
      /\ \A q \in Top.keys, j \in 1..(depth - 1) :
            clients[q] \notin {Top.c, NoCtx} /\ Active(j) => frame[j].c # clients[q]
  BY <1>1 DEF IInv, FrameShape, Shape
<1>5. CASE /\ frame' = [frame EXCEPT ![depth] = rest]
           /\ UNCHANGED <<machine, timers, depth, status>>
  <2> HIDE DEF rest
  <2>1. UNCHANGED <<mem, key, ref, slot, clients, zombies, fsm, next, exc, wakeup,
                    alarms, ticket, tickets, depth, timeout, status>>
    BY <1>1, <1>5 DEF machine, timers
  <2>2. TypeOK'
    BY <1>1, <1>3, <1>5, <2>1 DEF IInv, TypeOK
  <2>3. frame'[depth] = rest /\ \A i \in 1..depth : i # depth => frame'[i] = frame[i]
    BY <1>1, <1>5 DEF IInv, TypeOK
  <2>4. \A i \in 1..depth : frame'[i].c = frame[i].c /\ frame'[i].pc = frame[i].pc
                             /\ (Active(i)' <=> Active(i))
    BY <1>1, <1>3, <2>3 DEF Active
  <2>5. FrameShape'
    <3>1. ASSUME NEW i \in 1..depth, i # depth PROVE Shape(i)'
      <4>1. \A j \in 1..i : frame'[j] = frame[j]
        BY <1>1, <2>3, <3>1
      <4> QED
        BY <1>1, <4>1, ShapeKept DEF IInv
    <3>2. ASSUME NEW i, i = depth PROVE Shape(i)'
      <4>1. \A j \in 1..(i - 1) : j \in 1..depth /\ frame'[j] = frame[j]
        BY <1>1, <2>3, <3>2
      <4> QED
        BY <1>1, <1>3, <1>4, <2>1, <2>3, <2>4, <3>2, <4>1 DEF Shape
    <3> QED
      BY <2>1, <3>1, <3>2 DEF FrameShape
  <2>6. StackIsLive'
    BY <2>1, <2>4 DEF IInv, StackIsLive, Live
  <2>7. RegistryConsistent'
    <3>1. \A d \in Ctx : Initialising(d) => Initialising(d)'
      BY <2>1, <2>4 DEF Initialising
    <3> QED
      BY <2>1, <3>1 DEF IInv, RegistryConsistent, Live, Running
  <2>8. TimersMatch' /\ ReferencesCounted'
    BY <2>1 DEF IInv, TimersMatch, ReferencesCounted, Holders, Live, Running
  <2> QED
    BY <2>2, <2>5, <2>6, <2>7, <2>8 DEF IInv
<1>6. CASE /\ ~ Skipped(clients[k]) /\ clients[k] # NoCtx
           /\ Begin(clients[k], Top.ev)
           /\ alarms' = Cancelled(clients[k])
           /\ depth' = depth + 1
           /\ frame' = [frame EXCEPT ![depth] = rest,
                                     ![depth + 1] = ExecFrame(clients[k])]
           /\ UNCHANGED <<fsm, exc, ticket, tickets, status>>
  <2> DEFINE c == clients[k]
  <2> HIDE DEF rest
  <2>1. /\ c \in Ctx /\ Live(c) /\ key[c] = k /\ clients[key[c]] = c
        /\ c \notin {Top.c, NoCtx}
    BY <1>1, <1>6 DEF IInv, TypeOK, RegistryConsistent, Skipped
  <2>2. \A i \in 1..depth : Active(i) => i \in 1..(depth - 1)
    BY <1>1 DEF Active
  <2>3. \A i \in 1..depth : Active(i) => frame[i].c # c
    BY <1>4, <2>1, <2>2
  <2>4. /\ TimersMatch' /\ next' \in [Ctx -> AllEvents]
        /\ wakeup' \in [Ctx -> AllEvents] /\ alarms' \in [Ctx -> Nat]
    BY <1>1, <1>6, <2>1, BeginTimers
  <2>5. /\ ExecFrame(c) \in Frame /\ depth + 1 \in 1..MaxDepth /\ depth + 1 # depth
        /\ depth' = depth + 1
        /\ frame' = [frame EXCEPT ![depth] = rest, ![depth + 1] = ExecFrame(c)]
        /\ UNCHANGED <<fsm, exc, ticket, tickets, status>>
    BY <1>1, <1>4, <1>6, <2>1, ExecFrameType
  <2> HIDE DEF c
  <2>6. frame' \in [1..MaxDepth -> Frame]
    BY <1>1, <1>3, <2>5 DEF IInv, TypeOK
  <2>7. TypeOK'
    <3>1. depth' \in 0..MaxDepth
      BY <1>1, <1>4, <2>5
    <3> QED
      BY <1>1, <2>4, <2>5, <2>6, <3>1 DEF IInv, TypeOK
  <2>8. /\ frame'[depth + 1] = ExecFrame(c) /\ frame'[depth] = rest
        /\ \A i \in 1..depth : i # depth => frame'[i] = frame[i]
    <3>1. frame'[depth + 1] = ExecFrame(c) /\ frame'[depth] = rest
      BY <1>1, <2>5 DEF IInv, TypeOK
    <3>2. \A i \in 1..MaxDepth : i \notin {depth, depth + 1} => frame'[i] = frame[i]
      BY <1>1, <2>5 DEF IInv, TypeOK
    <3> QED
      BY <1>1, <3>1, <3>2
  <2>9. ASSUME NEW i \in 1..depth
        PROVE  Shape(i)' /\ frame'[i].c = frame[i].c /\ frame'[i].pc = frame[i].pc
    <3>1. CASE i # depth
      <4>1. \A j \in 1..i : frame'[j] = frame[j]
        BY <1>1, <2>8, <3>1
      <4> QED
        BY <1>1, <2>8, <3>1, <4>1, ShapeKept DEF IInv
    <3>2. CASE i = depth
      <4>1. \A j \in 1..(i - 1) : frame'[j] = frame[j] /\ (Active(j)' <=> Active(j))
        BY <1>1, <2>8, <3>2 DEF Active
      <4> QED
        BY <1>1, <1>3, <1>4, <2>8, <3>2, <4>1 DEF Shape
    <3> QED
      BY <3>1, <3>2
  <2> QED
    BY <1>1, <1>4, <2>1, <2>3, <2>4, <2>5, <2>7, <2>8, <2>9, PushInv
<1>7. CASE status' = "null" /\ UNCHANGED <<machine, timers, stack>>
  <2>1. TypeOK'
    BY <1>1, <1>7 DEF IInv, TypeOK, machine, timers, stack
  <2> QED
    BY <1>1, <1>7, <2>1, QuietInv DEF machine, stack
<1> QED
  BY <1>2, <1>5, <1>6, <1>7

LEMMA BroadcastEndsInv == ASSUME IInv, BroadcastEnds PROVE IInv'
<1>1. /\ depth > 0 /\ depth \in 1..MaxDepth /\ MaxDepth \in Nat
      /\ Top.pc = "bcast" /\ Pop
      /\ UNCHANGED <<mem, key, ref, slot, clients, zombies, fsm, next, exc, wakeup,
                     alarms, ticket, tickets, timeout, status>>
  BY TopType DEF BroadcastEnds, At, machine, memory, timers, IInv
<1>2. Blank \in Frame
  BY ConstantsAssumption DEF Blank, Frame, AllEvents
<1>3. TypeOK'
  BY <1>1, <1>2 DEF IInv, TypeOK, Pop
<1> QED
  BY <1>1, <1>3, PopInv DEF timers

LEMMA ClientGetInv == ASSUME IInv, ClientGet PROVE IInv'
<1>1. PICK s \in Slots, c \in Targets : /\ slot[s] = NoCtx
                                        /\ slot' = [slot EXCEPT ![s] = c]
                                        /\ ref' = [ref EXCEPT ![c] = @ + 1]
  BY DEF ClientGet
<1>2. /\ InApp /\ Running
      /\ UNCHANGED <<mem, key, clients, zombies, fsm, next, exc, wakeup, alarms,
                     ticket, tickets, depth, frame, timeout, status>>
  BY DEF ClientGet, InApp, At, machine, timers, stack
<1>3. c \in Ctx /\ mem[c]
  BY <1>2, TargetAllocated
<1>4. TypeOK'
  BY <1>1, <1>2, <1>3 DEF IInv, TypeOK
<1>5. Holders(c)' = Holders(c) \cup {s} /\ s \notin Holders(c)
  BY <1>1, <1>2, <1>3, ConstantsAssumption DEF Holders, IInv, TypeOK
<1>6. \A d \in Ctx : d # c => Holders(d)' = Holders(d)
  BY <1>1, <1>2, <1>3, ConstantsAssumption DEF Holders, IInv, TypeOK
<1>7. IsFiniteSet(Holders(c)) /\ Cardinality(Holders(c)) \in Nat
  BY HoldersCount DEF IInv
<1>8. Cardinality(Holders(c) \cup {s}) = Cardinality(Holders(c)) + 1
  BY <1>5, <1>7, FS_AddElement
<1>9. ReferencesCounted'
  <2>1. ASSUME NEW t \in Slots, slot'[t] # NoCtx PROVE mem[slot'[t]]
    <3>1. CASE t = s
      BY <1>1, <1>3, <3>1 DEF IInv, TypeOK
    <3>2. CASE t # s
      BY <1>1, <1>2, <2>1, <3>2 DEF IInv, TypeOK, ReferencesCounted
    <3> QED
      BY <3>1, <3>2
  <2>2. ASSUME NEW d \in Ctx, mem[d]
        PROVE  ref'[d] = Cardinality(Holders(d)') /\ (fsm[d] = Zombie => ref'[d] > 0)
    <3>1. ref[d] = Cardinality(Holders(d)) /\ (fsm[d] = Zombie => ref[d] > 0)
      BY <1>2, <2>2 DEF IInv, ReferencesCounted
    <3>2. CASE d = c
      <4>1. ref'[c] = ref[c] + 1
        BY <1>1, <1>3 DEF IInv, TypeOK
      <4> QED
        BY <1>5, <1>7, <1>8, <3>1, <3>2, <4>1
    <3>3. CASE d # c
      BY <1>1, <1>6, <3>1, <3>3 DEF IInv, TypeOK
    <3> QED
      BY <3>2, <3>3
  <2> QED
    BY <1>2, <2>1, <2>2 DEF ReferencesCounted
<1>10. FrameShape' /\ StackIsLive'
  BY <1>2 DEF IInv, FrameShape, Shape, StackIsLive, Active, Live
<1>11. RegistryConsistent' /\ TimersMatch'
  BY <1>2 DEF IInv, RegistryConsistent, TimersMatch, Live, Initialising, Running
<1> QED
  BY <1>4, <1>9, <1>10, <1>11 DEF IInv

LEMMA ClientPutInv == ASSUME IInv, ClientPut PROVE IInv'
<1>1. PICK s \in Slots :
        /\ slot[s] # NoCtx
        /\ slot' = [slot EXCEPT ![s] = NoCtx]
        /\ ref' = [ref EXCEPT ![slot[s]] = @ - 1]
        /\ zombies' = IF ref[slot[s]] = 1 /\ fsm[slot[s]] = Zombie
                      THEN [zombies EXCEPT ![key[slot[s]]] = NoCtx] ELSE zombies
        /\ mem' = IF ref[slot[s]] = 1 /\ fsm[slot[s]] = Zombie
                  THEN [mem EXCEPT ![slot[s]] = FALSE] ELSE mem
  BY DEF ClientPut
<1>0. PICK c : c = slot[s]
  OBVIOUS
<1>2. /\ Running
      /\ UNCHANGED <<key, clients, fsm, next, exc, wakeup, alarms, ticket, tickets,
                     depth, frame, timeout, status>>
  BY DEF ClientPut, InApp, At, machine, timers, stack
<1>3. c \in Ctx /\ mem[c] /\ ref[c] = Cardinality(Holders(c)) /\ s \in Holders(c)
  <2>1. c \in Ctx /\ mem[c]
    BY <1>0, <1>1, <1>2 DEF IInv, TypeOK, ReferencesCounted
  <2>2. s \in Holders(c)
    BY <1>0 DEF Holders
  <2>3. ref[c] = Cardinality(Holders(c))
    BY <1>2, <2>1 DEF IInv, ReferencesCounted
  <2> QED
    BY <2>1, <2>2, <2>3
<1>4. IsFiniteSet(Holders(c)) /\ Cardinality(Holders(c)) \in Nat
  BY HoldersCount DEF IInv
<1>5. Cardinality(Holders(c) \ {s}) = Cardinality(Holders(c)) - 1
  BY <1>3, <1>4, FS_RemoveElement
<1>6. ref[c] \in Nat \ {0}
  BY <1>0, <1>3, HoldersCount DEF IInv
<1>7. /\ slot' = [slot EXCEPT ![s] = NoCtx]
      /\ ref' = [ref EXCEPT ![c] = @ - 1]
      /\ mem' = IF ref[c] = 1 /\ fsm[c] = Zombie THEN [mem EXCEPT ![c] = FALSE] ELSE mem
      /\ zombies' \in [Ids -> Ctx \cup {NoCtx}]
  BY <1>0, <1>1 DEF IInv, TypeOK
<1>8. Holders(c)' = Holders(c) \ {s}
      /\ \A d \in Ctx : d # c => Holders(d)' = Holders(d)
  <2>1. c # NoCtx
    BY <1>0, <1>1
  <2>2. \A t \in Slots : slot'[t] = IF t = s THEN NoCtx ELSE slot[t]
    BY <1>1 DEF IInv, TypeOK
  <2>3. NoCtx \notin Ctx
    BY ConstantsAssumption
  <2>4. Holders(c)' = Holders(c) \ {s}
    BY <2>2, <2>3, <1>3 DEF Holders
  <2>5. \A d \in Ctx : d # c => Holders(d)' = Holders(d)
    BY <1>0, <2>2, <2>3 DEF Holders
  <2> QED
    BY <2>4, <2>5
<1>9. \A d \in Ctx : mem'[d] => mem[d]
  BY <1>3, <1>7 DEF IInv, TypeOK
<1>10. \A d \in Ctx : Live(d)' <=> Live(d)
  BY <1>2, <1>3, <1>7 DEF IInv, TypeOK, Live
<1>11. TypeOK'
  BY <1>2, <1>3, <1>6, <1>7 DEF IInv, TypeOK
<1>12. \A i \in 1..depth : Active(i) => frame[i].c \in Ctx
  BY ConstantsAssumption DEF IInv, TypeOK, Frame, Active
<1>13. FrameShape' /\ StackIsLive'
  BY <1>2, <1>10, <1>12 DEF IInv, FrameShape, Shape, StackIsLive, Active
<1>14. RegistryConsistent' /\ TimersMatch'
  <2>1. \A d \in Ctx : Initialising(d)' <=> Initialising(d)
    BY <1>2 DEF Initialising
  <2>2. RegistryConsistent'
    BY <1>2, <1>10, <2>1 DEF IInv, TypeOK, RegistryConsistent, Running
  <2>3. TimersMatch'
    BY <1>2, <1>10 DEF IInv, TimersMatch, Running
  <2> QED
    BY <2>2, <2>3
<1>15. ReferencesCounted'
  <2>1. ASSUME NEW t \in Slots, slot'[t] # NoCtx PROVE mem'[slot'[t]]
    <3>1. t # s /\ slot'[t] = slot[t] /\ mem[slot[t]] /\ slot[t] \in Ctx
      BY <1>1, <1>2, <2>1 DEF IInv, TypeOK, ReferencesCounted
    <3>2. CASE slot[t] = c /\ ref[c] = 1
      <4>1. t \in Holders(c) \ {s}
        BY <3>1, <3>2 DEF Holders
      <4>2. IsFiniteSet(Holders(c) \ {s}) /\ Cardinality(Holders(c) \ {s}) = 0
        BY <1>3, <1>4, <1>5, <3>2, FS_RemoveElement
      <4> QED
        BY <4>1, <4>2, FS_EmptySet
    <3>3. CASE slot[t] # c \/ ref[c] # 1
      BY <1>3, <1>7, <3>1, <3>3 DEF IInv, TypeOK
    <3> QED
      BY <3>2, <3>3
  <2>2. ASSUME NEW d \in Ctx, mem'[d]
        PROVE  ref'[d] = Cardinality(Holders(d)') /\ (fsm'[d] = Zombie => ref'[d] > 0)
    <3>1. mem[d] /\ ref[d] = Cardinality(Holders(d)) /\ (fsm[d] = Zombie => ref[d] > 0)
      BY <1>2, <1>9, <2>2 DEF IInv, ReferencesCounted
    <3>2. CASE d = c
      <4>1. ref'[d] = ref[c] - 1
        BY <1>3, <1>7, <3>2 DEF IInv, TypeOK
      <4>2. fsm[c] = Zombie => ref[c] # 1
        BY <1>3, <1>7, <2>2, <3>2 DEF IInv, TypeOK
      <4> QED
        BY <1>2, <1>3, <1>5, <1>6, <1>8, <3>2, <4>1, <4>2
    <3>3. CASE d # c
      BY <1>2, <1>3, <1>7, <1>8, <3>1, <3>3 DEF IInv, TypeOK
    <3> QED
      BY <3>2, <3>3
  <2> QED
    BY <2>1, <2>2 DEF ReferencesCounted
<1> QED
  BY <1>11, <1>13, <1>14, <1>15 DEF IInv

LEMMA AcceptInv ==
    ASSUME IInv, NEW k \in Ids, NEW m, Accept(k, m)
    PROVE  IInv'
<1>1. /\ Running /\ depth = 0 /\ 1 \in 1..MaxDepth /\ MaxDepth \in Nat
      /\ clients[k] = NoCtx
      /\ UNCHANGED <<alarms, slot, clients, zombies, timeout, status>>
  BY ConstantsAssumption DEF Accept, Idle
<1>2. PICK c \in Ctx :
        /\ ~ mem[c]
        /\ mem' = [mem EXCEPT ![c] = TRUE]
        /\ key' = [key EXCEPT ![c] = k]
        /\ fsm' = [fsm EXCEPT ![c] = First]
        /\ next' = [next EXCEPT ![c] = NoEvent]
        /\ exc' = [exc EXCEPT ![c] = NoEvent]
        /\ wakeup' = [wakeup EXCEPT ![c] = NoEvent]
        /\ ref' = [ref EXCEPT ![c] = 0]
        /\ ticket' = [ticket EXCEPT ![c] = timeout /\ Expired \in Events]
        /\ tickets' = IF timeout /\ Expired \in Events
                      THEN [tickets EXCEPT ![c] = @ + 1] ELSE tickets
        /\ Push([Blank EXCEPT !.c = c, !.pc = "init", !.ev = EventOf(m)])
  BY Zenon DEF Accept
<1>3. PICK f : f = [Blank EXCEPT !.c = c, !.pc = "init", !.ev = EventOf(m)]
  OBVIOUS
<1>4. f \in Frame /\ f.c = c /\ f.pc = "init"
  <2>1. EventOf(m) \in AllEvents
    BY EventOfType
  <2> QED
    BY <1>3, <2>1, ConstantsAssumption DEF Blank, Frame
<1>5. depth' = 1 /\ frame' = [frame EXCEPT ![1] = f]
  BY <1>1, <1>2, <1>3 DEF Push
<1>6. frame'[1].c = c /\ frame'[1].pc = "init" /\ frame' \in [1..MaxDepth -> Frame]
  BY <1>1, <1>4, <1>5 DEF IInv, TypeOK
<1>7. alarms[c] = 0 /\ tickets[c] = 0
  BY <1>1, <1>2 DEF IInv, TimersMatch, Live
<1>8. timeout \in BOOLEAN /\ (timeout /\ Expired \in Events) \in BOOLEAN
  BY DEF IInv, TypeOK
<1>9. TypeOK'
  <2>1. tickets' \in [Ctx -> Nat]
    BY <1>2, <1>7 DEF IInv, TypeOK
  <2>2. ticket' \in [Ctx -> BOOLEAN]
    BY <1>2, <1>8 DEF IInv, TypeOK
  <2>3. /\ next' \in [Ctx -> AllEvents] /\ exc' \in [Ctx -> AllEvents]
        /\ wakeup' \in [Ctx -> AllEvents]
    BY <1>2 DEF IInv, TypeOK, AllEvents
  <2>4. /\ mem' \in [Ctx -> BOOLEAN] /\ key' \in [Ctx -> Ids]
        /\ fsm' \in [Ctx -> States \cup {Zombie}] /\ ref' \in [Ctx -> Nat]
    BY <1>2, ConstantsAssumption DEF IInv, TypeOK
  <2> QED
    BY <1>1, <1>5, <1>6, <2>1, <2>2, <2>3, <2>4 DEF IInv, TypeOK
<1>10. \A d \in Ctx : d # c => Live(d)' = Live(d)
  BY <1>2 DEF IInv, TypeOK, Live
<1>11. c # NoCtx /\ Live(c)' /\ Initialising(c)' /\ key'[c] = k
  BY <1>2, <1>5, <1>6, ConstantsAssumption DEF IInv, TypeOK, Live, Initialising
<1>12. FrameShape' /\ StackIsLive'
  <2>1. \A i \in 1..depth' : i = 1
    BY <1>5
  <2>2. Shape(1)'
    BY <1>1, <1>6, <1>11 DEF Shape
  <2> QED
    BY <1>6, <1>11, <2>1, <2>2 DEF FrameShape, StackIsLive
<1>13. RegistryConsistent'
  <2>1. ASSUME NEW j \in Ids, clients[j] # NoCtx
        PROVE  Live(clients[j])' /\ key'[clients[j]] = j
    <3>1. clients[j] \in Ctx /\ Live(clients[j]) /\ key[clients[j]] = j
      BY <2>1 DEF IInv, TypeOK, RegistryConsistent
    <3>2. clients[j] # c
      BY <1>2, <3>1 DEF Live
    <3>3. PICK d \in Ctx : d = clients[j]
      BY <3>1
    <3>4. Live(d)' /\ key'[d] = j /\ clients'[j] = d
      BY <1>1, <1>2, <1>10, <3>1, <3>2, <3>3 DEF IInv, TypeOK
    <3> QED
      BY <1>1, <3>3, <3>4 DEF Live
  <2>2. ASSUME NEW d \in Ctx, Live(d)' PROVE clients[key'[d]] = d \/ Initialising(d)'
    <3>1. CASE d = c
      BY <1>11, <3>1
    <3>2. CASE d # c
      <4>1. ~ Initialising(d) /\ Live(d) /\ key'[d] = key[d]
        BY <1>1, <1>2, <1>10, <2>2, <3>2 DEF IInv, TypeOK, Initialising
      <4> QED
        BY <1>1, <4>1 DEF IInv, RegistryConsistent
    <3> QED
      BY <3>1, <3>2
  <2> QED
    BY <1>1, <2>1, <2>2 DEF RegistryConsistent, Live
<1>14. ReferencesCounted'
  <2>1. \A s \in Slots : slot[s] # NoCtx => mem[slot[s]] /\ slot[s] \in Ctx
    BY <1>1 DEF IInv, TypeOK, ReferencesCounted
  <2>2. \A s \in Slots : slot[s] # c
    BY <1>2, <1>11, <2>1
  <2>3. Cardinality(Holders(c)) = 0
    BY <2>2, HoldersCount DEF IInv
  <2>4. \A d \in Ctx : Holders(d)' = Holders(d)
    BY <1>1 DEF Holders
  <2>5. ASSUME NEW d \in Ctx, mem'[d]
        PROVE  ref'[d] = Cardinality(Holders(d)') /\ (fsm'[d] = Zombie => ref'[d] > 0)
    <3>1. CASE d = c
      <4>1. ref'[c] = 0 /\ fsm'[c] # Zombie
        BY <1>2, ConstantsAssumption DEF IInv, TypeOK
      <4> QED
        BY <2>3, <2>4, <3>1, <4>1
    <3>2. CASE d # c
      <4>1. mem[d] /\ ref'[d] = ref[d] /\ fsm'[d] = fsm[d]
        BY <1>2, <2>5, <3>2 DEF IInv, TypeOK
      <4> QED
        BY <1>1, <2>4, <4>1 DEF IInv, ReferencesCounted
    <3> QED
      BY <3>1, <3>2
  <2>6. \A s \in Slots : slot'[s] # NoCtx => mem'[slot'[s]]
    BY <1>1, <1>2, <2>1 DEF IInv, TypeOK
  <2> QED
    BY <2>5, <2>6 DEF ReferencesCounted
<1>15. TimersMatch'
  <2>1. ASSUME NEW d \in Ctx
        PROVE  /\ alarms'[d] = IF Live(d)' /\ wakeup'[d] # NoEvent THEN 1 ELSE 0
               /\ tickets'[d] = IF Live(d)' /\ ticket'[d] THEN 1 ELSE 0
    <3>1. CASE d = c
      BY <1>1, <1>2, <1>7, <1>8, <1>11, <3>1 DEF IInv, TypeOK
    <3>2. CASE d # c
      <4>1. /\ wakeup'[d] = wakeup[d] /\ ticket'[d] = ticket[d]
            /\ tickets'[d] = tickets[d] /\ alarms'[d] = alarms[d]
        BY <1>1, <1>2, <3>2 DEF IInv, TypeOK
      <4> QED
        BY <1>1, <1>10, <3>2, <4>1 DEF IInv, TimersMatch
    <3> QED
      BY <3>1, <3>2
  <2> QED
    BY <2>1 DEF TimersMatch
<1> QED
  BY <1>9, <1>12, <1>13, <1>14, <1>15 DEF IInv

LEMMA CallbackInv == ASSUME IInv, Callback PROVE IInv'
<1>1. /\ Running /\ depth = 0 /\ 1 \in 1..MaxDepth /\ MaxDepth \in Nat
      /\ depth' = 1 /\ frame' = [frame EXCEPT ![1] = Blank]
      /\ UNCHANGED <<mem, key, ref, slot, clients, zombies, fsm, next, exc, wakeup,
                     alarms, ticket, tickets, timeout, status>>
  BY ConstantsAssumption DEF Callback, Idle, Push, machine, memory, timers
<1>2. Blank \in Frame /\ Blank.c = NoCtx /\ Blank.pc = "app"
  BY ConstantsAssumption DEF Blank, Frame, AllEvents
<1>3. TypeOK'
  BY <1>1, <1>2 DEF IInv, TypeOK
<1>4. frame'[1] = Blank /\ \A i \in 1..depth' : i = 1
  BY <1>1 DEF IInv, TypeOK
<1>5. FrameShape' /\ StackIsLive'
  <2>1. Shape(1)'
    BY <1>2, <1>4 DEF Shape
  <2> QED
    BY <1>2, <1>4, <2>1 DEF FrameShape, StackIsLive, Active
<1>6. RegistryConsistent'
  <2>1. \A c \in Ctx : ~ Initialising(c)
    BY <1>1 DEF Initialising
  <2> QED
    BY <1>1, <2>1 DEF IInv, RegistryConsistent, Live, Running
<1>7. ReferencesCounted' /\ TimersMatch'
  BY <1>1 DEF IInv, ReferencesCounted, TimersMatch, Holders, Live, Running
<1> QED
  BY <1>3, <1>5, <1>6, <1>7 DEF IInv

\* After s_server_destroy the table of clients is empty.
LEMMA StopInv == ASSUME IInv, Stop PROVE IInv'
<1>1. /\ depth = 0 /\ status' = "stopped"
      /\ zombies' = AllZombies
      /\ mem' \in [Ctx -> BOOLEAN]
      /\ fsm' = [c \in Ctx |-> IF c \in Listed(clients) /\ ref[c] > 0
                               THEN Zombie ELSE fsm[c]]
      /\ clients' = [k \in Ids |-> NoCtx]
      /\ UNCHANGED <<key, ref, slot, next, exc, wakeup, alarms, ticket, tickets,
                     depth, frame, timeout>>
  BY DEF Stop, Idle, timers, stack
<1>2. TypeOK'
  <2>1. AllZombies \in [Ids -> Ctx \cup {NoCtx}]
    BY DEF IInv, TypeOK, AllZombies
  <2>2. fsm' \in [Ctx -> States \cup {Zombie}]
    BY <1>1 DEF IInv, TypeOK
  <2> QED
    BY <1>1, <2>1, <2>2 DEF IInv, TypeOK
<1>3. FrameShape' /\ StackIsLive'
  BY <1>1 DEF FrameShape, StackIsLive
<1>4. RegistryConsistent' /\ ReferencesCounted' /\ TimersMatch'
  BY <1>1 DEF RegistryConsistent, ReferencesCounted, TimersMatch, Running
<1> QED
  BY <1>2, <1>3, <1>4 DEF IInv

\* client_initialize is only called at the bottom of the stack, so the context
\* that enters the table replaces none.
LEMMA InitializeReturnsInv == ASSUME IInv, InitializeReturns PROVE IInv'
<1>0. PICK c : c = Top.c
  OBVIOUS
<1>1. /\ Running /\ depth \in 1..MaxDepth /\ MaxDepth \in Nat /\ depth > 0
      /\ Top = frame[depth] /\ Top.pc = "init" /\ Top.ev \in AllEvents
      /\ UNCHANGED <<fsm, exc, mem, key, ref, slot, zombies, timeout, status>>
      /\ clients' = [clients EXCEPT ![key[c]] = c]
  BY <1>0, TopType DEF IInv, InitializeReturns, At
<1>2. c # NoCtx /\ depth = 1 /\ clients[key[c]] = NoCtx
  BY <1>0, <1>1 DEF IInv, FrameShape, Shape
<1>3. c \in Ctx /\ Live(c) /\ key[c] \in Ids
  BY <1>0, <1>1, <1>2, TopLive
<1>4. \/ /\ depth' = 0 /\ frame' = [frame EXCEPT ![1] = Blank]
         /\ UNCHANGED <<wakeup, alarms, ticket, tickets, next>>
      \/ /\ next' = [next EXCEPT ![c] = Top.ev]
         /\ wakeup' = [wakeup EXCEPT ![c] = NoEvent]
         /\ alarms' = Cancelled(c)
         /\ frame' = [frame EXCEPT ![1] = ExecFrame(c)]
         /\ UNCHANGED <<depth, ticket, tickets>>
  BY <1>0, <1>2 DEF InitializeReturns, Begin, Pop, timers
<1>5. ExecFrame(c) \in Frame /\ Blank \in Frame
  BY <1>3, ExecFrameType
<1>6. /\ alarms' \in [Ctx -> Nat]
      /\ wakeup' \in [Ctx -> AllEvents]
      /\ TimersMatch'
  <2>1. CASE UNCHANGED <<wakeup, alarms, ticket, tickets, next>>
    BY <1>1, <2>1 DEF IInv, TypeOK, TimersMatch, Live, Running
  <2>2. CASE /\ wakeup' = [wakeup EXCEPT ![c] = NoEvent]
             /\ alarms' = Cancelled(c)
             /\ UNCHANGED <<ticket, tickets>>
    <3>1. alarms[c] = IF wakeup[c] # NoEvent THEN 1 ELSE 0
      BY <1>1, <1>3 DEF IInv, TimersMatch
    <3>2. alarms' \in [Ctx -> Nat] /\ alarms'[c] = 0
      BY <1>3, <2>2, <3>1 DEF IInv, TypeOK, Cancelled
    <3>3. wakeup' \in [Ctx -> AllEvents] /\ wakeup'[c] = NoEvent
      BY <1>3, <2>2 DEF IInv, TypeOK, AllEvents
    <3>4. \A d \in Ctx : d # c => alarms'[d] = alarms[d] /\ wakeup'[d] = wakeup[d]
      BY <1>3, <2>2 DEF IInv, TypeOK, Cancelled
    <3>5. \A d \in Ctx : Live(d)' <=> Live(d)
      BY <1>1 DEF Live
    <3> QED
      BY <1>1, <2>2, <3>2, <3>3, <3>4, <3>5 DEF IInv, TimersMatch
  <2> QED
    BY <1>4, <2>1, <2>2
<1>7. TypeOK'
  <2>1. depth' \in 0..MaxDepth
    BY <1>1, <1>2, <1>4
  <2>2. frame' \in [1..MaxDepth -> Frame]
    BY <1>4, <1>5 DEF IInv, TypeOK
  <2>3. clients' \in [Ids -> Ctx \cup {NoCtx}] /\ next' \in [Ctx -> AllEvents]
    BY <1>1, <1>3, <1>4 DEF IInv, TypeOK
  <2>4. ticket' \in [Ctx -> BOOLEAN] /\ tickets' \in [Ctx -> Nat]
    BY <1>4 DEF IInv, TypeOK
  <2> QED
    BY <1>1, <1>6, <2>1, <2>2, <2>3, <2>4 DEF IInv, TypeOK
<1>8. \A i \in 1..depth' : /\ i = 1
                           /\ frame'[i].c = c /\ frame'[i].pc = "top"
  <2>1. CASE depth' = 0
    BY <2>1
  <2>2. CASE depth' = depth /\ frame' = [frame EXCEPT ![1] = ExecFrame(c)]
    <3>1. frame'[1] = ExecFrame(c)
      BY <1>1, <1>2, <2>2 DEF IInv, TypeOK
    <3>2. frame'[1].c = c /\ frame'[1].pc = "top"
      BY <3>1 DEF ExecFrame, Blank
    <3>3. \A i \in 1..depth' : i = 1
      BY <1>2, <2>2
    <3> QED
      BY <3>2, <3>3
  <2> QED
    BY <1>4, <2>1, <2>2
<1>9. clients'[key[c]] = c /\ \A j \in Ids : j # key[c] => clients'[j] = clients[j]
  BY <1>1, <1>3 DEF IInv, TypeOK
<1>10. FrameShape' /\ StackIsLive'
  <2>1. ASSUME NEW i \in 1..depth' PROVE Shape(i)'
    BY <1>2, <1>8 DEF Shape
  <2>2. \A i \in 1..depth' : Live(frame'[i].c) /\ clients'[key[frame'[i].c]] = frame'[i].c
    BY <1>3, <1>8, <1>9
  <2> QED
    BY <1>1, <1>8, <2>1, <2>2 DEF FrameShape, StackIsLive, Live
<1>11. RegistryConsistent'
  <2>1. ASSUME NEW d \in Ctx, Live(d), d # c PROVE clients'[key[d]] = d
    <3>1. ~ Initialising(d)
      BY <1>0, <1>1, <1>2, <2>1 DEF Initialising
    <3>2. clients[key[d]] = d /\ key[d] \in Ids
      BY <1>1, <2>1, <3>1 DEF IInv, TypeOK, RegistryConsistent
    <3>3. key[d] # key[c]
      BY <1>2, <2>1, <3>2, ConstantsAssumption
    <3> QED
      BY <1>9, <3>2, <3>3
  <2>2. ASSUME NEW j \in Ids, clients'[j] # NoCtx
        PROVE  Live(clients'[j]) /\ key[clients'[j]] = j
    BY <1>3, <1>9, <2>2 DEF IInv, RegistryConsistent
  <2> QED
    BY <1>1, <1>9, <2>1, <2>2 DEF RegistryConsistent, Live, Running
<1>12. ReferencesCounted'
  BY <1>1 DEF IInv, ReferencesCounted, Holders, Running
<1> QED
  BY <1>6, <1>7, <1>10, <1>11, <1>12 DEF IInv

-------------------------------------------------------------------------------
\* The invariant is inductive.

LEMMA NextInv ==
    ASSUME Reentry = "never", IInv, [Next]_vars
    PROVE  IInv'
<1>1. CASE Engine
  BY <1>1, TopOfLoopInv, BodyStepInv, EndOfPassInv, BroadcastStepInv,
     BroadcastEndsInv, ReturnInv, InitializeReturnsInv DEF Engine, Return
<1>2. CASE AppCall
  BY <1>2, SettersInv, SetWakeupEventInv, SendEventInv, BroadcastEventInv,
     ClientGetInv, ClientPutInv DEF AppCall
<1>3. CASE Traffic
  BY <1>3, ReceiveInv, AcceptInv DEF Traffic
<1>4. CASE \E c \in Ctx : HandleWakeup(c) \/ HandleTicket(c)
  BY <1>4, HandleWakeupInv, HandleTicketInv
<1>5. CASE Callback \/ Stop
  BY <1>5, CallbackInv, StopInv
<1>6. CASE Configure \/ Done
  BY <1>6, SettersInv
<1>7. CASE UNCHANGED vars
  <2>1. UNCHANGED <<mem, key, fsm, next, exc, wakeup, alarms, ticket, tickets, ref,
                    slot, clients, zombies, timeout, depth, frame, status>>
    BY <1>7 DEF vars, machine, memory, timers, stack
  <2>2. TypeOK'
    BY <2>1 DEF IInv, TypeOK
  <2> QED
    BY <2>1, <2>2, QuietInv DEF timers
<1> QED
  BY <1>1, <1>2, <1>3, <1>4, <1>5, <1>6, <1>7 DEF Next

LEMMA Inductive == Reentry = "never" => (Spec => []IInv)
<1> SUFFICES ASSUME Reentry = "never" PROVE Spec => []IInv
  OBVIOUS
<1>1. IInv /\ [Next]_vars => IInv'
  BY NextInv
<1> QED
  BY <1>1, InitInv, PTL DEF Spec

\* As long as no action re-enters a running machine, every step of the engine
\* keeps its tables, timers and call stack well formed.
THEOREM TypeCorrect == Reentry = "never" => (Spec => []TypeOK)
<1>1. IInv => TypeOK
  BY DEF IInv
<1> QED
  BY <1>1, Inductive, PTL

\* s_client_execute never works on a context that was freed or became a zombie
\* while an action of it ran other machines, whatever actions do otherwise.
THEOREM StackStaysLive == Reentry = "never" => (Spec => []StackIsLive)
<1>1. IInv => StackIsLive
  BY DEF IInv
<1> QED
  BY <1>1, Inductive, PTL

\* The table of clients names every live context once, under its own key.
THEOREM RegistryStaysConsistent == Reentry = "never" => (Spec => []RegistryConsistent)
<1>1. IInv => RegistryConsistent
  BY DEF IInv
<1> QED
  BY <1>1, Inductive, PTL

\* engine_client_get and engine_client_put keep the count of references right,
\* and s_client_destroy never frees what the application still holds.
THEOREM ReferencesStayCounted == Reentry = "never" => (Spec => []ReferencesCounted)
<1>1. IInv => ReferencesCounted
  BY DEF IInv
<1> QED
  BY <1>1, Inductive, PTL

\* No alarm or ticket of the reactor outlives the context it would be called
\* for, and none that the context relies on is lost.
THEOREM TimersStayMatched == Reentry = "never" => (Spec => []TimersMatch)
<1>1. IInv => TimersMatch
  BY DEF IInv
<1> QED
  BY <1>1, Inductive, PTL
===============================================================================
