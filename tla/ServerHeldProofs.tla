---------------------------- MODULE ServerHeldProofs ----------------------------
(***************************************************************************)
(* What a reference protects, for every dialog, every number of peers,     *)
(* contexts and references and every depth of nesting, when actions may    *)
(* re-enter a machine that is running provided they hold a reference to    *)
(* its context (Reentry = "held").                                         *)
(***************************************************************************)
EXTENDS ServerEngineProofs

\* What holds even after a context was lost, which makes counts and timers
\* meaningless: most types, the form of the call stack, and that the table of
\* clients has usable contexts under their own keys.
Loose ==
    /\ mem \in [Ctx -> BOOLEAN]
    /\ key \in [Ctx -> Ids]
    /\ fsm \in [Ctx -> States \cup {Zombie}]
    /\ next \in [Ctx -> AllEvents]
    /\ exc \in [Ctx -> AllEvents]
    /\ wakeup \in [Ctx -> AllEvents]
    /\ ticket \in [Ctx -> BOOLEAN]
    /\ slot \in [Slots -> Ctx \cup {NoCtx}]
    /\ clients \in [Ids -> Ctx \cup {NoCtx}]
    /\ zombies \in [Ids -> Ctx \cup {NoCtx}]
    /\ timeout \in BOOLEAN
    /\ depth \in 0..MaxDepth
    /\ frame \in [1..MaxDepth -> Frame]
    /\ status \in {"running", "stopped", "assert", "null"}
    /\ status = "stopped" => depth = 0

Form(i) ==
    /\ frame[i].pc \in {"top", "body", "init"} => frame[i].c # NoCtx
    /\ frame[i].pc = "init" =>
        i = 1 /\ Live(frame[i].c) /\ clients[key[frame[i].c]] = NoCtx
    /\ frame[i].pc \in {"body", "app"} /\ frame[i].c # NoCtx =>
        Handled(frame[i].st, frame[i].ev)
    /\ frame[i].pc = "bcast" => i < MaxDepth

TableLive ==
    \A k \in Ids : clients[k] # NoCtx => Live(clients[k]) /\ key[clients[k]] = k

Sound == Loose /\ (\A i \in 1..depth : Form(i)) /\ TableLive

\* What holds as long as no context was lost.  A context on the call stack is
\* allocated; once it is a zombie nobody has its key; if it is there twice, or
\* may be because a broadcast has it ahead, it is referenced.
Kept(i) ==
    /\ Active(i) =>
        /\ mem[frame[i].c]
        /\ fsm[frame[i].c] = Zombie =>
            /\ clients[key[frame[i].c]] = NoCtx
            /\ frame[1].pc = "init" => key[frame[1].c] # key[frame[i].c]
        /\ \A j \in 1..depth :
            j # i /\ Active(j) /\ frame[j].c = frame[i].c => ref[frame[i].c] > 0
    /\ frame[i].pc = "bcast" =>
        \A k \in frame[i].keys, j \in 1..(i - 1) :
            (/\ clients[k] \notin {frame[i].c, NoCtx}
             /\ Active(j)
             /\ frame[j].c = clients[k]) => ref[clients[k]] > 0

Counts == /\ alarms \in [Ctx -> Nat]
          /\ tickets \in [Ctx -> Nat]
          /\ ref \in [Ctx -> Nat]

Intact == /\ Counts
          /\ \A i \in 1..depth : Kept(i)
          /\ ReferencesCounted
          /\ TimersMatch

Whole == NoneLost /\ status # "stopped"

HInv == Sound /\ (Whole => Intact)

-------------------------------------------------------------------------------
LEMMA HeldInit == Init => HInv
<1> SUFFICES ASSUME Init PROVE HInv
  OBVIOUS
<1> USE ConstantsAssumption DEF Init
<1>1. TypeOK /\ ReferencesCounted /\ TimersMatch
  BY InitInv DEF IInv
<1>2. Sound
  BY <1>1 DEF Sound, Loose, TableLive, TypeOK
<1>3. Intact
  BY <1>1 DEF Intact, Counts, TypeOK
<1> QED
  BY <1>2, <1>3 DEF HInv

LEMMA TopForm ==
    ASSUME Sound, depth > 0
    PROVE  /\ depth \in 1..MaxDepth /\ MaxDepth \in Nat
           /\ Top = frame[depth] /\ Top \in Frame
           /\ Top.c \in Ctx \cup {NoCtx}
           /\ Top.st \in States
           /\ Top.ev \in AllEvents
           /\ Top.at \in Nat
           /\ Top.keys \subseteq Ids
           /\ Top.pc \in {"top", "body", "app", "init", "bcast"}
           /\ Form(depth)
<1>1. depth \in 1..MaxDepth /\ MaxDepth \in Nat
  BY ConstantsAssumption DEF Sound, Loose
<1>2. frame[depth] \in Frame
  BY <1>1 DEF Sound, Loose
<1>3. Form(depth)
  BY <1>1 DEF Sound
<1> QED
  BY <1>1, <1>2, <1>3 DEF Top, Frame

\* The contexts of the frames.
LEMMA FrameContext ==
    ASSUME Sound, NEW i \in 1..depth
    PROVE  /\ i \in 1..MaxDepth /\ frame[i] \in Frame
           /\ frame[i].c \in Ctx \cup {NoCtx}
           /\ frame[i].keys \subseteq Ids
           /\ Form(i)
<1>1. i \in 1..MaxDepth
  BY ConstantsAssumption DEF Sound, Loose
<1>2. frame[i] \in Frame
  BY <1>1 DEF Sound, Loose
<1> QED
  BY <1>1, <1>2 DEF Sound, Frame

\* A step that opens no context and enters none in the table: who is no longer
\* usable has left the table, and no frame of client_initialize is new.
SameFrame(i) == /\ frame'[i].c = frame[i].c
                /\ frame'[i].pc = frame[i].pc
                /\ frame'[i].st = frame[i].st
                /\ frame'[i].ev = frame[i].ev

Tame ==
    /\ status = "stopped" => status' = "stopped"
    /\ key' = key
    /\ \A k \in Ids : clients'[k] \in {clients[k], NoCtx}
    /\ \A d \in Ctx : Live(d) =>
        Live(d)' \/ (clients[key[d]] = d /\ clients'[key[d]] = NoCtx)
    /\ \A i \in 1..depth' : \/ i \in 1..depth /\ SameFrame(i)
                            \/ frame'[i].pc # "init" /\ Form(i)'

\* Such a step keeps the stack and the table sound, and finds no context that
\* was lost.
LEMMA TameSound ==
    ASSUME Sound, Loose', Tame
    PROVE  Sound' /\ (Whole' => Whole)
<1>1. ASSUME NEW i \in 1..depth' PROVE Form(i)'
  <2>1. CASE frame'[i].pc # "init" /\ Form(i)'
    BY <2>1
  <2>2. CASE i \in 1..depth /\ SameFrame(i)
    <3>1. Form(i) /\ frame[i].c \in Ctx \cup {NoCtx}
      BY <2>2, FrameContext
    <3>2. ASSUME frame[i].pc = "init"
          PROVE  /\ i = 1 /\ Live(frame[i].c)'
                 /\ clients'[key'[frame[i].c]] = NoCtx
      <4>1. PICK d \in Ctx : d = frame[i].c
        BY <3>1, <3>2 DEF Form
      <4>2. Live(d) /\ clients[key[d]] = NoCtx /\ key[d] \in Ids /\ i = 1
        BY <3>1, <3>2, <4>1 DEF Form, Sound, Loose
      <4>3. Live(d)' /\ clients'[key'[d]] = NoCtx
        BY <4>2, ConstantsAssumption DEF Tame
      <4>4. mem'[d] /\ fsm'[d] # Zombie
        BY <4>3 DEF Live
      <4> QED
        BY <2>2, <4>1, <4>2, <4>3, <4>4 DEF Live, SameFrame
    <3>3. frame'[i].c = frame[i].c
      BY <2>2 DEF SameFrame
    <3> QED
      BY <2>2, <3>1, <3>2, <3>3 DEF Form, SameFrame, Live
  <2> QED
    BY <2>1, <2>2 DEF Tame
<1>2. TableLive'
  <2>1. ASSUME NEW k \in Ids, clients'[k] # NoCtx
        PROVE  Live(clients[k])' /\ clients'[k] = clients[k] /\ key'[clients[k]] = k
    <3>1. clients'[k] = clients[k]
      BY <2>1 DEF Tame
    <3>2. PICK d \in Ctx : d = clients[k]
      BY <2>1, <3>1 DEF Sound, Loose
    <3>3. Live(d) /\ key[d] = k
      BY <2>1, <3>1, <3>2 DEF Sound, TableLive
    <3>4. Live(d)'
      BY <2>1, <3>3 DEF Tame
    <3> QED
      BY <3>1, <3>2, <3>3, <3>4 DEF Live, Tame
  <2> QED
    BY <2>1 DEF TableLive, Live
<1>3. ASSUME NoneLost', NEW d \in Ctx, Live(d), clients[key[d]] # d
      PROVE  Initialising(d)
  <2>1. Live(d)' /\ key[d] \in Ids /\ key'[d] = key[d]
    BY <1>3 DEF Tame, Sound, Loose
  <2>2. clients'[key'[d]] # d
    BY <1>3, <2>1, ConstantsAssumption DEF Tame
  <2>3. Initialising(d)'
    BY <1>3, <2>1, <2>2 DEF NoneLost
  <2>4. PICK i \in 1..depth' : frame'[i].c = d /\ frame'[i].pc = "init"
    BY <2>3 DEF Initialising
  <2> QED
    BY <2>4 DEF Tame, SameFrame, Initialising
<1> QED
  BY <1>1, <1>2, <1>3 DEF Sound, NoneLost, Whole, Tame

\* A frame whose context is allocated and referenced as before stays kept while
\* the calls below it stay and the table of clients only loses entries.
LEMMA KeptStep ==
    ASSUME Sound, Intact, Tame, depth' \in Nat, depth' <= depth,
           \A i \in 1..depth' :
              /\ frame'[i].c = frame[i].c
              /\ frame'[i].pc = "bcast" <=> frame[i].pc = "bcast"
              /\ frame'[i].pc = "init" <=> frame[i].pc = "init"
              /\ frame'[i].keys \subseteq frame[i].keys,
           \A i \in 1..depth' : Active(i) => mem'[frame[i].c],
           \A d \in Ctx : mem[d] /\ fsm[d] # Zombie /\ fsm'[d] = Zombie =>
                clients[key[d]] = d /\ clients'[key[d]] = NoCtx,
           \A d \in OnStack : ref[d] > 0 => ref'[d] > 0
    PROVE  \A i \in 1..depth' : Kept(i)'
<1> SUFFICES ASSUME NEW i \in 1..depth' PROVE Kept(i)'
  OBVIOUS
<1>1. \A j \in 1..depth' : j \in 1..depth /\ (Active(j)' <=> Active(j))
  BY DEF Active, Sound, Loose
<1>2. /\ Kept(i) /\ Form(i) /\ i \in 1..depth /\ 1 \in 1..depth' /\ 1 \in 1..depth
      /\ \A j \in 1..(i - 1) : j \in 1..depth'
  BY <1>1, FrameContext DEF Intact
<1>3. ASSUME Active(i)
      PROVE  /\ mem'[frame[i].c]
             /\ fsm'[frame[i].c] = Zombie =>
                /\ clients'[key'[frame[i].c]] = NoCtx
                /\ frame[1].pc = "init" => key'[frame[1].c] # key'[frame[i].c]
             /\ \A j \in 1..depth' :
                j # i /\ Active(j) /\ frame[j].c = frame[i].c => ref'[frame[i].c] > 0
  <2>1. PICK d \in Ctx : d = frame[i].c
    BY <1>2, <1>3, FrameContext DEF Active
  <2>2. d \in OnStack /\ mem[d]
    BY <1>2, <1>3, <2>1 DEF OnStack, Kept
  <2>3. ASSUME NEW j \in 1..depth', j # i, Active(j), frame[j].c = d PROVE ref'[d] > 0
    BY <1>1, <1>2, <1>3, <2>1, <2>2, <2>3 DEF Kept
  <2>4. key[d] \in Ids /\ key' = key
    BY DEF Sound, Loose, Tame
  <2>5. ASSUME fsm[d] = Zombie
        PROVE  /\ clients'[key[d]] = NoCtx
               /\ frame[1].pc = "init" => key[frame[1].c] # key[d]
    BY <1>2, <1>3, <2>1, <2>4, <2>5 DEF Kept, Tame
  <2>6. ASSUME fsm[d] # Zombie, fsm'[d] = Zombie
        PROVE  /\ clients'[key[d]] = NoCtx
               /\ frame[1].pc = "init" => key[frame[1].c] # key[d]
    <3>1. clients[key[d]] = d /\ clients'[key[d]] = NoCtx
      BY <2>2, <2>6
    <3>2. frame[1].pc = "init" => clients[key[frame[1].c]] = NoCtx
      BY <1>2, FrameContext DEF Form
    <3> QED
      BY <3>1, <3>2, ConstantsAssumption
  <2> QED
    BY <1>3, <2>1, <2>3, <2>4, <2>5, <2>6
<1>4. ASSUME frame[i].pc = "bcast", NEW k \in frame'[i].keys, NEW j \in 1..(i - 1),
             clients'[k] \notin {frame[i].c, NoCtx}, Active(j),
             frame[j].c = clients'[k]
      PROVE  ref'[clients'[k]] > 0
  <2>1. k \in frame[i].keys /\ k \in Ids
    BY <1>2, <1>4, FrameContext
  <2>2. clients'[k] = clients[k]
    BY <1>4, <2>1 DEF Tame
  <2>3. ref[clients[k]] > 0
    BY <1>2, <1>4, <2>1, <2>2 DEF Kept
  <2>4. clients[k] \in OnStack
    BY <1>1, <1>2, <1>4, <2>2 DEF OnStack
  <2> QED
    BY <2>2, <2>3, <2>4
<1> QED
  BY <1>1, <1>2, <1>3, <1>4 DEF Kept

-------------------------------------------------------------------------------
\* The ways in which an action changes the call stack.

\* What the counts, the timers and the references depend on does not change.
LEMMA CountsKept ==
    ASSUME Intact, status' = "running" => status = "running",
           UNCHANGED <<mem, key, ref, slot, clients, timers>>,
           \A d \in Ctx : Live(d)' <=> Live(d)
    PROVE  Counts' /\ ReferencesCounted' /\ TimersMatch'
<1>1. UNCHANGED <<mem, key, ref, slot, clients, wakeup, alarms, ticket, tickets>>
  BY DEF timers
<1>2. \A d \in Ctx : Holders(d)' = Holders(d)
  BY <1>1 DEF Holders
<1>3. \A d \in Ctx : mem[d] => (fsm'[d] = Zombie <=> fsm[d] = Zombie)
  BY <1>1 DEF Live
<1>4. Counts' /\ TimersMatch'
  BY <1>1 DEF Intact, Counts, TimersMatch, Running
<1>5. ReferencesCounted'
  BY <1>1, <1>2, <1>3 DEF Intact, ReferencesCounted, Running
<1> QED
  BY <1>4, <1>5

\* Nothing the invariant speaks of changes, but the actor may abort.
LEMMA QuietHeld ==
    ASSUME HInv, Loose',
           status' = status \/ (Running /\ status' \in {"assert", "null"}),
           UNCHANGED <<mem, key, ref, slot, clients, fsm, timers, depth, frame>>
    PROVE  HInv'
<1>1. /\ UNCHANGED <<mem, key, ref, slot, clients, fsm, depth, frame>>
      /\ depth \in Nat /\ depth <= depth
      /\ status = "stopped" => status' = "stopped"
      /\ status' = "running" => status = "running"
  BY ConstantsAssumption DEF HInv, Sound, Loose, Running
<1>2. \A d \in Ctx : (Live(d)' <=> Live(d)) /\ (fsm[d] # Zombie => fsm'[d] # Zombie)
  BY <1>1 DEF Live
<1>3. Tame
  BY <1>1, <1>2 DEF Tame, SameFrame
<1>4. Sound' /\ (Whole' => Whole)
  BY <1>3, TameSound DEF HInv
<1>5. ASSUME Intact PROVE Intact'
  <2>1. \A i \in 1..depth' : Active(i) => mem'[frame[i].c]
    BY <1>1, <1>5 DEF Intact, Kept
  <2>2. \A i \in 1..depth' : Kept(i)'
    BY <1>1, <1>2, <1>3, <1>5, <2>1, KeptStep DEF HInv
  <2> QED
    BY <1>1, <1>2, <1>5, <2>2, CountsKept DEF Intact
<1> QED
  BY <1>4, <1>5 DEF HInv

\* A call other than client_initialize returns.
LEMMA PopHeld ==
    ASSUME HInv, Loose', depth > 0, Pop,
           UNCHANGED <<mem, key, ref, slot, clients, fsm, timers, status>>
    PROVE  HInv'
<1>1. /\ depth \in 1..MaxDepth /\ MaxDepth \in Nat
      /\ depth' = depth - 1 /\ depth' \in Nat /\ depth' <= depth
      /\ UNCHANGED <<mem, key, ref, slot, clients, fsm, status>>
  BY TopForm DEF HInv, Pop
<1>2. \A i \in 1..depth' : i \in 1..depth /\ frame'[i] = frame[i]
  BY <1>1 DEF Pop, HInv, Sound, Loose
<1>3. \A d \in Ctx : (Live(d)' <=> Live(d)) /\ (fsm[d] # Zombie => fsm'[d] # Zombie)
  BY <1>1 DEF Live
<1>4. Tame
  BY <1>1, <1>2, <1>3 DEF Tame, SameFrame
<1>5. Sound' /\ (Whole' => Whole)
  BY <1>4, TameSound DEF HInv
<1>6. ASSUME Intact PROVE Intact'
  <2>1. \A i \in 1..depth' : Active(i) => mem'[frame[i].c]
    BY <1>1, <1>2, <1>6 DEF Intact, Kept
  <2>2. \A i \in 1..depth' : Kept(i)'
    BY <1>1, <1>2, <1>3, <1>4, <1>6, <2>1, KeptStep DEF HInv
  <2> QED
    BY <1>1, <1>3, <1>6, <2>2, CountsKept DEF Intact
<1> QED
  BY <1>5, <1>6 DEF HInv

\* The call at the top goes on.  If its machine changes the state of a zombie,
\* that context is lost.
LEMMA TurnHeld ==
    ASSUME HInv, Loose', depth > 0, NEW f \in Frame,
           frame' = [frame EXCEPT ![depth] = f],
           f.c = Top.c, f.keys \subseteq Top.keys,
           Top.pc # "init", f.pc # "init", f.pc = "bcast" <=> Top.pc = "bcast",
           f.pc \in {"top", "body"} => f.c # NoCtx,
           f.pc \in {"body", "app"} /\ f.c # NoCtx => Handled(f.st, f.ev),
           UNCHANGED <<mem, key, ref, slot, clients, timers, depth, status>>,
           \A d \in Ctx : fsm'[d] # fsm[d] =>
                d = Top.c /\ Top.pc # "bcast" /\ fsm'[d] # Zombie
    PROVE  HInv'
<1>1. /\ depth \in 1..MaxDepth /\ MaxDepth \in Nat /\ Top = frame[depth]
      /\ UNCHANGED <<mem, key, ref, slot, clients, depth, status>>
      /\ depth \in Nat /\ depth <= depth /\ Form(depth)
  BY TopForm DEF HInv
<1>2. /\ frame'[depth] = f
      /\ \A i \in 1..depth : i # depth => frame'[i] = frame[i]
  BY <1>1 DEF HInv, Sound, Loose
<1>3. \A d \in Ctx : (Live(d) => Live(d)') /\ (fsm[d] # Zombie => fsm'[d] # Zombie)
  BY <1>1 DEF Live
<1>4. \A i \in 1..depth : /\ frame'[i].c = frame[i].c
                          /\ frame'[i].pc = "bcast" <=> frame[i].pc = "bcast"
                          /\ frame'[i].pc = "init" <=> frame[i].pc = "init"
                          /\ frame'[i].keys \subseteq frame[i].keys
  BY <1>1, <1>2
<1>5. Tame
  <2>1. Form(depth)'
    BY <1>1, <1>2 DEF Form
  <2> QED
    BY <1>1, <1>2, <1>3, <2>1 DEF Tame, SameFrame
<1>6. Sound' /\ (Whole' => Whole)
  BY <1>5, TameSound DEF HInv
<1>7. ASSUME Intact, Whole' PROVE Intact'
  <2>1. \A i \in 1..depth' : Active(i) => mem'[frame[i].c]
    BY <1>1, <1>7 DEF Intact, Kept
  <2>2. \A i \in 1..depth' : Kept(i)'
    BY <1>1, <1>3, <1>4, <1>5, <1>7, <2>1, KeptStep DEF HInv
  <2>3. ASSUME NEW d \in Ctx, Live(d)', ~ Live(d) PROVE FALSE
    <3>1. /\ d = Top.c /\ Top.pc # "bcast" /\ mem[d] /\ fsm[d] = Zombie
          /\ d # NoCtx /\ depth \in 1..depth
      BY <1>1, <2>3, ConstantsAssumption DEF Live
    <3>2. Active(depth)
      BY <1>1, <3>1 DEF Active
    <3>3. /\ clients[key[d]] = NoCtx
          /\ frame[1].pc = "init" => key[frame[1].c] # key[d]
      BY <1>1, <1>7, <3>1, <3>2 DEF Intact, Kept
    <3>4. ~ Initialising(d)'
      <4>1. ASSUME NEW i \in 1..depth, frame'[i].pc = "init" PROVE frame[i].c # d
        BY <1>4, <3>3, <4>1, FrameContext DEF HInv, Form
      <4> QED
        BY <1>1, <1>4, <4>1 DEF Initialising
    <3>5. clients'[key'[d]] # d
      BY <1>1, <3>1, <3>3
    <3> QED
      BY <1>7, <2>3, <3>4, <3>5 DEF NoneLost, Whole
  <2>4. Counts' /\ ReferencesCounted' /\ TimersMatch'
    BY <1>1, <1>3, <1>7, <2>3, CountsKept
  <2> QED
    BY <2>2, <2>4 DEF Intact
<1> QED
  BY <1>6, <1>7 DEF HInv

\* s_client_execute is entered.
LEMMA PushHeld ==
    ASSUME HInv, Loose', NEW c \in Ctx, depth < MaxDepth, depth' = depth + 1,
           frame'[depth + 1] = ExecFrame(c),
           \A i \in 1..depth : /\ SameFrame(i)
                               /\ frame'[i].keys \subseteq frame[i].keys,
           UNCHANGED <<mem, key, ref, slot, clients, fsm, status>>,
           Intact /\ Whole => /\ Live(c)
                              /\ c \in OnStack => ref[c] > 0
                              /\ Counts' /\ TimersMatch'
    PROVE  HInv'
<1>1. /\ depth \in Nat /\ MaxDepth \in Nat /\ depth + 1 \in 1..depth'
      /\ \A i \in 1..depth' : i = depth + 1 \/ i \in 1..depth
      /\ \A i \in 1..depth : i \in 1..depth' /\ i # depth + 1
  BY ConstantsAssumption DEF HInv, Sound, Loose
<1>2. frame'[depth + 1].pc = "top" /\ frame'[depth + 1].c = c /\ c # NoCtx
  BY ConstantsAssumption DEF ExecFrame, Blank
<1>3. \A i \in 1..depth : /\ frame'[i].c = frame[i].c
                          /\ frame'[i].pc = frame[i].pc
                          /\ (Active(i)' <=> Active(i))
  BY DEF Active, SameFrame
<1>4. \A d \in Ctx : Live(d)' <=> Live(d)
  BY DEF Live
<1>5. Tame
  <2>1. ASSUME NEW i, i = depth + 1 PROVE frame'[i].pc # "init" /\ Form(i)'
    BY <1>2, <2>1 DEF Form
  <2> QED
    BY <1>1, <1>4, <2>1 DEF Tame
<1>6. Sound' /\ (Whole' => Whole)
  BY <1>5, TameSound DEF HInv
<1>7. ASSUME Intact, Whole PROVE Intact'
  <2>1. Live(c) /\ (c \in OnStack => ref[c] > 0) /\ Counts' /\ TimersMatch'
    BY <1>7
  <2>2. \A j \in 1..depth : Active(j) /\ frame[j].c = c => ref[c] > 0
    BY <2>1 DEF OnStack
  <2>3. ASSUME NEW i \in 1..depth PROVE Kept(i)'
    <3>1. Kept(i) /\ i \in 1..depth'
      BY <1>1, <1>7 DEF Intact
    <3>2. frame'[1].c = frame[1].c /\ frame'[1].pc = frame[1].pc
      BY <1>1, <1>3
    <3>3. ASSUME Active(i)
          PROVE  /\ mem[frame[i].c]
                 /\ fsm[frame[i].c] = Zombie =>
                    /\ clients[key[frame[i].c]] = NoCtx
                    /\ frame'[1].pc = "init" => key[frame'[1].c] # key[frame[i].c]
                 /\ \A j \in 1..depth' :
                    j # i /\ Active(j)' /\ frame'[j].c = frame[i].c =>
                        ref[frame[i].c] > 0
      BY <1>1, <1>2, <1>3, <2>2, <3>1, <3>2, <3>3 DEF Kept
    <3>4. ASSUME frame[i].pc = "bcast", NEW k \in frame'[i].keys,
                 NEW j \in 1..(i - 1),
                 clients[k] \notin {frame[i].c, NoCtx}, Active(j)',
                 frame'[j].c = clients[k]
          PROVE  ref[clients[k]] > 0
      <4>1. j \in 1..depth /\ k \in frame[i].keys
        BY <1>1
      <4> QED
        BY <1>3, <3>1, <3>4, <4>1 DEF Kept
    <3> QED
      BY <1>3, <3>3, <3>4 DEF Kept
  <2>4. ASSUME NEW i, i = depth + 1 PROVE Kept(i)'
    <3>1. \A j \in 1..depth' : j # i /\ Active(j)' /\ frame'[j].c = c => ref[c] > 0
      BY <1>1, <1>3, <2>2, <2>4
    <3> QED
      BY <1>2, <2>1, <2>4, <3>1 DEF Kept, Live
  <2>5. ReferencesCounted'
    BY <1>7 DEF Intact, ReferencesCounted, Holders, Running
  <2> QED
    BY <1>1, <2>1, <2>3, <2>4, <2>5 DEF Intact
<1> QED
  BY <1>6, <1>7 DEF HInv

-------------------------------------------------------------------------------
\* The engine's own steps.

LEMMA HeldTopOfLoop == ASSUME HInv, TopOfLoop PROVE HInv'
<1>0. PICK c : c = Top.c
  OBVIOUS
<1>1. /\ depth \in 1..MaxDepth /\ MaxDepth \in Nat /\ depth > 0 /\ Top = frame[depth]
      /\ Top.pc = "top" /\ Running /\ frame[depth] \in Frame
      /\ UNCHANGED <<fsm, mem, key, ref, slot, clients, zombies, timers, timeout>>
      /\ UNCHANGED <<wakeup, ticket>>
      /\ c \in Ctx
  BY <1>0, TopForm DEF HInv, TopOfLoop, At, memory, timers, Form
<1>2. fsm[c] \in States \cup {Zombie} /\ next[c] \in AllEvents
  BY <1>1 DEF HInv, Sound, Loose
<1>3. NoEvent \in AllEvents /\ Blank \in Frame
  BY ConstantsAssumption DEF AllEvents, Blank, Frame
<1>4. CASE Pop /\ status' = status /\ next' \in [Ctx -> AllEvents]
                               /\ exc' \in [Ctx -> AllEvents]
  <2>1. Loose'
    BY <1>1, <1>3, <1>4 DEF HInv, Sound, Loose, Pop, Running
  <2> QED
    BY <1>1, <1>4, <2>1, PopHeld
<1>5. CASE /\ fsm[c] # Zombie /\ Handled(fsm[c], next[c])
           /\ frame' = [frame EXCEPT ![depth] =
                [@ EXCEPT !.pc = "body", !.st = fsm[c], !.ev = next[c], !.at = 1]]
           /\ next' = [next EXCEPT ![c] = NoEvent]
           /\ exc' = [exc EXCEPT ![c] = NoEvent]
           /\ UNCHANGED <<depth, status>>
  <2> DEFINE f == [frame[depth] EXCEPT !.pc = "body", !.st = fsm[c], !.ev = next[c],
                                       !.at = 1]
  <2>1. /\ f \in Frame /\ f.c = c /\ f.pc = "body" /\ f.st = fsm[c] /\ f.ev = next[c]
        /\ f.keys = Top.keys
    BY <1>0, <1>1, <1>2, <1>5 DEF Frame
  <2>2. frame' = [frame EXCEPT ![depth] = f]
    BY <1>5
  <2> HIDE DEF f
  <2>3. Loose'
    BY <1>1, <1>3, <1>5, <2>1, <2>2 DEF HInv, Sound, Loose
  <2> QED
    BY <1>0, <1>1, <1>5, <2>1, <2>2, <2>3, TurnHeld, ConstantsAssumption
<1>6. CASE status' = "assert" /\ UNCHANGED <<next, exc, stack>>
  <2>1. Loose'
    BY <1>1, <1>6 DEF HInv, Sound, Loose, stack
  <2> QED
    BY <1>1, <1>6, <2>1, QuietHeld DEF stack
<1>7. \/ UNCHANGED <<next, exc>> /\ Pop /\ status' = status
      \/ /\ next' = [next EXCEPT ![c] = NoEvent] /\ exc' = [exc EXCEPT ![c] = NoEvent]
         /\ Pop /\ status' = status
      \/ /\ fsm[c] # Zombie /\ Handled(fsm[c], next[c])
         /\ frame' = [frame EXCEPT ![depth] =
                [@ EXCEPT !.pc = "body", !.st = fsm[c], !.ev = next[c], !.at = 1]]
         /\ next' = [next EXCEPT ![c] = NoEvent]
         /\ exc' = [exc EXCEPT ![c] = NoEvent]
         /\ UNCHANGED <<depth, status>>
      \/ status' = "assert" /\ UNCHANGED <<next, exc, stack>>
  BY <1>0 DEF TopOfLoop
<1>8. next \in [Ctx -> AllEvents] /\ exc \in [Ctx -> AllEvents]
  BY DEF HInv, Sound, Loose
<1> QED
  BY <1>1, <1>3, <1>4, <1>5, <1>6, <1>7, <1>8

LEMMA HeldBodyStep == ASSUME HInv, BodyStep PROVE HInv'
<1> DEFINE prog == Program(Top.st, Top.ev)
           s == prog[Top.at]
<1>0. PICK c : c = Top.c
  OBVIOUS
<1>1. /\ depth \in 1..MaxDepth /\ MaxDepth \in Nat /\ depth > 0 /\ Top = frame[depth]
      /\ Top.pc = "body" /\ Running /\ frame[depth] \in Frame
      /\ Top.st \in States /\ Top.at \in Nat /\ c \in Ctx /\ Handled(Top.st, Top.ev)
  BY <1>0, TopForm DEF HInv, BodyStep, At, Form
<1>2. PICK f : f = [frame[depth] EXCEPT !.at = Top.at + 1,
                        !.pc = IF s.op = "app" /\ exc[c] = NoEvent
                               THEN "app" ELSE "body"]
  OBVIOUS
<1>3. /\ Top.at \in 1..Len(prog)
      /\ frame' = [frame EXCEPT ![depth] = f]
      /\ next' \in {next, [next EXCEPT ![c] = Terminate]}
      /\ fsm' = fsm \/ (s.op = "goto" /\ fsm' = [fsm EXCEPT ![c] = s.to])
      /\ UNCHANGED <<exc, depth, memory, timers, timeout, status>>
  <2>1. frame' = [frame EXCEPT ![depth] = f]
    <3>1. frame' = [frame EXCEPT ![depth] = [@ EXCEPT !.at = Top.at + 1,
                !.pc = IF s.op = "app" /\ exc[c] = NoEvent THEN "app" ELSE "body"]]
      BY <1>0, Zenon DEF BodyStep
    <3> HIDE DEF s
    <3> QED
      BY <3>1, <1>1, <1>2
  <2>2. /\ Top.at \in 1..Len(prog)
        /\ UNCHANGED <<exc, depth, memory, timers, timeout, status>>
    BY DEF BodyStep
  <2>3. next' = IF s.op = "terminate" /\ exc[c] = NoEvent
                 THEN [next EXCEPT ![c] = Terminate] ELSE next
    BY <1>0, Zenon DEF BodyStep
  <2>4. fsm' = IF s.op = "goto" /\ exc[c] = NoEvent
                THEN [fsm EXCEPT ![c] = s.to] ELSE fsm
    BY <1>0, Zenon DEF BodyStep
  <2> HIDE DEF s, prog
  <2> QED
    BY <2>1, <2>2, <2>3, <2>4
<1>4. s \in Step
  <2>1. prog \in Seq(Step)
    BY <1>1, ProgramType
  <2> QED
    BY <1>3, <2>1, ElementOfSeq
<1>5. s.op = "goto" => s.to \in States
  <2>1. \A t \in Step : t.op = "goto" => t.to \in States
    BY DEF Step
  <2> HIDE DEF s
  <2> QED
    BY <1>4, <2>1
<1>6. /\ f \in Frame /\ f.c = c /\ f.pc \in {"app", "body"} /\ f.st = Top.st
      /\ f.ev = Top.ev /\ f.keys = Top.keys
  <2>1. PICK pc \in {"app", "body"} : f = [frame[depth] EXCEPT !.at = Top.at + 1,
                                                               !.pc = pc]
    BY <1>2, Zenon
  <2>2. PICK n \in Nat : n = Top.at + 1
    BY <1>1
  <2>3. f = [frame[depth] EXCEPT !.at = n, !.pc = pc]
    BY <2>1, <2>2
  <2>4. f \in Frame /\ f.keys = frame[depth].keys
    BY <1>1, <2>3 DEF Frame
  <2>5. f.c = frame[depth].c /\ f.pc = pc /\ f.st = frame[depth].st
    BY <1>1, <2>3 DEF Frame
  <2>6. f.ev = frame[depth].ev
    BY <1>1, <2>3 DEF Frame
  <2> QED
    BY <1>0, <1>1, <2>4, <2>5, <2>6
<1> HIDE DEF prog, s
<1>7. Loose'
  <2>1. Terminate \in AllEvents
    BY DEF AllEvents
  <2>2. fsm' \in [Ctx -> States \cup {Zombie}] /\ next' \in [Ctx -> AllEvents]
    BY <1>1, <1>3, <1>5, <2>1, Zenon DEF HInv, Sound, Loose
  <2> QED
    BY <1>1, <1>3, <1>6, <2>2 DEF HInv, Sound, Loose, memory, timers
<1>8. \A d \in Ctx : fsm'[d] # fsm[d] => d = c /\ fsm'[d] # Zombie
  BY <1>1, <1>3, <1>5, ConstantsAssumption DEF HInv, Sound, Loose
<1>9. f.c # NoCtx /\ UNCHANGED <<mem, key, ref, slot, clients>>
  BY <1>1, <1>3, <1>6, ConstantsAssumption DEF memory
<1> QED
  BY <1>0, <1>1, <1>3, <1>6, <1>7, <1>8, <1>9, TurnHeld

LEMMA HeldReturn == ASSUME HInv, ActionReturns \/ CallbackReturns PROVE HInv'
<1>1. /\ depth \in 1..MaxDepth /\ MaxDepth \in Nat /\ depth > 0 /\ Top = frame[depth]
      /\ Top.pc = "app" /\ Running /\ frame[depth] \in Frame /\ Form(depth)
      /\ UNCHANGED <<mem, key, ref, slot, clients, zombies, fsm, next, exc, timers,
                     timeout, status>>
      /\ UNCHANGED <<wakeup, ticket>>
  BY TopForm DEF HInv, ActionReturns, CallbackReturns, At, machine, memory, timers
<1>2. CASE ActionReturns
  <2> DEFINE f == [frame[depth] EXCEPT !.pc = "body"]
  <2>1. /\ f \in Frame /\ f.c = Top.c /\ f.pc = "body" /\ f.st = Top.st /\ f.ev = Top.ev
        /\ f.keys = Top.keys
    BY <1>1 DEF Frame
  <2>2. frame' = [frame EXCEPT ![depth] = f] /\ depth' = depth /\ Top.c # NoCtx
    BY <1>2 DEF ActionReturns
  <2>3. Handled(f.st, f.ev)
    BY <1>1, <2>1, <2>2 DEF Form
  <2> HIDE DEF f
  <2>4. Loose'
    BY <1>1, <2>1, <2>2 DEF HInv, Sound, Loose
  <2> QED
    BY <1>1, <2>1, <2>2, <2>3, <2>4, TurnHeld
<1>3. CASE CallbackReturns
  <2>1. Pop
    BY <1>3 DEF CallbackReturns
  <2>2. Blank \in Frame
    BY ConstantsAssumption DEF Blank, Frame, AllEvents
  <2>3. Loose'
    BY <1>1, <2>1, <2>2 DEF HInv, Sound, Loose, Pop, Running
  <2> QED
    BY <1>1, <2>1, <2>3, PopHeld
<1> QED
  BY <1>2, <1>3

LEMMA HeldBroadcastEnds == ASSUME HInv, BroadcastEnds PROVE HInv'
<1>1. /\ depth > 0 /\ depth \in 1..MaxDepth /\ MaxDepth \in Nat /\ Running /\ Pop
      /\ UNCHANGED <<mem, key, ref, slot, clients, zombies, fsm, next, exc, wakeup,
                     alarms, ticket, tickets, timeout, status>>
  BY TopForm DEF BroadcastEnds, At, machine, memory, timers, HInv
<1>2. Blank \in Frame
  BY ConstantsAssumption DEF Blank, Frame, AllEvents
<1>3. Loose'
  BY <1>1, <1>2 DEF HInv, Sound, Loose, Pop, Running
<1> QED
  BY <1>1, <1>3, PopHeld DEF timers

\* While no context is lost, the machine that terminates is the one the table
\* has for its peer: a zombie on the stack finds no entry for its key.
LEMMA HeldEndOfPass == ASSUME HInv, EndOfPass PROVE HInv'
<1>0. PICK c : c = Top.c
  OBVIOUS
<1>1. /\ depth \in 1..MaxDepth /\ MaxDepth \in Nat /\ depth > 0
      /\ Top = frame[depth] /\ frame[depth] \in Frame /\ Top.pc = "body"
      /\ Running /\ c \in Ctx /\ c # NoCtx /\ mem[c] /\ key[c] \in Ids
      /\ UNCHANGED <<exc, key, ref, slot, wakeup, ticket, timeout, status>>
  BY <1>0, TopForm DEF HInv, Sound, Loose, EndOfPass, At, Form
<1>2. PICK n : n = Following(c)
  OBVIOUS
<1>3. n \in AllEvents /\ Blank \in Frame
  BY <1>1, <1>2, ConstantsAssumption
     DEF HInv, Sound, Loose, Following, Blank, Frame, AllEvents
<1>4. PICK d \in Ctx \cup {NoCtx} : d = clients[key[c]]
  BY <1>1 DEF HInv, Sound, Loose
<1>5. /\ next' = [next EXCEPT ![c] = n]
      /\ \/ /\ n # Terminate
            /\ frame' = [frame EXCEPT ![depth] = [@ EXCEPT !.pc = "top"]]
            /\ UNCHANGED <<depth, fsm, mem, clients, zombies, alarms, tickets>>
         \/ /\ n = Terminate
            /\ d = NoCtx
            /\ Pop
            /\ UNCHANGED <<fsm, mem, clients, zombies, alarms, tickets>>
         \/ /\ n = Terminate
            /\ d # NoCtx
            /\ clients' = [clients EXCEPT ![key[c]] = NoCtx]
            /\ Destroy(d)
            /\ Pop
  BY <1>0, <1>2, <1>4 DEF EndOfPass
<1>6. next' \in [Ctx -> AllEvents]
  BY <1>1, <1>3, <1>5 DEF HInv, Sound, Loose
<1>7. CASE /\ frame' = [frame EXCEPT ![depth] = [@ EXCEPT !.pc = "top"]]
           /\ UNCHANGED <<depth, fsm, mem, clients, zombies, alarms, tickets>>
  <2>1. PICK f : f = [frame[depth] EXCEPT !.pc = "top"]
    OBVIOUS
  <2>2. f \in Frame /\ f.pc = "top" /\ f.c = Top.c /\ f.keys = Top.keys
    BY <1>1, <2>1 DEF Frame
  <2>3. frame' = [frame EXCEPT ![depth] = f]
    BY <1>7, <2>1
  <2>4. Loose'
    BY <1>1, <1>6, <1>7, <2>2, <2>3 DEF HInv, Sound, Loose
  <2> QED
    BY <1>0, <1>1, <1>7, <2>2, <2>3, <2>4, TurnHeld DEF timers
<1>8. CASE Pop /\ UNCHANGED <<fsm, mem, clients, zombies, alarms, tickets>>
  <2>1. Loose'
    BY <1>1, <1>3, <1>6, <1>8 DEF HInv, Sound, Loose, Pop, Running
  <2> QED
    BY <1>1, <1>8, <2>1, PopHeld DEF timers
<1>9. CASE /\ d # NoCtx
           /\ clients' = [clients EXCEPT ![key[c]] = NoCtx]
           /\ Destroy(d)
           /\ Pop
  <2>1. /\ d \in Ctx /\ Live(d) /\ key[d] = key[c] /\ clients[key[d]] = d
    BY <1>1, <1>4, <1>9 DEF HInv, Sound, TableLive
  <2>2. /\ alarms' = [alarms EXCEPT ![d] = IF wakeup[d] = NoEvent THEN @ ELSE @ - 1]
        /\ tickets' = [tickets EXCEPT ![d] = IF ticket[d] THEN @ - 1 ELSE @]
        /\ mem' = IF ref[d] = 0 THEN [mem EXCEPT ![d] = FALSE] ELSE mem
        /\ fsm' = IF ref[d] = 0 THEN fsm ELSE [fsm EXCEPT ![d] = Zombie]
        /\ zombies' = IF ref[d] > 0 /\ zombies[key[d]] = NoCtx
                      THEN [zombies EXCEPT ![key[d]] = d] ELSE zombies
        /\ depth' = depth - 1
        /\ frame' = [frame EXCEPT ![depth] = Blank]
    BY <1>9 DEF Destroy, Cancelled, Freed, Retired, Enlisted, Pop
  <2>3. Loose'
    BY <1>1, <1>3, <1>6, <1>9, <2>1, <2>2 DEF HInv, Sound, Loose, Running
  <2>4. /\ depth' \in Nat /\ depth' <= depth
        /\ \A i \in 1..depth' : i \in 1..depth /\ i # depth /\ frame'[i] = frame[i]
    BY <1>1, <2>2 DEF HInv, Sound, Loose
  <2>5. /\ \A e \in Ctx : e # d => mem'[e] = mem[e] /\ fsm'[e] = fsm[e]
        /\ \A e \in Ctx : e # d => (Live(e)' <=> Live(e))
        /\ ~ Live(d)'
    <3>1. \A e \in Ctx : e # d => mem'[e] = mem[e] /\ fsm'[e] = fsm[e]
      BY <2>1, <2>2 DEF HInv, Sound, Loose
    <3>2. ~ mem'[d] \/ fsm'[d] = Zombie
      BY <2>1, <2>2 DEF HInv, Sound, Loose
    <3> QED
      BY <3>1, <3>2 DEF Live
  <2>6. /\ clients'[key[d]] = NoCtx
        /\ \A k \in Ids : clients'[k] \in {clients[k], NoCtx}
    BY <1>1, <1>9, <2>1 DEF HInv, Sound, Loose
  <2>7. Tame
    BY <1>1, <2>1, <2>4, <2>5, <2>6 DEF Tame, SameFrame
  <2>8. Sound' /\ (Whole' => Whole)
    BY <2>3, <2>7, TameSound DEF HInv
  <2>9. ASSUME Intact, Whole PROVE Intact'
    <3>1. Kept(depth) /\ Active(depth)
      BY <1>0, <1>1, <2>9 DEF Intact, Active
    <3>2. Live(c)
      BY <1>0, <1>1, <1>4, <1>9, <3>1 DEF Kept, Live
    <3>3. ~ Initialising(c)
      <4>1. ASSUME NEW i \in 1..depth, frame[i].c = c, frame[i].pc = "init"
            PROVE  FALSE
        BY <1>4, <1>9, <4>1, FrameContext DEF HInv, Form
      <4> QED
        BY <4>1 DEF Initialising
    <3>4. d = c
      BY <1>1, <1>4, <2>9, <3>2, <3>3 DEF NoneLost, Whole
    <3>5. \A i \in 1..depth' : Active(i) => mem'[frame[i].c]
      <4>1. ASSUME NEW i \in 1..depth', Active(i) PROVE mem'[frame[i].c]
        <5>1. /\ i \in 1..depth /\ mem[frame[i].c] /\ frame[i].c \in Ctx
              /\ frame[i].c = c => ref[c] > 0
          <6>1. i \in 1..depth /\ i # depth /\ depth \in 1..depth /\ Kept(i)
            BY <1>1, <2>4, <2>9 DEF Intact
          <6>2. frame[i].c \in Ctx
            BY <4>1, <6>1, FrameContext DEF HInv, Active
          <6> QED
            BY <1>0, <1>1, <3>1, <4>1, <6>1, <6>2 DEF Kept
        <5>2. ref[c] > 0 => mem' = mem
          BY <1>1, <2>2, <2>9, <3>4 DEF Intact, Counts
        <5> QED
          BY <2>5, <3>4, <5>1, <5>2
      <4> QED
        BY <4>1
    <3>6. \A i \in 1..depth' : Kept(i)'
      <4>1. \A e \in Ctx : mem[e] /\ fsm[e] # Zombie /\ fsm'[e] = Zombie =>
                clients[key[e]] = e /\ clients'[key[e]] = NoCtx
        BY <2>1, <2>5, <2>6
      <4> QED
        BY <1>1, <2>4, <2>7, <2>9, <3>5, <4>1, KeptStep DEF HInv
    <3>7. alarms[c] = (IF wakeup[c] = NoEvent THEN 0 ELSE 1)
          /\ tickets[c] = (IF ticket[c] THEN 1 ELSE 0)
      BY <1>1, <2>9, <3>2 DEF Intact, TimersMatch
    <3>8. Counts'
      BY <1>1, <2>2, <2>9, <3>4, <3>7 DEF Intact, Counts
    <3>9. ReferencesCounted'
      <4>1. \A e \in Ctx : Holders(e)' = Holders(e)
        BY <1>1 DEF Holders
      <4>2. ref[c] = Cardinality(Holders(c)) /\ ref[c] \in Nat
        BY <1>1, <2>9 DEF Intact, Counts, ReferencesCounted
      <4>3. \A s \in Slots : slot[s] = c => ref[c] # 0
        <5>1. TypeOK
          BY <2>9 DEF HInv, Sound, Loose, Intact, Counts, TypeOK
        <5> QED
          BY <4>2, <5>1, HoldersCount
      <4>4. ASSUME NEW s \in Slots, slot'[s] # NoCtx PROVE mem'[slot'[s]]
        <5>1. slot'[s] = slot[s] /\ slot[s] \in Ctx /\ mem[slot[s]]
          BY <1>1, <2>9, <4>4 DEF HInv, Sound, Loose, Intact, ReferencesCounted
        <5>2. CASE slot[s] = c
          BY <2>2, <3>4, <4>3, <5>1, <5>2
        <5>3. CASE slot[s] # c
          BY <2>5, <3>4, <5>1, <5>3
        <5> QED
          BY <5>2, <5>3
      <4>5. ASSUME NEW e \in Ctx, mem'[e]
            PROVE  /\ ref'[e] = Cardinality(Holders(e)')
                   /\ fsm'[e] = Zombie => ref'[e] > 0
        <5>1. CASE e = c
          <6>1. ref[c] # 0
            BY <1>1, <2>2, <3>4, <4>5, <5>1 DEF HInv, Sound, Loose
          <6> QED
            BY <1>1, <4>1, <4>2, <5>1, <6>1
        <5>2. CASE e # c
          BY <1>1, <2>5, <2>9, <3>4, <4>1, <4>5, <5>2 DEF Intact, ReferencesCounted
        <5> QED
          BY <5>1, <5>2
      <4> QED
        BY <4>4, <4>5 DEF ReferencesCounted
    <3>10. TimersMatch'
      <4>1. ASSUME NEW e \in Ctx
            PROVE  /\ alarms'[e] = IF Live(e)' /\ wakeup'[e] # NoEvent THEN 1 ELSE 0
                   /\ tickets'[e] = IF Live(e)' /\ ticket'[e] THEN 1 ELSE 0
        <5>1. CASE e = c
          BY <1>1, <2>2, <2>5, <2>9, <3>4, <3>7, <5>1 DEF Intact, Counts
        <5>2. CASE e # c
          <6>1. alarms'[e] = alarms[e] /\ tickets'[e] = tickets[e]
            BY <2>2, <2>9, <3>4, <5>2 DEF Intact, Counts
          <6> QED
            BY <1>1, <2>5, <2>9, <3>4, <5>2, <6>1 DEF Intact, TimersMatch
        <5> QED
          BY <5>1, <5>2
      <4> QED
        BY <4>1 DEF TimersMatch
    <3> QED
      BY <3>6, <3>8, <3>9, <3>10 DEF Intact
  <2> QED
    BY <2>8, <2>9 DEF HInv
<1> QED
  BY <1>5, <1>7, <1>8, <1>9

-------------------------------------------------------------------------------
\* What application code calls.

LEMMA TargetType == ASSUME HInv, InApp, NEW c \in Targets PROVE c \in Ctx
<1>1. depth > 0
  BY DEF InApp, At
<1>2. Top.c \in Ctx \cup {NoCtx}
  BY <1>1, TopForm DEF HInv
<1> QED
  BY <1>2 DEF HInv, Sound, Loose, Targets, Known

\* While no context is lost, those the application can name are allocated.
LEMMA TargetKept ==
    ASSUME HInv, Intact, InApp, NEW c \in Targets
    PROVE  mem[c]
<1>1. Running /\ depth > 0 /\ Top.pc \in {"app", "init"}
  BY DEF InApp, At
<1>2. CASE \E s \in Slots : slot[s] = c
  BY <1>1, <1>2 DEF Intact, ReferencesCounted, Targets
<1>3. CASE \E k \in Ids : clients[k] = c
  BY <1>3 DEF HInv, Sound, TableLive, Live, Targets
<1>4. CASE c = Top.c
  <2>1. depth \in 1..depth /\ Top = frame[depth]
    BY <1>1, TopForm DEF HInv
  <2>2. Active(depth) /\ Kept(depth)
    BY <1>1, <1>4, <2>1 DEF Active, Intact, Targets
  <2> QED
    BY <1>4, <2>1, <2>2 DEF Kept
<1> QED
  BY <1>2, <1>3, <1>4 DEF Targets, Known

LEMMA HeldSetters ==
    ASSUME HInv, SetNextEvent \/ SetException \/ Configure \/ Done \/ UNCHANGED vars
    PROVE  HInv'
<1>1. UNCHANGED <<mem, key, ref, slot, clients, zombies, fsm, wakeup, alarms, ticket,
                  tickets, depth, frame, status>>
  BY DEF SetNextEvent, SetException, Configure, Done, vars, machine, memory, timers,
         stack
<1>2. /\ next' \in [Ctx -> AllEvents] /\ exc' \in [Ctx -> AllEvents]
      /\ timeout' \in BOOLEAN
  <2>1. CASE SetNextEvent
    <3>1. PICK c \in Targets, e \in Raised : next' = [next EXCEPT ![c] = e]
      BY <2>1 DEF SetNextEvent
    <3> QED
      BY <2>1, <3>1, RaisedType DEF SetNextEvent, HInv, Sound, Loose
  <2>2. CASE SetException
    <3>1. PICK c \in Targets, e \in Raised : exc' = [exc EXCEPT ![c] = e]
      BY <2>2 DEF SetException
    <3> QED
      BY <2>2, <3>1, RaisedType DEF SetException, HInv, Sound, Loose
  <2>3. CASE Configure
    BY <2>3, ConstantsAssumption DEF Configure, HInv, Sound, Loose, machine
  <2>4. CASE Done \/ UNCHANGED vars
    BY <2>4 DEF Done, vars, machine, HInv, Sound, Loose
  <2> QED
    BY <2>1, <2>2, <2>3, <2>4
<1>3. Loose'
  BY <1>1, <1>2 DEF HInv, Sound, Loose
<1> QED
  BY <1>1, <1>3, QuietHeld DEF timers

\* The memory and the stack stay as they are.
LEMMA StillHeld ==
    ASSUME HInv, Loose', status' = status,
           UNCHANGED <<key, clients, fsm, depth, frame>>,
           \A d \in Ctx : Live(d) => Live(d)',
           Whole /\ Intact =>
                /\ \A d \in OnStack : mem'[d] /\ (ref[d] > 0 => ref'[d] > 0)
                /\ Counts' /\ ReferencesCounted' /\ TimersMatch'
    PROVE  HInv'
<1>1. depth \in Nat /\ depth <= depth
  BY ConstantsAssumption DEF HInv, Sound, Loose
<1>2. Tame
  BY DEF Tame, SameFrame
<1>3. Sound' /\ (Whole' => Whole)
  BY <1>2, TameSound DEF HInv
<1>4. ASSUME Intact, Whole PROVE Intact'
  <2>1. \A i \in 1..depth' : Active(i) => mem'[frame[i].c]
    BY <1>4 DEF OnStack
  <2>2. \A i \in 1..depth' : Kept(i)'
    BY <1>1, <1>2, <1>4, <2>1, KeptStep DEF HInv
  <2> QED
    BY <1>4, <2>2 DEF Intact
<1> QED
  BY <1>3, <1>4 DEF HInv

LEMMA HeldSetWakeupEvent == ASSUME HInv, SetWakeupEvent PROVE HInv'
<1>1. /\ InApp /\ Running
      /\ UNCHANGED <<mem, key, ref, slot, clients, zombies, fsm, next, exc, depth, frame,
                     ticket, tickets, timeout, status>>
  BY DEF SetWakeupEvent, InApp, At, machine, memory, stack
<1>2. PICK c \in Targets, e \in Raised :
        /\ IsValid(c)
        /\ wakeup' = [wakeup EXCEPT ![c] = e]
        /\ alarms' = [Cancelled(c) EXCEPT ![c] = @ + 1]
  BY DEF SetWakeupEvent
<1>3. c \in Ctx /\ e \in AllEvents /\ e # NoEvent
  BY <1>1, TargetType, RaisedType
<1>4. Loose'
  <2>1. wakeup' \in [Ctx -> AllEvents]
    BY <1>2, <1>3 DEF HInv, Sound, Loose
  <2> QED
    BY <1>1, <2>1 DEF HInv, Sound, Loose
<1>5. \A d \in Ctx : Live(d)' <=> Live(d)
  BY <1>1 DEF Live
<1>6. ASSUME Intact
      PROVE  /\ \A d \in OnStack : mem'[d]
             /\ Counts' /\ ReferencesCounted' /\ TimersMatch'
  <2>1. Live(c)
    BY <1>1, <1>2, <1>6, TargetKept DEF IsValid, Live
  <2>2. alarms[c] = IF wakeup[c] # NoEvent THEN 1 ELSE 0
    BY <1>1, <1>3, <1>6, <2>1 DEF Intact, TimersMatch
  <2>3. alarms' = [alarms EXCEPT ![c] = 1]
    BY <1>2, <1>3, <1>6, <2>2 DEF Intact, Counts, Cancelled
  <2>4. Counts'
    BY <1>1, <1>6, <2>3 DEF Intact, Counts
  <2>5. TimersMatch'
    <3>1. ASSUME NEW d \in Ctx
          PROVE  /\ alarms'[d] = IF Live(d)' /\ wakeup'[d] # NoEvent THEN 1 ELSE 0
                 /\ tickets'[d] = IF Live(d)' /\ ticket'[d] THEN 1 ELSE 0
      <4>1. CASE d = c
        BY <1>1, <1>2, <1>3, <1>5, <1>6, <2>1, <2>3, <4>1
           DEF HInv, Sound, Loose, Intact, Counts, TimersMatch
      <4>2. CASE d # c
        BY <1>1, <1>2, <1>3, <1>5, <1>6, <2>3, <4>2
           DEF HInv, Sound, Loose, Intact, Counts, TimersMatch
      <4> QED
        BY <4>1, <4>2
    <3> QED
      BY <3>1 DEF TimersMatch
  <2>6. ReferencesCounted'
    BY <1>1, <1>6 DEF Intact, ReferencesCounted, Holders, Running
  <2>7. \A d \in OnStack : mem'[d]
    BY <1>1, <1>6 DEF Intact, Kept, OnStack
  <2> QED
    BY <2>4, <2>5, <2>6, <2>7
<1> QED
  BY <1>1, <1>4, <1>5, <1>6, StillHeld

\* The prologue of s_client_execute stops the alarm of the context.
LEMMA HeldBegin ==
    ASSUME Intact, Loose, Running, NEW c \in Ctx, Live(c), NEW e,
           Begin(c, e), alarms' = Cancelled(c),
           UNCHANGED <<mem, fsm, ref, ticket, tickets>>
    PROVE  Counts' /\ TimersMatch'
<1>1. alarms[c] = IF wakeup[c] # NoEvent THEN 1 ELSE 0
  BY DEF Intact, TimersMatch
<1>0. Counts
  BY DEF Intact
<1>2. alarms' = [alarms EXCEPT ![c] = 0]
  <2>1. alarms' = [alarms EXCEPT ![c] = IF wakeup[c] = NoEvent THEN @ ELSE @ - 1]
    BY DEF Cancelled
  <2>2. alarms \in [Ctx -> Nat] /\ c \in Ctx
    BY <1>0 DEF Counts
  <2>3. CASE wakeup[c] = NoEvent
    BY <1>1, <2>1, <2>2, <2>3
  <2>4. CASE wakeup[c] # NoEvent
    BY <1>1, <2>1, <2>2, <2>4
  <2> QED
    BY <2>3, <2>4
<1>3. wakeup' = [wakeup EXCEPT ![c] = NoEvent]
  BY DEF Begin
<1> QED
  BY <1>2, <1>3 DEF Intact, Counts, Loose, TimersMatch, Live, Running

\* s_client_execute is called directly.
LEMMA HeldExecute ==
    ASSUME HInv, Running, NEW c \in Ctx, NEW e \in AllEvents, Execute(c, e),
           UNCHANGED <<memory, timeout, status>>,
           Intact /\ Whole => Live(c) /\ (c \in OnStack => ref[c] > 0)
    PROVE  HInv'
<1>1. /\ depth \in Nat /\ MaxDepth \in Nat /\ depth < MaxDepth /\ depth' = depth + 1
      /\ frame' = [frame EXCEPT ![depth + 1] = ExecFrame(c)]
      /\ depth + 1 \in 1..MaxDepth
      /\ Begin(c, e) /\ alarms' = Cancelled(c)
      /\ UNCHANGED <<mem, key, ref, slot, clients, zombies, fsm, exc, ticket, tickets>>
  BY ConstantsAssumption DEF Execute, Push, HInv, Sound, Loose, memory
<1>2. next' \in [Ctx -> AllEvents] /\ wakeup' \in [Ctx -> AllEvents]
  BY <1>1 DEF Begin, HInv, Sound, Loose, AllEvents
<1>3. Loose'
  BY <1>1, <1>2, ExecFrameType DEF HInv, Sound, Loose, Running
<1>4. frame'[depth + 1] = ExecFrame(c) /\ \A i \in 1..depth : frame'[i] = frame[i]
  BY <1>1 DEF HInv, Sound, Loose
<1>5. ASSUME Intact, Whole PROVE Counts' /\ TimersMatch'
  BY <1>1, <1>5, HeldBegin DEF HInv, Sound
<1> QED
  BY <1>1, <1>3, <1>4, <1>5, PushHeld DEF SameFrame

LEMMA HeldSendEvent == ASSUME Reentry = "held", HInv, SendEvent PROVE HInv'
<1>1. PICK c \in Targets, e \in Raised : IsValid(c) /\ MayEnter(c) /\ Execute(c, e)
  BY DEF SendEvent
<1>2. /\ InApp /\ Running /\ UNCHANGED <<memory, timeout, status>>
      /\ c \in OnStack => ref[c] > 0
  BY <1>1 DEF SendEvent, InApp, At, MayEnter
<1>3. c \in Ctx /\ e \in AllEvents
  BY <1>1, <1>2, TargetType, RaisedType
<1>4. Intact => Live(c)
  BY <1>1, <1>2, TargetKept DEF IsValid, Live
<1> QED
  BY <1>1, <1>2, <1>3, <1>4, HeldExecute

LEMMA HeldReceive ==
    ASSUME HInv, NEW k \in Ids, NEW m \in Messages, Receive(k, m)
    PROVE  HInv'
<1>1. /\ Running /\ depth = 0 /\ clients[k] # NoCtx
      /\ Execute(clients[k], EventOf(m)) /\ UNCHANGED <<memory, timeout, status>>
  BY DEF Receive, Idle
<1>2. clients[k] \in Ctx /\ Live(clients[k])
  BY <1>1 DEF HInv, Sound, Loose, TableLive
<1>3. EventOf(m) \in AllEvents /\ OnStack = {}
  BY <1>1, EventOfType DEF OnStack
<1> QED
  BY <1>1, <1>2, <1>3, HeldExecute

\* engine_broadcast_event pushes a frame of its own; each client it has ahead is
\* referenced or not running.
LEMMA HeldBroadcastEvent ==
    ASSUME Reentry = "held", HInv, BroadcastEvent
    PROVE  HInv'
<1>1. PICK x \in {Top.c, NoCtx}, e \in Raised :
        /\ \A k \in Ids : clients[k] \notin {x, NoCtx} => MayEnter(clients[k])
        /\ Push([Blank EXCEPT !.c = x, !.pc = "bcast", !.ev = e,
                              !.keys = {k \in Ids : clients[k] # NoCtx}])
  BY Zenon DEF BroadcastEvent
<1> DEFINE f == [Blank EXCEPT !.c = x, !.pc = "bcast", !.ev = e,
                              !.keys = {k \in Ids : clients[k] # NoCtx}]
<1>2. /\ Running /\ depth \in Nat /\ MaxDepth \in Nat /\ depth + 2 <= MaxDepth
      /\ depth > 0 /\ Top.c \in Ctx \cup {NoCtx}
      /\ UNCHANGED <<mem, key, ref, slot, clients, zombies, fsm, next, exc, wakeup,
                     alarms, ticket, tickets, timeout, status>>
  BY ConstantsAssumption, TopForm
     DEF BroadcastEvent, InApp, At, machine, memory, timers, HInv, Sound, Loose
<1>3. f \in Frame /\ f.c = x /\ f.pc = "bcast" /\ f.keys \subseteq Ids
  <2>1. e \in AllEvents /\ x \in Ctx \cup {NoCtx} /\ First \in States
    BY <1>1, <1>2, RaisedType, ConstantsAssumption
  <2> QED
    BY <2>1, Zenon DEF Blank, Frame
<1>4. depth' = depth + 1 /\ frame' = [frame EXCEPT ![depth + 1] = f]
  BY <1>1 DEF Push
<1> HIDE DEF f
<1>5. Loose'
  BY <1>2, <1>3, <1>4 DEF HInv, Sound, Loose, Running
<1>6. /\ frame'[depth + 1] = f
      /\ \A i \in 1..depth : frame'[i] = frame[i] /\ (Active(i)' <=> Active(i))
      /\ \A i \in 1..depth' : i = depth + 1 \/ i \in 1..depth
  BY <1>2, <1>4 DEF HInv, Sound, Loose, Active
<1>7. \A d \in Ctx : Live(d)' <=> Live(d)
  BY <1>2 DEF Live
<1>8. Tame
  <2>1. ASSUME NEW i, i = depth + 1 PROVE frame'[i].pc # "init" /\ Form(i)'
    BY <1>2, <1>3, <1>6, <2>1 DEF Form
  <2> QED
    BY <1>2, <1>6, <1>7, <2>1 DEF Tame, SameFrame
<1>9. Sound' /\ (Whole' => Whole)
  BY <1>5, <1>8, TameSound DEF HInv
<1>10. ASSUME Intact PROVE Intact'
  <2>1. ASSUME NEW i \in 1..depth PROVE Kept(i)'
    <3>1. Kept(i) /\ frame'[1] = frame[1] /\ frame'[i] = frame[i]
      BY <1>2, <1>6, <1>10 DEF Intact
    <3>2. \A j \in 1..depth' : Active(j)' => j \in 1..depth
      BY <1>3, <1>6 DEF Active
    <3>3. \A j \in 1..(i - 1) : j \in 1..depth
      BY <1>2
    <3> QED
      BY <1>2, <1>6, <3>1, <3>2, <3>3 DEF Kept
  <2>2. ASSUME NEW i, i = depth + 1 PROVE Kept(i)'
    <3>1. ASSUME NEW k \in Ids, NEW j \in 1..depth, Active(j),
                 clients[k] \notin {x, NoCtx}, frame[j].c = clients[k]
          PROVE  ref[clients[k]] > 0
      BY <1>1, <3>1 DEF MayEnter, OnStack
    <3>2. \A j \in 1..(i - 1) : j \in 1..depth
      BY <1>2, <2>2
    <3>3. ~ Active(i)'
      BY <1>3, <1>6, <2>2 DEF Active
    <3> QED
      BY <1>2, <1>3, <1>6, <2>2, <3>1, <3>2, <3>3 DEF Kept
  <2>3. Counts' /\ ReferencesCounted' /\ TimersMatch'
    BY <1>2, <1>7, <1>10, CountsKept DEF timers
  <2> QED
    BY <1>6, <2>1, <2>2, <2>3 DEF Intact
<1> QED
  BY <1>9, <1>10 DEF HInv

LEMMA HeldBroadcastStep == ASSUME HInv, BroadcastStep PROVE HInv'
<1>1. /\ Running /\ depth \in 1..MaxDepth /\ MaxDepth \in Nat /\ depth > 0
      /\ Top = frame[depth] /\ Top.pc = "bcast" /\ Top \in Frame
      /\ Top.c \in Ctx \cup {NoCtx} /\ Top.keys \subseteq Ids /\ Top.ev \in AllEvents
      /\ depth < MaxDepth
      /\ UNCHANGED <<mem, key, ref, slot, clients, zombies, timeout>>
  BY TopForm DEF HInv, BroadcastStep, At, memory, Form
<1>2. PICK k \in Top.keys :
        \/ /\ Skipped(clients[k])
           /\ frame' = [frame EXCEPT ![depth] = [Top EXCEPT !.keys = Top.keys \ {k}]]
           /\ UNCHANGED <<machine, timers, depth, status>>
        \/ /\ ~ Skipped(clients[k]) /\ clients[k] # NoCtx
           /\ Begin(clients[k], Top.ev)
           /\ alarms' = Cancelled(clients[k])
           /\ depth' = depth + 1
           /\ frame' = [frame EXCEPT ![depth] = [Top EXCEPT !.keys = Top.keys \ {k}],
                                     ![depth + 1] = ExecFrame(clients[k])]
           /\ UNCHANGED <<fsm, exc, ticket, tickets, status>>
        \/ /\ status' = "null"
           /\ UNCHANGED <<machine, timers, stack>>
  BY DEF BroadcastStep
<1>3. PICK rest : rest = [Top EXCEPT !.keys = Top.keys \ {k}]
  OBVIOUS
<1>4. /\ rest \in Frame /\ rest.c = Top.c /\ rest.pc = "bcast"
      /\ rest.st = Top.st /\ rest.ev = Top.ev
      /\ rest.keys \subseteq Top.keys
  BY <1>1, <1>3 DEF Frame
<1>5. CASE /\ frame' = [frame EXCEPT ![depth] = rest]
           /\ UNCHANGED <<machine, timers, depth, status>>
  <2>1. UNCHANGED <<mem, key, ref, slot, clients, zombies, fsm, next, exc, wakeup,
                    alarms, ticket, tickets, depth, timeout, status>>
    BY <1>1, <1>5 DEF machine, timers
  <2>2. Loose'
    BY <1>1, <1>4, <1>5, <2>1 DEF HInv, Sound, Loose
  <2> QED
    BY <1>1, <1>4, <1>5, <2>1, <2>2, TurnHeld DEF timers
<1>6. CASE /\ ~ Skipped(clients[k]) /\ clients[k] # NoCtx
           /\ Begin(clients[k], Top.ev)
           /\ alarms' = Cancelled(clients[k])
           /\ depth' = depth + 1
           /\ frame' = [frame EXCEPT ![depth] = rest,
                                     ![depth + 1] = ExecFrame(clients[k])]
           /\ UNCHANGED <<fsm, exc, ticket, tickets, status>>
  <2>0. PICK c : c = clients[k]
    OBVIOUS
  <2>1. c \in Ctx /\ Live(c) /\ c \notin {Top.c, NoCtx} /\ k \in Ids
    BY <1>1, <1>6, <2>0 DEF HInv, Sound, Loose, TableLive, Skipped
  <2>2. /\ ExecFrame(c) \in Frame /\ depth + 1 \in 1..MaxDepth /\ depth + 1 # depth
        /\ depth' = depth + 1 /\ Begin(c, Top.ev) /\ alarms' = Cancelled(c)
        /\ frame' = [frame EXCEPT ![depth] = rest, ![depth + 1] = ExecFrame(c)]
        /\ UNCHANGED <<fsm, exc, ticket, tickets, status>>
    BY <1>1, <1>6, <2>0, <2>1, ExecFrameType
  <2>3. next' \in [Ctx -> AllEvents] /\ wakeup' \in [Ctx -> AllEvents]
    BY <1>1, <2>2 DEF Begin, HInv, Sound, Loose, AllEvents
  <2>4. frame' \in [1..MaxDepth -> Frame]
    BY <1>1, <1>4, <2>2 DEF HInv, Sound, Loose
  <2>5. Loose'
    <3>1. depth' \in 0..MaxDepth
      BY <1>1, <2>2
    <3> QED
      BY <1>1, <2>2, <2>3, <2>4, <3>1 DEF HInv, Sound, Loose, Running
  <2>6. /\ frame'[depth + 1] = ExecFrame(c) /\ frame'[depth] = rest
        /\ \A i \in 1..depth : i # depth => frame'[i] = frame[i]
    <3>1. frame'[depth + 1] = ExecFrame(c) /\ frame'[depth] = rest
      BY <1>1, <2>2 DEF HInv, Sound, Loose
    <3>2. \A i \in 1..MaxDepth : i \notin {depth, depth + 1} => frame'[i] = frame[i]
      BY <1>1, <2>2 DEF HInv, Sound, Loose
    <3> QED
      BY <1>1, <3>1, <3>2
  <2>7. \A i \in 1..depth : SameFrame(i) /\ frame'[i].keys \subseteq frame[i].keys
    BY <1>1, <1>4, <2>6 DEF SameFrame
  <2>8. ASSUME Intact
        PROVE  /\ c \in OnStack => ref[c] > 0
               /\ Counts' /\ TimersMatch'
    <3>1. Counts' /\ TimersMatch'
      BY <1>1, <2>1, <2>2, <2>8, HeldBegin DEF HInv, Sound
    <3>2. ASSUME NEW j \in 1..depth, Active(j), frame[j].c = c PROVE ref[c] > 0
      <4>1. j \in 1..(depth - 1) /\ depth \in 1..depth
        BY <1>1, <3>2 DEF Active
      <4>2. Kept(depth)
        BY <2>8, <4>1 DEF Intact
      <4> QED
        BY <1>1, <2>0, <2>1, <3>2, <4>1, <4>2 DEF Kept
    <3> QED
      BY <3>1, <3>2 DEF OnStack
  <2> QED
    BY <1>1, <2>1, <2>2, <2>5, <2>6, <2>7, <2>8, PushHeld
<1>7. CASE status' = "null" /\ UNCHANGED <<machine, timers, stack>>
  <2>1. Loose'
    BY <1>1, <1>7 DEF HInv, Sound, Loose, machine, timers, stack
  <2> QED
    BY <1>1, <1>7, <2>1, QuietHeld DEF machine, stack
<1> QED
  BY <1>2, <1>3, <1>5, <1>6, <1>7

-------------------------------------------------------------------------------
\* References.

LEMMA HeldClientGet == ASSUME HInv, ClientGet PROVE HInv'
<1>1. PICK s \in Slots, c \in Targets : /\ slot[s] = NoCtx
                                        /\ slot' = [slot EXCEPT ![s] = c]
                                        /\ ref' = [ref EXCEPT ![c] = @ + 1]
  BY DEF ClientGet
<1>2. /\ InApp /\ Running
      /\ UNCHANGED <<mem, key, clients, zombies, fsm, next, exc, wakeup, alarms,
                     ticket, tickets, depth, frame, timeout, status>>
  BY DEF ClientGet, InApp, At, machine, timers, stack
<1>3. c \in Ctx /\ c # NoCtx
  BY <1>2, TargetType, ConstantsAssumption
<1>4. Loose'
  BY <1>1, <1>2, <1>3 DEF HInv, Sound, Loose
<1>5. \A d \in Ctx : Live(d)' <=> Live(d)
  BY <1>2 DEF Live
<1>6. ASSUME Intact
      PROVE  /\ \A d \in OnStack : mem'[d] /\ (ref[d] > 0 => ref'[d] > 0)
             /\ Counts' /\ ReferencesCounted' /\ TimersMatch'
  <2>1. mem[c] /\ TypeOK
    BY <1>2, <1>6, TargetKept DEF HInv, Sound, Loose, Intact, Counts, TypeOK
  <2>2. Holders(c)' = Holders(c) \cup {s} /\ s \notin Holders(c)
    BY <1>1, <1>2, <1>3 DEF Holders, HInv, Sound, Loose
  <2>3. \A d \in Ctx : d # c => Holders(d)' = Holders(d)
    BY <1>1, <1>2, <1>3, ConstantsAssumption DEF Holders, HInv, Sound, Loose
  <2>4. IsFiniteSet(Holders(c)) /\ Cardinality(Holders(c)) \in Nat
    BY <2>1, HoldersCount
  <2>5. Cardinality(Holders(c) \cup {s}) = Cardinality(Holders(c)) + 1
    BY <2>2, <2>4, FS_AddElement
  <2>6. \A d \in Ctx : ref[d] \in Nat /\ ref'[d] = IF d = c THEN ref[d] + 1 ELSE ref[d]
    BY <1>1, <1>3, <1>6 DEF Intact, Counts
  <2>7. Counts'
    BY <1>1, <1>2, <1>3, <1>6 DEF Intact, Counts
  <2>8. ReferencesCounted'
    <3>1. ASSUME NEW t \in Slots, slot'[t] # NoCtx PROVE mem[slot'[t]]
      <4>1. CASE t = s
        BY <1>1, <2>1, <4>1 DEF HInv, Sound, Loose
      <4>2. CASE t # s
        BY <1>1, <1>2, <1>6, <3>1, <4>2
           DEF HInv, Sound, Loose, Intact, ReferencesCounted
      <4> QED
        BY <4>1, <4>2
    <3>2. ASSUME NEW d \in Ctx, mem[d]
          PROVE  ref'[d] = Cardinality(Holders(d)') /\ (fsm[d] = Zombie => ref'[d] > 0)
      <4>1. ref[d] = Cardinality(Holders(d)) /\ (fsm[d] = Zombie => ref[d] > 0)
        BY <1>2, <1>6, <3>2 DEF Intact, ReferencesCounted
      <4> QED
        BY <2>2, <2>3, <2>4, <2>5, <2>6, <4>1
    <3> QED
      BY <1>2, <3>1, <3>2 DEF ReferencesCounted
  <2>9. TimersMatch'
    BY <1>2, <1>5, <1>6 DEF Intact, TimersMatch, Running
  <2>10. ASSUME NEW d \in OnStack PROVE mem[d] /\ d \in Ctx
    <3>1. PICK i \in 1..depth : Active(i) /\ frame[i].c = d
      BY DEF OnStack
    <3> QED
      BY <1>6, <3>1, FrameContext DEF HInv, Intact, Kept, Active
  <2> QED
    BY <1>2, <2>6, <2>7, <2>8, <2>9, <2>10
<1> QED
  BY <1>2, <1>4, <1>5, <1>6, StillHeld

\* A held context that runs keeps a reference, so that none on the stack is
\* finalised.
LEMMA HeldClientPut == ASSUME Reentry = "held", HInv, ClientPut PROVE HInv'
<1>1. PICK s \in Slots :
        /\ slot[s] # NoCtx
        /\ slot[s] \notin OnStack \/ ref[slot[s]] > 1
        /\ slot' = [slot EXCEPT ![s] = NoCtx]
        /\ ref' = [ref EXCEPT ![slot[s]] = @ - 1]
        /\ zombies' = IF ref[slot[s]] = 1 /\ fsm[slot[s]] = Zombie
                      THEN [zombies EXCEPT ![key[slot[s]]] = NoCtx] ELSE zombies
        /\ mem' = IF ref[slot[s]] = 1 /\ fsm[slot[s]] = Zombie
                  THEN [mem EXCEPT ![slot[s]] = FALSE] ELSE mem
  BY DEF ClientPut
<1>2. PICK c : c = slot[s]
  OBVIOUS
<1>3. /\ Running
      /\ UNCHANGED <<key, clients, fsm, next, exc, wakeup, alarms, ticket, tickets,
                     depth, frame, timeout, status>>
  BY DEF ClientPut, InApp, At, machine, timers, stack
<1>4. c \in Ctx
  BY <1>1, <1>2 DEF HInv, Sound, Loose
<1>5. /\ c \notin OnStack \/ ref[c] > 1
      /\ ref' = [ref EXCEPT ![c] = @ - 1]
      /\ mem' = IF ref[c] = 1 /\ fsm[c] = Zombie THEN [mem EXCEPT ![c] = FALSE] ELSE mem
      /\ zombies' \in [Ids -> Ctx \cup {NoCtx}]
  BY <1>1, <1>2 DEF HInv, Sound, Loose
<1>6. Loose'
  BY <1>1, <1>3, <1>4, <1>5 DEF HInv, Sound, Loose
<1>7. \A d \in Ctx : (Live(d)' <=> Live(d)) /\ (mem'[d] => mem[d])
  BY <1>3, <1>4, <1>5 DEF HInv, Sound, Loose, Live
<1>8. ASSUME Intact
      PROVE  /\ \A d \in OnStack : mem'[d] /\ (ref[d] > 0 => ref'[d] > 0)
             /\ Counts' /\ ReferencesCounted' /\ TimersMatch'
  <2>1. mem[c] /\ ref[c] = Cardinality(Holders(c)) /\ s \in Holders(c) /\ TypeOK
    <3>1. mem[c]
      BY <1>1, <1>2, <1>3, <1>8 DEF Intact, ReferencesCounted
    <3>2. ref[c] = Cardinality(Holders(c))
      BY <1>3, <1>4, <1>8, <3>1 DEF Intact, ReferencesCounted
    <3> QED
      BY <1>2, <1>8, <3>1, <3>2
         DEF Holders, HInv, Sound, Loose, Intact, Counts, TypeOK
  <2>2. IsFiniteSet(Holders(c)) /\ Cardinality(Holders(c)) \in Nat
    BY <2>1, HoldersCount
  <2>3. /\ Cardinality(Holders(c) \ {s}) = Cardinality(Holders(c)) - 1
        /\ IsFiniteSet(Holders(c) \ {s})
    BY <2>1, <2>2, FS_RemoveElement
  <2>4. ref[c] \in Nat \ {0}
    BY <1>2, <2>1, HoldersCount
  <2>5. Holders(c)' = Holders(c) \ {s}
        /\ \A d \in Ctx : d # c => Holders(d)' = Holders(d)
    <3>1. \A t \in Slots : slot'[t] = IF t = s THEN NoCtx ELSE slot[t]
      BY <1>1 DEF HInv, Sound, Loose
    <3>2. Holders(c)' = Holders(c) \ {s}
      BY <1>4, <3>1, <2>1, ConstantsAssumption DEF Holders
    <3>3. \A d \in Ctx : d # c => Holders(d)' = Holders(d)
      BY <1>2, <3>1, ConstantsAssumption DEF Holders
    <3> QED
      BY <3>2, <3>3
  <2>6. \A d \in Ctx : ref[d] \in Nat /\ ref'[d] = IF d = c THEN ref[d] - 1 ELSE ref[d]
    BY <1>4, <1>5, <1>8 DEF Intact, Counts
  <2>7. Counts'
    BY <1>3, <1>4, <1>5, <1>8, <2>4 DEF Intact, Counts
  <2>8. ASSUME NEW d \in OnStack PROVE mem'[d] /\ (ref[d] > 0 => ref'[d] > 0)
    <3>1. PICK i \in 1..depth : Active(i) /\ frame[i].c = d
      BY DEF OnStack
    <3>2. mem[d] /\ d \in Ctx
      BY <1>8, <3>1, FrameContext DEF HInv, Intact, Kept, Active
    <3>3. d = c => ref[c] > 1
      BY <1>5
    <3> QED
      BY <1>4, <1>5, <2>4, <2>6, <3>2, <3>3 DEF HInv, Sound, Loose
  <2>9. ReferencesCounted'
    <3>1. ASSUME NEW t \in Slots, slot'[t] # NoCtx PROVE mem'[slot'[t]]
      <4>1. t # s /\ slot'[t] = slot[t] /\ mem[slot[t]] /\ slot[t] \in Ctx
        BY <1>1, <1>3, <1>8, <3>1 DEF HInv, Sound, Loose, Intact, ReferencesCounted
      <4>2. CASE slot[t] = c /\ ref[c] = 1
        <5>1. t \in Holders(c) \ {s}
          BY <4>1, <4>2 DEF Holders
        <5>2. Cardinality(Holders(c) \ {s}) = 0
          BY <2>1, <2>3, <4>2
        <5> QED
          BY <2>3, <5>1, <5>2, FS_EmptySet
      <4>3. CASE slot[t] # c \/ ref[c] # 1
        BY <1>4, <1>5, <4>1, <4>3 DEF HInv, Sound, Loose
      <4> QED
        BY <4>2, <4>3
    <3>2. ASSUME NEW d \in Ctx, mem'[d]
          PROVE  ref'[d] = Cardinality(Holders(d)') /\ (fsm'[d] = Zombie => ref'[d] > 0)
      <4>1. /\ mem[d] /\ ref[d] = Cardinality(Holders(d))
            /\ fsm[d] = Zombie => ref[d] > 0
        BY <1>3, <1>7, <1>8, <3>2 DEF Intact, ReferencesCounted
      <4>2. CASE d = c
        <5>1. fsm[c] = Zombie => ref[c] # 1
          BY <1>4, <1>5, <3>2, <4>2 DEF HInv, Sound, Loose
        <5>2. ref'[c] = ref[c] - 1 /\ (fsm'[c] = Zombie => ref[c] # 1)
          BY <1>3, <1>4, <2>6, <5>1
        <5>3. ref'[c] = Cardinality(Holders(c)')
          BY <2>1, <2>3, <2>5, <5>2
        <5> QED
          BY <2>4, <4>2, <5>2, <5>3
      <4>3. CASE d # c
        BY <1>3, <2>5, <2>6, <4>1, <4>3
      <4> QED
        BY <4>2, <4>3
    <3> QED
      BY <3>1, <3>2 DEF ReferencesCounted
  <2>10. TimersMatch'
    BY <1>3, <1>7, <1>8 DEF Intact, TimersMatch, Running
  <2> QED
    BY <2>7, <2>8, <2>9, <2>10
<1> QED
  BY <1>3, <1>6, <1>7, <1>8, StillHeld

-------------------------------------------------------------------------------
\* The reactor's handlers, and client_initialize, start with at most one frame on
\* the stack.  Then, as long as no context was lost, the engine is as it is
\* without re-entry.
LEMMA BottomInv ==
    ASSUME HInv, Whole, \/ depth = 0
                        \/ depth = 1 /\ frame[1].pc = "init"
    PROVE  IInv
<1>1. TypeOK /\ ReferencesCounted /\ TimersMatch
  BY DEF HInv, Sound, Loose, Intact, Counts, TypeOK
<1>2. \A i \in 1..depth : i = 1 /\ frame[i].pc = "init"
  OBVIOUS
<1>3. \A i \in 1..depth : Form(i)
  BY DEF HInv, Sound
<1>4. FrameShape /\ StackIsLive
  <2>1. ASSUME NEW i \in 1..depth PROVE Shape(i)
    BY <1>2, <1>3 DEF Shape, Form
  <2>2. StackIsLive
    BY <1>2, <1>3 DEF StackIsLive, Form
  <2> QED
    BY <2>1, <2>2 DEF FrameShape
<1>5. RegistryConsistent
  BY DEF HInv, Sound, TableLive, Whole, NoneLost, RegistryConsistent
<1> QED
  BY <1>1, <1>4, <1>5 DEF IInv

LEMMA BottomKept ==
    ASSUME IInv', depth' <= 1
    PROVE  Intact'
<1>1. ASSUME NEW i \in 1..depth' PROVE Kept(i)'
  <2>1. /\ i = 1 /\ 1 \in 1..depth' /\ (\A j \in 1..depth' : j = i)
        /\ \A j \in 1..(i - 1) : FALSE
    BY ConstantsAssumption DEF IInv, TypeOK
  <2>2. Active(i)' => Live(frame[i].c)'
    BY DEF IInv, StackIsLive
  <2> QED
    BY <2>1, <2>2 DEF Kept, Live
<1> QED
  BY <1>1 DEF IInv, TypeOK, Intact, Counts

LEMMA HeldTimer ==
    ASSUME HInv, NEW c \in Ctx, HandleWakeup(c) \/ HandleTicket(c)
    PROVE  HInv'
<1>1. /\ Running /\ depth = 0 /\ MaxDepth \in Nat /\ 1 \in 1..MaxDepth
      /\ depth' = 1 /\ frame' = [frame EXCEPT ![1] = ExecFrame(c)]
      /\ ExecFrame(c) \in Frame
      /\ UNCHANGED <<mem, key, ref, slot, clients, zombies, fsm, exc, timeout, status>>
  BY ExecFrameType, ConstantsAssumption
     DEF HandleWakeup, HandleTicket, Idle, Push, memory
<1>2. PICK e \in AllEvents : Begin(c, e)
  <2>1. wakeup[c] \in AllEvents /\ Expired \in AllEvents
    BY DEF HInv, Sound, Loose, AllEvents
  <2> QED
    BY <2>1 DEF HandleWakeup, HandleTicket
<1>3. /\ next' \in [Ctx -> AllEvents] /\ wakeup' \in [Ctx -> AllEvents]
      /\ ticket' \in [Ctx -> BOOLEAN]
  BY <1>2 DEF Begin, HandleWakeup, HandleTicket, HInv, Sound, Loose, AllEvents
<1>4. Loose'
  BY <1>1, <1>3 DEF HInv, Sound, Loose, Running
<1>5. frame'[1] = ExecFrame(c)
  BY <1>1 DEF HInv, Sound, Loose
<1>6. ASSUME Intact, Whole PROVE Live(c) /\ Counts' /\ TimersMatch'
  <2>1. IInv
    BY <1>1, <1>6, BottomInv
  <2>2. IInv'
    BY <2>1, HandleWakeupInv, HandleTicketInv
  <2>3. Live(c)
    BY <1>1, <2>1 DEF HandleWakeup, HandleTicket, IInv, TypeOK, TimersMatch
  <2> QED
    BY <2>2, <2>3 DEF IInv, TypeOK, Counts
<1>7. OnStack = {} /\ depth + 1 = 1 /\ depth < MaxDepth
  BY <1>1 DEF OnStack
<1> QED
  BY <1>1, <1>4, <1>5, <1>6, <1>7, PushHeld

LEMMA HeldCallback == ASSUME HInv, Callback PROVE HInv'
<1>1. /\ Running /\ depth = 0 /\ 1 \in 1..MaxDepth /\ MaxDepth \in Nat
      /\ depth' = 1 /\ frame' = [frame EXCEPT ![1] = Blank]
      /\ UNCHANGED <<mem, key, ref, slot, clients, zombies, fsm, next, exc, wakeup,
                     alarms, ticket, tickets, timeout, status>>
  BY ConstantsAssumption DEF Callback, Idle, Push, machine, memory, timers
<1>2. Blank \in Frame /\ Blank.c = NoCtx /\ Blank.pc = "app"
  BY ConstantsAssumption DEF Blank, Frame, AllEvents
<1>3. Loose'
  BY <1>1, <1>2 DEF HInv, Sound, Loose, Running
<1>4. frame'[1] = Blank /\ \A i \in 1..depth' : i = 1
  BY <1>1 DEF HInv, Sound, Loose
<1>5. \A d \in Ctx : Live(d)' <=> Live(d)
  BY <1>1 DEF Live
<1>6. Tame
  BY <1>1, <1>2, <1>4, <1>5 DEF Tame, Form
<1>7. Sound' /\ (Whole' => Whole)
  BY <1>3, <1>6, TameSound DEF HInv
<1>8. Whole => Intact'
  BY <1>1, BottomInv, CallbackInv, BottomKept
<1> QED
  BY <1>7, <1>8 DEF HInv

LEMMA HeldStop == ASSUME HInv, Stop PROVE HInv'
<1>1. /\ depth = 0 /\ depth' = 0 /\ status' = "stopped"
      /\ clients' = [k \in Ids |-> NoCtx]
      /\ zombies' = AllZombies
      /\ mem' \in [Ctx -> BOOLEAN]
      /\ fsm' = [c \in Ctx |-> IF c \in Listed(clients) /\ ref[c] > 0
                               THEN Zombie ELSE fsm[c]]
      /\ UNCHANGED <<key, slot, next, exc, wakeup, ticket, depth, frame, timeout>>
  BY DEF Stop, Idle, timers, stack
<1>2. Loose'
  <2>1. AllZombies \in [Ids -> Ctx \cup {NoCtx}]
    BY DEF HInv, Sound, Loose, AllZombies
  <2>2. fsm' \in [Ctx -> States \cup {Zombie}]
    BY <1>1 DEF HInv, Sound, Loose
  <2> QED
    BY <1>1, <2>1, <2>2 DEF HInv, Sound, Loose
<1> QED
  BY <1>1, <1>2 DEF HInv, Sound, TableLive, Whole

LEMMA HeldAccept ==
    ASSUME HInv, NEW k \in Ids, NEW m, Accept(k, m)
    PROVE  HInv'
<1>1. /\ Running /\ depth = 0 /\ 1 \in 1..MaxDepth /\ MaxDepth \in Nat
      /\ clients[k] = NoCtx
      /\ UNCHANGED <<alarms, slot, clients, zombies, timeout, status>>
  BY ConstantsAssumption DEF Accept, Idle
<1>2. PICK c \in Ctx :
        /\ ~ mem[c]
        /\ mem' = [mem EXCEPT ![c] = TRUE]
        /\ key' = [key EXCEPT ![c] = k]
        /\ fsm' = [fsm EXCEPT ![c] = First]
        /\ next' = [next EXCEPT ![c] = NoEvent]
        /\ exc' = [exc EXCEPT ![c] = NoEvent]
        /\ wakeup' = [wakeup EXCEPT ![c] = NoEvent]
        /\ ticket' = [ticket EXCEPT ![c] = timeout /\ Expired \in Events]
        /\ Push([Blank EXCEPT !.c = c, !.pc = "init", !.ev = EventOf(m)])
  BY Zenon DEF Accept
<1>3. PICK f : f = [Blank EXCEPT !.c = c, !.pc = "init", !.ev = EventOf(m)]
  OBVIOUS
<1>4. f \in Frame /\ f.c = c /\ f.pc = "init"
  <2>1. EventOf(m) \in AllEvents
    BY EventOfType
  <2> QED
    BY <1>3, <2>1, ConstantsAssumption DEF Blank, Frame
<1>5. depth' = 1 /\ frame' = [frame EXCEPT ![1] = f]
  BY <1>1, <1>2, <1>3 DEF Push
<1>6. Loose'
  <2>1. (timeout /\ Expired \in Events) \in BOOLEAN
    BY DEF HInv, Sound, Loose
  <2>2. /\ next' \in [Ctx -> AllEvents] /\ exc' \in [Ctx -> AllEvents]
        /\ wakeup' \in [Ctx -> AllEvents] /\ ticket' \in [Ctx -> BOOLEAN]
    BY <1>2, <2>1 DEF HInv, Sound, Loose, AllEvents
  <2>3. /\ mem' \in [Ctx -> BOOLEAN] /\ key' \in [Ctx -> Ids]
        /\ fsm' \in [Ctx -> States \cup {Zombie}]
    BY <1>2, ConstantsAssumption DEF HInv, Sound, Loose
  <2>4. frame' \in [1..MaxDepth -> Frame] /\ depth' \in 0..MaxDepth
    BY <1>1, <1>4, <1>5 DEF HInv, Sound, Loose
  <2> QED
    BY <1>1, <2>2, <2>3, <2>4 DEF HInv, Sound, Loose, Running
<1>7. /\ frame'[1] = f /\ (\A i \in 1..depth' : i = 1)
      /\ mem'[c] /\ fsm'[c] # Zombie /\ key'[c] = k /\ c # NoCtx
  BY <1>1, <1>2, <1>5, ConstantsAssumption DEF HInv, Sound, Loose
<1>8. \A d \in Ctx : d # c => (Live(d)' <=> Live(d)) /\ key'[d] = key[d]
  BY <1>2 DEF HInv, Sound, Loose, Live
<1>9. Form(1)'
  BY <1>1, <1>4, <1>7 DEF Form, Live
<1>10. TableLive'
  <2>1. ASSUME NEW j \in Ids, clients[j] # NoCtx
        PROVE  Live(clients[j])' /\ key'[clients[j]] = j
    <3>1. PICK d \in Ctx : d = clients[j]
      BY <2>1 DEF HInv, Sound, Loose
    <3>2. Live(d) /\ key[d] = j
      BY <2>1, <3>1 DEF HInv, Sound, TableLive
    <3>3. d # c
      BY <1>2, <3>2 DEF Live
    <3> QED
      BY <1>1, <1>8, <3>1, <3>2, <3>3 DEF Live
  <2> QED
    BY <1>1, <2>1 DEF TableLive, Live
<1>11. ASSUME Whole' PROVE Whole
  <2>1. ASSUME NEW d \in Ctx, Live(d) PROVE clients[key[d]] = d
    <3>1. d # c
      BY <1>2, <2>1 DEF Live
    <3>2. ~ Initialising(d)'
      BY <1>4, <1>7, <3>1 DEF Initialising
    <3>3. Live(d)' /\ key'[d] = key[d]
      BY <1>8, <2>1, <3>1
    <3> QED
      BY <1>1, <1>11, <3>2, <3>3 DEF Whole, NoneLost
  <2> QED
    BY <1>1, <1>11, <2>1 DEF Whole, NoneLost
<1>12. Whole => Intact'
  BY <1>1, <1>5, BottomInv, AcceptInv, BottomKept
<1> QED
  BY <1>6, <1>7, <1>9, <1>10, <1>11, <1>12 DEF HInv, Sound

LEMMA HeldInitializeReturns == ASSUME HInv, InitializeReturns PROVE HInv'
<1>0. PICK c : c = Top.c
  OBVIOUS
<1>1. /\ Running /\ depth \in 1..MaxDepth /\ MaxDepth \in Nat /\ depth > 0
      /\ Top = frame[depth] /\ Top.pc = "init" /\ Top.ev \in AllEvents
      /\ Form(depth) /\ c \in Ctx \cup {NoCtx}
      /\ UNCHANGED <<fsm, exc, mem, key, ref, slot, zombies, timeout, status>>
      /\ clients' = [clients EXCEPT ![key[c]] = c]
  BY <1>0, TopForm DEF HInv, InitializeReturns, At
<1>2. c \in Ctx /\ c # NoCtx /\ depth = 1 /\ clients[key[c]] = NoCtx /\ Live(c)
  BY <1>0, <1>1 DEF Form
<1>3. key[c] \in Ids /\ ExecFrame(c) \in Frame /\ Blank \in Frame
  BY <1>2, ExecFrameType DEF HInv, Sound, Loose
<1>4. \/ /\ depth' = 0 /\ frame' = [frame EXCEPT ![1] = Blank]
         /\ UNCHANGED <<wakeup, ticket, next>>
      \/ /\ next' = [next EXCEPT ![c] = Top.ev]
         /\ wakeup' = [wakeup EXCEPT ![c] = NoEvent]
         /\ frame' = [frame EXCEPT ![1] = ExecFrame(c)]
         /\ UNCHANGED <<depth, ticket>>
  BY <1>0, <1>2 DEF InitializeReturns, Begin, Pop, timers
<1>5. Loose'
  <2>1. depth' \in 0..MaxDepth
    BY <1>1, <1>2, <1>4
  <2>2. frame' \in [1..MaxDepth -> Frame]
    BY <1>3, <1>4 DEF HInv, Sound, Loose
  <2>3. clients' \in [Ids -> Ctx \cup {NoCtx}]
    BY <1>1, <1>2, <1>3 DEF HInv, Sound, Loose
  <2>4. /\ next' \in [Ctx -> AllEvents] /\ wakeup' \in [Ctx -> AllEvents]
        /\ ticket' \in [Ctx -> BOOLEAN]
    BY <1>1, <1>4 DEF HInv, Sound, Loose, AllEvents
  <2> QED
    BY <1>1, <2>1, <2>2, <2>3, <2>4 DEF HInv, Sound, Loose, Running
<1>6. \A i \in 1..depth' : i = 1 /\ frame'[i].c = c /\ frame'[i].pc = "top"
  <2>1. CASE depth' = 0
    BY <2>1
  <2>2. CASE depth' = depth /\ frame' = [frame EXCEPT ![1] = ExecFrame(c)]
    <3>1. frame'[1] = ExecFrame(c)
      BY <1>1, <1>2, <2>2 DEF HInv, Sound, Loose
    <3>2. frame'[1].c = c /\ frame'[1].pc = "top"
      BY <3>1 DEF ExecFrame, Blank
    <3> QED
      BY <1>2, <2>2, <3>2
  <2> QED
    BY <1>4, <2>1, <2>2
<1>7. clients'[key[c]] = c /\ \A j \in Ids : j # key[c] => clients'[j] = clients[j]
  BY <1>1, <1>3 DEF HInv, Sound, Loose
<1>8. \A i \in 1..depth' : Form(i)'
  BY <1>2, <1>6 DEF Form
<1>9. TableLive'
  <2>1. ASSUME NEW j \in Ids, clients'[j] # NoCtx
        PROVE  Live(clients'[j]) /\ key[clients'[j]] = j
    BY <1>2, <1>7, <2>1 DEF HInv, Sound, TableLive
  <2> QED
    BY <1>1, <2>1 DEF TableLive, Live
<1>10. ASSUME Whole' PROVE Whole
  <2>1. ASSUME NEW d \in Ctx, Live(d) PROVE clients[key[d]] = d \/ Initialising(d)
    <3>1. CASE d = c
      BY <1>0, <1>1, <1>2, <3>1 DEF Initialising
    <3>2. CASE d # c
      <4>1. ~ Initialising(d)' /\ Live(d)'
        BY <1>1, <1>6, <2>1 DEF Initialising, Live
      <4>2. clients'[key[d]] = d /\ key[d] \in Ids
        BY <1>1, <1>10, <4>1 DEF Whole, NoneLost, HInv, Sound, Loose
      <4> QED
        BY <1>7, <3>2, <4>2
    <3> QED
      BY <3>1, <3>2
  <2> QED
    BY <1>1, <2>1 DEF Whole, NoneLost, Running
<1>11. Whole => Intact'
  <2>1. depth' <= 1 /\ frame[1].pc = "init"
    BY <1>1, <1>2, <1>4
  <2> QED
    BY <1>2, <2>1, BottomInv, InitializeReturnsInv, BottomKept
<1> QED
  BY <1>5, <1>8, <1>9, <1>10, <1>11 DEF HInv, Sound

-------------------------------------------------------------------------------
\* The invariant is inductive.
LEMMA HeldNext ==
    ASSUME Reentry = "held", HInv, [Next]_vars
    PROVE  HInv'
<1>1. CASE Engine
  BY <1>1, HeldTopOfLoop, HeldBodyStep, HeldEndOfPass, HeldBroadcastStep,
     HeldBroadcastEnds, HeldReturn, HeldInitializeReturns DEF Engine, Return
<1>2. CASE AppCall
  BY <1>2, HeldSetters, HeldSetWakeupEvent, HeldSendEvent, HeldBroadcastEvent,
     HeldClientGet, HeldClientPut DEF AppCall
<1>3. CASE Traffic
  BY <1>3, HeldReceive, HeldAccept DEF Traffic
<1>4. CASE \E c \in Ctx : HandleWakeup(c) \/ HandleTicket(c)
  BY <1>4, HeldTimer
<1>5. CASE Callback \/ Stop
  BY <1>5, HeldCallback, HeldStop
<1>6. CASE Configure \/ Done \/ UNCHANGED vars
  BY <1>6, HeldSetters
<1> QED
  BY <1>1, <1>2, <1>3, <1>4, <1>5, <1>6 DEF Next

LEMMA HeldInductive == Reentry = "held" => (Spec => []HInv)
<1> SUFFICES ASSUME Reentry = "held" PROVE Spec => []HInv
  OBVIOUS
<1>1. HInv /\ [Next]_vars => HInv'
  BY HeldNext
<1> QED
  BY <1>1, HeldInit, PTL DEF Spec

\* A client that the application holds may be terminated by its own action: when
\* the action returns, s_client_execute still finds its context allocated.
THEOREM HeldContextsStay ==
    Reentry \in {"never", "held"} => (Spec => []StackIsAllocated)
<1>1. CASE Reentry = "never"
  <2>1. StackIsLive => StackIsAllocated
    BY DEF StackIsLive, StackIsAllocated, Live
  <2> QED
    BY <1>1, <2>1, StackStaysLive, PTL
<1>2. CASE Reentry = "held"
  <2>1. HInv => StackIsAllocated
    <3> SUFFICES ASSUME HInv, NoneLost, NEW i \in 1..depth, Active(i)
                 PROVE  mem[frame[i].c]
      BY DEF StackIsAllocated
    <3>1. Whole
      BY DEF HInv, Sound, Loose, Whole
    <3> QED
      BY <3>1 DEF HInv, Intact, Kept
  <2> QED
    BY <1>2, <2>1, HeldInductive, PTL
<1> QED
  BY <1>1, <1>2

\* Up to the first lost context the counts of references and the timers are as
\* right with re-entry as without.
THEOREM HeldCountsStay ==
    Reentry = "held" => (Spec => [](NoneLost => ReferencesCounted /\ TimersMatch))
<1>1. HInv => (NoneLost => ReferencesCounted /\ TimersMatch)
  BY DEF HInv, Whole, Intact, ReferencesCounted, TimersMatch, Running
<1> QED
  BY <1>1, HeldInductive, PTL

\* Re-entered machines never corrupt the table of clients: whom it names is usable
\* and has that key, even after a context was lost.
THEOREM HeldTableStays == Reentry = "held" => (Spec => []TableLive)
<1>1. HInv => TableLive
  BY DEF HInv, Sound
<1> QED
  BY <1>1, HeldInductive, PTL
===============================================================================
