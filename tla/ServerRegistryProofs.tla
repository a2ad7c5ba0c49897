-------------------------- MODULE ServerRegistryProofs --------------------------
(***************************************************************************)
(* ServerEngine implements ClientRegistry, for every dialog, every number  *)
(* of peers, contexts and references and every depth of nesting, provided  *)
(* no action re-enters a running machine (Reentry = "never") and the       *)
(* application never holds two contexts of one peer: with two, the table   *)
(* of zombies, which has one entry for a key, loses one of them.           *)
(***************************************************************************)
EXTENDS ServerEngineProofs

\* The application holds at most one context of each peer.
OneHeldPerPeer ==
    Running => \A c, d \in Ctx :
        mem[c] /\ mem[d] /\ ref[c] > 0 /\ ref[d] > 0 /\ key[c] = key[d] => c = d

\* What the table of zombies lists is a zombie of that peer.
ZombieTable ==
    Running => \A k \in Ids : zombies[k] # NoCtx =>
        /\ mem[zombies[k]] /\ fsm[zombies[k]] = Zombie
        /\ key[zombies[k]] = k

-------------------------------------------------------------------------------
\* What a step does to the contexts, as far as ClientRegistry and the table of
\* zombies are concerned: nothing, or one of five things.
Quiet ==
    /\ UNCHANGED <<mem, key, ref, zombies>>
    /\ \A c \in Ctx : mem[c] => (fsm'[c] = Zombie <=> fsm[c] = Zombie)
    /\ status' \in {status, "assert", "null"}

Opens(c, k) ==
    /\ Running /\ status' = status
    /\ ~ mem[c]
    /\ \A d \in Ctx : Live(d) => key[d] # k
    /\ mem' = [mem EXCEPT ![c] = TRUE] /\ key' = [key EXCEPT ![c] = k]
    /\ fsm' = [fsm EXCEPT ![c] = First] /\ ref' = [ref EXCEPT ![c] = 0]
    /\ zombies' = zombies

Closes(c) ==
    /\ Running /\ status' = status
    /\ Live(c)
    /\ mem' = Freed(c) /\ fsm' = Retired(c) /\ zombies' = Enlisted(c)
    /\ UNCHANGED <<key, ref>>

Gets(c) ==
    /\ Running /\ status' = status
    /\ mem[c]
    /\ ref' = [ref EXCEPT ![c] = @ + 1]
    /\ UNCHANGED <<mem, key, fsm, zombies>>

Last(c) == ref[c] = 1 /\ fsm[c] = Zombie

Puts(c) ==
    /\ Running /\ status' = status
    /\ mem[c] /\ ref[c] > 0
    /\ ref' = [ref EXCEPT ![c] = @ - 1]
    /\ mem' = IF Last(c) THEN [mem EXCEPT ![c] = FALSE] ELSE mem
    /\ zombies' = IF Last(c) THEN [zombies EXCEPT ![key[c]] = NoCtx] ELSE zombies
    /\ UNCHANGED <<key, fsm>>

LEMMA BodyIsQuiet == ASSUME IInv, IInv', BodyStep PROVE Quiet
<1>1. /\ UNCHANGED <<mem, key, ref, zombies, clients, status, depth>>
      /\ depth > 0 /\ depth \in 1..MaxDepth /\ Top = frame[depth] /\ Top.pc = "body"
  BY TopType DEF IInv, BodyStep, memory, At
<1>2. Top.c # NoCtx
  BY <1>1 DEF IInv, FrameShape, Shape
<1>3. PICK c \in Ctx : c = Top.c
  BY <1>1, <1>2, TopLive
<1>4. Live(c)
  BY <1>1, <1>2, <1>3, TopLive
<1>5. frame'[depth].c = c /\ frame'[depth].pc \in {"body", "app"}
  <2>1. PICK p \in {"body", "app"} :
          frame' = [frame EXCEPT ![depth] = [@ EXCEPT !.at = Top.at + 1, !.pc = p]]
    <3> DEFINE s == Program(Top.st, Top.ev)[Top.at]
               p == IF s.op = "app" /\ exc[Top.c] = NoEvent THEN "app" ELSE "body"
    <3>1. frame' = [frame EXCEPT ![depth] = [@ EXCEPT !.at = Top.at + 1, !.pc = p]]
      BY DEF BodyStep
    <3>2. p \in {"body", "app"}
      OBVIOUS
    <3> QED
      BY <3>1, <3>2
  <2>2. DOMAIN frame = 1..MaxDepth /\ frame[depth] \in Frame
    BY <1>1 DEF IInv, TypeOK
  <2>3. frame'[depth] = [frame[depth] EXCEPT !.at = Top.at + 1, !.pc = p]
    BY <1>1, <2>1, <2>2
  <2> QED
    BY <1>1, <1>3, <2>1, <2>2, <2>3 DEF Frame
<1>6. Live(c)'
  <2>1. depth \in 1..depth'
    BY <1>1, ConstantsAssumption
  <2>2. (Active(depth))'
    BY <1>1, <1>2, <1>3, <1>5 DEF Active
  <2> QED
    BY <1>1, <1>5, <2>1, <2>2 DEF IInv, StackIsLive, Active
<1>7. \A d \in Ctx : d # c => fsm'[d] = fsm[d]
  BY <1>3 DEF IInv, TypeOK, BodyStep
<1> QED
  BY <1>1, <1>4, <1>6, <1>7 DEF Quiet, Live

LEMMA PassQuietOrCloses ==
    ASSUME IInv, EndOfPass
    PROVE  Quiet \/ \E c \in Ctx : Closes(c)
<1> DEFINE c == Top.c
<1>1. /\ depth > 0 /\ depth \in 1..MaxDepth /\ Top = frame[depth] /\ Top.pc = "body"
      /\ Running
  BY TopType DEF IInv, EndOfPass, At
<1>2. c # NoCtx
  BY <1>1 DEF IInv, FrameShape, Shape
<1>3. c \in Ctx /\ Live(c) /\ clients[key[c]] = c
  BY <1>1, <1>2, TopLive
<1>4. CASE UNCHANGED <<fsm, mem, zombies>>
  BY <1>4 DEF EndOfPass, Quiet
<1>5. CASE Destroy(clients[key[c]])
  BY <1>1, <1>3, <1>5 DEF EndOfPass, Closes, Destroy
<1> QED
  BY <1>4, <1>5 DEF EndOfPass

LEMMA AcceptOpens ==
    ASSUME IInv, NEW k \in Ids, NEW m, Accept(k, m)
    PROVE  \E c \in Ctx : Opens(c, k)
<1>1. /\ Running /\ depth = 0 /\ clients[k] = NoCtx /\ UNCHANGED <<zombies, status>>
  BY DEF Accept, Idle
<1>2. PICK c \in Ctx : /\ ~ mem[c]
                       /\ mem' = [mem EXCEPT ![c] = TRUE]
                       /\ key' = [key EXCEPT ![c] = k]
                       /\ fsm' = [fsm EXCEPT ![c] = First]
                       /\ ref' = [ref EXCEPT ![c] = 0]
  BY DEF Accept
<1>3. ASSUME NEW d \in Ctx, Live(d) PROVE key[d] # k
  <2>1. ~ Initialising(d)
    BY <1>1 DEF Initialising
  <2>2. clients[key[d]] = d
    BY <1>1, <1>3, <2>1 DEF IInv, RegistryConsistent
  <2> QED
    BY <1>1, <2>2, ConstantsAssumption
<1> QED
  BY <1>1, <1>2, <1>3 DEF Opens

LEMMA GetGets ==
    ASSUME IInv, ClientGet
    PROVE  \E c \in Ctx : Gets(c)
<1>1. PICK s \in Slots, c \in Targets : ref' = [ref EXCEPT ![c] = @ + 1]
  BY DEF ClientGet
<1>2. InApp /\ Running /\ UNCHANGED <<mem, key, zombies, fsm, status>>
  BY DEF ClientGet, InApp, At, machine
<1>3. c \in Ctx /\ mem[c]
  BY <1>2, TargetAllocated
<1> QED
  BY <1>1, <1>2, <1>3 DEF Gets

LEMMA PutPuts ==
    ASSUME IInv, ClientPut
    PROVE  \E c \in Ctx : Puts(c)
<1>1. PICK s \in Slots :
        /\ slot[s] # NoCtx
        /\ ref' = [ref EXCEPT ![slot[s]] = @ - 1]
        /\ zombies' = IF Last(slot[s])
                      THEN [zombies EXCEPT ![key[slot[s]]] = NoCtx] ELSE zombies
        /\ mem' = IF Last(slot[s]) THEN [mem EXCEPT ![slot[s]] = FALSE] ELSE mem
  BY DEF ClientPut, Last
<1>2. Running /\ UNCHANGED <<key, fsm, status>>
  BY DEF ClientPut, InApp, At, machine
<1>3. slot[s] \in Ctx /\ mem[slot[s]]
  BY <1>1, <1>2 DEF IInv, TypeOK, ReferencesCounted
<1>4. ref[slot[s]] > 0
  <2>1. ref[slot[s]] = Cardinality(Holders(slot[s])) /\ ref[slot[s]] \in Nat
    BY <1>2, <1>3 DEF IInv, TypeOK, ReferencesCounted
  <2>2. Cardinality(Holders(slot[s])) # 0
    BY <1>1, <1>3, HoldersCount DEF IInv
  <2> QED
    BY <2>1, <2>2
<1> QED
  BY <1>1, <1>2, <1>3, <1>4 DEF Puts

LEMMA StepKinds ==
    ASSUME IInv, IInv', [Next]_vars
    PROVE  \/ Quiet
           \/ \E c \in Ctx, k \in Ids : Opens(c, k)
           \/ \E c \in Ctx : Closes(c) \/ Gets(c) \/ Puts(c)
           \/ Stop
<1> USE DEF memory, machine
<1>1. CASE TopOfLoop
  BY <1>1 DEF TopOfLoop, Quiet, At, Running
<1>2. CASE BodyStep
  BY <1>2, BodyIsQuiet
<1>3. CASE EndOfPass
  BY <1>3, PassQuietOrCloses
<1>4. CASE BroadcastStep
  BY <1>4 DEF BroadcastStep, Quiet, At, Running
<1>5. CASE BroadcastEnds \/ Return
  BY <1>5 DEF BroadcastEnds, Return, ActionReturns, CallbackReturns,
     InitializeReturns,
     Quiet
<1>6. CASE SetNextEvent \/ SetException \/ SetWakeupEvent \/ SendEvent \/ BroadcastEvent
  BY <1>6, Zenon DEF SetNextEvent, SetException, SetWakeupEvent, SendEvent, BroadcastEvent,
     Execute, Quiet
<1>7. CASE ClientGet
  BY <1>7, GetGets
<1>8. CASE ClientPut
  BY <1>8, PutPuts
<1>9. CASE Configure \/ Callback \/ Done \/ UNCHANGED vars
  BY <1>9 DEF Configure, Callback, Done, vars, Quiet
<1>10. CASE Traffic
  <2>1. PICK k \in Ids, m \in Messages : Receive(k, m) \/ Accept(k, m)
    BY <1>10 DEF Traffic
  <2>2. CASE Receive(k, m)
    BY <2>2 DEF Receive, Execute, Quiet
  <2>3. CASE Accept(k, m)
    BY <2>3, AcceptOpens
  <2> QED
    BY <2>1, <2>2, <2>3
<1>11. CASE \E c \in Ctx : HandleWakeup(c) \/ HandleTicket(c)
  BY <1>11 DEF HandleWakeup, HandleTicket, Quiet
<1>12. CASE Stop
  BY <1>12
<1> QED
  BY <1>1, <1>2, <1>3, <1>4, <1>5, <1>6, <1>7, <1>8, <1>9, <1>10, <1>11, <1>12
  DEF Next, Engine, AppCall

-------------------------------------------------------------------------------
\* The table of zombies.

LEMMA ZombieTableStep ==
    ASSUME IInv, IInv', [Next]_vars, ZombieTable
    PROVE  ZombieTable'
<1> SUFFICES ASSUME Running', NEW k \in Ids, zombies'[k] # NoCtx
             PROVE  /\ mem'[zombies'[k]] /\ fsm'[zombies'[k]] = Zombie
                    /\ key'[zombies'[k]] = k
  BY DEF ZombieTable
<1>1. ASSUME Running, zombies'[k] = zombies[k]
      PROVE  /\ zombies[k] \in Ctx /\ zombies'[k] = zombies[k]
             /\ mem[zombies[k]] /\ fsm[zombies[k]] = Zombie /\ key[zombies[k]] = k
  BY <1>1 DEF ZombieTable, IInv, TypeOK
<1>2. CASE Quiet
  BY <1>1, <1>2 DEF Quiet, Running
<1>3. ASSUME NEW c \in Ctx, NEW l \in Ids, Opens(c, l)
      PROVE  /\ mem'[zombies'[k]] /\ fsm'[zombies'[k]] = Zombie
             /\ key'[zombies'[k]] = k
  BY <1>1, <1>3 DEF Opens, IInv, TypeOK
<1>4. ASSUME NEW c \in Ctx, Closes(c)
      PROVE  /\ mem'[zombies'[k]] /\ fsm'[zombies'[k]] = Zombie
             /\ key'[zombies'[k]] = k
  <2>1. CASE zombies'[k] = zombies[k]
    <3>1. zombies[k] # c
      BY <1>1, <1>4, <2>1 DEF Closes, Live
    <3> QED
      BY <1>1, <1>4, <2>1, <3>1 DEF Closes, Freed, Retired, IInv, TypeOK
  <2>2. CASE zombies'[k] # zombies[k]
    BY <1>4, <2>2 DEF Closes, Freed, Retired, Enlisted, Live, IInv, TypeOK
  <2> QED
    BY <2>1, <2>2
<1>5. ASSUME NEW c \in Ctx, Gets(c)
      PROVE  /\ mem'[zombies'[k]] /\ fsm'[zombies'[k]] = Zombie
             /\ key'[zombies'[k]] = k
  BY <1>1, <1>5 DEF Gets
<1>6. ASSUME NEW c \in Ctx, Puts(c)
      PROVE  /\ mem'[zombies'[k]] /\ fsm'[zombies'[k]] = Zombie
             /\ key'[zombies'[k]] = k
  <2>1. zombies'[k] = zombies[k] /\ (Last(c) => k # key[c])
    BY <1>6 DEF Puts, IInv, TypeOK
  <2>2. Last(c) => zombies[k] # c
    BY <1>1, <1>6, <2>1 DEF Puts
  <2> QED
    BY <1>1, <1>6, <2>1, <2>2 DEF Puts, IInv, TypeOK
<1>7. CASE Stop
  BY <1>7 DEF Stop, Running
<1> QED
  BY <1>2, <1>3, <1>4, <1>5, <1>6, <1>7, StepKinds

\* A zombie enters the table unless another one of its peer is there, and leaves it
\* with its own last reference.
LEMMA ListedStep ==
    ASSUME IInv, IInv', [Next]_vars, ZombieTable, OneHeldPerPeer, OneHeldPerPeer',
           ZombiesListed
    PROVE  ZombiesListed'
<1> SUFFICES ASSUME Running', NEW d \in Ctx, mem'[d], fsm'[d] = Zombie
             PROVE  zombies'[key'[d]] = d
  BY DEF ZombiesListed
<1>1. ASSUME Running, mem[d], fsm[d] = Zombie
      PROVE  zombies[key[d]] = d /\ key[d] \in Ids /\ ref[d] > 0
  BY <1>1 DEF ZombiesListed, IInv, TypeOK, ReferencesCounted
<1>2. CASE Quiet
  BY <1>1, <1>2 DEF Quiet, Running
<1>3. ASSUME NEW c \in Ctx, NEW l \in Ids, Opens(c, l)
      PROVE  zombies'[key'[d]] = d
  <2>1. d # c
    BY <1>3, ConstantsAssumption DEF Opens, IInv, TypeOK
  <2> QED
    BY <1>1, <1>3, <2>1 DEF Opens, IInv, TypeOK
<1>4. ASSUME NEW c \in Ctx, Closes(c)
      PROVE  zombies'[key'[d]] = d
  <2>1. CASE d = c
    <3>1. ref[c] > 0 /\ key[c] \in Ids
      BY <1>4, <2>1 DEF Closes, Freed, Live, IInv, TypeOK
    <3>2. zombies[key[c]] = NoCtx
      <4> SUFFICES ASSUME zombies[key[c]] # NoCtx PROVE FALSE
        OBVIOUS
      <4>1. PICK z \in Ctx : z = zombies[key[c]]
        BY <3>1 DEF IInv, TypeOK
      <4>2. mem[z] /\ fsm[z] = Zombie /\ key[z] = key[c]
        BY <1>4, <3>1, <4>1 DEF ZombieTable, Closes
      <4>3. ref[z] > 0
        BY <1>4, <4>2 DEF IInv, ReferencesCounted, Closes
      <4>4. z = c
        BY <1>4, <3>1, <4>2, <4>3 DEF OneHeldPerPeer, Closes, Live
      <4> QED
        BY <1>4, <4>2, <4>4 DEF Closes, Live
    <3> QED
      BY <1>4, <2>1, <3>1, <3>2 DEF Closes, Enlisted, IInv, TypeOK
  <2>2. CASE d # c
    <3>1. mem[d] /\ fsm[d] = Zombie
      BY <1>4, <2>2 DEF Closes, Freed, Retired, IInv, TypeOK
    <3>2. zombies[key[d]] = d /\ d # NoCtx
      BY <1>1, <1>4, <3>1, ConstantsAssumption DEF Closes
    <3> QED
      BY <1>4, <3>2 DEF Closes, Enlisted, IInv, TypeOK
  <2> QED
    BY <2>1, <2>2
<1>5. ASSUME NEW c \in Ctx, Gets(c)
      PROVE  zombies'[key'[d]] = d
  BY <1>1, <1>5 DEF Gets
<1>6. ASSUME NEW c \in Ctx, Puts(c)
      PROVE  zombies'[key'[d]] = d
  <2>1. mem[d] /\ fsm[d] = Zombie /\ (Last(c) => d # c)
    BY <1>6 DEF Puts, IInv, TypeOK
  <2>2. zombies[key[d]] = d /\ key[d] \in Ids /\ ref[d] > 0
    BY <1>1, <1>6, <2>1 DEF Puts
  <2>3. Last(c) => key[d] # key[c]
    BY <1>6, <2>1, <2>2 DEF OneHeldPerPeer, Puts
  <2> QED
    BY <1>6, <2>2, <2>3 DEF Puts, IInv, TypeOK
<1>7. CASE Stop
  BY <1>7 DEF Stop, Running
<1> QED
  BY <1>2, <1>3, <1>4, <1>5, <1>6, <1>7, StepKinds

\* s_server_destroy reaches every context through one of the two tables.
LEMMA StopFreesAll ==
    ASSUME IInv, ZombieTable, OneHeldPerPeer, ZombiesListed, Stop
    PROVE  mem' = [c \in Ctx |-> FALSE]
<1>1. /\ Running /\ depth = 0
      /\ mem' = [c \in Ctx |-> /\ mem[c]
                               /\ c \in Listed(clients) => ref[c] > 0
                               /\ c \notin Listed(AllZombies)]
  BY DEF Stop, Idle
<1>2. ASSUME NEW c \in Ctx, mem'[c] PROVE FALSE
  <2>1. /\ mem[c] /\ key[c] \in Ids
        /\ c \in Listed(clients) => ref[c] > 0
        /\ \A k \in Ids : AllZombies[k] # c
    BY <1>1, <1>2 DEF Listed, IInv, TypeOK
  <2>2. CASE fsm[c] = Zombie
    <3>1. zombies[key[c]] = c
      BY <1>1, <2>1, <2>2 DEF ZombiesListed
    <3>2. AllZombies[key[c]] = c
      BY <2>1, <3>1, ConstantsAssumption DEF AllZombies
    <3> QED
      BY <2>1, <3>2
  <2>3. CASE fsm[c] # Zombie
    <3>1. Live(c) /\ ~ Initialising(c)
      BY <1>1, <2>1, <2>3 DEF Live, Initialising
    <3>2. clients[key[c]] = c
      BY <1>1, <3>1 DEF IInv, RegistryConsistent
    <3>3. ref[c] > 0
      BY <2>1, <3>2 DEF Listed
    <3>4. zombies[key[c]] # NoCtx
      BY <2>1, <3>2, <3>3, ConstantsAssumption DEF AllZombies
    <3>5. PICK z \in Ctx : z = zombies[key[c]]
      BY <2>1, <3>4 DEF IInv, TypeOK
    <3>6. mem[z] /\ fsm[z] = Zombie /\ key[z] = key[c]
      BY <1>1, <2>1, <3>4, <3>5 DEF ZombieTable
    <3>7. ref[z] > 0
      BY <1>1, <3>6 DEF IInv, ReferencesCounted
    <3> QED
      BY <1>1, <2>1, <2>3, <3>3, <3>6, <3>7 DEF OneHeldPerPeer
  <2> QED
    BY <2>2, <2>3
<1> QED
  BY <1>1, <1>2

-------------------------------------------------------------------------------
\* The refinement, step by step.

LEMMA RegistryInit == Init => Registry!Init
<1> SUFFICES ASSUME Init PROVE Registry!Init
  OBVIOUS
<1>1. IInv
  BY InitInv
<1> QED
  BY <1>1 DEF Init, Registry!Init, IInv, TypeOK

LEMMA RegistryStep ==
    ASSUME IInv, IInv', [Next]_vars, ~ Stop
    PROVE  Registry!Next \/ UNCHANGED Registry!registry
<1>1. CASE Quiet
  BY <1>1 DEF Quiet, Registry!registry
<1>2. ASSUME NEW c \in Ctx, NEW k \in Ids, Opens(c, k)
      PROVE  Registry!Next
  <2>1. Registry!Open(c, k)
    BY <1>2, ConstantsAssumption DEF Opens, Registry!Open, Live, IInv, TypeOK
  <2> QED
    BY <2>1 DEF Registry!Next
<1>3. ASSUME NEW c \in Ctx, Closes(c)
      PROVE  Registry!Next
  <2>1. Registry!Close(c)
    BY <1>3, ZenonT(30) DEF Closes, Registry!Close, Live, Freed, Retired, IInv, TypeOK
  <2> QED
    BY <2>1 DEF Registry!Next
<1>4. ASSUME NEW c \in Ctx, Gets(c)
      PROVE  Registry!Next
  <2>1. Registry!Get(c)
    BY <1>4 DEF Gets, Registry!Get
  <2> QED
    BY <2>1 DEF Registry!Next
<1>5. ASSUME NEW c \in Ctx, Puts(c)
      PROVE  Registry!Next
  <2>1. Registry!Put(c)
    BY <1>5 DEF Puts, Last, Registry!Put, IInv, TypeOK
  <2> QED
    BY <2>1 DEF Registry!Next
<1> QED
  BY <1>1, <1>2, <1>3, <1>4, <1>5, StepKinds

LEMMA RegistryStop ==
    ASSUME Stop, mem' = [c \in Ctx |-> FALSE]
    PROVE  Registry!Next
<1>1. Registry!Shutdown
  BY DEF Stop, Registry!Shutdown
<1> QED
  BY <1>1 DEF Registry!Next

LEMMA ShutdownStep ==
    ASSUME IInv, IInv', [Next]_vars, ZombieTable, OneHeldPerPeer, ZombiesListed,
           ShutdownFreesAll
    PROVE  ShutdownFreesAll'
<1>1. CASE Quiet
  BY <1>1 DEF Quiet, ShutdownFreesAll
<1>2. CASE Running'
  BY <1>2 DEF Running, ShutdownFreesAll
<1>3. CASE Stop
  BY <1>3, StopFreesAll DEF ShutdownFreesAll
<1> QED
  BY <1>1, <1>2, <1>3, StepKinds DEF Opens, Closes, Gets, Puts, Running

-------------------------------------------------------------------------------
\* The theorems.

TablesInv == ZombieTable /\ ZombiesListed /\ ShutdownFreesAll

LEMMA TablesInit == Init => TablesInv
BY DEF Init, TablesInv, ZombieTable, ZombiesListed, ShutdownFreesAll

LEMMA TablesStay ==
    Reentry = "never" => (Spec /\ []OneHeldPerPeer => []TablesInv)
<1> SUFFICES ASSUME Reentry = "never"
             PROVE  Spec /\ []OneHeldPerPeer => []TablesInv
  OBVIOUS
<1>1. /\ IInv /\ IInv' /\ OneHeldPerPeer /\ OneHeldPerPeer'
      /\ TablesInv /\ [Next]_vars
      => TablesInv'
  BY ZombieTableStep, ListedStep, ShutdownStep DEF TablesInv
<1> QED
  BY <1>1, TablesInit, Inductive, PTL DEF Spec

\* With one place for references the application holds one context at most.
LEMMA OneSlotHoldsOne ==
    ASSUME IInv, Cardinality(Slots) <= 1
    PROVE  OneHeldPerPeer
<1> SUFFICES ASSUME Running, NEW c \in Ctx, NEW d \in Ctx, mem[c], mem[d],
                    ref[c] > 0, ref[d] > 0
             PROVE  c = d
  BY DEF OneHeldPerPeer
<1>1. PICK s \in Slots : slot[s] = c
  BY HoldersCount DEF IInv, ReferencesCounted
<1>2. PICK t \in Slots : slot[t] = d
  BY HoldersCount DEF IInv, ReferencesCounted
<1>3. s = t
  BY FS_Singleton, FS_EmptySet, FS_CardinalityType, ConstantsAssumption
<1> QED
  BY <1>1, <1>2, <1>3

\* Every zombie is in the table of zombies, as long as the application never holds
\* two contexts of one peer.
THEOREM ZombiesStayListed ==
    Reentry = "never" => (Spec /\ []OneHeldPerPeer => []ZombiesListed)
<1>1. TablesInv => ZombiesListed
  BY DEF TablesInv
<1> QED
  BY <1>1, TablesStay, PTL

\* Then s_server_destroy frees every context: those in the table of clients, and the
\* held ones through the table of zombies.
THEOREM ShutdownLeavesNothing ==
    Reentry = "never" => (Spec /\ []OneHeldPerPeer => []ShutdownFreesAll)
<1>1. TablesInv => ShutdownFreesAll
  BY DEF TablesInv
<1> QED
  BY <1>1, TablesStay, PTL

\* And the engine implements ClientRegistry: each of its steps opens, closes, holds
\* or releases one context as that specification allows, ends it, or shows nothing.
THEOREM EngineImplementsRegistry ==
    Reentry = "never" => (Spec /\ []OneHeldPerPeer => ImplementsRegistry)
<1> SUFFICES ASSUME Reentry = "never"
             PROVE  Spec /\ []OneHeldPerPeer => ImplementsRegistry
  OBVIOUS
<1>1. /\ IInv /\ IInv' /\ OneHeldPerPeer /\ TablesInv /\ [Next]_vars
      => [Registry!Next]_Registry!registry
  <2> SUFFICES ASSUME IInv, IInv', OneHeldPerPeer, TablesInv, [Next]_vars
               PROVE  Registry!Next \/ UNCHANGED Registry!registry
    OBVIOUS
  <2>1. CASE Stop
    BY <2>1, StopFreesAll, RegistryStop DEF TablesInv
  <2>2. CASE ~ Stop
    BY <2>2, RegistryStep
  <2> QED
    BY <2>1, <2>2
<1> QED
  BY <1>1, RegistryInit, TablesStay, Inductive, PTL
  DEF Spec, ImplementsRegistry, Registry!Spec

\* With one reference the proviso holds by itself.
COROLLARY OneReferenceImplementsRegistry ==
    Reentry = "never" /\ Cardinality(Slots) <= 1 =>
        (Spec => [](ZombiesListed /\ ShutdownFreesAll) /\ ImplementsRegistry)
<1> SUFFICES ASSUME Reentry = "never", Cardinality(Slots) <= 1
             PROVE  Spec => [](ZombiesListed /\ ShutdownFreesAll) /\ ImplementsRegistry
  OBVIOUS
<1>1. IInv => OneHeldPerPeer
  BY OneSlotHoldsOne
<1>2. Spec => []OneHeldPerPeer
  BY <1>1, Inductive, PTL
<1> QED
  BY <1>2, ZombiesStayListed, ShutdownLeavesNothing, EngineImplementsRegistry, PTL
================================================================================
