------------------------------ MODULE ClientRegistry ------------------------------
(***************************************************************************)
(* What the server engine promises about client contexts, without queues,  *)
(* timers, state machines or the call stack: a peer has at most one open   *)
(* context; a closed context stays in limbo exactly as long as somebody    *)
(* holds a reference to it and is never opened again; shutdown leaves      *)
(* nothing behind.                                                         *)
(***************************************************************************)
EXTENDS Naturals

CONSTANTS Ids,      \* peers
          Ctx       \* memory blocks for contexts

VARIABLES phase,    \* phase[c]: absent, open, or limbo (closed and still held)
          peer,     \* the peer that an open or held context belongs to
          refs      \* references to the context that the application counts

registry == <<phase, peer, refs>>

Init == /\ phase = [c \in Ctx |-> "absent"]
        /\ peer \in [Ctx -> Ids]
        /\ refs = [c \in Ctx |-> 0]

Open(c, k) ==
    /\ phase[c] = "absent"
    /\ \A d \in Ctx : phase[d] = "open" => peer[d] # k
    /\ phase' = [phase EXCEPT ![c] = "open"]
    /\ peer' = [peer EXCEPT ![c] = k]
    /\ refs' = [refs EXCEPT ![c] = 0]

Get(c) ==
    /\ phase[c] # "absent"
    /\ refs' = [refs EXCEPT ![c] = @ + 1]
    /\ UNCHANGED <<phase, peer>>

Put(c) ==
    /\ phase[c] # "absent" /\ refs[c] > 0
    /\ refs' = [refs EXCEPT ![c] = @ - 1]
    /\ phase' = IF phase[c] = "limbo" /\ refs[c] = 1
                THEN [phase EXCEPT ![c] = "absent"] ELSE phase
    /\ UNCHANGED peer

Close(c) ==
    /\ phase[c] = "open"
    /\ phase' = [phase EXCEPT ![c] = IF refs[c] = 0 THEN "absent" ELSE "limbo"]
    /\ UNCHANGED <<peer, refs>>

Shutdown ==
    /\ phase' = [c \in Ctx |-> "absent"]
    /\ UNCHANGED <<peer, refs>>

Next == \/ \E c \in Ctx : Get(c) \/ Put(c) \/ Close(c)
        \/ \E c \in Ctx, k \in Ids : Open(c, k)
        \/ Shutdown

Spec == Init /\ [][Next]_registry
===============================================================================
