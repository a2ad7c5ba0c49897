----------------------------- MODULE MCServerEngine -----------------------------
(* Small dialogs and sets for model checking ServerEngine. *)
EXTENDS ServerEngine, TLC

Act(op) == [op |-> op, to |-> NoState]
App == <<Act("app")>>
Send == <<Act("send")>>
Quit == <<Act("terminate")>>
On(acts, s) == [acts |-> acts, next |-> s]

\* A login dialog in the style of the README: the superstate's "expired" and "*"
\* are resolved into both states, a peer greets, works and can be refused.
MCStates == {"start", "connected"}
MCEvents == {"hello", "ping", "expired", "error"}
Common == ("expired" :> On(Quit, NoState)) @@ (Star :> On(App \o Quit, NoState))
MCDialog == "start" :> (("hello" :> On(App \o Send, "connected")) @@ Common)
         @@ "connected" :> (("ping" :> On(App \o Send, NoState))
                            @@ ("error" :> On(App \o Quit, NoState)) @@ Common)
NoHooks == [s \in MCStates |-> <<>>]
MCBefore == [s \in MCStates |-> IF s = "connected" THEN App ELSE <<>>]
MCAfter == [s \in MCStates |-> IF s = "start" THEN Send ELSE <<>>]

\* The same dialog without "*" in state connected: what that state does not name
\* is an unexpected event there.
StrictDialog == [MCDialog EXCEPT !["connected"] =
                    [e \in DOMAIN @ \ {Star} |-> @[e]]]

Symmetry == Permutations(Ctx) \cup Permutations(Ids)
===============================================================================
