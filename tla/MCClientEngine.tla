----------------------------- MODULE MCClientEngine -----------------------------
(* A small dialog for model checking ClientEngine. *)
EXTENDS ClientEngine, TLC

Act(op) == [op |-> op, to |-> NoState]
App == <<Act("app")>>
Send == <<Act("send")>>
Quit == <<Act("terminate")>>
On(acts, s) == [acts |-> acts, next |-> s]

\* A client that connects on request, is told that it is, pings the server with
\* the heartbeat, gives up when the server is silent, and stops when asked to.
MCStates == {"start", "expecting", "connected"}
MCEvents == {"connect", "ok", "retry", "disconnect", "expired", "heartbeat"}
Common == ("expired" :> On(App, NoState)) @@ (Star :> On(<<>>, NoState))
MCDialog == "start" :> (("connect" :> On(App \o Send, "expecting")) @@ Common)
         @@ "expecting" :> (("ok" :> On(App, "connected"))
                            @@ ("retry" :> On(Send, NoState)) @@ Common)
         @@ "connected" :> (("heartbeat" :> On(App \o Send, NoState))
                            @@ ("disconnect" :> On(App \o Quit, NoState))
                            @@ ("expired" :> On(App \o Send, "expecting"))
                            @@ ("retry" :> On(App, "start")))
MCBefore == [s \in MCStates |-> IF s = "connected" THEN App ELSE <<>>]
MCAfter == [s \in MCStates |-> IF s = "expecting" THEN App ELSE <<>>]
===============================================================================
