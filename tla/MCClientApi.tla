------------------------------ MODULE MCClientApi -------------------------------
(* The methods of the README's client for model checking ClientApi. *)
EXTENDS ClientApi, TLC

\* One method waits for its outcome, one does not, and recv waits for a message
\* that the server sends when it likes.
MCMethods == {"subscribe", "publish", "destructor"}
MCAccepts == "subscribe" :> {"SUCCESS", "FAILURE"} @@ "publish" :> {}
             @@ "destructor" :> {"SUCCESS"} @@ "recv" :> {"MESSAGE"}
===============================================================================
