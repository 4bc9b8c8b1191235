------------------------------ MODULE PluginMC ------------------------------
EXTENDS Plugin, TLC

\* One pending point update, never applied by these callers.
MCOffer == "v1" :> "update" @@ "v2" :> "none"
MCNext == "v1" :> "v2" @@ "v2" :> "v2"

Call(state, pkg) == [state |-> state, pkg |-> pkg, wait |-> TRUE, check |-> FALSE]

\* Two packages, one wanted and one not, and every option of the call.
MCCalls ==
    {Call("present", "p"), Call("absent", "q"), Call("other", "p"),
     [Call("present", "p") EXCEPT !.wait = FALSE],
     [Call("absent", "q") EXCEPT !.check = TRUE]}

\* Calls of one caller that may fire.
FiringCalls == {Call("present", "p"), Call("absent", "q")}
=============================================================================
