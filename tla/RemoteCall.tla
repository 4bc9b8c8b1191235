----------------------------- MODULE RemoteCall -----------------------------
(***************************************************************************)
(* What one API call promises its caller, seen from outside the client: the *)
(* appliance may run the operation any number of times up to the call's    *)
(* budget, before or after the call has ended, and the call returns a body  *)
(* only once the operation has run.  A call that raises promises nothing.  *)
(* HttpRequest implements this; Ensure relies on exactly this much.        *)
(***************************************************************************)
EXTENDS Naturals

VARIABLES budget,    \* the most often the appliance can run the operation
          outcome,   \* "open", "returned" or "raised"
          executed   \* how often it has run it

callVars == <<budget, outcome, executed>>

CallInit ==
    /\ budget \in Nat \ {0}
    /\ outcome = "open"
    /\ executed = 0

Execute ==
    /\ executed < budget
    /\ executed' = executed + 1
    /\ UNCHANGED <<budget, outcome>>

Return ==
    /\ outcome = "open"
    /\ executed > 0
    /\ outcome' = "returned"
    /\ UNCHANGED <<budget, executed>>

Raise ==
    /\ outcome = "open"
    /\ outcome' = "raised"
    /\ UNCHANGED <<budget, executed>>

CallNext == Execute \/ Return \/ Raise

CallSpec == CallInit /\ [][CallNext]_callVars
=============================================================================
