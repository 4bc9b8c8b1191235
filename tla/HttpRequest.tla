----------------------------- MODULE HttpRequest -----------------------------
(***************************************************************************)
(* OpnsenseClient._request: one call of the REST client, its attempts, and *)
(* the appliance at the other end of the wire.                             *)
(*                                                                         *)
(* An attempt that the client gives up on (timeout, transport error, 5xx)  *)
(* may already have been executed, may never be, or may be executed later: *)
(* the client sends the same POST again in every case.                     *)
(***************************************************************************)
EXTENDS Integers

CONSTANTS RetryArgs,       \* the values callers pass as max_retries
          DefaultRetries,  \* the client's own max_retries
          NotGiven,        \* max_retries=None
          Codes            \* the HTTP statuses the appliance answers with

ASSUME RetryAssumption ==
    /\ RetryArgs \subseteq Int \cup {NotGiven}
    /\ DefaultRetries \in Int
    /\ NotGiven \notin Int

ASSUME CodeAssumption == Codes \subseteq 100..599

VARIABLES effective_retries,  \* attempts this call may make
          pc,                 \* where the coroutine is
          attempt,            \* the loop variable
          work,               \* the current attempt at the appliance
          late,               \* abandoned attempts the appliance still holds
          executed,           \* how often the appliance ran the operation
          status_code,        \* the local the error log reports (0 is None)
          raised              \* the exception that left _request

vars == <<effective_retries, pc, attempt, work, late, executed, status_code,
          raised>>
callState == <<effective_retries, attempt, status_code>>

Max1(n) == IF n < 1 THEN 1 ELSE n

\* Mutant of Effective: a per-call 0 is taken as it is.
EffectiveUnclamped(arg) == IF arg = NotGiven THEN DefaultRetries ELSE arg

Effective(arg) == Max1(IF arg = NotGiven THEN DefaultRetries ELSE arg)

NonRetryable == {400, 401, 403, 404}

\* Mutant of StatusMap: the entries of 400 and 500 are swapped.
StatusMapSwapped(code) ==
    CASE code = 500 -> "OpnsenseValidationError"
      [] code = 401 -> "OpnsenseAuthError"
      [] code = 403 -> "OpnsensePermissionError"
      [] code = 404 -> "OpnsenseEndpointMissingError"
      [] code = 400 -> "OpnsenseServerError"
      [] OTHER      -> "OpnsenseError"

StatusMap(code) ==
    CASE code = 400 -> "OpnsenseValidationError"
      [] code = 401 -> "OpnsenseAuthError"
      [] code = 403 -> "OpnsensePermissionError"
      [] code = 404 -> "OpnsenseEndpointMissingError"
      [] code = 500 -> "OpnsenseServerError"
      [] OTHER      -> "OpnsenseError"

Refusals == {"OpnsenseValidationError", "OpnsenseAuthError",
             "OpnsensePermissionError", "OpnsenseEndpointMissingError"}

Exceptions == Refusals \cup
    {"OpnsenseServerError", "OpnsenseTimeoutError", "OpnsenseConnectionError",
     "OpnsenseError", "ValueError"}

-----------------------------------------------------------------------------
Init ==
    /\ \E arg \in RetryArgs : effective_retries = Effective(arg)
    /\ pc = "send"
    /\ attempt = 1
    /\ work = "none"
    /\ late = 0
    /\ executed = 0
    /\ status_code = 0
    /\ raised = "none"

Send ==
    /\ pc = "send"
    /\ pc' = "await"
    /\ work' = "queued"
    /\ UNCHANGED <<callState, late, executed, raised>>

\* The appliance runs the attempt the client is waiting for.
ApplianceExecutes ==
    /\ work = "queued"
    /\ work' = "executed"
    /\ executed' = executed + 1
    /\ UNCHANGED <<callState, pc, late, raised>>

\* The appliance runs an attempt the client no longer waits for.
LateExecutes ==
    /\ late > 0
    /\ late' = late - 1
    /\ executed' = executed + 1
    /\ UNCHANGED <<callState, pc, work, raised>>

RaiseWith(exc) ==
    /\ pc' = "raised"
    /\ raised' = exc

\* Mutant of RetryOr: one retry too many.
RetryOnceMore(exc) ==
    IF attempt <= effective_retries
    THEN pc' = "backoff" /\ UNCHANGED raised
    ELSE RaiseWith(exc)

RetryOr(exc) ==
    IF attempt < effective_retries
    THEN pc' = "backoff" /\ UNCHANGED raised
    ELSE RaiseWith(exc)

\* The client stops waiting; a queued attempt is lost or stays with the appliance.
Abandon ==
    /\ work' = "none"
    /\ \/ late' = late
       \/ work = "queued" /\ late' = late + 1

\* An answer arrives and its status is recorded.
Answered(code) ==
    /\ pc = "await"
    /\ code \in Codes
    /\ status_code' = code
    /\ UNCHANGED <<effective_retries, attempt, executed>>

\* 400, 401, 403, 404: the appliance refused without running anything.
RefusedWithStatus(code) ==
    /\ code \in NonRetryable
    /\ Answered(code)
    /\ work = "queued" /\ work' = "none"
    /\ RaiseWith(StatusMap(code))
    /\ UNCHANGED late

ServerError(code) ==
    /\ code >= 500
    /\ Answered(code)
    /\ Abandon
    /\ RetryOr(StatusMap(code))

\* Any other status falls through to response.json().
HasBody(code) ==
    /\ code \notin NonRetryable /\ code < 500
    /\ Answered(code)
    /\ work' = "none"
    /\ UNCHANGED late

\* The controller ran before it answered below 400, and not before a 4xx.
ReturnsBody(code) ==
    /\ HasBody(code)
    /\ work = IF code < 400 THEN "executed" ELSE "queued"
    /\ pc' = "returned"
    /\ UNCHANGED raised

\* {"result": "failed"}: the validation of the model refused the write.
ResultFailed(code) ==
    /\ HasBody(code)
    /\ work = "queued"
    /\ RaiseWith("OpnsenseValidationError")

\* The body is not JSON: the decoder's ValueError passes every handler.
NotJson(code) ==
    /\ HasBody(code)
    /\ RaiseWith("ValueError")

NoAnswer(exc) ==
    /\ pc = "await"
    /\ Abandon
    /\ RetryOr(exc)
    /\ UNCHANGED <<callState, executed>>

TimesOut == NoAnswer("OpnsenseTimeoutError")
TransportFails == NoAnswer("OpnsenseConnectionError")

\* Mutant of BackoffOver: the loop variable does not advance.
BackoffOverSameAttempt ==
    /\ pc = "backoff"
    /\ pc' = "send"
    /\ UNCHANGED <<callState, work, late, executed, raised>>

BackoffOver ==
    /\ pc = "backoff"
    /\ pc' = "send"
    /\ attempt' = attempt + 1
    /\ UNCHANGED <<effective_retries, status_code, work, late, executed, raised>>

Client ==
    \/ Send
    \/ \E code \in Codes :
          \/ RefusedWithStatus(code)
          \/ ServerError(code)
          \/ ReturnsBody(code)
          \/ ResultFailed(code)
          \/ NotJson(code)
    \/ TimesOut
    \/ TransportFails
    \/ BackoffOver

Next == Client \/ ApplianceExecutes \/ LateExecutes

Settled == pc \in {"returned", "raised"}

\* httpx.Timeout bounds every await and asyncio.sleep ends: the client moves on.
Fairness == WF_vars(Client)

Spec == Init /\ [][Next]_vars
FairSpec == Spec /\ Fairness

-----------------------------------------------------------------------------
\* The variables hold what _request keeps in its locals; "a per-call 0 must
\* still send the request once", so the budget of attempts is never below 1.
TypeOK ==
    /\ effective_retries \in Nat \ {0}
    /\ pc \in {"send", "await", "backoff", "returned", "raised"}
    /\ attempt \in 1..effective_retries
    /\ work \in {"none", "queued", "executed"}
    /\ late \in Nat
    /\ executed \in Nat
    /\ status_code \in Codes \cup {0}
    /\ raised \in Exceptions \cup {"none"}

\* Attempts that can still reach the operation, the unsent current one included.
Pending == IF pc = "send" \/ work = "queued" THEN 1 ELSE 0

\* However the answers are lost, the operation runs at most once per attempt
\* made: runs, abandoned attempts and the current one never exceed the loop
\* variable of _request.
ExecutionsBounded == executed + late + Pending <= attempt

\* A refusal of the very first attempt (400, 401, 403, 404 or result=failed)
\* is definitive: nothing ran and nothing can run later.  After a retry the
\* same exception no longer means that.
FirstRefusalIsFinal ==
    raised \in Refusals /\ attempt = 1 => executed = 0 /\ late = 0

\* Timeouts, transport errors and server errors reach the caller only after
\* every attempt was spent ("On HTTP 500 (after retries exhausted)").
RaisedAfterLastAttempt ==
    raised \in {"OpnsenseTimeoutError", "OpnsenseConnectionError",
                "OpnsenseServerError", "OpnsenseError"}
        => attempt = effective_retries

\* Every call ends, whatever the appliance does.
Settles == <>Settled

Call == INSTANCE RemoteCall WITH
            budget <- effective_retries,
            outcome <- IF Settled THEN pc ELSE "open"

\* _request implements the abstract call.
ImplementsCall == Call!CallSpec
=============================================================================
