-------------------------- MODULE HttpRequestProofs --------------------------
(***************************************************************************)
(* The safety properties of HttpRequest for every retry argument and every *)
(* set of HTTP statuses.                                                   *)
(***************************************************************************)
EXTENDS HttpRequest, TLAPS

\* The clamp makes every budget a positive number, whatever the caller passes.
LEMMA EffectivePositive ==
    ASSUME NEW arg \in RetryArgs
    PROVE  Effective(arg) \in Nat \ {0}
BY RetryAssumption DEF Effective, Max1

\* _raise_for_status knows no exception outside the list.
LEMMA StatusMapTyped ==
    ASSUME NEW code \in Codes
    PROVE  StatusMap(code) \in Exceptions
BY DEF StatusMap, Exceptions, Refusals

\* No exception is mistaken for the absence of one.
LEMMA NoneIsNoException == "none" \notin Exceptions
BY DEF Exceptions, Refusals

\* Which attempts are where, for every place of the coroutine.
AttemptPhase ==
    /\ work = "none" <=> pc # "await"
    /\ work = "executed" => executed > 0
    /\ raised = "none" <=> pc # "raised"
    /\ pc = "backoff" => attempt < effective_retries

\* The inductive invariant behind the bound on executions.
IInv == TypeOK /\ AttemptPhase /\ ExecutionsBounded

\* TypeOK for every instance: in particular the loop variable never leaves
\* 1..effective_retries and the budget is never below 1.
THEOREM InvariantHolds == Spec => []IInv
<1> USE DEF TypeOK, AttemptPhase, ExecutionsBounded, Pending, IInv
<1>1. Init => IInv
  BY EffectivePositive DEF Init
<1>2. IInv /\ [Next]_vars => IInv'
  <2> SUFFICES ASSUME IInv, [Next]_vars
               PROVE  IInv'
    OBVIOUS
  <2> USE DEF callState
  <2>1. CASE Send
    BY <2>1 DEF Send
  <2>2. ASSUME NEW code \in Codes, RefusedWithStatus(code)
        PROVE  IInv'
    BY <2>2, StatusMapTyped, NoneIsNoException
       DEF RefusedWithStatus, Answered, RaiseWith
  <2>3. ASSUME NEW code \in Codes, ServerError(code)
        PROVE  IInv'
    BY <2>3, StatusMapTyped, NoneIsNoException
       DEF ServerError, Answered, Abandon, RetryOr, RaiseWith
  <2>4. ASSUME NEW code \in Codes, ReturnsBody(code)
        PROVE  IInv'
    BY <2>4 DEF ReturnsBody, HasBody, Answered
  <2>5. ASSUME NEW code \in Codes, ResultFailed(code)
        PROVE  IInv'
    BY <2>5 DEF ResultFailed, HasBody, Answered, RaiseWith, Exceptions, Refusals
  <2>6. ASSUME NEW code \in Codes, NotJson(code)
        PROVE  IInv'
    BY <2>6 DEF NotJson, HasBody, Answered, RaiseWith, Exceptions, Refusals
  <2>7. CASE TimesOut
    BY <2>7 DEF TimesOut, NoAnswer, Abandon, RetryOr, RaiseWith, Exceptions, Refusals
  <2>8. CASE TransportFails
    BY <2>8 DEF TransportFails, NoAnswer, Abandon, RetryOr, RaiseWith, Exceptions, Refusals
  <2>9. CASE BackoffOver
    BY <2>9 DEF BackoffOver
  <2>10. CASE ApplianceExecutes
    BY <2>10 DEF ApplianceExecutes
  <2>11. CASE LateExecutes
    BY <2>11 DEF LateExecutes
  <2>12. CASE UNCHANGED vars
    BY <2>12 DEF vars
  <2> QED
    BY <2>1, <2>2, <2>3, <2>4, <2>5, <2>6, <2>7, <2>8, <2>9, <2>10, <2>11,
       <2>12 DEF Next, Client
<1>3. QED
  BY <1>1, <1>2, PTL DEF Spec

\* At most one execution per attempt made, for every budget: the bound a
\* caller of a non-idempotent POST has to live with.
THEOREM ExecutionsBoundedHolds == Spec => []ExecutionsBounded
BY InvariantHolds, PTL DEF IInv

\* The types of the variables, on their own.
THEOREM TypeCorrect == Spec => []TypeOK
BY InvariantHolds, PTL DEF IInv

\* What the two properties of the exceptions need beside IInv.
ExceptionInv == FirstRefusalIsFinal /\ RaisedAfterLastAttempt

\* A refusal is one of the four typed errors, a 5xx is none of them.
LEMMA StatusMapClasses ==
    /\ \A code \in NonRetryable : StatusMap(code) \in Refusals
    /\ \A code \in Int : code >= 500 => StatusMap(code) \notin Refusals
BY DEF StatusMap, NonRetryable, Refusals

\* A first refusal means nothing ran; a retryable error means every attempt
\* was spent.  Both for every budget and every set of statuses.
THEOREM ExceptionsTruthful == Spec => []ExceptionInv
<1> USE DEF ExceptionInv, FirstRefusalIsFinal, RaisedAfterLastAttempt
<1>1. Init => ExceptionInv
  BY DEF Init, Refusals
<1>2. IInv /\ ExceptionInv /\ [Next]_vars => ExceptionInv'
  <2> SUFFICES ASSUME IInv, ExceptionInv, [Next]_vars
               PROVE  ExceptionInv'
    OBVIOUS
  <2> USE DEF callState, IInv, TypeOK, AttemptPhase, ExecutionsBounded, Pending
  <2>1. CASE Send
    BY <2>1 DEF Send, Refusals
  <2>2. ASSUME NEW code \in Codes, RefusedWithStatus(code)
        PROVE  ExceptionInv'
    BY <2>2, StatusMapClasses DEF RefusedWithStatus, Answered, RaiseWith, Refusals
  <2>3. ASSUME NEW code \in Codes, ServerError(code)
        PROVE  ExceptionInv'
    <3>1. code \in Int
      BY CodeAssumption
    <3>2. StatusMap(code) \notin Refusals
      BY <2>3, <3>1, StatusMapClasses DEF ServerError
    <3>3. CASE attempt < effective_retries
      BY <2>3, <3>3, NoneIsNoException
         DEF ServerError, Answered, Abandon, RetryOr, Exceptions
    <3>4. CASE ~(attempt < effective_retries)
      <4>1. attempt = effective_retries
        BY <3>4
      <4> QED
        BY <2>3, <3>2, <3>4, <4>1
           DEF ServerError, Answered, Abandon, RetryOr, RaiseWith
    <3> QED
      BY <3>3, <3>4
  <2>4. ASSUME NEW code \in Codes, ReturnsBody(code)
        PROVE  ExceptionInv'
    BY <2>4 DEF ReturnsBody, HasBody, Answered, Refusals
  <2>5. ASSUME NEW code \in Codes, ResultFailed(code)
        PROVE  ExceptionInv'
    BY <2>5 DEF ResultFailed, HasBody, Answered, RaiseWith
  <2>6. ASSUME NEW code \in Codes, NotJson(code)
        PROVE  ExceptionInv'
    BY <2>6 DEF NotJson, HasBody, Answered, RaiseWith, Refusals
  <2>7. CASE TimesOut
    BY <2>7 DEF TimesOut, NoAnswer, Abandon, RetryOr, RaiseWith, Refusals
  <2>8. CASE TransportFails
    BY <2>8 DEF TransportFails, NoAnswer, Abandon, RetryOr, RaiseWith, Refusals
  <2>9. CASE BackoffOver
    BY <2>9, NoneIsNoException DEF BackoffOver, Exceptions
  <2>10. CASE ApplianceExecutes
    BY <2>10, NoneIsNoException DEF ApplianceExecutes, Exceptions
  <2>11. CASE LateExecutes
    BY <2>11 DEF LateExecutes
  <2>12. CASE UNCHANGED vars
    BY <2>12 DEF vars
  <2> QED
    BY <2>1, <2>2, <2>3, <2>4, <2>5, <2>6, <2>7, <2>8, <2>9, <2>10, <2>11,
       <2>12 DEF Next, Client
<1>3. QED
  BY <1>1, <1>2, InvariantHolds, PTL DEF Spec

\* A refusal of the first attempt leaves nothing executed and nothing to execute.
THEOREM FirstRefusalHolds == Spec => []FirstRefusalIsFinal
BY ExceptionsTruthful, PTL DEF ExceptionInv

\* The appliance answers no 4xx beyond the four _request tests for.
ListedOnly == \A code \in Codes : code \in 400..499 => code \in NonRetryable

\* _request implements the abstract call, for every budget, when no 4xx outside
\* its list comes back (with one, a refusal is returned as a body).
THEOREM RequestImplementsCall ==
    ASSUME ListedOnly
    PROVE  Spec => ImplementsCall
<1> USE DEF Settled, IInv, TypeOK
<1>1. Init => Call!CallInit
  BY EffectivePositive DEF Init, Call!CallInit
<1>2. IInv /\ [Next]_vars => [Call!CallNext]_Call!callVars
  <2> SUFFICES ASSUME IInv, [Next]_vars
               PROVE  [Call!CallNext]_Call!callVars
    OBVIOUS
  <2> USE DEF callState, AttemptPhase, ExecutionsBounded, Pending, Call!callVars
  <2>1. CASE ApplianceExecutes \/ LateExecutes
    <3>1. Call!Execute
      BY <2>1 DEF ApplianceExecutes, LateExecutes, Call!Execute
    <3> QED
      BY <3>1 DEF Call!CallNext
  <2>2. ASSUME NEW code \in Codes, ReturnsBody(code)
        PROVE  Call!CallNext
    <3>1. code < 400
      BY <2>2, CodeAssumption, ListedOnly DEF ListedOnly, ReturnsBody, HasBody
    <3>2. Call!Return
      BY <2>2, <3>1 DEF ReturnsBody, HasBody, Answered, Call!Return
    <3> QED
      BY <3>2 DEF Call!CallNext
  <2>3. ASSUME NEW code \in Codes,
               RefusedWithStatus(code) \/ ResultFailed(code) \/ NotJson(code)
        PROVE  Call!CallNext
    <3>1. Call!Raise
      BY <2>3 DEF RefusedWithStatus, ResultFailed, NotJson, HasBody, Answered,
         RaiseWith, Call!Raise
    <3> QED
      BY <3>1 DEF Call!CallNext
  <2>4. ASSUME NEW code \in Codes, ServerError(code)
        PROVE  [Call!CallNext]_Call!callVars
    BY <2>4 DEF ServerError, Answered, RetryOr, RaiseWith, Call!CallNext, Call!Raise
  <2>5. CASE TimesOut \/ TransportFails
    BY <2>5 DEF TimesOut, TransportFails, NoAnswer, RetryOr, RaiseWith,
       Call!CallNext, Call!Raise
  <2>6. CASE Send \/ BackoffOver
    BY <2>6 DEF Send, BackoffOver
  <2>7. CASE UNCHANGED vars
    BY <2>7 DEF vars
  <2> QED
    BY <2>1, <2>2, <2>3, <2>4, <2>5, <2>6, <2>7 DEF Next, Client
<1>3. QED
  BY <1>1, <1>2, InvariantHolds, PTL DEF Spec, ImplementsCall, Call!CallSpec
=============================================================================
