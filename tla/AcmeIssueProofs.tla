--------------------------- MODULE AcmeIssueProofs ---------------------------
(***************************************************************************)
(* For any number of callers, of issuances they did not start, of retries  *)
(* and of polls: the types of AcmeIssue, and that a report of an issuance  *)
(* rests on one that ended after the certificate was read (OutcomeIsFresh).*)
(***************************************************************************)
EXTENDS AcmeIssue, TLAPS

\* Where a call stands, and what it has in flight there.
Place(c) ==
    /\ at[c] \in {"read", "settle"} => object[c] # "unissued"
    /\ at[c] \notin {"sign", "register"} => wire[c] = "none"
    /\ wire[c] # "none" => attempt[c] \in 1..MaxAttempts
    /\ at[c] \notin Settled => outcome[c] = "pending"

TypeInv == TypeOK /\ \A c \in Callers : Place(c)

\* What the certificate shows to a call that decided to sign: nothing new, or how
\* an issuance ended that its decision could not see.
Watched(c) ==
    at[c] \in {"sign", "wait"} =>
        /\ seen[c] <= stamp
        /\ seen[c] = stamp => (object[c] = "unissued" => ~Issued)
        /\ seen[c] # stamp /\ status \in {"ok", "failed"} => status \in endings[c]

FreshInv == (\A c \in Callers : Watched(c)) /\ OutcomeIsFresh

-----------------------------------------------------------------------------
(* Types *)

Outcomes == {"pending", "noop", "changed", "would", "issued", "renewed", "registered",
             "failed", "unfinished", "refused", "unavailable"}

\* The part of TypeOK that moving on disturbs.
MovesOK ==
    /\ at \in [Callers -> Places]
    /\ polls \in [Callers -> 0..MaxPolls]
    /\ wire \in [Callers -> {"none", "sent", "ok", "refused"}]
    /\ attempt \in [Callers -> 0..MaxAttempts]
    /\ outcome \in [Callers -> Outcomes]
    /\ expired \in [Callers -> BOOLEAN]

LEMMA MoveToTyped ==
    ASSUME MovesOK, NEW c \in Callers, NEW place \in Places,
           NEW state \in {"none", "sent", "ok", "refused"}, NEW nr \in 0..MaxAttempts,
           MoveTo(c, place, state, nr)
    PROVE  /\ at' \in [Callers -> Places]
           /\ wire' \in [Callers -> {"none", "sent", "ok", "refused"}]
           /\ attempt' \in [Callers -> 0..MaxAttempts]
  BY DEF MovesOK, MoveTo

LEMMA MovesTyped ==
    ASSUME TypeOK, NEW c \in Callers
    PROVE  /\ MovesOK
           /\ \A place \in Places : Goto(c, place) \/ SendTo(c, place) => MovesOK'
           /\ \A place \in Places, what \in Outcomes, deadline \in BOOLEAN :
                 End(c, place, what, deadline) => MovesOK'
           /\ Poll(c) => MovesOK'
           /\ \A deadline \in BOOLEAN : Conclude(c, deadline) => MovesOK'
<1>1. MovesOK
  BY DEF TypeOK, MovesOK, Outcomes
<1>2. 0 \in 0..MaxAttempts /\ 1 \in 0..MaxAttempts /\ 0 \in 0..MaxPolls
  BY BoundAssumption
<1>3. ASSUME NEW place \in Places, Goto(c, place) PROVE MovesOK'
  <2>1. MoveTo(c, place, "none", 0) /\ polls' = [polls EXCEPT ![c] = 0]
        /\ UNCHANGED <<outcome, expired>>
    BY <1>3 DEF Goto
  <2> QED
    BY <1>1, <1>2, <2>1, MoveToTyped DEF MovesOK
<1>4. ASSUME NEW place \in Places, SendTo(c, place) PROVE MovesOK'
  BY <1>1, <1>2, <1>4, MoveToTyped DEF SendTo, MovesOK
<1>5. ASSUME NEW place \in Places, NEW what \in Outcomes, NEW deadline \in BOOLEAN,
             End(c, place, what, deadline)
      PROVE  MovesOK'
  <2>1. MoveTo(c, place, "none", 0) /\ UNCHANGED polls
    BY <1>5 DEF End
  <2>2. outcome' = [outcome EXCEPT ![c] = what] /\ expired' = [expired EXCEPT ![c] = deadline]
    BY <1>5 DEF End
  <2> QED
    BY <1>1, <1>2, <2>1, <2>2, MoveToTyped DEF MovesOK
<1>6. ASSUME Poll(c) PROVE MovesOK'
  BY <1>1, <1>6, BoundAssumption DEF Poll, MovesOK, request
<1>7. ASSUME NEW deadline \in BOOLEAN, Conclude(c, deadline) PROVE MovesOK'
  <2>1. PICK place \in Places, what \in Outcomes : End(c, place, what, deadline)
    BY <1>7 DEF Conclude, Places, Settled, Outcomes
  <2> QED
    BY <1>5, <2>1
<1> QED
  BY <1>1, <1>3, <1>4, <1>5, <1>6, <1>7

LEMMA RestTyped ==
    ASSUME TypeOK, MovesOK', UNCHANGED appliance, args' \in [Callers -> Calls],
           object' \in [Callers -> {"noop", "changed", "unissued"}],
           seen' \in [Callers -> Nat], endings' \in [Callers -> SUBSET {"ok", "failed"}]
    PROVE  TypeOK'
  BY DEF TypeOK, MovesOK, Outcomes, appliance, issuances, certificate

LEMMA StartTyped ==
    ASSUME TypeInv, NEW c \in Callers, Start(c) PROVE TypeInv'
<1>1. PICK call \in Calls : args' = [args EXCEPT ![c] = call]
  BY DEF Start
<1>2. TypeOK'
  <2>1. Goto(c, "object") /\ "object" \in Places
    BY DEF Start, Places, Reading
  <2>2. MovesOK'
    BY <2>1, MovesTyped DEF TypeInv
  <2> QED
    BY <1>1, <2>2, RestTyped DEF Start, TypeInv, TypeOK
<1>3. \A d \in Callers : Place(d)'
  BY DEF Start, Goto, MoveTo, TypeInv, TypeOK, Place, Settled
<1> QED
  BY <1>2, <1>3 DEF TypeInv

LEMMA ObjectTyped ==
    ASSUME TypeInv, NEW c \in Callers, EnsureObject(c) PROVE TypeInv'
<1>1. PICK result \in {"noop", "changed"} : object' = [object EXCEPT ![c] = result]
  BY DEF EnsureObject
<1>2. TypeOK'
  <2>1. /\ Goto(c, "read") \/ End(c, "returned", "would", FALSE)
        /\ {"read", "returned"} \subseteq Places /\ "would" \in Outcomes
    BY DEF EnsureObject, Places, Reading, Settled, Outcomes
  <2>2. MovesOK'
    BY <2>1, MovesTyped DEF TypeInv
  <2> QED
    BY <1>1, <2>2, RestTyped DEF EnsureObject, TypeInv, TypeOK
<1>3. \A d \in Callers : Place(d)'
  BY <1>1 DEF EnsureObject, Goto, End, MoveTo, TypeInv, TypeOK, Place, Settled
<1> QED
  BY <1>2, <1>3 DEF TypeInv

\* The decision keeps the types wherever it is taken.
LEMMA DecideTyped ==
    ASSUME TypeInv, NEW c \in Callers, at[c] \in {"read", "settle"}, Decide(c),
           UNCHANGED <<appliance, args>>
    PROVE  TypeInv'
<1>1. TypeOK'
  <2>1. object[c] \in {"noop", "changed"}
    BY DEF TypeInv, TypeOK, Place
  <2>2. /\ \/ End(c, "returned", object[c], FALSE) \/ End(c, "returned", "would", FALSE)
           \/ SendTo(c, "sign")
        /\ {"sign", "returned"} \subseteq Places /\ {"would", object[c]} \subseteq Outcomes
    BY <2>1 DEF Decide, Places, Settled, Outcomes
  <2>3. MovesOK'
    BY <2>2, MovesTyped DEF TypeInv
  <2>4. /\ seen' = [seen EXCEPT ![c] = stamp]
        /\ endings' = [endings EXCEPT ![c] = {}]
        /\ object' = [object EXCEPT ![c] = IF Issued THEN @ ELSE "unissued"]
    BY DEF Decide
  <2> QED
    BY <2>3, <2>4, RestTyped DEF TypeInv, TypeOK
<1>2. \A d \in Callers : Place(d)'
  BY BoundAssumption DEF Decide, SendTo, End, MoveTo, TypeInv, TypeOK, Place, Settled
<1> QED
  BY <1>1, <1>2 DEF TypeInv

LEMMA ReadTyped ==
    ASSUME TypeInv, NEW c \in Callers, ReadCertificate(c) \/ Settle(c) PROVE TypeInv'
<1>1. CASE Decide(c)
  BY <1>1, DecideTyped DEF ReadCertificate, Settle
<1>2. CASE /\ at[c] \in {"read", "settle"}
           /\ Goto(c, "settle") \/ (at[c] = "settle" /\ Poll(c))
           /\ UNCHANGED <<appliance, args, object, seen, endings>>
  <2>1. TypeOK'
    <3>1. MovesOK'
      BY <1>2, MovesTyped DEF TypeInv, Places, Reading
    <3> QED
      BY <1>2, <3>1, RestTyped DEF TypeInv, TypeOK
  <2>2. \A d \in Callers : Place(d)'
    BY <1>2 DEF Goto, Poll, MoveTo, TypeInv, TypeOK, Place, request, Settled
  <2> QED
    BY <2>1, <2>2 DEF TypeInv
<1> QED
  BY <1>1, <1>2 DEF ReadCertificate, Settle

LEMMA WaitTyped ==
    ASSUME TypeInv, NEW c \in Callers, SignDone(c) \/ WaitForIssue(c) PROVE TypeInv'
<1>1. TypeOK'
  <2>1. /\ Goto(c, "wait") \/ Poll(c) \/ Conclude(c, TRUE) \/ Conclude(c, FALSE)
        /\ "wait" \in Places /\ UNCHANGED <<appliance, args, object, seen, endings>>
    BY DEF SignDone, WaitForIssue, Places, Reading
  <2>2. MovesOK'
    BY <2>1, MovesTyped DEF TypeInv
  <2> QED
    BY <2>1, <2>2, RestTyped DEF TypeInv, TypeOK
<1>2. \A d \in Callers : Place(d)'
  BY DEF SignDone, WaitForIssue, Conclude, Goto, Poll, End, MoveTo, TypeInv, TypeOK, Place,
     request, Settled
<1> QED
  BY <1>1, <1>2 DEF TypeInv

LEMMA AccountTyped ==
    ASSUME TypeInv, NEW c \in Callers,
           ReadAccount(c) \/ RegisterDone(c) \/ ReadFails(c) \/ Refused(c)
    PROVE  TypeInv'
<1>1. TypeOK'
  <2>1. ReadAccount(c) => object[c] \in {"noop", "changed"}
    BY DEF ReadAccount, TypeInv, TypeOK, Place
  <2>2. PICK how \in Settled, what \in Outcomes :
           SendTo(c, "register") \/ End(c, how, what, FALSE)
    BY <2>1 DEF ReadAccount, RegisterDone, ReadFails, Refused, Settled, Outcomes
  <2>3. MovesOK'
    BY <2>2, MovesTyped DEF TypeInv, Places
  <2>4. UNCHANGED <<appliance, args, object, seen, endings>>
    BY DEF ReadAccount, RegisterDone, ReadFails, Refused
  <2> QED
    BY <2>3, <2>4, RestTyped DEF TypeInv, TypeOK
<1>2. \A d \in Callers : Place(d)'
  BY BoundAssumption DEF ReadAccount, RegisterDone, ReadFails, Refused, SendTo, End, MoveTo,
     TypeInv, TypeOK, Place, Settled
<1> QED
  BY <1>1, <1>2 DEF TypeInv

LEMMA LostTyped ==
    ASSUME TypeInv, NEW c \in Callers, LoseAnswer(c) PROVE TypeInv'
<1>1. at[c] \in {"sign", "register"} /\ attempt[c] \in 1..MaxAttempts
  BY DEF LoseAnswer, TypeInv, Place
<1>2. late' \subseteq LateRequests
  BY <1>1 DEF LoseAnswer, LateRequests, TypeInv, TypeOK
<1>3. TypeOK'
  <2>1. MovesOK'
    <3>1. CASE End(c, "raised", "unavailable", FALSE)
      BY <3>1, MovesTyped DEF TypeInv, Places, Settled, Outcomes
    <3>2. CASE /\ attempt[c] < MaxAttempts /\ MoveTo(c, at[c], "sent", attempt[c] + 1)
               /\ UNCHANGED <<outcome, expired, polls>>
      <4>1. MovesOK /\ at[c] \in Places /\ attempt[c] + 1 \in 0..MaxAttempts
        BY <1>1, <3>2, MovesTyped, BoundAssumption DEF TypeInv, Places
      <4> QED
        BY <3>2, <4>1, MoveToTyped DEF MovesOK
    <3> QED
      BY <3>1, <3>2 DEF LoseAnswer
  <2> QED
    BY <1>2, <2>1 DEF LoseAnswer, TypeInv, TypeOK, MovesOK, Outcomes, issuances, certificate
<1>4. \A d \in Callers : Place(d)'
  BY <1>1, BoundAssumption DEF LoseAnswer, End, MoveTo, TypeInv, TypeOK, Place, Settled
<1> QED
  BY <1>3, <1>4 DEF TypeInv

LEMMA ApplianceTyped ==
    ASSUME TypeInv, (\E c \in Callers : Execute(c) \/ Refuse(c)) \/ LateExecute \/ Issuance
    PROVE  TypeInv'
<1>1. ASSUME NEW c \in Callers, Execute(c) \/ Refuse(c) PROVE TypeInv'
  <2>1. TypeOK'
    BY <1>1 DEF Execute, Refuse, Perform, TypeInv, TypeOK, issuances, certificate
  <2>2. \A d \in Callers : Place(d)'
    BY <1>1 DEF Execute, Refuse, TypeInv, TypeOK, Place
  <2> QED
    BY <2>1, <2>2 DEF TypeInv
<1>2. CASE LateExecute
  BY <1>2 DEF LateExecute, Perform, TypeInv, TypeOK, Place, issuances, certificate, request
<1>3. CASE Issuance
  <2>1. TypeOK'
    BY <1>3, BoundAssumption DEF Issuance, BackgroundStart, Begin, Finish, Vanish, TypeInv, TypeOK,
       certificate, idleCallers, request, Statuses
  <2>2. \A d \in Callers : Place(d)'
    BY <1>3 DEF Issuance, BackgroundStart, Begin, Finish, Vanish, TypeInv, Place,
       idleCallers, request
  <2> QED
    BY <2>1, <2>2 DEF TypeInv
<1> QED
  BY <1>1, <1>2, <1>3

LEMMA StepTyped == TypeInv /\ [Next]_vars => TypeInv'
<1> SUFFICES ASSUME TypeInv, [Next]_vars PROVE TypeInv'
  OBVIOUS
<1>1. CASE UNCHANGED vars
  BY <1>1 DEF vars, certificate, issuances, request, TypeInv, TypeOK, Place
<1> QED
  BY <1>1, StartTyped, ObjectTyped, ReadTyped, WaitTyped, AccountTyped, LostTyped,
     ApplianceTyped DEF Next, Step

LEMMA InitTyped == Init => TypeInv
<1> SUFFICES ASSUME Init PROVE TypeInv
  OBVIOUS
<1>1. (CHOOSE call \in Calls : TRUE) \in Calls
  BY CallAssumption
<1>2. /\ status \in Statuses /\ leaf \in BOOLEAN /\ stamp \in Nat
      /\ starting \in Nat /\ working \in Nat /\ background \in 0..MaxBackground
      /\ registered \in BOOLEAN /\ late \subseteq LateRequests
  BY BoundAssumption DEF Init, Statuses
<1>3. /\ MovesOK /\ args \in [Callers -> Calls]
      /\ object \in [Callers -> {"noop", "changed", "unissued"}]
      /\ seen \in [Callers -> Nat] /\ endings \in [Callers -> SUBSET {"ok", "failed"}]
  BY <1>1, BoundAssumption DEF Init, MovesOK, Places, Outcomes
<1>4. TypeOK
  BY <1>2, <1>3 DEF TypeOK, MovesOK, Outcomes
<1>5. \A c \in Callers : Place(c)
  BY DEF Init, Place, Settled
<1> QED
  BY <1>4, <1>5 DEF TypeInv

LEMMA TypeHolds == Spec => []TypeInv
  BY InitTyped, StepTyped, PTL DEF Spec

\* The calls, the issuances and the certificate keep their types; polls end at the
\* deadline, and no POST is sent more often than the client's retries allow.
THEOREM TypeCorrect == Spec => []TypeOK
<1>1. TypeInv => TypeOK
  BY DEF TypeInv
<1> QED
  BY <1>1, TypeHolds, PTL
-----------------------------------------------------------------------------
(* Freshness *)

LEMMA DecideFresh ==
    ASSUME TypeInv, FreshInv, NEW c \in Callers, at[c] \in {"read", "settle"}, Decide(c),
           UNCHANGED <<appliance, args>>
    PROVE  FreshInv'
<1>1. Watched(c)'
  BY DEF Decide, SendTo, End, MoveTo, Watched, Issued, TypeInv, TypeOK, Place, appliance,
     certificate, Settled
<1>2. \A d \in Callers \ {c} : Watched(d)'
  BY DEF Decide, SendTo, End, MoveTo, Watched, Issued, TypeInv, TypeOK, FreshInv, appliance,
     certificate
<1>3. OutcomeIsFresh'
  <2>1. outcome'[c] \in {"pending", "noop", "changed", "would"}
    BY DEF Decide, SendTo, End, TypeInv, TypeOK, Place, Settled
  <2>2. \A d \in Callers \ {c} : /\ outcome'[d] = outcome[d] /\ expired'[d] = expired[d]
                                 /\ endings'[d] = endings[d]
    BY DEF Decide, SendTo, End, TypeInv, TypeOK
  <2> QED
    BY <2>1, <2>2 DEF FreshInv, OutcomeIsFresh
<1> QED
  BY <1>1, <1>2, <1>3 DEF FreshInv

LEMMA ConcludeFresh ==
    ASSUME TypeInv, FreshInv, NEW c \in Callers, at[c] = "wait", NEW deadline \in BOOLEAN,
           Conclude(c, deadline), deadline \/ ~Pending(c),
           UNCHANGED <<appliance, args, object, seen, endings>>
    PROVE  FreshInv'
<1>1. /\ at'[c] \in Settled /\ expired'[c] = deadline
      /\ \A d \in Callers \ {c} : /\ at'[d] = at[d] /\ outcome'[d] = outcome[d]
                                  /\ expired'[d] = expired[d]
  BY DEF Conclude, End, MoveTo, TypeInv, TypeOK, Settled
<1>2. \A d \in Callers : Watched(d)'
  BY <1>1 DEF FreshInv, Watched, Issued, appliance, certificate, Settled
<1>3. OutcomeIsFresh'
  <2>1. /\ seen[c] <= stamp
        /\ seen[c] = stamp => (object[c] = "unissued" => ~Issued)
        /\ seen[c] # stamp /\ status \in {"ok", "failed"} => status \in endings[c]
    BY DEF FreshInv, Watched
  <2>2. outcome'[c] = "issued" => "ok" \in endings[c]
    BY <2>1 DEF Conclude, End, Issued, TypeInv, TypeOK
  <2>3. outcome'[c] \in {"renewed", "failed"} /\ ~expired'[c] =>
           IF outcome'[c] = "renewed" THEN "ok" \in endings[c] ELSE "failed" \in endings[c]
    BY <1>1, <2>1 DEF Conclude, End, Issued, Pending, TypeInv, TypeOK, Statuses
  <2> QED
    BY <1>1, <2>2, <2>3 DEF FreshInv, OutcomeIsFresh
<1> QED
  BY <1>2, <1>3 DEF FreshInv

\* A step that reports nothing about an issuance, reads nothing anew and leaves the
\* certificate alone.
LEMMA OtherwiseFresh ==
    ASSUME TypeInv, FreshInv, NEW c \in Callers, UNCHANGED <<certificate, seen, endings>>,
           \A d \in Callers \ {c} : /\ at'[d] = at[d] /\ outcome'[d] = outcome[d]
                                    /\ expired'[d] = expired[d] /\ object'[d] = object[d],
           at'[c] \in {"sign", "wait"} => at[c] \in {"sign", "wait"} /\ object'[c] = object[c],
           outcome'[c] \notin {"issued", "renewed", "failed"}
    PROVE  FreshInv'
<1>1. \A d \in Callers : Watched(d)'
  BY DEF FreshInv, Watched, Issued, certificate
<1>2. OutcomeIsFresh'
  BY DEF FreshInv, OutcomeIsFresh
<1> QED
  BY <1>1, <1>2 DEF FreshInv

LEMMA CallerFresh ==
    ASSUME TypeInv, FreshInv, NEW c \in Callers, Start(c) \/ Step(c) PROVE FreshInv'
<1>1. CASE Decide(c) /\ (ReadCertificate(c) \/ Settle(c))
  BY <1>1, DecideFresh DEF ReadCertificate, Settle
<1>2. CASE WaitForIssue(c) /\ ~Poll(c)
  BY <1>2, ConcludeFresh DEF WaitForIssue
<1>3. CASE \/ ~Decide(c) /\ (ReadCertificate(c) \/ Settle(c))
           \/ WaitForIssue(c) /\ Poll(c)
  <2>1. /\ UNCHANGED <<appliance, args, object, seen, endings>>
        /\ Goto(c, "settle") \/ Poll(c)
        /\ at[c] \in {"read", "settle", "wait"}
    BY <1>3 DEF ReadCertificate, Settle, WaitForIssue, Poll, Conclude, End, TypeInv, TypeOK
  <2>2. /\ outcome'[c] = outcome[c] /\ outcome[c] = "pending"
        /\ at'[c] \in {"sign", "wait"} => at[c] \in {"sign", "wait"}
        /\ \A d \in Callers \ {c} : /\ at'[d] = at[d] /\ outcome'[d] = outcome[d]
                                    /\ expired'[d] = expired[d]
    BY <2>1 DEF Goto, Poll, MoveTo, TypeInv, TypeOK, Place, Settled
  <2> QED
    BY <2>1, <2>2, OtherwiseFresh DEF appliance
<1>4. CASE \/ Start(c) \/ EnsureObject(c) \/ SignDone(c) \/ ReadAccount(c)
           \/ RegisterDone(c) \/ ReadFails(c) \/ Refused(c) \/ LoseAnswer(c)
  <2>1. UNCHANGED <<certificate, seen, endings>>
    BY <1>4 DEF Start, EnsureObject, SignDone, ReadAccount, RegisterDone, ReadFails, Refused,
       LoseAnswer, appliance
  <2>2. \A d \in Callers \ {c} : /\ at'[d] = at[d] /\ outcome'[d] = outcome[d]
                                 /\ expired'[d] = expired[d] /\ object'[d] = object[d]
    BY <1>4 DEF Start, EnsureObject, SignDone, ReadAccount, RegisterDone, ReadFails, Refused,
       LoseAnswer, Goto, SendTo, End, MoveTo, TypeInv, TypeOK
  <2>3. at'[c] \in {"sign", "wait"} => at[c] \in {"sign", "wait"} /\ object'[c] = object[c]
    BY <1>4 DEF Start, EnsureObject, SignDone, ReadAccount, RegisterDone, ReadFails, Refused,
       LoseAnswer, Goto, SendTo, End, MoveTo, TypeInv, TypeOK, Settled
  <2>4. outcome'[c] \notin {"issued", "renewed", "failed"}
    <3>1. at[c] \notin Settled
      BY <1>4 DEF Start, EnsureObject, SignDone, ReadAccount, RegisterDone, ReadFails,
         Refused, LoseAnswer, TypeInv, Place, Settled, Reading
    <3>2. outcome[c] = "pending"
      BY <3>1 DEF TypeInv, Place
    <3> QED
      BY <1>4, <3>2 DEF Start, EnsureObject, SignDone, ReadAccount, RegisterDone, ReadFails,
         Refused, LoseAnswer, Goto, SendTo, End, TypeInv, TypeOK
  <2> QED
    BY <2>1, <2>2, <2>3, <2>4, OtherwiseFresh
<1> QED
  BY <1>1, <1>2, <1>3, <1>4 DEF Step

LEMMA ApplianceFresh ==
    ASSUME TypeInv, FreshInv,
           (\E c \in Callers : Execute(c) \/ Refuse(c)) \/ LateExecute \/ Issuance
    PROVE  FreshInv'
<1>1. CASE (\E c \in Callers : Execute(c) \/ Refuse(c)) \/ LateExecute
           \/ BackgroundStart \/ Vanish
  <2>1. UNCHANGED <<certificate, at, object, seen, endings, outcome, expired>>
    BY <1>1 DEF Execute, Refuse, LateExecute, BackgroundStart, Vanish, idleCallers
  <2> QED
    BY <2>1 DEF FreshInv, Watched, OutcomeIsFresh, Issued, certificate
<1>2. CASE Begin
  <2>1. /\ UNCHANGED <<at, object, seen, endings, outcome, expired>>
        /\ status' = "running" /\ stamp' = stamp + 1
    BY <1>2 DEF Begin, idleCallers
  <2> QED
    BY <2>1 DEF FreshInv, Watched, OutcomeIsFresh, Issued, TypeInv, TypeOK
<1>3. ASSUME NEW how \in {"ok", "failed"}, Finish(how) PROVE FreshInv'
  <2>1. /\ UNCHANGED <<at, object, seen, outcome, expired>>
        /\ status' = how /\ stamp' = stamp + 1
        /\ \A c \in Callers : endings'[c] = endings[c] \cup {how}
    BY <1>3 DEF Finish, idleCallers
  <2> QED
    BY <2>1 DEF FreshInv, Watched, OutcomeIsFresh, Issued, TypeInv, TypeOK
<1> QED
  BY <1>1, <1>2, <1>3 DEF Issuance

\* "The old status must not be mistaken for the outcome": for any number of callers
\* and of issuances next to theirs (_wait_for_issue with the stamp read before sign).
THEOREM NeverStale == Spec => []OutcomeIsFresh
<1>1. Init => FreshInv
  BY DEF Init, FreshInv, Watched, OutcomeIsFresh
<1>2. TypeInv /\ FreshInv /\ [Next]_vars => FreshInv'
  <2> SUFFICES ASSUME TypeInv, FreshInv, [Next]_vars PROVE FreshInv'
    OBVIOUS
  <2>1. CASE UNCHANGED vars
    BY <2>1 DEF vars, certificate, FreshInv, Watched, OutcomeIsFresh, Issued
  <2> QED
    BY <2>1, CallerFresh, ApplianceFresh DEF Next
<1>3. FreshInv => OutcomeIsFresh
  BY DEF FreshInv
<1> QED
  BY <1>1, <1>2, <1>3, TypeHolds, PTL DEF Spec
=============================================================================
