------------------------------ MODULE AcmeIssue ------------------------------
(***************************************************************************)
(* AcmeCertificateManager.ensure("issued") and AcmeAccountManager.ensure   *)
(* ("registered") for one certificate and its account.  sign only starts   *)
(* an issuance: the appliance runs it in the background, next to those of  *)
(* its renewal cron, the GUI and other callers, and the call polls the     *)
(* certificate for a status that is newer than the one it read.            *)
(*                                                                         *)
(* A step runs from one await to the next and a read is one step; a POST   *)
(* may run, be lost, be sent again or run late, as in Ensure.              *)
(***************************************************************************)
EXTENDS Naturals, FiniteSets

CONSTANTS Callers,
          Calls,        \* arguments of ensure(): see CallType
          MaxAttempts,  \* attempts per POST
          MaxPolls,     \* reads before the deadline of a wait, at most
          MaxLate,      \* bound: abandoned requests kept by the appliance
          MaxBackground \* bound: issuances nobody here asked for

CallType ==
    [kind : {"certificate"}, renew : BOOLEAN, check : BOOLEAN]
    \cup [kind : {"account"}, check : BOOLEAN]

ASSUME CallAssumption == Calls # {} /\ Calls \subseteq CallType
ASSUME BoundAssumption ==
    /\ MaxAttempts \in Nat \ {0} /\ MaxPolls \in Nat \ {0}
    /\ MaxLate \in Nat /\ MaxBackground \in Nat

VARIABLES status,     \* the certificate's statusCode
          leaf,       \* its certRefId is set
          stamp,      \* its statusLastUpdate
          starting,   \* issuances started that have not set a status yet
          working,    \* issuances that set "running"
          registered, \* the account's statusCode is 200
          late,       \* abandoned requests the appliance may still execute
          background, \* issuances started by cron or GUI
          at,         \* per caller, from here on: the await it stands at
          args,
          object,     \* what super().ensure("present") reported
          seen,       \* the stamp of the last read before sign
          polls,      \* reads of the wait it is in
          wire,       \* "none", "sent", and the answer "ok" or "refused"
          attempt,
          outcome,    \* what the call returned or raised
          expired,    \* its wait for the outcome ran into the deadline
          endings     \* how issuances ended since the last read before sign

certificate == <<status, leaf, stamp>>
issuances == <<starting, working, background>>
request == <<wire, attempt>>
vars == <<certificate, issuances, registered, late, at, args, object, seen, polls,
          request, outcome, expired, endings>>

Statuses == {"none", "running", "ok", "failed"}
Reading == {"object", "read", "settle", "wait"}
Settled == {"returned", "raised"}
Places == Reading \cup {"sign", "register", "idle"} \cup Settled
LateRequests == [by : Callers, nr : 1..MaxAttempts, op : {"sign", "register"}]

-----------------------------------------------------------------------------
(* The appliance *)

\* sign answers as soon as the issuance is started; register waits for the CA.
Perform(op) ==
    \/ /\ op = "sign"
       /\ starting' = starting + 1
       /\ UNCHANGED <<working, background, registered>>
    \/ /\ op = "register"
       /\ registered' \in BOOLEAN
       /\ UNCHANGED issuances

Execute(c) ==
    /\ wire[c] = "sent"
    /\ Perform(at[c])
    /\ wire' = [wire EXCEPT ![c] = "ok"]
    /\ UNCHANGED <<certificate, late, at, args, object, seen, polls, attempt, outcome,
                   expired, endings>>

Refuse(c) ==
    /\ wire[c] = "sent"
    /\ wire' = [wire EXCEPT ![c] = "refused"]
    /\ UNCHANGED <<certificate, issuances, registered, late, at, args, object, seen,
                   polls, attempt, outcome, expired, endings>>

LateExecute ==
    /\ \E m \in late : late' = late \ {m} /\ Perform(m.op)
    /\ UNCHANGED <<certificate, at, args, object, seen, polls, request, outcome,
                   expired, endings>>

\* "cron, GUI, previous run".
BackgroundStart ==
    /\ background < MaxBackground
    /\ background' = background + 1
    /\ starting' = starting + 1
    /\ UNCHANGED <<certificate, working, registered, late, at, args, object, seen,
                   polls, request, outcome, expired, endings>>

idleCallers == <<registered, late, background, at, args, object, seen, polls, request,
                 outcome, expired>>

\* lecert.php sets statusCode 100 while it works.
Begin ==
    /\ starting > 0
    /\ starting' = starting - 1 /\ working' = working + 1
    /\ status' = "running" /\ stamp' = stamp + 1
    /\ UNCHANGED <<leaf, endings, idleCallers>>

\* It ends with a leaf or without; a leaf takes a registered account.
Finish(how) ==
    /\ working > 0
    /\ how = "ok" => registered
    /\ working' = working - 1
    /\ status' = how /\ stamp' = stamp + 1
    /\ leaf' = (leaf \/ how = "ok")
    /\ endings' = [c \in Callers |-> endings[c] \cup {how}]
    /\ UNCHANGED <<starting, idleCallers>>

\* It finds nothing to do, or is killed: no status is set, or none ever again.
Vanish ==
    /\ \/ starting > 0 /\ starting' = starting - 1 /\ UNCHANGED working
       \/ working > 0 /\ working' = working - 1 /\ UNCHANGED starting
    /\ UNCHANGED <<certificate, endings, idleCallers>>

-----------------------------------------------------------------------------
(* The callers *)

MoveTo(c, place, state, nr) ==
    /\ at' = [at EXCEPT ![c] = place]
    /\ wire' = [wire EXCEPT ![c] = state]
    /\ attempt' = [attempt EXCEPT ![c] = nr]

Goto(c, place) ==
    /\ MoveTo(c, place, "none", 0)
    /\ polls' = [polls EXCEPT ![c] = 0]
    /\ UNCHANGED <<outcome, expired>>
SendTo(c, place) ==
    /\ MoveTo(c, place, "sent", 1)
    /\ UNCHANGED <<outcome, expired, polls>>
End(c, how, what, deadline) ==
    /\ MoveTo(c, how, "none", 0)
    /\ outcome' = [outcome EXCEPT ![c] = what]
    /\ expired' = [expired EXCEPT ![c] = deadline]
    /\ UNCHANGED polls
Poll(c) ==
    /\ polls[c] < MaxPolls
    /\ polls' = [polls EXCEPT ![c] = @ + 1]
    /\ UNCHANGED <<at, request, outcome, expired>>

appliance == <<certificate, issuances, registered, late>>

Start(c) ==
    /\ at[c] = "idle"
    /\ \E call \in Calls : args' = [args EXCEPT ![c] = call]
    /\ Goto(c, "object")
    /\ UNCHANGED <<appliance, object, seen, endings>>

\* super().ensure("present"), as Ensure has it; a dry run knows no uuid of a record
\* it would create.
EnsureObject(c) ==
    /\ at[c] = "object"
    /\ \E result \in {"noop", "changed"} : object' = [object EXCEPT ![c] = result]
    /\ \/ Goto(c, "read")
       \/ args[c].check /\ End(c, "returned", "would", FALSE)
    /\ UNCHANGED <<appliance, args, seen, endings>>

Issued == leaf /\ status = "ok"

\* ensure("issued") from the certificate it read last to sign.
Decide(c) ==
    /\ \/ /\ Issued /\ ~args[c].renew
          /\ End(c, "returned", object[c], FALSE)
       \/ /\ ~Issued \/ args[c].renew
          /\ IF args[c].check THEN End(c, "returned", "would", FALSE)
             ELSE SendTo(c, "sign")
    /\ seen' = [seen EXCEPT ![c] = stamp]
    /\ endings' = [endings EXCEPT ![c] = {}]
    /\ object' = [object EXCEPT ![c] = IF Issued THEN @ ELSE "unissued"]

\* "An issue/renew may still be running: never race it."
ReadCertificate(c) ==
    /\ at[c] = "read" /\ args[c].kind = "certificate"
    /\ IF status = "running" /\ ~args[c].check
       THEN Goto(c, "settle") /\ UNCHANGED <<object, seen, endings>>
       ELSE Decide(c)
    /\ UNCHANGED <<appliance, args>>

\* _wait_for_issue(stale_stamp=None): until a status is terminal, or the deadline
\* passes, and then all the same on to the decision.
Settle(c) ==
    /\ at[c] = "settle"
    /\ \/ status \in {"none", "running"} /\ Poll(c) /\ UNCHANGED <<object, seen, endings>>
       \/ Decide(c)
    /\ UNCHANGED <<appliance, args>>

SignDone(c) ==
    /\ at[c] = "sign" /\ wire[c] = "ok"
    /\ Goto(c, "wait")
    /\ UNCHANGED <<appliance, args, object, seen, endings>>

\* Mutant: any terminal status is taken for the outcome.
PendingNow(c) == status \in {"none", "running"}

\* No status yet, an issuance still running, or the status from before sign.
Pending(c) == status \in {"none", "running"} \/ stamp = seen[c]

\* What ensure() makes of the last certificate it read.
Conclude(c, deadline) ==
    IF Issued
    THEN End(c, "returned", IF object[c] = "unissued" THEN "issued" ELSE "renewed",
             deadline)
    ELSE End(c, "raised", IF status = "failed" THEN "failed" ELSE "unfinished", deadline)

\* Mutant: every read starts the deadline anew.
WaitForIssueForever(c) ==
    /\ at[c] = "wait"
    /\ \/ /\ Pending(c)
          /\ polls' = [polls EXCEPT ![c] = (@ + 1) % (MaxPolls + 1)]
          /\ UNCHANGED <<at, request, outcome, expired>>
       \/ ~Pending(c) /\ Conclude(c, FALSE)
    /\ UNCHANGED <<appliance, args, object, seen, endings>>

\* _wait_for_issue(stale_stamp=stamp), and the rest of ensure().
WaitForIssue(c) ==
    /\ at[c] = "wait"
    /\ \/ Pending(c) /\ (Poll(c) \/ Conclude(c, TRUE))
       \/ ~Pending(c) /\ Conclude(c, FALSE)
    /\ UNCHANGED <<appliance, args, object, seen, endings>>

\* AcmeAccountManager.ensure("registered").
ReadAccount(c) ==
    /\ at[c] = "read" /\ args[c].kind = "account"
    /\ IF registered THEN End(c, "returned", object[c], FALSE)
       ELSE IF args[c].check THEN End(c, "returned", "would", FALSE)
       ELSE SendTo(c, "register")
    /\ UNCHANGED <<appliance, args, object, seen, endings>>

RegisterDone(c) ==
    /\ at[c] = "register" /\ wire[c] = "ok"
    /\ End(c, "returned", "registered", FALSE)
    /\ UNCHANGED <<appliance, args, object, seen, endings>>

ReadFails(c) ==
    /\ at[c] \in Reading
    /\ End(c, "raised", "unavailable", FALSE)
    /\ UNCHANGED <<appliance, args, object, seen, endings>>

Refused(c) ==
    /\ wire[c] = "refused"
    /\ End(c, "raised", "refused", FALSE)
    /\ UNCHANGED <<appliance, args, object, seen, endings>>

\* Mutant: one attempt too many.
RetryPastTheEnd(c) ==
    /\ wire[c] # "none"
    /\ IF attempt[c] <= MaxAttempts
       THEN /\ MoveTo(c, at[c], "sent", attempt[c] + 1)
            /\ UNCHANGED <<outcome, expired, polls>>
       ELSE End(c, "raised", "unavailable", FALSE)
    /\ UNCHANGED <<appliance, args, object, seen, endings>>

\* sign and register are retried like any POST.
LoseAnswer(c) ==
    /\ wire[c] # "none"
    /\ \/ UNCHANGED late
       \/ /\ wire[c] = "sent" /\ Cardinality(late) < MaxLate
          /\ late' = late \cup {[by |-> c, nr |-> attempt[c], op |-> at[c]]}
    /\ IF attempt[c] < MaxAttempts
       THEN /\ MoveTo(c, at[c], "sent", attempt[c] + 1)
            /\ UNCHANGED <<outcome, expired, polls>>
       ELSE End(c, "raised", "unavailable", FALSE)
    /\ UNCHANGED <<certificate, issuances, registered, args, object, seen, endings>>

-----------------------------------------------------------------------------
\* A certificate that was never issued, was, or whose last issuance failed; one
\* may be running.
Init ==
    /\ status \in Statuses /\ leaf \in BOOLEAN
    /\ (status = "none" => ~leaf) /\ (status = "ok" => leaf)
    /\ stamp = 1
    /\ starting = 0 /\ working = IF status = "running" THEN 1 ELSE 0
    /\ registered \in BOOLEAN
    /\ late = {} /\ background = 0
    /\ at = [c \in Callers |-> "idle"]
    /\ args = [c \in Callers |-> CHOOSE call \in Calls : TRUE]
    /\ object = [c \in Callers |-> "noop"]
    /\ seen = [c \in Callers |-> 0]
    /\ polls = [c \in Callers |-> 0]
    /\ wire = [c \in Callers |-> "none"]
    /\ attempt = [c \in Callers |-> 0]
    /\ outcome = [c \in Callers |-> "pending"]
    /\ expired = [c \in Callers |-> FALSE]
    /\ endings = [c \in Callers |-> {}]

Step(c) ==
    \/ EnsureObject(c) \/ ReadCertificate(c) \/ Settle(c) \/ SignDone(c)
    \/ WaitForIssue(c) \/ ReadAccount(c) \/ RegisterDone(c)
    \/ ReadFails(c) \/ Refused(c) \/ LoseAnswer(c)

Issuance ==
    \/ BackgroundStart \/ Begin \/ Vanish
    \/ \E how \in {"ok", "failed"} : Finish(how)

Next ==
    \/ \E c \in Callers : Start(c) \/ Step(c) \/ Execute(c) \/ Refuse(c)
    \/ LateExecute
    \/ Issuance

Spec == Init /\ [][Next]_vars

\* Every await ends; an issuance need not.
FairSpec == Spec /\ \A c \in Callers : WF_vars(Step(c))

-----------------------------------------------------------------------------
(* Properties *)

TypeOK ==
    /\ status \in Statuses /\ leaf \in BOOLEAN /\ stamp \in Nat
    /\ starting \in Nat /\ working \in Nat /\ background \in 0..MaxBackground
    /\ registered \in BOOLEAN /\ late \subseteq LateRequests
    /\ at \in [Callers -> Places]
    /\ args \in [Callers -> Calls]
    /\ object \in [Callers -> {"noop", "changed", "unissued"}]
    /\ seen \in [Callers -> Nat]
    /\ polls \in [Callers -> 0..MaxPolls]
    /\ wire \in [Callers -> {"none", "sent", "ok", "refused"}]
    /\ attempt \in [Callers -> 0..MaxAttempts]
    /\ outcome \in [Callers -> {"pending", "noop", "changed", "would", "issued", "renewed",
                                "registered", "failed", "unfinished", "refused",
                                "unavailable"}]
    /\ expired \in [Callers -> BOOLEAN]
    /\ endings \in [Callers -> SUBSET {"ok", "failed"}]

\* "The old status must not be mistaken for the outcome": between the read that
\* decided to sign and the report an issuance ended with a leaf, or failed, as the
\* report says; also past the deadline, where a first issuance is concerned.
OutcomeIsFresh ==
    \A c \in Callers :
        /\ outcome[c] = "issued" => "ok" \in endings[c]
        /\ outcome[c] = "renewed" /\ ~expired[c] => "ok" \in endings[c]
        /\ outcome[c] = "failed" /\ ~expired[c] => "failed" \in endings[c]

\* The same of every renewal.
RenewedIsFresh ==
    \A c \in Callers : outcome[c] = "renewed" => "ok" \in endings[c]

\* Every started ensure() returns or raises, if an issuance stays at statusCode
\* 100 for good.
Terminates ==
    \A c \in Callers : at[c] \notin Settled \cup {"idle"} ~> at[c] \in Settled
=============================================================================
