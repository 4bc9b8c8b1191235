------------------------------- MODULE Plugin -------------------------------
(***************************************************************************)
(* PluginManager.ensure(): several callers install and remove packages     *)
(* through the one firmware job the appliance runs at a time.  A sleep and *)
(* the poll after it are one step: others may act before every poll.       *)
(* Durations are counted in polls.                                         *)
(***************************************************************************)
EXTENDS FirmwareJobs

CONSTANTS Callers,
          Calls,          \* arguments of ensure(): see CallType
          MaxAttempts,    \* attempts of the POST that fires the job
          Timeout,        \* timeout / interval of both waits
          VerifyRetries

CallType == [state : {"present", "absent", "other"}, pkg : Packages,
             wait : BOOLEAN, check : BOOLEAN]

ASSUME CallAssumption == Calls # {} /\ Calls \subseteq CallType
ASSUME PollAssumption ==
    MaxAttempts \in Nat \ {0} /\ Timeout \in Nat /\ VerifyRetries \in Nat

VARIABLES at,      \* per caller, from here on: the await it stands at
          args,    \* the arguments of its call
          wire,    \* the POST: "none", "sent" or "ok"
          attempt,
          waited,  \* sleeps in the current loop
          outcome, \* what ensure() returned or raised
          strays   \* abandoned requests the appliance may still execute

callers == <<at, args, wire, attempt, waited, outcome>>
vars == <<appliance, callers, strays>>

Settled == {"returned", "raised"}
Wants(c) == args[c].state = "present"
Op(c) == IF Wants(c) THEN "install" ELSE "remove"

Goto(c, place) ==
    /\ at' = [at EXCEPT ![c] = place]
    /\ waited' = [waited EXCEPT ![c] = 0]

End(c, how, what) ==
    /\ Goto(c, how)
    /\ outcome' = [outcome EXCEPT ![c] = what]

\* Mutants of WaitOn: the loop starts its count over and never gives up; it
\* sleeps once too often.
WaitForever(c, limit, exc) ==
    waited' = [waited EXCEPT ![c] = (@ + 1) % (limit + 1)] /\ UNCHANGED <<at, outcome>>

WaitTooLong(c, limit, exc) ==
    IF waited[c] <= limit
    THEN waited' = [waited EXCEPT ![c] = @ + 1] /\ UNCHANGED <<at, outcome>>
    ELSE End(c, "raised", exc)

\* `if waited >= timeout: raise`, else sleep and poll again.
WaitOn(c, limit, exc) ==
    IF waited[c] < limit
    THEN waited' = [waited EXCEPT ![c] = @ + 1] /\ UNCHANGED <<at, outcome>>
    ELSE End(c, "raised", exc)

silent == <<appliance, strays, args, wire, attempt>>

Start(c) ==
    /\ at[c] = "idle"
    /\ \E call \in Calls :
          /\ args' = [args EXCEPT ![c] = call]
          /\ IF call.state = "other" THEN End(c, "raised", "ValueError")
             ELSE Goto(c, "read") /\ UNCHANGED outcome
    /\ UNCHANGED <<appliance, strays, wire, attempt>>

\* is_installed, from the cached list; noop and check mode end here.
ReadState(c) ==
    /\ at[c] = "read" /\ up
    /\ IF (args[c].pkg \in cache) = Wants(c) THEN End(c, "returned", "noop")
       ELSE IF args[c].check THEN End(c, "returned", "would")
       ELSE Goto(c, "wait_idle") /\ UNCHANGED outcome
    /\ UNCHANGED silent

\* wait_for_idle, and the POST that follows it.
IdlePoll(c) ==
    /\ at[c] = "wait_idle" /\ up
    /\ IF ~Busy
       THEN /\ Goto(c, "fire")
            /\ wire' = [wire EXCEPT ![c] = "sent"]
            /\ attempt' = [attempt EXCEPT ![c] = 1]
            /\ UNCHANGED outcome
       ELSE WaitOn(c, Timeout, "timeout") /\ UNCHANGED <<wire, attempt>>
    /\ UNCHANGED <<appliance, strays, args>>

Fired(c) ==
    /\ wire[c] = "ok"
    /\ wire' = [wire EXCEPT ![c] = "none"]
    /\ IF args[c].wait THEN Goto(c, "wait_job") /\ UNCHANGED outcome
       ELSE End(c, "returned", "fired")
    /\ UNCHANGED <<appliance, strays, args, attempt>>

\* _wait_for_job and _verdict.
JobPoll(c) ==
    /\ at[c] = "wait_job" /\ up
    /\ IF log.status # "done" THEN WaitOn(c, Timeout, "timeout")
       ELSE IF log.refused THEN End(c, "raised", "refused")
       ELSE Goto(c, "verify") /\ UNCHANGED outcome
    /\ UNCHANGED silent

\* Mutant: a job that is done has changed the state.
TrustTheJob(c) ==
    /\ at[c] = "verify" /\ up
    /\ End(c, "returned", "changed")
    /\ UNCHANGED silent

\* "Re-read for a while before calling it a failure."
Verify(c) ==
    /\ at[c] = "verify" /\ up
    /\ IF (args[c].pkg \in cache) = Wants(c) THEN End(c, "returned", "changed")
       ELSE WaitOn(c, VerifyRetries, "unchanged")
    /\ UNCHANGED silent

\* Nothing in ensure() catches what a read raises.
ReadFails(c) ==
    /\ at[c] \in {"read", "wait_idle", "wait_job", "verify"}
    /\ End(c, "raised", "unavailable")
    /\ UNCHANGED silent

FireRefused(c) ==
    /\ wire[c] = "sent"
    /\ wire' = [wire EXCEPT ![c] = "none"]
    /\ End(c, "raised", "refused")
    /\ UNCHANGED <<appliance, strays, args, attempt>>

\* The client sends the POST again, or gives up.
LoseAnswer(c) ==
    /\ wire[c] # "none"
    /\ \/ UNCHANGED strays
       \/ wire[c] = "sent" /\ strays' = strays \cup {[op |-> Op(c), pkg |-> args[c].pkg]}
    /\ IF attempt[c] < MaxAttempts
       THEN /\ attempt' = [attempt EXCEPT ![c] = @ + 1]
            /\ wire' = [wire EXCEPT ![c] = "sent"]
            /\ UNCHANGED <<at, waited, outcome>>
       ELSE /\ wire' = [wire EXCEPT ![c] = "none"]
            /\ End(c, "raised", "unavailable")
            /\ UNCHANGED attempt
    /\ UNCHANGED <<appliance, args>>

Execute(c) ==
    /\ wire[c] = "sent"
    /\ Fire(Op(c), args[c].pkg)
    /\ wire' = [wire EXCEPT ![c] = "ok"]
    /\ UNCHANGED <<strays, at, args, attempt, waited, outcome>>

LateExecute ==
    /\ \E stray \in strays :
          Fire(stray.op, stray.pkg) /\ strays' = strays \ {stray}
    /\ UNCHANGED callers

Init ==
    /\ up = TRUE
    /\ job \in {NoJob, [op |-> "reinstall", pkg |-> NoPackage]}
    /\ log \in IF job = NoJob THEN {DoneLog(FALSE), DoneLog(TRUE)} ELSE {EmptyLog}
    /\ installed \in SUBSET Packages
    /\ cache = installed
    /\ version \in Versions
    /\ resolved = "none"
    /\ strays = {}
    /\ at = [c \in Callers |-> "idle"]
    /\ args = [c \in Callers |-> CHOOSE call \in Calls : TRUE]
    /\ wire = [c \in Callers |-> "none"]
    /\ attempt = [c \in Callers |-> 0]
    /\ waited = [c \in Callers |-> 0]
    /\ outcome = [c \in Callers |-> "pending"]

Step(c) ==
    \/ ReadState(c) \/ IdlePoll(c) \/ Fired(c) \/ JobPoll(c) \/ Verify(c)
    \/ ReadFails(c) \/ FireRefused(c) \/ LoseAnswer(c)

Next ==
    \/ \E c \in Callers : Start(c) \/ Step(c) \/ Execute(c)
    \/ LateExecute
    \/ ApplianceStep /\ UNCHANGED <<callers, strays>>

Spec == Init /\ [][Next]_vars

\* Every await ends; the appliance owes nothing, not even the end of a job.
FairSpec == Spec /\ \A c \in Callers : WF_vars(Step(c))

-----------------------------------------------------------------------------
\* The loops of ensure() stay within their limits: no more sleeps than the
\* longer of timeout / interval and verify_retries.
TypeOK ==
    /\ ApplianceOK
    /\ at \in [Callers -> {"idle", "read", "wait_idle", "fire", "wait_job", "verify"}
                          \cup Settled]
    /\ args \in [Callers -> Calls]
    /\ wire \in [Callers -> {"none", "sent", "ok"}]
    /\ attempt \in [Callers -> 0..MaxAttempts]
    /\ \A c \in Callers :
          waited[c] \in 0..(IF at[c] = "verify" THEN VerifyRetries ELSE Timeout)
    /\ outcome \in [Callers -> {"pending", "noop", "would", "fired", "changed",
                                "ValueError", "timeout", "refused", "unchanged",
                                "unavailable"}]
    /\ strays \subseteq JobType

\* Nobody, the appliance's own list included, wants the opposite of the package.
Undisputed(pkg, want) ==
    /\ \A call \in Calls :
          call.pkg = pkg /\ call.state # "other" => (call.state = "present") = want
    /\ pkg \in Listed => want

\* "the backend reports done for a refused install too": a call that returns
\* "installed", "removed" or "noop" for a package nobody disputes leaves it in
\* that state, although the job may have been another caller's, refused, dropped
\* or without effect, and the list it reads lags behind.
ReportedStateIsReal ==
    \A c \in Callers :
        /\ at[c] = "returned" /\ outcome[c] \in {"noop", "changed"}
        /\ Undisputed(args[c].pkg, Wants(c))
        => (args[c].pkg \in installed) = Wants(c)

\* Every started ensure() returns or raises, even if no job ever ends.
Terminates ==
    \A c \in Callers : at[c] \notin Settled \cup {"idle"} ~> at[c] \in Settled
=============================================================================
