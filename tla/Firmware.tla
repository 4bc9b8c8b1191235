------------------------------ MODULE Firmware ------------------------------
(***************************************************************************)
(* FirmwareManager.ensure(): check, apply the pending release, wait for    *)
(* the reboot into it, wait for the appliance to become idle again.        *)
(* The appliance is not the call's own: a job may run when it starts, and  *)
(* others fire theirs at any time.                                         *)
(* A sleep and the poll after it are one step; durations are counted in    *)
(* polls.                                                                  *)
(***************************************************************************)
EXTENDS FirmwareJobs

CONSTANTS Requests,      \* arguments of ensure(): see RequestType
          Hits,          \* target -> the versions it is a substring of
          NoTarget,      \* target=None
          MaxTries,      \* attempts of a POST
          CheckTimeout,  \* check_timeout / its interval
          WaitTimeout,   \* wait_timeout / wait_interval
          StrangerLimit  \* bound: kinds of jobs others run during the call

RequestType == [state : {"updated", "upgraded", "other"},
                target : DOMAIN Hits \cup {NoTarget}, check : BOOLEAN]

ASSUME RequestAssumption == Requests # {} /\ Requests \subseteq RequestType
ASSUME HitAssumption ==
    NoTarget \notin DOMAIN Hits /\ \A t \in DOMAIN Hits : Hits[t] \subseteq Versions
ASSUME LimitAssumption ==
    /\ MaxTries \in Nat \ {0} /\ CheckTimeout \in Nat /\ WaitTimeout \in Nat
    /\ StrangerLimit \in Nat

VARIABLES stage,    \* the await ensure() stands at
          asked,    \* its arguments
          sending,  \* the POST in flight: "none", "sent" or "ok"
          verb,     \* what that POST asks for
          tries,
          slept,    \* sleeps in the current loop
          result,   \* what ensure() returned or raised
          abandoned, \* verbs of abandoned requests the appliance may still execute
          strangers \* history: what jobs of others ran during the call

caller == <<stage, asked, verb, sending, tries, slept, result>>
releaseVars == <<appliance, caller, abandoned, strangers>>

Ended == {"returned", "raised"}
unpolled == <<asked, verb, sending, tries>>
elsewhere == <<appliance, abandoned, strangers>>

MoveTo(place) == stage' = place /\ slept' = 0
EndWith(how, what) == MoveTo(how) /\ result' = what

\* Mutants of PollOn: the loop starts its count over and never gives up; it
\* sleeps once too often.
PollForever(limit) ==
    slept' = (slept + 1) % (limit + 1) /\ UNCHANGED <<stage, result>>

PollTooLong(limit) ==
    IF slept <= limit THEN slept' = slept + 1 /\ UNCHANGED <<stage, result>>
    ELSE EndWith("raised", "timeout")

PollOn(limit) ==
    IF slept < limit THEN slept' = slept + 1 /\ UNCHANGED <<stage, result>>
    ELSE EndWith("raised", "timeout")

Post(place, op) ==
    /\ MoveTo(place)
    /\ verb' = op
    /\ sending' = "sent"
    /\ tries' = 1
    /\ UNCHANGED result

Begin ==
    /\ stage = "idle"
    /\ \E request \in Requests :
          /\ asked' = request
          /\ IF request.state = "other"
             THEN /\ EndWith("raised", "ValueError")
                  /\ UNCHANGED <<verb, sending, tries>>
             ELSE Post("check", "check")
    /\ UNCHANGED elsewhere

\* Mutant: the status is read without waiting for the check job.
CheckUnawaited ==
    /\ stage = "check" /\ sending = "ok"
    /\ sending' = "none"
    /\ MoveTo("status")
    /\ UNCHANGED <<elsewhere, asked, verb, tries, result>>

CheckFired ==
    /\ stage = "check" /\ sending = "ok"
    /\ sending' = "none"
    /\ MoveTo("wait_check")
    /\ UNCHANGED <<elsewhere, asked, verb, tries, result>>

\* _wait_job of check().
CheckPoll ==
    /\ stage = "wait_check" /\ up
    /\ IF log.status = "done" THEN MoveTo("status") /\ UNCHANGED result
       ELSE PollOn(CheckTimeout)
    /\ UNCHANGED <<elsewhere, unpolled>>

\* Mutant: "updated" takes whatever release is pending.
VerbAny(state, pending) == pending

\* The verb for what is pending; "none" when ensure() has nothing to do.
VerbFor(state, pending) ==
    CASE pending = "update" -> "update"
      [] pending = "upgrade" /\ state = "upgraded" -> "upgrade"
      [] OTHER -> "none"

\* A caller that names a target names one where ensure() has nothing more to do:
\* what it fires never leads away from there.
Aims(request) ==
    request.target # NoTarget =>
        \A v \in Hits[request.target] : VerbFor(request.state, Offer[v]) = "none"

\* The resolved status decides: noop, check mode, or fire.
ReadStatus ==
    /\ stage = "status" /\ up
    /\ LET op == VerbFor(asked.state, resolved) IN
       IF op = "none" \/ asked.check
       THEN /\ EndWith("returned", IF op = "none" THEN "noop" ELSE "would")
            /\ UNCHANGED <<verb, sending, tries>>
       ELSE Post("fire", op)
    /\ UNCHANGED <<elsewhere, asked>>

AfterFire ==
    IF asked.target = NoTarget THEN EndWith("returned", "applying")
    ELSE MoveTo("wait_version") /\ UNCHANGED result

VerbFired ==
    /\ stage = "fire" /\ sending = "ok"
    /\ sending' = "none"
    /\ AfterFire
    /\ UNCHANGED <<elsewhere, asked, verb, tries>>

\* Mutant: a version that was reached is taken for an idle appliance.
VersionIsEnough ==
    /\ stage = "wait_version"
    /\ IF up /\ version \in Hits[asked.target] THEN EndWith("returned", "reached")
       ELSE PollOn(WaitTimeout)
    /\ UNCHANGED <<elsewhere, unpolled>>

\* wait_for_version: one attempt per poll, whose failure counts as not yet.
VersionPoll ==
    /\ stage = "wait_version"
    /\ \/ /\ up /\ version \in Hits[asked.target]
          /\ MoveTo("wait_idle") /\ UNCHANGED result
       \/ PollOn(WaitTimeout)
    /\ UNCHANGED <<elsewhere, unpolled>>

\* wait_for_idle, likewise.
IdleAgainPoll ==
    /\ stage = "wait_idle"
    /\ \/ up /\ ~Busy /\ EndWith("returned", "reached")
       \/ PollOn(WaitTimeout)
    /\ UNCHANGED <<elsewhere, unpolled>>

\* Nothing catches what these reads raise.  The two waits above catch transport
\* errors, timeouts and a 500, but not a 502, a 503 or a refusal.
PollFails ==
    /\ stage \in {"wait_check", "status", "wait_version", "wait_idle"}
    /\ EndWith("raised", "unavailable")
    /\ UNCHANGED <<elsewhere, unpolled>>

Refused ==
    /\ sending = "sent" /\ up
    /\ sending' = "none"
    /\ EndWith("raised", "refused")
    /\ UNCHANGED <<elsewhere, asked, verb, tries>>

\* Attempts run out: _fire takes a transport error of the last one for the sign
\* that the appliance started applying; every other failure is raised.
GiveUp ==
    /\ tries = MaxTries
    /\ sending' = "none"
    /\ \/ EndWith("raised", "unavailable")
       \/ stage = "fire" /\ AfterFire
    /\ UNCHANGED tries

SendAgain ==
    /\ tries < MaxTries
    /\ tries' = tries + 1
    /\ sending' = "sent"
    /\ UNCHANGED <<stage, slept, result>>

LoseReply ==
    /\ sending # "none"
    /\ \/ UNCHANGED abandoned
       \/ sending = "sent" /\ abandoned' = abandoned \cup {verb}
    /\ SendAgain \/ GiveUp
    /\ UNCHANGED <<appliance, strangers, asked, verb>>

ExecuteVerb ==
    /\ sending = "sent"
    /\ Fire(verb, NoPackage)
    /\ sending' = "ok"
    /\ UNCHANGED <<abandoned, strangers, stage, asked, verb, tries, slept, result>>

ExecuteLate ==
    /\ \E op \in abandoned :
          /\ Fire(op, NoPackage)
          /\ abandoned' = abandoned \ {op}
    /\ UNCHANGED <<caller, strangers>>

PackageOps == {"install", "remove"}

\* A job somebody else may have running: a plugin's, the GUI's, another ensure()'s,
\* the re-installation after an earlier boot.
Foreign ==
    {j \in JobType : j.op # "none" /\ (j.pkg # NoPackage <=> j.op \in PackageOps)}

\* Fired into a running job it would come to nothing.
StrangerFires ==
    /\ ~Busy
    /\ \E j \in Foreign :
          /\ j.op # "reinstall"
          /\ Fire(j.op, j.pkg)
          /\ strangers' = strangers \cup {j.op}
          /\ Cardinality(strangers') <= StrangerLimit
    /\ UNCHANGED <<caller, abandoned>>

ReleaseInit ==
    /\ up = TRUE
    /\ \/ /\ job = NoJob /\ strangers = {}
          /\ log \in {DoneLog(FALSE), DoneLog(TRUE)}
       \/ /\ job \in Foreign /\ strangers = {job.op}
          /\ log \in {EmptyLog, [EmptyLog EXCEPT !.status = "running"]}
    /\ installed = Listed /\ cache = Listed
    /\ version \in Versions
    /\ resolved \in {"none", Offer[version]}
    /\ stage = "idle"
    /\ asked = CHOOSE request \in Requests : TRUE
    /\ sending = "none"
    /\ verb = "none"
    /\ tries = 0
    /\ slept = 0
    /\ result = "pending"
    /\ abandoned = {}

ReleaseStep ==
    \/ CheckFired \/ CheckPoll \/ ReadStatus \/ VerbFired \/ VersionPoll
    \/ IdleAgainPoll \/ PollFails \/ Refused \/ LoseReply

ReleaseNext ==
    \/ Begin \/ ReleaseStep \/ ExecuteVerb \/ ExecuteLate \/ StrangerFires
    \/ ApplianceStep /\ UNCHANGED <<caller, abandoned, strangers>>

ReleaseSpec == ReleaseInit /\ [][ReleaseNext]_releaseVars

\* Every await ends: httpx.Timeout bounds it, down or up.
FairReleaseSpec == ReleaseSpec /\ WF_releaseVars(ReleaseStep)

-----------------------------------------------------------------------------
\* Every loop stays within its limit.
ReleaseTypeOK ==
    /\ ApplianceOK
    /\ stage \in {"idle", "check", "wait_check", "status", "fire", "wait_version",
                  "wait_idle"} \cup Ended
    /\ asked \in Requests
    /\ sending \in {"none", "sent", "ok"}
    /\ verb \in {"none", "check", "update", "upgrade"}
    /\ tries \in 0..MaxTries
    /\ slept \in 0..(IF stage = "wait_check" THEN CheckTimeout ELSE WaitTimeout)
    /\ result \in {"pending", "noop", "would", "applying", "reached", "ValueError",
                   "timeout", "refused", "unavailable"}
    /\ abandoned \subseteq Ops
    /\ strangers \subseteq Ops

\* check(): "Reading status without a fresh check returns stale data".  A call
\* that finds nothing to do was right about it: no release of the kind it asked
\* for is pending, however often its check was fired, its answer lost or another
\* check in the way.  Only a job of another kind breaks it: check() does not wait
\* for idle before it fires, so such a job swallows the check, and its own end is
\* taken for the end of the check.
NoopIsTrue ==
    result = "noop" /\ strangers \subseteq {"check"}
        => VerbFor(asked.state, Offer[version]) = "none"

\* "Back on the target is not idle": a call that waited for its target leaves the
\* appliance on it, its own re-installation of packages over, whatever jobs others
\* ran meanwhile, unless one of them was a release.
ReachedIsSettled ==
    result = "reached" /\ strangers \cap {"update", "upgrade"} = {}
        => version \in Hits[asked.target] /\ job.op # "reinstall"

\* 'updated' is "apply a pending point update": across retries and reboots, the
\* appliance goes down into a major release only if the caller, or somebody else,
\* asked for it.
MajorOnlyWhenAsked ==
    [][up /\ ~up' /\ Offer[version] = "upgrade"
           => asked.state = "upgraded" \/ "upgrade" \in strangers]_releaseVars

\* ensure() ends although the appliance may never come back.
ReleaseTerminates == stage = "check" ~> stage \in Ended
=============================================================================
