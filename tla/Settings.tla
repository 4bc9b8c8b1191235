------------------------------ MODULE Settings ------------------------------
(***************************************************************************)
(* One daemon of the appliance, its settings document (BaseSingleton-      *)
(* Manager) and its service (BaseServiceManager, CoreServiceManager):      *)
(* every caller makes one ensure() of one of these kinds.  The apply of a  *)
(* settings change is the daemon's reconfigure, so the two meet.           *)
(*                                                                         *)
(* As in Ensure, a step runs from one await to the next, a read is one     *)
(* step, and a POST may run, be lost, be sent again or run late.           *)
(***************************************************************************)
EXTENDS Naturals, FiniteSets

CONSTANTS Callers,
          Fields, Values,
          Unset,       \* a field missing from params
          Calls,       \* arguments of ensure(): see CallType
          HasApply,    \* _apply_endpoint is not None
          MaxAttempts, \* attempts per POST
          MaxLate      \* bound: abandoned requests kept by the appliance

Documents == [Fields -> Values]
Params == [Fields -> Values \cup {Unset}]

\* "other" stands for every argument that is rejected before the first await.
CallType ==
    [kind : {"settings"}, state : {"present", "other"}, want : Params, check : BOOLEAN]
    \cup [kind : {"service"}, state : {"running", "stopped", "reconfigured", "other"},
          check : BOOLEAN]
    \cup [kind : {"core"}, state : {"running", "stopped", "restarted", "other"},
          check : BOOLEAN]

ASSUME CallAssumption == Calls # {} /\ Calls \subseteq CallType
ASSUME ValueAssumption == Values # {} /\ Unset \notin Values
ASSUME BoundAssumption ==
    HasApply \in BOOLEAN /\ MaxAttempts \in Nat \ {0} /\ MaxLate \in Nat

VARIABLES saved,   \* the appliance: the settings document
          loaded,  \* the appliance: the settings the daemon was configured with
          up,      \* the appliance: the daemon runs
          late,    \* abandoned requests the appliance may still execute
          at,      \* per caller, from here on: the await it stands at
          args,
          post,    \* the POST in flight
          wire,    \* "none", "sent", and the answer "ok", "failed" or "refused"
          attempt,
          outcome, \* what ensure() returned or raised
          touched  \* a POST of this call was executed

daemon == <<saved, loaded, up>>
request == <<post, wire, attempt>>
vars == <<daemon, late, at, args, request, outcome, touched>>

Reading == {"get", "reread", "status", "action", "after"}
Writing == {"save", "apply", "verb"}
Settled == {"returned", "raised"}

NoWant == [f \in Fields |-> Unset]
Verbs == {"start", "stop", "restart", "reconfigure"}
Requests == [op : Verbs \cup {"none", "set"}, want : Params]
NoPost == [op |-> "none", want |-> NoWant]
Order(op) == [op |-> op, want |-> NoWant]
LateRequests == [by : Callers, nr : 1..MaxAttempts, req : Requests]

-----------------------------------------------------------------------------
(* The appliance *)

Overlay(doc, want) == [f \in Fields |-> IF want[f] = Unset THEN doc[f] ELSE want[f]]

\* One execution of a request and the answer it gets.  set merges the fields it
\* is given; a reconfigure loads the document and leaves the daemon up or, when
\* it is disabled, down, or it fails its syntax test with HTTP 200 and the daemon
\* down; a start may leave the daemon down.
Perform(req, answer) ==
    \/ /\ req.op = "set" /\ answer = "ok"
       /\ saved' = Overlay(saved, req.want)
       /\ loaded' = IF HasApply THEN loaded ELSE saved'
       /\ UNCHANGED up
    \/ /\ req.op = "reconfigure" /\ answer = "ok"
       /\ loaded' = saved /\ up' \in BOOLEAN
       /\ UNCHANGED saved
    \/ /\ req.op = "reconfigure" /\ answer = "failed"
       /\ up' = FALSE
       /\ UNCHANGED <<saved, loaded>>
    \/ /\ req.op \in {"start", "stop", "restart"} /\ answer = "ok"
       /\ up' \in IF req.op = "stop" THEN {FALSE} ELSE BOOLEAN
       /\ UNCHANGED <<saved, loaded>>

Execute(c) ==
    /\ wire[c] = "sent"
    /\ \E answer \in {"ok", "failed"} :
          Perform(post[c], answer) /\ wire' = [wire EXCEPT ![c] = answer]
    /\ touched' = [touched EXCEPT ![c] = TRUE]
    /\ UNCHANGED <<late, at, args, post, attempt, outcome>>

Refuse(c) ==
    /\ wire[c] = "sent"
    /\ wire' = [wire EXCEPT ![c] = "refused"]
    /\ UNCHANGED <<daemon, late, at, args, post, attempt, outcome, touched>>

LateExecute ==
    /\ \E m \in late, answer \in {"ok", "failed"} :
          /\ Perform(m.req, answer)
          /\ late' = late \ {m}
          /\ touched' = [touched EXCEPT ![m.by] = TRUE]
    /\ UNCHANGED <<at, args, request, outcome>>

-----------------------------------------------------------------------------
(* The callers *)

MoveTo(c, place, req, state, nr) ==
    /\ at' = [at EXCEPT ![c] = place]
    /\ post' = [post EXCEPT ![c] = req]
    /\ wire' = [wire EXCEPT ![c] = state]
    /\ attempt' = [attempt EXCEPT ![c] = nr]

Goto(c, place) == MoveTo(c, place, NoPost, "none", 0) /\ UNCHANGED outcome
SendTo(c, place, req) == MoveTo(c, place, req, "sent", 1) /\ UNCHANGED outcome
End(c, how, what) ==
    /\ MoveTo(c, how, NoPost, "none", 0)
    /\ outcome' = [outcome EXCEPT ![c] = what]

elsewhere == <<daemon, late, args, touched>>

\* 'reconfigured' has no idempotency: its first await is the one in _action.
FirstAwait(call) ==
    CASE call.kind = "settings" -> "get"
      [] call.kind = "service" /\ call.state = "reconfigured" -> "action"
      [] OTHER -> "status"

Start(c) ==
    /\ at[c] = "idle"
    /\ \E call \in Calls :
          /\ args' = [args EXCEPT ![c] = call]
          /\ IF call.state = "other" THEN End(c, "raised", "ValueError")
             ELSE Goto(c, FirstAwait(call))
    /\ UNCHANGED <<daemon, late, touched>>

Drift(want) == {f \in Fields : want[f] \notin {Unset, saved[f]}}

\* Mutant: the projected document is posted, not the params.
ProjectedBody(want) == Overlay(saved, want)

\* The body of the POST: the params alone, whatever was read.
Body(want) == want

\* set(): fetch and diff.
GetBefore(c) ==
    /\ at[c] = "get"
    /\ LET want == args[c].want IN
       IF Drift(want) = {} THEN End(c, "returned", "noop")
       ELSE IF args[c].check THEN End(c, "returned", "would")
       ELSE SendTo(c, "save", [op |-> "set", want |-> Body(want)])
    /\ UNCHANGED elsewhere

\* Mutant: the change is not applied.
SaveOnly(c) ==
    /\ at[c] = "save" /\ wire[c] = "ok"
    /\ Goto(c, "reread")
    /\ UNCHANGED elsewhere

SaveDone(c) ==
    /\ at[c] = "save" /\ wire[c] = "ok"
    /\ IF HasApply THEN SendTo(c, "apply", Order("reconfigure"))
       ELSE Goto(c, "reread")
    /\ UNCHANGED elsewhere

\* OpnsenseClient.reconfigure raises on {"status": "failed"}.
ApplyDone(c) ==
    /\ at[c] = "apply"
    /\ \/ wire[c] = "ok" /\ Goto(c, "reread")
       \/ wire[c] = "failed" /\ End(c, "raised", "failed")
    /\ UNCHANGED elsewhere

Reread(c) ==
    /\ at[c] = "reread"
    /\ End(c, "returned", "changed")
    /\ UNCHANGED elsewhere

VerbFor(state) ==
    CASE state = "running" -> "start"
      [] state = "stopped" -> "stop"
      [] state = "restarted" -> "restart"
      [] state = "reconfigured" -> "reconfigure"

\* ensure() of both service managers: 'disabled' and 'unknown' count as stopped.
ReadStatus(c) ==
    /\ at[c] = "status"
    /\ LET state == args[c].state IN
       IF state = (IF up THEN "running" ELSE "stopped")
       THEN End(c, "returned", "noop")
       ELSE IF args[c].kind = "service" THEN Goto(c, "action")
       ELSE IF args[c].check THEN End(c, "returned", "would")
       ELSE SendTo(c, "verb", Order(VerbFor(state)))
    /\ UNCHANGED elsewhere

\* Mutant: _action forgets check mode.
ActionForReal(c) ==
    /\ at[c] = "action"
    /\ SendTo(c, "verb", Order(VerbFor(args[c].state)))
    /\ UNCHANGED elsewhere

\* _action reads the status a second time, and posts the verb whatever it is.
Action(c) ==
    /\ at[c] = "action"
    /\ IF args[c].check THEN End(c, "returned", "would")
       ELSE SendTo(c, "verb", Order(VerbFor(args[c].state)))
    /\ UNCHANGED elsewhere

\* A verb that answers {"status": "failed"} is an answer like any other.
VerbDone(c) ==
    /\ at[c] = "verb" /\ wire[c] \in {"ok", "failed"}
    /\ Goto(c, "after")
    /\ UNCHANGED elsewhere

AfterStatus(c) ==
    /\ at[c] = "after"
    /\ End(c, "returned", "changed")
    /\ UNCHANGED elsewhere

ReadFails(c) ==
    /\ at[c] \in Reading
    /\ End(c, "raised", "unavailable")
    /\ UNCHANGED elsewhere

Refused(c) ==
    /\ wire[c] = "refused"
    /\ End(c, "raised", "refused")
    /\ UNCHANGED elsewhere

\* Mutants: the attempts start over; one attempt too many.
RetryForever(c) ==
    /\ wire[c] # "none"
    /\ attempt' = [attempt EXCEPT ![c] = 1 + (@ % MaxAttempts)]
    /\ wire' = [wire EXCEPT ![c] = "sent"]
    /\ UNCHANGED <<daemon, late, args, touched, at, post, outcome>>

RetryPastTheEnd(c) ==
    /\ wire[c] # "none"
    /\ IF attempt[c] <= MaxAttempts THEN MoveTo(c, at[c], post[c], "sent", attempt[c] + 1)
                                         /\ UNCHANGED outcome
       ELSE End(c, "raised", "unavailable")
    /\ UNCHANGED elsewhere

LoseAnswer(c) ==
    /\ wire[c] # "none"
    /\ \/ UNCHANGED late
       \/ /\ wire[c] = "sent" /\ Cardinality(late) < MaxLate
          /\ late' = late \cup {[by |-> c, nr |-> attempt[c], req |-> post[c]]}
    /\ IF attempt[c] < MaxAttempts
       THEN MoveTo(c, at[c], post[c], "sent", attempt[c] + 1) /\ UNCHANGED outcome
       ELSE End(c, "raised", "unavailable")
    /\ UNCHANGED <<daemon, args, touched>>

-----------------------------------------------------------------------------
Init ==
    /\ saved \in Documents
    /\ loaded = saved
    /\ up \in BOOLEAN
    /\ late = {}
    /\ at = [c \in Callers |-> "idle"]
    /\ args = [c \in Callers |-> CHOOSE call \in Calls : TRUE]
    /\ post = [c \in Callers |-> NoPost]
    /\ wire = [c \in Callers |-> "none"]
    /\ attempt = [c \in Callers |-> 0]
    /\ outcome = [c \in Callers |-> "pending"]
    /\ touched = [c \in Callers |-> FALSE]

Step(c) ==
    \/ GetBefore(c) \/ SaveDone(c) \/ ApplyDone(c) \/ Reread(c)
    \/ ReadStatus(c) \/ Action(c) \/ VerbDone(c) \/ AfterStatus(c)
    \/ ReadFails(c) \/ Refused(c) \/ LoseAnswer(c)

Next ==
    \/ \E c \in Callers : Start(c) \/ Step(c) \/ Execute(c) \/ Refuse(c)
    \/ LateExecute

Spec == Init /\ [][Next]_vars

\* Every await ends; the appliance need not execute anything.
FairSpec == Spec /\ \A c \in Callers : WF_vars(Step(c))

-----------------------------------------------------------------------------
(* Properties *)

TypeOK ==
    /\ saved \in Documents /\ loaded \in Documents /\ up \in BOOLEAN
    /\ late \subseteq LateRequests
    /\ at \in [Callers -> Reading \cup Writing \cup Settled \cup {"idle"}]
    /\ args \in [Callers -> Calls]
    /\ post \in [Callers -> Requests]
    /\ wire \in [Callers -> {"none", "sent", "ok", "failed", "refused"}]
    /\ attempt \in [Callers -> 0..MaxAttempts]
    /\ outcome \in [Callers -> {"pending", "noop", "would", "changed", "ValueError",
                                "failed", "refused", "unavailable"}]
    /\ touched \in [Callers -> BOOLEAN]

\* c has started a call that sets field f to value.
Sets(c, f, value) ==
    /\ at[c] # "idle" /\ args[c].kind = "settings" /\ args[c].want[f] = value
    /\ value # Unset

Undisputed(f) ==
    \A c, d \in Callers, v, w \in Values : Sets(c, f, v) /\ Sets(d, f, w) => v = w

\* set() posts its params, "merged into existing on the server side", and never
\* the document it read: whoever changes other fields at the same time, and
\* whatever is executed twice or late, a call that returned finds every field it
\* set, unless another call set it differently.
OwnFieldsStay ==
    \A c \in Callers, f \in Fields, v \in Values :
        at[c] = "returned" /\ outcome[c] # "would" /\ Sets(c, f, v) /\ Undisputed(f)
            => saved[f] = v

\* "POST only if drifted, reconfigure if needed": when every call so far has
\* returned, the daemon was configured with the document as it is, although
\* service calls of other callers reconfigure and restart it meanwhile.
QuietIsLoaded ==
    /\ \A c \in Callers : at[c] \in {"idle", "returned"}
    /\ \A f \in Fields : Undisputed(f)
    => loaded = saved

\* In all three managers, a reported change sent its request and had it executed;
\* noop, check mode and rejected arguments had nothing executed, even late.
ReportsMatchEffects ==
    \A c \in Callers :
        /\ outcome[c] = "changed" => touched[c]
        /\ outcome[c] \in {"noop", "ValueError"} => ~touched[c]
        /\ at[c] # "idle" /\ args[c].check => ~touched[c]

\* Every started ensure() returns or raises.
Terminates ==
    \A c \in Callers : at[c] \notin Settled \cup {"idle"} ~> at[c] \in Settled
=============================================================================
