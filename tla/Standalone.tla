----------------------------- MODULE Standalone -----------------------------
(***************************************************************************)
(* The managers that extend no base class: AuthPrivManager,                *)
(* AuthApiKeyManager, CoreSnapshotManager and IdsRulesetManager, on one    *)
(* appliance.  All of them read a listing, decide, and post what is left   *)
(* to do; they differ in what they post: the whole rebuilt list of         *)
(* assignees, one deletion per row, one creation by name, one toggle per   *)
(* drifted ruleset and a reload at the end.  A caller makes one call.      *)
(*                                                                         *)
(* As in Ensure, a step runs from one await to the next, a read is one     *)
(* step, and a POST may run, be lost, be sent again or run late.           *)
(***************************************************************************)
EXTENDS Naturals, FiniteSets

CONSTANTS Callers,
          Calls,       \* the calls callers make: see CallType
          Users, Groups,
          KeyIds, EnvIds, EnvNames, Rulesets,
          Stranger,    \* a target or ruleset the appliance does not list
          Unused, Gone, \* an id not yet given out, or given out and deleted
          ListsUuids,  \* a privilege answers {uuid: {selected, value}}, not names
          Worlds,      \* the appliance's states to start from
          PageSize,    \* rows a search returns at most
          MaxAttempts, \* attempts per POST
          MaxLate      \* bound: abandoned requests kept by the appliance

Targets == Users \cup Groups

\* state "other" stands for the arguments rejected before the first await.
CallType ==
    [kind : {"priv"}, state : {"present", "absent", "other"}, type : {"user", "group"},
     target : Targets \cup {Stranger}, check : BOOLEAN]
    \cup [kind : {"create_key", "delete_all"}, user : Users, check : BOOLEAN]
    \cup [kind : {"delete_key"}, key : KeyIds, check : BOOLEAN]
    \cup [kind : {"env"}, state : {"present", "absent", "other"}, name : EnvNames,
          check : BOOLEAN]
    \cup [kind : {"activate"}, name : EnvNames, check : BOOLEAN]
    \cup [kind : {"rules"}, check : BOOLEAN, apply : BOOLEAN,
          want : UNION {[S -> BOOLEAN] : S \in SUBSET (Rulesets \cup {Stranger})}]

\* assigned: who holds the privilege; keys: the owner of each API key; envs: the
\* name of each boot environment, boot the one of the next boot; rulesets as
\* saved and as the running IDS has them.
WorldType ==
    [assigned : SUBSET Targets,
     keys : [KeyIds -> Users \cup {Unused, Gone}],
     envs : [EnvIds -> EnvNames \cup {Unused, Gone}], boot : EnvIds,
     enabled : SUBSET Rulesets, inspecting : SUBSET Rulesets]

ASSUME CallAssumption == Calls # {} /\ Calls \subseteq CallType
ASSUME NameAssumption ==
    /\ Users \cap Groups = {} /\ Stranger \notin Targets \cup Rulesets
    /\ {Unused, Gone} \cap (Users \cup EnvNames) = {} /\ Unused # Gone
    /\ Unused \notin KeyIds
\* No two boot environments have one name.
UniquelyNamed(w) ==
    \A d, e \in EnvIds : w.envs[d] = w.envs[e] /\ w.envs[d] \in EnvNames => d = e

ASSUME WorldAssumption ==
    Worlds # {} /\ Worlds \subseteq WorldType /\ \A w \in Worlds : UniquelyNamed(w)
ASSUME BoundAssumption ==
    /\ PageSize \in Nat /\ MaxAttempts \in Nat \ {0} /\ MaxLate \in Nat
    /\ ListsUuids \in BOOLEAN

VARIABLES world,   \* the appliance
          late,    \* abandoned requests it may still execute
          at,      \* per caller, from here on: the await it stands at
          args,
          todo,    \* requests to post after the one in flight
          post,    \* the request in flight
          wire,    \* "none", "sent", and the answer "ok" or "refused"
          attempt,
          reply,   \* the id in the answer to an add_api_key
          outcome  \* what the call returned or raised

request == <<post, wire, attempt>>
vars == <<world, late, at, args, todo, request, reply, outcome>>

Settled == {"returned", "raised"}
Places == {"idle", "read", "post", "reload", "reread"} \cup Settled

Requests ==
    [op : {"none", "reload"}]
    \cup [op : {"assign"}, type : {"user", "group"}, to : SUBSET (Targets \cup {Stranger})]
    \cup [op : {"add_key"}, user : Users]
    \cup [op : {"del_key"}, key : KeyIds]
    \cup [op : {"add_env"}, name : EnvNames]
    \cup [op : {"del_env", "activate"}, env : EnvIds]
    \cup [op : {"toggle"}, ruleset : Rulesets, on : BOOLEAN]
NoPost == [op |-> "none"]
Reload == [op |-> "reload"]
LateRequests == [by : Callers, nr : 1..MaxAttempts, req : Requests]

Listed(type) == IF type = "user" THEN Users ELSE Groups
LiveKeys == {k \in KeyIds : world.keys[k] \notin {Unused, Gone}}
LiveEnvs == {e \in EnvIds : world.envs[e] \notin {Unused, Gone}}
Named(name) == {e \in LiveEnvs : world.envs[e] = name}

-----------------------------------------------------------------------------
(* The appliance *)

\* One execution of a request; id is what it answers.  set_item replaces the
\* assignees of one type and takes listed uuids only; a toggle sets the flag.
Perform(req, id) ==
    \/ /\ req.op = "assign" /\ req.to \subseteq Listed(req.type) /\ id = Unused
       /\ world' = [world EXCEPT !.assigned = (@ \ Listed(req.type)) \cup req.to]
    \/ /\ req.op = "add_key" /\ id \in KeyIds /\ world.keys[id] = Unused
       /\ world' = [world EXCEPT !.keys[id] = req.user]
    \/ /\ req.op = "del_key" /\ id = Unused
       /\ world.keys[req.key] # Unused
       /\ world' = [world EXCEPT !.keys[req.key] = Gone]
    \/ /\ req.op = "add_env" /\ id = Unused /\ Named(req.name) = {}
       /\ \E e \in EnvIds : /\ world.envs[e] = Unused
                            /\ world' = [world EXCEPT !.envs[e] = req.name]
    \/ /\ req.op = "del_env" /\ req.env \in LiveEnvs /\ id = Unused
       /\ world' = [world EXCEPT !.envs[req.env] = Gone]
    \/ /\ req.op = "activate" /\ req.env \in LiveEnvs /\ id = Unused
       /\ world' = [world EXCEPT !.boot = req.env]
    \/ /\ req.op = "toggle" /\ id = Unused
       /\ world' = [world EXCEPT !.enabled = IF req.on THEN @ \cup {req.ruleset}
                                             ELSE @ \ {req.ruleset}]
    \/ /\ req.op = "reload" /\ id = Unused
       /\ world' = [world EXCEPT !.inspecting = world.enabled]

Execute(c) ==
    /\ wire[c] = "sent"
    /\ \E id \in KeyIds \cup {Unused} :
          Perform(post[c], id) /\ reply' = [reply EXCEPT ![c] = id]
    /\ wire' = [wire EXCEPT ![c] = "ok"]
    /\ UNCHANGED <<late, at, args, todo, post, attempt, outcome>>

\* Validation, permission, a missing id, a name already in use; or a reload that
\* answers {"status": "failed"}, which reconfigure() raises.
Refuse(c) ==
    /\ wire[c] = "sent"
    /\ wire' = [wire EXCEPT ![c] = "refused"]
    /\ UNCHANGED <<world, late, at, args, todo, post, attempt, reply, outcome>>

LateExecute ==
    /\ \E m \in late :
          /\ late' = late \ {m}
          /\ \E id \in KeyIds \cup {Unused} : Perform(m.req, id)
    /\ UNCHANGED <<at, args, todo, request, reply, outcome>>

-----------------------------------------------------------------------------
(* The callers *)

MoveTo(c, place, req, state, nr) ==
    /\ at' = [at EXCEPT ![c] = place]
    /\ post' = [post EXCEPT ![c] = req]
    /\ wire' = [wire EXCEPT ![c] = state]
    /\ attempt' = [attempt EXCEPT ![c] = nr]

Goto(c, place) == MoveTo(c, place, NoPost, "none", 0) /\ UNCHANGED <<todo, outcome>>
SendTo(c, place, req) == MoveTo(c, place, req, "sent", 1) /\ UNCHANGED outcome
End(c, how, what) ==
    /\ MoveTo(c, how, NoPost, "none", 0)
    /\ outcome' = [outcome EXCEPT ![c] = what]
    /\ UNCHANGED todo

\* The loop over the requests a decision left: in whatever order the rows or the
\* caller's dictionary came.
SendOneOf(c, reqs) ==
    \E req \in reqs :
        /\ SendTo(c, "post", req)
        /\ todo' = [todo EXCEPT ![c] = reqs \ {req}]

\* Nothing to do is a noop; check_mode reports and returns before the first POST.
Proceed(c, reqs) ==
    \/ reqs = {} /\ End(c, "returned", "noop")
    \/ reqs # {} /\ args[c].check /\ End(c, "returned", "would")
    \/ reqs # {} /\ ~args[c].check /\ SendOneOf(c, reqs)

elsewhere == <<world, late, args, reply>>

\* create_key and delete_key read nothing: check mode answers at once.
Start(c) ==
    /\ at[c] = "idle"
    /\ \E call \in Calls :
          /\ args' = [args EXCEPT ![c] = call]
          /\ \/ /\ call.kind \in {"priv", "env"} /\ call.state = "other"
                /\ End(c, "raised", "ValueError")
             \/ /\ call.kind \in {"priv", "env"} /\ call.state # "other"
                /\ Goto(c, "read")
             \/ /\ call.kind \in {"delete_all", "activate", "rules"}
                /\ Goto(c, "read")
             \/ /\ call.kind \in {"create_key", "delete_key"} /\ call.check
                /\ End(c, "returned", "would")
             \/ /\ call.kind = "create_key" /\ ~call.check
                /\ SendOneOf(c, {[op |-> "add_key", user |-> call.user]})
             \/ /\ call.kind = "delete_key" /\ ~call.check
                /\ SendOneOf(c, {[op |-> "del_key", key |-> call.key]})
    /\ UNCHANGED <<world, late, reply>>

\* Mutant: only the call's own target is posted.
OwnTargetOnly(type) == {}

\* The assignees the POST keeps.  A plain list of names maps no name to a uuid.
Selected(type) == IF ListsUuids THEN world.assigned \cap Listed(type) ELSE {}

Assignees(call) ==
    IF call.state = "present" THEN Selected(call.type) \cup {call.target}
    ELSE Selected(call.type) \ {call.target}

\* AuthPrivManager.ensure.
ReadAssignment(c) ==
    /\ at[c] = "read" /\ args[c].kind = "priv"
    /\ LET call == args[c]
           assigned == call.target \in world.assigned \cap Listed(call.type)
       IN Proceed(c, IF assigned = (call.state = "present") THEN {}
                     ELSE {[op |-> "assign", type |-> call.type,
                            to |-> Assignees(call)]})
    /\ UNCHANGED elsewhere

\* A search answers at most PageSize of the live rows.
Pages(live) ==
    {page \in SUBSET live :
        Cardinality(page) = IF Cardinality(live) < PageSize
                            THEN Cardinality(live) ELSE PageSize}

KeysOf(page, user) == {k \in page : world.keys[k] = user}

\* delete_all_keys: the search ignores its parameter, the rows are filtered here.
ReadKeys(c) ==
    /\ at[c] = "read" /\ args[c].kind = "delete_all"
    /\ \E page \in Pages(LiveKeys) :
          Proceed(c, {[op |-> "del_key", key |-> k] : k \in KeysOf(page, args[c].user)})
    /\ UNCHANGED elsewhere

\* _find: the first row of the name, whichever that is, or none.
Finds(name, page) ==
    IF Named(name) \cap page = {} THEN {{}} ELSE {{e} : e \in Named(name) \cap page}

\* CoreSnapshotManager.ensure: by name, then by the uuid of the row.
ReadEnvs(c) ==
    /\ at[c] = "read" /\ args[c].kind = "env"
    /\ \E page \in Pages(LiveEnvs) : \E found \in Finds(args[c].name, page) :
          Proceed(c, IF args[c].state = "absent"
                     THEN {[op |-> "del_env", env |-> e] : e \in found}
                     ELSE IF found = {} THEN {[op |-> "add_env", name |-> args[c].name]}
                     ELSE {})
    /\ UNCHANGED elsewhere

ReadActive(c) ==
    /\ at[c] = "read" /\ args[c].kind = "activate"
    /\ \E page \in Pages(LiveEnvs) : \E found \in Finds(args[c].name, page) :
          IF found = {} THEN End(c, "raised", "KeyError")
          ELSE Proceed(c, {[op |-> "activate", env |-> e] : e \in found \ {world.boot}})
    /\ UNCHANGED elsewhere

\* IdsRulesetManager.ensure_many: one unknown name rejects the whole call.
ReadRulesets(c) ==
    /\ at[c] = "read" /\ args[c].kind = "rules"
    /\ LET want == args[c].want
           drifted == {r \in DOMAIN want : (r \in world.enabled) # want[r]}
       IN IF ~(DOMAIN want \subseteq Rulesets) THEN End(c, "raised", "ValueError")
          ELSE Proceed(c, {[op |-> "toggle", ruleset |-> r, on |-> want[r]] :
                              r \in drifted})
    /\ UNCHANGED elsewhere

\* Mutant: the loop ends after its first deletion.
PostedFirst(c) ==
    /\ at[c] = "post" /\ wire[c] = "ok"
    /\ IF args[c].kind = "rules" /\ args[c].apply
       THEN SendTo(c, "reload", Reload) /\ UNCHANGED todo
       ELSE End(c, "returned", "changed")
    /\ UNCHANGED elsewhere

\* Mutant: the toggles are not followed by a reload.
PostedUnapplied(c) ==
    /\ at[c] = "post" /\ wire[c] = "ok"
    /\ IF todo[c] # {} THEN SendOneOf(c, todo[c]) ELSE End(c, "returned", "changed")
    /\ UNCHANGED elsewhere

\* The next request of the loop; after the last one the IDS reload, the second
\* look for a created environment, or the end.
Posted(c) ==
    /\ at[c] = "post" /\ wire[c] = "ok"
    /\ IF todo[c] # {} THEN SendOneOf(c, todo[c])
       ELSE IF args[c].kind = "rules" /\ args[c].apply
       THEN SendTo(c, "reload", Reload) /\ UNCHANGED todo
       ELSE IF post[c].op = "add_env" THEN Goto(c, "reread")
       ELSE End(c, "returned", "changed")
    /\ UNCHANGED elsewhere

Reloaded(c) ==
    /\ at[c] = "reload" /\ wire[c] = "ok"
    /\ End(c, "returned", "changed")
    /\ UNCHANGED elsewhere

\* _find after the creation only looks up the uuid to report.
Reread(c) ==
    /\ at[c] = "reread"
    /\ End(c, "returned", "changed")
    /\ UNCHANGED elsewhere

ReadFails(c) ==
    /\ at[c] \in {"read", "reread"}
    /\ End(c, "raised", "unavailable")
    /\ UNCHANGED elsewhere

\* Raised out of the loop: what was posted before stays posted.
Refused(c) ==
    /\ wire[c] = "refused"
    /\ End(c, "raised", "refused")
    /\ UNCHANGED elsewhere

\* Mutant: one attempt too many.
RetryPastTheEnd(c) ==
    /\ wire[c] # "none"
    /\ IF attempt[c] <= MaxAttempts
       THEN /\ MoveTo(c, at[c], post[c], "sent", attempt[c] + 1)
            /\ UNCHANGED <<todo, outcome>>
       ELSE End(c, "raised", "unavailable")
    /\ UNCHANGED elsewhere

LoseAnswer(c) ==
    /\ wire[c] # "none"
    /\ \/ UNCHANGED late
       \/ /\ wire[c] = "sent" /\ Cardinality(late) < MaxLate
          /\ late' = late \cup {[by |-> c, nr |-> attempt[c], req |-> post[c]]}
    /\ IF attempt[c] < MaxAttempts
       THEN /\ MoveTo(c, at[c], post[c], "sent", attempt[c] + 1)
            /\ UNCHANGED <<todo, outcome>>
       ELSE End(c, "raised", "unavailable")
    /\ UNCHANGED <<world, args, reply>>

-----------------------------------------------------------------------------
Init ==
    /\ world \in Worlds
    /\ late = {}
    /\ at = [c \in Callers |-> "idle"]
    /\ args = [c \in Callers |-> CHOOSE call \in Calls : TRUE]
    /\ todo = [c \in Callers |-> {}]
    /\ post = [c \in Callers |-> NoPost]
    /\ wire = [c \in Callers |-> "none"]
    /\ attempt = [c \in Callers |-> 0]
    /\ reply = [c \in Callers |-> Unused]
    /\ outcome = [c \in Callers |-> "pending"]

Step(c) ==
    \/ ReadAssignment(c) \/ ReadKeys(c) \/ ReadEnvs(c) \/ ReadActive(c)
    \/ ReadRulesets(c) \/ Posted(c) \/ Reloaded(c) \/ Reread(c)
    \/ ReadFails(c) \/ Refused(c) \/ LoseAnswer(c)

Next ==
    \/ \E c \in Callers : Start(c) \/ Step(c) \/ Execute(c) \/ Refuse(c)
    \/ LateExecute

Spec == Init /\ [][Next]_vars

-----------------------------------------------------------------------------
(* Properties *)

TypeOK ==
    /\ world \in WorldType
    /\ late \subseteq LateRequests
    /\ at \in [Callers -> Places]
    /\ args \in [Callers -> Calls]
    /\ todo \in [Callers -> SUBSET Requests]
    /\ post \in [Callers -> Requests]
    /\ wire \in [Callers -> {"none", "sent", "ok", "refused"}]
    /\ attempt \in [Callers -> 0..MaxAttempts]
    /\ reply \in [Callers -> KeyIds \cup {Unused}]
    /\ outcome \in [Callers -> {"pending", "noop", "would", "changed", "ValueError",
                                "KeyError", "refused", "unavailable"}]

\* The calls of one kind that may write.
Asking(kind) == {c \in Callers : at[c] # "idle" /\ args[c].kind = kind /\ ~args[c].check}

\* A list rebuilt from what was read, rows filtered on this side of a search that
\* answers everybody's, ids looked up by name: whoever works at the same time and
\* whatever runs late, a step changes only what some call that is not a dry run
\* names: its target, its key or its user's keys, its environment, its rulesets.
OthersStay ==
    [][/\ \A t \in Targets : (t \in world.assigned) # (t \in world'.assigned) =>
             \E c \in Asking("priv") : args[c].target = t
       /\ \A k \in KeyIds : world'.keys[k] # world.keys[k] =>
             \/ /\ world.keys[k] = Unused
                /\ \E c \in Asking("create_key") : args[c].user = world'.keys[k]
             \/ /\ world'.keys[k] = Gone
                /\ \/ \E c \in Asking("delete_key") : args[c].key = k
                   \/ \E c \in Asking("delete_all") : args[c].user = world.keys[k]
       /\ \A e \in EnvIds : world'.envs[e] # world.envs[e] =>
             \E c \in Asking("env") :
                IF args[c].state = "present" THEN world'.envs[e] = args[c].name
                ELSE world'.envs[e] = Gone /\ world.envs[e] = args[c].name
       /\ world'.boot # world.boot =>
             \E c \in Asking("activate") : world.envs[world'.boot] = args[c].name
       /\ \A r \in Rulesets : (r \in world'.enabled) # (r \in world.enabled) =>
             \E c \in Asking("rules") :
                r \in DOMAIN args[c].want /\ args[c].want[r] = (r \in world'.enabled)]_vars

AsWanted(c) ==
    LET call == args[c] IN
    CASE call.kind = "priv" ->
            (call.target \in world.assigned \cap Listed(call.type)) = (call.state = "present")
      [] call.kind = "create_key" -> reply[c] # Unused /\ world.keys[reply[c]] = call.user
      [] call.kind = "delete_key" -> world.keys[call.key] = Gone
      [] call.kind = "delete_all" -> \A k \in KeyIds : world.keys[k] # call.user
      [] call.kind = "env" -> (Named(call.name) # {}) = (call.state = "present")
      [] call.kind = "activate" -> world.envs[world.boot] = call.name
      [] call.kind = "rules" ->
            \A r \in DOMAIN call.want : (r \in world.enabled) = call.want[r]

RulesContested(c, d) ==
    \E r \in DOMAIN args[c].want \cap DOMAIN args[d].want :
        args[c].want[r] # args[d].want[r]

\* Two calls at cross purposes.  Two assignments of one privilege to different
\* targets of one type are: each posts its list over the other's.
AtOdds(c, d) ==
    LET call == args[c]
        other == args[d]
    IN CASE call.kind = "priv" ->
               /\ d \in Asking("priv") /\ call.type = other.type
               /\ <<call.target, call.state>> # <<other.target, other.state>>
         [] call.kind = "create_key" ->
               \/ d \in Asking("delete_key") /\ other.key = reply[c]
               \/ d \in Asking("delete_all") /\ other.user = call.user
         [] call.kind = "delete_all" -> d \in Asking("create_key") /\ call.user = other.user
         [] call.kind = "env" ->
               d \in Asking("env") /\ call.name = other.name /\ call.state # other.state
         [] call.kind = "activate" ->
               \/ d \in Asking("activate") /\ call.name # other.name
               \/ d \in Asking("env") /\ call.name = other.name /\ other.state = "absent"
         [] call.kind = "rules" -> d \in Asking("rules") /\ RulesContested(c, d)
         [] OTHER -> FALSE

\* Every row there ever was fits the one page a search reads.
OnePage ==
    /\ Cardinality({k \in KeyIds : world.keys[k] # Unused}) <= PageSize
    /\ Cardinality({e \in EnvIds : world.envs[e] # Unused}) <= PageSize

\* "Ensure a privilege is assigned", "Delete all API keys for a user", "Ensure a
\* set of rulesets match desired": a call that returned without check_mode left
\* what it names as it asked, after retries, requests executed late and however
\* many requests it took, unless another call is at odds with it.
AsAsked ==
    \A c \in Callers :
        /\ at[c] = "returned" /\ ~args[c].check /\ OnePage
        /\ \A d \in Callers \ {c} : ~AtOdds(c, d)
        => AsWanted(c)

\* Toggling "only flags a set"; the reload at the end of the loop activates it.
\* When every call so far has returned, none of them batching with apply=False
\* and no two at odds, the running IDS has the rulesets that are enabled.
RulesLoaded ==
    /\ \A c \in Callers : at[c] \in {"idle", "returned"}
    /\ \A c \in Asking("rules") :
          args[c].apply /\ \A d \in Asking("rules") : ~RulesContested(c, d)
    => world.inspecting = world.enabled
=============================================================================
