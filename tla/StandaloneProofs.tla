-------------------------- MODULE StandaloneProofs --------------------------
(***************************************************************************)
(* For any number of callers, users, keys, environments, rulesets and      *)
(* retries: the types of Standalone; that a step changes only what a call  *)
(* names (OthersStay), where a privilege lists its assignees by uuid; that *)
(* what a call returned is as it asked (AsAsked), where the ids given out  *)
(* are finitely many; and that the running IDS has what the calls enabled  *)
(* (RulesLoaded), where it ran what was saved to begin with.               *)
(***************************************************************************)
EXTENDS Standalone, FiniteSetTheorems, TLAPS

Outcomes == {"pending", "noop", "would", "changed", "ValueError", "KeyError", "refused",
             "unavailable"}

\* What a caller has in flight, and where.
Place(c) ==
    /\ at[c] \notin {"post", "reload"} => wire[c] = "none"
    /\ wire[c] # "none" => attempt[c] \in 1..MaxAttempts
    /\ at[c] = "read" /\ args[c].kind = "env" => args[c].state # "other"

TypeInv == TypeOK /\ UniquelyNamed(world) /\ \A c \in Callers : Place(c)

\* Whatever a request would change when it runs is named by a call.
Backed(req) ==
    /\ req.op = "assign" =>
          \A t \in Listed(req.type) : ~(t \in req.to <=> t \in world.assigned) =>
              \E c \in Asking("priv") : args[c].target = t
    /\ req.op = "add_key" => \E c \in Asking("create_key") : args[c].user = req.user
    /\ req.op = "del_key" =>
          \/ \E c \in Asking("delete_key") : args[c].key = req.key
          \/ world.keys[req.key] = Gone
          \/ /\ world.keys[req.key] # Unused
             /\ \E c \in Asking("delete_all") : args[c].user = world.keys[req.key]
    /\ req.op = "add_env" =>
          \E c \in Asking("env") : args[c].state = "present" /\ args[c].name = req.name
    /\ req.op = "del_env" =>
          \/ world.envs[req.env] = Gone
          \/ /\ world.envs[req.env] # Unused
             /\ \E c \in Asking("env") :
                   args[c].state # "present" /\ args[c].name = world.envs[req.env]
    /\ req.op = "activate" =>
          \/ world.envs[req.env] = Gone
          \/ /\ world.envs[req.env] # Unused
             /\ \E c \in Asking("activate") : args[c].name = world.envs[req.env]
    /\ req.op = "toggle" =>
          \E c \in Asking("rules") :
              req.ruleset \in DOMAIN args[c].want /\ args[c].want[req.ruleset] = req.on

BackInv ==
    /\ \A c \in Callers : Backed(post[c]) /\ \A req \in todo[c] : Backed(req)
    /\ \A m \in late : Backed(m.req)

-----------------------------------------------------------------------------
(* The data *)

\* The parts of a call, by its kind.
LEMMA CallParts ==
    ASSUME NEW call \in Calls
    PROVE  /\ call.kind = "priv" => /\ call.type \in {"user", "group"}
                                    /\ call.target \in Targets \cup {Stranger}
           /\ call.kind \in {"create_key", "delete_all"} => call.user \in Users
           /\ call.kind = "delete_key" => call.key \in KeyIds
           /\ call.kind \in {"env", "activate"} => call.name \in EnvNames
           /\ call.kind = "env" => call.state \in {"present", "absent", "other"}
           /\ call.kind = "rules" => \A r \in DOMAIN call.want : call.want[r] \in BOOLEAN
<1>1. call \in CallType
  BY CallAssumption
<1>2. CASE call \in [kind : {"rules"}, check : BOOLEAN, apply : BOOLEAN,
          want : UNION {[S -> BOOLEAN] : S \in SUBSET (Rulesets \cup {Stranger})}]
  BY <1>2
<1>3. CASE call \in [kind : {"priv"}, state : {"present", "absent", "other"},
          type : {"user", "group"}, target : Targets \cup {Stranger}, check : BOOLEAN]
  BY <1>3
<1>4. CASE call \in [kind : {"create_key", "delete_all"}, user : Users, check : BOOLEAN]
  BY <1>4
<1>5. CASE call \in [kind : {"delete_key"}, key : KeyIds, check : BOOLEAN]
  BY <1>5
<1>6. CASE call \in [kind : {"env"}, state : {"present", "absent", "other"},
          name : EnvNames, check : BOOLEAN]
  BY <1>6
<1>7. CASE call \in [kind : {"activate"}, name : EnvNames, check : BOOLEAN]
  BY <1>7
<1> QED
  BY <1>1, <1>2, <1>3, <1>4, <1>5, <1>6, <1>7 DEF CallType

\* The parts of a request, by its operation.
LEMMA RequestParts ==
    ASSUME NEW req \in Requests
    PROVE  /\ req.op = "assign" => req.type \in {"user", "group"}
           /\ req.op = "add_key" => req.user \in Users
           /\ req.op = "del_key" => req.key \in KeyIds
           /\ req.op = "add_env" => req.name \in EnvNames
           /\ req.op \in {"del_env", "activate"} => req.env \in EnvIds
           /\ req.op = "toggle" => req.ruleset \in Rulesets /\ req.on \in BOOLEAN
  BY DEF Requests

LEMMA WorldParts ==
    ASSUME NEW w \in WorldType
    PROVE  /\ w.assigned \in SUBSET Targets
           /\ w.keys \in [KeyIds -> Users \cup {Unused, Gone}]
           /\ w.envs \in [EnvIds -> EnvNames \cup {Unused, Gone}]
           /\ w.boot \in EnvIds
           /\ w.enabled \in SUBSET Rulesets /\ w.inspecting \in SUBSET Rulesets
  BY DEF WorldType

\* One execution changes one part of the appliance.
LEMMA PerformParts ==
    ASSUME world \in WorldType, NEW req \in Requests, NEW id \in KeyIds \cup {Unused},
           Perform(req, id)
    PROVE  /\ world' \in WorldType
           /\ world'.assigned = IF req.op = "assign"
                                THEN (world.assigned \ Listed(req.type)) \cup req.to
                                ELSE world.assigned
           /\ req.op = "assign" => req.to \subseteq Listed(req.type)
           /\ \A k \in KeyIds : world'.keys[k] # world.keys[k] =>
                 \/ /\ req.op = "add_key" /\ world.keys[k] = Unused
                    /\ world'.keys[k] = req.user
                 \/ /\ req.op = "del_key" /\ k = req.key /\ world.keys[k] # Unused
                    /\ world'.keys[k] = Gone
           /\ \A e \in EnvIds : world'.envs[e] # world.envs[e] =>
                 \/ /\ req.op = "add_env" /\ world.envs[e] = Unused
                    /\ world'.envs[e] = req.name
                 \/ /\ req.op = "del_env" /\ e = req.env /\ e \in LiveEnvs
                    /\ world'.envs[e] = Gone
           /\ world'.boot # world.boot =>
                 req.op = "activate" /\ world'.boot = req.env /\ req.env \in LiveEnvs
           /\ \A r \in Rulesets : ~(r \in world'.enabled <=> r \in world.enabled) =>
                 req.op = "toggle" /\ r = req.ruleset /\ (r \in world'.enabled) = req.on
<1>1. /\ world.assigned \in SUBSET Targets
      /\ world.keys \in [KeyIds -> Users \cup {Unused, Gone}]
      /\ world.envs \in [EnvIds -> EnvNames \cup {Unused, Gone}]
      /\ world.boot \in EnvIds
      /\ world.enabled \in SUBSET Rulesets /\ world.inspecting \in SUBSET Rulesets
  BY WorldParts
<1>2. CASE /\ req.op = "assign" /\ req.to \subseteq Listed(req.type)
           /\ world' = [world EXCEPT !.assigned = (@ \ Listed(req.type)) \cup req.to]
  <2>1. (world.assigned \ Listed(req.type)) \cup req.to \in SUBSET Targets
    BY <1>1, <1>2 DEF Listed, Targets
  <2> QED
    BY <1>2, <2>1 DEF WorldType
<1>3. CASE /\ req.op = "add_key" /\ id \in KeyIds /\ world.keys[id] = Unused
           /\ world' = [world EXCEPT !.keys[id] = req.user]
  BY <1>1, <1>3, RequestParts DEF WorldType
<1>4. CASE /\ req.op = "del_key" /\ world.keys[req.key] # Unused
           /\ world' = [world EXCEPT !.keys[req.key] = Gone]
  BY <1>1, <1>4, RequestParts DEF WorldType
<1>5. CASE /\ req.op = "add_env"
           /\ \E e \in EnvIds : /\ world.envs[e] = Unused
                                /\ world' = [world EXCEPT !.envs[e] = req.name]
  BY <1>1, <1>5, RequestParts DEF WorldType
<1>6. CASE /\ req.op = "del_env" /\ req.env \in LiveEnvs
           /\ world' = [world EXCEPT !.envs[req.env] = Gone]
  BY <1>1, <1>6, RequestParts DEF WorldType
<1>7. CASE /\ req.op = "activate" /\ req.env \in LiveEnvs
           /\ world' = [world EXCEPT !.boot = req.env]
  BY <1>1, <1>7, RequestParts DEF WorldType
<1>8. CASE /\ req.op = "toggle"
           /\ world' = [world EXCEPT !.enabled = IF req.on THEN @ \cup {req.ruleset}
                                                 ELSE @ \ {req.ruleset}]
  BY <1>1, <1>8, RequestParts DEF WorldType
<1>9. CASE req.op = "reload" /\ world' = [world EXCEPT !.inspecting = world.enabled]
  BY <1>1, <1>9 DEF WorldType
<1> QED
  BY <1>2, <1>3, <1>4, <1>5, <1>6, <1>7, <1>8, <1>9 DEF Perform

-----------------------------------------------------------------------------
(* Types *)

\* The part of TypeOK that moving on disturbs.
MovesOK ==
    /\ at \in [Callers -> Places]
    /\ todo \in [Callers -> SUBSET Requests]
    /\ post \in [Callers -> Requests]
    /\ wire \in [Callers -> {"none", "sent", "ok", "refused"}]
    /\ attempt \in [Callers -> 0..MaxAttempts]
    /\ outcome \in [Callers -> Outcomes]

LEMMA TypeParts ==
    TypeOK <=> /\ MovesOK /\ world \in WorldType /\ late \subseteq LateRequests
               /\ args \in [Callers -> Calls] /\ reply \in [Callers -> KeyIds \cup {Unused}]
  BY DEF TypeOK, MovesOK, Outcomes

LEMMA TypeAfter ==
    ASSUME MovesOK', world' \in WorldType, late' \subseteq LateRequests,
           args' \in [Callers -> Calls], reply' \in [Callers -> KeyIds \cup {Unused}]
    PROVE  TypeOK'
  BY DEF TypeOK, MovesOK, Outcomes

\* A caller that moves on has in flight what it moves on with, the others what
\* they had.
Moves(c, place, req, state, nr) ==
    /\ at'[c] = place /\ post'[c] = req /\ wire'[c] = state /\ attempt'[c] = nr
    /\ \A d \in Callers \ {c} : /\ at'[d] = at[d] /\ post'[d] = post[d]
                                /\ wire'[d] = wire[d] /\ attempt'[d] = attempt[d]
                                /\ todo'[d] = todo[d]

LEMMA MoveToTyped ==
    ASSUME MovesOK, NEW c \in Callers, NEW place \in Places, NEW req \in Requests,
           NEW state \in {"none", "sent", "ok", "refused"}, NEW nr \in 0..MaxAttempts,
           MoveTo(c, place, req, state, nr), outcome' \in [Callers -> Outcomes],
           NEW reqs \in SUBSET Requests, todo' = todo \/ todo' = [todo EXCEPT ![c] = reqs]
    PROVE  MovesOK' /\ Moves(c, place, req, state, nr)
  BY DEF MovesOK, MoveTo, Moves

LEMMA EndTyped ==
    ASSUME MovesOK, NEW c \in Callers, NEW how \in Settled, NEW what \in Outcomes,
           End(c, how, what)
    PROVE  MovesOK' /\ Moves(c, how, NoPost, "none", 0) /\ todo' = todo
<1>1. NoPost \in Requests /\ how \in Places
  BY DEF NoPost, Requests, Places
<1>2. outcome' \in [Callers -> Outcomes]
  BY DEF End, MovesOK
<1> QED
  BY <1>1, <1>2, MoveToTyped, BoundAssumption DEF End

LEMMA GotoTyped ==
    ASSUME MovesOK, NEW c \in Callers, NEW place \in Places, Goto(c, place)
    PROVE  MovesOK' /\ Moves(c, place, NoPost, "none", 0) /\ todo' = todo
<1>1. NoPost \in Requests
  BY DEF NoPost, Requests
<1>2. MoveTo(c, place, NoPost, "none", 0) /\ UNCHANGED <<todo, outcome>>
  BY DEF Goto
<1>3. outcome' \in [Callers -> Outcomes]
  BY <1>2 DEF MovesOK
<1>4. 0 \in 0..MaxAttempts
  BY BoundAssumption
<1> QED
  BY <1>1, <1>2, <1>3, <1>4, MoveToTyped

\* The next request of a loop is one of those left.
LEMMA SendTyped ==
    ASSUME MovesOK, NEW c \in Callers, NEW reqs \in SUBSET Requests, SendOneOf(c, reqs)
    PROVE  \E req \in reqs : /\ MovesOK' /\ Moves(c, "post", req, "sent", 1)
                             /\ todo'[c] = reqs \ {req}
<1>1. PICK req \in reqs : SendTo(c, "post", req) /\ todo' = [todo EXCEPT ![c] = reqs \ {req}]
  BY DEF SendOneOf
<1>2. MoveTo(c, "post", req, "sent", 1) /\ outcome' = outcome
  BY <1>1 DEF SendTo
<1>3. /\ "post" \in Places /\ 1 \in 0..MaxAttempts /\ req \in Requests
      /\ reqs \ {req} \in SUBSET Requests /\ outcome' \in [Callers -> Outcomes]
  BY <1>2, BoundAssumption DEF MovesOK, Places
<1>4. MovesOK' /\ Moves(c, "post", req, "sent", 1)
  BY <1>1, <1>2, <1>3, MoveToTyped
<1> QED
  BY <1>1, <1>4 DEF MovesOK

\* What a step of one caller may do to the requests in flight: with `reqs`, those
\* it decided on.
Progress(c, reqs) ==
    /\ MovesOK'
    /\ at'[c] # "idle"
    /\ at'[c] = "read" => at[c] = "idle"
    /\ at'[c] \notin {"post", "reload"} => wire'[c] = "none"
    /\ wire'[c] # "none" => attempt'[c] \in 1..MaxAttempts
    /\ post'[c] \in reqs \cup {NoPost, Reload}
    /\ todo'[c] \subseteq todo[c] \cup reqs
    /\ \A d \in Callers \ {c} : /\ at'[d] = at[d] /\ post'[d] = post[d]
                                /\ wire'[d] = wire[d] /\ attempt'[d] = attempt[d]
                                /\ todo'[d] = todo[d]

LEMMA ProgressTyped ==
    ASSUME MovesOK, NEW c \in Callers, NEW reqs \in SUBSET Requests
    PROVE  /\ \A how \in Settled, what \in Outcomes :
                 End(c, how, what) => Progress(c, reqs)
           /\ Goto(c, "reread") => Progress(c, reqs)
           /\ at[c] = "idle" /\ Goto(c, "read") => Progress(c, reqs)
           /\ SendOneOf(c, reqs) => Progress(c, reqs)
           /\ SendTo(c, "reload", Reload) /\ UNCHANGED todo => Progress(c, reqs)
           /\ Proceed(c, reqs) => Progress(c, IF args[c].check THEN {} ELSE reqs)
<1>1. ASSUME NEW how \in Settled, NEW what \in Outcomes, End(c, how, what), NEW S
      PROVE  Progress(c, S)
  BY <1>1, EndTyped DEF Progress, Moves, Settled
<1>2. ASSUME NEW place \in {"read", "reread"}, Goto(c, place),
             place = "read" => at[c] = "idle"
      PROVE  Progress(c, reqs)
  <2>1. place \in Places
    BY DEF Places
  <2> QED
    BY <1>2, <2>1, GotoTyped DEF Progress, Moves
<1>3. ASSUME SendOneOf(c, reqs) PROVE Progress(c, reqs)
  BY <1>3, SendTyped, BoundAssumption DEF Progress, Moves
<1>4. ASSUME SendTo(c, "reload", Reload), UNCHANGED todo PROVE Progress(c, reqs)
  <2>1. MoveTo(c, "reload", Reload, "sent", 1) /\ outcome' = outcome
    BY <1>4 DEF SendTo
  <2>2. /\ "reload" \in Places /\ 1 \in 0..MaxAttempts /\ 1 \in 1..MaxAttempts
        /\ Reload \in Requests /\ outcome' \in [Callers -> Outcomes]
    BY <2>1, BoundAssumption DEF MovesOK, Places, Reload, Requests
  <2>3. MovesOK' /\ Moves(c, "reload", Reload, "sent", 1)
    BY <1>4, <2>1, <2>2, MoveToTyped
  <2> QED
    BY <1>4, <2>2, <2>3 DEF Progress, Moves
<1>5. ASSUME Proceed(c, reqs) PROVE Progress(c, IF args[c].check THEN {} ELSE reqs)
  <2>1. CASE \E what \in {"noop", "would"} : End(c, "returned", what)
    BY <1>1, <2>1 DEF Settled, Outcomes
  <2>2. CASE ~args[c].check /\ SendOneOf(c, reqs)
    BY <1>3, <2>2
  <2> QED
    BY <1>5, <2>1, <2>2 DEF Proceed
<1> QED
  BY <1>1, <1>2, <1>3, <1>4, <1>5

-----------------------------------------------------------------------------
(* What a read decides *)

\* A decision: requests, each for what the call names.
Decides(c, reqs) ==
    /\ reqs \in SUBSET Requests /\ Progress(c, reqs)
    /\ ListsUuids => \A req \in reqs : Backed(req)

\* A dry run decides on nothing.
LEMMA ProceedDecides ==
    ASSUME TypeInv, NEW c \in Callers, NEW reqs \in SUBSET Requests, Proceed(c, reqs),
           ~args[c].check /\ ListsUuids => \A req \in reqs : Backed(req)
    PROVE  \E S : Decides(c, S)
<1>1. MovesOK
  BY TypeParts DEF TypeInv
<1>2. Progress(c, IF args[c].check THEN {} ELSE reqs)
  BY <1>1, ProgressTyped
<1>3. Decides(c, IF args[c].check THEN {} ELSE reqs)
  BY <1>2 DEF Decides
<1> QED
  BY <1>3

LEMMA EndDecides ==
    ASSUME TypeInv, NEW c \in Callers, NEW how \in Settled, NEW what \in Outcomes,
           End(c, how, what)
    PROVE  \E S : Decides(c, S)
<1>1. MovesOK /\ {} \in SUBSET Requests
  BY TypeParts DEF TypeInv
<1>2. Progress(c, {})
  BY <1>1, ProgressTyped
<1>3. Decides(c, {})
  BY <1>2 DEF Decides
<1> QED
  BY <1>3

LEMMA AssignmentDecides ==
    ASSUME TypeInv, NEW c \in Callers, ReadAssignment(c)
    PROVE  \E S : Decides(c, S)
<1> DEFINE call == args[c]
           req == [op |-> "assign", type |-> call.type, to |-> Assignees(call)]
<1>1. /\ at[c] = "read" /\ call.kind = "priv" /\ call \in Calls /\ world \in WorldType
      /\ Proceed(c, {}) \/ Proceed(c, {req})
  BY TypeParts DEF ReadAssignment, TypeInv, MovesOK
<1>2. /\ call.type \in {"user", "group"} /\ call.target \in Targets \cup {Stranger}
      /\ world.assigned \in SUBSET Targets
  BY <1>1, CallParts, WorldParts
<1>3. Assignees(call) \in SUBSET (Targets \cup {Stranger})
  BY <1>2 DEF Assignees, Selected
<1>4. req \in Requests
  BY <1>2, <1>3 DEF Requests
<1>5. ASSUME ~call.check, ListsUuids PROVE Backed(req)
  <2>1. c \in Asking("priv")
    BY <1>1, <1>5 DEF Asking
  <2>2. \A t \in Listed(call.type) :
           ~(t \in Assignees(call) <=> t \in world.assigned) => call.target = t
    BY <1>5 DEF Assignees, Selected
  <2> QED
    BY <2>1, <2>2 DEF Backed
<1> QED
  BY <1>1, <1>4, <1>5, ProceedDecides

LEMMA KeysDecide ==
    ASSUME TypeInv, NEW c \in Callers, ReadKeys(c)
    PROVE  \E S : Decides(c, S)
<1>1. PICK page \in Pages(LiveKeys) :
         Proceed(c, {[op |-> "del_key", key |-> k] : k \in KeysOf(page, args[c].user)})
  BY DEF ReadKeys
<1> DEFINE reqs == {[op |-> "del_key", key |-> k] : k \in KeysOf(page, args[c].user)}
<1>2. at[c] = "read" /\ args[c].kind = "delete_all" /\ args[c] \in Calls
  BY TypeParts DEF ReadKeys, TypeInv
<1>3. args[c].user \in Users
  BY <1>2, CallParts
<1>4. \A k \in KeysOf(page, args[c].user) : k \in KeyIds /\ world.keys[k] = args[c].user
  BY DEF KeysOf, Pages, LiveKeys
<1>5. reqs \in SUBSET Requests
  BY <1>4 DEF Requests
<1>6. ASSUME ~args[c].check, NEW k \in KeysOf(page, args[c].user)
      PROVE  Backed([op |-> "del_key", key |-> k])
  <2>1. c \in Asking("delete_all")
    BY <1>2, <1>6 DEF Asking
  <2>2. world.keys[k] # Unused
    BY <1>3, <1>4, NameAssumption
  <2> QED
    BY <1>4, <2>1, <2>2 DEF Backed
<1>7. ~args[c].check => \A req \in reqs : Backed(req)
  BY <1>6
<1> QED
  BY <1>1, <1>5, <1>7, ProceedDecides

\* The row a search by name comes to, if it comes to one, has the name.
LEMMA FindsSome ==
    ASSUME NEW name, NEW page, NEW found \in Finds(name, page)
    PROVE  found \subseteq Named(name) \cap page
  BY DEF Finds

\* No two environments have one name: what the search finds is all there is.
LEMMA FindsAll ==
    ASSUME UniquelyNamed(world), NEW name \in EnvNames, NEW found \in Finds(name, LiveEnvs)
    PROVE  found = Named(name)
<1>1. Named(name) \cap LiveEnvs = Named(name)
  BY DEF Named
<1>2. \A d, e \in Named(name) : d = e
  BY DEF Named, LiveEnvs, UniquelyNamed
<1> QED
  BY <1>1, <1>2 DEF Finds

LEMMA EnvsDecide ==
    ASSUME TypeInv, NEW c \in Callers, ReadEnvs(c)
    PROVE  \E S : Decides(c, S)
<1>0. PICK page \in Pages(LiveEnvs) : \E found \in Finds(args[c].name, page) :
         Proceed(c, IF args[c].state = "absent"
                    THEN {[op |-> "del_env", env |-> e] : e \in found}
                    ELSE IF found = {} THEN {[op |-> "add_env", name |-> args[c].name]}
                    ELSE {})
  BY DEF ReadEnvs
<1>1. PICK found \in Finds(args[c].name, page) :
         Proceed(c, IF args[c].state = "absent"
                    THEN {[op |-> "del_env", env |-> e] : e \in found}
                    ELSE IF found = {} THEN {[op |-> "add_env", name |-> args[c].name]}
                    ELSE {})
  BY <1>0
<1> DEFINE deleted == {[op |-> "del_env", env |-> e] : e \in found}
           added == {[op |-> "add_env", name |-> args[c].name]}
<1>2. at[c] = "read" /\ args[c].kind = "env" /\ args[c] \in Calls
  BY TypeParts DEF ReadEnvs, TypeInv
<1>3. /\ args[c].name \in EnvNames
      /\ args[c].state \in {"present", "absent"}
  BY <1>2, CallParts DEF TypeInv, Place
<1>4. \A e \in found : e \in EnvIds /\ world.envs[e] = args[c].name
                       /\ world.envs[e] # Unused
  BY FindsSome DEF Named, LiveEnvs
<1>5. CASE args[c].state = "absent" /\ Proceed(c, deleted)
  <2>1. deleted \in SUBSET Requests
    BY <1>4 DEF Requests
  <2>2. ASSUME ~args[c].check, NEW e \in found PROVE Backed([op |-> "del_env", env |-> e])
    <3>1. c \in Asking("env")
      BY <1>2, <2>2 DEF Asking
    <3> QED
      BY <1>4, <1>5, <3>1 DEF Backed
  <2>3. ~args[c].check => \A req \in deleted : Backed(req)
    BY <2>2
  <2> QED
    BY <1>5, <2>1, <2>3, ProceedDecides
<1>6. CASE args[c].state # "absent" /\ (Proceed(c, added) \/ Proceed(c, {}))
  <2>1. added \in SUBSET Requests
    BY <1>3 DEF Requests
  <2>2. ASSUME ~args[c].check PROVE Backed([op |-> "add_env", name |-> args[c].name])
    <3>1. c \in Asking("env")
      BY <1>2, <2>2 DEF Asking
    <3> QED
      BY <1>3, <1>6, <3>1 DEF Backed
  <2> QED
    BY <1>6, <2>1, <2>2, ProceedDecides
<1> QED
  BY <1>1, <1>5, <1>6

LEMMA ActiveDecides ==
    ASSUME TypeInv, NEW c \in Callers, ReadActive(c)
    PROVE  \E S : Decides(c, S)
<1>0. PICK page \in Pages(LiveEnvs) : \E found \in Finds(args[c].name, page) :
         IF found = {} THEN End(c, "raised", "KeyError")
         ELSE Proceed(c, {[op |-> "activate", env |-> e] : e \in found \ {world.boot}})
  BY DEF ReadActive
<1>1. PICK found \in Finds(args[c].name, page) :
         IF found = {} THEN End(c, "raised", "KeyError")
         ELSE Proceed(c, {[op |-> "activate", env |-> e] : e \in found \ {world.boot}})
  BY <1>0
<1> DEFINE reqs == {[op |-> "activate", env |-> e] : e \in found \ {world.boot}}
<1>2. at[c] = "read" /\ args[c].kind = "activate" /\ args[c] \in Calls
  BY TypeParts DEF ReadActive, TypeInv
<1>3. \A e \in found : e \in EnvIds /\ world.envs[e] = args[c].name
                       /\ world.envs[e] # Unused
  BY FindsSome DEF Named, LiveEnvs
<1>4. reqs \in SUBSET Requests
  BY <1>3 DEF Requests
<1>5. ASSUME ~args[c].check, NEW e \in found PROVE Backed([op |-> "activate", env |-> e])
  <2>1. c \in Asking("activate")
    BY <1>2, <1>5 DEF Asking
  <2> QED
    BY <1>3, <2>1 DEF Backed
<1>6. ~args[c].check => \A req \in reqs : Backed(req)
  BY <1>5
<1>7. CASE End(c, "raised", "KeyError")
  BY <1>7, EndDecides DEF Settled, Outcomes
<1>8. CASE Proceed(c, reqs)
  BY <1>4, <1>6, <1>8, ProceedDecides
<1> QED
  BY <1>1, <1>7, <1>8

LEMMA RulesetsDecide ==
    ASSUME TypeInv, NEW c \in Callers, ReadRulesets(c)
    PROVE  \E S : Decides(c, S)
<1> DEFINE want == args[c].want
           drifted == {r \in DOMAIN want : (r \in world.enabled) # want[r]}
           reqs == {[op |-> "toggle", ruleset |-> r, on |-> want[r]] : r \in drifted}
<1>1. /\ at[c] = "read" /\ args[c].kind = "rules" /\ args[c] \in Calls
      /\ IF ~(DOMAIN want \subseteq Rulesets) THEN End(c, "raised", "ValueError")
         ELSE Proceed(c, reqs)
  BY TypeParts DEF ReadRulesets, TypeInv
<1>2. CASE End(c, "raised", "ValueError")
  BY <1>2, EndDecides DEF Settled, Outcomes
<1>3. CASE DOMAIN want \subseteq Rulesets /\ Proceed(c, reqs)
  <2>1. \A r \in drifted : r \in Rulesets /\ r \in DOMAIN want /\ want[r] \in BOOLEAN
    BY <1>1, <1>3, CallParts
  <2>2. reqs \in SUBSET Requests
    BY <2>1 DEF Requests
  <2>3. ASSUME ~args[c].check, NEW r \in drifted
        PROVE  Backed([op |-> "toggle", ruleset |-> r, on |-> want[r]])
    <3>1. c \in Asking("rules")
      BY <1>1, <2>3 DEF Asking
    <3> QED
      BY <2>1, <3>1 DEF Backed
  <2>4. ~args[c].check => \A req \in reqs : Backed(req)
    BY <2>3
  <2> QED
    BY <1>3, <2>2, <2>4, ProceedDecides
<1> QED
  BY <1>1, <1>2, <1>3

\* Every other step of a caller goes on with what was decided.
LEMMA PostedDecides ==
    ASSUME TypeInv, NEW c \in Callers,
           Posted(c) \/ Reloaded(c) \/ Reread(c) \/ ReadFails(c) \/ Refused(c)
    PROVE  Progress(c, todo[c])
<1>1. MovesOK /\ todo[c] \in SUBSET Requests
  BY TypeParts DEF TypeInv, MovesOK
<1>2. \/ End(c, "returned", "changed") \/ End(c, "raised", "unavailable")
      \/ End(c, "raised", "refused")
      \/ Goto(c, "reread") \/ SendOneOf(c, todo[c])
      \/ SendTo(c, "reload", Reload) /\ UNCHANGED todo
  BY DEF Posted, Reloaded, Reread, ReadFails, Refused
<1>3. /\ {"returned", "raised"} \subseteq Settled
      /\ {"changed", "unavailable", "refused"} \subseteq Outcomes
  BY DEF Settled, Outcomes
<1> QED
  BY <1>1, <1>2, <1>3, ProgressTyped

\* A step of a caller after its start, but for a lost answer.
LEMMA StepProgress ==
    ASSUME TypeInv, NEW c \in Callers, Step(c), ~LoseAnswer(c)
    PROVE  \E S \in SUBSET Requests :
              /\ at[c] # "idle" /\ Progress(c, S) /\ UNCHANGED elsewhere
              /\ ListsUuids => \A req \in S : req \in todo[c] \/ Backed(req)
<1>1. UNCHANGED elsewhere /\ at[c] # "idle"
  BY DEF Step, ReadAssignment, ReadKeys, ReadEnvs, ReadActive, ReadRulesets, Posted,
     Reloaded, Reread, ReadFails, Refused, TypeInv, Place
<1>2. CASE \E S : Decides(c, S)
  BY <1>1, <1>2 DEF Decides
<1>3. CASE Posted(c) \/ Reloaded(c) \/ Reread(c) \/ ReadFails(c) \/ Refused(c)
  <2>1. todo[c] \in SUBSET Requests
    BY TypeParts DEF TypeInv, MovesOK
  <2> QED
    BY <1>1, <1>3, <2>1, PostedDecides
<1> QED
  BY <1>2, <1>3, AssignmentDecides, KeysDecide, EnvsDecide, ActiveDecides, RulesetsDecide
     DEF Step

LEMMA StartProgress ==
    ASSUME TypeInv, NEW c \in Callers, Start(c)
    PROVE  /\ at[c] = "idle" /\ UNCHANGED <<world, late, reply>>
           /\ args' \in [Callers -> Calls] /\ \A d \in Callers \ {c} : args'[d] = args[d]
           /\ at'[c] = "read" /\ args'[c].kind = "env" => args'[c].state # "other"
           /\ \E S \in SUBSET Requests :
                 /\ Progress(c, S)
                 /\ \A req \in S : Backed(req)'
<1>1. PICK call \in Calls :
          /\ args' = [args EXCEPT ![c] = call]
          /\ \/ /\ call.kind \in {"priv", "env"} /\ call.state = "other"
                /\ End(c, "raised", "ValueError")
             \/ /\ call.kind \in {"priv", "env"} /\ call.state # "other"
                /\ Goto(c, "read")
             \/ /\ call.kind \in {"delete_all", "activate", "rules"}
                /\ Goto(c, "read")
             \/ /\ call.kind \in {"create_key", "delete_key"} /\ call.check
                /\ End(c, "returned", "would")
             \/ /\ call.kind = "create_key" /\ ~call.check
                /\ SendOneOf(c, {[op |-> "add_key", user |-> call.user]})
             \/ /\ call.kind = "delete_key" /\ ~call.check
                /\ SendOneOf(c, {[op |-> "del_key", key |-> call.key]})
  BY DEF Start
<1>2. /\ at[c] = "idle" /\ UNCHANGED <<world, late, reply>> /\ MovesOK
      /\ args' \in [Callers -> Calls] /\ args'[c] = call
      /\ \A d \in Callers \ {c} : args'[d] = args[d]
  BY <1>1, TypeParts DEF Start, TypeInv
<1>3. CASE \/ End(c, "raised", "ValueError") \/ Goto(c, "read")
           \/ End(c, "returned", "would")
  <2>1. Progress(c, {})
    BY <1>2, <1>3, ProgressTyped DEF Settled, Outcomes
  <2>2. at'[c] = "read" => ~(call.kind = "env" /\ call.state = "other")
    <3>1. End(c, "raised", "ValueError") \/ End(c, "returned", "would") => at'[c] # "read"
      BY <1>2 DEF End, MoveTo, MovesOK
    <3> QED
      BY <1>1, <3>1, <1>2, SendTyped, <1>3
  <2> QED
    BY <1>2, <2>1, <2>2
<1>4. CASE /\ call.kind = "create_key" /\ ~call.check
           /\ SendOneOf(c, {[op |-> "add_key", user |-> call.user]})
  <2> DEFINE req == [op |-> "add_key", user |-> call.user]
  <2>1. {req} \in SUBSET Requests
    BY <1>4, CallParts DEF Requests
  <2>2. Progress(c, {req}) /\ at'[c] # "idle"
    BY <1>2, <1>4, <2>1, ProgressTyped DEF Progress
  <2>3. c \in Asking("create_key")'
    BY <1>2, <1>4, <2>2 DEF Asking
  <2>4. Backed(req)'
    BY <1>2, <2>3 DEF Backed
  <2> QED
    BY <1>2, <1>4, <2>1, <2>2, <2>4
<1>5. CASE /\ call.kind = "delete_key" /\ ~call.check
           /\ SendOneOf(c, {[op |-> "del_key", key |-> call.key]})
  <2> DEFINE req == [op |-> "del_key", key |-> call.key]
  <2>1. {req} \in SUBSET Requests
    BY <1>5, CallParts DEF Requests
  <2>2. Progress(c, {req}) /\ at'[c] # "idle"
    BY <1>2, <1>5, <2>1, ProgressTyped DEF Progress
  <2>3. c \in Asking("delete_key")'
    BY <1>2, <1>5, <2>2 DEF Asking
  <2>4. Backed(req)'
    BY <1>2, <2>3 DEF Backed
  <2> QED
    BY <1>2, <1>5, <2>1, <2>2, <2>4
<1> QED
  BY <1>1, <1>3, <1>4, <1>5
-----------------------------------------------------------------------------
(* The theorems *)

\* A lost answer leaves a request that was in flight.
LEMMA LoseProgress ==
    ASSUME TypeInv, NEW c \in Callers, LoseAnswer(c)
    PROVE  /\ MovesOK' /\ UNCHANGED <<world, args, reply, todo>>
           /\ at'[c] \in {"post", "reload", "raised"} /\ at[c] \in {"post", "reload"}
           /\ at'[c] = "raised" => wire'[c] = "none"
           /\ wire'[c] # "none" => attempt'[c] \in 1..MaxAttempts
           /\ post'[c] \in {post[c], NoPost}
           /\ \A d \in Callers \ {c} : /\ at'[d] = at[d] /\ post'[d] = post[d]
                                       /\ wire'[d] = wire[d] /\ attempt'[d] = attempt[d]
           /\ late' \subseteq LateRequests
           /\ \A m \in late' : m \in late \/ m.req = post[c]
<1>1. /\ MovesOK /\ wire[c] # "none" /\ attempt[c] \in 1..MaxAttempts
      /\ at[c] \in {"post", "reload"}
  BY TypeParts DEF LoseAnswer, TypeInv, Place
<1>2. /\ late' \subseteq LateRequests
      /\ \A m \in late' : m \in late \/ m.req = post[c]
  <2>1. [by |-> c, nr |-> attempt[c], req |-> post[c]] \in LateRequests
    BY <1>1 DEF LateRequests, MovesOK
  <2> QED
    BY <2>1, TypeParts DEF LoseAnswer, TypeInv
<1>3. UNCHANGED <<world, args, reply>>
  BY DEF LoseAnswer
<1>4. CASE End(c, "raised", "unavailable")
  BY <1>1, <1>2, <1>3, <1>4, EndTyped DEF Settled, Outcomes, Moves
<1>5. CASE /\ attempt[c] < MaxAttempts
           /\ MoveTo(c, at[c], post[c], "sent", attempt[c] + 1)
           /\ UNCHANGED <<todo, outcome>>
  <2>1. /\ at[c] \in Places /\ post[c] \in Requests /\ attempt[c] + 1 \in 0..MaxAttempts
        /\ attempt[c] + 1 \in 1..MaxAttempts /\ outcome' \in [Callers -> Outcomes]
    BY <1>1, <1>5, BoundAssumption DEF MovesOK
  <2>2. MovesOK' /\ Moves(c, at[c], post[c], "sent", attempt[c] + 1)
    BY <1>1, <1>5, <2>1, MoveToTyped
  <2> QED
    BY <1>1, <1>2, <1>3, <1>5, <2>1, <2>2 DEF Moves
<1> QED
  BY <1>4, <1>5 DEF LoseAnswer

\* A name is given to one environment at a time.
LEMMA PerformUnique ==
    ASSUME world \in WorldType, UniquelyNamed(world), NEW req \in Requests,
           NEW id \in KeyIds \cup {Unused}, Perform(req, id)
    PROVE  UniquelyNamed(world')
<1>1. world.envs \in [EnvIds -> EnvNames \cup {Unused, Gone}]
  BY WorldParts
<1>2. {Unused, Gone} \cap EnvNames = {}
  BY NameAssumption
<1>3. CASE req.op = "add_env"
  <2>1. /\ Named(req.name) = {} /\ req.name \in EnvNames
        /\ \E e \in EnvIds : world' = [world EXCEPT !.envs[e] = req.name]
    BY <1>3, RequestParts DEF Perform
  <2>2. PICK e \in EnvIds : world' = [world EXCEPT !.envs[e] = req.name]
    BY <2>1
  <2>3. \A d \in EnvIds : world'.envs[d] = IF d = e THEN req.name ELSE world.envs[d]
    BY <1>1, <2>2 DEF WorldType
  <2>4. \A d \in EnvIds : world.envs[d] # req.name
    BY <1>2, <2>1 DEF Named, LiveEnvs
  <2> QED
    BY <2>3, <2>4 DEF UniquelyNamed
<1>4. CASE req.op # "add_env"
  <2>1. \A d \in EnvIds : world'.envs[d] # world.envs[d] => world'.envs[d] = Gone
    BY <1>4, PerformParts
  <2> QED
    BY <1>2, <2>1 DEF UniquelyNamed
<1> QED
  BY <1>3, <1>4

\* An execution runs a request of Requests that is in flight or was.
LEMMA ExecuteParts ==
    ASSUME TypeInv, (\E c \in Callers : Execute(c)) \/ LateExecute
    PROVE  /\ \E req \in Requests, id \in KeyIds \cup {Unused} :
                 /\ Perform(req, id)
                 /\ (\E c \in Callers : req = post[c]) \/ (\E m \in late : req = m.req)
           /\ late' \subseteq late /\ UNCHANGED <<at, args, todo, post, attempt>>
           /\ \A c \in Callers : wire[c] = "none" <=> wire'[c] = "none"
           /\ MovesOK' /\ reply' \in [Callers -> KeyIds \cup {Unused}]
<1>1. ASSUME NEW c \in Callers, Execute(c)
      PROVE  /\ \E req \in Requests, id \in KeyIds \cup {Unused} :
                   Perform(req, id) /\ req = post[c]
             /\ late' \subseteq late /\ UNCHANGED <<at, args, todo, post, attempt>>
             /\ \A d \in Callers : wire[d] = "none" <=> wire'[d] = "none"
             /\ MovesOK' /\ reply' \in [Callers -> KeyIds \cup {Unused}]
  BY <1>1, TypeParts DEF Execute, TypeInv, MovesOK
<1>2. CASE LateExecute
  <2>1. PICK m \in late, id \in KeyIds \cup {Unused} : Perform(m.req, id)
    BY <1>2 DEF LateExecute
  <2>2. m.req \in Requests
    BY TypeParts DEF TypeInv, LateRequests
  <2>3. MovesOK' /\ reply' \in [Callers -> KeyIds \cup {Unused}]
    BY <1>2, TypeParts DEF LateExecute, TypeInv, MovesOK, request
  <2>4. /\ late' \subseteq late
        /\ UNCHANGED <<at, args, todo, post, attempt, wire>>
    BY <1>2 DEF LateExecute, request
  <2> QED
    BY <2>1, <2>2, <2>3, <2>4
<1> QED
  BY <1>1, <1>2

LEMMA StepTyped == TypeInv /\ [Next]_vars => TypeInv'
<1> SUFFICES ASSUME TypeInv, [Next]_vars PROVE TypeInv'
  OBVIOUS
<1>1. ASSUME NEW c \in Callers, Start(c) PROVE TypeInv'
  <2>1. TypeOK' /\ UniquelyNamed(world)'
    BY <1>1, StartProgress, TypeParts, TypeAfter DEF TypeInv, Progress
  <2>2. \A d \in Callers : Place(d)'
    BY <1>1, StartProgress DEF TypeInv, Place, Progress
  <2> QED
    BY <2>1, <2>2 DEF TypeInv
<1>2. ASSUME NEW c \in Callers, Step(c), ~LoseAnswer(c) PROVE TypeInv'
  <2>1. PICK S \in SUBSET Requests :
           at[c] # "idle" /\ Progress(c, S) /\ UNCHANGED elsewhere
    BY <1>2, StepProgress
  <2>2. TypeOK' /\ UniquelyNamed(world)'
    BY <2>1, TypeParts, TypeAfter DEF TypeInv, Progress, elsewhere
  <2>3. \A d \in Callers : Place(d)'
    BY <2>1 DEF TypeInv, Place, Progress, elsewhere
  <2> QED
    BY <2>2, <2>3 DEF TypeInv
<1>3. ASSUME NEW c \in Callers, LoseAnswer(c) PROVE TypeInv'
  <2>1. TypeOK' /\ UniquelyNamed(world)'
    BY <1>3, LoseProgress, TypeParts, TypeAfter DEF TypeInv
  <2>2. \A d \in Callers : Place(d)'
    BY <1>3, LoseProgress DEF TypeInv, Place
  <2> QED
    BY <2>1, <2>2 DEF TypeInv
<1>4. CASE (\E c \in Callers : Execute(c)) \/ LateExecute
  <2>1. world' \in WorldType /\ UniquelyNamed(world')
    BY <1>4, ExecuteParts, PerformParts, PerformUnique, TypeParts DEF TypeInv
  <2>2. TypeOK'
    BY <1>4, <2>1, ExecuteParts, TypeParts, TypeAfter DEF TypeInv
  <2>3. \A d \in Callers : Place(d)'
    BY <1>4, ExecuteParts DEF TypeInv, Place
  <2> QED
    BY <2>1, <2>2, <2>3 DEF TypeInv
<1>5. ASSUME NEW c \in Callers, Refuse(c) PROVE TypeInv'
  BY <1>5 DEF Refuse, TypeInv, TypeOK, Place
<1>6. CASE UNCHANGED vars
  BY <1>6 DEF vars, request, TypeInv, TypeOK, Place
<1> QED
  BY <1>1, <1>2, <1>3, <1>4, <1>5, <1>6 DEF Next

LEMMA InitTyped == Init => TypeInv
<1> SUFFICES ASSUME Init PROVE TypeInv
  OBVIOUS
<1>1. (CHOOSE call \in Calls : TRUE) \in Calls
  BY CallAssumption
<1>2. NoPost \in Requests
  BY DEF NoPost, Requests
<1> QED
  BY <1>1, <1>2, WorldAssumption, BoundAssumption DEF Init, TypeInv, TypeOK, Place, Places

LEMMA TypeHolds == Spec => []TypeInv
  BY InitTyped, StepTyped, PTL DEF Spec

\* The appliance, the requests in flight, those left to post and those that may run
\* late keep their types; no POST is sent more often than the client's retries allow.
THEOREM TypeCorrect == Spec => []TypeOK
<1>1. TypeInv => TypeOK
  BY DEF TypeInv
<1> QED
  BY <1>1, TypeHolds, PTL

\* A request stays backed while the appliance stays and callers only start.
LEMMA BackedStays ==
    ASSUME UNCHANGED world, NEW req, Backed(req),
           \A d \in Callers : at[d] # "idle" => at'[d] # "idle" /\ args'[d] = args[d]
    PROVE  Backed(req)'
<1>1. ASSUME NEW kind, NEW d \in Asking(kind)
      PROVE  d \in Asking(kind)' /\ args'[d] = args[d]
  BY <1>1 DEF Asking
<1> QED
  BY <1>1 DEF Backed

\* It stays backed when another backed request runs.
LEMMA BackedRuns ==
    ASSUME world \in WorldType, NEW run \in Requests, NEW id \in KeyIds \cup {Unused},
           Perform(run, id), Backed(run), UNCHANGED <<at, args>>,
           NEW req \in Requests, Backed(req)
    PROVE  Backed(req)'
<1>1. \A kind : Asking(kind)' = Asking(kind)
  BY DEF Asking
<1>2. CASE req.op = "assign"
  <2>1. ASSUME NEW t \in Listed(req.type), ~(t \in req.to <=> t \in world'.assigned)
        PROVE  \E c \in Asking("priv") : args[c].target = t
    <3>1. CASE t \in world.assigned <=> t \in world'.assigned
      BY <1>2, <2>1, <3>1 DEF Backed
    <3>2. CASE ~(t \in world.assigned <=> t \in world'.assigned)
      <4>1. /\ run.op = "assign" /\ t \in Listed(run.type)
            /\ ~(t \in run.to <=> t \in world.assigned)
        BY <3>2, PerformParts
      <4> QED
        BY <4>1 DEF Backed
    <3> QED
      BY <3>1, <3>2
  <2> QED
    BY <1>1, <1>2, <2>1 DEF Backed
<1>3. CASE req.op = "del_key"
  <2>1. req.key \in KeyIds
    BY <1>3, RequestParts
  <2>2. CASE world'.keys[req.key] = world.keys[req.key]
    BY <1>1, <1>3, <2>2 DEF Backed
  <2>3. CASE world'.keys[req.key] = Gone
    BY <1>3, <2>3 DEF Backed
  <2>4. CASE world.keys[req.key] = Unused
    BY <1>1, <1>3, <2>4, NameAssumption DEF Backed
  <2> QED
    BY <2>1, <2>2, <2>3, <2>4, PerformParts
<1>4. CASE req.op \in {"del_env", "activate"}
  <2>1. req.env \in EnvIds
    BY <1>4, RequestParts
  <2>2. CASE world'.envs[req.env] = world.envs[req.env]
    BY <1>1, <1>4, <2>2 DEF Backed
  <2>3. CASE world'.envs[req.env] = Gone
    BY <1>4, <2>3 DEF Backed
  <2>4. world.envs[req.env] # Unused
    BY <1>4, NameAssumption DEF Backed
  <2> QED
    BY <2>1, <2>2, <2>3, <2>4, PerformParts
<1>5. CASE req.op \notin {"assign", "del_key", "del_env", "activate"}
  BY <1>1, <1>5 DEF Backed
<1> QED
  BY <1>2, <1>3, <1>4, <1>5

\* What OthersStay says of a step.
StepByName ==
    /\ \A t \in Targets : (t \in world.assigned) # (t \in world'.assigned) =>
          \E c \in Asking("priv") : args[c].target = t
    /\ \A k \in KeyIds : world'.keys[k] # world.keys[k] =>
          \/ /\ world.keys[k] = Unused
             /\ \E c \in Asking("create_key") : args[c].user = world'.keys[k]
          \/ /\ world'.keys[k] = Gone
             /\ \/ \E c \in Asking("delete_key") : args[c].key = k
                \/ \E c \in Asking("delete_all") : args[c].user = world.keys[k]
    /\ \A e \in EnvIds : world'.envs[e] # world.envs[e] =>
          \E c \in Asking("env") :
             IF args[c].state = "present" THEN world'.envs[e] = args[c].name
             ELSE world'.envs[e] = Gone /\ world.envs[e] = args[c].name
    /\ world'.boot # world.boot =>
          \E c \in Asking("activate") : world.envs[world'.boot] = args[c].name
    /\ \A r \in Rulesets : (r \in world'.enabled) # (r \in world.enabled) =>
          \E c \in Asking("rules") :
             r \in DOMAIN args[c].want /\ args[c].want[r] = (r \in world'.enabled)

\* What a backed request changes when it runs is what a call names.
LEMMA RunsAsNamed ==
    ASSUME world \in WorldType, NEW req \in Requests, NEW id \in KeyIds \cup {Unused},
           Perform(req, id), Backed(req)
    PROVE  StepByName
<1>1. ASSUME NEW t \in Targets, ~(t \in world.assigned <=> t \in world'.assigned)
      PROVE  \E c \in Asking("priv") : args[c].target = t
  <2>1. /\ req.op = "assign" /\ t \in Listed(req.type)
        /\ ~(t \in req.to <=> t \in world.assigned)
    BY <1>1, PerformParts
  <2> QED
    BY <2>1 DEF Backed
<1>2. ASSUME NEW k \in KeyIds, world'.keys[k] # world.keys[k]
      PROVE  \/ /\ world.keys[k] = Unused
                /\ \E c \in Asking("create_key") : args[c].user = world'.keys[k]
             \/ /\ world'.keys[k] = Gone
                /\ \/ \E c \in Asking("delete_key") : args[c].key = k
                   \/ \E c \in Asking("delete_all") : args[c].user = world.keys[k]
  <2>1. \/ /\ req.op = "add_key" /\ world.keys[k] = Unused /\ world'.keys[k] = req.user
        \/ req.op = "del_key" /\ k = req.key /\ world'.keys[k] = Gone
    BY <1>2, PerformParts
  <2> QED
    BY <1>2, <2>1 DEF Backed
<1>3. ASSUME NEW e \in EnvIds, world'.envs[e] # world.envs[e]
      PROVE  \E c \in Asking("env") :
                IF args[c].state = "present" THEN world'.envs[e] = args[c].name
                ELSE world'.envs[e] = Gone /\ world.envs[e] = args[c].name
  <2>1. \/ req.op = "add_env" /\ world'.envs[e] = req.name
        \/ req.op = "del_env" /\ e = req.env /\ world'.envs[e] = Gone
    BY <1>3, PerformParts
  <2> QED
    BY <1>3, <2>1 DEF Backed
<1>4. ASSUME world'.boot # world.boot
      PROVE  \E c \in Asking("activate") : world.envs[world'.boot] = args[c].name
  <2>1. req.op = "activate" /\ world'.boot = req.env /\ world.envs[req.env] # Gone
    BY <1>4, PerformParts DEF LiveEnvs
  <2> QED
    BY <2>1 DEF Backed
<1>5. ASSUME NEW r \in Rulesets, ~(r \in world'.enabled <=> r \in world.enabled)
      PROVE  \E c \in Asking("rules") :
                r \in DOMAIN args[c].want /\ args[c].want[r] = (r \in world'.enabled)
  <2>1. req.op = "toggle" /\ r = req.ruleset /\ (r \in world'.enabled) = req.on
    BY <1>5, PerformParts
  <2> QED
    BY <2>1 DEF Backed
<1> QED
  BY <1>1, <1>2, <1>3, <1>4, <1>5 DEF StepByName

\* A caller's own step leaves every request backed.
LEMMA StepBacked ==
    ASSUME TypeInv, BackInv, ListsUuids, NEW c \in Callers, Start(c) \/ Step(c)
    PROVE  BackInv' /\ world' = world
<1>1. Backed(NoPost)' /\ Backed(Reload)'
  BY DEF Backed, NoPost, Reload
<1>2. CASE Start(c)
  <2>1. /\ UNCHANGED <<world, late>>
        /\ \A d \in Callers : at[d] # "idle" => at'[d] # "idle" /\ args'[d] = args[d]
    BY <1>2, StartProgress DEF Progress
  <2>2. PICK S \in SUBSET Requests : Progress(c, S) /\ \A req \in S : Backed(req)'
    BY <1>2, StartProgress
  <2>3. \A req : Backed(req) => Backed(req)'
    BY <2>1, BackedStays
  <2> QED
    BY <1>1, <2>1, <2>2, <2>3 DEF BackInv, Progress
<1>3. CASE Step(c) /\ ~LoseAnswer(c)
  <2>1. PICK S \in SUBSET Requests :
           /\ at[c] # "idle" /\ Progress(c, S) /\ UNCHANGED elsewhere
           /\ \A req \in S : req \in todo[c] \/ Backed(req)
    BY <1>3, StepProgress
  <2>2. \A req : Backed(req) => Backed(req)'
    BY <2>1, BackedStays DEF elsewhere, Progress
  <2>3. \A req \in S : Backed(req)'
    BY <2>1, <2>2 DEF BackInv
  <2> QED
    BY <1>1, <2>1, <2>2, <2>3 DEF BackInv, Progress, elsewhere
<1>4. CASE LoseAnswer(c)
  <2>1. \A req : Backed(req) => Backed(req)'
    BY <1>4, LoseProgress, BackedStays
  <2> QED
    BY <1>1, <1>4, <2>1, LoseProgress DEF BackInv
<1> QED
  BY <1>2, <1>3, <1>4

\* Every step keeps the requests backed, and changes only what calls name.
LEMMA StepNamed ==
    ASSUME TypeInv, TypeInv', BackInv, ListsUuids, [Next]_vars
    PROVE  BackInv' /\ (world' = world \/ \E req \in Requests, id \in KeyIds \cup {Unused} :
                                             Perform(req, id) /\ Backed(req))
<1>1. CASE \E c \in Callers : Start(c) \/ Step(c)
  BY <1>1, StepBacked
<1>2. CASE (\E c \in Callers : Execute(c)) \/ LateExecute
  <2>1. /\ late' \subseteq late /\ UNCHANGED <<at, args, todo, post>>
        /\ \E req \in Requests, id \in KeyIds \cup {Unused} :
              /\ Perform(req, id)
              /\ (\E c \in Callers : req = post[c]) \/ (\E m \in late : req = m.req)
    BY <1>2, ExecuteParts
  <2>2. PICK run \in Requests, id \in KeyIds \cup {Unused} :
           Perform(run, id) /\ Backed(run)
    BY <2>1 DEF BackInv
  <2>3. world \in WorldType
    BY TypeParts DEF TypeInv
  <2>4. \A req \in Requests : Backed(req) => Backed(req)'
    BY <2>1, <2>2, <2>3, BackedRuns
  <2>5. /\ \A c \in Callers : post[c] \in Requests /\ todo[c] \subseteq Requests
        /\ \A m \in late : m.req \in Requests
    BY TypeParts DEF TypeInv, MovesOK, LateRequests
  <2> QED
    BY <2>1, <2>2, <2>4, <2>5 DEF BackInv
<1>3. CASE (\E c \in Callers : Refuse(c)) \/ UNCHANGED vars
  <2>1. UNCHANGED <<world, late, at, args, todo, post>>
    BY <1>3 DEF Refuse, vars, request
  <2>2. \A req : Backed(req) => Backed(req)'
    BY <2>1, BackedStays
  <2> QED
    BY <2>1, <2>2 DEF BackInv
<1> QED
  BY <1>1, <1>2, <1>3 DEF Next

LEMMA BackHolds == ASSUME ListsUuids PROVE Spec => []BackInv
<1>1. Init => BackInv
  BY DEF Init, BackInv, Backed, NoPost
<1>2. TypeInv /\ TypeInv' /\ BackInv /\ [Next]_vars => BackInv'
  BY StepNamed
<1> QED
  BY <1>1, <1>2, TypeHolds, PTL DEF Spec

\* The list rebuilt from what was read, the rows filtered on this side and the ids
\* looked up by name change nothing no call names: for any number of callers at once
\* and any request run late, where a privilege lists its assignees by uuid.
THEOREM OthersStayHolds == ASSUME ListsUuids PROVE Spec => OthersStay
<1>1. TypeInv /\ TypeInv' /\ BackInv /\ [Next]_vars => StepByName
  <2> SUFFICES ASSUME TypeInv, TypeInv', BackInv, [Next]_vars PROVE StepByName
    OBVIOUS
  <2>1. CASE world' = world
    BY <2>1 DEF StepByName
  <2>2. CASE \E req \in Requests, id \in KeyIds \cup {Unused} :
                Perform(req, id) /\ Backed(req)
    <3>1. PICK req \in Requests, id \in KeyIds \cup {Unused} :
             Perform(req, id) /\ Backed(req)
      BY <2>2
    <3>2. world \in WorldType
      BY TypeParts DEF TypeInv
    <3> QED
      BY <3>1, <3>2, RunsAsNamed DEF StepByName
  <2> QED
    BY <2>1, <2>2, StepNamed
<1> QED
  BY <1>1, TypeHolds, BackHolds, PTL DEF Spec, OthersStay, StepByName

-----------------------------------------------------------------------------
(* What a call returned is as it asked: AsAsked *)

\* The requests a call sends, by what it asks for; those on rows it found stay its
\* own while the rows are there.
Fits(c, req) ==
    /\ req.op = "assign" =>
          /\ args[c].kind = "priv" /\ req.type = args[c].type
          /\ args[c].target \in req.to <=> args[c].state = "present"
    /\ req.op = "add_key" => args[c].kind = "create_key" /\ req.user = args[c].user
    /\ req.op = "del_key" =>
          \/ args[c].kind = "delete_key" /\ req.key = args[c].key
          \/ args[c].kind = "delete_all" /\ world.keys[req.key] \in {args[c].user, Gone}
    /\ req.op = "add_env" =>
          /\ args[c].kind = "env" /\ args[c].state = "present"
          /\ req.name = args[c].name
    /\ req.op = "del_env" =>
          /\ args[c].kind = "env" /\ args[c].state = "absent"
          /\ world.envs[req.env] \in {args[c].name, Gone}
    /\ req.op = "activate" =>
          args[c].kind = "activate" /\ world.envs[req.env] \in {args[c].name, Gone}
    /\ req.op = "toggle" =>
          /\ args[c].kind = "rules" /\ req.ruleset \in DOMAIN args[c].want
          /\ req.on = args[c].want[req.ruleset]
    /\ req.op = "reload" => args[c].kind = "rules"
Own(c, req) ==
    req.op # "none" =>
        at[c] \notin {"idle", "read"} /\ ~args[c].check /\ Fits(c, req)

OwnOf(c) == Own(c, post[c]) /\ \A req \in todo[c] : Own(c, req)

\* What a call that works through a list still has to post, and what it has in hand.
Lists(c) == \/ args[c].kind \in {"delete_all", "rules"}
            \/ args[c].kind = "env" /\ args[c].state = "absent"
Missing(c) ==
    IF args[c].kind = "delete_all"
    THEN {[op |-> "del_key", key |-> k] : k \in {k \in KeyIds : world.keys[k] = args[c].user}}
    ELSE IF args[c].kind = "env"
    THEN {[op |-> "del_env", env |-> e] : e \in Named(args[c].name)}
    ELSE {[op |-> "toggle", ruleset |-> r, on |-> args[c].want[r]] :
             r \in {r \in DOMAIN args[c].want : ~(r \in world.enabled <=> args[c].want[r])}}
InHand(c) == todo[c] \cup (IF wire[c] = "ok" THEN {} ELSE {post[c]})

\* The rulesets are read without a search.
Whole(c) == args[c].kind # "rules" => OnePage
Uncontested(c) == ~args[c].check /\ Whole(c) /\ \A d \in Callers \ {c} : ~AtOdds(c, d)

\* What makes AsAsked inductive: a call that went through its list wants nothing more
\* than it has in hand, and any other is served once its one request has run.
Near(c) ==
    /\ at[c] \in {"reload", "reread", "returned"} => AsWanted(c)
    /\ at[c] = "post" /\ Lists(c) => Missing(c) \subseteq InHand(c)
    /\ at[c] = "post" /\ ~Lists(c) /\ wire[c] = "ok" => AsWanted(c)

Acts(c) ==
    /\ at[c] \in {"post", "reload"} => ~args[c].check
    /\ at[c] = "reload" => args[c].kind = "rules" /\ post[c] = Reload

AskedInv ==
    /\ \A c \in Callers : OwnOf(c) /\ Acts(c) /\ (Uncontested(c) => Near(c))
    /\ \A m \in late : Own(m.by, m.req)

LEMMA CallKind ==
    ASSUME NEW call \in Calls
    PROVE  call.kind \in {"priv", "create_key", "delete_all", "delete_key", "env",
                          "activate", "rules"}
<1>1. call \in CallType
  BY CallAssumption
<1> QED
  BY <1>1 DEF CallType

\* What an execution does to the part of the appliance its request is about.
LEMMA PerformDoes ==
    ASSUME world \in WorldType, NEW req \in Requests, NEW id \in KeyIds \cup {Unused},
           Perform(req, id)
    PROVE  /\ req.op = "assign" => \A t \in Listed(req.type) :
                 t \in world'.assigned <=> t \in req.to
           /\ req.op = "add_key" => id \in KeyIds /\ world'.keys[id] = req.user
           /\ req.op = "del_key" => world'.keys[req.key] = Gone
           /\ req.op = "add_env" => \E e \in EnvIds : world'.envs[e] = req.name
           /\ req.op = "del_env" => world'.envs[req.env] = Gone
           /\ req.op = "activate" => world'.boot = req.env /\ req.env \in LiveEnvs
           /\ req.op = "toggle" => /\ req.ruleset \in world'.enabled <=> req.on
                                   /\ \A r : r # req.ruleset =>
                                         (r \in world'.enabled <=> r \in world.enabled)
           /\ req.op = "reload" => world'.inspecting = world'.enabled
           /\ req.op # "toggle" => world'.enabled = world.enabled
           /\ req.op # "reload" => world'.inspecting = world.inspecting
           /\ req.op # "none"
<1>1. /\ world.assigned \in SUBSET Targets
      /\ world.keys \in [KeyIds -> Users \cup {Unused, Gone}]
      /\ world.envs \in [EnvIds -> EnvNames \cup {Unused, Gone}]
      /\ world.boot \in EnvIds
      /\ world.enabled \in SUBSET Rulesets /\ world.inspecting \in SUBSET Rulesets
  BY WorldParts
<1>2. world = [assigned |-> world.assigned, keys |-> world.keys, envs |-> world.envs,
               boot |-> world.boot, enabled |-> world.enabled,
               inspecting |-> world.inspecting]
  BY DEF WorldType
<1>3. CASE /\ req.op = "assign" /\ req.to \subseteq Listed(req.type)
           /\ world' = [world EXCEPT !.assigned = (@ \ Listed(req.type)) \cup req.to]
  BY <1>2, <1>3
<1>4. CASE /\ req.op = "add_key" /\ id \in KeyIds /\ world.keys[id] = Unused
           /\ world' = [world EXCEPT !.keys[id] = req.user]
  BY <1>1, <1>2, <1>4
<1>5. CASE /\ req.op = "del_key" /\ world.keys[req.key] # Unused
           /\ world' = [world EXCEPT !.keys[req.key] = Gone]
  BY <1>1, <1>2, <1>5, RequestParts
<1>6. CASE /\ req.op = "add_env"
           /\ \E e \in EnvIds : /\ world.envs[e] = Unused
                                /\ world' = [world EXCEPT !.envs[e] = req.name]
  BY <1>1, <1>2, <1>6
<1>7. CASE /\ req.op = "del_env" /\ req.env \in LiveEnvs
           /\ world' = [world EXCEPT !.envs[req.env] = Gone]
  BY <1>1, <1>2, <1>7, RequestParts
<1>8. CASE /\ req.op = "activate" /\ req.env \in LiveEnvs
           /\ world' = [world EXCEPT !.boot = req.env]
  BY <1>2, <1>8
<1>9. CASE /\ req.op = "toggle"
           /\ world' = [world EXCEPT !.enabled = IF req.on THEN @ \cup {req.ruleset}
                                                 ELSE @ \ {req.ruleset}]
  <2>1. req.on \in BOOLEAN
    BY <1>9, RequestParts
  <2>2. world'.enabled = IF req.on THEN world.enabled \cup {req.ruleset}
                         ELSE world.enabled \ {req.ruleset}
    BY <1>2, <1>9
  <2>3. world'.inspecting = world.inspecting
    BY <1>2, <1>9
  <2> QED
    BY <1>9, <2>1, <2>2, <2>3
<1>10. CASE req.op = "reload" /\ world' = [world EXCEPT !.inspecting = world.enabled]
  BY <1>2, <1>10
<1> QED
  BY <1>3, <1>4, <1>5, <1>6, <1>7, <1>8, <1>9, <1>10 DEF Perform

\* Rows are given out once: what fits a page fitted it before.
LEMMA PageShrinks ==
    ASSUME IsFiniteSet(KeyIds), IsFiniteSet(EnvIds), world \in WorldType,
           NEW req \in Requests, NEW id \in KeyIds \cup {Unused}, Perform(req, id),
           OnePage'
    PROVE  OnePage
<1> DEFINE keys == {k \in KeyIds : world.keys[k] # Unused}
           envs == {e \in EnvIds : world.envs[e] # Unused}
<1>1. keys \subseteq {k \in KeyIds : world'.keys[k] # Unused}
  BY PerformParts, RequestParts, NameAssumption
<1>2. envs \subseteq {e \in EnvIds : world'.envs[e] # Unused}
  BY PerformParts, RequestParts, NameAssumption
<1>3. /\ IsFiniteSet({k \in KeyIds : world'.keys[k] # Unused})
      /\ IsFiniteSet({e \in EnvIds : world'.envs[e] # Unused})
  BY FS_Subset
<1>4. /\ Cardinality(keys) \in Nat /\ Cardinality(envs) \in Nat
      /\ Cardinality({k \in KeyIds : world'.keys[k] # Unused}) \in Nat
      /\ Cardinality({e \in EnvIds : world'.envs[e] # Unused}) \in Nat
      /\ Cardinality(keys) <= Cardinality({k \in KeyIds : world'.keys[k] # Unused})
      /\ Cardinality(envs) <= Cardinality({e \in EnvIds : world'.envs[e] # Unused})
  BY <1>1, <1>2, <1>3, FS_Subset, FS_CardinalityType
<1> QED
  BY <1>4, BoundAssumption DEF OnePage

\* A page that holds as many rows as there are holds them all.
LEMMA WholePage ==
    ASSUME NEW live, IsFiniteSet(live), Cardinality(live) <= PageSize,
           NEW page \in Pages(live)
    PROVE  page = live
<1>1. Cardinality(live) \in Nat /\ PageSize \in Nat
  BY FS_CardinalityType, BoundAssumption
<1>2. page \subseteq live /\ Cardinality(page) = Cardinality(live)
  BY <1>1 DEF Pages
<1> QED
  BY <1>2, FS_Subset

LEMMA LivePage ==
    ASSUME IsFiniteSet(KeyIds), IsFiniteSet(EnvIds), OnePage
    PROVE  /\ \A page \in Pages(LiveKeys) : page = LiveKeys
           /\ \A page \in Pages(LiveEnvs) : page = LiveEnvs
<1> DEFINE keys == {k \in KeyIds : world.keys[k] # Unused}
           envs == {e \in EnvIds : world.envs[e] # Unused}
<1>1. IsFiniteSet(keys) /\ IsFiniteSet(envs)
  BY FS_Subset
<1>2. LiveKeys \subseteq keys /\ LiveEnvs \subseteq envs
  BY DEF LiveKeys, LiveEnvs
<1>3. /\ Cardinality(LiveKeys) \in Nat /\ Cardinality(LiveEnvs) \in Nat
      /\ Cardinality(keys) \in Nat /\ Cardinality(envs) \in Nat
      /\ Cardinality(LiveKeys) <= Cardinality(keys)
      /\ Cardinality(LiveEnvs) <= Cardinality(envs)
      /\ IsFiniteSet(LiveKeys) /\ IsFiniteSet(LiveEnvs)
  BY <1>1, <1>2, FS_Subset, FS_CardinalityType
<1>4. Cardinality(LiveKeys) <= PageSize /\ Cardinality(LiveEnvs) <= PageSize
  BY <1>3, BoundAssumption DEF OnePage
<1> QED
  BY <1>3, <1>4, WholePage

\* A request stays its call's own while nothing runs.
LEMMA OwnStays ==
    ASSUME UNCHANGED world, NEW c, NEW req, Own(c, req),
           at[c] \notin {"idle", "read"} =>
               at'[c] \notin {"idle", "read"} /\ args'[c] = args[c]
    PROVE  Own(c, req)'
BY DEF Own, Fits

\* And when some request runs: rows are given out once and deleted once.
LEMMA OwnRuns ==
    ASSUME world \in WorldType, NEW run \in Requests, NEW id \in KeyIds \cup {Unused},
           Perform(run, id), UNCHANGED <<at, args>>, args \in [Callers -> Calls],
           NEW c \in Callers, NEW req \in Requests, Own(c, req)
    PROVE  Own(c, req)'
<1>1. args[c] \in Calls
  OBVIOUS
<1>2. CASE req.op = "del_key" /\ args[c].kind = "delete_all"
  <2>1. /\ req.key \in KeyIds /\ args[c].user \notin {Unused, Gone}
        /\ world.keys[req.key] \in {args[c].user, Gone}
        /\ at[c] \notin {"idle", "read"} /\ ~args[c].check
    BY <1>1, <1>2, CallParts, RequestParts, NameAssumption DEF Own, Fits
  <2>2. world'.keys[req.key] \in {args[c].user, Gone}
    BY <2>1, PerformParts, NameAssumption
  <2> QED
    BY <1>2, <2>1, <2>2 DEF Own, Fits
<1>3. CASE req.op \in {"del_env", "activate"}
  <2>1. args[c].kind \in {"env", "activate"}
    BY <1>3 DEF Own, Fits
  <2>2. /\ req.env \in EnvIds /\ args[c].name \notin {Unused, Gone}
        /\ world.envs[req.env] \in {args[c].name, Gone}
    BY <1>1, <1>3, <2>1, CallParts, RequestParts, NameAssumption DEF Own, Fits
  <2>3. world'.envs[req.env] \in {args[c].name, Gone}
    BY <2>2, PerformParts, NameAssumption
  <2> QED
    BY <1>3, <2>3 DEF Own, Fits
<1>4. CASE /\ req.op \notin {"del_env", "activate"}
           /\ ~(req.op = "del_key" /\ args[c].kind = "delete_all")
  BY <1>4 DEF Own, Fits
<1> QED
  BY <1>2, <1>3, <1>4

\* What a call goes on with after a read.
LEMMA ProceedMoves ==
    ASSUME MovesOK, NEW c \in Callers, NEW reqs \in SUBSET Requests, Proceed(c, reqs)
    PROVE  \/ /\ at'[c] = "returned" /\ post'[c] = NoPost /\ todo'[c] = todo[c]
              /\ reqs = {} \/ args[c].check
           \/ /\ at'[c] = "post" /\ wire'[c] = "sent" /\ ~args[c].check
              /\ \E req \in reqs : post'[c] = req /\ todo'[c] = reqs \ {req}
<1>1. CASE SendOneOf(c, reqs) /\ ~args[c].check
  BY <1>1, SendTyped DEF Moves
<1>2. CASE /\ \E what \in {"noop", "would"} : End(c, "returned", what)
           /\ reqs = {} \/ args[c].check
  BY <1>2, EndTyped DEF Moves, Settled, Outcomes
<1> QED
  BY <1>1, <1>2 DEF Proceed

Served(c) == OwnOf(c) /\ Acts(c) /\ (Whole(c) /\ ~args[c].check => Near(c))

LEMMA DecidedServes ==
    ASSUME TypeInv, NEW c \in Callers, OwnOf(c), at[c] = "read", UNCHANGED elsewhere,
           NEW reqs \in SUBSET Requests, Proceed(c, reqs),
           ~args[c].check => \A req \in reqs : Fits(c, req),
           Whole(c) /\ ~args[c].check => /\ reqs = {} => AsWanted(c)
                                         /\ Lists(c) => Missing(c) \subseteq reqs
    PROVE  Served(c)'
<1>1. MovesOK /\ UNCHANGED <<world, args, reply>>
  BY TypeParts DEF TypeInv, elsewhere
<1>2. \A req \in todo[c] : req.op = "none"
  BY DEF OwnOf, Own
<1>3. /\ AsWanted(c)' <=> AsWanted(c)
      /\ Missing(c)' = Missing(c) /\ (Lists(c)' <=> Lists(c)) /\ (Whole(c)' <=> Whole(c))
  BY <1>1 DEF AsWanted, Missing, Lists, Whole, OnePage, Named, LiveEnvs
<1>4. CASE /\ at'[c] = "returned" /\ post'[c] = NoPost /\ todo'[c] = todo[c]
           /\ reqs = {} \/ args[c].check
  <2>1. OwnOf(c)' /\ Acts(c)'
    BY <1>2, <1>4 DEF OwnOf, Own, NoPost, Acts
  <2>2. ASSUME Whole(c)', ~args'[c].check PROVE Near(c)'
    BY <1>1, <1>3, <1>4, <2>2 DEF Near
  <2> QED
    BY <2>1, <2>2 DEF Served
<1>5. CASE /\ at'[c] = "post" /\ wire'[c] = "sent" /\ ~args[c].check
           /\ \E req \in reqs : post'[c] = req /\ todo'[c] = reqs \ {req}
  <2>1. \A req \in reqs : Own(c, req)'
    BY <1>1, <1>5 DEF Own, Fits
  <2>2. OwnOf(c)' /\ Acts(c)'
    BY <1>1, <1>5, <2>1 DEF OwnOf, Acts
  <2>3. reqs \subseteq InHand(c)'
    BY <1>5 DEF InHand
  <2>4. ASSUME Whole(c)', ~args'[c].check PROVE Near(c)'
    BY <1>1, <1>3, <1>5, <2>3, <2>4 DEF Near
  <2> QED
    BY <2>2, <2>4 DEF Served
<1> QED
  BY <1>1, <1>4, <1>5, ProceedMoves

\* Each manager decides on what is left to do, and on nothing when it is done.
LEMMA AssignmentServes ==
    ASSUME TypeInv, NEW c \in Callers, OwnOf(c), ReadAssignment(c)
    PROVE  Served(c)'
<1> DEFINE call == args[c]
           req == [op |-> "assign", type |-> call.type, to |-> Assignees(call)]
           assigned == call.target \in world.assigned \cap Listed(call.type)
<1>1. /\ at[c] = "read" /\ call.kind = "priv" /\ call \in Calls /\ world \in WorldType
      /\ UNCHANGED elsewhere
      /\ Proceed(c, IF assigned = (call.state = "present") THEN {} ELSE {req})
  BY TypeParts DEF ReadAssignment, TypeInv, MovesOK
<1>2. /\ call.type \in {"user", "group"} /\ call.target \in Targets \cup {Stranger}
      /\ world.assigned \in SUBSET Targets
  BY <1>1, CallParts, WorldParts
<1>3. req \in Requests
  <2>1. Assignees(call) \in SUBSET (Targets \cup {Stranger})
    BY <1>2 DEF Assignees, Selected
  <2> QED
    BY <1>2, <2>1 DEF Requests
<1>4. Fits(c, req)
  <2>1. call.target \in Assignees(call) <=> call.state = "present"
    BY DEF Assignees
  <2> QED
    BY <1>1, <2>1 DEF Fits
<1>5. ~Lists(c)
  BY <1>1 DEF Lists
<1>6. CASE assigned = (call.state = "present")
  <2>1. AsWanted(c)
    BY <1>1, <1>6 DEF AsWanted
  <2> QED
    BY <1>1, <1>5, <1>6, <2>1, DecidedServes
<1>7. CASE assigned # (call.state = "present")
  <2>1. Proceed(c, {req})
    BY <1>1, <1>7
  <2> HIDE DEF req
  <2> QED
    BY <1>1, <1>3, <1>4, <1>5, <2>1, DecidedServes
<1> QED
  BY <1>6, <1>7

LEMMA KeysServe ==
    ASSUME IsFiniteSet(KeyIds), IsFiniteSet(EnvIds),
           TypeInv, NEW c \in Callers, OwnOf(c), ReadKeys(c)
    PROVE  Served(c)'
<1>1. PICK page \in Pages(LiveKeys) :
         Proceed(c, {[op |-> "del_key", key |-> k] : k \in KeysOf(page, args[c].user)})
  BY DEF ReadKeys
<1> DEFINE reqs == {[op |-> "del_key", key |-> k] : k \in KeysOf(page, args[c].user)}
<1>2. /\ at[c] = "read" /\ args[c].kind = "delete_all" /\ args[c] \in Calls
      /\ UNCHANGED elsewhere
  BY TypeParts DEF ReadKeys, TypeInv
<1>3. args[c].user \notin {Unused, Gone}
  BY <1>2, CallParts, NameAssumption
<1>4. \A k \in KeysOf(page, args[c].user) : k \in KeyIds /\ world.keys[k] = args[c].user
  BY DEF KeysOf, Pages, LiveKeys
<1>5. reqs \in SUBSET Requests /\ \A req \in reqs : Fits(c, req)
  BY <1>2, <1>4 DEF Requests, Fits
<1>6. ASSUME Whole(c)
      PROVE  (reqs = {} => AsWanted(c)) /\ Missing(c) \subseteq reqs
  <2>1. \A k \in KeyIds : world.keys[k] = args[c].user => k \in KeysOf(page, args[c].user)
    BY <1>2, <1>3, <1>6, LivePage DEF LiveKeys, KeysOf, Whole
  <2> QED
    BY <1>2, <2>1 DEF Missing, AsWanted
<1> QED
  BY <1>1, <1>2, <1>5, <1>6, DecidedServes

LEMMA EnvsServe ==
    ASSUME IsFiniteSet(KeyIds), IsFiniteSet(EnvIds),
           TypeInv, NEW c \in Callers, OwnOf(c), ReadEnvs(c)
    PROVE  Served(c)'
<1>0. PICK page \in Pages(LiveEnvs) : \E found \in Finds(args[c].name, page) :
         Proceed(c, IF args[c].state = "absent"
                    THEN {[op |-> "del_env", env |-> e] : e \in found}
                    ELSE IF found = {} THEN {[op |-> "add_env", name |-> args[c].name]}
                    ELSE {})
  BY DEF ReadEnvs
<1>1. PICK found \in Finds(args[c].name, page) :
         Proceed(c, IF args[c].state = "absent"
                    THEN {[op |-> "del_env", env |-> e] : e \in found}
                    ELSE IF found = {} THEN {[op |-> "add_env", name |-> args[c].name]}
                    ELSE {})
  BY <1>0
<1> DEFINE deleted == {[op |-> "del_env", env |-> e] : e \in found}
           added == {[op |-> "add_env", name |-> args[c].name]}
<1>2. /\ at[c] = "read" /\ args[c].kind = "env" /\ args[c] \in Calls
      /\ UNCHANGED elsewhere
  BY TypeParts DEF ReadEnvs, TypeInv
<1>3. args[c].name \in EnvNames /\ args[c].state \in {"present", "absent"}
  BY <1>2, CallParts DEF TypeInv, Place
<1>4. \A e \in found : e \in Named(args[c].name) /\ e \in EnvIds
                       /\ world.envs[e] = args[c].name
  BY FindsSome DEF Named, LiveEnvs
<1>5. CASE args[c].state = "absent"
  <2>1. deleted \in SUBSET Requests /\ \A req \in deleted : Fits(c, req)
    BY <1>2, <1>4, <1>5 DEF Requests, Fits
  <2>2. ASSUME Whole(c)
        PROVE  (deleted = {} => AsWanted(c)) /\ Missing(c) \subseteq deleted
    <3>1. page = LiveEnvs
      BY <1>2, <2>2, LivePage DEF Whole
    <3>2. found = Named(args[c].name)
      BY <1>3, <3>1, FindsAll, TypeParts DEF TypeInv
    <3> QED
      BY <1>2, <1>5, <3>2 DEF Missing, AsWanted
  <2> QED
    BY <1>1, <1>2, <1>5, <2>1, <2>2, DecidedServes
<1>6. CASE args[c].state = "present"
  <2>1. ~Lists(c)
    BY <1>2, <1>6 DEF Lists
  <2>2. CASE found = {}
    <3>1. added \in SUBSET Requests /\ \A req \in added : Fits(c, req)
      BY <1>2, <1>3, <1>6 DEF Requests, Fits
    <3>2. Proceed(c, added) /\ added # {}
      BY <1>1, <1>6, <2>2
    <3> QED
      BY <1>2, <2>1, <3>1, <3>2, DecidedServes
  <2>3. CASE found # {}
    <3>1. AsWanted(c)
      BY <1>2, <1>4, <1>6, <2>3 DEF AsWanted
    <3> QED
      BY <1>1, <1>2, <1>6, <2>1, <2>3, <3>1, DecidedServes
  <2> QED
    BY <2>2, <2>3
<1> QED
  BY <1>3, <1>5, <1>6

\* A call that is raised is owed nothing.
LEMMA RaisedServes ==
    ASSUME TypeInv, NEW c \in Callers, OwnOf(c), UNCHANGED <<world, args>>,
           NEW what \in Outcomes, End(c, "raised", what)
    PROVE  Served(c)'
<1>1. /\ at'[c] = "raised" /\ post'[c] = NoPost /\ todo' = todo
      /\ \A req \in todo[c] : Own(c, req)'
  <2>1. MovesOK
    BY TypeParts DEF TypeInv
  <2>2. at'[c] = "raised" /\ post'[c] = NoPost /\ todo' = todo
    BY <2>1, EndTyped DEF Moves, Settled
  <2> QED
    BY <2>2, OwnStays DEF OwnOf
<1> QED
  BY <1>1 DEF Served, OwnOf, Own, NoPost, Acts, Near

LEMMA ActiveServes ==
    ASSUME TypeInv, NEW c \in Callers, OwnOf(c), ReadActive(c)
    PROVE  Served(c)'
<1>0. PICK page \in Pages(LiveEnvs) : \E found \in Finds(args[c].name, page) :
         IF found = {} THEN End(c, "raised", "KeyError")
         ELSE Proceed(c, {[op |-> "activate", env |-> e] : e \in found \ {world.boot}})
  BY DEF ReadActive
<1>1. PICK found \in Finds(args[c].name, page) :
         IF found = {} THEN End(c, "raised", "KeyError")
         ELSE Proceed(c, {[op |-> "activate", env |-> e] : e \in found \ {world.boot}})
  BY <1>0
<1> DEFINE reqs == {[op |-> "activate", env |-> e] : e \in found \ {world.boot}}
<1>2. /\ at[c] = "read" /\ args[c].kind = "activate" /\ args[c] \in Calls
      /\ UNCHANGED elsewhere
  BY TypeParts DEF ReadActive, TypeInv
<1>3. \A e \in found : e \in EnvIds /\ world.envs[e] = args[c].name
  BY FindsSome DEF Named, LiveEnvs
<1>4. reqs \in SUBSET Requests /\ \A req \in reqs : Fits(c, req)
  BY <1>2, <1>3 DEF Requests, Fits
<1>5. ~Lists(c)
  BY <1>2 DEF Lists
<1>6. CASE found = {}
  BY <1>1, <1>2, <1>6, RaisedServes DEF Outcomes, elsewhere
<1>7. CASE found # {}
  <2>1. reqs = {} => AsWanted(c)
    BY <1>2, <1>3, <1>7 DEF AsWanted
  <2> QED
    BY <1>1, <1>2, <1>4, <1>5, <1>7, <2>1, DecidedServes
<1> QED
  BY <1>6, <1>7

LEMMA RulesetsServe ==
    ASSUME TypeInv, NEW c \in Callers, OwnOf(c), ReadRulesets(c)
    PROVE  Served(c)'
<1> DEFINE want == args[c].want
           drifted == {r \in DOMAIN want : (r \in world.enabled) # want[r]}
           reqs == {[op |-> "toggle", ruleset |-> r, on |-> want[r]] : r \in drifted}
<1>1. /\ at[c] = "read" /\ args[c].kind = "rules" /\ args[c] \in Calls
      /\ UNCHANGED elsewhere
      /\ IF ~(DOMAIN want \subseteq Rulesets) THEN End(c, "raised", "ValueError")
         ELSE Proceed(c, reqs)
  BY TypeParts DEF ReadRulesets, TypeInv
<1>2. CASE ~(DOMAIN want \subseteq Rulesets)
  BY <1>1, <1>2, RaisedServes DEF Outcomes, elsewhere
<1>3. CASE DOMAIN want \subseteq Rulesets
  <2>1. \A r \in DOMAIN want : r \in Rulesets /\ want[r] \in BOOLEAN
    BY <1>1, <1>3, CallParts
  <2>2. reqs \in SUBSET Requests /\ \A req \in reqs : Fits(c, req)
    BY <1>1, <2>1 DEF Requests, Fits
  <2>3. \A r \in DOMAIN want : r \notin drifted => (r \in world.enabled <=> want[r])
    BY <2>1
  <2>4. reqs = {} => AsWanted(c)
    <3>1. reqs = {} => \A r \in DOMAIN want : (r \in world.enabled) = want[r]
      OBVIOUS
    <3> QED
      BY <1>1, <3>1 DEF AsWanted
  <2>5. Missing(c) \subseteq reqs
    BY <1>1, <2>3 DEF Missing
  <2> QED
    BY <1>1, <1>3, <2>2, <2>4, <2>5, DecidedServes
<1> QED
  BY <1>2, <1>3

LEMMA NothingMissing ==
    ASSUME args \in [Callers -> Calls], NEW c \in Callers, Lists(c), Missing(c) = {}
    PROVE  AsWanted(c)
<1>1. args[c] \in Calls
  OBVIOUS
<1>2. CASE args[c].kind = "delete_all"
  BY <1>2 DEF Missing, AsWanted
<1>3. CASE args[c].kind = "env" /\ args[c].state = "absent"
  BY <1>3 DEF Missing, AsWanted
<1>4. CASE args[c].kind = "rules"
  <2>1. \A r \in DOMAIN args[c].want : args[c].want[r] \in BOOLEAN
    BY <1>1, <1>4, CallParts
  <2>2. \A r \in DOMAIN args[c].want : r \in world.enabled <=> args[c].want[r]
    BY <1>4 DEF Missing
  <2> QED
    BY <1>4, <2>1, <2>2 DEF AsWanted
<1> QED
  BY <1>2, <1>3, <1>4 DEF Lists

\* What a call has, and goes on to have while nothing runs.
Invested(c) == OwnOf(c) /\ Acts(c) /\ (Uncontested(c) => Near(c))

LEMMA SameInvestment ==
    ASSUME UNCHANGED <<world, args, reply>>, NEW c
    PROVE  /\ AsWanted(c)' <=> AsWanted(c)
           /\ Missing(c)' = Missing(c) /\ (Lists(c)' <=> Lists(c))
BY DEF AsWanted, Missing, Lists, Named, LiveEnvs

\* The loop over the requests, and what follows its last one.
LEMMA PostedServes ==
    ASSUME TypeInv, NEW c \in Callers, Invested(c), Posted(c)
    PROVE  OwnOf(c)' /\ Acts(c)' /\ (Uncontested(c) => Near(c)')
<1>1. /\ MovesOK /\ UNCHANGED <<world, args, reply>> /\ args \in [Callers -> Calls]
      /\ at[c] = "post" /\ wire[c] = "ok" /\ todo[c] \in SUBSET Requests
  BY TypeParts DEF TypeInv, Posted, elsewhere, MovesOK
<1>2. CASE todo[c] # {}
  <2>1. PICK req \in todo[c] : Moves(c, "post", req, "sent", 1) /\ todo'[c] = todo[c] \ {req}
    BY <1>1, <1>2, SendTyped DEF Posted
  <2>2. at'[c] = "post" /\ wire'[c] = "sent" /\ post'[c] = req
    BY <2>1 DEF Moves
  <2>3. \A r \in todo[c] : Own(c, r)'
    BY <1>1, <2>2, OwnStays DEF Invested, OwnOf
  <2>4. OwnOf(c)' /\ Acts(c)'
    BY <1>1, <2>1, <2>2, <2>3 DEF Invested, OwnOf, Acts
  <2>5. InHand(c)' = InHand(c)
    BY <1>1, <2>1, <2>2 DEF InHand
  <2> QED
    BY <1>1, <2>2, <2>4, <2>5, SameInvestment DEF Invested, Near
<1>3. CASE todo[c] = {}
  <2>1. /\ todo'[c] = {}
        /\ post'[c] = NoPost \/ (post'[c] = Reload /\ args[c].kind = "rules")
        /\ at'[c] \in {"reload", "reread", "returned"}
        /\ at'[c] = "reload" => args[c].kind = "rules" /\ post'[c] = Reload
    <3>1. CASE args[c].kind = "rules" /\ args[c].apply
      <4>1. MoveTo(c, "reload", Reload, "sent", 1) /\ todo' = todo
        BY <1>1, <1>3, <3>1 DEF Posted, SendTo
      <4> QED
        BY <1>1, <1>3, <3>1, <4>1 DEF MoveTo, MovesOK
    <3>2. CASE Goto(c, "reread")
      BY <1>1, <1>3, <3>2, GotoTyped DEF Moves, Places
    <3>3. CASE End(c, "returned", "changed")
      BY <1>1, <1>3, <3>3, EndTyped DEF Moves, Settled, Outcomes
    <3> QED
      BY <1>3, <3>1, <3>2, <3>3 DEF Posted
  <2>2. OwnOf(c)' /\ Acts(c)'
    <3>1. ~args[c].check
      BY <1>1 DEF Invested, Acts
    <3>2. Own(c, post[c])'
      BY <1>1, <2>1, <3>1 DEF Own, Fits, NoPost, Reload
    <3> QED
      BY <1>1, <2>1, <3>1, <3>2 DEF OwnOf, Acts
  <2>3. Uncontested(c) => AsWanted(c)
    BY <1>1, <1>3, NothingMissing DEF Invested, Near, InHand
  <2> QED
    BY <1>1, <2>1, <2>2, <2>3, SameInvestment DEF Near
<1> QED
  BY <1>2, <1>3

\* Its other steps: the end, an error, a lost answer or a refusal.
LEMMA OtherwiseServes ==
    ASSUME TypeInv, NEW c \in Callers, Invested(c),
           \/ Reloaded(c) \/ Reread(c) \/ ReadFails(c) \/ Refused(c) \/ LoseAnswer(c)
           \/ Refuse(c)
    PROVE  OwnOf(c)' /\ Acts(c)' /\ (Uncontested(c) => Near(c)')
<1>1. /\ MovesOK /\ UNCHANGED <<world, args, reply>>
      /\ todo' = todo
  BY TypeParts DEF TypeInv, Reloaded, Reread, ReadFails, Refused, LoseAnswer, Refuse, End,
                   elsewhere
<1>2. ASSUME NEW what, End(c, "raised", what) \/ End(c, "returned", what)
      PROVE  /\ at'[c] \in Settled /\ post'[c] = NoPost
             /\ OwnOf(c)' /\ Acts(c)'
  <2>1. at'[c] \in Settled /\ post'[c] = NoPost
    BY <1>1, <1>2 DEF End, MoveTo, MovesOK, Settled
  <2>2. \A req \in todo[c] : Own(c, req)'
    BY <1>1, <2>1, OwnStays DEF Invested, OwnOf, Settled
  <2> QED
    BY <1>1, <2>1, <2>2 DEF OwnOf, Own, NoPost, Acts, Settled
<1>3. ASSUME NEW what, End(c, "raised", what)
      PROVE  OwnOf(c)' /\ Acts(c)' /\ Near(c)'
  <2>1. at'[c] = "raised"
    BY <1>1, <1>3 DEF End, MoveTo, MovesOK
  <2> QED
    BY <1>2, <1>3, <2>1 DEF Near
<1>4. CASE Reloaded(c) \/ Reread(c)
  <2>1. End(c, "returned", "changed") /\ at[c] \in {"reload", "reread"}
    BY <1>4 DEF Reloaded, Reread
  <2>2. Uncontested(c) => AsWanted(c)
    BY <2>1 DEF Invested, Near
  <2> QED
    BY <1>1, <1>2, <2>1, <2>2, SameInvestment DEF Near, Settled
<1>5. CASE ReadFails(c) \/ Refused(c)
  BY <1>3, <1>5 DEF ReadFails, Refused
<1>6. CASE \/ LoseAnswer(c) /\ ~End(c, "raised", "unavailable")
           \/ Refuse(c)
  <2>1. /\ at'[c] = at[c] /\ post'[c] = post[c] /\ at[c] \in {"post", "reload"}
        /\ wire'[c] \in {"sent", "refused"}
    BY <1>1, <1>6 DEF LoseAnswer, Refuse, MoveTo, MovesOK, TypeInv, Place
  <2>2. OwnOf(c)' /\ Acts(c)'
    BY <1>1, <2>1, OwnStays DEF Invested, OwnOf, Acts
  <2>3. InHand(c) \subseteq InHand(c)'
    BY <1>1, <2>1 DEF InHand
  <2> QED
    BY <1>1, <2>1, <2>2, <2>3, SameInvestment DEF Invested, Near
<1> QED
  BY <1>3, <1>4, <1>5, <1>6

\* A call in progress stays contested once it is.
LEMMA ContestedStays ==
    ASSUME NEW c \in Callers, at[c] # "idle", OnePage' => OnePage,
           reply'[c] = reply[c] \/ args[c].kind # "create_key",
           \A d \in Callers : at[d] # "idle" => at'[d] # "idle" /\ args'[d] = args[d]
    PROVE  Uncontested(c)' => Uncontested(c)
<1>1. ASSUME NEW d \in Callers \ {c}, AtOdds(c, d) PROVE AtOdds(c, d)'
  BY <1>1 DEF AtOdds, Asking, RulesContested
<1> QED
  BY <1>1 DEF Uncontested, Whole

\* The steps of a caller, for itself: its start, its read, and what follows.
LEMMA CallerInvests ==
    ASSUME IsFiniteSet(KeyIds), IsFiniteSet(EnvIds),
           TypeInv, NEW c \in Callers, Invested(c), Step(c) \/ Refuse(c)
    PROVE  Invested(c)'
<1>1. /\ at[c] # "idle" /\ at'[c] # "idle" /\ UNCHANGED <<world, args, reply>>
      /\ \A d \in Callers \ {c} : at'[d] = at[d]
  <2>1. CASE Step(c) /\ ~LoseAnswer(c)
    BY <2>1, StepProgress DEF Progress, elsewhere
  <2>2. CASE LoseAnswer(c)
    BY <2>2, LoseProgress
  <2>3. CASE Refuse(c)
    BY <2>3 DEF Refuse, TypeInv, Place
  <2> QED
    BY <2>1, <2>2, <2>3
<1>2. (OnePage' <=> OnePage) /\ (Uncontested(c)' => Uncontested(c))
  <2>1. OnePage' <=> OnePage
    BY <1>1 DEF OnePage
  <2> QED
    BY <1>1, <2>1, ContestedStays
<1>3. CASE OwnOf(c)' /\ Acts(c)' /\ (Uncontested(c) => Near(c)')
  BY <1>2, <1>3 DEF Invested
<1>4. CASE Served(c)'
  BY <1>4 DEF Served, Invested, Uncontested
<1> QED
  BY <1>3, <1>4, AssignmentServes, KeysServe, EnvsServe, ActiveServes, RulesetsServe,
     PostedServes, OtherwiseServes DEF Step, Invested

LEMMA StartInvests ==
    ASSUME TypeInv, NEW c \in Callers, OwnOf(c), Start(c)
    PROVE  Invested(c)'
<1>1. PICK call \in Calls :
          /\ args' = [args EXCEPT ![c] = call]
          /\ \/ /\ call.kind \in {"priv", "env"} /\ call.state = "other"
                /\ End(c, "raised", "ValueError")
             \/ /\ call.kind \in {"priv", "env"} /\ call.state # "other"
                /\ Goto(c, "read")
             \/ /\ call.kind \in {"delete_all", "activate", "rules"}
                /\ Goto(c, "read")
             \/ /\ call.kind \in {"create_key", "delete_key"} /\ call.check
                /\ End(c, "returned", "would")
             \/ /\ call.kind = "create_key" /\ ~call.check
                /\ SendOneOf(c, {[op |-> "add_key", user |-> call.user]})
             \/ /\ call.kind = "delete_key" /\ ~call.check
                /\ SendOneOf(c, {[op |-> "del_key", key |-> call.key]})
  BY DEF Start
<1>2. /\ at[c] = "idle" /\ MovesOK /\ args'[c] = call
      /\ \A req \in todo[c] : req.op = "none"
  BY <1>1, TypeParts DEF Start, TypeInv, OwnOf, Own
<1>3. CASE \/ End(c, "raised", "ValueError") \/ Goto(c, "read")
           \/ End(c, "returned", "would") /\ call.check
  <2>1. /\ at'[c] \in {"raised", "read", "returned"} /\ post'[c] = NoPost /\ todo' = todo
        /\ at'[c] = "returned" => call.check
    BY <1>2, <1>3 DEF End, Goto, MoveTo, MovesOK
  <2> QED
    BY <1>2, <2>1 DEF Invested, OwnOf, Own, NoPost, Acts, Uncontested, Near
<1>4. ASSUME NEW req \in Requests, SendOneOf(c, {req}), ~call.check,
             call.kind \in {"create_key", "delete_key"}, Fits(c, req)'
      PROVE  Invested(c)'
  <2>1. /\ at'[c] = "post" /\ post'[c] = req /\ wire'[c] = "sent" /\ todo'[c] = {}
    BY <1>2, <1>4, SendTyped DEF Moves
  <2>2. ~Lists(c)'
    BY <1>2, <1>4 DEF Lists
  <2> QED
    BY <1>2, <1>4, <2>1, <2>2 DEF Invested, OwnOf, Own, Acts, Near
<1>5. CASE /\ call.kind = "create_key" /\ ~call.check
           /\ SendOneOf(c, {[op |-> "add_key", user |-> call.user]})
  <2>1. [op |-> "add_key", user |-> call.user] \in Requests
    BY <1>5, CallParts DEF Requests
  <2>2. Fits(c, [op |-> "add_key", user |-> call.user])'
    BY <1>2, <1>5 DEF Fits
  <2> QED
    BY <1>4, <1>5, <2>1, <2>2
<1>6. CASE /\ call.kind = "delete_key" /\ ~call.check
           /\ SendOneOf(c, {[op |-> "del_key", key |-> call.key]})
  <2>1. [op |-> "del_key", key |-> call.key] \in Requests
    BY <1>6, CallParts DEF Requests
  <2>2. Fits(c, [op |-> "del_key", key |-> call.key])'
    BY <1>2, <1>6 DEF Fits
  <2> QED
    BY <1>4, <1>6, <2>1, <2>2
<1> QED
  BY <1>1, <1>3, <1>5, <1>6

\* What the others do before a request runs leaves it what it has.
LEMMA OthersInvest ==
    ASSUME TypeInv, NEW c \in Callers, Invested(c), UNCHANGED world,
           at'[c] = at[c], args'[c] = args[c], post'[c] = post[c], todo'[c] = todo[c],
           wire'[c] = wire[c], reply'[c] = reply[c],
           \A d \in Callers : at[d] # "idle" => at'[d] # "idle" /\ args'[d] = args[d]
    PROVE  Invested(c)'
<1>1. OwnOf(c)' /\ Acts(c)'
  BY OwnStays DEF Invested, OwnOf, Acts
<1>2. CASE at[c] = "idle"
  BY <1>1, <1>2 DEF Invested, Near
<1>3. CASE at[c] # "idle"
  <2>1. Uncontested(c)' => Uncontested(c)
    <3>1. OnePage' => OnePage
      BY DEF OnePage
    <3> QED
      BY <1>3, <3>1, ContestedStays
  <2>2. Near(c)' <=> Near(c)
    BY DEF Near, AsWanted, Missing, Lists, InHand, Named, LiveEnvs
  <2> QED
    BY <1>1, <2>1, <2>2 DEF Invested
<1> QED
  BY <1>2, <1>3

-----------------------------------------------------------------------------
(* What a request does to what other calls asked for *)

\* A request run at the wish of some call leaves a call it is not at odds with as
\* that one asked.
LEMMA StaysWanted ==
    ASSUME TypeInv, NEW c \in Callers, NEW d \in Callers, NEW run \in Requests,
           NEW id \in KeyIds \cup {Unused}, Perform(run, id), Own(d, run),
           UNCHANGED <<at, args>>, reply'[c] = reply[c], Uncontested(c), AsWanted(c)
    PROVE  AsWanted(c)'
<1> DEFINE call == args[c]
<1>1. /\ world \in WorldType /\ args \in [Callers -> Calls] /\ call \in Calls
      /\ reply[c] \in KeyIds \cup {Unused} /\ args' = args
  BY TypeParts DEF TypeInv
<1>2. /\ run.op # "none" /\ at[d] # "idle" /\ ~args[d].check /\ Fits(d, run)
  BY <1>1, PerformDoes DEF Own
<1>3. d # c => ~AtOdds(c, d)
  BY DEF Uncontested
<1>4. CASE call.kind = "priv"
  <2>1. /\ call.type \in {"user", "group"} /\ call.target \in Targets \cup {Stranger}
        /\ call.target \in world.assigned \cap Listed(call.type) <=> call.state = "present"
    BY <1>1, <1>4, CallParts DEF AsWanted
  <2>2. world'.assigned = IF run.op = "assign"
                          THEN (world.assigned \ Listed(run.type)) \cup run.to
                          ELSE world.assigned
    BY <1>1, PerformParts
  <2>3. call.target \in world'.assigned \cap Listed(call.type) <=> call.state = "present"
    <3>1. CASE run.op # "assign"
      BY <2>1, <2>2, <3>1
    <3>2. CASE run.op = "assign" /\ run.type # call.type
      <4>1. run.type \in {"user", "group"} /\ run.to \subseteq Listed(run.type)
        BY <1>1, <3>2, RequestParts, PerformParts
      <4>2. Listed(run.type) \cap Listed(call.type) = {}
        BY <2>1, <3>2, <4>1, NameAssumption DEF Listed
      <4> QED
        BY <2>1, <2>2, <3>2, <4>1, <4>2
    <3>3. CASE run.op = "assign" /\ run.type = call.type
      <4>1. /\ run.to \subseteq Listed(call.type)
            /\ call.target \in run.to <=> call.state = "present"
        <5>1. args[d].kind = "priv" /\ args[d].type = call.type
          BY <1>2, <3>3 DEF Fits
        <5>2. args[d].target = call.target /\ args[d].state = call.state
          BY <1>2, <1>3, <1>4, <5>1 DEF AtOdds, Asking
        <5> QED
          BY <1>1, <1>2, <3>3, <5>2, PerformParts DEF Fits
      <4> QED
        BY <2>2, <3>3, <4>1
    <3> QED
      BY <3>1, <3>2, <3>3
  <2> QED
    BY <1>1, <1>4, <2>3 DEF AsWanted, Listed
<1>5. CASE call.kind = "create_key"
  <2>1. reply[c] \in KeyIds /\ world.keys[reply[c]] = call.user /\ call.user \in Users
    BY <1>1, <1>5, CallParts DEF AsWanted
  <2>2. ASSUME world'.keys[reply[c]] # world.keys[reply[c]] PROVE FALSE
    <3>1. run.op = "del_key" /\ run.key = reply[c]
      BY <1>1, <2>1, <2>2, PerformParts, NameAssumption
    <3>2. \/ args[d].kind = "delete_key" /\ args[d].key = reply[c]
          \/ args[d].kind = "delete_all" /\ args[d].user = call.user
      BY <1>2, <2>1, <3>1, NameAssumption DEF Fits
    <3> QED
      BY <1>2, <1>3, <1>5, <3>2 DEF AtOdds, Asking
  <2> QED
    BY <1>1, <1>5, <2>1, <2>2 DEF AsWanted
<1>6. CASE call.kind = "delete_key"
  <2>1. call.key \in KeyIds /\ world.keys[call.key] = Gone
    BY <1>1, <1>6, CallParts DEF AsWanted
  <2>2. world'.keys[call.key] = Gone
    BY <1>1, <2>1, PerformParts, NameAssumption
  <2> QED
    BY <1>1, <1>6, <2>2 DEF AsWanted
<1>7. CASE call.kind = "delete_all"
  <2>1. call.user \in Users /\ \A k \in KeyIds : world.keys[k] # call.user
    BY <1>1, <1>7, CallParts DEF AsWanted
  <2>2. ASSUME NEW k \in KeyIds, world'.keys[k] = call.user PROVE FALSE
    <3>1. run.op = "add_key" /\ run.user = call.user
      BY <1>1, <2>1, <2>2, PerformParts, NameAssumption
    <3>2. args[d].kind = "create_key" /\ args[d].user = call.user
      BY <1>2, <3>1 DEF Fits
    <3> QED
      BY <1>2, <1>3, <1>7, <3>2 DEF AtOdds, Asking
  <2> QED
    BY <1>1, <1>7, <2>2 DEF AsWanted
<1>8. CASE call.kind = "env"
  <2>1. call.name \in EnvNames /\ (Named(call.name) # {} <=> call.state = "present")
    BY <1>1, <1>8, CallParts DEF AsWanted
  <2>2. CASE call.state = "present"
    <3>1. PICK e \in EnvIds : world.envs[e] = call.name
      BY <2>1, <2>2 DEF Named, LiveEnvs
    <3>2. ASSUME world'.envs[e] # world.envs[e] PROVE FALSE
      <4>1. run.op = "del_env" /\ run.env = e
        BY <1>1, <2>1, <3>1, <3>2, PerformParts, NameAssumption
      <4>2. args[d].kind = "env" /\ args[d].state = "absent" /\ args[d].name = call.name
        BY <1>2, <2>1, <3>1, <4>1, NameAssumption DEF Fits
      <4> QED
        BY <1>2, <1>3, <1>8, <2>2, <4>2 DEF AtOdds, Asking
    <3>3. Named(call.name)' # {}
      BY <2>1, <3>1, <3>2, <1>1, NameAssumption DEF Named, LiveEnvs
    <3> QED
      BY <1>1, <1>8, <2>2, <3>3 DEF AsWanted, Named, LiveEnvs
  <2>3. CASE call.state # "present"
    <3>1. ASSUME NEW e \in EnvIds, world'.envs[e] = call.name PROVE FALSE
      <4>1. world.envs[e] # call.name
        BY <2>1, <2>3, <3>1, NameAssumption DEF Named, LiveEnvs
      <4>2. run.op = "add_env" /\ run.name = call.name
        BY <1>1, <2>1, <3>1, <4>1, PerformParts, NameAssumption
      <4>3. args[d].kind = "env" /\ args[d].state = "present" /\ args[d].name = call.name
        BY <1>2, <4>2 DEF Fits
      <4> QED
        BY <1>2, <1>3, <1>8, <2>3, <4>3 DEF AtOdds, Asking
    <3> QED
      BY <1>1, <1>8, <2>3, <3>1 DEF AsWanted, Named, LiveEnvs
  <2> QED
    BY <2>2, <2>3
<1>9. CASE call.kind = "activate"
  <2>1. /\ call.name \in EnvNames /\ world.envs[world.boot] = call.name
        /\ world.boot \in EnvIds
    BY <1>1, <1>9, CallParts, WorldParts DEF AsWanted
  <2>2. world'.envs[world'.boot] = call.name
    <3>1. CASE world'.boot # world.boot
      <4>1. run.op = "activate" /\ world'.boot = run.env /\ run.env \in LiveEnvs
        BY <1>1, <3>1, PerformParts
      <4>2. args[d].kind = "activate" /\ args[d].name = world.envs[run.env]
        BY <1>2, <4>1 DEF Fits, LiveEnvs
      <4>3. args[d].name = call.name
        BY <1>2, <1>3, <1>9, <4>2 DEF AtOdds, Asking
      <4>4. run.env \in EnvIds /\ world'.envs[run.env] = world.envs[run.env]
        BY <1>1, <4>1, PerformParts DEF LiveEnvs
      <4> QED
        BY <4>1, <4>2, <4>3, <4>4
    <3>2. CASE world'.boot = world.boot /\ world'.envs[world.boot] # world.envs[world.boot]
      <4>1. run.op = "del_env" /\ run.env = world.boot
        BY <1>1, <2>1, <3>2, PerformParts, NameAssumption
      <4>2. args[d].kind = "env" /\ args[d].state = "absent" /\ args[d].name = call.name
        BY <1>2, <2>1, <4>1, NameAssumption DEF Fits
      <4> QED
        BY <1>2, <1>3, <1>9, <4>2 DEF AtOdds, Asking
    <3> QED
      BY <2>1, <3>1, <3>2
  <2> QED
    BY <1>1, <1>9, <2>2 DEF AsWanted
<1>10. CASE call.kind = "rules"
  <2>1. \A r \in DOMAIN call.want : /\ call.want[r] \in BOOLEAN
                                    /\ r \in world.enabled <=> call.want[r]
    BY <1>1, <1>10, CallParts DEF AsWanted
  <2>2. ASSUME NEW r \in DOMAIN call.want PROVE r \in world'.enabled <=> call.want[r]
    <3>1. CASE run.op # "toggle"
      BY <1>1, <2>1, <3>1, PerformDoes
    <3>2. CASE run.op = "toggle" /\ r # run.ruleset
      BY <1>1, <2>1, <3>2, PerformDoes
    <3>3. CASE run.op = "toggle" /\ r = run.ruleset
      <4>1. /\ args[d].kind = "rules" /\ r \in DOMAIN args[d].want
            /\ run.on = args[d].want[r]
        BY <1>2, <3>3 DEF Fits
      <4>2. args[d].want[r] = call.want[r]
        BY <1>2, <1>3, <1>10, <4>1 DEF AtOdds, Asking, RulesContested
      <4> QED
        BY <1>1, <3>3, <4>1, <4>2, PerformDoes
    <3> QED
      BY <3>1, <3>2, <3>3
  <2>3. \A r \in DOMAIN call.want : (r \in world'.enabled) = call.want[r]
    BY <2>1, <2>2
  <2> QED
    BY <1>1, <1>10, <2>3 DEF AsWanted
<1> QED
  BY <1>1, <1>4, <1>5, <1>6, <1>7, <1>8, <1>9, <1>10, CallKind

\* It gives such a call nothing more to post.
LEMMA MissingStays ==
    ASSUME TypeInv, NEW c \in Callers, NEW d \in Callers, NEW run \in Requests,
           NEW id \in KeyIds \cup {Unused}, Perform(run, id), Own(d, run),
           UNCHANGED <<at, args>>, Uncontested(c), Lists(c)
    PROVE  Missing(c)' \subseteq Missing(c)
<1> DEFINE call == args[c]
<1>1. /\ world \in WorldType /\ args \in [Callers -> Calls] /\ call \in Calls
      /\ args' = args
  BY TypeParts DEF TypeInv
<1>2. /\ run.op # "none" /\ at[d] # "idle" /\ ~args[d].check /\ Fits(d, run)
  BY <1>1, PerformDoes DEF Own
<1>3. d # c => ~AtOdds(c, d)
  BY DEF Uncontested
<1>4. CASE call.kind = "delete_all"
  <2>1. call.user \in Users
    BY <1>1, <1>4, CallParts
  <2>2. ASSUME NEW k \in KeyIds, world'.keys[k] = call.user, world.keys[k] # call.user
        PROVE  FALSE
    <3>1. run.op = "add_key" /\ run.user = call.user
      BY <1>1, <2>1, <2>2, PerformParts, NameAssumption
    <3>2. args[d].kind = "create_key" /\ args[d].user = call.user
      BY <1>2, <3>1 DEF Fits
    <3> QED
      BY <1>2, <1>3, <1>4, <3>2 DEF AtOdds, Asking
  <2> QED
    BY <1>1, <1>4, <2>2 DEF Missing
<1>5. CASE call.kind = "env" /\ call.state = "absent"
  <2>1. call.name \in EnvNames
    BY <1>1, <1>5, CallParts
  <2>2. ASSUME NEW e \in EnvIds, world'.envs[e] = call.name, world.envs[e] # call.name
        PROVE  FALSE
    <3>1. run.op = "add_env" /\ run.name = call.name
      BY <1>1, <2>1, <2>2, PerformParts, NameAssumption
    <3>2. args[d].kind = "env" /\ args[d].state = "present" /\ args[d].name = call.name
      BY <1>2, <3>1 DEF Fits
    <3> QED
      BY <1>2, <1>3, <1>5, <3>2 DEF AtOdds, Asking
  <2>3. Named(call.name)' \subseteq Named(call.name)
    BY <2>1, <2>2, NameAssumption DEF Named, LiveEnvs
  <2>4. /\ Missing(c) = {[op |-> "del_env", env |-> e] : e \in Named(call.name)}
        /\ Missing(c)' = {[op |-> "del_env", env |-> e] : e \in Named(call.name)'}
    BY <1>1, <1>5 DEF Missing, Named, LiveEnvs
  <2> QED
    BY <2>3, <2>4
<1>6. CASE call.kind = "rules"
  <2>1. ASSUME NEW r \in DOMAIN call.want, r \in world.enabled <=> call.want[r]
        PROVE  r \in world'.enabled <=> call.want[r]
    <3>1. CASE ~(run.op = "toggle" /\ r = run.ruleset)
      BY <1>1, <2>1, <3>1, PerformDoes
    <3>2. CASE run.op = "toggle" /\ r = run.ruleset
      <4>1. /\ args[d].kind = "rules" /\ r \in DOMAIN args[d].want
            /\ run.on = args[d].want[r]
        BY <1>2, <3>2 DEF Fits
      <4>2. args[d].want[r] = call.want[r]
        BY <1>2, <1>3, <1>6, <4>1 DEF AtOdds, Asking, RulesContested
      <4> QED
        BY <1>1, <3>2, <4>1, <4>2, PerformDoes
    <3> QED
      BY <3>1, <3>2
  <2> QED
    BY <1>1, <1>6, <2>1 DEF Missing
<1> QED
  BY <1>4, <1>5, <1>6 DEF Lists

\* A request that has run is not missing.
LEMMA RunNotMissing ==
    ASSUME TypeInv, NEW c \in Callers, NEW run \in Requests,
           NEW id \in KeyIds \cup {Unused}, Perform(run, id), UNCHANGED args, Lists(c)
    PROVE  run \notin Missing(c)'
<1> DEFINE call == args[c]
<1>1. world \in WorldType /\ call \in Calls /\ args' = args
  BY TypeParts DEF TypeInv
<1>2. CASE call.kind = "delete_all"
  <2>1. call.user # Gone
    BY <1>1, <1>2, CallParts, NameAssumption
  <2>2. run.op = "del_key" => world'.keys[run.key] = Gone
    BY <1>1, PerformDoes
  <2> QED
    BY <1>1, <1>2, <2>1, <2>2 DEF Missing
<1>3. CASE call.kind = "env"
  <2>1. run.op = "del_env" => run.env \notin Named(call.name)'
    BY <1>1, PerformDoes DEF Named, LiveEnvs
  <2>2. Missing(c)' = {[op |-> "del_env", env |-> e] : e \in Named(call.name)'}
    BY <1>1, <1>3 DEF Missing, Named, LiveEnvs
  <2> QED
    BY <2>1, <2>2
<1>4. CASE call.kind = "rules"
  <2>1. run.op = "toggle" => (run.ruleset \in world'.enabled <=> run.on)
    BY <1>1, PerformDoes
  <2> QED
    BY <1>1, <1>4, <2>1 DEF Missing
<1> QED
  BY <1>2, <1>3, <1>4 DEF Lists

\* The one request of a call that does not go through a list does what it asked for.
LEMMA RunServes ==
    ASSUME TypeInv, NEW c \in Callers, NEW run \in Requests,
           NEW id \in KeyIds \cup {Unused}, Perform(run, id), Own(c, run),
           UNCHANGED <<at, args>>, reply'[c] = id, ~Lists(c)
    PROVE  AsWanted(c)'
<1> DEFINE call == args[c]
<1>1. world \in WorldType /\ call \in Calls /\ args' = args
  BY TypeParts DEF TypeInv
<1>2. run.op # "none" /\ Fits(c, run)
  BY <1>1, PerformDoes DEF Own
<1>3. run.op \in {"assign", "add_key", "del_key", "add_env", "del_env", "activate",
                  "toggle", "reload"}
  BY <1>2 DEF Requests
<1>4. CASE call.kind = "priv"
  <2>1. /\ run.op = "assign" /\ run.type = call.type
        /\ call.target \in run.to <=> call.state = "present"
    BY <1>2, <1>3, <1>4 DEF Fits
  <2>2. /\ run.to \subseteq Listed(call.type)
        /\ \A t \in Listed(call.type) : t \in world'.assigned <=> t \in run.to
    BY <1>1, <2>1, PerformParts, PerformDoes
  <2>3. call.target \in world'.assigned \cap Listed(call.type) <=> call.state = "present"
    BY <2>1, <2>2
  <2> QED
    BY <1>1, <1>4, <2>3 DEF AsWanted, Listed
<1>5. CASE call.kind = "create_key"
  <2>1. id \in KeyIds /\ world'.keys[id] = call.user
    BY <1>1, <1>2, <1>3, <1>5, PerformDoes DEF Fits
  <2>2. id # Unused
    <3>1. world.keys[id] = Unused /\ run.op = "add_key"
      BY <1>2, <1>3, <1>5 DEF Fits, Perform
    <3> QED
      BY <2>1, <3>1, NameAssumption
  <2> QED
    BY <1>1, <1>5, <2>1, <2>2 DEF AsWanted
<1>6. CASE call.kind = "delete_key"
  BY <1>1, <1>2, <1>3, <1>6, PerformDoes DEF Fits, AsWanted
<1>7. CASE call.kind = "env"
  <2>1. run.op = "add_env" /\ call.state = "present" /\ run.name = call.name
    BY <1>2, <1>3, <1>7 DEF Fits, Lists
  <2>2. call.name \notin {Unused, Gone}
    BY <1>1, <1>7, CallParts, NameAssumption
  <2>3. Named(call.name)' # {}
    BY <1>1, <2>1, <2>2, PerformDoes DEF Named, LiveEnvs
  <2> QED
    BY <1>1, <1>7, <2>1, <2>3 DEF AsWanted, Named, LiveEnvs
<1>8. CASE call.kind = "activate"
  <2>1. run.op = "activate" /\ world.envs[run.env] \in {call.name, Gone}
    BY <1>2, <1>3, <1>8 DEF Fits
  <2>2. world'.boot = run.env /\ run.env \in EnvIds /\ world.envs[run.env] # Gone
    BY <1>1, <2>1, PerformDoes DEF LiveEnvs
  <2>3. world'.envs[run.env] = world.envs[run.env]
    BY <1>1, <2>1, <2>2, PerformParts
  <2> QED
    BY <1>1, <1>8, <2>1, <2>2, <2>3 DEF AsWanted
<1> QED
  BY <1>1, <1>4, <1>5, <1>6, <1>7, <1>8, CallKind DEF Lists

\* A request of any call, in time or late, leaves a call it is not the answer to
\* what it has.
LEMMA RunInvests ==
    ASSUME IsFiniteSet(KeyIds), IsFiniteSet(EnvIds), TypeInv,
           NEW c \in Callers, Invested(c), NEW d \in Callers, NEW run \in Requests,
           NEW id \in KeyIds \cup {Unused}, Perform(run, id), Own(d, run),
           UNCHANGED <<at, args, todo, post>>, wire'[c] = wire[c], reply'[c] = reply[c]
    PROVE  Invested(c)'
<1>1. /\ world \in WorldType /\ args \in [Callers -> Calls]
      /\ post[c] \in Requests /\ todo[c] \subseteq Requests
  BY TypeParts DEF TypeInv, MovesOK
<1>2. OwnOf(c)' /\ Acts(c)'
  <2>1. Own(c, post[c])' /\ \A req \in todo[c] : Own(c, req)'
    BY <1>1, OwnRuns DEF Invested, OwnOf
  <2> QED
    BY <2>1 DEF Invested, OwnOf, Acts
<1>3. CASE at[c] = "idle"
  BY <1>2, <1>3 DEF Invested, Near
<1>4. ASSUME at[c] # "idle", Uncontested(c)' PROVE Near(c)'
  <2>1. Uncontested(c) /\ Near(c)
    BY <1>1, <1>4, PageShrinks, ContestedStays DEF Invested
  <2>2. AsWanted(c) => AsWanted(c)'
    BY <2>1, StaysWanted
  <2>3. Lists(c) => Missing(c)' \subseteq Missing(c)
    BY <2>1, MissingStays
  <2>4. InHand(c)' = InHand(c) /\ (Lists(c)' <=> Lists(c))
    BY DEF InHand, Lists
  <2> QED
    BY <2>1, <2>2, <2>3, <2>4 DEF Near
<1> QED
  BY <1>2, <1>3, <1>4 DEF Invested

\* The answer that arrives: what ran is off the list, or all there was to do.
LEMMA AnswerInvests ==
    ASSUME IsFiniteSet(KeyIds), IsFiniteSet(EnvIds), TypeInv,
           NEW c \in Callers, Invested(c), NEW id \in KeyIds \cup {Unused},
           Perform(post[c], id), UNCHANGED <<at, args, todo, post>>,
           wire[c] = "sent", wire'[c] = "ok", reply'[c] = id
    PROVE  Invested(c)'
<1>1. /\ world \in WorldType /\ args \in [Callers -> Calls]
      /\ post[c] \in Requests /\ todo[c] \subseteq Requests
      /\ at[c] \in {"post", "reload"}
  BY TypeParts DEF TypeInv, MovesOK, Place
<1>2. OwnOf(c)' /\ Acts(c)'
  <2>1. Own(c, post[c])' /\ \A req \in todo[c] : Own(c, req)'
    BY <1>1, OwnRuns DEF Invested, OwnOf
  <2> QED
    BY <2>1 DEF Invested, OwnOf, Acts
<1>3. Own(c, post[c])
  BY DEF Invested, OwnOf
<1>4. CASE ~Lists(c)
  <2>1. AsWanted(c)'
    BY <1>1, <1>3, <1>4, RunServes
  <2>2. ~Lists(c)'
    BY <1>4 DEF Lists
  <2> QED
    BY <1>1, <1>2, <2>1, <2>2 DEF Invested, Near
<1>5. ASSUME Lists(c), Uncontested(c)' PROVE Near(c)'
  <2>1. args[c].kind # "create_key"
    BY <1>5 DEF Lists
  <2>2. Uncontested(c) /\ Near(c)
    BY <1>1, <1>5, <2>1, PageShrinks, ContestedStays DEF Invested
  <2>3. CASE at[c] = "reload"
    <3>1. args[c].kind = "rules" /\ AsWanted(c)
      BY <2>2, <2>3 DEF Near, Invested, Acts
    <3>2. AsWanted(c)'
      <4>1. post[c].op = "reload"
        BY <2>3 DEF Invested, Acts, Reload
      <4>2. world'.enabled = world.enabled
        BY <1>1, <4>1, PerformDoes
      <4> QED
        BY <3>1, <4>2 DEF AsWanted
    <3> QED
      BY <2>3, <3>2 DEF Near
  <2>4. CASE at[c] = "post"
    <3>1. Missing(c)' \subseteq Missing(c)
      BY <1>1, <1>3, <1>5, <2>2, MissingStays
    <3>2. post[c] \notin Missing(c)'
      BY <1>1, <1>5, RunNotMissing
    <3>3. Missing(c) \subseteq todo[c] \cup {post[c]}
      BY <1>5, <2>2, <2>4 DEF Near, InHand
    <3>4. InHand(c)' = todo[c] /\ Lists(c)'
      BY <1>5 DEF InHand, Lists
    <3> QED
      BY <2>4, <3>1, <3>2, <3>3, <3>4 DEF Near
  <2> QED
    BY <1>1, <2>3, <2>4
<1> QED
  BY <1>2, <1>4, <1>5 DEF Invested

\* Every step leaves every call what it has, and every late request its call's own.
LEMMA StepAsked ==
    ASSUME IsFiniteSet(KeyIds), IsFiniteSet(EnvIds), TypeInv, AskedInv, [Next]_vars
    PROVE  AskedInv'
<1> USE DEF AskedInv
<1>1. \A c \in Callers : Invested(c)
  BY DEF Invested
<1>2. \A m \in late : m.by \in Callers /\ m.req \in Requests
  BY TypeParts DEF TypeInv, LateRequests
<1>3. /\ world \in WorldType /\ args \in [Callers -> Calls]
      /\ \A c \in Callers : post[c] \in Requests
  BY TypeParts DEF TypeInv, MovesOK
<1>4. ASSUME NEW c \in Callers, Start(c) \/ Step(c) \/ Refuse(c)
      PROVE  AskedInv'
  <2>1. /\ UNCHANGED <<world, reply>> /\ (Start(c) => at[c] = "idle")
        /\ (~Start(c) => at[c] # "idle" /\ args' = args)
        /\ at'[c] \notin {"idle"}
        /\ at[c] \notin {"idle", "read"} => at'[c] # "read"
        /\ \A d \in Callers \ {c} : /\ at'[d] = at[d] /\ post'[d] = post[d]
                                    /\ wire'[d] = wire[d] /\ todo'[d] = todo[d]
                                    /\ args'[d] = args[d]
    <3>1. CASE Start(c)
      BY <3>1, StartProgress DEF Progress
    <3>2. CASE Step(c) /\ ~LoseAnswer(c)
      <4>1. ~Start(c)
        BY <3>2, StepProgress DEF Start
      <4> QED
        BY <3>2, <4>1, StepProgress DEF Progress, elsewhere
    <3>3. CASE LoseAnswer(c)
      BY <3>3, LoseProgress DEF Start
    <3>4. CASE Refuse(c)
      BY <1>3, <3>4 DEF Refuse, Start, TypeInv, TypeOK, Place
    <3> QED
      BY <1>4, <3>1, <3>2, <3>3, <3>4
  <2>2. \A d \in Callers : at[d] # "idle" => at'[d] # "idle" /\ args'[d] = args[d]
    BY <2>1
  <2>3. Invested(c)'
    BY <1>1, <1>4, StartInvests, CallerInvests DEF Invested
  <2>4. ASSUME NEW d \in Callers \ {c} PROVE Invested(d)'
    BY <1>1, <2>1, <2>2, OthersInvest
  <2>5. ASSUME NEW d \in Callers, NEW req, Own(d, req) PROVE Own(d, req)'
    <3>1. at[d] \notin {"idle", "read"} =>
              at'[d] \notin {"idle", "read"} /\ args'[d] = args[d]
      BY <2>1
    <3> QED
      BY <2>1, <2>5, <3>1, OwnStays
  <2>6. \A m \in late' : m \in late \/ (m.by = c /\ m.req = post[c])
    <3>1. CASE LoseAnswer(c)
      BY <3>1 DEF LoseAnswer
    <3>2. CASE ~LoseAnswer(c)
      <4>1. late' = late
        BY <1>4, <3>2, StartProgress, StepProgress DEF Refuse, elsewhere
      <4> QED
        BY <4>1
    <3> QED
      BY <3>1, <3>2
  <2>7. \A m \in late' : Own(m.by, m.req)'
    BY <1>1, <1>2, <2>5, <2>6 DEF Invested, OwnOf
  <2> QED
    BY <2>3, <2>4, <2>7 DEF Invested
<1>5. ASSUME NEW c \in Callers, Execute(c) PROVE AskedInv'
  <2>1. PICK id \in KeyIds \cup {Unused} :
           Perform(post[c], id) /\ reply' = [reply EXCEPT ![c] = id]
    BY <1>5 DEF Execute
  <2>2. /\ UNCHANGED <<at, args, todo, post, late>> /\ wire[c] = "sent"
        /\ wire' = [wire EXCEPT ![c] = "ok"]
    BY <1>5 DEF Execute
  <2>3. /\ wire'[c] = "ok" /\ reply'[c] = id
        /\ \A d \in Callers \ {c} : wire'[d] = wire[d] /\ reply'[d] = reply[d]
    BY <2>1, <2>2, TypeParts DEF TypeInv, MovesOK
  <2>4. Own(c, post[c])
    BY DEF OwnOf
  <2>5. Invested(c)'
    BY <1>1, <2>1, <2>2, <2>3, AnswerInvests
  <2>6. ASSUME NEW d \in Callers \ {c} PROVE Invested(d)'
    BY <1>1, <1>3, <2>1, <2>2, <2>3, <2>4, RunInvests
  <2>7. \A m \in late' : Own(m.by, m.req)'
    BY <1>2, <1>3, <2>1, <2>2, OwnRuns
  <2> QED
    BY <2>5, <2>6, <2>7 DEF Invested
<1>6. CASE LateExecute
  <2>1. PICK m \in late : late' = late \ {m}
                          /\ \E id \in KeyIds \cup {Unused} : Perform(m.req, id)
    BY <1>6 DEF LateExecute
  <2>2. PICK id \in KeyIds \cup {Unused} : Perform(m.req, id)
    BY <2>1
  <2>3. UNCHANGED <<at, args, todo, post, wire, reply>>
    BY <1>6 DEF LateExecute, request
  <2>4. m.by \in Callers /\ m.req \in Requests /\ Own(m.by, m.req)
    BY <1>2
  <2>5. ASSUME NEW d \in Callers PROVE Invested(d)'
    BY <1>1, <2>2, <2>3, <2>4, RunInvests
  <2>6. \A n \in late' : Own(n.by, n.req)'
    BY <1>2, <1>3, <2>1, <2>2, <2>3, <2>4, OwnRuns
  <2> QED
    BY <2>5, <2>6 DEF Invested
<1>7. CASE UNCHANGED vars
  <2>1. UNCHANGED <<world, late, at, args, todo, post, wire, reply>>
    BY <1>7 DEF vars, request
  <2>2. ASSUME NEW c \in Callers PROVE Invested(c)'
    BY <1>1, <2>1, OthersInvest
  <2>3. \A m \in late' : Own(m.by, m.req)'
    BY <2>1, OwnStays
  <2> QED
    BY <2>2, <2>3 DEF Invested
<1> QED
  BY <1>4, <1>5, <1>6, <1>7 DEF Next

LEMMA AskedHolds ==
    ASSUME IsFiniteSet(KeyIds), IsFiniteSet(EnvIds)
    PROVE  Spec => []AskedInv
<1>1. Init => AskedInv
  BY DEF Init, AskedInv, OwnOf, Own, NoPost, Acts, Near
<1>2. TypeInv /\ AskedInv /\ [Next]_vars => AskedInv'
  BY StepAsked
<1> QED
  BY <1>1, <1>2, TypeHolds, PTL DEF Spec

\* A call that returned without check_mode left what it names as it asked: whatever
\* was lost, sent again or run late, and whoever else was at work on the same
\* appliance, unless another call is at odds with it or a listing outgrew its page.
\* The ids an appliance gives out are finitely many.
THEOREM AsAskedHolds ==
    ASSUME IsFiniteSet(KeyIds), IsFiniteSet(EnvIds)
    PROVE  Spec => []AsAsked
<1>1. AskedInv => AsAsked
  BY DEF AskedInv, AsAsked, Uncontested, Whole, Near
<1> QED
  BY <1>1, AskedHolds, PTL

-----------------------------------------------------------------------------
(* The running IDS has what is enabled: RulesLoaded *)

\* A call whose reload is still to run, unless it raises.
Reloads(c) == at[c] = "post" \/ (at[c] = "reload" /\ wire[c] # "ok")

InAccord ==
    /\ \A c \in Callers : at[c] # "raised"
    /\ \A c \in Asking("rules") :
          args[c].apply /\ \A d \in Asking("rules") : ~RulesContested(c, d)

\* What makes RulesLoaded inductive: a ruleset toggled and not yet running has a
\* reload on its way.
LoadInv ==
    InAccord /\ world.inspecting # world.enabled => \E c \in Asking("rules") : Reloads(c)

\* Calls in accord after a step were before it.
LEMMA AccordStays ==
    ASSUME \A c \in Callers : at[c] # "idle" => at'[c] # "idle" /\ args'[c] = args[c],
           \A c \in Callers : at[c] = "raised" => at'[c] = "raised", InAccord'
    PROVE  InAccord
<1>1. \A c \in Asking("rules") : c \in Asking("rules")' /\ args'[c] = args[c]
  BY DEF Asking
<1>2. \A c \in Asking("rules"), d \in Asking("rules") :
         RulesContested(c, d) => RulesContested(c, d)'
  BY <1>1 DEF RulesContested
<1>3. \A c \in Callers : at[c] # "raised"
  BY DEF InAccord
<1> QED
  BY <1>1, <1>2, <1>3 DEF InAccord

\* The loop of a call that applies ends in a reload, and what fails in it raises.
LEMMA LoopReloads ==
    ASSUME TypeInv, NEW c \in Callers, Acts(c), Step(c) \/ Refuse(c), Reloads(c),
           args[c].kind = "rules" /\ args[c].apply
    PROVE  Reloads(c)' \/ at'[c] = "raised"
<1>1. MovesOK /\ at[c] \in {"post", "reload"}
  BY TypeParts DEF TypeInv, Reloads
<1>2. \/ Posted(c) \/ Refused(c) \/ LoseAnswer(c) \/ Refuse(c)
  BY <1>1 DEF Step, Reloads, ReadAssignment, ReadKeys, ReadEnvs, ReadActive, ReadRulesets,
     Reloaded, Reread, ReadFails
<1>3. CASE Posted(c)
  <2>1. CASE todo[c] # {}
    <3>1. SendOneOf(c, todo[c]) /\ todo[c] \in SUBSET Requests
      BY <1>1, <1>3, <2>1 DEF Posted, MovesOK
    <3>2. at'[c] = "post"
      BY <1>1, <3>1, SendTyped DEF Moves
    <3> QED
      BY <3>2 DEF Reloads
  <2>2. CASE todo[c] = {}
    <3>1. MoveTo(c, "reload", Reload, "sent", 1)
      BY <1>3, <2>2 DEF Posted, SendTo
    <3>2. at'[c] = "reload" /\ wire'[c] = "sent"
      BY <1>1, <3>1 DEF MoveTo, MovesOK
    <3> QED
      BY <3>2 DEF Reloads
  <2> QED
    BY <2>1, <2>2
<1>4. ASSUME NEW what, End(c, "raised", what) PROVE at'[c] = "raised"
  BY <1>1, <1>4 DEF End, MoveTo, MovesOK
<1>5. CASE Refused(c)
  BY <1>4, <1>5 DEF Refused
<1>6. CASE LoseAnswer(c)
  <2>1. CASE MoveTo(c, at[c], post[c], "sent", attempt[c] + 1)
    BY <1>1, <2>1 DEF MoveTo, MovesOK, Reloads
  <2> QED
    BY <1>4, <1>6, <2>1 DEF LoseAnswer
<1>7. CASE Refuse(c)
  BY <1>1, <1>7 DEF Refuse, Reloads, MovesOK
<1> QED
  BY <1>2, <1>3, <1>5, <1>6, <1>7

\* A toggle that runs has its call in its loop, or changes nothing.
LEMMA ToggleReloads ==
    ASSUME TypeInv, InAccord, NEW d \in Callers, Invested(d), NEW run \in Requests,
           NEW id \in KeyIds \cup {Unused}, Perform(run, id), Own(d, run),
           world'.enabled # world.enabled
    PROVE  d \in Asking("rules") /\ at[d] = "post"
<1>1. /\ world \in WorldType /\ args \in [Callers -> Calls] /\ at \in [Callers -> Places]
  BY TypeParts DEF TypeInv, MovesOK
<1>2. run.op = "toggle" /\ run.ruleset \in Rulesets /\ run.on \in BOOLEAN
  BY <1>1, PerformDoes, RequestParts
<1>3. /\ at[d] \notin {"idle", "read"} /\ ~args[d].check /\ args[d].kind = "rules"
      /\ run.ruleset \in DOMAIN args[d].want /\ run.on = args[d].want[run.ruleset]
  BY <1>2 DEF Own, Fits
<1>4. d \in Asking("rules") /\ at[d] # "raised"
  BY <1>3 DEF Asking, InAccord
<1>5. Uncontested(d)
  BY <1>3, <1>4 DEF Uncontested, Whole, AtOdds, InAccord
<1>6. ~AsWanted(d)
  <2>1. SUFFICES ASSUME AsWanted(d) PROVE FALSE
    OBVIOUS
  <2>2. run.ruleset \in world.enabled <=> run.on
    BY <1>2, <1>3, <2>1 DEF AsWanted
  <2>3. \A r : r \in world'.enabled <=> r \in world.enabled
    BY <1>1, <1>2, <2>2, PerformDoes
  <2>4. world'.enabled \in SUBSET Rulesets /\ world.enabled \in SUBSET Rulesets
    BY <1>1, PerformParts, WorldParts
  <2>5. world'.enabled = world.enabled
    BY <2>3, <2>4
  <2> QED
    BY <2>5
<1>7. at[d] \in {"post", "reload", "reread", "returned"}
  BY <1>1, <1>3, <1>4 DEF Places, Settled
<1> QED
  BY <1>4, <1>5, <1>6, <1>7 DEF Invested, Near

LEMMA StepLoads ==
    ASSUME TypeInv, AskedInv, LoadInv, [Next]_vars
    PROVE  LoadInv'
<1>1. \A c \in Callers : Invested(c)
  BY DEF AskedInv, Invested
<1>2. /\ world \in WorldType /\ MovesOK /\ \A c \in Callers : Place(c)
      /\ \A c \in Callers : post[c] \in Requests
      /\ \A m \in late : m.by \in Callers /\ m.req \in Requests /\ Own(m.by, m.req)
  BY TypeParts DEF TypeInv, MovesOK, LateRequests, AskedInv
<1> SUFFICES ASSUME InAccord', world'.inspecting # world'.enabled
             PROVE  \E c \in Asking("rules")' : Reloads(c)'
  BY DEF LoadInv
<1>3. ASSUME NEW c \in Callers, Start(c) \/ Step(c) \/ Refuse(c)
      PROVE  \E d \in Asking("rules")' : Reloads(d)'
  <2>1. /\ UNCHANGED world /\ (Start(c) => at[c] = "idle") /\ at'[c] # "idle"
        /\ ~Start(c) => at[c] # "idle" /\ args' = args
        /\ at[c] = "raised" => FALSE
        /\ \A d \in Callers \ {c} : /\ at'[d] = at[d] /\ wire'[d] = wire[d]
                                    /\ args'[d] = args[d]
    <3>1. CASE Start(c)
      BY <3>1, StartProgress DEF Progress
    <3>2. CASE Step(c) /\ ~LoseAnswer(c)
      <4>1. ~Start(c)
        BY <3>2, StepProgress DEF Start
      <4>2. at[c] # "raised"
        BY <1>2, <3>2 DEF Step, ReadAssignment, ReadKeys, ReadEnvs, ReadActive,
           ReadRulesets, Posted, Reloaded, Reread, ReadFails, Refused, Place
      <4> QED
        BY <3>2, <4>1, <4>2, StepProgress DEF Progress, elsewhere
    <3>3. CASE LoseAnswer(c)
      BY <3>3, LoseProgress DEF Start
    <3>4. CASE Refuse(c)
      BY <1>2, <3>4 DEF Refuse, Start, MovesOK, Place
    <3> QED
      BY <1>3, <3>1, <3>2, <3>3, <3>4
  <2>2. InAccord
    BY <2>1, AccordStays
  <2>3. PICK d \in Asking("rules") : Reloads(d)
    BY <2>1, <2>2 DEF LoadInv
  <2>4. d \in Asking("rules")' /\ d \in Callers
    BY <2>1, <2>3 DEF Asking
  <2>5. CASE d = c
    <3>1. /\ args[c].kind = "rules" /\ args[c].apply /\ Acts(c)
          /\ Step(c) \/ Refuse(c)
      BY <1>1, <1>3, <2>1, <2>2, <2>3, <2>5 DEF InAccord, Asking, Invested
    <3>2. at'[c] # "raised"
      BY DEF InAccord
    <3> QED
      BY <2>3, <2>4, <2>5, <3>1, <3>2, LoopReloads
  <2>6. CASE d # c
    BY <2>1, <2>3, <2>4, <2>6 DEF Reloads
  <2> QED
    BY <2>5, <2>6
<1>4. ASSUME UNCHANGED <<at, args>>,
             NEW d \in Callers, NEW run \in Requests, NEW id \in KeyIds \cup {Unused},
             Perform(run, id), Own(d, run),
             \A c \in Callers : wire'[c] = wire[c] \/ (c = d /\ run = post[d])
      PROVE  \E c \in Asking("rules")' : Reloads(c)'
  <2>1. InAccord
    BY <1>4, AccordStays
  <2>2. run.op # "reload"
    BY <1>2, <1>4, PerformDoes
  <2>3. world'.inspecting = world.inspecting
    BY <1>2, <1>4, <2>2, PerformDoes
  <2>4. CASE world'.enabled # world.enabled
    BY <1>1, <1>4, <2>1, <2>4, ToggleReloads DEF Asking, Reloads
  <2>5. CASE world'.enabled = world.enabled
    <3>1. PICK c \in Asking("rules") : Reloads(c)
      BY <2>1, <2>3, <2>5 DEF LoadInv
    <3>2. c \in Asking("rules")' /\ c \in Callers
      BY <1>4, <3>1 DEF Asking
    <3>3. at[c] = "reload" => wire'[c] = wire[c]
      BY <1>1, <1>4, <2>2, <3>2 DEF Invested, Acts, Reload
    <3> QED
      BY <1>4, <3>1, <3>2, <3>3 DEF Reloads
  <2> QED
    BY <2>4, <2>5
<1>5. ASSUME NEW c \in Callers, Execute(c) PROVE \E d \in Asking("rules")' : Reloads(d)'
  <2>1. PICK id \in KeyIds \cup {Unused} : Perform(post[c], id)
    BY <1>5 DEF Execute
  <2>2. /\ UNCHANGED <<at, args>> /\ Own(c, post[c])
        /\ \A d \in Callers : wire'[d] = wire[d] \/ d = c
    BY <1>1, <1>2, <1>5 DEF Execute, MovesOK, Invested, OwnOf
  <2> QED
    BY <1>2, <1>4, <2>1, <2>2
<1>6. CASE LateExecute
  <2>1. PICK m \in late, id \in KeyIds \cup {Unused} : Perform(m.req, id)
    BY <1>6 DEF LateExecute
  <2>2. UNCHANGED <<at, args, wire>>
    BY <1>6 DEF LateExecute, request
  <2> QED
    BY <1>2, <1>4, <2>1, <2>2
<1>7. CASE UNCHANGED vars
  BY <1>7 DEF vars, request, LoadInv, InAccord, Asking, Reloads, RulesContested
<1> QED
  BY <1>3, <1>5, <1>6, <1>7 DEF Next

\* The running IDS has the rulesets that are enabled once every call has returned,
\* none of them batching and no two at odds: a toggle that runs late, after its call's
\* reload, finds the ruleset as that call left it. The IDS ran what was saved to begin
\* with.
THEOREM RulesLoadedHolds ==
    ASSUME IsFiniteSet(KeyIds), IsFiniteSet(EnvIds),
           \A w \in Worlds : w.inspecting = w.enabled
    PROVE  Spec => []RulesLoaded
<1>1. Init => LoadInv
  BY DEF Init, LoadInv
<1>2. TypeInv /\ AskedInv /\ LoadInv /\ [Next]_vars => LoadInv'
  BY StepLoads
<1>3. LoadInv => RulesLoaded
  <2> SUFFICES ASSUME LoadInv, \A c \in Callers : at[c] \in {"idle", "returned"},
                      \A c \in Asking("rules") :
                         args[c].apply /\ \A d \in Asking("rules") : ~RulesContested(c, d)
               PROVE  world.inspecting = world.enabled
    BY DEF RulesLoaded
  <2>1. InAccord
    BY DEF InAccord
  <2>2. \A c \in Asking("rules") : ~Reloads(c)
    BY DEF Asking, Reloads
  <2> QED
    BY <2>1, <2>2 DEF LoadInv
<1> QED
  BY <1>1, <1>2, <1>3, TypeHolds, AskedHolds, PTL DEF Spec
=============================================================================
