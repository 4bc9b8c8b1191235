---------------------------- MODULE StandaloneMC ----------------------------
(***************************************************************************)
(* Small instances of Standalone: two users and a group, one or two API    *)
(* keys and room for the second one of a repeated creation, two boot       *)
(* environments and two rulesets; every kind of call.                      *)
(***************************************************************************)
EXTENDS Standalone, TLC

MCUsers == {"alice", "bob"}
MCGroups == {"admins"}
MCKeyIds == {"k1", "k2", "k3", "k4"}
MCEnvIds == {"e1", "e2", "e3"}
MCEnvNames == {"default", "pre"}
MCRulesets == {"et", "abuse"}

MCWorlds ==
    {[assigned |-> {"bob"},
      keys |-> ("k1" :> "alice" @@ "k2" :> owner @@ "k3" :> Unused @@ "k4" :> Unused),
      envs |-> ("e1" :> "default" @@ "e2" :> second @@ "e3" :> Unused), boot |-> "e1",
      enabled |-> {"abuse"}, inspecting |-> {"abuse"}] :
         owner \in {"alice", "bob", Unused}, second \in {"pre", Unused}}

Assign(state, type, target) ==
    [kind |-> "priv", state |-> state, type |-> type, target |-> target, check |-> FALSE]
Env(state, name) == [kind |-> "env", state |-> state, name |-> name, check |-> FALSE]
Rules(want, apply) ==
    [kind |-> "rules", want |-> want, apply |-> apply, check |-> FALSE]
Check(call) == [call EXCEPT !.check = TRUE]

PrivCalls ==
    {Assign("present", "user", "alice"), Assign("absent", "user", "bob"),
     Assign("present", "group", "admins"), Assign("present", "user", Stranger),
     Assign("other", "user", "alice"), Check(Assign("absent", "user", "bob"))}
KeyCalls ==
    {[kind |-> "create_key", user |-> "alice", check |-> FALSE],
     [kind |-> "create_key", user |-> "alice", check |-> TRUE],
     [kind |-> "delete_key", key |-> "k1", check |-> FALSE],
     [kind |-> "delete_all", user |-> "alice", check |-> FALSE],
     [kind |-> "delete_all", user |-> "alice", check |-> TRUE]}
EnvCalls ==
    {Env("present", "pre"), Env("absent", "pre"), Env("other", "pre"),
     Check(Env("absent", "pre")),
     [kind |-> "activate", name |-> "pre", check |-> FALSE]}
RuleCalls ==
    {Rules("et" :> TRUE, TRUE), Rules("et" :> TRUE @@ "abuse" :> FALSE, TRUE),
     Rules("abuse" :> FALSE, FALSE), Rules("et" :> TRUE @@ Stranger :> TRUE, TRUE),
     Check(Rules("et" :> TRUE, TRUE))}
MCCalls == PrivCalls \cup KeyCalls \cup EnvCalls \cup RuleCalls
=============================================================================
