------------------------------- MODULE Reruns -------------------------------
(***************************************************************************)
(* BaseManager.ensure() and BaseSingletonManager.ensure() seen from what a *)
(* manager declares: one caller runs managers one after the other, again   *)
(* and again, while somebody else adds a record with the caller's match    *)
(* keys, or with all of them but one.                                      *)
(*                                                                         *)
(* A match key is "given" a value, given "empty" or "omitted".  The values *)
(* a record carries are what was given ("mine"), a longer text that        *)
(* contains it ("mine2"), nothing (""), and what the appliance fills in    *)
(* for a field it was not sent ("default").  Requests arrive once and are  *)
(* answered here; module Ensure has lost and repeated ones.                *)
(***************************************************************************)
EXTENDS Integers, Sequences, FiniteSets

CONSTANTS
    Managers,         \* the declarations, records as in Catalogue
    Ways,             \* how a match key may be given
    DisplayFields,    \* fields a search compares by their display text
    DefaultedFields,  \* fields the appliance fills in when they are omitted
    Immediate,        \* endpoints whose changes need no apply
    HandedTo,         \* endpoint -> the service the caller has to reconfigure for it
    NoApply,          \* no apply endpoint
    Ids,              \* of records
    MaxCalls,         \* bound on the calls
    NoCall

KeysOf(m) == {m.keys[i] : i \in DOMAIN m.keys}
IsDocument(m) == m.keys = <<>>
Collection(m) == <<m.at, m.kind>>

Calls ==
    UNION {[by : {m}, state : {"present", "absent"}, way : [KeysOf(m) -> Ways]]
              : m \in Managers}

ASSUME WayAssumption == Ways \subseteq {"given", "empty", "omitted"}
ASSUME ManagerAssumption ==
    \A m \in Managers :
        /\ DOMAIN m = {"at", "kind", "keys", "required", "apply", "lists", "edits"}
        /\ m.edits \in BOOLEAN
        /\ DOMAIN m.keys \subseteq Nat \ {0}
        /\ m.lists \in {"phrase", "all"}
\* No two managers keep their records in one collection.
ASSUME CollectionAssumption ==
    \A m, n \in Managers : Collection(m) = Collection(n) => m = n
ASSUME NoneAssumption == NoCall \notin Calls
ASSUME BoundAssumption == MaxCalls \in Nat

VARIABLES
    at,       \* "idle", or the request the caller waits for
    call,     \* the current or last call
    found,    \* existing: no record, or the one it found
    outcome,  \* how it ended
    calls,    \* started so far
    rows,     \* the records the appliance holds
    others,   \* ids of those somebody else added
    stale     \* endpoints with saved changes that do not run

caller == <<at, call, found, outcome, calls>>
appliance == <<rows, others, stale>>
vars == <<at, call, found, outcome, calls, rows, others, stale>>

-----------------------------------------------------------------------------
(* The call's parameters, and what becomes of them. *)

\* str(params.get(k, "")) of match key k.
Param(c, k) == IF c.way[k] = "given" THEN "mine" ELSE ""

\* The identity IdentityResolver looks for.
Identity(c) == [k \in KeysOf(c.by) |-> Param(c, k)]

\* The keys of the record that a create leaves on the appliance.
Created(c) ==
    [k \in KeysOf(c.by) |->
        IF c.way[k] = "omitted" /\ k \in DefaultedFields THEN "default"
        ELSE Param(c, k)]

\* validate_params: a required field is missing or empty.
Validated(c) ==
    \A k \in KeysOf(c.by) : k \in c.by.required => c.way[k] = "given"

\* The state and, for "present", the parameters pass; a document is only "present".
Accepted(c) ==
    IF c.state = "present" THEN Validated(c) ELSE ~IsDocument(c.by)

\* The search phrase is the first match key that is not empty; none, if all are.
PhraseKeys(c) ==
    LET given == {i \in DOMAIN c.by.keys : Param(c, c.by.keys[i]) # ""}
    IN {c.by.keys[i] : i \in {j \in given : \A n \in given : j <= n}}

\* Mutant: the list() override of radvd, dnsmasq ranges, ... is forgotten.
AnsweredByPhrase(c) ==
    {r \in rows :
        /\ r.of = Collection(c.by)
        /\ \A k \in PhraseKeys(c) :
               k \notin DisplayFields /\ r.key[k] \in {"mine", "mine2"}}

\* The rows a search answers: those whose text contains the phrase.  Of some
\* fields the text is a display value, which need not contain the phrase.
Answered(c) ==
    {r \in rows :
        /\ r.of = Collection(c.by)
        /\ c.by.lists = "phrase" =>
               \A k \in PhraseKeys(c) :
                   k \notin DisplayFields /\ r.key[k] \in {"mine", "mine2"}}

\* Mutant: one match key of several is compared.
MatchesPrimary(c) ==
    {r \in Answered(c) : \A k \in PhraseKeys(c) : r.key[k] = Param(c, k)}

\* find_matching: every match key is compared, as text.
Matches(c) == {r \in Answered(c) : r.key = Identity(c)}

\* The changes an apply endpoint makes effective: a service reloads all of its
\* module, any other controller what it keeps itself.
Loads(endpoint) ==
    {m.at : m \in {n \in Managers :
                      /\ n.at[1] = endpoint[1]
                      /\ endpoint[2] # "service" => n.at[2] = endpoint[2]}}

Free == Ids \ {r.id : r \in rows}
AddRow(id, m, key) ==
    rows' = rows \cup {[id |-> id, of |-> Collection(m), key |-> key]}

Goto(place) == at' = place /\ UNCHANGED outcome
End(how) == at' = "idle" /\ outcome' = how

Init ==
    /\ at = "idle" /\ call = NoCall /\ found = {} /\ outcome = "none" /\ calls = 0
    /\ rows = {} /\ others = {} /\ stale = {}

-----------------------------------------------------------------------------
(* The caller.  A later call is one of the same module. *)

\* The checks of the arguments, before any request.
Start(c) ==
    /\ at = "idle" /\ calls < MaxCalls
    /\ calls > 0 => call.by.at[1] = c.by.at[1]
    /\ call' = c /\ calls' = calls + 1 /\ found' = {}
    /\ IF Accepted(c) THEN Goto("read") ELSE End("rejected")
    /\ UNCHANGED appliance

\* Mutant: find_existing answers what matches, however many.
LookupAll ==
    /\ at = "read" /\ ~IsDocument(call.by)
    /\ found' = Matches(call)
    /\ IF found' = {} /\ call.state = "absent" THEN End("noop") ELSE Goto("write")
    /\ UNCHANGED <<call, calls, appliance>>

\* find_existing and the decisions of ensure(); fields that are no match keys may
\* or may not differ.
Lookup ==
    /\ at = "read" /\ ~IsDocument(call.by)
    /\ LET matches == Matches(call) IN
         \/ /\ \E r, s \in matches : r # s
            /\ End("ambiguous") /\ UNCHANGED found
         \/ /\ \E r \in matches : matches = {r}
            /\ found' = matches
            /\ Goto("write") \/ (call.state = "present" /\ End("noop"))
         \/ /\ matches = {}
            /\ IF call.state = "present" THEN Goto("write") ELSE End("noop")
            /\ UNCHANGED found
    /\ UNCHANGED <<call, calls, appliance>>

\* BaseSingletonManager.set(): read the document and compare.
ReadDocument ==
    /\ at = "read" /\ IsDocument(call.by)
    /\ Goto("write") \/ End("noop")
    /\ UNCHANGED <<call, found, calls, appliance>>

\* What follows the write: the apply, if one is declared.
Saved ==
    /\ stale' = IF call.by.at \in Immediate THEN stale ELSE stale \cup {call.by.at}
    /\ IF call.by.apply = NoApply THEN End("changed") ELSE Goto("apply")

Create ==
    /\ at = "write" /\ call.state = "present" /\ ~IsDocument(call.by) /\ found = {}
    /\ \E id \in Free : AddRow(id, call.by, Created(call))
    /\ Saved
    /\ UNCHANGED <<call, found, calls, others>>

\* update() of a record, set() of a document.
Update ==
    /\ at = "write" /\ call.state = "present" /\ (IsDocument(call.by) \/ found # {})
    /\ call.by.edits
    /\ Saved
    /\ UNCHANGED <<call, found, calls, rows, others>>

Delete ==
    /\ at = "write" /\ call.state = "absent" /\ call.by.edits
    /\ rows' = rows \ found
    /\ Saved
    /\ UNCHANGED <<call, found, calls, others>>

\* The appliance has no set and no del for these records: OpnsenseEndpointMissingError.
EndpointMissing ==
    /\ at = "write" /\ found # {} /\ ~call.by.edits
    /\ End("raised")
    /\ UNCHANGED <<call, found, calls, appliance>>

\* _apply: the daemon reloads, or answers that it failed.
Apply ==
    /\ at = "apply"
    /\ \/ stale' = stale \ Loads(call.by.apply) /\ End("changed")
       \/ End("raised") /\ UNCHANGED stale
    /\ UNCHANGED <<call, found, calls, rows, others>>

\* "After CRUD on accounts/validations/certificates/actions ... call reconfigure once":
\* the caller of a manager that leaves the apply to it goes on to the service's.
Reconfigure ==
    /\ at = "idle" /\ outcome = "changed" /\ call.by.at \in DOMAIN HandedTo
    /\ \/ stale' = stale \ Loads(HandedTo[call.by.at]) /\ outcome' = "reconfigured"
       \/ outcome' = "raised" /\ UNCHANGED stale
    /\ UNCHANGED <<at, call, found, calls, rows, others>>

-----------------------------------------------------------------------------

\* Somebody adds a record with the caller's match keys, or one that differs from
\* it in a single key.
OtherAdds ==
    /\ call # NoCall /\ others = {}
    /\ \E id \in Free, changed \in {{}} \cup {{k} : k \in KeysOf(call.by)} :
           /\ AddRow(id, call.by,
                     [k \in KeysOf(call.by) |->
                         IF k \in changed THEN "mine2" ELSE Created(call)[k]])
           /\ others' = {id}
    /\ ~IsDocument(call.by)
    /\ UNCHANGED <<caller, stale>>

Next ==
    \/ \E c \in Calls : Start(c)
    \/ Lookup \/ ReadDocument
    \/ Create \/ Update \/ Delete \/ EndpointMissing \/ Apply \/ Reconfigure
    \/ OtherAdds

Spec == Init /\ [][Next]_vars

-----------------------------------------------------------------------------
(* Properties *)

Rows == [id : Ids, of : {Collection(m) : m \in Managers},
         key : UNION {[KeysOf(m) -> {"", "mine", "mine2", "default"}] : m \in Managers}]

TypeOK ==
    /\ at \in {"idle", "read", "write", "apply"}
    /\ call \in Calls \cup {NoCall}
    /\ at # "idle" \/ outcome # "none" => call # NoCall
    /\ found \subseteq Rows /\ \A r, s \in found : r = s
    /\ outcome \in {"none", "rejected", "ambiguous", "noop", "changed", "raised",
                    "reconfigured"}
    /\ calls \in 0..MaxCalls
    /\ rows \subseteq Rows /\ others \subseteq Ids
    /\ stale \subseteq {m.at : m \in Managers} \ Immediate

\* ensure() "create if missing, ... noop if matching": however often and in
\* whatever order calls are made, they never create two records with the same
\* match keys.  A second run must find what the first one created, among the rows
\* its own search phrase makes the appliance answer.
NoSecondCopy ==
    \A r, s \in rows :
        r.id \notin others /\ s.id \notin others /\ r.of = s.of /\ r.key = s.key
        => r = s

\* find_matching "exact-matches ALL keys": records that differ in one match key
\* are never taken for the caller's, whatever it deletes.
OthersStay ==
    [][\A r \in rows : r.id \in others /\ r.key # Identity(call) => r \in rows']_vars

\* _apply_endpoint: when a call reports a change, the configuration it saved is the
\* one that runs, so the endpoint each manager declares is one that loads its
\* collection or document, and None is declared where none is needed.  Where the
\* apply is left to the caller, it runs once the caller reconfigured the service.
ReportedChangeRuns ==
    /\ at = "idle"
    /\ \/ outcome = "changed" /\ call.by.at \notin DOMAIN HandedTo
       \/ outcome = "reconfigured"
    => call.by.at \notin stale

\* What the declarations must satisfy for NoSecondCopy: no search by a display
\* text, and no match key left to the appliance.
Sighted(m) ==
    m.lists = "all" \/
    \A i \in DOMAIN m.keys :
        m.keys[i] \in DisplayFields =>
            \E j \in DOMAIN m.keys : j < i /\ m.keys[j] \in m.required
Determined(m) ==
    "omitted" \in Ways =>
        \A k \in KeysOf(m) : k \in DefaultedFields => k \in m.required
WellDeclared == \A m \in Managers : Sighted(m) /\ Determined(m)

\* What they must satisfy for ReportedChangeRuns.
WellApplied ==
    \A m \in Managers :
        \/ m.at \in Immediate
        \/ m.at \in DOMAIN HandedTo /\ m.at \in Loads(HandedTo[m.at])
        \/ m.at \notin DOMAIN HandedTo /\ m.apply # NoApply /\ m.at \in Loads(m.apply)

\* What makes NoSecondCopy inductive: a caller about to create has seen that no
\* earlier call created the record.
CreatesFirst ==
    at = "write" /\ call.state = "present" /\ ~IsDocument(call.by) /\ found = {}
    => \A r \in rows :
           r.id \notin others /\ r.of = Collection(call.by) => r.key # Created(call)
=============================================================================
