------------------------------- MODULE Ensure -------------------------------
(***************************************************************************)
(* BaseManager.ensure(): concurrent callers converging one kind of record  *)
(* on one appliance, one step per await.                                   *)
(*                                                                         *)
(* A caller is a coroutine (one ensure() of one process); between two      *)
(* awaits its code runs without interruption, so a step reads the answer   *)
(* it waited for and runs to the next request.  Every POST goes through    *)
(* the client's retries (see HttpRequest and RemoteCall): it may be        *)
(* executed and its answer lost, sent again, and executed late, after the  *)
(* caller gave up on it.  Reads change nothing, so a read is one step:     *)
(* answered from the saved configuration of that moment, or failed.        *)
(*                                                                         *)
(* The appliance keeps a saved configuration (what search, get and the     *)
(* writes see) and the running one, which apply copies from it.            *)
(***************************************************************************)
EXTENDS Naturals, FiniteSets

CONSTANTS Callers,
          Uuids,         \* positive numbers; str order of the real uuids is <
          Keys,          \* identities: the tuples of all match key values
          Fields,        \* the other fields of a record
          RowFields,     \* those a search row carries; a get answers them all
          Values,
          DefaultValue,  \* what the appliance gives a field nobody set
          Jobs,          \* the calls callers make: arguments of ensure()
          HasApply,      \* _apply_endpoint is not None
          PageSize,      \* rows a search returns at most (row_count)
          MaxAttempts,   \* attempts per request
          InitialStores, \* saved configurations to start from
          Unset,         \* a field missing from params or from a row
          NoRecord,
          MaxRuns,       \* bound: calls each caller makes
          MaxLate        \* bound: abandoned requests kept by the appliance

NoUuid == 0
Records == [key : Keys, fld : [Fields -> Values]]
Stores == [Uuids -> Records \cup {NoRecord}]
Params == [Fields -> Values \cup {Unset}]

JobType == [state  : {"present", "absent", "other"},
            valid  : BOOLEAN,            \* passes the manager's validators
            key    : Keys,               \* match key values of params
            want   : Params,             \* the other params
            uuid   : Uuids \cup {NoUuid},\* uuid=, NoUuid is None
            check  : BOOLEAN,            \* check_mode=
            dedupe : BOOLEAN,
            force  : BOOLEAN]            \* force_update=

ASSUME UuidAssumption == Uuids \subseteq Nat \ {NoUuid}
ASSUME JobAssumption == Jobs # {} /\ Jobs \subseteq JobType
ASSUME ValueAssumption ==
    DefaultValue \in Values /\ Unset \notin Values /\ NoRecord \notin Records
ASSUME FieldAssumption == RowFields \subseteq Fields
ASSUME StoreAssumption == InitialStores \subseteq Stores
ASSUME BoundAssumption ==
    /\ PageSize \in Nat /\ MaxAttempts \in Nat \ {0}
    /\ MaxRuns \in Nat /\ MaxLate \in Nat
    /\ HasApply \in BOOLEAN

VARIABLES saved,    \* the appliance: saved configuration
          running,  \* the appliance: running configuration
          ever,     \* for each key, the uuids that ever carried it
          late,     \* abandoned requests the appliance may still execute
          pc,       \* per caller, from here on: the await it stands at
          job,      \* the arguments of its call
          runs,     \* calls started
          row,      \* "existing": the record it found, as it saw it
          todo,     \* duplicates _collapse_duplicates has still to delete
          deduped,  \* the duplicates it found
          post,     \* the POST in flight
          wire,     \* "none", "sent", and the answer "ok" or "refused"
          reply,    \* the uuid in the answer to an add
          attempt,  \* attempts of the POST in flight
          result,   \* what ensure() returned or raised
          touched   \* a POST of this call was executed

store == <<saved, running, ever>>
call == <<pc, post, wire, attempt, result>>
found == <<row, todo, deduped>>
vars == <<store, late, call, found, job, runs, reply, touched>>

Reading == {"search", "fetch", "clean_get", "hydrate", "before_update",
            "before_delete"}
Writing == {"clean_del", "clean_apply", "add", "add_apply", "set", "set_apply",
            "del", "del_apply"}
Settled == {"done", "raised"}
Places == Reading \cup Writing \cup Settled \cup {"idle"}

SomeKey == CHOOSE k \in Keys : TRUE
NoRow == [uuid |-> NoUuid, key |-> SomeKey, fld |-> [f \in Fields |-> Unset]]
RowType == [uuid : Uuids \cup {NoUuid}, key : Keys, fld : Params]
Requests == [op : {"none", "add", "set", "del", "apply"},
             uuid : Uuids \cup {NoUuid}, key : Keys, want : Params]
NoPost == [op |-> "none", uuid |-> NoUuid, key |-> SomeKey, want |-> NoRow.fld]
LateRequests == [by : Callers, run : 0..MaxRuns, nr : 0..MaxAttempts, req : Requests]
ResultType == [action : {"created", "updated", "deleted", "noop", "deduped"},
               changed : BOOLEAN, uuid : Uuids \cup {NoUuid},
               deduped : SUBSET Uuids]
    \cup [raised : {"ValueError", "FieldValidationError", "AmbiguousMatchError",
                    "refused", "unavailable"}]
    \cup [pending : {TRUE}]

Live == {u \in Uuids : saved[u] # NoRecord}
Copies(k) == {u \in Live : saved[u].key = k}

\* A search answers at most PageSize rows of those that match the phrase; the
\* phrase is one match key value, a substring filter every key here passes.
Pages ==
    {V \in SUBSET Live :
        Cardinality(V) = IF Cardinality(Live) < PageSize
                         THEN Cardinality(Live) ELSE PageSize}

SearchRow(u) ==
    [uuid |-> u, key |-> saved[u].key,
     fld  |-> [f \in Fields |-> IF f \in RowFields THEN saved[u].fld[f] ELSE Unset]]
FullItem(u) == [uuid |-> u, key |-> saved[u].key, fld |-> saved[u].fld]

\* compute_diff: only fields of params, and of these only those the row carries.
Diff(fld, want) ==
    {f \in Fields : want[f] # Unset /\ fld[f] # Unset /\ want[f] # fld[f]}

\* Mutant: _hydrate_nested never finds a field missing.
NeverHydrated(ex, want) == FALSE

\* The fields compute_diff would skip for want of a current value.
NeedsHydration(ex, want) ==
    /\ ex.uuid # NoUuid
    /\ \E f \in Fields : want[f] # Unset /\ ex.fld[f] = Unset

-----------------------------------------------------------------------------
(* The appliance *)

Written(req, fld) ==
    [key |-> req.key,
     fld |-> [f \in Fields |-> IF req.want[f] = Unset THEN fld[f] ELSE req.want[f]]]

Mutate(new) ==
    /\ saved' = new
    /\ running' = IF HasApply THEN running ELSE new

CarriesKey(k, u) == ever' = [ever EXCEPT ![k] = @ \cup {u}]

\* One execution of a request; u is the uuid it affects.  A new record gets a
\* uuid that was never used, anywhere in the order of uuids.
Perform(req, u) ==
    \/ /\ req.op = "add"
       /\ u \in Uuids \ UNION {ever[k] : k \in Keys}
       /\ Mutate([saved EXCEPT ![u] =
                     Written(req, [f \in Fields |-> DefaultValue])])
       /\ CarriesKey(req.key, u)
    \/ /\ req.op = "set"
       /\ u = req.uuid /\ u \in Live
       /\ Mutate([saved EXCEPT ![u] = Written(req, saved[u].fld)])
       /\ CarriesKey(req.key, u)
    \/ /\ req.op = "del"
       /\ u = req.uuid /\ u \in Uuids
       /\ Mutate([saved EXCEPT ![u] = NoRecord])
       /\ UNCHANGED ever
    \/ /\ req.op = "apply"
       /\ u = req.uuid
       /\ running' = saved
       /\ UNCHANGED <<saved, ever>>

Execute(c) ==
    /\ wire[c] = "sent"
    /\ \E u \in Uuids \cup {NoUuid} :
          /\ Perform(post[c], u)
          /\ reply' = [reply EXCEPT ![c] = u]
    /\ wire' = [wire EXCEPT ![c] = "ok"]
    /\ touched' = [touched EXCEPT ![c] = TRUE]
    /\ UNCHANGED <<late, pc, post, attempt, result, found, job, runs>>

\* Validation, permission, uniqueness, a missing record, a failed apply.
Refuse(c) ==
    /\ wire[c] = "sent"
    /\ wire' = [wire EXCEPT ![c] = "refused"]
    /\ UNCHANGED <<store, late, pc, post, attempt, result, found, job, runs,
                   reply, touched>>

LateExecute ==
    /\ \E m \in late :
          /\ late' = late \ {m}
          /\ \E u \in Uuids \cup {NoUuid} : Perform(m.req, u)
          /\ touched' = [touched EXCEPT ![m.by] = @ \/ m.run = runs[m.by]]
    /\ UNCHANGED <<call, found, job, runs, reply>>

-----------------------------------------------------------------------------
(* What a caller's step leaves behind: the next await, or the end *)

Goto(c, p) ==
    /\ pc' = [pc EXCEPT ![c] = p]
    /\ wire' = [wire EXCEPT ![c] = "none"]
    /\ post' = [post EXCEPT ![c] = NoPost]
    /\ attempt' = [attempt EXCEPT ![c] = 0]
    /\ UNCHANGED result

SendTo(c, p, op, u) ==
    /\ pc' = [pc EXCEPT ![c] = p]
    /\ post' = [post EXCEPT ![c] = [op |-> op, uuid |-> u,
                                    key |-> job[c].key, want |-> job[c].want]]
    /\ wire' = [wire EXCEPT ![c] = "sent"]
    /\ attempt' = [attempt EXCEPT ![c] = 1]
    /\ UNCHANGED result

End(c, p, r) ==
    /\ pc' = [pc EXCEPT ![c] = p]
    /\ wire' = [wire EXCEPT ![c] = "none"]
    /\ post' = [post EXCEPT ![c] = NoPost]
    /\ attempt' = [attempt EXCEPT ![c] = 0]
    /\ result' = [result EXCEPT ![c] = r]

Raise(c, exc) == End(c, "raised", [raised |-> exc])

\* Mutant: the duplicates removed do not count as a change.
DedupeUncounted(action, changed, u, dups) ==
    [action |-> action, changed |-> changed, uuid |-> u, deduped |-> dups]

\* _with_dedupe: removing a duplicate is always a change.
WithDedupe(action, changed, u, dups) ==
    [action  |-> IF dups = {} \/ changed THEN action ELSE "deduped",
     changed |-> changed \/ dups # {},
     uuid    |-> u,
     deduped |-> dups]

Finish(c, action, changed, u, dups) ==
    End(c, "done", WithDedupe(action, changed, u, dups))

-----------------------------------------------------------------------------
(* ensure(), from the record it found to the request it decides on *)

\* compute_diff compares the match keys too, which params carry: a call by uuid
\* may find a record of another identity, and gives it its own.
Converge(c, ex, dups) ==
    LET j == job[c]
        matching == ex.key = j.key /\ Diff(ex.fld, j.want) = {} /\ ~j.force
    IN
    \/ /\ j.state = "present" /\ ex.uuid = NoUuid
       /\ IF j.check THEN Finish(c, "created", TRUE, NoUuid, dups)
          ELSE SendTo(c, "add", "add", NoUuid)
    \/ /\ j.state = "present" /\ ex.uuid # NoUuid
       /\ IF matching THEN Finish(c, "noop", FALSE, ex.uuid, dups)
          ELSE Goto(c, "before_update")
    \/ /\ j.state = "absent"
       /\ IF ex.uuid = NoUuid THEN Finish(c, "noop", FALSE, NoUuid, dups)
          ELSE Goto(c, "before_delete")

\* _hydrate_nested, then the decision.
Resolve(c, ex, dups) ==
    IF NeedsHydration(ex, job[c].want) THEN Goto(c, "hydrate")
    ELSE Converge(c, ex, dups)

Start(c) ==
    /\ pc[c] \in Settled \cup {"idle"}
    /\ runs[c] < MaxRuns
    /\ runs' = [runs EXCEPT ![c] = @ + 1]
    /\ touched' = [touched EXCEPT ![c] = FALSE]
    /\ row' = [row EXCEPT ![c] = NoRow]
    /\ todo' = [todo EXCEPT ![c] = {}]
    /\ deduped' = [deduped EXCEPT ![c] = {}]
    /\ \E j \in Jobs :
          /\ job' = [job EXCEPT ![c] = j]
          /\ \/ j.state = "other" /\ Raise(c, "ValueError")
             \/ j.state = "present" /\ ~j.valid /\ Raise(c, "FieldValidationError")
             \/ /\ j.state = "absent" \/ (j.state = "present" /\ j.valid)
                /\ End(c, IF j.uuid = NoUuid THEN "search" ELSE "fetch",
                       [pending |-> TRUE])
    /\ UNCHANGED <<store, late, reply>>

readOnly == <<store, late, job, runs, reply, touched>>

\* uuid= given: get the item, no search and no hydration.
Fetch(c) ==
    /\ pc[c] = "fetch"
    /\ job[c].uuid \in Live
    /\ row' = [row EXCEPT ![c] = FullItem(job[c].uuid)]
    /\ Converge(c, FullItem(job[c].uuid), {})
    /\ UNCHANGED <<readOnly, todo, deduped>>

\* Mutant: the exact comparison after the substring search is gone.
MatchesPhrase(c, page) == page

Matches(c, page) == {u \in page : saved[u].key = job[c].key}

MatchNone(c, matches) ==
    /\ matches = {}
    /\ Resolve(c, NoRow, {})
    /\ UNCHANGED found

MatchAmbiguous(c, matches) ==
    /\ Cardinality(matches) > 1 /\ ~job[c].dedupe
    /\ Raise(c, "AmbiguousMatchError")
    /\ UNCHANGED found

\* Mutant: the first match is taken for the only one.
MatchFirst(c, matches, survivor) ==
    /\ row' = [row EXCEPT ![c] = SearchRow(survivor)]
    /\ Resolve(c, SearchRow(survivor), {})
    /\ UNCHANGED <<todo, deduped>>

\* Mutant: the survivor is the first row of the page, not the lowest uuid.
MatchUnsorted(c, matches, survivor) ==
    LET dups == matches \ {survivor} IN
    /\ dups = {} \/ job[c].dedupe
    /\ row' = [row EXCEPT ![c] = SearchRow(survivor)]
    /\ deduped' = [deduped EXCEPT ![c] = dups]
    /\ IF dups = {} \/ job[c].check
       THEN Resolve(c, SearchRow(survivor), dups) /\ UNCHANGED todo
       ELSE Goto(c, "clean_get") /\ todo' = [todo EXCEPT ![c] = dups]

\* The only match, or the lowest uuid of several; the others are to be deleted.
MatchSurvivor(c, matches, survivor) ==
    LET dups == matches \ {survivor} IN
    /\ dups = {} \/ job[c].dedupe
    /\ \A u \in matches : survivor <= u
    /\ row' = [row EXCEPT ![c] = SearchRow(survivor)]
    /\ deduped' = [deduped EXCEPT ![c] = dups]
    /\ IF dups = {} \/ job[c].check
       THEN Resolve(c, SearchRow(survivor), dups) /\ UNCHANGED todo
       ELSE Goto(c, "clean_get") /\ todo' = [todo EXCEPT ![c] = dups]

\* find_existing, or find_matching and the head of _collapse_duplicates.
Search(c) ==
    /\ pc[c] = "search"
    /\ \E page \in Pages :
          LET matches == Matches(c, page) IN
          \/ MatchNone(c, matches)
          \/ MatchAmbiguous(c, matches)
          \/ \E survivor \in matches : MatchSurvivor(c, matches, survivor)
    /\ UNCHANGED readOnly

Hydrate(c) ==
    /\ pc[c] = "hydrate"
    /\ row[c].uuid \in Live
    /\ row' = [row EXCEPT ![c] = FullItem(row[c].uuid)]
    /\ Converge(c, FullItem(row[c].uuid), deduped[c])
    /\ UNCHANGED <<readOnly, todo, deduped>>

\* The read of delete() for the next duplicate.
CleanGet(c) ==
    /\ pc[c] = "clean_get"
    /\ \E u \in todo[c] :
          /\ \A v \in todo[c] : u <= v
          /\ u \in Live
          /\ SendTo(c, "clean_del", "del", u)
    /\ UNCHANGED <<readOnly, found>>

\* update(): the read of "before", then the write unless check_mode.
BeforeUpdate(c) ==
    /\ pc[c] = "before_update"
    /\ row[c].uuid \in Live
    /\ IF job[c].check
       THEN Finish(c, "updated", TRUE, row[c].uuid, deduped[c])
       ELSE SendTo(c, "set", "set", row[c].uuid)
    /\ UNCHANGED <<readOnly, found>>

\* Mutant: delete() forgets its check_mode return.
BeforeDeleteForReal(c) ==
    /\ pc[c] = "before_delete"
    /\ row[c].uuid \in Live
    /\ SendTo(c, "del", "del", row[c].uuid)
    /\ UNCHANGED <<readOnly, found>>

\* delete(): likewise.
BeforeDelete(c) ==
    /\ pc[c] = "before_delete"
    /\ row[c].uuid \in Live
    /\ IF job[c].check
       THEN Finish(c, "deleted", TRUE, row[c].uuid, deduped[c])
       ELSE SendTo(c, "del", "del", row[c].uuid)
    /\ UNCHANGED <<readOnly, found>>

\* Any read may fail after its retries; the get of a missing record always does.
ReadFails(c) ==
    /\ pc[c] \in Reading
    /\ Raise(c, "unavailable")
    /\ UNCHANGED <<readOnly, found>>

\* The next duplicate, or the rest of ensure() with the row found before the
\* first deletion.
NextDuplicate(c) ==
    /\ \E u \in todo[c] :
          /\ \A v \in todo[c] : u <= v
          /\ todo' = [todo EXCEPT ![c] = @ \ {u}]
          /\ IF todo[c] = {u} THEN Resolve(c, row[c], deduped[c])
             ELSE Goto(c, "clean_get")
    /\ UNCHANGED <<row, deduped>>

CleanDeleted(c) ==
    /\ pc[c] = "clean_del" /\ wire[c] = "ok"
    /\ IF HasApply
       THEN SendTo(c, "clean_apply", "apply", NoUuid) /\ UNCHANGED found
       ELSE NextDuplicate(c)
    /\ UNCHANGED readOnly

CleanApplied(c) ==
    /\ pc[c] = "clean_apply" /\ wire[c] = "ok"
    /\ NextDuplicate(c)
    /\ UNCHANGED readOnly

Outcome(write) ==
    CASE write \in {"add", "add_apply"} -> "created"
      [] write \in {"set", "set_apply"} -> "updated"
      [] OTHER -> "deleted"

ApplyOf(write) ==
    CASE write = "add" -> "add_apply"
      [] write = "set" -> "set_apply"
      [] OTHER -> "del_apply"

\* Mutant: a write is not followed by its apply.
WriteUnapplied(c) ==
    /\ pc[c] \in {"add", "set", "del"} /\ wire[c] = "ok"
    /\ LET uuid == IF pc[c] = "add" THEN reply[c] ELSE row[c].uuid
       IN /\ row' = [row EXCEPT ![c].uuid = uuid]
          /\ Finish(c, Outcome(pc[c]), TRUE, uuid, deduped[c])
    /\ UNCHANGED <<readOnly, todo, deduped>>

\* A write was answered: apply it, or end where changes are immediate.
WriteDone(c) ==
    /\ pc[c] \in {"add", "set", "del"} /\ wire[c] = "ok"
    /\ LET uuid == IF pc[c] = "add" THEN reply[c] ELSE row[c].uuid
       IN /\ row' = [row EXCEPT ![c].uuid = uuid]
          /\ IF HasApply
             THEN SendTo(c, ApplyOf(pc[c]), "apply", NoUuid)
             ELSE Finish(c, Outcome(pc[c]), TRUE, uuid, deduped[c])
    /\ UNCHANGED <<readOnly, todo, deduped>>

ApplyDone(c) ==
    /\ pc[c] \in {"add_apply", "set_apply", "del_apply"} /\ wire[c] = "ok"
    /\ Finish(c, Outcome(pc[c]), TRUE, row[c].uuid, deduped[c])
    /\ UNCHANGED <<readOnly, found>>

\* A refusal is not retried: it leaves ensure() at once.
Refused(c) ==
    /\ wire[c] = "refused"
    /\ Raise(c, "refused")
    /\ UNCHANGED <<readOnly, found>>

\* Mutant: one attempt too many.
RetryPastTheEnd(c) ==
    /\ wire[c] # "none"
    /\ IF attempt[c] <= MaxAttempts
       THEN /\ attempt' = [attempt EXCEPT ![c] = @ + 1]
            /\ wire' = [wire EXCEPT ![c] = "sent"]
            /\ UNCHANGED <<pc, post, result>>
       ELSE Raise(c, "unavailable")
    /\ UNCHANGED <<store, late, job, runs, reply, touched, found>>

\* Mutant: a lost answer does not use up an attempt.
RetryForever(c) ==
    /\ wire[c] # "none"
    /\ wire' = [wire EXCEPT ![c] = "sent"]
    /\ UNCHANGED <<store, late, job, runs, reply, touched, found, pc, post,
                   attempt, result>>

\* No usable answer (timeout, transport error, 5xx): send again or give up.  An
\* attempt the appliance has not executed yet is lost, or stays with it.
LoseAnswer(c) ==
    /\ wire[c] # "none"
    /\ \/ late' = late
       \/ /\ wire[c] = "sent" /\ Cardinality(late) < MaxLate
          /\ late' = late \cup {[by |-> c, run |-> runs[c],
                                 nr |-> attempt[c], req |-> post[c]]}
    /\ IF attempt[c] < MaxAttempts
       THEN /\ attempt' = [attempt EXCEPT ![c] = @ + 1]
            /\ wire' = [wire EXCEPT ![c] = "sent"]
            /\ UNCHANGED <<pc, post, result>>
       ELSE Raise(c, "unavailable")
    /\ UNCHANGED <<store, job, runs, reply, touched, found>>

-----------------------------------------------------------------------------
Init ==
    /\ saved \in InitialStores
    /\ running = saved
    /\ ever = [k \in Keys |-> Copies(k)]
    /\ late = {}
    /\ pc = [c \in Callers |-> "idle"]
    /\ job = [c \in Callers |-> CHOOSE j \in Jobs : TRUE]
    /\ runs = [c \in Callers |-> 0]
    /\ row = [c \in Callers |-> NoRow]
    /\ todo = [c \in Callers |-> {}]
    /\ deduped = [c \in Callers |-> {}]
    /\ post = [c \in Callers |-> NoPost]
    /\ wire = [c \in Callers |-> "none"]
    /\ reply = [c \in Callers |-> NoUuid]
    /\ attempt = [c \in Callers |-> 0]
    /\ result = [c \in Callers |-> [pending |-> TRUE]]
    /\ touched = [c \in Callers |-> FALSE]

\* The steps of the coroutine once it has been started.
Step(c) ==
    \/ Fetch(c) \/ Search(c) \/ Hydrate(c)
    \/ CleanGet(c) \/ CleanDeleted(c) \/ CleanApplied(c)
    \/ BeforeUpdate(c) \/ BeforeDelete(c)
    \/ WriteDone(c) \/ ApplyDone(c)
    \/ ReadFails(c) \/ Refused(c) \/ LoseAnswer(c)

Next ==
    \/ \E c \in Callers : Start(c) \/ Step(c) \/ Execute(c) \/ Refuse(c)
    \/ LateExecute

Spec == Init /\ [][Next]_vars

\* Every await ends (HttpRequest, Settles) and the event loop resumes the
\* coroutine; nothing obliges the appliance to execute anything.
FairSpec == Spec /\ \A c \in Callers : WF_vars(Step(c))

-----------------------------------------------------------------------------
(* Properties *)

StoreOK ==
    /\ saved \in Stores /\ running \in Stores
    /\ ever \in [Keys -> SUBSET Uuids]
    /\ late \subseteq LateRequests

CallOK ==
    /\ pc \in [Callers -> Places]
    /\ post \in [Callers -> Requests]
    /\ wire \in [Callers -> {"none", "sent", "ok", "refused"}]
    /\ attempt \in [Callers -> 0..MaxAttempts]
    /\ result \in [Callers -> ResultType]

FoundOK ==
    /\ row \in [Callers -> RowType]
    /\ todo \in [Callers -> SUBSET Uuids]
    /\ deduped \in [Callers -> SUBSET Uuids]

TypeOK ==
    /\ StoreOK /\ CallOK /\ FoundOK
    /\ job \in [Callers -> Jobs]
    /\ runs \in [Callers -> 0..MaxRuns]
    /\ reply \in [Callers -> Uuids \cup {NoUuid}]
    /\ touched \in [Callers -> BOOLEAN]

Returned(c) == pc[c] = "done"

\* check_mode: "return what would happen without making changes".  On no path
\* (search, uuid, dedupe, hydration, force_update) does such a call have a POST
\* that writes in flight, or leave one behind.
CheckModeIsSilent ==
    \A c \in Callers : job[c].check => wire[c] = "none" /\ ~touched[c]

\* What ensure() reports is what its requests did: an unchanged result, an
\* ambiguous match or rejected arguments leave the appliance alone whatever was
\* retried or deduplicated on the way, and a reported change was executed.
ReportsMatchEffects ==
    \A c \in Callers :
        /\ Returned(c) /\ ~result[c].changed => ~touched[c]
        /\ Returned(c) /\ result[c].changed /\ ~job[c].check => touched[c]
        /\ pc[c] = "raised" /\ result[c].raised \in
              {"ValueError", "FieldValidationError", "AmbiguousMatchError"}
              => ~touched[c]

\* A call that returned, with nobody interfering, left the record it names in
\* the desired state, or no record: "one extra GET, never a silent noop".
Converged ==
    \A c \in Callers :
        Returned(c) /\ ~job[c].check =>
            IF job[c].state = "present"
            THEN /\ result[c].uuid \in Copies(job[c].key)
                 /\ \A f \in Fields : job[c].want[f] # Unset =>
                        saved[result[c].uuid].fld[f] = job[c].want[f]
            ELSE IF job[c].uuid # NoUuid
                 THEN job[c].uuid \notin Live
                 ELSE Copies(job[c].key) = {}

\* AmbiguousMatchError: "Multiple resources match the given composite keys".  A
\* call by match keys that did not create its record found the only copy, or made
\* it the only copy; the copies a retried add leaves are never passed over.
OneMatch ==
    \A c \in Callers :
        Returned(c) /\ ~job[c].check /\ job[c].state = "present"
            /\ job[c].uuid = NoUuid /\ result[c].action # "created"
        => Copies(job[c].key) = {result[c].uuid}

\* _apply: the reconfigure call is what brings a change to the running
\* configuration.  When every call started so far has returned, the running
\* configuration is the saved one.
QuiescentIsApplied ==
    (\A c \in Callers : pc[c] \in {"idle", "done"}) => running = saved

\* Calls that converge present records by their match keys, nothing else.
KeepingJobs == \A j \in Jobs : j.state # "absent" /\ j.uuid = NoUuid

\* _collapse_duplicates: "the lowest UUID survives" and "repeated runs keep the
\* same survivor".  However many callers deduplicate at once, from pages
\* that miss records, with deletions executed late: of all the records that ever
\* carried an identity the lowest uuid is still there, so never are all gone.
ElderSurvives ==
    KeepingJobs =>
        \A k \in Keys : \A m \in ever[k] :
            (\A u \in ever[k] : m <= u) => m \in Copies(k)

\* What makes ElderSurvives inductive.  A record is doomed when a lower uuid
\* carried its identity; only doomed records are ever deleted, each record keeps
\* its identity, and whatever is missing was doomed.
Doomed(k, u) == u \in ever[k] /\ \E e \in ever[k] : e < u

Harmless(req) ==
    /\ req.op = "set" => req.uuid \in ever[req.key]
    /\ req.op = "del" => Doomed(req.key, req.uuid)

StoreInv ==
    /\ \A u \in Live : u \in ever[saved[u].key]
    /\ \A k, l \in Keys : \A u \in ever[k] : u \in ever[l] => k = l
    /\ \A k \in Keys : \A u \in ever[k] : u \in Copies(k) \/ Doomed(k, u)

KeepPlaces == {"search", "clean_get", "clean_del", "clean_apply", "hydrate",
               "before_update", "add", "add_apply", "set", "set_apply"}
RowPlaces == {"clean_get", "clean_del", "clean_apply", "hydrate", "before_update"}

CallInv(c) ==
    /\ pc[c] \in KeepPlaces \cup Settled \cup {"idle"}
    /\ pc[c] \in KeepPlaces => job[c].state = "present"
    /\ pc[c] \in RowPlaces => row[c].uuid \in ever[job[c].key]
    /\ \A u \in todo[c] : Doomed(job[c].key, u)
    /\ Harmless(post[c])

SurvivorInv ==
    /\ StoreInv
    /\ \A c \in Callers : CallInv(c)
    /\ \A m \in late : Harmless(m.req)

\* "deleting is never a silent default": of callers that make one call each, a
\* record disappears only for one that asked for its absence, or that deduplicates
\* its identity while a lower uuid carries or carried it.
AskedFor(j, u) ==
    /\ ~j.check
    /\ \/ j.state = "absent" /\ (j.uuid = u \/ j.key = saved[u].key)
       \/ j.dedupe /\ j.key = saved[u].key /\ \E e \in ever[j.key] : e < u
OnlyAskedDeletes ==
    [][\A u \in Live : saved'[u] = NoRecord =>
          \E c \in Callers : runs[c] = 1 /\ AskedFor(job[c], u)]_vars

\* Every started ensure() returns or raises.
Terminates ==
    \A c \in Callers : pc[c] \notin Settled \cup {"idle"} ~> pc[c] \in Settled
=============================================================================
