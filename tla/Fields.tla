------------------------------- MODULE Fields -------------------------------
(***************************************************************************)
(* What BaseManager.ensure() makes of the fields of one record: how a      *)
(* value is given, how the appliance shows it in a search row and in the   *)
(* full item, and how DiffEngine compares the two.  Callers share one      *)
(* manager, so also the name RtRouteManager caches for the enable flag,    *)
(* "disabled" up to firmware 26.1 and "enabled", inverted, from 26.7 on;   *)
(* the appliance may be upgraded meanwhile and its record edited.          *)
(* Lists are those of the Monit managers: no class has both lists and a    *)
(* translated flag; a call that gives one of the two is a call of its own. *)
(*                                                                         *)
(* A text is the sequence of its comma-separated parts, in lower case.     *)
(* Requests arrive once and are answered; two creations at once, lost      *)
(* and repeated requests are module Ensure's.                              *)
(***************************************************************************)
EXTENDS Naturals, Sequences

CONSTANTS Callers,
          Parts,      \* of texts
          Texts, Flags, Multis, Secrets, \* the fields, by their type
          RowFields,  \* those a search row carries
          Normalised, \* those whose lists the manager turns into CSV
          Translates, \* "device": RtRouteManager; "api": FwOneToOneManager; "nothing"
          Calls,      \* the params given: fields to [list : BOOLEAN, text : text]
          Records,    \* records to start from, and to be edited to
          Default,    \* what an add without params creates
          NoRecord,
          MaxCalls,   \* bound: calls made, by all callers
          MaxEdits    \* bound: edits by somebody else

EnableNames == {"disabled", "enabled"}
Fields == Texts \cup Flags \cup Multis \cup Secrets
Stored == Fields \cup {"enabled"}
Text == Seq(Parts)
On == <<"1">>
Off == <<"0">>
Repr == <<"['...']">> \* str() of a list equals no text the appliance shows
RecordType == [Stored -> Text]
IsParams(p, V) == DOMAIN p \subseteq Fields \cup EnableNames /\ p \in [DOMAIN p -> V]

ASSUME FieldAssumption ==
    /\ Fields \cap EnableNames = {}
    /\ Secrets \cap (Multis \cup Flags \cup Texts) = {}
    /\ Multis \cap (Flags \cup Texts) = {} /\ Flags \cap Texts = {}
    /\ {"0", "1", "['...']"} \subseteq Parts
    /\ Translates \in {"device", "api", "nothing"}
    /\ NoRecord \notin RecordType
ASSUME RecordAssumption ==
    /\ Records \cup {Default} \subseteq RecordType
    /\ \A r \in Records \cup {Default}, f \in Flags \cup {"enabled"} : r[f] \in {On, Off}
\* A flag is given a value, a list goes to a field the manager normalises, and the
\* old name of the flag to a manager that translates it.
ASSUME CallAssumption ==
    /\ Calls # {}
    /\ \A p \in Calls :
          /\ IsParams(p, [list : BOOLEAN, text : Text])
          /\ \A f \in DOMAIN p \cap (Flags \cup EnableNames) : p[f].text # <<>>
          /\ \A f \in DOMAIN p : p[f].list => f \in Normalised \cap Multis
          /\ Translates = "nothing" => "disabled" \notin DOMAIN p
ASSUME BoundAssumption == MaxCalls \in Nat /\ MaxEdits \in Nat

VARIABLES calls,
          firmware, \* "26.1" or "26.7"
          record,
          edits,
          cached,   \* the manager's _enable_field, or "unknown"
          at,       \* per caller, from here on: the await it stands at
          args,
          sent,     \* the params once normalised and translated
          outcome,
          standing  \* sent params of calls that returned, the record as they left it

appliance == <<firmware, record, edits>>
vars == <<appliance, cached, at, args, sent, outcome, calls, standing>>

Places == {"idle", "schema", "list", "get", "add", "set", "returned", "raised"}

-----------------------------------------------------------------------------
(* How a value is given. *)

Truthy(text) == text \in {On, <<"true">>, <<"yes">>, <<"on">>}
AsFlag(b) == IF b THEN On ELSE Off

Contradicts(p) ==
    /\ Translates # "nothing"
    /\ EnableNames \subseteq DOMAIN p
    /\ Truthy(p["disabled"].text) <=> Truthy(p["enabled"].text)

IsEnabled(p) ==
    IF "enabled" \in DOMAIN p THEN Truthy(p["enabled"].text)
    ELSE ~Truthy(p["disabled"].text)

\* _normalize_multi_select, and str() of what a manager does not normalise.
Normal(f, given) == IF given.list /\ f \notin Normalised THEN Repr ELSE given.text

\* _device_enable_flag and _api_enable_flag: the params with the flag as `name`.
Rename(p, name) ==
    [f \in (DOMAIN p \ EnableNames) \cup {name} |->
        IF f = name THEN AsFlag(IsEnabled(p) <=> name = "enabled") ELSE Normal(f, p[f])]
AsGiven(p) == [f \in DOMAIN p |-> Normal(f, p[f])]

Renamed(p) ==
    \/ Translates = "device" /\ DOMAIN p \cap EnableNames # {}
    \/ Translates = "api" /\ "disabled" \in DOMAIN p
Params(p, name) == IF Renamed(p) THEN Rename(p, name) ELSE AsGiven(p)
Name == IF Translates = "device" THEN cached ELSE "enabled"

\* ensure() calls the create() and update() of the subclass, which translate what
\* it has translated: what is posted goes by the name cached once it is decided.
Given(s) == [f \in DOMAIN s |-> [list |-> FALSE, text |-> s[f]]]
Twice(s) == Params(Given(s), Name)

\* validate_bool_str.
Valid(s) == \A f \in DOMAIN s \cap (Flags \cup EnableNames) : s[f] \in {On, Off}

-----------------------------------------------------------------------------
(* How the appliance shows it. *)

EnableName(fw) == IF Translates = "device" /\ fw = "26.1" THEN "disabled" ELSE "enabled"
Carried(fw) == Fields \cup {EnableName(fw)}

Value(r, f) == IF f = "disabled" THEN AsFlag(r["enabled"] = Off) ELSE r[f]

\* A search row has native booleans, and the hash of a secret.
Row(r, fw) ==
    [f \in Carried(fw) \cap RowFields |->
        IF f \in Secrets THEN [form |-> IF r[f] = <<>> THEN "text" ELSE "hash", text |-> r[f]]
        ELSE IF f \in Flags \cup EnableNames THEN [form |-> "bool", text |-> Value(r, f)]
        ELSE [form |-> "text", text |-> r[f]]]

\* An item has option dictionaries, and never a secret.
Item(r, fw) ==
    [f \in Carried(fw) |->
        IF f \in Secrets THEN [form |-> "text", text |-> <<>>]
        ELSE IF f \in Multis THEN [form |-> "options", text |-> r[f]]
        ELSE [form |-> "text", text |-> Value(r, f)]]

\* A field it does not know is ignored.
Assign(r, s, fw) ==
    [f \in Stored |->
        IF f \in DOMAIN s \cap Carried(fw) THEN s[f]
        ELSE IF f = "enabled" /\ "disabled" \in DOMAIN s \cap Carried(fw)
             THEN AsFlag(s["disabled"] = Off)
        ELSE r[f]]

-----------------------------------------------------------------------------
(* DiffEngine. *)

Chosen(text) == {text[i] : i \in DOMAIN text}

\* str() of a native boolean.
Shown(s) == IF s.form = "bool" THEN <<IF s.text = On THEN "true" ELSE "false">> ELSE s.text

\* Mutant: native booleans are compared by str().
SameAsText(shown, text) ==
    IF shown.form = "options" THEN Chosen(shown.text) = Chosen(text)
    ELSE Shown(shown) = text

\* normalize_value and the comparison: a boolean as "1" or "0", the selected keys
\* of an option dictionary as a set, a hash by bcrypt.checkpw.
Same(shown, text) ==
    IF shown.form = "options" THEN Chosen(shown.text) = Chosen(text)
    ELSE shown.text = text

\* "The API never returns it -- nothing to compare".
WriteOnly(f, shown, text) ==
    f \in Secrets /\ shown.form = "text" /\ shown.text = <<>> /\ text # <<>>

\* compute_diff: what the answer does not carry is skipped.
Differs(current, s) ==
    \E f \in DOMAIN s \cap DOMAIN current :
        ~WriteOnly(f, current[f], s[f]) /\ ~Same(current[f], s[f])

\* Mutant: the diff is made on the row alone.
NeverHydrates(s, row) == FALSE

\* _hydrate_nested: the row lacks a field that is named.
Hydrates(s, row) == ~(DOMAIN s \subseteq DOMAIN row)

-----------------------------------------------------------------------------
(* The callers *)

MoveTo(c, place) == at' = [at EXCEPT ![c] = place]
End(c, how, what) == MoveTo(c, how) /\ outcome' = [outcome EXCEPT ![c] = what]

\* Validation, in super().ensure(), before the first request of its own.
Validate(c, s) ==
    /\ sent' = [sent EXCEPT ![c] = s]
    /\ \/ Valid(s) /\ MoveTo(c, "list") /\ UNCHANGED outcome
       \/ ~Valid(s) /\ End(c, "raised", "FieldValidationError")

Start(c) ==
    /\ at[c] \in {"idle", "returned", "raised"} /\ calls < MaxCalls
    /\ calls' = calls + 1
    /\ \E p \in Calls :
          /\ args' = [args EXCEPT ![c] = p]
          /\ \/ Contradicts(p) /\ End(c, "raised", "ValueError") /\ UNCHANGED sent
             \/ /\ ~Contradicts(p) /\ Renamed(p) /\ Translates = "device"
                /\ cached = "unknown"
                /\ MoveTo(c, "schema") /\ UNCHANGED <<sent, outcome>>
             \/ /\ ~Contradicts(p)
                /\ Renamed(p) /\ Translates = "device" => cached # "unknown"
                /\ Validate(c, Params(p, Name))
    /\ UNCHANGED <<appliance, cached, standing>>

\* "The flag this firmware has, read once": by every caller that found it unknown.
ReadSchema(c) ==
    /\ at[c] = "schema"
    /\ cached' = EnableName(firmware)
    /\ Validate(c, Params(args[c], EnableName(firmware)))
    /\ UNCHANGED <<appliance, args, calls, standing>>

Decide(c, write) ==
    /\ MoveTo(c, write)
    /\ sent' = [sent EXCEPT ![c] = Twice(@)]
    /\ UNCHANGED <<outcome, standing>>

\* ensure() once it has read the record: noop or update.
Compare(c, current) ==
    \/ /\ ~Differs(current, sent[c])
       /\ End(c, "returned", "noop")
       /\ standing' = standing \cup {sent[c]}
       /\ UNCHANGED sent
    \/ /\ Differs(current, sent[c])
       /\ Decide(c, "set")

\* One caller at a time creates.
Lookup(c) ==
    /\ at[c] = "list"
    /\ \/ /\ record = NoRecord /\ \A d \in Callers : at[d] # "add"
          /\ Decide(c, "add")
       \/ /\ record # NoRecord /\ Hydrates(sent[c], Row(record, firmware))
          /\ MoveTo(c, "get") /\ UNCHANGED <<sent, outcome, standing>>
       \/ /\ record # NoRecord /\ ~Hydrates(sent[c], Row(record, firmware))
          /\ Compare(c, Row(record, firmware))
    /\ UNCHANGED <<appliance, cached, args, calls>>

Hydrate(c) ==
    /\ at[c] = "get"
    /\ Compare(c, Item(record, firmware))
    /\ UNCHANGED <<appliance, cached, args, calls>>

\* create() and update() post all params.
Write(c) ==
    /\ \/ /\ at[c] = "add"
          /\ record' = Assign(Default, sent[c], firmware)
          /\ End(c, "returned", "created")
       \/ /\ at[c] = "set"
          /\ record' = Assign(record, sent[c], firmware)
          /\ End(c, "returned", "updated")
    /\ standing' = {sent[c]}
    /\ UNCHANGED <<firmware, edits, cached, args, sent, calls>>

RequestFails(c) ==
    /\ at[c] \in {"schema", "list", "get", "add", "set"}
    /\ End(c, "raised", "unavailable")
    /\ UNCHANGED <<appliance, cached, args, sent, calls, standing>>

-----------------------------------------------------------------------------
\* The upgrade keeps the record and renames its flag.
Upgrade ==
    /\ firmware = "26.1"
    /\ firmware' = "26.7" /\ standing' = {}
    /\ UNCHANGED <<record, edits, cached, at, args, sent, outcome, calls>>

Edit ==
    /\ record # NoRecord /\ edits < MaxEdits
    /\ edits' = edits + 1 /\ record' \in Records /\ standing' = {}
    /\ UNCHANGED <<firmware, cached, at, args, sent, outcome, calls>>

Init ==
    /\ firmware \in {"26.1", "26.7"}
    /\ record \in Records \cup {NoRecord} /\ edits = 0
    /\ cached = "unknown"
    /\ at = [c \in Callers |-> "idle"]
    /\ args = [c \in Callers |-> CHOOSE p \in Calls : TRUE]
    /\ sent = [c \in Callers |-> [f \in {} |-> Off]]
    /\ outcome = [c \in Callers |-> "pending"]
    /\ calls = 0
    /\ standing = {}

Next ==
    \/ \E c \in Callers :
          \/ Start(c) \/ ReadSchema(c) \/ Lookup(c) \/ Hydrate(c) \/ Write(c)
          \/ RequestFails(c)
    \/ Upgrade \/ Edit

Spec == Init /\ [][Next]_vars

-----------------------------------------------------------------------------
(* Properties *)

TypeOK ==
    /\ firmware \in {"26.1", "26.7"}
    /\ record \in RecordType \cup {NoRecord} /\ edits \in Nat
    /\ cached \in EnableNames \cup {"unknown"}
    /\ at \in [Callers -> Places]
    /\ \A c \in Callers : at[c] \in {"get", "set"} => record # NoRecord
    /\ args \in [Callers -> Calls]
    /\ DOMAIN sent = Callers /\ \A c \in Callers : IsParams(sent[c], Text)
    /\ outcome \in [Callers -> {"pending", "noop", "created", "updated", "ValueError",
                                "FieldValidationError", "unavailable"}]
    /\ calls \in Nat
    /\ \A s \in standing : IsParams(s, Text)

\* What the call gave, in the record: an enable flag under either name, a
\* multi-select in any order.
Holds(r, p, f) ==
    IF f \in EnableNames THEN r["enabled"] = On <=> IsEnabled(p)
    ELSE IF f \in Multis THEN Chosen(r[f]) = Chosen(p[f].text)
    ELSE r[f] = p[f].text

\* A noop cannot vouch for a secret that the row does not show.
Unseen(c, f) == outcome[c] = "noop" /\ f \in Secrets
NameIsCurrent(c) ==
    Translates = "device" =>
        DOMAIN sent[c] \cap EnableNames \subseteq {EnableName(firmware)}

\* "Never a silent noop": when ensure() returns, each field the call gave is in
\* the record as it was meant, whichever answer it was compared in, unless the
\* appliance was upgraded after the manager cached the name of its flag.
ReturnsAsGiven ==
    [][\A c \in Callers :
          at[c] # "returned" /\ at'[c] = "returned" /\ NameIsCurrent(c)' =>
             \A f \in DOMAIN args[c] :
                Unseen(c, f)' \/ Holds(record', args[c], f)]_vars

\* "Noop if matching", README "idempotent ensure()": a call whose params were
\* sent before, the record as that call left it, decides to write nothing,
\* however the appliance shows what was written.
SecondRunIsNoop ==
    [][\A c \in Callers :
          at[c] # "set" /\ at'[c] = "set" => sent[c] \notin standing]_vars

\* What is to be translated again finds a name.
NameKnown(c) == at[c] \in {"list", "get"} /\ Renamed(Given(sent[c])) => Name # "unknown"
TypeInv == TypeOK /\ \A c \in Callers : NameKnown(c)

\* What makes both hold.  A caller on its way sends what it was given under a name
\* of the flag, one the firmware had, and keeps waiting for the item only if the
\* row lacks a field; what was sent and stands agrees with both answers.
Sending(c) ==
    \E name \in EnableNames :
        /\ sent[c] = Params(args[c], name)
        /\ Translates # "device" => name = "enabled"

CallInv(c) ==
    /\ at[c] \in {"list", "get", "add", "set"} => Valid(sent[c]) /\ Sending(c)
    /\ at[c] = "get" => Hydrates(sent[c], Row(record, firmware))
    /\ Translates = "device" /\ "enabled" \in DOMAIN sent[c] => firmware = "26.7"

RecordInv ==
    /\ record # NoRecord => record["enabled"] \in {On, Off}
    /\ Translates = "device" /\ cached = "enabled" => firmware = "26.7"
    /\ \A s \in standing :
          /\ record # NoRecord /\ ~Differs(Item(record, firmware), s)
          /\ ~Hydrates(s, Row(record, firmware)) => ~Differs(Row(record, firmware), s)

FieldsInv == TypeInv /\ RecordInv /\ \A c \in Callers : CallInv(c)
=============================================================================
