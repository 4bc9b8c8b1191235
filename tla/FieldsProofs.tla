---------------------------- MODULE FieldsProofs ----------------------------
(***************************************************************************)
(* For every set of fields, every way of giving them and any number of     *)
(* callers of one manager: what ensure() returns from is as given          *)
(* (ReturnsAsGiven), and a second run writes nothing (SecondRunIsNoop),    *)
(* by the invariant FieldsInv.                                             *)
(***************************************************************************)
EXTENDS Fields, TLAPS

(* What the two comparisons mean, without the forms an answer shows. *)

RowAgrees(r, s, fw) ==
    \A f \in DOMAIN s \cap Carried(fw) \cap RowFields :
        Value(r, f) = s[f] \/ (f \in Secrets /\ r[f] = <<>> /\ s[f] # <<>>)
ItemAgrees(r, s, fw) ==
    \A f \in (DOMAIN s \cap Carried(fw)) \ Secrets :
        IF f \in Multis THEN Chosen(r[f]) = Chosen(s[f]) ELSE Value(r, f) = s[f]

LEMMA Distinct ==
    /\ \A f \in Fields : f \notin EnableNames
    /\ \A f \in Secrets : f \notin Multis \cup Flags \cup Texts
    /\ \A f \in Multis : f \notin Flags \cup Texts
  BY FieldAssumption DEF Fields

LEMMA RowDifference ==
    ASSUME NEW r, NEW s, NEW fw
    PROVE  Differs(Row(r, fw), s) <=> ~RowAgrees(r, s, fw)
<1>1. DOMAIN Row(r, fw) = Carried(fw) \cap RowFields
  BY DEF Row
<1>2. ASSUME NEW f \in DOMAIN s \cap Carried(fw) \cap RowFields
      PROVE  /\ Row(r, fw)[f].text = Value(r, f)
             /\ Row(r, fw)[f].form # "options"
             /\ WriteOnly(f, Row(r, fw)[f], s[f]) <=>
                   f \in Secrets /\ r[f] = <<>> /\ s[f] # <<>>
  <2>1. CASE f \in Secrets
    <3>1. Value(r, f) = r[f]
      BY <2>1, Distinct DEF Value, EnableNames, Fields
    <3>2. Row(r, fw)[f] = [form |-> IF r[f] = <<>> THEN "text" ELSE "hash", text |-> r[f]]
      BY <2>1 DEF Row
    <3> QED
      BY <2>1, <3>1, <3>2 DEF WriteOnly
  <2>2. CASE f \notin Secrets /\ f \in Flags \cup EnableNames
    <3>1. Row(r, fw)[f] = [form |-> "bool", text |-> Value(r, f)]
      BY <2>2 DEF Row
    <3> QED
      BY <2>2, <3>1 DEF WriteOnly
  <2>3. CASE f \notin Secrets /\ f \notin Flags \cup EnableNames
    <3>1. Row(r, fw)[f] = [form |-> "text", text |-> r[f]]
      BY <2>3 DEF Row
    <3>2. Value(r, f) = r[f]
      BY <2>3 DEF Value, EnableNames
    <3> QED
      BY <2>3, <3>1, <3>2 DEF WriteOnly
  <2> QED
    BY <2>1, <2>2, <2>3
<1> QED
  BY <1>1, <1>2 DEF Differs, RowAgrees, Same

LEMMA ItemDifference ==
    ASSUME NEW r, NEW s, NEW fw
    PROVE  Differs(Item(r, fw), s) <=> ~ItemAgrees(r, s, fw)
<1>1. DOMAIN Item(r, fw) = Carried(fw)
  BY DEF Item
<1>2. ASSUME NEW f \in DOMAIN s \cap Carried(fw)
      PROVE  (~WriteOnly(f, Item(r, fw)[f], s[f]) /\ ~Same(Item(r, fw)[f], s[f]))
             <=> /\ f \notin Secrets
                 /\ ~(IF f \in Multis THEN Chosen(r[f]) = Chosen(s[f])
                      ELSE Value(r, f) = s[f])
  <2>1. CASE f \in Secrets
    <3>1. Item(r, fw)[f] = [form |-> "text", text |-> <<>>]
      BY <2>1 DEF Item
    <3> QED
      BY <2>1, <3>1 DEF WriteOnly, Same
  <2>2. CASE f \notin Secrets /\ f \in Multis
    <3>1. Item(r, fw)[f] = [form |-> "options", text |-> r[f]]
      BY <2>2 DEF Item
    <3> QED
      BY <2>2, <3>1 DEF WriteOnly, Same
  <2>3. CASE f \notin Secrets /\ f \notin Multis
    <3>1. Item(r, fw)[f] = [form |-> "text", text |-> Value(r, f)]
      BY <2>3 DEF Item
    <3> QED
      BY <2>3, <3>1 DEF WriteOnly, Same
  <2> QED
    BY <2>1, <2>2, <2>3
<1> QED
  BY <1>1, <1>2 DEF Differs, ItemAgrees

\* A row that agrees on all that is asked speaks for the item.
LEMMA RowSpeaks ==
    ASSUME NEW r, NEW s, NEW fw, ~Hydrates(s, Row(r, fw)), RowAgrees(r, s, fw)
    PROVE  ItemAgrees(r, s, fw)
<1>1. DOMAIN s \subseteq Carried(fw) \cap RowFields
  BY DEF Hydrates, Row
<1>2. \A f \in Multis : Value(r, f) = r[f]
  BY Distinct DEF Value, EnableNames, Fields
<1> QED
  BY <1>1, <1>2 DEF RowAgrees, ItemAgrees

\* What is written is shown.
LEMMA WrittenValue ==
    ASSUME NEW r, NEW s, NEW fw, Valid(s), NEW f \in DOMAIN s \cap Carried(fw)
    PROVE  Value(Assign(r, s, fw), f) = s[f]
<1>1. f \in Fields \cup EnableNames
  BY DEF Carried, EnableName, EnableNames
<1>2. CASE f = "disabled"
  <2>1. s[f] \in {On, Off} /\ On # Off
    BY <1>2 DEF Valid, EnableNames, On, Off
  <2>2. "enabled" \notin Carried(fw)
    BY <1>2, Distinct DEF Carried, EnableName, EnableNames
  <2>3. Assign(r, s, fw)["enabled"] = AsFlag(s[f] = Off)
    BY <1>2, <2>2 DEF Assign, Stored
  <2> QED
    BY <1>2, <2>1, <2>3 DEF Value, AsFlag
<1>3. CASE f # "disabled"
  BY <1>1, <1>3 DEF Value, Assign, Stored, EnableNames
<1> QED
  BY <1>2, <1>3

LEMMA WrittenAgrees ==
    ASSUME NEW r, NEW s, NEW fw, Valid(s)
    PROVE  /\ RowAgrees(Assign(r, s, fw), s, fw)
           /\ ItemAgrees(Assign(r, s, fw), s, fw)
<1>1. \A f \in Multis : \A q : Value(q, f) = q[f]
  BY Distinct DEF Value, EnableNames, Fields
<1> QED
  BY <1>1, WrittenValue DEF RowAgrees, ItemAgrees
-----------------------------------------------------------------------------
(* Types *)

LEMMA FlagTexts == On \in Text /\ Off \in Text /\ On # Off
  BY FieldAssumption DEF On, Off, Text

LEMMA NormalIsText ==
    ASSUME NEW p \in Calls, NEW f \in DOMAIN p
    PROVE  Normal(f, p[f]) = p[f].text /\ p[f].text \in Text
<1>1. p \in [DOMAIN p -> [list : BOOLEAN, text : Text]]
  BY CallAssumption DEF IsParams
<1>2. p[f] \in [list : BOOLEAN, text : Text]
  BY <1>1
<1> QED
  BY <1>2, CallAssumption DEF Normal

LEMMA ParamsType ==
    ASSUME NEW p \in Calls, NEW name \in EnableNames
    PROVE  IsParams(Params(p, name), Text)
<1>1. DOMAIN p \subseteq Fields \cup EnableNames
  BY CallAssumption DEF IsParams
<1>2. CASE Renamed(p)
  <2>1. Params(p, name) = Rename(p, name)
    BY <1>2 DEF Params
  <2>2. ASSUME NEW f \in (DOMAIN p \ EnableNames) \cup {name}
        PROVE  (IF f = name THEN AsFlag(IsEnabled(p) <=> name = "enabled")
                ELSE Normal(f, p[f])) \in Text
    BY FlagTexts, NormalIsText DEF AsFlag
  <2> QED
    BY <1>1, <2>1, <2>2 DEF Rename, IsParams
<1>3. CASE ~Renamed(p)
  <2>1. Params(p, name) = AsGiven(p)
    BY <1>3 DEF Params
  <2> QED
    BY <1>1, <2>1, NormalIsText DEF AsGiven, IsParams
<1> QED
  BY <1>2, <1>3

\* Translating what was translated gives the flag its new name and nothing else.
LEMMA TwiceRenamed ==
    ASSUME NEW p \in Calls, Renamed(p), NEW name \in EnableNames, NEW n \in EnableNames,
           Translates # "device" => name = "enabled" /\ n = "enabled"
    PROVE  Params(Given(Params(p, name)), n) = Params(p, n)
<1> DEFINE s == Rename(p, name)
           g == Given(s)
<1>1. Params(p, name) = s /\ Params(p, n) = Rename(p, n)
  BY DEF Params
<1>2. DOMAIN s = (DOMAIN p \ EnableNames) \cup {name} /\ DOMAIN g = DOMAIN s
  BY DEF Rename, Given
<1>3. \A f \in DOMAIN g : Normal(f, g[f]) = s[f] /\ g[f].text = s[f]
  BY DEF Given, Normal
<1>4. CASE Translates = "device"
  <2>1. Params(g, n) = Rename(g, n)
    BY <1>2, <1>4 DEF Params, Renamed
  <2>2. IsEnabled(g) <=> IsEnabled(p)
    <3>1. s[name] = AsFlag(IsEnabled(p) <=> name = "enabled") /\ g[name].text = s[name]
      BY <1>2, <1>3 DEF Rename
    <3>2. Truthy(AsFlag(TRUE)) /\ ~Truthy(AsFlag(FALSE))
      BY DEF Truthy, AsFlag, On, Off
    <3>3. IsEnabled(g) <=> (Truthy(s[name]) <=> name = "enabled")
      BY <1>2, <3>1 DEF IsEnabled, EnableNames
    <3> QED
      BY <3>1, <3>2, <3>3 DEF AsFlag
  <2>3. (DOMAIN g \ EnableNames) \cup {n} = (DOMAIN p \ EnableNames) \cup {n}
    BY <1>2
  <2>4. \A f \in DOMAIN p \ EnableNames : Normal(f, g[f]) = Normal(f, p[f])
    BY <1>2, <1>3 DEF Rename
  <2>5. Rename(g, n) = Rename(p, n)
    BY <2>2, <2>3, <2>4 DEF Rename
  <2> QED
    BY <1>1, <2>1, <2>5
<1>5. CASE Translates # "device"
  <2>1. name = "enabled" /\ n = "enabled"
    BY <1>5
  <2>2. Params(g, n) = AsGiven(g)
    BY <1>2, <1>5, <2>1 DEF Params, Renamed, EnableNames
  <2>3. AsGiven(g) = s
    BY <1>2, <1>3 DEF AsGiven, Rename
  <2> QED
    BY <1>1, <2>1, <2>2, <2>3
<1> QED
  BY <1>4, <1>5

LEMMA TwicePlain ==
    ASSUME NEW p \in Calls, ~Renamed(p), NEW name, NEW n
    PROVE  Params(Given(Params(p, name)), n) = Params(p, name)
<1> DEFINE s == AsGiven(p)
           g == Given(s)
<1>1. Params(p, name) = s
  BY DEF Params
<1>2. DOMAIN g = DOMAIN p /\ DOMAIN s = DOMAIN p
  BY DEF Given, AsGiven
<1>3. \A f \in DOMAIN g : Normal(f, g[f]) = s[f]
  BY DEF Given, Normal
<1>4. Params(g, n) = AsGiven(g)
  BY <1>2 DEF Params, Renamed
<1>5. AsGiven(g) = s
  BY <1>2, <1>3 DEF AsGiven
<1> QED
  BY <1>1, <1>4, <1>5

LEMMA ValidByAnyName ==
    ASSUME NEW p \in Calls, NEW name \in EnableNames, NEW n \in EnableNames,
           Valid(Params(p, name))
    PROVE  Valid(Params(p, n))
<1>1. CASE Renamed(p)
  <2>1. Params(p, name) = Rename(p, name) /\ Params(p, n) = Rename(p, n)
    BY <1>1 DEF Params
  <2>2. ASSUME NEW f \in DOMAIN Rename(p, n) \cap (Flags \cup EnableNames)
        PROVE  Rename(p, n)[f] \in {On, Off}
    <3>1. CASE f = n
      BY <3>1 DEF Rename, AsFlag
    <3>2. CASE f # n
      <4>1. f \in DOMAIN p \ EnableNames /\ Rename(p, n)[f] = Normal(f, p[f])
        BY <3>2 DEF Rename
      <4>2. f # name /\ f \in DOMAIN Rename(p, name)
            /\ Rename(p, name)[f] = Normal(f, p[f])
        BY <4>1 DEF Rename
      <4> QED
        BY <2>1, <4>1, <4>2 DEF Valid
    <3> QED
      BY <3>1, <3>2
  <2> QED
    BY <2>1, <2>2 DEF Valid
<1>2. CASE ~Renamed(p)
  BY <1>2 DEF Params
<1> QED
  BY <1>1, <1>2

LEMMA AssignType ==
    ASSUME NEW r \in RecordType, NEW s, IsParams(s, Text), NEW fw
    PROVE  Assign(r, s, fw) \in RecordType
<1>1. \A f \in DOMAIN s : s[f] \in Text
  BY DEF IsParams
<1>2. \A f \in Stored : r[f] \in Text
  BY DEF RecordType
<1> QED
  BY <1>1, <1>2, FlagTexts DEF Assign, RecordType, AsFlag

LEMMA ValidateType ==
    ASSUME TypeOK, NEW c \in Callers, NEW s, IsParams(s, Text), Validate(c, s)
    PROVE  /\ at' \in [Callers -> Places]
           /\ \A d \in Callers : at'[d] \in {"get", "set"} => at'[d] = at[d]
           /\ DOMAIN sent' = Callers /\ \A d \in Callers : IsParams(sent'[d], Text)
           /\ outcome' \in [Callers -> {"pending", "noop", "created", "updated",
                                       "ValueError", "FieldValidationError",
                                       "unavailable"}]
<1>1. sent' = [sent EXCEPT ![c] = s]
  BY DEF Validate
<1>2. DOMAIN sent' = Callers /\ \A d \in Callers : IsParams(sent'[d], Text)
  BY <1>1 DEF TypeOK
<1> QED
  BY <1>2 DEF TypeOK, Validate, MoveTo, End, Places

\* What is translated twice is still params.
LEMMA GivenType ==
    ASSUME NEW s, IsParams(s, Text), NEW name \in EnableNames \cup {"unknown"},
           Renamed(Given(s)) => name # "unknown"
    PROVE  IsParams(Params(Given(s), name), Text)
<1> DEFINE g == Given(s)
<1>1. DOMAIN g = DOMAIN s /\ DOMAIN s \subseteq Fields \cup EnableNames
  BY DEF Given, IsParams
<1>2. \A f \in DOMAIN g : Normal(f, g[f]) = s[f] /\ s[f] \in Text
  BY DEF Given, Normal, IsParams
<1>3. CASE Renamed(g)
  <2>1. Params(g, name) = Rename(g, name) /\ name \in EnableNames
    BY <1>3 DEF Params
  <2>2. ASSUME NEW f \in (DOMAIN g \ EnableNames) \cup {name}
        PROVE  (IF f = name THEN AsFlag(IsEnabled(g) <=> name = "enabled")
                ELSE Normal(f, g[f])) \in Text
    BY <1>2, FlagTexts DEF AsFlag
  <2> QED
    BY <1>1, <2>1, <2>2 DEF Rename, IsParams
<1>4. CASE ~Renamed(g)
  <2>1. Params(g, name) = AsGiven(g)
    BY <1>4 DEF Params
  <2> QED
    BY <1>1, <1>2, <2>1 DEF AsGiven, IsParams
<1> QED
  BY <1>3, <1>4

LEMMA TwiceType ==
    ASSUME TypeInv, NEW c \in Callers, at[c] \in {"list", "get"}
    PROVE  IsParams(Twice(sent[c]), Text)
<1>1. IsParams(sent[c], Text) /\ NameKnown(c)
  BY DEF TypeInv, TypeOK
<1>2. Name \in EnableNames \cup {"unknown"}
  BY DEF TypeInv, TypeOK, Name, EnableNames
<1> QED
  BY <1>1, <1>2, GivenType DEF NameKnown, Twice

LEMMA DecideType ==
    ASSUME TypeInv, NEW c \in Callers, at[c] \in {"list", "get"},
           NEW write \in {"add", "set"}, Decide(c, write)
    PROVE  /\ at' = [at EXCEPT ![c] = write]
           /\ at' \in [Callers -> Places]
           /\ DOMAIN sent' = Callers /\ \A d \in Callers : IsParams(sent'[d], Text)
           /\ \A d \in Callers : d # c => sent'[d] = sent[d]
           /\ UNCHANGED <<outcome, standing>>
<1>1. sent' = [sent EXCEPT ![c] = Twice(sent[c])] /\ DOMAIN sent = Callers
  BY DEF Decide, TypeInv, TypeOK
<1>2. IsParams(Twice(sent[c]), Text)
  BY TwiceType
<1>3. \A d \in Callers : IsParams(sent'[d], Text)
  BY <1>1, <1>2 DEF TypeInv, TypeOK
<1> QED
  BY <1>1, <1>3 DEF Decide, MoveTo, TypeInv, TypeOK, Places

LEMMA CompareType ==
    ASSUME TypeInv, NEW c \in Callers, at[c] \in {"list", "get"},
           NEW current, Compare(c, current)
    PROVE  /\ at' \in [Callers -> Places] /\ at'[c] \in {"returned", "set"}
           /\ \A d \in Callers : d # c => at'[d] = at[d] /\ sent'[d] = sent[d]
           /\ DOMAIN sent' = Callers /\ \A d \in Callers : IsParams(sent'[d], Text)
           /\ \A s \in standing' : IsParams(s, Text)
           /\ outcome' \in [Callers -> {"pending", "noop", "created", "updated",
                                       "ValueError", "FieldValidationError",
                                       "unavailable"}]
<1>1. CASE ~Differs(current, sent[c]) /\ End(c, "returned", "noop")
           /\ standing' = standing \cup {sent[c]} /\ UNCHANGED sent
  BY <1>1 DEF TypeInv, TypeOK, MoveTo, End, Places
<1>2. CASE Decide(c, "set")
  BY <1>2, DecideType DEF TypeInv, TypeOK
<1> QED
  BY <1>1, <1>2 DEF Compare
\* A step of one caller leaves the other callers' names alone.
LEMMA NamesStay ==
    ASSUME TypeInv, NEW c \in Callers, NameKnown(c)',
           cached' = cached \/ cached' = EnableName(firmware),
           \A d \in Callers : d # c => at'[d] = at[d] /\ sent'[d] = sent[d]
    PROVE  \A d \in Callers : NameKnown(d)'
<1>1. Name' # "unknown" \/ Name' = Name
  BY DEF Name, EnableName
<1>2. ASSUME NEW d \in Callers, d # c PROVE NameKnown(d)'
  BY <1>1, <1>2 DEF TypeInv, NameKnown
<1> QED
  BY <1>2

LEMMA StartType ==
    ASSUME TypeInv, NEW c \in Callers, Start(c)
    PROVE  TypeInv'
<1>1. PICK p \in Calls :
         /\ args' = [args EXCEPT ![c] = p]
         /\ \/ End(c, "raised", "ValueError") /\ UNCHANGED sent
            \/ MoveTo(c, "schema") /\ UNCHANGED <<sent, outcome>>
            \/ /\ Renamed(p) /\ Translates = "device" => cached # "unknown"
               /\ Validate(c, Params(p, Name))
  BY DEF Start
<1>2. UNCHANGED <<appliance, cached, standing>> /\ calls' = calls + 1
  BY DEF Start
<1>3. CASE /\ Renamed(p) /\ Translates = "device" => cached # "unknown"
           /\ Validate(c, Params(p, Name))
  <2>1. Renamed(p) => Name # "unknown"
    BY <1>3 DEF Name
  <2>2. Name \in EnableNames \cup {"unknown"}
    BY DEF TypeInv, TypeOK, Name, EnableNames
  <2>3. IsParams(Params(p, Name), Text)
    <3>1. CASE ~Renamed(p)
      BY <3>1, ParamsType DEF Params, EnableNames
    <3> QED
      BY <2>1, <2>2, <3>1, ParamsType
  <2>4. Renamed(Given(Params(p, Name))) => Name # "unknown"
    <3>1. ~Renamed(p) => DOMAIN Given(Params(p, Name)) = DOMAIN p
      BY DEF Params, AsGiven, Given
    <3> QED
      BY <2>1, <3>1 DEF Renamed
  <2>5. sent'[c] = Params(p, Name) /\ Name' = Name
        /\ \A d \in Callers : d # c => at'[d] = at[d] /\ sent'[d] = sent[d]
    BY <1>2, <1>3 DEF Validate, MoveTo, End, TypeInv, TypeOK, Name
  <2>6. \A d \in Callers : NameKnown(d)'
    BY <1>2, <2>4, <2>5, NamesStay DEF NameKnown
  <2>7. TypeOK'
    BY <1>1, <1>2, <1>3, <2>3, ValidateType DEF TypeInv, TypeOK, appliance
  <2> QED
    BY <2>6, <2>7 DEF TypeInv
<1>4. CASE \/ End(c, "raised", "ValueError") /\ UNCHANGED sent
           \/ MoveTo(c, "schema") /\ UNCHANGED <<sent, outcome>>
  <2>1. TypeOK'
    BY <1>1, <1>2, <1>4 DEF TypeInv, TypeOK, appliance, End, MoveTo, Places
  <2>2. \A d \in Callers : NameKnown(d)'
    BY <1>2, <1>4, NamesStay DEF TypeInv, TypeOK, End, MoveTo, NameKnown
  <2> QED
    BY <2>1, <2>2 DEF TypeInv
<1> QED
  BY <1>1, <1>3, <1>4

LEMMA ReadSchemaType ==
    ASSUME TypeInv, NEW c \in Callers, ReadSchema(c)
    PROVE  TypeInv'
<1>1. EnableName(firmware) \in EnableNames
  BY DEF EnableName, EnableNames
<1>2. IsParams(Params(args[c], EnableName(firmware)), Text)
  BY <1>1, ParamsType DEF TypeInv, TypeOK
<1>3. TypeOK'
  BY <1>1, <1>2, ValidateType DEF ReadSchema, TypeInv, TypeOK, appliance
<1>4. Name' # "unknown"
  BY DEF ReadSchema, Name, EnableName
<1> QED
  BY <1>3, <1>4 DEF TypeInv, NameKnown

LEMMA LookupType ==
    ASSUME TypeInv, NEW c \in Callers, Lookup(c)
    PROVE  TypeInv'
<1>1. at[c] = "list" /\ UNCHANGED <<appliance, cached, args, calls>>
  BY DEF Lookup
<1>2. CASE record # NoRecord /\ Compare(c, Row(record, firmware))
  <2>1. TypeOK'
    BY <1>1, <1>2, CompareType DEF TypeInv, TypeOK, appliance
  <2>2. \A d \in Callers : NameKnown(d)'
    BY <1>1, <1>2, CompareType, NamesStay DEF NameKnown
  <2> QED
    BY <2>1, <2>2 DEF TypeInv
<1>3. CASE Decide(c, "add")
  <2>1. TypeOK'
    BY <1>1, <1>3, DecideType DEF TypeInv, TypeOK, appliance
  <2>2. \A d \in Callers : NameKnown(d)'
    BY <1>1, <1>3, DecideType, NamesStay DEF NameKnown, TypeInv, TypeOK
  <2> QED
    BY <2>1, <2>2 DEF TypeInv
<1>4. CASE record # NoRecord /\ MoveTo(c, "get") /\ UNCHANGED <<sent, outcome, standing>>
  <2>1. TypeOK'
    BY <1>1, <1>4 DEF MoveTo, TypeInv, TypeOK, Places, appliance
  <2>2. \A d \in Callers : NameKnown(d)'
    BY <1>1, <1>4 DEF MoveTo, NameKnown, Name, TypeInv, TypeOK
  <2> QED
    BY <2>1, <2>2 DEF TypeInv
<1> QED
  BY <1>2, <1>3, <1>4 DEF Lookup

LEMMA WriteType ==
    ASSUME TypeInv, NEW c \in Callers, Write(c)
    PROVE  TypeInv'
<1>1. record' \in RecordType
  BY AssignType, RecordAssumption DEF Write, TypeInv, TypeOK
<1>2. record' # NoRecord
  BY <1>1, FieldAssumption
<1>3. TypeOK'
  BY <1>1, <1>2 DEF Write, End, MoveTo, TypeInv, TypeOK, Places
<1>4. \A d \in Callers : NameKnown(d)'
  BY DEF Write, End, MoveTo, NameKnown, Name, TypeInv, TypeOK
<1> QED
  BY <1>3, <1>4 DEF TypeInv

LEMMA TypeKeeps == TypeInv /\ [Next]_vars => TypeInv'
<1> SUFFICES ASSUME TypeInv, [Next]_vars PROVE TypeInv'
  OBVIOUS
<1>1. ASSUME NEW c \in Callers, Hydrate(c) PROVE TypeInv'
  <2>1. TypeOK'
    BY <1>1, CompareType DEF Hydrate, TypeInv, TypeOK, appliance
  <2>2. \A d \in Callers : NameKnown(d)'
    BY <1>1, CompareType, NamesStay DEF Hydrate, NameKnown
  <2> QED
    BY <2>1, <2>2 DEF TypeInv
<1>2. ASSUME NEW c \in Callers, RequestFails(c) PROVE TypeInv'
  <2>1. TypeOK'
    BY <1>2 DEF RequestFails, End, MoveTo, TypeInv, TypeOK, Places, appliance
  <2>2. \A d \in Callers : NameKnown(d)'
    BY <1>2 DEF RequestFails, End, MoveTo, NameKnown, Name, TypeInv, TypeOK
  <2> QED
    BY <2>1, <2>2 DEF TypeInv
<1>3. CASE Upgrade \/ Edit \/ UNCHANGED vars
  <2>1. TypeOK'
    BY <1>3, RecordAssumption, FieldAssumption
       DEF Upgrade, Edit, vars, appliance, TypeInv, TypeOK
  <2>2. \A d \in Callers : NameKnown(d)'
    BY <1>3 DEF Upgrade, Edit, vars, appliance, NameKnown, Name, TypeInv
  <2> QED
    BY <2>1, <2>2 DEF TypeInv
<1> QED
  BY <1>1, <1>2, <1>3, StartType, ReadSchemaType, LookupType, WriteType DEF Next

LEMMA TypeInvHolds == Spec => []TypeInv
<1>1. Init => TypeInv
  <2> SUFFICES ASSUME Init PROVE TypeInv
    OBVIOUS
  <2>1. \A c \in Callers : IsParams(sent[c], Text)
    BY DEF Init, IsParams
  <2> QED
    BY <2>1, RecordAssumption, CallAssumption DEF Init, TypeInv, TypeOK, Places, NameKnown
<1> QED
  BY <1>1, TypeKeeps, PTL DEF Spec

\* Every value the manager keeps or sends, and every record it leaves on the
\* appliance, is of its type (_device_enable_flag, normalize_multi_select, set).
THEOREM TypeCorrect == Spec => []TypeOK
<1>1. TypeInv => TypeOK
  BY DEF TypeInv
<1> QED
  BY <1>1, TypeInvHolds, PTL
-----------------------------------------------------------------------------
(* The invariant *)

\* The row carries the same fields, whatever their values.
LEMMA HydratesByFirmware ==
    ASSUME NEW r, NEW q, NEW s, NEW fw
    PROVE  Hydrates(s, Row(r, fw)) <=> Hydrates(s, Row(q, fw))
  BY DEF Hydrates, Row

\* An upgrade takes no field away but the old name.
LEMMA HydratesAfterUpgrade ==
    ASSUME NEW r, NEW s, Hydrates(s, Row(r, "26.1")),
           Translates = "device" => "enabled" \notin DOMAIN s
    PROVE  Hydrates(s, Row(r, "26.7"))
<1>1. PICK f \in DOMAIN s : f \notin Carried("26.1") \cap RowFields
  BY DEF Hydrates, Row
<1>2. f \notin Carried("26.7") \cap RowFields
  BY <1>1 DEF Carried, EnableName
<1> QED
  BY <1>2 DEF Hydrates, Row

LEMMA WrittenStands ==
    ASSUME NEW r, NEW s, NEW fw, Valid(s)
    PROVE  /\ ~Differs(Item(Assign(r, s, fw), fw), s)
           /\ ~Differs(Row(Assign(r, s, fw), fw), s)
  BY WrittenAgrees, ItemDifference, RowDifference

LEMMA WrittenFlag ==
    ASSUME NEW r, r["enabled"] \in {On, Off}, NEW s, NEW fw, Valid(s)
    PROVE  Assign(r, s, fw)["enabled"] \in {On, Off}
  BY DEF Assign, Stored, Valid, AsFlag, EnableNames

\* The name a translated call is sent under.
LEMMA NameSent ==
    ASSUME NEW p \in Calls, NEW name \in EnableNames, Translates = "device",
           "enabled" \in DOMAIN Params(p, name)
    PROVE  name = "enabled"
<1>1. CASE Renamed(p)
  BY <1>1 DEF Params, Rename, EnableNames
<1>2. CASE ~Renamed(p)
  BY <1>2 DEF Params, AsGiven, Renamed, EnableNames
<1> QED
  BY <1>1, <1>2

\* A caller's step that leaves the appliance, the other callers and what stands
\* alone keeps the invariant when it keeps it for that caller.
LEMMA OwnStep ==
    ASSUME FieldsInv, TypeInv', NEW c \in Callers, UNCHANGED <<appliance, standing>>,
           cached' = cached \/ cached' = EnableName(firmware),
           \A d \in Callers : d # c =>
               at'[d] = at[d] /\ args'[d] = args[d] /\ sent'[d] = sent[d],
           CallInv(c)'
    PROVE  FieldsInv'
<1>1. RecordInv'
  <2>1. Translates = "device" /\ cached' = "enabled" => firmware = "26.7"
    BY DEF FieldsInv, TypeInv, RecordInv, EnableName, TypeOK
  <2> QED
    BY <2>1 DEF FieldsInv, TypeInv, RecordInv, appliance
<1>2. ASSUME NEW d \in Callers PROVE CallInv(d)'
  <2>1. CASE d # c
    BY <2>1 DEF FieldsInv, TypeInv, CallInv, Sending, appliance
  <2> QED
    BY <2>1
<1> QED
  BY <1>1, <1>2 DEF FieldsInv, TypeInv

\* After the translation.
LEMMA Validated ==
    ASSUME FieldsInv, NEW c \in Callers, NEW name \in EnableNames,
           args'[c] \in Calls, Validate(c, Params(args'[c], name)),
           UNCHANGED appliance, Translates # "device" => name = "enabled",
           Translates = "device" /\ name = "enabled" => firmware = "26.7"
    PROVE  CallInv(c)'
<1>1. sent'[c] = Params(args'[c], name)
  BY DEF Validate, FieldsInv, TypeInv, TypeOK
<1>2. at'[c] \in {"list", "raised"} /\ (at'[c] = "list" => Valid(sent'[c]))
  BY <1>1 DEF Validate, MoveTo, End, FieldsInv, TypeInv, TypeOK
<1>3. Translates = "device" /\ "enabled" \in DOMAIN sent'[c] => firmware' = "26.7"
  BY <1>1, NameSent DEF appliance
<1> QED
  BY <1>1, <1>2, <1>3 DEF CallInv, Sending

LEMMA StartKeeps ==
    ASSUME FieldsInv, TypeInv', NEW c \in Callers, Start(c)
    PROVE  FieldsInv'
<1>1. PICK p \in Calls :
         /\ args' = [args EXCEPT ![c] = p]
         /\ \/ End(c, "raised", "ValueError") /\ UNCHANGED sent
            \/ MoveTo(c, "schema") /\ UNCHANGED <<sent, outcome>>
            \/ /\ Renamed(p) /\ Translates = "device" => cached # "unknown"
               /\ Validate(c, Params(p, Name))
  BY DEF Start
<1>2. UNCHANGED <<appliance, cached, standing>> /\ args'[c] = p
  BY <1>1 DEF Start, FieldsInv, TypeInv, TypeOK
<1>3. \A d \in Callers : d # c =>
         at'[d] = at[d] /\ args'[d] = args[d] /\ sent'[d] = sent[d]
  BY <1>1 DEF FieldsInv, TypeInv, TypeOK, Validate, End, MoveTo
<1>4. CASE \/ End(c, "raised", "ValueError") /\ UNCHANGED sent
           \/ MoveTo(c, "schema") /\ UNCHANGED <<sent, outcome>>
  <2>1. at'[c] \in {"raised", "schema"} /\ sent'[c] = sent[c]
    BY <1>4 DEF End, MoveTo, FieldsInv, TypeInv, TypeOK
  <2>2. CallInv(c)'
    BY <1>2, <2>1 DEF FieldsInv, TypeInv, CallInv, appliance
  <2> QED
    BY <1>2, <1>3, <2>2, OwnStep
<1>5. CASE /\ Renamed(p) /\ Translates = "device" => cached # "unknown"
           /\ Validate(c, Params(p, Name))
  <2>1. PICK name \in EnableNames :
           /\ Params(p, Name) = Params(p, name)
           /\ Translates # "device" => name = "enabled"
           /\ Translates = "device" /\ name = "enabled" => firmware = "26.7"
    <3>1. CASE Translates = "device" /\ cached = "unknown"
      <4>1. ~Renamed(p)
        BY <1>5, <3>1
      <4>2. Params(p, cached) = Params(p, "disabled")
        BY <4>1 DEF Params
      <4> QED
        BY <3>1, <4>2 DEF EnableNames, Name
    <3>2. CASE Translates = "device" /\ cached # "unknown"
      BY <3>2 DEF FieldsInv, TypeInv, TypeOK, RecordInv, Name
    <3>3. CASE Translates # "device"
      BY <3>3 DEF EnableNames, Name
    <3> QED
      BY <3>1, <3>2, <3>3
  <2>2. CallInv(c)'
    BY <1>2, <1>5, <2>1, Validated
  <2> QED
    BY <1>2, <1>3, <2>2, OwnStep
<1> QED
  BY <1>1, <1>4, <1>5

LEMMA ReadSchemaKeeps ==
    ASSUME FieldsInv, TypeInv', NEW c \in Callers, ReadSchema(c)
    PROVE  FieldsInv'
<1>1. /\ UNCHANGED <<appliance, args, standing>>
      /\ cached' = EnableName(firmware)
      /\ Validate(c, Params(args[c], EnableName(firmware)))
  BY DEF ReadSchema
<1>2. /\ EnableName(firmware) \in EnableNames
      /\ Translates # "device" => EnableName(firmware) = "enabled"
      /\ Translates = "device" /\ EnableName(firmware) = "enabled" => firmware = "26.7"
  BY DEF EnableName, EnableNames, FieldsInv, TypeInv, TypeOK
<1>3. CallInv(c)'
  BY <1>1, <1>2, Validated DEF FieldsInv, TypeInv, TypeOK
<1>4. \A d \in Callers : d # c => at'[d] = at[d] /\ sent'[d] = sent[d]
  BY <1>1 DEF FieldsInv, TypeInv, TypeOK, Validate, End, MoveTo
<1> QED
  BY <1>1, <1>3, <1>4, OwnStep

\* What create() and update() are given they send: the same under a name the
\* firmware had.
LEMMA DecideKeeps ==
    ASSUME FieldsInv, NEW c \in Callers, at[c] \in {"list", "get"},
           NEW write \in {"add", "set"}, Decide(c, write),
           UNCHANGED <<appliance, cached, args>>
    PROVE  CallInv(c)'
<1>1. PICK name \in EnableNames :
         sent[c] = Params(args[c], name) /\ (Translates # "device" => name = "enabled")
  BY DEF FieldsInv, CallInv, Sending
<1>2. args[c] \in Calls /\ Valid(sent[c]) /\ NameKnown(c)
      /\ sent'[c] = Twice(sent[c]) /\ at'[c] = write /\ firmware' = firmware
  BY DEF FieldsInv, TypeInv, TypeOK, CallInv, Decide, MoveTo, appliance
<1>3. CASE Renamed(args[c])
  <2>1. Name \in EnableNames
    <3>1. Translates = "device" => Renamed(Given(sent[c]))
      BY <1>1, <1>3 DEF Given, Params, Rename, Renamed
    <3> QED
      BY <1>2, <3>1 DEF NameKnown, FieldsInv, TypeInv, TypeOK, Name, EnableNames
  <2>2. Translates # "device" => Name = "enabled"
    BY DEF Name
  <2>3. sent'[c] = Params(args[c], Name)
    BY <1>1, <1>2, <1>3, <2>1, <2>2, TwiceRenamed DEF Twice
  <2>4. Valid(sent'[c])
    BY <1>1, <1>2, <2>1, <2>3, ValidByAnyName
  <2>5. Translates = "device" /\ "enabled" \in DOMAIN sent'[c] => firmware = "26.7"
    BY <1>2, <2>1, <2>3, NameSent DEF FieldsInv, RecordInv, Name
  <2> QED
    BY <1>2, <2>1, <2>2, <2>3, <2>4, <2>5 DEF CallInv, Sending
<1>4. CASE ~Renamed(args[c])
  <2>1. sent'[c] = sent[c]
    BY <1>1, <1>2, <1>4, TwicePlain DEF Twice
  <2> QED
    BY <1>2, <2>1 DEF FieldsInv, CallInv, Sending
<1> QED
  BY <1>3, <1>4

\* A noop adds to what stands what agrees with both answers.
LEMMA CompareKeeps ==
    ASSUME FieldsInv, TypeInv', NEW c \in Callers, at[c] \in {"list", "get"},
           NEW current, Compare(c, current), UNCHANGED <<appliance, cached, args>>,
           record # NoRecord,
           ~Differs(current, sent[c]) =>
               /\ ~Differs(Item(record, firmware), sent[c])
               /\ ~Hydrates(sent[c], Row(record, firmware)) =>
                      ~Differs(Row(record, firmware), sent[c])
    PROVE  FieldsInv'
<1>1. CASE Differs(current, sent[c])
  <2>1. Decide(c, "set")
    BY <1>1 DEF Compare
  <2>2. CallInv(c)'
    BY <2>1, DecideKeeps
  <2>3. \A d \in Callers : d # c => at'[d] = at[d] /\ sent'[d] = sent[d]
    BY <2>1 DEF Decide, MoveTo, FieldsInv, TypeInv, TypeOK
  <2> QED
    BY <2>1, <2>2, <2>3, OwnStep DEF Decide
<1>2. CASE ~Differs(current, sent[c])
  <2>1. /\ at'[c] = "returned" /\ UNCHANGED sent
        /\ \A d \in Callers : d # c => at'[d] = at[d]
        /\ standing' = standing \cup {sent[c]}
    BY <1>2 DEF Compare, End, MoveTo, FieldsInv, TypeInv, TypeOK
  <2>2. \A d \in Callers : CallInv(d)'
    BY <2>1 DEF FieldsInv, CallInv, Sending, appliance
  <2>3. RecordInv'
    BY <1>2, <2>1 DEF FieldsInv, RecordInv, appliance
  <2> QED
    BY <2>2, <2>3 DEF FieldsInv
<1> QED
  BY <1>1, <1>2

LEMMA LookupKeeps ==
    ASSUME FieldsInv, TypeInv', NEW c \in Callers, Lookup(c)
    PROVE  FieldsInv'
<1>1. CASE /\ record # NoRecord /\ ~Hydrates(sent[c], Row(record, firmware))
           /\ Compare(c, Row(record, firmware))
  <2>1. ~Differs(Row(record, firmware), sent[c]) =>
            ~Differs(Item(record, firmware), sent[c])
    BY <1>1, RowDifference, ItemDifference, RowSpeaks
  <2> QED
    BY <1>1, <2>1, CompareKeeps DEF Lookup
<1>2. CASE Decide(c, "add")
  <2>1. CallInv(c)'
    BY <1>2, DecideKeeps DEF Lookup
  <2>2. \A d \in Callers : d # c => at'[d] = at[d] /\ sent'[d] = sent[d]
    BY <1>2 DEF Decide, MoveTo, FieldsInv, TypeInv, TypeOK
  <2> QED
    BY <1>2, <2>1, <2>2, OwnStep DEF Decide, Lookup
<1>3. CASE /\ MoveTo(c, "get") /\ Hydrates(sent[c], Row(record, firmware))
           /\ UNCHANGED <<sent, outcome, standing>>
  <2>1. /\ at'[c] = "get" /\ at[c] = "list" /\ UNCHANGED <<appliance, cached, args, sent>>
        /\ \A d \in Callers : d # c => at'[d] = at[d]
    BY <1>3 DEF MoveTo, FieldsInv, TypeInv, TypeOK, Lookup
  <2>2. CallInv(c)'
    BY <1>3, <2>1 DEF FieldsInv, CallInv, Sending, appliance
  <2> QED
    BY <1>3, <2>1, <2>2, OwnStep
<1> QED
  BY <1>1, <1>2, <1>3 DEF Lookup

LEMMA HydrateKeeps ==
    ASSUME FieldsInv, TypeInv', NEW c \in Callers, Hydrate(c)
    PROVE  FieldsInv'
<1>1. Hydrates(sent[c], Row(record, firmware)) /\ record # NoRecord
  BY DEF Hydrate, FieldsInv, TypeInv, CallInv, TypeOK
<1> QED
  BY <1>1, CompareKeeps DEF Hydrate

LEMMA WriteKeeps ==
    ASSUME FieldsInv, TypeInv', NEW c \in Callers, Write(c)
    PROVE  FieldsInv'
<1>1. Valid(sent[c])
  BY DEF Write, FieldsInv, TypeInv, CallInv
<1>2. PICK r \in RecordType :
         record' = Assign(r, sent[c], firmware) /\ r["enabled"] \in {On, Off}
  BY RecordAssumption DEF Write, FieldsInv, TypeInv, RecordInv, TypeOK
<1>3. /\ UNCHANGED <<firmware, cached, args, sent>> /\ standing' = {sent[c]}
      /\ at'[c] = "returned" /\ \A d \in Callers : d # c => at'[d] = at[d]
  BY DEF Write, End, MoveTo, FieldsInv, TypeInv, TypeOK
<1>4. record' # NoRecord
  BY <1>2, AssignType, FieldAssumption DEF FieldsInv, TypeInv, TypeOK
<1>5. RecordInv'
  <2>1. record'["enabled"] \in {On, Off}
    BY <1>1, <1>2, WrittenFlag
  <2>2. /\ ~Differs(Item(record', firmware), sent[c])
        /\ ~Differs(Row(record', firmware), sent[c])
    BY <1>1, <1>2, WrittenStands
  <2> QED
    BY <1>3, <1>4, <2>1, <2>2 DEF FieldsInv, TypeInv, RecordInv
<1>6. ASSUME NEW d \in Callers PROVE CallInv(d)'
  <2>1. Hydrates(sent[d], Row(record, firmware)) =>
            Hydrates(sent[d], Row(record', firmware))
    BY HydratesByFirmware
  <2> QED
    BY <1>3, <2>1 DEF FieldsInv, TypeInv, CallInv, Sending
<1> QED
  BY <1>5, <1>6 DEF FieldsInv, TypeInv

LEMMA FailsKeep ==
    ASSUME FieldsInv, TypeInv', NEW c \in Callers, RequestFails(c)
    PROVE  FieldsInv'
<1>1. /\ at'[c] = "raised" /\ \A d \in Callers : d # c => at'[d] = at[d]
      /\ UNCHANGED <<appliance, cached, args, sent, standing>>
  BY DEF RequestFails, End, MoveTo, FieldsInv, TypeInv, TypeOK
<1>2. CallInv(c)'
  BY <1>1 DEF FieldsInv, TypeInv, CallInv, appliance
<1> QED
  BY <1>1, <1>2, OwnStep

LEMMA OutsideKeeps ==
    ASSUME FieldsInv, TypeInv', Upgrade \/ Edit
    PROVE  FieldsInv'
<1>1. CASE Upgrade
  <2>1. ASSUME NEW c \in Callers, at[c] = "get"
        PROVE  Hydrates(sent[c], Row(record, "26.7"))
    BY <1>1, <2>1, HydratesAfterUpgrade DEF Upgrade, FieldsInv, TypeInv, CallInv
  <2>2. \A c \in Callers : CallInv(c)'
    BY <1>1, <2>1 DEF Upgrade, FieldsInv, TypeInv, CallInv, Sending
  <2>3. RecordInv'
    BY <1>1 DEF Upgrade, FieldsInv, TypeInv, RecordInv
  <2> QED
    BY <2>2, <2>3 DEF FieldsInv, TypeInv
<1>2. CASE Edit
  <2>1. RecordInv'
    BY <1>2, RecordAssumption DEF Edit, FieldsInv, TypeInv, RecordInv
  <2>2. ASSUME NEW c \in Callers PROVE CallInv(c)'
    <3>1. Hydrates(sent[c], Row(record, firmware)) =>
              Hydrates(sent[c], Row(record', firmware))
      BY HydratesByFirmware
    <3> QED
      BY <1>2, <3>1 DEF Edit, FieldsInv, TypeInv, CallInv, Sending
  <2> QED
    BY <2>1, <2>2 DEF FieldsInv, TypeInv
<1> QED
  BY <1>1, <1>2

LEMMA InitFields == Init /\ TypeInv => FieldsInv
<1> SUFFICES ASSUME Init, TypeInv PROVE FieldsInv
  OBVIOUS
<1>1. RecordInv
  BY RecordAssumption DEF Init, RecordInv
<1>2. \A c \in Callers : CallInv(c)
  BY DEF Init, CallInv
<1> QED
  BY <1>1, <1>2 DEF FieldsInv, TypeInv

LEMMA StepKeeps == FieldsInv /\ TypeInv' /\ [Next]_vars => FieldsInv'
<1> SUFFICES ASSUME FieldsInv, TypeInv', [Next]_vars PROVE FieldsInv'
  OBVIOUS
<1>1. CASE UNCHANGED vars
  BY <1>1 DEF vars, appliance, FieldsInv, TypeInv, RecordInv, CallInv, Sending
<1> QED
  BY <1>1, StartKeeps, ReadSchemaKeeps, LookupKeeps, HydrateKeeps, WriteKeeps, FailsKeep,
     OutsideKeeps DEF Next

LEMMA InvHolds == Spec => [](TypeInv /\ FieldsInv)
  BY InitFields, StepKeeps, TypeInvHolds, PTL DEF Spec
-----------------------------------------------------------------------------
(* What a call returns from *)

\* A record that agrees with what was sent has what was given.
LEMMA MeansGiven ==
    ASSUME NEW p \in Calls, NEW name \in EnableNames, NEW s, s = Params(p, name),
           Translates # "device" => name = "enabled", Valid(s),
           NEW r, r["enabled"] \in {On, Off}, NEW fw,
           Translates = "device" => DOMAIN s \cap EnableNames \subseteq {EnableName(fw)},
           ItemAgrees(r, s, fw), NEW f \in DOMAIN p, f \in Secrets => r[f] = s[f]
    PROVE  Holds(r, p, f)
<1>1. f \in Fields \cup EnableNames
  BY CallAssumption DEF IsParams
<1>2. CASE f \in Fields
  <2>1. f \notin EnableNames /\ f # "disabled" /\ f # name
    BY <1>2, Distinct DEF EnableNames
  <2>2. f \in DOMAIN s /\ s[f] = p[f].text
    <3>1. Normal(f, p[f]) = p[f].text
      BY NormalIsText
    <3> QED
      BY <2>1, <3>1 DEF Params, Rename, AsGiven
  <2>3. f \in DOMAIN s \cap Carried(fw) /\ Value(r, f) = r[f]
    BY <1>2, <2>1, <2>2 DEF Carried, Value
  <2>4. CASE f \in Secrets
    BY <2>1, <2>2, <2>4, Distinct DEF Holds
  <2>5. CASE f \notin Secrets
    BY <2>1, <2>2, <2>3, <2>5 DEF Holds, ItemAgrees
  <2> QED
    BY <2>4, <2>5
<1>3. CASE f \in EnableNames
  <2> SUFFICES r["enabled"] = On <=> IsEnabled(p)
    BY <1>3 DEF Holds
  <2>1. ASSUME NEW g \in EnableNames, g \in DOMAIN s \cap Carried(fw)
        PROVE  Value(r, g) = s[g]
    <3>1. g \notin Secrets /\ g \notin Multis
      BY <2>1, Distinct DEF Fields
    <3> QED
      BY <2>1, <3>1 DEF ItemAgrees
  <2>2. CASE Renamed(p)
    <3>1. name \in DOMAIN s /\ s[name] = AsFlag(IsEnabled(p) <=> name = "enabled")
      BY <2>2 DEF Params, Rename
    <3>2. name = EnableName(fw)
      BY <3>1 DEF EnableName
    <3>3. Value(r, name) = s[name]
      BY <2>1, <3>1, <3>2 DEF Carried
    <3>4. CASE name = "enabled"
      <4>1. r["enabled"] = IF IsEnabled(p) THEN On ELSE Off
        BY <3>1, <3>3, <3>4, SMT DEF Value, AsFlag
      <4> QED
        BY <4>1, FlagTexts
    <3>5. CASE name = "disabled"
      <4>1. AsFlag(r["enabled"] = Off) = AsFlag(~IsEnabled(p))
        BY <3>1, <3>3, <3>5 DEF Value
      <4>2. r["enabled"] = Off <=> ~IsEnabled(p)
        BY <4>1, FlagTexts DEF AsFlag
      <4> QED
        BY <4>2, FlagTexts
    <3> QED
      BY <3>4, <3>5 DEF EnableNames
  <2>3. CASE ~Renamed(p)
    <3>1. f = "enabled" /\ Translates # "device"
      BY <1>3, <2>3, CallAssumption, FieldAssumption DEF Renamed, EnableNames
    <3>2. Normal(f, p[f]) = p[f].text
      BY NormalIsText
    <3>3. f \in DOMAIN s /\ s[f] = p[f].text
      BY <2>3, <3>2 DEF Params, AsGiven
    <3>4. s[f] \in {On, Off}
      BY <3>1, <3>3 DEF Valid, EnableNames
    <3>5. r["enabled"] = s["enabled"]
      BY <2>1, <3>1, <3>3 DEF Carried, EnableName, EnableNames, Value
    <3>6. Truthy(On) /\ ~Truthy(Off)
      BY DEF Truthy, On, Off
    <3>7. IsEnabled(p) <=> Truthy(s["enabled"])
      BY <3>1, <3>3 DEF IsEnabled
    <3> QED
      BY <3>1, <3>4, <3>5, <3>6, <3>7, FlagTexts
  <2> QED
    BY <2>2, <2>3
<1> QED
  BY <1>1, <1>2, <1>3

\* When a call returns its params agree with the record, secrets too if it wrote.
LEMMA ReturnAgrees ==
    ASSUME FieldsInv, [Next]_vars, NEW c \in Callers,
           at[c] # "returned", at'[c] = "returned"
    PROVE  /\ at[c] \in {"list", "get", "add", "set"}
           /\ args'[c] = args[c] /\ sent'[c] = sent[c] /\ firmware' = firmware
           /\ ItemAgrees(record', sent[c], firmware)
           /\ record'["enabled"] \in {On, Off}
           /\ outcome'[c] = "noop" \/
                 \A f \in Secrets \cap DOMAIN sent[c] : record'[f] = sent[c][f]
<1>1. \/ Lookup(c) \/ Hydrate(c) \/ Write(c)
  <2>1. ASSUME NEW d \in Callers, Start(d) \/ ReadSchema(d) \/ RequestFails(d) PROVE FALSE
    BY <2>1 DEF Start, ReadSchema, RequestFails, Validate, MoveTo, End, FieldsInv, TypeInv, TypeOK
  <2>2. ASSUME NEW d \in Callers, Lookup(d) \/ Hydrate(d) \/ Write(d) PROVE d = c
    BY <2>2 DEF Lookup, Hydrate, Write, Compare, Decide, MoveTo, End, FieldsInv, TypeInv,
       TypeOK
  <2> QED
    BY <2>1, <2>2 DEF Next, vars, Upgrade, Edit
<1>2. CASE Lookup(c)
  <2>1. /\ record # NoRecord /\ ~Hydrates(sent[c], Row(record, firmware))
        /\ ~Differs(Row(record, firmware), sent[c]) /\ outcome'[c] = "noop"
        /\ at[c] = "list" /\ UNCHANGED <<appliance, args, sent>>
    BY <1>2 DEF Lookup, Compare, Decide, MoveTo, End, FieldsInv, TypeInv,
       TypeOK
  <2>2. ItemAgrees(record, sent[c], firmware)
    BY <2>1, RowDifference, RowSpeaks
  <2> QED
    BY <2>1, <2>2 DEF appliance, FieldsInv, TypeInv, RecordInv
<1>3. CASE Hydrate(c)
  <2>1. /\ ~Differs(Item(record, firmware), sent[c]) /\ outcome'[c] = "noop"
        /\ at[c] = "get" /\ UNCHANGED <<appliance, args, sent>>
    BY <1>3 DEF Hydrate, Compare, Decide, MoveTo, End, FieldsInv, TypeInv,
       TypeOK
  <2>2. record # NoRecord
    BY <2>1 DEF FieldsInv, TypeInv, TypeOK
  <2>3. ItemAgrees(record, sent[c], firmware)
    BY <2>1, ItemDifference
  <2> QED
    BY <2>1, <2>2, <2>3 DEF appliance, FieldsInv, TypeInv, RecordInv
<1>4. CASE Write(c)
  <2>1. at[c] \in {"add", "set"} /\ UNCHANGED <<firmware, args, sent>>
    BY <1>4 DEF Write
  <2>2. Valid(sent[c])
    BY <2>1 DEF FieldsInv, TypeInv, CallInv
  <2>3. PICK r \in RecordType :
           record' = Assign(r, sent[c], firmware) /\ r["enabled"] \in {On, Off}
    BY <1>4, RecordAssumption DEF Write, FieldsInv, TypeInv, RecordInv, TypeOK
  <2>4. ItemAgrees(record', sent[c], firmware) /\ record'["enabled"] \in {On, Off}
    BY <2>2, <2>3, WrittenAgrees, WrittenFlag
  <2>5. ASSUME NEW f \in Secrets \cap DOMAIN sent[c] PROVE record'[f] = sent[c][f]
    <3>1. f # "disabled" /\ f \in DOMAIN sent[c] \cap Carried(firmware)
      BY Distinct DEF Fields, Carried, EnableNames
    <3>2. Value(record', f) = sent[c][f]
      BY <2>2, <2>3, <3>1, WrittenValue
    <3> QED
      BY <3>1, <3>2 DEF Value
  <2> QED
    BY <2>1, <2>4, <2>5
<1> QED
  BY <1>1, <1>2, <1>3, <1>4

\* A secret that was given was sent.
LEMMA SecretSent ==
    ASSUME NEW p, NEW name, NEW f \in Secrets \cap DOMAIN p
    PROVE  f \in DOMAIN Params(p, name)
  BY Distinct DEF Fields, Params, Rename, AsGiven

\* ensure() never returns with a field that is not as the caller gave it, whichever
\* answer it compared, for a manager that translates the flag by the device
\* (RtRouteManager), by the API (FwOneToOneManager), or not at all.
THEOREM AsGivenHolds == Spec => ReturnsAsGiven
<1>1. ASSUME FieldsInv, [Next]_vars, NEW c \in Callers,
             at[c] # "returned", at'[c] = "returned", NameIsCurrent(c)',
             NEW f \in DOMAIN args[c]
      PROVE  Unseen(c, f)' \/ Holds(record', args[c], f)
  <2>1. /\ at[c] \in {"list", "get", "add", "set"}
        /\ args'[c] = args[c] /\ sent'[c] = sent[c] /\ firmware' = firmware
        /\ ItemAgrees(record', sent[c], firmware)
        /\ record'["enabled"] \in {On, Off}
        /\ outcome'[c] = "noop" \/
              \A g \in Secrets \cap DOMAIN sent[c] : record'[g] = sent[c][g]
    BY <1>1, ReturnAgrees
  <2>2. Valid(sent[c]) /\ args[c] \in Calls
    BY <1>1, <2>1 DEF FieldsInv, TypeInv, CallInv, TypeOK
  <2>3. PICK name \in EnableNames :
           /\ sent[c] = Params(args[c], name)
           /\ Translates # "device" => name = "enabled"
    BY <1>1, <2>1 DEF FieldsInv, TypeInv, CallInv, Sending
  <2>4. Translates = "device" =>
            DOMAIN sent[c] \cap EnableNames \subseteq {EnableName(firmware)}
    BY <1>1, <2>1 DEF NameIsCurrent
  <2>5. CASE Unseen(c, f)'
    BY <2>5
  <2>6. CASE ~Unseen(c, f)'
    <3>1. f \in Secrets => record'[f] = sent[c][f]
      BY <2>1, <2>3, <2>6, SecretSent DEF Unseen
    <3> QED
      BY <2>1, <2>2, <2>3, <2>4, <3>1, MeansGiven
  <2> QED
    BY <2>5, <2>6
<1>2. FieldsInv /\ [Next]_vars =>
         [\A c \in Callers :
             at[c] # "returned" /\ at'[c] = "returned" /\ NameIsCurrent(c)' =>
                \A f \in DOMAIN args[c] :
                   Unseen(c, f)' \/ Holds(record', args[c], f)]_vars
  BY <1>1
<1> QED
  BY <1>2, InvHolds, PTL DEF Spec, ReturnsAsGiven

\* A call whose params are those of a call that returned writes nothing while the
\* record is as that call left it (compute_diff, _hydrate_nested).
THEOREM SecondRunWritesNothing == Spec => SecondRunIsNoop
<1>1. ASSUME FieldsInv, [Next]_vars, NEW c \in Callers,
             at[c] # "set", at'[c] = "set"
      PROVE  sent[c] \notin standing
  <2>1. ASSUME NEW d \in Callers, Start(d) \/ ReadSchema(d) \/ Write(d) \/ RequestFails(d)
        PROVE  FALSE
    BY <1>1, <2>1 DEF Start, ReadSchema, Write, RequestFails, Validate, MoveTo, End,
       FieldsInv, TypeInv, TypeOK
  <2>2. ASSUME NEW d \in Callers, Lookup(d) \/ Hydrate(d) PROVE d = c
    BY <1>1, <2>2 DEF Lookup, Hydrate, Compare, Decide, MoveTo, End, FieldsInv, TypeInv,
       TypeOK
  <2>3. Lookup(c) \/ Hydrate(c)
    BY <1>1, <2>1, <2>2 DEF Next, vars, Upgrade, Edit
  <2>4. CASE Lookup(c)
    <3>1. /\ ~Hydrates(sent[c], Row(record, firmware))
          /\ Differs(Row(record, firmware), sent[c])
      BY <1>1, <2>4 DEF Lookup, Compare, Decide, MoveTo, End, FieldsInv, TypeInv,
       TypeOK
    <3> QED
      BY <1>1, <3>1 DEF FieldsInv, TypeInv, RecordInv
  <2>5. CASE Hydrate(c)
    <3>1. Differs(Item(record, firmware), sent[c])
      BY <1>1, <2>5 DEF Hydrate, Compare, Decide, MoveTo, End, FieldsInv, TypeInv,
       TypeOK
    <3> QED
      BY <1>1, <3>1 DEF FieldsInv, TypeInv, RecordInv
  <2> QED
    BY <2>3, <2>4, <2>5
<1>2. FieldsInv /\ [Next]_vars =>
         [\A c \in Callers :
             at[c] # "set" /\ at'[c] = "set" => sent[c] \notin standing]_vars
  BY <1>1
<1> QED
  BY <1>2, InvHolds, PTL DEF Spec, SecondRunIsNoop
=============================================================================
