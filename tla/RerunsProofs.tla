---------------------------- MODULE RerunsProofs ----------------------------
(***************************************************************************)
(* The properties of Reruns for every set of declarations.                 *)
(***************************************************************************)
EXTENDS Reruns, TLAPS

LEMMA CallTyped ==
    ASSUME NEW c \in Calls
    PROVE  /\ c.by \in Managers
           /\ c.state \in {"present", "absent"}
           /\ c.way \in [KeysOf(c.by) -> Ways]
BY DEF Calls

\* What a create stores, and what a neighbour's record carries, are rows.
LEMMA KeyTyped ==
    ASSUME NEW c \in Calls, NEW id \in Ids,
           NEW key \in [KeysOf(c.by) -> {"", "mine", "mine2", "default"}]
    PROVE  [id |-> id, of |-> Collection(c.by), key |-> key] \in Rows
<1>1. c.by \in Managers
  BY CallTyped
<1> QED
  BY <1>1 DEF Rows

LEMMA CreatedTyped ==
    ASSUME NEW c \in Calls
    PROVE  Created(c) \in [KeysOf(c.by) -> {"", "mine", "default"}]
BY DEF Created, Param

\* Every step keeps the types; an outcome is recorded only when a call ends.
THEOREM TypeCorrect == Spec => []TypeOK
<1> USE DEF TypeOK, appliance, caller
<1>1. Init => TypeOK
  BY BoundAssumption DEF Init
<1>2. TypeOK /\ [Next]_vars => TypeOK'
  <2> SUFFICES ASSUME TypeOK, [Next]_vars
               PROVE  TypeOK'
    OBVIOUS
  <2>1. ASSUME NEW c \in Calls, Start(c)
        PROVE  TypeOK'
    BY <2>1, BoundAssumption, NoneAssumption DEF Start, Goto, End
  <2>2. CASE Lookup
    <3>1. Matches(call) \subseteq Rows
      BY DEF Matches, Answered
    <3> QED
      BY <2>2, <3>1 DEF Lookup, Goto, End
  <2>3. CASE ReadDocument
    BY <2>3 DEF ReadDocument, Goto, End
  <2>4. ASSUME at = "write", Saved, UNCHANGED <<call, found, calls, others>>,
               rows' \subseteq Rows
        PROVE  TypeOK'
    <3>1. call.by \in Managers
      BY <2>4, CallTyped
    <3>2. stale' \subseteq {m.at : m \in Managers} \ Immediate
      BY <2>4, <3>1 DEF Saved
    <3> QED
      BY <2>4, <3>2 DEF Saved, Goto, End
  <2>5. CASE Create
    <3>1. PICK id \in Free : AddRow(id, call.by, Created(call))
      BY <2>5 DEF Create
    <3>2. call \in Calls /\ id \in Ids
      BY <2>5 DEF Create, Free
    <3>3. Created(call) \in [KeysOf(call.by) -> {"", "mine", "mine2", "default"}]
      BY <3>2, CreatedTyped
    <3>4. rows' \subseteq Rows
      BY <3>1, <3>2, <3>3, KeyTyped DEF AddRow
    <3> QED
      BY <2>4, <2>5, <3>4 DEF Create
  <2>6. CASE Update
    BY <2>4, <2>6 DEF Update
  <2>7. CASE Delete
    BY <2>4, <2>7 DEF Delete
  <2>8. CASE Apply
    BY <2>8 DEF Apply, End
  <2>9. CASE OtherAdds
    <3>1. PICK id \in Free, changed \in {{}} \cup {{k} : k \in KeysOf(call.by)} :
             /\ AddRow(id, call.by,
                       [k \in KeysOf(call.by) |->
                           IF k \in changed THEN "mine2" ELSE Created(call)[k]])
             /\ others' = {id}
      BY <2>9 DEF OtherAdds
    <3>2. call \in Calls /\ id \in Ids
      BY <2>9 DEF OtherAdds, Free
    <3>3. [k \in KeysOf(call.by) |->
              IF k \in changed THEN "mine2" ELSE Created(call)[k]]
          \in [KeysOf(call.by) -> {"", "mine", "mine2", "default"}]
      BY <3>2, CreatedTyped
    <3>4. rows' \subseteq Rows
      BY <3>1, <3>2, <3>3, KeyTyped DEF AddRow
    <3> QED
      BY <2>9, <3>1, <3>2, <3>4 DEF OtherAdds
  <2>10. CASE EndpointMissing
    BY <2>10 DEF EndpointMissing, End
  <2>11. CASE Reconfigure
    BY <2>11 DEF Reconfigure
  <2>12. CASE UNCHANGED vars
    BY <2>12 DEF vars
  <2> QED
    BY <2>1, <2>2, <2>3, <2>5, <2>6, <2>7, <2>8, <2>9, <2>10, <2>11, <2>12 DEF Next
<1> QED
  BY <1>1, <1>2, PTL DEF Spec

\* A search answers the record that a validated call's create leaves behind:
\* the phrase is no display text, and its keys are the ones the call looks for.
LEMMA CreatedIsAnswered ==
    ASSUME NEW c \in Calls, c.state = "present", Validated(c), WellDeclared,
           NEW r \in rows, r.of = Collection(c.by), r.key = Created(c)
    PROVE  r \in Matches(c)
<1> DEFINE m == c.by
<1>1. m \in Managers /\ c.way \in [KeysOf(m) -> Ways]
  BY CallTyped
<1>2. Sighted(m) /\ Determined(m)
  BY <1>1 DEF WellDeclared
<1>3. Created(c) = Identity(c)
  <2> SUFFICES ASSUME NEW k \in KeysOf(m), c.way[k] = "omitted"
               PROVE  k \notin DefaultedFields
    BY DEF Created, Identity
  <2>1. "omitted" \in Ways
    BY <1>1
  <2> QED
    BY <1>2, <2>1 DEF Determined, Validated
<1>4. ASSUME NEW k \in PhraseKeys(c), m.lists = "phrase"
      PROVE  k \notin DisplayFields /\ r.key[k] \in {"mine", "mine2"}
  <2>1. PICK i \in DOMAIN m.keys :
            /\ k = m.keys[i] /\ Param(c, k) # ""
            /\ \A n \in DOMAIN m.keys : Param(c, m.keys[n]) # "" => i <= n
    BY <1>4 DEF PhraseKeys
  <2>2. k \in KeysOf(m)
    BY <2>1 DEF KeysOf
  <2>3. r.key[k] = "mine"
    BY <1>3, <2>1, <2>2 DEF Identity, Param
  <2>4. k \notin DisplayFields
    <3> SUFFICES ASSUME k \in DisplayFields
                 PROVE  FALSE
      OBVIOUS
    <3>1. PICK j \in DOMAIN m.keys : j < i /\ m.keys[j] \in m.required
      BY <1>2, <1>4, <2>1 DEF Sighted
    <3>2. m.keys[j] \in KeysOf(m)
      BY DEF KeysOf
    <3>3. Param(c, m.keys[j]) # ""
      BY <3>1, <3>2 DEF Validated, Param
    <3>4. i \in Nat /\ j \in Nat /\ i <= j
      BY <1>1, <2>1, <3>3, ManagerAssumption
    <3> QED
      BY <3>1, <3>4
  <2> QED
    BY <2>3, <2>4
<1> QED
  BY <1>3, <1>4 DEF Matches, Answered

\* A present call that went past its checks was validated.
Checked == at \in {"read", "write"} /\ call.state = "present" => Validated(call)

\* NoSecondCopy for every set of declarations that is well declared, and any number
\* of calls: what the search phrase hides and what the appliance fills in are the
\* only two ways to a second copy.  TLC evaluates WellDeclared on the real catalogue.
THEOREM NoSecondCopyHolds == WellDeclared => (Spec => []NoSecondCopy)
<1> SUFFICES ASSUME WellDeclared
             PROVE  Spec => []NoSecondCopy
  OBVIOUS
<1>1. Init => Checked /\ CreatesFirst /\ NoSecondCopy
  BY DEF Init, Checked, CreatesFirst, NoSecondCopy
<1>2. TypeOK /\ TypeOK' /\ Checked /\ CreatesFirst /\ NoSecondCopy /\ [Next]_vars
      => (Checked /\ CreatesFirst /\ NoSecondCopy)'
  <2> SUFFICES ASSUME TypeOK, TypeOK', Checked, CreatesFirst, NoSecondCopy, [Next]_vars
               PROVE  (Checked /\ CreatesFirst /\ NoSecondCopy)'
    OBVIOUS
  <2> USE DEF Checked, CreatesFirst, NoSecondCopy, appliance, caller
  <2>1. ASSUME NEW c \in Calls, Start(c)
        PROVE  (Checked /\ CreatesFirst /\ NoSecondCopy)'
    BY <2>1 DEF Start, Goto, End, Accepted, Validated
  <2>2. CASE Lookup
    <3>1. call \in Calls
      BY <2>2 DEF Lookup, TypeOK
    <3>2. CreatesFirst'
      <4> SUFFICES ASSUME at' = "write", call.state = "present", found' = {},
                          NEW r \in rows, r.of = Collection(call.by),
                          r.key = Created(call)
                   PROVE  FALSE
        BY <2>2 DEF Lookup
      <4>1. r \in Matches(call)
        BY <2>2, <3>1, CreatedIsAnswered DEF Lookup
      <4> QED
        BY <2>2, <4>1 DEF Lookup, Goto, End
    <3>3. NoSecondCopy' /\ Checked'
      BY <2>2 DEF Lookup, Goto, End, Validated
    <3> QED
      BY <3>2, <3>3
  <2>3. CASE ReadDocument
    BY <2>3 DEF ReadDocument, Goto, End, Validated
  <2>4. CASE Create
    <3>1. PICK id \in Free : AddRow(id, call.by, Created(call))
      BY <2>4 DEF Create
    <3> DEFINE new == [id |-> id, of |-> Collection(call.by), key |-> Created(call)]
    <3>2. ASSUME NEW r \in rows, r.id \notin others, r.of = new.of
          PROVE  r.key # new.key
      BY <2>4, <3>2 DEF Create
    <3>3. NoSecondCopy'
      <4>1. rows' = rows \cup {new} /\ others' = others
        BY <2>4, <3>1 DEF Create, AddRow
      <4> HIDE DEF new
      <4> QED
        BY <3>2, <4>1
    <3>4. at' \in {"idle", "apply"}
      BY <2>4 DEF Create, Saved, Goto, End
    <3> QED
      BY <3>3, <3>4
  <2>5. CASE Update
    BY <2>5 DEF Update, Saved, Goto, End, Validated
  <2>6. CASE Delete
    BY <2>6 DEF Delete, Saved, Goto, End, Validated
  <2>7. CASE Apply
    BY <2>7 DEF Apply, End, Validated
  <2>8. CASE OtherAdds
    <3>1. PICK id \in Free, changed \in {{}} \cup {{k} : k \in KeysOf(call.by)} :
             /\ AddRow(id, call.by,
                       [k \in KeysOf(call.by) |->
                           IF k \in changed THEN "mine2" ELSE Created(call)[k]])
             /\ others' = {id}
      BY <2>8 DEF OtherAdds
    <3>2. \A r \in rows' : r.id \notin others' => r \in rows
      BY <3>1 DEF AddRow
    <3> QED
      BY <2>8, <3>1, <3>2 DEF OtherAdds, Validated
  <2>9. CASE EndpointMissing
    BY <2>9 DEF EndpointMissing, End, Validated
  <2>10. CASE Reconfigure
    BY <2>10 DEF Reconfigure, Validated
  <2>11. CASE UNCHANGED vars
    BY <2>11 DEF vars, Validated
  <2> QED
    BY <2>1, <2>2, <2>3, <2>4, <2>5, <2>6, <2>7, <2>8, <2>9, <2>10, <2>11 DEF Next
<1> QED
  BY <1>1, <1>2, TypeCorrect, PTL DEF Spec

\* What ensure() found carries the identity it looked for.
FoundMatches ==
    at \in {"read", "write"} => \A r \in found : r.key = Identity(call)

\* OthersStay for every set of declarations: all match keys are compared, so a record
\* that differs in one of them is in no answer the caller acts on.
THEOREM OthersStayHolds == Spec => OthersStay
<1>1. Init => FoundMatches
  BY DEF Init, FoundMatches
<1>2. FoundMatches /\ [Next]_vars => FoundMatches'
  <2> SUFFICES ASSUME FoundMatches, [Next]_vars
               PROVE  FoundMatches'
    OBVIOUS
  <2> USE DEF FoundMatches, Goto, End, caller, appliance
  <2>1. CASE \E c \in Calls : Start(c)
    BY <2>1 DEF Start
  <2>2. CASE Lookup
    <3>1. \A r \in Matches(call) : r.key = Identity(call)
      BY DEF Matches
    <3>2. found' = found \/ found' = Matches(call)
      BY <2>2 DEF Lookup
    <3> QED
      BY <2>2, <3>1, <3>2 DEF Lookup
  <2>3. CASE at' \notin {"read", "write"} \/ UNCHANGED <<at, call, found>>
    BY <2>3
  <2>4. CASE ReadDocument
    BY <2>4 DEF ReadDocument
  <2>5. CASE Create \/ Update \/ Delete
    BY <2>3, <2>5 DEF Create, Update, Delete, Saved
  <2>6. CASE Apply \/ EndpointMissing \/ Reconfigure
    BY <2>3, <2>6 DEF Apply, EndpointMissing, Reconfigure
  <2>7. CASE OtherAdds \/ UNCHANGED vars
    BY <2>3, <2>7 DEF OtherAdds, vars
  <2> QED
    BY <2>1, <2>2, <2>4, <2>5, <2>6, <2>7 DEF Next
<1>3. FoundMatches /\ [Next]_vars
      => [\A r \in rows : r.id \in others /\ r.key # Identity(call) => r \in rows']_vars
  <2> SUFFICES ASSUME FoundMatches, [Next]_vars,
                      NEW r \in rows, r.id \in others, r.key # Identity(call)
               PROVE  r \in rows'
    OBVIOUS
  <2>1. CASE Delete
    BY <2>1 DEF Delete, FoundMatches
  <2>2. CASE Create \/ OtherAdds
    BY <2>2 DEF Create, OtherAdds, AddRow
  <2>3. CASE UNCHANGED rows
    BY <2>3
  <2>4. CASE Lookup \/ ReadDocument \/ Update \/ EndpointMissing \/ Apply \/ Reconfigure
    BY <2>3, <2>4
       DEF Lookup, ReadDocument, Update, EndpointMissing, Apply, Reconfigure, appliance
  <2>5. CASE (\E c \in Calls : Start(c)) \/ UNCHANGED vars
    BY <2>3, <2>5 DEF Start, appliance, vars
  <2> QED
    BY <2>1, <2>2, <2>4, <2>5 DEF Next
<1> QED
  BY <1>1, <1>2, <1>3, PTL DEF Spec, OthersStay

\* ReportedChangeRuns for every set of declarations that is well applied: a saved change
\* is loaded by the apply its manager declares, or by the service it is handed to, or
\* needs none.
THEOREM ReportedChangeRunsHolds == WellApplied => (Spec => []ReportedChangeRuns)
<1> SUFFICES ASSUME WellApplied
             PROVE  Spec => []ReportedChangeRuns
  OBVIOUS
<1>1. Init => ReportedChangeRuns
  BY DEF Init, ReportedChangeRuns
<1>2. TypeOK /\ TypeOK' /\ ReportedChangeRuns /\ [Next]_vars => ReportedChangeRuns'
  <2> SUFFICES ASSUME TypeOK, TypeOK', ReportedChangeRuns, [Next]_vars
               PROVE  ReportedChangeRuns'
    OBVIOUS
  <2> USE DEF ReportedChangeRuns, Goto, End, caller, appliance
  <2>1. CASE \E c \in Calls : Start(c)
    BY <2>1 DEF Start
  <2>2. CASE Lookup
    BY <2>2 DEF Lookup
  <2>3. CASE ReadDocument
    BY <2>3 DEF ReadDocument
  <2>4. ASSUME at = "write", Saved, UNCHANGED call
        PROVE  ReportedChangeRuns'
    <3>1. call.by \in Managers
      BY <2>4, CallTyped DEF TypeOK
    <3>2. CASE call.by.apply = NoApply
      <4>1. call.by.at \in Immediate \/ call.by.at \in DOMAIN HandedTo
        BY <3>1, <3>2 DEF WellApplied
      <4>2. outcome' = "changed"
        BY <2>4, <3>2 DEF Saved
      <4> QED
        BY <2>4, <4>1, <4>2 DEF TypeOK
    <3>3. CASE call.by.apply # NoApply
      BY <2>4, <3>3 DEF Saved
    <3> QED
      BY <3>2, <3>3
  <2>5. CASE Create \/ Update \/ Delete
    BY <2>4, <2>5 DEF Create, Update, Delete
  <2>6. CASE Apply
    <3>1. call.by \in Managers
      BY <2>6, CallTyped DEF Apply, TypeOK
    <3>2. \/ call.by.at \in Immediate \/ call.by.at \in Loads(call.by.apply)
          \/ call.by.at \in DOMAIN HandedTo
      BY <3>1 DEF WellApplied
    <3>3. call.by.at \notin Immediate \/ call.by.at \notin stale'
      BY DEF TypeOK
    <3> QED
      BY <2>6, <3>2, <3>3 DEF Apply
  <2>7. CASE Reconfigure
    <3>1. call.by \in Managers
      BY <2>7, CallTyped, NoneAssumption DEF Reconfigure, TypeOK
    <3>2. stale' = stale \ Loads(HandedTo[call.by.at]) \/ outcome' = "raised"
      BY <2>7 DEF Reconfigure
    <3> QED
      BY <2>7, <3>1, <3>2 DEF Reconfigure, WellApplied, TypeOK
  <2>8. CASE EndpointMissing \/ OtherAdds
    BY <2>8 DEF EndpointMissing, OtherAdds
  <2>9. CASE UNCHANGED vars
    BY <2>9 DEF vars
  <2> QED
    BY <2>1, <2>2, <2>3, <2>5, <2>6, <2>7, <2>8, <2>9 DEF Next
<1> QED
  BY <1>1, <1>2, TypeCorrect, PTL DEF Spec
=============================================================================
