---------------------------- MODULE EnsureProofs ----------------------------
(***************************************************************************)
(* For every number of callers, records, retries and jobs: the types of    *)
(* Ensure, the silence of a call in check_mode, the truth of what ensure() *)
(* reports, and the survivor of concurrent deduplications; for callers of  *)
(* one call each, that every change is applied and every deletion was      *)
(* asked for; and for a caller on its own, that it leaves what it asked.   *)
(***************************************************************************)
EXTENDS Ensure, FiniteSetTheorems, TLAPS

-----------------------------------------------------------------------------
(* What the arguments and the helpers are *)

\* A call's arguments have the types ensure() declares.
LEMMA JobFields ==
    ASSUME NEW j \in Jobs
    PROVE  /\ j.state \in {"present", "absent", "other"}
           /\ j.key \in Keys
           /\ j.want \in Params
           /\ j.uuid \in Uuids \cup {NoUuid}
BY JobAssumption DEF JobType

\* No uuid is None.
LEMMA UuidsPositive == NoUuid \notin Uuids /\ Uuids \subseteq Nat
BY UuidAssumption

LEMMA SomeKeyType == SomeKey \in Keys
<1>1. Keys # {}
  BY JobAssumption, JobFields
<1> QED
  BY <1>1 DEF SomeKey

LEMMA NoRowType == NoRow \in RowType
BY SomeKeyType DEF NoRow, RowType, Params

LEMMA NoPostType == NoPost \in Requests
BY SomeKeyType DEF NoPost, Requests, NoRow, Params

\* The rows searches and gets answer are records of the store.
LEMMA RowTypes ==
    ASSUME saved \in Stores, NEW u \in Live
    PROVE  /\ SearchRow(u) \in RowType
           /\ FullItem(u) \in RowType
           /\ saved[u] \in Records
<1>1. saved[u] \in Records
  BY DEF Live, Stores
<1>2. saved[u].fld \in [Fields -> Values]
  BY <1>1 DEF Records
<1> QED
  BY <1>1, <1>2 DEF SearchRow, FullItem, RowType, Records, Params, Live

\* What a request writes is a record.
LEMMA WrittenType ==
    ASSUME NEW req \in Requests, NEW fld \in [Fields -> Values]
    PROVE  Written(req, fld) \in Records
BY DEF Written, Records, Requests, Params

-----------------------------------------------------------------------------
(* What a caller's step leaves behind *)

LEMMA GotoOK ==
    ASSUME CallOK, NEW c \in Callers, NEW p \in Places, Goto(c, p)
    PROVE  CallOK'
BY NoPostType, BoundAssumption DEF CallOK, Goto

LEMMA SendOK ==
    ASSUME CallOK, job \in [Callers -> Jobs], NEW c \in Callers,
           NEW p \in Places, NEW op \in {"add", "set", "del", "apply"},
           NEW u \in Uuids \cup {NoUuid}, SendTo(c, p, op, u)
    PROVE  CallOK'
<1>1. [op |-> op, uuid |-> u, key |-> job[c].key, want |-> job[c].want] \in Requests
  BY JobFields DEF Requests
<1> QED
  BY <1>1, BoundAssumption DEF CallOK, SendTo

LEMMA EndOK ==
    ASSUME CallOK, NEW c \in Callers, NEW p \in Places, NEW r \in ResultType,
           End(c, p, r)
    PROVE  CallOK'
BY NoPostType, BoundAssumption DEF CallOK, End

LEMMA RaiseOK ==
    ASSUME CallOK, NEW c \in Callers,
           NEW exc \in {"ValueError", "FieldValidationError",
                        "AmbiguousMatchError", "refused", "unavailable"},
           Raise(c, exc)
    PROVE  CallOK'
<1>1. [raised |-> exc] \in ResultType
  BY DEF ResultType
<1> QED
  BY <1>1, EndOK DEF Raise, Places, Settled

LEMMA FinishOK ==
    ASSUME CallOK, NEW c \in Callers,
           NEW action \in {"created", "updated", "deleted", "noop"},
           NEW changed \in BOOLEAN, NEW u \in Uuids \cup {NoUuid},
           NEW dups \in SUBSET Uuids, Finish(c, action, changed, u, dups)
    PROVE  CallOK'
<1>1. WithDedupe(action, changed, u, dups) \in ResultType
  BY DEF WithDedupe, ResultType
<1> QED
  BY <1>1, EndOK DEF Finish, Places, Settled

LEMMA ConvergeOK ==
    ASSUME CallOK, job \in [Callers -> Jobs], NEW c \in Callers,
           NEW ex \in RowType, NEW dups \in SUBSET Uuids, Converge(c, ex, dups)
    PROVE  CallOK'
<1>1. ex.uuid \in Uuids \cup {NoUuid}
  BY DEF RowType
<1>2. \/ \E action \in {"created", "updated", "deleted", "noop"},
            changed \in BOOLEAN, u \in Uuids \cup {NoUuid} :
            Finish(c, action, changed, u, dups)
      \/ SendTo(c, "add", "add", NoUuid)
      \/ \E p \in {"before_update", "before_delete"} : Goto(c, p)
  BY <1>1 DEF Converge
<1> QED
  BY <1>2, FinishOK, SendOK, GotoOK DEF Places, Reading, Writing

LEMMA ResolveOK ==
    ASSUME CallOK, job \in [Callers -> Jobs], NEW c \in Callers,
           NEW ex \in RowType, NEW dups \in SUBSET Uuids, Resolve(c, ex, dups)
    PROVE  CallOK'
BY ConvergeOK, GotoOK DEF Resolve, Places, Reading

\* An execution keeps the store well typed.
LEMMA PerformOK ==
    ASSUME StoreOK, NEW req \in Requests, NEW u \in Uuids \cup {NoUuid},
           Perform(req, u), late' \subseteq LateRequests
    PROVE  StoreOK'
<1>1. CASE req.op = "add"
  <2>1. [f \in Fields |-> DefaultValue] \in [Fields -> Values]
    BY ValueAssumption
  <2>2. Written(req, [f \in Fields |-> DefaultValue]) \in Records
    BY <2>1, WrittenType
  <2> QED
    BY <1>1, <2>2 DEF Perform, Mutate, CarriesKey, StoreOK, Stores, Requests
<1>2. CASE req.op = "set"
  <2>1. u \in Live
    BY <1>2 DEF Perform
  <2>2. saved[u].fld \in [Fields -> Values]
    BY <2>1, RowTypes DEF Records, StoreOK
  <2>3. Written(req, saved[u].fld) \in Records
    BY <2>2, WrittenType
  <2>4. /\ saved' = [saved EXCEPT ![u] = Written(req, saved[u].fld)]
        /\ running' = saved' \/ running' = running
        /\ ever' = [ever EXCEPT ![req.key] = @ \cup {u}]
    BY <1>2 DEF Perform, Mutate, CarriesKey
  <2> QED
    BY <2>1, <2>3, <2>4 DEF StoreOK, Stores, Requests, Live
<1>3. CASE req.op = "del"
  BY <1>3 DEF Perform, Mutate, StoreOK, Stores
<1>4. CASE req.op = "apply"
  BY <1>4 DEF Perform, StoreOK
<1> QED
  BY <1>1, <1>2, <1>3, <1>4 DEF Perform

-----------------------------------------------------------------------------
(* Type correctness *)

LEMMA InitTypeOK == Init => TypeOK
<1> SUFFICES ASSUME Init
             PROVE  TypeOK
  OBVIOUS
<1>1. StoreOK
  BY StoreAssumption DEF Init, StoreOK, Copies, Live
<1>2. CallOK
  BY NoPostType, BoundAssumption DEF Init, CallOK, Places, ResultType
<1>3. FoundOK
  BY NoRowType DEF Init, FoundOK
<1>4. job \in [Callers -> Jobs]
  BY JobAssumption DEF Init
<1> QED
  BY <1>1, <1>2, <1>3, <1>4, BoundAssumption DEF Init, TypeOK

LEMMA StartTypeOK ==
    ASSUME TypeOK, NEW c \in Callers, Start(c)
    PROVE  TypeOK'
<1> USE DEF TypeOK
<1>1. StoreOK'
  BY DEF Start, store, StoreOK
<1>2. FoundOK'
  BY NoRowType DEF Start, FoundOK
<1>3. runs' \in [Callers -> 0..MaxRuns] /\ touched' \in [Callers -> BOOLEAN]
  BY BoundAssumption DEF Start
<1>4. PICK j \in Jobs :
          /\ job' = [job EXCEPT ![c] = j]
          /\ \/ \E exc \in {"ValueError", "FieldValidationError"} : Raise(c, exc)
             \/ \E p \in {"fetch", "search"} : End(c, p, [pending |-> TRUE])
  BY DEF Start
<1>5. CallOK'
  <2>1. [pending |-> TRUE] \in ResultType
    BY DEF ResultType
  <2> QED
    BY <1>4, <2>1, RaiseOK, EndOK DEF Places, Reading
<1> QED
  BY <1>1, <1>2, <1>3, <1>4, <1>5 DEF Start

\* A step that only reads leaves the store and the counters alone.
LEMMA ReadOnlyTypeOK ==
    ASSUME TypeOK, UNCHANGED readOnly, CallOK', FoundOK'
    PROVE  TypeOK'
BY DEF TypeOK, StoreOK, readOnly, store

LEMMA LookupTypeOK ==
    ASSUME TypeOK, NEW c \in Callers, Fetch(c) \/ Search(c) \/ Hydrate(c)
    PROVE  TypeOK'
<1> USE DEF TypeOK
<1>1. CASE Fetch(c)
  <2>1. FullItem(job[c].uuid) \in RowType
    BY <1>1, RowTypes DEF Fetch, StoreOK
  <2>2. CallOK'
    BY <1>1, <2>1, ConvergeOK DEF Fetch
  <2>3. FoundOK'
    BY <1>1, <2>1 DEF Fetch, FoundOK
  <2> QED
    BY <1>1, <2>2, <2>3, ReadOnlyTypeOK DEF Fetch
<1>2. CASE Hydrate(c)
  <2>1. FullItem(row[c].uuid) \in RowType
    BY <1>2, RowTypes DEF Hydrate, StoreOK
  <2>2. CallOK'
    BY <1>2, <2>1, ConvergeOK DEF Hydrate, FoundOK
  <2>3. FoundOK'
    BY <1>2, <2>1 DEF Hydrate, FoundOK
  <2> QED
    BY <1>2, <2>2, <2>3, ReadOnlyTypeOK DEF Hydrate
<1>3. CASE Search(c)
  <2>1. PICK page \in Pages :
          \/ MatchNone(c, Matches(c, page))
          \/ MatchAmbiguous(c, Matches(c, page))
          \/ \E survivor \in Matches(c, page) :
                MatchSurvivor(c, Matches(c, page), survivor)
    BY <1>3 DEF Search
  <2>2. Matches(c, page) \subseteq Live /\ Live \subseteq Uuids
    BY DEF Matches, Pages, Live
  <2>3. UNCHANGED readOnly
    BY <1>3 DEF Search
  <2>4. CASE MatchNone(c, Matches(c, page))
    <3>1. CallOK'
      BY <2>4, NoRowType, ResolveOK DEF MatchNone
    <3> QED
      BY <2>3, <2>4, <3>1, ReadOnlyTypeOK DEF MatchNone, FoundOK, found
  <2>5. CASE MatchAmbiguous(c, Matches(c, page))
    <3>1. CallOK'
      BY <2>5, RaiseOK DEF MatchAmbiguous
    <3> QED
      BY <2>3, <2>5, <3>1, ReadOnlyTypeOK DEF MatchAmbiguous, FoundOK, found
  <2>6. ASSUME NEW survivor \in Matches(c, page),
               MatchSurvivor(c, Matches(c, page), survivor)
        PROVE  TypeOK'
    <3>1. SearchRow(survivor) \in RowType
      BY <2>2, RowTypes DEF StoreOK
    <3>2. Matches(c, page) \ {survivor} \in SUBSET Uuids
      BY <2>2
    <3>3. FoundOK'
      BY <2>6, <3>1, <3>2 DEF FoundOK, MatchSurvivor
    <3>4. CallOK'
      BY <2>6, <3>1, <3>2, ResolveOK, GotoOK DEF Places, Reading, MatchSurvivor
    <3> QED
      BY <2>3, <3>3, <3>4, ReadOnlyTypeOK
  <2> QED
    BY <2>1, <2>4, <2>5, <2>6
<1> QED
  BY <1>1, <1>2, <1>3

LEMMA CleanTypeOK ==
    ASSUME TypeOK, NEW c \in Callers,
           CleanGet(c) \/ CleanDeleted(c) \/ CleanApplied(c)
    PROVE  TypeOK'
<1> USE DEF TypeOK
<1>1. CASE CleanGet(c)
  <2>1. CallOK'
    BY <1>1, SendOK DEF CleanGet, FoundOK, Places, Writing
  <2> QED
    BY <1>1, <2>1, ReadOnlyTypeOK DEF CleanGet, FoundOK, found
<1>2. ASSUME NextDuplicate(c), UNCHANGED readOnly
      PROVE  TypeOK'
  <2>1. row[c] \in RowType /\ deduped[c] \in SUBSET Uuids
    BY DEF FoundOK
  <2>2. CallOK'
    BY <1>2, <2>1, ResolveOK, GotoOK DEF NextDuplicate, Places, Reading
  <2>3. FoundOK'
    BY <1>2 DEF NextDuplicate, FoundOK
  <2> QED
    BY <1>2, <2>2, <2>3, ReadOnlyTypeOK
<1>3. CASE CleanDeleted(c)
  <2>1. CASE SendTo(c, "clean_apply", "apply", NoUuid) /\ UNCHANGED found
    <3>1. CallOK'
      BY <2>1, SendOK DEF Places, Writing
    <3> QED
      BY <1>3, <2>1, <3>1, ReadOnlyTypeOK DEF CleanDeleted, FoundOK, found
  <2> QED
    BY <1>2, <1>3, <2>1 DEF CleanDeleted
<1>4. CASE CleanApplied(c)
  BY <1>2, <1>4 DEF CleanApplied
<1> QED
  BY <1>1, <1>3, <1>4

LEMMA WriteTypeOK ==
    ASSUME TypeOK, NEW c \in Callers,
           BeforeUpdate(c) \/ BeforeDelete(c) \/ WriteDone(c) \/ ApplyDone(c)
    PROVE  TypeOK'
<1> USE DEF TypeOK
<1>1. row[c].uuid \in Uuids \cup {NoUuid} /\ deduped[c] \in SUBSET Uuids
  BY DEF FoundOK, RowType
<1>2. CASE BeforeUpdate(c)
  <2>1. CallOK'
    BY <1>1, <1>2, FinishOK, SendOK DEF BeforeUpdate, Places, Writing
  <2> QED
    BY <1>2, <2>1, ReadOnlyTypeOK DEF BeforeUpdate, FoundOK, found
<1>3. CASE BeforeDelete(c)
  <2>1. CallOK'
    BY <1>1, <1>3, FinishOK, SendOK DEF BeforeDelete, Places, Writing
  <2> QED
    BY <1>3, <2>1, ReadOnlyTypeOK DEF BeforeDelete, FoundOK, found
<1>4. CASE WriteDone(c)
  <2> DEFINE uuid == IF pc[c] = "add" THEN reply[c] ELSE row[c].uuid
  <2>1. uuid \in Uuids \cup {NoUuid}
    BY <1>1
  <2>2. FoundOK'
    <3>1. [row[c] EXCEPT !.uuid = uuid] \in RowType
      BY <2>1 DEF FoundOK, RowType
    <3> QED
      BY <1>4, <3>1 DEF WriteDone, FoundOK
  <2>3. CallOK'
    <3>1. /\ ApplyOf(pc[c]) \in Places
          /\ Outcome(pc[c]) \in {"created", "updated", "deleted", "noop"}
      BY DEF ApplyOf, Outcome, Places, Writing
    <3>2. \/ SendTo(c, ApplyOf(pc[c]), "apply", NoUuid)
          \/ Finish(c, Outcome(pc[c]), TRUE, uuid, deduped[c])
      BY <1>4 DEF WriteDone
    <3> HIDE DEF uuid
    <3> QED
      BY <1>1, <2>1, <3>1, <3>2, FinishOK, SendOK
  <2> QED
    BY <1>4, <2>2, <2>3, ReadOnlyTypeOK DEF WriteDone
<1>5. CASE ApplyDone(c)
  <2>1. Outcome(pc[c]) \in {"created", "updated", "deleted", "noop"}
    BY DEF Outcome
  <2>2. CallOK'
    BY <1>1, <1>5, <2>1, FinishOK DEF ApplyDone
  <2> QED
    BY <1>5, <2>2, ReadOnlyTypeOK DEF ApplyDone, FoundOK, found
<1> QED
  BY <1>2, <1>3, <1>4, <1>5

LEMMA FailTypeOK ==
    ASSUME TypeOK, NEW c \in Callers, ReadFails(c) \/ Refused(c) \/ LoseAnswer(c)
    PROVE  TypeOK'
<1> USE DEF TypeOK
<1>1. CASE ReadFails(c) \/ Refused(c)
  <2>1. CallOK'
    BY <1>1, RaiseOK DEF ReadFails, Refused
  <2> QED
    BY <1>1, <2>1, ReadOnlyTypeOK DEF ReadFails, Refused, FoundOK, found
<1>2. CASE LoseAnswer(c)
  <2>1. [by |-> c, run |-> runs[c], nr |-> attempt[c], req |-> post[c]] \in LateRequests
    BY DEF LateRequests, CallOK
  <2>2. StoreOK'
    BY <1>2, <2>1 DEF LoseAnswer, StoreOK, store
  <2>3. CallOK'
    <3>1. CASE attempt[c] < MaxAttempts
      <4>1. /\ attempt' = [attempt EXCEPT ![c] = @ + 1]
            /\ wire' = [wire EXCEPT ![c] = "sent"]
            /\ UNCHANGED <<pc, post, result>>
        BY <1>2, <3>1 DEF LoseAnswer
      <4>2. attempt[c] + 1 \in 0..MaxAttempts
        BY <3>1, BoundAssumption DEF CallOK
      <4> QED
        BY <4>1, <4>2 DEF CallOK
    <3>2. CASE ~(attempt[c] < MaxAttempts)
      BY <1>2, <3>2, RaiseOK DEF LoseAnswer
    <3> QED
      BY <3>1, <3>2
  <2> QED
    BY <1>2, <2>2, <2>3 DEF LoseAnswer, FoundOK, found
<1> QED
  BY <1>1, <1>2

LEMMA ApplianceTypeOK ==
    ASSUME TypeOK,
           LateExecute \/ \E c \in Callers : Execute(c) \/ Refuse(c)
    PROVE  TypeOK'
<1> USE DEF TypeOK
<1>1. ASSUME NEW c \in Callers, Execute(c)
      PROVE  TypeOK'
  <2>1. post[c] \in Requests
    BY DEF CallOK
  <2>2. StoreOK'
    BY <1>1, <2>1, PerformOK DEF Execute, StoreOK
  <2>3. CallOK'
    BY <1>1 DEF Execute, CallOK
  <2> QED
    BY <1>1, <2>2, <2>3 DEF Execute, FoundOK, found
<1>2. ASSUME NEW c \in Callers, Refuse(c)
      PROVE  TypeOK'
  <2>1. CallOK'
    BY <1>2 DEF Refuse, CallOK
  <2> QED
    BY <1>2, <2>1 DEF Refuse, StoreOK, store, FoundOK, found
<1>3. CASE LateExecute
  <2>1. PICK m \in late :
          /\ late' = late \ {m}
          /\ \E u \in Uuids \cup {NoUuid} : Perform(m.req, u)
          /\ touched' = [touched EXCEPT ![m.by] = @ \/ m.run = runs[m.by]]
    BY <1>3 DEF LateExecute
  <2>2. m.req \in Requests /\ m.by \in Callers
    BY DEF StoreOK, LateRequests
  <2>3. late' \subseteq LateRequests
    BY <2>1 DEF StoreOK
  <2>4. StoreOK'
    BY <2>1, <2>2, <2>3, PerformOK
  <2>5. touched' \in [Callers -> BOOLEAN]
    <3>1. (touched[m.by] \/ m.run = runs[m.by]) \in BOOLEAN
      OBVIOUS
    <3> QED
      BY <2>1, <2>2, <3>1
  <2> QED
    BY <1>3, <2>4, <2>5 DEF LateExecute, call, CallOK, found, FoundOK
<1> QED
  BY <1>1, <1>2, <1>3

\* Every variable keeps the type its place in the code gives it, for every set
\* of callers, records and jobs.
THEOREM TypeCorrect == Spec => []TypeOK
<1>1. Init => TypeOK
  BY InitTypeOK
<1>2. TypeOK /\ [Next]_vars => TypeOK'
  <2> SUFFICES ASSUME TypeOK, [Next]_vars
               PROVE  TypeOK'
    OBVIOUS
  <2>1. CASE UNCHANGED vars
    BY <2>1 DEF vars, store, call, found, TypeOK, StoreOK, CallOK, FoundOK
  <2> QED
    BY <2>1, StartTypeOK, LookupTypeOK, CleanTypeOK, WriteTypeOK, FailTypeOK,
       ApplianceTypeOK DEF Next, Step
<1>3. QED
  BY <1>1, <1>2, PTL DEF Spec

-----------------------------------------------------------------------------
(* A call in check_mode *)

WriteAhead == Writing \cup {"clean_get"}

\* What makes CheckModeIsSilent inductive.  A call in check_mode stands at no
\* await a POST follows, and every request still kept by the appliance is of an
\* earlier call or of one without check_mode.
SilentInv ==
    /\ \A c \in Callers : job[c].check =>
          wire[c] = "none" /\ ~touched[c] /\ pc[c] \notin WriteAhead
    /\ \A m \in late : /\ m.run <= runs[m.by]
                       /\ m.run = runs[m.by] => ~job[m.by].check

\* What no step of a caller but Start and LoseAnswer changes.
kept == <<late, job, runs, touched>>

LEMMA MoveSilent ==
    ASSUME TypeOK, SilentInv, UNCHANGED kept, NEW c \in Callers, NEW p, NEW w,
           pc' = [pc EXCEPT ![c] = p], wire' = [wire EXCEPT ![c] = w],
           job[c].check => w = "none" /\ p \notin WriteAhead
    PROVE  SilentInv'
BY DEF TypeOK, CallOK, SilentInv, kept

LEMMA GotoSilent ==
    ASSUME TypeOK, SilentInv, UNCHANGED kept, NEW c \in Callers, NEW p, Goto(c, p),
           job[c].check => p \notin WriteAhead
    PROVE  SilentInv'
BY MoveSilent DEF Goto

LEMMA SendSilent ==
    ASSUME TypeOK, SilentInv, UNCHANGED kept, NEW c \in Callers, NEW p, NEW op,
           NEW u, SendTo(c, p, op, u), ~job[c].check
    PROVE  SilentInv'
BY MoveSilent DEF SendTo

LEMMA EndSilent ==
    ASSUME TypeOK, SilentInv, UNCHANGED kept, NEW c \in Callers,
           NEW p \in Settled, NEW r, End(c, p, r)
    PROVE  SilentInv'
BY MoveSilent DEF End, Settled, WriteAhead, Writing

LEMMA RaiseSilent ==
    ASSUME TypeOK, SilentInv, UNCHANGED kept, NEW c \in Callers, NEW exc,
           Raise(c, exc)
    PROVE  SilentInv'
BY EndSilent DEF Raise, Settled

LEMMA FinishSilent ==
    ASSUME TypeOK, SilentInv, UNCHANGED kept, NEW c \in Callers, NEW action,
           NEW changed, NEW u, NEW dups, Finish(c, action, changed, u, dups)
    PROVE  SilentInv'
BY EndSilent DEF Finish, Settled

\* Of the two decisions that write at once, each asks for check_mode first.
LEMMA ConvergeSilent ==
    ASSUME TypeOK, SilentInv, UNCHANGED kept, NEW c \in Callers, NEW ex, NEW dups,
           Converge(c, ex, dups)
    PROVE  SilentInv'
<1> USE DEF WriteAhead, Writing
<1>1. ASSUME NEW p \in {"before_update", "before_delete"}, Goto(c, p)
      PROVE  SilentInv'
  BY <1>1, GotoSilent
<1> QED
  BY <1>1, FinishSilent, SendSilent DEF Converge

LEMMA ResolveSilent ==
    ASSUME TypeOK, SilentInv, UNCHANGED kept, NEW c \in Callers, NEW ex, NEW dups,
           Resolve(c, ex, dups)
    PROVE  SilentInv'
<1>1. "hydrate" \notin WriteAhead
  BY DEF WriteAhead, Writing
<1> QED
  BY <1>1, GotoSilent, ConvergeSilent DEF Resolve

LEMMA StartSilent ==
    ASSUME TypeOK, SilentInv, NEW c \in Callers, Start(c)
    PROVE  SilentInv'
<1> USE DEF TypeOK, SilentInv
<1>1. PICK j \in Jobs :
        /\ job' = [job EXCEPT ![c] = j]
        /\ \E p \in Settled \cup {"search", "fetch"} : \E r : End(c, p, r)
  BY DEF Start, Raise, Settled
<1>2. wire'[c] = "none" /\ pc'[c] \notin WriteAhead
  BY <1>1 DEF End, CallOK, Settled, WriteAhead, Writing
<1>3. \A d \in Callers \ {c} : wire'[d] = wire[d] /\ pc'[d] = pc[d]
  BY <1>1 DEF End, CallOK
<1>4. \A m \in late : m.by \in Callers /\ m.run \in Nat
  BY BoundAssumption DEF StoreOK, LateRequests
<1>5. /\ late' = late /\ runs' = [runs EXCEPT ![c] = @ + 1]
      /\ touched' = [touched EXCEPT ![c] = FALSE]
      /\ \A d \in Callers : runs[d] \in Nat
  BY BoundAssumption DEF Start
<1>6. \A d \in Callers : job'[d].check =>
          wire'[d] = "none" /\ ~touched'[d] /\ pc'[d] \notin WriteAhead
  BY <1>1, <1>2, <1>3, <1>5
<1>7. ASSUME NEW m \in late'
      PROVE  m.run <= runs'[m.by] /\ (m.run = runs'[m.by] => ~job'[m.by].check)
  <2>1. CASE m.by = c
    BY <1>4, <1>5, <1>7, <2>1
  <2>2. CASE m.by # c
    BY <1>1, <1>4, <1>5, <1>7, <2>2
  <2> QED
    BY <2>1, <2>2
<1> QED
  BY <1>6, <1>7

\* A search sends nothing: with duplicates to delete and no check_mode the next
\* await is the read before the first deletion.
LEMMA SearchSilent ==
    ASSUME TypeOK, SilentInv, NEW c \in Callers, Search(c)
    PROVE  SilentInv'
<1>1. UNCHANGED kept
  BY DEF Search, readOnly, kept
<1>2. PICK page \in Pages :
        \/ MatchNone(c, Matches(c, page))
        \/ MatchAmbiguous(c, Matches(c, page))
        \/ \E survivor \in Matches(c, page) :
              MatchSurvivor(c, Matches(c, page), survivor)
  BY DEF Search
<1>3. CASE MatchNone(c, Matches(c, page))
  BY <1>1, <1>3, ResolveSilent DEF MatchNone
<1>4. CASE MatchAmbiguous(c, Matches(c, page))
  BY <1>1, <1>4, RaiseSilent DEF MatchAmbiguous
<1>5. ASSUME NEW survivor \in Matches(c, page),
             MatchSurvivor(c, Matches(c, page), survivor)
      PROVE  SilentInv'
  <2> DEFINE dups == Matches(c, page) \ {survivor}
  <2>1. CASE dups = {} \/ job[c].check
    BY <1>1, <1>5, <2>1, ResolveSilent DEF MatchSurvivor
  <2>2. CASE ~(dups = {} \/ job[c].check)
    BY <1>1, <1>5, <2>2, GotoSilent DEF MatchSurvivor
  <2> QED
    BY <2>1, <2>2
<1> QED
  BY <1>2, <1>3, <1>4, <1>5

\* The other reads, and what each leads to.
LEMMA ReadSilent ==
    ASSUME TypeOK, SilentInv, NEW c \in Callers,
           \/ Fetch(c) \/ Hydrate(c) \/ CleanGet(c)
           \/ BeforeUpdate(c) \/ BeforeDelete(c) \/ ReadFails(c)
    PROVE  SilentInv'
<1>1. UNCHANGED kept
  BY DEF Fetch, Hydrate, CleanGet, BeforeUpdate, BeforeDelete, ReadFails,
         readOnly, kept
<1>2. CASE Fetch(c)
  BY <1>1, <1>2, ConvergeSilent DEF Fetch
<1>3. CASE Hydrate(c)
  BY <1>1, <1>3, ConvergeSilent DEF Hydrate
<1>4. CASE CleanGet(c)
  <2>1. ~job[c].check
    BY <1>4 DEF CleanGet, SilentInv, WriteAhead
  <2> QED
    BY <1>1, <1>4, <2>1, SendSilent DEF CleanGet
<1>5. CASE BeforeUpdate(c)
  BY <1>1, <1>5, FinishSilent, SendSilent DEF BeforeUpdate
<1>6. CASE BeforeDelete(c)
  BY <1>1, <1>6, FinishSilent, SendSilent DEF BeforeDelete
<1>7. CASE ReadFails(c)
  BY <1>1, <1>7, RaiseSilent DEF ReadFails
<1> QED
  BY <1>2, <1>3, <1>4, <1>5, <1>6, <1>7

\* Whoever has an answer to a POST is not in check_mode.
LEMMA AnsweredSilent ==
    ASSUME TypeOK, SilentInv, NEW c \in Callers,
           \/ CleanDeleted(c) \/ CleanApplied(c) \/ WriteDone(c)
           \/ ApplyDone(c) \/ Refused(c)
    PROVE  SilentInv'
<1>1. UNCHANGED kept
  BY DEF CleanDeleted, CleanApplied, WriteDone, ApplyDone, Refused, readOnly, kept
<1>2. ~job[c].check
  BY DEF CleanDeleted, CleanApplied, WriteDone, ApplyDone, Refused, SilentInv
<1>3. ASSUME NextDuplicate(c)
      PROVE  SilentInv'
  BY <1>1, <1>2, <1>3, ResolveSilent, GotoSilent DEF NextDuplicate
<1>4. CASE CleanDeleted(c)
  BY <1>1, <1>2, <1>3, <1>4, SendSilent DEF CleanDeleted
<1>5. CASE CleanApplied(c)
  BY <1>3, <1>5 DEF CleanApplied
<1>6. CASE WriteDone(c)
  BY <1>1, <1>2, <1>6, SendSilent, FinishSilent DEF WriteDone
<1>7. CASE ApplyDone(c)
  BY <1>1, <1>7, FinishSilent DEF ApplyDone
<1>8. CASE Refused(c)
  BY <1>1, <1>8, RaiseSilent DEF Refused
<1> QED
  BY <1>4, <1>5, <1>6, <1>7, <1>8

\* An abandoned request is one of a call that writes.
LEMMA LoseAnswerSilent ==
    ASSUME TypeOK, SilentInv, NEW c \in Callers, LoseAnswer(c)
    PROVE  SilentInv'
<1> USE DEF SilentInv
<1>1. ~job[c].check
  BY DEF LoseAnswer
<1>2. UNCHANGED <<job, runs, touched>>
  BY DEF LoseAnswer
<1>3. \A d \in Callers \ {c} : wire'[d] = wire[d] /\ pc'[d] = pc[d]
  BY DEF LoseAnswer, Raise, End, TypeOK, CallOK
<1>4. \A m \in late' : m \in late \/ (m.by = c /\ m.run = runs[c])
  BY DEF LoseAnswer
<1>5. runs[c] <= runs[c]
  BY BoundAssumption DEF TypeOK
<1> QED
  BY <1>1, <1>2, <1>3, <1>4, <1>5

LEMMA ApplianceSilent ==
    ASSUME TypeOK, SilentInv,
           LateExecute \/ \E c \in Callers : Execute(c) \/ Refuse(c)
    PROVE  SilentInv'
<1> USE DEF TypeOK, CallOK, SilentInv
<1>1. ASSUME NEW c \in Callers, Execute(c) \/ Refuse(c)
      PROVE  SilentInv'
  <2>1. ~job[c].check
    BY <1>1 DEF Execute, Refuse
  <2>2. UNCHANGED <<late, job, runs, pc>>
    BY <1>1 DEF Execute, Refuse
  <2>3. \A d \in Callers \ {c} : wire'[d] = wire[d] /\ touched'[d] = touched[d]
    BY <1>1 DEF Execute, Refuse
  <2> QED
    BY <2>1, <2>2, <2>3
<1>2. CASE LateExecute
  <2>1. PICK m \in late :
          /\ late' = late \ {m}
          /\ touched' = [touched EXCEPT ![m.by] = @ \/ m.run = runs[m.by]]
    BY <1>2 DEF LateExecute
  <2>2. UNCHANGED <<job, runs, pc, wire>>
    BY <1>2 DEF LateExecute, call
  <2>3. \A d \in Callers : job[d].check => ~touched'[d]
    BY <2>1
  <2> QED
    BY <2>1, <2>2, <2>3
<1> QED
  BY <1>1, <1>2

LEMMA SilentHolds == Spec => []SilentInv
<1>1. Init => SilentInv
  BY DEF Init, SilentInv, WriteAhead, Writing
<1>2. TypeOK /\ SilentInv /\ [Next]_vars => SilentInv'
  <2> SUFFICES ASSUME TypeOK, SilentInv, [Next]_vars
               PROVE  SilentInv'
    OBVIOUS
  <2>1. CASE UNCHANGED vars
    BY <2>1 DEF vars, call, SilentInv
  <2> QED
    BY <2>1, StartSilent, SearchSilent, ReadSilent, AnsweredSilent,
       LoseAnswerSilent, ApplianceSilent DEF Next, Step
<1> QED
  BY <1>1, <1>2, TypeCorrect, PTL DEF Spec

\* "Return what would happen without making changes": no POST of a call in
\* check_mode is sent or executed, whatever other callers do and whatever is
\* retried or executed late.
THEOREM CheckModeHolds == Spec => []CheckModeIsSilent
<1>1. SilentInv => CheckModeIsSilent
  BY DEF SilentInv, CheckModeIsSilent
<1> QED
  BY <1>1, SilentHolds, PTL

-----------------------------------------------------------------------------
(* What a call reports and what it did *)

\* A POST of this call was executed, or may still be.
Spent(c) == touched[c] \/ \E m \in late : m.by = c /\ m.run = runs[c]

LookPlaces == {"idle", "search", "fetch"}
CleanPlaces == {"clean_get", "clean_del", "clean_apply"}
DecidedPlaces == {"hydrate", "before_update", "before_delete"}
ApplyPlaces == {"add_apply", "set_apply", "del_apply"}

\* Nothing was sent before the search was answered; past the duplicates a POST
\* was sent only if there were any, and if there were one was executed; a write
\* that is being applied was executed.
EffectsInv(c) ==
    /\ wire[c] # "none" => pc[c] \in Writing
    /\ wire[c] = "ok" => touched[c]
    /\ pc[c] \in LookPlaces => deduped[c] = {} /\ ~Spent(c)
    /\ pc[c] \in CleanPlaces => deduped[c] # {} /\ ~job[c].check
    /\ pc[c] \in DecidedPlaces =>
          /\ Spent(c) => deduped[c] # {}
          /\ deduped[c] # {} /\ ~job[c].check => touched[c]
    /\ pc[c] \in ApplyPlaces => touched[c]
    /\ pc[c] = "done" =>
          /\ Spent(c) => result[c].changed
          /\ result[c].changed /\ ~job[c].check => touched[c]
    /\ pc[c] = "raised" /\ Spent(c) => result[c].raised \in {"refused", "unavailable"}

\* What makes ReportsMatchEffects inductive.
TruthInv ==
    /\ \A c \in Callers : EffectsInv(c)
    /\ \A m \in late : m.run <= runs[m.by]

\* The duplicates other callers found are theirs.
OwnDups(c) == \A d \in Callers \ {c} : deduped'[d] = deduped[d]

LEMMA MoveTruth ==
    ASSUME TruthInv, UNCHANGED kept, NEW c \in Callers, OwnDups(c),
           \A d \in Callers \ {c} :
              pc'[d] = pc[d] /\ wire'[d] = wire[d] /\ result'[d] = result[d],
           EffectsInv(c)'
    PROVE  TruthInv'
BY DEF TruthInv, EffectsInv, Spent, OwnDups, kept

LEMMA GotoTruth ==
    ASSUME TypeOK, TruthInv, UNCHANGED kept, NEW c \in Callers, OwnDups(c),
           NEW p \in DecidedPlaces, Goto(c, p),
           Spent(c) => deduped'[c] # {},
           deduped'[c] # {} /\ ~job[c].check => touched[c]
    PROVE  TruthInv'
<1> USE DEF TypeOK, CallOK, Goto
<1>1. /\ pc'[c] = p /\ wire'[c] = "none"
      /\ \A d \in Callers \ {c} :
            pc'[d] = pc[d] /\ wire'[d] = wire[d] /\ result'[d] = result[d]
  OBVIOUS
<1>2. EffectsInv(c)'
  BY <1>1 DEF EffectsInv, Spent, kept, LookPlaces, CleanPlaces, DecidedPlaces,
              ApplyPlaces
<1> QED
  BY <1>1, <1>2, MoveTruth

LEMMA CleanTruth ==
    ASSUME TypeOK, TruthInv, UNCHANGED kept, NEW c \in Callers, OwnDups(c),
           Goto(c, "clean_get"), deduped'[c] # {}, ~job[c].check
    PROVE  TruthInv'
<1> USE DEF TypeOK, CallOK, Goto
<1>1. /\ pc'[c] = "clean_get" /\ wire'[c] = "none"
      /\ \A d \in Callers \ {c} :
            pc'[d] = pc[d] /\ wire'[d] = wire[d] /\ result'[d] = result[d]
  OBVIOUS
<1>2. EffectsInv(c)'
  BY <1>1 DEF EffectsInv, Spent, kept, LookPlaces, CleanPlaces, DecidedPlaces,
              ApplyPlaces
<1> QED
  BY <1>1, <1>2, MoveTruth

LEMMA SendTruth ==
    ASSUME TypeOK, TruthInv, UNCHANGED kept, NEW c \in Callers, OwnDups(c),
           NEW p \in Writing, NEW op, NEW u, SendTo(c, p, op, u),
           p \in CleanPlaces => deduped'[c] # {} /\ ~job[c].check,
           p \in ApplyPlaces => touched[c]
    PROVE  TruthInv'
<1> USE DEF TypeOK, CallOK, SendTo
<1>1. /\ pc'[c] = p /\ wire'[c] = "sent"
      /\ \A d \in Callers \ {c} :
            pc'[d] = pc[d] /\ wire'[d] = wire[d] /\ result'[d] = result[d]
  OBVIOUS
<1>2. EffectsInv(c)'
  BY <1>1 DEF EffectsInv, Spent, kept, LookPlaces, CleanPlaces, DecidedPlaces,
              ApplyPlaces, Writing
<1> QED
  BY <1>1, <1>2, MoveTruth

LEMMA RaiseTruth ==
    ASSUME TypeOK, TruthInv, UNCHANGED kept, NEW c \in Callers, OwnDups(c), NEW exc,
           Raise(c, exc), Spent(c) => exc \in {"refused", "unavailable"}
    PROVE  TruthInv'
<1> USE DEF TypeOK, CallOK, Raise, End
<1>1. /\ pc'[c] = "raised" /\ wire'[c] = "none" /\ result'[c].raised = exc
      /\ \A d \in Callers \ {c} :
            pc'[d] = pc[d] /\ wire'[d] = wire[d] /\ result'[d] = result[d]
  OBVIOUS
<1>2. EffectsInv(c)'
  BY <1>1 DEF EffectsInv, Spent, kept, LookPlaces, CleanPlaces, DecidedPlaces,
              ApplyPlaces
<1> QED
  BY <1>1, <1>2, MoveTruth

LEMMA FinishTruth ==
    ASSUME TypeOK, TruthInv, UNCHANGED kept, NEW c \in Callers, OwnDups(c),
           NEW action, NEW changed \in BOOLEAN, NEW u, NEW dups,
           Finish(c, action, changed, u, dups),
           Spent(c) => changed \/ dups # {},
           (changed \/ dups # {}) /\ ~job[c].check => touched[c]
    PROVE  TruthInv'
<1> USE DEF TypeOK, CallOK, Finish, End, WithDedupe
<1>1. /\ pc'[c] = "done" /\ wire'[c] = "none"
      /\ \A d \in Callers \ {c} :
            pc'[d] = pc[d] /\ wire'[d] = wire[d] /\ result'[d] = result[d]
  OBVIOUS
<1>2. result'[c].changed = (changed \/ dups # {})
  OBVIOUS
<1>3. EffectsInv(c)'
  BY <1>1, <1>2 DEF EffectsInv, Spent, kept, LookPlaces, CleanPlaces,
                    DecidedPlaces, ApplyPlaces
<1> QED
  BY <1>1, <1>3, MoveTruth

\* From the record found and the duplicates removed, to the end or the request.
LEMMA ConvergeTruth ==
    ASSUME TypeOK, TruthInv, UNCHANGED kept, NEW c \in Callers, OwnDups(c), NEW ex,
           NEW dups, Converge(c, ex, dups), dups = deduped'[c],
           Spent(c) => dups # {},
           dups # {} /\ ~job[c].check => touched[c]
    PROVE  TruthInv'
<1>1. ASSUME NEW p \in {"before_update", "before_delete"}, Goto(c, p)
      PROVE  TruthInv'
  BY <1>1, GotoTruth DEF DecidedPlaces
<1>2. ASSUME NEW u, Finish(c, "noop", FALSE, u, dups)
      PROVE  TruthInv'
  BY <1>2, FinishTruth
<1>3. ASSUME job[c].check, Finish(c, "created", TRUE, NoUuid, dups)
      PROVE  TruthInv'
  BY <1>3, FinishTruth
<1>4. ASSUME SendTo(c, "add", "add", NoUuid)
      PROVE  TruthInv'
  BY <1>4, SendTruth DEF Writing, CleanPlaces, ApplyPlaces
<1> QED
  BY <1>1, <1>2, <1>3, <1>4 DEF Converge

LEMMA ResolveTruth ==
    ASSUME TypeOK, TruthInv, UNCHANGED kept, NEW c \in Callers, OwnDups(c), NEW ex,
           NEW dups, Resolve(c, ex, dups), dups = deduped'[c],
           Spent(c) => dups # {},
           dups # {} /\ ~job[c].check => touched[c]
    PROVE  TruthInv'
<1>1. "hydrate" \in DecidedPlaces
  BY DEF DecidedPlaces
<1> QED
  BY <1>1, GotoTruth, ConvergeTruth DEF Resolve

\* A new call has sent nothing: what its caller left behind is of earlier calls.
LEMMA StartTruth ==
    ASSUME TypeOK, TruthInv, NEW c \in Callers, Start(c)
    PROVE  TruthInv'
<1> USE DEF TypeOK
<1>1. PICK j \in Jobs :
        /\ job' = [job EXCEPT ![c] = j]
        /\ \E p \in {"raised", "search", "fetch"} : \E r : End(c, p, r)
  BY DEF Start, Raise
<1>2. wire'[c] = "none" /\ pc'[c] \in {"raised", "search", "fetch"}
  BY <1>1 DEF End, CallOK
<1>3. \A d \in Callers \ {c} :
        /\ wire'[d] = wire[d] /\ pc'[d] = pc[d] /\ result'[d] = result[d]
        /\ job'[d] = job[d] /\ runs'[d] = runs[d] /\ touched'[d] = touched[d]
        /\ deduped'[d] = deduped[d]
  BY <1>1 DEF Start, End, CallOK, FoundOK
<1>4. late' = late /\ ~touched'[c] /\ deduped'[c] = {} /\ runs'[c] = runs[c] + 1
  BY DEF Start, FoundOK
<1>5. /\ \A m \in late : m.by \in Callers /\ m.run \in Nat
      /\ \A d \in Callers : runs[d] \in Nat
  BY BoundAssumption DEF StoreOK, LateRequests
<1>6. \A m \in late : m.by = c => m.run < runs'[c]
  BY <1>4, <1>5 DEF TruthInv
<1>7. ~Spent(c)'
  BY <1>4, <1>5, <1>6 DEF Spent
<1>8. EffectsInv(c)'
  BY <1>2, <1>4, <1>7 DEF EffectsInv, CleanPlaces, DecidedPlaces, ApplyPlaces
<1>9. \A d \in Callers \ {c} : EffectsInv(d)'
  BY <1>3, <1>4 DEF TruthInv, EffectsInv, Spent
<1>10. \A m \in late' : m.run <= runs'[m.by]
  BY <1>3, <1>4, <1>5, <1>6 DEF TruthInv
<1> QED
  BY <1>8, <1>9, <1>10 DEF TruthInv

LEMMA SearchTruth ==
    ASSUME TypeOK, TruthInv, NEW c \in Callers, Search(c)
    PROVE  TruthInv'
<1>1. UNCHANGED kept
  BY DEF Search, readOnly, kept
<1>2. deduped[c] = {} /\ ~Spent(c)
  BY DEF Search, TruthInv, EffectsInv, LookPlaces
<1>3. PICK page \in Pages :
        \/ MatchNone(c, Matches(c, page))
        \/ MatchAmbiguous(c, Matches(c, page))
        \/ \E survivor \in Matches(c, page) :
              MatchSurvivor(c, Matches(c, page), survivor)
  BY DEF Search
<1>4. CASE MatchNone(c, Matches(c, page))
  <2>1. OwnDups(c) /\ deduped'[c] = {} /\ Resolve(c, NoRow, {})
    BY <1>2, <1>4 DEF MatchNone, found, OwnDups
  <2> QED
    BY <1>1, <1>2, <2>1, ResolveTruth
<1>5. CASE MatchAmbiguous(c, Matches(c, page))
  <2>1. OwnDups(c) /\ Raise(c, "AmbiguousMatchError")
    BY <1>5 DEF MatchAmbiguous, found, OwnDups
  <2> QED
    BY <1>1, <1>2, <2>1, RaiseTruth
<1>6. ASSUME NEW survivor \in Matches(c, page),
             MatchSurvivor(c, Matches(c, page), survivor)
      PROVE  TruthInv'
  <2> DEFINE dups == Matches(c, page) \ {survivor}
  <2>1. OwnDups(c) /\ deduped'[c] = dups
    BY <1>6 DEF MatchSurvivor, OwnDups, TypeOK, FoundOK
  <2>2. CASE dups = {} \/ job[c].check
    <3>1. Resolve(c, SearchRow(survivor), dups)
      BY <1>6, <2>2 DEF MatchSurvivor
    <3> HIDE DEF dups
    <3> QED
      BY <1>1, <1>2, <2>1, <2>2, <3>1, ResolveTruth
  <2>3. CASE ~(dups = {} \/ job[c].check)
    <3>1. Goto(c, "clean_get")
      BY <1>6, <2>3 DEF MatchSurvivor
    <3> QED
      BY <1>1, <2>1, <2>3, <3>1, CleanTruth
  <2> QED
    BY <2>2, <2>3
<1> QED
  BY <1>3, <1>4, <1>5, <1>6

LEMMA ReadTruth ==
    ASSUME TypeOK, TruthInv, NEW c \in Callers,
           \/ Fetch(c) \/ Hydrate(c) \/ CleanGet(c)
           \/ BeforeUpdate(c) \/ BeforeDelete(c) \/ ReadFails(c)
    PROVE  TruthInv'
<1>1. UNCHANGED kept /\ deduped' = deduped
  BY DEF Fetch, Hydrate, CleanGet, BeforeUpdate, BeforeDelete, ReadFails,
         readOnly, kept, found
<1>2. OwnDups(c)
  BY <1>1 DEF OwnDups
<1>3. EffectsInv(c)
  BY DEF TruthInv
<1>4. CASE Fetch(c)
  <2>1. deduped[c] = {} /\ ~Spent(c)
    BY <1>3, <1>4 DEF Fetch, EffectsInv, LookPlaces
  <2> QED
    BY <1>1, <1>2, <1>4, <2>1, ConvergeTruth DEF Fetch
<1>5. ASSUME pc[c] \in DecidedPlaces
      PROVE  /\ Spent(c) => deduped[c] # {}
             /\ deduped[c] # {} /\ ~job[c].check => touched[c]
  BY <1>3, <1>5 DEF EffectsInv
<1>6. CASE Hydrate(c)
  <2>1. pc[c] \in DecidedPlaces
    BY <1>6 DEF Hydrate, DecidedPlaces
  <2>2. Converge(c, FullItem(row[c].uuid), deduped[c])
    BY <1>6 DEF Hydrate
  <2> QED
    BY <1>1, <1>2, <1>5, <2>1, <2>2, ConvergeTruth
<1>7. CASE CleanGet(c)
  <2>1. deduped[c] # {} /\ ~job[c].check
    BY <1>3, <1>7 DEF CleanGet, EffectsInv, CleanPlaces
  <2>2. "clean_del" \in Writing /\ "clean_del" \notin ApplyPlaces
    BY DEF Writing, ApplyPlaces
  <2> QED
    BY <1>1, <1>2, <1>7, <2>1, <2>2, SendTruth DEF CleanGet
<1>8. CASE BeforeUpdate(c)
  <2>1. pc[c] \in DecidedPlaces
    BY <1>8 DEF BeforeUpdate, DecidedPlaces
  <2>2. CASE job[c].check
    BY <1>1, <1>2, <1>8, <2>2, FinishTruth DEF BeforeUpdate
  <2>3. CASE ~job[c].check
    BY <1>1, <1>2, <1>8, <2>3, SendTruth
       DEF BeforeUpdate, Writing, CleanPlaces, ApplyPlaces
  <2> QED
    BY <2>2, <2>3
<1>9. CASE BeforeDelete(c)
  <2>1. CASE job[c].check
    BY <1>1, <1>2, <1>9, <2>1, FinishTruth DEF BeforeDelete
  <2>2. CASE ~job[c].check
    BY <1>1, <1>2, <1>9, <2>2, SendTruth
       DEF BeforeDelete, Writing, CleanPlaces, ApplyPlaces
  <2> QED
    BY <2>1, <2>2
<1>10. CASE ReadFails(c)
  BY <1>1, <1>2, <1>10, RaiseTruth DEF ReadFails
<1> QED
  BY <1>4, <1>6, <1>7, <1>8, <1>9, <1>10

\* An answer means the POST was executed.
LEMMA AnsweredTruth ==
    ASSUME TypeOK, TruthInv, NEW c \in Callers,
           \/ CleanDeleted(c) \/ CleanApplied(c) \/ WriteDone(c)
           \/ ApplyDone(c) \/ Refused(c)
    PROVE  TruthInv'
<1>1. UNCHANGED kept /\ deduped' = deduped
  BY DEF CleanDeleted, CleanApplied, WriteDone, ApplyDone, Refused, readOnly,
         kept, found, NextDuplicate
<1>2. OwnDups(c)
  BY <1>1 DEF OwnDups
<1>3. EffectsInv(c)
  BY DEF TruthInv
<1>4. CASE Refused(c)
  BY <1>1, <1>2, <1>4, RaiseTruth DEF Refused
<1>5. ASSUME wire[c] = "ok"
      PROVE  touched[c]
  BY <1>3, <1>5 DEF EffectsInv
<1>6. ASSUME NextDuplicate(c), pc[c] \in CleanPlaces, wire[c] = "ok"
      PROVE  TruthInv'
  <2>1. deduped[c] # {} /\ ~job[c].check /\ touched[c]
    BY <1>3, <1>5, <1>6 DEF EffectsInv
  <2>2. Resolve(c, row[c], deduped[c]) \/ Goto(c, "clean_get")
    BY <1>6 DEF NextDuplicate
  <2> QED
    BY <1>1, <1>2, <2>1, <2>2, ResolveTruth, CleanTruth
<1>7. CASE CleanDeleted(c)
  <2>1. pc[c] \in CleanPlaces /\ wire[c] = "ok"
    BY <1>7 DEF CleanDeleted, CleanPlaces
  <2>2. deduped[c] # {} /\ ~job[c].check
    BY <1>3, <2>1 DEF EffectsInv
  <2>3. "clean_apply" \in Writing /\ "clean_apply" \notin ApplyPlaces
    BY DEF Writing, ApplyPlaces
  <2> QED
    BY <1>1, <1>2, <1>6, <1>7, <2>1, <2>2, <2>3, SendTruth DEF CleanDeleted
<1>8. CASE CleanApplied(c)
  <2>1. pc[c] \in CleanPlaces /\ wire[c] = "ok"
    BY <1>8 DEF CleanApplied, CleanPlaces
  <2> QED
    BY <1>6, <1>8, <2>1 DEF CleanApplied
<1>9. CASE WriteDone(c)
  <2>1. touched[c] /\ pc[c] \in {"add", "set", "del"}
    BY <1>5, <1>9 DEF WriteDone
  <2>2. ApplyOf(pc[c]) \in ApplyPlaces \cap Writing /\ ApplyOf(pc[c]) \notin CleanPlaces
    BY <2>1 DEF ApplyOf, ApplyPlaces, Writing, CleanPlaces
  <2>3. \/ SendTo(c, ApplyOf(pc[c]), "apply", NoUuid)
        \/ \E u : Finish(c, Outcome(pc[c]), TRUE, u, deduped[c])
    BY <1>9 DEF WriteDone
  <2> QED
    BY <1>1, <1>2, <2>1, <2>2, <2>3, SendTruth, FinishTruth
<1>10. CASE ApplyDone(c)
  <2>1. touched[c]
    BY <1>5, <1>10 DEF ApplyDone
  <2> QED
    BY <1>1, <1>2, <1>10, <2>1, FinishTruth DEF ApplyDone
<1> QED
  BY <1>4, <1>7, <1>8, <1>9, <1>10

LEMMA LoseAnswerTruth ==
    ASSUME TypeOK, TruthInv, NEW c \in Callers, LoseAnswer(c)
    PROVE  TruthInv'
<1> USE DEF TypeOK, CallOK
<1>1. EffectsInv(c) /\ pc[c] \in Writing
  BY DEF TruthInv, EffectsInv, LoseAnswer
<1>2. UNCHANGED <<job, runs, touched, deduped>>
  BY DEF LoseAnswer, found
<1>3. \A m \in late' : m \in late \/ (m.by = c /\ m.run = runs[c])
  BY DEF LoseAnswer
<1>4. \A m \in late : m \in late'
  BY DEF LoseAnswer
<1>5. /\ \A d \in Callers \ {c} :
            wire'[d] = wire[d] /\ pc'[d] = pc[d] /\ result'[d] = result[d]
      /\ \/ wire'[c] = "sent" /\ pc'[c] = pc[c]
         \/ wire'[c] = "none" /\ pc'[c] = "raised"
            /\ result'[c].raised = "unavailable"
  BY DEF LoseAnswer, Raise, End
<1>6. \A d \in Callers \ {c} : Spent(d)' = Spent(d)
  BY <1>2, <1>3, <1>4 DEF Spent
<1>7. \A d \in Callers \ {c} : EffectsInv(d)'
  BY <1>2, <1>5, <1>6 DEF TruthInv, EffectsInv
<1>8. EffectsInv(c)'
  BY <1>1, <1>2, <1>5 DEF EffectsInv, LookPlaces, CleanPlaces, DecidedPlaces,
                          ApplyPlaces, Writing
<1>9. runs[c] <= runs[c]
  BY BoundAssumption
<1>10. \A m \in late' : m.run <= runs'[m.by]
  BY <1>2, <1>3, <1>9 DEF TruthInv
<1> QED
  BY <1>7, <1>8, <1>10 DEF TruthInv

LEMMA ApplianceTruth ==
    ASSUME TypeOK, TruthInv,
           LateExecute \/ \E c \in Callers : Execute(c) \/ Refuse(c)
    PROVE  TruthInv'
<1> USE DEF TypeOK, CallOK
<1>1. ASSUME NEW c \in Callers, Execute(c) \/ Refuse(c)
      PROVE  TruthInv'
  <2>1. EffectsInv(c) /\ pc[c] \in Writing
    BY <1>1 DEF TruthInv, EffectsInv, Execute, Refuse
  <2>2. UNCHANGED <<late, job, runs, pc, result, deduped>>
    BY <1>1 DEF Execute, Refuse, found
  <2>3. \A d \in Callers \ {c} : wire'[d] = wire[d] /\ touched'[d] = touched[d]
    BY <1>1 DEF Execute, Refuse
  <2>4. \/ wire'[c] = "ok" /\ touched'[c]
        \/ wire'[c] = "refused" /\ touched'[c] = touched[c]
    BY <1>1 DEF Execute, Refuse
  <2>5. \A d \in Callers \ {c} : EffectsInv(d)'
    BY <2>2, <2>3 DEF TruthInv, EffectsInv, Spent
  <2>6. EffectsInv(c)'
    BY <2>1, <2>2, <2>4 DEF EffectsInv, LookPlaces, CleanPlaces, DecidedPlaces,
                            ApplyPlaces, Writing
  <2> QED
    BY <2>2, <2>5, <2>6 DEF TruthInv
<1>2. CASE LateExecute
  <2>1. PICK m \in late :
          /\ late' = late \ {m}
          /\ touched' = [touched EXCEPT ![m.by] = @ \/ m.run = runs[m.by]]
    BY <1>2 DEF LateExecute
  <2>2. UNCHANGED <<job, runs, pc, wire, result, deduped>>
    BY <1>2 DEF LateExecute, call, found
  <2>3. \A d \in Callers : touched[d] => touched'[d]
    BY <2>1
  <2>4. \A d \in Callers : Spent(d)' => Spent(d)
    BY <2>1, <2>2 DEF Spent
  <2>5. \A d \in Callers : EffectsInv(d)'
    BY <2>2, <2>3, <2>4 DEF TruthInv, EffectsInv
  <2> QED
    BY <2>1, <2>2, <2>5 DEF TruthInv
<1> QED
  BY <1>1, <1>2

\* What ensure() reports is what its requests did, with any number of callers,
\* whatever was retried, deduplicated or executed late: "noop" and the errors
\* about arguments mean no POST of the call was or will be executed, "changed"
\* outside check_mode that one was.
THEOREM ReportsHold == Spec => []ReportsMatchEffects
<1>1. Init => TruthInv
  BY DEF Init, TruthInv, EffectsInv, Spent, CleanPlaces, DecidedPlaces, ApplyPlaces
<1>2. TypeOK /\ TruthInv /\ [Next]_vars => TruthInv'
  <2> SUFFICES ASSUME TypeOK, TruthInv, [Next]_vars
               PROVE  TruthInv'
    OBVIOUS
  <2>1. CASE UNCHANGED vars
    BY <2>1 DEF vars, call, found, TruthInv, EffectsInv, Spent
  <2> QED
    BY <2>1, StartTruth, SearchTruth, ReadTruth, AnsweredTruth,
       LoseAnswerTruth, ApplianceTruth DEF Next, Step
<1>3. TruthInv => ReportsMatchEffects
  BY DEF TruthInv, EffectsInv, Spent, ReportsMatchEffects, Returned
<1> QED
  BY <1>1, <1>2, <1>3, TypeCorrect, PTL DEF Spec

-----------------------------------------------------------------------------
(* The survivor of concurrent deduplications: ElderSurvives, by SurvivorInv *)


\* The identities' histories only grow, which keeps every fact about them.
Growing == \A k \in Keys : ever[k] \subseteq ever'[k]

\* What was doomed, or harmless to execute, stays so.
LEMMA GrowingKeeps ==
    ASSUME Growing, NEW k \in Keys, NEW u, Doomed(k, u)
    PROVE  Doomed(k, u)'
BY DEF Growing, Doomed

LEMMA GrowingKeepsHarmless ==
    ASSUME Growing, NEW req \in Requests, Harmless(req)
    PROVE  Harmless(req)'
BY GrowingKeeps DEF Growing, Harmless, Requests

\* One execution changes one record; an add or a set leaves it with the request's
\* identity.
LEMMA PerformEffect ==
    ASSUME StoreOK, NEW req \in Requests, NEW u \in Uuids \cup {NoUuid}, Perform(req, u)
    PROVE  /\ \A v \in Uuids : v # u => saved'[v] = saved[v]
           /\ Growing
           /\ req.op \in {"add", "set"} =>
                 /\ u \in Live' /\ saved'[u].key = req.key
                 /\ ever'[req.key] = ever[req.key] \cup {u}
                 /\ \A k \in Keys : k # req.key => ever'[k] = ever[k]
           /\ req.op = "del" => u = req.uuid /\ u \notin Live' /\ ever' = ever
           /\ req.op = "apply" => saved' = saved /\ ever' = ever
<1> USE DEF Live, Growing
<1>0. req.key \in Keys
  BY DEF Requests
<1>1. ASSUME req.op \in {"add", "set"}, NEW fld \in [Fields -> Values], u \in Uuids,
             saved' = [saved EXCEPT ![u] = Written(req, fld)], CarriesKey(req.key, u)
      PROVE  /\ \A v \in Uuids : v # u => saved'[v] = saved[v]
             /\ u \in Live' /\ saved'[u].key = req.key
             /\ ever'[req.key] = ever[req.key] \cup {u}
             /\ \A k \in Keys : k # req.key => ever'[k] = ever[k]
  <2>1. Written(req, fld) \in Records /\ Written(req, fld).key = req.key
    BY WrittenType DEF Written
  <2>2. saved'[u] = Written(req, fld)
    BY <1>1 DEF StoreOK, Stores
  <2> QED
    BY <1>0, <1>1, <2>1, <2>2, ValueAssumption DEF StoreOK, Stores, CarriesKey
<1>2. CASE req.op = "add"
  <2>1. [f \in Fields |-> DefaultValue] \in [Fields -> Values]
    BY ValueAssumption
  <2>2. /\ u \in Uuids /\ CarriesKey(req.key, u)
        /\ saved' = [saved EXCEPT ![u] =
                        Written(req, [f \in Fields |-> DefaultValue])]
    BY <1>2 DEF Perform, Mutate
  <2> QED
    BY <1>1, <1>2, <2>1, <2>2
<1>3. CASE req.op = "set"
  <2>1. /\ u \in Live /\ CarriesKey(req.key, u)
        /\ saved' = [saved EXCEPT ![u] = Written(req, saved[u].fld)]
    BY <1>3 DEF Perform, Mutate
  <2>2. saved[u].fld \in [Fields -> Values]
    BY <2>1, RowTypes DEF StoreOK, Records
  <2> QED
    BY <1>1, <1>3, <2>1, <2>2
<1>4. CASE req.op = "del"
  BY <1>4 DEF Perform, Mutate, StoreOK, Stores
<1>5. CASE req.op = "apply"
  BY <1>5 DEF Perform
<1> QED
  BY <1>2, <1>3, <1>4, <1>5 DEF Perform

\* Every record carried the identity it has, and no record ever had two.
Owned ==
    /\ \A u \in Live : u \in ever[saved[u].key]
    /\ \A k, l \in Keys : \A u \in ever[k] : u \in ever[l] => k = l

\* It stays so as long as nobody gives a record another identity than its own.
LEMMA PerformOwns ==
    ASSUME StoreOK, Owned, NEW req \in Requests,
           req.op = "set" => req.uuid \in ever[req.key],
           NEW u \in Uuids \cup {NoUuid}, Perform(req, u)
    PROVE  Owned' /\ Growing
<1> USE DEF Owned, Live, Growing
<1>0. req.key \in Keys /\ Growing
  BY PerformEffect DEF Requests
<1>1. \A v \in Live : saved[v].key \in Keys
  BY RowTypes DEF StoreOK, Records
<1>2. CASE req.op \in {"add", "set"}
  <2>1. /\ \A v \in Uuids : v # u => saved'[v] = saved[v]
        /\ saved'[u].key = req.key /\ ever'[req.key] = ever[req.key] \cup {u}
        /\ \A k \in Keys : k # req.key => ever'[k] = ever[k]
    BY <1>2, PerformEffect
  <2>2. \A k \in Keys : u \in ever[k] => k = req.key
    BY <1>0, <1>2 DEF Perform
  <2>3. \A v \in Live' : v \in ever'[saved'[v].key]
    <3> TAKE v \in Live'
    <3>1. CASE v = u
      BY <2>1, <3>1
    <3>2. CASE v # u
      <4>1. v \in Live /\ saved'[v] = saved[v]
        BY <2>1, <3>2
      <4> QED
        BY <1>0, <1>1, <4>1
    <3> QED
      BY <3>1, <3>2
  <2>4. \A k, l \in Keys : \A v \in ever'[k] : v \in ever'[l] => k = l
    BY <2>1, <2>2
  <2> QED
    BY <1>0, <2>3, <2>4
<1>3. CASE req.op = "del"
  BY <1>0, <1>3, PerformEffect
<1>4. CASE req.op = "apply"
  BY <1>0, <1>4, PerformEffect
<1> QED
  BY <1>2, <1>3, <1>4 DEF Perform

\* Executing a harmless request keeps the store's invariant.
LEMMA PerformKeeps ==
    ASSUME StoreOK, StoreInv, NEW req \in Requests, Harmless(req),
           NEW u \in Uuids \cup {NoUuid}, Perform(req, u)
    PROVE  StoreInv' /\ Growing
<1>0. req.key \in Keys /\ Owned
  BY DEF Requests, StoreInv, Owned
<1>1. Owned' /\ Growing
  BY <1>0, PerformOwns DEF Harmless
<1>2. ASSUME NEW k \in Keys, NEW v \in ever'[k]
      PROVE  v \in Copies(k)' \/ Doomed(k, v)'
  <2> USE DEF Live, Copies
  <2>1. CASE req.op \in {"add", "set"} /\ v = u
    <3>1. u \in Live' /\ saved'[u].key = req.key /\ u \in ever'[req.key]
      BY <2>1, PerformEffect
    <3>2. k = req.key
      BY <1>0, <1>1, <1>2, <2>1, <3>1 DEF Owned
    <3> QED
      BY <2>1, <3>1, <3>2
  <2>2. CASE req.op = "del" /\ v = u
    <3>1. Doomed(req.key, u) /\ ever' = ever
      BY <2>2, PerformEffect DEF Harmless
    <3>2. k = req.key
      BY <1>0, <1>2, <2>2, <3>1 DEF Owned, Doomed
    <3> QED
      BY <1>0, <1>1, <2>2, <3>1, <3>2, GrowingKeeps
  <2>3. CASE v # u \/ req.op = "apply"
    <3>1. v \in ever[k] /\ (v \in Uuids => saved'[v] = saved[v])
      <4>1. CASE req.op \in {"add", "set"}
        <5>1. v # u /\ ever'[k] \subseteq ever[k] \cup {u}
          BY <1>0, <2>3, <4>1, PerformEffect
        <5> QED
          BY <1>2, <5>1, PerformEffect
      <4>2. CASE req.op = "del"
        BY <1>2, <2>3, <4>2, PerformEffect
      <4>3. CASE req.op = "apply"
        BY <1>2, <4>3, PerformEffect
      <4> QED
        BY <4>1, <4>2, <4>3 DEF Perform
    <3>2. v \in Copies(k) \/ Doomed(k, v)
      BY <3>1 DEF StoreInv
    <3> QED
      BY <1>1, <3>1, <3>2, GrowingKeeps
  <2> QED
    BY <2>1, <2>2, <2>3 DEF Perform
<1> QED
  BY <1>1, <1>2 DEF StoreInv, Owned

-----------------------------------------------------------------------------
(* One caller's step leaves the others alone *)

SameCall(d) == pc'[d] = pc[d] /\ post'[d] = post[d]
SameFound(d) == row'[d] = row[d] /\ todo'[d] = todo[d] /\ job'[d] = job[d]
OthersSame(c) == \A d \in Callers : d # c => SameCall(d)
OthersFound(c) == \A d \in Callers : d # c => SameFound(d)

LEMMA SameCallKeeps ==
    ASSUME TypeOK, Growing, NEW d \in Callers, CallInv(d), SameCall(d), SameFound(d)
    PROVE  CallInv(d)'
<1>1. job[d] \in Jobs /\ job[d].key \in Keys
  BY JobFields DEF TypeOK
<1>2. post[d] \in Requests
  BY DEF TypeOK, CallOK
<1>3. (pc[d] \in RowPlaces => row[d].uuid \in ever[job[d].key])'
  BY <1>1 DEF CallInv, SameCall, SameFound, Growing
<1>5. (\A u \in todo[d] : Doomed(job[d].key, u))'
  BY <1>1 DEF CallInv, SameFound, Doomed, Growing
<1>6. Harmless(post[d])'
  BY <1>2 DEF CallInv, SameCall, Harmless, Doomed, Growing, Requests
<1> QED
  BY <1>3, <1>5, <1>6 DEF CallInv, SameCall, SameFound

LEMMA GotoEffect ==
    ASSUME TypeOK, NEW c \in Callers, NEW p, Goto(c, p)
    PROVE  pc'[c] = p /\ post'[c].op = "none" /\ OthersSame(c)
BY DEF TypeOK, CallOK, NoPost, Goto, OthersSame, SameCall

LEMMA SendEffect ==
    ASSUME TypeOK, NEW c \in Callers, NEW p, NEW op, NEW u, SendTo(c, p, op, u)
    PROVE  /\ pc'[c] = p /\ OthersSame(c)
           /\ post'[c].op = op /\ post'[c].uuid = u /\ post'[c].key = job[c].key
BY DEF TypeOK, CallOK, NoPost, SendTo, OthersSame, SameCall

LEMMA EndEffect ==
    ASSUME TypeOK, NEW c \in Callers, NEW p, NEW r, End(c, p, r)
    PROVE  pc'[c] = p /\ post'[c].op = "none" /\ OthersSame(c)
BY DEF TypeOK, CallOK, NoPost, End, OthersSame, SameCall

\* From a record found to the next request, when the record is wanted present.
LEMMA ResolveEffect ==
    ASSUME TypeOK, NEW c \in Callers, NEW ex, NEW dups,
           job[c].state = "present", Resolve(c, ex, dups) \/ Converge(c, ex, dups)
    PROVE  /\ OthersSame(c)
           /\ pc'[c] \in {"done", "add", "before_update", "hydrate"}
           /\ post'[c].op \in {"none", "add"}
           /\ pc'[c] \in {"before_update", "hydrate"} => ex.uuid # NoUuid
<1>1. CASE NeedsHydration(ex, job[c].want) /\ Goto(c, "hydrate")
  BY <1>1, GotoEffect DEF NeedsHydration
<1>2. CASE Converge(c, ex, dups)
  <2>1. \/ \E r : End(c, "done", r)
        \/ SendTo(c, "add", "add", NoUuid)
        \/ ex.uuid # NoUuid /\ Goto(c, "before_update")
    BY <1>2 DEF Converge, Finish
  <2> QED
    BY <2>1, EndEffect, SendEffect, GotoEffect
<1> QED
  BY <1>1, <1>2 DEF Resolve

-----------------------------------------------------------------------------
(* The invariant *)

LEMMA InitSurvivor == Init /\ KeepingJobs => SurvivorInv
<1> SUFFICES ASSUME Init, KeepingJobs
             PROVE  SurvivorInv
  OBVIOUS
<1>1. StoreInv
  <2>1. \A u \in Live : saved[u].key \in Keys /\ u \in Copies(saved[u].key)
    BY StoreAssumption, RowTypes DEF Init, Copies, Records
  <2>2. ever = [k \in Keys |-> Copies(k)]
    BY DEF Init
  <2> QED
    BY <2>1, <2>2 DEF StoreInv, Copies
<1>2. \A c \in Callers : CallInv(c)
  BY DEF Init, CallInv, KeepPlaces, RowPlaces, Harmless, NoPost
<1> QED
  BY <1>1, <1>2 DEF SurvivorInv, Init

\* A caller's step leaves the store alone, and at most its own harmless request
\* behind: it keeps the invariant when it keeps it for that caller.
LEMMA CallerStep ==
    ASSUME TypeOK, SurvivorInv, NEW c \in Callers, UNCHANGED store,
           \A m \in late' : m \in late \/ Harmless(m.req),
           OthersSame(c), OthersFound(c), CallInv(c)'
    PROVE  SurvivorInv'
<1>1. Growing /\ ever' = ever /\ saved' = saved
  BY DEF Growing, store
<1>2. StoreInv'
  BY <1>1 DEF SurvivorInv, StoreInv, Live, Copies, Doomed
<1>3. \A d \in Callers : CallInv(d)'
  BY <1>1, SameCallKeeps DEF SurvivorInv, OthersSame, OthersFound
<1>4. \A m \in late' : Harmless(m.req)'
  BY <1>1 DEF SurvivorInv, Harmless, Doomed
<1> QED
  BY <1>2, <1>3, <1>4 DEF SurvivorInv

\* A step that keeps what the caller found, and ends its call or leaves it with a
\* request that writes nothing at a place it may be at.
LEMMA SameFoundStep ==
    ASSUME TypeOK, SurvivorInv, NEW c \in Callers, UNCHANGED <<store, late, job, row>>,
           \A d \in Callers : d # c => todo'[d] = todo[d],
           todo'[c] \subseteq todo[c],
           OthersSame(c), post'[c].op \in {"none", "add", "apply"},
           pc'[c] \in KeepPlaces \cup Settled,
           pc'[c] \in KeepPlaces => job[c].state = "present",
           pc'[c] \in RowPlaces => row[c].uuid \in ever[job[c].key]
    PROVE  SurvivorInv'
<1>1. OthersFound(c)
  BY DEF OthersFound, SameFound
<1>2. CallInv(c)
  BY DEF SurvivorInv
<1>3. CallInv(c)'
  BY <1>2 DEF CallInv, Harmless, Doomed, store
<1> QED
  BY <1>1, <1>3, CallerStep

LEMMA EndKeeps ==
    ASSUME TypeOK, SurvivorInv, NEW c \in Callers, NEW p \in Settled, NEW r,
           End(c, p, r), UNCHANGED <<readOnly, found>>
    PROVE  SurvivorInv'
<1>1. pc'[c] = p /\ post'[c].op = "none" /\ OthersSame(c)
  BY EndEffect
<1>2. p \notin KeepPlaces /\ p \notin RowPlaces
  BY DEF Settled, KeepPlaces, RowPlaces
<1> QED
  BY <1>1, <1>2, SameFoundStep DEF readOnly, found

-----------------------------------------------------------------------------
(* Every step keeps the invariant *)

LEMMA StartKeeps ==
    ASSUME TypeOK, SurvivorInv, KeepingJobs, NEW c \in Callers, Start(c)
    PROVE  SurvivorInv'
<1>1. PICK j \in Jobs :
         /\ job' = [job EXCEPT ![c] = j]
         /\ \/ Raise(c, "ValueError") \/ Raise(c, "FieldValidationError")
            \/ /\ j.state = "absent" \/ (j.state = "present" /\ j.valid)
               /\ End(c, IF j.uuid = NoUuid THEN "search" ELSE "fetch",
                      [pending |-> TRUE])
  BY DEF Start
<1>2. j.state # "absent" /\ j.uuid = NoUuid
  BY DEF KeepingJobs
<1>3. \/ \E r : End(c, "raised", r)
      \/ j.state = "present" /\ \E r : End(c, "search", r)
  BY <1>1, <1>2 DEF Raise
<1>4. /\ OthersSame(c) /\ post'[c].op = "none"
      /\ pc'[c] = "raised" \/ (pc'[c] = "search" /\ j.state = "present")
  BY <1>3, EndEffect
<1>5. /\ job'[c] = j /\ todo'[c] = {}
      /\ OthersFound(c) /\ UNCHANGED <<store, late>>
  BY <1>1 DEF Start, OthersFound, SameFound, TypeOK, FoundOK
<1>6. CallInv(c)'
  BY <1>4, <1>5 DEF CallInv, Harmless, KeepPlaces, RowPlaces, Settled
<1> QED
  BY <1>4, <1>5, <1>6, CallerStep

\* The rows of a page that match carried the identity, so all but the lowest of
\* them are doomed.
LEMMA MatchesCarried ==
    ASSUME TypeOK, StoreInv, NEW c \in Callers, NEW page \in Pages,
           NEW u \in Matches(c, page)
    PROVE  u \in Uuids /\ u \in Nat /\ u \in ever[job[c].key]
BY UuidsPositive DEF Matches, Pages, Live, StoreInv

LEMMA SurvivorKeeps ==
    ASSUME TypeOK, SurvivorInv, NEW c \in Callers, NEW page \in Pages,
           job[c].state = "present", UNCHANGED readOnly,
           NEW survivor \in Matches(c, page),
           MatchSurvivor(c, Matches(c, page), survivor)
    PROVE  SurvivorInv'
<1> DEFINE dups == Matches(c, page) \ {survivor}
<1>1. /\ UNCHANGED <<store, late, job>>
      /\ \A u \in Matches(c, page) : survivor <= u
      /\ row' = [row EXCEPT ![c] = SearchRow(survivor)]
      /\ \/ Resolve(c, SearchRow(survivor), dups) /\ todo' = todo
         \/ Goto(c, "clean_get") /\ todo' = [todo EXCEPT ![c] = dups]
  BY DEF MatchSurvivor, readOnly
<1>2. survivor \in ever[job[c].key]
  BY MatchesCarried DEF SurvivorInv
<1>3. \A u \in dups : Doomed(job[c].key, u)
  <2> TAKE u \in dups
  <2>1. u \in ever[job[c].key] /\ u \in Nat /\ survivor \in Nat
    BY MatchesCarried DEF SurvivorInv
  <2>2. survivor < u
    BY <1>1, <2>1
  <2> QED
    BY <1>2, <2>1, <2>2 DEF Doomed
<1>4. row'[c].uuid = survivor /\ \A d \in Callers : d # c => row'[d] = row[d]
  BY <1>1 DEF TypeOK, FoundOK, SearchRow
<1>5. CASE Resolve(c, SearchRow(survivor), dups) /\ todo' = todo
  <2> HIDE DEF dups
  <2>1. /\ OthersSame(c)
        /\ pc'[c] \in {"done", "add", "before_update", "hydrate"}
        /\ post'[c].op \in {"none", "add"}
    BY <1>5, ResolveEffect
  <2>2. OthersFound(c)
    BY <1>1, <1>4, <1>5 DEF OthersFound, SameFound
  <2>3. (\A u \in todo[c] : Doomed(job[c].key, u))'
    BY <1>1, <1>5 DEF SurvivorInv, CallInv, Doomed, store
  <2>4. CallInv(c)'
    BY <1>1, <1>2, <1>4, <2>1, <2>3
    DEF CallInv, Harmless, KeepPlaces, RowPlaces, Settled, store
  <2> QED
    BY <1>1, <2>1, <2>2, <2>4, CallerStep
<1>6. CASE Goto(c, "clean_get") /\ todo' = [todo EXCEPT ![c] = dups]
  <2> HIDE DEF dups
  <2>1. OthersSame(c) /\ pc'[c] = "clean_get" /\ post'[c].op = "none"
    BY <1>6, GotoEffect
  <2>2. todo'[c] = dups /\ \A d \in Callers : d # c => todo'[d] = todo[d]
    BY <1>6 DEF TypeOK, FoundOK
  <2>3. OthersFound(c)
    BY <1>1, <1>4, <2>2 DEF OthersFound, SameFound
  <2>4. (\A u \in todo[c] : Doomed(job[c].key, u))'
    BY <1>1, <1>3, <2>2 DEF Doomed, store
  <2>5. CallInv(c)'
    BY <1>1, <1>2, <1>4, <2>1, <2>4
    DEF CallInv, Harmless, KeepPlaces, RowPlaces, Settled, store
  <2> QED
    BY <1>1, <2>1, <2>3, <2>5, CallerStep
<1> QED
  BY <1>1, <1>5, <1>6

LEMMA SearchKeeps ==
    ASSUME TypeOK, SurvivorInv, NEW c \in Callers, Search(c)
    PROVE  SurvivorInv'
<1>1. PICK page \in Pages :
         \/ MatchNone(c, Matches(c, page))
         \/ MatchAmbiguous(c, Matches(c, page))
         \/ \E survivor \in Matches(c, page) :
               MatchSurvivor(c, Matches(c, page), survivor)
  BY DEF Search
<1>2. pc[c] = "search" /\ UNCHANGED readOnly
  BY DEF Search
<1>3. job[c].state = "present"
  BY <1>2 DEF SurvivorInv, CallInv, KeepPlaces
<1>4. CASE MatchNone(c, Matches(c, page))
  <2>1. Resolve(c, NoRow, {}) /\ UNCHANGED found
    BY <1>4 DEF MatchNone
  <2>2. NoRow.uuid = NoUuid
    BY DEF NoRow
  <2>3. /\ OthersSame(c) /\ pc'[c] \in {"done", "add"}
        /\ post'[c].op \in {"none", "add"}
    BY <1>3, <2>1, <2>2, ResolveEffect
  <2>4. UNCHANGED <<store, late, job, row, todo>>
    BY <1>2, <2>1 DEF readOnly, found
  <2>5. pc'[c] \notin RowPlaces /\ pc'[c] \in KeepPlaces \cup Settled
    BY <2>3 DEF RowPlaces, KeepPlaces, Settled
  <2> QED
    BY <1>3, <2>3, <2>4, <2>5, SameFoundStep
<1>5. CASE MatchAmbiguous(c, Matches(c, page))
  BY <1>2, <1>5, EndKeeps DEF MatchAmbiguous, Raise, Settled
<1>6. CASE \E survivor \in Matches(c, page) :
              MatchSurvivor(c, Matches(c, page), survivor)
  BY <1>2, <1>3, <1>6, SurvivorKeeps
<1> QED
  BY <1>1, <1>4, <1>5, <1>6

LEMMA HydrateKeeps ==
    ASSUME TypeOK, SurvivorInv, NEW c \in Callers, Hydrate(c)
    PROVE  SurvivorInv'
<1>1. /\ pc[c] = "hydrate" /\ UNCHANGED <<store, late, job, todo>>
      /\ row' = [row EXCEPT ![c] = FullItem(row[c].uuid)]
      /\ Converge(c, FullItem(row[c].uuid), deduped[c])
  BY DEF Hydrate, readOnly
<1>2. /\ job[c].state = "present" /\ row[c].uuid \in ever[job[c].key]
      /\ \A u \in todo[c] : Doomed(job[c].key, u)
  BY <1>1 DEF SurvivorInv, CallInv, KeepPlaces, RowPlaces
<1>3. row'[c].uuid = row[c].uuid /\ \A d \in Callers : d # c => row'[d] = row[d]
  BY <1>1 DEF TypeOK, FoundOK, FullItem
<1>4. /\ OthersSame(c) /\ post'[c].op \in {"none", "add"}
      /\ pc'[c] \in {"done", "add", "before_update", "hydrate"}
  BY <1>1, <1>2, ResolveEffect
<1>5. OthersFound(c)
  BY <1>1, <1>3 DEF OthersFound, SameFound
<1>6. (\A u \in todo[c] : Doomed(job[c].key, u))'
  BY <1>1, <1>2 DEF Doomed, store
<1>7. CallInv(c)'
  BY <1>1, <1>2, <1>3, <1>4, <1>6
  DEF CallInv, Harmless, KeepPlaces, RowPlaces, Settled, store
<1> QED
  BY <1>1, <1>4, <1>5, <1>7, CallerStep

\* The only deletion a call sends is of a doomed record.
LEMMA CleanGetKeeps ==
    ASSUME TypeOK, SurvivorInv, NEW c \in Callers, CleanGet(c)
    PROVE  SurvivorInv'
<1>1. PICK u \in todo[c] : SendTo(c, "clean_del", "del", u)
  BY DEF CleanGet
<1>2. pc[c] = "clean_get" /\ UNCHANGED <<store, late, job, row, todo>>
  BY DEF CleanGet, readOnly, found
<1>3. /\ job[c].state = "present" /\ row[c].uuid \in ever[job[c].key]
      /\ \A v \in todo[c] : Doomed(job[c].key, v)
  BY <1>2 DEF SurvivorInv, CallInv, KeepPlaces, RowPlaces
<1>4. /\ OthersSame(c) /\ pc'[c] = "clean_del"
      /\ post'[c].op = "del" /\ post'[c].uuid = u /\ post'[c].key = job[c].key
  BY <1>1, SendEffect
<1>5. OthersFound(c)
  BY <1>2 DEF OthersFound, SameFound
<1>6. Harmless(post[c])'
  BY <1>2, <1>3, <1>4 DEF Harmless, Doomed, store
<1>7. (\A v \in todo[c] : Doomed(job[c].key, v))'
  BY <1>2, <1>3 DEF Doomed, store
<1>8. CallInv(c)'
  BY <1>2, <1>3, <1>4, <1>6, <1>7 DEF CallInv, KeepPlaces, RowPlaces, Settled, store
<1> QED
  BY <1>2, <1>4, <1>5, <1>8, CallerStep

LEMMA NextDuplicateKeeps ==
    ASSUME TypeOK, SurvivorInv, NEW c \in Callers,
           pc[c] \in {"clean_del", "clean_apply"},
           NextDuplicate(c), UNCHANGED readOnly
    PROVE  SurvivorInv'
<1>1. PICK u \in todo[c] :
         /\ todo' = [todo EXCEPT ![c] = @ \ {u}]
         /\ Resolve(c, row[c], deduped[c]) \/ Goto(c, "clean_get")
  BY DEF NextDuplicate
<1>2. job[c].state = "present" /\ row[c].uuid \in ever[job[c].key]
  BY DEF SurvivorInv, CallInv, KeepPlaces, RowPlaces
<1>3. /\ OthersSame(c) /\ post'[c].op \in {"none", "add"}
      /\ pc'[c] \in {"done", "add", "before_update", "hydrate", "clean_get"}
  BY <1>1, <1>2, ResolveEffect, GotoEffect
<1>4. UNCHANGED <<store, late, job, row>>
  BY DEF NextDuplicate, readOnly
<1>5. todo'[c] \subseteq todo[c] /\ \A d \in Callers : d # c => todo'[d] = todo[d]
  BY <1>1 DEF TypeOK, FoundOK
<1>6. pc'[c] \in KeepPlaces \cup Settled
  BY <1>3 DEF KeepPlaces, Settled
<1> QED
  BY <1>2, <1>3, <1>4, <1>5, <1>6, SameFoundStep

LEMMA CleanedKeeps ==
    ASSUME TypeOK, SurvivorInv, NEW c \in Callers, CleanDeleted(c) \/ CleanApplied(c)
    PROVE  SurvivorInv'
<1>1. pc[c] \in {"clean_del", "clean_apply"} /\ UNCHANGED readOnly
  BY DEF CleanDeleted, CleanApplied
<1>2. CASE NextDuplicate(c)
  BY <1>1, <1>2, NextDuplicateKeeps
<1>3. CASE SendTo(c, "clean_apply", "apply", NoUuid) /\ UNCHANGED found
  <2>1. OthersSame(c) /\ pc'[c] = "clean_apply" /\ post'[c].op = "apply"
    BY <1>3, SendEffect
  <2>2. UNCHANGED <<store, late, job, row, todo>>
    BY <1>1, <1>3 DEF readOnly, found
  <2>3. job[c].state = "present" /\ row[c].uuid \in ever[job[c].key]
    BY <1>1 DEF SurvivorInv, CallInv, KeepPlaces, RowPlaces
  <2>4. "clean_apply" \in KeepPlaces
    BY DEF KeepPlaces
  <2> QED
    BY <2>1, <2>2, <2>3, <2>4, SameFoundStep
<1> QED
  BY <1>2, <1>3 DEF CleanDeleted, CleanApplied

LEMMA BeforeUpdateKeeps ==
    ASSUME TypeOK, SurvivorInv, NEW c \in Callers, BeforeUpdate(c)
    PROVE  SurvivorInv'
<1>1. /\ pc[c] = "before_update" /\ UNCHANGED readOnly /\ UNCHANGED found
      /\ \/ \E r : End(c, "done", r)
         \/ SendTo(c, "set", "set", row[c].uuid)
  BY DEF BeforeUpdate, Finish
<1>2. CASE \E r : End(c, "done", r)
  BY <1>1, <1>2, EndKeeps DEF Settled
<1>3. CASE SendTo(c, "set", "set", row[c].uuid)
  <2>1. UNCHANGED <<store, late, job, row, todo>>
    BY <1>1 DEF readOnly, found
  <2>2. /\ job[c].state = "present" /\ row[c].uuid \in ever[job[c].key]
        /\ \A v \in todo[c] : Doomed(job[c].key, v)
    BY <1>1 DEF SurvivorInv, CallInv, KeepPlaces, RowPlaces
  <2>3. /\ OthersSame(c) /\ pc'[c] = "set" /\ post'[c].op = "set"
        /\ post'[c].uuid = row[c].uuid /\ post'[c].key = job[c].key
    BY <1>3, SendEffect
  <2>4. OthersFound(c)
    BY <2>1 DEF OthersFound, SameFound
  <2>5. Harmless(post[c])'
    BY <2>1, <2>2, <2>3 DEF Harmless, store
  <2>6. (\A v \in todo[c] : Doomed(job[c].key, v))'
    BY <2>1, <2>2 DEF Doomed, store
  <2>7. CallInv(c)'
    BY <2>1, <2>2, <2>3, <2>5, <2>6 DEF CallInv, KeepPlaces, RowPlaces, Settled, store
  <2> QED
    BY <2>1, <2>3, <2>4, <2>7, CallerStep
<1> QED
  BY <1>1, <1>2, <1>3

LEMMA WriteDoneKeeps ==
    ASSUME TypeOK, SurvivorInv, NEW c \in Callers, WriteDone(c)
    PROVE  SurvivorInv'
<1>1. pc[c] \in {"add", "set"} /\ job[c].state = "present"
  BY DEF WriteDone, SurvivorInv, CallInv, KeepPlaces, Settled
<1>2. /\ UNCHANGED <<store, late, job, todo>>
      /\ \E u : row' = [row EXCEPT ![c].uuid = u]
      /\ \/ SendTo(c, ApplyOf(pc[c]), "apply", NoUuid)
         \/ \E r : End(c, "done", r)
  BY DEF WriteDone, readOnly, Finish
<1>3. ApplyOf(pc[c]) \in {"add_apply", "set_apply"}
  BY <1>1 DEF ApplyOf
<1>4. /\ OthersSame(c) /\ post'[c].op \in {"none", "apply"}
      /\ pc'[c] \in {"add_apply", "set_apply", "done"}
  BY <1>2, <1>3, SendEffect, EndEffect
<1>5. OthersFound(c)
  BY <1>2 DEF OthersFound, SameFound, TypeOK, FoundOK
<1>6. (\A u \in todo[c] : Doomed(job[c].key, u))'
  BY <1>2 DEF SurvivorInv, CallInv, Doomed, store
<1>7. CallInv(c)'
  BY <1>1, <1>2, <1>4, <1>6 DEF CallInv, Harmless, KeepPlaces, RowPlaces, Settled
<1> QED
  BY <1>2, <1>4, <1>5, <1>7, CallerStep

LEMMA ApplyDoneKeeps ==
    ASSUME TypeOK, SurvivorInv, NEW c \in Callers, ApplyDone(c)
    PROVE  SurvivorInv'
<1>1. (\E r : End(c, "done", r)) /\ UNCHANGED readOnly /\ UNCHANGED found
  BY DEF ApplyDone, Finish
<1> QED
  BY <1>1, EndKeeps DEF Settled

LEMMA FailsKeep ==
    ASSUME TypeOK, SurvivorInv, NEW c \in Callers, ReadFails(c) \/ Refused(c)
    PROVE  SurvivorInv'
<1>1. (\E r : End(c, "raised", r)) /\ UNCHANGED readOnly /\ UNCHANGED found
  BY DEF ReadFails, Refused, Raise
<1> QED
  BY <1>1, EndKeeps DEF Settled

\* What an abandoned attempt may still do is what its caller might have done.
LEMMA LoseAnswerKeeps ==
    ASSUME TypeOK, SurvivorInv, NEW c \in Callers, LoseAnswer(c)
    PROVE  SurvivorInv'
<1>1. UNCHANGED <<store, job, row, todo>>
  BY DEF LoseAnswer, found
<1>2. CallInv(c)
  BY DEF SurvivorInv
<1>3. \A m \in late' : m \in late \/ m.req = post[c]
  BY DEF LoseAnswer
<1>4. Harmless(post[c]) /\ ever' = ever
  BY <1>1, <1>2 DEF CallInv, store
<1>5. \A m \in late' : m \in late \/ Harmless(m.req)
  BY <1>3, <1>4
<1>6. OthersFound(c)
  BY <1>1 DEF OthersFound, SameFound
<1>7. \/ UNCHANGED <<pc, post>>
      \/ \E r : End(c, "raised", r)
  BY DEF LoseAnswer, Raise
<1>8. /\ OthersSame(c)
      /\ \/ pc'[c] = pc[c] /\ post'[c] = post[c]
         \/ pc'[c] = "raised" /\ post'[c].op = "none"
  BY <1>7, EndEffect DEF OthersSame, SameCall
<1>9. CallInv(c)'
  <2>1. (\A u \in todo[c] : Doomed(job[c].key, u))'
    BY <1>1, <1>2 DEF CallInv, Doomed, store
  <2>2. Harmless(post[c])'
    BY <1>1, <1>4, <1>8 DEF Harmless, Doomed
  <2>3. (/\ pc[c] \in KeepPlaces \cup Settled \cup {"idle"}
         /\ pc[c] \in KeepPlaces => job[c].state = "present"
         /\ pc[c] \in RowPlaces => row[c].uuid \in ever[job[c].key])'
    BY <1>1, <1>2, <1>4, <1>8 DEF CallInv, KeepPlaces, RowPlaces, Settled
  <2> QED
    BY <2>1, <2>2, <2>3 DEF CallInv
<1> QED
  BY <1>1, <1>5, <1>6, <1>8, <1>9, CallerStep

\* The appliance only ever executes harmless requests.
LEMMA ApplianceKeeps ==
    ASSUME TypeOK, SurvivorInv,
           (\E c \in Callers : Execute(c) \/ Refuse(c)) \/ LateExecute
    PROVE  SurvivorInv'
<1>1. UNCHANGED <<pc, post, row, todo, job>> /\ late' \subseteq late
  BY DEF Execute, Refuse, LateExecute, call, found
<1>2. (StoreInv' /\ Growing)
  <2>1. CASE \E c \in Callers : Execute(c)
    <3>1. PICK c \in Callers, u \in Uuids \cup {NoUuid} : Perform(post[c], u)
      BY <2>1 DEF Execute
    <3>2. post[c] \in Requests /\ Harmless(post[c])
      BY DEF SurvivorInv, CallInv, TypeOK, CallOK
    <3> QED
      BY <3>1, <3>2, PerformKeeps DEF SurvivorInv, TypeOK
  <2>2. CASE \E c \in Callers : Refuse(c)
    BY <2>2 DEF Refuse, store, SurvivorInv, StoreInv, Growing, Live, Copies, Doomed
  <2>3. CASE LateExecute
    <3>1. PICK m \in late, u \in Uuids \cup {NoUuid} : Perform(m.req, u)
      BY <2>3 DEF LateExecute
    <3>2. m.req \in Requests /\ Harmless(m.req)
      BY DEF SurvivorInv, TypeOK, StoreOK, LateRequests
    <3> QED
      BY <3>1, <3>2, PerformKeeps DEF SurvivorInv, TypeOK
  <2> QED
    BY <2>1, <2>2, <2>3
<1>3. \A c \in Callers : CallInv(c)'
  BY <1>1, <1>2, SameCallKeeps DEF SurvivorInv, SameCall, SameFound
<1>4. \A m \in late' : Harmless(m.req)'
  <2> TAKE m \in late'
  <2>1. m \in late /\ m.req \in Requests
    BY <1>1 DEF TypeOK, StoreOK, LateRequests
  <2> QED
    BY <1>2, <2>1, GrowingKeepsHarmless DEF SurvivorInv
<1> QED
  BY <1>2, <1>3, <1>4 DEF SurvivorInv

-----------------------------------------------------------------------------
(* The theorem *)

LEMMA StepKeeps ==
    ASSUME TypeOK, SurvivorInv, KeepingJobs, [Next]_vars
    PROVE  SurvivorInv'
<1>1. \A c \in Callers : ~Fetch(c) /\ ~BeforeDelete(c)
  BY DEF Fetch, BeforeDelete, SurvivorInv, CallInv, KeepPlaces, Settled
<1>2. CASE \E c \in Callers : Start(c)
  BY <1>2, StartKeeps
<1>3. CASE \E c \in Callers : Step(c)
  BY <1>1, <1>3, SearchKeeps, HydrateKeeps, CleanGetKeeps, CleanedKeeps,
     BeforeUpdateKeeps, WriteDoneKeeps, ApplyDoneKeeps, FailsKeep, LoseAnswerKeeps
  DEF Step
<1>4. CASE (\E c \in Callers : Execute(c) \/ Refuse(c)) \/ LateExecute
  BY <1>4, ApplianceKeeps
<1>5. CASE UNCHANGED vars
  BY <1>5 DEF vars, store, call, found, SurvivorInv, StoreInv, CallInv, Harmless,
     Doomed, Live, Copies
<1> QED
  BY <1>2, <1>3, <1>4, <1>5 DEF Next

\* The lowest uuid that ever carried an identity is not doomed, so it is there.
LEMMA SurvivorInvImplies == TypeOK /\ SurvivorInv => ElderSurvives
<1> SUFFICES ASSUME TypeOK, SurvivorInv, NEW k \in Keys, NEW m \in ever[k],
                    \A u \in ever[k] : m <= u
             PROVE  m \in Copies(k)
  BY DEF ElderSurvives
<1>1. ever[k] \subseteq Nat
  BY UuidsPositive DEF TypeOK, StoreOK
<1>2. ~Doomed(k, m)
  BY <1>1 DEF Doomed
<1> QED
  BY <1>2 DEF SurvivorInv, StoreInv

\* However many callers collapse duplicates of an identity at once, from pages
\* that miss some of them, with deletions retried and executed late
\* (_collapse_duplicates, _request), the oldest of its records is never deleted.
THEOREM ElderAlwaysSurvives == Spec => []ElderSurvives
<1>1. CASE KeepingJobs
  <2>1. Init => TypeOK /\ SurvivorInv
    BY <1>1, InitTypeOK, InitSurvivor
  <2>2. TypeOK /\ SurvivorInv /\ [Next]_vars => SurvivorInv'
    BY <1>1, StepKeeps
  <2> QED
    BY <2>1, <2>2, SurvivorInvImplies, TypeCorrect, PTL DEF Spec
<1>2. CASE ~KeepingJobs
  <2>1. ElderSurvives
    BY <1>2 DEF ElderSurvives
  <2> QED
    BY <2>1, PTL
<1> QED
  BY <1>1, <1>2

-----------------------------------------------------------------------------
(* Every change is applied: QuiescentIsApplied, by AppliedInv *)

Applying == {"clean_apply"} \cup ApplyPlaces
Unapplied == {"clean_del", "add", "set", "del", "raised"}

\* A call that wrote, or may have, and has no answer to its reconfigure yet; one
\* that raised owes it for good.
Owes(c) == pc[c] \in Unapplied \/ (pc[c] \in Applying /\ wire[c] # "ok")

\* A POST is in flight at the awaits of POSTs only, a reconfigure at its own; a
\* call that was started has used up its run.
CallApplies(c) ==
    /\ wire[c] # "none" => /\ pc[c] \in Writing
                           /\ post[c].op = "apply" <=> pc[c] \in Applying
    /\ pc[c] # "idle" => runs[c] = 1

\* What makes QuiescentIsApplied inductive: while the configurations differ, some
\* call owes a reconfigure.
AppliedInv ==
    /\ late = {}
    /\ ~HasApply => running = saved
    /\ running = saved \/ \E c \in Callers : Owes(c)
    /\ \A c \in Callers : CallApplies(c)

\* What a step of caller c leaves to the others.
OthersOwe(c) ==
    \A d \in Callers : d # c =>
        SameCall(d) /\ wire'[d] = wire[d] /\ runs'[d] = runs[d]

LEMMA CallerApplied ==
    ASSUME AppliedInv, NEW c \in Callers, UNCHANGED <<store, late>>, OthersOwe(c),
           CallApplies(c)', Owes(c) => Owes(c)' \/ running = saved
    PROVE  AppliedInv'
<1>1. \A d \in Callers : d # c => (Owes(d) => Owes(d)') /\ CallApplies(d)'
  BY DEF AppliedInv, OthersOwe, SameCall, Owes, CallApplies
<1>2. running' = running /\ saved' = saved
  BY DEF store
<1>3. running = saved \/ \E d \in Callers : Owes(d)'
  BY <1>1 DEF AppliedInv
<1> QED
  BY <1>1, <1>2, <1>3 DEF AppliedInv

\* Where a call stands after a step, and what it has in flight.
LEMMA GotoMoves ==
    ASSUME TypeOK, UNCHANGED runs, NEW c \in Callers, NEW p, Goto(c, p)
    PROVE  OthersOwe(c) /\ pc'[c] = p /\ wire'[c] = "none"
BY DEF TypeOK, CallOK, Goto, OthersOwe, SameCall

LEMMA EndMoves ==
    ASSUME TypeOK, UNCHANGED runs, NEW c \in Callers, NEW p, NEW r, End(c, p, r)
    PROVE  OthersOwe(c) /\ pc'[c] = p /\ wire'[c] = "none"
BY DEF TypeOK, CallOK, End, OthersOwe, SameCall

LEMMA SendMoves ==
    ASSUME TypeOK, UNCHANGED runs, NEW c \in Callers, NEW p, NEW op, NEW u,
           SendTo(c, p, op, u)
    PROVE  /\ OthersOwe(c) /\ pc'[c] = p
           /\ wire'[c] = "sent" /\ post'[c].op = op
BY DEF TypeOK, CallOK, SendTo, OthersOwe, SameCall

\* A decision sends a create, or nothing yet.
LEMMA ResolveMoves ==
    ASSUME TypeOK, UNCHANGED runs, NEW c \in Callers, NEW ex, NEW dups,
           Resolve(c, ex, dups) \/ Converge(c, ex, dups)
    PROVE  /\ OthersOwe(c)
           /\ \/ /\ pc'[c] \in {"done", "hydrate", "before_update", "before_delete"}
                 /\ wire'[c] = "none"
              \/ pc'[c] = "add" /\ wire'[c] = "sent" /\ post'[c].op = "add"
<1>1. \/ \E r : End(c, "done", r)
      \/ SendTo(c, "add", "add", NoUuid)
      \/ \E p \in {"hydrate", "before_update", "before_delete"} : Goto(c, p)
  BY DEF Resolve, Converge, Finish
<1> QED
  BY <1>1, GotoMoves, EndMoves, SendMoves

\* From a read a call goes anywhere without owing anything new.
LEMMA ReadApplied ==
    ASSUME TypeOK, AppliedInv, NEW c \in Callers,
           \/ Fetch(c) \/ Search(c) \/ Hydrate(c) \/ CleanGet(c)
           \/ BeforeUpdate(c) \/ BeforeDelete(c) \/ ReadFails(c)
    PROVE  AppliedInv'
<1>1. pc[c] \in Reading /\ UNCHANGED readOnly
  BY DEF Fetch, Search, Hydrate, CleanGet, BeforeUpdate, BeforeDelete, ReadFails,
         Reading
<1>2. \/ \E ex, dups : Resolve(c, ex, dups) \/ Converge(c, ex, dups)
      \/ Goto(c, "clean_get")
      \/ \E p \in Settled : \E r : End(c, p, r)
      \/ \E w \in {<<"clean_del", "del">>, <<"set", "set">>, <<"del", "del">>} :
            \E u : SendTo(c, w[1], w[2], u)
  BY DEF Fetch, Search, MatchNone, MatchAmbiguous, MatchSurvivor, Hydrate, CleanGet,
         BeforeUpdate, BeforeDelete, ReadFails, Raise, Finish, Settled
<1>3. UNCHANGED <<store, late>> /\ UNCHANGED runs
  BY <1>1 DEF readOnly
<1>4. ~Owes(c) /\ runs[c] = 1
  BY <1>1 DEF Owes, Reading, Unapplied, Applying, ApplyPlaces, AppliedInv, CallApplies
<1> USE DEF CallApplies, Writing, Applying, ApplyPlaces
<1>5. CASE \E ex, dups : Resolve(c, ex, dups) \/ Converge(c, ex, dups)
  <2>1. OthersOwe(c) /\ CallApplies(c)'
    BY <1>3, <1>4, <1>5, ResolveMoves
  <2> QED
    BY <1>3, <1>4, <2>1, CallerApplied
<1>6. CASE Goto(c, "clean_get") \/ \E p \in Settled : \E r : End(c, p, r)
  <2>1. OthersOwe(c) /\ wire'[c] = "none" /\ runs'[c] = 1
    BY <1>3, <1>4, <1>6, GotoMoves, EndMoves
  <2> QED
    BY <1>3, <1>4, <2>1, CallerApplied
<1>7. ASSUME NEW w \in {<<"clean_del", "del">>, <<"set", "set">>, <<"del", "del">>},
             NEW u, SendTo(c, w[1], w[2], u)
      PROVE  AppliedInv'
  <2>1. /\ OthersOwe(c) /\ runs'[c] = 1
        /\ pc'[c] = w[1] /\ wire'[c] = "sent" /\ post'[c].op = w[2]
    BY <1>3, <1>4, <1>7, SendMoves
  <2>2. CallApplies(c)'
    BY <2>1
  <2> QED
    BY <1>3, <1>4, <2>1, <2>2, CallerApplied
<1> QED
  BY <1>2, <1>5, <1>6, <1>7

\* A write that was answered is applied next, unless changes are immediate; a
\* reconfigure that was answered settles what its call owed.
LEMMA AnsweredApplied ==
    ASSUME TypeOK, AppliedInv, NEW c \in Callers,
           CleanDeleted(c) \/ CleanApplied(c) \/ WriteDone(c) \/ ApplyDone(c)
    PROVE  AppliedInv'
<1>1. UNCHANGED <<store, late>> /\ UNCHANGED runs
  BY DEF CleanDeleted, CleanApplied, WriteDone, ApplyDone, readOnly
<1>2. pc[c] \in Writing /\ wire[c] = "ok" /\ runs[c] = 1
  BY DEF CleanDeleted, CleanApplied, WriteDone, ApplyDone, Writing, AppliedInv,
         CallApplies
<1>3. CASE \/ SendTo(c, "clean_apply", "apply", NoUuid)
           \/ SendTo(c, ApplyOf(pc[c]), "apply", NoUuid)
  <2>1. \E p \in Applying : SendTo(c, p, "apply", NoUuid)
    BY <1>3 DEF ApplyOf, Applying, ApplyPlaces
  <2>2. /\ OthersOwe(c) /\ pc'[c] \in Applying /\ runs'[c] = 1
        /\ wire'[c] = "sent" /\ post'[c].op = "apply"
    BY <1>1, <1>2, <2>1, SendMoves
  <2>3. CallApplies(c)' /\ Owes(c)'
    BY <2>2 DEF CallApplies, Owes, Applying, ApplyPlaces, Writing
  <2> QED
    BY <1>1, <2>2, <2>3, CallerApplied
<1>4. CASE /\ ~HasApply \/ pc[c] \in Applying
           /\ NextDuplicate(c) \/ \E r : End(c, "done", r)
  <2>1. Owes(c) => running = saved
    BY <1>2, <1>4 DEF AppliedInv, Owes, Unapplied, Applying, ApplyPlaces
  <2>2. \/ \E ex, dups : Resolve(c, ex, dups) \/ Converge(c, ex, dups)
        \/ Goto(c, "clean_get") \/ \E r : End(c, "done", r)
    BY <1>4 DEF NextDuplicate
  <2>3. /\ OthersOwe(c) /\ runs'[c] = 1
        /\ \/ wire'[c] = "none"
           \/ pc'[c] = "add" /\ wire'[c] = "sent" /\ post'[c].op = "add"
    BY <1>1, <1>2, <2>2, GotoMoves, EndMoves, ResolveMoves
  <2>4. CallApplies(c)'
    BY <2>3 DEF CallApplies, Writing, Applying, ApplyPlaces
  <2> QED
    BY <1>1, <2>1, <2>3, <2>4, CallerApplied
<1> QED
  BY <1>3, <1>4 DEF CleanDeleted, CleanApplied, WriteDone, ApplyDone, Finish, Applying,
                    ApplyPlaces

\* A caller makes one call: it starts from idle.
LEMMA StartApplied ==
    ASSUME TypeOK, AppliedInv, MaxRuns = 1, NEW c \in Callers, Start(c)
    PROVE  AppliedInv'
<1>1. runs[c] < 1 /\ runs[c] \in 0..1 /\ runs' = [runs EXCEPT ![c] = @ + 1]
  BY DEF Start, TypeOK
<1>2. pc[c] = "idle"
  BY <1>1 DEF AppliedInv, CallApplies
<1>3. PICK p \in {"raised", "search", "fetch"} : \E r : End(c, p, r)
  BY DEF Start, Raise
<1>4. UNCHANGED <<store, late>>
  BY DEF Start
<1>5. pc'[c] = p /\ wire'[c] = "none" /\ runs'[c] = 1 /\ OthersOwe(c)
  BY <1>1, <1>3 DEF End, OthersOwe, SameCall, TypeOK, CallOK
<1>6. CallApplies(c)' /\ ~Owes(c)
  BY <1>2, <1>5 DEF CallApplies, Owes, Unapplied, Applying, ApplyPlaces
<1> QED
  BY <1>4, <1>5, <1>6, CallerApplied

\* A call whose request was refused, or never answered, owes what it owed.
LEMMA FailApplied ==
    ASSUME TypeOK, AppliedInv, MaxLate = 0, NEW c \in Callers,
           Refused(c) \/ LoseAnswer(c)
    PROVE  AppliedInv'
<1>1. wire[c] # "none" /\ UNCHANGED store /\ UNCHANGED runs /\ runs[c] = 1
  <2>1. wire[c] # "none" /\ UNCHANGED store /\ UNCHANGED runs
    BY DEF Refused, LoseAnswer, readOnly
  <2> QED
    BY <2>1 DEF AppliedInv, CallApplies, Writing
<1>2. UNCHANGED late
  <2>1. ~(Cardinality(late) < MaxLate)
    BY FS_EmptySet DEF AppliedInv
  <2> QED
    BY <2>1 DEF Refused, LoseAnswer, readOnly
<1>3. CASE \E r : End(c, "raised", r)
  <2>1. OthersOwe(c) /\ pc'[c] = "raised" /\ wire'[c] = "none" /\ runs'[c] = 1
    BY <1>1, <1>3, EndMoves
  <2>2. CallApplies(c)' /\ Owes(c)'
    BY <2>1 DEF CallApplies, Owes, Unapplied
  <2> QED
    BY <1>1, <1>2, <2>1, <2>2, CallerApplied
<1>4. CASE wire' = [wire EXCEPT ![c] = "sent"] /\ UNCHANGED <<pc, post>>
  <2>1. OthersOwe(c) /\ wire'[c] = "sent" /\ pc'[c] = pc[c] /\ post'[c] = post[c]
    BY <1>1, <1>4 DEF OthersOwe, SameCall, TypeOK, CallOK
  <2>2. CallApplies(c)' /\ (Owes(c) => Owes(c)')
    BY <1>1, <2>1 DEF AppliedInv, CallApplies, Owes
  <2> QED
    BY <1>1, <1>2, <2>1, <2>2, CallerApplied
<1> QED
  BY <1>3, <1>4 DEF Refused, LoseAnswer, Raise

\* The appliance executes writes of calls that owe, and reconfigures, after which
\* the two configurations are the same.
LEMMA ApplianceApplied ==
    ASSUME TypeOK, AppliedInv,
           (\E c \in Callers : Execute(c) \/ Refuse(c)) \/ LateExecute
    PROVE  AppliedInv'
<1>1. PICK c \in Callers : Execute(c) \/ Refuse(c)
  BY DEF LateExecute, AppliedInv
<1>2. /\ wire[c] = "sent" /\ wire'[c] # "none" /\ UNCHANGED <<late, pc, post, runs>>
      /\ \A d \in Callers : d # c => wire'[d] = wire[d]
  BY <1>1 DEF Execute, Refuse, TypeOK, CallOK
<1>3. \A d \in Callers : CallApplies(d)'
  BY <1>2 DEF AppliedInv, CallApplies
<1>4. \A d \in Callers : d # c => (Owes(d) => Owes(d)')
  BY <1>2 DEF Owes
<1>5. CASE Refuse(c)
  <2>1. wire'[c] = "refused" /\ UNCHANGED store
    BY <1>5 DEF Refuse, TypeOK, CallOK
  <2>2. Owes(c) => Owes(c)'
    BY <1>2, <2>1 DEF Owes
  <2> QED
    BY <1>2, <1>3, <1>4, <2>1, <2>2 DEF AppliedInv, store
<1>6. CASE Execute(c)
  <2>1. PICK u \in Uuids \cup {NoUuid} : Perform(post[c], u)
    BY <1>6 DEF Execute
  <2>2. CASE post[c].op = "apply"
    BY <1>2, <1>3, <2>1, <2>2 DEF Perform, AppliedInv
  <2>3. CASE post[c].op # "apply"
    <3>1. pc[c] \in Unapplied
      BY <1>2, <2>3 DEF AppliedInv, CallApplies, Writing, Unapplied, Applying,
                        ApplyPlaces
    <3>2. Owes(c)'
      BY <1>2, <3>1 DEF Owes
    <3>3. ~HasApply => running' = saved'
      BY <2>1, <2>3 DEF Perform, Mutate
    <3> QED
      BY <1>2, <1>3, <3>2, <3>3 DEF AppliedInv
  <2> QED
    BY <2>2, <2>3
<1> QED
  BY <1>1, <1>5, <1>6

LEMMA StepApplied ==
    ASSUME TypeOK, AppliedInv, MaxRuns = 1, MaxLate = 0, [Next]_vars
    PROVE  AppliedInv'
<1>1. CASE UNCHANGED vars
  BY <1>1 DEF vars, store, call, AppliedInv, CallApplies, Owes
<1> QED
  BY <1>1, StartApplied, ReadApplied, AnsweredApplied, FailApplied, ApplianceApplied
  DEF Next, Step

\* The reconfigure calls of ensure() (_apply) bring every change to the running
\* configuration: once each of any number of calls has returned, the
\* appliance runs what it saved.  A call that raised owes its reconfigure for good,
\* and a request executed after its caller gave up is never applied: hence a
\* caller for each call, and no abandoned request.
THEOREM QuiescentHolds ==
    ASSUME MaxRuns = 1, MaxLate = 0
    PROVE  Spec => []QuiescentIsApplied
<1>1. Init => AppliedInv
  BY DEF Init, AppliedInv, CallApplies
<1>2. TypeOK /\ AppliedInv /\ [Next]_vars => AppliedInv'
  BY StepApplied
<1>3. AppliedInv => QuiescentIsApplied
  BY DEF AppliedInv, QuiescentIsApplied, Owes, Unapplied, Applying, ApplyPlaces
<1> QED
  BY <1>1, <1>2, <1>3, TypeCorrect, PTL DEF Spec

-----------------------------------------------------------------------------
(* Only what was asked for is deleted: OnlyAskedDeletes, by AskedInv *)

\* Calls that create or update find their record by its match keys.
PresentByKeys == \A j \in Jobs : j.state = "present" => j.uuid = NoUuid

\* The deletions a call may send, and the requests it may have in flight.
Warranted(j, u) ==
    \/ j.state = "absent" /\ (j.uuid = u \/ u \in ever[j.key])
    \/ j.dedupe /\ Doomed(j.key, u)
Meant(j, req) ==
    /\ req.op = "set" => req.uuid \in ever[req.key]
    /\ req.op = "del" => ~j.check /\ Warranted(j, req.uuid)

FoundPlaces == CleanPlaces \cup DecidedPlaces

CallAsked(c) ==
    /\ pc[c] # "idle" \/ wire[c] # "none" => runs[c] = 1
    /\ pc[c] \in Reading \cup Writing => job[c].state \in {"present", "absent"}
    /\ pc[c] \in {"fetch", "before_delete"} => job[c].state = "absent"
    /\ pc[c] = "before_update" => job[c].state = "present"
    /\ pc[c] \in FoundPlaces =>
          \/ row[c].uuid \in ever[job[c].key]
          \/ job[c].state = "absent" /\ row[c].uuid = job[c].uuid
    /\ \A u \in todo[c] : job[c].dedupe /\ Doomed(job[c].key, u)
    /\ Meant(job[c], post[c])

\* What makes OnlyAskedDeletes an invariant of steps: records keep their identity,
\* and every deletion in flight, queued or executed late was asked for by
\* its caller's only call.
AskedInv ==
    /\ Owned
    /\ \A c \in Callers : CallAsked(c)
    /\ \A m \in late : runs[m.by] = 1 /\ Meant(job[m.by], m.req)

\* What was meant stays so while histories grow.
LEMMA GrowingKeepsMeant ==
    ASSUME Growing, NEW j \in Jobs, NEW req \in Requests, Meant(j, req)
    PROVE  Meant(j, req)'
<1>1. j.key \in Keys /\ req.key \in Keys
  BY JobFields DEF Requests
<1>2. Warranted(j, req.uuid) => Warranted(j, req.uuid)'
  BY <1>1, GrowingKeeps DEF Warranted, Growing
<1> QED
  BY <1>1, <1>2 DEF Meant, Growing

LEMMA GrowingKeepsAsked ==
    ASSUME TypeOK, Growing, NEW d \in Callers, CallAsked(d), SameCall(d), SameFound(d),
           wire'[d] # "none" => wire[d] # "none", runs'[d] = runs[d]
    PROVE  CallAsked(d)'
<1>1. job[d] \in Jobs /\ job[d].key \in Keys /\ post[d] \in Requests
  BY JobFields DEF TypeOK, CallOK
<1>2. Meant(job[d], post[d])'
  <2>1. Meant(job[d], post[d]) /\ post[d].key \in Keys
    BY <1>1 DEF CallAsked, Requests
  <2> QED
    BY <1>1, <2>1 DEF SameCall, SameFound, Meant, Warranted, Doomed, Growing
<1>3. \A u \in todo'[d] : job'[d].dedupe /\ Doomed(job[d].key, u)'
  BY <1>1, GrowingKeeps DEF CallAsked, SameFound
<1>4. (\A u \in todo[d] : job[d].dedupe /\ Doomed(job[d].key, u))'
  BY <1>3 DEF SameFound, Doomed
<1>5. (pc[d] \in FoundPlaces =>
          \/ row[d].uuid \in ever[job[d].key]
          \/ job[d].state = "absent" /\ row[d].uuid = job[d].uuid)'
  BY <1>1 DEF CallAsked, SameFound, SameCall, Growing
<1> QED
  BY <1>2, <1>4, <1>5 DEF CallAsked, SameCall, SameFound

\* A caller's step keeps the invariant when it keeps it for that caller; only its
\* first call may begin.
LEMMA CallerAsked ==
    ASSUME TypeOK, AskedInv, NEW c \in Callers, UNCHANGED store,
           OthersOwe(c), OthersFound(c),
           UNCHANGED <<job, runs>> \/ runs[c] # 1,
           \A m \in late' : \/ m \in late
                            \/ m.by = c /\ runs'[c] = 1 /\ Meant(job'[c], m.req),
           CallAsked(c)'
    PROVE  AskedInv'
<1>1. Growing /\ ever' = ever /\ saved' = saved
  BY DEF Growing, store
<1>2. Owned'
  BY <1>1 DEF AskedInv, Owned, Live
<1>3. \A d \in Callers : CallAsked(d)'
  BY <1>1, GrowingKeepsAsked DEF AskedInv, OthersOwe, OthersFound
<1>4. ASSUME NEW m \in late'
      PROVE  runs'[m.by] = 1 /\ Meant(job[m.by], m.req)'
  <2>1. CASE m \in late
    <3>1. m.by \in Callers /\ runs[m.by] = 1 /\ Meant(job[m.by], m.req)
      BY <2>1 DEF AskedInv, TypeOK, StoreOK, LateRequests
    <3>2. runs'[m.by] = 1 /\ job'[m.by] = job[m.by]
      BY <3>1 DEF OthersOwe, OthersFound, SameFound
    <3> QED
      BY <1>1, <3>1, <3>2 DEF Meant, Warranted, Doomed
  <2>2. CASE m.by = c /\ runs'[c] = 1 /\ Meant(job'[c], m.req)
    BY <1>1, <2>2 DEF Meant, Warranted, Doomed
  <2> QED
    BY <1>4, <2>1, <2>2
<1> QED
  BY <1>2, <1>3, <1>4 DEF AskedInv

\* A step that keeps what the caller found, and leaves no set and no delete in
\* flight.
LEMMA SameFoundAsked ==
    ASSUME TypeOK, AskedInv, NEW c \in Callers,
           UNCHANGED <<store, late, job, runs, row>>,
           \A d \in Callers : d # c => todo'[d] = todo[d],
           todo'[c] \subseteq todo[c], runs[c] = 1,
           OthersOwe(c), post'[c].op \in {"none", "add", "apply"},
           pc'[c] \in Reading \cup Writing => job[c].state \in {"present", "absent"},
           pc'[c] # "fetch",
           pc'[c] = "before_delete" => job[c].state = "absent",
           pc'[c] = "before_update" => job[c].state = "present",
           pc'[c] \in FoundPlaces => pc[c] \in FoundPlaces
    PROVE  AskedInv'
<1>1. OthersFound(c)
  BY DEF OthersFound, SameFound
<1>2. CallAsked(c)
  BY DEF AskedInv
<1>3. CallAsked(c)'
  BY <1>2 DEF CallAsked, Meant, Doomed, store
<1> QED
  BY <1>1, <1>3, CallerAsked

LEMMA EndAsked ==
    ASSUME TypeOK, AskedInv, NEW c \in Callers, runs[c] = 1, NEW p \in Settled, NEW r,
           End(c, p, r), UNCHANGED <<readOnly, found>>
    PROVE  AskedInv'
<1>1. pc'[c] = p /\ post'[c].op = "none" /\ OthersOwe(c)
  BY EndEffect, EndMoves DEF readOnly
<1>2. p \notin Reading \cup Writing /\ p \notin FoundPlaces
  BY DEF Settled, Reading, Writing, FoundPlaces, CleanPlaces, DecidedPlaces
<1>3. p \notin {"fetch", "before_delete", "before_update"}
  BY DEF Settled
<1> QED
  BY <1>1, <1>2, <1>3, SameFoundAsked DEF readOnly, found

\* From a record found to the next await, which is one of the state asked for.
LEMMA ResolveAsked ==
    ASSUME TypeOK, UNCHANGED runs, NEW c \in Callers, NEW ex, NEW dups,
           Resolve(c, ex, dups) \/ Converge(c, ex, dups)
    PROVE  /\ OthersOwe(c)
           /\ pc'[c] \in {"done", "add", "hydrate", "before_update", "before_delete"}
           /\ post'[c].op \in {"none", "add"}
           /\ pc'[c] = "before_delete" => job[c].state = "absent"
           /\ pc'[c] = "before_update" => job[c].state = "present"
           /\ pc'[c] \in FoundPlaces => ex.uuid # NoUuid
<1>1. \/ \E r : End(c, "done", r)
      \/ SendTo(c, "add", "add", NoUuid)
      \/ Goto(c, "hydrate") /\ ex.uuid # NoUuid
      \/ Goto(c, "before_update") /\ job[c].state = "present" /\ ex.uuid # NoUuid
      \/ Goto(c, "before_delete") /\ job[c].state = "absent" /\ ex.uuid # NoUuid
  BY DEF Resolve, Converge, Finish, NeedsHydration
<1> QED
  BY <1>1, EndMoves, EndEffect, SendMoves, SendEffect, GotoMoves, GotoEffect
  DEF FoundPlaces, CleanPlaces, DecidedPlaces

\* A call's only start, from idle.
LEMMA StartAsked ==
    ASSUME TypeOK, AskedInv, MaxRuns = 1, PresentByKeys, NEW c \in Callers, Start(c)
    PROVE  AskedInv'
<1>1. runs[c] # 1 /\ runs'[c] = 1 /\ \A d \in Callers : d # c => runs'[d] = runs[d]
  BY DEF Start, TypeOK
<1>2. PICK j \in Jobs :
         /\ job' = [job EXCEPT ![c] = j]
         /\ \/ \E r : End(c, "raised", r)
            \/ /\ j.state = "absent" \/ (j.state = "present" /\ j.valid)
               /\ \E r : End(c, IF j.uuid = NoUuid THEN "search" ELSE "fetch", r)
  BY DEF Start, Raise
<1>3. \/ \E r : End(c, "raised", r)
      \/ j.state \in {"present", "absent"} /\ \E r : End(c, "search", r)
      \/ j.state = "absent" /\ \E r : End(c, "fetch", r)
  BY <1>2 DEF PresentByKeys
<1>4. /\ post'[c].op = "none" /\ OthersSame(c)
      /\ wire'[c] = "none" /\ \A d \in Callers : d # c => wire'[d] = wire[d]
      /\ \/ pc'[c] = "raised"
         \/ pc'[c] = "search" /\ j.state \in {"present", "absent"}
         \/ pc'[c] = "fetch" /\ j.state = "absent"
  <2>1. PICK p \in {"raised", "search", "fetch"} : \E r : End(c, p, r)
    BY <1>3
  <2>2. /\ OthersSame(c) /\ post'[c].op = "none" /\ pc'[c] = p
        /\ wire'[c] = "none" /\ \A d \in Callers : d # c => wire'[d] = wire[d]
    BY <2>1, EndEffect DEF End, TypeOK, CallOK
  <2>3. \A q : \A r : End(c, q, r) => pc'[c] = q
    BY EndEffect
  <2> QED
    BY <1>3, <2>2, <2>3
<1>5. /\ UNCHANGED <<store, late>> /\ job'[c] = j /\ todo'[c] = {}
      /\ OthersFound(c) /\ OthersOwe(c)
  BY <1>1, <1>2, <1>4
  DEF Start, OthersFound, SameFound, OthersOwe, OthersSame, SameCall, TypeOK, FoundOK
<1>6. CallAsked(c)'
  BY <1>1, <1>4, <1>5
  DEF CallAsked, Meant, FoundPlaces, CleanPlaces, DecidedPlaces, Reading, Writing
<1> QED
  BY <1>1, <1>4, <1>5, <1>6, CallerAsked

\* A record fetched by uuid is the one the call names; only deletions are left
\* to decide there.
LEMMA FetchAsked ==
    ASSUME TypeOK, AskedInv, NEW c \in Callers, Fetch(c) \/ Hydrate(c)
    PROVE  AskedInv'
<1>1. PICK u \in Live :
         /\ row' = [row EXCEPT ![c] = FullItem(u)]
         /\ \E dups : Converge(c, FullItem(u), dups)
         /\ \/ pc[c] = "fetch" /\ u = job[c].uuid
            \/ pc[c] = "hydrate" /\ u = row[c].uuid
  BY DEF Fetch, Hydrate
<1>2. UNCHANGED <<store, late, job, runs, todo>>
  BY DEF Fetch, Hydrate, readOnly
<1>3. /\ CallAsked(c) /\ runs[c] = 1 /\ job[c].state \in {"present", "absent"}
      /\ u \in ever[job[c].key] \/ (job[c].state = "absent" /\ u = job[c].uuid)
  BY <1>1 DEF AskedInv, CallAsked, Reading, FoundPlaces, DecidedPlaces
<1>4. row'[c].uuid = u /\ OthersFound(c)
  BY <1>1, <1>2 DEF TypeOK, FoundOK, FullItem, OthersFound, SameFound
<1>5. /\ OthersOwe(c) /\ post'[c].op \in {"none", "add"}
      /\ pc'[c] \in {"done", "add", "hydrate", "before_update", "before_delete"}
      /\ pc'[c] = "before_delete" => job[c].state = "absent"
      /\ pc'[c] = "before_update" => job[c].state = "present"
  BY <1>1, <1>2, ResolveAsked
<1>6. CallAsked(c)'
  BY <1>2, <1>3, <1>4, <1>5 DEF CallAsked, Meant, Doomed, store
<1> QED
  BY <1>2, <1>4, <1>5, <1>6, CallerAsked

LEMMA MatchesOwned ==
    ASSUME TypeOK, Owned, NEW c \in Callers, NEW page \in Pages,
           NEW u \in Matches(c, page)
    PROVE  u \in Uuids /\ u \in Nat /\ u \in ever[job[c].key]
BY UuidsPositive DEF Matches, Pages, Live, Owned

\* Of the rows that match only those above the survivor are queued, on request.
LEMMA SearchAsked ==
    ASSUME TypeOK, AskedInv, NEW c \in Callers, Search(c)
    PROVE  AskedInv'
<1>1. PICK page \in Pages :
         \/ MatchNone(c, Matches(c, page))
         \/ MatchAmbiguous(c, Matches(c, page))
         \/ \E survivor \in Matches(c, page) :
               MatchSurvivor(c, Matches(c, page), survivor)
  BY DEF Search
<1>2. /\ UNCHANGED readOnly /\ CallAsked(c)
      /\ runs[c] = 1 /\ job[c].state \in {"present", "absent"}
  BY DEF Search, AskedInv, CallAsked, Reading
<1>3. CASE MatchNone(c, Matches(c, page))
  <2>1. /\ OthersOwe(c) /\ pc'[c] \in {"done", "add"}
        /\ post'[c].op \in {"none", "add"}
    <3>1. Resolve(c, NoRow, {}) /\ NoRow.uuid = NoUuid /\ UNCHANGED runs
      BY <1>2, <1>3 DEF MatchNone, NoRow, readOnly
    <3> QED
      BY <3>1, ResolveAsked DEF FoundPlaces, DecidedPlaces
  <2>2. UNCHANGED <<store, late, job, runs, row, todo>>
    BY <1>2, <1>3 DEF MatchNone, readOnly, found
  <2>3. pc'[c] \notin FoundPlaces
    BY <2>1 DEF FoundPlaces, DecidedPlaces, CleanPlaces
  <2> QED
    BY <1>2, <2>1, <2>2, <2>3, SameFoundAsked
<1>4. CASE MatchAmbiguous(c, Matches(c, page))
  BY <1>2, <1>4, EndAsked DEF MatchAmbiguous, Raise, Settled
<1>5. ASSUME NEW survivor \in Matches(c, page),
             MatchSurvivor(c, Matches(c, page), survivor)
      PROVE  AskedInv'
  <2> DEFINE dups == Matches(c, page) \ {survivor}
  <2>1. /\ UNCHANGED <<store, late, job, runs>>
        /\ row' = [row EXCEPT ![c] = SearchRow(survivor)]
        /\ \/ Resolve(c, SearchRow(survivor), dups) /\ todo' = todo
           \/ /\ Goto(c, "clean_get") /\ todo' = [todo EXCEPT ![c] = dups]
              /\ dups = {} \/ job[c].dedupe
    BY <1>2, <1>5 DEF MatchSurvivor, readOnly
  <2>2. survivor \in ever[job[c].key]
    BY MatchesOwned DEF AskedInv
  <2>3. ASSUME NEW u \in dups
        PROVE  Doomed(job[c].key, u)
    <3>1. u \in ever[job[c].key] /\ u \in Nat /\ survivor \in Nat
      BY MatchesOwned DEF AskedInv
    <3>2. survivor < u
      BY <1>5, <3>1 DEF MatchSurvivor
    <3> QED
      BY <2>2, <3>1, <3>2 DEF Doomed
  <2> HIDE DEF dups
  <2>4. row'[c].uuid = survivor /\ \A d \in Callers : d # c => row'[d] = row[d]
    BY <2>1 DEF TypeOK, FoundOK, SearchRow
  <2>5. \A u \in todo'[c] : job[c].dedupe /\ Doomed(job[c].key, u)
    BY <1>2, <2>1, <2>3 DEF CallAsked, TypeOK, FoundOK
  <2>6. OthersFound(c)
    BY <2>1, <2>4 DEF OthersFound, SameFound, TypeOK, FoundOK
  <2>7. /\ OthersOwe(c) /\ post'[c].op \in {"none", "add"}
        /\ pc'[c] \in {"done", "add", "hydrate", "before_update", "before_delete",
                       "clean_get"}
        /\ pc'[c] = "before_delete" => job[c].state = "absent"
        /\ pc'[c] = "before_update" => job[c].state = "present"
    BY <2>1, ResolveAsked, GotoMoves, GotoEffect
  <2>8. CallAsked(c)'
    BY <1>2, <2>1, <2>2, <2>4, <2>5, <2>7 DEF CallAsked, Meant, Doomed, store
  <2> QED
    BY <2>1, <2>6, <2>7, <2>8, CallerAsked
<1> QED
  BY <1>1, <1>3, <1>4, <1>5

\* The three requests that change or delete a record found: each is meant.
LEMMA SendAsked ==
    ASSUME TypeOK, AskedInv, NEW c \in Callers, runs[c] = 1,
           UNCHANGED <<readOnly, found>>, pc[c] \in FoundPlaces,
           NEW w \in {<<"clean_del", "del">>, <<"set", "set">>, <<"del", "del">>},
           NEW u, SendTo(c, w[1], w[2], u),
           Meant(job[c], [op |-> w[2], uuid |-> u, key |-> job[c].key])
    PROVE  AskedInv'
<1>1. UNCHANGED <<store, late, job, runs, row, todo>>
  BY DEF readOnly, found
<1>2. /\ OthersOwe(c) /\ pc'[c] = w[1] /\ wire'[c] = "sent"
      /\ post'[c].op = w[2] /\ post'[c].uuid = u /\ post'[c].key = job[c].key
  BY <1>1, SendMoves, SendEffect
<1>3. OthersFound(c) /\ CallAsked(c)
  BY <1>1 DEF OthersFound, SameFound, AskedInv
<1>4. Meant(job[c], post[c])'
  BY <1>1, <1>2 DEF Meant, Warranted, Doomed, store
<1>5. job[c].state \in {"present", "absent"}
  BY <1>3 DEF CallAsked, FoundPlaces, CleanPlaces, DecidedPlaces, Reading, Writing
<1>6. CallAsked(c)'
  BY <1>1, <1>2, <1>3, <1>4, <1>5 DEF CallAsked, Doomed, store, FoundPlaces, CleanPlaces,
     DecidedPlaces
<1> QED
  BY <1>1, <1>2, <1>3, <1>6, CallerAsked

LEMMA BeforeAsked ==
    ASSUME TypeOK, SilentInv, AskedInv, NEW c \in Callers,
           CleanGet(c) \/ BeforeUpdate(c) \/ BeforeDelete(c)
    PROVE  AskedInv'
<1>1. /\ UNCHANGED <<readOnly, found>> /\ CallAsked(c) /\ runs[c] = 1
      /\ pc[c] \in FoundPlaces
  BY DEF CleanGet, BeforeUpdate, BeforeDelete, AskedInv, CallAsked, FoundPlaces,
         CleanPlaces, DecidedPlaces
<1>2. CASE \E r : End(c, "done", r)
  BY <1>1, <1>2, EndAsked DEF Settled
<1>3. ASSUME CleanGet(c), NEW u \in todo[c], SendTo(c, "clean_del", "del", u)
      PROVE  AskedInv'
  <2>1. ~job[c].check
    BY <1>3 DEF CleanGet, SilentInv, WriteAhead
  <2>2. Meant(job[c], [op |-> "del", uuid |-> u, key |-> job[c].key])
    BY <1>1, <2>1 DEF CallAsked, Meant, Warranted
  <2> DEFINE w == <<"clean_del", "del">>
  <2>3. SendTo(c, w[1], w[2], u)
    BY <1>3
  <2> QED
    BY <1>1, <2>2, <2>3, SendAsked
<1>4. CASE BeforeUpdate(c) /\ SendTo(c, "set", "set", row[c].uuid)
  <2>1. Meant(job[c], [op |-> "set", uuid |-> row[c].uuid, key |-> job[c].key])
    BY <1>1, <1>4 DEF BeforeUpdate, CallAsked, Meant
  <2> DEFINE w == <<"set", "set">>
  <2>2. SendTo(c, w[1], w[2], row[c].uuid)
    BY <1>4
  <2> QED
    BY <1>1, <2>1, <2>2, SendAsked
<1>5. CASE BeforeDelete(c) /\ ~job[c].check /\ SendTo(c, "del", "del", row[c].uuid)
  <2>1. Meant(job[c], [op |-> "del", uuid |-> row[c].uuid, key |-> job[c].key])
    BY <1>1, <1>5 DEF BeforeDelete, CallAsked, Meant, Warranted
  <2> DEFINE w == <<"del", "del">>
  <2>2. SendTo(c, w[1], w[2], row[c].uuid)
    BY <1>5
  <2> QED
    BY <1>1, <2>1, <2>2, SendAsked
<1> QED
  BY <1>2, <1>3, <1>4, <1>5 DEF CleanGet, BeforeUpdate, BeforeDelete, Finish

\* What is answered is followed by a reconfigure, the next queued duplicate, or the
\* end; what is not ends the call, which leaves at most what it had in flight.
LEMMA NextAsked ==
    ASSUME TypeOK, AskedInv, NEW c \in Callers, NextDuplicate(c), UNCHANGED readOnly,
           pc[c] \in CleanPlaces
    PROVE  AskedInv'
<1>1. PICK u \in todo[c] :
         /\ todo' = [todo EXCEPT ![c] = @ \ {u}]
         /\ Resolve(c, row[c], deduped[c]) \/ Goto(c, "clean_get")
  BY DEF NextDuplicate
<1>2. UNCHANGED <<store, late, job, runs, row>>
  BY DEF NextDuplicate, readOnly
<1>3. runs[c] = 1 /\ job[c].state \in {"present", "absent"} /\ pc[c] \in FoundPlaces
  BY DEF AskedInv, CallAsked, CleanPlaces, FoundPlaces, Reading, Writing
<1>4. todo'[c] \subseteq todo[c] /\ \A d \in Callers : d # c => todo'[d] = todo[d]
  BY <1>1 DEF TypeOK, FoundOK
<1>5. /\ OthersOwe(c) /\ post'[c].op \in {"none", "add"}
      /\ pc'[c] \in {"done", "add", "hydrate", "before_update", "before_delete",
                     "clean_get"}
      /\ pc'[c] = "before_delete" => job[c].state = "absent"
      /\ pc'[c] = "before_update" => job[c].state = "present"
  BY <1>1, <1>2, ResolveAsked, GotoMoves, GotoEffect
<1> QED
  BY <1>2, <1>3, <1>4, <1>5, SameFoundAsked

LEMMA AnsweredAsked ==
    ASSUME TypeOK, AskedInv, NEW c \in Callers,
           \/ CleanDeleted(c) \/ CleanApplied(c) \/ ApplyDone(c)
           \/ ReadFails(c) \/ Refused(c)
    PROVE  AskedInv'
<1>1. UNCHANGED readOnly
  BY DEF CleanDeleted, CleanApplied, ApplyDone, ReadFails, Refused
<1>2. runs[c] = 1
  BY DEF CleanDeleted, CleanApplied, ApplyDone, ReadFails, Refused, AskedInv,
         CallAsked, Reading
<1>3. CASE NextDuplicate(c) /\ pc[c] \in CleanPlaces
  BY <1>1, <1>3, NextAsked
<1>4. CASE UNCHANGED found /\ \E p \in Settled : \E r : End(c, p, r)
  BY <1>1, <1>2, <1>4, EndAsked
<1>5. CASE /\ UNCHANGED found /\ pc[c] = "clean_del"
           /\ SendTo(c, "clean_apply", "apply", NoUuid)
  <2>1. OthersOwe(c) /\ pc'[c] = "clean_apply" /\ post'[c].op = "apply"
    BY <1>1, <1>5, SendMoves DEF readOnly
  <2>2. job[c].state \in {"present", "absent"} /\ pc[c] \in FoundPlaces
    BY <1>5 DEF AskedInv, CallAsked, Writing, FoundPlaces, CleanPlaces
  <2>3. UNCHANGED <<store, late, job, runs, row, todo>>
    BY <1>1, <1>5 DEF readOnly, found
  <2> QED
    BY <1>2, <2>1, <2>2, <2>3, SameFoundAsked
<1> QED
  BY <1>3, <1>4, <1>5
  DEF CleanDeleted, CleanApplied, ApplyDone, ReadFails, Refused, Finish, Raise, Settled,
      CleanPlaces

LEMMA WriteDoneAsked ==
    ASSUME TypeOK, AskedInv, NEW c \in Callers, WriteDone(c)
    PROVE  AskedInv'
<1>1. /\ UNCHANGED <<store, late, job, runs, todo>>
      /\ \E u : row' = [row EXCEPT ![c].uuid = u]
      /\ \/ SendTo(c, ApplyOf(pc[c]), "apply", NoUuid)
         \/ \E r : End(c, "done", r)
  BY DEF WriteDone, readOnly, Finish
<1>2. CallAsked(c) /\ runs[c] = 1 /\ job[c].state \in {"present", "absent"}
  BY DEF WriteDone, AskedInv, CallAsked, Writing
<1>3. /\ OthersOwe(c) /\ pc'[c] \in ApplyPlaces \cup {"done"}
      /\ post'[c].op \in {"none", "apply"}
  BY <1>1, SendMoves, EndMoves, EndEffect DEF ApplyOf, ApplyPlaces
<1>4. OthersFound(c)
  BY <1>1 DEF OthersFound, SameFound, TypeOK, FoundOK
<1>5. CallAsked(c)'
  BY <1>1, <1>2, <1>3
  DEF CallAsked, Meant, Doomed, store, ApplyPlaces, FoundPlaces, CleanPlaces,
      DecidedPlaces
<1> QED
  BY <1>1, <1>3, <1>4, <1>5, CallerAsked

LEMMA LoseAnswerAsked ==
    ASSUME TypeOK, AskedInv, NEW c \in Callers, LoseAnswer(c)
    PROVE  AskedInv'
<1>1. UNCHANGED <<store, job, runs, row, todo>>
  BY DEF LoseAnswer, found
<1>2. CallAsked(c) /\ runs[c] = 1 /\ Meant(job[c], post[c])
  BY DEF LoseAnswer, AskedInv, CallAsked
<1>3. \A m \in late' : m \in late \/ (m.by = c /\ m.req = post[c])
  BY DEF LoseAnswer
<1>4. /\ OthersOwe(c)
      /\ \/ pc'[c] = pc[c] /\ post'[c] = post[c]
         \/ pc'[c] = "raised" /\ post'[c].op = "none"
  <2>1. CASE wire' = [wire EXCEPT ![c] = "sent"] /\ UNCHANGED <<pc, post>>
    BY <1>1, <2>1 DEF OthersOwe, SameCall, TypeOK, CallOK
  <2>2. CASE \E r : End(c, "raised", r)
    BY <1>1, <2>2, EndMoves, EndEffect
  <2> QED
    BY <2>1, <2>2 DEF LoseAnswer, Raise
<1>5. OthersFound(c)
  BY <1>1 DEF OthersFound, SameFound
<1>6. CallAsked(c)'
  BY <1>1, <1>2, <1>4
  DEF CallAsked, Meant, Warranted, Doomed, store, FoundPlaces, CleanPlaces,
      DecidedPlaces, Reading, Writing
<1>7. \A m \in late' : \/ m \in late
                       \/ m.by = c /\ runs'[c] = 1 /\ Meant(job'[c], m.req)
  BY <1>1, <1>2, <1>3
<1> QED
  BY <1>1, <1>4, <1>5, <1>6, <1>7, CallerAsked

\* The appliance executes only what was meant, so histories only grow.
LEMMA ApplianceAsked ==
    ASSUME TypeOK, AskedInv,
           (\E c \in Callers : Execute(c) \/ Refuse(c)) \/ LateExecute
    PROVE  AskedInv'
<1>1. /\ UNCHANGED <<pc, post, row, todo, job, runs>> /\ late' \subseteq late
      /\ \A c \in Callers : wire'[c] # "none" => wire[c] # "none"
  BY DEF Execute, Refuse, LateExecute, call, found, TypeOK, CallOK
<1>2. Owned' /\ Growing
  <2>1. CASE \E c \in Callers : Refuse(c)
    BY <2>1 DEF Refuse, store, AskedInv, Owned, Growing, Live
  <2>2. CASE \E c \in Callers : Execute(c)
    <3>1. PICK c \in Callers, u \in Uuids \cup {NoUuid} : Perform(post[c], u)
      BY <2>2 DEF Execute
    <3>2. /\ post[c] \in Requests
          /\ post[c].op = "set" => post[c].uuid \in ever[post[c].key]
      BY DEF AskedInv, CallAsked, Meant, TypeOK, CallOK
    <3> QED
      BY <3>1, <3>2, PerformOwns DEF AskedInv, TypeOK
  <2>3. CASE LateExecute
    <3>1. PICK m \in late, u \in Uuids \cup {NoUuid} : Perform(m.req, u)
      BY <2>3 DEF LateExecute
    <3>2. /\ m.req \in Requests
          /\ m.req.op = "set" => m.req.uuid \in ever[m.req.key]
      BY DEF AskedInv, Meant, TypeOK, StoreOK, LateRequests
    <3> QED
      BY <3>1, <3>2, PerformOwns DEF AskedInv, TypeOK
  <2> QED
    BY <2>1, <2>2, <2>3
<1>3. \A c \in Callers : CallAsked(c)'
  BY <1>1, <1>2, GrowingKeepsAsked DEF AskedInv, SameCall, SameFound
<1>4. ASSUME NEW m \in late
      PROVE  runs'[m.by] = 1 /\ Meant(job[m.by], m.req)'
  <2>1. /\ m.req \in Requests /\ m.by \in Callers
        /\ job[m.by] \in Jobs /\ job[m.by].key \in Keys /\ m.req.key \in Keys
    BY JobFields DEF TypeOK, StoreOK, LateRequests, Requests
  <2>2. runs[m.by] = 1 /\ Meant(job[m.by], m.req)
    BY DEF AskedInv
  <2> QED
    BY <1>1, <1>2, <2>1, <2>2 DEF Meant, Warranted, Doomed, Growing
<1> QED
  BY <1>1, <1>2, <1>3, <1>4 DEF AskedInv

LEMMA InitAsked == Init => AskedInv
<1> SUFFICES ASSUME Init
             PROVE  AskedInv
  OBVIOUS
<1>1. \A u \in Live : saved[u].key \in Keys
  BY StoreAssumption, RowTypes DEF Init, Records
<1>2. ever = [k \in Keys |-> Copies(k)]
  BY DEF Init
<1>3. Owned
  BY <1>1, <1>2 DEF Owned, Copies
<1>4. \A c \in Callers : CallAsked(c)
  BY DEF Init, CallAsked, Meant, NoPost, Reading, Writing, FoundPlaces, CleanPlaces,
         DecidedPlaces
<1> QED
  BY <1>3, <1>4 DEF Init, AskedInv

LEMMA StepAsked ==
    ASSUME TypeOK, SilentInv, AskedInv, MaxRuns = 1, PresentByKeys, [Next]_vars
    PROVE  AskedInv'
<1>1. CASE UNCHANGED vars
  BY <1>1 DEF vars, store, call, found, AskedInv, CallAsked, Owned, Live, Meant,
     Warranted, Doomed
<1> QED
  BY <1>1, StartAsked, FetchAsked, SearchAsked, BeforeAsked, AnsweredAsked,
     WriteDoneAsked, LoseAnswerAsked, ApplianceAsked DEF Next, Step

\* A deletion that is executed was asked for by the call it belongs to.
LEMMA MeantIsAsked ==
    ASSUME TypeOK, Owned, NEW c \in Callers, NEW req \in Requests,
           NEW v \in Uuids \cup {NoUuid}, Perform(req, v), Meant(job[c], req),
           NEW u \in Live, saved'[u] = NoRecord
    PROVE  AskedFor(job[c], u)
<1>1. u \in Uuids /\ saved[u] # NoRecord /\ saved[u] \in Records /\ u \in ever[saved[u].key]
  BY RowTypes DEF Live, Owned, TypeOK, StoreOK
<1>2. job[c].key \in Keys /\ saved[u].key \in Keys
  BY <1>1, JobFields DEF TypeOK, Records
<1>3. req.op = "del" /\ u = req.uuid
  BY <1>1, PerformEffect DEF Perform, Live, TypeOK
<1>4. ~job[c].check /\ Warranted(job[c], u)
  BY <1>3 DEF Meant
<1>5. u \in ever[job[c].key] => job[c].key = saved[u].key
  BY <1>1, <1>2 DEF Owned
<1> QED
  BY <1>4, <1>5 DEF Warranted, Doomed, AskedFor

LEMMA DeletesAsked ==
    ASSUME TypeOK, AskedInv, [Next]_vars, NEW u \in Live, saved'[u] = NoRecord
    PROVE  \E c \in Callers : runs[c] = 1 /\ AskedFor(job[c], u)
<1>1. saved' # saved
  BY DEF Live
<1>2. (\E c \in Callers : Execute(c)) \/ LateExecute
  <2>1. \A c \in Callers : ~Start(c) /\ ~Refuse(c) /\ ~Step(c)
    BY <1>1 DEF Start, Refuse, Step, Fetch, Search, Hydrate, CleanGet, CleanDeleted,
       CleanApplied, BeforeUpdate, BeforeDelete, WriteDone, ApplyDone, ReadFails,
       Refused, LoseAnswer, readOnly, store
  <2> QED
    BY <1>1, <2>1 DEF Next, vars, store
<1>3. CASE \E c \in Callers : Execute(c)
  <2>1. PICK c \in Callers, v \in Uuids \cup {NoUuid} :
           wire[c] = "sent" /\ Perform(post[c], v)
    BY <1>3 DEF Execute
  <2>2. runs[c] = 1 /\ Meant(job[c], post[c]) /\ post[c] \in Requests /\ Owned
    BY <2>1 DEF AskedInv, CallAsked, TypeOK, CallOK
  <2> QED
    BY <2>1, <2>2, MeantIsAsked
<1>4. CASE LateExecute
  <2>1. PICK m \in late, v \in Uuids \cup {NoUuid} : Perform(m.req, v)
    BY <1>4 DEF LateExecute
  <2>2. /\ m.by \in Callers /\ m.req \in Requests
        /\ runs[m.by] = 1 /\ Meant(job[m.by], m.req) /\ Owned
    BY DEF AskedInv, TypeOK, StoreOK, LateRequests
  <2> QED
    BY <2>1, <2>2, MeantIsAsked
<1> QED
  BY <1>2, <1>3, <1>4

\* "Deleting is never a silent default" (ensure, _collapse_duplicates): of any
\* number of calls, retried and executed late, a record disappears only for one that
\* asked for its absence, or that deduplicates its identity while a lower uuid
\* carries or carried it.  A caller stands for a call; calls that create or
\* update find their record by its keys, since one that renames a record by uuid
\* takes it from under a deletion that was decided before.
THEOREM OnlyAskedDeletesHolds ==
    ASSUME MaxRuns = 1, PresentByKeys
    PROVE  Spec => OnlyAskedDeletes
<1> DEFINE Inv == TypeOK /\ SilentInv /\ AskedInv
<1>1. Init => Inv
  BY InitTypeOK, InitAsked DEF Init, SilentInv, WriteAhead, Writing
<1>2. Inv /\ [Next]_vars => AskedInv'
  BY StepAsked
<1>3. Inv /\ [Next]_vars =>
        [\A u \in Live : saved'[u] = NoRecord =>
            \E c \in Callers : runs[c] = 1 /\ AskedFor(job[c], u)]_vars
  BY DeletesAsked
<1> QED
  BY <1>1, <1>2, <1>3, TypeCorrect, SilentHolds, PTL DEF Spec, OnlyAskedDeletes

-----------------------------------------------------------------------------
(* A call nobody interferes with: Converged and OneMatch, by AloneInv *)

\* One caller, and a page that holds every record there can be.
Alone == \A c, d \in Callers : c = d
WholePage == IsFiniteSet(Uuids) /\ Cardinality(Uuids) <= PageSize

\* u, or nothing if that is None, is all there is of the identity a call looks
\* for; or it is the record the call names.
OnlyOne(j, u) ==
    IF j.uuid = NoUuid THEN Copies(j.key) = {u} \ {NoUuid} ELSE u = j.uuid
AtMost(j, u) ==
    IF j.uuid = NoUuid THEN Copies(j.key) \subseteq {u} ELSE u = j.uuid

\* u is what a call for a present record wants.
Has(j, u) ==
    /\ u \in Copies(j.key)
    /\ \A f \in Fields : j.want[f] # Unset => saved[u].fld[f] = j.want[f]

\* What a row shows of its record is so.
Accurate(ex) ==
    ex.uuid # NoUuid =>
        /\ ex.uuid \in Live /\ ex.key = saved[ex.uuid].key
        /\ \A f \in Fields : ex.fld[f] # Unset => ex.fld[f] = saved[ex.uuid].fld[f]

\* While duplicates are deleted: the survivor is as it was found, and what else
\* there is of its identity is queued.
IsNext(c, u) == u \in todo[c] /\ \A v \in todo[c] : u <= v
Cleaning(c) ==
    LET u == row[c].uuid
        k == job[c].key
    IN /\ job[c].uuid = NoUuid /\ u # NoUuid
       /\ u \in Copies(k) /\ u \notin todo[c] /\ Copies(k) \subseteq {u} \cup todo[c]
       /\ Accurate(row[c])

UpdatePlaces == {"before_update", "set", "set_apply"}
DeletePlaces == {"before_delete", "del", "del_apply"}
AddPlaces == {"add", "add_apply"}

\* What a call knows at the await it stands at.
Knows(c) ==
    LET j == job[c]
        u == row[c].uuid
    IN /\ pc[c] \in CleanPlaces => Cleaning(c)
       /\ pc[c] = "hydrate" => u # NoUuid /\ OnlyOne(j, u)
       /\ pc[c] \in UpdatePlaces =>
             j.state = "present" /\ u # NoUuid /\ OnlyOne(j, u)
       /\ pc[c] \in DeletePlaces =>
             j.state = "absent" /\ u # NoUuid /\ AtMost(j, u)
       /\ pc[c] \in AddPlaces => j.state = "present"

\* What it asks of the appliance there.
Asks(c) ==
    /\ pc[c] \in {"add", "set"} => /\ post[c].op = pc[c]
                                   /\ post[c].key = job[c].key
                                   /\ post[c].want = job[c].want
    /\ pc[c] = "set" => post[c].uuid = row[c].uuid
    /\ pc[c] = "del" => post[c].op = "del" /\ post[c].uuid = row[c].uuid
    /\ pc[c] = "clean_del" => post[c].op = "del" /\ IsNext(c, post[c].uuid)
    /\ pc[c] \in Applying => post[c].op = "apply"

\* What has been executed when the answer is there, and while it is applied.
Answered(c, p, q) == (pc[c] = p /\ wire[c] = "ok") \/ pc[c] = q
Wrote(c) ==
    LET j == job[c]
        u == row[c].uuid
    IN /\ pc[c] = "add" /\ wire[c] = "ok" => Has(j, reply[c])
       /\ pc[c] = "add_apply" => Has(j, u)
       /\ Answered(c, "set", "set_apply") => Has(j, u)
       /\ Answered(c, "del", "del_apply") => u \notin Live
       /\ Answered(c, "clean_del", "clean_apply") =>
             \A v \in todo[c] : IsNext(c, v) => v \notin Live

\* What it leaves.
Left(c) ==
    LET j == job[c]
        u == result[c].uuid
    IN pc[c] = "done" =>
          IF j.state = "present"
          THEN Has(j, u) /\ (result[c].action # "created" => OnlyOne(j, u))
          ELSE IF j.uuid = NoUuid THEN Copies(j.key) = {} ELSE j.uuid \notin Live

\* What makes Converged and OneMatch inductive for a caller on its own.
CallAlone(c) ==
    /\ wire[c] # "none" => pc[c] \in Writing
    /\ pc[c] = "search" => job[c].uuid = NoUuid
    /\ pc[c] = "fetch" => job[c].uuid # NoUuid
    /\ ~job[c].check => Knows(c) /\ Asks(c) /\ Wrote(c) /\ Left(c)

AloneInv ==
    /\ late = {}
    /\ \A c \in Callers : CallAlone(c)

\* A caller on its own: its step keeps the invariant when it keeps it for itself.
LEMMA OwnStep ==
    ASSUME Alone, AloneInv, NEW c \in Callers, late' = late, CallAlone(c)'
    PROVE  AloneInv'
BY DEF AloneInv, Alone

\* As long as the saved configuration is as it was, so is what is known of it.
LEMMA SameStore ==
    ASSUME UNCHANGED saved
    PROVE  /\ Live' = Live
           /\ \A k \in Keys : Copies(k)' = Copies(k)
           /\ \A j \in Jobs : \A u \in Uuids \cup {NoUuid} :
                 /\ OnlyOne(j, u) => OnlyOne(j, u)'
                 /\ AtMost(j, u) => AtMost(j, u)'
                 /\ Has(j, u) => Has(j, u)'
BY DEF Live, Copies, OnlyOne, AtMost, Has

LEMMA SeenStays ==
    ASSUME UNCHANGED saved, NEW c \in Callers, NEW ex, Accurate(ex), row'[c] = ex
    PROVE  Accurate(row[c])'
BY DEF Accurate, Live

\* A search page that holds as many records as there can be holds all of them.
LEMMA PageIsLive ==
    ASSUME WholePage, NEW page \in Pages
    PROVE  page = Live
<1>1. Live \in SUBSET Uuids /\ page \in SUBSET Live
  BY DEF Live, Pages
<1>2. IsFiniteSet(Live) /\ Cardinality(Live) <= Cardinality(Uuids)
  BY <1>1, FS_Subset DEF WholePage
<1>3. Cardinality(Live) \in Nat /\ Cardinality(Uuids) \in Nat
  BY <1>2, FS_CardinalityType DEF WholePage
<1>4. Cardinality(page) = Cardinality(Live)
  BY <1>2, <1>3, BoundAssumption DEF Pages, WholePage
<1> QED
  BY <1>1, <1>2, <1>4, FS_Subset

-----------------------------------------------------------------------------
(* What a caller on its own knows after each kind of step *)

LEMMA EndsAlone ==
    ASSUME TypeOK, NEW c \in Callers, NEW p \in Settled, NEW r, End(c, p, r),
           p = "done" => Left(c)'
    PROVE  CallAlone(c)'
<1>1. pc'[c] = p /\ wire'[c] = "none"
  BY DEF End, TypeOK, CallOK
<1> QED
  BY <1>1 DEF CallAlone, Knows, Asks, Wrote, Answered, Left, Settled, CleanPlaces,
     UpdatePlaces, DeletePlaces, AddPlaces, Applying, ApplyPlaces

LEMMA RaisesAlone ==
    ASSUME TypeOK, NEW c \in Callers, NEW exc, Raise(c, exc)
    PROVE  CallAlone(c)'
BY EndsAlone DEF Raise, Settled

\* A call that returns, with nothing known of it but what it leaves.
LEMMA FinishAlone ==
    ASSUME TypeOK, NEW c \in Callers, UNCHANGED <<saved, job>>,
           NEW action, NEW changed \in BOOLEAN, NEW u \in Uuids \cup {NoUuid}, NEW dups,
           Finish(c, action, changed, u, dups),
           changed \/ action # "created",
           job[c].check \/
              IF job[c].state = "present"
              THEN /\ Has(job[c], u)
                   /\ action # "created" => OnlyOne(job[c], u)
              ELSE IF job[c].uuid = NoUuid THEN Copies(job[c].key) = {}
                   ELSE job[c].uuid \notin Live
    PROVE  CallAlone(c)'
<1>1. /\ pc'[c] = "done" /\ wire'[c] = "none"
      /\ result'[c].uuid = u
      /\ result'[c].action # "created" => action # "created"
  BY DEF Finish, End, WithDedupe, TypeOK, CallOK
<1>2. job[c] \in Jobs /\ job[c].key \in Keys
  BY JobFields DEF TypeOK
<1>3. job[c].check \/ Left(c)'
  BY <1>1, <1>2, SameStore DEF Left
<1> QED
  BY <1>1, <1>3 DEF CallAlone, Knows, Asks, Wrote, Answered, CleanPlaces, Writing,
     UpdatePlaces, DeletePlaces, AddPlaces, Applying, ApplyPlaces

\* From a record that is as the call sees it, and the only one, to the end or to
\* the request.
LEMMA ConvergeAlone ==
    ASSUME TypeOK, NEW c \in Callers, UNCHANGED <<saved, job>>, NEW ex \in RowType,
           NEW dups, Converge(c, ex, dups), ex.uuid # NoUuid => row'[c].uuid = ex.uuid,
           \/ job[c].check
           \/ /\ OnlyOne(job[c], ex.uuid) /\ Accurate(ex)
              /\ ~NeedsHydration(ex, job[c].want)
    PROVE  CallAlone(c)'
<1>1. ex.uuid \in Uuids \cup {NoUuid} /\ NoUuid \notin Uuids
  BY UuidsPositive DEF RowType
<1>2. job[c] \in Jobs /\ job[c].key \in Keys /\ job[c].want \in Params
  BY JobFields DEF TypeOK
<1>3. CASE job[c].state = "present" /\ ex.uuid = NoUuid
  <2>1. CASE job[c].check /\ Finish(c, "created", TRUE, NoUuid, dups)
    BY <2>1, FinishAlone
  <2>2. CASE ~job[c].check /\ SendTo(c, "add", "add", NoUuid)
    <3>1. /\ pc'[c] = "add" /\ wire'[c] = "sent" /\ post'[c].op = "add"
          /\ post'[c].key = job[c].key /\ post'[c].want = job[c].want
      BY <2>2 DEF SendTo, TypeOK, CallOK
    <3> QED
      BY <1>3, <3>1 DEF CallAlone, Knows, Asks, Wrote, Answered, Left, CleanPlaces,
         UpdatePlaces, DeletePlaces, AddPlaces, Applying, ApplyPlaces, Writing
  <2> QED
    BY <1>3, <2>1, <2>2 DEF Converge
<1>4. ASSUME NEW p \in {"before_update", "before_delete"}, Goto(c, p),
             ex.uuid # NoUuid,
             p = "before_update" => job[c].state = "present",
             p = "before_delete" => job[c].state = "absent"
      PROVE  CallAlone(c)'
  <2>1. pc'[c] = p /\ wire'[c] = "none" /\ row'[c].uuid = ex.uuid
    BY <1>4 DEF Goto, TypeOK, CallOK
  <2>2. job[c].check \/ (OnlyOne(job[c], ex.uuid)' /\ AtMost(job[c], ex.uuid)')
    <3>1. OnlyOne(job[c], ex.uuid) => AtMost(job[c], ex.uuid)
      BY DEF OnlyOne, AtMost
    <3> QED
      BY <1>1, <1>2, <3>1, SameStore
  <2> QED
    BY <1>4, <2>1, <2>2 DEF CallAlone, Knows, Asks, Wrote, Answered, Left, CleanPlaces,
         UpdatePlaces, DeletePlaces, AddPlaces, Applying, ApplyPlaces, Writing
<1>5. ASSUME job[c].state = "present", ex.uuid # NoUuid, ex.key = job[c].key,
             Diff(ex.fld, job[c].want) = {}, Finish(c, "noop", FALSE, ex.uuid, dups)
      PROVE  CallAlone(c)'
  <2>1. job[c].check \/ Has(job[c], ex.uuid)
    BY <1>5 DEF Accurate, Has, Copies, Diff, NeedsHydration
  <2>2. "noop" # "created" /\ FALSE \in BOOLEAN
    OBVIOUS
  <2> QED
    BY <1>1, <1>5, <2>1, <2>2, FinishAlone
<1>6. ASSUME job[c].state = "absent", ex.uuid = NoUuid,
             Finish(c, "noop", FALSE, NoUuid, dups)
      PROVE  CallAlone(c)'
  <2>1. job[c].check \/ (job[c].uuid = NoUuid /\ Copies(job[c].key) = {})
    BY <1>6 DEF OnlyOne
  <2>2. "noop" # "created" /\ FALSE \in BOOLEAN
    OBVIOUS
  <2> QED
    BY <1>6, <2>1, <2>2, FinishAlone
<1> QED
  BY <1>3, <1>4, <1>5, <1>6 DEF Converge

LEMMA ResolveAlone ==
    ASSUME TypeOK, NEW c \in Callers, UNCHANGED <<saved, job>>, NEW ex \in RowType,
           NEW dups, Resolve(c, ex, dups), ex.uuid # NoUuid => row'[c].uuid = ex.uuid,
           job[c].check \/ (OnlyOne(job[c], ex.uuid) /\ Accurate(ex))
    PROVE  CallAlone(c)'
<1>1. CASE NeedsHydration(ex, job[c].want) /\ Goto(c, "hydrate")
  <2>1. /\ pc'[c] = "hydrate" /\ wire'[c] = "none"
        /\ ex.uuid # NoUuid /\ row'[c].uuid = ex.uuid
    BY <1>1 DEF Goto, TypeOK, CallOK, NeedsHydration
  <2>2. job[c].check \/ OnlyOne(job[c], ex.uuid)'
    BY JobFields, SameStore DEF RowType, TypeOK
  <2> QED
    BY <2>1, <2>2 DEF CallAlone, Knows, Asks, Wrote, Answered, Left, CleanPlaces,
       UpdatePlaces, DeletePlaces, AddPlaces, Applying, ApplyPlaces, Writing
<1>2. CASE ~NeedsHydration(ex, job[c].want) /\ Converge(c, ex, dups)
  BY <1>2, ConvergeAlone
<1> QED
  BY <1>1, <1>2 DEF Resolve

-----------------------------------------------------------------------------
(* The reads *)

LEMMA StartAlone ==
    ASSUME TypeOK, Alone, AloneInv, NEW c \in Callers, Start(c)
    PROVE  AloneInv'
<1>1. PICK j \in Jobs :
        /\ job' = [job EXCEPT ![c] = j]
        /\ \/ \E exc : Raise(c, exc)
           \/ \E r : End(c, IF j.uuid = NoUuid THEN "search" ELSE "fetch", r)
  BY DEF Start
<1>2. CASE \E exc : Raise(c, exc)
  BY <1>2, RaisesAlone, OwnStep DEF Start
<1>3. CASE \E r : End(c, IF j.uuid = NoUuid THEN "search" ELSE "fetch", r)
  <2>1. /\ pc'[c] = IF j.uuid = NoUuid THEN "search" ELSE "fetch"
        /\ wire'[c] = "none" /\ job'[c] = j
    BY <1>1, <1>3 DEF End, TypeOK, CallOK
  <2>2. CallAlone(c)'
    BY <2>1 DEF CallAlone, Knows, Asks, Wrote, Answered, Left, CleanPlaces, UpdatePlaces,
       DeletePlaces, AddPlaces, Applying, ApplyPlaces
  <2> QED
    BY <2>2, OwnStep DEF Start
<1> QED
  BY <1>1, <1>2, <1>3

\* The full item of a record shows all of it, so nothing is left to be fetched.
LEMMA FullItemShows ==
    ASSUME saved \in Stores, NEW u \in Live, NEW want \in Params
    PROVE  /\ FullItem(u).uuid = u /\ u # NoUuid
           /\ Accurate(FullItem(u)) /\ ~NeedsHydration(FullItem(u), want)
<1>1. saved[u] \in Records /\ u # NoUuid
  BY RowTypes, UuidsPositive DEF Live
<1>2. \A f \in Fields : saved[u].fld[f] # Unset
  BY <1>1, ValueAssumption DEF Records
<1> QED
  BY <1>1, <1>2 DEF FullItem, Accurate, NeedsHydration

LEMMA FetchAlone ==
    ASSUME TypeOK, Alone, AloneInv, NEW c \in Callers, Fetch(c) \/ Hydrate(c)
    PROVE  AloneInv'
<1>1. UNCHANGED <<saved, job, late>>
  BY DEF Fetch, Hydrate, readOnly, store
<1>2. PICK u \in Live :
        /\ row' = [row EXCEPT ![c] = FullItem(u)]
        /\ \E dups : Converge(c, FullItem(u), dups)
        /\ u = IF pc[c] = "fetch" THEN job[c].uuid ELSE row[c].uuid
        /\ pc[c] \in {"fetch", "hydrate"}
  BY DEF Fetch, Hydrate
<1>3. FullItem(u) \in RowType /\ job[c].want \in Params /\ saved \in Stores
  BY RowTypes, JobFields DEF TypeOK, StoreOK
<1>4. job[c].check \/ OnlyOne(job[c], u)
  BY <1>2 DEF AloneInv, CallAlone, Knows, OnlyOne
<1>5. row'[c].uuid = u
  BY <1>2, <1>3, FullItemShows DEF TypeOK, FoundOK
<1>6. CallAlone(c)'
  BY <1>1, <1>2, <1>3, <1>4, <1>5, FullItemShows, ConvergeAlone
<1> QED
  BY <1>1, <1>6, OwnStep

\* The matches of a page that holds every record are all there is of an identity.
LEMMA SearchAlone ==
    ASSUME TypeOK, Alone, WholePage, AloneInv, NEW c \in Callers, Search(c)
    PROVE  AloneInv'
<1>1. PICK page \in Pages :
        \/ MatchNone(c, Matches(c, page))
        \/ MatchAmbiguous(c, Matches(c, page))
        \/ \E survivor \in Matches(c, page) :
              MatchSurvivor(c, Matches(c, page), survivor)
  BY DEF Search
<1>2. UNCHANGED <<saved, job, late>> /\ job[c].uuid = NoUuid
  BY DEF Search, readOnly, store, AloneInv, CallAlone
<1>3. Matches(c, page) = Copies(job[c].key)
  BY <1>1, PageIsLive DEF Matches, Copies
<1>4. CASE MatchNone(c, Matches(c, page))
  <2>1. OnlyOne(job[c], NoRow.uuid) /\ Accurate(NoRow) /\ NoRow.uuid = NoUuid
    BY <1>2, <1>3, <1>4 DEF MatchNone, OnlyOne, Accurate, NoRow
  <2>2. CallAlone(c)'
    BY <1>2, <1>4, <2>1, NoRowType, ResolveAlone DEF MatchNone
  <2> QED
    BY <1>2, <2>2, OwnStep
<1>5. CASE MatchAmbiguous(c, Matches(c, page))
  BY <1>2, <1>5, RaisesAlone, OwnStep DEF MatchAmbiguous
<1>6. ASSUME NEW survivor \in Matches(c, page),
             MatchSurvivor(c, Matches(c, page), survivor)
      PROVE  AloneInv'
  <2> DEFINE dups == Matches(c, page) \ {survivor}
  <2>1. /\ survivor \in Live /\ saved[survivor].key = job[c].key
        /\ survivor # NoUuid /\ survivor \in Uuids
    BY <1>3, UuidsPositive DEF Copies, Live
  <2>2. SearchRow(survivor) \in RowType /\ row'[c] = SearchRow(survivor)
    BY <1>6, <2>1, RowTypes DEF TypeOK, StoreOK, FoundOK, MatchSurvivor
  <2>3. SearchRow(survivor).uuid = survivor /\ Accurate(SearchRow(survivor))
    BY <2>1 DEF SearchRow, Accurate
  <2>4. CASE dups = {} \/ job[c].check
    <3>1. job[c].check \/ OnlyOne(job[c], survivor)
      BY <1>2, <1>3, <2>1, <2>4 DEF OnlyOne
    <3>2. Resolve(c, SearchRow(survivor), dups)
      BY <1>6, <2>4 DEF MatchSurvivor
    <3> HIDE DEF dups
    <3>3. CallAlone(c)'
      BY <1>2, <2>2, <2>3, <3>1, <3>2, ResolveAlone
    <3> QED
      BY <1>2, <3>3, OwnStep
  <2>5. CASE ~(dups = {} \/ job[c].check)
    <3>1. /\ pc'[c] = "clean_get" /\ wire'[c] = "none" /\ todo'[c] = dups
      BY <1>6, <2>5 DEF MatchSurvivor, Goto, TypeOK, CallOK, FoundOK
    <3>3. Accurate(row[c])'
      BY <1>2, <2>2, <2>3, SeenStays
    <3>4. Copies(job[c].key)' = dups \cup {survivor}
      BY <1>2, <1>3 DEF Copies, Live
    <3> HIDE DEF dups
    <3>5. survivor \notin dups
      BY DEF dups
    <3>6. Cleaning(c)'
      BY <1>2, <2>1, <2>2, <2>3, <3>1, <3>3, <3>4, <3>5 DEF Cleaning
    <3>7. CallAlone(c)'
      BY <1>2, <3>1, <3>6 DEF CallAlone, Knows, Asks, Wrote, Answered, Left,
         UpdatePlaces, DeletePlaces, AddPlaces, Applying, ApplyPlaces
    <3> QED
      BY <1>2, <3>7, OwnStep
  <2> QED
    BY <2>4, <2>5
<1> QED
  BY <1>1, <1>4, <1>5, <1>6

-----------------------------------------------------------------------------
(* The deletion of duplicates *)

\* What is true while duplicates are deleted stays so when nothing is deleted.
LEMMA CleaningStays ==
    ASSUME TypeOK, NEW c \in Callers, Cleaning(c), UNCHANGED <<saved, job>>,
           row'[c] = row[c], todo'[c] = todo[c]
    PROVE  Cleaning(c)'
<1>1. Copies(job[c].key)' = Copies(job[c].key)
  BY SameStore, JobFields DEF TypeOK
<1>2. Accurate(row[c])'
  BY SeenStays DEF Cleaning
<1> QED
  BY <1>1, <1>2 DEF Cleaning

LEMMA CleanGetAlone ==
    ASSUME TypeOK, Alone, AloneInv, NEW c \in Callers, CleanGet(c)
    PROVE  AloneInv'
<1>1. UNCHANGED <<saved, job, row, todo, late>> /\ pc[c] = "clean_get"
  BY DEF CleanGet, readOnly, store, found
<1>2. PICK u \in todo[c] : IsNext(c, u) /\ SendTo(c, "clean_del", "del", u)
  BY DEF CleanGet, IsNext
<1>3. /\ pc'[c] = "clean_del" /\ wire'[c] = "sent"
      /\ post'[c].op = "del" /\ post'[c].uuid = u
  BY <1>2 DEF SendTo, TypeOK, CallOK
<1>4. job[c].check \/ Cleaning(c)'
  BY <1>1, CleaningStays DEF AloneInv, CallAlone, Knows, CleanPlaces
<1>5. IsNext(c, post[c].uuid)'
  BY <1>1, <1>2, <1>3 DEF IsNext
<1>6. CallAlone(c)'
  BY <1>1, <1>3, <1>4, <1>5 DEF CallAlone, Knows, Asks, Wrote, Answered, Left,
     UpdatePlaces, DeletePlaces, AddPlaces, Applying, ApplyPlaces, Writing
<1> QED
  BY <1>1, <1>6, OwnStep

\* The lowest uuid is the next, and no other.
LEMMA NextIsOne ==
    ASSUME TypeOK, NEW c \in Callers, NEW u, NEW v, IsNext(c, u), IsNext(c, v)
    PROVE  u = v
<1>1. u \in Nat /\ v \in Nat
  BY UuidsPositive DEF IsNext, TypeOK, FoundOK
<1>2. u <= v /\ v <= u
  BY DEF IsNext
<1> QED
  BY <1>1, <1>2

\* A duplicate that is gone leaves the queue; with the last of them the survivor
\* is all there is.
LEMMA NextDuplicateAlone ==
    ASSUME TypeOK, Alone, AloneInv, NEW c \in Callers, NextDuplicate(c),
           UNCHANGED readOnly, Answered(c, "clean_del", "clean_apply")
    PROVE  AloneInv'
<1>1. UNCHANGED <<saved, job, row, late>> /\ pc[c] \in CleanPlaces
  BY DEF NextDuplicate, readOnly, store, Answered, CleanPlaces
<1>2. PICK u \in todo[c] :
        /\ IsNext(c, u) /\ todo'[c] = todo[c] \ {u}
        /\ IF todo[c] = {u} THEN Resolve(c, row[c], deduped[c])
           ELSE Goto(c, "clean_get")
  BY DEF NextDuplicate, IsNext, TypeOK, FoundOK
<1>3. job[c].check \/ (Cleaning(c) /\ u \notin Live)
  BY <1>1, <1>2 DEF AloneInv, CallAlone, Knows, Wrote
<1>4. CASE todo[c] = {u}
  <2>1. job[c].check \/ (OnlyOne(job[c], row[c].uuid) /\ Accurate(row[c]))
    BY <1>3, <1>4 DEF Cleaning, OnlyOne, Copies
  <2>2. row[c] \in RowType
    BY DEF TypeOK, FoundOK
  <2>3. CallAlone(c)'
    BY <1>1, <1>2, <1>4, <2>1, <2>2, ResolveAlone
  <2> QED
    BY <1>1, <2>3, OwnStep
<1>5. CASE todo[c] # {u}
  <2>1. pc'[c] = "clean_get" /\ wire'[c] = "none"
    BY <1>2, <1>5 DEF Goto, TypeOK, CallOK
  <2>2. job[c].check \/ Cleaning(c)'
    <3>1. Copies(job[c].key)' = Copies(job[c].key)
      BY <1>1, SameStore, JobFields DEF TypeOK
    <3>2. job[c].check \/ (Accurate(row[c])' /\ u \notin Copies(job[c].key))
      BY <1>1, <1>3, SeenStays DEF Cleaning, Copies
    <3> QED
      BY <1>1, <1>2, <1>3, <3>1, <3>2 DEF Cleaning
  <2>3. CallAlone(c)'
    BY <1>1, <2>1, <2>2 DEF CallAlone, Knows, Asks, Wrote, Answered, Left,
       UpdatePlaces, DeletePlaces, AddPlaces, Applying, ApplyPlaces
  <2> QED
    BY <1>1, <2>3, OwnStep
<1> QED
  BY <1>4, <1>5

LEMMA CleanedAlone ==
    ASSUME TypeOK, Alone, AloneInv, NEW c \in Callers,
           CleanDeleted(c) \/ CleanApplied(c)
    PROVE  AloneInv'
<1>1. Answered(c, "clean_del", "clean_apply") /\ UNCHANGED readOnly
  BY DEF CleanDeleted, CleanApplied, Answered
<1>2. CASE NextDuplicate(c)
  BY <1>1, <1>2, NextDuplicateAlone
<1>3. CASE /\ SendTo(c, "clean_apply", "apply", NoUuid) /\ UNCHANGED found
           /\ pc[c] = "clean_del"
  <2>1. UNCHANGED <<saved, job, row, todo, late>>
    BY <1>1, <1>3 DEF readOnly, store, found
  <2>2. pc'[c] = "clean_apply" /\ wire'[c] = "sent" /\ post'[c].op = "apply"
    BY <1>3 DEF SendTo, TypeOK, CallOK
  <2>3. job[c].check \/ Cleaning(c)'
    BY <1>3, <2>1, CleaningStays DEF AloneInv, CallAlone, Knows, CleanPlaces
  <2>4. job[c].check \/ \A v \in todo'[c] : IsNext(c, v)' => v \notin Live'
    BY <1>1, <2>1 DEF AloneInv, CallAlone, Wrote, IsNext, Live
  <2>5. CallAlone(c)'
    BY <2>1, <2>2, <2>3, <2>4 DEF CallAlone, Knows, Asks, Wrote, Answered, Left,
       UpdatePlaces, DeletePlaces, AddPlaces, Applying, ApplyPlaces, Writing
  <2> QED
    BY <2>1, <2>5, OwnStep
<1> QED
  BY <1>2, <1>3 DEF CleanDeleted, CleanApplied

-----------------------------------------------------------------------------
(* The writes *)

\* The read before a write: what the call found is still what there is.
LEMMA BeforeAlone ==
    ASSUME TypeOK, Alone, AloneInv, NEW c \in Callers,
           BeforeUpdate(c) \/ BeforeDelete(c)
    PROVE  AloneInv'
<1>1. UNCHANGED <<saved, job, row, todo, late>>
  BY DEF BeforeUpdate, BeforeDelete, readOnly, store, found
<1>2. /\ job[c] \in Jobs /\ row[c].uuid \in Uuids \cup {NoUuid}
  BY DEF TypeOK, FoundOK, RowType
<1>3. CASE job[c].check /\ \E action \in {"updated", "deleted"} :
                              Finish(c, action, TRUE, row[c].uuid, deduped[c])
  <2>1. CallAlone(c)'
    BY <1>1, <1>2, <1>3, FinishAlone
  <2> QED
    BY <1>1, <2>1, OwnStep
<1>4. ASSUME NEW p \in {"set", "del"}, SendTo(c, p, p, row[c].uuid), ~job[c].check,
             pc[c] = IF p = "set" THEN "before_update" ELSE "before_delete"
      PROVE  AloneInv'
  <2>1. /\ pc'[c] = p /\ wire'[c] = "sent" /\ post'[c].op = p
        /\ post'[c].uuid = row[c].uuid
        /\ post'[c].key = job[c].key /\ post'[c].want = job[c].want
    BY <1>4 DEF SendTo, TypeOK, CallOK
  <2>2. /\ row[c].uuid # NoUuid
        /\ p = "set" => job[c].state = "present" /\ OnlyOne(job[c], row[c].uuid)
        /\ p = "del" => job[c].state = "absent" /\ AtMost(job[c], row[c].uuid)
    BY <1>4 DEF AloneInv, CallAlone, Knows, UpdatePlaces, DeletePlaces
  <2>3. /\ p = "set" => OnlyOne(job[c], row[c].uuid)'
        /\ p = "del" => AtMost(job[c], row[c].uuid)'
    BY <1>1, <2>2 DEF OnlyOne, AtMost, Copies, Live
  <2>4. CallAlone(c)'
    BY <1>1, <2>1, <2>2, <2>3 DEF CallAlone, Knows, Asks, Wrote, Answered, Left,
       CleanPlaces, UpdatePlaces, DeletePlaces, AddPlaces, Applying, ApplyPlaces, Writing
  <2> QED
    BY <1>1, <2>4, OwnStep
<1> QED
  BY <1>3, <1>4 DEF BeforeUpdate, BeforeDelete

\* What a call has when its write was executed is what it leaves.
LEMMA LeavesAlone ==
    ASSUME TypeOK, AloneInv, NEW c \in Callers, UNCHANGED <<saved, job>>,
           NEW u \in Uuids \cup {NoUuid}, ~job[c].check,
           pc[c] \in AddPlaces \cup UpdatePlaces \cup DeletePlaces,
           pc[c] \in AddPlaces \cup UpdatePlaces => Has(job[c], u),
           pc[c] \notin AddPlaces => u = row[c].uuid,
           pc[c] \in DeletePlaces => u \notin Live,
           Finish(c, Outcome(pc[c]), TRUE, u, deduped[c])
    PROVE  CallAlone(c)'
<1>1. Knows(c)
  BY DEF AloneInv, CallAlone
<1>2. CASE pc[c] \in AddPlaces
  <2>1. Outcome(pc[c]) = "created" /\ job[c].state = "present"
    BY <1>1, <1>2 DEF Outcome, AddPlaces, Knows
  <2> QED
    BY <1>2, <2>1, FinishAlone
<1>3. CASE pc[c] \in UpdatePlaces
  <2>1. job[c].state = "present" /\ OnlyOne(job[c], u) /\ pc[c] \notin AddPlaces
    BY <1>1, <1>3 DEF UpdatePlaces, AddPlaces, Knows
  <2> DEFINE action == Outcome(pc[c])
  <2>2. Finish(c, action, TRUE, u, deduped[c]) /\ TRUE \in BOOLEAN
    OBVIOUS
  <2> HIDE DEF action
  <2> QED
    BY <1>3, <2>1, <2>2, FinishAlone
<1>4. CASE pc[c] \in DeletePlaces
  <2>1. job[c].state = "absent" /\ AtMost(job[c], u) /\ pc[c] \notin AddPlaces
    BY <1>1, <1>4 DEF DeletePlaces, AddPlaces, Knows
  <2>2. IF job[c].uuid = NoUuid THEN Copies(job[c].key) = {} ELSE job[c].uuid \notin Live
    BY <1>4, <2>1 DEF AtMost, Copies
  <2> DEFINE action == Outcome(pc[c])
  <2>3. Finish(c, action, TRUE, u, deduped[c]) /\ TRUE \in BOOLEAN
    OBVIOUS
  <2> HIDE DEF action
  <2> QED
    BY <1>4, <2>1, <2>2, <2>3, FinishAlone
<1> QED
  BY <1>2, <1>3, <1>4

LEMMA WriteDoneAlone ==
    ASSUME TypeOK, SilentInv, Alone, AloneInv, NEW c \in Callers, WriteDone(c)
    PROVE  AloneInv'
<1>0. PICK u : u = IF pc[c] = "add" THEN reply[c] ELSE row[c].uuid
  OBVIOUS
<1>1. /\ UNCHANGED <<saved, job, late>>
      /\ pc[c] \in {"add", "set", "del"} /\ wire[c] = "ok"
      /\ row'[c].uuid = u /\ u \in Uuids \cup {NoUuid} /\ job[c] \in Jobs
      /\ ~job[c].check
  BY <1>0 DEF WriteDone, readOnly, store, TypeOK, FoundOK, RowType, SilentInv
<1>2. \/ SendTo(c, ApplyOf(pc[c]), "apply", NoUuid)
      \/ Finish(c, Outcome(pc[c]), TRUE, u, deduped[c])
  BY <1>0 DEF WriteDone
<1>3. /\ pc[c] \in {"add", "set"} => Has(job[c], u)
      /\ pc[c] = "del" => u \notin Live
      /\ pc[c] # "add" => u = row[c].uuid
  BY <1>0, <1>1 DEF AloneInv, CallAlone, Wrote, Answered
<1>4. CASE Finish(c, Outcome(pc[c]), TRUE, u, deduped[c])
  <2>1. CallAlone(c)'
    BY <1>1, <1>3, <1>4, LeavesAlone DEF AddPlaces, UpdatePlaces, DeletePlaces
  <2> QED
    BY <1>1, <2>1, OwnStep
<1>5. CASE SendTo(c, ApplyOf(pc[c]), "apply", NoUuid)
  <2>1. pc'[c] = ApplyOf(pc[c]) /\ wire'[c] = "sent" /\ post'[c].op = "apply"
    BY <1>5 DEF SendTo, TypeOK, CallOK
  <2>2. /\ pc[c] = "add" => job[c].state = "present"
        /\ pc[c] = "set" => /\ job[c].state = "present" /\ u # NoUuid
                            /\ OnlyOne(job[c], u)
        /\ pc[c] = "del" => /\ job[c].state = "absent" /\ u # NoUuid
                            /\ AtMost(job[c], u)
    BY <1>1, <1>3 DEF AloneInv, CallAlone, Knows, AddPlaces, UpdatePlaces, DeletePlaces
  <2>3. /\ pc[c] \in {"add", "set"} => Has(job[c], u)'
        /\ pc[c] = "set" => OnlyOne(job[c], u)'
        /\ pc[c] = "del" => AtMost(job[c], u)' /\ u \notin Live'
    BY <1>1, <1>3, <2>2 DEF Has, OnlyOne, AtMost, Copies, Live
  <2>4. CallAlone(c)'
    <3>1. CASE pc[c] = "add"
      BY <1>1, <2>1, <2>2, <2>3, <3>1 DEF ApplyOf, CallAlone, Knows, Asks, Wrote,
         Answered, Left, CleanPlaces, UpdatePlaces, DeletePlaces, AddPlaces, Applying,
         ApplyPlaces, Writing
    <3>2. CASE pc[c] = "set"
      BY <1>1, <2>1, <2>2, <2>3, <3>2 DEF ApplyOf, CallAlone, Knows, Asks, Wrote,
         Answered, Left, CleanPlaces, UpdatePlaces, DeletePlaces, AddPlaces, Applying,
         ApplyPlaces, Writing
    <3>3. CASE pc[c] = "del"
      BY <1>1, <2>1, <2>2, <2>3, <3>3 DEF ApplyOf, CallAlone, Knows, Asks, Wrote,
         Answered, Left, CleanPlaces, UpdatePlaces, DeletePlaces, AddPlaces, Applying,
         ApplyPlaces, Writing
    <3> QED
      BY <1>1, <3>1, <3>2, <3>3
  <2> QED
    BY <1>1, <2>4, OwnStep
<1> QED
  BY <1>2, <1>4, <1>5

LEMMA ApplyDoneAlone ==
    ASSUME TypeOK, SilentInv, Alone, AloneInv, NEW c \in Callers, ApplyDone(c)
    PROVE  AloneInv'
<1>1. /\ UNCHANGED <<saved, job, late>> /\ ~job[c].check
      /\ pc[c] \in {"add_apply", "set_apply", "del_apply"}
      /\ row[c].uuid \in Uuids \cup {NoUuid}
      /\ Finish(c, Outcome(pc[c]), TRUE, row[c].uuid, deduped[c])
  BY DEF ApplyDone, readOnly, store, TypeOK, FoundOK, RowType, SilentInv
<1>2. Wrote(c)
  BY <1>1 DEF AloneInv, CallAlone
<1>3. CallAlone(c)'
  BY <1>1, <1>2, LeavesAlone DEF Wrote, Answered, AddPlaces, UpdatePlaces, DeletePlaces
<1> QED
  BY <1>1, <1>3, OwnStep

-----------------------------------------------------------------------------
(* Failures, and the appliance *)

LEMMA FailsAlone ==
    ASSUME TypeOK, Alone, AloneInv, NEW c \in Callers, ReadFails(c) \/ Refused(c)
    PROVE  AloneInv'
<1>1. late' = late /\ \E exc : Raise(c, exc)
  BY DEF ReadFails, Refused, readOnly
<1> QED
  BY <1>1, RaisesAlone, OwnStep

\* What a call knows does not depend on where its request is, but for the answer.
LEMMA WireAlone ==
    ASSUME TypeOK, AloneInv, NEW c \in Callers, UNCHANGED <<saved, job, row, todo>>,
           pc'[c] = pc[c], post'[c] = post[c], wire'[c] \in {"sent", "refused"},
           wire[c] # "none"
    PROVE  CallAlone(c)'
<1>1. pc[c] \in Writing /\ CallAlone(c)
  BY DEF AloneInv, CallAlone
<1>2. CASE job[c].check
  BY <1>1, <1>2 DEF CallAlone, Writing
<1>3. CASE ~job[c].check
  <2>1. Knows(c) /\ Asks(c) /\ Wrote(c)
    BY <1>1, <1>3 DEF CallAlone
  <2>2. Knows(c)'
    <3>1. pc[c] \in CleanPlaces => Cleaning(c)'
      BY <2>1, CleaningStays DEF Knows
    <3> QED
      BY <2>1, <3>1 DEF Knows, OnlyOne, AtMost, Copies, Live
  <2>3. Asks(c)'
    BY <2>1 DEF Asks, IsNext
  <2>4. Wrote(c)'
    BY <2>1 DEF Wrote, Answered, Has, IsNext, Copies, Live
  <2> QED
    BY <1>1, <2>2, <2>3, <2>4 DEF CallAlone, Left, Writing
<1> QED
  BY <1>2, <1>3

\* Nothing is kept by the appliance, so an attempt that is lost is gone.
LEMMA LoseAnswerAlone ==
    ASSUME TypeOK, Alone, MaxLate = 0, AloneInv, NEW c \in Callers, LoseAnswer(c)
    PROVE  AloneInv'
<1>1. late' = late
  <2>1. ~(Cardinality(late) < MaxLate)
    BY FS_EmptySet DEF AloneInv
  <2> QED
    BY <2>1 DEF LoseAnswer
<1>2. CASE /\ wire' = [wire EXCEPT ![c] = "sent"] /\ UNCHANGED <<pc, post>>
  <2>1. CallAlone(c)'
    BY <1>2, WireAlone DEF LoseAnswer, store, found, TypeOK, CallOK
  <2> QED
    BY <1>1, <2>1, OwnStep
<1>3. CASE \E exc : Raise(c, exc)
  BY <1>1, <1>3, RaisesAlone, OwnStep
<1> QED
  BY <1>2, <1>3 DEF LoseAnswer

LEMMA RefuseAlone ==
    ASSUME TypeOK, Alone, AloneInv, NEW c \in Callers, Refuse(c)
    PROVE  AloneInv'
<1>1. CallAlone(c)'
  BY WireAlone DEF Refuse, store, found, TypeOK, CallOK
<1> QED
  BY <1>1, OwnStep DEF Refuse

\* What an add or a set leaves is what was asked for.
LEMMA PerformHas ==
    ASSUME StoreOK, NEW req \in Requests, NEW u \in Uuids \cup {NoUuid},
           Perform(req, u), req.op \in {"add", "set"}, NEW j \in Jobs,
           req.key = j.key, req.want = j.want
    PROVE  Has(j, u)'
<1>1. u \in Live' /\ saved'[u].key = j.key
  BY PerformEffect
<1>2. PICK fld : saved' = [saved EXCEPT ![u] = Written(req, fld)] /\ u \in Uuids
  BY DEF Perform, Mutate, Live
<1>3. saved'[u] = Written(req, fld)
  BY <1>2 DEF StoreOK, Stores
<1>4. \A f \in Fields : j.want[f] # Unset => saved'[u].fld[f] = j.want[f]
  BY <1>3 DEF Written
<1> QED
  BY <1>1, <1>4 DEF Has, Copies

\* The same record given its own identity again is still the only one.
LEMMA ExecuteSet ==
    ASSUME TypeOK, AloneInv, NEW c \in Callers, pc[c] = "set", ~job[c].check,
           NEW u \in Uuids \cup {NoUuid}, Perform(post[c], u), UNCHANGED job
    PROVE  u = row[c].uuid /\ Has(job[c], u)' /\ OnlyOne(job[c], u)'
<1>1. /\ post[c].op = "set" /\ post[c].uuid = row[c].uuid
      /\ post[c].key = job[c].key /\ post[c].want = job[c].want
      /\ row[c].uuid # NoUuid /\ OnlyOne(job[c], row[c].uuid)
  BY DEF AloneInv, CallAlone, Asks, Knows, UpdatePlaces
<1>2. post[c] \in Requests /\ job[c] \in Jobs /\ StoreOK
  BY DEF TypeOK, CallOK
<1>3. u = row[c].uuid
  BY <1>1 DEF Perform
<1>4. Has(job[c], u)'
  BY <1>1, <1>2, PerformHas
<1>5. \A v \in Uuids : v # u => saved'[v] = saved[v]
  BY <1>2, PerformEffect
<1>6. OnlyOne(job[c], u)'
  BY <1>1, <1>3, <1>4, <1>5 DEF OnlyOne, Has, Copies, Live
<1> QED
  BY <1>3, <1>4, <1>6

\* A deletion takes the record it names, and adds none.
LEMMA PerformGone ==
    ASSUME StoreOK, NEW req \in Requests, NEW u \in Uuids \cup {NoUuid},
           Perform(req, u), req.op = "del"
    PROVE  /\ req.uuid \notin Live'
           /\ \A v \in Uuids : v # req.uuid => saved'[v] = saved[v]
           /\ \A k \in Keys : Copies(k)' = Copies(k) \ {req.uuid}
<1>1. u = req.uuid /\ u \notin Live' /\ \A v \in Uuids : v # u => saved'[v] = saved[v]
  BY PerformEffect
<1> QED
  BY <1>1 DEF Copies, Live

LEMMA ExecuteClean ==
    ASSUME TypeOK, AloneInv, NEW c \in Callers, pc[c] = "clean_del", ~job[c].check,
           NEW u \in Uuids \cup {NoUuid}, Perform(post[c], u),
           UNCHANGED <<job, row, todo>>
    PROVE  Cleaning(c)' /\ \A v \in todo[c] : IsNext(c, v) => v \notin Live'
<1>1. /\ Cleaning(c) /\ post[c].op = "del" /\ IsNext(c, post[c].uuid)
  BY DEF AloneInv, CallAlone, Asks, Knows, CleanPlaces
<1>2. post[c] \in Requests /\ job[c].key \in Keys /\ StoreOK
  BY JobFields DEF TypeOK, CallOK
<1>3. /\ post[c].uuid \notin Live'
      /\ \A v \in Uuids : v # post[c].uuid => saved'[v] = saved[v]
      /\ Copies(job[c].key)' = Copies(job[c].key) \ {post[c].uuid}
  BY <1>1, <1>2, PerformGone
<1>4. row[c].uuid # post[c].uuid /\ row[c].uuid \in Live
  BY <1>1 DEF Cleaning, IsNext, Copies
<1>5. Accurate(row[c])'
  BY <1>1, <1>3, <1>4 DEF Accurate, Cleaning, Live
<1>6. Cleaning(c)'
  BY <1>1, <1>3, <1>4, <1>5 DEF Cleaning
<1>7. \A v \in todo[c] : IsNext(c, v) => v = post[c].uuid
  BY <1>1, NextIsOne
<1> QED
  BY <1>3, <1>6, <1>7

LEMMA ExecuteAlone ==
    ASSUME TypeOK, SilentInv, Alone, AloneInv, NEW c \in Callers, Execute(c)
    PROVE  AloneInv'
<1>1. PICK u \in Uuids \cup {NoUuid} : Perform(post[c], u) /\ reply'[c] = u
  BY DEF Execute, TypeOK
<1>2. /\ UNCHANGED <<late, pc, post, row, todo, job>>
      /\ wire'[c] = "ok" /\ ~job[c].check
      /\ pc[c] \in Writing
  BY DEF Execute, found, TypeOK, CallOK, SilentInv, AloneInv, CallAlone
<1>3. Knows(c) /\ Asks(c) /\ Wrote(c)
  BY <1>2 DEF AloneInv, CallAlone
<1>4. post[c] \in Requests /\ job[c] \in Jobs /\ job[c].key \in Keys /\ StoreOK
  BY JobFields DEF TypeOK, CallOK
<1> USE DEF CallAlone, Knows, Asks, Wrote, Answered, Left
<1> USE DEF CleanPlaces, UpdatePlaces, DeletePlaces, AddPlaces, Applying, ApplyPlaces
<1>5. CallAlone(c)'
  <2>1. CASE pc[c] = "add"
    <3>1. Has(job[c], u)'
      BY <1>1, <1>2, <1>3, <1>4, <2>1, PerformHas
    <3> QED
      BY <1>1, <1>2, <1>3, <2>1, <3>1
  <2>2. CASE pc[c] = "set"
    <3>1. u = row[c].uuid /\ Has(job[c], u)' /\ OnlyOne(job[c], u)'
      BY <1>1, <1>2, <2>2, ExecuteSet
    <3> QED
      BY <1>2, <1>3, <2>2, <3>1
  <2>3. CASE pc[c] = "del"
    <3>1. /\ row[c].uuid \notin Live'
          /\ Copies(job[c].key)' = Copies(job[c].key) \ {row[c].uuid}
      BY <1>1, <1>2, <1>3, <1>4, <2>3, PerformGone
    <3>2. AtMost(job[c], row[c].uuid)'
      BY <1>2, <1>3, <2>3, <3>1 DEF AtMost
    <3> QED
      BY <1>2, <1>3, <2>3, <3>1, <3>2
  <2>4. CASE pc[c] = "clean_del"
    <3>1. Cleaning(c)' /\ \A v \in todo[c] : IsNext(c, v) => v \notin Live'
      BY <1>1, <1>2, <2>4, ExecuteClean
    <3>2. IsNext(c, post[c].uuid)' /\ \A v : IsNext(c, v)' => IsNext(c, v)
      BY <1>2, <1>3, <2>4 DEF IsNext
    <3> QED
      BY <1>2, <1>3, <2>4, <3>1, <3>2
  <2>5. CASE pc[c] \in Applying
    <3>1. saved' = saved
      BY <1>1, <1>3, <1>4, <2>5, PerformEffect
    <3>2. pc[c] = "clean_apply" => Cleaning(c)'
      BY <1>2, <1>3, <3>1, CleaningStays
    <3>3. pc[c] = "set_apply" => OnlyOne(job[c], row[c].uuid)'
      BY <1>2, <1>3, <3>1 DEF OnlyOne, Copies, Live
    <3>4. pc[c] = "del_apply" => AtMost(job[c], row[c].uuid)' /\ row[c].uuid \notin Live'
      BY <1>2, <1>3, <3>1 DEF AtMost, Copies, Live
    <3>5. pc[c] \in {"add_apply", "set_apply"} => Has(job[c], row[c].uuid)'
      BY <1>2, <1>3, <3>1 DEF Has, Copies, Live
    <3>6. pc[c] = "clean_apply" => \A v \in todo[c] : IsNext(c, v)' => v \notin Live'
      BY <1>2, <1>3, <3>1 DEF IsNext, Live
    <3> QED
      BY <1>2, <1>3, <2>5, <3>2, <3>3, <3>4, <3>5, <3>6
  <2> QED
    BY <1>2, <2>1, <2>2, <2>3, <2>4, <2>5 DEF Writing
<1> QED
  BY <1>2, <1>5, OwnStep

-----------------------------------------------------------------------------
(* The theorems *)

LEMMA InitAlone == Init => AloneInv
BY DEF Init, AloneInv, CallAlone, Knows, Asks, Wrote, Answered, Left, CleanPlaces,
       UpdatePlaces, DeletePlaces, AddPlaces, Applying, ApplyPlaces

LEMMA StepAlone ==
    ASSUME TypeOK, SilentInv, AloneInv, Alone, WholePage, MaxLate = 0, [Next]_vars
    PROVE  AloneInv'
<1>1. CASE UNCHANGED vars
  <2> SUFFICES ASSUME NEW c \in Callers
               PROVE  CallAlone(c)'
    BY <1>1 DEF vars, AloneInv
  <2>1. CallAlone(c) /\ UNCHANGED <<saved, pc, job, row, todo, post, wire, reply, result>>
    BY <1>1 DEF AloneInv, vars, store, call, found
  <2>2. Knows(c) /\ ~job[c].check => Knows(c)'
    BY <2>1 DEF Knows, Cleaning, Accurate, OnlyOne, AtMost, Copies, Live
  <2>3. Asks(c) => Asks(c)'
    BY <2>1 DEF Asks, IsNext
  <2>4. Wrote(c) => Wrote(c)'
    BY <2>1 DEF Wrote, Answered, Has, IsNext, Copies, Live
  <2>5. Left(c) => Left(c)'
    BY <2>1 DEF Left, Has, OnlyOne, Copies, Live
  <2> QED
    BY <2>1, <2>2, <2>3, <2>4, <2>5 DEF CallAlone
<1>2. CASE LateExecute
  BY <1>2 DEF LateExecute, AloneInv
<1> QED
  BY <1>1, <1>2, StartAlone, FetchAlone, SearchAlone, CleanGetAlone, CleanedAlone,
     BeforeAlone, WriteDoneAlone, ApplyDoneAlone, FailsAlone, LoseAnswerAlone,
     RefuseAlone, ExecuteAlone DEF Next, Step

LEMMA AloneHolds ==
    ASSUME Alone, WholePage, MaxLate = 0
    PROVE  Spec => []AloneInv
<1>1. Init => AloneInv
  BY InitAlone
<1>2. TypeOK /\ SilentInv /\ AloneInv /\ [Next]_vars => AloneInv'
  BY StepAlone
<1> QED
  BY <1>1, <1>2, TypeCorrect, SilentHolds, PTL DEF Spec

\* "Ensure a resource exists (or doesn't) with desired state": a call that returned
\* left the record it names with every field it was given, or left no record, for
\* any records and any number of lost answers, retries, duplicates deleted and calls
\* before it.  Nobody interferes: no other caller, and no request of this one is
\* executed after it was given up.
THEOREM ConvergedHolds ==
    ASSUME Alone, WholePage, MaxLate = 0
    PROVE  Spec => []Converged
<1>1. AloneInv => Converged
  BY DEF AloneInv, CallAlone, Left, Has, Converged, Returned
<1> QED
  BY <1>1, AloneHolds, PTL

\* Under the same conditions the record of a call by match keys that did not
\* create it is the only one of its identity (AmbiguousMatchError,
\* _collapse_duplicates): the copies that a retried add leaves are seen by the next
\* call, and none is passed over.
THEOREM OneMatchHolds ==
    ASSUME Alone, WholePage, MaxLate = 0
    PROVE  Spec => []OneMatch
<1>1. TypeOK /\ AloneInv => OneMatch
  <2> SUFFICES ASSUME AloneInv, NEW c \in Callers, Returned(c), ~job[c].check,
                      job[c].state = "present", job[c].uuid = NoUuid,
                      result[c].action # "created"
               PROVE  Copies(job[c].key) = {result[c].uuid}
    BY DEF OneMatch
  <2>1. /\ Has(job[c], result[c].uuid) /\ OnlyOne(job[c], result[c].uuid)
    BY DEF AloneInv, CallAlone, Left, Returned
  <2>2. result[c].uuid # NoUuid
    BY <2>1, UuidsPositive DEF Has, Copies, Live
  <2> QED
    BY <2>1, <2>2 DEF OnlyOne
<1> QED
  BY <1>1, AloneHolds, TypeCorrect, PTL
=============================================================================
