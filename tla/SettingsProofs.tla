--------------------------- MODULE SettingsProofs ---------------------------
(***************************************************************************)
(* For any number of callers, fields, values and retries: the types of     *)
(* Settings, that concurrent callers keep their own fields, that the       *)
(* daemon is brought up to the document, and that reports are true.        *)
(***************************************************************************)
EXTENDS Settings, TLAPS

\* Where a call of each kind can stand, and what it has in flight there.
Place(c) ==
    /\ at[c] \in {"get", "save", "apply", "reread"} => args[c].kind = "settings"
    /\ at[c] \in {"status", "action", "verb", "after"} =>
          args[c].kind \in {"service", "core"} /\ args[c].state # "other"
    /\ at[c] \notin Writing => wire[c] = "none"
    /\ at[c] = "save" => post[c] = [op |-> "set", want |-> args[c].want]
    /\ at[c] \in {"apply", "verb"} => post[c].op \in Verbs
    /\ wire[c] # "none" => attempt[c] \in 1..MaxAttempts

\* A set in flight carries the params of a call that was started.
Backed(req) ==
    req.op = "set" =>
        \E d \in Callers :
            at[d] # "idle" /\ args[d].kind = "settings" /\ args[d].want = req.want

\* From the execution of its set on, a call finds its undisputed fields.
Kept(c) ==
    \/ at[c] \in {"apply", "reread"}
    \/ at[c] = "save" /\ wire[c] = "ok"
    \/ at[c] = "returned" /\ outcome[c] # "would"
    => \A f \in Fields, v \in Values : Sets(c, f, v) /\ Undisputed(f) => saved[f] = v

TypeInv == TypeOK /\ \A c \in Callers : Place(c)

FieldInv ==
    /\ \A m \in late : Backed(m.req)
    /\ \A c \in Callers : Kept(c)

-----------------------------------------------------------------------------
(* Lemmas about the arguments *)

\* The params of a settings call have the type of params.
LEMMA WantTyped ==
    ASSUME NEW call \in Calls, call.kind = "settings"
    PROVE  call.want \in Params
BY CallAssumption DEF CallType

\* A service call that is not rejected has a verb.
LEMMA VerbTyped ==
    ASSUME NEW call \in Calls, call.kind \in {"service", "core"}, call.state # "other"
    PROVE  VerbFor(call.state) \in Verbs
BY CallAssumption DEF CallType, VerbFor, Verbs

\* Every call that is not rejected goes to the first await of its kind.
LEMMA FirstAwaitPlaced ==
    ASSUME NEW call \in Calls, call.state # "other"
    PROVE  \/ FirstAwait(call) = "get" /\ call.kind = "settings"
           \/ FirstAwait(call) \in {"status", "action"} /\ call.kind \in {"service", "core"}
BY CallAssumption DEF CallType, FirstAwait

\* A merged document is a document.
LEMMA OverlayTyped ==
    ASSUME NEW doc \in Documents, NEW want \in Params
    PROVE  Overlay(doc, want) \in Documents
BY DEF Overlay, Documents, Params

\* Requests without params.
LEMMA NoWantTyped == NoWant \in Params
BY DEF NoWant, Params

-----------------------------------------------------------------------------
(* Types *)

\* One execution keeps the types of the appliance.
LEMMA PerformTyped ==
    ASSUME NEW req \in Requests, NEW answer, Perform(req, answer),
           saved \in Documents, loaded \in Documents, up \in BOOLEAN
    PROVE  saved' \in Documents /\ loaded' \in Documents /\ up' \in BOOLEAN
BY OverlayTyped DEF Perform, Requests

Outcomes == {"pending", "noop", "would", "changed", "ValueError",
             "failed", "refused", "unavailable"}

\* A call that ends keeps the types and places.
LEMMA EndTyped ==
    ASSUME TypeInv, NEW c \in Callers, NEW how \in Settled, NEW what \in Outcomes,
           End(c, how, what), UNCHANGED elsewhere
    PROVE  TypeInv'
<1> USE DEF End, MoveTo, elsewhere, daemon
<1>1. NoPost \in Requests
  BY NoWantTyped DEF NoPost, Requests
<1>2. TypeOK'
  BY <1>1, BoundAssumption DEF TypeInv, TypeOK, Outcomes
<1>3. ASSUME NEW d \in Callers PROVE Place(d)'
  BY DEF TypeInv, TypeOK, Place, Settled, Writing
<1> QED
  BY <1>2, <1>3 DEF TypeInv

\* A call that goes on to a read keeps them.
LEMMA GotoTyped ==
    ASSUME TypeInv, NEW c \in Callers, NEW place \in Reading,
           Goto(c, place), UNCHANGED elsewhere,
           place \in {"get", "reread"} => args[c].kind = "settings",
           place \in {"status", "action", "after"} =>
               args[c].kind \in {"service", "core"} /\ args[c].state # "other"
    PROVE  TypeInv'
<1> USE DEF Goto, MoveTo, elsewhere, daemon
<1>1. NoPost \in Requests
  BY NoWantTyped DEF NoPost, Requests
<1>2. TypeOK'
  BY <1>1, BoundAssumption DEF TypeInv, TypeOK
<1>3. ASSUME NEW d \in Callers PROVE Place(d)'
  BY DEF TypeInv, TypeOK, Place, Reading, Writing
<1> QED
  BY <1>2, <1>3 DEF TypeInv

\* A call that sends a request keeps them.
LEMMA SendTyped ==
    ASSUME TypeInv, NEW c \in Callers, NEW place \in Writing, NEW req \in Requests,
           SendTo(c, place, req), UNCHANGED elsewhere,
           place \in {"save", "apply"} => args[c].kind = "settings",
           place = "verb" =>
               args[c].kind \in {"service", "core"} /\ args[c].state # "other",
           place = "save" => req = [op |-> "set", want |-> args[c].want],
           place \in {"apply", "verb"} => req.op \in Verbs
    PROVE  TypeInv'
<1> USE DEF SendTo, MoveTo, elsewhere, daemon
<1>1. TypeOK'
  BY BoundAssumption DEF TypeInv, TypeOK
<1>2. ASSUME NEW d \in Callers PROVE Place(d)'
  BY BoundAssumption DEF TypeInv, TypeOK, Place, Writing
<1> QED
  BY <1>1, <1>2 DEF TypeInv

\* TypeInv is inductive.
LEMMA TypeStep ==
    ASSUME TypeInv, [Next]_vars
    PROVE  TypeInv'
<1> USE BoundAssumption
<1>1. NoPost \in Requests
  BY NoWantTyped DEF NoPost, Requests
<1>2. \A op \in Verbs : Order(op) \in Requests /\ Order(op).op = op
  BY NoWantTyped DEF Order, Requests
<1>3. ASSUME NEW c \in Callers, Start(c) PROVE TypeInv'
  <2>1. PICK call \in Calls :
           /\ args' = [args EXCEPT ![c] = call]
           /\ IF call.state = "other" THEN End(c, "raised", "ValueError")
              ELSE Goto(c, FirstAwait(call))
    BY <1>3 DEF Start
  <2>2. at[c] = "idle" /\ UNCHANGED <<daemon, late, touched>>
    BY <1>3 DEF Start
  <2>3. CASE call.state = "other"
    <3>1. TypeOK'
      BY <1>1, <2>1, <2>2, <2>3
         DEF End, MoveTo, TypeInv, TypeOK, daemon, Settled, Reading, Writing
    <3>2. ASSUME NEW d \in Callers PROVE Place(d)'
      BY <2>1, <2>2, <2>3 DEF End, MoveTo, TypeInv, TypeOK, Place, Writing
    <3> QED
      BY <3>1, <3>2 DEF TypeInv
  <2>4. CASE call.state # "other"
    <3>1. TypeOK'
      BY <1>1, <2>1, <2>2, <2>4, FirstAwaitPlaced
         DEF Goto, MoveTo, TypeInv, TypeOK, daemon, Settled, Reading, Writing
    <3>2. ASSUME NEW d \in Callers PROVE Place(d)'
      BY <2>1, <2>2, <2>4, FirstAwaitPlaced DEF Goto, MoveTo, TypeInv, TypeOK, Place, Writing
    <3> QED
      BY <3>1, <3>2 DEF TypeInv
  <2> QED
    BY <2>3, <2>4
<1>4. ASSUME NEW c \in Callers, Step(c) PROVE TypeInv'
  <2> USE DEF Reading, Writing, Settled, Outcomes
  <2>0. args[c] \in Calls /\ Place(c)
    BY DEF TypeInv, TypeOK
  <2>1. CASE GetBefore(c)
    <3>1. args[c].kind = "settings" /\ args[c].want \in Params
      BY <2>0, <2>1, WantTyped DEF GetBefore, Place
    <3> DEFINE set == [op |-> "set", want |-> args[c].want]
    <3>2. set \in Requests
      BY <3>1 DEF Requests
    <3>3. UNCHANGED elsewhere
      BY <2>1 DEF GetBefore
    <3>4. \/ End(c, "returned", "noop")
          \/ End(c, "returned", "would")
          \/ SendTo(c, "save", set)
      BY <2>1 DEF GetBefore, Body
    <3> HIDE DEF set
    <3>5. CASE End(c, "returned", "noop") \/ End(c, "returned", "would")
      BY <3>3, <3>5, EndTyped
    <3>6. CASE SendTo(c, "save", set)
      BY <3>1, <3>2, <3>3, <3>6, SendTyped DEF set
    <3> QED
      BY <3>4, <3>5, <3>6
  <2>2. CASE SaveDone(c)
    <3>1. args[c].kind = "settings" /\ UNCHANGED elsewhere
      BY <2>0, <2>2 DEF SaveDone, Place
    <3>2. SendTo(c, "apply", Order("reconfigure")) \/ Goto(c, "reread")
      BY <2>2 DEF SaveDone
    <3>3. Order("reconfigure") \in Requests /\ Order("reconfigure").op \in Verbs
      BY <1>2 DEF Verbs
    <3>4. CASE SendTo(c, "apply", Order("reconfigure"))
      BY <3>1, <3>3, <3>4, SendTyped
    <3>5. CASE Goto(c, "reread")
      BY <3>1, <3>5, GotoTyped
    <3> QED
      BY <3>2, <3>4, <3>5
  <2>3. CASE ApplyDone(c) \/ Reread(c)
    <3>1. UNCHANGED elsewhere
      BY <2>3 DEF ApplyDone, Reread
    <3>2. \/ Goto(c, "reread") /\ args[c].kind = "settings"
          \/ End(c, "raised", "failed") \/ End(c, "returned", "changed")
      BY <2>0, <2>3 DEF ApplyDone, Reread, Place
    <3> QED
      BY <3>1, <3>2, GotoTyped, EndTyped
  <2>4. CASE ReadStatus(c) \/ Action(c)
    <3>1. args[c].kind \in {"service", "core"} /\ args[c].state # "other"
      BY <2>0, <2>4 DEF ReadStatus, Action, Place
    <3> DEFINE order == Order(VerbFor(args[c].state))
    <3>2. order \in Requests /\ order.op \in Verbs
      BY <1>2, <2>0, <3>1, VerbTyped
    <3>3. UNCHANGED elsewhere
      BY <2>4 DEF ReadStatus, Action
    <3>4. \/ End(c, "returned", "noop") \/ End(c, "returned", "would")
          \/ Goto(c, "action") \/ SendTo(c, "verb", order)
      BY <2>4 DEF ReadStatus, Action
    <3> HIDE DEF order
    <3>5. CASE End(c, "returned", "noop") \/ End(c, "returned", "would")
      BY <3>3, <3>5, EndTyped
    <3>6. CASE Goto(c, "action")
      BY <3>1, <3>3, <3>6, GotoTyped
    <3>7. CASE SendTo(c, "verb", order)
      BY <3>1, <3>2, <3>3, <3>7, SendTyped
    <3> QED
      BY <3>4, <3>5, <3>6, <3>7
  <2>5. CASE VerbDone(c)
    BY <2>0, <2>5, GotoTyped DEF VerbDone, Place
  <2>6. CASE AfterStatus(c) \/ ReadFails(c) \/ Refused(c)
    BY <2>6, EndTyped DEF AfterStatus, ReadFails, Refused
  <2>7. CASE LoseAnswer(c)
    <3>1. wire[c] # "none" /\ at[c] \in Writing /\ attempt[c] \in 1..MaxAttempts
          /\ post[c] \in Requests
      BY <2>0, <2>7 DEF LoseAnswer, Place, TypeInv, TypeOK
    <3>2. late' \subseteq LateRequests
      BY <2>7, <3>1 DEF LoseAnswer, LateRequests, TypeInv, TypeOK
    <3> USE DEF MoveTo, End, daemon
    <3>3. TypeOK'
      BY <1>1, <2>7, <3>1, <3>2 DEF LoseAnswer, TypeInv, TypeOK
    <3>4. ASSUME NEW d \in Callers PROVE Place(d)'
      BY <2>7, <3>1 DEF LoseAnswer, TypeInv, TypeOK, Place
    <3> QED
      BY <3>3, <3>4 DEF TypeInv
  <2> QED
    BY <1>4, <2>1, <2>2, <2>3, <2>4, <2>5, <2>6, <2>7 DEF Step
<1>5. ASSUME NEW c \in Callers, Execute(c) \/ Refuse(c) PROVE TypeInv'
  <2>1. post[c] \in Requests /\ saved \in Documents /\ loaded \in Documents
        /\ up \in BOOLEAN
    BY DEF TypeInv, TypeOK
  <2>2. saved' \in Documents /\ loaded' \in Documents /\ up' \in BOOLEAN
    BY <1>5, <2>1, PerformTyped DEF Execute, Refuse, daemon
  <2>3. TypeOK'
    BY <1>5, <2>2 DEF Execute, Refuse, TypeInv, TypeOK
  <2>4. ASSUME NEW d \in Callers PROVE Place(d)'
    BY <1>5 DEF Execute, Refuse, TypeInv, TypeOK, Place, Writing
  <2> QED
    BY <2>3, <2>4 DEF TypeInv
<1>6. CASE LateExecute
  <2>1. PICK m \in late, answer \in {"ok", "failed"} :
           /\ Perform(m.req, answer)
           /\ late' = late \ {m}
           /\ touched' = [touched EXCEPT ![m.by] = TRUE]
    BY <1>6 DEF LateExecute
  <2>2. m.req \in Requests /\ saved \in Documents /\ loaded \in Documents
        /\ up \in BOOLEAN
    BY <2>1 DEF TypeInv, TypeOK, LateRequests
  <2>3. saved' \in Documents /\ loaded' \in Documents /\ up' \in BOOLEAN
    BY <2>1, <2>2, PerformTyped
  <2>4. TypeOK'
    BY <1>6, <2>1, <2>3 DEF LateExecute, TypeInv, TypeOK, request
  <2>5. ASSUME NEW d \in Callers PROVE Place(d)'
    BY <1>6 DEF LateExecute, TypeInv, Place, request
  <2> QED
    BY <2>4, <2>5 DEF TypeInv
<1>7. CASE UNCHANGED vars
  BY <1>7 DEF vars, daemon, request, TypeInv, TypeOK, Place
<1> QED
  BY <1>3, <1>4, <1>5, <1>6, <1>7 DEF Next

\* TypeInv holds in the beginning.
LEMMA TypeInit ==
    ASSUME Init
    PROVE  TypeInv
<1>1. NoPost \in Requests
  BY NoWantTyped DEF NoPost, Requests
<1>2. (CHOOSE call \in Calls : TRUE) \in Calls
  BY CallAssumption
<1>3. TypeOK
  BY <1>1, <1>2, BoundAssumption DEF Init, TypeOK
<1>4. ASSUME NEW c \in Callers PROVE Place(c)
  BY DEF Init, Place, Writing
<1> QED
  BY <1>3, <1>4 DEF TypeInv

\* Whatever is lost, retried, refused or late, every variable keeps its type; in
\* particular no request is attempted more often than the budget allows.
THEOREM TypeCorrect == Spec => []TypeOK
<1>1. Spec => []TypeInv
  BY TypeInit, TypeStep, PTL DEF Spec
<1>2. TypeInv => TypeOK
  BY DEF TypeInv
<1> QED
  BY <1>1, <1>2, PTL

-----------------------------------------------------------------------------
(* The fields *)

\* Which calls set a field, and which requests they back, depends on their
\* arguments alone once they are started.
LEMMA Frame ==
    ASSUME UNCHANGED args, \A d \in Callers : at'[d] = "idle" <=> at[d] = "idle"
    PROVE  /\ \A d \in Callers : \A f, v : Sets(d, f, v)' <=> Sets(d, f, v)
           /\ \A f : Undisputed(f)' <=> Undisputed(f)
           /\ \A req : Backed(req) => Backed(req)'
BY DEF Sets, Undisputed, Backed

\* What is in flight is backed.
LEMMA PostBacked ==
    ASSUME TypeInv, NEW c \in Callers, wire[c] # "none"
    PROVE  Backed(post[c])
<1>1. Place(c)
  BY DEF TypeInv
<1>2. CASE at[c] = "save"
  BY <1>1, <1>2 DEF Place, Backed
<1>3. CASE at[c] \in {"apply", "verb"}
  BY <1>1, <1>3 DEF Place, Backed, Verbs
<1> QED
  BY <1>1, <1>2, <1>3 DEF Place, Writing

\* Executing a backed request moves no field away from an undisputed value.
LEMMA MergeKeeps ==
    ASSUME TypeInv, NEW req \in Requests, Backed(req), NEW answer, Perform(req, answer),
           NEW d \in Callers, NEW f \in Fields, NEW v \in Values,
           Sets(d, f, v), Undisputed(f), saved[f] = v
    PROVE  saved'[f] = v
<1>1. CASE req.op # "set"
  BY <1>1 DEF Perform
<1>2. CASE req.op = "set"
  <2>1. saved' = Overlay(saved, req.want) /\ req.want \in Params
    BY <1>2 DEF Perform, Requests
  <2>2. CASE req.want[f] = Unset
    BY <2>1, <2>2 DEF Overlay
  <2>3. CASE req.want[f] # Unset
    <3>1. PICK e \in Callers :
             at[e] # "idle" /\ args[e].kind = "settings" /\ args[e].want = req.want
      BY <1>2 DEF Backed
    <3>2. req.want[f] \in Values /\ Sets(e, f, req.want[f])
      BY <2>1, <2>3, <3>1 DEF Sets, Params
    <3>3. req.want[f] = v
      BY <3>2 DEF Undisputed
    <3> QED
      BY <2>1, <2>3, <3>3 DEF Overlay
  <2> QED
    BY <2>2, <2>3
<1> QED
  BY <1>1, <1>2

\* FieldInv is inductive under TypeInv.
LEMMA FieldStep ==
    ASSUME TypeInv, FieldInv, [Next]_vars
    PROVE  FieldInv'
<1>0. /\ at \in [Callers -> Reading \cup Writing \cup Settled \cup {"idle"}]
      /\ args \in [Callers -> Calls] /\ outcome \in [Callers -> Outcomes]
      /\ wire \in [Callers -> {"none", "sent", "ok", "failed", "refused"}]
      /\ late \subseteq LateRequests
  BY DEF TypeInv, TypeOK, Outcomes
<1>1. ASSUME NEW c \in Callers, Start(c) PROVE FieldInv'
  <2>1. PICK call \in Calls : args' = [args EXCEPT ![c] = call]
    BY <1>1 DEF Start
  <2>2. /\ at[c] = "idle" /\ saved' = saved /\ late' = late
        /\ at'[c] \in {"raised", "get", "status", "action"}
        /\ \A d \in Callers \ {c} :
              /\ at'[d] = at[d] /\ wire'[d] = wire[d] /\ outcome'[d] = outcome[d]
              /\ args'[d] = args[d]
    BY <1>0, <1>1, FirstAwaitPlaced
       DEF Start, Goto, End, MoveTo, FirstAwait, daemon
  <2>3. \A d \in Callers : \A f, v : Sets(d, f, v) => Sets(d, f, v)'
    BY <2>2 DEF Sets
  <2>4. \A f : Undisputed(f)' => Undisputed(f)
    BY <2>3 DEF Undisputed
  <2>5. \A req : Backed(req) => Backed(req)'
    BY <2>2 DEF Backed
  <2>6. ASSUME NEW d \in Callers PROVE Kept(d)'
    <3>1. CASE d = c
      BY <2>2, <3>1 DEF Kept
    <3>2. CASE d # c
      BY <2>2, <2>4, <3>2 DEF FieldInv, Kept, Sets
    <3> QED
      BY <3>1, <3>2
  <2> QED
    BY <2>2, <2>5, <2>6 DEF FieldInv
<1>2. ASSUME NEW c \in Callers, Step(c) PROVE FieldInv'
  <2>1. /\ UNCHANGED args /\ saved' = saved
        /\ at[c] # "idle" /\ at'[c] # "idle"
        /\ \A d \in Callers \ {c} :
              at'[d] = at[d] /\ wire'[d] = wire[d] /\ outcome'[d] = outcome[d]
    <3>1. CASE GetBefore(c) \/ SaveDone(c) \/ ApplyDone(c) \/ Reread(c)
      BY <1>0, <3>1 DEF GetBefore, SaveDone, ApplyDone, Reread, Goto, SendTo, End,
         MoveTo, elsewhere, daemon
    <3>2. CASE ReadStatus(c) \/ Action(c) \/ VerbDone(c) \/ AfterStatus(c)
      BY <1>0, <3>2 DEF ReadStatus, Action, VerbDone, AfterStatus, Goto, SendTo, End,
         MoveTo, elsewhere, daemon
    <3>3. CASE ReadFails(c) \/ Refused(c) \/ LoseAnswer(c)
      <4>1. at[c] # "idle"
        BY <3>3 DEF ReadFails, Refused, LoseAnswer, TypeInv, Place, Reading, Writing
      <4> QED
        BY <1>0, <3>3, <4>1 DEF ReadFails, Refused, LoseAnswer, End, MoveTo, elsewhere,
           daemon
    <3> QED
      BY <1>2, <3>1, <3>2, <3>3 DEF Step
  <2>2. /\ \A d \in Callers : \A f, v : Sets(d, f, v)' <=> Sets(d, f, v)
        /\ \A f : Undisputed(f)' <=> Undisputed(f)
        /\ \A req : Backed(req) => Backed(req)'
    BY <2>1, Frame
  <2>3. \A m \in late' : m \in late \/ Backed(m.req)
    <3>1. CASE LoseAnswer(c)
      BY <3>1, PostBacked DEF LoseAnswer
    <3>2. CASE ~LoseAnswer(c)
      BY <1>2, <3>2 DEF Step, GetBefore, SaveDone, ApplyDone, Reread, ReadStatus, Action,
         VerbDone, AfterStatus, ReadFails, Refused, elsewhere
    <3> QED
      BY <3>1, <3>2
  <2>4. \A d \in Callers \ {c} : Kept(d)'
    BY <2>1, <2>2 DEF FieldInv, Kept
  <2>5. Kept(c)'
    <3>1. CASE GetBefore(c)
      BY <1>0, <2>1, <2>2, <3>1 DEF GetBefore, Drift, Kept, Sets, Goto, SendTo, End, MoveTo
    <3>2. CASE SaveDone(c) \/ ApplyDone(c) \/ Reread(c)
      BY <1>0, <2>1, <2>2, <3>2
         DEF SaveDone, ApplyDone, Reread, FieldInv, Kept, Goto, SendTo, End, MoveTo
    <3>3. CASE ReadStatus(c) \/ Action(c) \/ VerbDone(c) \/ AfterStatus(c)
      <4>1. args[c].kind \in {"service", "core"}
        BY <3>3 DEF ReadStatus, Action, VerbDone, AfterStatus, TypeInv, Place
      <4> QED
        BY <2>2, <4>1 DEF Kept, Sets
    <3>4. CASE ReadFails(c) \/ Refused(c) \/ LoseAnswer(c)
      BY <1>0, <2>1, <2>2, <3>4
         DEF ReadFails, Refused, LoseAnswer, FieldInv, Kept, End, MoveTo, TypeInv, Place,
             Writing
    <3> QED
      BY <1>2, <3>1, <3>2, <3>3, <3>4 DEF Step
  <2> QED
    BY <2>2, <2>3, <2>4, <2>5 DEF FieldInv
<1>3. ASSUME NEW c \in Callers, Execute(c) PROVE FieldInv'
  <2>1. PICK answer \in {"ok", "failed"} :
           Perform(post[c], answer) /\ wire' = [wire EXCEPT ![c] = answer]
    BY <1>3 DEF Execute
  <2>2. UNCHANGED <<late, at, args, outcome>> /\ wire[c] = "sent"
    BY <1>3 DEF Execute
  <2>3. /\ \A d \in Callers : \A f, v : Sets(d, f, v)' <=> Sets(d, f, v)
        /\ \A f : Undisputed(f)' <=> Undisputed(f)
        /\ \A req : Backed(req) => Backed(req)'
    BY <2>2, Frame
  <2>4. post[c] \in Requests /\ Backed(post[c])
    BY <2>2, PostBacked DEF TypeInv, TypeOK
  <2>5. ASSUME NEW d \in Callers, NEW f \in Fields, NEW v \in Values,
               Sets(d, f, v), Undisputed(f), saved[f] = v
        PROVE  saved'[f] = v
    BY <2>1, <2>4, <2>5, MergeKeeps
  <2>6. ASSUME at[c] = "save", NEW f \in Fields, NEW v \in Values, Sets(c, f, v)
        PROVE  saved'[f] = v
    <3>1. post[c] = [op |-> "set", want |-> args[c].want]
      BY <2>6 DEF TypeInv, Place
    <3> QED
      BY <2>1, <2>6, <3>1 DEF Perform, Overlay, Sets
  <2>7. ASSUME NEW d \in Callers PROVE Kept(d)'
    <3>1. CASE d = c /\ at[c] = "save"
      BY <2>2, <2>3, <2>6, <3>1 DEF Kept
    <3>2. CASE ~(d = c /\ at[c] = "save")
      BY <1>0, <2>1, <2>2, <2>3, <2>5, <3>2 DEF FieldInv, Kept
    <3> QED
      BY <3>1, <3>2
  <2> QED
    BY <2>2, <2>3, <2>7 DEF FieldInv
<1>4. ASSUME NEW c \in Callers, Refuse(c) PROVE FieldInv'
  <2>1. UNCHANGED <<saved, late, at, args, outcome>>
        /\ wire' = [wire EXCEPT ![c] = "refused"]
    BY <1>4 DEF Refuse, daemon
  <2>2. /\ \A d \in Callers : \A f, v : Sets(d, f, v)' <=> Sets(d, f, v)
        /\ \A f : Undisputed(f)' <=> Undisputed(f)
        /\ \A req : Backed(req) => Backed(req)'
    BY <2>1, Frame
  <2>3. ASSUME NEW d \in Callers PROVE Kept(d)'
    BY <1>0, <2>1, <2>2 DEF FieldInv, Kept
  <2> QED
    BY <2>1, <2>2, <2>3 DEF FieldInv
<1>5. CASE LateExecute
  <2>1. PICK m \in late, answer \in {"ok", "failed"} :
           Perform(m.req, answer) /\ late' = late \ {m}
    BY <1>5 DEF LateExecute
  <2>2. UNCHANGED <<at, args, wire, outcome>>
    BY <1>5 DEF LateExecute, request
  <2>3. /\ \A d \in Callers : \A f, v : Sets(d, f, v)' <=> Sets(d, f, v)
        /\ \A f : Undisputed(f)' <=> Undisputed(f)
        /\ \A req : Backed(req) => Backed(req)'
    BY <2>2, Frame
  <2>4. m.req \in Requests /\ Backed(m.req)
    BY <1>0, <2>1 DEF FieldInv, LateRequests
  <2>5. ASSUME NEW d \in Callers, NEW f \in Fields, NEW v \in Values,
               Sets(d, f, v), Undisputed(f), saved[f] = v
        PROVE  saved'[f] = v
    BY <2>1, <2>4, <2>5, MergeKeeps
  <2>6. ASSUME NEW d \in Callers PROVE Kept(d)'
    BY <2>2, <2>3, <2>5 DEF FieldInv, Kept
  <2> QED
    BY <2>1, <2>3, <2>6 DEF FieldInv
<1>6. CASE UNCHANGED vars
  BY <1>6 DEF vars, daemon, request, FieldInv, Backed, Kept, Sets, Undisputed
<1> QED
  BY <1>1, <1>2, <1>3, <1>4, <1>5, <1>6 DEF Next

\* However many callers set fields of one document at once, through retries and
\* late executions, each keeps the fields nobody else sets differently.
THEOREM OwnFieldsAlwaysStay == Spec => []OwnFieldsStay
<1>1. Init => TypeInv /\ FieldInv
  BY TypeInit DEF Init, FieldInv, Kept
<1>2. TypeInv /\ FieldInv /\ [Next]_vars => (TypeInv /\ FieldInv)'
  BY TypeStep, FieldStep
<1>3. TypeInv /\ FieldInv => OwnFieldsStay
  BY DEF FieldInv, Kept, OwnFieldsStay
<1> QED
  BY <1>1, <1>2, <1>3, PTL DEF Spec

-----------------------------------------------------------------------------
(* The daemon *)

\* A set the appliance may still execute is one its caller sent: it stands at
\* the set or past it.
Sent(m) ==
    m.req.op = "set" =>
        /\ args[m.by].kind = "settings" /\ args[m.by].want = m.req.want
        /\ \/ at[m.by] \in {"save", "apply", "reread", "raised"}
           \/ at[m.by] = "returned" /\ outcome[m.by] # "would"

\* This call has still to reconfigure, or failed to.
Due(c) ==
    \/ at[c] \in {"save", "raised"}
    \/ at[c] = "apply" /\ wire[c] # "ok"

\* What makes QuietIsLoaded inductive: between calls that agree, the document
\* runs ahead of the daemon only while somebody is due to reconfigure it.
LoadInv ==
    /\ \A m \in late : Sent(m)
    /\ \A c \in Callers : at[c] = "apply" => post[c].op = "reconfigure"
    /\ ~HasApply => loaded = saved
    /\ (\A f \in Fields : Undisputed(f)) => loaded = saved \/ \E c \in Callers : Due(c)

\* A step of a caller touches neither the appliance nor the other callers.
LEMMA StepFrame ==
    ASSUME TypeInv, NEW c \in Callers, Step(c)
    PROVE  /\ UNCHANGED <<daemon, args, touched>>
           /\ at[c] # "idle" /\ at'[c] # "idle"
           /\ \A d \in Callers \ {c} :
                 /\ at'[d] = at[d] /\ wire'[d] = wire[d] /\ post'[d] = post[d]
                 /\ outcome'[d] = outcome[d]
           /\ ~LoseAnswer(c) => late' = late
<1> USE DEF TypeInv, TypeOK, MoveTo, elsewhere
<1>1. CASE GetBefore(c) \/ SaveDone(c) \/ ApplyDone(c) \/ Reread(c)
  BY <1>1 DEF GetBefore, SaveDone, ApplyDone, Reread, Goto, SendTo, End
<1>2. CASE ReadStatus(c) \/ Action(c) \/ VerbDone(c) \/ AfterStatus(c)
  BY <1>2 DEF ReadStatus, Action, VerbDone, AfterStatus, Goto, SendTo, End
<1>3. CASE ReadFails(c) \/ Refused(c) \/ LoseAnswer(c)
  <2>1. at[c] # "idle"
    BY <1>3 DEF ReadFails, Refused, LoseAnswer, Place, Reading, Writing
  <2> QED
    BY <1>3, <2>1 DEF ReadFails, Refused, LoseAnswer, End
<1> QED
  BY <1>1, <1>2, <1>3 DEF Step

\* A call starts where nothing was sent.
LEMMA StartFrame ==
    ASSUME TypeInv, NEW c \in Callers, Start(c)
    PROVE  /\ UNCHANGED <<daemon, late, touched>>
           /\ at[c] = "idle" /\ wire'[c] = "none"
           /\ at'[c] \in {"raised", "get", "status", "action"}
           /\ at'[c] = "raised" => outcome'[c] = "ValueError"
           /\ at'[c] # "raised" => outcome'[c] = outcome[c]
           /\ \A d \in Callers \ {c} :
                 /\ at'[d] = at[d] /\ wire'[d] = wire[d] /\ post'[d] = post[d]
                 /\ outcome'[d] = outcome[d] /\ args'[d] = args[d]
<1>1. PICK call \in Calls :
         /\ args' = [args EXCEPT ![c] = call]
         /\ IF call.state = "other" THEN End(c, "raised", "ValueError")
            ELSE Goto(c, FirstAwait(call))
  BY DEF Start
<1>2. FirstAwait(call) \in {"get", "status", "action"}
  BY DEF FirstAwait
<1> QED
  BY <1>1, <1>2 DEF Start, TypeInv, TypeOK, End, Goto, MoveTo

\* Executing a late set changes nothing once its call found its fields.
LEMMA LateSetSettled ==
    ASSUME TypeInv, FieldInv, NEW m \in late, Sent(m), m.req.op = "set",
           \A f \in Fields : Undisputed(f), ~Due(m.by)
    PROVE  Overlay(saved, m.req.want) = saved
<1>1. m.by \in Callers /\ m.req.want \in Params /\ saved \in Documents
  BY DEF TypeInv, TypeOK, LateRequests, Requests
<1>2. \A f \in Fields, v \in Values : Sets(m.by, f, v) => saved[f] = v
  BY <1>1 DEF FieldInv, Kept, Sent, Due
<1>3. \A f \in Fields : m.req.want[f] # Unset => saved[f] = m.req.want[f]
  BY <1>1, <1>2 DEF Sets, Sent, Params
<1> QED
  BY <1>1, <1>3 DEF Overlay, Documents

\* LoadInv is inductive under TypeInv and FieldInv.
LEMMA LoadStep ==
    ASSUME TypeInv, FieldInv, LoadInv, [Next]_vars
    PROVE  LoadInv'
<1>0. /\ at \in [Callers -> Reading \cup Writing \cup Settled \cup {"idle"}]
      /\ wire \in [Callers -> {"none", "sent", "ok", "failed", "refused"}]
      /\ \A m \in late : m.by \in Callers /\ m.req \in Requests
  BY DEF TypeInv, TypeOK, LateRequests
<1>1. ASSUME NEW c \in Callers, Start(c) PROVE LoadInv'
  <2>1. /\ UNCHANGED <<saved, loaded, late>>
        /\ at[c] = "idle" /\ at'[c] # "apply"
        /\ \A d \in Callers \ {c} :
              /\ at'[d] = at[d] /\ wire'[d] = wire[d] /\ post'[d] = post[d]
              /\ outcome'[d] = outcome[d] /\ args'[d] = args[d]
    BY <1>1, StartFrame DEF daemon
  <2>2. \A f : Undisputed(f)' => Undisputed(f)
    BY <2>1 DEF Undisputed, Sets
  <2>3. \A m \in late' : Sent(m)'
    BY <1>0, <2>1 DEF LoadInv, Sent
  <2>4. \A d \in Callers : Due(d) => Due(d)'
    BY <2>1 DEF Due
  <2> QED
    BY <2>1, <2>2, <2>3, <2>4 DEF LoadInv
<1>2. ASSUME NEW c \in Callers, Step(c) PROVE LoadInv'
  <2>1. /\ UNCHANGED <<saved, loaded, args>>
        /\ at[c] # "idle" /\ at'[c] # "idle"
        /\ \A d \in Callers \ {c} :
              /\ at'[d] = at[d] /\ wire'[d] = wire[d] /\ post'[d] = post[d]
              /\ outcome'[d] = outcome[d]
        /\ ~LoseAnswer(c) => late' = late
    BY <1>2, StepFrame DEF daemon
  <2>2. \A f : Undisputed(f)' <=> Undisputed(f)
    BY <2>1, Frame
  <2> USE DEF Goto, SendTo, End, MoveTo
  <2>3. at'[c] = "apply" => post'[c].op = "reconfigure"
    <3>1. CASE SaveDone(c)
      BY <1>0, <3>1 DEF SaveDone, Order, TypeInv, TypeOK
    <3>2. CASE LoseAnswer(c)
      BY <1>0, <3>2 DEF LoseAnswer, LoadInv, TypeInv, TypeOK
    <3>3. CASE ~SaveDone(c) /\ ~LoseAnswer(c)
      BY <1>0, <1>2, <3>3
         DEF Step, GetBefore, ApplyDone, Reread, ReadStatus, Action, VerbDone,
             AfterStatus, ReadFails, Refused
    <3> QED
      BY <3>1, <3>2, <3>3
  <2>4. Due(c) => Due(c)' \/ ~HasApply
    <3>1. CASE SaveDone(c) \/ ApplyDone(c)
      BY <1>0, <3>1 DEF SaveDone, ApplyDone, Due
    <3>2. CASE Refused(c) \/ LoseAnswer(c) \/ ReadFails(c)
      BY <1>0, <3>2 DEF Refused, LoseAnswer, ReadFails, Due
    <3>3. CASE \/ GetBefore(c) \/ Reread(c) \/ ReadStatus(c)
               \/ Action(c) \/ VerbDone(c) \/ AfterStatus(c)
      BY <3>3 DEF GetBefore, Reread, ReadStatus, Action, VerbDone, AfterStatus, Due
    <3> QED
      BY <1>2, <3>1, <3>2, <3>3 DEF Step
  <2>5. ASSUME \/ at[c] \in {"save", "apply", "reread", "raised"}
               \/ at[c] = "returned" /\ outcome[c] # "would"
        PROVE  \/ at'[c] \in {"save", "apply", "reread", "raised"}
               \/ at'[c] = "returned" /\ outcome'[c] # "would"
    <3>1. CASE SaveDone(c) \/ ApplyDone(c) \/ Reread(c)
      BY <1>0, <3>1 DEF SaveDone, ApplyDone, Reread, TypeInv, TypeOK
    <3>2. CASE Refused(c) \/ LoseAnswer(c) \/ ReadFails(c)
      BY <1>0, <2>5, <3>2 DEF Refused, LoseAnswer, ReadFails
    <3>3. CASE GetBefore(c) \/ ReadStatus(c) \/ Action(c) \/ VerbDone(c) \/ AfterStatus(c)
      BY <2>5, <3>3 DEF GetBefore, ReadStatus, Action, VerbDone, AfterStatus
    <3> QED
      BY <1>2, <3>1, <3>2, <3>3 DEF Step
  <2>6. \A m \in late : Sent(m)'
    BY <1>0, <2>1, <2>5 DEF LoadInv, Sent
  <2>7. \A m \in late' : Sent(m)'
    <3>1. CASE LoseAnswer(c)
      <4>1. Place(c) /\ at[c] \in Writing
        BY <3>1 DEF LoseAnswer, TypeInv, Place
      <4>2. post[c].op = "set" => at[c] = "save" /\ post[c].want = args[c].want
                                  /\ args[c].kind = "settings"
        BY <4>1 DEF Place, Writing, Verbs
      <4>3. post[c].op = "set" => at'[c] \in {"save", "raised"}
        BY <1>0, <3>1, <4>2 DEF LoseAnswer
      <4>4. \A m \in late' : m \in late \/ (m.by = c /\ m.req = post[c])
        BY <3>1 DEF LoseAnswer
      <4> QED
        BY <2>1, <2>6, <4>2, <4>3, <4>4 DEF Sent
    <3>2. CASE ~LoseAnswer(c)
      BY <2>1, <2>6, <3>2
    <3> QED
      BY <3>1, <3>2
  <2>8. \A d \in Callers \ {c} : Due(d) => Due(d)'
    BY <2>1 DEF Due
  <2> QED
    BY <2>1, <2>2, <2>3, <2>4, <2>7, <2>8 DEF LoadInv
<1>3. ASSUME NEW c \in Callers, Execute(c) PROVE LoadInv'
  <2>1. PICK answer \in {"ok", "failed"} :
           Perform(post[c], answer) /\ wire' = [wire EXCEPT ![c] = answer]
    BY <1>3 DEF Execute
  <2>2. UNCHANGED <<late, at, args, post, outcome>> /\ wire[c] = "sent" /\ Place(c)
    BY <1>3 DEF Execute, TypeInv
  <2>3. \A f : Undisputed(f)' <=> Undisputed(f)
    BY <2>2, Frame
  <2>4. \A m \in late' : Sent(m)'
    BY <2>2 DEF LoadInv, Sent
  <2>5. ~HasApply => loaded' = saved'
    BY <2>1 DEF Perform, LoadInv
  <2>6. \A d \in Callers \ {c} : Due(d) => Due(d)'
    BY <2>1, <2>2 DEF Due
  <2>7. CASE post[c].op = "set"
    <3>1. Due(c)'
      BY <2>2, <2>7 DEF Place, Writing, Verbs, Due
    <3> QED
      BY <2>2, <2>4, <2>5, <3>1 DEF LoadInv
  <2>8. CASE post[c].op = "reconfigure" /\ answer = "ok"
    BY <2>1, <2>2, <2>4, <2>5, <2>8 DEF Perform, LoadInv
  <2>9. CASE post[c].op # "set" /\ ~(post[c].op = "reconfigure" /\ answer = "ok")
    <3>1. UNCHANGED <<saved, loaded>>
      BY <2>1, <2>9 DEF Perform
    <3>2. Due(c) => Due(c)'
      BY <1>0, <2>1, <2>2, <2>9 DEF Due, LoadInv
    <3> QED
      BY <2>2, <2>3, <2>4, <2>5, <2>6, <3>1, <3>2 DEF LoadInv
  <2> QED
    BY <2>7, <2>8, <2>9
<1>4. ASSUME NEW c \in Callers, Refuse(c) PROVE LoadInv'
  <2>1. UNCHANGED <<saved, loaded, late, at, args, post, outcome>>
        /\ wire' = [wire EXCEPT ![c] = "refused"]
    BY <1>4 DEF Refuse, daemon
  <2>2. \A f : Undisputed(f)' <=> Undisputed(f)
    BY <2>1, Frame
  <2>3. \A d \in Callers : Due(d) => Due(d)'
    BY <1>0, <2>1 DEF Due
  <2> QED
    BY <2>1, <2>2, <2>3 DEF LoadInv, Sent
<1>5. CASE LateExecute
  <2>1. PICK m \in late, answer \in {"ok", "failed"} :
           Perform(m.req, answer) /\ late' = late \ {m}
    BY <1>5 DEF LateExecute
  <2>2. UNCHANGED <<at, args, wire, post, outcome>>
    BY <1>5 DEF LateExecute, request
  <2>3. \A f : Undisputed(f)' <=> Undisputed(f)
    BY <2>2, Frame
  <2>4. \A n \in late' : Sent(n)'
    BY <2>1, <2>2 DEF LoadInv, Sent
  <2>5. \A d \in Callers : Due(d)' <=> Due(d)
    BY <2>2 DEF Due
  <2>6. ~HasApply => loaded' = saved'
    BY <2>1 DEF Perform, LoadInv
  <2>7. ASSUME \A f \in Fields : Undisputed(f), ~ \E d \in Callers : Due(d)
        PROVE  loaded' = saved'
    <3>1. loaded = saved
      BY <2>7 DEF LoadInv
    <3>2. CASE m.req.op = "set"
      <4>1. Overlay(saved, m.req.want) = saved
        BY <1>0, <2>1, <2>7, <3>2, LateSetSettled DEF LoadInv
      <4> QED
        BY <2>1, <3>1, <3>2, <4>1 DEF Perform
    <3>3. CASE m.req.op # "set"
      BY <2>1, <3>1, <3>3 DEF Perform
    <3> QED
      BY <3>2, <3>3
  <2> QED
    BY <2>2, <2>3, <2>4, <2>5, <2>6, <2>7 DEF LoadInv
<1>6. CASE UNCHANGED vars
  BY <1>6 DEF vars, daemon, request, LoadInv, Sent, Due, Undisputed, Sets
<1> QED
  BY <1>1, <1>2, <1>3, <1>4, <1>5, <1>6 DEF Next

\* Whatever is retried, refused or executed late, and however the service calls of
\* others come between: once every call has returned and none disagreed, the
\* daemon was configured with the document as it is.
THEOREM QuietHolds == Spec => []QuietIsLoaded
<1>1. Init => TypeInv /\ FieldInv /\ LoadInv
  BY TypeInit DEF Init, FieldInv, Kept, LoadInv
<1>2. TypeInv /\ FieldInv /\ LoadInv /\ [Next]_vars => (TypeInv /\ FieldInv /\ LoadInv)'
  BY TypeStep, FieldStep, LoadStep
<1>3. LoadInv => QuietIsLoaded
  BY DEF LoadInv, Due, QuietIsLoaded
<1> QED
  BY <1>1, <1>2, <1>3, PTL DEF Spec

-----------------------------------------------------------------------------
(* What a call reports and what it did *)

\* No POST of this caller was executed, nor can one be.
NoTrace(c) == ~touched[c] /\ \A m \in late : m.by # c

EffectsInv(c) ==
    /\ wire[c] \in {"ok", "failed"} => touched[c]
    /\ at[c] \in {"idle", "get", "status", "action"} => NoTrace(c)
    /\ at[c] \in {"apply", "reread", "after"} => touched[c]
    /\ at[c] \notin Settled => outcome[c] = "pending"
    /\ outcome[c] = "changed" => touched[c]
    /\ outcome[c] \in {"noop", "ValueError"} => NoTrace(c)
    /\ at[c] # "idle" /\ args[c].check =>
          NoTrace(c) /\ at[c] \in {"get", "status", "action"} \cup Settled

ReportInv == \A c \in Callers : EffectsInv(c)

\* ReportInv is inductive under TypeInv.
LEMMA ReportStep ==
    ASSUME TypeInv, ReportInv, [Next]_vars, NEW d \in Callers
    PROVE  EffectsInv(d)'
<1>0. /\ at \in [Callers -> Reading \cup Writing \cup Settled \cup {"idle"}]
      /\ wire \in [Callers -> {"none", "sent", "ok", "failed", "refused"}]
      /\ touched \in [Callers -> BOOLEAN]
      /\ EffectsInv(d) /\ Place(d)
  BY DEF TypeInv, TypeOK, ReportInv
<1>1. ASSUME NEW c \in Callers, Start(c) PROVE EffectsInv(d)'
  BY <1>0, <1>1, StartFrame DEF EffectsInv, NoTrace, Settled
<1>2. ASSUME NEW c \in Callers, Step(c) PROVE EffectsInv(d)'
  <2>1. /\ UNCHANGED <<args, touched>>
        /\ at[c] # "idle" /\ at'[c] # "idle"
        /\ \A e \in Callers \ {c} :
              at'[e] = at[e] /\ wire'[e] = wire[e] /\ outcome'[e] = outcome[e]
        /\ ~LoseAnswer(c) => late' = late
    BY <1>2, StepFrame
  <2>2. CASE d # c
    <3>1. \A m \in late' : m \in late \/ m.by = c
      BY <2>1 DEF LoseAnswer
    <3> QED
      BY <1>0, <2>1, <2>2, <3>1 DEF EffectsInv, NoTrace
  <2>3. CASE d = c
    <3> SUFFICES EffectsInv(c)'
      BY <2>3
    <3>0. EffectsInv(c) /\ Place(c)
      BY <1>0, <2>3
    <3>1. ASSUME NEW how \in Settled, NEW what, End(c, how, what), late' = late,
                 what = "changed" => touched[c],
                 what \in {"noop", "ValueError"} => NoTrace(c)
          PROVE  EffectsInv(c)'
      <4>1. at'[c] = how /\ outcome'[c] = what /\ wire'[c] = "none"
        BY <1>0, <3>1 DEF End, MoveTo, TypeInv, TypeOK
      <4> QED
        BY <2>1, <3>0, <3>1, <4>1 DEF EffectsInv, NoTrace, Settled
    <3>2. ASSUME NEW place \in {"action", "reread", "after"}, Goto(c, place),
                 late' = late, at[c] \notin Settled,
                 place = "action" => NoTrace(c),
                 place # "action" => touched[c]
          PROVE  EffectsInv(c)'
      <4>1. at'[c] = place /\ outcome'[c] = outcome[c] /\ wire'[c] = "none"
        BY <1>0, <3>2 DEF Goto, MoveTo
      <4> QED
        BY <2>1, <3>0, <3>2, <4>1 DEF EffectsInv, NoTrace, Settled
    <3>3. ASSUME NEW place \in Writing, NEW req, SendTo(c, place, req), late' = late,
                 at[c] \notin Settled, ~args[c].check, place = "apply" => touched[c]
          PROVE  EffectsInv(c)'
      <4>1. at'[c] = place /\ outcome'[c] = outcome[c] /\ wire'[c] = "sent"
        BY <1>0, <3>3 DEF SendTo, MoveTo
      <4> QED
        BY <2>1, <3>0, <3>3, <4>1 DEF EffectsInv, NoTrace, Settled, Writing
    <3>4. CASE GetBefore(c)
      <4>1. at[c] = "get" /\ NoTrace(c) /\ late' = late
        BY <3>0, <3>4 DEF GetBefore, EffectsInv, elsewhere
      <4>2. CASE args[c].check
        BY <3>1, <3>4, <4>1, <4>2 DEF GetBefore, Settled
      <4>3. CASE ~args[c].check
        BY <3>1, <3>3, <3>4, <4>1, <4>3 DEF GetBefore, Settled, Writing
      <4> QED
        BY <4>2, <4>3
    <3>5. CASE SaveDone(c) \/ ApplyDone(c) \/ Reread(c)
      <4>1. touched[c] /\ ~args[c].check /\ at[c] \notin Settled /\ late' = late
        BY <3>0, <3>5 DEF SaveDone, ApplyDone, Reread, EffectsInv, elsewhere, Settled
      <4>2. CASE SaveDone(c)
        BY <3>2, <3>3, <4>1, <4>2 DEF SaveDone, Writing
      <4>3. CASE ApplyDone(c)
        BY <3>1, <3>2, <4>1, <4>3 DEF ApplyDone, Settled
      <4>4. CASE Reread(c)
        BY <3>1, <4>1, <4>4 DEF Reread, Settled
      <4> QED
        BY <3>5, <4>2, <4>3, <4>4
    <3>6. CASE ReadStatus(c) \/ Action(c)
      <4>1. at[c] \in {"status", "action"} /\ NoTrace(c) /\ late' = late
        BY <3>0, <3>6 DEF ReadStatus, Action, EffectsInv, elsewhere
      <4>2. \/ End(c, "returned", "noop") \/ End(c, "returned", "would")
            \/ Goto(c, "action")
            \/ ~args[c].check /\ SendTo(c, "verb", Order(VerbFor(args[c].state)))
        BY <3>6 DEF ReadStatus, Action
      <4> QED
        BY <3>1, <3>2, <3>3, <4>1, <4>2 DEF Settled, Writing
    <3>7. CASE VerbDone(c) \/ AfterStatus(c)
      <4>1. touched[c] /\ at[c] \notin Settled /\ late' = late
        BY <3>0, <3>7 DEF VerbDone, AfterStatus, EffectsInv, elsewhere, Settled
      <4> QED
        BY <3>1, <3>2, <3>7, <4>1 DEF VerbDone, AfterStatus, Settled
    <3>8. CASE ReadFails(c) \/ Refused(c)
      BY <3>1, <3>8 DEF ReadFails, Refused, elsewhere, Settled
    <3>9. CASE LoseAnswer(c)
      <4>1. at[c] \in Writing /\ ~args[c].check /\ outcome[c] = "pending"
        BY <3>0, <3>9 DEF LoseAnswer, Place, EffectsInv, Writing, Settled
      <4>2. \/ at'[c] = at[c] /\ wire'[c] = "sent" /\ outcome'[c] = "pending"
            \/ at'[c] = "raised" /\ wire'[c] = "none" /\ outcome'[c] = "unavailable"
        BY <1>0, <3>9, <4>1 DEF LoseAnswer, MoveTo, End, TypeInv, TypeOK
      <4> QED
        BY <2>1, <3>0, <4>1, <4>2 DEF EffectsInv, Writing, Settled
    <3> QED
      BY <1>2, <2>3, <3>4, <3>5, <3>6, <3>7, <3>8, <3>9 DEF Step
  <2> QED
    BY <2>2, <2>3
<1>3. ASSUME NEW c \in Callers, Execute(c) PROVE EffectsInv(d)'
  <2>1. /\ UNCHANGED <<late, at, args, outcome>>
        /\ wire[c] = "sent" /\ at[c] \in Writing
        /\ touched' = [touched EXCEPT ![c] = TRUE]
        /\ \A e \in Callers \ {c} : wire'[e] = wire[e]
    BY <1>3 DEF Execute, TypeInv, TypeOK, Place
  <2> QED
    BY <1>0, <2>1 DEF EffectsInv, NoTrace, Writing, Settled
<1>4. ASSUME NEW c \in Callers, Refuse(c) PROVE EffectsInv(d)'
  BY <1>0, <1>4 DEF Refuse, EffectsInv, NoTrace
<1>5. CASE LateExecute
  <2>1. PICK m \in late :
           late' = late \ {m} /\ touched' = [touched EXCEPT ![m.by] = TRUE]
    BY <1>5 DEF LateExecute
  <2>2. UNCHANGED <<at, args, wire, outcome>>
    BY <1>5 DEF LateExecute, request
  <2> QED
    BY <1>0, <2>1, <2>2 DEF EffectsInv, NoTrace
<1>6. CASE UNCHANGED vars
  BY <1>0, <1>6 DEF vars, daemon, request, EffectsInv, NoTrace
<1> QED
  BY <1>1, <1>2, <1>3, <1>4, <1>5, <1>6 DEF Next

\* In all three managers and for any number of callers, "changed" had its request
\* executed; noop, check mode and rejected arguments had nothing executed, even late.
THEOREM ReportsHold == Spec => []ReportsMatchEffects
<1>1. Init => TypeInv /\ ReportInv
  BY TypeInit DEF Init, ReportInv, EffectsInv, NoTrace
<1>2. TypeInv /\ ReportInv /\ [Next]_vars => (TypeInv /\ ReportInv)'
  BY TypeStep, ReportStep DEF ReportInv
<1>3. ReportInv => ReportsMatchEffects
  BY DEF ReportInv, EffectsInv, NoTrace, ReportsMatchEffects
<1> QED
  BY <1>1, <1>2, <1>3, PTL DEF Spec
=============================================================================
