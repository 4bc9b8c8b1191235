---------------------------- MODULE FirmwareProofs ----------------------------
(***************************************************************************)
(* The two managers of the firmware subsystem.  Type correctness of Plugin *)
(* and of Firmware; that what PluginManager.ensure() reports of a package  *)
(* nobody disputes is so, for any number of callers, packages, retries and *)
(* polls; and that FirmwareManager.ensure() is right when it finds nothing *)
(* to do, takes the appliance into a major release for nobody who did not  *)
(* ask, and leaves it on the target it reports as reached, whatever the    *)
(* releases and their order.                                               *)
(***************************************************************************)
EXTENDS Plugin, Firmware, TLAPS

Named(j) == j.op \in {"install", "remove"} => j.pkg \in Packages

\* Package jobs name a package, a POST is in flight at one await only, and waits
\* are counted from zero.
TypeInv ==
    /\ TypeOK
    /\ Named(job) /\ \A stray \in strays : Named(stray)
    /\ waited \in [Callers -> Nat]
    /\ \A c \in Callers : wire[c] # "none" => at[c] = "fire"

\* A job that touches one package does what some call asked for.
Asked(j) ==
    j.op \in {"install", "remove"} =>
        \E call \in Calls : /\ call.pkg = j.pkg /\ call.state # "other"
                            /\ j.op = "install" <=> call.state = "present"

\* What makes ReportedStateIsReal inductive.  Every job running, and every one the
\* appliance may still start, was asked for; so an undisputed package only ever
\* moves towards what is wanted, and the list that lags behind can be
\* wrong about it in one direction only.
RealInv ==
    /\ Asked(job) /\ \A stray \in strays : Asked(stray)
    /\ \A c \in Callers : at[c] # "idle" => args[c].state # "other" \/ at[c] = "raised"
    /\ \A pkg \in Packages, want \in BOOLEAN :
          Undisputed(pkg, want) /\ (pkg \in cache) = want => (pkg \in installed) = want
    /\ ReportedStateIsReal

-----------------------------------------------------------------------------
(* The appliance *)

\* What a call has in flight is a job some call asked for.
LEMMA OwnJob ==
    ASSUME NEW c \in Callers, args \in [Callers -> Calls]
    PROVE  LET own == [op |-> Op(c), pkg |-> args[c].pkg]
           IN  /\ own \in JobType /\ Named(own)
               /\ args[c].state # "other" => Asked(own)
<1>1. /\ args[c] \in Calls /\ args[c].pkg \in Packages
      /\ args[c].state \in {"present", "absent", "other"}
  BY CallAssumption DEF CallType
<1>2. Op(c) \in {"install", "remove"} /\ (Op(c) = "install" <=> args[c].state = "present")
  BY DEF Op, Wants
<1> QED
  BY <1>1, <1>2 DEF JobType, Ops, Named, Asked

LEMMA NoJobTyped == NoJob \in JobType
BY DEF NoJob, JobType

LEMMA LogTyped ==
    /\ EmptyLog \in LogType
    /\ \A refused \in BOOLEAN : DoneLog(refused) \in LogType
BY DEF EmptyLog, DoneLog, LogType

\* Starting a job keeps the types of the appliance, and what jobs are about.
LEMMA FireKeeps ==
    ASSUME ApplianceOK, NEW op, NEW pkg, Fire(op, pkg),
           [op |-> op, pkg |-> pkg] \in JobType
    PROVE  /\ ApplianceOK'
           /\ UNCHANGED <<installed, cache>>
           /\ job' = job \/ job' = [op |-> op, pkg |-> pkg]
BY LogTyped DEF Fire, ApplianceOK

\* So does every step it makes by itself.
LEMMA ApplianceTyped ==
    ASSUME ApplianceOK, Named(job), ApplianceStep
    PROVE  ApplianceOK' /\ Named(job)'
<1> USE LogTyped DEF ApplianceOK, Ends, Named
<1>0. Named(NoJob)
  BY DEF NoJob
<1>1. CASE FirstLine
  <2>1. [log EXCEPT !.status = "running"] \in LogType
    BY DEF LogType
  <2> QED
    BY <1>1, <2>1 DEF FirstLine
<1>2. CASE PackageJobEnds
  <2>1. job.pkg \in Packages
    BY <1>2 DEF PackageJobEnds
  <2>2. installed' \subseteq Packages
    BY <1>2, <2>1 DEF PackageJobEnds
  <2> QED
    BY <1>0, <1>2, <2>2, NoJobTyped DEF PackageJobEnds
<1>3. CASE CheckEnds
  BY <1>0, <1>3, NoJobTyped, VersionAssumption DEF CheckEnds
<1>4. CASE ApplyEnds
  BY <1>0, <1>4, NoJobTyped DEF ApplyEnds
<1>5. CASE GoesDown
  BY <1>5 DEF GoesDown
<1>6. CASE Boots
  BY <1>6, VersionAssumption DEF Boots, JobType, Ops
<1>7. CASE ReinstallEnds
  BY <1>0, <1>7, NoJobTyped, PackageAssumption DEF ReinstallEnds
<1>8. CASE CacheRefreshes
  BY <1>8 DEF CacheRefreshes
<1> QED
  BY <1>1, <1>2, <1>3, <1>4, <1>5, <1>6, <1>7, <1>8 DEF ApplianceStep

-----------------------------------------------------------------------------
(* Types *)

Outcomes == {"pending", "noop", "would", "fired", "changed", "ValueError",
             "timeout", "refused", "unchanged", "unavailable"}
Places == {"idle", "read", "wait_idle", "fire", "wait_job", "verify"} \cup Settled

callersOK ==
    /\ at \in [Callers -> Places]
    /\ waited \in [Callers -> Nat]
    /\ \A c \in Callers :
          waited[c] \in 0..(IF at[c] = "verify" THEN VerifyRetries ELSE Timeout)
    /\ outcome \in [Callers -> Outcomes]

\* The three ways on from a read.
LEMMA GotoTyped ==
    ASSUME callersOK, NEW c \in Callers, NEW place \in Places, Goto(c, place),
           UNCHANGED outcome
    PROVE  callersOK'
BY PollAssumption DEF callersOK, Goto

LEMMA EndTyped ==
    ASSUME callersOK, NEW c \in Callers, NEW how \in Settled, NEW what \in Outcomes,
           End(c, how, what)
    PROVE  callersOK'
BY PollAssumption DEF callersOK, End, Goto, Settled, Places

LEMMA WaitTyped ==
    ASSUME callersOK, NEW c \in Callers, NEW limit, NEW exc \in Outcomes,
           limit = IF at[c] = "verify" THEN VerifyRetries ELSE Timeout,
           WaitOn(c, limit, exc)
    PROVE  callersOK'
<1>1. CASE waited[c] < limit
  BY <1>1, PollAssumption DEF callersOK, WaitOn
<1>2. CASE ~(waited[c] < limit)
  BY <1>2, EndTyped DEF WaitOn, Settled
<1> QED
  BY <1>1, <1>2

\* Which way a step takes, and that nobody else moves.
LEMMA StepTyped ==
    ASSUME TypeInv, NEW c \in Callers, Start(c) \/ Step(c)
    PROVE  /\ callersOK'
           /\ UNCHANGED appliance
           /\ \A d \in Callers \ {c} : at'[d] = at[d] /\ outcome'[d] = outcome[d]
<1>0. callersOK
  BY DEF TypeInv, TypeOK, callersOK, Places, Outcomes
<1> USE DEF Places, Settled, Outcomes
<1>1. ASSUME NEW place \in Places, Goto(c, place), UNCHANGED outcome
      PROVE  /\ callersOK'
             /\ \A d \in Callers \ {c} : at'[d] = at[d] /\ outcome'[d] = outcome[d]
  BY <1>0, <1>1, GotoTyped DEF Goto, callersOK
<1>2. ASSUME NEW how \in Settled, NEW what \in Outcomes, End(c, how, what)
      PROVE  /\ callersOK'
             /\ \A d \in Callers \ {c} : at'[d] = at[d] /\ outcome'[d] = outcome[d]
  BY <1>0, <1>2, EndTyped DEF End, Goto, callersOK
<1>3. ASSUME NEW limit, NEW exc \in Outcomes, WaitOn(c, limit, exc),
             limit = IF at[c] = "verify" THEN VerifyRetries ELSE Timeout
      PROVE  /\ callersOK'
             /\ \A d \in Callers \ {c} : at'[d] = at[d] /\ outcome'[d] = outcome[d]
  BY <1>0, <1>3, WaitTyped DEF WaitOn, End, Goto, callersOK
<1>4. CASE Start(c)
  BY <1>1, <1>2, <1>4 DEF Start
<1>5. CASE ReadState(c)
  BY <1>1, <1>2, <1>5 DEF ReadState, silent
<1>6. CASE IdlePoll(c)
  BY <1>1, <1>3, <1>6 DEF IdlePoll
<1>7. CASE Fired(c)
  BY <1>1, <1>2, <1>7 DEF Fired
<1>8. CASE JobPoll(c)
  BY <1>1, <1>2, <1>3, <1>8 DEF JobPoll, silent
<1>9. CASE Verify(c)
  BY <1>2, <1>3, <1>9 DEF Verify, silent
<1>10. CASE ReadFails(c) \/ FireRefused(c)
  BY <1>2, <1>10 DEF ReadFails, FireRefused, silent
<1>11. CASE LoseAnswer(c)
  <2>1. CASE attempt[c] < MaxAttempts
    BY <1>0, <1>11, <2>1 DEF LoseAnswer, callersOK
  <2>2. CASE ~(attempt[c] < MaxAttempts)
    BY <1>2, <1>11, <2>2 DEF LoseAnswer
  <2> QED
    BY <2>1, <2>2
<1> QED
  BY <1>4, <1>5, <1>6, <1>7, <1>8, <1>9, <1>10, <1>11 DEF Step

\* The POST in flight, its attempts and those abandoned.
LEMMA WireTyped ==
    ASSUME TypeInv, NEW c \in Callers, Start(c) \/ Step(c)
    PROVE  /\ args' \in [Callers -> Calls]
           /\ wire' \in [Callers -> {"none", "sent", "ok"}]
           /\ attempt' \in [Callers -> 0..MaxAttempts]
           /\ \A d \in Callers : wire'[d] # "none" => at'[d] = "fire"
           /\ strays' \subseteq JobType /\ \A stray \in strays' : Named(stray)
           /\ \A stray \in strays' :
                 \/ stray \in strays
                 \/ /\ at[c] = "fire"
                    /\ stray = [op |-> Op(c), pkg |-> args[c].pkg]
<1>0. /\ at \in [Callers -> Places] /\ args \in [Callers -> Calls]
      /\ wire \in [Callers -> {"none", "sent", "ok"}]
      /\ attempt \in [Callers -> 0..MaxAttempts]
      /\ strays \subseteq JobType /\ \A stray \in strays : Named(stray)
      /\ \A d \in Callers : wire[d] # "none" => at[d] = "fire"
  BY DEF TypeInv, TypeOK, Places
<1>1. \A d \in Callers \ {c} : at'[d] = at[d]
  BY StepTyped
<1>2. CASE Start(c)
  <2>1. /\ args' \in [Callers -> Calls] /\ UNCHANGED <<wire, attempt, strays>>
        /\ wire[c] = "none"
    BY <1>0, <1>2 DEF Start
  <2> QED
    BY <1>0, <1>1, <2>1
<1>3. CASE ReadState(c) \/ JobPoll(c) \/ Verify(c) \/ ReadFails(c)
  <2>1. UNCHANGED <<args, wire, attempt, strays>> /\ wire[c] = "none"
    BY <1>0, <1>3 DEF ReadState, JobPoll, Verify, ReadFails, silent
  <2> QED
    BY <1>0, <1>1, <2>1
<1>4. CASE IdlePoll(c)
  <2>1. UNCHANGED <<args, strays>>
    BY <1>4 DEF IdlePoll
  <2>2. CASE Busy
    BY <1>0, <1>1, <1>4, <2>1, <2>2 DEF IdlePoll
  <2>3. CASE ~Busy
    <3>1. at'[c] = "fire"
      BY <1>0, <1>4, <2>3 DEF IdlePoll, Goto
    <3> QED
      BY <1>0, <1>1, <1>4, <2>1, <2>3, <3>1, PollAssumption DEF IdlePoll
  <2> QED
    BY <2>2, <2>3
<1>5. CASE Fired(c) \/ FireRefused(c)
  <2>1. /\ UNCHANGED <<args, attempt, strays>>
        /\ wire' = [wire EXCEPT ![c] = "none"]
    BY <1>5 DEF Fired, FireRefused
  <2> QED
    BY <1>0, <1>1, <2>1
<1>6. CASE LoseAnswer(c)
  <2>1. at[c] = "fire" /\ args' = args
    BY <1>0, <1>6 DEF LoseAnswer
  <2>2. \A stray \in strays' :
           stray \in strays \/ stray = [op |-> Op(c), pkg |-> args[c].pkg]
    BY <1>6 DEF LoseAnswer
  <2>3. strays' \subseteq JobType /\ \A stray \in strays' : Named(stray)
    BY <1>0, <2>2, OwnJob
  <2>4. CASE attempt[c] < MaxAttempts
    BY <1>0, <1>6, <2>1, <2>2, <2>3, <2>4, PollAssumption DEF LoseAnswer
  <2>5. CASE ~(attempt[c] < MaxAttempts)
    BY <1>0, <1>1, <1>6, <2>1, <2>2, <2>3, <2>5 DEF LoseAnswer
  <2> QED
    BY <2>4, <2>5
<1> QED
  BY <1>2, <1>3, <1>4, <1>5, <1>6 DEF Step

LEMMA TypeStep ==
    ASSUME TypeInv, [Next]_vars
    PROVE  TypeInv'
<1>1. ASSUME NEW c \in Callers, Start(c) \/ Step(c) PROVE TypeInv'
  <2>1. ApplianceOK' /\ Named(job)'
    BY <1>1, StepTyped DEF TypeInv, TypeOK, ApplianceOK, appliance, Named
  <2> QED
    BY <1>1, <2>1, StepTyped, WireTyped
       DEF TypeInv, TypeOK, callersOK, Places, Outcomes
<1>2. ASSUME NEW c \in Callers, Execute(c) PROVE TypeInv'
  <2>1. ApplianceOK' /\ Named(job)'
    BY <1>2, OwnJob, FireKeeps DEF Execute, TypeInv, TypeOK
  <2> QED
    BY <1>2, <2>1 DEF Execute, TypeInv, TypeOK
<1>3. CASE LateExecute
  <2>1. PICK stray \in strays : Fire(stray.op, stray.pkg) /\ strays' = strays \ {stray}
    BY <1>3 DEF LateExecute
  <2>2. stray = [op |-> stray.op, pkg |-> stray.pkg] /\ stray \in JobType /\ Named(stray)
    BY DEF TypeInv, TypeOK, JobType
  <2>3. ApplianceOK' /\ Named(job)'
    BY <2>1, <2>2, FireKeeps DEF TypeInv, TypeOK
  <2> QED
    BY <1>3, <2>1, <2>3 DEF LateExecute, callers, TypeInv, TypeOK
<1>4. CASE ApplianceStep /\ UNCHANGED <<callers, strays>>
  BY <1>4, ApplianceTyped DEF callers, TypeInv, TypeOK
<1>5. CASE UNCHANGED vars
  BY <1>5 DEF vars, appliance, callers, TypeInv, TypeOK, ApplianceOK, Named
<1> QED
  BY <1>1, <1>2, <1>3, <1>4, <1>5 DEF Next

LEMMA TypeInit ==
    ASSUME Init
    PROVE  TypeInv
<1>1. job \in JobType /\ Named(job)
  BY NoJobTyped DEF Init, JobType, Ops, NoJob, Named
<1>3. log \in LogType
  BY LogTyped DEF Init
<1>2. (CHOOSE call \in Calls : TRUE) \in Calls
  BY CallAssumption
<1> QED
  BY <1>1, <1>2, <1>3, PollAssumption DEF Init, TypeInv, TypeOK, ApplianceOK

\* Whatever is lost, refused, dropped or late, every variable keeps its type; in
\* particular no loop of ensure() sleeps more often than its limit.
THEOREM TypeCorrect == Spec => []TypeOK
<1>1. Spec => []TypeInv
  BY TypeInit, TypeStep, PTL DEF Spec
<1>2. TypeInv => TypeOK
  BY DEF TypeInv
<1> QED
  BY <1>1, <1>2, PTL

-----------------------------------------------------------------------------
(* What is reported *)

\* Of a job that was asked for, an undisputed package gets what is wanted.
LEMMA AskedIsWanted ==
    ASSUME NEW pkg, NEW want \in BOOLEAN, Undisputed(pkg, want),
           NEW j, Asked(j), j.op \in {"install", "remove"}, j.pkg = pkg
    PROVE  (j.op = "install") = want
BY DEF Asked, Undisputed

\* No step of the appliance moves an undisputed package away from what is wanted.
LEMMA OneWay ==
    ASSUME TypeInv, Asked(job), ApplianceStep,
           NEW pkg \in Packages, NEW want \in BOOLEAN, Undisputed(pkg, want),
           (pkg \in installed) = want
    PROVE  (pkg \in installed') = want
<1>1. CASE PackageJobEnds
  <2>1. job.pkg = pkg => (job.op = "install") = want
    BY <1>1, AskedIsWanted DEF PackageJobEnds
  <2>2. CASE installed' = installed
    BY <2>2
  <2>3. CASE job.op = "install" /\ installed' = installed \cup {job.pkg}
    BY <2>1, <2>3
  <2>4. CASE job.op = "remove" /\ installed' = installed \ {job.pkg}
    BY <2>1, <2>4
  <2> QED
    BY <1>1, <2>2, <2>3, <2>4 DEF PackageJobEnds
<1>2. CASE ReinstallEnds
  <2>1. pkg \in Listed => want
    BY DEF Undisputed
  <2> QED
    BY <1>2, <2>1 DEF ReinstallEnds
<1>3. CASE ~PackageJobEnds /\ ~ReinstallEnds
  BY <1>3 DEF ApplianceStep, FirstLine, CheckEnds, ApplyEnds, GoesDown, Boots,
              CacheRefreshes
<1> QED
  BY <1>1, <1>2, <1>3

\* No job is its own idea but the re-installation after a boot.
LEMMA StaysAsked ==
    ASSUME Asked(job), ApplianceStep
    PROVE  Asked(job)'
<1>1. Asked(NoJob) /\ Asked([op |-> "reinstall", pkg |-> NoPackage])
  BY DEF Asked, NoJob
<1>2. job' = job \/ job' = NoJob \/ job' = [op |-> "reinstall", pkg |-> NoPackage]
  BY DEF ApplianceStep, FirstLine, PackageJobEnds, CheckEnds, ApplyEnds, GoesDown,
         Boots, ReinstallEnds, CacheRefreshes, Ends
<1> QED
  BY <1>1, <1>2 DEF Asked

\* "noop" and "changed" are returned for what the cached list shows.
LEMMA ReportsTheList ==
    ASSUME TypeInv, NEW c \in Callers, Step(c), at'[c] = "returned",
           outcome'[c] \in {"noop", "changed"}
    PROVE  (args[c].pkg \in cache) = Wants(c)
<1> USE DEF TypeInv, TypeOK, End, Goto, Settled
<1>1. at[c] # "returned"
  BY DEF Step, ReadState, IdlePoll, Fired, JobPoll, Verify, ReadFails, FireRefused,
         LoseAnswer
<1>2. ReadState(c) \/ Verify(c)
  BY <1>1 DEF Step, IdlePoll, Fired, JobPoll, ReadFails, FireRefused, LoseAnswer, WaitOn
<1>3. CASE ReadState(c)
  BY <1>3 DEF ReadState
<1>4. CASE Verify(c)
  BY <1>1, <1>4 DEF Verify, WaitOn
<1> QED
  BY <1>2, <1>3, <1>4

LEMMA WantsBoolean == \A c \in Callers : Wants(c) \in BOOLEAN
BY DEF Wants

LEMMA RealStep ==
    ASSUME TypeInv, RealInv, [Next]_vars
    PROVE  RealInv'
<1>0. at \in [Callers -> Places] /\ args \in [Callers -> Calls]
  BY DEF TypeInv, TypeOK, Places
<1>1. ASSUME NEW c \in Callers, Start(c) PROVE RealInv'
  <2>1. /\ UNCHANGED <<appliance, strays>>
        /\ at'[c] \in {"raised", "read"}
        /\ at'[c] = "read" => args'[c].state # "other"
    BY <1>0, <1>1 DEF Start, End, Goto
  <2>2. \A d \in Callers \ {c} :
           at'[d] = at[d] /\ outcome'[d] = outcome[d] /\ args'[d] = args[d]
    BY <1>0, <1>1, StepTyped DEF Start
  <2>3. ReportedStateIsReal'
    BY <2>1, <2>2 DEF RealInv, ReportedStateIsReal, Undisputed, Wants, appliance
  <2> QED
    BY <2>1, <2>2, <2>3 DEF RealInv, Asked, Undisputed, appliance
<1>2. ASSUME NEW c \in Callers, Step(c) PROVE RealInv'
  <2>1. UNCHANGED <<appliance, args>>
        /\ \A d \in Callers \ {c} : at'[d] = at[d] /\ outcome'[d] = outcome[d]
    <3>1. args' = args
      BY <1>2 DEF Step, ReadState, IdlePoll, Fired, JobPoll, Verify, ReadFails,
                  FireRefused, LoseAnswer, silent
    <3> QED
      BY <1>2, <3>1, StepTyped
  <2>2. at[c] # "idle" /\ (at[c] = "raised" => FALSE)
    BY <1>2 DEF Step, ReadState, IdlePoll, Fired, JobPoll, Verify, ReadFails,
                FireRefused, LoseAnswer, TypeInv
  <2>3. args[c].state # "other"
    BY <2>2 DEF RealInv
  <2>4. \A stray \in strays' : Asked(stray)
    <3>1. \A stray \in strays' :
             stray \in strays \/ stray = [op |-> Op(c), pkg |-> args[c].pkg]
      BY <1>2, WireTyped
    <3> QED
      BY <1>0, <2>3, <3>1, OwnJob DEF RealInv
  <2>5. ReportedStateIsReal'
    <3>1. ASSUME at'[c] = "returned", outcome'[c] \in {"noop", "changed"},
                 Undisputed(args[c].pkg, Wants(c))
          PROVE  (args[c].pkg \in installed) = Wants(c)
      <4>1. args[c].pkg \in Packages
        BY <1>0, CallAssumption DEF CallType
      <4> QED
        BY <1>2, <3>1, <4>1, ReportsTheList, WantsBoolean DEF RealInv
    <3> QED
      BY <2>1, <3>1 DEF RealInv, ReportedStateIsReal, Undisputed, Wants, appliance
  <2> QED
    BY <2>1, <2>3, <2>4, <2>5 DEF RealInv, Asked, Undisputed, appliance
<1>3. ASSUME NEW c \in Callers, Execute(c) PROVE RealInv'
  <2>1. at[c] = "fire" /\ UNCHANGED <<strays, at, args, outcome>>
    BY <1>3 DEF Execute, TypeInv
  <2>2. Asked([op |-> Op(c), pkg |-> args[c].pkg])
    BY <1>0, <2>1, OwnJob DEF RealInv
  <2>3. /\ UNCHANGED <<installed, cache>>
        /\ job' = job \/ job' = [op |-> Op(c), pkg |-> args[c].pkg]
    BY <1>3 DEF Execute, Fire
  <2> QED
    BY <2>1, <2>2, <2>3 DEF RealInv, Asked, Undisputed, ReportedStateIsReal, Wants
<1>4. CASE LateExecute
  <2>1. PICK stray \in strays : Fire(stray.op, stray.pkg) /\ strays' = strays \ {stray}
    BY <1>4 DEF LateExecute
  <2>2. stray = [op |-> stray.op, pkg |-> stray.pkg]
    BY DEF TypeInv, TypeOK, JobType
  <2>3. /\ UNCHANGED <<installed, cache>>
        /\ job' = job \/ job' = stray
    BY <2>1, <2>2 DEF Fire
  <2>4. UNCHANGED <<at, args, outcome>>
    BY <1>4 DEF LateExecute, callers
  <2> QED
    BY <2>1, <2>3, <2>4 DEF RealInv, Asked, Undisputed, ReportedStateIsReal, Wants
<1>5. CASE ApplianceStep /\ UNCHANGED <<callers, strays>>
  <2>1. Asked(job)'
    BY <1>5, StaysAsked DEF RealInv
  <2>2. ASSUME NEW pkg \in Packages, NEW want \in BOOLEAN, Undisputed(pkg, want),
               (pkg \in installed) = want
        PROVE  (pkg \in installed') = want
    BY <1>5, <2>2, OneWay DEF RealInv
  <2>3. ASSUME NEW pkg \in Packages, NEW want \in BOOLEAN, Undisputed(pkg, want),
               (pkg \in cache') = want
        PROVE  (pkg \in installed') = want
    <3>1. CASE CacheRefreshes
      BY <2>3, <3>1 DEF CacheRefreshes
    <3>2. CASE ~CacheRefreshes
      <4>1. cache' = cache
        BY <1>5, <3>2 DEF ApplianceStep, FirstLine, PackageJobEnds, CheckEnds,
                          ApplyEnds, GoesDown, Boots, ReinstallEnds
      <4> QED
        BY <2>2, <2>3, <4>1 DEF RealInv
    <3> QED
      BY <3>1, <3>2
  <2>4. ReportedStateIsReal'
    <3>1. UNCHANGED <<at, args, outcome>>
      BY <1>5 DEF callers
    <3>2. ASSUME NEW c \in Callers, at[c] = "returned",
                 outcome[c] \in {"noop", "changed"}, Undisputed(args[c].pkg, Wants(c))
          PROVE  (args[c].pkg \in installed') = Wants(c)
      <4>1. args[c].pkg \in Packages
        BY <1>0, CallAssumption DEF CallType
      <4>2. (args[c].pkg \in installed) = Wants(c)
        BY <3>2 DEF RealInv, ReportedStateIsReal
      <4> QED
        BY <2>2, <3>2, <4>1, <4>2, WantsBoolean
    <3> QED
      BY <3>1, <3>2 DEF ReportedStateIsReal, Undisputed, Wants
  <2> QED
    BY <1>5, <2>1, <2>3, <2>4 DEF RealInv, Asked, Undisputed, callers
<1>6. CASE UNCHANGED vars
  BY <1>6 DEF vars, appliance, callers, RealInv, Asked, Undisputed,
              ReportedStateIsReal, Wants
<1> QED
  BY <1>1, <1>2, <1>3, <1>4, <1>5, <1>6 DEF Next

\* "Installed", "removed" and "noop" are so, of a package nobody disputes: for any
\* number of callers, although the job a caller waited for may have been another's,
\* refused, dropped or without effect, and the list it reads lags behind.
THEOREM ReportedHolds == Spec => []ReportedStateIsReal
<1>1. Init => TypeInv /\ RealInv
  <2>1. Asked(NoJob) /\ Asked([op |-> "reinstall", pkg |-> NoPackage])
    BY DEF Asked, NoJob
  <2> QED
    BY <2>1, TypeInit DEF Init, RealInv, ReportedStateIsReal
<1>2. TypeInv /\ RealInv /\ [Next]_vars => (TypeInv /\ RealInv)'
  BY TypeStep, RealStep
<1>3. RealInv => ReportedStateIsReal
  BY DEF RealInv
<1> QED
  BY <1>1, <1>2, <1>3, PTL DEF Spec

-----------------------------------------------------------------------------
(* FirmwareManager: types *)

\* One POST is in flight at two awaits only, each with its verbs; ensure() has
\* no result before it ends; a job that runs is not reported done.
ReleaseTyped ==
    /\ ReleaseTypeOK
    /\ stage \notin Ended => result = "pending"
    /\ sending # "none" => stage \in {"check", "fire"}
    /\ stage = "check" => verb = "check"
    /\ stage = "fire" => verb \in {"update", "upgrade"}
    /\ abandoned \subseteq {"check", "update", "upgrade"}
    /\ stage = "idle" => abandoned = {}
    /\ Named(job) /\ (job.op = "none" => job = NoJob)
    /\ Busy => log.status # "done"

\* No release was fired yet, or none ever will be.
Unfired == stage \in {"idle", "check", "wait_check", "status"} \/ result = "noop"

Undisturbed == strangers \subseteq {"check"}

\* What makes NoopIsTrue inductive: while others run nothing but checks, and until
\* a release is fired, only checks run at all; so the appliance stays up on its
\* version, and the end of whichever check swallowed this call's tells what is
\* pending there.
FreshInv ==
    /\ Unfired => abandoned \subseteq {"check"} /\ verb \in {"none", "check"}
    /\ Unfired /\ Undisturbed => up /\ job.op \in {"none", "check"}
    /\ Undisturbed /\ ((stage = "check" /\ sending = "ok") \/ stage = "wait_check") =>
          job.op = "check" \/ resolved = Offer[version]
    /\ Undisturbed /\ stage = "status" => resolved = Offer[version]
    /\ NoopIsTrue

\* A major upgrade in flight, running or yet to be executed was asked for, by this
\* call or by somebody else.
MajorInv ==
    /\ "upgrade" \in {verb} \cup abandoned => asked.state = "upgraded"
    /\ job.op = "upgrade" => asked.state = "upgraded" \/ "upgrade" \in strangers
    /\ stage = "idle" => job.op \in {"none", "reinstall"} \cup strangers

NoRelease == strangers \cap {"update", "upgrade"} = {}

\* What makes ReachedIsSettled inductive: on its target the appliance stays, for
\* nothing this call fired is what is pending there, and nobody else fired a release.
ReachedInv ==
    /\ stage \in {"wait_version", "wait_idle"} \/ result = "reached" =>
          asked.target # NoTarget
    /\ (stage = "wait_idle" \/ result = "reached") /\ NoRelease =>
          up /\ version \in Hits[asked.target]
    /\ result = "reached" /\ NoRelease => job.op # "reinstall"

Verbs == {"check", "update", "upgrade"}
Results == {"pending", "noop", "would", "applying", "reached", "ValueError",
            "timeout", "refused", "unavailable"}
Stages == {"idle", "check", "wait_check", "status", "fire", "wait_version",
           "wait_idle"} \cup Ended

\* What firing a job does to the appliance.
LEMMA JobKeeps ==
    ASSUME ReleaseTyped, NEW op \in Ops, NEW pkg \in Packages \cup {NoPackage},
           op \in PackageOps => pkg \in Packages, Fire(op, pkg)
    PROVE  /\ ApplianceOK' /\ Named(job)'
           /\ UNCHANGED <<up, installed, cache, version, resolved>>
           /\ job.op # "none" => UNCHANGED job
           /\ job.op = "none" => job'.op = op
           /\ job'.op # "none" /\ Busy' /\ log'.status # "done"
<1>1. [op |-> op, pkg |-> pkg] \in JobType /\ Named([op |-> op, pkg |-> pkg])
  BY DEF JobType, Named, PackageOps
<1>2. ApplianceOK'
  BY <1>1, FireKeeps DEF ReleaseTyped, ReleaseTypeOK
<1>3. [op |-> op, pkg |-> pkg] # NoJob /\ op # "none"
  BY DEF NoJob, Ops
<1>4. CASE Busy
  BY <1>2, <1>4 DEF Fire, ReleaseTyped, Busy, NoJob, Named
<1>5. CASE ~Busy
  BY <1>1, <1>2, <1>3, <1>5 DEF Fire, ReleaseTyped, Busy, EmptyLog, NoJob
<1> QED
  BY <1>4, <1>5

\* A verb of ensure() is such a job.
LEMMA VerbKeeps ==
    ASSUME ReleaseTyped, NEW op \in Verbs, Fire(op, NoPackage)
    PROVE  /\ ApplianceOK' /\ Named(job)'
           /\ UNCHANGED <<up, installed, cache, version, resolved>>
           /\ job.op # "none" => UNCHANGED job
           /\ job.op = "none" => job'.op = op
           /\ job'.op # "none" /\ Busy' /\ log'.status # "done"
<1>1. op \in Ops /\ op \notin PackageOps
  BY DEF Verbs, Ops, PackageOps
<1> QED
  BY <1>1, JobKeeps

\* So is a stranger's, and it is recorded.
LEMMA StrangerMoves ==
    ASSUME ReleaseTyped, StrangerFires
    PROVE  /\ ApplianceOK' /\ Named(job)'
           /\ UNCHANGED <<up, version, resolved, caller, abandoned>>
           /\ job'.op # "none" /\ Busy' /\ log'.status # "done"
           /\ job'.op # "reinstall" /\ job'.op \in strangers'
           /\ strangers \subseteq strangers' /\ strangers' \subseteq Ops
<1>1. PICK j \in Foreign : /\ j.op # "reinstall" /\ Fire(j.op, j.pkg)
                           /\ strangers' = strangers \cup {j.op}
  BY DEF StrangerFires
<1>2. /\ j.op \in Ops /\ j.pkg \in Packages \cup {NoPackage}
      /\ j.op \in PackageOps => j.pkg \in Packages
  BY DEF Foreign, JobType
<1>3. job.op = "none"
  BY DEF StrangerFires, Busy, NoJob
<1>4. strangers \subseteq Ops
  BY DEF ReleaseTyped, ReleaseTypeOK
<1> QED
  BY <1>1, <1>2, <1>3, <1>4, JobKeeps DEF StrangerFires

\* What the appliance does by itself.
LEMMA ApplianceMoves ==
    ASSUME ReleaseTyped, ApplianceStep
    PROVE  /\ ApplianceOK' /\ Named(job)'
           /\ job'.op = "none" => job' = NoJob
           /\ Busy' => log'.status # "done"
           /\ job'.op \in {job.op, "none"} \/ (~up /\ job'.op = "reinstall")
           /\ up => /\ UNCHANGED version
                    /\ up' \/ (job.op \in {"update", "upgrade"} /\ Offer[version] = job.op)
                    /\ UNCHANGED resolved \/ resolved' = Offer[version]
                    /\ job.op = "check" => job'.op = "check" \/ resolved' = Offer[version]
<1>0. Named(job)
  BY DEF ReleaseTyped
<1>1. ApplianceOK' /\ Named(job)'
  BY <1>0, ApplianceTyped DEF ReleaseTyped, ReleaseTypeOK
<1>9. up \in BOOLEAN
  BY DEF ReleaseTyped, ReleaseTypeOK, ApplianceOK
<1> USE <1>1, <1>9 DEF ReleaseTyped, NoJob, Ends
<1>2. CASE FirstLine
  BY <1>2 DEF FirstLine, Busy, ReleaseTypeOK, ApplianceOK, LogType
<1>3. CASE CheckEnds
  BY <1>3 DEF CheckEnds, Busy
<1>4. CASE ApplyEnds
  BY <1>4 DEF ApplyEnds, Busy
<1>5. CASE GoesDown
  BY <1>5 DEF GoesDown, Busy
<1>6. CASE Boots
  BY <1>6 DEF Boots, Busy, EmptyLog
<1>7. CASE ReinstallEnds
  BY <1>7 DEF ReinstallEnds, Busy
<1>8. CASE CacheRefreshes
  BY <1>8 DEF CacheRefreshes, Busy
<1>10. CASE PackageJobEnds
  <2>1. /\ UNCHANGED <<up, version, resolved>> /\ job.op \in {"install", "remove"}
        /\ job' = NoJob
    BY <1>10 DEF PackageJobEnds
  <2> QED
    BY <2>1 DEF Busy
<1> QED
  BY <1>2, <1>3, <1>4, <1>5, <1>6, <1>7, <1>8, <1>10 DEF ApplianceStep

\* Where a call may go next.
releaseOK ==
    /\ stage \in Stages
    /\ slept \in 0..(IF stage = "wait_check" THEN CheckTimeout ELSE WaitTimeout)
    /\ result \in Results
    /\ stage \notin Ended => result = "pending"

LEMMA MoveTyped ==
    ASSUME releaseOK, NEW place \in Stages \ Ended, MoveTo(place), UNCHANGED result,
           stage \notin Ended
    PROVE  releaseOK'
BY LimitAssumption DEF releaseOK, MoveTo

LEMMA EndWithTyped ==
    ASSUME NEW how \in Ended, NEW what \in Results, EndWith(how, what)
    PROVE  releaseOK'
BY LimitAssumption DEF releaseOK, EndWith, MoveTo, Stages, Ended

LEMMA PollTyped ==
    ASSUME releaseOK, NEW limit, PollOn(limit), stage \notin Ended,
           limit = IF stage = "wait_check" THEN CheckTimeout ELSE WaitTimeout
    PROVE  releaseOK'
<1>1. CASE slept < limit
  BY <1>1, LimitAssumption DEF releaseOK, PollOn
<1>2. CASE ~(slept < limit)
  BY <1>2, EndWithTyped DEF PollOn, Ended, Results
<1> QED
  BY <1>1, <1>2

LEMMA PostTyped ==
    ASSUME releaseOK, NEW place \in {"check", "fire"}, NEW op \in Verbs, Post(place, op),
           stage \notin Ended
    PROVE  /\ releaseOK' /\ stage' = place /\ verb' = op
           /\ sending' = "sent" /\ tries' \in 0..MaxTries
<1>1. place \in Stages \ Ended
  BY DEF Stages, Ended
<1> QED
  BY <1>1, MoveTyped, LimitAssumption DEF Post, MoveTo

LEMMA AfterFireTyped ==
    ASSUME releaseOK, AfterFire, stage \notin Ended
    PROVE  releaseOK' /\ stage' \in {"wait_version"} \cup Ended
<1>1. CASE asked.target = NoTarget
  BY <1>1, EndWithTyped DEF AfterFire, EndWith, MoveTo, Ended, Results
<1>2. CASE asked.target # NoTarget
  <2>1. "wait_version" \in Stages \ Ended
    BY DEF Stages, Ended
  <2> QED
    BY <1>2, <2>1, MoveTyped DEF AfterFire, MoveTo
<1> QED
  BY <1>1, <1>2

LEMMA VerbForType ==
    \A state, pending : VerbFor(state, pending) # "none" =>
        /\ VerbFor(state, pending) \in {"update", "upgrade"}
        /\ VerbFor(state, pending) = "upgrade" => state = "upgraded"
BY DEF VerbFor

\* What ensure() itself does leaves the appliance alone, and its types as they are.
LEMMA EnsureTyped ==
    ASSUME ReleaseTyped, Begin \/ ReleaseStep
    PROVE  /\ releaseOK' /\ UNCHANGED <<appliance, strangers>>
           /\ asked' \in Requests
           /\ sending' \in {"none", "sent", "ok"} /\ tries' \in 0..MaxTries
           /\ verb' \in Verbs \cup {"none"}
           /\ sending' # "none" => stage' \in {"check", "fire"}
           /\ stage' = "check" => verb' = "check"
           /\ stage' = "fire" => verb' \in {"update", "upgrade"}
           /\ abandoned' \subseteq Verbs
<1>0. /\ releaseOK /\ asked \in Requests
      /\ sending \in {"none", "sent", "ok"} /\ tries \in 0..MaxTries
      /\ verb \in Verbs \cup {"none"} /\ abandoned \subseteq Verbs
      /\ sending # "none" => stage \in {"check", "fire"}
      /\ stage = "check" => verb = "check"
      /\ stage = "fire" => verb \in {"update", "upgrade"}
  BY DEF ReleaseTyped, ReleaseTypeOK, releaseOK, Stages, Results, Verbs
<1>1. CASE Begin
  <2>1. PICK request \in Requests :
           /\ asked' = request
           /\ IF request.state = "other"
              THEN /\ EndWith("raised", "ValueError")
                   /\ UNCHANGED <<verb, sending, tries>>
              ELSE Post("check", "check")
    BY <1>1 DEF Begin
  <2>2. stage \notin Ended /\ UNCHANGED elsewhere /\ sending = "none"
    BY <1>0, <1>1 DEF Begin, Ended
  <2>3. CASE request.state = "other"
    BY <1>0, <2>1, <2>2, <2>3, EndWithTyped DEF EndWith, MoveTo, Ended, Results, elsewhere
  <2>4. CASE request.state # "other"
    BY <1>0, <2>1, <2>2, <2>4, PostTyped DEF Verbs, elsewhere
  <2> QED
    BY <2>3, <2>4
<1>2. CASE CheckFired
  <2>1. "wait_check" \in Stages \ Ended /\ stage \notin Ended
    BY <1>2 DEF Stages, Ended, CheckFired
  <2> QED
    BY <1>0, <1>2, <2>1, MoveTyped DEF CheckFired, MoveTo, elsewhere
<1>3. CASE CheckPoll
  <2>1. "status" \in Stages \ Ended /\ stage \notin Ended
    BY <1>3 DEF Stages, Ended, CheckPoll
  <2>2. releaseOK' /\ stage' \in {"status", "wait_check"} \cup Ended
    BY <1>0, <1>3, <2>1, MoveTyped, PollTyped
       DEF CheckPoll, MoveTo, PollOn, EndWith, Ended
  <2> QED
    BY <1>0, <1>3, <2>2 DEF CheckPoll, elsewhere, unpolled, Ended
<1>4. CASE ReadStatus
  <2> DEFINE op == VerbFor(asked.state, resolved)
  <2>1. stage \notin Ended /\ sending = "none" /\ UNCHANGED elsewhere
    BY <1>0, <1>4 DEF ReadStatus, Ended
  <2>2. CASE op = "none" \/ asked.check
    <3>1. /\ EndWith("returned", IF op = "none" THEN "noop" ELSE "would")
          /\ UNCHANGED <<verb, sending, tries>>
      BY <1>4, <2>2 DEF ReadStatus
    <3> QED
      BY <1>0, <1>4, <2>1, <3>1, EndWithTyped
         DEF ReadStatus, EndWith, MoveTo, Ended, Results, elsewhere
  <2>3. CASE ~(op = "none" \/ asked.check)
    <3>1. Post("fire", op) /\ op \in {"update", "upgrade"}
      BY <1>4, <2>3, VerbForType DEF ReadStatus
    <3> HIDE DEF op
    <3> QED
      BY <1>0, <1>4, <2>1, <3>1, PostTyped DEF ReadStatus, Verbs, elsewhere
  <2> QED
    BY <2>2, <2>3
<1>5. CASE VerbFired
  <2>1. stage \notin Ended
    BY <1>5 DEF VerbFired, Ended
  <2> QED
    BY <1>0, <1>5, <2>1, AfterFireTyped DEF VerbFired, elsewhere, Ended
<1>6. CASE VersionPoll
  <2>1. "wait_idle" \in Stages \ Ended /\ stage \notin Ended
    BY <1>6 DEF Stages, Ended, VersionPoll
  <2>2. releaseOK' /\ stage' \in {"wait_idle", "wait_version"} \cup Ended
    BY <1>0, <1>6, <2>1, MoveTyped, PollTyped
       DEF VersionPoll, MoveTo, PollOn, EndWith, Ended
  <2> QED
    BY <1>0, <1>6, <2>2 DEF VersionPoll, elsewhere, unpolled, Ended
<1>7. CASE IdleAgainPoll
  <2>1. releaseOK' /\ stage' \in {"wait_idle"} \cup Ended
    BY <1>0, <1>7, PollTyped, EndWithTyped
       DEF IdleAgainPoll, MoveTo, PollOn, EndWith, Ended, Results
  <2> QED
    BY <1>0, <1>7, <2>1 DEF IdleAgainPoll, elsewhere, unpolled, Ended
<1>8. CASE PollFails
  BY <1>0, <1>8, EndWithTyped
     DEF PollFails, EndWith, MoveTo, Ended, Results, elsewhere, unpolled
<1>9. CASE Refused
  BY <1>0, <1>9, EndWithTyped DEF Refused, EndWith, MoveTo, Ended, Results, elsewhere
<1>10. CASE LoseReply
  <2>1. /\ UNCHANGED <<appliance, strangers, asked, verb>> /\ verb \in Verbs
        /\ stage \in {"check", "fire"} /\ abandoned' \subseteq Verbs
    BY <1>0, <1>10 DEF LoseReply, Verbs
  <2>2. CASE SendAgain
    BY <1>0, <2>1, <2>2, LimitAssumption DEF SendAgain, releaseOK
  <2>3. CASE GiveUp
    <3>1. releaseOK' /\ stage' \in {"wait_version"} \cup Ended
      BY <1>0, <2>1, <2>3, EndWithTyped, AfterFireTyped
         DEF GiveUp, EndWith, MoveTo, Ended, Results
    <3> QED
      BY <1>0, <2>1, <2>3, <3>1 DEF GiveUp, Ended
  <2> QED
    BY <1>10, <2>2, <2>3 DEF LoseReply
<1> QED
  BY <1>1, <1>2, <1>3, <1>4, <1>5, <1>6, <1>7, <1>8, <1>9, <1>10 DEF ReleaseStep

\* Nothing leads back to the start: there is one call.
LEMMA EnsureLeaves ==
    ASSUME ReleaseTyped, Begin \/ ReleaseStep
    PROVE  stage' # "idle" /\ (ReleaseStep => stage # "idle")
<1>1. CASE Begin
  BY <1>1 DEF Begin, Post, EndWith, MoveTo, ReleaseStep, CheckFired, CheckPoll, ReadStatus,
              VerbFired, VersionPoll, IdleAgainPoll, PollFails, Refused, LoseReply,
              ReleaseTyped
<1>2. CASE ReleaseStep
  <2>1. stage # "idle"
    BY <1>2 DEF ReleaseStep, CheckFired, CheckPoll, ReadStatus, VerbFired, VersionPoll,
                IdleAgainPoll, PollFails, Refused, LoseReply, ReleaseTyped
  <2>2. CASE CheckFired \/ CheckPoll \/ ReadStatus
    BY <2>1, <2>2 DEF CheckFired, CheckPoll, ReadStatus, PollOn, Post, EndWith, MoveTo
  <2>3. CASE VerbFired \/ VersionPoll \/ IdleAgainPoll \/ PollFails \/ Refused
    BY <2>1, <2>3 DEF VerbFired, VersionPoll, IdleAgainPoll, PollFails, Refused, AfterFire,
                      PollOn, EndWith, MoveTo
  <2>4. CASE LoseReply
    BY <2>1, <2>4 DEF LoseReply, SendAgain, GiveUp, AfterFire, EndWith, MoveTo
  <2> QED
    BY <1>2, <2>1, <2>2, <2>3, <2>4 DEF ReleaseStep
<1> QED
  BY <1>1, <1>2

\* A request that is executed, in time or late.
LEMMA ExecuteMoves ==
    ASSUME ReleaseTyped, ExecuteVerb \/ ExecuteLate
    PROVE  \E op \in Verbs :
              /\ Fire(op, NoPackage)
              /\ UNCHANGED <<strangers, asked, stage, verb, tries, slept, result>>
              /\ \/ /\ op = verb /\ sending = "sent" /\ sending' = "ok"
                    /\ UNCHANGED abandoned
                 \/ /\ op \in abandoned /\ abandoned' = abandoned \ {op}
                    /\ UNCHANGED sending
<1>1. CASE ExecuteVerb
  <2>1. verb \in Verbs
    BY <1>1 DEF ExecuteVerb, ReleaseTyped, Verbs
  <2> QED
    BY <1>1, <2>1 DEF ExecuteVerb
<1>2. CASE ExecuteLate
  <2>1. PICK op \in abandoned : Fire(op, NoPackage) /\ abandoned' = abandoned \ {op}
    BY <1>2 DEF ExecuteLate
  <2>2. op \in Verbs
    BY DEF ReleaseTyped, Verbs
  <2> QED
    BY <1>2, <2>1, <2>2 DEF ExecuteLate, caller
<1> QED
  BY <1>1, <1>2

LEMMA ReleaseTypeStep ==
    ASSUME ReleaseTyped, [ReleaseNext]_releaseVars
    PROVE  ReleaseTyped'
<1>1. CASE Begin \/ ReleaseStep
  <2>1. UNCHANGED <<appliance, strangers>>
    BY <1>1, EnsureTyped
  <2>2. ApplianceOK' /\ Named(job)' /\ (Busy' => log'.status # "done")
    BY <2>1 DEF ReleaseTyped, ReleaseTypeOK, ApplianceOK, Busy, appliance, Named
  <2> QED
    BY <1>1, <2>1, <2>2, EnsureTyped, EnsureLeaves
       DEF ReleaseTyped, ReleaseTypeOK, releaseOK, Stages, Results, Verbs, Ops, appliance
<1>2. CASE ExecuteVerb \/ ExecuteLate
  <2>1. PICK op \in Verbs :
           /\ Fire(op, NoPackage)
           /\ UNCHANGED <<strangers, asked, stage, verb, tries, slept, result>>
           /\ \/ /\ op = verb /\ sending = "sent" /\ sending' = "ok"
                 /\ UNCHANGED abandoned
              \/ /\ op \in abandoned /\ abandoned' = abandoned \ {op}
                 /\ UNCHANGED sending
    BY <1>2, ExecuteMoves
  <2>2. /\ ApplianceOK' /\ Named(job)' /\ log'.status # "done"
        /\ job'.op # "none"
    BY <2>1, VerbKeeps
  <2> QED
    BY <2>1, <2>2 DEF ReleaseTyped, ReleaseTypeOK, Busy
<1>3. CASE ApplianceStep /\ UNCHANGED <<caller, abandoned, strangers>>
  BY <1>3, ApplianceMoves DEF ReleaseTyped, ReleaseTypeOK, caller
<1>4. CASE StrangerFires
  BY <1>4, StrangerMoves DEF ReleaseTyped, ReleaseTypeOK, caller
<1>5. CASE UNCHANGED releaseVars
  BY <1>5 DEF releaseVars, appliance, caller, ReleaseTyped, ReleaseTypeOK, ApplianceOK,
              Busy, Named
<1> QED
  BY <1>1, <1>2, <1>3, <1>4, <1>5 DEF ReleaseNext

LEMMA ReleaseTypeInit == ReleaseInit => ReleaseTyped
<1> SUFFICES ASSUME ReleaseInit PROVE ReleaseTyped
  OBVIOUS
<1>1. /\ job \in JobType /\ log \in LogType /\ strangers \subseteq Ops /\ Named(job)
      /\ job.op = "none" => job = NoJob
      /\ Busy => log.status # "done"
  <2>1. CASE job = NoJob
    BY <2>1, NoJobTyped, LogTyped DEF ReleaseInit, Foreign, Busy, NoJob, Named
  <2>2. CASE job \in Foreign /\ strangers = {job.op}
                /\ log \in {EmptyLog, [EmptyLog EXCEPT !.status = "running"]}
    <3>1. \A old \in LogType : [old EXCEPT !.status = "running"] \in LogType
                            /\ [old EXCEPT !.status = "running"].status = "running"
      BY DEF LogType
    <3>2. log \in LogType /\ (log = EmptyLog \/ log.status = "running")
      BY <2>2, <3>1, LogTyped
    <3>3. log.status # "done"
      BY <3>2 DEF EmptyLog
    <3> QED
      BY <2>2, <3>2, <3>3 DEF Foreign, JobType, Named, PackageOps
  <2> QED
    BY <2>1, <2>2 DEF ReleaseInit
<1>2. ApplianceOK
  BY <1>1, PackageAssumption, VersionAssumption DEF ReleaseInit, ApplianceOK
<1>3. ReleaseTypeOK
  BY <1>1, <1>2, LimitAssumption, RequestAssumption DEF ReleaseInit, ReleaseTypeOK
<1> QED
  BY <1>1, <1>3 DEF ReleaseInit, ReleaseTyped

\* The one call of FirmwareManager.ensure() and its appliance stay within their
\* types, for any releases and any limits: no loop sleeps more often than its
\* timeout allows, and no POST is sent more often than the client may.
THEOREM ReleaseTypeCorrect == ReleaseSpec => []ReleaseTypeOK
<1>1. ReleaseInit => ReleaseTyped
  BY ReleaseTypeInit
<1>2. ReleaseTyped /\ [ReleaseNext]_releaseVars => ReleaseTyped'
  BY ReleaseTypeStep
<1>3. ReleaseTyped => ReleaseTypeOK
  BY DEF ReleaseTyped
<1> QED
  BY <1>1, <1>2, <1>3, PTL DEF ReleaseSpec

-----------------------------------------------------------------------------
(* FirmwareManager: what it finds, fires and reaches *)

\* What the call may still fire, and what a job of its own may do, was asked for.
LEMMA MajorStep ==
    ASSUME ReleaseTyped, FreshInv, MajorInv, [ReleaseNext]_releaseVars
    PROVE  MajorInv'
<1>1. CASE Begin
  <2>1. /\ UNCHANGED <<job, abandoned, strangers>> /\ verb' \in {verb, "check"}
        /\ stage = "idle" /\ stage' # "idle"
    BY <1>1, EnsureLeaves DEF Begin, Post, EndWith, elsewhere, appliance
  <2>2. "upgrade" \notin {verb, "check"} \cup abandoned
    BY <2>1 DEF FreshInv, Unfired
  <2> QED
    BY <2>1, <2>2 DEF MajorInv
<1>2. CASE ReleaseStep
  <2>1. /\ UNCHANGED <<job, asked, strangers>> /\ abandoned' \subseteq abandoned \cup {verb}
        /\ stage # "idle" /\ stage' # "idle"
    BY <1>2, EnsureLeaves
       DEF ReleaseStep, CheckFired, CheckPoll, ReadStatus, VerbFired, VersionPoll,
           IdleAgainPoll, PollFails, Refused, LoseReply, elsewhere, unpolled, appliance
  <2>2. verb' = verb \/ (verb' = "upgrade" => asked.state = "upgraded")
    BY <1>2, VerbForType
       DEF ReleaseStep, CheckFired, CheckPoll, ReadStatus, VerbFired, VersionPoll,
           IdleAgainPoll, PollFails, Refused, LoseReply, unpolled, Post
  <2> QED
    BY <2>1, <2>2 DEF MajorInv
<1>3. CASE ExecuteVerb \/ ExecuteLate
  <2>1. PICK op \in Verbs :
           /\ Fire(op, NoPackage) /\ UNCHANGED <<asked, stage, verb, strangers>>
           /\ (op = verb /\ sending = "sent") \/ op \in abandoned
           /\ abandoned' \subseteq abandoned
    BY <1>3, ExecuteMoves
  <2>2. job'.op = job.op \/ job'.op = op
    BY <2>1, VerbKeeps
  <2>3. stage = "idle" => abandoned = {} /\ sending # "sent"
    BY DEF ReleaseTyped
  <2> QED
    BY <2>1, <2>2, <2>3 DEF MajorInv
<1>4. CASE ApplianceStep /\ UNCHANGED <<caller, abandoned, strangers>>
  BY <1>4, ApplianceMoves DEF MajorInv, caller
<1>5. CASE StrangerFires
  BY <1>5, StrangerMoves DEF MajorInv, caller
<1>6. CASE UNCHANGED releaseVars
  BY <1>6 DEF releaseVars, appliance, caller, MajorInv
<1> QED
  BY <1>1, <1>2, <1>3, <1>4, <1>5, <1>6 DEF ReleaseNext

\* Until something is fired the check it waited for stays true.
LEMMA FreshStep ==
    ASSUME ReleaseTyped, FreshInv, [ReleaseNext]_releaseVars
    PROVE  FreshInv'
<1>1. CASE Begin
  <2>1. UNCHANGED <<up, job, version, abandoned, strangers>> /\ stage = "idle"
    BY <1>1 DEF Begin, elsewhere, appliance
  <2>2. \/ stage' = "raised" /\ result' = "ValueError"
        \/ stage' = "check" /\ verb' = "check" /\ sending' = "sent" /\ result' = result
    BY <1>1 DEF Begin, Post, EndWith, MoveTo
  <2> QED
    BY <2>1, <2>2 DEF FreshInv, Unfired, Undisturbed, NoopIsTrue, ReleaseTyped, Ended
<1>2. CASE ReleaseStep
  <2>1. /\ UNCHANGED <<appliance, asked, strangers>>
        /\ stage \notin Ended /\ result = "pending"
    BY <1>2 DEF ReleaseStep, CheckFired, CheckPoll, ReadStatus, VerbFired, VersionPoll,
                IdleAgainPoll, PollFails, Refused, LoseReply, elsewhere, unpolled,
                appliance, ReleaseTyped, Ended
  <2>2. CASE CheckFired
    BY <2>1, <2>2 DEF FreshInv, Unfired, Undisturbed, NoopIsTrue, CheckFired, MoveTo, elsewhere,
                      appliance
  <2>3. CASE CheckPoll
    <3>1. log.status = "done" => job.op # "check"
      BY DEF ReleaseTyped, Busy, NoJob
    <3> QED
      BY <2>1, <2>3, <3>1 DEF FreshInv, Unfired, Undisturbed, NoopIsTrue, CheckPoll, MoveTo, PollOn,
                              EndWith, elsewhere, unpolled, appliance
  <2>4. CASE ReadStatus
    <3>1. result' = "noop" => VerbFor(asked.state, resolved) = "none" /\ verb' = verb
      BY <2>1, <2>4 DEF ReadStatus, EndWith, Post
    <3>2. stage' \in {"returned", "fire"}
      BY <2>4 DEF ReadStatus, EndWith, MoveTo, Post
    <3> QED
      BY <2>1, <2>4, <3>1, <3>2 DEF FreshInv, Unfired, Undisturbed, NoopIsTrue, ReadStatus, elsewhere,
                                    appliance
  <2>5. CASE VerbFired \/ VersionPoll \/ IdleAgainPoll \/ PollFails \/ Refused
    <3>1. /\ stage' \in {stage, "wait_version", "wait_idle"} \cup Ended
          /\ result' # "noop"
          /\ stage' \in {"idle", "check", "wait_check", "status"} => FALSE
      BY <2>1, <2>5 DEF VerbFired, VersionPoll, IdleAgainPoll, PollFails, Refused,
                        AfterFire, PollOn, EndWith, MoveTo, Ended
    <3> QED
      BY <3>1 DEF FreshInv, Unfired, Undisturbed, NoopIsTrue
  <2>6. CASE LoseReply
    <3>1. /\ stage \in {"check", "fire"} /\ UNCHANGED verb
          /\ abandoned' \subseteq abandoned \cup {verb}
      BY <2>6 DEF LoseReply, ReleaseTyped
    <3>2. /\ \/ stage' = stage /\ sending' = "sent"
             \/ stage' \in {"wait_version"} \cup Ended
          /\ result' # "noop"
      BY <2>1, <2>6 DEF LoseReply, SendAgain, GiveUp, AfterFire, EndWith, MoveTo, Ended
    <3> QED
      BY <2>1, <3>1, <3>2 DEF FreshInv, Unfired, Undisturbed, NoopIsTrue, ReleaseTyped, appliance, Ended
  <2> QED
    BY <1>2, <2>2, <2>3, <2>4, <2>5, <2>6 DEF ReleaseStep
<1>3. CASE ExecuteVerb \/ ExecuteLate
  <2>1. PICK op \in Verbs :
           /\ Fire(op, NoPackage) /\ UNCHANGED <<asked, stage, verb, result, strangers>>
           /\ \/ op = verb /\ sending = "sent" /\ UNCHANGED abandoned
              \/ op \in abandoned /\ abandoned' \subseteq abandoned /\ UNCHANGED sending
    BY <1>3, ExecuteMoves
  <2>2. /\ UNCHANGED <<up, version, resolved>>
        /\ job.op # "none" => UNCHANGED job
        /\ job.op = "none" => job'.op = op
    BY <2>1, VerbKeeps
  <2> QED
    BY <2>1, <2>2 DEF FreshInv, Unfired, Undisturbed, NoopIsTrue, Verbs, ReleaseTyped
<1>4. CASE ApplianceStep /\ UNCHANGED <<caller, abandoned, strangers>>
  <2>1. UNCHANGED <<asked, stage, verb, sending, result, abandoned, strangers>>
    BY <1>4 DEF caller
  <2>2. CASE Unfired /\ Undisturbed
    <3>1. /\ up /\ job.op \in {"none", "check"}
      BY <2>2 DEF FreshInv
    <3>2. /\ up' /\ UNCHANGED version /\ job'.op \in {"none", "check"}
          /\ resolved' \in {resolved, Offer[version]}
          /\ job.op = "check" => job'.op = "check" \/ resolved' = Offer[version]
      BY <1>4, <3>1, ApplianceMoves
    <3> QED
      BY <2>1, <3>2 DEF FreshInv, Unfired, Undisturbed, NoopIsTrue
  <2>3. CASE ~(Unfired /\ Undisturbed)
    BY <2>1, <2>3 DEF FreshInv, Unfired, Undisturbed, NoopIsTrue
  <2> QED
    BY <2>2, <2>3
<1>5. CASE StrangerFires
  BY <1>5, StrangerMoves DEF FreshInv, Unfired, Undisturbed, NoopIsTrue, caller
<1>6. CASE UNCHANGED releaseVars
  BY <1>6 DEF releaseVars, appliance, caller, FreshInv, Unfired, Undisturbed, NoopIsTrue
<1> QED
  BY <1>1, <1>2, <1>3, <1>4, <1>5, <1>6 DEF ReleaseNext

LEMMA ReleaseInvInit == ReleaseInit => FreshInv /\ MajorInv
<1> SUFFICES ASSUME ReleaseInit PROVE FreshInv /\ MajorInv
  OBVIOUS
<1>1. \/ job.op = "none" /\ strangers = {}
      \/ strangers = {job.op}
  <2>1. NoJob.op = "none"
    BY DEF NoJob
  <2>2. (job = NoJob /\ strangers = {}) \/ strangers = {job.op}
    BY Zenon DEF ReleaseInit
  <2> QED
    BY <2>1, <2>2
<1>2. /\ up /\ abandoned = {} /\ verb = "none" /\ stage = "idle" /\ result = "pending"
  BY DEF ReleaseInit
<1>3. FreshInv
  BY <1>1, <1>2 DEF FreshInv, Unfired, Undisturbed, NoopIsTrue
<1>4. MajorInv
  BY <1>1, <1>2 DEF MajorInv
<1> QED
  BY <1>3, <1>4

\* A call that finds nothing to do was right, however often its check was lost, sent
\* again, executed late or swallowed by another's check, while nothing but checks of
\* others ran before and during the call.
THEOREM NoopHolds == ReleaseSpec => []NoopIsTrue
<1>1. ReleaseInit => ReleaseTyped /\ FreshInv
  BY ReleaseTypeInit, ReleaseInvInit
<1>2. ReleaseTyped /\ FreshInv /\ [ReleaseNext]_releaseVars
          => (ReleaseTyped /\ FreshInv)'
  BY ReleaseTypeStep, FreshStep
<1>3. FreshInv => NoopIsTrue
  BY DEF FreshInv
<1> QED
  BY <1>1, <1>2, <1>3, PTL DEF ReleaseSpec

\* The appliance goes down into a major release only for a call that asked for it, or
\* when somebody else fired one, however late the requests are executed and whatever
\* they find pending or running.
THEOREM MajorHolds == ReleaseSpec => MajorOnlyWhenAsked
<1>1. ReleaseInit => ReleaseTyped /\ FreshInv /\ MajorInv
  BY ReleaseTypeInit, ReleaseInvInit
<1>2. ReleaseTyped /\ FreshInv /\ MajorInv /\ [ReleaseNext]_releaseVars
          => (ReleaseTyped /\ FreshInv /\ MajorInv)'
  BY ReleaseTypeStep, FreshStep, MajorStep
<1>3. ReleaseTyped /\ MajorInv /\ [ReleaseNext]_releaseVars
          => [up /\ ~up' /\ Offer[version] = "upgrade"
                 => asked.state = "upgraded" \/ "upgrade" \in strangers]_releaseVars
  <2> SUFFICES ASSUME ReleaseTyped, MajorInv, ReleaseNext, up, ~up',
                      Offer[version] = "upgrade"
               PROVE  asked.state = "upgraded" \/ "upgrade" \in strangers
    OBVIOUS
  <2>1. ApplianceStep
    <3>1. ~(Begin \/ ReleaseStep)
      BY EnsureTyped DEF appliance
    <3>2. ~(ExecuteVerb \/ ExecuteLate \/ StrangerFires)
      BY DEF ExecuteVerb, ExecuteLate, StrangerFires, Fire
    <3> QED
      BY <3>1, <3>2 DEF ReleaseNext
  <2>2. job.op = "upgrade"
    BY <2>1, ApplianceMoves
  <2> QED
    BY <2>2 DEF MajorInv
<1> QED
  BY <1>1, <1>2, <1>3, PTL DEF ReleaseSpec, MajorOnlyWhenAsked

Aimed == \A request \in Requests : Aims(request)

\* The appliance does not go down from a target that was aimed at.
LEMMA TargetKeeps ==
    ASSUME Aimed, ReleaseTyped, MajorInv, NoRelease, ApplianceStep,
           asked.target # NoTarget, up, version \in Hits[asked.target]
    PROVE  up' /\ UNCHANGED version /\ (job'.op = "reinstall" => job.op = "reinstall")
<1>1. VerbFor(asked.state, Offer[version]) = "none"
  BY DEF Aimed, Aims, ReleaseTyped, ReleaseTypeOK
<1>2. ~(job.op \in {"update", "upgrade"} /\ Offer[version] = job.op)
  BY <1>1 DEF VerbFor, MajorInv, NoRelease
<1> QED
  BY <1>2, ApplianceMoves

LEMMA ReachedStep ==
    ASSUME Aimed, ReleaseTyped, MajorInv, ReachedInv, [ReleaseNext]_releaseVars
    PROVE  ReachedInv'
<1>1. CASE Begin
  <2>1. stage' \in {"raised", "check"} /\ result' \in {"ValueError", "pending"}
    BY <1>1 DEF Begin, Post, EndWith, MoveTo, ReleaseTyped, Ended
  <2> QED
    BY <2>1 DEF ReachedInv, NoRelease
<1>2. CASE ReleaseStep
  <2>1. UNCHANGED <<appliance, strangers, asked>> /\ stage \notin Ended /\ result = "pending"
    BY <1>2 DEF ReleaseStep, CheckFired, CheckPoll, ReadStatus, VerbFired, VersionPoll,
                IdleAgainPoll, PollFails, Refused, LoseReply, elsewhere, unpolled,
                appliance, ReleaseTyped, Ended
  <2>2. CASE VerbFired \/ (LoseReply /\ GiveUp)
    <3>1. \/ stage' = "wait_version" /\ asked.target # NoTarget /\ result' = "pending"
          \/ stage' \in Ended /\ result' # "reached"
      BY <2>1, <2>2 DEF VerbFired, GiveUp, AfterFire, EndWith, MoveTo, Ended
    <3> QED
      BY <2>1, <3>1 DEF ReachedInv, NoRelease, Ended
  <2>3. CASE VersionPoll
    BY <2>1, <2>3 DEF VersionPoll, PollOn, EndWith, MoveTo, ReachedInv, NoRelease, appliance
  <2>4. CASE IdleAgainPoll
    BY <2>1, <2>4 DEF IdleAgainPoll, PollOn, EndWith, MoveTo, ReachedInv, NoRelease, appliance,
                      Busy, NoJob
  <2>5. CASE \/ CheckFired \/ CheckPoll \/ ReadStatus \/ PollFails \/ Refused
             \/ LoseReply /\ SendAgain
    <3>1. /\ result' # "reached"
          /\ stage' \in {"check", "fire", "wait_check", "status"} \cup Ended
      BY <2>1, <2>5 DEF CheckFired, CheckPoll, ReadStatus, PollFails, Refused, LoseReply,
             SendAgain, PollOn, Post, EndWith, MoveTo, Ended, ReleaseTyped
    <3> QED
      BY <3>1 DEF ReachedInv, NoRelease, Ended
  <2> QED
    BY <1>2, <2>2, <2>3, <2>4, <2>5 DEF ReleaseStep, LoseReply
<1>3. CASE ExecuteVerb \/ ExecuteLate
  <2>1. PICK op \in Verbs : Fire(op, NoPackage) /\ UNCHANGED <<asked, stage, result, strangers>>
    BY <1>3, ExecuteMoves
  <2>2. /\ UNCHANGED <<up, version>>
        /\ job'.op \in {job.op, op}
    BY <2>1, VerbKeeps DEF ReleaseTyped
  <2> QED
    BY <2>1, <2>2 DEF ReachedInv, NoRelease, Verbs
<1>4. CASE ApplianceStep /\ UNCHANGED <<caller, abandoned, strangers>>
  <2>1. UNCHANGED <<asked, stage, result, strangers>>
    BY <1>4 DEF caller
  <2>2. CASE (stage = "wait_idle" \/ result = "reached") /\ NoRelease
    BY <1>4, <2>1, <2>2, TargetKeeps DEF ReachedInv, NoRelease
  <2>3. CASE ~((stage = "wait_idle" \/ result = "reached") /\ NoRelease)
    BY <2>1, <2>3 DEF ReachedInv, NoRelease
  <2> QED
    BY <2>2, <2>3
<1>5. CASE StrangerFires
  BY <1>5, StrangerMoves DEF ReachedInv, NoRelease, caller
<1>6. CASE UNCHANGED releaseVars
  BY <1>6 DEF releaseVars, appliance, caller, ReachedInv, NoRelease
<1> QED
  BY <1>1, <1>2, <1>3, <1>4, <1>5, <1>6 DEF ReleaseNext

\* A call that waited for its target and for the end of the re-installation left
\* the appliance there: for any releases in any order and any jobs of others but
\* releases, as long as no caller names a target that what it asks for leads away
\* from (Aimed).
THEOREM ReachedHolds ==
    ASSUME Aimed
    PROVE  ReleaseSpec => []ReachedIsSettled
<1>1. ReleaseInit => ReleaseTyped /\ FreshInv /\ MajorInv /\ ReachedInv
  BY ReleaseTypeInit, ReleaseInvInit DEF ReleaseInit, ReachedInv
<1>2. ReleaseTyped /\ FreshInv /\ MajorInv /\ ReachedInv /\ [ReleaseNext]_releaseVars
          => (ReleaseTyped /\ FreshInv /\ MajorInv /\ ReachedInv)'
  BY Aimed, ReleaseTypeStep, FreshStep, MajorStep, ReachedStep
<1>3. ReachedInv => ReachedIsSettled
  BY DEF ReachedInv, ReachedIsSettled, NoRelease
<1> QED
  BY <1>1, <1>2, <1>3, PTL DEF ReleaseSpec
=============================================================================
