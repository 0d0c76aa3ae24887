----------------------- MODULE ModuleRegistry_proofs -----------------------
(***************************************************************************)
(* Proofs about ModuleRegistry, for every set of modules and binaries and  *)
(* every limit. The inductive invariant is Inv.                            *)
(***************************************************************************)
EXTENDS ModuleRegistry, SequenceTheorems, TLAPS

USE DEF StateOf

\* The empty record is a record.
LEMMA EmptyRecordType == EmptyRecord \in Record
BY ReportAssumption DEF EmptyRecord, Record, State

\* Appending a well-typed entry to the log keeps it well typed.
LEMMA LogEntryType ==
  ASSUME NEW m \in Module, NEW event \in Event, NEW previous \in State,
         NEW resulting \in State, NEW res \in Result, NEW n \in Nat
  PROVE  LogEntry(n, m, event, previous, resulting, res) \in Entry
BY DEF LogEntry, Entry

LEMMA LogType ==
  ASSUME NEW m \in Module, NEW event \in Event, NEW previous \in State,
         NEW resulting \in State, NEW res \in Result, TypeOK,
         Log(m, event, previous, resulting, res)
  PROVE  audit' \in Seq(Entry) /\ nextSequence' \in Nat
BY LogEntryType DEF Log, TypeOK

LEMMA LogIfRoomType ==
  ASSUME NEW m \in Module, NEW event \in Event, NEW previous \in State,
         NEW resulting \in State, NEW res \in Result, TypeOK,
         LogIfRoom(m, event, previous, resulting, res)
  PROVE  audit' \in Seq(Entry) /\ nextSequence' \in Nat
<1>1. CASE Log(m, event, previous, resulting, res)
  BY <1>1, LogType
<1>2. CASE NoLog
  BY <1>2 DEF NoLog, TypeOK
<1> QED
  BY <1>1, <1>2 DEF LogIfRoom

\* A refused call changes nothing but the result.
LEMMA RefuseType ==
  ASSUME NEW res \in Result, TypeOK, Refuse(res)
  PROVE  TypeOK'
BY DEF Refuse, TypeOK

LEMMA RefuseUnlessType ==
  ASSUME NEW m \in Module, NEW wanted, NEW otherwise \in Result, TypeOK,
         RefuseUnless(m, wanted, otherwise)
  PROVE  TypeOK'
BY RefuseType DEF RefuseUnless, Result

-----------------------------------------------------------------------------
(***************************************************************************)
(* Type correctness, one lemma for each call.                              *)
(***************************************************************************)

LEMMA DiscoverType ==
  ASSUME TypeOK, NEW b \in Binary, Discover(b)
  PROVE  TypeOK'
<1>1. CASE DiscoverRefusal(b) # "OK" /\ Refuse(DiscoverRefusal(b))
  BY <1>1, RefuseType DEF DiscoverRefusal, Result
<1>2. CASE DiscoverRefusal(b) = "OK" /\ ~Refuse(DiscoverRefusal(b))
  <2>1. b.id \in Module
    BY BinaryAssumption
  <2>2. slots' \in Seq(Module)
    BY <1>2, <2>1 DEF Discover, TypeOK
  <2>3. audit' \in Seq(Entry) /\ nextSequence' \in Nat
    BY <1>2, <2>1, LogType DEF Discover, Event, State, Result
  <2>4. module' \in [Module -> Record]
    <3>1. NewRecord(b) \in Record
      BY ReportAssumption DEF Record, State, NewRecord
    <3>2. module' = [module EXCEPT ![b.id] = NewRecord(b)]
      BY <1>2 DEF Discover
    <3> QED
      BY <2>1, <3>1, <3>2 DEF TypeOK
  <2> QED
    BY <1>2, <2>2, <2>3, <2>4 DEF Discover, TypeOK, Result
<1> QED
  BY <1>1, <1>2 DEF Discover, Refuse, TypeOK

LEMMA VerifyType ==
  ASSUME TypeOK, NEW m \in Module, Verify(m)
  PROVE  TypeOK'
<1>1. CASE RefuseUnless(m, "DISCOVERED", "INVALID_STATE")
  BY <1>1, RefuseUnlessType DEF Result
<1>2. CASE ~RefuseUnless(m, "DISCOVERED", "INVALID_STATE")
  <2>. DEFINE failure == VerifyFailure(module[m].binary)
  <2>0. failure \in {"OK", "INCOMPATIBLE", "INVALID_IDENTITY"}
    BY DEF VerifyFailure
  <2>1. module' \in [Module -> Record]
    BY <1>2 DEF Verify, TypeOK, Record, State
  <2>2. audit' \in Seq(Entry) /\ nextSequence' \in Nat
    <3>1. CASE LogIfRoom(m, "FAILED", "DISCOVERED", "FAILED", failure)
      BY <3>1, <2>0, LogIfRoomType DEF Event, State, Result
    <3>2. CASE Log(m, "VERIFIED", "DISCOVERED", "UNVERIFIED", "OK")
      BY <3>2, LogType DEF Event, State, Result
    <3>3. CASE NoLog
      BY <3>3 DEF NoLog, TypeOK
    <3> QED
      BY <1>2, <3>1, <3>2, <3>3 DEF Verify
  <2>3. slots' \in Seq(Module) /\ result' \in Result
    BY <1>2, <2>0 DEF Verify, TypeOK, Result
  <2> QED
    BY <2>1, <2>2, <2>3 DEF TypeOK
<1> QED
  BY <1>1, <1>2

LEMMA QualifyType ==
  ASSUME TypeOK, NEW m \in Module, NEW report \in Report,
         NEW returned \in {"OK", "QUALIFICATION"}, Qualify(m, report, returned)
  PROVE  TypeOK'
<1>1. CASE RefuseUnless(m, "UNVERIFIED", "INVALID_STATE")
  BY <1>1, RefuseUnlessType DEF Result
<1>2. CASE Refuse("AUDIT_FULL")
  BY <1>2, RefuseType DEF Result
<1>3. CASE /\ ~RefuseUnless(m, "UNVERIFIED", "INVALID_STATE")
           /\ ~Refuse("AUDIT_FULL")
  <2>. DEFINE passed  == returned = "OK" /\ ValidReport(report)
              room    == Len(audit) + 1 < AuditMax
              final   == IF passed /\ room THEN "QUALIFIED" ELSE "FAILED"
              outcome == IF passed THEN "OK" ELSE "QUALIFICATION"
              testing == LogEntry(nextSequence, m, "TESTING", "UNVERIFIED",
                                  "TESTING", "OK")
              second  == LogEntry(nextSequence + 1, m, final, "TESTING",
                                  final, outcome)
  <2>0. nextSequence \in Nat /\ audit \in Seq(Entry)
    BY DEF TypeOK
  <2>1. testing \in Entry
    BY <2>0, LogEntryType DEF Event, State, Result
  <2>2. second \in Entry
    BY <2>0, LogEntryType DEF Event, State, Result
  <2>3. /\ module' = [module EXCEPT ![m].state = final,
                                    ![m].qualification = report,
                                    ![m].authorized = passed /\ @]
        /\ audit' = Append(audit, testing)
                      \o (IF room THEN <<second>> ELSE << >>)
        /\ nextSequence' = nextSequence + (IF room THEN 2 ELSE 1)
        /\ result' = IF passed /\ ~room THEN "AUDIT_FULL" ELSE outcome
        /\ slots' = slots
    BY <1>3 DEF Qualify
  <2>. HIDE DEF passed, room, testing, second
  <2>4. audit' \in Seq(Entry)
    BY <2>0, <2>1, <2>2, <2>3
  <2>5. module' \in [Module -> Record]
    <3>. DEFINE rec == [module[m] EXCEPT !.state = final,
                          !.qualification = report,
                          !.authorized = passed /\ module[m].authorized]
    <3>1. rec \in Record
      BY DEF TypeOK, Record, State
    <3>. HIDE DEF rec
    <3> QED
      BY <2>3, <3>1 DEF TypeOK, rec
  <2> QED
    BY <2>0, <2>3, <2>4, <2>5 DEF TypeOK, Result
<1> QED
  BY <1>1, <1>2, <1>3

LEMMA RestoreType ==
  ASSUME TypeOK, NEW m \in Module, NEW report \in Report, Restore(m, report)
  PROVE  TypeOK'
<1>1. CASE RefuseUnless(m, "UNVERIFIED", "INVALID_STATE")
  BY <1>1, RefuseUnlessType DEF Result
<1>2. CASE Refuse("QUALIFICATION")
  BY <1>2, RefuseType DEF Result
<1>3. CASE /\ module' = [module EXCEPT ![m] =
                [@ EXCEPT !.state = "QUALIFIED", !.qualification = report,
                          !.authorized = FALSE]]
           /\ Log(m, "QUALIFIED", "UNVERIFIED", "QUALIFIED", "OK")
           /\ result' = "OK" /\ UNCHANGED slots
  <2>1. audit' \in Seq(Entry) /\ nextSequence' \in Nat
    BY <1>3, LogType DEF Event, State, Result
  <2>2. module' \in [Module -> Record]
    BY <1>3 DEF TypeOK, Record, State
  <2> QED
    BY <1>3, <2>1, <2>2 DEF TypeOK, Result
<1>4. CASE /\ module' = [module EXCEPT ![m] =
                [@ EXCEPT !.qualification = NoReport, !.authorized = FALSE]]
           /\ NoLog
           /\ result' = "AUDIT_FULL" /\ UNCHANGED slots
  <2>1. module' \in [Module -> Record]
    BY <1>4, ReportAssumption DEF TypeOK, Record
  <2> QED
    BY <1>4, <2>1 DEF TypeOK, NoLog, Result
<1> QED
  BY <1>1, <1>2, <1>3, <1>4 DEF Restore

LEMMA AuthorizeType ==
  ASSUME TypeOK, NEW m \in Module, Authorize(m)
  PROVE  TypeOK'
<1>1. CASE RefuseUnless(m, "QUALIFIED", "NOT_QUALIFIED")
  BY <1>1, RefuseUnlessType DEF Result
<1>2. CASE /\ module' = [module EXCEPT ![m].authorized = ~AuditFull]
           /\ LogIfRoom(m, "AUTHORIZED", "QUALIFIED", "QUALIFIED", "OK")
           /\ result' = IF AuditFull THEN "AUDIT_FULL" ELSE "OK"
           /\ UNCHANGED slots
  <2>1. audit' \in Seq(Entry) /\ nextSequence' \in Nat
    BY <1>2, LogIfRoomType DEF Event, State, Result
  <2>2. module' \in [Module -> Record]
    BY <1>2 DEF TypeOK, Record, AuditFull
  <2> QED
    BY <1>2, <2>1, <2>2 DEF TypeOK, Result
<1> QED
  BY <1>1, <1>2 DEF Authorize

LEMMA ActivateType ==
  ASSUME TypeOK, NEW m \in Module, Activate(m)
  PROVE  TypeOK'
<1>1. CASE RefuseUnless(m, "QUALIFIED", "NOT_QUALIFIED")
  BY <1>1, RefuseUnlessType DEF Result
<1>2. CASE Refuse("NOT_AUTHORIZED") \/ Refuse("AUDIT_FULL")
  BY <1>2, RefuseType DEF Result
<1>3. CASE /\ module' = [module EXCEPT ![m].state = "ACTIVE"]
           /\ Log(m, "ACTIVE", "QUALIFIED", "ACTIVE", "OK")
           /\ result' = "OK" /\ UNCHANGED slots
  <2>1. audit' \in Seq(Entry) /\ nextSequence' \in Nat
    BY <1>3, LogType DEF Event, State, Result
  <2>2. module' \in [Module -> Record]
    BY <1>3 DEF TypeOK, Record, State
  <2> QED
    BY <1>3, <2>1, <2>2 DEF TypeOK, Result
<1> QED
  BY <1>1, <1>2, <1>3 DEF Activate

LEMMA RetireType ==
  ASSUME TypeOK, NEW m \in Module, NEW state \in Retired, Retire(m, state)
  PROVE  TypeOK'
<1>1. CASE Refuse("NOT_FOUND")
  BY <1>1, RefuseType DEF Result
<1>2. CASE /\ module' = [module EXCEPT ![m] =
                [@ EXCEPT !.state = state, !.authorized = FALSE]]
           /\ LogIfRoom(m, state, StateOf(m), state, "OK")
           /\ result' = IF AuditFull THEN "AUDIT_FULL" ELSE "OK"
           /\ UNCHANGED slots
  <2>1. StateOf(m) \in State /\ state \in State /\ state \in Event
    BY DEF TypeOK, Record, Retired, State, Event
  <2>2. audit' \in Seq(Entry) /\ nextSequence' \in Nat
    BY <1>2, <2>1, LogIfRoomType DEF Result
  <2>3. module' \in [Module -> Record]
    BY <1>2, <2>1 DEF TypeOK, Record
  <2> QED
    BY <1>2, <2>2, <2>3 DEF TypeOK, Result
<1> QED
  BY <1>1, <1>2 DEF Retire

LEMMA UnloadAllType == TypeOK /\ UnloadAll => TypeOK'
BY DEF TypeOK, UnloadAll, Record

LEMMA InitType == Init => TypeOK
BY EmptyRecordType DEF Init, TypeOK, Result

LEMMA NextType == TypeOK /\ [Next]_vars => TypeOK'
<1> SUFFICES ASSUME TypeOK, [Next]_vars PROVE TypeOK'
  OBVIOUS
<1>1. ASSUME NEW b \in Binary, Discover(b) PROVE TypeOK'
  BY <1>1, DiscoverType
<1>2. ASSUME NEW m \in Module, Verify(m) PROVE TypeOK'
  BY <1>2, VerifyType
<1>3. ASSUME NEW m \in Module, NEW report \in Report,
             NEW returned \in {"OK", "QUALIFICATION"},
             Qualify(m, report, returned)
      PROVE  TypeOK'
  BY <1>3, QualifyType
<1>4. ASSUME NEW m \in Module, NEW report \in Report, Restore(m, report)
      PROVE  TypeOK'
  BY <1>4, RestoreType
<1>5. ASSUME NEW m \in Module, Authorize(m) PROVE TypeOK'
  BY <1>5, AuthorizeType
<1>6. ASSUME NEW m \in Module, Activate(m) PROVE TypeOK'
  BY <1>6, ActivateType
<1>7. ASSUME NEW m \in Module, Fail(m) \/ Quarantine(m) PROVE TypeOK'
  BY <1>7, RetireType DEF Fail, Quarantine, Retired
<1>8. CASE UnloadAll
  BY <1>8, UnloadAllType
<1>9. CASE UNCHANGED vars
  BY <1>9 DEF vars, TypeOK
<1> QED
  BY <1>1, <1>2, <1>3, <1>4, <1>5, <1>6, <1>7, <1>8, <1>9 DEF Next

\* The registry is type correct, whatever calls are made in whatever order.
THEOREM TypeCorrect == Spec => []TypeOK
<1>1. Init => TypeOK
  BY InitType
<1>2. TypeOK /\ [Next]_vars => TypeOK'
  BY NextType
<1> QED
  BY <1>1, <1>2, PTL DEF Spec

-----------------------------------------------------------------------------
(***************************************************************************)
(* What a call may do to one record. The transitions are named after the   *)
(* calls; every further proof rests on StepIsAllowed and looks at these    *)
(* eight cases instead of the calls.                                       *)
(***************************************************************************)

Kept(old, new) ==
  /\ new.state = old.state /\ new.binary = old.binary
  /\ new.qualification = old.qualification
  /\ new.authorized = old.authorized

Born(old, new) ==
  /\ old.state = "ABSENT" /\ new.state = "DISCOVERED"
  /\ new.binary.wellFormed /\ new.binary.stage # 0
  /\ new.authorized = FALSE

Verified(old, new) ==
  /\ old.state = "DISCOVERED" /\ new.state = "UNVERIFIED"
  /\ ApiSupported(old.binary) /\ new.binary = old.binary
  /\ new.authorized = old.authorized

Passed(old, new) ==
  /\ old.state = "UNVERIFIED" /\ new.state = "QUALIFIED"
  /\ new.binary = old.binary
  /\ ValidReport(new.qualification)
  /\ new.authorized => old.authorized

Emptied(old, new) ==
  /\ old.state = "UNVERIFIED" /\ new.state = "UNVERIFIED"
  /\ new.binary = old.binary
  /\ new.authorized = FALSE

Reauthorized(old, new) ==
  /\ old.state = "QUALIFIED" /\ new.state = "QUALIFIED"
  /\ new.binary = old.binary /\ new.qualification = old.qualification

Activated(old, new) ==
  /\ old.state = "QUALIFIED" /\ new.state = "ACTIVE"
  /\ old.authorized /\ new.authorized = old.authorized
  /\ new.binary = old.binary /\ new.qualification = old.qualification

Failed(old, new) ==
  /\ old.state # "ABSENT" /\ new.state \in Retired
  /\ new.binary = old.binary
  /\ new.authorized =>
       old.authorized /\ old.state \in {"DISCOVERED", "UNVERIFIED"}

Allowed(old, new) ==
  \/ Kept(old, new) \/ Born(old, new) \/ Verified(old, new)
  \/ Passed(old, new) \/ Emptied(old, new) \/ Reauthorized(old, new)
  \/ Activated(old, new) \/ Failed(old, new)

\* The step changes at most the record of m, and that one as allowed.
Touches(m) ==
  /\ Allowed(module[m], module'[m])
  /\ \A n \in Module \ {m} : Kept(module[n], module'[n])

LEMMA RefuseTouches ==
  ASSUME NEW res, NEW m \in Module, Refuse(res)
  PROVE  Touches(m)
BY DEF Refuse, Touches, Allowed, Kept

LEMMA RefuseUnlessTouches ==
  ASSUME NEW m \in Module, NEW wanted, NEW otherwise,
         RefuseUnless(m, wanted, otherwise)
  PROVE  Touches(m)
BY RefuseTouches DEF RefuseUnless

LEMMA DiscoverTouches ==
  ASSUME TypeOK, NEW b \in Binary, Discover(b)
  PROVE  b.id \in Module /\ Touches(b.id)
<1>1. b.id \in Module
  BY BinaryAssumption
<1>2. CASE Refuse(DiscoverRefusal(b))
  BY <1>1, <1>2, RefuseTouches
<1>3. CASE /\ DiscoverRefusal(b) = "OK"
           /\ module' = [module EXCEPT ![b.id] = NewRecord(b)]
  <2>1. module'[b.id] = NewRecord(b)
    BY <1>1, <1>3 DEF TypeOK
  <2>2. \A n \in Module \ {b.id} : module'[n] = module[n]
    BY <1>3 DEF TypeOK
  <2>3. b.wellFormed /\ b.stage # 0 /\ ~Known(b.id)
    BY <1>3 DEF DiscoverRefusal
  <2>4. Born(module[b.id], NewRecord(b))
    BY <2>3 DEF Born, NewRecord, Known
  <2> QED
    BY <1>1, <2>1, <2>2, <2>4 DEF Touches, Allowed, Kept
<1> QED
  BY <1>1, <1>2, <1>3 DEF Discover

LEMMA VerifyTouches ==
  ASSUME TypeOK, NEW m \in Module, Verify(m)
  PROVE  Touches(m)
<1>1. CASE RefuseUnless(m, "DISCOVERED", "INVALID_STATE")
  BY <1>1, RefuseUnlessTouches
<1>2. CASE /\ StateOf(m) = "DISCOVERED"
           /\ module' = [module EXCEPT ![m].state = "FAILED"]
  <2>1. Failed(module[m], module'[m])
    <3>1. module'[m] = [module[m] EXCEPT !.state = "FAILED"]
      BY <1>2 DEF TypeOK
    <3>2. module[m] \in Record
      BY DEF TypeOK
    <3> QED
      BY <1>2, <3>1, <3>2 DEF Failed, Retired, Record
  <2> QED
    BY <1>2, <2>1 DEF Touches, Allowed, Kept, TypeOK
<1>3. CASE /\ StateOf(m) = "DISCOVERED"
           /\ VerifyFailure(module[m].binary) = "OK"
           /\ module' = [module EXCEPT ![m].state = "UNVERIFIED"]
  <2>1. ApiSupported(module[m].binary)
    BY <1>3 DEF VerifyFailure
  <2> QED
    BY <1>3, <2>1 DEF Touches, Allowed, Kept, Verified, TypeOK, Record
<1>4. CASE UNCHANGED module
  BY <1>4 DEF Touches, Allowed, Kept
<1> QED
  BY <1>1, <1>2, <1>3, <1>4 DEF Verify

LEMMA QualifyTouches ==
  ASSUME TypeOK, NEW m \in Module, NEW report \in Report, NEW returned,
         Qualify(m, report, returned)
  PROVE  Touches(m)
<1>1. CASE RefuseUnless(m, "UNVERIFIED", "INVALID_STATE")
  BY <1>1, RefuseUnlessTouches
<1>2. CASE Refuse("AUDIT_FULL")
  BY <1>2, RefuseTouches
<1>3. CASE /\ ~RefuseUnless(m, "UNVERIFIED", "INVALID_STATE")
           /\ ~Refuse("AUDIT_FULL")
  <2>. DEFINE passed == returned = "OK" /\ ValidReport(report)
              room   == Len(audit) + 1 < AuditMax
              final  == IF passed /\ room THEN "QUALIFIED" ELSE "FAILED"
              rec    == [module[m] EXCEPT !.state = final,
                           !.qualification = report,
                           !.authorized = passed /\ module[m].authorized]
  <2>1. module' = [module EXCEPT ![m] = rec] /\ module[m].state = "UNVERIFIED"
    BY <1>3 DEF Qualify
  <2>2. /\ rec.state = final /\ rec.qualification = report
        /\ rec.binary = module[m].binary
        /\ rec.authorized = (passed /\ module[m].authorized)
    BY DEF TypeOK, Record
  <2>. HIDE DEF rec
  <2>3. Allowed(module[m], rec)
    <3>1. CASE passed /\ room
      <4>1. Passed(module[m], rec)
        BY <2>1, <2>2, <3>1 DEF Passed
      <4> QED
        BY <4>1 DEF Allowed
    <3>2. CASE ~(passed /\ room)
      <4>1. Failed(module[m], rec)
        BY <2>1, <2>2, <3>2 DEF Failed, Retired
      <4> QED
        BY <4>1 DEF Allowed
    <3> QED
      BY <3>1, <3>2
  <2> QED
    BY <2>1, <2>3 DEF Touches, Kept, TypeOK
<1> QED
  BY <1>1, <1>2, <1>3

LEMMA RestoreTouches ==
  ASSUME TypeOK, NEW m \in Module, NEW report \in Report, Restore(m, report)
  PROVE  Touches(m)
<1>1. CASE RefuseUnless(m, "UNVERIFIED", "INVALID_STATE")
  BY <1>1, RefuseUnlessTouches
<1>2. CASE Refuse("QUALIFICATION")
  BY <1>2, RefuseTouches
<1>3. CASE /\ StateOf(m) = "UNVERIFIED" /\ ValidReport(report)
           /\ module' = [module EXCEPT ![m] =
                [@ EXCEPT !.state = "QUALIFIED", !.qualification = report,
                          !.authorized = FALSE]]
  <2>1. Passed(module[m], module'[m])
    BY <1>3 DEF Passed, TypeOK, Record
  <2> QED
    BY <1>3, <2>1 DEF Touches, Allowed, Kept, TypeOK
<1>4. CASE /\ StateOf(m) = "UNVERIFIED"
           /\ module' = [module EXCEPT ![m] =
                [@ EXCEPT !.qualification = NoReport, !.authorized = FALSE]]
  <2>1. Emptied(module[m], module'[m])
    BY <1>4 DEF Emptied, TypeOK, Record
  <2> QED
    BY <1>4, <2>1 DEF Touches, Allowed, Kept, TypeOK
<1> QED
  BY <1>1, <1>2, <1>3, <1>4 DEF Restore

LEMMA AuthorizeTouches ==
  ASSUME TypeOK, NEW m \in Module, Authorize(m)
  PROVE  Touches(m)
<1>1. CASE RefuseUnless(m, "QUALIFIED", "NOT_QUALIFIED")
  BY <1>1, RefuseUnlessTouches
<1>2. CASE /\ StateOf(m) = "QUALIFIED"
           /\ module' = [module EXCEPT ![m].authorized = ~AuditFull]
  <2>1. Reauthorized(module[m], module'[m])
    BY <1>2 DEF Reauthorized, TypeOK, Record
  <2> QED
    BY <1>2, <2>1 DEF Touches, Allowed, Kept, TypeOK
<1> QED
  BY <1>1, <1>2 DEF Authorize

LEMMA ActivateTouches ==
  ASSUME TypeOK, NEW m \in Module, Activate(m)
  PROVE  Touches(m)
<1>1. CASE RefuseUnless(m, "QUALIFIED", "NOT_QUALIFIED")
  BY <1>1, RefuseUnlessTouches
<1>2. CASE Refuse("NOT_AUTHORIZED") \/ Refuse("AUDIT_FULL")
  BY <1>2, RefuseTouches
<1>3. CASE /\ StateOf(m) = "QUALIFIED" /\ module[m].authorized
           /\ module' = [module EXCEPT ![m].state = "ACTIVE"]
  <2>1. Activated(module[m], module'[m])
    BY <1>3 DEF Activated, TypeOK, Record
  <2> QED
    BY <1>3, <2>1 DEF Touches, Allowed, Kept, TypeOK
<1> QED
  BY <1>1, <1>2, <1>3 DEF Activate

LEMMA RetireTouches ==
  ASSUME TypeOK, NEW m \in Module, NEW state \in Retired, Retire(m, state)
  PROVE  Touches(m)
<1>1. CASE Refuse("NOT_FOUND")
  BY <1>1, RefuseTouches
<1>2. CASE /\ Known(m)
           /\ module' = [module EXCEPT ![m] =
                [@ EXCEPT !.state = state, !.authorized = FALSE]]
  <2>1. Failed(module[m], module'[m])
    BY <1>2 DEF Failed, Known, TypeOK, Record
  <2> QED
    BY <1>2, <2>1 DEF Touches, Allowed, Kept, TypeOK
<1> QED
  BY <1>1, <1>2 DEF Retire

\* Every call either changes no standing, or touches one record as allowed.
LEMMA StepIsAllowed ==
  ASSUME TypeOK, [Next]_vars
  PROVE  \/ \A n \in Module : Kept(module[n], module'[n])
         \/ \E m \in Module : Touches(m)
<1>1. ASSUME NEW b \in Binary, Discover(b)
      PROVE  \E m \in Module : Touches(m)
  BY <1>1, DiscoverTouches
<1>2. ASSUME NEW m \in Module,
             \/ Verify(m) \/ Authorize(m) \/ Activate(m)
             \/ Fail(m) \/ Quarantine(m)
      PROVE  Touches(m)
  BY <1>2, VerifyTouches, AuthorizeTouches, ActivateTouches, RetireTouches
     DEF Fail, Quarantine, Retired
<1>3. ASSUME NEW m \in Module, NEW report \in Report,
             \/ Restore(m, report)
             \/ \E returned \in {"OK", "QUALIFICATION"} :
                  Qualify(m, report, returned)
      PROVE  Touches(m)
  BY <1>3, RestoreTouches, QualifyTouches
<1>4. CASE UnloadAll
  BY <1>4 DEF UnloadAll, Kept, TypeOK, Record
<1>5. CASE UNCHANGED vars
  BY <1>5 DEF vars, Kept
<1> QED
  BY <1>1, <1>2, <1>3, <1>4, <1>5 DEF Next

-----------------------------------------------------------------------------
(***************************************************************************)
(* Standing is earned. StandingIsEarned says nothing of the states before  *)
(* QUALIFIED, so it is not inductive: Sound adds what a record brings with *)
(* it from discovery (a well-formed binary with a stage) and verification  *)
(* (an API the Core serves).                                               *)
(***************************************************************************)

Sound(r) ==
  /\ r.state # "ABSENT" => r.binary.wellFormed /\ r.binary.stage # 0
  /\ r.state \in {"UNVERIFIED", "QUALIFIED", "ACTIVE"} =>
       ApiSupported(r.binary)
  /\ r.state \in {"QUALIFIED", "ACTIVE"} => AllTestsPassed(r.qualification)
  /\ r.authorized => r.state \in {"QUALIFIED", "ACTIVE"}
  /\ r.state = "ACTIVE" => r.authorized

Soundness == \A m \in Module : Sound(module[m])

\* A report the implementation accepts has passed all its tests.
LEMMA ValidReportPassed ==
  ASSUME NEW r, ValidReport(r)
  PROVE  AllTestsPassed(r)
BY DEF ValidReport, AllTestsPassed

\* Every allowed transition keeps a record sound.
LEMMA AllowedKeepsSound ==
  ASSUME NEW old, NEW new, Sound(old), Allowed(old, new)
  PROVE  Sound(new)
<1>1. CASE Kept(old, new)
  BY <1>1 DEF Kept, Sound
<1>2. CASE Born(old, new)
  BY <1>2 DEF Born, Sound
<1>3. CASE Verified(old, new)
  BY <1>3 DEF Verified, Sound
<1>4. CASE Passed(old, new)
  BY <1>4, ValidReportPassed DEF Passed, Sound
<1>5. CASE Emptied(old, new)
  BY <1>5 DEF Emptied, Sound
<1>6. CASE Reauthorized(old, new)
  BY <1>6 DEF Reauthorized, Sound
<1>7. CASE Activated(old, new)
  BY <1>7 DEF Activated, Sound
<1>8. CASE Failed(old, new)
  BY <1>8 DEF Failed, Retired, Sound
<1> QED
  BY <1>1, <1>2, <1>3, <1>4, <1>5, <1>6, <1>7, <1>8 DEF Allowed

LEMMA SoundnessStep ==
  ASSUME TypeOK, Soundness, [Next]_vars
  PROVE  Soundness'
<1>1. CASE \A n \in Module : Kept(module[n], module'[n])
  BY <1>1, AllowedKeepsSound DEF Soundness, Allowed
<1>2. ASSUME NEW m \in Module, Touches(m) PROVE Soundness'
  BY <1>2, AllowedKeepsSound DEF Soundness, Touches, Allowed
<1> QED
  BY <1>1, <1>2, StepIsAllowed

LEMMA InitSound == Init => Soundness
<1>1. EmptyRecord.state = "ABSENT" /\ EmptyRecord.authorized = FALSE
  BY DEF EmptyRecord
<1>2. Sound(EmptyRecord)
  BY <1>1 DEF Sound
<1> QED
  BY <1>2 DEF Init, Soundness

\* A QUALIFIED or ACTIVE module has earned it, and ACTIVE requires the
\* authorisation (see StandingIsEarned): for every number of modules, every
\* report and every size of the audit log.
THEOREM StandingEarned == Spec => []StandingIsEarned
<1>1. Init => TypeOK /\ Soundness
  BY InitType, InitSound
<1>2. TypeOK /\ Soundness /\ [Next]_vars => TypeOK' /\ Soundness'
  BY NextType, SoundnessStep
<1>3. Soundness => StandingIsEarned
  BY DEF Soundness, Sound, StandingIsEarned
<1> QED
  BY <1>1, <1>2, <1>3, PTL DEF Spec

-----------------------------------------------------------------------------
\* FAILED and QUARANTINED are final: no call brings a module back.
THEOREM RetirementIsFinal == Spec => RetiredIsFinal
<1>1. ASSUME TypeOK, [Next]_vars, NEW m \in Module, StateOf(m) \in Retired
      PROVE  StateOf(m)' \in Retired
  <2>1. Allowed(module[m], module'[m])
    BY <1>1, StepIsAllowed DEF Touches, Allowed
  <2> QED
    BY <1>1, <2>1 DEF Allowed, Kept, Born, Verified, Passed, Emptied,
                      Reauthorized, Activated, Failed, Retired
<1>2. TypeOK /\ [Next]_vars =>
        [\A m \in Module :
           StateOf(m) \in Retired => StateOf(m)' \in Retired]_vars
  BY <1>1
<1> QED
  BY <1>2, TypeCorrect, PTL DEF Spec, RetiredIsFinal

-----------------------------------------------------------------------------
(***************************************************************************)
(* The refinement. A step that touches one record moves that module in the *)
(* abstract governance, or leaves it; the soundness of the record says     *)
(* that only a module in QUALIFIED or ACTIVE is authorised.                *)
(***************************************************************************)

LEMMA StandingCases ==
  ASSUME NEW r
  PROVE  /\ r.state = "ABSENT" => StandingOf(r) = "unknown"
         /\ r.state \in {"DISCOVERED", "UNVERIFIED", "TESTING"} =>
              StandingOf(r) = "candidate"
         /\ r.state = "QUALIFIED" /\ r.authorized = TRUE =>
              StandingOf(r) = "authorized"
         /\ r.state = "QUALIFIED" /\ r.authorized = FALSE =>
              StandingOf(r) = "qualified"
         /\ r.state = "ACTIVE" => StandingOf(r) = "active"
         /\ r.state \in Retired => StandingOf(r) = "retired"
BY DEF StandingOf, Retired

LEMMA KeptStanding ==
  ASSUME NEW old, NEW new, Kept(old, new)
  PROVE  StandingOf(new) = StandingOf(old)
BY DEF Kept, StandingOf

\* The abstract move of each transition.
LEMMA AllowedMoves ==
  ASSUME NEW old, NEW new, Allowed(old, new), Sound(old), Sound(new),
         old.state \in State, old.authorized \in BOOLEAN,
         new.authorized \in BOOLEAN
  PROVE  LET from == StandingOf(old)
             to   == StandingOf(new)
         IN  \/ from = to
             \/ from = "unknown" /\ to = "candidate"
             \/ from = "candidate" /\ to = "qualified"
             \/ from = "qualified" /\ to = "authorized"
             \/ from = "authorized" /\ to = "qualified"
             \/ from = "authorized" /\ to = "active"
             \/ /\ from \in {"candidate", "qualified", "authorized",
                             "active", "retired"}
                /\ to = "retired"
<1>1. CASE Kept(old, new)
  BY <1>1, KeptStanding
<1>2. CASE Born(old, new)
  BY <1>2, StandingCases DEF Born
<1>3. CASE Verified(old, new)
  BY <1>3, StandingCases DEF Verified
<1>4. CASE Passed(old, new)
  <2>1. new.authorized = FALSE
    BY <1>4 DEF Passed, Sound
  <2> QED
    BY <1>4, <2>1, StandingCases DEF Passed
<1>5. CASE Emptied(old, new)
  BY <1>5, StandingCases DEF Emptied
<1>6. CASE Reauthorized(old, new)
  BY <1>6, StandingCases DEF Reauthorized
<1>7. CASE Activated(old, new)
  <2>1. old.authorized = TRUE
    BY <1>7 DEF Activated
  <2> QED
    BY <1>7, <2>1, StandingCases DEF Activated
<1>8. CASE Failed(old, new)
  <2>1. StandingOf(new) = "retired"
    BY <1>8, StandingCases DEF Failed
  <2>2. StandingOf(old) \in {"candidate", "qualified", "authorized",
                             "active", "retired"}
    BY <1>8, StandingCases DEF Failed, State, Retired
  <2> QED
    BY <2>1, <2>2
<1> QED
  BY <1>1, <1>2, <1>3, <1>4, <1>5, <1>6, <1>7, <1>8 DEF Allowed

LEMMA StepImplementsGovernance ==
  ASSUME TypeOK, Soundness, TypeOK', Soundness', [Next]_vars
  PROVE  [Governance!Next]_standing
<1>1. CASE \A n \in Module : Kept(module[n], module'[n])
  BY <1>1, KeptStanding DEF standing
<1>2. ASSUME NEW m \in Module, Touches(m)
      PROVE  [Governance!Next]_standing
  <2>. DEFINE from == StandingOf(module[m])
              to   == StandingOf(module'[m])
  <2>1. \A n \in Module \ {m} : StandingOf(module'[n]) = StandingOf(module[n])
    BY <1>2, KeptStanding DEF Touches
  <2>2. standing[m] = from /\ standing' = [standing EXCEPT ![m] = to]
    BY <2>1 DEF standing
  <2>3. \/ from = to
        \/ from = "unknown" /\ to = "candidate"
        \/ from = "candidate" /\ to = "qualified"
        \/ from = "qualified" /\ to = "authorized"
        \/ from = "authorized" /\ to = "qualified"
        \/ from = "authorized" /\ to = "active"
        \/ /\ from \in {"candidate", "qualified", "authorized",
                        "active", "retired"}
           /\ to = "retired"
    BY <1>2, AllowedMoves DEF Touches, Soundness, TypeOK, Record
  <2>. HIDE DEF from, to
  <2>4. CASE from = to
    BY <2>2, <2>4 DEF standing
  <2>5. CASE from = "unknown" /\ to = "candidate"
    BY <2>2, <2>5 DEF Governance!Next, Governance!Register, Governance!Move
  <2>6. CASE from = "candidate" /\ to = "qualified"
    BY <2>2, <2>6 DEF Governance!Next, Governance!Qualify, Governance!Move
  <2>7. CASE from = "qualified" /\ to = "authorized"
    BY <2>2, <2>7 DEF Governance!Next, Governance!Authorize, Governance!Move
  <2>8. CASE from = "authorized" /\ to = "qualified"
    BY <2>2, <2>8 DEF Governance!Next, Governance!Revoke, Governance!Move
  <2>9. CASE from = "authorized" /\ to = "active"
    BY <2>2, <2>9 DEF Governance!Next, Governance!Activate, Governance!Move
  <2>10. CASE /\ from \in {"candidate", "qualified", "authorized",
                           "active", "retired"}
              /\ to = "retired"
    BY <2>2, <2>10 DEF Governance!Next, Governance!Retire, Governance!Move,
                       Governance!Standing
  <2> QED
    BY <2>3, <2>4, <2>5, <2>6, <2>7, <2>8, <2>9, <2>10
<1> QED
  BY <1>1, <1>2, StepIsAllowed

\* Every call of the registry is a step of the abstract governance or none.
THEOREM RegistryImplementsGovernance == Spec => ImplementsGovernance
<1>1. Init => Governance!Init
  <2>1. EmptyRecord.state = "ABSENT"
    BY DEF EmptyRecord
  <2> QED
    BY <2>1, StandingCases DEF Init, Governance!Init, standing
<1>2. Init => TypeOK /\ Soundness
  BY InitType, InitSound
<1>3. TypeOK /\ Soundness /\ [Next]_vars => TypeOK' /\ Soundness'
  BY NextType, SoundnessStep
<1>4. TypeOK /\ Soundness /\ TypeOK' /\ Soundness' /\ [Next]_vars
        => [Governance!Next]_standing
  BY StepImplementsGovernance
<1> QED
  BY <1>1, <1>2, <1>3, <1>4, PTL DEF Spec, ImplementsGovernance, Governance!Spec

-----------------------------------------------------------------------------
(***************************************************************************)
(* The evidence precedes the standing. ActiveIsOnRecord speaks of ACTIVE   *)
(* modules only; OnRecord says what the log holds of a module in each      *)
(* state, and every call that raises the state adds the next entry.        *)
(***************************************************************************)

At(log, i, m, event) ==
  i \in 1..Len(log) /\ log[i].id = m /\ log[i].event = event

Trail1(log, m) == \E i \in 1..Len(log) : At(log, i, m, "DISCOVERED")

Trail2(log, m) ==
  \E i, j \in 1..Len(log) :
    i < j /\ At(log, i, m, "DISCOVERED") /\ At(log, j, m, "VERIFIED")

Trail3(log, m) ==
  \E i, j, k \in 1..Len(log) :
    /\ i < j /\ j < k
    /\ At(log, i, m, "DISCOVERED") /\ At(log, j, m, "VERIFIED")
    /\ At(log, k, m, "QUALIFIED")

Trail4(log, m) ==
  \E i, j, k, l \in 1..Len(log) :
    /\ i < j /\ j < k /\ k < l
    /\ At(log, i, m, "DISCOVERED") /\ At(log, j, m, "VERIFIED")
    /\ At(log, k, m, "QUALIFIED") /\ At(log, l, m, "AUTHORIZED")

Trail5(log, m) ==
  \E i, j, k, l, n \in 1..Len(log) :
    /\ i < j /\ j < k /\ k < l /\ l < n
    /\ At(log, i, m, "DISCOVERED") /\ At(log, j, m, "VERIFIED")
    /\ At(log, k, m, "QUALIFIED") /\ At(log, l, m, "AUTHORIZED")
    /\ At(log, n, m, "ACTIVE")

OnRecord(r, log, m) ==
  /\ r.state = "DISCOVERED" => Trail1(log, m)
  /\ r.state = "UNVERIFIED" => Trail2(log, m)
  /\ r.state = "QUALIFIED" => Trail3(log, m)
  /\ r.state = "QUALIFIED" /\ r.authorized = TRUE => Trail4(log, m)
  /\ r.state = "ACTIVE" => Trail5(log, m)

Recorded == \A m \in Module : OnRecord(module[m], audit, m)

Extends(log, longer) ==
  /\ Len(log) \in Nat /\ Len(longer) \in Nat /\ Len(log) <= Len(longer)
  /\ \A i \in 1..Len(log) : longer[i] = log[i]

\* A log that grows keeps every trail.
LEMMA TrailsStay ==
  ASSUME NEW log, NEW longer, NEW m, Extends(log, longer)
  PROVE  /\ Trail1(log, m) => Trail1(longer, m)
         /\ Trail2(log, m) => Trail2(longer, m)
         /\ Trail3(log, m) => Trail3(longer, m)
         /\ Trail4(log, m) => Trail4(longer, m)
         /\ Trail5(log, m) => Trail5(longer, m)
<1>1. \A i \in 1..Len(log) : i \in 1..Len(longer)
  BY DEF Extends
<1>2. ASSUME NEW i \in 1..Len(log), NEW event, At(log, i, m, event)
      PROVE  At(longer, i, m, event)
  BY <1>1, <1>2 DEF Extends, At
<1> QED
  BY <1>1, <1>2 DEF Trail1, Trail2, Trail3, Trail4, Trail5

\* A longer log whose last entry is the next one of the trail.
LEMMA TrailsGrow ==
  ASSUME NEW log, NEW longer, NEW m, Extends(log, longer),
         Len(log) < Len(longer)
  PROVE  /\ At(longer, Len(longer), m, "DISCOVERED") => Trail1(longer, m)
         /\ Trail1(log, m) /\ At(longer, Len(longer), m, "VERIFIED")
              => Trail2(longer, m)
         /\ Trail2(log, m) /\ At(longer, Len(longer), m, "QUALIFIED")
              => Trail3(longer, m)
         /\ Trail3(log, m) /\ At(longer, Len(longer), m, "AUTHORIZED")
              => Trail4(longer, m)
         /\ Trail4(log, m) /\ At(longer, Len(longer), m, "ACTIVE")
              => Trail5(longer, m)
<1>1. \A i \in 1..Len(log) : i \in 1..Len(longer) /\ i < Len(longer)
  BY DEF Extends
<1>2. ASSUME NEW i \in 1..Len(log), NEW event, At(log, i, m, event)
      PROVE  At(longer, i, m, event)
  BY <1>1, <1>2 DEF Extends, At
<1>3. Len(longer) \in 1..Len(longer)
  BY DEF Extends
<1>4. At(longer, Len(longer), m, "DISCOVERED") => Trail1(longer, m)
  BY <1>3 DEF Trail1
<1>5. Trail1(log, m) /\ At(longer, Len(longer), m, "VERIFIED")
        => Trail2(longer, m)
  BY <1>1, <1>2, <1>3 DEF Trail1, Trail2
<1>6. Trail2(log, m) /\ At(longer, Len(longer), m, "QUALIFIED")
        => Trail3(longer, m)
  BY <1>1, <1>2, <1>3 DEF Trail2, Trail3
<1>7. Trail3(log, m) /\ At(longer, Len(longer), m, "AUTHORIZED")
        => Trail4(longer, m)
  BY <1>1, <1>2, <1>3 DEF Trail3, Trail4
<1>8. Trail4(log, m) /\ At(longer, Len(longer), m, "ACTIVE")
        => Trail5(longer, m)
  BY <1>1, <1>2, <1>3 DEF Trail4, Trail5
<1> QED
  BY <1>4, <1>5, <1>6, <1>7, <1>8

\* What Log does to the audit log.
LEMMA LogExtends ==
  ASSUME TypeOK, NEW m, NEW event, NEW previous, NEW resulting, NEW res,
         Log(m, event, previous, resulting, res)
  PROVE  /\ Extends(audit, audit') /\ Len(audit) < Len(audit')
         /\ At(audit', Len(audit'), m, event)
<1>. DEFINE entry == LogEntry(nextSequence, m, event, previous, resulting, res)
<1>1. audit' = Append(audit, entry) /\ audit \in Seq(Entry)
  BY DEF Log, TypeOK
<1>2. entry.id = m /\ entry.event = event
  BY DEF LogEntry
<1>. HIDE DEF entry
<1>3. Len(audit) \in Nat /\ Len(audit') = Len(audit) + 1
  BY <1>1
<1>4. \A i \in 1..Len(audit) : audit'[i] = audit[i]
  BY <1>1
<1>5. audit'[Len(audit')] = entry
  BY <1>1, <1>3
<1> QED
  BY <1>2, <1>3, <1>4, <1>5 DEF Extends, At

LEMMA SameExtends ==
  ASSUME TypeOK, UNCHANGED audit
  PROVE  Extends(audit, audit')
BY DEF TypeOK, Extends

LEMMA LogIfRoomExtends ==
  ASSUME TypeOK, NEW m, NEW event, NEW previous, NEW resulting, NEW res,
         LogIfRoom(m, event, previous, resulting, res)
  PROVE  Extends(audit, audit')
BY LogExtends, SameExtends DEF LogIfRoom, NoLog

\* A record that keeps its standing stays on record.
LEMMA KeptOnRecord ==
  ASSUME NEW old, NEW new, NEW log, NEW longer, NEW m,
         Kept(old, new), Extends(log, longer), OnRecord(old, log, m)
  PROVE  OnRecord(new, longer, m)
BY TrailsStay DEF Kept, OnRecord

\* What is left to show of a call on m.
Records(m) == Extends(audit, audit') /\ OnRecord(module'[m], audit', m)

LEMMA RefuseRecords ==
  ASSUME TypeOK, Recorded, NEW res, NEW m \in Module, Refuse(res)
  PROVE  Records(m)
BY SameExtends DEF Refuse, Recorded, Records

LEMMA RefuseUnlessRecords ==
  ASSUME TypeOK, Recorded, NEW m \in Module, NEW wanted, NEW otherwise,
         RefuseUnless(m, wanted, otherwise)
  PROVE  Records(m)
BY RefuseRecords DEF RefuseUnless

LEMMA DiscoverRecords ==
  ASSUME TypeOK, Recorded, NEW b \in Binary, Discover(b)
  PROVE  Records(b.id)
<1>1. b.id \in Module
  BY BinaryAssumption
<1>2. CASE Refuse(DiscoverRefusal(b))
  BY <1>1, <1>2, RefuseRecords
<1>3. CASE /\ module' = [module EXCEPT ![b.id] = NewRecord(b)]
           /\ Log(b.id, "DISCOVERED", "DISCOVERED", "DISCOVERED", "OK")
  <2>1. module'[b.id].state = "DISCOVERED"
    BY <1>1, <1>3 DEF TypeOK, NewRecord
  <2>2. Extends(audit, audit') /\ Trail1(audit', b.id)
    BY <1>3, LogExtends, TrailsGrow
  <2> QED
    BY <2>1, <2>2 DEF Records, OnRecord
<1> QED
  BY <1>1, <1>2, <1>3 DEF Discover

LEMMA VerifyRecords ==
  ASSUME TypeOK, Recorded, NEW m \in Module, Verify(m)
  PROVE  Records(m)
<1>0. OnRecord(module[m], audit, m)
  BY DEF Recorded
<1>1. CASE RefuseUnless(m, "DISCOVERED", "INVALID_STATE")
  BY <1>1, RefuseUnlessRecords
<1>2. CASE /\ module' = [module EXCEPT ![m].state = "FAILED"]
           /\ LogIfRoom(m, "FAILED", "DISCOVERED", "FAILED",
                        VerifyFailure(module[m].binary))
  <2>1. module'[m].state = "FAILED"
    BY <1>2 DEF TypeOK, Record
  <2>2. Extends(audit, audit')
    BY <1>2, LogIfRoomExtends
  <2> QED
    BY <2>1, <2>2 DEF Records, OnRecord
<1>3. CASE /\ StateOf(m) = "DISCOVERED"
           /\ module' = [module EXCEPT ![m].state = "UNVERIFIED"]
           /\ Log(m, "VERIFIED", "DISCOVERED", "UNVERIFIED", "OK")
  <2>1. module'[m].state = "UNVERIFIED"
    BY <1>3 DEF TypeOK, Record
  <2>2. Trail1(audit, m)
    BY <1>0, <1>3 DEF OnRecord
  <2>3. Extends(audit, audit') /\ Trail2(audit', m)
    BY <1>3, <2>2, LogExtends, TrailsGrow
  <2> QED
    BY <2>1, <2>3 DEF Records, OnRecord
<1>4. CASE UNCHANGED module /\ NoLog
  BY <1>0, <1>4, SameExtends DEF NoLog, Records
<1> QED
  BY <1>1, <1>2, <1>3, <1>4 DEF Verify

(***************************************************************************)
(* A qualification that passes puts two entries on the log, of which the   *)
(* second one counts; one that fails leaves a FAILED module.               *)
(***************************************************************************)
LEMMA QualifyRecords ==
  ASSUME TypeOK, Soundness, Recorded, NEW m \in Module,
         NEW report \in Report, NEW returned, Qualify(m, report, returned)
  PROVE  Records(m)
<1>0. OnRecord(module[m], audit, m) /\ Sound(module[m])
  BY DEF Recorded, Soundness
<1>1. CASE RefuseUnless(m, "UNVERIFIED", "INVALID_STATE")
  BY <1>1, RefuseUnlessRecords
<1>2. CASE Refuse("AUDIT_FULL")
  BY <1>2, RefuseRecords
<1>3. CASE /\ ~RefuseUnless(m, "UNVERIFIED", "INVALID_STATE")
           /\ ~Refuse("AUDIT_FULL")
  <2>. DEFINE passed  == returned = "OK" /\ ValidReport(report)
              room    == Len(audit) + 1 < AuditMax
              final   == IF passed /\ room THEN "QUALIFIED" ELSE "FAILED"
              outcome == IF passed THEN "OK" ELSE "QUALIFICATION"
              testing == LogEntry(nextSequence, m, "TESTING", "UNVERIFIED",
                                  "TESTING", "OK")
              second  == LogEntry(nextSequence + 1, m, final, "TESTING",
                                  final, outcome)
              rec     == [module[m] EXCEPT !.state = final,
                            !.qualification = report,
                            !.authorized = passed /\ module[m].authorized]
  <2>1. /\ StateOf(m) = "UNVERIFIED"
        /\ module' = [module EXCEPT ![m] = rec]
        /\ audit' = Append(audit, testing)
                      \o (IF room THEN <<second>> ELSE << >>)
    BY <1>3 DEF Qualify
  <2>2. audit \in Seq(Entry) /\ Len(audit) \in Nat
    BY DEF TypeOK
  <2>3. second.id = m /\ second.event = final
    BY DEF LogEntry
  <2>4. /\ module'[m].state = final
        /\ module'[m].authorized = (passed /\ module[m].authorized)
    BY <2>1 DEF TypeOK, Record
  <2>. HIDE DEF testing, second, rec
  <2>5. Extends(audit, audit')
    BY <2>1, <2>2 DEF Extends
  <2>6. CASE ~(passed /\ room)
    <3>1. module'[m].state = "FAILED"
      BY <2>4, <2>6
    <3> QED
      BY <2>5, <3>1 DEF Records, OnRecord
  <2>7. CASE passed /\ room
    <3>1. module'[m].state = "QUALIFIED" /\ second.event = "QUALIFIED"
      BY <2>3, <2>4, <2>7
    <3>2. module'[m].authorized # TRUE
      <4>1. ~module[m].authorized
        BY <1>0, <2>1 DEF Sound
      <4> QED
        BY <2>4, <4>1
    <3>3. audit' = Append(audit, testing) \o <<second>>
      BY <2>1, <2>7
    <3>4. Len(audit) < Len(audit') /\ audit'[Len(audit')] = second
      BY <2>2, <3>3
    <3>5. At(audit', Len(audit'), m, "QUALIFIED")
      BY <2>2, <2>3, <2>5, <3>1, <3>4 DEF At, Extends
    <3>6. Trail2(audit, m)
      BY <1>0, <2>1 DEF OnRecord
    <3>7. Trail3(audit', m)
      BY <2>5, <3>4, <3>5, <3>6, TrailsGrow
    <3> QED
      BY <2>5, <3>1, <3>2, <3>7 DEF Records, OnRecord
  <2> QED
    BY <2>6, <2>7
<1> QED
  BY <1>1, <1>2, <1>3

LEMMA RestoreRecords ==
  ASSUME TypeOK, Recorded, NEW m \in Module, NEW report \in Report,
         Restore(m, report)
  PROVE  Records(m)
<1>0. OnRecord(module[m], audit, m)
  BY DEF Recorded
<1>1. CASE RefuseUnless(m, "UNVERIFIED", "INVALID_STATE")
  BY <1>1, RefuseUnlessRecords
<1>2. CASE Refuse("QUALIFICATION")
  BY <1>2, RefuseRecords
<1>3. CASE /\ StateOf(m) = "UNVERIFIED"
           /\ module' = [module EXCEPT ![m] =
                [@ EXCEPT !.state = "QUALIFIED", !.qualification = report,
                          !.authorized = FALSE]]
           /\ Log(m, "QUALIFIED", "UNVERIFIED", "QUALIFIED", "OK")
  <2>1. module'[m].state = "QUALIFIED" /\ module'[m].authorized = FALSE
    BY <1>3 DEF TypeOK, Record
  <2>2. Trail2(audit, m)
    BY <1>0, <1>3 DEF OnRecord
  <2>3. Extends(audit, audit') /\ Trail3(audit', m)
    BY <1>3, <2>2, LogExtends, TrailsGrow
  <2> QED
    BY <2>1, <2>3 DEF Records, OnRecord
<1>4. CASE /\ StateOf(m) = "UNVERIFIED"
           /\ module' = [module EXCEPT ![m] =
                [@ EXCEPT !.qualification = NoReport, !.authorized = FALSE]]
           /\ NoLog
  <2>1. module'[m].state = "UNVERIFIED"
    BY <1>4 DEF TypeOK, Record
  <2>2. Extends(audit, audit') /\ Trail2(audit', m)
    BY <1>0, <1>4, SameExtends, TrailsStay DEF NoLog, OnRecord
  <2> QED
    BY <2>1, <2>2 DEF Records, OnRecord
<1> QED
  BY <1>1, <1>2, <1>3, <1>4 DEF Restore

LEMMA AuthorizeRecords ==
  ASSUME TypeOK, Recorded, NEW m \in Module, Authorize(m)
  PROVE  Records(m)
<1>0. OnRecord(module[m], audit, m)
  BY DEF Recorded
<1>1. CASE RefuseUnless(m, "QUALIFIED", "NOT_QUALIFIED")
  BY <1>1, RefuseUnlessRecords
<1>2. CASE /\ StateOf(m) = "QUALIFIED"
           /\ module' = [module EXCEPT ![m].authorized = ~AuditFull]
           /\ LogIfRoom(m, "AUTHORIZED", "QUALIFIED", "QUALIFIED", "OK")
  <2>1. /\ module'[m].state = "QUALIFIED"
        /\ module'[m].authorized = ~AuditFull
    BY <1>2 DEF TypeOK, Record
  <2>2. Trail3(audit, m)
    BY <1>0, <1>2 DEF OnRecord
  <2>3. CASE AuditFull
    <3>1. module'[m].authorized = FALSE
      BY <2>1, <2>3
    <3>2. Extends(audit, audit') /\ Trail3(audit', m)
      BY <1>2, <2>2, LogIfRoomExtends, TrailsStay
    <3> QED
      BY <2>1, <3>1, <3>2 DEF Records, OnRecord
  <2>4. CASE ~AuditFull
    <3>1. Log(m, "AUTHORIZED", "QUALIFIED", "QUALIFIED", "OK")
      BY <1>2, <2>4 DEF LogIfRoom
    <3>2. Extends(audit, audit') /\ Trail3(audit', m) /\ Trail4(audit', m)
      BY <2>2, <3>1, LogExtends, TrailsGrow, TrailsStay
    <3> QED
      BY <2>1, <3>2 DEF Records, OnRecord
  <2> QED
    BY <2>3, <2>4
<1> QED
  BY <1>1, <1>2 DEF Authorize

LEMMA ActivateRecords ==
  ASSUME TypeOK, Recorded, NEW m \in Module, Activate(m)
  PROVE  Records(m)
<1>0. OnRecord(module[m], audit, m)
  BY DEF Recorded
<1>1. CASE RefuseUnless(m, "QUALIFIED", "NOT_QUALIFIED")
  BY <1>1, RefuseUnlessRecords
<1>2. CASE Refuse("NOT_AUTHORIZED") \/ Refuse("AUDIT_FULL")
  BY <1>2, RefuseRecords
<1>3. CASE /\ StateOf(m) = "QUALIFIED" /\ module[m].authorized
           /\ module' = [module EXCEPT ![m].state = "ACTIVE"]
           /\ Log(m, "ACTIVE", "QUALIFIED", "ACTIVE", "OK")
  <2>1. module'[m].state = "ACTIVE"
    BY <1>3 DEF TypeOK, Record
  <2>2. module[m].authorized = TRUE
    BY <1>3 DEF TypeOK, Record
  <2>3. Trail4(audit, m)
    BY <1>0, <1>3, <2>2 DEF OnRecord
  <2>4. Extends(audit, audit') /\ Trail5(audit', m)
    BY <1>3, <2>3, LogExtends, TrailsGrow
  <2> QED
    BY <2>1, <2>4 DEF Records, OnRecord
<1> QED
  BY <1>1, <1>2, <1>3 DEF Activate

LEMMA RetireRecords ==
  ASSUME TypeOK, Recorded, NEW m \in Module, NEW state \in Retired,
         Retire(m, state)
  PROVE  Records(m)
<1>1. CASE Refuse("NOT_FOUND")
  BY <1>1, RefuseRecords
<1>2. CASE /\ module' = [module EXCEPT ![m] =
                [@ EXCEPT !.state = state, !.authorized = FALSE]]
           /\ LogIfRoom(m, state, StateOf(m), state, "OK")
  <2>1. module'[m].state \in Retired
    BY <1>2 DEF TypeOK, Record
  <2>2. Extends(audit, audit')
    BY <1>2, LogIfRoomExtends
  <2> QED
    BY <2>1, <2>2 DEF Records, OnRecord, Retired
<1> QED
  BY <1>1, <1>2 DEF Retire

LEMMA RecordedStep ==
  ASSUME TypeOK, Soundness, Recorded, [Next]_vars
  PROVE  Recorded'
<1>1. ASSUME NEW m \in Module, Touches(m), Records(m)
      PROVE  Recorded'
  BY <1>1, KeptOnRecord DEF Touches, Records, Recorded
<1>2. ASSUME NEW b \in Binary, Discover(b) PROVE Recorded'
  BY <1>1, <1>2, DiscoverTouches, DiscoverRecords
<1>3. ASSUME NEW m \in Module, Verify(m) PROVE Recorded'
  BY <1>1, <1>3, VerifyTouches, VerifyRecords
<1>4. ASSUME NEW m \in Module, NEW report \in Report,
             NEW returned \in {"OK", "QUALIFICATION"},
             Qualify(m, report, returned)
      PROVE  Recorded'
  BY <1>1, <1>4, QualifyTouches, QualifyRecords
<1>5. ASSUME NEW m \in Module, NEW report \in Report, Restore(m, report)
      PROVE  Recorded'
  BY <1>1, <1>5, RestoreTouches, RestoreRecords
<1>6. ASSUME NEW m \in Module, Authorize(m) PROVE Recorded'
  BY <1>1, <1>6, AuthorizeTouches, AuthorizeRecords
<1>7. ASSUME NEW m \in Module, Activate(m) PROVE Recorded'
  BY <1>1, <1>7, ActivateTouches, ActivateRecords
<1>8. ASSUME NEW m \in Module, Fail(m) \/ Quarantine(m) PROVE Recorded'
  BY <1>1, <1>8, RetireTouches, RetireRecords DEF Fail, Quarantine, Retired
<1>9. ASSUME \A n \in Module : Kept(module[n], module'[n]), UNCHANGED audit
      PROVE  Recorded'
  BY <1>9, KeptOnRecord, SameExtends DEF Recorded
<1>10. CASE UnloadAll
  BY <1>9, <1>10 DEF UnloadAll, Kept, TypeOK, Record
<1>11. CASE UNCHANGED vars
  BY <1>9, <1>11 DEF vars, Kept
<1> QED
  BY <1>2, <1>3, <1>4, <1>5, <1>6, <1>7, <1>8, <1>10, <1>11 DEF Next

LEMMA InitRecorded == Init => Recorded
<1>1. EmptyRecord.state = "ABSENT"
  BY DEF EmptyRecord
<1> QED
  BY <1>1 DEF Init, Recorded, OnRecord

\* The log of an ACTIVE module holds its discovery, verification,
\* qualification, authorisation and activation in this order, for every size
\* of the log and every interleaving with the calls on other modules.
THEOREM ActivationIsOnRecord == Spec => []ActiveIsOnRecord
<1>1. Init => TypeOK /\ Soundness /\ Recorded
  BY InitType, InitSound, InitRecorded
<1>2. TypeOK /\ Soundness /\ Recorded /\ [Next]_vars
        => TypeOK' /\ Soundness' /\ Recorded'
  BY NextType, SoundnessStep, RecordedStep
<1>3. Recorded => ActiveIsOnRecord
  BY DEF Recorded, OnRecord, Trail5, At, ActiveIsOnRecord, Logged
<1> QED
  BY <1>1, <1>2, <1>3, PTL DEF Spec

-----------------------------------------------------------------------------
(***************************************************************************)
(* Errors grant nothing. A call that reports an error is shown to leave    *)
(* each record with a rank that is no higher, transition by transition.    *)
(***************************************************************************)

\* The transitions that a call which reports an error can make.
NotRaised(old, new) ==
  \/ new.state = old.state /\ (new.authorized => old.authorized)
  \/ new.state \in Retired

LEMMA RankCases ==
  ASSUME NEW r \in Record
  PROVE  /\ r.state \in Retired \cup {"ABSENT"} => RankOf(r) = 0
         /\ r.state = "DISCOVERED" => RankOf(r) = 1
         /\ r.state \in {"UNVERIFIED", "TESTING"} => RankOf(r) = 2
         /\ r.state = "QUALIFIED" =>
              RankOf(r) = IF r.authorized THEN 4 ELSE 3
         /\ r.state = "ACTIVE" => RankOf(r) = 5
BY DEF RankOf, Retired

LEMMA NotRaisedRank ==
  ASSUME NEW old \in Record, NEW new \in Record, NotRaised(old, new)
  PROVE  RankOf(new) <= RankOf(old)
<1>0. old.state \in State /\ new.state \in State
  BY DEF Record
<1>1. RankOf(old) \in 0..5 /\ RankOf(new) \in 0..5
  BY <1>0, RankCases DEF State, Retired
<1>2. CASE new.state \in Retired
  BY <1>1, <1>2, RankCases
<1>3. CASE new.state = old.state /\ (new.authorized => old.authorized)
  BY <1>0, <1>1, <1>3, RankCases DEF State, Retired
<1> QED BY <1>2, <1>3 DEF NotRaised

\* The record m is not raised, the others are left alone.
LEMMA UpdateNotRaised ==
  ASSUME TypeOK, NEW m \in Module, NEW rec,
         module' = [module EXCEPT ![m] = rec], NotRaised(module[m], rec)
  PROVE  \A n \in Module : NotRaised(module[n], module'[n])
BY DEF TypeOK, NotRaised

LEMMA RefuseNotRaised ==
  ASSUME NEW res, Refuse(res)
  PROVE  \A n \in Module : NotRaised(module[n], module'[n])
BY DEF Refuse, NotRaised

LEMMA ErrorRaisesNothing ==
  ASSUME TypeOK, [Next]_vars, result' # "OK"
  PROVE  \A n \in Module : NotRaised(module[n], module'[n])
<1> DEFINE Goal == \A n \in Module : NotRaised(module[n], module'[n])
<1> SUFFICES Goal
  OBVIOUS
<1>1. \A m \in Module : module[m] \in Record
  BY DEF TypeOK
<1>2. CASE UNCHANGED module
  BY <1>2 DEF NotRaised
<1>3. ASSUME NEW b \in Binary, Discover(b) PROVE Goal
  BY <1>3, RefuseNotRaised DEF Discover
<1>4. ASSUME NEW m \in Module, Verify(m) PROVE Goal
  <2>1. CASE module' = [module EXCEPT ![m].state = "FAILED"]
    <3> DEFINE rec == [module[m] EXCEPT !.state = "FAILED"]
    <3>1. NotRaised(module[m], rec)
      BY <1>1 DEF NotRaised, Retired, Record
    <3> QED BY <2>1, <3>1, UpdateNotRaised
  <2> QED BY <1>2, <1>4, <2>1 DEF Verify, RefuseUnless, Refuse
<1>5. ASSUME NEW m \in Module, NEW report \in Report,
             NEW returned \in {"OK", "QUALIFICATION"},
             Qualify(m, report, returned)
      PROVE  Goal
  <2> DEFINE passed == returned = "OK" /\ ValidReport(report)
             room   == Len(audit) + 1 < AuditMax
             rec    == [module[m] EXCEPT !.state = "FAILED",
                          !.qualification = report,
                          !.authorized = passed /\ module[m].authorized]
  <2>1. CASE ~UNCHANGED module
    <3>1. /\ module' = [module EXCEPT ![m] =
                [module[m] EXCEPT
                   !.state = IF passed /\ room THEN "QUALIFIED" ELSE "FAILED",
                   !.qualification = report,
                   !.authorized = passed /\ module[m].authorized]]
          /\ ~(passed /\ room)
      BY <1>5, <2>1 DEF Qualify, RefuseUnless, Refuse
    <3>2. module' = [module EXCEPT ![m] = rec]
      BY <3>1
    <3>3. NotRaised(module[m], rec)
      BY <1>1 DEF NotRaised, Retired, Record
    <3> HIDE DEF rec
    <3> QED BY <3>2, <3>3, UpdateNotRaised
  <2> QED BY <1>2, <2>1
<1>6. ASSUME NEW m \in Module, NEW report \in Report, Restore(m, report)
      PROVE  Goal
  <2> DEFINE rec == [module[m] EXCEPT !.qualification = NoReport,
                                      !.authorized = FALSE]
  <2>1. CASE module' = [module EXCEPT ![m] = rec]
    <3>1. NotRaised(module[m], rec)
      BY <1>1 DEF NotRaised, Record
    <3> HIDE DEF rec
    <3> QED BY <2>1, <3>1, UpdateNotRaised
  <2> QED BY <1>2, <1>6, <2>1 DEF Restore, RefuseUnless, Refuse
<1>7. ASSUME NEW m \in Module, Authorize(m) PROVE Goal
  <2> DEFINE rec == [module[m] EXCEPT !.authorized = FALSE]
  <2>1. CASE AuditFull /\ module' = [module EXCEPT ![m].authorized = FALSE]
    <3>1. NotRaised(module[m], rec)
      BY <1>1 DEF NotRaised, Record
    <3>2. module' = [module EXCEPT ![m] = rec]
      BY <2>1
    <3> HIDE DEF rec
    <3> QED BY <3>1, <3>2, UpdateNotRaised
  <2>2. CASE UNCHANGED module
    BY <1>2, <2>2
  <2> QED BY <1>7, <2>1, <2>2 DEF Authorize, RefuseUnless, Refuse
<1>8. ASSUME NEW m \in Module, Activate(m) PROVE Goal
  BY <1>2, <1>8 DEF Activate, RefuseUnless, Refuse
<1>9. ASSUME NEW m \in Module, NEW state \in Retired, Retire(m, state)
      PROVE  Goal
  <2> DEFINE rec == [module[m] EXCEPT !.state = state, !.authorized = FALSE]
  <2>1. CASE module' = [module EXCEPT ![m] = rec]
    <3>1. NotRaised(module[m], rec)
      BY <1>1 DEF NotRaised, Record
    <3> HIDE DEF rec
    <3> QED BY <2>1, <3>1, UpdateNotRaised
  <2> QED BY <1>2, <1>9, <2>1 DEF Retire, Refuse
<1>10. CASE UnloadAll
  <2>1. \A n \in Module : /\ module'[n].state = module[n].state
                          /\ module'[n].authorized = module[n].authorized
    BY <1>1, <1>10 DEF UnloadAll, Record
  <2> QED BY <2>1 DEF NotRaised
<1> QED
  BY <1>2, <1>3, <1>4, <1>5, <1>6, <1>7, <1>8, <1>9, <1>10
  DEF Next, vars, Fail, Quarantine, Retired

\* No call that reports an error raises the standing of a module.
THEOREM ErrorsGrantNothing == Spec => ErrorGrantsNothing
<1>1. ASSUME TypeOK, TypeOK', [Next]_vars
      PROVE  [result' # "OK" => \A m \in Module : Rank(m)' <= Rank(m)]_vars
  <2> SUFFICES ASSUME result' # "OK", NEW m \in Module
               PROVE  Rank(m)' <= Rank(m)
    OBVIOUS
  <2>1. module[m] \in Record /\ module'[m] \in Record
    BY <1>1 DEF TypeOK
  <2>2. RankOf(module'[m]) <= RankOf(module[m])
    BY <1>1, <2>1, ErrorRaisesNothing, NotRaisedRank
  <2> QED BY <2>2 DEF Rank
<1> QED BY <1>1, TypeCorrect, PTL DEF Spec, ErrorGrantsNothing

-----------------------------------------------------------------------------
(***************************************************************************)
(* The audit log replays to the registry. For each module the log is a     *)
(* chain that ends in the module's state; a call extends the chain of its  *)
(* module by an entry that starts there, or retires the module while the   *)
(* log is full. The inductive invariant is Replays.                        *)
(***************************************************************************)

\* The entries of a module.
Of(log, m) == {i \in 1..Len(log) : log[i].id = m}

\* Each entry of m is followed by one that starts where it ended, and the
\* last one ends in one of the states ends.
Chained(log, m, ends) ==
  \A i \in Of(log, m) :
    LET later == {j \in Of(log, m) : j > i} IN
    \/ /\ later = {}
       /\ log[i].resulting \in ends
    \/ \E j \in later : /\ \A k \in later : j <= k
                        /\ log[j].previous = log[i].resulting

\* Where the chain of a module ends that is in state: there, or anywhere
\* when the log was full as the module was retired.
Ends(log, state) ==
  IF Len(log) >= AuditMax /\ state \in Retired THEN State ELSE {state}

Numbered(log) == \A i \in 1..Len(log) : log[i].sequence = i

ReplaysTo(log, next, state) ==
  /\ Numbered(log) /\ next = Len(log) + 1
  /\ \A m \in Module :
       /\ (state[m] # "ABSENT") <=> (Of(log, m) # {})
       /\ Chained(log, m, Ends(log, state[m]))

states == [m \in Module |-> StateOf(m)]

Replays == ReplaysTo(audit, nextSequence, states)

\* An entry that starts where the chain ends makes it one longer.
LEMMA ChainGrows ==
  ASSUME NEW log \in Seq(Entry), NEW e \in Entry,
         Chained(log, e.id, {e.previous})
  PROVE  Chained(Append(log, e), e.id, {e.resulting})
<1> DEFINE t == Append(log, e)
           n == Len(log)
           m == e.id
<1>1. /\ n \in Nat /\ Len(t) = n + 1 /\ t[n + 1] = e
      /\ \A i \in 1..n : t[i] = log[i]
  OBVIOUS
<1> HIDE DEF t
<1>2. Of(t, m) = Of(log, m) \cup {n + 1}
  BY <1>1 DEF Of
<1>3. \A i \in Of(log, m) : i \in 1..n
  BY DEF Of
<1>4. CASE Of(log, m) = {}
  <2>1. Of(t, m) = {n + 1}
    BY <1>2, <1>4
  <2> QED BY <1>1, <2>1 DEF Chained, t
<1>5. CASE Of(log, m) # {}
  <2> SUFFICES ASSUME NEW i \in Of(t, m)
               PROVE  LET later == {j \in Of(t, m) : j > i} IN
                      \/ /\ later = {}
                         /\ t[i].resulting \in {e.resulting}
                      \/ \E j \in later :
                           /\ \A k \in later : j <= k
                           /\ t[j].previous = t[i].resulting
    BY DEF Chained, t
  <2> DEFINE later == {j \in Of(t, m) : j > i}
             before == {j \in Of(log, m) : j > i}
  <2>1. CASE i = n + 1
    <3>1. \A j \in Of(t, m) : j \in Nat /\ j <= n + 1
      BY <1>1, <1>2, <1>3
    <3>2. ASSUME NEW j \in Of(t, m), j > i PROVE FALSE
      BY <1>1, <2>1, <3>1, <3>2
    <3>3. later = {}
      BY <3>2
    <3> QED BY <1>1, <2>1, <3>3
  <2>2. CASE i \in Of(log, m) /\ before = {}
    <3>1. i \in 1..n /\ later = {n + 1}
      BY <1>1, <1>2, <1>3, <2>2
    <3>2. log[i].resulting = e.previous
      BY <2>2 DEF Chained
    <3>3. n + 1 \in later /\ \A k \in later : n + 1 <= k
      BY <1>1, <3>1
    <3> HIDE DEF later
    <3> QED BY <1>1, <3>1, <3>2, <3>3 DEF later
  <2>3. CASE i \in Of(log, m) /\ before # {}
    <3>1. PICK j \in before : /\ \A k \in before : j <= k
                              /\ log[j].previous = log[i].resulting
      BY <2>3 DEF Chained
    <3>2. j \in 1..n /\ i \in 1..n /\ j \in later
      BY <1>2, <1>3, <2>3, <3>1
    <3>3. ASSUME NEW k \in later PROVE j <= k
      <4>1. CASE k = n + 1
        BY <1>1, <3>2, <4>1
      <4>2. CASE k \in before
        BY <3>1, <4>2
      <4> QED BY <1>2, <4>1, <4>2
    <3>4. t[j].previous = t[i].resulting
      BY <1>1, <3>1, <3>2
    <3> QED BY <3>2, <3>3, <3>4
  <2> QED BY <1>2, <2>1, <2>2, <2>3
<1> QED BY <1>4, <1>5

\* The entry of another module leaves the chain as it is.
LEMMA ChainStays ==
  ASSUME NEW log \in Seq(Entry), NEW e \in Entry, NEW m, m # e.id,
         NEW ends, Chained(log, m, ends)
  PROVE  /\ Of(Append(log, e), m) = Of(log, m)
         /\ Chained(Append(log, e), m, ends)
<1> DEFINE t == Append(log, e)
<1>1. /\ Len(log) \in Nat /\ Len(t) = Len(log) + 1 /\ t[Len(log) + 1] = e
      /\ \A i \in 1..Len(log) : t[i] = log[i]
  OBVIOUS
<1> HIDE DEF t
<1>2. Of(t, m) = Of(log, m)
  BY <1>1 DEF Of
<1>3. \A i \in Of(log, m) : t[i] = log[i]
  BY <1>1 DEF Of
<1>4. Chained(t, m, ends)
  <2> SUFFICES ASSUME NEW i \in Of(log, m)
               PROVE  LET later == {j \in Of(log, m) : j > i} IN
                      \/ /\ later = {}
                         /\ t[i].resulting \in ends
                      \/ \E j \in later :
                           /\ \A k \in later : j <= k
                           /\ t[j].previous = t[i].resulting
    BY <1>2 DEF Chained
  <2> QED BY <1>3 DEF Chained
<1> QED BY <1>2, <1>4 DEF t

LEMMA ChainLoosens ==
  ASSUME NEW log, NEW m, NEW ends, NEW wider, Chained(log, m, ends),
         ends \subseteq wider
  PROVE  Chained(log, m, wider)
BY DEF Chained

LEMMA NumberedGrows ==
  ASSUME NEW log \in Seq(Entry), NEW e \in Entry, Numbered(log),
         e.sequence = Len(log) + 1
  PROVE  Numbered(Append(log, e))
BY DEF Numbered

LEMMA EntryReplays ==
  ASSUME NEW log \in Seq(Entry), NEW next \in Nat,
         NEW state \in [Module -> State], ReplaysTo(log, next, state),
         Len(log) < AuditMax, NEW e \in Entry, e.sequence = next,
         state[e.id] \in {"ABSENT", e.previous},
         e.resulting # "ABSENT"
  PROVE  ReplaysTo(Append(log, e), next + 1,
                   [state EXCEPT ![e.id] = e.resulting])
<1> DEFINE m == e.id
           t == Append(log, e)
           new == [state EXCEPT ![m] = e.resulting]
<1>1. /\ Len(log) \in Nat /\ Len(t) = Len(log) + 1 /\ m \in Module
      /\ t[Len(log) + 1] = e /\ AuditMax \in Nat
  BY LimitAssumption DEF Entry
<1>2. Numbered(t) /\ next + 1 = Len(t) + 1
  BY <1>1, NumberedGrows DEF ReplaysTo
<1>3. new[m] = e.resulting /\ \A n \in Module \ {m} : new[n] = state[n]
  BY <1>1
<1>4. Chained(log, m, {e.previous})
  <2>1. CASE state[m] = "ABSENT"
    <3>1. Of(log, m) = {}
      BY <1>1, <2>1 DEF ReplaysTo
    <3> QED BY <3>1 DEF Chained
  <2>2. CASE state[m] = e.previous
    <3>1. Chained(log, m, Ends(log, e.previous))
      BY <1>1, <2>2 DEF ReplaysTo
    <3>2. Ends(log, e.previous) = {e.previous}
      BY <1>1 DEF Ends
    <3> QED BY <3>1, <3>2
  <2> QED BY <2>1, <2>2
<1>5. Chained(t, m, {e.resulting})
  BY <1>4, ChainGrows
<1>6. Len(log) + 1 \in Of(t, m)
  BY <1>1 DEF Of
<1> HIDE DEF t, new
<1>7. ASSUME NEW n \in Module
      PROVE  /\ (new[n] # "ABSENT") <=> (Of(t, n) # {})
             /\ Chained(t, n, {new[n]})
  <2>1. CASE n = m
    BY <1>3, <1>5, <1>6, <2>1
  <2>2. CASE n # m
    <3>1. /\ (state[n] # "ABSENT") <=> (Of(log, n) # {})
          /\ Chained(log, n, Ends(log, state[n]))
      BY DEF ReplaysTo
    <3>2. Ends(log, state[n]) = {state[n]}
      BY <1>1 DEF Ends
    <3>3. Chained(log, n, {state[n]})
      BY <3>1, <3>2
    <3>4. Of(t, n) = Of(log, n) /\ Chained(t, n, {state[n]})
      BY <2>2, <3>3, ChainStays DEF t
    <3> QED BY <1>3, <2>2, <3>1, <3>4
  <2> QED BY <2>1, <2>2
<1>8. ASSUME NEW n \in Module
      PROVE  Chained(t, n, Ends(t, new[n]))
  <2>1. new[n] \in State
    BY <1>1, <1>3 DEF Entry
  <2>2. {new[n]} \subseteq Ends(t, new[n])
    BY <2>1 DEF Ends
  <2> QED BY <1>7, <2>2, ChainLoosens
<1>9. ReplaysTo(t, next + 1, new)
  BY <1>2, <1>7, <1>8 DEF ReplaysTo
<1> QED BY <1>9 DEF t, new

LEMMA RetirementReplays ==
  ASSUME NEW log \in Seq(Entry), NEW next, NEW state \in [Module -> State],
         ReplaysTo(log, next, state), Len(log) >= AuditMax,
         NEW m \in Module, state[m] # "ABSENT", NEW new \in Retired
  PROVE  ReplaysTo(log, next, [state EXCEPT ![m] = new])
<1> DEFINE after == [state EXCEPT ![m] = new]
<1>1. after[m] = new /\ \A n \in Module \ {m} : after[n] = state[n]
  OBVIOUS
<1> HIDE DEF after
<1>2. ASSUME NEW n \in Module
      PROVE  /\ (after[n] # "ABSENT") <=> (Of(log, n) # {})
             /\ Chained(log, n, Ends(log, after[n]))
  <2>1. Ends(log, state[n]) \subseteq Ends(log, after[n])
    BY <1>1 DEF Ends
  <2>2. /\ (state[n] # "ABSENT") <=> (Of(log, n) # {})
        /\ Chained(log, n, Ends(log, state[n]))
    BY DEF ReplaysTo
  <2>3. Chained(log, n, Ends(log, after[n]))
    BY <2>1, <2>2, ChainLoosens
  <2> QED BY <1>1, <2>2, <2>3 DEF Retired
<1>3. ReplaysTo(log, next, after)
  BY <1>2 DEF ReplaysTo
<1> QED BY <1>3 DEF after

-----------------------------------------------------------------------------
(***************************************************************************)
(* Every call replays.                                                     *)
(***************************************************************************)

\* The states, when only one record has changed.
LEMMA StatesUpdate ==
  ASSUME TypeOK, NEW m \in Module, NEW rec,
         module' = [module EXCEPT ![m] = rec]
  PROVE  states' = [states EXCEPT ![m] = rec.state]
BY DEF states, TypeOK

LEMMA StatesType ==
  ASSUME TypeOK
  PROVE  states \in [Module -> State]
BY DEF TypeOK, Record, states

\* A call that logs nothing and moves no module.
LEMMA SilentReplays ==
  ASSUME Replays, UNCHANGED <<audit, nextSequence, states>>
  PROVE  Replays'
BY DEF Replays

LEMMA RefuseReplays ==
  ASSUME Replays, NEW res, Refuse(res)
  PROVE  Replays'
BY SilentReplays DEF Refuse, states

LEMMA RefuseUnlessReplays ==
  ASSUME Replays, NEW m, NEW wanted, NEW otherwise,
         RefuseUnless(m, wanted, otherwise)
  PROVE  Replays'
BY RefuseReplays DEF RefuseUnless

\* A call that logs its transition.
LEMMA LogReplays ==
  ASSUME TypeOK, Replays, ~AuditFull, NEW m \in Module, NEW event \in Event,
         NEW previous \in State, NEW resulting \in State, NEW res \in Result,
         module[m].state \in {"ABSENT", previous}, resulting # "ABSENT",
         states' = [states EXCEPT ![m] = resulting],
         Log(m, event, previous, resulting, res)
  PROVE  Replays'
<1> DEFINE e == LogEntry(nextSequence, m, event, previous, resulting, res)
<1>1. e \in Entry /\ e.id = m /\ e.previous = previous
      /\ e.resulting = resulting /\ e.sequence = nextSequence
  BY LogEntryType DEF TypeOK, LogEntry
<1>2. audit' = Append(audit, e) /\ nextSequence' = nextSequence + 1
  BY DEF Log
<1>3. audit \in Seq(Entry) /\ nextSequence \in Nat
  BY DEF TypeOK
<1>4. Len(audit) < AuditMax
  BY <1>3, LimitAssumption DEF AuditFull
<1>5. states[m] = module[m].state
  BY DEF states
<1> HIDE DEF e
<1> QED
  BY <1>1, <1>2, <1>3, <1>4, <1>5, StatesType, EntryReplays DEF Replays

\* A call that retires a module, whether or not there is room to log it.
LEMMA RetiringReplays ==
  ASSUME TypeOK, Replays, NEW m \in Module, NEW event \in Event,
         NEW new \in Retired, NEW res \in Result, Known(m),
         states' = [states EXCEPT ![m] = new],
         LogIfRoom(m, event, module[m].state, new, res)
  PROVE  Replays'
<1>1. module[m].state \in State /\ new \in State /\ new # "ABSENT"
  BY DEF TypeOK, Record, Retired, State
<1>2. CASE ~AuditFull /\ Log(m, event, module[m].state, new, res)
  BY <1>1, <1>2, LogReplays
<1>3. CASE AuditFull /\ NoLog
  <2>1. states[m] # "ABSENT" /\ audit \in Seq(Entry) /\ Len(audit) >= AuditMax
    BY <1>3 DEF states, Known, TypeOK, AuditFull
  <2>2. ReplaysTo(audit, nextSequence, [states EXCEPT ![m] = new])
    BY <2>1, StatesType, RetirementReplays DEF Replays
  <2> QED BY <1>3, <2>2 DEF NoLog, Replays
<1> QED BY <1>2, <1>3 DEF LogIfRoom

LEMMA DiscoverReplays ==
  ASSUME TypeOK, Replays, NEW b \in Binary, Discover(b)
  PROVE  Replays'
<1>1. CASE Refuse(DiscoverRefusal(b))
  BY <1>1, RefuseReplays
<1>2. CASE ~Refuse(DiscoverRefusal(b))
  <2>1. /\ DiscoverRefusal(b) = "OK"
        /\ module' = [module EXCEPT ![b.id] = NewRecord(b)]
        /\ Log(b.id, "DISCOVERED", "DISCOVERED", "DISCOVERED", "OK")
    BY <1>2 DEF Discover
  <2>2. b.id \in Module /\ module[b.id].state = "ABSENT" /\ ~AuditFull
    BY <2>1, BinaryAssumption DEF DiscoverRefusal, Known
  <2>3. states' = [states EXCEPT ![b.id] = "DISCOVERED"]
    <3>1. NewRecord(b).state = "DISCOVERED"
      BY DEF NewRecord
    <3> QED BY <2>1, <2>2, <3>1, StatesUpdate
  <2> QED BY <2>1, <2>2, <2>3, LogReplays DEF Event, State, Result
<1> QED BY <1>1, <1>2

LEMMA VerifyReplays ==
  ASSUME TypeOK, Replays, NEW m \in Module, Verify(m)
  PROVE  Replays'
<1> DEFINE failure == VerifyFailure(module[m].binary)
<1>0. failure \in Result
  BY DEF VerifyFailure, Result
<1> HIDE DEF failure
<1>1. CASE RefuseUnless(m, "DISCOVERED", "INVALID_STATE")
  BY <1>1, RefuseUnlessReplays
<1>2. CASE /\ module[m].state = "DISCOVERED"
           /\ module' = [module EXCEPT ![m].state = "FAILED"]
           /\ LogIfRoom(m, "FAILED", "DISCOVERED", "FAILED", failure)
  <2> DEFINE rec == [module[m] EXCEPT !.state = "FAILED"]
  <2>1. module' = [module EXCEPT ![m] = rec] /\ rec.state = "FAILED"
    BY <1>2 DEF TypeOK, Record
  <2>2. states' = [states EXCEPT ![m] = "FAILED"]
    BY <2>1, StatesUpdate
  <2> QED
    BY <1>0, <1>2, <2>2, RetiringReplays DEF Known, Event, Retired
<1>3. CASE /\ module[m].state = "DISCOVERED" /\ ~AuditFull
           /\ module' = [module EXCEPT ![m].state = "UNVERIFIED"]
           /\ Log(m, "VERIFIED", "DISCOVERED", "UNVERIFIED", "OK")
  <2> DEFINE rec == [module[m] EXCEPT !.state = "UNVERIFIED"]
  <2>1. module' = [module EXCEPT ![m] = rec] /\ rec.state = "UNVERIFIED"
    BY <1>3 DEF TypeOK, Record
  <2>2. states' = [states EXCEPT ![m] = "UNVERIFIED"]
    BY <2>1, StatesUpdate
  <2> QED BY <1>3, <2>2, LogReplays DEF Event, State, Result
<1>4. CASE UNCHANGED module /\ NoLog
  BY <1>4, SilentReplays DEF NoLog, states
<1> QED BY <1>1, <1>2, <1>3, <1>4 DEF Verify, failure

LEMMA RestoreReplays ==
  ASSUME TypeOK, Replays, NEW m \in Module, NEW report \in Report,
         Restore(m, report)
  PROVE  Replays'
<1>1. CASE RefuseUnless(m, "UNVERIFIED", "INVALID_STATE")
  BY <1>1, RefuseUnlessReplays
<1>2. CASE Refuse("QUALIFICATION")
  BY <1>2, RefuseReplays
<1> DEFINE good == [module[m] EXCEPT !.state = "QUALIFIED",
                      !.qualification = report, !.authorized = FALSE]
           bad == [module[m] EXCEPT !.qualification = NoReport,
                                    !.authorized = FALSE]
<1>3. CASE /\ module[m].state = "UNVERIFIED" /\ ~AuditFull
           /\ module' = [module EXCEPT ![m] = good]
           /\ Log(m, "QUALIFIED", "UNVERIFIED", "QUALIFIED", "OK")
  <2>1. good.state = "QUALIFIED"
    BY DEF TypeOK, Record
  <2> HIDE DEF good
  <2>2. states' = [states EXCEPT ![m] = "QUALIFIED"]
    BY <1>3, <2>1, StatesUpdate
  <2> QED BY <1>3, <2>2, LogReplays DEF Event, State, Result
<1>4. CASE module' = [module EXCEPT ![m] = bad] /\ NoLog
  <2>1. bad.state = module[m].state
    BY DEF TypeOK, Record
  <2> HIDE DEF bad
  <2>2. states' = [states EXCEPT ![m] = module[m].state]
    BY <1>4, <2>1, StatesUpdate
  <2>3. states' = states
    BY <2>2 DEF states
  <2> QED BY <1>4, <2>3, SilentReplays DEF NoLog
<1> QED BY <1>1, <1>2, <1>3, <1>4 DEF Restore

LEMMA AuthorizeReplays ==
  ASSUME TypeOK, Replays, NEW m \in Module, Authorize(m)
  PROVE  Replays'
<1>1. CASE RefuseUnless(m, "QUALIFIED", "NOT_QUALIFIED")
  BY <1>1, RefuseUnlessReplays
<1>2. CASE /\ module[m].state = "QUALIFIED"
           /\ module' = [module EXCEPT ![m].authorized = ~AuditFull]
           /\ LogIfRoom(m, "AUTHORIZED", "QUALIFIED", "QUALIFIED", "OK")
  <2> DEFINE rec == [module[m] EXCEPT !.authorized = ~AuditFull]
  <2>1. module' = [module EXCEPT ![m] = rec] /\ rec.state = "QUALIFIED"
    BY <1>2 DEF TypeOK, Record
  <2> HIDE DEF rec
  <2>2. states' = [states EXCEPT ![m] = "QUALIFIED"]
    BY <2>1, StatesUpdate
  <2>3. states' = states
    BY <1>2, <2>2 DEF states
  <2>4. CASE ~AuditFull /\ Log(m, "AUTHORIZED", "QUALIFIED", "QUALIFIED", "OK")
    BY <1>2, <2>2, <2>4, LogReplays DEF Event, State, Result
  <2>5. CASE NoLog
    BY <2>3, <2>5, SilentReplays DEF NoLog
  <2> QED BY <1>2, <2>4, <2>5 DEF LogIfRoom
<1> QED BY <1>1, <1>2 DEF Authorize

LEMMA ActivateReplays ==
  ASSUME TypeOK, Replays, NEW m \in Module, Activate(m)
  PROVE  Replays'
<1>1. CASE RefuseUnless(m, "QUALIFIED", "NOT_QUALIFIED")
  BY <1>1, RefuseUnlessReplays
<1>2. CASE Refuse("NOT_AUTHORIZED") \/ Refuse("AUDIT_FULL")
  BY <1>2, RefuseReplays
<1>3. CASE /\ module[m].state = "QUALIFIED" /\ ~AuditFull
           /\ module' = [module EXCEPT ![m].state = "ACTIVE"]
           /\ Log(m, "ACTIVE", "QUALIFIED", "ACTIVE", "OK")
  <2> DEFINE rec == [module[m] EXCEPT !.state = "ACTIVE"]
  <2>1. module' = [module EXCEPT ![m] = rec] /\ rec.state = "ACTIVE"
    BY <1>3 DEF TypeOK, Record
  <2>2. states' = [states EXCEPT ![m] = "ACTIVE"]
    BY <2>1, StatesUpdate
  <2> QED BY <1>3, <2>2, LogReplays DEF Event, State, Result
<1> QED BY <1>1, <1>2, <1>3 DEF Activate

LEMMA RetireReplays ==
  ASSUME TypeOK, Replays, NEW m \in Module, NEW state \in Retired,
         Retire(m, state)
  PROVE  Replays'
<1>1. CASE Refuse("NOT_FOUND")
  BY <1>1, RefuseReplays
<1> DEFINE rec == [module[m] EXCEPT !.state = state, !.authorized = FALSE]
<1>2. CASE /\ Known(m) /\ module' = [module EXCEPT ![m] = rec]
           /\ LogIfRoom(m, state, module[m].state, state, "OK")
  <2>1. rec.state = state
    BY DEF TypeOK, Record
  <2> HIDE DEF rec
  <2>2. states' = [states EXCEPT ![m] = state]
    BY <1>2, <2>1, StatesUpdate
  <2>3. state \in Event /\ "OK" \in Result
    BY DEF Event, Retired, Result
  <2> QED BY <1>2, <2>2, <2>3, RetiringReplays
<1> QED BY <1>1, <1>2 DEF Retire

LEMMA UnloadAllReplays ==
  ASSUME TypeOK, Replays, UnloadAll
  PROVE  Replays'
<1>1. \A m \in Module : module'[m].state = module[m].state
  BY DEF UnloadAll, TypeOK, Record
<1>2. states' = states
  BY <1>1 DEF states
<1> QED BY <1>2, SilentReplays DEF UnloadAll

\* Qualify logs the start of the suite and, if there is room, its end.
LEMMA QualifyReplays ==
  ASSUME TypeOK, Replays, NEW m \in Module, NEW report \in Report,
         NEW returned, Qualify(m, report, returned)
  PROVE  Replays'
<1>1. CASE RefuseUnless(m, "UNVERIFIED", "INVALID_STATE")
  BY <1>1, RefuseUnlessReplays
<1>2. CASE Refuse("AUDIT_FULL")
  BY <1>2, RefuseReplays
<1>3. CASE /\ ~RefuseUnless(m, "UNVERIFIED", "INVALID_STATE")
           /\ ~Refuse("AUDIT_FULL")
  <2>. DEFINE passed  == returned = "OK" /\ ValidReport(report)
              room    == Len(audit) + 1 < AuditMax
              final   == IF passed /\ room THEN "QUALIFIED" ELSE "FAILED"
              outcome == IF passed THEN "OK" ELSE "QUALIFICATION"
              testing == LogEntry(nextSequence, m, "TESTING", "UNVERIFIED",
                                  "TESTING", "OK")
              second  == LogEntry(nextSequence + 1, m, final, "TESTING",
                                  final, outcome)
              rec     == [module[m] EXCEPT !.state = final,
                            !.qualification = report,
                            !.authorized = passed /\ module[m].authorized]
              half    == [states EXCEPT ![m] = "TESTING"]
  <2>1. /\ module[m].state = "UNVERIFIED" /\ ~AuditFull
        /\ module' = [module EXCEPT ![m] = rec]
        /\ audit' = Append(audit, testing)
                      \o (IF room THEN <<second>> ELSE << >>)
        /\ nextSequence' = nextSequence + (IF room THEN 2 ELSE 1)
    BY <1>3 DEF Qualify
  <2>2. /\ audit \in Seq(Entry) /\ nextSequence \in Nat
        /\ Len(audit) < AuditMax
    BY <2>1, LimitAssumption DEF TypeOK, AuditFull
  <2>3. /\ testing \in Entry /\ testing.id = m
        /\ testing.previous = "UNVERIFIED" /\ testing.resulting = "TESTING"
        /\ testing.sequence = nextSequence
    BY <2>2 DEF LogEntry, Entry, Event, State, Result
  <2>4. /\ second \in Entry /\ second.id = m
        /\ second.previous = "TESTING" /\ second.resulting = final
        /\ second.sequence = nextSequence + 1 /\ final # "ABSENT"
    BY <2>2 DEF LogEntry, Entry, Event, State, Result
  <2>5. rec.state = final
    BY DEF TypeOK, Record
  <2>. HIDE DEF testing, second, rec
  <2>6. states' = [states EXCEPT ![m] = final]
    BY <2>1, <2>5, StatesUpdate
  <2>7. states \in [Module -> State] /\ states[m] = "UNVERIFIED"
    BY <2>1, StatesType DEF states
  <2>8. ReplaysTo(Append(audit, testing), nextSequence + 1, half)
    BY <2>2, <2>3, <2>7, EntryReplays DEF Replays
  <2>9. /\ half \in [Module -> State] /\ half[m] = "TESTING"
        /\ states' = [half EXCEPT ![m] = final]
    BY <2>6, <2>7 DEF State
  <2>10. /\ Append(audit, testing) \in Seq(Entry)
         /\ Len(Append(audit, testing)) = Len(audit) + 1
    BY <2>2, <2>3
  <2>. HIDE DEF half
  <2>11. CASE room
    <3>1. /\ audit' = Append(Append(audit, testing), second)
          /\ nextSequence' = (nextSequence + 1) + 1
      BY <2>1, <2>2, <2>3, <2>11
    <3>2. nextSequence + 1 \in Nat /\ Len(Append(audit, testing)) < AuditMax
      BY <2>2, <2>10, <2>11
    <3>3. ReplaysTo(Append(Append(audit, testing), second),
                    (nextSequence + 1) + 1,
                    [half EXCEPT ![second.id] = second.resulting])
      <4> DEFINE t == Append(audit, testing)
      <4>1. t \in Seq(Entry) /\ ReplaysTo(t, nextSequence + 1, half)
        BY <2>8, <2>10
      <4>2. half[second.id] \in {"ABSENT", second.previous}
        BY <2>4, <2>9
      <4>3. second.resulting # "ABSENT"
        BY <2>4
      <4>4. half \in [Module -> State] /\ second \in Entry
            /\ second.sequence = nextSequence + 1
        BY <2>4, <2>9
      <4>. HIDE DEF t, final, room
      <4>5. ReplaysTo(Append(t, second), (nextSequence + 1) + 1,
                      [half EXCEPT ![second.id] = second.resulting])
        BY <3>2, <4>1, <4>2, <4>3, <4>4, EntryReplays DEF t
      <4> QED BY <4>5 DEF t
    <3> QED BY <2>4, <2>9, <3>1, <3>3 DEF Replays
  <2>12. CASE ~room
    <3>1. audit' = Append(audit, testing) /\ nextSequence' = nextSequence + 1
      BY <2>1, <2>2, <2>3, <2>12
    <3>2. Len(Append(audit, testing)) >= AuditMax /\ final \in Retired
      BY <2>2, <2>10, <2>12, LimitAssumption DEF Retired
    <3>3. ReplaysTo(Append(audit, testing), nextSequence + 1,
                    [half EXCEPT ![m] = final])
      <4>1. half[m] # "ABSENT"
        BY <2>9
      <4>. HIDE DEF final
      <4> QED BY <2>8, <2>9, <2>10, <3>2, <4>1, RetirementReplays
    <3> QED BY <2>9, <3>1, <3>3 DEF Replays
  <2> QED BY <2>11, <2>12
<1> QED BY <1>1, <1>2, <1>3

LEMMA ReplaysStep ==
  ASSUME TypeOK, Replays, [Next]_vars
  PROVE  Replays'
<1>1. CASE UNCHANGED vars
  BY <1>1, SilentReplays DEF vars, states
<1> QED
  BY <1>1, DiscoverReplays, VerifyReplays, QualifyReplays, RestoreReplays,
     AuthorizeReplays, ActivateReplays, RetireReplays, UnloadAllReplays
  DEF Next, Fail, Quarantine, Retired

LEMMA InitReplays == Init => Replays
<1> SUFFICES ASSUME Init PROVE Replays
  OBVIOUS
<1>1. Len(audit) = 0 /\ nextSequence = 1
  BY DEF Init
<1>2. Numbered(audit) /\ nextSequence = Len(audit) + 1
  BY <1>1 DEF Numbered
<1>3. ASSUME NEW m \in Module
      PROVE  /\ Of(audit, m) = {} /\ states[m] = "ABSENT"
             /\ Chained(audit, m, Ends(audit, states[m]))
  <2>1. Of(audit, m) = {}
    BY <1>1 DEF Of
  <2> QED BY <2>1 DEF Chained, Init, EmptyRecord, states
<1> QED BY <1>2, <1>3 DEF Replays, ReplaysTo

LEMMA ReplaysGiveAudit == Replays => AuditReplays
<1> SUFFICES ASSUME Replays PROVE AuditReplays
  OBVIOUS
<1>1. \A i \in 1..Len(audit) : audit[i].sequence = i
  BY DEF Replays, ReplaysTo, Numbered
<1>2. ASSUME NEW m \in Module
      PROVE  /\ EntriesOf(m) = Of(audit, m) /\ states[m] = module[m].state
             /\ (states[m] # "ABSENT") <=> (Of(audit, m) # {})
             /\ Chained(audit, m, Ends(audit, states[m]))
  BY DEF Replays, ReplaysTo, EntriesOf, Of, states
<1>3. \A m \in Module : Known(m) => EntriesOf(m) # {}
  BY <1>2 DEF Known
<1>4. ASSUME NEW m \in Module, NEW i \in EntriesOf(m)
      PROVE  LET later == {j \in EntriesOf(m) : j > i} IN
             \/ /\ later = {}
                /\ \/ audit[i].resulting = module[m].state
                   \/ AuditFull /\ module[m].state \in Retired
             \/ \E j \in later : /\ \A k \in later : j <= k
                                 /\ audit[j].previous = audit[i].resulting
  <2>1. \/ /\ {j \in EntriesOf(m) : j > i} = {}
           /\ audit[i].resulting \in Ends(audit, module[m].state)
        \/ \E j \in {j \in EntriesOf(m) : j > i} :
             /\ \A k \in {j2 \in EntriesOf(m) : j2 > i} : j <= k
             /\ audit[j].previous = audit[i].resulting
    BY <1>2 DEF Chained
  <2>2. audit[i].resulting \in Ends(audit, module[m].state) =>
          \/ audit[i].resulting = module[m].state
          \/ AuditFull /\ module[m].state \in Retired
    BY DEF Ends, AuditFull
  <2> QED BY <2>1, <2>2
<1> QED BY <1>1, <1>3, <1>4 DEF AuditReplays

\* The log replays to the registry after every sequence of calls.
THEOREM AuditReplaysRegistry == Spec => []AuditReplays
<1>1. Init => TypeOK /\ Replays
  BY InitType, InitReplays
<1>2. TypeOK /\ Replays /\ [Next]_vars => Replays'
  BY ReplaysStep
<1> QED BY <1>1, <1>2, TypeCorrect, ReplaysGiveAudit, PTL DEF Spec

=============================================================================
