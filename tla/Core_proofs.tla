---------------------------- MODULE Core_proofs ----------------------------
(***************************************************************************)
(* Proofs about Core, for every set of modules, binaries, reports and      *)
(* configuration files, every limit and any number of processes and        *)
(* crashes. What ModuleRegistry_proofs and ModuleInventory_proofs prove    *)
(* about one call is taken over from them.                                 *)
(***************************************************************************)
EXTENDS Core, LeastNumber, SequenceTheorems, FiniteSetTheorems, TLAPS

RP == INSTANCE ModuleRegistry_proofs
IP == INSTANCE ModuleInventory_proofs WITH running <- live

Standing == {"QUALIFIED", "ACTIVE"}

-----------------------------------------------------------------------------
(***************************************************************************)
(* The registry's calls as the Core sees them.                             *)
(***************************************************************************)

USE DEF R!StateOf, RP!StateOf

\* The definitions of ModuleRegistry are those its proofs are about.
LEMMA SameRegistryType ==
  /\ R!TypeOK <=> RP!TypeOK
  /\ R!TypeOK' <=> RP!TypeOK'
BY DEF R!TypeOK, RP!TypeOK, R!Record, RP!Record, R!Entry, RP!Entry,
       R!State, RP!State, R!Event, RP!Event, R!Result, RP!Result,
       R!NoBinary, RP!NoBinary

\* A call on m leaves the array, the other records and the binary of m alone.
Only(m) ==
  /\ slots' = slots
  /\ \A n \in Module :
       /\ module'[n].binary = module[n].binary
       /\ module'[n].state = "ABSENT" <=> module[n].state = "ABSENT"
       /\ n # m => module'[n] = module[n]

LEMMA RefusedOnly ==
  ASSUME NEW m \in Module, NEW res, R!Refuse(res)
  PROVE  Only(m) /\ module' = module
BY DEF R!Refuse, Only

\* A record that keeps its binary, and is still one.
LEMMA UpdatedOnly ==
  ASSUME R!TypeOK, NEW m \in Module, NEW rec, slots' = slots,
         module' = [module EXCEPT ![m] = rec],
         rec.binary = module[m].binary,
         rec.state = "ABSENT" <=> module[m].state = "ABSENT"
  PROVE  Only(m) /\ module'[m] = rec
BY DEF Only, R!TypeOK

LEMMA RefusedUnlessOnly ==
  ASSUME NEW m \in Module, NEW wanted, NEW otherwise,
         R!RefuseUnless(m, wanted, otherwise)
  PROVE  Only(m) /\ module' = module
BY RefusedOnly DEF R!RefuseUnless

LEMMA DiscoverEffect ==
  ASSUME R!TypeOK, NEW b \in Binary, R!Discover(b)
  PROVE  /\ R!TypeOK'
         /\ \/ UNCHANGED <<slots, module>>
            \/ /\ ~R!Known(b.id) /\ Len(slots) < RegistryMax
               /\ slots' = Append(slots, b.id)
               /\ module'[b.id].state = "DISCOVERED"
               /\ module'[b.id].binary = b
               /\ \A n \in Module \ {b.id} : module'[n] = module[n]
<1>1. RP!Discover(b)
  BY DEF R!Discover, RP!Discover, R!DiscoverRefusal, RP!DiscoverRefusal,
         R!Known, RP!Known, R!AuditFull, RP!AuditFull, R!NewRecord,
         RP!NewRecord, R!NoReport, RP!NoReport, R!Log, RP!Log, R!LogEntry,
         RP!LogEntry, R!Refuse, RP!Refuse
<1>2. R!TypeOK'
  BY <1>1, SameRegistryType, RP!DiscoverType, BinaryAssumption,
     LimitAssumption, ReportAssumption DEF R!NoReport, RP!NoReport
<1> QED
  BY <1>2, LimitAssumption, BinaryAssumption
  DEF R!Discover, R!DiscoverRefusal, R!Refuse, R!NewRecord, R!TypeOK

LEMMA VerifyEffect ==
  ASSUME R!TypeOK, NEW m \in Module, module[m].state = "DISCOVERED",
         R!Verify(m)
  PROVE  /\ R!TypeOK' /\ Only(m)
         /\ module'[m].state \notin Standing
<1>1. RP!Verify(m)
  BY DEF R!Verify, RP!Verify, R!RefuseUnless, RP!RefuseUnless, R!Refuse,
         RP!Refuse, R!Known, RP!Known, R!VerifyFailure, RP!VerifyFailure,
         R!ApiSupported, RP!ApiSupported, R!Log, RP!Log, R!LogIfRoom,
         RP!LogIfRoom, R!LogEntry, RP!LogEntry, R!NoLog, RP!NoLog,
         R!AuditFull, RP!AuditFull
<1>2. R!TypeOK'
  BY <1>1, SameRegistryType, RP!VerifyType, BinaryAssumption,
     LimitAssumption, ReportAssumption DEF R!NoReport, RP!NoReport
<1>3. module[m] \in R!Record
  BY DEF R!TypeOK
<1> QED
  BY <1>2, <1>3
  DEF R!Verify, R!RefuseUnless, R!Known, R!TypeOK, R!Record, Only, Standing

\* A suite that passed is the only way to a standing the module did not have.
LEMMA QualifyEffect ==
  ASSUME R!TypeOK, NEW m \in Module, NEW report \in Report,
         NEW returned \in {"OK", "QUALIFICATION"},
         R!Qualify(m, report, returned)
  PROVE  /\ R!TypeOK' /\ Only(m)
         /\ result' = "OK" => module'[m].state = "QUALIFIED"
         /\ module'[m].state \in Standing =>
              \/ module[m].state \in Standing /\ result' # "OK"
              \/ /\ ~R!AuditFull /\ returned = "OK"
                 /\ R!AllTestsPassed(report) /\ result' = "OK"
<1>1. RP!Qualify(m, report, returned)
  BY DEF R!Qualify, RP!Qualify, R!RefuseUnless, RP!RefuseUnless, R!Refuse,
         RP!Refuse, R!Known, RP!Known, R!ValidReport, RP!ValidReport,
         R!LogEntry, RP!LogEntry, R!AuditFull, RP!AuditFull
<1>2. R!TypeOK'
  BY <1>1, SameRegistryType, RP!QualifyType, BinaryAssumption,
     LimitAssumption, ReportAssumption DEF R!NoReport, RP!NoReport
<1>3. CASE R!RefuseUnless(m, "UNVERIFIED", "INVALID_STATE")
  BY <1>2, <1>3, RefusedUnlessOnly
  DEF R!RefuseUnless, R!Refuse, R!Known, Standing
<1>4. CASE module[m].state = "UNVERIFIED" /\ R!Refuse("AUDIT_FULL")
  BY <1>2, <1>4, RefusedOnly DEF R!Refuse, Standing
<1>5. CASE /\ module[m].state = "UNVERIFIED" /\ ~R!AuditFull
           /\ ~R!Refuse("AUDIT_FULL")
           /\ ~R!RefuseUnless(m, "UNVERIFIED", "INVALID_STATE")
  <2> DEFINE passed == returned = "OK" /\ R!ValidReport(report)
             room   == Len(audit) + 1 < AuditMax
             final  == IF passed /\ room THEN "QUALIFIED" ELSE "FAILED"
  <2>1. /\ module' = [module EXCEPT ![m] =
              [module[m] EXCEPT !.state = final, !.qualification = report,
                                !.authorized = passed /\ module[m].authorized]]
        /\ result' = IF passed /\ ~room THEN "AUDIT_FULL"
                     ELSE IF passed THEN "OK" ELSE "QUALIFICATION"
        /\ slots' = slots
    BY <1>5 DEF R!Qualify
  <2>2. module[m] \in R!Record /\ module \in [Module -> R!Record]
    BY DEF R!TypeOK
  <2>3. /\ module'[m].state = final /\ module'[m].binary = module[m].binary
        /\ \A n \in Module : n # m => module'[n] = module[n]
    BY <2>1, <2>2 DEF R!Record
  <2>4. Only(m)
    BY <1>5, <2>1, <2>3 DEF Only
  <2>5. passed => R!AllTestsPassed(report)
    BY DEF R!ValidReport, R!AllTestsPassed
  <2> QED
    BY <1>2, <1>5, <2>1, <2>3, <2>4, <2>5 DEF Standing
<1> QED
  BY <1>3, <1>4, <1>5 DEF R!Qualify

LEMMA RestoreEffect ==
  ASSUME R!TypeOK, NEW m \in Module, NEW report \in Report,
         R!Restore(m, report)
  PROVE  R!TypeOK' /\ Only(m)
<1>1. RP!Restore(m, report)
  BY DEF R!Restore, RP!Restore, R!RefuseUnless, RP!RefuseUnless, R!Refuse,
         RP!Refuse, R!Known, RP!Known, R!ValidReport, RP!ValidReport,
         R!Log, RP!Log, R!NoLog, RP!NoLog, R!LogEntry, RP!LogEntry,
         R!AuditFull, RP!AuditFull, R!NoReport, RP!NoReport
<1>2. R!TypeOK'
  BY <1>1, SameRegistryType, RP!RestoreType, BinaryAssumption,
     LimitAssumption, ReportAssumption DEF R!NoReport, RP!NoReport
<1>3. module[m] \in R!Record
  BY DEF R!TypeOK
<1>4. CASE \E res : R!Refuse(res)
  BY <1>2, <1>4, RefusedOnly
<1>5. CASE /\ module[m].state = "UNVERIFIED" /\ slots' = slots
           /\ module' = [module EXCEPT ![m] =
                [module[m] EXCEPT !.state = "QUALIFIED",
                   !.qualification = report, !.authorized = FALSE]]
  <2> DEFINE rec == [module[m] EXCEPT !.state = "QUALIFIED",
                       !.qualification = report, !.authorized = FALSE]
  <2>1. rec.binary = module[m].binary /\ rec.state = "QUALIFIED"
    BY <1>3 DEF R!Record
  <2> HIDE DEF rec
  <2> QED BY <1>2, <1>5, <2>1, UpdatedOnly DEF rec
<1>6. CASE /\ module[m].state = "UNVERIFIED" /\ slots' = slots
           /\ module' = [module EXCEPT ![m] =
                [module[m] EXCEPT !.qualification = R!NoReport,
                                  !.authorized = FALSE]]
  <2> DEFINE rec == [module[m] EXCEPT !.qualification = R!NoReport,
                                      !.authorized = FALSE]
  <2>1. rec.binary = module[m].binary /\ rec.state = module[m].state
    BY <1>3 DEF R!Record
  <2> HIDE DEF rec
  <2> QED BY <1>2, <1>6, <2>1, UpdatedOnly DEF rec
<1> QED
  BY <1>4, <1>5, <1>6 DEF R!Restore, R!RefuseUnless

LEMMA AuthorizeEffect ==
  ASSUME R!TypeOK, NEW m \in Module, R!Authorize(m)
  PROVE  /\ R!TypeOK' /\ Only(m)
         /\ module'[m].state = module[m].state
<1>1. RP!Authorize(m)
  BY DEF R!Authorize, RP!Authorize, R!RefuseUnless, RP!RefuseUnless,
         R!Refuse, RP!Refuse, R!Known, RP!Known, R!LogIfRoom, RP!LogIfRoom,
         R!Log, RP!Log, R!NoLog, RP!NoLog, R!LogEntry, RP!LogEntry,
         R!AuditFull, RP!AuditFull
<1>2. R!TypeOK'
  BY <1>1, SameRegistryType, RP!AuthorizeType, BinaryAssumption,
     LimitAssumption, ReportAssumption DEF R!NoReport, RP!NoReport
<1>3. module[m] \in R!Record
  BY DEF R!TypeOK
<1> QED
  BY <1>2, <1>3, RefusedUnlessOnly
  DEF R!Authorize, R!TypeOK, R!Record, R!AuditFull, Only

LEMMA ActivateEffect ==
  ASSUME R!TypeOK, NEW m \in Module, R!Activate(m)
  PROVE  /\ R!TypeOK' /\ Only(m)
         /\ module'[m].state \in Standing => module[m].state \in Standing
<1>1. RP!Activate(m)
  BY DEF R!Activate, RP!Activate, R!RefuseUnless, RP!RefuseUnless, R!Refuse,
         RP!Refuse, R!Known, RP!Known, R!Log, RP!Log, R!LogEntry,
         RP!LogEntry, R!AuditFull, RP!AuditFull
<1>2. R!TypeOK'
  BY <1>1, SameRegistryType, RP!ActivateType, BinaryAssumption,
     LimitAssumption, ReportAssumption DEF R!NoReport, RP!NoReport
<1>3. module[m] \in R!Record
  BY DEF R!TypeOK
<1> QED
  BY <1>2, <1>3, RefusedOnly, RefusedUnlessOnly
  DEF R!Activate, R!TypeOK, R!Record, Only, Standing

LEMMA FailEffect ==
  ASSUME R!TypeOK, NEW m \in Module, R!Known(m), R!Fail(m)
  PROVE  /\ R!TypeOK' /\ Only(m)
         /\ module'[m].state = "FAILED"
<1>1. RP!Retire(m, "FAILED")
  BY DEF R!Fail, R!Retire, RP!Retire, R!Refuse, RP!Refuse, R!Known, RP!Known,
         R!LogIfRoom, RP!LogIfRoom, R!Log, RP!Log, R!NoLog, RP!NoLog,
         R!LogEntry, RP!LogEntry, R!AuditFull, RP!AuditFull
<1>2. R!TypeOK'
  BY <1>1, SameRegistryType, RP!RetireType, BinaryAssumption,
     LimitAssumption, ReportAssumption
  DEF R!NoReport, RP!NoReport, RP!Retired
<1> DEFINE rec == [module[m] EXCEPT !.state = "FAILED", !.authorized = FALSE]
<1>3. module' = [module EXCEPT ![m] = rec] /\ slots' = slots
  BY DEF R!Fail, R!Retire
<1>4. module[m] \in R!Record
  BY DEF R!TypeOK
<1>5. rec.binary = module[m].binary /\ rec.state = "FAILED"
  BY <1>4 DEF R!Record
<1> HIDE DEF rec
<1> QED
  BY <1>2, <1>3, <1>5, UpdatedOnly DEF R!Known

LEMMA UnloadAllEffect ==
  ASSUME R!TypeOK, R!UnloadAll
  PROVE  /\ R!TypeOK' /\ slots' = slots
         /\ \A m \in Module : /\ module'[m].binary = module[m].binary
                              /\ module'[m].state = module[m].state
                              /\ ~module'[m].loaded
BY DEF R!UnloadAll, R!TypeOK, R!Record

-----------------------------------------------------------------------------
(***************************************************************************)
(* The first invariant: types, the invariant of the inventory, a record    *)
(* for each slot, and nothing in memory before the Core is there.          *)
(***************************************************************************)

Shape ==
  /\ \A m \in Module : R!Known(m) =>
       module[m].binary \in Binary /\ module[m].binary.id = m
  /\ \A i \in 1..Len(slots) : R!Known(slots[i])
  /\ Len(slots) <= RegistryMax

Quiet ==
  /\ ~live => records = << >>
  /\ pc \in {"config", "init"} => \A m \in Module : ~R!Known(m)

Sound == TypeOK /\ IP!Inv /\ Shape /\ Quiet

\* The slot that is being processed holds a registered module.
LEMMA CurrentIsKnown ==
  ASSUME TypeOK, Shape, cursor <= Len(slots)
  PROVE  /\ Current \in Module /\ R!Known(Current)
         /\ CurrentBinary \in Binary /\ CurrentBinary.id = Current
         /\ module[Current].qualification \in Report
<1>1. slots \in Seq(Module) /\ cursor \in 1..Len(slots)
  BY DEF TypeOK, R!TypeOK
<1>2. Current \in Module
  BY <1>1, ElementOfSeq DEF Current
<1>3. R!Known(Current)
  BY <1>1 DEF Shape, Current
<1>4. module[Current] \in R!Record
  BY <1>2 DEF TypeOK, R!TypeOK
<1> QED
  BY <1>2, <1>3, <1>4 DEF Shape, CurrentBinary, R!Record

LEMMA FoundReport ==
  ASSUME TypeOK, NEW b, I!Has(records, b)
  PROVE  I!Find(records, b) \in Report
<1>1. PICK i \in I!Position(records, b.id) : TRUE
  BY DEF I!Has
<1>2. (CHOOSE j \in I!Position(records, b.id) : TRUE) \in 1..Len(records)
  BY <1>1 DEF I!Position
<1>3. records[CHOOSE j \in I!Position(records, b.id) : TRUE]
        \in I!InventoryRecord
  BY <1>2, ElementOfSeq DEF TypeOK, I!TypeOK
<1> QED BY <1>3 DEF I!Find, I!InventoryRecord

LEMMA OnlyKeepsShape ==
  ASSUME R!TypeOK, Shape, NEW m \in Module, Only(m)
  PROVE  Shape'
<1>1. \A i \in 1..Len(slots) : slots[i] \in Module
  BY ElementOfSeq DEF R!TypeOK
<1> QED BY <1>1 DEF Shape, Only, R!Known

LEMMA BlankIsSound ==
  ASSUME BlankRegistry
  PROVE  R!TypeOK' /\ Shape' /\ \A m \in Module : ~R!Known(m)'
<1>1. R!EmptyRecord \in R!Record /\ R!EmptyRecord.state = "ABSENT"
  BY ReportAssumption DEF R!EmptyRecord, R!Record, R!State
<1>2. slots' = << >> /\ module' = [m \in Module |-> R!EmptyRecord]
      /\ audit' = << >> /\ nextSequence' = 1 /\ result' = "OK"
  BY DEF BlankRegistry
<1>3. R!TypeOK'
  BY <1>1, <1>2 DEF R!TypeOK, R!Result
<1>4. \A m \in Module : ~R!Known(m)'
  BY <1>1, <1>2 DEF R!Known
<1>5. Len(slots') = 0
  BY <1>2
<1> QED BY <1>3, <1>4, <1>5, LimitAssumption DEF Shape

\* The registry keeps its types and its shape.
LEMMA RegistryStep ==
  ASSUME Sound, [Next]_vars
  PROVE  R!TypeOK' /\ Shape'
<1>1. TypeOK /\ R!TypeOK /\ Shape
  BY DEF Sound, TypeOK
<1>2. CASE Start \/ Crash \/ CrashInSave
  BY <1>2, BlankIsSound DEF Start, Crash, CrashInSave, CrashFrame
<1>3. CASE UNCHANGED registryVars
  BY <1>1, <1>3 DEF registryVars, R!TypeOK, Shape, R!Known
<1>4. ASSUME NEW b \in Binary, Scan(b) PROVE R!TypeOK' /\ Shape'
  <2>1. CASE UNCHANGED registryVars
    BY <1>3, <2>1
  <2>2. CASE R!Discover(b)
    <3>1. R!TypeOK'
      BY <1>1, <2>2, DiscoverEffect
    <3>2. CASE UNCHANGED <<slots, module>>
      BY <1>1, <3>1, <3>2 DEF Shape, R!Known
    <3>3. CASE ~UNCHANGED <<slots, module>>
      <4>1. /\ ~R!Known(b.id) /\ Len(slots) < RegistryMax
            /\ slots' = Append(slots, b.id)
            /\ module'[b.id].state = "DISCOVERED"
            /\ module'[b.id].binary = b
            /\ \A n \in Module \ {b.id} : module'[n] = module[n]
        BY <1>1, <2>2, <3>3, DiscoverEffect
      <4>2. slots \in Seq(Module) /\ b.id \in Module
        BY <1>1, BinaryAssumption DEF R!TypeOK
      <4>3. /\ Len(slots') = Len(slots) + 1
            /\ \A i \in 1..Len(slots') :
                 slots'[i] = IF i = Len(slots) + 1 THEN b.id ELSE slots[i]
        BY <4>1, <4>2
      <4>4. \A i \in 1..Len(slots) : slots[i] \in Module
        BY <4>2, ElementOfSeq
      <4>5. \A m \in Module : R!Known(m)' =>
              module'[m].binary \in Binary /\ module'[m].binary.id = m
        BY <1>1, <4>1 DEF Shape, R!Known
      <4>6. \A i \in 1..Len(slots') : module'[slots'[i]].state # "ABSENT"
        BY <1>1, <4>1, <4>2, <4>3, <4>4 DEF Shape, R!Known
      <4>7. Len(slots') <= RegistryMax
        BY <4>1, <4>2, <4>3, LimitAssumption
      <4> QED BY <3>1, <4>5, <4>6, <4>7 DEF Shape, R!Known
    <3> QED BY <3>2, <3>3
  <2> QED BY <1>4, <2>1, <2>2 DEF Scan
<1>5. CASE VerifySlot
  <2>1. CASE UNCHANGED registryVars
    BY <1>3, <2>1
  <2>2. CASE module[Current].state = "DISCOVERED" /\ R!Verify(Current)
    BY <1>1, <1>5, <2>2, CurrentIsKnown, VerifyEffect, OnlyKeepsShape
    DEF VerifySlot, At
  <2> QED BY <1>5, <2>1, <2>2 DEF VerifySlot
<1>6. CASE Restored
  BY <1>1, <1>6, CurrentIsKnown, FoundReport, RestoreEffect, OnlyKeepsShape
  DEF Restored, At
<1>7. CASE QualifySlot
  BY <1>1, <1>7, CurrentIsKnown, QualifyEffect, OnlyKeepsShape
  DEF QualifySlot, At
<1>8. CASE StoreFails
  BY <1>1, <1>8, CurrentIsKnown, FailEffect, OnlyKeepsShape
  DEF StoreFails, At
<1>9. CASE AuthorizeSlot
  BY <1>1, <1>9, CurrentIsKnown, AuthorizeEffect, OnlyKeepsShape
  DEF AuthorizeSlot, At
<1>10. CASE ActivateSlot
  BY <1>1, <1>10, CurrentIsKnown, ActivateEffect, OnlyKeepsShape
  DEF ActivateSlot, At
<1>11. ASSUME NEW m \in Module, Execute(m) PROVE R!TypeOK' /\ Shape'
  <2>1. R!Known(m)
    BY <1>11 DEF Execute, Selected, Pending, Active, R!Known
  <2>2. CASE UNCHANGED registryVars
    BY <1>3, <2>2
  <2>3. CASE R!Fail(m)
    BY <1>1, <2>1, <2>3, FailEffect, OnlyKeepsShape
  <2> QED BY <1>11, <2>2, <2>3 DEF Execute
<1>12. CASE Shutdown
  <2>1. /\ R!TypeOK' /\ slots' = slots
        /\ \A m \in Module : /\ module'[m].binary = module[m].binary
                             /\ module'[m].state = module[m].state
    BY <1>1, <1>12, UnloadAllEffect DEF Shutdown
  <2>2. \A i \in 1..Len(slots) : slots[i] \in Module
    BY <1>1, ElementOfSeq DEF R!TypeOK
  <2> QED BY <1>1, <2>1, <2>2 DEF Shape, R!Known
<1> QED
  BY <1>2, <1>3, <1>4, <1>5, <1>6, <1>7, <1>8, <1>9, <1>10, <1>11, <1>12
  DEF Next, Step, vars, registryVars, ConfigFails, Configured, InitFails,
      InitReady, Run, ScanEnds, NotOnInventory, StoreSucceeds, ProcessEnds,
      ExecuteEnds, MarkFailed

\* Every step of the Core is one call of the inventory, or none.
LEMMA StepImplementsInventory ==
  ASSUME Sound, [Next]_vars
  PROVE  [I!Next]_(I!inventoryVars)
<1>1. TypeOK /\ Shape /\ Quiet
  BY DEF Sound
<1>2. CASE UNCHANGED <<live, records, file, earned, durable>>
  BY <1>2 DEF I!inventoryVars
<1>3. CASE InitReady
  BY <1>3 DEF InitReady, I!Next
<1>4. CASE Shutdown
  BY <1>4 DEF Shutdown, I!Next
<1>5. CASE Crash
  <2>1. CASE live
    <3>1. I!Stop
      BY <1>5, <2>1 DEF Crash, CrashFrame, I!Stop, live
    <3> QED BY <3>1 DEF I!Next
  <2>2. CASE ~live
    BY <1>1, <1>2, <1>5, <2>2 DEF Crash, CrashFrame, Quiet, live
  <2> QED BY <2>1, <2>2
<1>6. CASE StoreSucceeds \/ StoreFails \/ CrashInSave
  <2> DEFINE b == CurrentBinary
             report == module[Current].qualification
  <2>1. b \in Binary /\ report \in Report
    BY <1>1, <1>6, CurrentIsKnown
    DEF StoreSucceeds, StoreFails, CrashInSave, At
  <2> HIDE DEF b, report
  <2>2. \/ I!StoreSaved(b, report) \/ I!StoreFull(b)
        \/ I!StoreUnopened(b, report) \/ I!StoreUnwritten(b, report)
        \/ I!DieInSave(b, report)
    BY <1>6 DEF StoreSucceeds, StoreFails, CrashInSave, b, report
  <2> QED BY <2>1, <2>2 DEF I!Next
<1>7. CASE /\ ~(InitReady \/ Shutdown \/ Crash)
           /\ ~(StoreSucceeds \/ StoreFails \/ CrashInSave)
  <2> USE <1>7
      DEF Next, Step, vars, inventoryData, Start, ConfigFails, Configured,
          InitFails, Run, Scan, ScanEnds, VerifySlot, Restored,
          NotOnInventory, QualifySlot, AuthorizeSlot, ActivateSlot,
          ProcessEnds, Execute, ExecuteFrame, ExecuteEnds, MarkFailed
  <2>1. UNCHANGED <<records, file, earned, durable>>
    OBVIOUS
  <2>2. live' = live
    BY DEF Onward, GoTo, NextSlot, At, live
  <2> QED BY <1>2, <2>1, <2>2
<1> QED
  BY <1>3, <1>4, <1>5, <1>6, <1>7

\* The definitions of ModuleInventory are those its proofs are about.
LEMMA SameInventoryStep ==
  ASSUME [I!Next]_(I!inventoryVars)
  PROVE  [IP!Next]_(IP!inventoryVars)
<1> USE DEF I!RecordValid, IP!RecordValid, I!NewRecord, IP!NewRecord,
            I!Position, IP!Position, I!HasRoom, IP!HasRoom, I!Placed,
            IP!Placed, I!Storing, IP!Storing, I!Others, IP!Others
<1>1. CASE UNCHANGED I!inventoryVars
  BY <1>1 DEF I!inventoryVars, IP!inventoryVars
<1>2. CASE I!Load
  <2>1. IP!Load
    BY <1>2 DEF I!Load, IP!Load, I!Loaded, IP!Loaded, I!Readable, IP!Readable,
           I!AllReadBack, IP!AllReadBack, I!ReadsBack, IP!ReadsBack
  <2> QED BY <2>1 DEF IP!Next
<1>3. CASE I!Stop
  <2>1. IP!Stop
    BY <1>3 DEF I!Stop, IP!Stop
  <2> QED BY <2>1 DEF IP!Next
<1>4. ASSUME NEW b \in Binary, I!StoreFull(b)
      PROVE  [IP!Next]_(IP!inventoryVars)
  BY <1>4 DEF I!StoreFull, I!inventoryVars, IP!inventoryVars
<1>5. ASSUME NEW b \in Binary, NEW report \in Report,
             \/ I!StoreInvalid(b, report) \/ I!StoreSaved(b, report)
             \/ I!StoreUnopened(b, report) \/ I!StoreUnwritten(b, report)
             \/ I!DieInSave(b, report)
      PROVE  [IP!Next]_(IP!inventoryVars)
  <2>1. I!Partial(I!Placed(b, report)) = IP!Partial(IP!Placed(b, report))
    <3>1. I!Placed(b, report) = IP!Placed(b, report)
      OBVIOUS
    <3>2. \A rs : I!Partial(rs) = IP!Partial(rs)
      BY DEF I!Partial, IP!Partial
    <3> HIDE DEF I!Placed, IP!Placed
    <3> QED BY <3>1, <3>2
  <2>2. I!StoreInvalid(b, report) => IP!StoreInvalid(b, report)
    BY DEF I!StoreInvalid, IP!StoreInvalid
  <2>3. I!StoreSaved(b, report) => IP!StoreSaved(b, report)
    BY DEF I!StoreSaved, IP!StoreSaved, I!Promise, IP!Promise,
           I!AllReadBack, IP!AllReadBack, I!ReadsBack, IP!ReadsBack, I!Whole,
           IP!Whole
  <2>4. I!StoreUnopened(b, report) => IP!StoreUnopened(b, report)
    BY DEF I!StoreUnopened, IP!StoreUnopened
  <2>5. I!StoreUnwritten(b, report) => IP!StoreUnwritten(b, report)
    BY <2>1 DEF I!StoreUnwritten, IP!StoreUnwritten
  <2>6. I!DieInSave(b, report) => IP!DieInSave(b, report)
    BY <2>1 DEF I!DieInSave, IP!DieInSave
  <2> HIDE DEF I!RecordValid, IP!RecordValid, I!NewRecord, IP!NewRecord,
               I!Position, IP!Position, I!HasRoom, IP!HasRoom, I!Placed,
               IP!Placed, I!Storing, IP!Storing, I!Others, IP!Others
  <2> QED BY <1>5, <2>2, <2>3, <2>4, <2>5, <2>6 DEF IP!Next
<1> HIDE DEF I!RecordValid, IP!RecordValid, I!NewRecord, IP!NewRecord,
             I!Position, IP!Position, I!HasRoom, IP!HasRoom, I!Placed,
             IP!Placed, I!Storing, IP!Storing, I!Others, IP!Others
<1> QED
  BY <1>1, <1>2, <1>3, <1>4, <1>5 DEF I!Next

\* So the invariant of the inventory holds in the Core.
LEMMA InventoryStep ==
  ASSUME Sound, [Next]_vars
  PROVE  IP!Inv'
<1>1. \A b \in Binary : b.id \in Module
  BY BinaryAssumption
<1>2. InventoryMax \in Nat \ {0}
  BY LimitAssumption
<1>3. IP!Inv
  BY DEF Sound
<1> QED
  BY <1>1, <1>2, <1>3, StepImplementsInventory, SameInventoryStep, IP!InvNext

\* The process, its variables one after the other.
LEMMA ProcessStep ==
  ASSUME Sound, [Next]_vars, R!TypeOK', IP!Inv'
  PROVE  TypeOK' /\ Quiet'
<1> USE DEF Next, Step, vars, history, registryVars, inventoryData, Start,
            ConfigFails, Configured, InitFails, InitReady, Run, Scan,
            ScanEnds, VerifySlot, Restored, NotOnInventory, QualifySlot,
            StoreSucceeds, StoreFails, AuthorizeSlot, ActivateSlot,
            ProcessEnds, ProcessFrame, ExecuteFrame, ExecuteEnds, MarkFailed,
            Shutdown, Crash, CrashInSave, CrashFrame, Onward, GoTo, NextSlot,
            At
<1>1. TypeOK /\ Shape /\ Quiet
  BY DEF Sound
<1>2. I!TypeOK'
  BY DEF IP!Inv, IP!TypeOK, I!TypeOK, I!InventoryRecord, IP!InventoryRecord,
         I!File, IP!File
<1>3. conf' = << >> \/ conf' \in Files
  BY <1>1 DEF TypeOK, Execute
<1>4. /\ coreState' \in CoreState /\ pc' \in PC
      /\ exit' \in {"none", "SUCCESS", "FAILURE"}
  BY <1>1 DEF TypeOK, Execute, CoreState, PC
<1>5. unscanned' \subseteq installed' /\ installed' \subseteq Binary
  BY <1>1 DEF TypeOK, Execute
<1>6. cursor' \in 1..(RegistryMax + 1)
  <2>1. \/ cursor' \in {1, cursor}
        \/ cursor' = cursor + 1 /\ cursor <= Len(slots)
    BY DEF Execute
  <2>2. Len(slots) \in Nat /\ Len(slots) <= RegistryMax /\ RegistryMax \in Nat
    BY <1>1, LimitAssumption DEF TypeOK, R!TypeOK, Shape
  <2> QED BY <1>1, <2>1, <2>2 DEF TypeOK
<1>7. executed' \in Seq([id : Module, binary : Binary, ok : BOOLEAN])
  <2> DEFINE S == [id : Module, binary : Binary, ok : BOOLEAN]
  <2>1. executed \in Seq(S)
    BY <1>1 DEF TypeOK
  <2>2. ASSUME NEW m \in Module, Execute(m) PROVE executed' \in Seq(S)
    <3>1. module[m].binary \in Binary
      BY <1>1, <2>2 DEF Execute, Selected, Pending, Active, Shape, R!Known
    <3>2. Outcome(m, TRUE) \in S /\ Outcome(m, FALSE) \in S
      BY <3>1 DEF Outcome
    <3>3. \A x \in S : Append(executed, x) \in Seq(S)
      <4> HIDE DEF S
      <4> QED BY <2>1
    <3> QED BY <2>2, <3>2, <3>3 DEF Execute
  <2>3. \/ \E m \in Module : Execute(m)
        \/ executed' \in {executed, << >>}
    OBVIOUS
  <2>4. << >> \in Seq(S)
    OBVIOUS
  <2>5. CASE executed' \in {executed, << >>}
    BY <2>1, <2>4, <2>5
  <2> QED BY <2>2, <2>3, <2>5
<1>8. benched' \subseteq Binary
  <2>1. CASE QualifySlot
    BY <1>1, <2>1, CurrentIsKnown DEF TypeOK
  <2>2. CASE ~QualifySlot
    BY <1>1, <2>2 DEF TypeOK, Execute
  <2> QED BY <2>1, <2>2
<1>9. runs' \in 0..MaxRuns
  <2>1. runs' = runs \/ (runs < MaxRuns /\ runs' = runs + 1)
    BY DEF Execute
  <2> QED BY <1>1, <2>1, LimitAssumption DEF TypeOK
<1>10. TypeOK'
  BY <1>2, <1>3, <1>4, <1>5, <1>6, <1>7, <1>8, <1>9 DEF TypeOK
<1>11. ~live' => records' = << >>
  BY <1>1 DEF Quiet, Execute, live, I!Stop, I!DieInSave
<1>12. pc' \in {"config", "init"} => \A m \in Module : ~R!Known(m)'
  <2>1. CASE Start
    BY <2>1, BlankIsSound
  <2>2. CASE ~Start /\ pc' \in {"config", "init"}
    <3>1. pc \in {"config", "init"} /\ module' = module
      BY <2>2 DEF Execute
    <3> QED BY <1>1, <3>1 DEF Quiet, R!Known
  <2> QED BY <2>1, <2>2
<1> QED BY <1>10, <1>11, <1>12 DEF Quiet

LEMMA SoundInit == Init => Sound
<1> SUFFICES ASSUME Init PROVE Sound
  OBVIOUS
<1>1. /\ slots = << >> /\ audit = << >> /\ result = "OK" /\ nextSequence = 1
      /\ module = [m \in Module |-> R!EmptyRecord]
  BY DEF Init, R!Init
<1>2. R!EmptyRecord \in R!Record /\ R!EmptyRecord.state = "ABSENT"
  BY ReportAssumption DEF R!EmptyRecord, R!Record, R!State
<1>3. R!TypeOK /\ Shape
  BY <1>1, <1>2, LimitAssumption DEF R!TypeOK, R!Result, Shape, R!Known
<1>4. IP!Inv
  <2>1. IP!Init
    BY DEF Init, IP!Init, live, I!NoFile, IP!NoFile
  <2>2. \A b \in Binary : b.id \in Module
    BY BinaryAssumption
  <2>3. InventoryMax \in Nat \ {0}
    BY LimitAssumption
  <2> QED BY <2>1, <2>2, <2>3, IP!InvInit
<1>5. I!TypeOK
  BY <1>4 DEF IP!Inv, IP!TypeOK, I!TypeOK, I!InventoryRecord,
              IP!InventoryRecord, I!File, IP!File
<1>6. executed \in Seq([id : Module, binary : Binary, ok : BOOLEAN])
  BY DEF Init
<1>7. TypeOK
  BY <1>3, <1>5, <1>6, LimitAssumption DEF Init, TypeOK, CoreState, PC
<1>8. Quiet
  BY DEF Init, Quiet
<1> QED BY <1>3, <1>4, <1>7, <1>8 DEF Sound

LEMMA SoundStep == Sound /\ [Next]_vars => Sound'
BY RegistryStep, InventoryStep, ProcessStep DEF Sound

LEMMA AlwaysSound == Spec => []Sound
BY SoundInit, SoundStep, PTL DEF Spec

\* The process is type correct, with the registry and the inventory in it.
THEOREM TypeCorrect == Spec => []TypeOK
<1>1. Sound => TypeOK
  BY DEF Sound
<1> QED BY <1>1, AlwaysSound, PTL

\* Over any number of processes and crashes, the Core makes of the inventory
\* what the inventory's own specification allows.
THEOREM CoreImplementsInventory == Spec => I!Spec
<1>1. Init => I!Init
  BY DEF Init, I!Init, live
<1>2. Sound /\ [Next]_vars => [I!Next]_(I!inventoryVars)
  BY StepImplementsInventory
<1> QED BY <1>1, <1>2, AlwaysSound, PTL DEF Spec, I!Spec

-----------------------------------------------------------------------------
(***************************************************************************)
(* The second invariant: whatever has a standing, or a record anywhere in  *)
(* the inventory's history, has passed its own suite.                      *)
(***************************************************************************)

Benched ==
  /\ \A rec \in earned : rec.binary \in benched /\ rec.id = rec.binary.id
  /\ \A m \in Module :
       module[m].state \in Standing => module[m].binary \in benched
  /\ At("store") => module[Current].state = "QUALIFIED"
  /\ ExecutedWasBenched

\* A binary that the inventory vouches for has a record in memory.
LEMMA HasRecord ==
  ASSUME NEW rs, NEW b, I!Has(rs, b)
  PROVE  \E i \in 1..Len(rs) :
           rs[i].id = b.id /\ rs[i].binary = b /\ I!RecordValid(rs[i])
BY DEF I!Has, I!Position

\* The history only grows, and a store adds to the records what it is given.
LEMMA HistoryStep ==
  ASSUME Sound, Benched, [Next]_vars
  PROVE  /\ benched \subseteq benched'
         /\ \A rec \in earned' :
              rec.binary \in benched' /\ rec.id = rec.binary.id
<1>1. benched \subseteq benched'
  BY DEF Next, Step, vars, history, Start, ConfigFails, Configured, InitFails,
         InitReady, Run, Scan, ScanEnds, VerifySlot, Restored, NotOnInventory,
         QualifySlot, StoreSucceeds, StoreFails, AuthorizeSlot, ActivateSlot,
         ProcessEnds, Execute, ExecuteFrame, ExecuteEnds, MarkFailed,
         Shutdown, Crash, CrashInSave, CrashFrame
<1>2. CASE StoreSucceeds \/ StoreFails \/ CrashInSave
  <2>1. /\ Current \in Module /\ module[Current].state = "QUALIFIED"
    BY <1>2, CurrentIsKnown
    DEF Sound, Benched, StoreSucceeds, StoreFails, CrashInSave, At
  <2>2. CurrentBinary \in benched
    BY <2>1 DEF Benched, Standing, CurrentBinary
  <2>3. earned' \subseteq earned \cup
          {I!NewRecord(CurrentBinary, module[Current].qualification)}
    BY <1>2 DEF StoreSucceeds, StoreFails, CrashInSave, I!StoreSaved,
                I!StoreFull, I!StoreUnopened, I!StoreUnwritten, I!DieInSave,
                I!Storing, I!inventoryVars
  <2> QED BY <1>1, <2>2, <2>3 DEF Benched, I!NewRecord
<1>3. CASE ~(StoreSucceeds \/ StoreFails \/ CrashInSave)
  <2>1. earned' = earned
    BY <1>3
    DEF Next, Step, vars, inventoryData, Start, ConfigFails, Configured,
        InitFails, InitReady, Run, Scan, ScanEnds, VerifySlot, Restored,
        NotOnInventory, QualifySlot, AuthorizeSlot, ActivateSlot,
        ProcessEnds, Execute, ExecuteFrame, ExecuteEnds, MarkFailed,
        Shutdown, Crash, I!Load, I!Stop
  <2> QED BY <1>1, <2>1 DEF Benched
<1> QED BY <1>1, <1>2, <1>3

\* No call gives a standing to a binary whose suite has not passed.
LEMMA StandingStep ==
  ASSUME Sound, Benched, [Next]_vars, NEW m \in Module,
         module'[m].state \in Standing
  PROVE  module'[m].binary \in benched'
<1>1. TypeOK /\ R!TypeOK /\ Shape /\ IP!Inv
  BY DEF Sound, TypeOK
<1>2. benched \subseteq benched'
  BY HistoryStep
<1>3. CASE module[m].state \in Standing /\ module'[m].binary = module[m].binary
  BY <1>2, <1>3 DEF Benched
<1>4. CASE Start \/ Crash \/ CrashInSave
  BY <1>4, BlankIsSound
  DEF Start, Crash, CrashInSave, CrashFrame, R!Known, Standing
<1>5. ASSUME NEW b \in Binary, Scan(b) PROVE module'[m].binary \in benched'
  <2>1. CASE UNCHANGED module
    BY <1>3, <2>1
  <2>2. CASE R!Discover(b) /\ ~UNCHANGED module
    BY <1>1, <1>3, <2>2, DiscoverEffect DEF Standing
  <2> QED BY <1>5, <2>1, <2>2 DEF Scan, registryVars
<1>6. CASE VerifySlot
  <2>1. CASE UNCHANGED module
    BY <1>3, <2>1
  <2>2. CASE module[Current].state = "DISCOVERED" /\ R!Verify(Current)
    BY <1>1, <1>3, <1>6, <2>2, CurrentIsKnown, VerifyEffect
    DEF VerifySlot, At, Only
  <2> QED BY <1>6, <2>1, <2>2 DEF VerifySlot, registryVars
<1>7. CASE Restored
  <2>1. /\ Current \in Module /\ Only(Current)
        /\ I!Has(records, CurrentBinary)
    BY <1>1, <1>7, CurrentIsKnown, FoundReport, RestoreEffect
    DEF Restored, At
  <2>2. CurrentBinary \in benched
    <3>1. \A i \in 1..Len(records) : records[i] \in earned
      BY <1>1 DEF IP!Inv, IP!FromStores
    <3> QED BY <2>1, <3>1, HasRecord DEF Benched
  <2>3. CASE m = Current
    BY <1>2, <2>1, <2>2, <2>3 DEF Only, CurrentBinary
  <2>4. CASE m # Current
    BY <1>3, <2>1, <2>4 DEF Only
  <2> QED BY <2>3, <2>4
<1>8. CASE QualifySlot
  <2>1. Current \in Module
    BY <1>1, <1>8, CurrentIsKnown DEF QualifySlot, At
  <2>2. PICK report \in Report, returned \in {"OK", "QUALIFICATION"} :
          /\ R!Qualify(Current, report, returned)
          /\ benched' =
               IF ~R!AuditFull /\ returned = "OK" /\ R!AllTestsPassed(report)
               THEN benched \cup {CurrentBinary} ELSE benched
    BY <1>8 DEF QualifySlot
  <2>3. /\ Only(Current)
        /\ module'[Current].state \in Standing =>
             \/ module[Current].state \in Standing
             \/ CurrentBinary \in benched'
    BY <1>1, <2>1, <2>2, QualifyEffect
  <2>4. CASE m = Current
    BY <1>3, <2>3, <2>4 DEF Only, CurrentBinary
  <2>5. CASE m # Current
    BY <1>3, <2>1, <2>3, <2>5 DEF Only
  <2> QED BY <2>4, <2>5
<1>9. CASE StoreFails \/ AuthorizeSlot \/ ActivateSlot
  <2>1. Current \in Module /\ R!Known(Current)
    BY <1>1, <1>9, CurrentIsKnown
    DEF StoreFails, AuthorizeSlot, ActivateSlot, At
  <2>2. /\ Only(Current)
        /\ module'[Current].state \in Standing =>
             module[Current].state \in Standing
    BY <1>1, <1>9, <2>1, FailEffect, AuthorizeEffect, ActivateEffect
    DEF StoreFails, AuthorizeSlot, ActivateSlot, Standing
  <2> QED BY <1>3, <2>1, <2>2 DEF Only
<1>10. ASSUME NEW n \in Module, Execute(n)
       PROVE  module'[m].binary \in benched'
  <2>1. R!Known(n)
    BY <1>10 DEF Execute, Selected, Pending, Active, R!Known
  <2>2. CASE UNCHANGED module
    BY <1>3, <2>2
  <2>3. CASE R!Fail(n)
    <3>1. Only(n) /\ module'[n].state = "FAILED"
      BY <1>1, <2>1, <2>3, FailEffect
    <3> QED BY <1>3, <3>1 DEF Only, Standing
  <2> QED BY <1>10, <2>2, <2>3 DEF Execute, registryVars
<1>11. CASE Shutdown
  BY <1>1, <1>3, <1>11, UnloadAllEffect DEF Shutdown
<1>12. CASE UNCHANGED module
  BY <1>3, <1>12
<1> QED
  BY <1>4, <1>5, <1>6, <1>7, <1>8, <1>9, <1>10, <1>11, <1>12
  DEF Next, Step, vars, registryVars, ConfigFails, Configured, InitFails,
      InitReady, Run, ScanEnds, NotOnInventory, StoreSucceeds, ProcessEnds,
      ExecuteEnds, MarkFailed

\* A store is only come to right after a suite that passed.
LEMMA StoreStep ==
  ASSUME Sound, Benched, [Next]_vars
  PROVE  (At("store") => module[Current].state = "QUALIFIED")'
<1>1. TypeOK /\ R!TypeOK /\ Shape
  BY DEF Sound, TypeOK
<1>2. CASE QualifySlot
  <2>1. Current \in Module
    BY <1>1, <1>2, CurrentIsKnown DEF QualifySlot, At
  <2>2. /\ Only(Current)
        /\ result' = "OK" => module'[Current].state = "QUALIFIED"
    BY <1>1, <1>2, <2>1, QualifyEffect DEF QualifySlot
  <2> QED
    BY <1>2, <2>2 DEF QualifySlot, Onward, GoTo, NextSlot, At, Current, Only
<1>3. CASE UNCHANGED vars
  BY <1>3 DEF vars, Benched, At, Current
<1>4. CASE Next /\ ~QualifySlot
  <2>1. pc' # "store"
    BY <1>4
    DEF Next, Step, Start, ConfigFails, Configured, InitFails, InitReady, Run,
        Scan, ScanEnds, VerifySlot, Restored, NotOnInventory, StoreSucceeds,
        StoreFails, AuthorizeSlot, ActivateSlot, ProcessEnds, Execute,
        ExecuteEnds, MarkFailed, Shutdown, Crash, CrashInSave, CrashFrame,
        Onward, GoTo, NextSlot, At
  <2> QED BY <2>1 DEF At
<1> QED BY <1>2, <1>3, <1>4

LEMMA ExecutedStep ==
  ASSUME Sound, Benched, [Next]_vars
  PROVE  ExecutedWasBenched'
<1>1. benched \subseteq benched' /\ TypeOK
  BY HistoryStep DEF Sound
<1>2. ASSUME NEW m \in Module, Execute(m) PROVE ExecutedWasBenched'
  <2>1. module[m].binary \in benched
    BY <1>2
    DEF Execute, Selected, Pending, Active, Benched, Standing
  <2>2. PICK ok \in BOOLEAN : executed' = Append(executed, Outcome(m, ok))
    BY <1>2 DEF Execute
  <2> DEFINE S == [id : Module, binary : Binary, ok : BOOLEAN]
             new == Outcome(m, ok)
  <2>3. executed \in Seq(S)
    BY <1>1 DEF TypeOK
  <2> HIDE DEF S, new
  <2>4. /\ Len(executed') = Len(executed) + 1 /\ Len(executed) \in Nat
        /\ \A i \in 1..Len(executed) : executed'[i] = executed[i]
        /\ executed'[Len(executed) + 1] = new
    BY <2>2, <2>3 DEF new
  <2>5. new.binary \in benched
    BY <2>1 DEF new, Outcome
  <2> QED BY <1>1, <2>4, <2>5 DEF Benched, ExecutedWasBenched
<1>3. CASE executed' = executed
  BY <1>1, <1>3 DEF Benched, ExecutedWasBenched
<1>4. CASE executed' = << >>
  BY <1>4 DEF ExecutedWasBenched
<1> QED
  BY <1>2, <1>3, <1>4
  DEF Next, Step, vars, Start, ConfigFails, Configured, InitFails, InitReady,
      Run, Scan, ScanEnds, VerifySlot, Restored, NotOnInventory, QualifySlot,
      StoreSucceeds, StoreFails, AuthorizeSlot, ActivateSlot, ProcessEnds,
      ProcessFrame, ExecuteEnds, MarkFailed, Shutdown, Crash, CrashInSave,
      CrashFrame

LEMMA BenchedInit == Init => Benched
<1> SUFFICES ASSUME Init PROVE Benched
  OBVIOUS
<1>1. \A m \in Module : module[m].state = "ABSENT"
  BY DEF Init, R!Init, R!EmptyRecord
<1> QED
  BY <1>1 DEF Init, Benched, Standing, At, ExecutedWasBenched

LEMMA AlwaysBenched == Spec => []Benched
<1>1. Sound /\ Benched /\ [Next]_vars => Benched'
  BY HistoryStep, StandingStep, StoreStep, ExecutedStep DEF Benched
<1> QED BY <1>1, BenchedInit, AlwaysSound, PTL DEF Spec

\* Over any number of processes, crashes, replaced modules and damaged
\* inventories, only binaries that passed their own suite are executed.
THEOREM OnlyBenchedExecute == Spec => []ExecutedWasBenched
<1>1. Benched => ExecutedWasBenched
  BY DEF Benched
<1> QED BY <1>1, AlwaysBenched, PTL

-----------------------------------------------------------------------------
(***************************************************************************)
(* The third invariant: memory has a record for all that has a standing,   *)
(* but for the module whose suite has just passed; and nothing is put      *)
(* through its suite that memory has a record for.                         *)
(***************************************************************************)

Vouched ==
  /\ At("qualify") => ~I!Has(records, CurrentBinary)
  /\ live => \A m \in Module : module[m].state \in Standing =>
       \/ At("store") /\ m = Current
       \/ I!Has(records, module[m].binary)

\* One record to an identifier: any record is the one that a search finds.
LEMMA RecordIsFound ==
  ASSUME IP!Inv, NEW b, NEW i \in 1..Len(records), records[i].id = b.id,
         records[i].binary = b, I!RecordValid(records[i])
  PROVE  I!Has(records, b)
<1>1. Len(records) \in Nat
  BY DEF IP!Inv, IP!TypeOK
<1>2. \A j \in 1..(i - 1) : records[j].id # b.id
  BY <1>1 DEF IP!Inv, IP!OneRecordPerId
<1>3. i \in I!Position(records, b.id)
  BY <1>2 DEF I!Position
<1> QED BY <1>3 DEF I!Has

\* A store takes no other module's record away.
LEMMA StoreKeeps ==
  ASSUME IP!Inv, IP!Inv', NEW b \in Binary, NEW report \in Report,
         \/ I!StoreFull(b) \/ I!StoreSaved(b, report)
         \/ I!StoreUnopened(b, report) \/ I!StoreUnwritten(b, report)
  PROVE  /\ \A c : c.id # b.id /\ I!Has(records, c) => I!Has(records', c)
         /\ I!StoreSaved(b, report) => I!Has(records', b)
<1>1. CASE I!StoreFull(b) /\ ~I!StoreSaved(b, report)
  BY <1>1 DEF I!StoreFull, I!inventoryVars
<1>2. CASE \/ I!StoreSaved(b, report) \/ I!StoreUnopened(b, report)
           \/ I!StoreUnwritten(b, report)
  <2>1. /\ I!HasRoom(b.id) /\ I!RecordValid(I!NewRecord(b, report))
        /\ records' = I!Placed(b, report)
        /\ earned' = earned \cup {I!NewRecord(b, report)}
    BY <1>2 DEF I!StoreSaved, I!StoreUnopened, I!StoreUnwritten, I!Storing
  <2>2. /\ IP!HasRoom(b.id)
        /\ records' = IP!Placed(b, report)
        /\ earned' = earned \cup {IP!NewRecord(b, report)}
    BY <2>1 DEF I!HasRoom, IP!HasRoom, I!Position, IP!Position, I!Placed,
                IP!Placed, I!NewRecord, IP!NewRecord
  <2>3. /\ IP!NewRecord(b, report) \in IP!Elements(records')
        /\ \A rec \in IP!Others(IP!Elements(records), b.id) :
             rec \in IP!Elements(records')
    <3>1. \A c \in Binary : c.id \in Module
      BY BinaryAssumption
    <3>2. InventoryMax \in Nat \ {0}
      BY LimitAssumption
    <3> QED BY <2>2, <3>1, <3>2, IP!PlacedNext
  <2>4. ASSUME NEW c, NEW rec \in IP!Elements(records'), rec.id = c.id,
               rec.binary = c, I!RecordValid(rec)
        PROVE  I!Has(records', c)
    <3>1. PICK i \in 1..Len(records') : rec = records'[i]
      BY DEF IP!Elements
    <3>2. Len(records') \in Nat
      BY DEF IP!Inv, IP!TypeOK
    <3>3. \A j \in 1..(i - 1) : records'[j].id # c.id
      BY <2>4, <3>1, <3>2 DEF IP!Inv, IP!OneRecordPerId
    <3>4. i \in I!Position(records', c.id)
      BY <2>4, <3>1, <3>3 DEF I!Position
    <3> QED BY <2>4, <3>1, <3>4 DEF I!Has
  <2>5. I!Has(records', b)
    BY <2>1, <2>3, <2>4 DEF I!NewRecord, IP!NewRecord
  <2>6. ASSUME NEW c, c.id # b.id, I!Has(records, c)
        PROVE  I!Has(records', c)
    <3>1. PICK i \in 1..Len(records) :
            /\ records[i].id = c.id /\ records[i].binary = c
            /\ I!RecordValid(records[i])
      BY <2>6, HasRecord
    <3>2. records[i] \in IP!Others(IP!Elements(records), b.id)
      BY <2>6, <3>1 DEF IP!Others, IP!Elements
    <3> QED BY <2>3, <2>4, <3>1, <3>2
  <2> QED BY <2>5, <2>6
<1> QED BY <1>1, <1>2

\* Qualification is come to only from a search that found nothing.
LEMMA QualifyStep ==
  ASSUME Vouched, [Next]_vars
  PROVE  (At("qualify") => ~I!Has(records, CurrentBinary))'
<1>1. CASE NotOnInventory
  BY <1>1
  DEF NotOnInventory, ProcessFrame, registryVars, inventoryData, GoTo, At,
      Current, CurrentBinary, I!Has, I!Position
<1>2. CASE UNCHANGED vars
  BY <1>2 DEF vars, Vouched, At, Current, CurrentBinary, I!Has, I!Position
<1>3. CASE Next /\ ~NotOnInventory
  <2>1. pc' # "qualify"
    BY <1>3
    DEF Next, Step, Start, ConfigFails, Configured, InitFails, InitReady, Run,
        Scan, ScanEnds, VerifySlot, Restored, QualifySlot, StoreSucceeds,
        StoreFails, AuthorizeSlot, ActivateSlot, ProcessEnds, Execute,
        ExecuteEnds, MarkFailed, Shutdown, Crash, CrashInSave, CrashFrame,
        Onward, GoTo, NextSlot, At
  <2> QED BY <2>1 DEF At
<1> QED BY <1>1, <1>2, <1>3

LEMMA VouchedStep ==
  ASSUME Sound, IP!Inv', Benched, Vouched, [Next]_vars, live',
         NEW m \in Module, module'[m].state \in Standing
  PROVE  \/ At("store")' /\ m = Current'
         \/ I!Has(records', module'[m].binary)
<1>1. TypeOK /\ R!TypeOK /\ Shape /\ IP!Inv /\ Quiet
  BY DEF Sound, TypeOK
<1>2. CASE InitReady
  <2>1. ~R!Known(m) /\ module' = module
    BY <1>1, <1>2 DEF InitReady, Quiet, registryVars
  <2> QED BY <2>1 DEF R!Known, Standing
<1>3. CASE /\ live /\ pc # "store" /\ records' = records
           /\ module[m].state \in Standing
           /\ module'[m].binary = module[m].binary
  BY <1>3 DEF Vouched, At
<1>4. ASSUME NEW b \in Binary, Scan(b)
      PROVE  I!Has(records', module'[m].binary)
  <2>1. live /\ pc # "store" /\ records' = records
    BY <1>4 DEF Scan, live, inventoryData
  <2>2. CASE UNCHANGED module
    BY <1>3, <2>1, <2>2 DEF Vouched, At
  <2>3. CASE R!Discover(b) /\ ~UNCHANGED module
    <3>1. module'[m] = module[m]
      BY <1>1, <2>3, DiscoverEffect DEF Standing
    <3> QED BY <2>1, <3>1 DEF Vouched, At
  <2> QED BY <1>4, <2>2, <2>3 DEF Scan, registryVars
<1>5. CASE VerifySlot \/ AuthorizeSlot \/ ActivateSlot
  <2>1. live /\ pc # "store" /\ records' = records
    BY <1>5 DEF VerifySlot, AuthorizeSlot, ActivateSlot, At, live,
                inventoryData
  <2>2. CASE UNCHANGED module
    BY <2>1, <2>2 DEF Vouched, At
  <2>3. CASE ~UNCHANGED module
    <3>1. Current \in Module
      BY <1>1, <1>5, CurrentIsKnown
      DEF VerifySlot, AuthorizeSlot, ActivateSlot, At
    <3>2. /\ Only(Current)
          /\ module'[Current].state \in Standing =>
               module[Current].state \in Standing
      BY <1>1, <1>5, <2>3, <3>1, VerifyEffect, AuthorizeEffect,
         ActivateEffect
      DEF VerifySlot, AuthorizeSlot, ActivateSlot, registryVars
    <3> QED BY <2>1, <3>1, <3>2 DEF Only, Vouched, At
  <2> QED BY <2>2, <2>3
<1>6. CASE Restored
  <2>1. live /\ pc # "store" /\ records' = records
    BY <1>6 DEF Restored, At, live, inventoryData
  <2>2. /\ Current \in Module /\ Only(Current)
        /\ I!Has(records, CurrentBinary)
    BY <1>1, <1>6, CurrentIsKnown, FoundReport, RestoreEffect
    DEF Restored, At
  <2>3. CASE m = Current
    BY <2>1, <2>2, <2>3 DEF Only, CurrentBinary
  <2>4. CASE m # Current
    BY <2>1, <2>2, <2>4 DEF Only, Vouched, At
  <2> QED BY <2>3, <2>4
<1>7. CASE QualifySlot
  <2>1. live /\ pc # "store" /\ records' = records
    BY <1>7 DEF QualifySlot, ProcessFrame, At, live, inventoryData
  <2>2. Current \in Module /\ cursor <= Len(slots)
    BY <1>1, <1>7, CurrentIsKnown DEF QualifySlot, At
  <2>3. /\ Only(Current)
        /\ module'[Current].state \in Standing /\ result' # "OK" =>
             module[Current].state \in Standing
    BY <1>1, <1>7, <2>2, QualifyEffect DEF QualifySlot
  <2>4. CASE m = Current /\ result' = "OK"
    BY <1>7, <2>2, <2>3, <2>4
    DEF QualifySlot, Onward, GoTo, Only, At, Current
  <2>5. CASE m # Current \/ result' # "OK"
    BY <2>1, <2>2, <2>3, <2>5 DEF Only, Vouched, At
  <2> QED BY <2>4, <2>5
<1>8. CASE StoreSucceeds \/ StoreFails
  <2> DEFINE b == CurrentBinary
             report == module[Current].qualification
  <2>1. /\ Current \in Module /\ b \in Binary /\ b.id = Current
        /\ report \in Report /\ R!Known(Current)
    BY <1>1, <1>8, CurrentIsKnown DEF StoreSucceeds, StoreFails, At
  <2>2. \/ I!StoreFull(b) \/ I!StoreSaved(b, report)
        \/ I!StoreUnopened(b, report) \/ I!StoreUnwritten(b, report)
    BY <1>8 DEF StoreSucceeds, StoreFails
  <2> HIDE DEF b, report
  <2>3. /\ \A c : c.id # b.id /\ I!Has(records, c) => I!Has(records', c)
        /\ I!StoreSaved(b, report) => I!Has(records', b)
    BY <1>1, <2>1, <2>2, StoreKeeps
  <2>4. CASE StoreSucceeds
    <3>1. module' = module /\ I!StoreSaved(b, report)
      BY <2>4 DEF StoreSucceeds, registryVars, b, report
    <3>2. CASE m = Current
      BY <2>3, <3>1, <3>2 DEF b, CurrentBinary
    <3>3. CASE m # Current
      <4>1. I!Has(records, module[m].binary) /\ module[m].binary.id = m
        BY <1>1, <2>4, <3>1, <3>3
        DEF Vouched, StoreSucceeds, At, live, Shape, R!Known, Standing
      <4> QED BY <2>1, <2>3, <3>1, <3>3, <4>1
    <3> QED BY <3>2, <3>3
  <2>5. CASE StoreFails
    <3>1. Only(Current) /\ module'[Current].state = "FAILED"
      BY <1>1, <2>1, <2>5, FailEffect DEF StoreFails
    <3>2. m # Current /\ module'[m] = module[m]
      BY <2>1, <3>1 DEF Only, Standing
    <3>3. I!Has(records, module[m].binary) /\ module[m].binary.id = m
      BY <1>1, <2>5, <3>2
      DEF Vouched, StoreFails, At, live, Shape, R!Known, Standing
    <3> QED BY <2>1, <2>3, <3>2, <3>3
  <2> QED BY <1>8, <2>4, <2>5
<1>9. ASSUME NEW n \in Module, Execute(n)
      PROVE  I!Has(records', module'[m].binary)
  <2>1. live /\ pc # "store" /\ records' = records
    BY <1>9 DEF Execute, ExecuteFrame, live, inventoryData
  <2>2. R!Known(n)
    BY <1>9 DEF Execute, Selected, Pending, Active, R!Known
  <2>3. CASE UNCHANGED module
    BY <2>1, <2>3 DEF Vouched, At
  <2>4. CASE R!Fail(n)
    <3>1. Only(n) /\ module'[n].state = "FAILED"
      BY <1>1, <2>2, <2>4, FailEffect
    <3> QED BY <2>1, <3>1 DEF Only, Standing, Vouched, At
  <2> QED BY <1>9, <2>3, <2>4 DEF Execute, registryVars
<1>10. CASE Run \/ ScanEnds \/ NotOnInventory \/ ProcessEnds \/ ExecuteEnds
            \/ MarkFailed
  BY <1>3, <1>10
  DEF Run, ScanEnds, NotOnInventory, ProcessEnds, ExecuteEnds, ExecuteFrame,
      MarkFailed, At, live, registryVars, inventoryData
<1>11. CASE UNCHANGED vars
  BY <1>11 DEF vars, Vouched, At, Current, live
<1>12. CASE \/ Start \/ ConfigFails \/ Configured \/ InitFails \/ Shutdown
            \/ Crash \/ CrashInSave
  BY <1>12 DEF Start, ConfigFails, Configured, InitFails, Shutdown, Crash,
               CrashInSave, CrashFrame, live
<1> QED
  BY <1>2, <1>4, <1>5, <1>6, <1>7, <1>8, <1>9, <1>10, <1>11, <1>12
  DEF Next, Step

LEMMA VouchedInit == Init => Vouched
BY DEF Init, Vouched, At, live

LEMMA AlwaysVouched == Spec => []Vouched
<1>1. Sound /\ Benched /\ Vouched /\ [Next]_vars => Vouched'
  <2> SUFFICES ASSUME Sound, Benched, Vouched, [Next]_vars
               PROVE  Vouched'
    OBVIOUS
  <2>1. IP!Inv'
    BY InventoryStep
  <2> QED BY <2>1, QualifyStep, VouchedStep DEF Vouched
<1> QED BY <1>1, VouchedInit, AlwaysSound, AlwaysBenched, PTL DEF Spec

\* The inventory in memory vouches for every active module.
THEOREM ActiveModulesAreOnInventory == Spec => []ActiveIsOnInventory
<1>1. Vouched /\ Benched => ActiveIsOnInventory
  BY DEF Vouched, Benched, ActiveIsOnInventory, Active, Standing
<1> QED BY <1>1, AlwaysVouched, AlwaysBenched, PTL

\* What the file durably holds is not qualified again.
THEOREM DurableIsNotRebenched == Spec => []UnchangedNotRebenched
<1>1. Sound /\ Benched /\ Vouched => UnchangedNotRebenched
  <2> SUFFICES ASSUME Sound, Benched, Vouched, At("qualify"),
                      NEW rec \in durable, rec.binary = CurrentBinary
               PROVE  FALSE
    BY DEF UnchangedNotRebenched
  <2>1. IP!Inv /\ live
    BY DEF Sound, At, live
  <2>2. /\ rec \in IP!Elements(records)
        /\ rec \in IP!Elements(IP!Loaded(file))
    BY <2>1 DEF IP!Inv, IP!Durable
  <2>3. I!RecordValid(rec)
    BY <2>2 DEF IP!Elements, IP!Loaded, IP!Readable, IP!AllReadBack,
                IP!ReadsBack, IP!RecordValid, I!RecordValid
  <2>4. PICK i \in 1..Len(records) : records[i] = rec
    BY <2>2 DEF IP!Elements
  <2>5. rec \in earned
    BY <2>1, <2>4 DEF IP!Inv, IP!FromStores
  <2>6. rec.id = CurrentBinary.id
    BY <2>5 DEF Benched
  <2>7. I!Has(records, CurrentBinary)
    BY <2>1, <2>3, <2>4, <2>6, RecordIsFound
  <2> QED BY <2>7 DEF Vouched
<1> QED BY <1>1, AlwaysSound, AlwaysBenched, AlwaysVouched, PTL

-----------------------------------------------------------------------------
(***************************************************************************)
(* The fourth invariant: what is executed is in order, and while it goes   *)
(* on, each active module has been executed or is still to come.           *)
(***************************************************************************)

Before(a, b) ==
  \/ a.binary.stage < b.binary.stage
  \/ a.binary.stage = b.binary.stage /\ a.id < b.id

InOrder(s) == \A i, j \in 1..Len(s) : i < j => s[i].ok /\ Before(s[i], s[j])

AllOk(s) == \A i \in 1..Len(s) : s[i].ok

WasExecuted(m) == \E i \in 1..Len(executed) : executed[i].id = m

Complete == AllOk(executed) /\ \A m \in Active : WasExecuted(m)

Ordered ==
  /\ pc \notin {"execute", "failed", "shutdown", "off"} => executed = << >>
  /\ \A i \in 1..Len(executed) :
       executed[i].binary = module[executed[i].id].binary
  /\ InOrder(executed)
  /\ pc = "execute" =>
       /\ AllOk(executed)
       /\ \A m \in Active : m \in Pending \/ WasExecuted(m)
  /\ pc = "shutdown" /\ coreState # "FAILED" => Complete
  /\ pc # "off" => exit = "none"
  /\ SuccessIsComplete

Executions == [id : Module, binary : Binary, ok : BOOLEAN]

\* The order of stages and identifiers is an order.
LEMMA BeforeIsTransitive ==
  ASSUME NEW a \in Executions, NEW b \in Executions, NEW c \in Executions,
         Before(a, b), Before(b, c)
  PROVE  Before(a, c)
<1>1. /\ a.binary.stage \in Nat /\ b.binary.stage \in Nat
      /\ c.binary.stage \in Nat
      /\ a.id \in Nat /\ b.id \in Nat /\ c.id \in Nat
  BY BinaryAssumption, IdentifierAssumption DEF Executions
<1> QED BY <1>1 DEF Before

\* One more at the end, after the one that was last.
LEMMA AppendInOrder ==
  ASSUME NEW s \in Seq(Executions), NEW x \in Executions, AllOk(s),
         InOrder(s), s # << >> => Before(s[Len(s)], x)
  PROVE  InOrder(Append(s, x)) /\ (x.ok => AllOk(Append(s, x)))
<1> DEFINE t == Append(s, x)
           n == Len(s)
<1>1. /\ n \in Nat /\ Len(t) = n + 1 /\ t[n + 1] = x
      /\ \A i \in 1..n : t[i] = s[i] /\ s[i] \in Executions
  BY ElementOfSeq
<1>2. n # 0 => s # << >>
  OBVIOUS
<1> HIDE DEF t, n
<1>3. ASSUME NEW i \in 1..n PROVE Before(s[i], x)
  <2>1. n # 0 /\ Before(s[n], x) /\ s[n] \in Executions
    BY <1>1, <1>2, <1>3 DEF n
  <2>2. CASE i = n
    BY <2>1, <2>2
  <2>3. CASE i # n
    <3>1. Before(s[i], s[n])
      BY <1>1, <1>3, <2>3 DEF InOrder, n
    <3> QED BY <1>1, <2>1, <3>1, BeforeIsTransitive
  <2> QED BY <2>2, <2>3
<1>4. \A i \in 1..n : t[i].ok
  BY <1>1 DEF AllOk, n
<1>5. ASSUME NEW i \in 1..Len(t), NEW j \in 1..Len(t), i < j
      PROVE  t[i].ok /\ Before(t[i], t[j])
  <2>1. i \in 1..n /\ t[i] = s[i]
    BY <1>1, <1>5
  <2>2. CASE j = n + 1
    BY <1>1, <1>3, <1>4, <2>1, <2>2
  <2>3. CASE j # n + 1
    <3>1. j \in 1..n /\ t[j] = s[j]
      BY <1>1, <1>5, <2>3
    <3> QED BY <1>4, <1>5, <2>1, <3>1 DEF InOrder, n
  <2> QED BY <2>2, <2>3
<1>6. InOrder(t)
  BY <1>5 DEF InOrder
<1>7. x.ok => AllOk(t)
  BY <1>1, <1>4 DEF AllOk
<1> QED BY <1>6, <1>7 DEF t

LEMMA StagesAreNumbers ==
  ASSUME TypeOK, Shape, NEW m \in Active
  PROVE  /\ m \in Module /\ m \in Nat /\ StageOf(m) \in Nat
         /\ module[m].binary \in Binary
BY IdentifierAssumption, BinaryAssumption
DEF Active, Shape, R!Known, StageOf

\* While anything is pending, one module is selected.
LEMMA SomethingIsSelected ==
  ASSUME TypeOK, Shape, Pending # {}
  PROVE  Selected # {}
<1>1. \A m \in Pending : m \in Active /\ m \in Nat /\ StageOf(m) \in Nat
  BY StagesAreNumbers DEF Pending
<1> DEFINE T == {StageOf(m) : m \in Pending}
<1>2. T \in SUBSET Nat /\ T # {}
  BY <1>1
<1>3. PICK s \in T : \A t \in T : s <= t
  <2> HIDE DEF T
  <2> QED BY <1>2, LeastOfSet
<1> DEFINE U == {m \in Pending : StageOf(m) = s}
<1>4. U \in SUBSET Nat /\ U # {}
  BY <1>1, <1>3
<1>5. PICK n \in U : \A u \in U : n <= u
  <2> HIDE DEF U
  <2> QED BY <1>4, LeastOfSet
<1>6. ASSUME NEW m \in Pending, m # n PROVE Precedes(n, m)
  <2>1. s <= StageOf(m) /\ StageOf(n) = s /\ s \in Nat
    BY <1>2, <1>3, <1>5
  <2>2. CASE StageOf(m) = s
    <3>1. n <= m /\ n \in Nat /\ m \in Nat
      BY <1>1, <1>5, <2>2
    <3> QED BY <1>6, <2>1, <2>2, <3>1 DEF Precedes
  <2>3. CASE StageOf(m) # s
    BY <1>1, <2>1, <2>3 DEF Precedes
  <2> QED BY <2>2, <2>3
<1>7. n \in Selected
  BY <1>5, <1>6 DEF Selected
<1> QED BY <1>7

LEMMA ExecuteOrdered ==
  ASSUME Sound, Ordered, NEW m \in Module, Execute(m)
  PROVE  Ordered'
<1>1. TypeOK /\ R!TypeOK /\ Shape
  BY DEF Sound, TypeOK
<1>2. PICK ok \in BOOLEAN :
        /\ executed' = Append(executed, Outcome(m, ok))
        /\ ok => UNCHANGED <<registryVars, pc>>
        /\ ~ok => R!Fail(m) /\ pc' = "failed"
  BY DEF Execute
<1>3. /\ pc = "execute" /\ m \in Pending /\ m \in Active
      /\ \A n \in Pending : n = m \/ Precedes(m, n)
      /\ exit' = exit /\ exit = "none"
  BY DEF Execute, ExecuteFrame, Selected, Pending, Ordered
<1> DEFINE new == Outcome(m, ok)
<1>4. executed \in Seq(Executions) /\ new \in Executions
  BY <1>1, <1>3, StagesAreNumbers DEF TypeOK, Executions, Outcome
<1>5. \A n \in Module : module'[n].binary = module[n].binary
  <2>1. CASE ok
    BY <1>2, <2>1 DEF registryVars
  <2>2. CASE ~ok
    BY <1>1, <1>2, <1>3, <2>2, FailEffect DEF Only, Active, R!Known
  <2> QED BY <2>1, <2>2
<1>6. new.id = m /\ new.binary = module[m].binary /\ new.ok = ok
  BY DEF Outcome
<1> HIDE DEF new
<1>7. /\ Len(executed) \in Nat /\ Len(executed') = Len(executed) + 1
      /\ executed'[Len(executed) + 1] = new
      /\ \A i \in 1..Len(executed) :
           executed'[i] = executed[i] /\ executed[i] \in Executions
      /\ executed' # << >>
  BY <1>2, <1>4, ElementOfSeq DEF new
<1>8. executed # << >> => Before(executed[Len(executed)], new)
  <2> SUFFICES ASSUME executed # << >>
               PROVE  Before(executed[Len(executed)], new)
    OBVIOUS
  <2>1. Len(executed) \in 1..Len(executed)
    BY <1>4
  <2>2. executed[Len(executed)].binary = module[Last].binary
    BY <2>1 DEF Ordered, Last
  <2>3. Precedes(Last, m)
    BY <1>3 DEF Pending
  <2> QED BY <1>6, <2>2, <2>3 DEF Precedes, Before, StageOf, Last
<1>9. InOrder(executed') /\ (ok => AllOk(executed'))
  <2>1. AllOk(executed) /\ InOrder(executed)
    BY <1>3 DEF Ordered
  <2>2. /\ InOrder(Append(executed, new))
        /\ new.ok => AllOk(Append(executed, new))
    BY <1>4, <1>8, <2>1, AppendInOrder
  <2> QED BY <1>2, <1>6, <2>2 DEF new
<1>10. \A i \in 1..Len(executed') :
         executed'[i].binary = module'[executed'[i].id].binary
  <2> TAKE i \in 1..Len(executed')
  <2>1. CASE i = Len(executed) + 1
    BY <1>5, <1>6, <1>7, <2>1
  <2>2. CASE i # Len(executed) + 1
    <3>1. i \in 1..Len(executed)
      BY <1>7, <2>2
    <3> QED BY <1>5, <1>7, <3>1 DEF Ordered, Executions
  <2> QED BY <2>1, <2>2
<1>11. ok => \A n \in Active' : n \in Pending' \/ WasExecuted(n)'
  <2> SUFFICES ASSUME ok, NEW n \in Active'
               PROVE  n \in Pending' \/ WasExecuted(n)'
    OBVIOUS
  <2>1. module' = module /\ n \in Active
    BY <1>2 DEF registryVars, Active
  <2>2. Last' = m
    BY <1>6, <1>7 DEF Last
  <2>3. CASE WasExecuted(n)
    BY <1>7, <2>3 DEF WasExecuted
  <2>4. CASE n = m
    BY <1>6, <1>7, <2>4 DEF WasExecuted
  <2>5. CASE n \in Pending /\ n # m
    <3>1. Precedes(m, n)
      BY <1>3, <2>5
    <3>2. Precedes(Last, n)'
      BY <2>1, <2>2, <3>1 DEF Precedes, StageOf
    <3> QED BY <3>2 DEF Pending
  <2> QED BY <1>3, <2>1, <2>3, <2>4, <2>5 DEF Ordered
<1>12. pc' \in {"execute", "failed"} /\ (pc' = "execute" => ok)
  BY <1>2, <1>3
<1>13. SuccessIsComplete'
  BY <1>3 DEF SuccessIsComplete
<1> QED
  BY <1>3, <1>9, <1>10, <1>11, <1>12, <1>13 DEF Ordered

LEMMA OrderedStep ==
  ASSUME Sound, Ordered, [Next]_vars
  PROVE  Ordered'
<1>1. TypeOK /\ R!TypeOK /\ Shape
  BY DEF Sound, TypeOK
<1>2. ASSUME NEW m \in Module, Execute(m) PROVE Ordered'
  BY <1>2, ExecuteOrdered
<1>3. CASE ExecuteEnds
  <2>1. Pending = {}
    BY <1>1, <1>3, SomethingIsSelected DEF ExecuteEnds
  <2>2. Complete
    BY <1>3, <2>1 DEF ExecuteEnds, Ordered, Complete
  <2>3. /\ executed' = executed /\ module' = module
        /\ pc' = "shutdown" /\ exit' = exit /\ exit = "none"
    BY <1>3 DEF ExecuteEnds, ExecuteFrame, registryVars, Ordered
  <2>4. Complete'
    BY <2>2, <2>3 DEF Complete, Active, WasExecuted
  <2>5. SuccessIsComplete'
    BY <2>3 DEF SuccessIsComplete
  <2> QED BY <2>3, <2>4, <2>5 DEF Ordered
<1>4. CASE MarkFailed
  BY <1>4 DEF MarkFailed, registryVars, Ordered, SuccessIsComplete
<1>5. CASE Shutdown
  <2>1. /\ pc = "shutdown" /\ pc' = "off" /\ executed' = executed
        /\ exit' = "SUCCESS" => coreState # "FAILED"
    BY <1>5 DEF Shutdown
  <2>2. \A m \in Module : /\ module'[m].binary = module[m].binary
                          /\ module'[m].state = module[m].state
                          /\ ~module'[m].loaded
    BY <1>1, <1>5, UnloadAllEffect DEF Shutdown
  <2>3. Active' = Active
    BY <2>2 DEF Active
  <2>4. ASSUME exit' = "SUCCESS" PROVE SuccessIsComplete'
    BY <2>1, <2>2, <2>3, <2>4
    DEF Ordered, Complete, AllOk, WasExecuted, SuccessIsComplete
  <2>5. SuccessIsComplete'
    BY <2>4 DEF SuccessIsComplete
  <2>6. \A i \in 1..Len(executed) : executed[i].id \in Module
    <3>1. executed \in Seq(Executions)
      BY <1>1 DEF TypeOK, Executions
    <3>2. \A i \in 1..Len(executed) : executed[i] \in Executions
      BY <3>1, ElementOfSeq
    <3> QED BY <3>2 DEF Executions
  <2> QED BY <2>1, <2>2, <2>5, <2>6 DEF Ordered
<1>6. CASE Start \/ Crash \/ CrashInSave
  <2>1. executed' = << >> /\ pc' \in {"off", "config"} /\ exit' = "none"
    BY <1>6 DEF Start, Crash, CrashInSave, CrashFrame, At, Ordered
  <2>2. Len(executed') = 0
    BY <2>1
  <2> QED BY <2>1, <2>2 DEF Ordered, InOrder, SuccessIsComplete
<1>7. CASE UNCHANGED vars
  BY <1>7 DEF vars, Ordered, Complete, WasExecuted, Active, Pending,
              Precedes, StageOf, Last, SuccessIsComplete
<1>8. CASE /\ Next /\ ~(\E m \in Module : Execute(m))
           /\ ~(ExecuteEnds \/ MarkFailed \/ Shutdown)
           /\ ~(Start \/ Crash \/ CrashInSave)
  <2>1. /\ pc \notin {"execute", "failed", "shutdown", "off"}
        /\ executed' = executed /\ exit' \in {exit, "FAILURE"}
        /\ pc' # "shutdown" /\ (pc' # "off" => exit' = exit)
    BY <1>8
    DEF Next, Step, ConfigFails, Configured, InitFails, InitReady, Run, Scan,
        ScanEnds, VerifySlot, Restored, NotOnInventory, QualifySlot,
        StoreSucceeds, StoreFails, AuthorizeSlot, ActivateSlot, ProcessEnds,
        ProcessFrame, Onward, GoTo, NextSlot, At
  <2>2. executed' = << >> /\ Len(executed') = 0 /\ exit = "none"
    BY <2>1 DEF Ordered
  <2>3. exit' # "SUCCESS"
    BY <2>1, <2>2
  <2>4. \A m \in Active' : m \in Pending'
    BY <2>2 DEF Pending
  <2> QED
    BY <2>1, <2>2, <2>3, <2>4 DEF Ordered, InOrder, AllOk, SuccessIsComplete
<1> QED
  BY <1>2, <1>3, <1>4, <1>5, <1>6, <1>7, <1>8

LEMMA AlwaysOrdered == Spec => []Ordered
<1>1. Init => Ordered
  BY DEF Init, Ordered, InOrder, SuccessIsComplete
<1>2. Sound /\ Ordered /\ [Next]_vars => Ordered'
  BY OrderedStep
<1> QED BY <1>1, <1>2, AlwaysSound, PTL DEF Spec

\* Modules execute in the order of stage and identifier, and none after one
\* that failed.
THEOREM ModulesExecuteInOrder == Spec => []ExecutionOrder
<1>1. Ordered => ExecutionOrder
  BY DEF Ordered, InOrder, Before, ExecutionOrder
<1> QED BY <1>1, AlwaysOrdered, PTL

\* A run that reports success has executed every active module.
THEOREM SuccessMeansComplete == Spec => []SuccessIsComplete
<1>1. Ordered => SuccessIsComplete
  BY DEF Ordered
<1> QED BY <1>1, AlwaysOrdered, PTL

-----------------------------------------------------------------------------
(***************************************************************************)
(* How long a process can go on. A module is executed once and has a slot, *)
(* so that there are no more executions than slots.                        *)
(***************************************************************************)

InSlot(m) == \E i \in 1..Len(slots) : slots[i] = m

Listed ==
  /\ \A m \in Module : R!Known(m) => InSlot(m)
  /\ \A i \in 1..Len(executed) : R!Known(executed[i].id)

\* What a step does to the array of records: nothing, an entry, all over.
LEMMA ArraySteps ==
  ASSUME Sound, [Next]_vars
  PROVE  \/ /\ slots' = slots
            /\ \A m \in Module : R!Known(m)' <=> R!Known(m)
         \/ \E b \in Binary :
              /\ slots' = Append(slots, b.id)
              /\ \A m \in Module : R!Known(m)' <=> R!Known(m) \/ m = b.id
         \/ /\ \A m \in Module : ~R!Known(m)'
            /\ executed' = << >>
<1> DEFINE Same == /\ slots' = slots
                   /\ \A m \in Module : R!Known(m)' <=> R!Known(m)
           Grown == \E b \in Binary :
                      /\ slots' = Append(slots, b.id)
                      /\ \A m \in Module :
                           R!Known(m)' <=> R!Known(m) \/ m = b.id
           Blank == /\ \A m \in Module : ~R!Known(m)'
                    /\ executed' = << >>
<1> SUFFICES Same \/ Grown \/ Blank
  OBVIOUS
<1>1. TypeOK /\ R!TypeOK /\ Shape
  BY DEF Sound, TypeOK
<1>2. CASE Start \/ Crash \/ CrashInSave
  BY <1>2, BlankIsSound DEF Start, Crash, CrashInSave, CrashFrame
<1>3. CASE UNCHANGED registryVars
  BY <1>3 DEF registryVars, R!Known
<1>4. ASSUME NEW m \in Module, Only(m) PROVE Same
  BY <1>4 DEF Only, R!Known
<1>5. ASSUME NEW b \in Binary, Scan(b) PROVE Same \/ Grown
  <2>1. CASE UNCHANGED registryVars
    BY <2>1 DEF registryVars, R!Known
  <2>2. CASE R!Discover(b)
    <3>1. b.id \in Module
      BY BinaryAssumption
    <3>2. \/ UNCHANGED <<slots, module>>
          \/ /\ slots' = Append(slots, b.id)
             /\ module'[b.id].state = "DISCOVERED"
             /\ \A n \in Module \ {b.id} : module'[n] = module[n]
      BY <1>1, <2>2, DiscoverEffect
    <3> QED BY <3>1, <3>2 DEF R!Known
  <2> QED BY <1>5, <2>1, <2>2 DEF Scan
<1>6. CASE VerifySlot
  <2>1. CASE UNCHANGED registryVars
    BY <1>3, <2>1
  <2>2. CASE module[Current].state = "DISCOVERED" /\ R!Verify(Current)
    BY <1>1, <1>4, <1>6, <2>2, CurrentIsKnown, VerifyEffect
    DEF VerifySlot, At
  <2> QED BY <1>6, <2>1, <2>2 DEF VerifySlot
<1>7. CASE Restored
  BY <1>1, <1>4, <1>7, CurrentIsKnown, FoundReport, RestoreEffect
  DEF Restored, At
<1>8. CASE QualifySlot
  BY <1>1, <1>4, <1>8, CurrentIsKnown, QualifyEffect DEF QualifySlot, At
<1>9. CASE StoreFails
  BY <1>1, <1>4, <1>9, CurrentIsKnown, FailEffect DEF StoreFails, At
<1>10. CASE AuthorizeSlot
  BY <1>1, <1>4, <1>10, CurrentIsKnown, AuthorizeEffect
  DEF AuthorizeSlot, At
<1>11. CASE ActivateSlot
  BY <1>1, <1>4, <1>11, CurrentIsKnown, ActivateEffect
  DEF ActivateSlot, At
<1>12. ASSUME NEW m \in Module, Execute(m) PROVE Same
  <2>1. R!Known(m)
    BY <1>12 DEF Execute, Selected, Pending, Active, R!Known
  <2>2. CASE UNCHANGED registryVars
    BY <2>2 DEF registryVars, R!Known
  <2>3. CASE R!Fail(m)
    BY <1>1, <1>4, <2>1, <2>3, FailEffect
  <2> QED BY <1>12, <2>2, <2>3 DEF Execute
<1>13. CASE Shutdown
  BY <1>1, <1>13, UnloadAllEffect DEF Shutdown, R!Known
<1> HIDE DEF Same, Grown, Blank
<1> QED
  BY <1>2, <1>3, <1>5, <1>6, <1>7, <1>8, <1>9, <1>10, <1>11, <1>12, <1>13
  DEF Next, Step, vars, registryVars, ConfigFails, Configured, InitFails,
      InitReady, Run, ScanEnds, NotOnInventory, StoreSucceeds, ProcessEnds,
      ExecuteEnds, MarkFailed

\* What a step does to the executions.
LEMMA ExecutionSteps ==
  ASSUME Sound, [Next]_vars
  PROVE  \/ executed' \in {executed, << >>}
         \/ \E m \in Module : \E ok \in BOOLEAN :
              R!Known(m) /\ executed' = Append(executed, Outcome(m, ok))
<1>1. ASSUME NEW m \in Module, Execute(m)
      PROVE  \E ok \in BOOLEAN :
               R!Known(m) /\ executed' = Append(executed, Outcome(m, ok))
  <2>1. R!Known(m)
    BY <1>1 DEF Execute, Selected, Pending, Active, R!Known
  <2> QED BY <1>1, <2>1 DEF Execute
<1>2. (\E m \in Module : Execute(m)) \/ executed' \in {executed, << >>}
  BY DEF Next, Step, vars, Start, ConfigFails, Configured, InitFails,
         InitReady, Run, Scan, ScanEnds, VerifySlot, Restored,
         NotOnInventory, QualifySlot, StoreSucceeds, StoreFails,
         AuthorizeSlot, ActivateSlot, ProcessEnds, ProcessFrame,
         ExecuteEnds, MarkFailed, Shutdown, Crash, CrashInSave, CrashFrame
<1> QED BY <1>1, <1>2

LEMMA ListedStep == Sound /\ Listed /\ [Next]_vars => Listed'
<1> SUFFICES ASSUME Sound, Listed, [Next]_vars PROVE Listed'
  OBVIOUS
<1>1. /\ TypeOK /\ slots \in Seq(Module) /\ Len(slots) \in Nat
      /\ executed \in Seq(Executions) /\ Len(executed) \in Nat
      /\ \A i \in 1..Len(executed) : executed[i].id \in Module
  <2>1. /\ TypeOK /\ slots \in Seq(Module) /\ executed \in Seq(Executions)
    BY DEF Sound, TypeOK, R!TypeOK, Executions
  <2>2. \A i \in 1..Len(executed) : executed[i] \in Executions
    BY <2>1, ElementOfSeq
  <2> QED BY <2>1, <2>2 DEF Executions
<1>2. CASE (\A m \in Module : ~R!Known(m)') /\ executed' = << >>
  <2>1. Len(executed') = 0
    BY <1>2
  <2> QED BY <1>2, <2>1 DEF Listed
<1>3. CASE \/ /\ slots' = slots
              /\ \A m \in Module : R!Known(m)' <=> R!Known(m)
           \/ \E b \in Binary :
                /\ slots' = Append(slots, b.id)
                /\ \A m \in Module : R!Known(m)' <=> R!Known(m) \/ m = b.id
  <2>1. \A m \in Module : R!Known(m) => R!Known(m)'
    BY <1>3
  <2>2. \A m \in Module : R!Known(m)' => InSlot(m)'
    <3>1. CASE /\ slots' = slots
               /\ \A m \in Module : R!Known(m)' <=> R!Known(m)
      BY <3>1 DEF Listed, InSlot
    <3>2. ASSUME NEW b \in Binary, slots' = Append(slots, b.id),
                 \A m \in Module : R!Known(m)' <=> R!Known(m) \/ m = b.id
          PROVE  \A m \in Module : R!Known(m)' => InSlot(m)'
      <4>1. /\ Len(slots') = Len(slots) + 1
            /\ slots'[Len(slots) + 1] = b.id
            /\ \A i \in 1..Len(slots) : slots'[i] = slots[i]
        BY <1>1, <3>2, BinaryAssumption
      <4>2. /\ Len(slots) + 1 \in 1..Len(slots')
            /\ \A i \in 1..Len(slots) : i \in 1..Len(slots')
        BY <1>1, <4>1
      <4> TAKE m \in Module
      <4>3. CASE m = b.id
        BY <4>1, <4>2, <4>3 DEF InSlot
      <4>4. CASE R!Known(m)
        <5>1. PICK i \in 1..Len(slots) : slots[i] = m
          BY <4>4 DEF Listed, InSlot
        <5> QED BY <4>1, <4>2, <5>1 DEF InSlot
      <4> QED BY <3>2, <4>3, <4>4
    <3> QED BY <1>3, <3>1, <3>2
  <2>3. ASSUME NEW i \in 1..Len(executed')
        PROVE  module'[executed'[i].id].state # "ABSENT"
    <3>1. CASE executed' = executed
      <4>1. executed[i].id \in Module /\ R!Known(executed[i].id)
        BY <1>1, <2>3, <3>1 DEF Listed
      <4> QED BY <2>1, <3>1, <4>1 DEF R!Known
    <3>2. CASE executed' = << >>
      BY <2>3, <3>2
    <3>3. ASSUME NEW m \in Module, NEW ok \in BOOLEAN, R!Known(m),
                 executed' = Append(executed, Outcome(m, ok))
          PROVE  module'[executed'[i].id].state # "ABSENT"
      <4> DEFINE n == Len(executed)
                 x == Outcome(m, ok)
      <4>1. x.id = m
        BY DEF Outcome
      <4> HIDE DEF x
      <4>2. /\ Len(executed') = n + 1 /\ executed'[n + 1] = x
            /\ \A j \in 1..n : executed'[j] = executed[j]
        BY <1>1, <3>3 DEF x
      <4>3. CASE i = n + 1
        BY <2>1, <3>3, <4>1, <4>2, <4>3 DEF R!Known
      <4>4. CASE i # n + 1
        <5>1. i \in 1..n
          BY <1>1, <2>3, <4>2, <4>4
        <5>2. /\ executed[i].id \in Module /\ R!Known(executed[i].id)
              /\ executed'[i] = executed[i]
          BY <1>1, <4>2, <5>1 DEF Listed
        <5> QED BY <2>1, <5>2 DEF R!Known
      <4> QED BY <4>3, <4>4
    <3> QED BY <3>1, <3>2, <3>3, ExecutionSteps
  <2> QED BY <2>2, <2>3 DEF Listed, R!Known
<1> QED BY <1>2, <1>3, ArraySteps

LEMMA AlwaysListed == Spec => []Listed
<1>1. Init => Listed
  <2> SUFFICES ASSUME Init PROVE Listed
    OBVIOUS
  <2>1. /\ module = [m \in Module |-> R!EmptyRecord]
        /\ Len(executed) = 0
    BY DEF Init, R!Init
  <2> QED BY <2>1 DEF Listed, R!Known, R!EmptyRecord
<1>2. Sound /\ Listed /\ [Next]_vars => Listed'
  BY ListedStep
<1> QED BY <1>1, <1>2, AlwaysSound, PTL DEF Spec

Fits == Len(executed) \in Nat /\ Len(executed) <= RegistryMax

LEMMA ExecutedFits ==
  ASSUME Sound, Ordered, Listed
  PROVE  Fits
<1> DEFINE n == Len(executed)
           k == Len(slots)
           Slot(i) == CHOOSE j \in 1..k : slots[j] = executed[i].id
           f == [i \in 1..n |-> Slot(i)]
<1>1. /\ executed \in Seq(Executions) /\ n \in Nat /\ k \in Nat
      /\ k <= RegistryMax /\ RegistryMax \in Nat
      /\ slots \in Seq(Module)
  BY LimitAssumption DEF Sound, TypeOK, R!TypeOK, Shape, Executions
<1>2. \A i \in 1..n : executed[i] \in Executions
  BY <1>1, ElementOfSeq
<1>3. ASSUME NEW i \in 1..n
      PROVE  Slot(i) \in 1..k /\ slots[Slot(i)] = executed[i].id
  <2>1. executed[i].id \in Module
    BY <1>2 DEF Executions
  <2>2. \E j \in 1..k : slots[j] = executed[i].id
    BY <2>1 DEF Listed, InSlot
  <2> QED BY <2>2
<1>4. ASSUME NEW i \in 1..n, NEW j \in 1..n, i < j
      PROVE  executed[i].id # executed[j].id
  <2> SUFFICES ASSUME executed[i].id = executed[j].id PROVE FALSE
    OBVIOUS
  <2>1. executed[i].binary = executed[j].binary
    BY DEF Ordered
  <2>2. Before(executed[i], executed[j])
    BY <1>4 DEF Ordered, InOrder
  <2>3. /\ executed[i].binary.stage \in Nat /\ executed[i].id \in Nat
    BY <1>2, BinaryAssumption, IdentifierAssumption DEF Executions
  <2> QED BY <2>1, <2>2, <2>3 DEF Before
<1>5. f \in [1..n -> 1..k]
  BY <1>3
<1>6. ASSUME NEW i \in 1..n, NEW j \in 1..n, f[i] = f[j] PROVE i = j
  <2>1. executed[i].id = executed[j].id
    BY <1>3, <1>6
  <2>2. ~(i < j) /\ ~(j < i)
    BY <1>4, <2>1
  <2> QED BY <2>2
<1>7. f \in Injection(1..n, 1..k)
  <2> HIDE DEF f
  <2> QED BY <1>5, <1>6 DEF Injection, IsInjective
<1> HIDE DEF f, n, k
<1>8. /\ IsFiniteSet(1..k) /\ IsFiniteSet(1..n)
      /\ Cardinality(1..n) = n /\ Cardinality(1..k) = k
  <2>1. 1 \in Int /\ n \in Int /\ (1 > n => n = 0) /\ k \in Int
        /\ (1 > k => k = 0)
    BY <1>1
  <2>2. /\ IsFiniteSet(1..n)
        /\ Cardinality(1..n) = IF 1 > n THEN 0 ELSE n - 1 + 1
    BY <2>1, FS_Interval
  <2>3. /\ IsFiniteSet(1..k)
        /\ Cardinality(1..k) = IF 1 > k THEN 0 ELSE k - 1 + 1
    BY <2>1, FS_Interval
  <2> QED BY <2>1, <2>2, <2>3
<1>9. Cardinality(1..n) <= Cardinality(1..k)
  BY <1>7, <1>8, FS_Injection
<1>10. n <= RegistryMax
  BY <1>1, <1>8, <1>9
<1> QED BY <1>1, <1>10 DEF n, Fits

LEMMA AlwaysFits == Spec => []Fits
<1>1. Sound /\ Ordered /\ Listed => Fits
  BY ExecutedFits
<1> QED BY <1>1, AlwaysSound, AlwaysOrdered, AlwaysListed, PTL

\* The calls that a module in a slot can still need.
Turn == IF pc = "process" THEN 5
        ELSE IF pc = "lookup" THEN 4
        ELSE IF pc = "qualify" THEN 3
        ELSE IF pc = "store" THEN 2
        ELSE IF pc = "authorize" THEN 1 ELSE 0

\* The steps a process can still take: the places still to come, the binaries
\* to scan, six calls for each slot and an execution of each.
StepsLeft ==
  IF pc = "off" THEN 0
  ELSE IF pc = "shutdown" THEN 1
  ELSE IF pc = "failed" THEN 2
  ELSE IF pc = "execute" THEN 3 + RegistryMax - Len(executed)
  ELSE IF pc = "scan" THEN 10 + 7 * RegistryMax + Cardinality(unscanned)
  ELSE IF pc = "run" THEN 11 + 7 * RegistryMax + Cardinality(Binary)
  ELSE IF pc = "init" THEN 12 + 7 * RegistryMax + Cardinality(Binary)
  ELSE IF pc = "config" THEN 13 + 7 * RegistryMax + Cardinality(Binary)
  ELSE 4 + RegistryMax + 6 * (RegistryMax + 1 - cursor) + Turn

LEMMA StepsLeftType ==
  ASSUME Sound, Fits, IsFiniteSet(Binary)
  PROVE  /\ StepsLeft \in Nat
         /\ pc # "off" => StepsLeft > 0
         /\ RegistryMax \in Nat /\ Len(executed) \in Nat
         /\ cursor \in 1..(RegistryMax + 1)
         /\ Cardinality(Binary) \in Nat
         /\ IsFiniteSet(unscanned) /\ Cardinality(unscanned) \in Nat
         /\ Cardinality(unscanned) <= Cardinality(Binary)
<1>1. /\ RegistryMax \in Nat /\ cursor \in 1..(RegistryMax + 1)
      /\ unscanned \in SUBSET Binary
  BY LimitAssumption DEF Sound, TypeOK
<1>2. Len(executed) \in Nat /\ Len(executed) <= RegistryMax
  BY DEF Fits
<1>3. /\ Cardinality(Binary) \in Nat
      /\ IsFiniteSet(unscanned) /\ Cardinality(unscanned) \in Nat
      /\ Cardinality(unscanned) <= Cardinality(Binary)
  BY <1>1, FS_Subset, FS_CardinalityType
<1>4. Turn \in 0..5
  BY DEF Turn
<1> DEFINE size == Len(executed)
           all == Cardinality(Binary)
           rest == Cardinality(unscanned)
<1> HIDE DEF size, all, rest
<1>5. /\ size \in Nat /\ size <= RegistryMax /\ all \in Nat /\ rest \in Nat
  BY <1>2, <1>3 DEF size, all, rest
<1>6. /\ 3 + RegistryMax - size \in Nat \ {0}
      /\ 10 + 7 * RegistryMax + rest \in Nat \ {0}
      /\ 11 + 7 * RegistryMax + all \in Nat \ {0}
      /\ 12 + 7 * RegistryMax + all \in Nat \ {0}
      /\ 13 + 7 * RegistryMax + all \in Nat \ {0}
      /\ 4 + RegistryMax + 6 * (RegistryMax + 1 - cursor) + Turn
           \in Nat \ {0}
  BY <1>1, <1>4, <1>5
<1>7. StepsLeft \in Nat /\ (pc # "off" => StepsLeft \in Nat \ {0})
  BY <1>6 DEF StepsLeft, size, all, rest
<1> QED BY <1>1, <1>2, <1>3, <1>7

\* One slot has a turn: it goes on, or the next one comes.
LEMMA TurnCounts ==
  ASSUME Sound, Sound', NEW place \in {"process", "lookup", "qualify",
                                       "store", "authorize", "activate"},
         pc = place, UNCHANGED executed,
         \/ /\ cursor' = cursor
            /\ \/ place = "process" /\ pc' \in {"lookup", "execute"}
               \/ place = "lookup" /\ pc' \in {"qualify", "authorize"}
               \/ place = "qualify" /\ pc' = "store"
               \/ place = "store" /\ pc' = "authorize"
               \/ place = "authorize" /\ pc' = "activate"
         \/ cursor' = cursor + 1 /\ pc' = "process",
         Len(executed) \in Nat
  PROVE  StepsLeft' < StepsLeft
<1>1. /\ RegistryMax \in Nat /\ cursor \in 1..(RegistryMax + 1)
      /\ cursor' \in 1..(RegistryMax + 1)
  BY LimitAssumption DEF Sound, TypeOK
<1>2. StepsLeft = 4 + RegistryMax + 6 * (RegistryMax + 1 - cursor) + Turn
  BY DEF StepsLeft
<1>3. Turn \in 0..5 /\ Turn' \in 0..5
  BY DEF Turn
<1>4. CASE pc' = "execute"
  <2>1. StepsLeft' = 3 + RegistryMax - Len(executed)
    BY <1>4 DEF StepsLeft
  <2> QED BY <1>1, <1>2, <1>3, <2>1
<1>5. CASE pc' # "execute"
  <2>1. StepsLeft' =
          4 + RegistryMax + 6 * (RegistryMax + 1 - cursor') + Turn'
    BY <1>5 DEF StepsLeft
  <2> DEFINE c == RegistryMax + 1 - cursor
             d == RegistryMax + 1 - cursor'
             t == Turn
             u == Turn'
  <2>2. /\ StepsLeft = 4 + RegistryMax + 6 * c + t
        /\ StepsLeft' = 4 + RegistryMax + 6 * d + u
    BY <1>2, <2>1
  <2>3. c \in Nat /\ d \in Nat /\ t \in 0..5 /\ u \in 0..5
    <3>1. \A n \in Nat : \A x \in 1..(n + 1) : n + 1 - x \in Nat
      OBVIOUS
    <3>2. c \in Nat
      BY <1>1, <3>1
    <3>3. d \in Nat
      BY <1>1, <3>1
    <3> QED BY <1>3, <3>2, <3>3 DEF t, u
  <2>4. d + 1 = c \/ (d = c /\ u < t)
    <3>1. cursor' = cursor + 1 => d + 1 = c
      BY <1>1
    <3>2. cursor' = cursor => Turn' < Turn
      BY <1>1, <1>5 DEF Turn
    <3> QED BY <1>1, <3>1, <3>2
  <2> HIDE DEF c, d, t, u
  <2> QED BY <1>1, <2>2, <2>3, <2>4
<1> QED BY <1>4, <1>5

LEMMA StepCounts ==
  ASSUME Sound, Sound', Fits, Fits', IsFiniteSet(Binary), Next, pc # "off"
  PROVE  StepsLeft' < StepsLeft
<1> DEFINE size == Len(executed)
           all == Cardinality(Binary)
           rest == Cardinality(unscanned)
<1>1. /\ StepsLeft \in Nat /\ StepsLeft > 0
      /\ RegistryMax \in Nat /\ size \in Nat
      /\ cursor \in 1..(RegistryMax + 1)
      /\ all \in Nat /\ rest \in Nat /\ rest <= all
      /\ IsFiniteSet(unscanned)
  BY StepsLeftType
<1>2. /\ size' \in Nat /\ size' <= RegistryMax
      /\ rest' \in Nat /\ rest' <= all
  <2>1. Len(executed)' \in Nat /\ Len(executed)' <= RegistryMax
    BY DEF Fits
  <2>2. unscanned' \in SUBSET Binary
    BY DEF Sound, TypeOK
  <2>3. Cardinality(unscanned') \in Nat /\ Cardinality(unscanned') <= all
    BY <2>2, FS_Subset, FS_CardinalityType
  <2> QED BY <2>1, <2>3
<1>3. CASE pc' = "off"
  <2>1. StepsLeft' = 0
    BY <1>3 DEF StepsLeft
  <2> QED BY <1>1, <2>1
<1>4. CASE Configured
  <2>1. pc = "config" /\ pc' = "init"
    BY <1>4 DEF Configured
  <2> HIDE DEF all, rest, size
  <2>2. /\ StepsLeft = 13 + 7 * RegistryMax + all
        /\ StepsLeft' = 12 + 7 * RegistryMax + all
    BY <2>1 DEF StepsLeft, all
  <2> QED BY <1>1, <2>2
<1>5. CASE InitReady
  <2>1. pc = "init" /\ pc' = "run"
    BY <1>5 DEF InitReady
  <2> HIDE DEF all, rest, size
  <2>2. /\ StepsLeft = 12 + 7 * RegistryMax + all
        /\ StepsLeft' = 11 + 7 * RegistryMax + all
    BY <2>1 DEF StepsLeft, all
  <2> QED BY <1>1, <2>2
<1>6. CASE Run
  <2>1. pc = "run" /\ pc' \in {"scan", "failed"} /\ unscanned' = unscanned
    BY <1>6 DEF Run
  <2> HIDE DEF all, rest, size
  <2>2. /\ StepsLeft = 11 + 7 * RegistryMax + all
        /\ StepsLeft' \in {10 + 7 * RegistryMax + rest, 2}
    BY <2>1 DEF StepsLeft, all, rest
  <2> QED BY <1>1, <2>2
<1>7. ASSUME NEW b \in Binary, Scan(b) PROVE StepsLeft' < StepsLeft
  <2>1. /\ pc = "scan" /\ pc' = "scan" /\ b \in unscanned
        /\ unscanned' = unscanned \ {b}
    BY <1>7 DEF Scan
  <2>2. Cardinality(unscanned') = Cardinality(unscanned) - 1
    BY <1>1, <2>1, FS_RemoveElement
  <2> HIDE DEF all, size
  <2>3. /\ StepsLeft = 10 + 7 * RegistryMax + rest
        /\ StepsLeft' = 10 + 7 * RegistryMax + (rest - 1)
    BY <2>1, <2>2 DEF StepsLeft
  <2> HIDE DEF rest
  <2> QED BY <1>1, <2>3
<1>8. CASE ScanEnds
  <2>1. pc = "scan" /\ pc' = "process" /\ cursor' = cursor
    BY <1>8 DEF ScanEnds
  <2> HIDE DEF all, rest, size
  <2>2. /\ StepsLeft = 10 + 7 * RegistryMax + rest
        /\ StepsLeft' =
             4 + RegistryMax + 6 * (RegistryMax + 1 - cursor) + 5
    BY <2>1 DEF StepsLeft, Turn, rest
  <2> QED BY <1>1, <2>2
<1>9. CASE \/ VerifySlot \/ Restored \/ NotOnInventory \/ QualifySlot
           \/ StoreSucceeds \/ StoreFails \/ AuthorizeSlot
           \/ ActivateSlot \/ ProcessEnds
  <2>1. /\ pc \in {"process", "lookup", "qualify", "store", "authorize",
                   "activate"}
        /\ executed' = executed
        /\ \/ /\ cursor' = cursor
              /\ \/ pc = "process" /\ pc' \in {"lookup", "execute"}
                 \/ pc = "lookup" /\ pc' \in {"qualify", "authorize"}
                 \/ pc = "qualify" /\ pc' = "store"
                 \/ pc = "store" /\ pc' = "authorize"
                 \/ pc = "authorize" /\ pc' = "activate"
           \/ cursor' = cursor + 1 /\ pc' = "process"
    BY <1>9 DEF VerifySlot, Restored, NotOnInventory, QualifySlot,
       StoreSucceeds, StoreFails, AuthorizeSlot, ActivateSlot, ProcessEnds,
       ProcessFrame, Onward, GoTo, NextSlot, At
  <2> QED BY <1>1, <2>1, TurnCounts
<1>10. ASSUME NEW m \in Module, Execute(m) PROVE StepsLeft' < StepsLeft
  <2>1. /\ pc = "execute" /\ pc' \in {"execute", "failed"}
        /\ \E x : executed' = Append(executed, x)
    BY <1>10 DEF Execute
  <2>2. executed \in Seq(Executions)
    BY DEF Sound, TypeOK, Executions
  <2>3. size' = size + 1
    BY <2>1, <2>2
  <2> HIDE DEF all, rest
  <2>4. /\ StepsLeft = 3 + RegistryMax - size
        /\ StepsLeft' \in {3 + RegistryMax - size', 2}
    BY <2>1 DEF StepsLeft
  <2> HIDE DEF size
  <2> QED BY <1>1, <1>2, <2>3, <2>4
<1>11. CASE ExecuteEnds
  <2>1. pc = "execute" /\ pc' = "shutdown" /\ executed' = executed
    BY <1>11 DEF ExecuteEnds
  <2> HIDE DEF all, rest
  <2>2. StepsLeft = 3 + RegistryMax - size /\ StepsLeft' = 1 /\ size' = size
    BY <2>1 DEF StepsLeft
  <2> HIDE DEF size
  <2> QED BY <1>1, <1>2, <2>2
<1>12. CASE MarkFailed
  BY <1>12 DEF MarkFailed, StepsLeft
<1>13. CASE ConfigFails \/ InitFails \/ Shutdown \/ Crash \/ CrashInSave
  BY <1>3, <1>13
  DEF ConfigFails, InitFails, Shutdown, Crash, CrashInSave, CrashFrame
<1>14. ~Start
  BY DEF Start
<1> QED
  BY <1>4, <1>5, <1>6, <1>7, <1>8, <1>9, <1>10, <1>11, <1>12, <1>13, <1>14
  DEF Next, Step

\* A process has an end, whatever is installed and whatever fails: each step
\* of it leaves less to do, in the loop over the slots as in the selection,
\* which looks through all slots again after each execution. From its start
\* it has at most 13 steps, and one for each binary and seven for each slot.
THEOREM ProcessStepsAreBounded ==
  ASSUME IsFiniteSet(Binary)
  PROVE  Spec =>
           /\ [](StepsLeft \in Nat)
           /\ [][pc # "off" => StepsLeft' < StepsLeft]_vars
           /\ [](pc # "off" =>
                   StepsLeft <= 13 + 7 * RegistryMax + Cardinality(Binary))
<1>1. Sound /\ Fits => StepsLeft \in Nat
  BY StepsLeftType
<1>2. Sound /\ Sound' /\ Fits /\ Fits' /\ [Next]_vars =>
          [pc # "off" => StepsLeft' < StepsLeft]_vars
  BY StepCounts
<1>3. Sound /\ Fits =>
        (pc # "off" =>
           StepsLeft <= 13 + 7 * RegistryMax + Cardinality(Binary))
  <2> SUFFICES ASSUME Sound, Fits, pc # "off"
               PROVE  StepsLeft <= 13 + 7 * RegistryMax + Cardinality(Binary)
    OBVIOUS
  <2> DEFINE size == Len(executed)
             all == Cardinality(Binary)
             rest == Cardinality(unscanned)
  <2>1. /\ RegistryMax \in Nat /\ size \in Nat
        /\ cursor \in 1..(RegistryMax + 1)
        /\ all \in Nat /\ rest \in Nat /\ rest <= all
    BY StepsLeftType
  <2>2. Turn \in 0..5
    BY DEF Turn
  <2> HIDE DEF size, all, rest
  <2>3. StepsLeft \in {1, 2, 3 + RegistryMax - size,
                       10 + 7 * RegistryMax + rest,
                       11 + 7 * RegistryMax + all,
                       12 + 7 * RegistryMax + all,
                       13 + 7 * RegistryMax + all,
                       4 + RegistryMax + 6 * (RegistryMax + 1 - cursor) + Turn}
    BY DEF StepsLeft, size, all, rest
  <2>4. StepsLeft <= 13 + 7 * RegistryMax + all
    BY <2>1, <2>2, <2>3
  <2> QED BY <2>4 DEF all
<1> QED BY <1>1, <1>2, <1>3, AlwaysSound, AlwaysFits, PTL DEF Spec


-----------------------------------------------------------------------------
(***************************************************************************)
(* The configuration. ReadIn(file)[i] is where rb_config_load stands after *)
(* i pieces; Read says what that is, and Given and Sound say the same of   *)
(* the whole file without an order.                                        *)
(***************************************************************************)

Loading ==
  [result : {"OK", "INVALID_FORMAT", "VALUE_TOO_LONG"},
   seen : SUBSET C!Key, config : [C!Key -> C!Value]]

\* What Take does to a load that has not been refused so far.
LEMMA TakeEffect ==
  ASSUME NEW st \in Loading, NEW piece \in C!Piece
  PROVE  /\ C!Take(st, piece) \in Loading
         /\ st.result # "OK" \/ piece.kind = "skip" =>
              C!Take(st, piece) = st
         /\ st.result = "OK" /\ piece.kind = "text" =>
              C!Take(st, piece).result # "OK"
         /\ st.result = "OK" /\ piece.kind = "pair" =>
              IF piece.key \in C!Key \ st.seen
                   /\ ~C!TooLong(piece.key, piece.value)
              THEN C!Take(st, piece) =
                     [result |-> "OK", seen |-> st.seen \cup {piece.key},
                      config |-> [st.config EXCEPT
                                    ![piece.key] = piece.value]]
              ELSE C!Take(st, piece).result # "OK"
<1>1. CASE piece.kind = "skip" \/ st.result # "OK"
  <2>1. C!Take(st, piece) = st
    BY <1>1 DEF C!Take
  <2>2. piece.kind = "skip" => piece.kind # "text" /\ piece.kind # "pair"
    OBVIOUS
  <2> QED BY <1>1, <2>1, <2>2
<1>2. CASE piece.kind = "text" /\ st.result = "OK"
  <2>1. C!Refusal(st, piece) = "INVALID_FORMAT"
    BY <1>2 DEF C!Refusal
  <2>2. C!Take(st, piece) = [st EXCEPT !.result = "INVALID_FORMAT"]
    BY <1>2, <2>1 DEF C!Take
  <2>3. /\ C!Take(st, piece) \in Loading
        /\ C!Take(st, piece).result = "INVALID_FORMAT"
    BY <2>2 DEF Loading
  <2> QED BY <1>2, <2>3
<1>3. CASE piece.kind = "pair" /\ st.result = "OK"
  <2>1. piece.value \in C!Value
    BY <1>3 DEF C!Piece, C!Skip, C!Text
  <2>2. CASE piece.key \in C!Key \ st.seen
               /\ ~C!TooLong(piece.key, piece.value)
    <3>1. C!Refusal(st, piece) = "OK"
      BY <1>3, <2>2 DEF C!Refusal
    <3>2. C!Take(st, piece) =
            [result |-> "OK", seen |-> st.seen \cup {piece.key},
             config |-> [st.config EXCEPT ![piece.key] = piece.value]]
      BY <1>3, <3>1 DEF C!Take
    <3>3. C!Take(st, piece) \in Loading
      BY <2>1, <2>2, <3>2 DEF Loading
    <3> QED BY <1>3, <2>2, <3>2, <3>3
  <2>3. CASE ~(piece.key \in C!Key \ st.seen
               /\ ~C!TooLong(piece.key, piece.value))
    <3> DEFINE r == C!Refusal(st, piece)
    <3>1. r \in {"INVALID_FORMAT", "VALUE_TOO_LONG"}
      BY <1>3, <2>3 DEF C!Refusal
    <3>2. C!Take(st, piece) = [st EXCEPT !.result = r]
      BY <1>3, <3>1 DEF C!Take
    <3> HIDE DEF r
    <3>3. C!Take(st, piece) \in Loading /\ C!Take(st, piece).result # "OK"
      BY <3>1, <3>2 DEF Loading
    <3> QED BY <1>3, <2>3, <3>3
  <2> QED BY <2>2, <2>3
<1>4. piece.kind \in {"skip", "text", "pair"}
  BY DEF C!Piece, C!Skip, C!Text
<1> QED BY <1>1, <1>2, <1>3, <1>4

ReadIn(f) ==
  CHOOSE after : after =
    [i \in 0..Len(f) |->
       IF i = 0 THEN C!Initial ELSE C!Take(after[i - 1], f[i])]

LEMMA LoadIsReadIn ==
  \A f : C!Load(f) =
    LET end == ReadIn(f)[Len(f)]
    IN  IF end.result = "OK" /\ ~(C!Required \subseteq end.seen)
        THEN [end EXCEPT !.result = "MISSING_FIELD"] ELSE end
BY DEF C!Load, ReadIn

LEMMA ClearedValues == C!Cleared \in [C!Key -> C!Value]
BY DEF C!Cleared, C!Word, C!Value

LEMMA ReadExists ==
  ASSUME NEW f \in Seq(C!Piece)
  PROVE  /\ ReadIn(f)[0] = C!Initial
         /\ \A i \in 1..Len(f) : ReadIn(f)[i] = C!Take(ReadIn(f)[i - 1], f[i])
<1> DEFINE n == Len(f)
           start == C!Initial
           p == [i \in 1..n |-> i - 1]
           F == [i \in 1..n |-> [st \in Loading |-> C!Take(st, f[i])]]
           Reads(z) == z = [i \in 0..n |->
                              IF i = 0 THEN C!Initial
                              ELSE C!Take(z[i - 1], f[i])]
<1>1. n \in Nat /\ 0 <= n /\ 0 + 1 = 1 /\ 0 \in Nat
  OBVIOUS
<1>2. start \in Loading
  BY ClearedValues DEF C!Initial, Loading
<1>3. \A i \in 1..n : p[i] = i - 1 /\ p[i] \in 0..(i - 1)
  OBVIOUS
<1>4. \A i \in 1..n : \A st \in Loading :
        F[i][st] = C!Take(st, f[i]) /\ F[i][st] \in Loading
  <2> SUFFICES ASSUME NEW i \in 1..n, NEW st \in Loading
               PROVE  F[i][st] = C!Take(st, f[i]) /\ F[i][st] \in Loading
    OBVIOUS
  <2>1. f[i] \in C!Piece
    BY ElementOfSeq
  <2> QED BY <2>1, TakeEffect
<1> HIDE DEF p, F, start
<1>5. PICK z \in [0..n -> Loading] : Recurs(z, 0, n, start, p, F)
  BY <1>1, <1>2, <1>3, <1>4, RecursionExists
<1>6. ASSUME NEW i \in 0..n
      PROVE  (IF i = 0 THEN start ELSE F[i][z[p[i]]]) =
               IF i = 0 THEN C!Initial ELSE C!Take(z[i - 1], f[i])
  <2>1. CASE i = 0
    BY <2>1 DEF start
  <2>2. CASE i # 0
    <3>1. i \in 1..n /\ p[i] = i - 1 /\ i - 1 \in 0..n
      BY <1>1, <1>3, <2>2
    <3>2. z[i - 1] \in Loading
      BY <1>5, <3>1
    <3> QED BY <1>4, <2>2, <3>1, <3>2
  <2> QED BY <2>1, <2>2
<1>7. Reads(z)
  <2>1. z = [i \in 0..n |-> IF i = 0 THEN start ELSE F[i][z[p[i]]]]
    BY <1>5 DEF Recurs
  <2>2. \A i \in 0..n : z[i] = IF i = 0 THEN C!Initial
                               ELSE C!Take(z[i - 1], f[i])
    BY <1>6, <2>1
  <2>3. z = [i \in 0..n |-> z[i]]
    BY <1>5
  <2> QED BY <2>2, <2>3
<1>8. \E g : Reads(g)
  BY <1>7
<1>9. Reads(ReadIn(f))
  BY <1>8 DEF ReadIn
<1> DEFINE y == ReadIn(f)
<1> HIDE DEF y
<1>10. y = [i \in 0..n |-> IF i = 0 THEN C!Initial
                           ELSE C!Take(y[i - 1], f[i])]
  BY <1>9 DEF y
<1>11. y[0] = C!Initial /\ \A i \in 1..n : y[i] = C!Take(y[i - 1], f[i])
  <2> HIDE DEF n
  <2>1. \A i \in 0..n : y[i] = IF i = 0 THEN C!Initial
                               ELSE C!Take(y[i - 1], f[i])
    BY <1>10
  <2>2. 0 \in 0..n /\ \A i \in 1..n : i \in 0..n /\ i # 0
    BY <1>1
  <2> QED BY <2>1, <2>2
<1> QED BY <1>11 DEF y

\* Piece i can be taken after those before it.
Fine(f, i) ==
  f[i].kind # "skip" =>
    \E key \in C!Key :
      /\ i \in C!Lines(f, key)
      /\ ~C!TooLong(key, f[i].value)
      /\ \A j \in C!Lines(f, key) : ~(j < i)

Read(f, i, st) ==
  /\ st \in Loading
  /\ st.result = "OK" <=> \A j \in 1..i : Fine(f, j)
  /\ st.result = "OK" =>
       \A key \in C!Key :
         /\ key \in st.seen <=> \E j \in C!Lines(f, key) : j <= i
         /\ \A j \in C!Lines(f, key) :
              j <= i => st.config[key] = f[j].value
         /\ key \notin st.seen => st.config[key] = C!Cleared[key]

LEMMA ReadStarts ==
  ASSUME NEW f \in Seq(C!Piece)
  PROVE  Read(f, 0, C!Initial)
<1>1. C!Initial \in Loading
  BY ClearedValues DEF C!Initial, Loading
<1>2. \A key : \A j \in C!Lines(f, key) : ~(j <= 0)
  BY DEF C!Lines
<1>3. C!Initial.result = "OK" /\ C!Initial.seen = {}
      /\ C!Initial.config = C!Cleared
  BY DEF C!Initial
<1> QED BY <1>1, <1>2, <1>3 DEF Read

\* A piece that has a key has one.
LEMMA KeyOfPiece ==
  ASSUME NEW f \in Seq(C!Piece), NEW i \in 1..Len(f)
  PROVE  /\ f[i] \in C!Piece /\ f[i].kind \in {"skip", "text", "pair"}
         /\ \A key : i \in C!Lines(f, key) <=>
                       f[i].kind = "pair" /\ f[i].key = key
<1>1. f[i] \in C!Piece
  BY ElementOfSeq
<1>2. f[i].kind \in {"skip", "text", "pair"}
  BY <1>1 DEF C!Piece, C!Skip, C!Text
<1> QED BY <1>1, <1>2 DEF C!Lines

LEMMA ReadGoesOn ==
  ASSUME NEW f \in Seq(C!Piece), NEW i \in 1..Len(f), NEW st,
         Read(f, i - 1, st)
  PROVE  Read(f, i, C!Take(st, f[i]))
<1> DEFINE piece == f[i]
           new == C!Take(st, piece)
<1> SUFFICES Read(f, i, new)
  OBVIOUS
<1>1. /\ piece \in C!Piece /\ piece.kind \in {"skip", "text", "pair"}
      /\ \A key : i \in C!Lines(f, key) <=>
                    piece.kind = "pair" /\ piece.key = key
  BY KeyOfPiece
<1>2. /\ new \in Loading
      /\ st.result # "OK" \/ piece.kind = "skip" => new = st
      /\ st.result = "OK" /\ piece.kind = "text" => new.result # "OK"
      /\ st.result = "OK" /\ piece.kind = "pair" =>
           IF piece.key \in C!Key \ st.seen
                /\ ~C!TooLong(piece.key, piece.value)
           THEN new = [result |-> "OK", seen |-> st.seen \cup {piece.key},
                       config |-> [st.config EXCEPT
                                     ![piece.key] = piece.value]]
           ELSE new.result # "OK"
  BY <1>1, TakeEffect DEF Read
<1>3. /\ i \in Nat /\ Len(f) \in Nat
      /\ \A j \in 1..i : j \in 1..(i - 1) \/ j = i
      /\ \A j \in 1..(i - 1) : j \in 1..i
      /\ i \in 1..i
  OBVIOUS
<1>4. \A key : \A j \in C!Lines(f, key) :
        /\ j \in Nat /\ (j <= i - 1 <=> j < i)
        /\ (j <= i <=> j <= i - 1 \/ j = i)
  BY <1>3 DEF C!Lines
<1>5. Fine(f, i) <=>
        \/ piece.kind = "skip"
        \/ /\ piece.kind = "pair" /\ piece.key \in C!Key
           /\ ~C!TooLong(piece.key, piece.value)
           /\ \A j \in C!Lines(f, piece.key) : ~(j < i)
  BY <1>1 DEF Fine
<1> HIDE DEF piece, new
<1>6. (\A j \in 1..i : Fine(f, j)) <=>
        (\A j \in 1..(i - 1) : Fine(f, j)) /\ Fine(f, i)
  BY <1>3
<1>7. CASE st.result # "OK"
  BY <1>2, <1>6, <1>7 DEF Read
<1>8. CASE st.result = "OK" /\ piece.kind = "skip"
  <2>1. new = st /\ Fine(f, i)
    BY <1>2, <1>5, <1>8
  <2>2. \A key : \A j \in C!Lines(f, key) : j <= i <=> j <= i - 1
    BY <1>1, <1>4, <1>8
  <2> QED BY <1>6, <2>1, <2>2 DEF Read
<1>9. CASE st.result = "OK" /\ piece.kind = "text"
  <2>1. new.result # "OK" /\ ~Fine(f, i)
    BY <1>2, <1>5, <1>9
  <2> QED BY <1>2, <1>6, <2>1 DEF Read
<1>10. CASE st.result = "OK" /\ piece.kind = "pair"
  <2> DEFINE key == piece.key
  <2>1. key \in C!Key =>
          (key \in st.seen <=> \E j \in C!Lines(f, key) : j < i)
    BY <1>4, <1>10 DEF Read
  <2>2. Fine(f, i) <=>
          key \in C!Key \ st.seen /\ ~C!TooLong(key, piece.value)
    BY <1>5, <1>10, <2>1
  <2>3. CASE ~Fine(f, i)
    <3>1. new.result # "OK"
      BY <1>2, <1>10, <2>2, <2>3
    <3> QED BY <1>2, <1>6, <2>3, <3>1 DEF Read
  <2>4. CASE Fine(f, i)
    <3>1. /\ new.result = "OK" /\ new.seen = st.seen \cup {key}
          /\ new.config = [st.config EXCEPT ![key] = piece.value]
          /\ key \in C!Key /\ key \notin st.seen
      BY <1>2, <1>10, <2>2, <2>4
    <3>2. st.config \in [C!Key -> C!Value]
      BY DEF Read, Loading
    <3>3. ASSUME NEW k \in C!Key
          PROVE  /\ k \in new.seen <=> \E j \in C!Lines(f, k) : j <= i
                 /\ \A j \in C!Lines(f, k) :
                      j <= i => new.config[k] = f[j].value
                 /\ k \notin new.seen => new.config[k] = C!Cleared[k]
      <4>1. CASE k = key
        <5>1. i \in C!Lines(f, k) /\ i <= i
          BY <1>1, <1>3, <1>10, <4>1
        <5>2. \A j \in C!Lines(f, k) : j <= i => j = i
          BY <1>4, <2>1, <3>1, <4>1
        <5>3. new.config[k] = f[i].value
          BY <3>1, <3>2, <4>1 DEF piece
        <5> QED BY <3>1, <4>1, <5>1, <5>2, <5>3
      <4>2. CASE k # key
        <5>1. i \notin C!Lines(f, k)
          BY <1>1, <4>2
        <5>2. \A j \in C!Lines(f, k) : j <= i <=> j <= i - 1
          BY <1>4, <5>1
        <5>3. /\ new.config[k] = st.config[k]
              /\ k \in new.seen <=> k \in st.seen
          BY <3>1, <3>2, <4>2
        <5> QED BY <1>10, <5>2, <5>3 DEF Read
      <4> QED BY <4>1, <4>2
    <3>4. \A j \in 1..i : Fine(f, j)
      BY <1>6, <1>10, <2>4 DEF Read
    <3> QED BY <1>2, <3>1, <3>3, <3>4 DEF Read
  <2> QED BY <2>3, <2>4
<1> QED BY <1>1, <1>7, <1>8, <1>9, <1>10

LEMMA ReadIsRead ==
  ASSUME NEW f \in Seq(C!Piece)
  PROVE  Read(f, Len(f), ReadIn(f)[Len(f)])
<1> DEFINE n == Len(f)
           y == ReadIn(f)
           T == {i \in 0..n : Read(f, i, y[i])}
<1>1. y[0] = C!Initial /\ \A i \in 1..n : y[i] = C!Take(y[i - 1], f[i])
  BY ReadExists
<1>2. n \in Nat /\ 0 \in Nat /\ n \in 0..n
  OBVIOUS
<1> HIDE DEF y
<1>3. ASSUME NEW i \in 0..n, \A j \in 0..(i - 1) : j \in T
      PROVE  i \in T
  <2>1. CASE i = 0
    BY <1>1, <2>1, ReadStarts
  <2>2. CASE i # 0
    <3>1. i \in 1..n /\ i - 1 \in 0..(i - 1)
      BY <1>2, <2>2
    <3>2. Read(f, i - 1, y[i - 1])
      BY <1>3, <3>1
    <3>3. Read(f, i, C!Take(y[i - 1], f[i]))
      BY <3>1, <3>2, ReadGoesOn
    <3> QED BY <1>1, <3>1, <3>3
  <2> QED BY <2>1, <2>2
<1> HIDE DEF T
<1>4. \A i \in 0..n : i \in T
  BY <1>2, <1>3, IntervalInduction
<1>5. Read(f, n, y[n])
  BY <1>2, <1>4 DEF T
<1> QED BY <1>5 DEF y

\* The value of a key in the file is the one loaded.
LEMMA GivenIsLoaded ==
  ASSUME NEW f \in Seq(C!Piece), ReadIn(f)[Len(f)].result = "OK",
         NEW key \in C!Key
  PROVE  /\ key \in ReadIn(f)[Len(f)].seen <=> C!Lines(f, key) # {}
         /\ C!Given(f, key) = ReadIn(f)[Len(f)].config[key]
<1> DEFINE st == ReadIn(f)[Len(f)]
<1>1. Read(f, Len(f), st)
  BY ReadIsRead
<1> HIDE DEF st
<1>2. \A j \in C!Lines(f, key) : j <= Len(f)
  BY DEF C!Lines
<1>3. st.result = "OK"
  BY DEF st
<1>4. /\ key \in st.seen <=> C!Lines(f, key) # {}
      /\ \A j \in C!Lines(f, key) : st.config[key] = f[j].value
      /\ key \notin st.seen => st.config[key] = C!Cleared[key]
  BY <1>1, <1>2, <1>3 DEF Read
<1>5. C!Given(f, key) = st.config[key]
  BY <1>4 DEF C!Given
<1> QED BY <1>4, <1>5 DEF st

\* In a sound file every piece is fine.
LEMMA SoundIsFine ==
  ASSUME NEW f \in Seq(C!Piece), C!Sound(f), NEW i \in 1..Len(f)
  PROVE  Fine(f, i)
<1> SUFFICES ASSUME f[i].kind # "skip" PROVE Fine(f, i)
  BY DEF Fine
<1>1. PICK key \in C!Key : i \in C!Lines(f, key)
  BY DEF C!Sound
<1>2. \A j \in C!Lines(f, key) : j = i
  BY <1>1 DEF C!Sound
<1>3. C!Given(f, key) = f[i].value
  BY <1>1, <1>2 DEF C!Given
<1>4. ~C!TooLong(key, f[i].value)
  BY <1>3 DEF C!Sound
<1> QED BY <1>1, <1>2, <1>4 DEF Fine

\* In a file whose pieces are fine no key is there twice, and what it gives
\* fits.
LEMMA FineIsOnce ==
  ASSUME NEW f \in Seq(C!Piece), \A i \in 1..Len(f) : Fine(f, i),
         NEW key \in C!Key, NEW i \in C!Lines(f, key)
  PROVE  ~C!TooLong(key, f[i].value) /\ \A j \in C!Lines(f, key) : j = i
<1>1. \A j \in C!Lines(f, key) :
        j \in Nat /\ ~C!TooLong(key, f[j].value)
          /\ \A k \in C!Lines(f, key) : ~(k < j)
  <2> SUFFICES ASSUME NEW j \in C!Lines(f, key)
               PROVE  j \in Nat /\ ~C!TooLong(key, f[j].value)
                        /\ \A k \in C!Lines(f, key) : ~(k < j)
    OBVIOUS
  <2>1. j \in 1..Len(f) /\ f[j].kind = "pair"
    BY DEF C!Lines
  <2>2. PICK other \in C!Key :
          /\ j \in C!Lines(f, other) /\ ~C!TooLong(other, f[j].value)
          /\ \A k \in C!Lines(f, other) : ~(k < j)
    BY <2>1 DEF Fine
  <2>3. other = key
    BY <2>2 DEF C!Lines
  <2> QED BY <2>1, <2>2, <2>3
<1>2. ASSUME NEW j \in C!Lines(f, key) PROVE j = i
  <2>1. i \in Nat /\ j \in Nat /\ ~(j < i) /\ ~(i < j)
    BY <1>1
  <2> QED BY <2>1
<1> QED BY <1>1, <1>2

\* What main asks of a load that has not been refused.
Passes(config) ==
  /\ C!Resolvable(config["modules_path"])
  /\ \A key \in C!Required : config[key].size > 0
  /\ config["log_level"].level

LEMMA AcceptsIsPasses ==
  ASSUME NEW st \in Loading
  PROVE  /\ C!Accepts(st) <=> st.result = "OK" /\ Passes(st.config)
         /\ \A key \in C!Key :
              C!Effective(st)[key] =
                IF key = "modules_path" THEN C!Resolved(st.config[key])
                ELSE st.config[key]
<1> DEFINE path == st.config["modules_path"]
           e == C!Effective(st)
<1>1. st.config \in [C!Key -> C!Value] /\ "modules_path" \in C!Key
  BY DEF Loading, C!Key
<1>2. \A key \in C!Key : e[key] = IF key = "modules_path"
                                  THEN C!Resolved(st.config[key])
                                  ELSE st.config[key]
  BY <1>1 DEF C!Effective
<1>3. C!Resolved(path).size > 0
  <2>1. path \in C!Value
    BY <1>1
  <2> HIDE DEF path
  <2>2. path.size \in Nat /\ (path.absolute => path.size > 0)
    BY <2>1 DEF C!Value
  <2>3. CASE path.absolute
    BY <2>2, <2>3 DEF C!Resolved
  <2>4. CASE ~path.absolute
    <3>1. C!Resolved(path) =
            [path EXCEPT !.size = DirSize + 1 + path.size, !.absolute = TRUE]
      BY <2>4 DEF C!Resolved, C!Joined
    <3>2. C!Resolved(path).size = DirSize + 1 + path.size
      BY <2>1, <3>1 DEF C!Value
    <3>3. DirSize \in Nat
      BY ConfigurationAssumption DEF C!SizeAssumption
    <3> QED BY <2>2, <3>2, <3>3
  <2> QED BY <2>3, <2>4
<1>4. C!Key = C!Required \cup {"modules_path"}
      /\ "modules_path" \notin C!Required /\ "log_level" \in C!Required
  BY DEF C!Key, C!Required
<1> HIDE DEF e
<1>5. C!Validated(e) <=> (\A key \in C!Required : st.config[key].size > 0)
                           /\ st.config["log_level"].level
  <2>1. \A key \in C!Required : key \in C!Key /\ e[key] = st.config[key]
    BY <1>2, <1>4
  <2>2. e["modules_path"] = C!Resolved(path)
    BY <1>2, <1>4
  <2>3. (\A key \in C!Key : e[key].size > 0) <=>
          \A key \in C!Required : st.config[key].size > 0
    BY <1>3, <1>4, <2>1, <2>2
  <2>4. e["log_level"].level <=> st.config["log_level"].level
    BY <1>4, <2>1
  <2> QED BY <2>3, <2>4 DEF C!Validated
<1> QED BY <1>2, <1>5 DEF C!Accepts, Passes, e

LEMMA SoundIsAccepted ==
  ASSUME NEW f \in Seq(C!Piece)
  PROVE  /\ C!Sound(f) <=> C!Accepts(C!Load(f))
         /\ C!Sound(f) => C!Load(f) = ReadIn(f)[Len(f)]
              /\ ReadIn(f)[Len(f)].result = "OK"
              /\ ReadIn(f)[Len(f)] \in Loading
<1> DEFINE st == ReadIn(f)[Len(f)]
<1>1. Read(f, Len(f), st)
  BY ReadIsRead
<1>2. C!Load(f) = IF st.result = "OK" /\ ~(C!Required \subseteq st.seen)
                  THEN [st EXCEPT !.result = "MISSING_FIELD"] ELSE st
  BY LoadIsReadIn
<1>3. st.result = "OK" => \A key \in C!Key :
        /\ key \in st.seen <=> C!Lines(f, key) # {}
        /\ C!Given(f, key) = st.config[key]
  BY GivenIsLoaded
<1>4. C!Required \subseteq C!Key /\ "modules_path" \in C!Key
      /\ C!Key = C!Required \cup {"modules_path"}
      /\ "log_level" \in C!Key
  BY DEF C!Key, C!Required
<1> HIDE DEF st
<1>5. st \in Loading /\ (st.result = "OK" <=> \A i \in 1..Len(f) : Fine(f, i))
  BY <1>1 DEF Read
<1>6. \A key \in C!Key :
        C!Resolvable(st.config[key]) <=>
          LET path == st.config[key]
          IN  path.absolute \/ DirSize + 1 + path.size < PathMax
  <2> SUFFICES ASSUME NEW path \in C!Value
               PROVE  C!Resolvable(path) <=>
                        path.absolute \/ DirSize + 1 + path.size < PathMax
    BY <1>5 DEF Loading
  <2>1. C!Joined(path).size = DirSize + 1 + path.size
    BY DEF C!Joined, C!Value
  <2> QED BY <2>1 DEF C!Resolvable
<1>7. ASSUME C!Sound(f)
      PROVE  /\ C!Accepts(C!Load(f)) /\ C!Load(f) = st
             /\ st.result = "OK"
  <2>1. st.result = "OK"
    BY <1>5, <1>7, SoundIsFine
  <2>2. C!Required \subseteq st.seen
    BY <1>3, <1>4, <1>7, <2>1 DEF C!Sound
  <2>3. C!Load(f) = st
    BY <1>2, <2>2
  <2>4. Passes(st.config)
    <3>1. \A key \in C!Key : C!Given(f, key) = st.config[key]
      BY <1>3, <2>1
    <3>2. C!Resolvable(st.config["modules_path"])
      BY <1>4, <1>6, <1>7, <3>1 DEF C!Sound
    <3> QED BY <1>4, <1>7, <3>1, <3>2 DEF C!Sound, Passes
  <2> QED BY <1>5, <2>1, <2>3, <2>4, AcceptsIsPasses
<1>8. ASSUME C!Accepts(C!Load(f))
      PROVE  C!Sound(f)
  <2>1. C!Load(f).result = "OK"
    BY <1>8 DEF C!Accepts
  <2>2. C!Load(f) = st /\ st.result = "OK" /\ C!Required \subseteq st.seen
    <3>1. CASE st.result = "OK" /\ ~(C!Required \subseteq st.seen)
      <4>1. C!Load(f).result = "MISSING_FIELD"
        BY <1>2, <1>5, <3>1 DEF Loading
      <4> QED BY <2>1, <4>1
    <3>2. CASE ~(st.result = "OK" /\ ~(C!Required \subseteq st.seen))
      BY <1>2, <2>1, <3>2
    <3> QED BY <3>1, <3>2
  <2>3. Passes(st.config)
    BY <1>5, <1>8, <2>2, AcceptsIsPasses
  <2>4. \A i \in 1..Len(f) : Fine(f, i)
    BY <1>5, <2>2
  <2>5. \A key \in C!Key : C!Given(f, key) = st.config[key]
    BY <1>3, <2>2
  <2>6. \A i \in 1..Len(f) :
          f[i].kind # "skip" => \E key \in C!Key : i \in C!Lines(f, key)
    BY <2>4 DEF Fine
  <2>7. \A key \in C!Key : \A i, j \in C!Lines(f, key) : i = j
    BY <2>4, FineIsOnce
  <2>8. \A key \in C!Required :
          C!Lines(f, key) # {} /\ C!Given(f, key).size > 0
    BY <1>3, <1>4, <2>2, <2>3, <2>5 DEF Passes
  <2>9. LET path == C!Given(f, "modules_path")
        IN  path.absolute \/ DirSize + 1 + path.size < PathMax
    BY <1>4, <1>6, <2>3, <2>5 DEF Passes
  <2>10. ASSUME NEW key \in C!Key
         PROVE  ~C!TooLong(key, C!Given(f, key))
    <3>1. CASE C!Lines(f, key) # {}
      <4>1. PICK i \in C!Lines(f, key) : C!Given(f, key) = f[i].value
        BY <3>1 DEF C!Given
      <4> QED BY <2>4, <4>1, FineIsOnce
    <3>2. CASE C!Lines(f, key) = {}
      <4>1. key = "modules_path"
        BY <1>4, <2>8, <3>2
      <4>2. C!Given(f, key) = [size |-> 7, absolute |-> FALSE,
                               level |-> FALSE]
        BY <3>2, <4>1 DEF C!Given, C!Cleared, C!Word
      <4>3. DirSize + 1 + 7 < PathMax
        BY <2>9, <4>1, <4>2
      <4>4. DirSize \in Nat /\ PathMax \in Nat
        BY ConfigurationAssumption DEF C!SizeAssumption
      <4>5. ~(7 >= PathMax)
        BY <4>3, <4>4
      <4> QED BY <4>1, <4>2, <4>5 DEF C!TooLong
    <3> QED BY <3>1, <3>2
  <2>11. C!Given(f, "log_level").level
    BY <1>4, <2>3, <2>5 DEF Passes
  <2> QED BY <2>6, <2>7, <2>8, <2>9, <2>10, <2>11 DEF C!Sound
<1> QED BY <1>5, <1>7, <1>8 DEF st

\* A process gets to its Core with a configuration file exactly if the file is
\* sound, whatever the order of its lines, and then with the values of the
\* file: rb_config_load, the resolution in main and rb_config_validate do
\* together what a reader of the file expects.
THEOREM SoundFilesAreAccepted == Spec => []OnlySoundFilesAreAccepted
<1>1. ASSUME TypeOK, pc = "config"
      PROVE  IF C!Sound(conf)
             THEN /\ C!Accepts(C!Load(conf))
                  /\ \A key \in C!Key :
                       C!Effective(C!Load(conf))[key] =
                         IF key = "modules_path"
                         THEN C!Resolved(C!Given(conf, key))
                         ELSE C!Given(conf, key)
             ELSE ~C!Accepts(C!Load(conf))
  <2>1. conf \in Seq(C!Piece)
    <3>1. << >> \in Seq(C!Piece)
      OBVIOUS
    <3> QED BY <1>1, <3>1, FilesAssumption DEF TypeOK
  <2>2. CASE C!Sound(conf)
    <3> DEFINE st == ReadIn(conf)[Len(conf)]
    <3>1. /\ C!Accepts(C!Load(conf)) /\ C!Load(conf) = st
          /\ st.result = "OK" /\ st \in Loading
      BY <2>1, <2>2, SoundIsAccepted
    <3>2. \A key \in C!Key : C!Given(conf, key) = st.config[key]
      BY <2>1, <3>1, GivenIsLoaded
    <3>3. \A key \in C!Key :
            C!Effective(st)[key] =
              IF key = "modules_path" THEN C!Resolved(st.config[key])
              ELSE st.config[key]
      BY <3>1, AcceptsIsPasses
    <3> HIDE DEF st
    <3> QED BY <2>2, <3>1, <3>2, <3>3
  <2>3. CASE ~C!Sound(conf)
    BY <2>1, <2>3, SoundIsAccepted
  <2> QED BY <2>2, <2>3
<1>2. TypeOK => OnlySoundFilesAreAccepted
  BY <1>1 DEF OnlySoundFilesAreAccepted
<1> QED BY <1>2, TypeCorrect, PTL

=============================================================================
