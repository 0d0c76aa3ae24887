-------------------------- MODULE ModuleRegistry --------------------------
(***************************************************************************)
(* The registry of processing modules and its audit log                    *)
(* (src/module_registry.c).                                                *)
(*                                                                         *)
(* Every call changes at most one record and tries to put the change on    *)
(* the audit log, an array that is never emptied while the process lives.  *)
(* What happens when the log is full differs from call to call: most of    *)
(* them take the change back, rb_module_registry_fail and _quarantine keep *)
(* it, and rb_module_registry_qualify fails the module.                    *)
(*                                                                         *)
(* An operator named Slip... is the definition below it with one plausible *)
(* programming error; no action uses it. It measures the properties: each  *)
(* of them must fail when a slip takes the definition's place.             *)
(***************************************************************************)
EXTENDS Integers, Sequences

CONSTANTS
  Module,        \* identifiers; strcmp orders them, numbers stand for them
  Binary,        \* module binaries, each with the descriptor it exports
  Report,        \* qualification reports a module can hand back
  RegistryMax,   \* RB_MODULE_REGISTRY_MAX
  AuditMax,      \* RB_MODULE_AUDIT_MAX
  MinTests,      \* RB_MODULE_MIN_TESTS
  ApiMajor,      \* RB_MODULE_API_MAJOR
  ApiMinor       \* RB_MODULE_API_MINOR

(***************************************************************************)
(* The descriptor of a binary: its identifier, execution stage, required   *)
(* Core API, and whether its texts, callbacks and SHA-256 are well formed. *)
(* The binary itself stands for its SHA-256 and its version.               *)
(***************************************************************************)
ASSUME BinaryAssumption ==
  \A b \in Binary :
    /\ b.id \in Module
    /\ b.stage \in Nat
    /\ b.major \in Nat
    /\ b.minor \in Nat
    /\ b.wellFormed \in BOOLEAN

NoReport ==
  [executed |-> 0, passed |-> 0, failed |-> 0,
   negativeExecuted |-> FALSE, negativePassed |-> FALSE]

ASSUME ReportAssumption ==
  /\ NoReport \in Report
  /\ Report \subseteq [executed : Nat, passed : Nat, failed : Nat,
                       negativeExecuted : BOOLEAN, negativePassed : BOOLEAN]

ASSUME LimitAssumption ==
  /\ RegistryMax \in Nat
  /\ AuditMax \in Nat
  /\ MinTests \in Nat \ {0}
  /\ ApiMajor \in Nat
  /\ ApiMinor \in Nat

VARIABLES
  slots,         \* the ids in the array of records, in discovery order
  module,        \* the record of each id; state ABSENT outside the array
  audit,         \* the audit log
  nextSequence,  \* the number of the next audit entry
  result         \* what the last call returned

vars == <<slots, module, audit, nextSequence, result>>

State == {"ABSENT", "DISCOVERED", "UNVERIFIED", "TESTING", "QUALIFIED",
          "ACTIVE", "FAILED", "QUARANTINED"}

Event == {"DISCOVERED", "VERIFIED", "TESTING", "QUALIFIED", "FAILED",
          "AUTHORIZED", "ACTIVE", "QUARANTINED"}

Result == {"OK", "INVALID_IDENTITY", "DUPLICATE", "REGISTRY_FULL",
           "NOT_FOUND", "INCOMPATIBLE", "INVALID_STATE", "QUALIFICATION",
           "NOT_QUALIFIED", "NOT_AUTHORIZED", "QUARANTINED", "AUDIT_FULL"}

\* A record is zeroed before it is filled.
NoBinary ==
  [id |-> 0, stage |-> 0, major |-> 0, minor |-> 0, wellFormed |-> FALSE]

Record == [state : State, binary : Binary \cup {NoBinary},
           qualification : Report, authorized : BOOLEAN, loaded : BOOLEAN]

Entry == [sequence : Nat, id : Module, event : Event,
          previous : State, resulting : State, result : Result]

EmptyRecord ==
  [state |-> "ABSENT", binary |-> NoBinary, qualification |-> NoReport,
   authorized |-> FALSE, loaded |-> FALSE]

Init ==
  /\ slots = << >>
  /\ module = [m \in Module |-> EmptyRecord]
  /\ audit = << >>
  /\ nextSequence = 1
  /\ result = "OK"

-----------------------------------------------------------------------------
(***************************************************************************)
(* Helpers: the audit, the acceptance rule for a report, finding a record. *)
(***************************************************************************)

AuditFull == Len(audit) >= AuditMax

\* Slip: the event is written where the resulting state belongs.
SlipLogEntry(sequence, m, event, previous, resulting, res) ==
  [sequence |-> sequence, id |-> m, event |-> event,
   previous |-> previous, resulting |-> event, result |-> res]

LogEntry(sequence, m, event, previous, resulting, res) ==
  [sequence |-> sequence, id |-> m, event |-> event,
   previous |-> previous, resulting |-> resulting, result |-> res]

Log(m, event, previous, resulting, res) ==
  /\ audit' = Append(audit, LogEntry(nextSequence, m, event, previous,
                                     resulting, res))
  /\ nextSequence' = nextSequence + 1

NoLog == UNCHANGED <<audit, nextSequence>>

\* Slip: failures are not audited.
SlipLogIfRoom(m, event, previous, resulting, res) == NoLog

\* An audit whose result the caller throws away.
LogIfRoom(m, event, previous, resulting, res) ==
  \/ ~AuditFull /\ Log(m, event, previous, resulting, res)
  \/ AuditFull /\ NoLog

\* Slip: one test too few is enough.
SlipValidReport(r) ==
  /\ r.executed + 1 >= MinTests /\ r.passed = r.executed /\ r.failed = 0
  /\ r.negativeExecuted /\ r.negativePassed

ValidReport(r) ==
  /\ r.executed >= MinTests
  /\ r.passed = r.executed
  /\ r.failed = 0
  /\ r.passed + r.failed = r.executed
  /\ r.negativeExecuted
  /\ r.negativePassed

ApiSupported(b) == b.major = ApiMajor /\ b.minor <= ApiMinor

StateOf(m) == module[m].state

\* Slip: a failed record can be discovered again.
SlipKnown(m) == StateOf(m) \notin {"ABSENT", "FAILED"}

Known(m) == StateOf(m) # "ABSENT"

\* A call that returns before it touches anything.
Refuse(res) ==
  /\ result' = res
  /\ UNCHANGED <<slots, module, audit, nextSequence>>

\* The ways a call on m ends when its record is not in the wanted state.
RefuseUnless(m, wanted, otherwise) ==
  \/ ~Known(m) /\ Refuse("NOT_FOUND")
  \/ StateOf(m) = "QUARANTINED" /\ Refuse("QUARANTINED")
  \/ /\ Known(m)
     /\ StateOf(m) \notin {"QUARANTINED", wanted}
     /\ Refuse(otherwise)

-----------------------------------------------------------------------------
(***************************************************************************)
(* The calls. Each one is a single action: the process has one thread.     *)
(***************************************************************************)

\* rb_module_registry_discover
DiscoverRefusal(b) ==
  IF ~b.wellFormed \/ b.stage = 0 THEN "INVALID_IDENTITY"
  ELSE IF Known(b.id)              THEN "DUPLICATE"
  ELSE IF Len(slots) >= RegistryMax THEN "REGISTRY_FULL"
  ELSE IF AuditFull                THEN "AUDIT_FULL" ELSE "OK"

NewRecord(b) ==
  [state |-> "DISCOVERED", binary |-> b, qualification |-> NoReport,
   authorized |-> FALSE, loaded |-> TRUE]

Discover(b) ==
  \/ DiscoverRefusal(b) # "OK" /\ Refuse(DiscoverRefusal(b))
  \/ /\ DiscoverRefusal(b) = "OK"
     /\ slots' = Append(slots, b.id)
     /\ module' = [module EXCEPT ![b.id] = NewRecord(b)]
     /\ Log(b.id, "DISCOVERED", "DISCOVERED", "DISCOVERED", "OK")
     /\ result' = "OK"

\* rb_module_registry_verify: Core API and stage of a DISCOVERED module.
VerifyFailure(b) ==
  IF ~ApiSupported(b) THEN "INCOMPATIBLE"
  ELSE IF b.stage = 0 THEN "INVALID_IDENTITY" ELSE "OK"

Verify(m) ==
  \/ RefuseUnless(m, "DISCOVERED", "INVALID_STATE")
  \/ /\ StateOf(m) = "DISCOVERED"
     /\ LET failure == VerifyFailure(module[m].binary) IN
        \/ /\ failure # "OK"
           /\ module' = [module EXCEPT ![m].state = "FAILED"]
           /\ LogIfRoom(m, "FAILED", "DISCOVERED", "FAILED", failure)
           /\ result' = failure
        \/ /\ failure = "OK" /\ ~AuditFull
           /\ module' = [module EXCEPT ![m].state = "UNVERIFIED"]
           /\ Log(m, "VERIFIED", "DISCOVERED", "UNVERIFIED", "OK")
           /\ result' = "OK"
        \/ /\ failure = "OK" /\ AuditFull
           /\ UNCHANGED module /\ NoLog
           /\ result' = "AUDIT_FULL"
     /\ UNCHANGED slots

(***************************************************************************)
(* rb_module_registry_qualify. The module's own suite runs between two     *)
(* audits; TESTING is never a resting state. report and returned are what  *)
(* the suite hands back. The second audit can find the log full: then the  *)
(* module is FAILED although its suite passed.                             *)
(***************************************************************************)
Qualify(m, report, returned) ==
  \/ RefuseUnless(m, "UNVERIFIED", "INVALID_STATE")
  \/ /\ StateOf(m) = "UNVERIFIED" /\ AuditFull
     /\ Refuse("AUDIT_FULL")
  \/ /\ StateOf(m) = "UNVERIFIED" /\ ~AuditFull
     /\ LET passed  == returned = "OK" /\ ValidReport(report)
            room    == Len(audit) + 1 < AuditMax
            final   == IF passed /\ room THEN "QUALIFIED" ELSE "FAILED"
            outcome == IF passed THEN "OK" ELSE "QUALIFICATION"
            testing == LogEntry(nextSequence, m, "TESTING", "UNVERIFIED",
                                "TESTING", "OK")
            second  == LogEntry(nextSequence + 1, m, final, "TESTING",
                                final, outcome)
        IN
        /\ module' = [module EXCEPT ![m] =
             [@ EXCEPT !.state = final, !.qualification = report,
                       !.authorized = passed /\ module[m].authorized]]
        /\ audit' = Append(audit, testing)
                      \o (IF room THEN <<second>> ELSE << >>)
        /\ nextSequence' = nextSequence + (IF room THEN 2 ELSE 1)
        /\ result' = IF passed /\ ~room THEN "AUDIT_FULL" ELSE outcome
     /\ UNCHANGED slots

\* rb_module_registry_restore_qualification: no suite is run.
Restore(m, report) ==
  \/ RefuseUnless(m, "UNVERIFIED", "INVALID_STATE")
  \/ /\ StateOf(m) = "UNVERIFIED" /\ ~ValidReport(report)
     /\ Refuse("QUALIFICATION")
  \/ /\ StateOf(m) = "UNVERIFIED" /\ ValidReport(report) /\ ~AuditFull
     /\ module' = [module EXCEPT ![m] =
          [@ EXCEPT !.state = "QUALIFIED", !.qualification = report,
                    !.authorized = FALSE]]
     /\ Log(m, "QUALIFIED", "UNVERIFIED", "QUALIFIED", "OK")
     /\ result' = "OK"
     /\ UNCHANGED slots
  \/ /\ StateOf(m) = "UNVERIFIED" /\ ValidReport(report) /\ AuditFull
     /\ module' = [module EXCEPT ![m] =
          [@ EXCEPT !.qualification = NoReport, !.authorized = FALSE]]
     /\ NoLog
     /\ result' = "AUDIT_FULL"
     /\ UNCHANGED slots

(***************************************************************************)
(* rb_module_registry_authorize_activation. The flag is raised first and   *)
(* lowered again when the audit fails, also when it was up before.         *)
(***************************************************************************)
\* Slip: the state is not looked at.
SlipAuthorize(m) ==
  /\ Known(m)
  /\ module' = [module EXCEPT ![m].authorized = ~AuditFull]
  /\ LogIfRoom(m, "AUTHORIZED", StateOf(m), StateOf(m), "OK")
  /\ result' = IF AuditFull THEN "AUDIT_FULL" ELSE "OK"
  /\ UNCHANGED slots

Authorize(m) ==
  \/ RefuseUnless(m, "QUALIFIED", "NOT_QUALIFIED")
  \/ /\ StateOf(m) = "QUALIFIED"
     /\ module' = [module EXCEPT ![m].authorized = ~AuditFull]
     /\ LogIfRoom(m, "AUTHORIZED", "QUALIFIED", "QUALIFIED", "OK")
     /\ result' = IF AuditFull THEN "AUDIT_FULL" ELSE "OK"
     /\ UNCHANGED slots

\* Slip: the state is not put back when the audit fails.
SlipActivate(m) ==
  /\ StateOf(m) = "QUALIFIED" /\ module[m].authorized
  /\ module' = [module EXCEPT ![m].state = "ACTIVE"]
  /\ LogIfRoom(m, "ACTIVE", "QUALIFIED", "ACTIVE", "OK")
  /\ result' = IF AuditFull THEN "AUDIT_FULL" ELSE "OK"
  /\ UNCHANGED slots

\* rb_module_registry_activate
Activate(m) ==
  \/ RefuseUnless(m, "QUALIFIED", "NOT_QUALIFIED")
  \/ /\ StateOf(m) = "QUALIFIED" /\ ~module[m].authorized
     /\ Refuse("NOT_AUTHORIZED")
  \/ /\ StateOf(m) = "QUALIFIED" /\ module[m].authorized /\ ~AuditFull
     /\ module' = [module EXCEPT ![m].state = "ACTIVE"]
     /\ Log(m, "ACTIVE", "QUALIFIED", "ACTIVE", "OK")
     /\ result' = "OK"
     /\ UNCHANGED slots
  \/ /\ StateOf(m) = "QUALIFIED" /\ module[m].authorized /\ AuditFull
     /\ Refuse("AUDIT_FULL")

\* rb_module_registry_fail and rb_module_registry_quarantine: from any
\* state, and kept when the audit finds the log full.
Retire(m, state) ==
  \/ ~Known(m) /\ Refuse("NOT_FOUND")
  \/ /\ Known(m)
     /\ module' = [module EXCEPT ![m] =
          [@ EXCEPT !.state = state, !.authorized = FALSE]]
     /\ LogIfRoom(m, state, StateOf(m), state, "OK")
     /\ result' = IF AuditFull THEN "AUDIT_FULL" ELSE "OK"
     /\ UNCHANGED slots

Fail(m)       == Retire(m, "FAILED")
Quarantine(m) == Retire(m, "QUARANTINED")

\* rb_module_registry_unload_all: every library goes, the states stay.
UnloadAll ==
  /\ module' = [m \in Module |-> [module[m] EXCEPT !.loaded = FALSE]]
  /\ UNCHANGED <<slots, audit, nextSequence, result>>

Next ==
  \/ \E b \in Binary : Discover(b)
  \/ \E m \in Module :
       \/ Verify(m)
       \/ \E report \in Report, returned \in {"OK", "QUALIFICATION"} :
            Qualify(m, report, returned)
       \/ \E report \in Report : Restore(m, report)
       \/ Authorize(m)
       \/ Activate(m)
       \/ Fail(m)
       \/ Quarantine(m)
  \/ UnloadAll

Spec == Init /\ [][Next]_vars

-----------------------------------------------------------------------------
(***************************************************************************)
(* Properties.                                                             *)
(***************************************************************************)

Retired == {"FAILED", "QUARANTINED"}

\* Type invariant of the registry and its audit log.
TypeOK ==
  /\ slots \in Seq(Module)
  /\ module \in [Module -> Record]
  /\ audit \in Seq(Entry)
  /\ nextSequence \in Nat
  /\ result \in Result

\* MinTests tests or more, every one passed, the negative test among them.
AllTestsPassed(r) ==
  /\ r.executed >= MinTests /\ r.passed = r.executed /\ r.failed = 0
  /\ r.negativeExecuted /\ r.negativePassed

(***************************************************************************)
(* A module that is QUALIFIED or ACTIVE holds a report of MinTests passed  *)
(* tests with a passed negative test, and a binary whose API the Core      *)
(* serves; only such a module is ever authorised; and ACTIVE requires the  *)
(* authorisation.                                                          *)
(***************************************************************************)
StandingIsEarned ==
  \A m \in Module :
    /\ StateOf(m) \in {"QUALIFIED", "ACTIVE"} =>
         /\ AllTestsPassed(module[m].qualification)
         /\ module[m].binary.wellFormed
         /\ module[m].binary.stage # 0
         /\ ApiSupported(module[m].binary)
    /\ module[m].authorized => StateOf(m) \in {"QUALIFIED", "ACTIVE"}
    /\ StateOf(m) = "ACTIVE" => module[m].authorized

Logged(i, m, event) ==
  i \in 1..Len(audit) /\ audit[i].id = m /\ audit[i].event = event

(***************************************************************************)
(* The evidence precedes the standing: an ACTIVE module has entries for    *)
(* its discovery, verification, qualification, authorisation and           *)
(* activation on the log, in this order, however full the log is and       *)
(* whatever calls failed in between.                                       *)
(***************************************************************************)
ActiveIsOnRecord ==
  \A m \in Module : StateOf(m) = "ACTIVE" =>
    \E i, j, k, l, n \in 1..Len(audit) :
      /\ i < j /\ j < k /\ k < l /\ l < n
      /\ Logged(i, m, "DISCOVERED")
      /\ Logged(j, m, "VERIFIED")
      /\ Logged(k, m, "QUALIFIED")
      /\ Logged(l, m, "AUTHORIZED")
      /\ Logged(n, m, "ACTIVE")

EntriesOf(m) == {i \in 1..Len(audit) : audit[i].id = m}

(***************************************************************************)
(* The log replays to the registry: the entries are numbered without a     *)
(* gap, each entry of a module starts in the state the one before it       *)
(* ended in, and the last one ends in the module's present state, save     *)
(* that a full log can miss the step to FAILED or QUARANTINED.             *)
(***************************************************************************)
AuditReplays ==
  /\ \A i \in 1..Len(audit) : audit[i].sequence = i
  /\ \A m \in Module : Known(m) => EntriesOf(m) # {}
  /\ \A m \in Module : \A i \in EntriesOf(m) :
       LET later == {j \in EntriesOf(m) : j > i} IN
       \/ /\ later = {}
          /\ \/ audit[i].resulting = StateOf(m)
             \/ AuditFull /\ StateOf(m) \in Retired
       \/ \E j \in later : /\ \A k \in later : j <= k
                           /\ audit[j].previous = audit[i].resulting

\* FAILED and QUARANTINED are final: no sequence of calls brings a module
\* back into the pipeline within one process.
RetiredIsFinal ==
  [][\A m \in Module : StateOf(m) \in Retired => StateOf(m)' \in Retired]_vars

RankOf(r) ==
  CASE r.state \in Retired \cup {"ABSENT"} -> 0
    [] r.state = "DISCOVERED" -> 1
    [] r.state \in {"UNVERIFIED", "TESTING"} -> 2
    [] r.state = "QUALIFIED" -> IF r.authorized THEN 4 ELSE 3
    [] r.state = "ACTIVE" -> 5

Rank(m) == RankOf(module[m])

\* A call that reports an error raises no module's standing: whatever it
\* had already changed when the error came is taken back.
ErrorGrantsNothing ==
  [][result' # "OK" => \A m \in Module : Rank(m)' <= Rank(m)]_vars

(***************************************************************************)
(* The registry implements the abstract governance of modules.             *)
(***************************************************************************)
StandingOf(r) ==
  CASE r.state = "ABSENT" -> "unknown"
    [] r.state \in {"DISCOVERED", "UNVERIFIED", "TESTING"} -> "candidate"
    [] r.state = "QUALIFIED" ->
         IF r.authorized THEN "authorized" ELSE "qualified"
    [] r.state = "ACTIVE" -> "active"
    [] r.state \in Retired -> "retired"

standing == [m \in Module |-> StandingOf(module[m])]

Governance == INSTANCE ModuleGovernance WITH status <- standing

\* Every call is one step of the abstract governance, or none.
ImplementsGovernance == Governance!Spec

=============================================================================
