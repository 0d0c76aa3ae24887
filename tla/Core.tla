------------------------------- MODULE Core -------------------------------
(***************************************************************************)
(* The Core (src/core.c) under src/main.c: one process after another       *)
(* discovers the installed modules, qualifies or restores, authorises and  *)
(* activates each of them, executes the active ones in order and shuts     *)
(* down. Between two processes only the inventory file survives, and the   *)
(* installed modules may change.                                           *)
(*                                                                         *)
(* The process is single-threaded: pc is the place in the program, and     *)
(* every action runs from one place to the next, where the process can be  *)
(* killed. ModuleRegistry and ModuleInventory give the calls their         *)
(* meaning; their variables are shared with this module.                   *)
(***************************************************************************)
EXTENDS Integers, Sequences

CONSTANTS
  Module, Binary, Report,             \* as in ModuleRegistry
  RegistryMax, AuditMax, MinTests, ApiMajor, ApiMinor,
  Legible, InventoryMax,              \* as in ModuleInventory
  PathMax, LevelMax, DirSize,         \* as in Configuration
  Files,                              \* the configuration files there may be
  MaxRuns                             \* bound on the number of processes

\* strcmp orders the identifiers; numbers stand for them.
ASSUME IdentifierAssumption == Module \subseteq Nat

ASSUME BinaryAssumption ==
  \A b \in Binary :
    /\ b.id \in Module
    /\ b.stage \in Nat /\ b.major \in Nat /\ b.minor \in Nat
    /\ b.wellFormed \in BOOLEAN

ASSUME LimitAssumption ==
  /\ RegistryMax \in Nat /\ AuditMax \in Nat
  /\ MinTests \in Nat \ {0}
  /\ ApiMajor \in Nat /\ ApiMinor \in Nat
  /\ InventoryMax \in Nat \ {0}
  /\ MaxRuns \in Nat

VARIABLES
  slots, module, audit, nextSequence, result,   \* ModuleRegistry
  records, file, earned, durable,               \* ModuleInventory
  coreState,   \* rb_core_state_t
  pc,          \* where the process is; "off" when there is none
  conf,        \* rag_builder.conf while main is at it, else empty
  installed,   \* the binaries under the modules directory
  unscanned,   \* those the scan has not come to
  cursor,      \* the slot that is being processed
  executed,    \* the modules executed, in order, and how each one ended
  exit,        \* what main returned; "none" before that and after a crash
  benched,     \* history: the binaries whose own suite has passed
  runs         \* the number of processes started

registryVars  == <<slots, module, audit, nextSequence, result>>
inventoryData == <<records, file, earned, durable>>
history       == <<benched, runs>>
vars == <<slots, module, audit, nextSequence, result, records, file, earned,
          durable, coreState, pc, conf, installed, unscanned, cursor,
          executed, exit, benched, runs>>

live == pc \notin {"off", "config", "init"}

R == INSTANCE ModuleRegistry
I == INSTANCE ModuleInventory WITH running <- live
C == INSTANCE Configuration

ASSUME ConfigurationAssumption == C!SizeAssumption

ASSUME FilesAssumption == Files \subseteq Seq(C!Piece)

ASSUME ReportAssumption ==
  /\ R!NoReport \in Report
  /\ Report \subseteq [executed : Nat, passed : Nat, failed : Nat,
                       negativeExecuted : BOOLEAN, negativePassed : BOOLEAN]

PC == {"off", "config", "init", "run", "scan", "process", "lookup",
       "qualify", "store", "authorize", "activate", "execute", "failed",
       "shutdown"}

CoreState == {"UNINITIALIZED", "INITIALIZING", "READY", "RUNNING",
              "STOPPED", "FAILED"}

Init ==
  /\ R!Init
  /\ records = << >> /\ file = I!NoFile /\ earned = {} /\ durable = {}
  /\ coreState = "UNINITIALIZED"
  /\ pc = "off"
  /\ conf = << >>
  /\ installed = {} /\ unscanned = {}
  /\ cursor = 1
  /\ executed = << >>
  /\ exit = "none"
  /\ benched = {}
  /\ runs = 0

-----------------------------------------------------------------------------
(***************************************************************************)
(* main and rb_core_init.                                                  *)
(***************************************************************************)

\* rb_module_registry_init.
BlankRegistry ==
  /\ slots' = << >>
  /\ module' = [m \in Module |-> R!EmptyRecord]
  /\ audit' = << >> /\ nextSequence' = 1 /\ result' = "OK"

\* A process starts, with the configuration file that is there by then.
Start ==
  /\ pc = "off" /\ runs < MaxRuns
  /\ runs' = runs + 1
  /\ conf' \in Files
  /\ BlankRegistry
  /\ coreState' = "UNINITIALIZED"
  /\ cursor' = 1
  /\ executed' = << >>
  /\ exit' = "none"
  /\ pc' = "config"
  /\ installed' = {} /\ unscanned' = {}
  /\ UNCHANGED <<records, file, earned, durable, benched>>

\* The configuration leads to a modules directory. What is installed in it
\* does not change while the process runs.
Configured ==
  /\ pc = "config" /\ C!Accepts(C!Load(conf))
  /\ installed' \in SUBSET Binary
  /\ unscanned' = installed'
  /\ coreState' = "INITIALIZING"
  /\ pc' = "init" /\ conf' = << >>
  /\ UNCHANGED <<registryVars, inventoryData, history, cursor, executed,
                 exit>>

\* The configuration is refused; or stdout is not redirected, the program's
\* directory is not found, or the file is not opened or not read.
ConfigFails ==
  /\ pc = "config"
  /\ exit' = "FAILURE"
  /\ pc' = "off" /\ conf' = << >>
  /\ UNCHANGED <<registryVars, inventoryData, history, coreState, installed,
                 unscanned, cursor, executed>>

\* The environment, the log or the path of the inventory is refused: main
\* returns without a shutdown.
InitFails ==
  /\ pc = "init"
  /\ coreState' = "FAILED"
  /\ exit' = "FAILURE"
  /\ pc' = "off"
  /\ UNCHANGED <<registryVars, inventoryData, history, conf, installed,
                 unscanned, cursor, executed>>

InitReady ==
  /\ pc = "init"
  /\ pc' = "run"
  /\ I!Load
  /\ coreState' = "READY"
  /\ UNCHANGED <<registryVars, history, conf, installed, unscanned, cursor,
                 executed, exit>>

-----------------------------------------------------------------------------
(***************************************************************************)
(* rb_core_run: the scan.                                                  *)
(***************************************************************************)

\* The modules directory opens, or it does not.
Run ==
  /\ pc = "run"
  /\ coreState' = "RUNNING"
  /\ pc' \in {"scan", "failed"}
  /\ UNCHANGED <<registryVars, inventoryData, history, conf, installed,
                 unscanned, cursor, executed, exit>>

\* One directory of the scan, in the order the file system lists them. Its
\* declaration, its hash or its library can be unusable: it is passed over.
Scan(b) ==
  /\ pc = "scan" /\ b \in unscanned
  /\ unscanned' = unscanned \ {b}
  /\ \/ R!Discover(b)
     \/ UNCHANGED registryVars
  /\ UNCHANGED <<inventoryData, history, coreState, pc, conf, installed,
                 cursor, executed, exit>>

ScanEnds ==
  /\ pc = "scan" /\ unscanned = {}
  /\ pc' = "process"
  /\ UNCHANGED <<registryVars, inventoryData, history, coreState, conf,
                 installed, unscanned, cursor, executed, exit>>

-----------------------------------------------------------------------------
(***************************************************************************)
(* rb_core_process_discovered_modules: the slots one after the other. A    *)
(* module that fails a step is left and the loop goes on with the next.    *)
(***************************************************************************)

Current == slots[cursor]
CurrentBinary == module[Current].binary

At(place) == pc = place /\ cursor <= Len(slots)

GoTo(place) == pc' = place /\ UNCHANGED cursor

\* Slip: the loop does not advance.
SlipNextSlot == pc' = "process" /\ UNCHANGED cursor

NextSlot == pc' = "process" /\ cursor' = cursor + 1

\* On to place when the registry agreed, else to the next slot.
Onward(place) ==
  \/ result' = "OK" /\ GoTo(place)
  \/ result' # "OK" /\ NextSlot

ProcessFrame ==
  UNCHANGED <<coreState, conf, installed, unscanned, executed, exit, runs>>

VerifySlot ==
  /\ At("process")
  /\ \/ /\ R!StateOf(Current) = "DISCOVERED"
        /\ R!Verify(Current)
        /\ Onward("lookup")
     \/ /\ R!StateOf(Current) # "DISCOVERED"
        /\ NextSlot
        /\ UNCHANGED registryVars
  /\ ProcessFrame /\ UNCHANGED <<inventoryData, benched>>

\* The result of the restoration is not looked at.
Restored ==
  /\ At("lookup") /\ I!Has(records, CurrentBinary)
  /\ R!Restore(Current, I!Find(records, CurrentBinary))
  /\ GoTo("authorize")
  /\ ProcessFrame /\ UNCHANGED <<inventoryData, benched>>

NotOnInventory ==
  /\ At("lookup") /\ ~I!Has(records, CurrentBinary)
  /\ GoTo("qualify")
  /\ ProcessFrame /\ UNCHANGED <<registryVars, inventoryData, benched>>

\* benched follows what the module's suite did, not what the Core made of it.
QualifySlot ==
  /\ At("qualify")
  /\ \E report \in Report, returned \in {"OK", "QUALIFICATION"} :
       /\ R!Qualify(Current, report, returned)
       /\ benched' =
            IF ~R!AuditFull /\ returned = "OK" /\ R!AllTestsPassed(report)
            THEN benched \cup {CurrentBinary} ELSE benched
  /\ Onward("store")
  /\ ProcessFrame /\ UNCHANGED inventoryData

StoreSucceeds ==
  /\ At("store")
  /\ GoTo("authorize")
  /\ I!StoreSaved(CurrentBinary, module[Current].qualification)
  /\ ProcessFrame /\ UNCHANGED <<registryVars, benched>>

\* Slip: a failed store does not end the module's turn.
SlipStoreFails ==
  /\ At("store")
  /\ GoTo("authorize")
  /\ \/ I!StoreFull(CurrentBinary)
     \/ I!StoreUnopened(CurrentBinary, module[Current].qualification)
  /\ ProcessFrame /\ UNCHANGED <<registryVars, benched>>

\* The module is failed, but its record stays in memory, and a later save
\* writes it.
StoreFails ==
  /\ At("store")
  /\ NextSlot
  /\ \/ I!StoreFull(CurrentBinary)
     \/ I!StoreUnopened(CurrentBinary, module[Current].qualification)
     \/ I!StoreUnwritten(CurrentBinary, module[Current].qualification)
  /\ R!Fail(Current)
  /\ ProcessFrame /\ UNCHANGED benched

AuthorizeSlot ==
  /\ At("authorize")
  /\ R!Authorize(Current)
  /\ Onward("activate")
  /\ ProcessFrame /\ UNCHANGED <<inventoryData, benched>>

ActivateSlot ==
  /\ At("activate")
  /\ R!Activate(Current)
  /\ NextSlot
  /\ ProcessFrame /\ UNCHANGED <<inventoryData, benched>>

ProcessEnds ==
  /\ pc = "process" /\ cursor > Len(slots)
  /\ GoTo("execute")
  /\ ProcessFrame /\ UNCHANGED <<registryVars, inventoryData, benched>>

-----------------------------------------------------------------------------
(***************************************************************************)
(* rb_core_execute_active_modules and rb_core_shutdown.                    *)
(***************************************************************************)

StageOf(m) == module[m].binary.stage

\* Slip: the stage is not looked at.
SlipPrecedes(m, n) == m < n

Precedes(m, n) ==
  \/ StageOf(m) < StageOf(n)
  \/ StageOf(m) = StageOf(n) /\ m < n

Active == {m \in Module : R!StateOf(m) = "ACTIVE"}

Last == executed[Len(executed)].id

\* The active modules that sort after the one executed last.
Pending == {m \in Active : executed = << >> \/ Precedes(Last, m)}

\* The first one of them; none when nothing is pending.
Selected == {m \in Pending : \A n \in Pending : n = m \/ Precedes(m, n)}

Outcome(m, ok) == [id |-> m, binary |-> module[m].binary, ok |-> ok]

ExecuteFrame ==
  UNCHANGED <<inventoryData, history, coreState, conf, installed,
              unscanned, cursor, exit>>

Execute(m) ==
  /\ pc = "execute" /\ m \in Selected
  /\ \/ /\ executed' = Append(executed, Outcome(m, TRUE))
        /\ UNCHANGED <<registryVars, pc>>
     \/ /\ executed' = Append(executed, Outcome(m, FALSE))
        /\ R!Fail(m)
        /\ pc' = "failed"
  /\ ExecuteFrame

ExecuteEnds ==
  /\ pc = "execute" /\ Selected = {}
  /\ pc' = "shutdown"
  /\ UNCHANGED <<registryVars, executed>>
  /\ ExecuteFrame

\* Slip: the failure is forgotten.
SlipMarkFailed ==
  /\ pc = "failed"
  /\ pc' = "shutdown"
  /\ UNCHANGED <<registryVars, inventoryData, history, coreState, conf,
                 installed, unscanned, cursor, executed, exit>>

\* main, when rb_core_run returned an error.
MarkFailed ==
  /\ pc = "failed"
  /\ coreState' = "FAILED"
  /\ pc' = "shutdown"
  /\ UNCHANGED <<registryVars, inventoryData, history, conf, installed,
                 unscanned, cursor, executed, exit>>

\* The log can fail to close, which a run without an error reports.
Shutdown ==
  /\ pc = "shutdown"
  /\ pc' = "off"
  /\ R!UnloadAll
  /\ I!Stop
  /\ coreState' = "STOPPED"
  /\ exit' \in IF coreState = "FAILED" THEN {"FAILURE"}
               ELSE {"SUCCESS", "FAILURE"}
  /\ UNCHANGED <<history, conf, installed, unscanned, cursor, executed>>

-----------------------------------------------------------------------------
(***************************************************************************)
(* The process is killed, between two calls or while it saves.             *)
(***************************************************************************)

CrashFrame ==
  /\ pc' = "off"
  /\ BlankRegistry
  /\ coreState' = "UNINITIALIZED"
  /\ conf' = << >>
  /\ installed' = {} /\ unscanned' = {}
  /\ cursor' = 1
  /\ executed' = << >>
  /\ UNCHANGED <<history, exit>>

Crash ==
  /\ pc # "off"
  /\ CrashFrame
  /\ records' = << >>
  /\ UNCHANGED <<file, earned, durable>>

CrashInSave ==
  /\ At("store")
  /\ CrashFrame
  /\ I!DieInSave(CurrentBinary, module[Current].qualification)

Step ==
  \/ ConfigFails \/ Configured
  \/ InitFails \/ InitReady
  \/ Run \/ (\E b \in Binary : Scan(b)) \/ ScanEnds
  \/ VerifySlot \/ Restored \/ NotOnInventory \/ QualifySlot
  \/ StoreSucceeds \/ StoreFails \/ AuthorizeSlot \/ ActivateSlot
  \/ ProcessEnds
  \/ (\E m \in Module : Execute(m)) \/ ExecuteEnds
  \/ MarkFailed \/ Shutdown

Next == Start \/ Step \/ Crash \/ CrashInSave

\* A process that is not killed goes on; nobody has to start one.
Spec == Init /\ [][Next]_vars /\ WF_vars(Step)

-----------------------------------------------------------------------------
(***************************************************************************)
(* Properties.                                                             *)
(***************************************************************************)

\* Type invariant of the process.
TypeOK ==
  /\ R!TypeOK
  /\ I!TypeOK
  /\ coreState \in CoreState
  /\ pc \in PC
  /\ conf = << >> \/ conf \in Files
  /\ unscanned \subseteq installed /\ installed \subseteq Binary
  /\ cursor \in 1..(RegistryMax + 1)
  /\ executed \in Seq([id : Module, binary : Binary, ok : BOOLEAN])
  /\ exit \in {"none", "SUCCESS", "FAILURE"}
  /\ benched \subseteq Binary
  /\ runs \in 0..MaxRuns

(***************************************************************************)
(* No binary is ever executed whose own qualification suite did not pass,  *)
(* in this process or an earlier one: not after a torn inventory, not when *)
(* a module was replaced under the same id, not when two directories hold  *)
(* modules of one id.                                                      *)
(***************************************************************************)
ExecutedWasBenched ==
  \A i \in 1..Len(executed) : executed[i].binary \in benched

(***************************************************************************)
(* A module is not put through its suite again while the file holds its    *)
(* qualification: with a durable record, and the same binary, it is        *)
(* restored in every later process.                                        *)
(***************************************************************************)
UnchangedNotRebenched ==
  At("qualify") => \A rec \in durable : rec.binary # CurrentBinary

\* A module is ACTIVE only while the inventory in memory vouches for its
\* binary: a module whose record did not fit was failed.
ActiveIsOnInventory ==
  live => \A m \in Active : I!Has(records, module[m].binary)

(***************************************************************************)
(* Modules execute in ascending order of stage and id, each at most once,  *)
(* whatever the order of their directories; nothing executes after a       *)
(* module that failed.                                                     *)
(***************************************************************************)
ExecutionOrder ==
  \A i, j \in 1..Len(executed) : i < j =>
    /\ executed[i].ok
    /\ \/ executed[i].binary.stage < executed[j].binary.stage
       \/ /\ executed[i].binary.stage = executed[j].binary.stage
          /\ executed[i].id < executed[j].id

\* main returns success only from a run in which every active module was
\* executed and none failed, and the libraries are released.
SuccessIsComplete ==
  exit = "SUCCESS" =>
    /\ \A i \in 1..Len(executed) : executed[i].ok
    /\ \A m \in Active : \E i \in 1..Len(executed) : executed[i].id = m
    /\ \A m \in Module : ~module[m].loaded

\* A process that is not killed ends, if the modules it calls return.
EveryRunEnds == pc # "off" ~> pc = "off"

(***************************************************************************)
(* Whatever the order of the lines of rag_builder.conf, a process gets to  *)
(* its Core with it exactly if every line is a known key or nothing, no    *)
(* key is there twice, the three required ones have a value that fits, and *)
(* the level is one of the four; and the Core gets the values of the file. *)
(***************************************************************************)
OnlySoundFilesAreAccepted ==
  pc = "config" =>
    LET loaded == C!Load(conf)
    IN  IF C!Sound(conf)
        THEN /\ C!Accepts(loaded)
             /\ \A key \in C!Key :
                  C!Effective(loaded)[key] =
                    IF key = "modules_path" THEN C!Resolved(C!Given(conf, key))
                    ELSE C!Given(conf, key)
        ELSE ~C!Accepts(loaded)

(***************************************************************************)
(* CONFIGURATION.md: invalid configuration stops the build and is not      *)
(* silently replaced by something else. A modules_path without a value is  *)
(* resolved to the program's directory before the validation, which then   *)
(* finds nothing missing.                                                  *)
(***************************************************************************)
EmptyValuesStopTheBuild ==
  [][pc = "config" /\ pc' = "init" =>
       \A key \in C!Key : C!Given(conf, key).size > 0]_vars

=============================================================================
