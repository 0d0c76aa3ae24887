------------------------ MODULE MCModuleRegistry ------------------------
(***************************************************************************)
(* ModuleRegistry on two identifiers and a log of six entries: one module  *)
(* can just become ACTIVE, and two of them run into the full log.          *)
(***************************************************************************)
EXTENDS ModuleRegistry

MCDescriptor(id, stage, major, minor, wellFormed) ==
  [id |-> id, stage |-> stage, major |-> major, minor |-> minor,
   wellFormed |-> wellFormed]

MCModule == 1..2

\* A current module, one that needs a newer Core, a second binary for the
\* same id, and one the identity check refuses.
MCBinary ==
  {MCDescriptor(1, 100, 1, 2, TRUE),
   MCDescriptor(2, 100, 1, 3, TRUE),
   MCDescriptor(2, 200, 1, 1, TRUE),
   MCDescriptor(2, 0, 1, 2, TRUE)}

MCReportOf(executed, passed, failed, negativePassed) ==
  [executed |-> executed, passed |-> passed, failed |-> failed,
   negativeExecuted |-> TRUE, negativePassed |-> negativePassed]

\* Exactly the ten tests asked for, and one test too few.
MCReport ==
  {NoReport,
   MCReportOf(10, 10, 0, TRUE),
   MCReportOf(9, 9, 0, TRUE)}

=============================================================================
