----------------------- MODULE MCModuleInventory -----------------------
(***************************************************************************)
(* ModuleInventory with room for two records, three identifiers, of which  *)
(* one does not read back, and a second binary of the first one: replaced, *)
(* refused and torn records, and saved ones that no load accepts.          *)
(***************************************************************************)
EXTENDS ModuleInventory

MCModule == 1..3

MCLegible == {1, 2}

MCBinary == {[id |-> 1, build |-> 1], [id |-> 1, build |-> 2],
             [id |-> 2, build |-> 1], [id |-> 3, build |-> 1]}

MCReportOf(executed) ==
  [executed |-> executed, passed |-> executed, failed |-> 0,
   negativeExecuted |-> TRUE, negativePassed |-> TRUE]

\* A report that passes and one that is refused.
MCReport == {MCReportOf(10), MCReportOf(9)}

=============================================================================
