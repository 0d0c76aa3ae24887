------------------------- MODULE ModuleInventory -------------------------
(***************************************************************************)
(* The persistent inventory of qualified modules (src/module_inventory.c): *)
(* an array in memory and the file module_inventory.conf, one line for     *)
(* each record.                                                            *)
(*                                                                         *)
(* A save opens the file for writing, which empties it, and writes the     *)
(* records one after the other. Until the file is closed a failed write or *)
(* the end of the process leaves some first lines and perhaps a piece of   *)
(* the next one; a piece has fewer than twelve fields, so that a load      *)
(* which meets it discards the whole inventory.                            *)
(*                                                                         *)
(* An operator named Slip... is the definition below it with one plausible *)
(* programming error; no action uses it (see ModuleRegistry).              *)
(***************************************************************************)
EXTENDS Integers, Sequences

CONSTANTS
  Module, Binary, Report, MinTests,   \* as in ModuleRegistry
  Legible,                            \* the identifiers without | or line end
  InventoryMax                        \* RB_MODULE_INVENTORY_MAX

ASSUME BinaryIdAssumption == \A b \in Binary : b.id \in Module

ASSUME InventoryMaxAssumption == InventoryMax \in Nat \ {0}

VARIABLES
  running,       \* a process has loaded the inventory
  records,       \* the array in memory
  file,          \* the file: its whole lines, and whether a piece follows
  earned,        \* history: the records ever handed to a store
  durable        \* history: the records a caller may count on (see Durable)

inventoryVars == <<running, records, file, earned, durable>>

\* The binary stands for the versions and the SHA-256 of the line.
InventoryRecord == [id : Module, binary : Binary, qualification : Report]

File == [exists : BOOLEAN, lines : Seq(InventoryRecord), torn : BOOLEAN]

NoFile == [exists |-> FALSE, lines |-> << >>, torn |-> FALSE]

Whole(rs) == [exists |-> TRUE, lines |-> rs, torn |-> FALSE]

\* What an interrupted save of rs can leave behind.
Partial(rs) ==
  {[exists |-> TRUE, lines |-> SubSeq(rs, 1, n), torn |-> t] :
     n \in 0..Len(rs), t \in BOOLEAN}
  \ {[exists |-> TRUE, lines |-> rs, torn |-> TRUE]}

RecordValid(rec) ==
  LET r == rec.qualification IN
  /\ r.executed >= MinTests
  /\ r.passed = r.executed
  /\ r.failed = 0
  /\ r.passed + r.failed = r.executed
  /\ r.negativeExecuted
  /\ r.negativePassed

\* A line is read up to each |. An identifier is written as it is, whatever
\* is in it: with a | or a line end it has not the twelve fields of a record.
ReadsBack(rec) == rec.id \in Legible /\ RecordValid(rec)

AllReadBack(rs) == \A i \in 1..Len(rs) : ReadsBack(rs[i])

\* rb_module_inventory_load, on a file that can be read to its end.
Readable(f) ==
  ~f.torn /\ AllReadBack(f.lines) /\ Len(f.lines) <= InventoryMax

Loaded(f) == IF Readable(f) THEN f.lines ELSE << >>

\* rb_module_inventory_find: the first record with the id decides alone.
Position(rs, id) ==
  {i \in 1..Len(rs) : rs[i].id = id /\ \A j \in 1..(i - 1) : rs[j].id # id}

\* Slip: the digest of the binary is not compared.
SlipHas(rs, b) ==
  \E i \in Position(rs, b.id) : RecordValid(rs[i])

Has(rs, b) ==
  \E i \in Position(rs, b.id) : rs[i].binary = b /\ RecordValid(rs[i])

Find(rs, b) == rs[CHOOSE i \in Position(rs, b.id) : TRUE].qualification

Elements(rs) == {rs[i] : i \in 1..Len(rs)}

Others(rs, id) == {rec \in rs : rec.id # id}

Init ==
  /\ running = FALSE
  /\ records = << >>
  /\ file = NoFile
  /\ earned = {}
  /\ durable = {}

-----------------------------------------------------------------------------
(***************************************************************************)
(* The calls. The record is placed in memory before it is checked and      *)
(* saved, and stays there when the save fails. The histories: a store adds *)
(* its record to earned; durable gains it when the store succeeds, loses   *)
(* what is replaced, and is emptied when the file or its reading is        *)
(* damaged, or when a save writes a record along, the new one or another,  *)
(* that does not read back: it makes every later load discard them all.    *)
(***************************************************************************)

NewRecord(b, report) == [id |-> b.id, binary |-> b, qualification |-> report]

HasRoom(id) == Position(records, id) # {} \/ Len(records) < InventoryMax

\* Slip: a module that is qualified again gets a second record.
SlipPlaced(b, report) == Append(records, NewRecord(b, report))

Placed(b, report) ==
  IF Position(records, b.id) = {}
  THEN Append(records, NewRecord(b, report))
  ELSE [i \in 1..Len(records) |->
          IF i \in Position(records, b.id) THEN NewRecord(b, report)
          ELSE records[i]]

\* rb_module_inventory_load in rb_core_init, which starts empty when the
\* load fails. A read error is as good as a bad line.
Load ==
  /\ ~running
  /\ running' = TRUE
  /\ \/ records' = Loaded(file) /\ UNCHANGED durable
     \/ records' = << >> /\ durable' = {}
  /\ UNCHANGED <<file, earned>>

\* The process ends between two calls; nothing is written.
Stop ==
  /\ running
  /\ running' = FALSE
  /\ records' = << >>
  /\ UNCHANGED <<file, earned, durable>>

StoreFull(b) ==
  /\ running /\ ~HasRoom(b.id)
  /\ UNCHANGED inventoryVars

\* The record is refused but not taken out of the array again.
StoreInvalid(b, report) ==
  /\ running /\ HasRoom(b.id)
  /\ ~RecordValid(NewRecord(b, report))
  /\ records' = Placed(b, report)
  /\ earned' = earned \cup {NewRecord(b, report)}
  /\ durable' = Others(durable, b.id)
  /\ UNCHANGED <<running, file>>

\* A store that gets as far as rb_module_inventory_save.
Storing(b, report) ==
  /\ running /\ HasRoom(b.id)
  /\ RecordValid(NewRecord(b, report))
  /\ earned' = earned \cup {NewRecord(b, report)}

Promise(b, report) ==
  durable' = IF AllReadBack(records')
             THEN Others(durable, b.id) \cup {NewRecord(b, report)} ELSE {}

\* Slip: only the new record is written.
SlipStoreSaved(b, report) ==
  /\ Storing(b, report)
  /\ records' = Placed(b, report)
  /\ file' = Whole(<<NewRecord(b, report)>>)
  /\ Promise(b, report)
  /\ UNCHANGED running

StoreSaved(b, report) ==
  /\ Storing(b, report)
  /\ records' = Placed(b, report)
  /\ file' = Whole(records')
  /\ Promise(b, report)
  /\ UNCHANGED running

StoreUnopened(b, report) ==
  /\ Storing(b, report)
  /\ records' = Placed(b, report)
  /\ durable' = Others(durable, b.id)
  /\ UNCHANGED <<running, file>>

StoreUnwritten(b, report) ==
  /\ Storing(b, report)
  /\ records' = Placed(b, report)
  /\ file' \in Partial(records')
  /\ durable' = {}
  /\ UNCHANGED running

\* The process ends between the opening and the closing of the file.
DieInSave(b, report) ==
  /\ Storing(b, report)
  /\ file' \in Partial(Placed(b, report))
  /\ records' = << >>
  /\ durable' = {}
  /\ running' = FALSE

Next ==
  \/ Load
  \/ Stop
  \/ \E b \in Binary :
       \/ StoreFull(b)
       \/ \E report \in Report :
            \/ StoreInvalid(b, report)
            \/ StoreSaved(b, report)
            \/ StoreUnopened(b, report)
            \/ StoreUnwritten(b, report)
            \/ DieInSave(b, report)

Spec == Init /\ [][Next]_inventoryVars

-----------------------------------------------------------------------------
(***************************************************************************)
(* Properties.                                                             *)
(***************************************************************************)

\* Type invariant of the inventory.
TypeOK ==
  /\ running \in BOOLEAN
  /\ records \in Seq(InventoryRecord)
  /\ Len(records) <= InventoryMax
  /\ file \in File
  /\ earned \subseteq InventoryRecord
  /\ durable \subseteq InventoryRecord

(***************************************************************************)
(* What a store reported as saved is what any later load returns, across   *)
(* restarts and the stores of other modules, until the module is stored    *)
(* again, a save or a load goes wrong, or a record that does not read back *)
(* is saved; and while a process runs, memory has it too.                  *)
(***************************************************************************)
Durable ==
  \A rec \in durable :
    /\ rec \in Elements(Loaded(file))
    /\ running => rec \in Elements(records)

(***************************************************************************)
(* The inventory vouches for a binary only if a store recorded that very   *)
(* binary with that very report, and the report passes: no restart, torn   *)
(* file or replaced record lets one binary use another's qualification.    *)
(***************************************************************************)
Found(rs) ==
  \A b \in Binary : Has(rs, b) =>
    /\ NewRecord(b, Find(rs, b)) \in earned
    /\ Find(rs, b).executed >= MinTests
    /\ Find(rs, b).passed = Find(rs, b).executed
    /\ Find(rs, b).negativePassed

VouchesForStored == Found(records) /\ Found(Loaded(file))

\* Neither memory nor the file ever holds two records of one id, of which
\* rb_module_inventory_find would see the first only.
OneRecordPerId ==
  \A rs \in {records, file.lines} : \A i, j \in 1..Len(rs) :
    rs[i].id = rs[j].id => i = j

=============================================================================
