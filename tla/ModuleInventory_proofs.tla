----------------------- MODULE ModuleInventory_proofs -----------------------
(***************************************************************************)
(* Proofs about ModuleInventory, for every set of modules, binaries and    *)
(* reports and every limit. The inductive invariant is Inv: besides the    *)
(* properties themselves, that nothing is in the array or in the file that *)
(* no store was ever given.                                                *)
(***************************************************************************)
EXTENDS ModuleInventory, LeastNumber, SequenceTheorems, TLAPS

Unique(rs) == \A i, j \in 1..Len(rs) : rs[i].id = rs[j].id => i = j

FromStores ==
  /\ \A i \in 1..Len(records) : records[i] \in earned
  /\ \A i \in 1..Len(file.lines) : file.lines[i] \in earned

Inv == TypeOK /\ FromStores /\ OneRecordPerId /\ Durable

-----------------------------------------------------------------------------
(***************************************************************************)
(* What a store does to the array, and a save to the file.                 *)
(***************************************************************************)

LEMMA NewRecordType ==
  ASSUME NEW b \in Binary, NEW report \in Report
  PROVE  NewRecord(b, report) \in InventoryRecord
BY BinaryIdAssumption DEF NewRecord, InventoryRecord

\* The new record is in, those of other modules stay, and nothing else.
LEMMA PlacedProperties ==
  ASSUME TypeOK, Unique(records), NEW b \in Binary, NEW report \in Report,
         HasRoom(b.id)
  PROVE  LET rs == Placed(b, report) IN
         /\ rs \in Seq(InventoryRecord)
         /\ Len(rs) <= InventoryMax
         /\ NewRecord(b, report) \in Elements(rs)
         /\ \A i \in 1..Len(rs) :
              rs[i] \in Elements(records) \cup {NewRecord(b, report)}
         /\ \A rec \in Elements(records) : rec.id # b.id => rec \in Elements(rs)
         /\ Unique(rs)
<1> DEFINE new == NewRecord(b, report)
           rs == Placed(b, report)
<1>0. new \in InventoryRecord /\ new.id = b.id
  BY NewRecordType DEF NewRecord
<1>1. records \in Seq(InventoryRecord) /\ Len(records) \in Nat
  BY DEF TypeOK
<1>a. InventoryMax \in Nat
  BY InventoryMaxAssumption
<1> HIDE DEF new
<1>2. CASE Position(records, b.id) = {}
  <2>1. rs = Append(records, new)
    BY <1>2 DEF Placed, new
  <2>2. Len(records) < InventoryMax
    BY <1>2 DEF HasRoom
  <2>3. /\ rs \in Seq(InventoryRecord) /\ Len(rs) = Len(records) + 1
        /\ \A i \in 1..Len(records) : rs[i] = records[i]
        /\ rs[Len(records) + 1] = new
    BY <1>0, <1>1, <2>1
  <2>4. \A i \in 1..Len(records) : records[i].id # b.id
    <3> SUFFICES ASSUME NEW i \in 1..Len(records), records[i].id = b.id
                 PROVE  FALSE
      OBVIOUS
    <3> DEFINE T == {k \in 1..Len(records) : records[k].id = b.id}
    <3>0. T \in SUBSET Nat /\ T # {}
      BY <1>1
    <3>1. PICK k \in T : \A l \in T : k <= l
      <4> HIDE DEF T
      <4> QED BY <3>0, LeastOfSet
    <3>2. k \in Position(records, b.id)
      BY <1>1, <3>1 DEF Position
    <3> QED BY <1>2, <3>2
  <2>5. Unique(rs)
    BY <1>0, <1>1, <2>3, <2>4 DEF Unique
  <2> QED
    BY <1>0, <1>1, <1>a, <2>2, <2>3, <2>5 DEF Elements, new
<1>3. CASE Position(records, b.id) # {}
  <2>1. PICK p \in 1..Len(records) : records[p].id = b.id
    BY <1>3 DEF Position
  <2>2. \A i \in 1..Len(records) : i \in Position(records, b.id) <=> i = p
    BY <1>1, <1>3, <2>1 DEF Position, Unique
  <2>3. rs = [i \in 1..Len(records) |->
                IF i \in Position(records, b.id) THEN new ELSE records[i]]
    BY <1>3 DEF Placed, new
  <2>4. rs \in [1..Len(records) -> InventoryRecord]
    BY <1>0, <1>1, <2>3, ElementOfSeq
  <2>5. rs \in Seq(InventoryRecord) /\ Len(rs) = Len(records)
    BY <1>1, <2>4, SeqDef
  <2>6. \A i \in 1..Len(records) : rs[i] = IF i = p THEN new ELSE records[i]
    BY <2>2, <2>3
  <2>7. Unique(rs)
    BY <1>0, <1>1, <2>1, <2>5, <2>6 DEF Unique
  <2> QED
    BY <1>0, <1>1, <2>1, <2>5, <2>6, <2>7 DEF Elements, TypeOK, new
<1> QED BY <1>2, <1>3

\* An interrupted save leaves some of the first records.
LEMMA PartialProperties ==
  ASSUME NEW rs \in Seq(InventoryRecord), NEW f \in Partial(rs)
  PROVE  /\ f \in File
         /\ Len(f.lines) <= Len(rs)
         /\ \A i \in 1..Len(f.lines) : f.lines[i] = rs[i]
<1>1. PICK n \in 0..Len(rs), t \in BOOLEAN :
        f = [exists |-> TRUE, lines |-> SubSeq(rs, 1, n), torn |-> t]
  BY DEF Partial
<1>2. \A i \in 1..n : rs[i] \in InventoryRecord
  BY ElementOfSeq
<1>3. /\ SubSeq(rs, 1, n) \in Seq(InventoryRecord)
      /\ Len(SubSeq(rs, 1, n)) = n
      /\ \A i \in 1..n : SubSeq(rs, 1, n)[i] = rs[i]
  BY <1>2, SubSeqProperties
<1> QED BY <1>1, <1>3 DEF File

\* A store that does not save: the array is as it should be.
LEMMA PlacedNext ==
  ASSUME Inv, NEW b \in Binary, NEW report \in Report, HasRoom(b.id),
         records' = Placed(b, report),
         earned' = earned \cup {NewRecord(b, report)}
  PROVE  /\ records' \in Seq(InventoryRecord) /\ Len(records') <= InventoryMax
         /\ earned' \subseteq InventoryRecord
         /\ \A i \in 1..Len(records') : records'[i] \in earned'
         /\ Unique(records')
         /\ NewRecord(b, report) \in Elements(records')
         /\ \A rec \in Others(Elements(records), b.id) :
              rec \in Elements(records')
<1>1. Unique(records)
  BY DEF Inv, OneRecordPerId, Unique
<1>2. \A rec \in Elements(records) : rec \in earned
  BY DEF Inv, FromStores, Elements
<1> QED
  BY <1>1, <1>2, PlacedProperties, NewRecordType DEF Inv, TypeOK, Others

-----------------------------------------------------------------------------
(***************************************************************************)
(* Each call preserves the invariant.                                      *)
(***************************************************************************)

\* What a load makes of a file is in the file.
LEMMA LoadedProperties ==
  ASSUME TypeOK
  PROVE  /\ Loaded(file) \in Seq(InventoryRecord)
         /\ Len(Loaded(file)) <= InventoryMax
         /\ Loaded(file) # << >> => Loaded(file) = file.lines
BY InventoryMaxAssumption DEF Loaded, Readable, TypeOK, File

LEMMA OneRecordFromParts ==
  ASSUME Unique(records), Unique(file.lines)
  PROVE  OneRecordPerId
BY DEF Unique, OneRecordPerId

\* The empty array fits every limit.
LEMMA EmptyArray ==
  /\ << >> \in Seq(InventoryRecord) /\ Len(<< >>) = 0
  /\ Len(<< >>) <= InventoryMax
<1>1. InventoryMax \in Nat
  BY InventoryMaxAssumption
<1> QED BY <1>1

\* At the beginning there is no process, no file and no promise.
LEMMA InvInit == Init => Inv
<1> SUFFICES ASSUME Init PROVE Inv
  OBVIOUS
<1>1. file \in File /\ file.lines = << >>
  BY EmptyArray DEF Init, NoFile, File
<1>2. TypeOK
  BY <1>1, EmptyArray DEF Init, TypeOK
<1>3. FromStores /\ OneRecordPerId /\ Durable
  BY <1>1, EmptyArray DEF Init, FromStores, OneRecordPerId, Durable
<1> QED BY <1>2, <1>3 DEF Inv

LEMMA LoadInv ==
  ASSUME Inv, Load
  PROVE  Inv'
<1>1. records' = Loaded(file) \/ records' = << >>
  BY DEF Load
<1>2. TypeOK'
  <2>1. records' \in Seq(InventoryRecord) /\ Len(records') <= InventoryMax
    BY <1>1, LoadedProperties, EmptyArray DEF Inv
  <2>2. running' \in BOOLEAN /\ durable' \subseteq InventoryRecord
    BY DEF Inv, Load, TypeOK
  <2> QED BY <2>1, <2>2 DEF Inv, Load, TypeOK
<1>3. FromStores'
  BY <1>1, LoadedProperties DEF Inv, Load, FromStores
<1>4. OneRecordPerId'
  BY <1>1, LoadedProperties DEF Inv, Load, OneRecordPerId
<1>5. Durable'
  BY DEF Inv, Load, Durable
<1> QED BY <1>2, <1>3, <1>4, <1>5 DEF Inv

\* The stores that leave the file alone.
LEMMA UnsavedInv ==
  ASSUME Inv, NEW b \in Binary, NEW report \in Report, HasRoom(b.id), running,
         records' = Placed(b, report),
         earned' = earned \cup {NewRecord(b, report)},
         durable' = Others(durable, b.id),
         UNCHANGED <<running, file>>
  PROVE  Inv'
<1>1. TypeOK'
  BY PlacedNext DEF Inv, TypeOK, Others
<1>2. FromStores'
  BY PlacedNext DEF Inv, FromStores
<1>3. OneRecordPerId'
  BY PlacedNext DEF Inv, OneRecordPerId, Unique
<1>4. Durable'
  BY PlacedNext DEF Inv, Durable, Others
<1> QED BY <1>1, <1>2, <1>3, <1>4 DEF Inv

LEMMA SavedInv ==
  ASSUME Inv, NEW b \in Binary, NEW report \in Report, StoreSaved(b, report)
  PROVE  Inv'
<1>1. /\ HasRoom(b.id) /\ running /\ running' = running
      /\ records' = Placed(b, report) /\ file' = Whole(records')
      /\ earned' = earned \cup {NewRecord(b, report)}
  BY DEF StoreSaved, Storing
<1>2. TypeOK'
  BY <1>1, PlacedNext, NewRecordType
  DEF Inv, TypeOK, StoreSaved, Promise, Others, Whole, File
<1>3. FromStores'
  BY <1>1, PlacedNext DEF FromStores, Whole
<1>4. OneRecordPerId'
  BY <1>1, PlacedNext DEF OneRecordPerId, Unique, Whole
<1>5. Durable'
  <2>1. CASE AllReadBack(records')
    <3>1. Loaded(file') = records'
      BY <1>1, <1>2, <2>1 DEF Loaded, Readable, Whole, TypeOK
    <3>2. durable' = Others(durable, b.id) \cup {NewRecord(b, report)}
      BY <2>1 DEF StoreSaved, Promise
    <3> QED
      BY <1>1, <3>1, <3>2, PlacedNext DEF Inv, Durable, Others
  <2>2. CASE ~AllReadBack(records')
    BY <2>2 DEF StoreSaved, Promise, Durable
  <2> QED BY <2>1, <2>2
<1> QED BY <1>2, <1>3, <1>4, <1>5 DEF Inv

\* A save that is not finished, whether or not the process survives it.
LEMMA UnfinishedInv ==
  ASSUME Inv, NEW b \in Binary, NEW report \in Report,
         StoreUnwritten(b, report) \/ DieInSave(b, report)
  PROVE  Inv'
<1> DEFINE rs == Placed(b, report)
<1>1. /\ HasRoom(b.id) /\ running' \in BOOLEAN
      /\ file' \in Partial(rs)
      /\ records' = rs \/ records' = << >>
      /\ earned' = earned \cup {NewRecord(b, report)}
      /\ durable' = {}
  BY DEF StoreUnwritten, DieInSave, Storing, Inv, TypeOK
<1>2. Unique(records) /\ TypeOK
  BY DEF Inv, OneRecordPerId, Unique
<1>3. /\ rs \in Seq(InventoryRecord) /\ Len(rs) <= InventoryMax
      /\ Unique(rs)
      /\ \A i \in 1..Len(rs) :
           rs[i] \in Elements(records) \cup {NewRecord(b, report)}
  BY <1>1, <1>2, PlacedProperties
<1>4. \A i \in 1..Len(rs) : rs[i] \in earned'
  BY <1>1, <1>3 DEF Inv, FromStores, Elements
<1> HIDE DEF rs
<1>5. /\ file' \in File
      /\ Len(file'.lines) <= Len(rs)
      /\ \A i \in 1..Len(file'.lines) : file'.lines[i] = rs[i]
  BY <1>1, <1>3, PartialProperties
<1>6. Len(rs) \in Nat /\ Len(file'.lines) \in Nat
  BY <1>3, <1>5 DEF File
<1>7. TypeOK'
  <2>1. records' \in Seq(InventoryRecord) /\ Len(records') <= InventoryMax
    BY <1>1, <1>3, EmptyArray
  <2>2. earned' \subseteq InventoryRecord /\ durable' \subseteq InventoryRecord
    BY <1>1, NewRecordType DEF Inv, TypeOK
  <2> QED BY <1>1, <1>5, <2>1, <2>2 DEF TypeOK
<1>8. FromStores'
  BY <1>1, <1>4, <1>5, <1>6 DEF FromStores
<1>9. Unique(records') /\ Unique(file'.lines)
  BY <1>1, <1>3, <1>5, <1>6 DEF Unique
<1>10. OneRecordPerId'
  BY <1>9 DEF Unique, OneRecordPerId
<1>11. Durable'
  BY <1>1 DEF Durable
<1> QED BY <1>7, <1>8, <1>10, <1>11 DEF Inv

LEMMA InvNext ==
  ASSUME Inv, [Next]_inventoryVars
  PROVE  Inv'
<1>1. CASE Load
  BY <1>1, LoadInv
<1>2. CASE Stop
  <2>1. /\ running' = FALSE /\ records' = << >>
        /\ UNCHANGED <<file, earned, durable>>
    BY <1>2 DEF Stop
  <2>2. TypeOK'
    BY <2>1, EmptyArray DEF Inv, TypeOK
  <2>3. FromStores' /\ OneRecordPerId' /\ Durable'
    BY <2>1, EmptyArray DEF Inv, FromStores, OneRecordPerId, Durable
  <2> QED BY <2>2, <2>3 DEF Inv
<1>3. ASSUME NEW b \in Binary, NEW report \in Report,
             StoreInvalid(b, report) \/ StoreUnopened(b, report)
      PROVE  Inv'
  BY <1>3, UnsavedInv DEF StoreInvalid, StoreUnopened, Storing
<1>4. ASSUME NEW b \in Binary, NEW report \in Report, StoreSaved(b, report)
      PROVE  Inv'
  BY <1>4, SavedInv
<1>5. ASSUME NEW b \in Binary, NEW report \in Report,
             StoreUnwritten(b, report) \/ DieInSave(b, report)
      PROVE  Inv'
  BY <1>5, UnfinishedInv
<1>6. CASE UNCHANGED inventoryVars
  BY <1>6 DEF inventoryVars, Inv, TypeOK, FromStores, OneRecordPerId, Durable
<1> QED
  BY <1>1, <1>2, <1>3, <1>4, <1>5, <1>6 DEF Next, StoreFull

-----------------------------------------------------------------------------
(***************************************************************************)
(* The theorems.                                                           *)
(***************************************************************************)

\* The one record of an id is the one that a search finds.
LEMMA FoundIsStored ==
  ASSUME NEW rs \in Seq(InventoryRecord),
         \A i \in 1..Len(rs) : rs[i] \in earned
  PROVE  Found(rs)
<1> SUFFICES ASSUME NEW b \in Binary, Has(rs, b)
             PROVE  /\ NewRecord(b, Find(rs, b)) \in earned
                    /\ Find(rs, b).executed >= MinTests
                    /\ Find(rs, b).passed = Find(rs, b).executed
                    /\ Find(rs, b).negativePassed
  BY DEF Found
<1>1. PICK i \in Position(rs, b.id) : rs[i].binary = b /\ RecordValid(rs[i])
  BY DEF Has
<1>2. i \in 1..Len(rs) /\ rs[i].id = b.id /\ rs[i] \in InventoryRecord
  BY <1>1, ElementOfSeq DEF Position
<1>3. \A j \in Position(rs, b.id) : j = i
  <2> SUFFICES ASSUME NEW j \in Position(rs, b.id), j # i PROVE FALSE
    OBVIOUS
  <2>1. /\ i \in Int /\ j \in Int
        /\ i \in 1..Len(rs) /\ j \in 1..Len(rs)
        /\ rs[i].id = b.id /\ rs[j].id = b.id
        /\ \A k \in 1..(i - 1) : rs[k].id # b.id
        /\ \A k \in 1..(j - 1) : rs[k].id # b.id
    BY <1>1 DEF Position
  <2> QED BY <2>1
<1>4. Find(rs, b) = rs[i].qualification
  BY <1>1, <1>3 DEF Find
<1>5. NewRecord(b, Find(rs, b)) = rs[i]
  BY <1>1, <1>2, <1>4 DEF NewRecord, InventoryRecord
<1> QED BY <1>1, <1>2, <1>4, <1>5 DEF RecordValid

LEMMA Safe == Spec => []Inv
<1>1. Inv /\ [Next]_inventoryVars => Inv'
  BY InvNext
<1> QED BY <1>1, InvInit, PTL DEF Spec

\* What a store reported as saved is found by every later load.
THEOREM SavedIsDurable == Spec => []Durable
<1>1. Inv => Durable
  BY DEF Inv
<1> QED BY <1>1, Safe, PTL

\* Memory and file hold one record for an identifier.
THEOREM IdentifiersAreUnique == Spec => []OneRecordPerId
<1>1. Inv => OneRecordPerId
  BY DEF Inv
<1> QED BY <1>1, Safe, PTL

\* Only what was stored is vouched for, for the very binary it was stored for.
THEOREM OnlyStoredIsVouchedFor == Spec => []VouchesForStored
<1>1. Inv => VouchesForStored
  <2> SUFFICES ASSUME Inv PROVE VouchesForStored
    OBVIOUS
  <2>1. Found(records)
    BY FoundIsStored DEF Inv, TypeOK, FromStores
  <2>2. \A i \in 1..Len(Loaded(file)) : Loaded(file)[i] \in earned
    <3>1. CASE Loaded(file) = << >>
      BY <3>1
    <3>2. CASE Loaded(file) # << >>
      BY <3>2, LoadedProperties DEF Inv, FromStores
    <3> QED BY <3>1, <3>2
  <2>3. Found(Loaded(file))
    BY <2>2, FoundIsStored, LoadedProperties DEF Inv
  <2> QED BY <2>1, <2>3 DEF VouchesForStored
<1> QED BY <1>1, Safe, PTL
=============================================================================
