---------------------- MODULE CorpusAggregator_proofs ----------------------
(***************************************************************************)
(* Proofs about CorpusAggregator, for any policy indexes, chainlogs and    *)
(* collections of corpus files, any limits and any number of builds.       *)
(***************************************************************************)
EXTENDS CorpusAggregator, FiniteSetTheorems, TLAPS

-----------------------------------------------------------------------------
(***************************************************************************)
(* What is admitted. Until the scan is done nothing is selected; then each *)
(* root is selected or still to do, and what is selected is authoritative. *)
(* A build that has come to the replacement has written all of it.         *)
(***************************************************************************)

Admitted ==
  /\ TypeOK
  /\ pc \in {"idle", "read", "scan"} =>
       selected = << >> /\ todo = {} /\ duplicates = 0
  /\ pc \in {"resolve", "replace"} => todo \cup DOMAIN selected = Roots
  /\ \A root \in DOMAIN selected :
       /\ selected[root] \in DOMAIN corpora
       /\ Authoritative(corpora[selected[root]])
  /\ pc = "replace" => todo = {} /\ temp = Aggregate

\* The record in force for a root is an approved one of this root that no
\* approved revision follows.
LEMMA CurrentIsLast ==
  ASSUME NEW root, NEW rec \in Current(root)
  PROVE  \E i \in Approved(root) :
           /\ rec = index.records[i]
           /\ \A j \in Approved(root) :
                index.records[j].revision \notin {None, rec.revision} =>
                  /\ index.records[j].previous # rec.revision
                  /\ rec.revision # None
<1> DEFINE candidates == IF Revisions(root) = {} THEN Originals(root)
                         ELSE Terminal(root)
<1>1. PICK i \in candidates : rec = index.records[i]
  BY DEF Current
<1>2. i \in Approved(root)
  BY DEF Revisions, Originals, Terminal
<1>3. ASSUME NEW j \in Approved(root),
             index.records[j].revision \notin {None, rec.revision}
      PROVE  /\ index.records[j].previous # rec.revision
             /\ rec.revision # None
  <2>1. j \in Revisions(root) /\ j # i
    BY <1>1, <1>3 DEF Revisions, Originals
  <2>2. i \in Terminal(root)
    BY <2>1
  <2> QED BY <1>1, <2>1, <2>2 DEF Terminal, Revisions, Originals
<1> QED BY <1>1, <1>2, <1>3

\* A file that matches a registered record in force is authoritative.
LEMMA MatchIsAuthoritative ==
  ASSUME NEW root, NEW rec \in Current(root), Registered(rec),
         NEW name \in Matches(rec)
  PROVE  /\ name \in DOMAIN corpora /\ corpora[name].root = root
         /\ Authoritative(corpora[name])
<1> DEFINE c == corpora[name]
<1>1. /\ name \in DOMAIN corpora
      /\ c.root = rec.root /\ c.revision = rec.revision /\ c.sha = rec.sha
  BY DEF Matches
<1>2. PICK i \in Approved(root) :
        /\ rec = index.records[i]
        /\ \A j \in Approved(root) :
             index.records[j].revision \notin {None, rec.revision} =>
               /\ index.records[j].previous # rec.revision
               /\ rec.revision # None
  BY CurrentIsLast
<1>3. i \in 1..Len(index.records) /\ rec.root = root /\ rec.approved
  BY <1>2 DEF Approved
<1>4. \E entry \in chain :
        /\ entry.root = c.root /\ entry.revision = c.revision
        /\ entry.sha = c.sha /\ entry.previous = rec.previous
  BY <1>1 DEF Registered
<1>5. ~ \E j \in 1..Len(index.records) :
          /\ index.records[j].approved /\ index.records[j].root = c.root
          /\ index.records[j].revision \notin {None, c.revision}
          /\ \/ index.records[j].previous = c.revision
             \/ c.revision = None
  BY <1>1, <1>2, <1>3 DEF Approved
<1>6. rec \in {index.records[j] : j \in 1..Len(index.records)}
  BY <1>2, <1>3
<1> HIDE DEF c
<1>7. Authoritative(c)
  BY <1>1, <1>3, <1>4, <1>5, <1>6 DEF Authoritative
<1> QED BY <1>1, <1>3, <1>7 DEF c

\* What Resolve does: it selects one authoritative file for the root.
LEMMA ResolveSelects ==
  ASSUME Admitted, NEW root, Resolve(root)
  PROVE  \E rec \in Current(root) : \E name \in Chosen(Matches(rec)) :
           /\ Registered(rec) /\ name \in Matches(rec)
           /\ selected' = [r \in DOMAIN selected \cup {root} |->
                             IF r = root THEN name ELSE selected[r]]
           /\ duplicates' = duplicates + Cardinality(Matches(rec)) - 1
           /\ root \in todo /\ todo' = todo \ {root}
           /\ pc = "resolve" /\ root \notin DOMAIN selected
BY DEF Resolve, Admissible, Chosen, First, Admitted, TypeOK

LEMMA MatchesFinite ==
  ASSUME TypeOK, NEW rec, Matches(rec) # {}
  PROVE  /\ IsFiniteSet(Matches(rec))
         /\ Cardinality(Matches(rec)) \in Nat \ {0}
<1>1. Matches(rec) \in SUBSET (DOMAIN corpora)
  BY DEF Matches
<1>2. IsFiniteSet(Matches(rec))
  BY <1>1, FS_Subset, FileAssumption DEF TypeOK
<1> QED BY <1>2, FS_CardinalityType, FS_EmptySet

LEMMA NothingSelected == DOMAIN << >> = {}
<1>1. << >> \in Seq({}) /\ Len(<< >>) = 0
  OBVIOUS
<1> QED BY <1>1

LEMMA AdmittedInit ==
  ASSUME Init
  PROVE  Admitted
<1>1. /\ selected = << >> /\ todo = {} /\ duplicates = 0
      /\ pc = "idle" /\ builds = 0
  BY DEF Init
<1>2. DOMAIN selected = {}
  BY <1>1, NothingSelected
<1>3. /\ index \in Indexes /\ chain \in Chains /\ corpora \in Collections
      /\ status = "none" /\ rewritten = FALSE /\ unread = FALSE
  BY DEF Init
<1>4. builds \in 0..MaxBuilds
  BY <1>1, LimitAssumption
<1>5. TypeOK
  BY <1>1, <1>2, <1>3, <1>4 DEF TypeOK
<1> QED BY <1>1, <1>2, <1>5 DEF Admitted

LEMMA AdmittedStep ==
  ASSUME Admitted, [Next]_vars
  PROVE  Admitted'
<1> USE DEF inputs
<1>1. CASE UNCHANGED vars
  <2>1. /\ UNCHANGED <<inputs, output, temp, pc, todo, selected, duplicates,
                       status, rewritten, unread, builds>>
    BY <1>1 DEF vars
  <2>2. Roots' = Roots /\ Aggregate' = Aggregate
    BY <2>1 DEF Roots, Aggregate
  <2>3. TypeOK'
    BY <2>1, <2>2 DEF Admitted, TypeOK
  <2>4. \A root \in DOMAIN selected :
          Authoritative(corpora[selected[root]])'
    BY <2>1 DEF Authoritative, Admitted
  <2> QED BY <2>1, <2>2, <2>3, <2>4 DEF Admitted
<1>2. CASE Publish
  BY <1>2 DEF Publish, Admitted, TypeOK
<1>3. CASE Begin
  <2>1. /\ selected' = << >> /\ todo' = {} /\ duplicates' = 0
        /\ pc' = "read" /\ UNCHANGED inputs
    BY <1>3 DEF Begin
  <2>2. DOMAIN selected' = {}
    BY <2>1, NothingSelected
  <2>3. /\ builds' \in 0..MaxBuilds /\ status' = "none"
        /\ rewritten' = FALSE /\ unread' = FALSE
    BY <1>3, LimitAssumption DEF Begin, Admitted, TypeOK
  <2>4. TypeOK'
    BY <2>1, <2>2, <2>3 DEF Admitted, TypeOK
  <2> QED BY <2>1, <2>2, <2>4 DEF Admitted
<1>4. CASE Read
  BY <1>4 DEF Read, Admitted, TypeOK
<1>5. CASE Scan
  BY <1>5 DEF Scan, Admitted, TypeOK, Roots
<1>6. ASSUME NEW root \in todo, Resolve(root)
      PROVE  Admitted'
  <2>0. PICK rec \in Current(root) :
          \E name \in Chosen(Matches(rec)) :
            /\ Registered(rec) /\ name \in Matches(rec)
            /\ selected' = [r \in DOMAIN selected \cup {root} |->
                              IF r = root THEN name ELSE selected[r]]
            /\ duplicates' = duplicates + Cardinality(Matches(rec)) - 1
            /\ root \in todo /\ todo' = todo \ {root}
            /\ pc = "resolve" /\ root \notin DOMAIN selected
    BY <1>6, ResolveSelects
  <2>1. PICK name \in Chosen(Matches(rec)) :
          /\ Registered(rec) /\ name \in Matches(rec)
          /\ selected' = [r \in DOMAIN selected \cup {root} |->
                            IF r = root THEN name ELSE selected[r]]
          /\ duplicates' = duplicates + Cardinality(Matches(rec)) - 1
          /\ root \in todo /\ todo' = todo \ {root}
          /\ pc = "resolve" /\ root \notin DOMAIN selected
    BY <2>0
  <2>2. /\ name \in DOMAIN corpora /\ corpora[name].root = root
        /\ Authoritative(corpora[name])
    BY <2>1, MatchIsAuthoritative
  <2>3. duplicates' \in Nat
    BY <2>1, MatchesFinite DEF Admitted, TypeOK
  <2>4. /\ UNCHANGED <<inputs, output, temp, pc, status, rewritten, unread,
                       built, builds>>
        /\ pc = "resolve"
    BY <1>6 DEF Resolve
  <2>5. Roots' = Roots
    BY <2>4 DEF Roots
  <2>6. DOMAIN selected' = DOMAIN selected \cup {root}
    BY <2>1
  <2>7. todo' \cup DOMAIN selected' = Roots /\ todo' \cap DOMAIN selected' = {}
    BY <2>1, <2>4, <2>6 DEF Admitted, TypeOK
  <2>8. ASSUME NEW r \in DOMAIN selected'
        PROVE  /\ selected'[r] \in DOMAIN corpora
               /\ corpora[selected'[r]].root = r
               /\ Authoritative(corpora[selected'[r]])
    BY <2>1, <2>2, <2>6, <2>8 DEF Admitted, TypeOK
  <2>9. \A r \in DOMAIN selected' : Authoritative(corpora[selected[r]])'
    BY <2>4, <2>8 DEF Authoritative
  <2>10. TypeOK'
    BY <2>3, <2>4, <2>5, <2>7, <2>8 DEF Admitted, TypeOK
  <2> QED BY <2>4, <2>5, <2>7, <2>8, <2>9, <2>10 DEF Admitted
<1>7. CASE Write
  <2>1. Aggregate' = Aggregate /\ Roots' = Roots
    BY <1>7 DEF Write, Aggregate, Roots
  <2>2. /\ UNCHANGED <<inputs, todo, selected, duplicates, status, rewritten,
                       unread, builds>>
        /\ pc = "resolve" /\ pc' = "replace" /\ todo = {} /\ temp' = Aggregate
    BY <1>7 DEF Write
  <2> QED BY <2>1, <2>2 DEF Admitted, TypeOK, Authoritative
<1>8. ASSUME Stop("OK") \/ Stop("FAILED") \/ Stop("none"),
             rewritten' \in BOOLEAN /\ unread' \in BOOLEAN
      PROVE  Admitted'
  BY <1>8 DEF Stop, Admitted, TypeOK
<1>9. CASE ReadFails \/ ScanFails \/ WriteFails \/ ReplaceFails
           \/ \E root \in todo : Unresolved(root)
  <2>1. FailClosed
    BY <1>9 DEF ReadFails, ScanFails, WriteFails, ReplaceFails, Unresolved
  <2> QED BY <1>8, <2>1 DEF FailClosed, Admitted, TypeOK
<1>10. CASE Keep \/ Replace \/ Crash
  BY <1>8, <1>10 DEF Keep, Replace, Crash, Admitted, TypeOK
<1> QED BY <1>1, <1>2, <1>3, <1>4, <1>5, <1>6, <1>7, <1>9, <1>10 DEF Next

LEMMA Admission == Spec => []Admitted
<1> QED BY AdmittedInit, AdmittedStep, PTL DEF Spec

\* The type invariant of the aggregator.
THEOREM TypeCorrect == Spec => []TypeOK
<1>1. Admitted => TypeOK
  BY DEF Admitted
<1> QED BY <1>1, Admission, PTL

-----------------------------------------------------------------------------
(***************************************************************************)
(* The output. Only a replacement changes it, into what the build wrote.   *)
(***************************************************************************)

LEMMA OutputStep ==
  ASSUME [Next]_vars, output' # output
  PROVE  Replace
<1>1. CASE UNCHANGED vars
  BY <1>1 DEF vars
<1>2. CASE ReadFails \/ ScanFails \/ WriteFails \/ ReplaceFails
           \/ \E root \in todo : Unresolved(root)
  BY <1>2 DEF ReadFails, ScanFails, WriteFails, ReplaceFails, Unresolved,
              FailClosed
<1>3. CASE Publish \/ Begin \/ Read \/ Scan \/ Write \/ Keep \/ Crash
           \/ \E root \in todo : Resolve(root)
  BY <1>3 DEF Publish, Begin, Read, Scan, Resolve, Write, Keep, Crash
<1> QED BY <1>1, <1>2, <1>3 DEF Next

\* Every output has the registered current file of each root, and nothing
\* else: a build in doubt about one of them writes none.
THEOREM OutputsAreAuthoritative == Spec => OutputIsAuthoritative
<1>1. ASSUME Admitted, [Next]_vars, output' # output
      PROVE  /\ DOMAIN output'.entries = Roots
             /\ \A root \in Roots :
                  /\ output'.entries[root] \in
                       {corpora[n] : n \in DOMAIN corpora}
                  /\ output'.entries[root].root = root
                  /\ Authoritative(output'.entries[root])
  <2>1. output' = temp /\ temp = Aggregate
    BY <1>1, OutputStep DEF Replace, Admitted
  <2>2. DOMAIN selected = Roots
    BY <1>1, OutputStep DEF Replace, Admitted
  <2>3. output'.entries = [root \in Roots |-> corpora[selected[root]]]
    BY <2>1, <2>2 DEF Aggregate
  <2>4. \A root \in Roots : /\ selected[root] \in DOMAIN corpora
                            /\ corpora[selected[root]].root = root
                            /\ Authoritative(corpora[selected[root]])
    BY <1>1, <2>2 DEF Admitted, TypeOK
  <2> QED BY <2>3, <2>4
<1> QED BY <1>1, Admission, PTL DEF Spec, OutputIsAuthoritative

\* A failed build leaves the output of the last good one.
THEOREM FailuresKeepOutput == Spec => FailureKeepsOutput
<1>1. ASSUME [Next]_vars, status' = "FAILED"
      PROVE  output' = output
  BY <1>1, OutputStep DEF Replace, Stop
<1> QED BY <1>1, PTL DEF Spec, FailureKeepsOutput

\* A reader of the output never meets a part of a file: the only file that
\* is ever left in part is the temporary one.
THEOREM OutputsAreWhole == Spec => []OutputIsWhole
<1>1. Init => OutputIsWhole
  BY DEF Init, OutputIsWhole, Missing, Torn
<1>2. ASSUME Admitted, OutputIsWhole, [Next]_vars
      PROVE  OutputIsWhole'
  <2>1. CASE output' = output
    BY <1>2, <2>1 DEF OutputIsWhole, Torn
  <2>2. CASE output' # output
    <3>1. output' = Aggregate
      BY <1>2, <2>2, OutputStep DEF Replace, Admitted
    <3>2. output'.duplicates \in Nat
      BY <1>2, <3>1 DEF Aggregate, Admitted, TypeOK
    <3> QED BY <3>2 DEF OutputIsWhole, Torn
  <2> QED BY <2>1, <2>2
<1> QED BY <1>1, <1>2, Admission, PTL DEF Spec

-----------------------------------------------------------------------------
(***************************************************************************)
(* The current revision. A row of all revisions reaches each of them.      *)
(***************************************************************************)

LEMMA IntervalFinite ==
  ASSUME NEW n \in Nat
  PROVE  IsFiniteSet(1..n)
<1>1. 1 \in Int /\ n \in Int
  OBVIOUS
<1> QED BY <1>1, FS_Interval

LEMMA PositionsFinite ==
  ASSUME TypeOK
  PROVE  IsFiniteSet(1..Len(index.records))
<1>1. Len(index.records) \in Nat
  BY FileAssumption DEF TypeOK
<1> QED BY <1>1, IntervalFinite

LEMMA RevisionsFinite ==
  ASSUME TypeOK, NEW root
  PROVE  /\ IsFiniteSet(Revisions(root)) /\ IsFiniteSet(Terminal(root))
         /\ Cardinality(Revisions(root)) \in Nat
<1>1. IsFiniteSet(1..Len(index.records))
  BY PositionsFinite
<1>2. Revisions(root) \in SUBSET (1..Len(index.records))
  BY DEF Revisions, Approved
<1>3. Terminal(root) \in SUBSET Revisions(root)
  BY DEF Terminal
<1> QED BY <1>1, <1>2, <1>3, FS_Subset, FS_CardinalityType

LEMMA RowReachesAll ==
  ASSUME NEW set, IsFiniteSet(set), NEW row \in Rows(set)
  PROVE  /\ Cardinality(set) \in Nat
         /\ row \in [1..Cardinality(set) -> set]
         /\ \A i, j \in 1..Cardinality(set) : row[i] = row[j] => i = j
         /\ \A x \in set : \E i \in 1..Cardinality(set) : row[i] = x
<1> DEFINE n == Cardinality(set)
<1>1. n \in Nat
  BY FS_CardinalityType
<1> HIDE DEF n
<1>2. row \in [1..n -> set] /\ \A i, j \in 1..n : row[i] = row[j] => i = j
  BY DEF Rows, n
<1>3. row \in Injection(1..n, set)
  BY <1>2 DEF Injection, IsInjective
<1>4. Cardinality(1..n) = n
  <2>1. 1 \in Int /\ n \in Int /\ (1 > n => n = 0)
    BY <1>1
  <2> QED BY <2>1, FS_Interval
<1>5. row \in Surjection(1..n, set)
  BY <1>3, <1>4, FS_Injection DEF n
<1>6. \A x \in set : \E i \in 1..n : row[i] = x
  BY <1>5 DEF Surjection
<1> QED BY <1>1, <1>2, <1>6 DEF n

\* The current record of a root is the last of its lineage; without a single
\* last one there is none.
THEOREM LineagesEndInCurrent == Spec => []CurrentIsNewest
<1>1. ASSUME TypeOK PROVE CurrentIsNewest
  <2> SUFFICES ASSUME NEW root,
                      NEW row \in Rows(Revisions(root))
               PROVE  LET n == Cardinality(Revisions(root))
                      IN  /\ n > 0 /\ IsLineage(row) =>
                               Current(root) = {index.records[row[n]]}
                          /\ n > 1 /\ (\A i \in 1..n, j \in {1, 2} :
                                 row[j] # row[i] =>
                                   index.records[row[i]].previous
                                     # index.records[row[j]].revision) =>
                               Current(root) = {}
    <3>1. \A root :
            {i \in 1..Len(index.records) :
               /\ index.records[i].root = root /\ index.records[i].approved
               /\ index.records[i].revision # None} = Revisions(root)
      BY DEF Revisions, Originals, Approved
    <3> QED BY <3>1 DEF CurrentIsNewest
  <2> DEFINE R == Revisions(root)
             n == Cardinality(R)
  <2>1. IsFiniteSet(R) /\ n \in Nat /\ IsFiniteSet(Terminal(root))
    BY <1>1, RevisionsFinite
  <2>2. /\ row \in [1..n -> R]
        /\ \A i, j \in 1..n : row[i] = row[j] => i = j
        /\ \A x \in R : \E i \in 1..n : row[i] = x
    BY <2>1, RowReachesAll
  <2>3. n > 0 => R # {}
    BY FS_EmptySet
  <2> HIDE DEF n, R
  <2>4. ASSUME n > 0, IsLineage(row)
        PROVE  Current(root) = {index.records[row[n]]}
    <3>1. n \in 1..n /\ DOMAIN row = 1..n
      BY <2>1, <2>2, <2>4
    <3>2. \A i, j \in 1..n :
            (index.records[row[j]].previous = index.records[row[i]].revision)
              <=> j = i + 1
      BY <2>4, <3>1 DEF IsLineage
    <3>3. row[n] \in Terminal(root)
      <4>1. row[n] \in R
        BY <2>2, <3>1
      <4>2. ASSUME NEW x \in R
            PROVE  index.records[x].previous # index.records[row[n]].revision
        <5>1. PICK j \in 1..n : row[j] = x
          BY <2>2
        <5>2. j # n + 1
          BY <2>1
        <5> QED BY <3>1, <3>2, <5>1, <5>2
      <4> QED BY <4>1, <4>2 DEF Terminal, R
    <3>4. ASSUME NEW x \in Terminal(root)
          PROVE  x = row[n]
      <4>1. x \in R
        BY DEF Terminal, R
      <4>2. PICK i \in 1..n : row[i] = x
        BY <2>2, <4>1
      <4>3. CASE i < n
        <5>1. i + 1 \in 1..n /\ i + 1 # i
          BY <2>1, <4>3
        <5>2. row[i + 1] \in R \ {x}
          BY <2>2, <4>2, <5>1
        <5>3. index.records[row[i + 1]].previous
                = index.records[row[i]].revision
          BY <3>2, <5>1
        <5> QED BY <4>2, <5>2, <5>3 DEF Terminal, R
      <4>4. CASE i = n
        BY <4>2, <4>4
      <4> QED BY <2>1, <4>3, <4>4
    <3>5. Terminal(root) = {row[n]}
      BY <3>3, <3>4
    <3>6. Cardinality(Terminal(root)) = 1
      BY <3>5, FS_Singleton
    <3>7. Revisions(root) # {}
      BY <2>3, <2>4 DEF R
    <3>8. Current(root) = {index.records[i] : i \in Terminal(root)}
      BY <3>6, <3>7 DEF Current
    <3> QED BY <3>5, <3>8
  <2>5. ASSUME n > 1,
               \A i \in 1..n, j \in {1, 2} :
                 row[j] # row[i] => index.records[row[i]].previous
                                      # index.records[row[j]].revision
        PROVE  Current(root) = {}
    <3>1. 1 \in 1..n /\ 2 \in 1..n
      BY <2>1, <2>5
    <3>2. row[1] \in R /\ row[2] \in R /\ row[1] # row[2]
      BY <2>2, <3>1
    <3>3. ASSUME NEW j \in {1, 2}
          PROVE  row[j] \in Terminal(root)
      <4>1. ASSUME NEW x \in R \ {row[j]}
            PROVE  index.records[x].previous # index.records[row[j]].revision
        BY <2>2, <2>5
      <4> QED BY <3>2, <3>3, <4>1 DEF Terminal, R
    <3>4. Cardinality(Terminal(root)) # 1
      BY <2>1, <3>2, <3>3, FS_Singleton
    <3>5. Revisions(root) # {}
      BY <3>2 DEF R
    <3> QED BY <3>4, <3>5 DEF Current
  <2> QED BY <2>4, <2>5 DEF n, R
<1> QED BY <1>1, TypeCorrect, PTL

-----------------------------------------------------------------------------
(***************************************************************************)
(* The aggregate as a function of what is read, so that it can be stated   *)
(* of the files of an earlier build too. x is a policy index and c a       *)
(* collection of corpus files.                                             *)
(***************************************************************************)

ApprovedIn(x, root) ==
  {i \in 1..Len(x.records) :
     x.records[i].root = root /\ x.records[i].approved}

RevisionsIn(x, root) ==
  ApprovedIn(x, root)
    \ {i \in ApprovedIn(x, root) : x.records[i].revision = None}

TerminalIn(x, root) ==
  {i \in RevisionsIn(x, root) :
     ~ \E j \in RevisionsIn(x, root) \ {i} :
         x.records[j].previous = x.records[i].revision}

CandidatesIn(x, root) ==
  IF RevisionsIn(x, root) = {}
  THEN {i \in ApprovedIn(x, root) : x.records[i].revision = None}
  ELSE TerminalIn(x, root)

CurrentIn(x, root) ==
  IF Cardinality(CandidatesIn(x, root)) = 1
  THEN {x.records[i] : i \in CandidatesIn(x, root)} ELSE {}

\* The files that match the current record of a root, the one of them that
\* is kept, and the files that are passed over for it.
MatchingIn(x, c, root) ==
  {name \in DOMAIN c :
     \E rec \in CurrentIn(x, root) : /\ c[name].root = rec.root
                                     /\ c[name].revision = rec.revision
                                     /\ c[name].sha = rec.sha}

KeptIn(x, c, root) ==
  CHOOSE name \in MatchingIn(x, c, root) :
    \A other \in MatchingIn(x, c, root) : other <= name

PassedOverIn(x, c, roots) ==
  {name \in DOMAIN c : /\ c[name].root \in roots
                       /\ name \in MatchingIn(x, c, c[name].root)
                       /\ name # KeptIn(x, c, c[name].root)}

RootsIn(c) == {c[name].root : name \in DOMAIN c}

AggregateIn(x, c) ==
  [entries |-> [root \in RootsIn(c) |-> c[KeptIn(x, c, root)]],
   duplicates |-> Cardinality(PassedOverIn(x, c, RootsIn(c)))]

LEMMA CurrentInIsCurrent ==
  ASSUME NEW root
  PROVE  Current(root) = CurrentIn(index, root)
<1>1. /\ ApprovedIn(index, root) = Approved(root)
      /\ RevisionsIn(index, root) = Revisions(root)
  BY DEF ApprovedIn, Approved, RevisionsIn, Revisions, Originals
<1>2. TerminalIn(index, root) = Terminal(root)
  BY <1>1 DEF TerminalIn, Terminal
<1>3. CandidatesIn(index, root) = IF Revisions(root) = {}
                                  THEN Originals(root) ELSE Terminal(root)
  BY <1>1, <1>2 DEF CandidatesIn, Originals
<1> QED BY <1>3 DEF Current, CurrentIn

\* There is at most one current record, so that its matches are the matches.
LEMMA CurrentIsUnique ==
  ASSUME TypeOK, NEW root, NEW rec \in Current(root)
  PROVE  Current(root) = {rec}
<1> DEFINE candidates == IF Revisions(root) = {} THEN Originals(root)
                         ELSE Terminal(root)
<1>1. IsFiniteSet(1..Len(index.records))
  BY PositionsFinite
<1>2. candidates \in SUBSET (1..Len(index.records))
  BY DEF Revisions, Originals, Terminal, Approved
<1>3. IsFiniteSet(candidates)
  BY <1>1, <1>2, FS_Subset
<1>4. /\ Cardinality(candidates) = 1
      /\ Current(root) = {index.records[i] : i \in candidates}
  BY DEF Current
<1> HIDE DEF candidates
<1>5. PICK i : candidates = {i}
  BY <1>3, <1>4, FS_Singleton
<1> QED BY <1>4, <1>5

LEMMA MatchingIsMatches ==
  ASSUME TypeOK, NEW root, NEW rec \in Current(root)
  PROVE  MatchingIn(index, corpora, root) = Matches(rec)
<1>1. CurrentIn(index, root) = {rec}
  BY CurrentIsUnique, CurrentInIsCurrent
<1> QED BY <1>1 DEF MatchingIn, Matches

\* The last of the matches in the order of their names is the one kept.
LEMMA ChosenIsKept ==
  ASSUME TypeOK, NEW root, NEW rec \in Current(root),
         NEW name \in Chosen(Matches(rec))
  PROVE  name = KeptIn(index, corpora, root)
<1> DEFINE M == MatchingIn(index, corpora, root)
<1>1. M = Matches(rec)
  BY MatchingIsMatches
<1>2. M \subseteq Nat
  BY FileAssumption DEF TypeOK, MatchingIn
<1>3. KeptIn(index, corpora, root)
        = CHOOSE n \in M : \A other \in M : other <= n
  BY DEF KeptIn
<1> HIDE DEF M
<1>4. name \in M /\ \A other \in M : other <= name
  BY <1>1 DEF Chosen
<1> DEFINE k == CHOOSE n \in M : \A other \in M : other <= n
<1>5. k \in M /\ \A other \in M : other <= k
  BY <1>4
<1> HIDE DEF k
<1>6. name \in Nat /\ k \in Nat /\ name <= k /\ k <= name
  BY <1>2, <1>4, <1>5
<1>7. name = k
  BY <1>6
<1> QED BY <1>3, <1>7 DEF k

(***************************************************************************)
(* What is selected, and the number of files passed over, are those of the *)
(* function; the output is that of the last successful build.              *)
(***************************************************************************)

Determined ==
  /\ \A root \in DOMAIN selected :
       selected[root] = KeptIn(index, corpora, root)
  /\ duplicates = Cardinality(PassedOverIn(index, corpora, DOMAIN selected))
  /\ pc # "idle" => rewritten = FALSE /\ unread = FALSE
  /\ built # NothingBuilt => output = AggregateIn(built[1], built[3])

LEMMA PassedOverGrows ==
  ASSUME Admitted, NEW root, NEW rec \in Current(root),
         NEW name \in Chosen(Matches(rec)), Matches(rec) # {},
         NEW roots, root \notin roots
  PROVE  Cardinality(PassedOverIn(index, corpora, roots \cup {root}))
           = Cardinality(PassedOverIn(index, corpora, roots))
               + Cardinality(Matches(rec)) - 1
<1> DEFINE Old == PassedOverIn(index, corpora, roots)
           All == PassedOverIn(index, corpora, roots \cup {root})
           New == Matches(rec) \ {name}
<1>1. /\ MatchingIn(index, corpora, root) = Matches(rec)
      /\ name = KeptIn(index, corpora, root)
  BY MatchingIsMatches, ChosenIsKept DEF Admitted
<1>2. \A n \in Matches(rec) : n \in DOMAIN corpora /\ corpora[n].root = root
  <2>1. rec.root = root
    BY CurrentIsLast DEF Approved
  <2> QED BY <2>1 DEF Matches
<1>3. All = Old \cup New /\ Old \cap New = {}
  BY <1>1, <1>2 DEF PassedOverIn
<1>4. /\ IsFiniteSet(Matches(rec)) /\ Cardinality(Matches(rec)) \in Nat
      /\ name \in Matches(rec)
  BY MatchesFinite DEF Admitted, Chosen
<1>5. IsFiniteSet(New) /\ Cardinality(New) = Cardinality(Matches(rec)) - 1
  BY <1>4, FS_RemoveElement
<1>6. IsFiniteSet(Old)
  <2>1. Old \in SUBSET (DOMAIN corpora)
    BY DEF PassedOverIn
  <2> QED BY <2>1, FS_Subset, FileAssumption DEF Admitted, TypeOK
<1> HIDE DEF Old, All, New
<1>7. Cardinality(All) = Cardinality(Old) + Cardinality(New) - 0
  BY <1>3, <1>5, <1>6, FS_Union, FS_EmptySet
<1>8. Cardinality(Old) \in Nat
  BY <1>6, FS_CardinalityType
<1> QED BY <1>4, <1>5, <1>7, <1>8 DEF Old, All

LEMMA NonePassedOver ==
  ASSUME NEW x, NEW c
  PROVE  Cardinality(PassedOverIn(x, c, DOMAIN << >>)) = 0
<1>1. PassedOverIn(x, c, DOMAIN << >>) = {}
  BY NothingSelected DEF PassedOverIn
<1> QED BY <1>1, FS_EmptySet

\* All that a build has written is the aggregate of what it has read.
LEMMA WrittenIsAggregate ==
  ASSUME Admitted, Determined, pc = "replace"
  PROVE  temp = AggregateIn(index, corpora)
<1>1. DOMAIN selected = RootsIn(corpora)
  BY DEF Admitted, RootsIn, Roots
<1>2. [root \in DOMAIN selected |-> corpora[selected[root]]]
        = [root \in RootsIn(corpora) |->
             corpora[KeptIn(index, corpora, root)]]
  BY <1>1 DEF Determined
<1>3. duplicates
        = Cardinality(PassedOverIn(index, corpora, RootsIn(corpora)))
  BY <1>1 DEF Determined
<1>4. temp = Aggregate
  BY DEF Admitted
<1> QED BY <1>2, <1>3, <1>4 DEF Aggregate, AggregateIn

LEMMA DeterminedInit ==
  ASSUME Init
  PROVE  Determined
<1>1. selected = << >> /\ duplicates = 0 /\ pc = "idle" /\ built = NothingBuilt
  BY DEF Init
<1> QED BY <1>1, NothingSelected, NonePassedOver DEF Determined

\* Whatever releases what was gathered keeps the history, or writes it anew
\* with the output.
LEMMA DeterminedReleased ==
  ASSUME Admitted, Determined, selected' = << >>, duplicates' = 0,
         pc' # "idle" => rewritten' = FALSE /\ unread' = FALSE,
         \/ built' = built /\ output' = output
         \/ /\ built' = inputs
            /\ output' = AggregateIn(index, corpora)
  PROVE  Determined'
<1>1. DOMAIN selected' = {}
  BY NothingSelected
<1>2. duplicates'
        = Cardinality(PassedOverIn(index', corpora', DOMAIN selected'))
  BY NonePassedOver
<1>3. CASE built' = built /\ output' = output
  BY <1>1, <1>2, <1>3 DEF Determined, NothingBuilt
<1>4. CASE built' = inputs /\ output' = AggregateIn(index, corpora)
  <2>1. built'[1] = index /\ built'[3] = corpora
    BY <1>4 DEF inputs
  <2> QED BY <1>1, <1>2, <1>4, <2>1 DEF Determined
<1> QED BY <1>3, <1>4

LEMMA DeterminedStep ==
  ASSUME Admitted, Determined, [Next]_vars
  PROVE  Determined'
<1>1. CASE UNCHANGED vars \/ Read \/ Scan \/ Write
  <2>1. /\ UNCHANGED <<index, chain, corpora, output, selected, duplicates,
                       rewritten, unread, built>>
        /\ pc # "idle" \/ pc' = pc
    BY <1>1 DEF vars, Read, Scan, Write, inputs
  <2> QED BY <2>1 DEF Determined, NothingBuilt
<1>2. CASE Publish \/ Begin
  <2>1. /\ selected' = << >> /\ duplicates' = 0
        /\ UNCHANGED <<output, built>>
        /\ pc' # "idle" => rewritten' = FALSE /\ unread' = FALSE
    BY <1>2 DEF Publish, Begin, Admitted
  <2> QED BY <2>1, DeterminedReleased
<1>3. CASE ReadFails \/ ScanFails \/ WriteFails \/ ReplaceFails \/ Crash
           \/ \E root \in todo : Unresolved(root)
  <2>1. /\ selected' = << >> /\ duplicates' = 0 /\ pc' = "idle"
        /\ UNCHANGED <<output, built>>
    BY <1>3 DEF ReadFails, ScanFails, WriteFails, ReplaceFails, Crash,
                Unresolved, FailClosed, Stop
  <2> QED BY <2>1, DeterminedReleased
<1>4. CASE Keep \/ Replace
  <2>1. /\ selected' = << >> /\ duplicates' = 0 /\ pc' = "idle"
        /\ built' = inputs /\ output' = temp /\ pc = "replace"
    BY <1>4 DEF Keep, Replace, Stop
  <2> QED BY <2>1, WrittenIsAggregate, DeterminedReleased
<1>5. ASSUME NEW root \in todo, Resolve(root)
      PROVE  Determined'
  <2>0. PICK rec \in Current(root) :
          \E name \in Chosen(Matches(rec)) :
            /\ Registered(rec) /\ name \in Matches(rec)
            /\ selected' = [r \in DOMAIN selected \cup {root} |->
                              IF r = root THEN name ELSE selected[r]]
            /\ duplicates' = duplicates + Cardinality(Matches(rec)) - 1
            /\ root \in todo /\ todo' = todo \ {root}
            /\ pc = "resolve" /\ root \notin DOMAIN selected
    BY <1>5, ResolveSelects
  <2>1. PICK name \in Chosen(Matches(rec)) :
          /\ Registered(rec) /\ name \in Matches(rec)
          /\ selected' = [r \in DOMAIN selected \cup {root} |->
                            IF r = root THEN name ELSE selected[r]]
          /\ duplicates' = duplicates + Cardinality(Matches(rec)) - 1
          /\ root \in todo /\ todo' = todo \ {root}
          /\ pc = "resolve" /\ root \notin DOMAIN selected
    BY <2>0
  <2>2. /\ UNCHANGED <<index, corpora, output, pc, rewritten, unread, built>>
    BY <1>5 DEF Resolve, inputs
  <2>3. name = KeptIn(index, corpora, root)
    BY ChosenIsKept DEF Admitted
  <2>4. DOMAIN selected' = DOMAIN selected \cup {root}
    BY <2>1
  <2>5. \A r \in DOMAIN selected' :
          selected'[r] = KeptIn(index, corpora, r)
    BY <2>1, <2>3, <2>4 DEF Determined
  <2>6. Cardinality(PassedOverIn(index, corpora, DOMAIN selected'))
          = Cardinality(PassedOverIn(index, corpora, DOMAIN selected))
              + Cardinality(Matches(rec)) - 1
    BY <2>1, <2>4, PassedOverGrows
  <2>7. duplicates'
          = Cardinality(PassedOverIn(index, corpora, DOMAIN selected'))
    BY <2>1, <2>6 DEF Determined
  <2>8. /\ pc' # "idle" => rewritten' = FALSE /\ unread' = FALSE
        /\ built' # NothingBuilt =>
             output' = AggregateIn(built'[1], built'[3])
    BY <2>2 DEF Determined
  <2> QED BY <2>2, <2>5, <2>7, <2>8 DEF Determined, NothingBuilt
<1> QED BY <1>1, <1>2, <1>3, <1>4, <1>5 DEF Next

\* The same inputs give the same bytes: a build over what the last successful
\* one has read does not touch the output, whatever came between the two.
THEOREM SameInputsSameOutput == Spec => UnchangedNotRewritten
<1>1. Spec => []Determined
  BY DeterminedInit, DeterminedStep, Admission, PTL DEF Spec
<1>2. ASSUME Admitted, Determined, [Next]_vars,
             pc = "replace", status' = "OK", built = inputs
      PROVE  ~rewritten' \/ unread'
  <2>1. temp = AggregateIn(index, corpora)
    BY <1>2, WrittenIsAggregate
  <2>2. built[1] = index /\ built[3] = corpora /\ built # NothingBuilt
    BY <1>2 DEF inputs, NothingBuilt
  <2>3. temp = output
    BY <1>2, <2>1, <2>2 DEF Determined
  <2>4. Replace => unread'
    BY <2>3 DEF Replace
  <2>5. CASE rewritten' = rewritten
    BY <1>2, <2>5 DEF Determined
  <2>6. CASE rewritten' # rewritten
    <3>1. Begin \/ Replace
      BY <1>2, <2>6 DEF Next, vars, Publish, Begin, ReadFails, Read, ScanFails,
         Scan, Unresolved, Resolve, Write, WriteFails, Keep, ReplaceFails,
         Crash, FailClosed
    <3> QED BY <1>2, <2>4, <3>1 DEF Begin
  <2> QED BY <2>5, <2>6
<1> QED BY <1>1, <1>2, Admission, PTL DEF Spec, UnchangedNotRewritten

=============================================================================
