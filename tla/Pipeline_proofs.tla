--------------------------- MODULE Pipeline_proofs ---------------------------
(***************************************************************************)
(* Proofs about Pipeline, for any names, libraries, authorities, limits    *)
(* and sets of executed modules, and any number of runs.                   *)
(***************************************************************************)
EXTENDS Pipeline, FiniteSetTheorems, TLAPS

USE DEF world, artifacts, progress, history, kb

\* A file that is not there, a torn one and a whole one are told apart.
LEMMA FilesDiffer ==
  /\ Missing # Torn
  /\ \A v \in Version : v # Missing /\ v # Torn
  /\ \A e \in Entry : e # Missing /\ e # Torn
BY DEF Missing, Torn, P!Missing, P!Torn, Version, Entry

\* What is in the source directory has been delivered.
LEMMA VersionsOfLibrary ==
  ASSUME TypeOK, NEW n \in DOMAIN sources
  PROVE  /\ n \in Name
         /\ sources[n] \in Version
         /\ sources[n] \in delivered
BY LibraryAssumption DEF TypeOK, P!VersionsOf

-----------------------------------------------------------------------------
(***************************************************************************)
(* Type correctness.                                                       *)
(***************************************************************************)

\* The type holds at the beginning.
LEMMA TypeInit == Init => TypeOK
<1> SUFFICES ASSUME Init PROVE TypeOK
  OBVIOUS
<1>1. /\ sources \in Libraries /\ authority \in Authorities
      /\ delivered \subseteq Version
      /\ P!VersionsOf(sources) \subseteq delivered
  BY LibraryAssumption DEF Init, P!VersionsOf
<1>2. /\ structured \in [Name -> {Missing, Torn} \cup delivered]
      /\ chunked \in [Name -> {Missing, Torn} \cup delivered]
      /\ corpus = [n \in Name \cup {Kb} |-> corpus[n]]
      /\ \A n \in Name \cup {Kb} : corpus[n] = Missing
  BY DEF Init
<1>3. /\ selection \subseteq Stage /\ stage = "idle" /\ todo = {}
      /\ status \in {"none", "OK", "FAILED"}
      /\ runs \in 0..MaxRuns /\ changes \in 0..MaxChanges
  BY BoundAssumption DEF Init
<1>4. healthy \in BOOLEAN /\ disturbed \in BOOLEAN
  BY DEF Init
<1>5. IsFiniteSet(seen) /\ Cardinality(seen) <= SeenMax
  BY FS_EmptySet, LimitAssumption DEF Init
<1> QED BY <1>1, <1>2, <1>3, <1>4, <1>5 DEF TypeOK

\* Where GoOn leads, and what the next stage finds there.
LEMMA GoOnTypes ==
  ASSUME TypeOK, GoOn, stage # "aggregator",
         UNCHANGED <<sources, structured, chunked>>
  PROVE  /\ stage' \in Stage
         /\ todo' \subseteq Name
         /\ stage' = "markdown" => todo' \subseteq DOMAIN sources
         /\ stage' = "chunker" => todo' \subseteq Present(structured)
         /\ stage' = "provenance" => todo' \subseteq Present(chunked)
         /\ stage' = "aggregator" => todo' = {}
BY LibraryAssumption DEF TypeOK, GoOn, After, Listing, Stage, Present

\* What is written to one corpus file leaves the others as they are.
LEMMA CorpusWritten ==
  ASSUME TypeOK, NEW n \in Name \cup {Kb}, NEW content,
         corpus' = Written(corpus, n, content)
  PROVE  /\ corpus' = [m \in Name \cup {Kb} |-> corpus'[m]]
         /\ corpus'[n] = content
         /\ \A m \in Name \cup {Kb} : m # n => corpus'[m] = corpus[m]
<1>1. corpus = [m \in Name \cup {Kb} |-> corpus[m]]
  BY DEF TypeOK
<1>2. corpus' = [corpus EXCEPT ![n] = content]
  BY DEF Written
<1> QED BY <1>1, <1>2

\* The type of the corpus files.
CorpusTypes ==
  /\ corpus = [n \in Name \cup {Kb} |-> corpus[n]]
  /\ \A n \in Name \ {Kb} : corpus[n] \in {Missing, Torn} \cup Entry
  /\ kb \in {Missing, Torn} \cup Entry \/ IsAggregate(kb)

LEMMA CorpusTypesNext ==
  ASSUME TypeOK, NEW n \in Name \cup {Kb}, NEW content,
         corpus' = Written(corpus, n, content),
         \/ content \in {Torn} \cup Entry
         \/ n = Kb /\ IsAggregate(content)
  PROVE  CorpusTypes'
<1>1. /\ corpus' = [m \in Name \cup {Kb} |-> corpus'[m]]
      /\ corpus'[n] = content
      /\ \A m \in Name \cup {Kb} : m # n => corpus'[m] = corpus[m]
  BY CorpusWritten
<1>2. \A m \in Name \ {Kb} : corpus'[m] \in {Missing, Torn} \cup Entry
  BY <1>1 DEF TypeOK
<1>3. \/ corpus'[Kb] \in {Missing, Torn} \cup Entry
      \/ IsAggregate(corpus'[Kb])
  BY <1>1 DEF TypeOK
<1> QED BY <1>1, <1>2, <1>3 DEF CorpusTypes, Missing, Torn, P!Missing, P!Torn,
                                Entry, Version, IsAggregate

\* What provenance writes, whole or not, is an entry.
LEMMA TracedIsEntry ==
  ASSUME TypeOK, NEW n \in Name, Admissible(n)
  PROVE  /\ n \in DOMAIN sources /\ n \in todo /\ stage = "provenance"
         /\ chunked[n] \in delivered /\ sources[n] \in delivered
         /\ Traced(n, TRUE) \in Entry
         /\ Traced(n, FALSE) \in Entry
<1>1. /\ n \in DOMAIN sources /\ n \in todo /\ stage = "provenance"
      /\ chunked[n] \in delivered
  BY DEF Admissible, Tracing, Executes, Agrees, Current, Readable, Present,
         TypeOK
<1>2. sources[n] \in Version /\ sources[n] \in delivered
  BY <1>1, VersionsOfLibrary
<1>3. chunked[n].text \in Nat
  BY <1>1 DEF TypeOK, Version
<1> QED BY <1>1, <1>2, <1>3 DEF Traced, Entry

\* What the aggregator writes is an aggregate.
LEMMA AggregateIsAggregate ==
  ASSUME TypeOK, NEW files \in SUBSET Corpora, Aggregable(files)
  PROVE  IsAggregate(AggregateOf(files))
<1>1. \A n \in files : corpus[n] \in Entry
  BY DEF Aggregable, Corpora, Present, TypeOK
<1>2. ASSUME NEW root \in Roots(files)
      PROVE  corpus[Chosen(Matching(files, root))] \in Entry
  <2> DEFINE names == Matching(files, root)
  <2>1. names # {} /\ names \in SUBSET files /\ names \in SUBSET Name
    BY DEF Aggregable, Matching, Corpora, Present
  <2>2. Chosen(names) \in names
    BY <2>1, NameAssumption DEF Chosen
  <2> QED BY <1>1, <2>1, <2>2
<1> QED BY <1>2 DEF AggregateOf, IsAggregate

\* The identity table: one more, where there is room.
LEMMA SeenTypes ==
  ASSUME TypeOK, NEW id, HasRoom, id \notin seen, seen' = seen \cup {id}
  PROVE  IsFiniteSet(seen') /\ Cardinality(seen') <= SeenMax
<1>1. IsFiniteSet(seen) /\ Cardinality(seen) \in Nat
  BY FS_CardinalityType DEF TypeOK
<1>2. IsFiniteSet(seen') /\ Cardinality(seen') = Cardinality(seen) + 1
  BY <1>1, FS_AddElement
<1>3. SeenMax \in Nat /\ Cardinality(seen) < SeenMax
  BY LimitAssumption DEF HasRoom
<1> QED BY <1>1, <1>2, <1>3

\* The type is kept by a step that writes at most one file of each kind and
\* leaves the names it has yet to come to, or some of them.
LEMMA StepTypes ==
  ASSUME TypeOK, Step
  PROVE  TypeOK'
<1> USE DEF TypeOK
<1>1. CASE PassOver
  <2>1. CASE stage = "aggregator"
    BY <1>1, <2>1 DEF PassOver, Stop, Stage, Present
  <2>2. CASE stage # "aggregator"
    BY <1>1, <2>2, GoOnTypes DEF PassOver, Present, Stage
  <2> QED BY <2>1, <2>2
<1>2. CASE EndOfListing
  BY <1>2, GoOnTypes DEF EndOfListing, Present, Stage
<1>3. ASSUME NEW n \in Name, Handle(n) PROVE TypeOK'
  <2>1. CASE Rejected(n) \/ Unreadable(n) \/ Malformed(n)
               \/ SizeDiffers(n) \/ Refused(n) \/ TableFull(n)
    BY <2>1 DEF Rejected, Unreadable, Malformed, SizeDiffers, Refused,
                TableFull, FailClosed, Stop, Present, Stage
  <2>2. CASE Parse(n)
    <3>1. n \in DOMAIN sources
      BY <2>2 DEF Parse, Parsing, Executes
    <3>2. sources[n] \in delivered
      BY <3>1, VersionsOfLibrary
    <3> QED BY <2>2, <3>2 DEF Parse, Parsing, Executes, Written, Done, Present
  <2>3. CASE Chunk(n)
    <3>1. structured[n] \in delivered
      BY <2>3 DEF Chunk, Chunking, Executes, Present
    <3> QED BY <2>3, <3>1 DEF Chunk, Chunking, Executes, Written, Done, Present
  <2>4. CASE Skipped(n)
    BY <2>4 DEF Skipped, Done, Tracing, Executes, Present
  <2>5. CASE Trace(n)
    <3>1. Traced(n, TRUE) \in Entry /\ stage = "provenance"
      BY <2>5, TracedIsEntry DEF Trace
    <3>2. CorpusTypes'
      BY <2>5, <3>1, CorpusTypesNext DEF Trace
    <3>3. IsFiniteSet(seen') /\ Cardinality(seen') <= SeenMax
      BY <2>5, SeenTypes DEF Trace, Admissible
    <3>4. /\ UNCHANGED <<world, structured, chunked, selection, history>>
          /\ todo' = todo \ {n} /\ UNCHANGED <<stage, status>>
      BY <2>5 DEF Trace, Done
    <3> QED BY <3>1, <3>2, <3>3, <3>4 DEF CorpusTypes, Present
  <2> QED BY <1>3, <2>1, <2>2, <2>3, <2>4, <2>5 DEF Handle
<1>4. CASE NotAggregable
  BY <1>4 DEF NotAggregable, FailClosed, Stop, Present, Stage
<1>5. CASE Aggregate
  <2>1. IsAggregate(AggregateOf(Corpora))
    BY <1>5, AggregateIsAggregate DEF Aggregate
  <2>2. CorpusTypes'
    BY <1>5, <2>1, CorpusTypesNext DEF Aggregate
  <2> QED BY <1>5, <2>2 DEF Aggregate, CorpusTypes, Stop, Present, Stage
<1> QED BY <1>1, <1>2, <1>3, <1>4, <1>5 DEF Step

\* No step spoils the type.
LEMMA TypeNext ==
  ASSUME TypeOK, [Next]_vars
  PROVE  TypeOK'
<1>1. CASE Deliver
  <2>1. P!VersionsOf(sources') \subseteq Version
    BY <1>1, LibraryAssumption DEF Deliver, P!VersionsOf
  <2> QED BY <1>1, <2>1, BoundAssumption DEF Deliver, TypeOK, Present
<1>2. CASE Decide
  BY <1>2, BoundAssumption DEF Decide, TypeOK, Present
<1>3. CASE Begin
  <2>1. selection' \subseteq Stage /\ healthy' \in BOOLEAN
    BY <1>3, SelectionAssumption DEF Begin
  <2>2. stage # "aggregator"
    BY <1>3 DEF Begin
  <2>3. /\ stage' \in Stage
        /\ todo' \subseteq Name
        /\ stage' = "markdown" => todo' \subseteq DOMAIN sources
        /\ stage' = "chunker" => todo' \subseteq Present(structured)
        /\ stage' = "provenance" => todo' \subseteq Present(chunked)
        /\ stage' = "aggregator" => todo' = {}
    BY <1>3, <2>2, GoOnTypes DEF Begin
  <2>4. runs' \in 0..MaxRuns
    <3>1. runs < MaxRuns /\ runs' = runs + 1
      BY <1>3 DEF Begin
    <3> QED BY <3>1, BoundAssumption DEF TypeOK
  <2>5. /\ status' \in {"none", "OK", "FAILED"} /\ disturbed' \in BOOLEAN
        /\ IsFiniteSet(seen') /\ Cardinality(seen') <= SeenMax
    <3>1. seen' = {} /\ status' = "none" /\ disturbed' = FALSE
      BY <1>3 DEF Begin
    <3>2. IsFiniteSet({}) /\ Cardinality({}) = 0
      BY FS_EmptySet
    <3>3. Cardinality(seen') <= SeenMax
      BY <3>1, <3>2, LimitAssumption
    <3> QED BY <3>1, <3>2, <3>3
  <2>6. UNCHANGED <<world, artifacts, changes>>
    BY <1>3 DEF Begin
  <2> QED BY <2>1, <2>3, <2>4, <2>5, <2>6 DEF TypeOK, Present, Stage
<1>4. CASE Step
  BY <1>4, StepTypes
<1>5. CASE Interrupt
  <2>2. ASSUME NEW n \in Name, CutParse(n) \/ CutChunk(n)
        PROVE  /\ structured' \in [Name -> {Missing, Torn} \cup delivered]
               /\ chunked' \in [Name -> {Missing, Torn} \cup delivered]
               /\ corpus' = corpus
    BY <2>2 DEF CutParse, CutChunk, Written, TypeOK
  <2>3. ASSUME NEW n \in Name, CutTrace(n)
        PROVE  CorpusTypes' /\ UNCHANGED <<structured, chunked>>
    <3>1. PICK left \in {Torn, Traced(n, FALSE)} :
            corpus' = Written(corpus, n, left)
      BY <2>3 DEF CutTrace
    <3>2. left \in {Torn} \cup Entry
      BY <2>3, TracedIsEntry DEF CutTrace
    <3> QED BY <2>3, <3>1, <3>2, CorpusTypesNext DEF CutTrace
  <2>4. /\ structured' \in [Name -> {Missing, Torn} \cup delivered]
        /\ chunked' \in [Name -> {Missing, Torn} \cup delivered]
        /\ CorpusTypes'
    <3>1. CASE UNCHANGED artifacts
      BY <3>1 DEF TypeOK, CorpusTypes
    <3>2. ASSUME NEW n \in Name, CutParse(n) \/ CutChunk(n) \/ CutTrace(n)
          PROVE  <2>4
      BY <2>2, <2>3, <3>2 DEF TypeOK, CorpusTypes
    <3> QED BY <1>5, <3>1, <3>2 DEF Interrupt
  <2> QED BY <1>5, <2>4 DEF Interrupt, TypeOK, CorpusTypes, Stop, Stage
<1>6. CASE BreakOff
  BY <1>6 DEF BreakOff, TypeOK, Present
<1>7. CASE AggregatePart
  <2>1. PICK files \in SUBSET Corpora :
          /\ Aggregable(files)
          /\ corpus' = Written(corpus, Kb, AggregateOf(files))
    BY <1>7 DEF AggregatePart
  <2>2. CorpusTypes'
    BY <2>1, AggregateIsAggregate, CorpusTypesNext
  <2> QED BY <1>7, <2>2 DEF AggregatePart, CorpusTypes, TypeOK, Stop, Present
<1>8. CASE UNCHANGED vars
  BY <1>8 DEF vars, TypeOK, Present
<1> QED BY <1>1, <1>2, <1>3, <1>4, <1>5, <1>6, <1>7, <1>8 DEF Next

\* The type invariant holds of every behaviour.
THEOREM TypeCorrect == Spec => []TypeOK
<1>1. Init => TypeOK
  BY TypeInit
<1>2. TypeOK /\ [Next]_vars => TypeOK'
  BY TypeNext
<1> QED BY <1>1, <1>2, PTL DEF Spec

-----------------------------------------------------------------------------
(***************************************************************************)
(* The stages implement Publication. What has to be known of the files on  *)
(* the way is that a corpus file gives a text that was delivered in the    *)
(* size of a version of its identity.                                      *)
(***************************************************************************)

Vouched == \A n \in Name : Intact(n) => P!Traceable(corpus[n])

\* What has been delivered stays delivered.
LEMMA TraceableStays ==
  ASSUME NEW e, P!Traceable(e), delivered \subseteq delivered'
  PROVE  P!Traceable(e)'
BY DEF P!Traceable

\* What is traced, whole or not, has the size of the source it is given for.
LEMMA TracedIsTraceable ==
  ASSUME TypeOK, NEW n \in Name, Admissible(n)
  PROVE  /\ P!Traceable(Traced(n, TRUE))
         /\ P!Traceable(Traced(n, FALSE))
<1>1. chunked[n] \in delivered /\ sources[n] \in delivered
  BY TracedIsEntry
<1>2. chunked[n].size = sources[n].size
  BY DEF Admissible, Agrees
<1> QED BY <1>1, <1>2 DEF P!Traceable, Traced

\* A corpus file that is written with a traceable entry, or torn.
LEMMA VouchedWritten ==
  ASSUME TypeOK, Vouched, NEW n \in Name \cup {Kb}, NEW content,
         corpus' = Written(corpus, n, content), delivered' = delivered,
         n = Kb \/ content = Torn \/ P!Traceable(content)
  PROVE  Vouched'
<1>1. /\ corpus'[n] = content
      /\ \A m \in Name \cup {Kb} : m # n => corpus'[m] = corpus[m]
  BY CorpusWritten
<1>2. ASSUME NEW m \in Name, Intact(m)'
      PROVE  P!Traceable(corpus'[m])
  <2>1. CASE m = n
    BY <1>1, <1>2, <2>1 DEF Intact, Corpora
  <2>2. CASE m # n
    BY <1>1, <1>2, <2>2 DEF Intact, Corpora, Present, Vouched
  <2> QED BY <2>1, <2>2
<1>3. ASSUME NEW m \in Name, Intact(m)' PROVE P!Traceable(corpus[m])'
  BY <1>2, <1>3 DEF P!Traceable
<1> QED BY <1>3 DEF Vouched

\* No step leaves a corpus file that could not be traced.
LEMMA VouchedNext ==
  ASSUME TypeOK, Vouched, [Next]_vars
  PROVE  Vouched'
<1>1. delivered \subseteq delivered'
  BY DEF Next, vars, Deliver, Decide, Begin, Step, Interrupt, BreakOff,
         AggregatePart, PassOver, EndOfListing, Handle, NotAggregable,
         Aggregate, FailClosed, Rejected, Parse, Unreadable, Chunk, Malformed,
         SizeDiffers, Skipped, Refused, TableFull, Trace
<1>2. CASE corpus' = corpus
  <2>1. \A n \in Name : Intact(n)' <=> Intact(n)
    BY <1>2 DEF Intact, Corpora, Present
  <2> QED BY <1>1, <1>2, <2>1, TraceableStays DEF Vouched
<1>3. ASSUME NEW n \in Name, Trace(n) PROVE Vouched'
  BY <1>3, TracedIsTraceable, VouchedWritten DEF Trace
<1>4. CASE Interrupt
  <2>1. delivered' = delivered
    BY <1>4 DEF Interrupt
  <2>2. ASSUME NEW n \in Name, CutTrace(n) PROVE Vouched'
    BY <2>1, <2>2, TracedIsTraceable, VouchedWritten DEF CutTrace
  <2> QED BY <1>2, <1>4, <2>2 DEF Interrupt, CutParse, CutChunk
<1>5. CASE Aggregate \/ AggregatePart
  <2>1. \E content : corpus' = Written(corpus, Kb, content)
    BY <1>5 DEF Aggregate, AggregatePart
  <2> QED BY <1>5, <2>1, VouchedWritten DEF Aggregate, AggregatePart
<1> QED
  BY <1>2, <1>3, <1>4, <1>5 DEF Next, vars, Deliver, Decide, Begin, Step,
         BreakOff, PassOver, EndOfListing, Handle, NotAggregable, FailClosed,
         Rejected, Parse, Unreadable, Chunk, Malformed, SizeDiffers, Skipped,
         Refused, TableFull

\* The aggregator publishes what Publication allows, of all files or of some.
LEMMA AggregateIsPublishable ==
  ASSUME TypeOK, Vouched, NEW files \in SUBSET Corpora, Aggregable(files)
  PROVE  P!Publishable(AggregateOf(files))
<1> DEFINE entries == AggregateOf(files).entries
<1>1. \A n \in files : n \in Name /\ Intact(n)
  BY DEF Corpora, Present, Aggregable, Intact
<1>2. ASSUME NEW root \in Roots(files)
      PROVE  /\ entries[root].source.id.root = root
             /\ P!Tuple(entries[root].source) \in authority.latest
             /\ P!Traceable(entries[root])
  <2> DEFINE names == Matching(files, root)
             n == Chosen(names)
  <2>1. names # {} /\ names \in SUBSET Name
    BY <1>1 DEF Aggregable, Matching
  <2>2. n \in names
    BY <2>1, NameAssumption DEF Chosen
  <2>3. entries[root] = corpus[n]
    BY DEF AggregateOf
  <2>4. /\ n \in files /\ corpus[n].source.id.root = root
        /\ P!Tuple(corpus[n].source) \in authority.latest
    BY <2>2 DEF Matching
  <2> HIDE DEF n
  <2> QED BY <1>1, <2>3, <2>4 DEF Vouched
<1>3. DOMAIN entries = Roots(files) /\ DOMAIN AggregateOf(files) = {"entries"}
  BY DEF AggregateOf
<1> QED BY <1>2, <1>3 DEF P!Publishable

\* What provenance writes in the name of kb.md is what Publication allows.
LEMMA OverwriteStep ==
  ASSUME TypeOK, NEW n \in Name, Admissible(n),
         NEW content \in {Torn, Traced(n, TRUE), Traced(n, FALSE)},
         corpus' = Written(corpus, n, content),
         UNCHANGED <<sources, delivered, authority>>
  PROVE  [P!Next]_(P!vars)
<1>1. CASE n # Kb
  BY <1>1, CorpusWritten DEF P!vars
<1>2. CASE n = Kb
  <2>1. corpus'[Kb] = content
    BY <1>2, CorpusWritten
  <2>2. Kb \in DOMAIN sources
    BY <1>2, TracedIsEntry
  <2>3. CASE content = Torn
    BY <2>1, <2>2, <2>3 DEF Torn, P!Overwrite, P!Next
  <2>4. CASE content # Torn
    <3>1. /\ "source" \in DOMAIN content /\ content.source = sources[Kb]
          /\ P!Traceable(content)
      <4>1. content = Traced(Kb, TRUE) \/ content = Traced(Kb, FALSE)
        BY <1>2, <2>4
      <4>2. P!Traceable(content)
        BY <1>2, <4>1, TracedIsTraceable
      <4> QED BY <4>1, <4>2 DEF Traced
    <3>2. P!Traceable(corpus'[Kb])
      BY <2>1, <3>1
    <3>3. P!Traceable(corpus[Kb])'
      BY <3>2 DEF P!Traceable
    <3> QED BY <2>1, <2>2, <3>1, <3>3 DEF P!Overwrite, P!Next
  <2> QED BY <2>3, <2>4
<1> QED BY <1>1, <1>2

\* Every step of the pipeline is one of Publication or changes nothing there.
LEMMA StepsArePublications ==
  ASSUME TypeOK, Vouched, [Next]_vars
  PROVE  [P!Next]_(P!vars)
<1> USE DEF P!vars
<1>1. CASE Deliver
  BY <1>1 DEF Deliver, P!Deliver, P!Next
<1>2. CASE Decide
  BY <1>2 DEF Decide, P!Decide, P!Next
<1>3. ASSUME NEW files \in SUBSET Corpora, Aggregable(files),
             corpus' = Written(corpus, Kb, AggregateOf(files)),
             UNCHANGED <<sources, delivered, authority>>
      PROVE  [P!Next]_(P!vars)
  <2>1. P!Publishable(AggregateOf(files))
    BY <1>3, AggregateIsPublishable
  <2>2. corpus'[Kb] = AggregateOf(files)
    BY <1>3, CorpusWritten
  <2>3. P!Publishable(corpus'[Kb])
    BY <2>1, <2>2
  <2> QED BY <1>3, <2>3 DEF P!Publish, P!Publishable, P!Traceable, P!Next
<1>4. CASE Aggregate \/ AggregatePart
  BY <1>3, <1>4 DEF Aggregate, AggregatePart
<1>5. CASE UNCHANGED <<world, corpus>>
  BY <1>5
<1>6. ASSUME NEW n \in Name, Trace(n) PROVE [P!Next]_(P!vars)
  BY <1>6, OverwriteStep DEF Trace
<1>7. CASE Interrupt
  <2>1. ASSUME NEW n \in Name, CutTrace(n) PROVE [P!Next]_(P!vars)
    BY <1>7, <2>1, OverwriteStep DEF CutTrace, Interrupt
  <2> QED BY <1>5, <1>7, <2>1 DEF Interrupt, CutParse, CutChunk
<1> QED
  BY <1>1, <1>2, <1>4, <1>5, <1>6, <1>7 DEF Next, Step, Begin, BreakOff, vars,
     PassOver, EndOfListing, NotAggregable, Handle, FailClosed, Rejected,
     Parse, Unreadable, Chunk, Malformed, SizeDiffers, Skipped, Refused,
     TableFull

\* The pipeline implements the abstract specification of what it publishes.
THEOREM PipelineImplementsPublication == Spec => ImplementsPublication
<1>1. Init => P!Init
  BY DEF Init, P!Init, Missing
<1>2. Init => Vouched
  BY DEF Init, Vouched, Intact, Corpora, Present
<1>3. TypeOK /\ Vouched /\ [Next]_vars => Vouched' /\ [P!Next]_(P!vars)
  BY VouchedNext, StepsArePublications
<1> QED
  BY <1>1, <1>2, <1>3, TypeCorrect, PTL DEF Spec, ImplementsPublication, P!Spec

-----------------------------------------------------------------------------
(***************************************************************************)
(* A run of all modules in which no call fails. What the stages have come  *)
(* to is as the sources are: the structured artifact of a document holds   *)
(* the document, a chunk artifact what the structured one holds, and for   *)
(* every accepted identity there is a corpus file made from a document of  *)
(* that identity.                                                          *)
(***************************************************************************)

FullRun == stage # "idle" /\ selection = Stage /\ ~disturbed

ParsedAsIs ==
  \A n \in DOMAIN sources :
    structured[n] = sources[n] \/ (stage = "markdown" /\ n \in todo)

ChunkedAsIs ==
  \A n \in Present(structured) :
    \/ chunked[n] = structured[n]
    \/ stage = "markdown"
    \/ stage = "chunker" /\ n \in todo

AcceptedAsIs ==
  \A id \in seen :
    \E n \in DOMAIN sources \ todo :
      sources[n].id = id /\ corpus[n] = EntryOf(n)

AllAccepted ==
  IF stage \in {"markdown", "chunker"} THEN seen = {}
  ELSE \A n \in DOMAIN sources \ todo : Controlled(n) => sources[n].id \in seen

SeenApproved == seen \subseteq authority.approved

AsIs ==
  ParsedAsIs /\ ChunkedAsIs /\ AcceptedAsIs /\ AllAccepted /\ SeenApproved

FullRunInv == FullRun => AsIs

\* The end of one listing is the beginning of the next.
LEMMA AsIsGoOn ==
  ASSUME TypeOK, FullRun, AsIs, EndOfListing
  PROVE  AsIs'
<1> USE DEF EndOfListing, GoOn
<1>0. /\ todo = {}
      /\ UNCHANGED <<sources, authority, structured, chunked, corpus, seen>>
  OBVIOUS
<1>1. CASE stage = "markdown"
  <2>1. stage' = "chunker" /\ todo' = Present(structured)
    BY <1>1 DEF After, Listing
  <2>2. seen = {}
    BY <1>1 DEF AsIs, AllAccepted
  <2>3. ParsedAsIs'
    BY <1>0, <1>1 DEF AsIs, ParsedAsIs
  <2> QED
    BY <1>0, <2>1, <2>2, <2>3 DEF AsIs, ChunkedAsIs, AcceptedAsIs, AllAccepted,
       SeenApproved, Present
<1>2. CASE stage = "chunker"
  <2>1. stage' = "provenance" /\ todo' = Present(chunked)
    BY <1>2 DEF After, Listing
  <2>2. seen = {}
    BY <1>2 DEF AsIs, AllAccepted
  <2>3. \A n \in DOMAIN sources : structured[n] = sources[n]
    BY <1>2 DEF AsIs, ParsedAsIs
  <2>4. \A n \in Present(structured) : chunked[n] = structured[n]
    BY <1>0, <1>2 DEF AsIs, ChunkedAsIs
  <2>5. DOMAIN sources \subseteq Present(chunked)
    BY <2>3, <2>4, VersionsOfLibrary, FilesDiffer DEF Present
  <2> QED
    BY <1>0, <2>1, <2>2, <2>3, <2>4, <2>5
    DEF AsIs, ParsedAsIs, ChunkedAsIs, AcceptedAsIs, AllAccepted,
        SeenApproved, Present
<1>3. CASE stage = "provenance"
  <2>1. stage' = "aggregator" /\ todo' = {}
    BY <1>3 DEF After, Listing
  <2> QED
    BY <1>0, <1>3, <2>1 DEF AsIs, ParsedAsIs, ChunkedAsIs, AcceptedAsIs,
       AllAccepted, SeenApproved, Present, EntryOf, Controlled
<1> QED BY <1>1, <1>2, <1>3 DEF FullRun, Stage

\* What is done to one file keeps what has been done to the others.
LEMMA AsIsHandle ==
  ASSUME TypeOK, FullRun, AsIs, NEW n \in Name, Handle(n), stage' # "idle"
  PROVE  AsIs'
<1>1. CASE Parse(n)
  <2>1. /\ stage = "markdown" /\ stage' = stage /\ todo' = todo \ {n}
        /\ n \in DOMAIN sources
        /\ structured' = [structured EXCEPT ![n] = sources[n]]
        /\ UNCHANGED <<sources, authority, chunked, corpus, seen>>
    BY <1>1 DEF Parse, Parsing, Executes, Done, Written, TypeOK
  <2>2. seen = {}
    BY <2>1 DEF AsIs, AllAccepted
  <2>3. ParsedAsIs'
    BY <2>1, LibraryAssumption DEF AsIs, ParsedAsIs, TypeOK
  <2> QED
    BY <2>1, <2>2, <2>3 DEF AsIs, ChunkedAsIs, AcceptedAsIs, AllAccepted,
       SeenApproved
<1>2. CASE Chunk(n)
  <2>1. /\ stage = "chunker" /\ stage' = stage /\ todo' = todo \ {n}
        /\ chunked' = [chunked EXCEPT ![n] = structured[n]]
        /\ UNCHANGED <<sources, authority, structured, corpus, seen>>
    BY <1>2 DEF Chunk, Chunking, Executes, Done, Written
  <2>2. seen = {}
    BY <2>1 DEF AsIs, AllAccepted
  <2>3. ParsedAsIs'
    BY <2>1 DEF AsIs, ParsedAsIs
  <2>4. ChunkedAsIs'
    BY <2>1 DEF AsIs, ChunkedAsIs, TypeOK, Present
  <2> QED
    BY <2>1, <2>2, <2>3, <2>4 DEF AsIs, AcceptedAsIs, AllAccepted,
       SeenApproved
<1>3. CASE Skipped(n)
  <2>1. /\ stage = "provenance" /\ stage' = stage /\ todo' = todo \ {n}
        /\ UNCHANGED <<sources, authority, structured, chunked, corpus, seen>>
    BY <1>3 DEF Skipped, Tracing, Executes, Done
  <2>2. ParsedAsIs' /\ ChunkedAsIs'
    BY <2>1 DEF AsIs, ParsedAsIs, ChunkedAsIs, Present
  <2>3. AcceptedAsIs'
    BY <2>1 DEF AsIs, AcceptedAsIs, EntryOf
  <2>4. n \in DOMAIN sources /\ Controlled(n) => sources[n].id \in seen
    BY <1>3, AuthorityAssumption DEF Skipped, Controlled, TypeOK
  <2>5. AllAccepted'
    BY <2>1, <2>4 DEF AsIs, AllAccepted, Controlled
  <2> QED BY <2>1, <2>2, <2>3, <2>5 DEF AsIs, SeenApproved
<1>4. CASE Trace(n)
  <2>1. /\ stage = "provenance" /\ stage' = stage /\ todo' = todo \ {n}
        /\ n \in DOMAIN sources /\ n \in todo
        /\ corpus' = Written(corpus, n, Traced(n, TRUE))
        /\ seen' = seen \cup {sources[n].id}
        /\ UNCHANGED <<sources, authority, structured, chunked>>
    BY <1>4 DEF Trace, Admissible, Tracing, Executes, Done, Agrees, Current
  <2>2. ParsedAsIs' /\ ChunkedAsIs'
    BY <2>1 DEF AsIs, ParsedAsIs, ChunkedAsIs, Present
  <2>3. chunked[n] = sources[n]
    <3>1. structured[n] = sources[n]
      BY <2>1 DEF AsIs, ParsedAsIs
    <3>2. n \in Present(structured)
      BY <2>1, <3>1, VersionsOfLibrary, FilesDiffer DEF Present
    <3> QED BY <2>1, <3>1, <3>2 DEF AsIs, ChunkedAsIs
  <2>4. corpus'[n] = EntryOf(n)
    BY <2>1, <2>3, CorpusWritten DEF Traced, EntryOf
  <2>5. \A m \in Name : m # n => corpus'[m] = corpus[m]
    BY <2>1, CorpusWritten
  <2>6. AcceptedAsIs'
    <3> SUFFICES ASSUME NEW id \in seen'
                 PROVE  \E m \in DOMAIN sources \ todo' :
                          sources[m].id = id /\ corpus'[m] = EntryOf(m)
      <4>1. \A m : EntryOf(m)' = EntryOf(m)
        BY <2>1 DEF EntryOf
      <4> QED BY <2>1, <4>1 DEF AcceptedAsIs
    <3>1. CASE id = sources[n].id
      BY <2>1, <2>4, <3>1
    <3>2. CASE id \in seen
      <4>1. PICK m \in DOMAIN sources \ todo :
              sources[m].id = id /\ corpus[m] = EntryOf(m)
        BY <3>2 DEF AsIs, AcceptedAsIs
      <4>2. m # n /\ m \in Name
        BY <2>1, <4>1, VersionsOfLibrary
      <4> QED BY <2>1, <2>5, <4>1, <4>2
    <3> QED BY <2>1, <3>1, <3>2
  <2>7. AllAccepted'
    BY <2>1 DEF AsIs, AllAccepted, Controlled
  <2>8. SeenApproved'
    BY <1>4, <2>1 DEF AsIs, SeenApproved, Trace, Admissible
  <2> QED BY <2>2, <2>6, <2>7, <2>8 DEF AsIs
<1> QED
  BY <1>1, <1>2, <1>3, <1>4 DEF Handle, Rejected, Unreadable, Malformed,
     SizeDiffers, Refused, TableFull, FailClosed, Stop

\* In a full run each stage works on what the one before it has made.
LEMMA FullRunNext ==
  ASSUME TypeOK, FullRunInv, [Next]_vars
  PROVE  FullRunInv'
<1> SUFFICES ASSUME FullRun' PROVE AsIs'
  BY DEF FullRunInv
<1>1. CASE Begin
  <2>1. /\ stage' = "markdown" /\ todo' = DOMAIN sources /\ seen' = {}
        /\ UNCHANGED <<sources, authority, structured, chunked, corpus>>
    BY <1>1 DEF Begin, GoOn, After, Listing
  <2> QED
    BY <2>1 DEF AsIs, ParsedAsIs, ChunkedAsIs, AcceptedAsIs, AllAccepted,
       SeenApproved
<1>2. CASE EndOfListing
  <2>1. FullRun
    BY <1>2 DEF EndOfListing, FullRun, TypeOK, Stage
  <2> QED BY <1>2, <2>1, AsIsGoOn DEF FullRunInv
<1>3. ASSUME NEW n \in Name, Handle(n) PROVE AsIs'
  <2>1. FullRun
    <3>1. UNCHANGED <<selection, disturbed>>
      BY <1>3 DEF Handle, Rejected, Parse, Unreadable, Chunk, Malformed,
         SizeDiffers, Skipped, Refused, TableFull, Trace, FailClosed
    <3>2. stage # "idle"
      BY <1>3 DEF Handle, Rejected, Parse, Unreadable, Chunk, Malformed,
         SizeDiffers, Skipped, Refused, TableFull, Trace, Parsing, Chunking,
         Admissible, Executes, Tracing
    <3> QED BY <3>1, <3>2 DEF FullRun
  <2>2. stage' # "idle"
    BY DEF FullRun
  <2> QED BY <1>3, <2>1, <2>2, AsIsHandle DEF FullRunInv
<1>4. CASE PassOver
  BY <1>4 DEF PassOver, FullRun, TypeOK
<1>5. CASE Deliver \/ Decide
  BY <1>5 DEF Deliver, Decide, FullRun
<1>6. CASE NotAggregable \/ Aggregate \/ Interrupt \/ AggregatePart
  BY <1>6 DEF NotAggregable, Aggregate, Interrupt, AggregatePart, FailClosed,
     Stop, FullRun
<1>7. CASE BreakOff
  BY <1>7 DEF BreakOff, FullRun
<1>8. CASE UNCHANGED vars
  BY <1>8 DEF vars, FullRunInv, FullRun, AsIs, ParsedAsIs, ChunkedAsIs,
     AcceptedAsIs, AllAccepted, SeenApproved, Present, EntryOf, Controlled
<1> QED
  BY <1>1, <1>2, <1>3, <1>4, <1>5, <1>6, <1>7, <1>8 DEF Next, Step

\* With one corpus file of the current revision, that file is published.
LEMMA EndOfFullRun ==
  ASSUME TypeOK, FullRunInv, [Next]_vars,
         Ends, selection = Stage, ~disturbed',
         NEW n \in DOMAIN sources \ {Kb}, IsCurrent(n), Sole(n)
  PROVE  /\ sources[n].id.root \in DOMAIN kb'.entries
         /\ kb'.entries[sources[n].id.root] = EntryOf(n)
<1>1. Aggregate
  <2>1. ~ (Deliver \/ Decide \/ Begin \/ BreakOff \/ AggregatePart
             \/ UNCHANGED vars)
    BY DEF Ends, Deliver, Decide, Begin, BreakOff, AggregatePart, vars
  <2>2. ~ (Interrupt \/ NotAggregable)
    BY DEF Ends, Interrupt, NotAggregable, FailClosed, Stop
  <2>3. ~ PassOver
    BY DEF Ends, PassOver, TypeOK
  <2>4. ~ EndOfListing
    BY DEF Ends, EndOfListing, GoOn, After, TypeOK, Stage
  <2>5. ~ \E k \in Name : Handle(k)
    BY DEF Ends, Handle, FailClosed, Stop, Rejected, Parse, Unreadable, Chunk,
       Malformed, SizeDiffers, Skipped, Refused, TableFull, Trace, Done
  <2> QED BY <2>1, <2>2, <2>3, <2>4, <2>5 DEF Next, Step
<1> DEFINE files == Corpora
           root == sources[n].id.root
<1>2. stage = "aggregator" /\ todo = {} /\ ~disturbed
  BY <1>1 DEF Aggregate, Executes, TypeOK
<1>3. AsIs
  BY <1>2 DEF FullRunInv, FullRun
<1>4. n \in Name /\ sources[n] \in Version
  BY VersionsOfLibrary
<1>5. sources[n].id \in seen
  BY <1>2, <1>3 DEF AsIs, AllAccepted, IsCurrent, Controlled
<1>6. PICK m \in DOMAIN sources :
        sources[m].id = sources[n].id /\ corpus[m] = EntryOf(m)
  BY <1>3, <1>5 DEF AsIs, AcceptedAsIs
<1>7. m = n
  BY <1>6, VersionsOfLibrary DEF Sole
<1>8. corpus[n] = EntryOf(n) /\ EntryOf(n) \in Entry
  BY <1>4, <1>6, <1>7 DEF EntryOf, Entry, Version
<1>9. n \in files /\ corpus[n].source = sources[n]
  BY <1>4, <1>8, FilesDiffer DEF Corpora, Present, EntryOf
<1>10. Aggregable(files) /\ kb' = AggregateOf(files)
  BY <1>1, CorpusWritten DEF Aggregate
<1>11. Matching(files, root) = {n}
  <2>1. n \in Matching(files, root)
    BY <1>9 DEF Matching, IsCurrent
  <2>2. ASSUME NEW k \in Matching(files, root) PROVE k = n
    <3>1. /\ k \in Name /\ Intact(k) /\ corpus[k].source.id.root = root
          /\ P!Tuple(corpus[k].source) \in authority.latest
      BY <1>10 DEF Matching, Aggregable, Corpora, Present, Intact
    <3>2. P!Tuple(corpus[k].source) = P!Tuple(sources[n])
      BY <3>1, AuthorityAssumption DEF TypeOK, IsCurrent, P!Tuple
    <3>3. corpus[k].source.id = sources[n].id
      BY <3>2 DEF P!Tuple
    <3> QED BY <3>1, <3>3 DEF Sole
  <2> QED BY <2>1, <2>2
<1>12. Chosen({n}) = n
  BY <1>4, NameAssumption DEF Chosen
<1>13. root \in Roots(files)
  BY <1>9 DEF Roots
<1> QED BY <1>8, <1>10, <1>11, <1>12, <1>13 DEF AggregateOf

\* A good run of all modules publishes the documents as they are, but for
\* one that is called kb.md.
THEOREM FullRunsAreCurrent == Spec => GoodRunIsCurrent
<1>1. Init => FullRunInv
  BY DEF Init, FullRunInv, FullRun
<1>2. TypeOK /\ FullRunInv /\ [Next]_vars => FullRunInv'
  BY FullRunNext
<1> DEFINE Good ==
      Ends /\ selection = Stage /\ ~disturbed' =>
        \A n \in DOMAIN sources \ {Kb} : IsCurrent(n) /\ Sole(n) =>
          /\ sources[n].id.root \in DOMAIN kb'.entries
          /\ kb'.entries[sources[n].id.root] = EntryOf(n)
<1>3. TypeOK /\ FullRunInv /\ [Next]_vars => Good
  BY EndOfFullRun
<1>4. TypeOK /\ FullRunInv /\ [Next]_vars => [Good]_vars
  BY <1>3
<1> HIDE DEF Good
<1>5. Spec => [][Good]_vars
  BY <1>1, <1>2, <1>4, TypeCorrect, PTL DEF Spec
<1> QED BY <1>5 DEF GoodRunIsCurrent, Good

-----------------------------------------------------------------------------
(***************************************************************************)
(* A healthy run. What stood in its way when it began would stand in its   *)
(* way all the time, and what did not never does; with what a full run has *)
(* made (AsIs), no stage finds a reason to fail.                           *)
(***************************************************************************)

\* A chunk artifact is made of a structured artifact, which stays.
Backed == Present(chunked) \subseteq Present(structured)

\* No step removes a structured artifact.
LEMMA BackedNext ==
  ASSUME TypeOK, Backed, [Next]_vars
  PROVE  Backed'
<1>1. CASE UNCHANGED <<structured, chunked>>
  BY <1>1 DEF Backed, Present
<1>2. ASSUME NEW n \in Name, Parse(n) PROVE Backed'
  BY <1>2, VersionsOfLibrary, FilesDiffer
  DEF Parse, Parsing, Executes, Written, Backed, Present, TypeOK
<1>3. ASSUME NEW n \in Name, Chunk(n) PROVE Backed'
  BY <1>3 DEF Chunk, Chunking, Executes, Written, Backed, Present, TypeOK
<1>4. CASE Interrupt
  <2>1. ASSUME NEW n \in Name, CutParse(n) PROVE Backed'
    BY <2>1, FilesDiffer DEF CutParse, Written, Backed, Present, TypeOK
  <2>2. ASSUME NEW n \in Name, CutChunk(n) PROVE Backed'
    BY <2>2 DEF CutChunk, Chunking, Executes, Written, Backed, Present, TypeOK
  <2>3. ASSUME NEW n \in Name, CutTrace(n) PROVE Backed'
    BY <1>1, <2>3 DEF CutTrace
  <2> QED BY <1>1, <1>4, <2>1, <2>2, <2>3 DEF Interrupt
<1> QED
  BY <1>1, <1>2, <1>3, <1>4 DEF Next, vars, Deliver, Decide, Begin, Step,
     BreakOff, AggregatePart, PassOver, EndOfListing, Handle, NotAggregable,
     Aggregate, FailClosed, Rejected, Unreadable, Malformed, SizeDiffers,
     Skipped, Refused, TableFull, Trace

Clear ==
  stage # "idle" /\ healthy /\ ~disturbed =>
    selection = Stage /\ NothingInTheWay

\* What is expected of the sources depends on them and on the authority.
LEMMA SameSources ==
  ASSUME UNCHANGED <<sources, authority>>
  PROVE  /\ IdsTraced' = IdsTraced /\ Made' = Made /\ IdsMade' = IdsMade
         /\ TuplesMade' = TuplesMade
         /\ \A n : Remade(n)' <=> Remade(n)
         /\ \A n : Left(n)' <=> Left(n)
<1>1. \A n : /\ Controlled(n)' <=> Controlled(n)
             /\ Remade(n)' <=> Remade(n)
             /\ Left(n)' <=> Left(n)
  BY DEF Controlled, Remade, Left
<1>2. IdsTraced' = IdsTraced /\ Made' = Made
  BY <1>1 DEF IdsTraced, Made
<1>3. IdsMade' = IdsMade
  BY <1>2 DEF IdsMade
<1>4. TuplesMade' = TuplesMade
  BY <1>2 DEF TuplesMade, P!Tuple
<1> QED BY <1>1, <1>2, <1>3, <1>4

\* Nothing gets into the way as long as these stay as they are.
LEMMA SameWay ==
  ASSUME NothingInTheWay,
         UNCHANGED <<sources, authority, structured, corpus>>
  PROVE  NothingInTheWay'
<1>1. Present(structured)' = Present(structured) /\ Corpora' = Corpora
  BY DEF Present, Corpora
<1>2. \A n \in Name : Intact(n)' <=> Intact(n)
  BY <1>1 DEF Intact
<1>3. IdsFound' = IdsFound
  BY <1>2 DEF IdsFound
<1>4. TuplesLeft' = TuplesLeft
  BY <1>2, SameSources DEF TuplesLeft, P!Tuple
<1> QED BY <1>1, <1>3, <1>4, SameSources DEF NothingInTheWay

\* What provenance writes is not in the way of the aggregator.
LEMMA TraceStaysClear ==
  ASSUME TypeOK, NothingInTheWay, NEW n \in Name, Trace(n)
  PROVE  NothingInTheWay'
<1>1. /\ n \in DOMAIN sources /\ Controlled(n)
      /\ corpus' = Written(corpus, n, Traced(n, TRUE))
      /\ UNCHANGED <<sources, authority, structured>>
  BY TracedIsEntry DEF Trace, Admissible, Controlled
<1>2. /\ Traced(n, TRUE) # Missing /\ Traced(n, TRUE) # Torn
      /\ Traced(n, TRUE).source = sources[n]
  BY TracedIsEntry, FilesDiffer DEF Trace, Traced
<1>3. \A m \in Name :
        corpus'[m] = IF m = n THEN Traced(n, TRUE) ELSE corpus[m]
  BY <1>1, CorpusWritten
<1>4. Corpora' = Corpora \cup ({n} \ {Kb})
  BY <1>2, <1>3 DEF Corpora, Present
<1>5. n # Kb => n \in Made
  BY <1>1 DEF Made
<1>6. /\ IdsTraced' = IdsTraced /\ Made' = Made /\ IdsMade' = IdsMade
      /\ TuplesMade' = TuplesMade
      /\ \A m : Remade(m)' <=> Remade(m)
      /\ \A m : Left(m)' <=> Left(m)
  BY <1>1, SameSources
<1>7. Corpora' \cup Made' = Corpora \cup Made
  BY <1>4, <1>5, <1>6
<1>8. \A m \in Name : Intact(m)' <=> Intact(m) \/ (m = n /\ n # Kb)
  BY <1>2, <1>3, <1>4 DEF Intact, Corpora
<1>9. IdsFound' \subseteq IdsFound \cup IdsMade
  <2> SUFFICES ASSUME NEW m \in Name, Intact(m)'
               PROVE  corpus'[m].source.id \in IdsFound \cup IdsMade
    BY DEF IdsFound
  <2>1. CASE m = n
    BY <1>2, <1>3, <1>5, <1>8, <2>1 DEF IdsMade, Intact, Corpora
  <2>2. CASE m # n
    BY <1>3, <1>8, <2>2 DEF IdsFound
  <2> QED BY <2>1, <2>2
<1>10. TuplesLeft' = TuplesLeft
  <2>1. ~ Left(n)
    BY <1>1 DEF Left
  <2>2. {m \in Name : Intact(m)' /\ Left(m)'}
          = {m \in Name : Intact(m) /\ Left(m)}
    BY <1>6, <1>8, <2>1
  <2>3. \A m \in {k \in Name : Intact(k) /\ Left(k)} : corpus'[m] = corpus[m]
    BY <1>3, <2>1
  <2> QED BY <2>2, <2>3 DEF TuplesLeft, P!Tuple
<1>11. \A m \in Corpora' : corpus'[m] = Torn => Remade(m)'
  BY <1>2, <1>3, <1>4, <1>6 DEF NothingInTheWay, Corpora, Present
<1>12. Present(structured)' = Present(structured)
  BY <1>1 DEF Present
<1>13. /\ (IdsMade \cup IdsFound)' # {}
       /\ \A id \in (IdsMade \cup IdsFound)' :
            \E current \in
                 authority'.latest \cap (TuplesMade \cup TuplesLeft)' :
              current.id.root = id.root
  <2>1. (IdsMade \cup IdsFound)' \subseteq IdsMade \cup IdsFound
    BY <1>6, <1>9
  <2>2. (IdsMade \cup IdsFound)' # {}
    <3>1. CASE IdsMade # {}
      BY <1>6, <3>1
    <3>2. CASE IdsMade = {}
      <4>1. PICK m \in Name : Intact(m)
        BY <3>2 DEF NothingInTheWay, IdsFound
      <4>2. Intact(m)'
        BY <1>8, <4>1
      <4> QED BY <4>2 DEF IdsFound
    <3> QED BY <3>1, <3>2
  <2> QED BY <1>1, <1>6, <1>10, <2>1, <2>2 DEF NothingInTheWay
<1> QED BY <1>1, <1>6, <1>7, <1>11, <1>12, <1>13 DEF NothingInTheWay

\* No file that a stage writes is in the way of a later one.
LEMMA WayStaysClear ==
  ASSUME TypeOK, NothingInTheWay, NEW n \in Name, Handle(n)
  PROVE  NothingInTheWay'
<1>0. UNCHANGED <<sources, authority>>
  BY DEF Handle, FailClosed, Rejected, Parse, Unreadable, Chunk, Malformed,
     SizeDiffers, Skipped, Refused, TableFull, Trace
<1>1. CASE Trace(n)
  BY <1>1, TraceStaysClear
<1>2. CASE Parse(n)
  <2>1. /\ n \in DOMAIN sources /\ corpus' = corpus
        /\ structured' = [structured EXCEPT ![n] = sources[n]]
    BY <1>2 DEF Parse, Parsing, Executes, Written, TypeOK
  <2>2. Present(structured)' \ DOMAIN sources \subseteq
          Present(structured) \ DOMAIN sources
    BY <2>1 DEF Present, TypeOK
  <2>3. \A m \in Present(structured)' \ DOMAIN sources :
          structured'[m] = structured[m]
    BY <2>1 DEF Present, TypeOK
  <2>4. Corpora' = Corpora
    BY <2>1 DEF Corpora, Present
  <2>5. IdsFound' = IdsFound /\ TuplesLeft' = TuplesLeft
    <3>1. \A m \in Name : Intact(m)' <=> Intact(m)
      BY <2>1, <2>4 DEF Intact
    <3>2. IdsFound' = IdsFound
      BY <2>1, <3>1 DEF IdsFound
    <3>3. TuplesLeft' = TuplesLeft
      BY <1>0, <2>1, <3>1, SameSources DEF TuplesLeft, P!Tuple
    <3> QED BY <3>2, <3>3
  <2> QED
    BY <1>0, <2>1, <2>2, <2>3, <2>4, <2>5, SameSources DEF NothingInTheWay
<1>3. CASE corpus' = corpus /\ structured' = structured
  BY <1>0, <1>3, SameWay
<1> QED
  BY <1>1, <1>2, <1>3 DEF Handle, FailClosed, Rejected, Unreadable, Chunk,
     Malformed, SizeDiffers, Skipped, Refused, TableFull

\* What did not stand in the way at the beginning never does.
LEMMA ClearNext ==
  ASSUME TypeOK, Clear, [Next]_vars
  PROVE  Clear'
<1>1. CASE Begin
  <2>1. healthy' = (selection' = Stage /\ NothingInTheWay)
    BY <1>1 DEF Begin
  <2>2. UNCHANGED <<sources, authority, structured, corpus>>
    BY <1>1 DEF Begin
  <2>3. healthy' => selection' = Stage /\ NothingInTheWay
    BY <2>1
  <2> QED BY <2>2, <2>3, SameWay DEF Clear
<1>2. ASSUME NEW n \in Name, Handle(n) PROVE Clear'
  <2>1. stage # "idle" /\ UNCHANGED <<selection, healthy, disturbed>>
    BY <1>2 DEF Handle, FailClosed, Rejected, Parse, Unreadable, Chunk,
       Malformed, SizeDiffers, Skipped, Refused, TableFull, Trace, Parsing,
       Chunking, Admissible, Executes, Tracing, TypeOK, Stage
  <2> QED BY <1>2, <2>1, WayStaysClear DEF Clear
<1>3. CASE EndOfListing \/ PassOver \/ NotAggregable \/ UNCHANGED vars
  <2>1. UNCHANGED <<sources, authority, structured, corpus, selection,
                    healthy, disturbed>>
    BY <1>3 DEF EndOfListing, PassOver, NotAggregable, FailClosed, vars
  <2>2. stage' # "idle" => stage # "idle"
    BY <1>3 DEF EndOfListing, PassOver, NotAggregable, FailClosed, Executes,
       Stop, vars, TypeOK, Stage
  <2> QED BY <2>1, <2>2, SameWay DEF Clear
<1>4. CASE \/ Deliver \/ Decide \/ Interrupt \/ BreakOff
           \/ Aggregate \/ AggregatePart
  BY <1>4 DEF Deliver, Decide, Interrupt, BreakOff, Aggregate, AggregatePart,
     Stop, Clear
<1> QED BY <1>1, <1>2, <1>3, <1>4 DEF Next, Step

\* After provenance, everything aggregation asks for is there.
LEMMA AggregableAtTheEnd ==
  ASSUME TypeOK, AsIs, NothingInTheWay, stage = "aggregator"
  PROVE  Aggregable(Corpora)
<1>0. todo = {}
  BY DEF TypeOK
<1>1. ASSUME NEW n \in DOMAIN sources, Controlled(n)
      PROVE  \E m \in DOMAIN sources :
               /\ m \in Name /\ sources[m].id = sources[n].id
               /\ corpus[m] = EntryOf(m)
               /\ m # Kb => Intact(m)
  <2>1. sources[n].id \in seen
    BY <1>0, <1>1 DEF AsIs, AllAccepted
  <2>2. PICK m \in DOMAIN sources :
          sources[m].id = sources[n].id /\ corpus[m] = EntryOf(m)
    BY <2>1 DEF AsIs, AcceptedAsIs
  <2>3. m \in Name /\ EntryOf(m) \in Entry
    BY VersionsOfLibrary DEF EntryOf, Entry, Version
  <2> QED BY <2>2, <2>3, FilesDiffer DEF Intact, Corpora, Present
<1>2. ASSUME NEW tuple \in TuplesMade \cup TuplesLeft
      PROVE  \E m \in Name : Intact(m) /\ P!Tuple(corpus[m].source) = tuple
  <2>1. CASE tuple \in TuplesLeft
    BY <2>1 DEF TuplesLeft
  <2>2. CASE tuple \in TuplesMade
    <3>1. PICK n \in Made :
            /\ P!Tuple(sources[n]) = tuple
            /\ \A o \in DOMAIN sources :
                 sources[o].id = sources[n].id =>
                   o # Kb /\ sources[o].spelling = sources[n].spelling
      BY <2>2 DEF TuplesMade
    <3>2. PICK m \in DOMAIN sources :
            /\ m \in Name /\ sources[m].id = sources[n].id
            /\ corpus[m] = EntryOf(m)
            /\ m # Kb => Intact(m)
      BY <1>1, <3>1 DEF Made
    <3>3. m # Kb /\ P!Tuple(sources[m]) = tuple
      BY <3>1, <3>2 DEF P!Tuple
    <3>4. corpus[m].source = sources[m]
      BY <3>2 DEF EntryOf
    <3> QED BY <3>2, <3>3, <3>4
  <2> QED BY <2>1, <2>2
<1>3. ASSUME NEW id \in IdsMade \cup IdsFound
      PROVE  \E m \in Corpora :
               /\ corpus[m].source.id.root = id.root
               /\ P!Tuple(corpus[m].source) \in authority.latest
  <2>1. PICK current \in authority.latest \cap (TuplesMade \cup TuplesLeft) :
          current.id.root = id.root
    BY <1>3 DEF NothingInTheWay
  <2>2. PICK m \in Name : Intact(m) /\ P!Tuple(corpus[m].source) = current
    BY <1>2
  <2>3. corpus[m].source.id.root = id.root
    BY <2>1, <2>2 DEF P!Tuple
  <2> QED BY <2>1, <2>2, <2>3 DEF Intact
<1>4. Corpora # {}
  BY <1>3 DEF NothingInTheWay
<1>5. ASSUME NEW n \in Corpora, corpus[n] = Torn PROVE FALSE
  <2>1. Remade(n) /\ n # Kb
    BY <1>5 DEF NothingInTheWay, Corpora
  <2>2. PICK m \in DOMAIN sources :
          /\ m \in Name /\ sources[m].id = sources[n].id
          /\ m # Kb => Intact(m)
    BY <1>1, <2>1 DEF Remade
  <2>3. m = n
    BY <2>1, <2>2 DEF Remade
  <2> QED BY <1>5, <2>1, <2>2, <2>3 DEF Intact
<1>6. ASSUME NEW root \in Roots(Corpora)
      PROVE  Matching(Corpora, root) # {}
  <2>1. PICK n \in Corpora : corpus[n].source.id.root = root
    BY DEF Roots
  <2>2. corpus[n].source.id \in IdsFound
    BY <1>5 DEF IdsFound, Intact, Corpora, Present
  <2> QED BY <1>3, <2>1, <2>2 DEF Matching
<1>7. Cardinality(Corpora) <= MaxCorpora
  <2>1. /\ Corpora \cup Made \in SUBSET Name
        /\ Corpora \in SUBSET (Corpora \cup Made)
    BY VersionsOfLibrary DEF Corpora, Present, Made
  <2>2. IsFiniteSet(Corpora \cup Made)
    BY <2>1, NameAssumption, FS_Subset
  <2>3. /\ Cardinality(Corpora) <= Cardinality(Corpora \cup Made)
        /\ IsFiniteSet(Corpora)
    BY <2>1, <2>2, FS_Subset
  <2>4. /\ Cardinality(Corpora) \in Nat
        /\ Cardinality(Corpora \cup Made) \in Nat
    BY <2>2, <2>3, FS_CardinalityType
  <2>5. Cardinality(Corpora \cup Made) <= MaxCorpora
    BY DEF NothingInTheWay
  <2> QED BY <2>3, <2>4, <2>5, LimitAssumption
<1>8. authority.records \in 1..MaxIndex
  BY DEF NothingInTheWay
<1> QED BY <1>4, <1>5, <1>6, <1>7, <1>8 DEF Aggregable

\* There are no more identities than controlled documents.
LEMMA IdsTracedIsFinite ==
  ASSUME TypeOK
  PROVE  IsFiniteSet(IdsTraced)
<1> DEFINE S == {n \in DOMAIN sources : Controlled(n)}
           f == [n \in S |-> sources[n].id]
<1>1. S \in SUBSET Name
  BY VersionsOfLibrary
<1>2. IsFiniteSet(S)
  BY <1>1, NameAssumption, FS_Subset
<1>3. f \in [S -> IdsTraced]
  BY DEF IdsTraced
<1>4. \A id \in IdsTraced : \E n \in S : f[n] = id
  BY DEF IdsTraced
<1>5. f \in Surjection(S, IdsTraced)
  BY <1>3, <1>4 DEF Surjection
<1> HIDE DEF S, f
<1> QED BY <1>2, <1>5, FS_Surjection

\* The identity table of a healthy run has room for every identity.
LEMMA RoomForAll ==
  ASSUME TypeOK, AsIs, NothingInTheWay, NEW n \in Name, Admissible(n)
  PROVE  HasRoom
<1> DEFINE id == sources[n].id
<1>1. id \in IdsTraced /\ id \notin seen
  BY TracedIsEntry DEF Admissible, IdsTraced, Controlled
<1>2. seen \subseteq IdsTraced
  BY DEF AsIs, AcceptedAsIs, SeenApproved, IdsTraced, Controlled
<1>3. IsFiniteSet(IdsTraced) /\ IsFiniteSet(seen)
  BY IdsTracedIsFinite DEF TypeOK
<1> HIDE DEF id
<1>4. seen \cup {id} \in SUBSET IdsTraced
  BY <1>1, <1>2
<1>5. Cardinality(seen \cup {id}) = Cardinality(seen) + 1
  BY <1>1, <1>3, FS_AddElement
<1>6. Cardinality(seen \cup {id}) <= Cardinality(IdsTraced)
  BY <1>3, <1>4, FS_Subset
<1>7. Cardinality(seen) \in Nat /\ Cardinality(IdsTraced) \in Nat
  BY <1>3, FS_CardinalityType
<1>8. Cardinality(IdsTraced) <= SeenMax
  BY DEF NothingInTheWay
<1> QED BY <1>5, <1>6, <1>7, <1>8, LimitAssumption DEF HasRoom

\* A stage of a healthy run that no call disturbs does not fail.
LEMMA HealthyStep ==
  ASSUME TypeOK, Backed, AsIs, NothingInTheWay, selection = Stage, Step,
         status # "FAILED"
  PROVE  status' # "FAILED"
<1>1. ASSUME NEW n \in Name, Rejected(n) PROVE FALSE
  BY <1>1 DEF Rejected, Executes, NothingInTheWay, TypeOK
<1>2. ASSUME NEW n \in Name, n \in Present(structured),
             stage \in {"chunker", "provenance"}
      PROVE  structured[n] # Torn /\ structured[n].form = "prose"
  <2>1. CASE n \in DOMAIN sources
    <3>1. structured[n] = sources[n]
      BY <1>2, <2>1 DEF AsIs, ParsedAsIs
    <3> QED BY <2>1, <3>1, VersionsOfLibrary, FilesDiffer DEF NothingInTheWay
  <2>2. CASE n \notin DOMAIN sources
    BY <1>2, <2>2 DEF NothingInTheWay
  <2> QED BY <2>1, <2>2
<1>3. ASSUME NEW n \in Name, Unreadable(n) PROVE FALSE
  BY <1>2, <1>3 DEF Unreadable, Executes, TypeOK
<1>4. ASSUME NEW n \in Name, Tracing(n)
      PROVE  /\ Readable(n)
             /\ n \in DOMAIN sources => Agrees(n)
             /\ ~ Refused(n)
  <2>1. stage = "provenance" /\ n \in Present(structured)
    BY <1>4 DEF Tracing, Executes, TypeOK, Backed
  <2>2. chunked[n] = structured[n]
    BY <2>1 DEF AsIs, ChunkedAsIs
  <2>3. Readable(n)
    BY <1>2, <2>1, <2>2 DEF Readable
  <2>4. n \in DOMAIN sources => chunked[n] = sources[n]
    BY <2>1, <2>2 DEF AsIs, ParsedAsIs
  <2>5. ~ Refused(n)
    BY DEF Refused, Agrees, Current, NothingInTheWay
  <2> QED BY <2>3, <2>4, <2>5 DEF Agrees, Current
<1>5. ASSUME NEW n \in Name,
             Malformed(n) \/ SizeDiffers(n) \/ Refused(n) \/ TableFull(n)
      PROVE  FALSE
  BY <1>4, <1>5, RoomForAll
  DEF Malformed, SizeDiffers, Current, Refused, TableFull
<1>6. ~ NotAggregable
  BY AggregableAtTheEnd DEF NotAggregable, Executes
<1> QED
  BY <1>1, <1>3, <1>5, <1>6 DEF Step, PassOver, EndOfListing, Handle, Parse,
     Chunk, Skipped, Trace, Aggregate, Stop, Done

\* The status of a run that is under way, and of one that has ended.
HealthyInv == HealthyRunSucceeds /\ (stage # "idle" => status = "none")

\* No step of a healthy run fails unless a call fails.
LEMMA HealthyNext ==
  ASSUME TypeOK, Backed, FullRunInv, Clear, HealthyInv, [Next]_vars
  PROVE  HealthyInv'
<1>1. CASE Step
  <2>1. stage # "idle"
    BY <1>1 DEF Step, PassOver, EndOfListing, Handle, FailClosed, Rejected,
       Parse, Unreadable, Chunk, Malformed, SizeDiffers, Skipped, Refused,
       TableFull, Trace, Parsing, Chunking, Admissible, Executes, Tracing,
       NotAggregable, Aggregate, TypeOK, Stage
  <2>2. UNCHANGED <<healthy, disturbed>>
    BY <1>1 DEF Step, PassOver, EndOfListing, Handle, FailClosed, Rejected,
       Parse, Unreadable, Chunk, Malformed, SizeDiffers, Skipped, Refused,
       TableFull, Trace, NotAggregable, Aggregate
  <2>3. stage' # "idle" => status' = "none"
    BY <1>1, <2>1 DEF HealthyInv, Step, PassOver, EndOfListing, Handle,
       FailClosed, Rejected, Parse, Unreadable, Chunk, Malformed, SizeDiffers,
       Skipped, Refused, TableFull, Trace, NotAggregable, Aggregate, Stop, Done
  <2>4. CASE healthy /\ ~disturbed
    <3>1. selection = Stage /\ NothingInTheWay
      BY <2>1, <2>4 DEF Clear
    <3>2. AsIs
      BY <2>1, <2>4, <3>1 DEF FullRunInv, FullRun
    <3>3. status' # "FAILED"
      BY <1>1, <2>1, <3>1, <3>2, HealthyStep DEF HealthyInv
    <3> QED BY <2>3, <3>3 DEF HealthyInv, HealthyRunSucceeds
  <2>5. CASE ~healthy \/ disturbed
    BY <2>2, <2>3, <2>5 DEF HealthyInv, HealthyRunSucceeds
  <2> QED BY <2>4, <2>5
<1>2. CASE Begin
  BY <1>2 DEF Begin, HealthyInv, HealthyRunSucceeds
<1>3. CASE Deliver \/ Decide \/ UNCHANGED vars
  BY <1>3 DEF Deliver, Decide, vars, HealthyInv, HealthyRunSucceeds
<1>4. CASE Interrupt \/ BreakOff \/ AggregatePart
  BY <1>4 DEF Interrupt, BreakOff, AggregatePart, Stop, Executes, HealthyInv,
     HealthyRunSucceeds, TypeOK, Stage
<1> QED BY <1>1, <1>2, <1>3, <1>4 DEF Next

\* A healthy run ends well, unless a call of it fails.
THEOREM HealthyRunsSucceed == Spec => []HealthyRunSucceeds
<1>1. Init => Backed /\ FullRunInv /\ Clear /\ HealthyInv
  BY DEF Init, Backed, Present, FullRunInv, FullRun, Clear, HealthyInv,
     HealthyRunSucceeds
<1>2. TypeOK /\ Backed /\ FullRunInv /\ Clear /\ HealthyInv /\ [Next]_vars
        => Backed' /\ FullRunInv' /\ Clear' /\ HealthyInv'
  BY BackedNext, FullRunNext, ClearNext, HealthyNext
<1>3. HealthyInv => HealthyRunSucceeds
  BY DEF HealthyInv
<1> QED BY <1>1, <1>2, <1>3, TypeCorrect, PTL DEF Spec
=============================================================================
