------------------------------ MODULE Pipeline ------------------------------
(***************************************************************************)
(* The four processing modules in one run after another over one source    *)
(* and one output directory: rb_markdown_execute, rb_chunker_execute,      *)
(* rb_prov_execute and rb_ca_execute, in the order in which the Core       *)
(* executes them. They share nothing but files: a file of a document that  *)
(* has gone stays, one that was being written when the process died is     *)
(* torn, and a module that did not qualify leaves the files of its stage   *)
(* as an earlier run has made them.                                        *)
(*                                                                         *)
(* What the stages do inside a document is in MarkdownToChunks, Provenance *)
(* and CorpusAggregator; here a file is torn or whole, and a whole one     *)
(* holds a version of a document. Torn is a file that its readers refuse:  *)
(* a structured or chunk artifact that has lost no more than they do       *)
(* without reads like a whole one, and a corpus file that has lost no more *)
(* than what follows its records is told apart from both, because the      *)
(* aggregator reads it and hands it on. An operator named Slip... is the   *)
(* definition below it with one plausible programming error; no action     *)
(* uses it.                                                                *)
(***************************************************************************)
EXTENDS Integers, FiniteSets

CONSTANTS
  Name,         \* the names of documents, which are ordered
  Kb,           \* the name whose corpus file is kb.corpus.json
  Libraries,    \* the contents the source directory may have
  Authorities,  \* what the authority may say
  Selections,   \* the sets of modules that a run may execute
  SeenMax,      \* RB_PROV_SEEN_MAX
  MaxCorpora,   \* RB_CORPUS_AGGREGATOR_MAX_CORPORA
  MaxIndex,     \* RB_CORPUS_AGGREGATOR_MAX_INDEX
  MaxRuns,      \* bound on the number of runs
  MaxChanges    \* bound on the changes of documents and authority

Stage == {"markdown", "chunker", "provenance", "aggregator"}

\* Provenance takes a digest of either case for the one of the index; the
\* aggregator asks for the spelling of the index.
Version == [text : Nat, size : Nat, form : {"prose", "bare", "bad"},
            id : [root : Nat, revision : Nat], spelling : Nat]

Uncontrolled == [root |-> 0, revision |-> 0]   \* no controlled header

\* There are finitely many names: of any of them one is the last.
ASSUME NameAssumption ==
  /\ Name \subseteq Int /\ IsFiniteSet(Name)
  /\ \A names \in SUBSET Name :
       names # {} => \E n \in names : \A m \in names : m <= n

ASSUME LibraryAssumption ==
  \A library \in Libraries :
    /\ DOMAIN library \subseteq Name
    /\ \A n \in DOMAIN library : library[n] \in Version

\* A root has one current revision at most (rb_ca_index_current_for_root).
\* Of an index that does not parse, the aggregator reads no record.
ASSUME AuthorityAssumption ==
  \A said \in Authorities :
    /\ Uncontrolled \notin said.approved
    /\ \A i, j \in said.latest : i.id.root = j.id.root => i = j
    /\ said.records \in Nat

ASSUME SelectionAssumption == Selections \subseteq SUBSET Stage
ASSUME LimitAssumption ==
  SeenMax \in Nat /\ MaxCorpora \in Nat /\ MaxIndex \in Nat
ASSUME BoundAssumption == MaxRuns \in Nat /\ MaxChanges \in Nat

VARIABLES
  sources,     \* the source directory: a version of each document
  delivered,   \* history: every version that has been in it
  authority,   \* the identities by what the index and the chainlog say
  structured,  \* the .rag.json file of each name
  chunked,     \* the .chunks.json file of each name
  corpus,      \* the .corpus.json file of each name, kb.corpus.json too
  selection,   \* the modules that this run executes
  stage,       \* the one that is being executed; "idle" between runs
  todo,        \* the files its directory scan has not come to
  seen,        \* the identities that provenance has accepted in this run
  status,      \* how the last run ended
  healthy,     \* history: nothing stood in the way when the run began
  disturbed,   \* history: the run was interrupted or a call of it failed
  runs, changes

world     == <<sources, delivered, authority>>
artifacts == <<structured, chunked, corpus>>
progress  == <<selection, stage, todo, seen, status>>
history   == <<healthy, disturbed, runs, changes>>
vars == <<sources, delivered, authority, structured, chunked, corpus,
          selection, stage, todo, seen, status, healthy, disturbed, runs,
          changes>>

kb == corpus[Kb]

P == INSTANCE Publication

Missing == P!Missing
Torn    == P!Torn
Present(file) == {n \in Name : file[n] # Missing}

Init ==
  /\ sources \in Libraries /\ delivered = P!VersionsOf(sources)
  /\ authority \in Authorities
  /\ structured = [n \in Name |-> Missing]
  /\ chunked = [n \in Name |-> Missing]
  /\ corpus = [n \in Name \cup {Kb} |-> Missing]
  /\ selection = {} /\ stage = "idle" /\ todo = {} /\ seen = {}
  /\ status = "none"
  /\ healthy = FALSE /\ disturbed = FALSE
  /\ runs = 0 /\ changes = 0

-----------------------------------------------------------------------------
(***************************************************************************)
(* Between two runs.                                                       *)
(***************************************************************************)

\* Documents are added, changed, renamed and removed.
Deliver ==
  /\ stage = "idle" /\ changes < MaxChanges
  /\ sources' \in Libraries \ {sources}
  /\ delivered' = delivered \cup P!VersionsOf(sources')
  /\ changes' = changes + 1
  /\ UNCHANGED <<authority, artifacts, progress, healthy, disturbed, runs>>

\* A revision is registered, superseded or withdrawn.
Decide ==
  /\ stage = "idle" /\ changes < MaxChanges
  /\ authority' \in Authorities \ {authority}
  /\ changes' = changes + 1
  /\ UNCHANGED <<sources, delivered, artifacts, progress, healthy,
                 disturbed, runs>>

-----------------------------------------------------------------------------
(***************************************************************************)
(* The course of a run.                                                    *)
(***************************************************************************)

After(s) ==
  CASE s = "idle"       -> "markdown"
    [] s = "markdown"   -> "chunker"
    [] s = "chunker"    -> "provenance"
    [] s = "provenance" -> "aggregator"
    [] OTHER            -> "idle"

\* Slip: the provenance module scans for the parser's artifacts.
SlipListing(s) ==
  IF s = "markdown" THEN DOMAIN sources ELSE Present(structured)

\* The files a stage finds: sources, or all files of one kind, also those
\* whose document has gone.
Listing(s) ==
  CASE s = "markdown"   -> DOMAIN sources
    [] s = "chunker"    -> Present(structured)
    [] s = "provenance" -> Present(chunked)
    [] OTHER            -> {}

\* On to the next stage; a module that is not among the executed ones is
\* passed over and its files are left as they are.
GoOn == stage' = After(stage) /\ todo' = Listing(After(stage))

Stop(how) == stage' = "idle" /\ todo' = {} /\ status' = how

\* A stage that returns an error ends the run; the files stay.
FailClosed ==
  /\ Stop("FAILED")
  /\ UNCHANGED <<world, artifacts, selection, seen, history>>

Executes(s) == stage = s /\ s \in selection

PassOver ==
  /\ stage # "idle" /\ stage \notin selection
  /\ IF stage = "aggregator" THEN Stop("OK") ELSE GoOn /\ UNCHANGED status
  /\ UNCHANGED <<world, artifacts, selection, seen, history>>

EndOfListing ==
  /\ stage \in selection \ {"aggregator"} /\ todo = {}
  /\ GoOn
  /\ UNCHANGED <<world, artifacts, selection, seen, status, history>>

Done(n) == todo' = todo \ {n} /\ UNCHANGED <<stage, status>>

\* The file of n is written anew; the parts of it differ between stages.
Written(file, n, content) == [file EXCEPT ![n] = content]

-----------------------------------------------------------------------------
(***************************************************************************)
(* rb_markdown_execute and rb_chunker_execute.                             *)
(***************************************************************************)

\* The parser rejects the document.
Rejected(n) ==
  /\ Executes("markdown") /\ n \in todo /\ sources[n].form = "bad"
  /\ FailClosed

Parsing(n) ==
  Executes("markdown") /\ n \in todo /\ sources[n].form # "bad"

Parse(n) ==
  /\ Parsing(n)
  /\ structured' = Written(structured, n, sources[n])
  /\ Done(n)
  /\ UNCHANGED <<world, chunked, corpus, selection, seen, history>>

\* A part of a structured artifact, of whichever document.
Unreadable(n) ==
  /\ Executes("chunker") /\ n \in todo /\ structured[n] = Torn
  /\ FailClosed

Chunking(n) ==
  Executes("chunker") /\ n \in todo /\ structured[n] # Torn

\* Slip: an artifact that is there is not made again.
SlipChunk(n) ==
  /\ Chunking(n)
  /\ chunked' = IF chunked[n] = Missing
                THEN Written(chunked, n, structured[n]) ELSE chunked
  /\ Done(n)
  /\ UNCHANGED <<world, structured, corpus, selection, seen, history>>

Chunk(n) ==
  /\ Chunking(n)
  /\ chunked' = Written(chunked, n, structured[n])
  /\ Done(n)
  /\ UNCHANGED <<world, structured, corpus, selection, seen, history>>

-----------------------------------------------------------------------------
(***************************************************************************)
(* rb_prov_execute.                                                        *)
(***************************************************************************)

\* An artifact has a chunk at least. This is asked before the source is
\* looked for, so also of the artifact of a document that has gone.
Readable(n) == chunked[n] # Torn /\ chunked[n].form # "bare"

Tracing(n) == Executes("provenance") /\ n \in todo

Malformed(n) == Tracing(n) /\ ~Readable(n) /\ FailClosed

Current(n) == Readable(n) /\ n \in DOMAIN sources

\* Slip: the size of the source is not compared.
SlipAgrees(n) == Current(n)

\* The one thing that ties an artifact to the source as it is now.
Agrees(n) == Current(n) /\ chunked[n].size = sources[n].size

SizeDiffers(n) == Tracing(n) /\ Current(n) /\ ~Agrees(n) /\ FailClosed

\* Without a source, a header, a record in the index, or another time.
Skipped(n) ==
  /\ Tracing(n) /\ Readable(n)
  /\ \/ n \notin DOMAIN sources
     \/ /\ Agrees(n)
        /\ \/ sources[n].id = Uncontrolled
           \/ sources[n].id \notin authority.approved \cup authority.refused
           \/ sources[n].id \in seen
  /\ Done(n)
  /\ UNCHANGED <<world, artifacts, selection, seen, history>>

\* The index or the chainlog contradicts the header.
Refused(n) ==
  /\ Tracing(n) /\ Agrees(n) /\ sources[n].id \in authority.refused
  /\ FailClosed

\* The text is the artifact's; source stands for all that the file gives of
\* the source as it is: its digest, its size and its header.
Traced(n, all) ==
  [text |-> chunked[n].text, source |-> sources[n], whole |-> all]

\* Slip: the last place of the identity table is not used.
SlipHasRoom == Cardinality(seen) + 1 < SeenMax

HasRoom == Cardinality(seen) < SeenMax

Admissible(n) ==
  Tracing(n) /\ Agrees(n) /\ sources[n].id \in authority.approved \ seen

TableFull(n) == Admissible(n) /\ ~HasRoom /\ FailClosed

\* For a document called kb.md the file is kb.corpus.json.
Trace(n) ==
  /\ Admissible(n) /\ HasRoom
  /\ corpus' = Written(corpus, n, Traced(n, TRUE))
  /\ seen' = seen \cup {sources[n].id}
  /\ Done(n)
  /\ UNCHANGED <<world, structured, chunked, selection, history>>

-----------------------------------------------------------------------------
(***************************************************************************)
(* rb_ca_execute: all corpus files in the directory, whoever left them,    *)
(* but not its own output.                                                 *)
(***************************************************************************)

Corpora == Present(corpus) \ {Kb}

Roots(files) == {corpus[n].source.id.root : n \in files}

\* The files of the current revision of a root, digest and all.
Matching(files, root) ==
  {n \in files : /\ corpus[n].source.id.root = root
                 /\ P!Tuple(corpus[n].source) \in authority.latest}

\* Of several files the last one by name is taken.
Chosen(names) == CHOOSE n \in names : \A m \in names : m <= n

Aggregable(files) ==
  /\ authority.records \in 1..MaxIndex
  /\ files # {} /\ Cardinality(files) <= MaxCorpora
  /\ \A n \in files : corpus[n] # Torn
  /\ \A root \in Roots(files) : Matching(files, root) # {}

NotAggregable ==
  /\ Executes("aggregator") /\ ~Aggregable(Corpora)
  /\ FailClosed

AggregateOf(files) ==
  [entries |->
     [root \in Roots(files) |-> corpus[Chosen(Matching(files, root))]]]

Aggregate ==
  /\ Executes("aggregator") /\ Aggregable(Corpora)
  /\ corpus' = Written(corpus, Kb, AggregateOf(Corpora))
  /\ Stop("OK")
  /\ UNCHANGED <<world, structured, chunked, selection, seen, history>>

-----------------------------------------------------------------------------
(***************************************************************************)
(* What can befall a run at any place.                                     *)
(***************************************************************************)

\* A file the stage in hand is writing when it is interrupted.
CutParse(n) ==
  /\ Parsing(n)
  /\ structured' = Written(structured, n, Torn)
  /\ UNCHANGED <<chunked, corpus>>

CutChunk(n) ==
  /\ Chunking(n)
  /\ chunked' = Written(chunked, n, Torn)
  /\ UNCHANGED <<structured, corpus>>

\* A corpus file that has its bytes already is not opened. One that has all
\* its records is accepted by the aggregator, though it is not whole.
CutTrace(n) ==
  /\ Admissible(n) /\ HasRoom /\ corpus[n] # Traced(n, TRUE)
  /\ \E left \in {Torn, Traced(n, FALSE)} :
       corpus' = Written(corpus, n, left)
  /\ UNCHANGED <<structured, chunked>>

\* The process is killed, or a file is not read, written or closed. Of the
\* file in hand a part may be left; the aggregator moves its own into place.
Interrupt ==
  /\ stage \in selection
  /\ disturbed' = TRUE
  /\ Stop("FAILED")
  /\ \/ UNCHANGED artifacts
     \/ \E n \in Name : CutParse(n) \/ CutChunk(n) \/ CutTrace(n)
  /\ UNCHANGED <<world, selection, seen, healthy, runs, changes>>

\* FindNextFileA reports an error, which the stage takes for the end.
BreakOff ==
  /\ stage \in selection \ {"aggregator"} /\ todo # {}
  /\ todo' = {}
  /\ disturbed' = TRUE
  /\ UNCHANGED <<world, artifacts, selection, stage, seen, status,
                 healthy, runs, changes>>

\* The same in the aggregator: the corpus is made of what was read.
AggregatePart ==
  /\ Executes("aggregator")
  /\ \E files \in SUBSET Corpora :
       /\ files # Corpora /\ Aggregable(files)
       /\ corpus' = Written(corpus, Kb, AggregateOf(files))
  /\ disturbed' = TRUE
  /\ Stop("OK")
  /\ UNCHANGED <<world, structured, chunked, selection, seen, healthy, runs,
                 changes>>

-----------------------------------------------------------------------------
(***************************************************************************)
(* The beginning of a run, and what may stand in its way.                  *)
(***************************************************************************)

Controlled(n) == sources[n].id \in authority.approved

\* The corpus file of n will be written anew.
Remade(n) ==
  /\ n \in DOMAIN sources /\ Controlled(n)
  /\ \A m \in DOMAIN sources \ {n} : sources[m].id # sources[n].id

\* It will be left as it is.
Left(n) == ~ (n \in DOMAIN sources /\ Controlled(n))

\* It is one the aggregator can read.
Intact(n) == n \in Corpora /\ corpus[n] # Torn

\* The documents whose corpus files the aggregator may come to.
Made == {n \in DOMAIN sources \ {Kb} : Controlled(n)}

IdsTraced == {sources[n].id : n \in {m \in DOMAIN sources : Controlled(m)}}
IdsMade   == {sources[n].id : n \in Made}
IdsFound  == {corpus[n].source.id : n \in {m \in Name : Intact(m)}}

\* The tuples of the corpus files that will certainly be there. Of several
\* documents of one identity any may be the one that is traced.
TuplesMade ==
  {P!Tuple(sources[n]) : n \in
     {m \in Made : \A o \in DOMAIN sources :
                     sources[o].id = sources[m].id =>
                       o # Kb /\ sources[o].spelling = sources[m].spelling}}
TuplesLeft ==
  {P!Tuple(corpus[n].source) : n \in {m \in Name : Intact(m) /\ Left(m)}}

(***************************************************************************)
(* The limits are kept: of identities, corpus files and index records.     *)
(* Every document has text and no contradicted header. Of a document that  *)
(* has gone no structured artifact is torn or without text. No torn corpus *)
(* file will stay torn. And for every root that occurs there will be a     *)
(* corpus file of its current revision, with the digest as the index has   *)
(* it: a document kb.md gives none.                                        *)
(***************************************************************************)
NothingInTheWay ==
  /\ Cardinality(IdsTraced) <= SeenMax
  /\ Cardinality(Corpora \cup Made) <= MaxCorpora
  /\ authority.records \in 1..MaxIndex
  /\ \A n \in DOMAIN sources :
       sources[n].form = "prose" /\ sources[n].id \notin authority.refused
  /\ \A n \in Present(structured) \ DOMAIN sources :
       structured[n] # Torn /\ structured[n].form = "prose"
  /\ \A n \in Corpora : corpus[n] = Torn => Remade(n)
  /\ IdsMade \cup IdsFound # {}
  /\ \A id \in IdsMade \cup IdsFound :
       \E current \in authority.latest \cap (TuplesMade \cup TuplesLeft) :
         current.id.root = id.root

Begin ==
  /\ stage = "idle" /\ runs < MaxRuns
  /\ selection' \in Selections
  /\ GoOn
  /\ seen' = {} /\ status' = "none"
  /\ healthy' = (selection' = Stage /\ NothingInTheWay)
  /\ disturbed' = FALSE
  /\ runs' = runs + 1
  /\ UNCHANGED <<world, artifacts, changes>>

Handle(n) ==
  \/ Rejected(n) \/ Parse(n)
  \/ Unreadable(n) \/ Chunk(n)
  \/ Malformed(n) \/ SizeDiffers(n) \/ Skipped(n) \/ Refused(n)
  \/ TableFull(n) \/ Trace(n)

Step ==
  \/ PassOver \/ EndOfListing
  \/ \E n \in Name : Handle(n)
  \/ NotAggregable \/ Aggregate

Next ==
  \/ Deliver \/ Decide \/ Begin
  \/ Step \/ Interrupt \/ BreakOff \/ AggregatePart

Spec == Init /\ [][Next]_vars

-----------------------------------------------------------------------------
(***************************************************************************)
(* Properties.                                                             *)
(***************************************************************************)

Entry == [text : Nat, source : Version, whole : BOOLEAN]

IsAggregate(content) ==
  /\ DOMAIN content = {"entries"}
  /\ \A root \in DOMAIN content.entries : content.entries[root] \in Entry

\* Type invariant of the pipeline: among others, a file that a stage is yet
\* to come to is one that the stage before it has left, only kb.corpus.json
\* is ever an aggregate, and the identity table is never overrun.
TypeOK ==
  /\ sources \in Libraries /\ authority \in Authorities
  /\ delivered \subseteq Version /\ P!VersionsOf(sources) \subseteq delivered
  /\ structured \in [Name -> {Missing, Torn} \cup delivered]
  /\ chunked \in [Name -> {Missing, Torn} \cup delivered]
  /\ corpus = [n \in Name \cup {Kb} |-> corpus[n]]
  /\ \A n \in Name \ {Kb} : corpus[n] \in {Missing, Torn} \cup Entry
  /\ kb \in {Missing, Torn} \cup Entry \/ IsAggregate(kb)
  /\ selection \subseteq Stage /\ stage \in Stage \cup {"idle"}
  /\ todo \subseteq Name
  /\ stage = "markdown" => todo \subseteq DOMAIN sources
  /\ stage = "chunker" => todo \subseteq Present(structured)
  /\ stage = "provenance" => todo \subseteq Present(chunked)
  /\ stage \in {"idle", "aggregator"} => todo = {}
  /\ IsFiniteSet(seen) /\ Cardinality(seen) <= SeenMax
  /\ status \in {"none", "OK", "FAILED"}
  /\ healthy \in BOOLEAN /\ disturbed \in BOOLEAN
  /\ runs \in 0..MaxRuns /\ changes \in 0..MaxChanges

(***************************************************************************)
(* Whatever is executed, passed over, interrupted or left behind: under an *)
(* identity that the authority then called current, the output gives a     *)
(* text that was delivered in the size of a version of that identity. It   *)
(* changes as a whole, but for what is done with it in the name of kb.md.  *)
(***************************************************************************)
ImplementsPublication == P!Spec

(***************************************************************************)
(* A run of all modules in which no call fails ends well, whatever earlier *)
(* runs have left torn, old or unfinished, unless one of the few things of *)
(* NothingInTheWay stands in its way: it makes anew each file it relies on.*)
(***************************************************************************)
HealthyRunSucceeds == status = "FAILED" => ~healthy \/ disturbed

Ends == stage # "idle" /\ stage' = "idle" /\ status' = "OK"

\* No other name has, or had when its corpus file was made, this identity.
Sole(n) ==
  \A m \in Name \ {n} :
    /\ m \in DOMAIN sources => sources[m].id # sources[n].id
    /\ Intact(m) => corpus[m].source.id # sources[n].id

IsCurrent(n) ==
  Controlled(n) /\ P!Tuple(sources[n]) \in authority.latest

\* What should be published of a document.
EntryOf(n) == [text |-> sources[n].text, source |-> sources[n], whole |-> TRUE]

(***************************************************************************)
(* After a run of all modules that ended well, every document that is the  *)
(* current revision of its root is published as it stands in the source    *)
(* directory, unless it is called kb.md: no text of an earlier version,    *)
(* none of an earlier run, no part of a file.                              *)
(***************************************************************************)
GoodRunIsCurrent ==
  [][Ends /\ selection = Stage /\ ~disturbed' =>
       \A n \in DOMAIN sources \ {Kb} : IsCurrent(n) /\ Sole(n) =>
         /\ sources[n].id.root \in DOMAIN kb'.entries
         /\ kb'.entries[sources[n].id.root] = EntryOf(n)
    ]_vars

(***************************************************************************)
(* MODULE_CONTRACT.md of the aggregator: file names are not authoritative. *)
(* When a document is renamed, the corpus file of its old name stays, with *)
(* the old text, and is published if its name is the last one.             *)
(***************************************************************************)
NamesAreNotAuthoritative ==
  [][Ends /\ selection = Stage /\ ~disturbed' =>
       \A n \in DOMAIN sources :
         IsCurrent(n) /\ P!Tuple(sources[n]) \in TuplesMade =>
           LET entry == kb'.entries[sources[n].id.root]
           IN  entry.whole => \E m \in DOMAIN sources :
                                entry.text = sources[m].text
    ]_vars

=============================================================================
