# RAG Builder: verification project

This directory holds TLA+ models of RAG Builder, the configurations that
model-check them with TLC, and theorems whose proofs TLAPS checks. The
repository's C code is the reference: each definition is translated from the
lines that `PROJECT.json` names for it.

## 1. The system

RAG Builder is a Windows command-line program of one thread. `main` reads a
configuration, initialises the Core, runs it once and shuts it down. The Core
discovers processing modules (DLLs with a declaration), qualifies them with
their own test suites, remembers good results in an inventory file, activates
the qualified ones and executes them in the order of their stages. The modules
turn documents into a corpus, each reading what the one before it wrote to the
output directory.

| Part | Source | State it keeps | Operations |
|---|---|---|---|
| Process entry | `src/main.c` | the exit code | configuration, `rb_core_init`, `rb_core_run`, `rb_core_shutdown` |
| Core | `src/core.c` | the life-cycle state, the registry, the inventory | init, process discovered modules, execute active modules, run, shutdown |
| Discovery | `src/module_discovery_win.c` | none | scan of the modules directory |
| Registry | `src/module_registry.c` | an array of 32 records, an audit log of 128 entries | discover, verify, qualify, restore, authorize, activate, fail, quarantine, find, unload |
| Inventory | `src/module_inventory.c` | 32 records in memory, one text file | load, find, store, save |
| RB-MARKDOWN (stage 100) | `modules/markdown` | none; writes `.rag.json` files | qualify, execute |
| RB-CHUNKER | `modules/chunker` | none; reads `.rag.json`, writes `.chunks.json` | qualify, execute |
| RB-PROVENANCE | `modules/provenance` | none; reads `.chunks.json`, the sources, the policy index and chainlog, writes `.corpus.json` | qualify, execute |
| RB-CORPUS-AGGREGATOR (stage 400) | `modules/corpus_aggregator` | none; reads `.corpus.json`, the index and chainlog, replaces `kb.corpus.json` | qualify, execute |
| Configuration | `src/config.c`, `main` of `src/main.c` | four values | load, resolve the modules path, validate |
| Log, platform | `src/log.c`, `src/platform_win.c` | a file handle | open/write/close, SHA-256 |

### How the parts interact

All calls are direct C calls in one thread; there are no callbacks other than
the module functions `qualify`, `execute` and `shutdown`, which the registry and
the Core call. The Core owns the registry and the inventory. Two things outlive
a process: the inventory file, which a later process reads to decide which
modules need no new qualification, and the output directory, through which the
processing modules talk to each other. The policy index and the chainlog are
written by somebody else, at any time.

### What is hard here

- **Failure at every step.** Each call can fail and the callers differ in what
  they do: the loop over the modules goes on, the loop over the stages stops,
  the registry takes changes back in some calls and keeps them in others.
- **Limits.** The audit log has room for 128 entries and is never emptied; the
  registry and the inventory have room for 32 records; a document has room for
  1024 blocks; a heading path for 16 headings; a run of RB-PROVENANCE for 1024
  identities; the aggregator for 4096 corpus files, which nothing removes, and
  4096 index records.
- **Restarts.** The program is run again and again. The inventory and the stage
  artifacts are written in place, `kb.corpus.json` by way of a temporary file.
  A run can be killed between any two steps, modules and documents can be
  replaced between runs.
- **Order.** Directory order decides which of two modules of one identifier is
  registered; execution order must not depend on it. The aggregator's choice
  among corpus files depends on a sort.
- **Files that stay.** No stage removes what it wrote for a document that has
  gone or was renamed, and a module that does not qualify is passed over while
  the later ones still run. A stage meets files of several runs at once, and one
  thing only ties a chunk artifact to its source: the source's size.
- **Names and spellings.** The files are named after the document: that of
  `kb.md` is `kb.corpus.json`, the file the aggregator publishes and does not
  read. Provenance compares digests in either case, the aggregator byte by byte;
  an identifier with a `|` is saved by the inventory and cannot be read back.
- **Termination.** The loops of the parser, the chunker, the slots and the
  execution end only if each of their branches makes progress.

There is no concurrency inside the program. The one actor beside it is the
authority, which may replace the policy index or the chainlog between two
readings of RB-PROVENANCE.

### What makes each part correct

- Registry: a module is qualified, authorised or active only on a report that
  meets the acceptance rule; an active one has its evidence on the log; the log
  replays to the registry; errors grant nothing; failed is final.
- Inventory: what was reported saved is found again; only the very binary that
  was stored is vouched for; there is one record for an identifier.
- Core: nothing executes whose own suite has not passed, in this process or an
  earlier one; nothing unchanged is qualified twice; execution is in order;
  success means complete; every run ends.
- RB-MARKDOWN: each block stands under the right heading; every line is in one
  block; code is kept whole; the parse ends.
- RB-CHUNKER: chunks partition the document, do not cross headings, keep the
  limit, and cannot be larger; the heading path is the outline at that place.
- RB-PROVENANCE: a corpus file carries what the index and the chainlog agreed
  on for its source; an identity has one corpus file in a run; a good run leaves
  out nothing that the index knows, and repairs what a killed one left.
- RB-CORPUS-AGGREGATOR: the output is whole, made of current registered files
  only, kept when a build fails, not rewritten without cause.
- All four together: nothing is published under an identity that was not
  delivered under it; a good run publishes the documents as they stand; a run
  repairs what an interrupted one left.
- Configuration: a file is accepted only if it says every required thing once,
  in a length that fits, whatever the order of its lines.

## 2. The modules

| Module | Models | State and actions |
|---|---|---|
| `ModuleGovernance` | what the registry promises: the life of a module, abstractly | one status for each identifier; propose, qualify, authorise, activate, retire |
| `ModuleRegistry` | `src/module_registry.c` | `slots` and `module` are the array of records, `audit` and `nextSequence` the log; one action for each call |
| `ModuleRegistry_proofs` | theorems about `ModuleRegistry` | |
| `ModuleInventory` | `src/module_inventory.c` | `records` is the array, `file` the text file as a sequence of lines that may be torn, `Legible` the identifiers that read back from it; load, store (saved, refused, unopened, unwritten), death in a save |
| `ModuleInventory_proofs` | theorems about `ModuleInventory` | |
| `Configuration` | `src/config.c`, the first half of `main` | no variables: a file is a sequence of pieces as `fgets` hands them over; `Load` is the loop, `Accepts` what `main` makes of it, `Sound` a reading that knows no order |
| `Core` | `src/core.c`, `src/module_discovery_win.c`, `main` of `src/main.c` | composes the three modules above; `pc` is the place in the program, one action from each place to the next; several processes, with a crash at every place |
| `Core_proofs` | theorems about `Core`; takes the lemmas about the registry and the inventory over by `INSTANCE` | |
| `MarkdownParser` | `rb_markdown_parse` | `at` is the line, `stack` the heading stack, `fence` the open code block, `blocks` the result; one action for each branch of the loop |
| `Chunker` | RB-CHUNKER on one document | `pos`, `current` and `chunks` as in `rb_chunker_build_chunks`; one action for each branch, then the writing |
| `MarkdownToChunks` | the first two stages on one document | composes `MarkdownParser` and `Chunker` by the structured artifact; the chunker also starts from an artifact of any content |
| `MarkdownToChunks_proofs` | theorems about `MarkdownParser`, `Chunker` and the two together | |
| `Provenance` | RB-PROVENANCE | `index` and `chain` are the files of the authority, `library` the sources and artifacts, `corpus` the files written; `pc` is the place in the loop body, with one action for each outcome of each step, and `Publish` for the authority between any two of them |
| `Provenance_proofs` | theorems about `Provenance` | |
| `CorpusAggregator` | RB-CORPUS-AGGREGATOR | `index`, `chain` and `corpora` are the inputs, `output` and `temp` the two files, `unread` remembers that an output could not be compared with; read, scan, resolve one root after the other, write, keep or replace, over several builds |
| `CorpusAggregator_proofs` | theorems about `CorpusAggregator` | |
| `Publication` | what the four stages promise together | the library, all that was ever in it, the authority and the published corpus; deliver, decide, publish as a whole, or overwrite in the name of `kb.md` |
| `Pipeline` | the loops of the four `..._execute` functions, one run after another | `structured`, `chunked` and `corpus` are the files by document, `kb` is the corpus file of the name `Kb`, `seen` the identity table, `stage` and `todo` the place in a run; one action for each outcome of a stage for one document, and an interruption or a broken listing at any moment |
| `Pipeline_proofs` | theorems about `Pipeline` | |
| `LeastNumber` | nothing of the code: the principle of the least number, induction and recursion over an interval, for the proofs | |

Each `MC...` module gives a module its small sets; the `.cfg` files name them.
Operators named `Slip...` repeat a definition with one plausible programming
error. No action uses them. `PROJECT.json` pairs every checked property with a
slip that makes it fail, which shows that the property depends on the code.

### Abstractions

- Identifiers are numbers because `strcmp` orders them. A binary is a value with
  a descriptor; it stands for its SHA-256 and version. Two binaries of one
  identifier are the replacement of a module.
- A qualification report is its five fields. What a module's suite answers is
  any report of the instance and any return code.
- The inventory file is a sequence of lines that are whole or torn. A save that
  is interrupted leaves any prefix. `earned` and `durable` are history: what was
  stored, and what a successful save reported. An identifier is written as it is; one
  outside `Legible` has a `|` or a line end, and the file with it is discarded by
  each later load, as in the code.
- `benched` in `Core` is history: the binaries whose own suite has passed. It
  is kept by what the suite did, not by what the Core made of the answer.
- A line of Markdown is what the parser's tests tell of it. `\r`, `\n` and
  `\r\n` are one line end. A NUL byte is a line of its own (section 5).
- A block is its type, level, parent and size. JSON is reduced to whether a file
  keeps its contract; the writer and the reader of the structured artifact are
  both modelled, so that the composition checks one against the other.
- A controlled header is whether it is whole, and its five fields. A text stands
  for the bytes of a source, and so for their SHA-256. What the authority vouches
  for is the digest in the header; the code compares it with no digest of the
  bytes, on purpose (the comment at `modules/provenance/src/provenance.c:3134`),
  and neither does the model. In `Provenance` digests are equal up to case, as
  they are for that module. In `Pipeline` a version has a `spelling` too, which
  the aggregator compares with that of the index.
- A directory listing is complete in `Provenance`. In `Pipeline` an error of
  `FindNextFileA` ends the loops of the stages like the last file does
  (`BreakOff`, `AggregatePart`), as in the code, which looks at no error there.
- In `Pipeline` what a stage does inside a document is one step: a version of a
  document has a text, the size of its source, an identity, and a form that says
  which stage takes it. What happens inside is in the modules of the stages. The
  authority is the set of identities it approves of, of those it calls current, in
  its spelling, and of those a header must not claim, and the number of index
  records; it changes between runs only, since
  `Provenance` and `CorpusAggregator` have its changes during a run.
- In `Pipeline` a file is torn when its readers refuse it. A corpus file cut
  behind its records is kept apart (`whole`), since the aggregator accepts it. A
  structured or chunk artifact that lost no more than what its readers do without
  is a whole one. The aggregate is its entries.
- Names of documents are numbers, which orders them. `Kb` is the one of `kb.md`;
  an instance may have it among its names or not.
- A configuration value is its length, and whether it is an absolute path or the
  name of a level.
- Texts otherwise, paths, times and log output are left out.

## 3. The runs

| Run | Instance | What it shows |
|---|---|---|
| `registry` | one call after another in any order by any client; small registry and log | All seven properties, with the log full in the middle of every pipeline |
| `inventory` | two identifiers, three binaries, room for fewer records than binaries | Durability, vouching and uniqueness over stores, torn saves, restarts and read errors |
| `core` | one process, three identifiers, four binaries, `InventoryMax` 2; configuration files of up to four pieces | Order and termination in every directory order, nothing active that the full inventory does not hold, and no configuration accepted that a reader would refuse |
| `core_restart` | three processes, two identifiers, one of them with two binaries, `AuditMax` 11 | Nothing unqualified executes, nothing unchanged is qualified twice, success means complete, with the log full in the turn of the second module |
| `core_config` | as `core` | Violation: see section 5 |
| `documents` | the parser on all outlines of up to six lines over three levels and all documents of up to four lines over eleven kinds of lines, its output through the chunker; the chunker on all artifacts of up to four blocks, and some that break the contract | Hierarchy, coverage, code blocks; partition, coherence, tightness; the contract between the stages, heading paths, coverage, termination of both |
| `markdown_binary` | documents with NUL bytes | Violation: see section 5 |
| `provenance` | two runs over eight states of the directories, six indexes and four chainlogs, two replacements by the authority at any moment | A corpus is vouched for by both files although they are read one after the other; identities are unique; a good run is complete and repairs torn files |
| `aggregator` | three builds over inputs that change in between | The output is whole, authoritative, kept on failure, not rewritten without cause; the current revision agrees with a definition of its own |
| `aggregator_conflict` | as `aggregator`, one build | Violation: see section 5 |
| `pipeline` | three runs over three names, the last that of `kb.md`, and seven states of the source directory, two authorities, three sets of executed modules, two changes of documents or authority; room for one identity, two corpus files, two index records | The refinement of `Publication`, in which only what is done in the name of `kb.md` touches the published file outside the aggregator; a good run is current; a healthy run succeeds over whatever was left, at the limits too |
| `pipeline_names` | as `pipeline` | Violation: see section 5 |

### Bounds, and why they are enough

- `AuditMax` is small enough to be reached inside each step of a module's
  pipeline and large enough to let one module become active: the interesting
  cases are "room for one more", "room for none" and the second audit of
  `qualify`. In `core` it is out of the way (18), so that the inventory is the
  limit a third module meets. `InventoryMax` is below the number of binaries.
- `MaxRuns` (processes) is three: one that qualifies, one that is killed or
  finds a replaced module, and one that reads what those two left. The cfgs of
  `Core` allow a stop without a successor because of this bound.
- `Levels` is three of six: a heading stack shows skips, climbs and stale
  entries with three levels. `BlockMax` is met by the longest documents.
- `MaxCombined` is a few bytes so that two or three blocks fit or do not;
  `PathMax` equals `Levels` in the composition, the tightest case in which the
  path must still be complete (the code has sixteen for six).
- In `core`, `PathMax` is 16, `LevelMax` 6 and `DirSize` 4, so that values one
  below and at each limit occur, for a path before and after it is joined to the
  program's directory. Four pieces are the three required keys and one more,
  which can be the modules path, a repetition, or anything else.
- In `pipeline`, three runs are one that leaves something, one that leaves
  something on top of it, and one that has to cope; two changes are a document
  that is changed or renamed and an authority that moves on. The versions
  include two of one size under one identity, two of one size under two
  identities, one without text, one without a header, one the parser rejects and
  one whose digest is not spelled as in the index.
- `SeenMax` is one in `pipeline`, so that a document is at the limit and two are
  beyond it. `MaxCorpora` and `MaxIndex` are two and are reached, not passed:
  beyond them the aggregator fails, in the model by one conjunct of `Aggregable`,
  and the theorem has any limits.
- In `provenance`, two replacements let the authority change the digest of a
  document in both files in the middle of a run, the case in which two documents
  of one identity both pass. `SeenMax` is two for three identities. Two runs are
  one that is killed or fails and one that repairs.
- `MaxBuilds` is three and `MaxIndex` three: a good build, one that fails or is
  killed, one over old or new inputs; the lineages among the indexes are a
  chain in several orders, a fork, a gap, a circle and a record that follows
  itself.

The parser and the chunker handle one document and then stop, RB-PROVENANCE and
the pipeline stop after `MaxRuns` and the aggregator after `MaxBuilds`; their
cfgs, like those of `Core`, do not check for deadlock. The registry and the inventory never stop
and are checked for it.

### Fairness

- `Core`: `WF_vars(Step)`. `Step` is what a live process does next; `Start` and
  the crashes are not in it. The process has one thread and no waits, so it
  goes on, if the module functions it calls return.
- `MarkdownToChunks` (`DocumentSpec`): weak fairness of the steps of the two
  loops, for the same reason. A crash is never forced.
- `MarkdownParser` and `Chunker` each state the same of themselves; the run
  `markdown_binary` uses it, so that its counterexample is a loop and not a
  parser that takes a rest.
- All other properties are safety properties and need none.

## 4. What is proved

A run checks a property on a small instance; a theorem states it for every value
of the constants that the named assumptions allow. Each proof has the same
shape: an inductive invariant, the facts `Init => IInv`,
`IInv /\ [Next]_vars => IInv'` and `IInv => Property`, and a temporal step that
joins them.

### The registry

`ModuleRegistry_proofs`, from `BinaryAssumption`, `ReportAssumption` and
`LimitAssumption`:

- `TypeCorrect`, `StandingEarned`, `ActivationIsOnRecord`: `Spec => []TypeOK`,
  `[]StandingIsEarned`, `[]ActiveIsOnRecord`.
- `RetirementIsFinal`, `ErrorsGrantNothing`: the action properties
  `RetiredIsFinal` and `ErrorGrantsNothing`.
- `AuditReplaysRegistry`: `Spec => []AuditReplays`.
- `RegistryImplementsGovernance`: the refinement, `Spec => ImplementsGovernance`.

`StandingIsEarned` says nothing about a module in `UNVERIFIED`, from which a
qualification starts, so it is not inductive. `Soundness` adds that a record
past verification has a well-formed binary with a supported API, and that a
blank record is blank. `ActiveIsOnRecord` becomes inductive as `Recorded`: each
state of the pipeline has the trail of events that leads to it on the log, in
order. Since the log only grows, a trail is never lost, and each call lengthens
the trail of at most one module. For `RetiredIsFinal` and the refinement, each
call is shown to touch at most one record and to move it along one of a few
allowed transitions (`Allowed`). For `ErrorsGrantNothing`, a call that reports an
error is shown to leave the state of a record as it is, without an authorisation
that was not there, or to retire it (`NotRaised`).

For `AuditReplaysRegistry` the invariant `Replays` makes the property one about
a log, its next number and a function of states (`ReplaysTo`), and adds that a
module without entries is absent. So stated, one lemma says what an entry does to
it and one what a retirement on a full log does, and every call is one of the
two; `Qualify` is the first one twice, or the first and then the second, by way
of a state that no reader of the registry ever sees.

### The inventory

`ModuleInventory_proofs`, from `BinaryIdAssumption` and `InventoryMaxAssumption`,
for any set of legible identifiers:
`SavedIsDurable` (`[]Durable`), `IdentifiersAreUnique` (`[]OneRecordPerId`),
`OnlyStoredIsVouchedFor` (`[]VouchesForStored`). The invariant `Inv` joins
`TypeOK`, `OneRecordPerId` and `Durable` with `FromStores`: nothing is in the
array or in the file that no store was ever given. `Durable` speaks of what was
saved while all that was saved could be read back; a misread file, or a saved
record that does not read back, ends what it says. A load stops at the first
line that it cannot use; that the array is then the longest good beginning of
the file needs a least line that is not good, which is `LeastOfSet`.

`LeastNumber` is an aid of the proofs and says nothing of the code. It derives
`LeastOfSet`, "every set of natural numbers that is not empty has a least
element", from the well-foundedness of the natural numbers in the library. The
library's induction theorems take an operator, which the provers cannot
instantiate; a set they can. `IntervalInduction` is induction over an interval
for a set, and `RecursionExists` says that a function defined by recursion over
an interval exists, the step of the recursion being a function as well. With
these two what a recursive function of the model yields can be proved for inputs
of any length.

### The Core

`Core_proofs`, from `IdentifierAssumption`, `BinaryAssumption`,
`LimitAssumption`, `ReportAssumption`, `ConfigurationAssumption` and
`FilesAssumption` (a file is a sequence of pieces, an absolute path is not
empty), for any number of processes and crashes. The registry's and the inventory's type lemmas are taken over through
`INSTANCE`. The invariants are layers, each inductive relative to the ones
before it:

1. `Sound`: types, the inventory's invariant, a record for each slot, and
   nothing in memory before the Core is there. It gives `TypeCorrect`, and
   `CoreImplementsInventory`: `Spec => I!Spec`, so that what is proved of the
   inventory holds in the Core's use of it.
2. `Benched`: whatever has a standing, or was ever given to a store, has passed
   its own suite. It gives `OnlyBenchedExecute`. A run is preceded by a process
   that may have been killed, so that the statement has to speak of all records
   that were ever stored, not of those in memory.
3. `Vouched`: memory has a record for all that has a standing, but for the
   module whose suite has just passed. It gives `ActiveModulesAreOnInventory`
   and, with the inventory's durability, `DurableIsNotRebenched`.
4. `Ordered`: what was executed is in order, and each active module has been
   executed or is still to come. It gives `ModulesExecuteInOrder` and
   `SuccessMeansComplete`. That an active module is selected while there is one
   needs a least stage and a least identifier in it: `LeastOfSet` twice.

`ProcessStepsAreBounded` is the part of `EveryRunEnds` that the prover can reach,
for finitely many binaries: each step of a process, killed or not, leaves less to
do (`StepsLeft`), and there are at most 13 steps, and one for each binary and
seven for each slot. The loop over the slots and the scan count down by
themselves. The loop that executes looks through all slots again each time; it
ends as no module is executed twice (`Ordered`) and each one executed has a slot
(`Listed`), so that there are no more executions than slots (`ExecutedFits`, by
the library's theorem on injections).

`SoundFilesAreAccepted` (`[]OnlySoundFilesAreAccepted`) is about the one loop of
`rb_config_load`. `Read` says where it stands after so many pieces: it goes on
as long as each piece is fine beside those before it, it has seen the keys that
were there, and it holds their values and the defaults of the others.
`ReadGoesOn` is the step of the induction (`ReadIsRead`). That the file is then
sound in the sense of a reader who knows no order, and that main accepts it
exactly then, is `SoundIsAccepted`; that an empty `modules_path` passes is in
both.

### RB-MARKDOWN and RB-CHUNKER

`MarkdownToChunks_proofs`, from `LevelAssumption`, `DocumentAssumption`,
`ChunkerAssumption` and, for the heading paths alone, `RoomAssumption` (there is
room in a path for a heading of each level: sixteen places for six), for
documents and found artifacts of any length, any number
of heading levels and any limit on a chunk. Three layers are invariants of the
parser by itself (`MarkdownParser!Spec`):

1. `Typed`: types, and an open code block began on a line already passed. It
   gives `TypeCorrect`.
2. `Stacked`: a heading in force is a block that is a heading of its level, one
   of a deeper level is a later block, and each heading is in force or was
   followed by one in force of its level or a higher one. So nothing on the
   stack is stale: `ParentsEnclose` (`[]ParentIsEnclosing`). That the deepest
   heading in force exists is `LeastOfSet`.
3. `Accounted`: the blocks are in order and before the open code block, each
   begins with a line that is not blank, no line passed is a NUL byte, and the
   open code block has not met its end. It gives `AllLinesAccounted`
   (`[]LinesAccounted`) and `CodeStaysVerbatim` (`[]CodeIsVerbatim`).

Six more carry them over to the two stages together (`DocumentSpec`):

4. `Leveled`: a heading has a level and nothing else has one, and an accepted
   document has a block. `Kinded`: a block is what its first line says.
5. `Passing`: the parser was not started, or layers 1 to 4 hold and the document
   of the chunker is what the parser accepted, from the moment it is written to
   the whole chunk artifact. It gives `ParserOutputFits`
   (`[]ParserOutputIsAccepted`) and `ParserIsSoundInRun`.
6. `Gathering`: the blocks before `pos` have gone into the chunks (`Gone`), each
   chunk is a stretch of consecutive blocks (`Stretch`), chunks are in order, and
   the chunk in the making ends at the block before `pos`, so that joining the
   next block to it leaves no gap. The five steps of the loop have three effects
   on the chunks: `GoneHeading`, `GoneAppend` and `GoneExtend`. It gives
   `NoBlockIsLost` (`[]NothingLost`) and `ChunksStayCoherent`
   (`[]ChunksAreCoherent`), and with layer 3, as it also holds of the artifact
   that is written, `SourceStaysCovered` (`[]SourceIsCovered`).
7. `Tightened`: a chunk has the size of its text (`Measured`), a chunk of
   several blocks is within the limit, and the first block of the next chunk
   could not have been joined (`Apart`), that of the next block to come included
   as long as the chunk in the making can still grow. It gives `ChunksStayTight`
   (`[]ChunksAreTight`). The size the code adds up block by block is what the
   recursive `TextOf` yields, for which `TextOfOne` and `TextGrows` are proved.
8. `Pathed`: an artifact that is written has the path of its heading in every
   chunk. The property speaks of the outline, the headings that no later one of
   the same or a smaller level has ended, and the code climbs from parent to
   parent. `OutlineGrows` says that a parent's outline lacks just the heading
   itself, `RowsAppend` that its lineage grows with it in order and never beyond
   its level, and `LineageIsOutline` joins them by induction over the headings.
   As no path is longer than the levels, nothing of it is cut off (`PathFits`).
   It gives `HeadingPathsAreOutlines` (`[]HeadingPathIsOutline`).
9. `Settled`: an artifact that is written is a cutting of the document.

The layers say that what comes out keeps the properties. That the properties
leave no choice is said by three more theorems, after `README.md:101` of the
repository, "Deterministic processing". An `Interpretation` of a source takes
every line that is not blank for one block, in order, each block being what its
first line says, code ending where it first can, and everything under the
nearest heading. A `Cutting` of blocks leaves none out, has coherent chunks under
their paths, keeps the limit and parts neighbours only where something keeps them
apart. Neither knows of a pass, a stack or a fence. `OneInterpretation` and
`OneCutting` compare two of them from the front: where they have been the same
until now, neither can begin the next block, or chunk, earlier
(`StartsTogether`, `BeginsTogether`) or end it earlier (`OneEnd`, `EndsTogether`;
the latter needs that a text only grows, `TextIsMonotone`).
`BlocksAreDetermined` and `ChunksAreDetermined` conclude that the code comes to
the one there is, and `ProcessingIsDetermined` joins the two stages. A chunker
that looked ahead, or a parser with several passes, would have to write the same
artifact.

`DocumentStepsAreBounded` is the part of `EveryDocumentEnds` that the prover can
reach: each step of the two stages leaves less to do (`StepsLeft`), and a
document of n lines has at most 2n + 5 steps. That the next step is taken, and
that there is one, is left to fairness and to TLC.

### RB-PROVENANCE

`Provenance_proofs`, from `ProvenanceAssumption` and `FileAssumption` (the files
of the authority have finitely many records, a controlled header has all its
fields), for any names, libraries, limit of identities, runs and changes of the
authority. `StepKinds` first sorts the actions by what they do to the run: they
end it, go on, or take the artifact in hand a step further. On `Typed`
(`TypeCorrect`, `[]ProvenanceTypeOK`) stand three invariants that do not need
each other:

- `Distinct`: what is fresh has been seen, and what is about to be written has
  no fresh corpus file yet. It gives `IdentitiesAreDistinct`
  (`[]OneCorpusPerIdentity`).
- `Authentic`: the header in hand is in the index as it was consulted, and then
  in the chainlog as it was consulted. It gives `WrittenIsVouched`
  (`CorpusIsVouched`), although the authority may publish between the two.
- `Complete`: each artifact dealt with is covered while the authority keeps
  still, and each identity seen has a corpus file of this run save the one about
  to be written. It gives `GoodRunsAreComplete` (`GoodRunIsComplete`): a copy
  passed over as a duplicate is one of a file that is there.

### RB-CORPUS-AGGREGATOR

`CorpusAggregator_proofs`, from `LimitAssumption` and `FileAssumption` (finitely
many records and files), for any records, files and number of builds:

- `TypeCorrect`, `OutputsAreWhole` (`[]OutputIsWhole`),
  `OutputsAreAuthoritative`, `FailuresKeepOutput`. The invariant `Admitted`:
  each root is selected or still to do, what is selected is authoritative, and a
  build that has come to the replacement has written all of it.
- `LineagesEndInCurrent`: `Spec => []CurrentIsNewest`, for lineages of any
  length. A row without repetitions of all revisions reaches each of them, by
  the library's theorem on injections between sets of one size.
- `SameInputsSameOutput`: `Spec => UnchangedNotRewritten`, for builds that could
  read the output that was there. `Determined` says that
  what is gathered, and the output of the last good build, is a function of the
  files read (`AggregateIn`). The count of the files passed over, which the code
  adds up root by root, is in it the size of a set, and `PassedOverGrows` shows
  that each root adds its part of that set.

### The pipeline

`Pipeline_proofs`, from `NameAssumption`, `LibraryAssumption`,
`AuthorityAssumption`, `SelectionAssumption`, `LimitAssumption` and
`BoundAssumption`, for any number of names, versions, changes and runs, any
limits of the three tables, and whether or not the name of `kb.md` is among the
names:

- `TypeCorrect`: `Spec => []TypeOK`.
- `PipelineImplementsPublication`: the refinement, `P!kb` being the corpus file of
  the name `Kb`. The invariant is `Vouched`: a corpus file that the aggregator can
  read gives a text that was delivered in the size of a version of its identity.
  A step of provenance for `Kb` is an `Overwrite`, which `Publication` allows
  only while there is a source of that name (`OverwriteStep`); all other steps
  that change the file replace it as a whole (`AggregateIsPublishable`).
- `FullRunsAreCurrent`: `Spec => GoodRunIsCurrent`, which excepts the document
  `kb.md`: it has no corpus file that the aggregator would read. While a full run
  without a failure is under way, what the stages have come to is as the sources
  are (`AsIs`, in four parts, one for each stage and one that nothing accepted is
  without a corpus file); the names a stage has still to do are exempt.
- `HealthyRunsSucceed`: `Spec => []HealthyRunSucceeds`. What did not stand in the
  way when the run began never does (`Clear`); with `AsIs` no stage then finds a
  reason to fail. `Backed` adds that a chunk artifact has a structured one. That
  the identity table has room follows from what it can still get
  (`RoomForAll`, by the cardinality of a subset), that the aggregator has room
  and a matching file for each root, from what is left and what is made anew
  (`TraceStaysClear`, `AggregableAtTheEnd`).

### Only model-checked

Every invariant and every action property that a run checks is stated by a
theorem. Liveness (`EveryRunEnds` and `EveryDocumentEnds`) rests on fairness and
`ENABLED`, which are beyond the prover, and stays with TLC; proved is only that
no run can go round in circles (`ProcessStepsAreBounded`,
`DocumentStepsAreBounded`). With TLC stays also what the runs with a violation
show: a counterexample is nothing to prove.

## 5. Where the code and its texts disagree

1. `pipeline_names`. The aggregator's contract says "Filename order and
   filesystem enumeration order are not authoritative."
   (`modules/corpus_aggregator/MODULE_CONTRACT.md:77`). Of several corpus files
   of the current revision of a root, the loop at
   `corpus_aggregator.c:2345` keeps the last one by name, although the comment
   at 2382 says "Keep the deterministic first file." No stage removes a corpus
   file: when a document is renamed and changed without a new revision, the file
   of its old name stays, with the old text, and is published if its name is the
   last one. `GoodRunIsCurrent` therefore asks that no other file claims the
   identity (`Sole`).
2. `core_config`. The rules of the configuration say that an invalid one stops
   the build "rather than silently fall back to unknown behavior"
   (`CONFIGURATION.md:42`), and the validator refuses an empty `modules_path`
   (`src/config.c:301`). `main` resolves the path before it validates
   (`src/main.c:416-465`): the empty path has become the program's own
   directory, which is then searched for modules.
3. `aggregator_conflict`. The module's contract says that two digests for one
   root and revision are a conflict and "Conflicts fail closed."
   (`modules/corpus_aggregator/MODULE_CONTRACT.md:45-47`); the code passes over
   the file that does not match as superseded.
4. `markdown_binary`. The policy says that malformed input is rejected
   (`POLICY.md:43`). A NUL byte ends a line but is not skipped with the line end,
   so that the parser's loop stays where it is and does not return.

Two more have no run of their own:

- The aggregator's contract says "6. Replace the target atomically."
  (`modules/corpus_aggregator/MODULE_CONTRACT.md:66`). RB-PROVENANCE makes the
  name of a corpus file out of that of the source (`provenance.c:2919`), and for
  `kb.md` that is `kb.corpus.json`, which it opens with "wb" and writes in place
  (2802). An interruption leaves a part of it; without one the published corpus
  is that of `kb.md` until the aggregator has run, and stays so when the
  aggregator fails (`Overwrite` in `Publication`). The aggregator never reads it
  (`corpus_aggregator.c:106`): no good run publishes `kb.md`, which is why
  `GoodRunIsCurrent` excepts it.
- The contract says "The module will fail closed for:" and lists "- malformed
  corpus input;" (`modules/corpus_aggregator/MODULE_CONTRACT.md:89-91`). The
  reader of a corpus file asks for the bracket that closes the records and for
  nothing behind it (`corpus_aggregator.c:508`). A file that an interrupted run
  has cut there is accepted and copied into the aggregate as it is, also in a run
  that ends well if no stage makes that file anew (`whole` in `Pipeline`).

Some things are no disagreement with a text, but a reader of the models should
know them, since the properties are stated around them:

- The Core's tests say "Qualification does not imply activation."
  (`tests/core_state_test.c:1844`). `rb_core_run` authorises and activates every
  module it qualifies or restores (`src/core.c:247-262`), which `Core` models.
- A document of headings only becomes a chunk artifact without a chunk, which
  RB-PROVENANCE refuses before it looks for a source: every later run fails,
  also after the document has been removed (`NothingInTheWay`).
- A corpus file that was torn, and whose document has gone since, stops every
  later aggregation (`NothingInTheWay`).
- A header whose digest is in upper case where the index has lower case passes
  RB-PROVENANCE (`provenance.c:465`, `_stricmp` at 2059 and 2324), which hands its
  spelling on (2608), and no index record matches it in the aggregator
  (`corpus_aggregator.c:1178` and 1213): every run fails (`NothingInTheWay`, by
  `Tuple`).
- Corpus files are never removed. Beyond 4096 of them, those of renamed and
  removed documents counted, every aggregation fails (`NothingInTheWay`).
- A lone document `kb.md` leaves the aggregator without input: every run fails.
- An identifier with a `|` passes `rb_record_valid`, is saved with success and
  makes every later load discard the whole inventory
  (`src/module_inventory.c:294` and 199). No text says which identifiers are
  allowed. `Durable` speaks of records that read back.
- An output that cannot be opened or read counts as different
  (`corpus_aggregator.c:1236`): the aggregator then replaces it by the same bytes.
  `UnchangedNotRewritten` excepts that.
- What a removed document has published stays published as long as the authority
  lists its revision; `Publication` says "was delivered", not "is there".
- Any error of a directory listing is taken for its end, so that a run can be
  good with documents missing: `GoodRunIsCurrent` asks that it did not happen.

### Reading the table of hazards

`PROJECT.json` lists what is hard to test here, each at its line, with the
properties that would fail if it went wrong. Three entries have none: the
change of a module's file between its hash and its load, for which the model has
one step; the records that a read error at load costs the inventory, and those
that an identifier which does not read back costs it. The last two happen in the
model as in the code, and `Durable` excepts them.

## 6. What is not modelled

- The qualification suites of the modules: they are tests, and the registry's
  model takes any answer from them.
- `src/log.c` and `src/platform_win.c`: input and output without a state that
  others depend on; their failures appear where they are looked at.
- `src/module_discovery.c`: no build compiles it.
- The JSON readers and writers of the modules, character by character: they are
  the larger part of the chunker's, the provenance module's and the aggregator's
  lines. The models keep what they decide, which is whether a file meets the
  contract and what it then says.
- The change of a module's file between its hash and its load.
- Names that the file system takes for one and `strcmp` does not (`KB.md`), names
  beyond the limits of a path, and characters that JSON escapes or that end a
  text file.
- Two reads that fail at the same place of the old and the new aggregate, which
  would then count as equal.
- A change of the authority in the middle of a run of all stages.
- `last_result` and the refusals by which the Core's functions answer a call in
  the wrong state: `main` is their only caller and calls them in order.
- Texts, paths, times and log output.

## 7. What is left

1. Names that differ in case only, and `KB.md` among them: the file system takes
   them for one file, the aggregator's filter does not.
2. A larger instance of `Pipeline`, three names with room for all of them, if the
   time of the run allows.
