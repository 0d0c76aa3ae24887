------------------------- MODULE CorpusAggregator -------------------------
(***************************************************************************)
(* RB-CORPUS-AGGREGATOR, stage 400                                         *)
(* (modules/corpus_aggregator/src/corpus_aggregator.c): one build admits,  *)
(* for each root document that has corpus files, the file that matches the *)
(* current registered revision, and replaces kb.corpus.json by way of a    *)
(* temporary file. The policy index, the chainlog and the corpus files     *)
(* belong to others, who may change them between two builds.               *)
(*                                                                         *)
(* A name, a revision and a digest are numbers; a corpus is its metadata   *)
(* and its text. An operator named Slip... is the definition below it with *)
(* one plausible programming error; no action uses it.                     *)
(***************************************************************************)
EXTENDS Integers, Sequences, FiniteSets

CONSTANTS
  Indexes,      \* the policy indexes the authority may publish
  Chains,       \* the sets of chainlog registrations
  Collections,  \* the collections of corpus files: a corpus for each name
  MaxIndex,     \* RB_CORPUS_AGGREGATOR_MAX_INDEX
  MaxCorpora,   \* RB_CORPUS_AGGREGATOR_MAX_CORPORA
  MaxBuilds     \* bound on the number of builds

ASSUME LimitAssumption ==
  MaxIndex \in Nat /\ MaxCorpora \in Nat /\ MaxBuilds \in Nat

\* The index file has finitely many records, and the directory finitely many
\* files.
ASSUME FileAssumption ==
  /\ \A x \in Indexes : Len(x.records) \in Nat
  /\ \A c \in Collections : IsFiniteSet(DOMAIN c) /\ DOMAIN c \subseteq Nat

VARIABLES
  index,       \* the policy index: whether it parses, and its records
  chain,       \* the registrations on the chainlog
  corpora,     \* the corpus files
  output,      \* kb.corpus.json
  temp,        \* kb.corpus.json.tmp
  pc,          \* where the build is
  todo,        \* the roots still to be resolved
  selected,    \* the name of the file chosen for each root so far
  duplicates,  \* matching files that were passed over
  status,      \* how the last build ended
  rewritten,   \* whether it replaced the output
  unread,      \* history: it did so without having read the old one
  built,       \* history: what the last successful build read
  builds       \* the number of builds begun

inputs == <<index, chain, corpora>>
vars == <<index, chain, corpora, output, temp, pc, todo, selected,
          duplicates, status, rewritten, unread, built, builds>>

None == 0             \* the revision "NONE" of a root document

Missing == [entries |-> << >>, duplicates |-> -1]   \* no file
Torn    == [entries |-> << >>, duplicates |-> -2]   \* a part of a file

NothingBuilt == << >>

-----------------------------------------------------------------------------
(***************************************************************************)
(* The authority records.                                                  *)
(***************************************************************************)

Parses == index.wellFormed /\ Len(index.records) \in 1..MaxIndex

\* The positions of the approved records of a root.
Approved(root) ==
  {i \in 1..Len(index.records) :
     index.records[i].root = root /\ index.records[i].approved}

Originals(root) == {i \in Approved(root) : index.records[i].revision = None}
Revisions(root) == Approved(root) \ Originals(root)

\* Slip: a revision that is not approved supersedes as well.
SlipTerminal(root) ==
  {i \in Revisions(root) :
     ~ \E j \in 1..Len(index.records) \ {i} :
         /\ index.records[j].root = root
         /\ index.records[j].revision # None
         /\ index.records[j].previous = index.records[i].revision}

\* The revisions no other approved revision names as its predecessor.
Terminal(root) ==
  {i \in Revisions(root) :
     ~ \E j \in Revisions(root) \ {i} :
         index.records[j].previous = index.records[i].revision}

\* rb_ca_index_current_for_root: the current record, or none when it is not
\* unique.
Current(root) ==
  LET candidates == IF Revisions(root) = {} THEN Originals(root)
                    ELSE Terminal(root)
  IN  IF Cardinality(candidates) = 1
      THEN {index.records[i] : i \in candidates} ELSE {}

\* Slip: the digest of the registration is not compared.
SlipRegistered(rec) ==
  \E entry \in chain :
    entry.root = rec.root /\ entry.revision = rec.revision

Registered(rec) ==
  [root |-> rec.root, revision |-> rec.revision,
   previous |-> rec.previous, sha |-> rec.sha] \in chain

Matches(rec) ==
  {name \in DOMAIN corpora :
     /\ corpora[name].root = rec.root
     /\ corpora[name].revision = rec.revision
     /\ corpora[name].sha = rec.sha}

\* The files are sorted by name last, and the last match is kept.
Chosen(names) == {name \in names : \A other \in names : other <= name}

Roots == {corpora[name].root : name \in DOMAIN corpora}

-----------------------------------------------------------------------------
(***************************************************************************)
(* The build. A process can be killed between any two steps.               *)
(***************************************************************************)

Init ==
  /\ index \in Indexes /\ chain \in Chains /\ corpora \in Collections
  /\ output = Missing /\ temp = Missing
  /\ pc = "idle"
  /\ todo = {} /\ selected = << >> /\ duplicates = 0
  /\ status = "none" /\ rewritten = FALSE /\ unread = FALSE
  /\ built = NothingBuilt
  /\ builds = 0

\* The authority and the earlier stages write their files between builds.
Publish ==
  /\ pc = "idle" /\ builds \in 1..(MaxBuilds - 1)
  /\ index' \in Indexes /\ chain' \in Chains /\ corpora' \in Collections
  /\ UNCHANGED <<output, temp, pc, todo, selected, duplicates, status,
                 rewritten, unread, built, builds>>

Begin ==
  /\ pc = "idle" /\ builds < MaxBuilds
  /\ pc' = "read"
  /\ builds' = builds + 1
  /\ todo' = {} /\ selected' = << >> /\ duplicates' = 0
  /\ status' = "none" /\ rewritten' = FALSE /\ unread' = FALSE
  /\ UNCHANGED <<inputs, output, temp, built>>

\* The build stops here: everything it had gathered is released.
Stop(how) ==
  /\ pc' = "idle" /\ status' = how
  /\ todo' = {} /\ selected' = << >> /\ duplicates' = 0
  /\ UNCHANGED <<inputs, builds>>

FailClosed == Stop("FAILED") /\ UNCHANGED <<output, rewritten, unread, built>>

\* A record file that cannot be read, or an index that does not parse.
ReadFails ==
  /\ pc = "read"
  /\ FailClosed /\ UNCHANGED temp

Read ==
  /\ pc = "read" /\ Parses
  /\ pc' = "scan"
  /\ UNCHANGED <<inputs, output, temp, todo, selected, duplicates, status,
                 rewritten, unread, built, builds>>

\* One file that cannot be read, or does not keep the contract, is enough.
Acceptable ==
  /\ Cardinality(DOMAIN corpora) \in 1..MaxCorpora
  /\ \A name \in DOMAIN corpora : corpora[name].wellFormed

ScanFails ==
  /\ pc = "scan"
  /\ FailClosed /\ UNCHANGED temp

Scan ==
  /\ pc = "scan" /\ Acceptable
  /\ pc' = "resolve"
  /\ todo' = Roots
  /\ UNCHANGED <<inputs, output, temp, selected, duplicates, status,
                 rewritten, unread, built, builds>>

First == {root \in todo : \A other \in todo : root <= other}

Admissible(rec) == Registered(rec) /\ Matches(rec) # {}

Unresolved(root) ==
  /\ pc = "resolve" /\ root \in First
  /\ ~ \E rec \in Current(root) : Admissible(rec)
  /\ FailClosed /\ UNCHANGED temp

Resolve(root) ==
  /\ pc = "resolve" /\ root \in First
  /\ \E rec \in Current(root) :
       /\ Admissible(rec)
       /\ \E name \in Chosen(Matches(rec)) :
            selected' = [r \in DOMAIN selected \cup {root} |->
                           IF r = root THEN name ELSE selected[r]]
       /\ duplicates' = duplicates + Cardinality(Matches(rec)) - 1
  /\ todo' = todo \ {root}
  /\ UNCHANGED <<inputs, output, temp, pc, status, rewritten, unread, built,
                 builds>>

Aggregate ==
  [entries |-> [root \in DOMAIN selected |-> corpora[selected[root]]],
   duplicates |-> duplicates]

\* Slip: the output is written in place.
SlipWrite ==
  /\ pc = "resolve" /\ todo = {}
  /\ \/ output' = Aggregate /\ pc' = "replace"
     \/ output' = Torn /\ pc' = "idle"
  /\ temp' = Aggregate
  /\ UNCHANGED <<inputs, todo, selected, duplicates, status, rewritten,
                 unread, built, builds>>

\* rb_ca_write_aggregate up to the closing of the temporary file.
Write ==
  /\ pc = "resolve" /\ todo = {}
  /\ temp' = Aggregate
  /\ pc' = "replace"
  /\ UNCHANGED <<inputs, output, todo, selected, duplicates, status,
                 rewritten, unread, built, builds>>

\* The temporary file does not open, or is left in part.
WriteFails ==
  /\ pc = "resolve" /\ todo = {}
  /\ temp' \in {temp, Torn}
  /\ FailClosed

\* Identical bytes: the output is kept and only the temporary file goes.
Keep ==
  /\ pc = "replace" /\ temp = output
  /\ temp' = Missing
  /\ built' = inputs
  /\ Stop("OK") /\ UNCHANGED <<output, rewritten, unread>>

\* Slip: the two files are not compared.
SlipReplace ==
  /\ pc = "replace"
  /\ output' = temp /\ temp' = Missing
  /\ rewritten' = TRUE /\ built' = inputs
  /\ Stop("OK") /\ UNCHANGED unread

\* An output that cannot be opened or read counts as a different one.
Replace ==
  /\ pc = "replace"
  /\ \/ temp # output /\ UNCHANGED unread
     \/ output # Missing /\ unread' = TRUE
  /\ output' = temp /\ temp' = Missing
  /\ rewritten' = TRUE /\ built' = inputs
  /\ Stop("OK")

\* Slip: the old output is deleted before the new one is moved.
SlipReplaceFails ==
  /\ pc = "replace" /\ temp # output
  /\ output' = Missing /\ temp' = Missing
  /\ Stop("FAILED") /\ UNCHANGED <<rewritten, unread, built>>

\* The move fails, after a comparison or without one.
ReplaceFails ==
  /\ pc = "replace"
  /\ temp' = Missing
  /\ FailClosed

\* The process is killed; in the middle of a write a part is left.
Crash ==
  /\ pc # "idle"
  /\ \/ UNCHANGED temp
     \/ pc = "resolve" /\ todo = {} /\ temp' = Torn
  /\ Stop("none") /\ UNCHANGED <<output, rewritten, unread, built>>

Next ==
  \/ Publish \/ Begin
  \/ ReadFails \/ Read
  \/ ScanFails \/ Scan
  \/ \E root \in todo : Unresolved(root) \/ Resolve(root)
  \/ Write \/ WriteFails
  \/ Keep \/ Replace \/ ReplaceFails
  \/ Crash

Spec == Init /\ [][Next]_vars

-----------------------------------------------------------------------------
(***************************************************************************)
(* Properties.                                                             *)
(***************************************************************************)

\* Type invariant of the aggregator.
TypeOK ==
  /\ index \in Indexes /\ chain \in Chains /\ corpora \in Collections
  /\ pc \in {"idle", "read", "scan", "resolve", "replace"}
  /\ todo \subseteq Roots
  /\ DOMAIN selected \subseteq Roots /\ todo \cap DOMAIN selected = {}
  /\ \A root \in DOMAIN selected : corpora[selected[root]].root = root
  /\ duplicates \in Nat
  /\ status \in {"none", "OK", "FAILED"}
  /\ rewritten \in BOOLEAN /\ unread \in BOOLEAN
  /\ builds \in 0..MaxBuilds

\* The index and the chainlog both vouch for a corpus, and the index holds
\* no approved revision that follows it.
Authoritative(c) ==
  /\ \E rec \in {index.records[i] : i \in 1..Len(index.records)} :
       /\ rec.approved
       /\ rec.root = c.root /\ rec.revision = c.revision /\ rec.sha = c.sha
       /\ \E entry \in chain : /\ entry.root = c.root
                               /\ entry.revision = c.revision
                               /\ entry.sha = c.sha
                               /\ entry.previous = rec.previous
  /\ ~ \E i \in 1..Len(index.records) :
         /\ index.records[i].approved /\ index.records[i].root = c.root
         /\ index.records[i].revision \notin {None, c.revision}
         /\ \/ index.records[i].previous = c.revision
            \/ c.revision = None

(***************************************************************************)
(* Whenever kb.corpus.json changes, it becomes an aggregate that has each  *)
(* root of the corpus files exactly once, with a file of that collection   *)
(* which the authority records in force name as current.                   *)
(***************************************************************************)
OutputIsAuthoritative ==
  [][output' # output =>
       /\ DOMAIN output'.entries = Roots
       /\ \A root \in Roots :
            /\ output'.entries[root] \in {corpora[n] : n \in DOMAIN corpora}
            /\ output'.entries[root].root = root
            /\ Authoritative(output'.entries[root])]_vars

\* A reader of kb.corpus.json never meets a part of a file, whenever a write
\* fails or the process is killed.
OutputIsWhole == output # Torn

\* A build that fails leaves the output of the last good build.
FailureKeepsOutput ==
  [][status' = "FAILED" => output' = output]_vars

\* A build over the inputs of the last successful one does not rewrite the
\* output, whatever failed or was killed in between, unless it could not read
\* what it was to compare with.
UnchangedNotRewritten ==
  [][pc = "replace" /\ status' = "OK" /\ built = inputs
       => ~rewritten' \/ unread']_vars

(***************************************************************************)
(* The current revision against a definition of its own: when the approved *)
(* revisions of a root can be put in one row in which each follows the one *)
(* before it and none is followed twice, the last of the row is current;   *)
(* when two of them have no successor, none is.                            *)
(***************************************************************************)
Rows(set) == {row \in [1..Cardinality(set) -> set] :
                \A i, j \in 1..Cardinality(set) : row[i] = row[j] => i = j}

IsLineage(row) ==
  \A i, j \in DOMAIN row :
    (index.records[row[j]].previous = index.records[row[i]].revision)
      <=> j = i + 1

CurrentIsNewest ==
  \A root \in {index.records[i].root : i \in 1..Len(index.records)} :
    LET revisions ==
          {i \in 1..Len(index.records) :
             /\ index.records[i].root = root /\ index.records[i].approved
             /\ index.records[i].revision # None}
        n == Cardinality(revisions)
    IN  \A row \in Rows(revisions) :
          /\ n > 0 /\ IsLineage(row) =>
               Current(root) = {index.records[row[n]]}
          /\ n > 1 /\ (\A i \in 1..n, j \in {1, 2} :
                 row[j] # row[i] => index.records[row[i]].previous
                                      # index.records[row[j]].revision) =>
               Current(root) = {}

(***************************************************************************)
(* MODULE_CONTRACT.md: two files of one root and revision whose digests    *)
(* differ are a conflict, and conflicts fail closed. The code passes over  *)
(* the one that does not match as superseded.                              *)
(***************************************************************************)
ConflictsFailClosed ==
  pc = "replace" =>
    \A n, o \in DOMAIN corpora :
      corpora[n].root = corpora[o].root
        /\ corpora[n].revision = corpora[o].revision
      => corpora[n].sha = corpora[o].sha

=============================================================================
