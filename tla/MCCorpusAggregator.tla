--------------------- MODULE MCCorpusAggregator ---------------------
(***************************************************************************)
(* An instance of CorpusAggregator: authority records and corpus           *)
(* collections that change between three builds.                           *)
(***************************************************************************)
EXTENDS CorpusAggregator

MCRecord(root, revision, previous, sha, approved) ==
  [root |-> root, revision |-> revision, previous |-> previous,
   sha |-> sha, approved |-> approved]

MCEntry(root, revision, previous, sha) ==
  [root |-> root, revision |-> revision, previous |-> previous, sha |-> sha]

MCIndex(records) == [wellFormed |-> TRUE, records |-> records]

MCOriginal == MCRecord(1, 0, 0, 1, TRUE)
MCRevision == MCRecord(1, 1, 0, 2, TRUE)
MCOther    == MCRecord(2, 0, 0, 3, TRUE)

MCSecond == MCRecord(1, 2, 1, 1, TRUE)

\* Lineages of up to three revisions in one order and another: a chain, a
\* fork, a gap, a circle, a record that follows itself, one not approved.
MCLineages ==
  {MCIndex(<<MCRecord(1, 3, 2, 2, TRUE), MCRevision, MCSecond>>),
   MCIndex(<<MCSecond, MCOriginal, MCRevision>>),
   MCIndex(<<MCRevision, MCRecord(1, 2, 1, 1, FALSE), MCOriginal>>),
   MCIndex(<<MCSecond, MCRevision, MCRecord(1, 3, 1, 2, TRUE)>>),
   MCIndex(<<MCRecord(1, 1, 2, 2, TRUE), MCSecond>>),
   MCIndex(<<MCRecord(1, 1, 1, 2, TRUE)>>)}

\* Before and after a revision, with its approval pending, without the other
\* root, with a tie between two revisions, empty and malformed.
MCIndexes ==
  MCLineages \cup
  {MCIndex(<<MCOriginal, MCOther>>),
   MCIndex(<<MCOriginal, MCRevision, MCOther>>),
   MCIndex(<<MCOriginal, MCRecord(1, 1, 0, 2, FALSE), MCOther>>),
   MCIndex(<<MCOriginal>>),
   MCIndex(<<MCRevision, MCRecord(1, 2, 0, 1, TRUE)>>),
   MCIndex(<< >>),
   [wellFormed |-> FALSE, records |-> <<MCOriginal>>]}

\* Everything registered, and a registration of another digest.
MCChains ==
  {{MCEntry(1, 0, 0, 1), MCEntry(1, 1, 0, 2), MCEntry(2, 0, 0, 3)},
   {MCEntry(1, 0, 0, 1), MCEntry(1, 1, 0, 1), MCEntry(2, 0, 0, 3)}}

MCCorpus(root, revision, sha, text) ==
  [wellFormed |-> TRUE, root |-> root, revision |-> revision, sha |-> sha,
   text |-> text]

MCOld == MCCorpus(1, 0, 1, "a")
MCNew == MCCorpus(1, 1, 2, "b")

\* Old and new revision, a duplicate with another text, a conflicting digest,
\* one root missing, a malformed file, and no file at all.
MCCollections ==
  {<<MCOld, MCCorpus(2, 0, 3, "c")>>,
   <<MCOld, MCNew, MCCorpus(2, 0, 3, "c")>>,
   <<MCNew, MCCorpus(1, 1, 2, "d")>>,
   <<MCOld, MCCorpus(1, 0, 2, "e")>>,
   <<[MCOld EXCEPT !.wellFormed = FALSE]>>,
   <<MCOld, MCNew, MCOld, MCNew>>,
   << >>}

=============================================================================
