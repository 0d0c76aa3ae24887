--------------------------- MODULE MCProvenance ---------------------------
(***************************************************************************)
(* An instance of Provenance: three names, two runs, and an authority that *)
(* changes one of its files at any time.                                   *)
(***************************************************************************)
EXTENDS Provenance

MCName == 1..3

MCRecord(root, revision, previous, sha, approved) ==
  [root |-> root, revision |-> revision, previous |-> previous, sha |-> sha,
   approved |-> approved]

MCEntry(root, revision, previous, sha) ==
  [root |-> root, revision |-> revision, previous |-> previous, sha |-> sha]

MCIndex(records) == [wellFormed |-> TRUE, records |-> records]

\* Two roots and a revision of one; the revision with another predecessor, with
\* another digest, twice, not approved; no record of it; not a JSON array.
MCRoot == MCRecord(1, 0, 0, 1, TRUE)

MCIndexes ==
  {MCIndex(<<MCRoot, MCRecord(1, 2, 1, 2, TRUE), MCRecord(2, 0, 0, 4, TRUE)>>),
   MCIndex(<<MCRoot, MCRecord(1, 2, 0, 2, TRUE)>>),
   MCIndex(<<MCRoot, MCRecord(1, 2, 1, 3, TRUE)>>),
   MCIndex(<<MCRecord(1, 2, 1, 2, TRUE), MCRecord(1, 2, 1, 3, TRUE)>>),
   MCIndex(<<MCRoot, MCRecord(1, 2, 1, 2, FALSE)>>),
   [wellFormed |-> FALSE, records |-> <<MCRoot>>]}

MCChains ==
  {<<MCEntry(1, 0, 0, 1), MCEntry(1, 2, 1, 2), MCEntry(2, 0, 0, 4)>>,
   <<MCEntry(1, 0, 0, 1), MCEntry(1, 2, 0, 2)>>,
   <<MCEntry(1, 2, 1, 3)>>,
   <<MCEntry(1, 0, 0, 1), MCEntry(1, 2, 1, 2), MCEntry(1, 2, 0, 2)>>}

MCHeader(revision, sha, approved) ==
  [wellFormed |-> TRUE, root |-> 1, revision |-> revision, previous |-> 0,
   sha |-> sha, approved |-> approved]

MCSource(text, size, h) ==
  [text |-> text, size |-> size, header |-> h]

MCRootSource == MCSource("a", 1, MCHeader(0, 1, TRUE))
MCRevised    == MCSource("b", 1, MCHeader(2, 2, TRUE))
MCRecast     == MCSource("c", 1, MCHeader(2, 3, TRUE))
MCUnknown    == MCSource("d", 1, MCHeader(3, 2, TRUE))

MCOther ==
  MCSource("h", 1, [MCHeader(0, 4, TRUE) EXCEPT !.root = 2])

MCArtifact(filename, text, size) ==
  [wellFormed |-> TRUE, numbered |-> TRUE, filename |-> filename,
   text |-> text, size |-> size]

MCArtifacts(first, second, third) ==
  <<MCArtifact(1, first, 1), MCArtifact(2, second, 1),
    MCArtifact(3, third, 1)>>

\* Three documents in order; a copy of the revision; the revision with another
\* digest; a draft, a document that is not controlled, one not registered,
\* one removed, one that has grown; artifacts that break the contract.
MCLibraries ==
  {[sources |-> <<MCRootSource, MCRevised, MCOther>>,
    artifacts |-> MCArtifacts("a", "b", "h")],
   [sources |-> <<MCRootSource, MCRevised, MCRevised>>,
    artifacts |-> MCArtifacts("a", "b", "b")],
   [sources |-> <<MCRevised, MCRecast, MCUnknown>>,
    artifacts |-> MCArtifacts("b", "c", "d")],
   [sources |-> <<MCRevised, MCRecast, MCRootSource>>,
    artifacts |-> MCArtifacts("b", "c", "a")],
   [sources |-> <<MCSource("e", 1, [wellFormed |-> FALSE]), MCRootSource>>,
    artifacts |-> MCArtifacts("e", "a", "z")],
   [sources |-> <<MCSource("f", 2, MCHeader(0, 1, TRUE))>>,
    artifacts |-> <<MCArtifact(1, "a", 1)>>],
   [sources |-> <<MCRevised, MCSource("g", 1, MCHeader(0, 1, FALSE))>>,
    artifacts |-> <<MCArtifact(1, "b", 1), MCArtifact(2, "g", 1)>>],
   [sources |-> <<MCRevised>>,
    artifacts |-> <<[MCArtifact(1, "b", 1) EXCEPT !.numbered = FALSE],
                    [MCArtifact(2, "z", 1) EXCEPT !.wellFormed = FALSE]>>]}

=============================================================================
