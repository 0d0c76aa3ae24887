------------------------------ MODULE Chunker ------------------------------
(***************************************************************************)
(* RB-CHUNKER on one document (modules/chunker/src/chunker.c): the         *)
(* structured artifact is read and checked, its blocks are gathered into   *)
(* chunks in one pass, and the chunk artifact is written in place. The     *)
(* process can be killed at any time, and memory can run out.              *)
(*                                                                         *)
(* A block is its type, the level of a heading, its parent heading and the *)
(* size of its text; wellFormed says whether the rest of its object keeps  *)
(* the contract. A chunk is the numbers of its blocks, their parent and    *)
(* the size of the joined text.                                            *)
(*                                                                         *)
(* An operator named Slip... is the definition below it with one plausible *)
(* programming error; no action uses it.                                   *)
(***************************************************************************)
EXTENDS Integers, Sequences

CONSTANTS
  Inputs,       \* the structured artifacts, sequences of blocks
  Levels,       \* the deepest heading level of the contract
  MaxCombined,  \* RB_CHUNKER_MAX_COMBINED_BYTES
  PathMax       \* the room for a heading path

LimitAssumption ==
  Levels \in Nat \ {0} /\ MaxCombined \in Nat /\ PathMax \in Nat \ {0}

BlockType == {"HEADING", "PARAGRAPH", "UNORDERED_LIST_ITEM",
              "ORDERED_LIST_ITEM", "FENCED_CODE_BLOCK", "BLOCKQUOTE"}

SourceBlock == [type : BlockType, level : Nat, parent : Nat, size : Nat,
                wellFormed : BOOLEAN]

InputAssumption == Inputs \subseteq Seq(SourceBlock)

VARIABLES
  document,  \* the blocks of the structured artifact
  pc,        \* where the module is with it
  pos,       \* the block to look at next
  current,   \* the chunk that is being gathered
  chunks,    \* the chunks committed
  artifact,  \* the chunk artifact on disk
  status     \* how it ended

vars == <<document, pc, pos, current, chunks, artifact, status>>

NoParent == 0

EmptyChunk == [blocks |-> << >>, parent |-> NoParent, size |-> 0]

NoArtifact   == [state |-> "missing", chunks |-> << >>]
TornArtifact == [state |-> "torn", chunks |-> << >>]

Init ==
  /\ document \in Inputs
  /\ pc = "read"
  /\ pos = 1
  /\ current = EmptyChunk
  /\ chunks = << >>
  /\ artifact = NoArtifact
  /\ status = "none"

-----------------------------------------------------------------------------
(***************************************************************************)
(* The contract, and the arithmetic of chunks.                             *)
(***************************************************************************)

\* rb_chunker_parse_document, rb_chunker_validate_source_document
Valid ==
  /\ document # << >>
  /\ \A i \in 1..Len(document) :
       /\ document[i].wellFormed
       /\ document[i].level \in (IF document[i].type = "HEADING"
                                 THEN 1..Levels ELSE {0})
       /\ document[i].parent # NoParent =>
            /\ document[i].parent < i
            /\ document[document[i].parent].type = "HEADING"

IsList(i) == document[i].type \in {"UNORDERED_LIST_ITEM",
                                   "ORDERED_LIST_ITEM"}

\* A line end between list items, an empty line between other blocks.
Separator(i, j) == IF IsList(i) /\ IsList(j) THEN 1 ELSE 2

\* Slip: code may share a chunk.
SlipIsAtomic(i) == document[i].type = "BLOCKQUOTE"

IsAtomic(i) == document[i].type \in {"FENCED_CODE_BLOCK", "BLOCKQUOTE"}

Committed(chunk) ==
  IF chunk.blocks = << >> THEN chunks ELSE Append(chunks, chunk)

ChunkOf(i) ==
  [blocks |-> <<i>>, parent |-> document[i].parent,
   size |-> document[i].size]

SameParent(i) == document[i].parent = current.parent

\* Slip: the separator is not counted.
SlipProposed(i) == current.size + document[i].size

Proposed(i) ==
  current.size + Separator(current.blocks[Len(current.blocks)], i)
               + document[i].size

\* A chunk that is too large is never joined with a further block.
Joins(i) == SameParent(i) /\ Proposed(i) <= MaxCombined

\* The headings above heading h, outermost first, and h.
Lineage ==
  LET above[h \in 0..Len(document)] ==
        IF h = NoParent THEN << >>
        ELSE Append(above[document[h].parent], h)
  IN  above

\* Slip: the innermost heading is left out.
SlipHeadingPath(h) ==
  IF h = NoParent THEN << >> ELSE Lineage[document[h].parent]

\* rb_chunker_write_heading_path climbs from h until its room is used up.
HeadingPath(h) ==
  LET whole == Lineage[h]
      lost  == IF Len(whole) > PathMax THEN Len(whole) - PathMax ELSE 0
  IN  SubSeq(whole, lost + 1, Len(whole))

-----------------------------------------------------------------------------
(***************************************************************************)
(* The steps.                                                              *)
(***************************************************************************)

\* The document is given up: what was gathered is released.
Stop(how) ==
  /\ pc' = "done" /\ status' = how
  /\ current' = EmptyChunk /\ chunks' = << >>
  /\ UNCHANGED <<document, pos>>

\* The artifact cannot be read, or does not keep the contract.
Reject ==
  /\ pc = "read"
  /\ Stop("FAILED") /\ UNCHANGED artifact

Accept ==
  /\ pc = "read" /\ Valid
  /\ pc' = "build"
  /\ UNCHANGED <<document, pos, current, chunks, artifact, status>>

Building == pc = "build" /\ pos <= Len(document)

Advance == pos' = pos + 1 /\ UNCHANGED <<document, pc, artifact, status>>

Heading == document[pos].type = "HEADING"

TakeHeading ==
  /\ Building /\ Heading
  /\ chunks' = Committed(current) /\ current' = EmptyChunk
  /\ Advance

TakeAtomic ==
  /\ Building /\ IsAtomic(pos)
  /\ chunks' = Append(Committed(current), ChunkOf(pos))
  /\ current' = EmptyChunk
  /\ Advance

Ordinary == Building /\ ~Heading /\ ~IsAtomic(pos)

StartChunk ==
  /\ Ordinary /\ current.blocks = << >>
  /\ current' = ChunkOf(pos)
  /\ UNCHANGED chunks
  /\ Advance

ExtendChunk ==
  /\ Ordinary /\ current.blocks # << >> /\ Joins(pos)
  /\ current' = [blocks |-> Append(current.blocks, pos),
                 parent |-> current.parent, size |-> Proposed(pos)]
  /\ UNCHANGED chunks
  /\ Advance

SplitChunk ==
  /\ Ordinary /\ current.blocks # << >> /\ ~Joins(pos)
  /\ chunks' = Committed(current) /\ current' = ChunkOf(pos)
  /\ Advance

\* Slip: the last chunk is not committed.
SlipFinish ==
  /\ pc = "build" /\ pos > Len(document)
  /\ pc' = "write" /\ current' = EmptyChunk
  /\ UNCHANGED <<document, pos, chunks, artifact, status>>

Finish ==
  /\ pc = "build" /\ pos > Len(document)
  /\ chunks' = Committed(current) /\ current' = EmptyChunk
  /\ pc' = "write"
  /\ UNCHANGED <<document, pos, artifact, status>>

OutOfMemory ==
  /\ pc = "build"
  /\ Stop("FAILED") /\ UNCHANGED artifact

Written ==
  [state |-> "whole",
   chunks |-> [i \in 1..Len(chunks) |->
                 [blocks |-> chunks[i].blocks, parent |-> chunks[i].parent,
                  path |-> HeadingPath(chunks[i].parent)]]]

\* The artifact is written where it is; a document without a chunk gives an
\* artifact without one.
Write ==
  /\ pc = "write"
  /\ artifact' = Written
  /\ Stop("OK")

WriteFails ==
  /\ pc = "write"
  /\ artifact' \in {artifact, TornArtifact}
  /\ Stop("FAILED")

Crash ==
  /\ pc # "done"
  /\ \/ UNCHANGED artifact
     \/ pc = "write" /\ artifact' = TornArtifact
  /\ Stop("killed")

Step ==
  \/ Reject \/ Accept
  \/ TakeHeading \/ TakeAtomic \/ StartChunk \/ ExtendChunk \/ SplitChunk
  \/ Finish \/ OutOfMemory \/ Write \/ WriteFails

Next == Step \/ Crash

Spec == Init /\ [][Next]_vars /\ WF_vars(Step)

-----------------------------------------------------------------------------
(***************************************************************************)
(* Properties.                                                             *)
(***************************************************************************)

Chunk == [blocks : Seq(Nat \ {0}), parent : Nat, size : Nat]

\* Type invariant of the chunker.
TypeOK ==
  /\ document \in Seq(SourceBlock)
  /\ pc \in {"read", "build", "write", "done"}
  /\ pos \in 1..(Len(document) + 1)
  /\ current \in Chunk
  /\ chunks \in Seq(Chunk)
  /\ artifact.state \in {"missing", "torn", "whole"}
  /\ status \in {"none", "OK", "FAILED", "killed"}

\* The chunks so far, the one in the making included.
Gathered == Committed(current)

Places == {p \in (1..Len(Gathered)) \X (1..Len(document)) :
             p[2] <= Len(Gathered[p[1]].blocks)}

BlockAt(p) == Gathered[p[1]].blocks[p[2]]

Before(p, q) == p[1] < q[1] \/ (p[1] = q[1] /\ p[2] < q[2])

(***************************************************************************)
(* Nothing is lost, repeated or moved: the blocks of the chunks, one chunk *)
(* after the other, are the blocks of the document that are no headings,   *)
(* in the order of the document; and each chunk is one stretch of it.      *)
(***************************************************************************)
NothingLost ==
  pc \in {"build", "write"} =>
    /\ {BlockAt(p) : p \in Places} =
         {i \in 1..(pos - 1) : document[i].type # "HEADING"}
    /\ \A p, q \in Places : Before(p, q) => BlockAt(p) < BlockAt(q)
    /\ \A p, q \in Places :
         p[1] = q[1] /\ q[2] = p[2] + 1 => BlockAt(q) = BlockAt(p) + 1

StandsAlone(i) == document[i].type \in {"FENCED_CODE_BLOCK", "BLOCKQUOTE"}

\* All blocks of a chunk stand under the heading the chunk names; code and
\* quotations have a chunk of their own; and no chunk is empty.
ChunksAreCoherent ==
  \A c \in 1..Len(Gathered) :
    LET blocks == Gathered[c].blocks IN
    /\ blocks # << >>
    /\ \A k \in 1..Len(blocks) :
         /\ document[blocks[k]].parent = Gathered[c].parent
         /\ StandsAlone(blocks[k]) => Len(blocks) = 1

\* The bytes of the joined text of blocks first to last.
TextOf(first, last) ==
  LET size[i \in first..last] ==
        IF i = first THEN document[i].size
        ELSE size[i - 1] + (IF IsList(i - 1) /\ IsList(i) THEN 1 ELSE 2)
                         + document[i].size
  IN  size[last]

(***************************************************************************)
(* A chunk of more than one block is within the limit, its size being that *)
(* of its text; and no two neighbours could have been one: the next block  *)
(* is under another heading, on its own, or too large.                     *)
(***************************************************************************)
ChunksAreTight ==
  \A c \in 1..Len(Gathered) :
    LET blocks == Gathered[c].blocks
        last   == blocks[Len(blocks)]
    IN  /\ Gathered[c].size = TextOf(blocks[1], last)
        /\ Len(blocks) > 1 => Gathered[c].size <= MaxCombined
        /\ c < Len(Gathered) =>
             LET next == Gathered[c + 1].blocks[1] IN
             \/ next # last + 1
             \/ document[next].parent # document[last].parent
             \/ StandsAlone(last) \/ StandsAlone(next)
             \/ TextOf(blocks[1], next) > MaxCombined

=============================================================================
