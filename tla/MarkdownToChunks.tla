-------------------------- MODULE MarkdownToChunks --------------------------
(***************************************************************************)
(* RB-MARKDOWN and RB-CHUNKER one after the other on one document: the     *)
(* parser's blocks go through the structured artifact to the chunker, and  *)
(* its chunks to the chunk artifact. The two modules agree on nothing but  *)
(* that artifact (rb_markdown_execute, rb_markdown_write_artifact,         *)
(* rb_chunker_execute). The chunker also takes an artifact that it finds   *)
(* in the directory, whatever has written it.                              *)
(***************************************************************************)
EXTENDS MarkdownParser, FiniteSets

CONSTANTS
  Inputs, MaxCombined, PathMax   \* as in Chunker

VARIABLES
  document, pc, pos, current, chunks, artifact, status   \* Chunker

chunkerVars  == <<document, pc, pos, current, chunks, artifact, status>>
documentVars == <<source, at, stack, fence, blocks, result, document, pc, pos,
                  current, chunks, artifact, status>>

C == INSTANCE Chunker

ASSUME ChunkerAssumption == C!LimitAssumption /\ C!InputAssumption

\* There is room for a heading of each level: 16 places, and 6 levels.
ASSUME RoomAssumption == Levels <= PathMax

\* The chunker waits for an artifact of the parser, or has found one.
DocumentInit ==
  \/ /\ Init
     /\ document = << >> /\ pc = "wait" /\ pos = 1
     /\ current = C!EmptyChunk /\ chunks = << >>
     /\ artifact = C!NoArtifact /\ status = "none"
  \/ /\ source = << >> /\ at = 1
     /\ stack = [l \in 1..Levels |-> NoParent] /\ fence = NoFence
     /\ blocks = << >> /\ result = "none"
     /\ C!Init

-----------------------------------------------------------------------------

Parse == pc = "wait" /\ Next /\ UNCHANGED chunkerVars

\* The text of a code block is the lines between its fences; the text of any
\* other block is counted as one.
TextSize(block) ==
  IF block.type = "FENCED_CODE_BLOCK" THEN block.last - block.first - 1
  ELSE 1

\* Slip: the number of the parent is written as it is in memory, from zero.
SlipStructured ==
  [i \in 1..Len(blocks) |->
     [type |-> blocks[i].type, level |-> blocks[i].level,
      parent |-> IF blocks[i].parent = NoParent THEN NoParent
                 ELSE blocks[i].parent - 1,
      size |-> TextSize(blocks[i]), wellFormed |-> TRUE]]

\* rb_markdown_write_artifact numbers the blocks from one.
Structured ==
  [i \in 1..Len(blocks) |->
     [type |-> blocks[i].type, level |-> blocks[i].level,
      parent |-> blocks[i].parent, size |-> TextSize(blocks[i]),
      wellFormed |-> TRUE]]

WriteStructured ==
  /\ pc = "wait" /\ result = "OK"
  /\ document' = Structured
  /\ pc' = "read"
  /\ UNCHANGED <<vars, pos, current, chunks, artifact, status>>

\* The first stage failed, in the parse or while it wrote: the run ends.
StageFails ==
  /\ pc = "wait" /\ result # "none"
  /\ pc' = "done" /\ status' = "FAILED"
  /\ UNCHANGED <<vars, document, pos, current, chunks, artifact>>

Chunk == pc # "wait" /\ C!Next /\ UNCHANGED vars

DocumentNext == Parse \/ WriteStructured \/ StageFails \/ Chunk

\* Two stages of one thread; each one returns.
DocumentSpec ==
  DocumentInit /\ [][DocumentNext]_documentVars
    /\ WF_documentVars(Parse \/ WriteStructured \/ StageFails)
    /\ WF_documentVars(pc # "wait" /\ C!Step /\ UNCHANGED vars)

-----------------------------------------------------------------------------
(***************************************************************************)
(* Properties: those of the parser are in MarkdownParser, and those of the *)
(* chunker, stated in Chunker, hold of what the parser gives it as well.   *)
(***************************************************************************)

\* The blocks of the chunks are those of the document, in order, once each.
NothingLost == C!NothingLost

\* A chunk stays under one heading, and code and quotations on their own.
ChunksAreCoherent == C!ChunksAreCoherent

\* A chunk keeps the limit, and no two neighbours could have been one.
ChunksAreTight == C!ChunksAreTight

\* What the parser accepts keeps the contract that the chunker checks.
ParserOutputIsAccepted == result = "OK" /\ pc = "read" => C!Valid

\* The headings of the document in force at block i: those before it that no
\* later one of the same or a smaller level has ended.
InForce(i) ==
  {h \in Headings :
     /\ h < i
     /\ \A k \in Headings : h < k /\ k < i =>
          blocks[k].level > blocks[h].level}

(***************************************************************************)
(* The heading path of a chunk, which a retrieval will show with its text, *)
(* is the outline of the document at that place, from the outside in, and  *)
(* it fits in the room the chunker has for it.                             *)
(***************************************************************************)
HeadingPathIsOutline ==
  result = "OK" =>
    \A c \in 1..Len(artifact.chunks) :
      LET path == artifact.chunks[c].path IN
      /\ {path[k] : k \in 1..Len(path)} =
           InForce(artifact.chunks[c].blocks[1])
      /\ \A k, l \in 1..Len(path) : k < l => path[k] < path[l]

\* The lines of the source that the chunks have.
LinesOfChunk(c) ==
  UNION {blocks[artifact.chunks[c].blocks[k]].first ..
           blocks[artifact.chunks[c].blocks[k]].last :
           k \in 1..Len(artifact.chunks[c].blocks)}

\* A line of prose or code is in exactly one chunk of the artifact; what is
\* in none is blank or the line of a heading block.
SourceIsCovered ==
  artifact.state = "whole" =>
    \A n \in 1..Len(source) :
      LET having == {c \in 1..Len(artifact.chunks) : n \in LinesOfChunk(c)}
      IN  \/ Cardinality(having) = 1
          \/ /\ having = {}
             /\ \/ source[n].form = "blank"
                \/ \E h \in Headings : blocks[h].first = n

\* A document runs through both stages, or the run fails or is killed.
EveryDocumentEnds == <>(pc = "done")

=============================================================================
