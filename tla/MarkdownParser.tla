-------------------------- MODULE MarkdownParser --------------------------
(***************************************************************************)
(* rb_markdown_parse (modules/markdown/src/markdown.c): one pass over the  *)
(* lines of a document that yields its blocks, each with the heading it    *)
(* stands under.                                                           *)
(*                                                                         *)
(* A line is what the tests of the parser tell of it: its form, the level  *)
(* of a heading, and of a row of fence marks the mark, their number and    *)
(* what follows them. A NUL byte ends a line and, unlike a line end, is    *)
(* not skipped: it is a line of its own that the parser does not leave.    *)
(*                                                                         *)
(* An operator named Slip... is the definition below it with one plausible *)
(* programming error; no action uses it.                                   *)
(***************************************************************************)
EXTENDS Integers, Sequences

CONSTANTS
  Documents,   \* the sources, sequences of lines
  Levels,      \* RB_MARKDOWN_HEADING_LEVELS
  BlockMax     \* RB_MARKDOWN_BLOCK_MAX

Form == {"blank", "nul", "heading", "fence", "quote", "bullet", "number",
         "text"}

Line == [form : Form, level : 0..Levels, mark : {"none", "tick", "tilde"},
         count : Nat, rest : {"nothing", "info", "tick"}]

ASSUME LevelAssumption == Levels \in Nat \ {0} /\ BlockMax \in Nat

ASSUME DocumentAssumption ==
  /\ Documents \subseteq Seq(Line)
  /\ \A d \in Documents : \A i \in 1..Len(d) :
       d[i].form = "heading" => d[i].level # 0

VARIABLES
  source,   \* the document
  at,       \* the line to look at next
  stack,    \* the heading in force at each level
  fence,    \* the code block that is open
  blocks,   \* the blocks found
  result    \* what the parser returned

vars == <<source, at, stack, fence, blocks, result>>

NoParent == 0
NoFence  == [first |-> 0, mark |-> "none", count |-> 0, parent |-> NoParent]

BlockType == {"HEADING", "PARAGRAPH", "UNORDERED_LIST_ITEM",
              "ORDERED_LIST_ITEM", "FENCED_CODE_BLOCK", "BLOCKQUOTE"}

Block == [type : BlockType, level : 0..Levels, parent : Nat,
          first : Nat, last : Nat]

Init ==
  /\ source \in Documents
  /\ at = 1
  /\ stack = [l \in 1..Levels |-> NoParent]
  /\ fence = NoFence
  /\ blocks = << >>
  /\ result = "none"

-----------------------------------------------------------------------------
(***************************************************************************)
(* What the parser asks of a line, and the heading stack.                  *)
(***************************************************************************)

\* Three marks or more; no back tick after back ticks.
Opens(line) ==
  /\ line.form = "fence" /\ line.count >= 3
  /\ ~ (line.mark = "tick" /\ line.rest = "tick")

\* Slip: any three marks close the block.
SlipCloses(line) ==
  /\ line.form = "fence" /\ line.mark = fence.mark
  /\ line.count >= 3 /\ line.rest = "nothing"

Closes(line) ==
  /\ line.form = "fence" /\ line.mark = fence.mark
  /\ line.count >= fence.count /\ line.rest = "nothing"

\* Slip: the highest heading in force is taken.
SlipHeadingUpTo(level) ==
  LET inForce == {l \in 1..level : stack[l] # NoParent} IN
  IF inForce = {} THEN NoParent
  ELSE stack[CHOOSE l \in inForce : \A k \in inForce : k >= l]

\* The heading in force at the deepest of the first levels.
HeadingUpTo(level) ==
  LET inForce == {l \in 1..level : stack[l] # NoParent} IN
  IF inForce = {} THEN NoParent
  ELSE stack[CHOOSE l \in inForce : \A k \in inForce : k <= l]

CurrentHeading          == HeadingUpTo(Levels)
ParentForHeading(level) == HeadingUpTo(level - 1)

\* Slip: the deeper headings stay in force.
SlipUpdatedStack(level, index) == [stack EXCEPT ![level] = index]

UpdatedStack(level, index) ==
  [l \in 1..Levels |-> IF l < level THEN stack[l]
                       ELSE IF l = level THEN index ELSE NoParent]

\* Slip: an empty line is not passed either.
SlipAfter(line) == IF line.form \in {"nul", "blank"} THEN at ELSE at + 1

\* rb_markdown_skip_line_end does not pass a NUL.
After(line) == IF line.form = "nul" THEN at ELSE at + 1

TypeOf(line) ==
  CASE line.form = "quote"  -> "BLOCKQUOTE"
    [] line.form = "bullet" -> "UNORDERED_LIST_ITEM"
    [] line.form = "number" -> "ORDERED_LIST_ITEM"
    [] OTHER -> "PARAGRAPH"

-----------------------------------------------------------------------------
(***************************************************************************)
(* The steps of the pass.                                                  *)
(***************************************************************************)

Reading == result = "none" /\ at <= Len(source)
Outside == Reading /\ fence = NoFence
Inside  == Reading /\ fence # NoFence

\* Slip: the fence that opens a code block is not part of it.
SlipBlockOf(type, level, parent, first) ==
  [type |-> type, level |-> level, parent |-> parent,
   first |-> IF first < at THEN first + 1 ELSE at, last |-> at]

BlockOf(type, level, parent, first) ==
  [type |-> type, level |-> level, parent |-> parent,
   first |-> first, last |-> at]

\* rb_markdown_add_block, and the step to the next line.
AddBlock(block) ==
  /\ Len(blocks) < BlockMax
  /\ blocks' = Append(blocks, block)
  /\ at' = After(source[at])
  /\ UNCHANGED <<source, result>>

SkipBlank ==
  /\ Outside /\ source[at].form \in {"blank", "nul"}
  /\ at' = After(source[at])
  /\ UNCHANGED <<source, stack, fence, blocks, result>>

OpenFence ==
  /\ Outside /\ Opens(source[at])
  /\ fence' = [first |-> at, mark |-> source[at].mark,
               count |-> source[at].count, parent |-> CurrentHeading]
  /\ at' = After(source[at])
  /\ UNCHANGED <<source, stack, blocks, result>>

SkipCode ==
  /\ Inside /\ ~Closes(source[at])
  /\ at' = After(source[at])
  /\ UNCHANGED <<source, stack, fence, blocks, result>>

CloseFence ==
  /\ Inside /\ Closes(source[at])
  /\ AddBlock(BlockOf("FENCED_CODE_BLOCK", 0, fence.parent, fence.first))
  /\ fence' = NoFence
  /\ UNCHANGED stack

AddHeading ==
  /\ Outside /\ source[at].form = "heading"
  /\ LET level == source[at].level IN
     /\ AddBlock(BlockOf("HEADING", level, ParentForHeading(level), at))
     /\ stack' = UpdatedStack(level, Len(blocks) + 1)
  /\ UNCHANGED fence

Plain(line) ==
  line.form \notin {"blank", "nul", "heading"} /\ ~Opens(line)

AddPlain ==
  /\ Outside /\ Plain(source[at])
  /\ AddBlock(BlockOf(TypeOf(source[at]), 0, CurrentHeading, at))
  /\ UNCHANGED <<stack, fence>>

Return(res) ==
  /\ result' = res
  /\ UNCHANGED <<source, at, stack, fence, blocks>>

\* The pass stops at the block for which there is no room.
TooManyBlocks ==
  /\ Len(blocks) >= BlockMax
  /\ \/ Inside /\ Closes(source[at])
     \/ Outside /\ (source[at].form = "heading" \/ Plain(source[at]))
  /\ Return("TOO_MANY_BLOCKS")

AtEnd == result = "none" /\ at > Len(source)

\* The end of the document: a code block is still open, or not.
Unclosed == AtEnd /\ fence # NoFence /\ Return("INVALID_FORMAT")

Finish ==
  /\ AtEnd /\ fence = NoFence
  /\ Return(IF blocks = << >> THEN "EMPTY_INPUT" ELSE "OK")

Next ==
  \/ SkipBlank \/ OpenFence \/ SkipCode \/ CloseFence
  \/ AddHeading \/ AddPlain \/ TooManyBlocks
  \/ Unclosed \/ Finish

\* A loop in one thread: it takes its next step as long as there is one.
Spec == Init /\ [][Next]_vars /\ WF_vars(Next)

-----------------------------------------------------------------------------
(***************************************************************************)
(* Properties.                                                             *)
(***************************************************************************)

\* Type invariant of the parser.
TypeOK ==
  /\ source \in Seq(Line)
  /\ at \in 1..(Len(source) + 1)
  /\ stack \in [1..Levels -> 0..Len(blocks)]
  /\ fence \in [first : 0..Len(source), mark : {"none", "tick", "tilde"},
                count : Nat, parent : 0..Len(blocks)]
  /\ blocks \in Seq(Block) /\ Len(blocks) <= BlockMax
  /\ result \in {"none", "OK", "EMPTY_INPUT", "TOO_MANY_BLOCKS",
                 "INVALID_FORMAT"}

Headings == {i \in 1..Len(blocks) : blocks[i].type = "HEADING"}

(***************************************************************************)
(* Each block stands under the nearest heading before it: a heading under  *)
(* the nearest one of a smaller level, any other block under the nearest   *)
(* one of all. Headings that skip levels or climb back do not matter.      *)
(***************************************************************************)
Above(i) ==
  {h \in Headings : h < i /\ (i \in Headings =>
                                blocks[h].level < blocks[i].level)}

ParentIsEnclosing ==
  \A i \in 1..Len(blocks) :
    \/ Above(i) = {} /\ blocks[i].parent = NoParent
    \/ /\ blocks[i].parent \in Above(i)
       /\ \A h \in Above(i) : h <= blocks[i].parent

\* The lines of a block, and those a code block in the making has so far.
LinesOf(i) == blocks[i].first .. blocks[i].last
Pending    == IF fence = NoFence THEN {} ELSE fence.first .. at - 1

(***************************************************************************)
(* Nothing is lost and nothing is taken twice: the blocks follow each      *)
(* other in the source without overlap, and each line that is passed and   *)
(* not blank is a line of a block. A document that is accepted has been    *)
(* read to its end, and no code block was open there.                      *)
(***************************************************************************)
LinesAccounted ==
  /\ \A i, j \in 1..Len(blocks) : i < j => blocks[i].last < blocks[j].first
  /\ \A i \in 1..Len(blocks) : \A n \in LinesOf(i) : n \notin Pending
  /\ \A n \in 1..(at - 1) :
       \/ source[n].form \in {"blank", "nul"}
       \/ n \in Pending
       \/ \E i \in 1..Len(blocks) : n \in LinesOf(i)
  /\ result \in {"OK", "EMPTY_INPUT"} =>
       /\ at = Len(source) + 1 /\ fence = NoFence
       /\ (result = "OK") = (\E n \in 1..Len(source) : source[n].form # "blank")

\* A code block runs from its fence to the first line of at least as many of
\* the same marks and nothing else; all other blocks are single lines.
CodeIsVerbatim ==
  \A i \in 1..Len(blocks) :
    IF blocks[i].type = "FENCED_CODE_BLOCK"
    THEN LET open == source[blocks[i].first]
             Ends(n) == /\ source[n].form = "fence"
                        /\ source[n].mark = open.mark
                        /\ source[n].count >= open.count
                        /\ source[n].rest = "nothing"
         IN  /\ blocks[i].first < blocks[i].last
             /\ \A n \in (blocks[i].first + 1)..blocks[i].last :
                  Ends(n) <=> n = blocks[i].last
    ELSE blocks[i].first = blocks[i].last

(***************************************************************************)
(* POLICY.md: malformed input is rejected. A document with a NUL byte is   *)
(* not text; the parser neither accepts nor rejects it.                    *)
(***************************************************************************)
MalformedIsRejected ==
  (\E n \in 1..Len(source) : source[n].form = "nul") ~> (result # "none")

=============================================================================
