---------------------- MODULE MarkdownToChunks_proofs ----------------------
(***************************************************************************)
(* Proofs about MarkdownParser by itself, and about MarkdownToChunks, in   *)
(* which the chunker takes what the parser has found: for every set of     *)
(* documents and of artifacts, any number of heading levels and any limits *)
(* on the blocks and on the size of a chunk. The invariants are layers,    *)
(* each inductive given those before it: Typed, Stacked, Accounted and     *)
(* Leveled of the parser, Passing and Gathering of the two together.       *)
(***************************************************************************)
EXTENDS MarkdownToChunks, LeastNumber, SequenceTheorems, FiniteSetTheorems,
        TLAPS

-----------------------------------------------------------------------------
(***************************************************************************)
(* Types. An open code block is one of the lines passed.                   *)
(***************************************************************************)

Fence == [first : Nat, mark : {"none", "tick", "tilde"},
          count : Nat, parent : Nat]

Typed ==
  /\ TypeOK
  /\ source \in Documents
  /\ fence # NoFence => fence.first \in 1..(at - 1)

LEMMA LineType ==
  ASSUME Typed, Reading
  PROVE  /\ at \in 1..Len(source) /\ Len(source) \in Nat
         /\ source[at] \in Line
BY ElementOfSeq DEF Typed, TypeOK, Reading

\* The stack keeps its type when there are more blocks.
LEMMA StackGrows ==
  ASSUME Typed, NEW n \in Nat, Len(blocks) <= n
  PROVE  /\ stack \in [1..Levels -> 0..n]
         /\ fence \in [first : 0..Len(source),
                       mark : {"none", "tick", "tilde"},
                       count : Nat, parent : 0..n]
<1>1. Len(blocks) \in Nat
  BY DEF Typed, TypeOK
<1>2. 0..Len(blocks) \subseteq 0..n
  BY <1>1
<1> QED BY <1>2 DEF Typed, TypeOK

\* The deepest heading in force, if there is one.
LEMMA HeadingChoice ==
  ASSUME Typed, NEW level \in 0..Levels,
         {l \in 1..level : stack[l] # NoParent} # {}
  PROVE  \E c \in 1..level :
           /\ HeadingUpTo(level) = stack[c] /\ stack[c] # NoParent
           /\ \A k \in 1..level : stack[k] # NoParent => k <= c
<1> DEFINE inForce == {l \in 1..level : stack[l] # NoParent}
           T == {level - l : l \in inForce}
<1>0. level \in Nat
  BY LevelAssumption
<1>1. T \in SUBSET Nat /\ T # {}
  BY <1>0
<1> HIDE DEF T
<1>2. PICK d \in T : \A e \in T : d <= e
  BY <1>1, LeastOfSet
<1>3. PICK c \in inForce : d = level - c
  BY DEF T
<1>4. \A k \in inForce : k <= c
  <2> SUFFICES ASSUME NEW k \in inForce PROVE k <= c
    OBVIOUS
  <2>1. level - k \in T
    BY DEF T
  <2>2. level - c <= level - k
    BY <1>2, <1>3, <2>1
  <2> QED BY <1>0, <2>2
<1> DEFINE chosen == CHOOSE l \in inForce : \A k \in inForce : k <= l
<1>5. chosen \in inForce /\ \A k \in inForce : k <= chosen
  BY <1>3, <1>4
<1>6. HeadingUpTo(level) = stack[chosen]
  BY DEF HeadingUpTo
<1> HIDE DEF chosen
<1> QED BY <1>5, <1>6

LEMMA HeadingType ==
  ASSUME Typed, NEW level \in 0..Levels
  PROVE  HeadingUpTo(level) \in 0..Len(blocks)
<1>1. CASE {l \in 1..level : stack[l] # NoParent} = {}
  BY <1>1 DEF HeadingUpTo, NoParent, Typed, TypeOK
<1>2. CASE {l \in 1..level : stack[l] # NoParent} # {}
  <2>1. PICK c \in 1..level : HeadingUpTo(level) = stack[c]
    BY <1>2, HeadingChoice
  <2>2. c \in 1..Levels
    BY LevelAssumption
  <2> QED BY <2>1, <2>2 DEF Typed, TypeOK
<1> QED BY <1>1, <1>2

\* A block more, of the type a block has.
LEMMA AddBlockType ==
  ASSUME Typed, Reading, source[at].form \notin {"blank", "nul"},
         NEW type \in BlockType, NEW level \in 0..Levels,
         NEW parent \in 0..Len(blocks), NEW first \in 1..at,
         AddBlock(BlockOf(type, level, parent, first))
  PROVE  /\ blocks' \in Seq(Block) /\ Len(blocks') <= BlockMax
         /\ Len(blocks') = Len(blocks) + 1 /\ Len(blocks) \in Nat
         /\ at' = at + 1 /\ at' \in 1..(Len(source) + 1)
         /\ source' = source /\ result' = result
<1> DEFINE b == BlockOf(type, level, parent, first)
<1>1. /\ at \in 1..Len(source) /\ Len(source) \in Nat
      /\ blocks \in Seq(Block) /\ Len(blocks) \in Nat
  BY LineType DEF Typed, TypeOK
<1>2. b \in Block
  BY <1>1 DEF BlockOf, Block
<1> HIDE DEF b
<1>3. blocks' = Append(blocks, b) /\ Len(blocks) < BlockMax
      /\ at' = at + 1 /\ source' = source /\ result' = result
  BY DEF AddBlock, After, b
<1>4. blocks' \in Seq(Block) /\ Len(blocks') = Len(blocks) + 1
  BY <1>1, <1>2, <1>3
<1> QED BY <1>1, <1>3, <1>4, LevelAssumption

LEMMA TypedStep ==
  ASSUME Typed, [Next]_vars
  PROVE  Typed'
<1>0. /\ Len(blocks) \in Nat /\ Levels \in Nat /\ BlockMax \in Nat
      /\ Len(source) \in Nat /\ source \in Seq(Line)
  BY LevelAssumption DEF Typed, TypeOK
<1>1. CASE UNCHANGED vars
  BY <1>1 DEF vars, Typed, TypeOK
<1>2. CASE SkipBlank \/ SkipCode
  <2>1. at' \in {at, at + 1} /\ at \in 1..Len(source)
    BY <1>2, LineType DEF SkipBlank, SkipCode, Outside, Inside, After
  <2>2. at' \in 1..(Len(source) + 1) /\ at <= at'
    BY <1>0, <2>1
  <2>3. UNCHANGED <<source, stack, fence, blocks, result>>
    BY <1>2 DEF SkipBlank, SkipCode
  <2>4. fence # NoFence => fence.first \in 1..(at' - 1)
    BY <2>1, <2>2 DEF Typed
  <2> QED BY <2>2, <2>3, <2>4 DEF Typed, TypeOK
<1>3. CASE OpenFence
  <2>1. at \in 1..Len(source) /\ source[at] \in Line
        /\ source[at].form = "fence"
    BY <1>3, LineType DEF OpenFence, Outside, Opens
  <2>2. at' = at + 1 /\ UNCHANGED <<source, stack, blocks, result>>
    BY <1>3, <2>1 DEF OpenFence, After
  <2>3. CurrentHeading \in 0..Len(blocks)
    BY <1>0, HeadingType DEF CurrentHeading
  <2>4. fence' = [first |-> at, mark |-> source[at].mark,
                  count |-> source[at].count, parent |-> CurrentHeading]
    BY <1>3 DEF OpenFence
  <2>5. fence' \in [first : 0..Len(source), mark : {"none", "tick", "tilde"},
                    count : Nat, parent : 0..Len(blocks)]
    BY <2>1, <2>3, <2>4 DEF Line
  <2>6. at' \in 1..(Len(source) + 1) /\ fence'.first \in 1..(at' - 1)
    BY <1>0, <2>1, <2>2, <2>4
  <2> QED BY <2>2, <2>5, <2>6 DEF Typed, TypeOK
<1>4. CASE CloseFence
  <2>1. /\ Reading /\ source[at].form = "fence" /\ fence # NoFence
        /\ AddBlock(BlockOf("FENCED_CODE_BLOCK", 0, fence.parent,
                            fence.first))
        /\ fence' = NoFence /\ stack' = stack
    BY <1>4 DEF CloseFence, Inside, Closes
  <2>2. fence.parent \in 0..Len(blocks) /\ fence.first \in 1..at
        /\ at \in 1..Len(source)
    BY <2>1, LineType DEF Typed, TypeOK
  <2>3. /\ blocks' \in Seq(Block) /\ Len(blocks') <= BlockMax
        /\ Len(blocks') = Len(blocks) + 1
        /\ at' = at + 1 /\ at' \in 1..(Len(source) + 1)
        /\ source' = source /\ result' = result
    BY <1>0, <2>1, <2>2, AddBlockType DEF BlockType
  <2>4. stack' \in [1..Levels -> 0..Len(blocks')]
    BY <1>0, <2>1, <2>3, StackGrows
  <2>5. fence' \in [first : 0..Len(source), mark : {"none", "tick", "tilde"},
                    count : Nat, parent : 0..Len(blocks')]
    BY <1>0, <2>1, <2>3 DEF NoFence, NoParent
  <2> QED BY <2>1, <2>3, <2>4, <2>5 DEF Typed, TypeOK
<1>5. CASE AddHeading
  <2> DEFINE level == source[at].level
  <2>1. /\ Reading /\ source[at].form = "heading" /\ fence = NoFence
        /\ AddBlock(BlockOf("HEADING", level, ParentForHeading(level), at))
        /\ stack' = UpdatedStack(level, Len(blocks) + 1) /\ fence' = fence
    BY <1>5 DEF AddHeading, Outside
  <2>2. at \in 1..Len(source) /\ level \in 1..Levels
    BY <1>0, <2>1, LineType, DocumentAssumption DEF Line, Typed
  <2>3. ParentForHeading(level) \in 0..Len(blocks) /\ at \in 1..at
    BY <1>0, <2>2, HeadingType DEF ParentForHeading
  <2> HIDE DEF level
  <2>4. /\ blocks' \in Seq(Block) /\ Len(blocks') <= BlockMax
        /\ Len(blocks') = Len(blocks) + 1
        /\ at' = at + 1 /\ at' \in 1..(Len(source) + 1)
        /\ source' = source /\ result' = result
    BY <1>0, <2>1, <2>2, <2>3, AddBlockType DEF BlockType
  <2>5. stack' \in [1..Levels -> 0..Len(blocks')]
    BY <1>0, <2>1, <2>4 DEF UpdatedStack, Typed, TypeOK, NoParent
  <2>6. fence' \in [first : 0..Len(source), mark : {"none", "tick", "tilde"},
                    count : Nat, parent : 0..Len(blocks')]
    BY <1>0, <2>1, <2>4 DEF NoFence, NoParent
  <2> QED BY <2>1, <2>4, <2>5, <2>6 DEF Typed, TypeOK
<1>6. CASE AddPlain
  <2>1. /\ Reading /\ Plain(source[at]) /\ fence = NoFence
        /\ AddBlock(BlockOf(TypeOf(source[at]), 0, CurrentHeading, at))
        /\ stack' = stack /\ fence' = fence
    BY <1>6 DEF AddPlain, Outside
  <2>2. at \in 1..Len(source) /\ at \in 1..at
        /\ CurrentHeading \in 0..Len(blocks)
        /\ TypeOf(source[at]) \in BlockType
        /\ source[at].form \notin {"blank", "nul"}
    BY <1>0, <2>1, LineType, HeadingType
    DEF CurrentHeading, TypeOf, BlockType, Plain
  <2>3. /\ blocks' \in Seq(Block) /\ Len(blocks') <= BlockMax
        /\ Len(blocks') = Len(blocks) + 1
        /\ at' = at + 1 /\ at' \in 1..(Len(source) + 1)
        /\ source' = source /\ result' = result
    BY <1>0, <2>1, <2>2, AddBlockType
  <2>4. stack' \in [1..Levels -> 0..Len(blocks')]
    BY <1>0, <2>1, <2>3, StackGrows
  <2>5. fence' \in [first : 0..Len(source), mark : {"none", "tick", "tilde"},
                    count : Nat, parent : 0..Len(blocks')]
    BY <1>0, <2>1, <2>3, StackGrows
  <2> QED BY <2>1, <2>3, <2>4, <2>5 DEF Typed, TypeOK
<1>7. CASE TooManyBlocks \/ Unclosed \/ Finish
  BY <1>7 DEF TooManyBlocks, Unclosed, Finish, Return, Typed, TypeOK
<1> QED BY <1>1, <1>2, <1>3, <1>4, <1>5, <1>6, <1>7 DEF Next

LEMMA TypedInit == Init => Typed
<1> SUFFICES ASSUME Init PROVE Typed
  OBVIOUS
<1>1. source \in Seq(Line) /\ Len(source) \in Nat
  BY DocumentAssumption DEF Init
<1>2. blocks \in Seq(Block) /\ Len(blocks) = 0
  BY DEF Init
<1> QED
  BY <1>1, <1>2, LevelAssumption
  DEF Init, Typed, TypeOK, NoFence, NoParent

LEMMA AlwaysTyped == Spec => []Typed
BY TypedInit, TypedStep, PTL DEF Spec

\* Every variable of the parser keeps its type.
THEOREM TypeCorrect == Spec => []TypeOK
<1>1. Typed => TypeOK
  BY DEF Typed
<1> QED BY <1>1, AlwaysTyped, PTL

-----------------------------------------------------------------------------
(***************************************************************************)
(* The heading stack. A heading in force is a heading of its level, the    *)
(* deeper one is the later one, and each heading of the document is in     *)
(* force or has been followed by one in force of its level or a higher.    *)
(***************************************************************************)

Stacked ==
  /\ \A l \in 1..Levels : stack[l] # NoParent =>
       stack[l] \in Headings /\ blocks[stack[l]].level = l
  /\ \A k, l \in 1..Levels :
       k < l /\ stack[k] # NoParent /\ stack[l] # NoParent =>
         stack[k] < stack[l]
  /\ \A h \in Headings : \E l \in 1..blocks[h].level : h <= stack[l]
  /\ fence # NoFence => fence.parent = CurrentHeading
  /\ ParentIsEnclosing

\* The nearest heading of the first levels, or none of them.
Nearest(level, p) ==
  \/ p = NoParent /\ \A h \in Headings : blocks[h].level > level
  \/ /\ p \in Headings /\ blocks[p].level <= level
     /\ \A h \in Headings : blocks[h].level <= level => h <= p

LEMMA HeadingLevels ==
  ASSUME Typed
  PROVE  /\ \A i \in 1..Len(blocks) : blocks[i] \in Block
         /\ \A h \in Headings : h \in 1..Len(blocks) /\ h \in Nat
              /\ blocks[h].level \in 0..Levels
<1>1. blocks \in Seq(Block) /\ Len(blocks) \in Nat
  BY DEF Typed, TypeOK
<1>2. \A i \in 1..Len(blocks) : blocks[i] \in Block
  BY <1>1, ElementOfSeq
<1>3. \A h \in Headings : h \in 1..Len(blocks) /\ h \in Nat
  BY <1>1 DEF Headings
<1>4. \A b \in Block : b.level \in 0..Levels
  BY DEF Block
<1> QED BY <1>2, <1>3, <1>4

LEMMA HeadingIsNearest ==
  ASSUME Typed, Stacked, NEW level \in 0..Levels
  PROVE  Nearest(level, HeadingUpTo(level))
<1>0. level \in Nat /\ Levels \in Nat /\ 1..level \subseteq 1..Levels
      /\ \A l \in 1..Levels : stack[l] \in Nat
  BY LevelAssumption DEF Typed, TypeOK
<1>1. ASSUME NEW h \in Headings, blocks[h].level <= level
      PROVE  \E l \in 1..level : stack[l] # NoParent /\ h <= stack[l]
  <2>1. PICK l \in 1..blocks[h].level : h <= stack[l]
    BY DEF Stacked
  <2>2. blocks[h].level \in Nat /\ h \in Nat /\ h # 0
    BY HeadingLevels, LevelAssumption
  <2>3. l \in 1..level
    BY <1>0, <1>1, <2>2
  <2> QED BY <1>0, <2>1, <2>2, <2>3 DEF NoParent
<1>2. CASE {l \in 1..level : stack[l] # NoParent} = {}
  <2>1. HeadingUpTo(level) = NoParent
    BY <1>2 DEF HeadingUpTo
  <2>2. ASSUME NEW h \in Headings PROVE blocks[h].level > level
    <3>1. ~(blocks[h].level <= level)
      BY <1>1, <1>2
    <3> QED BY <1>0, <3>1, HeadingLevels
  <2> QED BY <2>1, <2>2 DEF Nearest
<1>3. CASE {l \in 1..level : stack[l] # NoParent} # {}
  <2>1. PICK c \in 1..level :
          /\ HeadingUpTo(level) = stack[c] /\ stack[c] # NoParent
          /\ \A k \in 1..level : stack[k] # NoParent => k <= c
    BY <1>3, HeadingChoice
  <2>2. c \in 1..Levels /\ c <= level
    BY <1>0
  <2>3. stack[c] \in Headings /\ blocks[stack[c]].level = c
    BY <2>1, <2>2 DEF Stacked
  <2>4. ASSUME NEW h \in Headings, blocks[h].level <= level
        PROVE  h <= stack[c]
    <3>1. PICK l \in 1..level : stack[l] # NoParent /\ h <= stack[l]
      BY <1>1, <2>4
    <3>2. l <= c /\ l \in 1..Levels
      BY <1>0, <2>1, <3>1
    <3>3. stack[l] <= stack[c]
      <4>1. CASE l = c
        BY <1>0, <2>2, <4>1
      <4>2. CASE l < c
        BY <1>0, <2>1, <2>2, <3>1, <3>2, <4>2 DEF Stacked
      <4> QED BY <1>0, <2>2, <3>2, <4>1, <4>2
    <3> QED BY <1>0, <2>2, <3>1, <3>2, <3>3, HeadingLevels
  <2> QED BY <2>1, <2>2, <2>3, <2>4 DEF Nearest
<1> QED BY <1>2, <1>3

\* What a block at the end does to the headings and to the older blocks.
LEMMA BlocksGrow ==
  ASSUME blocks \in Seq(Block), NEW b \in Block, blocks' = Append(blocks, b)
  PROVE  /\ Len(blocks) \in Nat /\ Len(blocks') = Len(blocks) + 1
         /\ \A i \in 1..Len(blocks) : blocks'[i] = blocks[i]
         /\ blocks'[Len(blocks) + 1] = b
         /\ Headings' = Headings \cup
              (IF b.type = "HEADING" THEN {Len(blocks) + 1} ELSE {})
<1>1. /\ Len(blocks) \in Nat /\ Len(blocks') = Len(blocks) + 1
      /\ \A i \in 1..Len(blocks) : blocks'[i] = blocks[i]
      /\ blocks'[Len(blocks) + 1] = b
  OBVIOUS
<1>2. 1..Len(blocks') = (1..Len(blocks)) \cup {Len(blocks) + 1}
  BY <1>1
<1>3. Headings' = Headings \cup
              (IF b.type = "HEADING" THEN {Len(blocks) + 1} ELSE {})
  BY <1>1, <1>2 DEF Headings
<1> QED BY <1>1, <1>3

\* A block under the nearest heading it can stand under keeps the outline.
LEMMA EnclosingStep ==
  ASSUME Typed, Stacked, NEW b \in Block, blocks' = Append(blocks, b),
         IF b.type = "HEADING" THEN /\ b.level \in 1..Levels
                                    /\ Nearest(b.level - 1, b.parent)
                               ELSE Nearest(Levels, b.parent)
  PROVE  ParentIsEnclosing'
<1> DEFINE new == Len(blocks) + 1
<1>1. /\ Len(blocks) \in Nat /\ Len(blocks') = new
      /\ \A i \in 1..Len(blocks) : blocks'[i] = blocks[i]
      /\ blocks'[new] = b
      /\ Headings' = Headings \cup
              (IF b.type = "HEADING" THEN {new} ELSE {})
  BY BlocksGrow DEF Typed, TypeOK
<1>2. \A h \in Headings : h \in 1..Len(blocks) /\ h < new
      /\ blocks[h].level \in 0..Levels /\ blocks'[h] = blocks[h]
  BY <1>1, HeadingLevels
<1>3. ASSUME NEW i \in 1..Len(blocks) PROVE Above(i)' = Above(i)
  <2>1. i < new /\ (i \in Headings' <=> i \in Headings)
    BY <1>1
  <2>2. \A h \in Headings' : h < i => h \in Headings
    BY <1>1, <2>1
  <2>3. Headings \subseteq Headings' /\ blocks'[i] = blocks[i]
    BY <1>1
  <2> QED BY <1>2, <2>1, <2>2, <2>3 DEF Above
<1>4. ASSUME NEW i \in 1..Len(blocks)
      PROVE  \/ Above(i)' = {} /\ blocks'[i].parent = NoParent
             \/ /\ blocks'[i].parent \in Above(i)'
                /\ \A h \in Above(i)' : h <= blocks'[i].parent
  BY <1>1, <1>3 DEF Stacked, ParentIsEnclosing
<1>5. ASSUME NEW n, n = new
      PROVE  \/ Above(n)' = {} /\ b.parent = NoParent
             \/ /\ b.parent \in Above(n)'
                /\ \A h \in Above(n)' : h <= b.parent
  <2>0. /\ \A h \in Headings : h < n /\ h # n /\ blocks'[h] = blocks[h]
        /\ blocks'[n] = b /\ ~(n < n)
    BY <1>1, <1>2, <1>5
  <2>1. CASE b.type = "HEADING"
    <3>1. n \in Headings' /\ Headings' = Headings \cup {n}
      BY <1>1, <1>5, <2>1
    <3>2. Above(n)' = {h \in Headings : blocks[h].level < b.level}
      BY <2>0, <3>1 DEF Above
    <3>3. b.level \in Nat /\ b.level \in 1..Levels /\ Levels \in Nat
      BY <2>1, LevelAssumption
    <3>4. \A h \in Headings :
            /\ blocks[h].level < b.level <=> blocks[h].level <= b.level - 1
            /\ blocks[h].level > b.level - 1 <=> ~(blocks[h].level < b.level)
      BY <1>2, <3>3
    <3> QED BY <2>1, <3>2, <3>4 DEF Nearest
  <2>2. CASE b.type # "HEADING"
    <3>1. n \notin Headings' /\ Headings' = Headings
      BY <1>1, <2>0, <2>2
    <3>2. Above(n)' = Headings
      BY <2>0, <3>1 DEF Above
    <3>3. \A h \in Headings : /\ blocks[h].level <= Levels
                              /\ ~(blocks[h].level > Levels)
      BY <1>2, LevelAssumption
    <3> QED BY <2>2, <3>2, <3>3 DEF Nearest
  <2> QED BY <2>1, <2>2
<1>6. ASSUME NEW i \in 1..Len(blocks')
      PROVE  \/ Above(i)' = {} /\ blocks'[i].parent = NoParent
             \/ /\ blocks'[i].parent \in Above(i)'
                /\ \A h \in Above(i)' : h <= blocks'[i].parent
  <2>1. CASE i \in 1..Len(blocks)
    BY <1>4, <2>1
  <2>2. CASE i = new
    BY <1>1, <1>5, <2>2
  <2> QED BY <1>1, <2>1, <2>2
<1> QED BY <1>6 DEF ParentIsEnclosing

\* A step that adds no block and does not touch the stack.
LEMMA SameStacked ==
  ASSUME Stacked, UNCHANGED <<blocks, stack>>,
         fence' # NoFence => fence'.parent = CurrentHeading
  PROVE  Stacked'
<1>1. CurrentHeading' = CurrentHeading /\ Headings' = Headings
  BY DEF CurrentHeading, HeadingUpTo, Headings
<1>2. ParentIsEnclosing'
  BY <1>1 DEF Stacked, ParentIsEnclosing, Above
<1> QED BY <1>1, <1>2 DEF Stacked

\* A block that is no heading.
LEMMA PlainStacked ==
  ASSUME Typed, Stacked, NEW b \in Block, b.type # "HEADING",
         blocks' = Append(blocks, b), stack' = stack,
         b.parent = CurrentHeading, fence' = NoFence
  PROVE  Stacked'
<1>1. /\ Len(blocks) \in Nat
      /\ \A i \in 1..Len(blocks) : blocks'[i] = blocks[i]
      /\ Headings' = Headings
  BY BlocksGrow DEF Typed, TypeOK
<1>2. Nearest(Levels, b.parent)
  BY HeadingIsNearest, LevelAssumption DEF CurrentHeading
<1>3. ParentIsEnclosing'
  BY <1>2, EnclosingStep
<1>4. \A h \in Headings : blocks'[h] = blocks[h]
  BY <1>1 DEF Headings
<1> QED BY <1>1, <1>3, <1>4 DEF Stacked

LEMMA HeadingStacked ==
  ASSUME Typed, Stacked, NEW b \in Block, b.type = "HEADING",
         b.level \in 1..Levels, b.parent = ParentForHeading(b.level),
         blocks' = Append(blocks, b), fence' = NoFence,
         stack' = UpdatedStack(b.level, Len(blocks) + 1)
  PROVE  Stacked'
<1> DEFINE new == Len(blocks) + 1
<1>1. /\ Len(blocks) \in Nat /\ Levels \in Nat
      /\ \A i \in 1..Len(blocks) : blocks'[i] = blocks[i]
      /\ blocks'[new] = b
      /\ Headings' = Headings \cup {new}
  BY BlocksGrow, LevelAssumption DEF Typed, TypeOK
<1>2. \A h \in Headings : h \in 1..Len(blocks) /\ h < new
      /\ blocks[h].level \in 0..Levels /\ blocks'[h] = blocks[h]
  BY <1>1, HeadingLevels
<1>3. ParentIsEnclosing'
  <2>1. b.level - 1 \in 0..Levels
    BY <1>1
  <2>2. Nearest(b.level - 1, b.parent)
    BY <2>1, HeadingIsNearest DEF ParentForHeading
  <2> QED BY <2>2, EnclosingStep
<1>4. \A l \in 1..Levels :
        stack'[l] = IF l < b.level THEN stack[l]
                    ELSE IF l = b.level THEN new ELSE NoParent
  BY DEF UpdatedStack
<1>5. ASSUME NEW l \in 1..Levels, stack'[l] # NoParent
      PROVE  stack'[l] \in Headings' /\ blocks'[stack'[l]].level = l
  <2>1. CASE l < b.level
    BY <1>1, <1>2, <1>4, <1>5, <2>1 DEF Stacked
  <2>2. CASE l = b.level
    BY <1>1, <1>4, <2>2
  <2> QED BY <1>1, <1>4, <1>5, <2>1, <2>2
<1>6. ASSUME NEW k \in 1..Levels, NEW l \in 1..Levels, k < l,
             stack'[k] # NoParent, stack'[l] # NoParent
      PROVE  stack'[k] < stack'[l]
  <2>1. k < b.level /\ stack'[k] = stack[k] /\ l <= b.level
    BY <1>1, <1>4, <1>6
  <2>2. stack[k] \in Headings
    BY <1>6, <2>1 DEF Stacked
  <2>3. CASE l < b.level
    BY <1>4, <1>6, <2>1, <2>3 DEF Stacked
  <2>4. CASE l = b.level
    BY <1>2, <1>4, <2>1, <2>2, <2>4
  <2> QED BY <1>1, <2>1, <2>3, <2>4
<1>7. ASSUME NEW h \in Headings'
      PROVE  \E l \in 1..blocks'[h].level : h <= stack'[l]
  <2>1. CASE h = new
    <3>1. blocks'[h].level = b.level /\ b.level \in 1..b.level
      BY <1>1, <2>1
    <3>2. stack'[b.level] = new /\ h <= new
      BY <1>1, <1>4, <2>1
    <3> QED BY <3>1, <3>2
  <2>2. CASE h \in Headings
    <3>1. blocks'[h] = blocks[h] /\ h < new /\ h \in Nat
          /\ blocks[h].level \in 0..Levels
      BY <1>1, <1>2, <2>2
    <3>2. PICK l \in 1..blocks[h].level : h <= stack[l]
      BY <2>2 DEF Stacked
    <3>3. CASE l < b.level
      <4>1. stack'[l] = stack[l]
        BY <1>1, <1>4, <3>1, <3>3
      <4> QED BY <3>1, <3>2, <4>1
    <3>4. CASE ~(l < b.level)
      <4>1. b.level \in 1..blocks[h].level
        BY <1>1, <3>1, <3>4
      <4>2. stack'[b.level] = new /\ h <= new
        BY <1>1, <1>4, <3>1
      <4> QED BY <3>1, <4>1, <4>2
    <3> QED BY <3>3, <3>4
  <2> QED BY <1>1, <2>1, <2>2
<1> HIDE DEF new
<1> QED BY <1>3, <1>5, <1>6, <1>7 DEF Stacked

LEMMA StackedStep ==
  ASSUME Typed, Stacked, [Next]_vars
  PROVE  Stacked'
<1>0. /\ Levels \in Nat /\ Len(blocks) \in Nat
      /\ 0..Len(blocks) \subseteq Nat /\ 0 \in 0..Levels
  BY LevelAssumption DEF Typed, TypeOK
<1>1. CASE UNCHANGED <<blocks, stack, fence>>
  BY <1>1, SameStacked DEF Stacked
<1>2. CASE OpenFence
  <2>1. fence'.parent = CurrentHeading /\ UNCHANGED <<blocks, stack>>
    BY <1>2 DEF OpenFence
  <2> QED BY <2>1, SameStacked
<1>3. CASE CloseFence
  <2> DEFINE b == BlockOf("FENCED_CODE_BLOCK", 0, fence.parent, fence.first)
  <2>1. /\ Reading /\ fence # NoFence
        /\ blocks' = Append(blocks, b) /\ fence' = NoFence /\ stack' = stack
    BY <1>3 DEF CloseFence, Inside, AddBlock
  <2>2. fence.parent \in Nat /\ fence.first \in Nat /\ at \in Nat
    BY <1>0 DEF Typed, TypeOK
  <2>3. b \in Block /\ b.type # "HEADING" /\ b.parent = fence.parent
    BY <1>0, <2>2 DEF BlockOf, Block, BlockType
  <2>4. fence.parent = CurrentHeading
    BY <2>1 DEF Stacked
  <2> HIDE DEF b
  <2> QED BY <2>1, <2>3, <2>4, PlainStacked
<1>4. CASE AddHeading
  <2> DEFINE level == source[at].level
             b == BlockOf("HEADING", level, ParentForHeading(level), at)
  <2>1. /\ Reading /\ source[at].form = "heading" /\ fence = NoFence
        /\ blocks' = Append(blocks, b) /\ fence' = fence
        /\ stack' = UpdatedStack(level, Len(blocks) + 1)
    BY <1>4 DEF AddHeading, Outside, AddBlock
  <2>2. at \in 1..Len(source) /\ level \in 1..Levels /\ at \in Nat
    BY <1>0, <2>1, LineType, DocumentAssumption DEF Line, Typed
  <2> HIDE DEF level
  <2>3. ParentForHeading(level) \in Nat
    <3>1. level - 1 \in 0..Levels
      BY <1>0, <2>2
    <3> QED BY <1>0, <3>1, HeadingType DEF ParentForHeading
  <2>4. b \in Block /\ b.type = "HEADING" /\ b.level = level
        /\ b.parent = ParentForHeading(level)
    BY <1>0, <2>2, <2>3 DEF BlockOf, Block, BlockType
  <2> HIDE DEF b
  <2> QED BY <2>1, <2>2, <2>4, HeadingStacked
<1>5. CASE AddPlain
  <2> DEFINE b == BlockOf(TypeOf(source[at]), 0, CurrentHeading, at)
  <2>1. /\ Reading /\ fence = NoFence /\ fence' = fence /\ stack' = stack
        /\ blocks' = Append(blocks, b)
    BY <1>5 DEF AddPlain, Outside, AddBlock
  <2>2. at \in Nat /\ CurrentHeading \in Nat
    BY <1>0, HeadingType DEF CurrentHeading, Typed, TypeOK
  <2>3. TypeOf(source[at]) \in BlockType \ {"HEADING"}
    BY DEF TypeOf, BlockType
  <2>4. b \in Block /\ b.type # "HEADING" /\ b.parent = CurrentHeading
    BY <1>0, <2>2, <2>3 DEF BlockOf, Block
  <2> HIDE DEF b
  <2> QED BY <2>1, <2>4, PlainStacked
<1> QED
  BY <1>1, <1>2, <1>3, <1>4, <1>5
  DEF Next, vars, SkipBlank, SkipCode, TooManyBlocks, Unclosed, Finish, Return

LEMMA StackedInit == Init => Stacked
<1> SUFFICES ASSUME Init PROVE Stacked
  OBVIOUS
<1>1. Len(blocks) = 0 /\ Headings = {}
  BY DEF Init, Headings
<1>2. \A l \in 1..Levels : stack[l] = NoParent
  BY DEF Init
<1> QED BY <1>1, <1>2 DEF Init, Stacked, ParentIsEnclosing

\* Each block stands under the heading that encloses it, in every outline.
THEOREM ParentsEnclose == Spec => []ParentIsEnclosing
<1>1. Typed /\ Stacked /\ [Next]_vars => Stacked'
  BY StackedStep
<1>2. Stacked => ParentIsEnclosing
  BY DEF Stacked
<1> QED BY <1>1, <1>2, StackedInit, AlwaysTyped, PTL DEF Spec

-----------------------------------------------------------------------------
(***************************************************************************)
(* The lines. Blocks lie one after the other before the open code block,   *)
(* each begins with a line that is not blank, and no line passed is a NUL. *)
(* The open code block has not met its end.                                *)
(***************************************************************************)

EndsCode(open, line) ==
  /\ line.form = "fence" /\ line.mark = open.mark
  /\ line.count >= open.count /\ line.rest = "nothing"

\* CodeIsVerbatim for one block.
Verbatim(src, b) ==
  IF b.type = "FENCED_CODE_BLOCK"
  THEN /\ b.first < b.last
       /\ \A n \in (b.first + 1)..b.last :
            EndsCode(src[b.first], src[n]) <=> n = b.last
  ELSE b.first = b.last

\* The line n, which has been passed, is accounted for.
Taken(n) ==
  \/ source[n].form \in {"blank", "nul"}
  \/ n \in Pending
  \/ \E i \in 1..Len(blocks) : n \in LinesOf(i)

OpenCode ==
  /\ source[fence.first].form = "fence"
  /\ source[fence.first].mark = fence.mark
  /\ source[fence.first].count = fence.count
  /\ \A n \in (fence.first + 1)..(at - 1) : ~Closes(source[n])
  /\ \A i \in 1..Len(blocks) : blocks[i].last < fence.first

Accounted ==
  /\ \A n \in 1..(at - 1) : source[n].form # "nul" /\ Taken(n)
  /\ \A i \in 1..Len(blocks) :
       /\ blocks[i].first \in 1..blocks[i].last /\ blocks[i].last < at
       /\ source[blocks[i].first].form \notin {"blank", "nul"}
       /\ Verbatim(source, blocks[i])
  /\ \A i, j \in 1..Len(blocks) : i < j => blocks[i].last < blocks[j].first
  /\ fence # NoFence => OpenCode
  /\ result \in {"OK", "EMPTY_INPUT"} =>
       /\ at = Len(source) + 1 /\ fence = NoFence
       /\ (result = "OK") <=>
            (\E n \in 1..Len(source) : source[n].form # "blank")

LEMMA BlockTypes ==
  ASSUME Typed
  PROVE  \A i \in 1..Len(blocks) :
           blocks[i].first \in Nat /\ blocks[i].last \in Nat
<1>1. \A i \in 1..Len(blocks) : blocks[i] \in Block
  BY HeadingLevels
<1>2. \A b \in Block : b.first \in Nat /\ b.last \in Nat
  BY DEF Block
<1> QED BY <1>1, <1>2

LEMMA AccountedGives == Typed /\ Accounted => LinesAccounted /\ CodeIsVerbatim
<1> SUFFICES ASSUME Typed, Accounted PROVE LinesAccounted /\ CodeIsVerbatim
  OBVIOUS
<1>1. ASSUME NEW i \in 1..Len(blocks), NEW n \in LinesOf(i)
      PROVE  n \notin Pending
  <2>1. CASE fence = NoFence
    BY <2>1 DEF Pending
  <2>2. CASE fence # NoFence
    <3>1. /\ blocks[i].last < fence.first /\ fence.first \in Nat
          /\ blocks[i].last \in Int /\ n <= blocks[i].last /\ n \in Int
      BY <2>2, BlockTypes DEF Accounted, OpenCode, LinesOf, Typed, TypeOK
    <3> QED BY <2>2, <3>1 DEF Pending
  <2> QED BY <2>1, <2>2
<1>2. LinesAccounted
  BY <1>1 DEF Accounted, Taken, LinesAccounted
<1>3. CodeIsVerbatim
  BY DEF Accounted, Verbatim, EndsCode, CodeIsVerbatim
<1> QED BY <1>2, <1>3

\* The block that is added ends with the line in hand, and begins with it or
\* is the open code block.
LEMMA AddBlockAccounted ==
  ASSUME Typed, Accounted, Reading, NEW b \in Block,
         blocks' = Append(blocks, b), at' = at + 1, fence' = NoFence,
         UNCHANGED <<source, result>>, source[at].form # "nul",
         b.first = IF fence = NoFence THEN at ELSE fence.first,
         b.last = at, source[b.first].form \notin {"blank", "nul"},
         Verbatim(source, b)
  PROVE  Accounted'
<1> DEFINE new == Len(blocks) + 1
<1>1. /\ Len(blocks) \in Nat /\ Len(blocks') = new
      /\ \A i \in 1..Len(blocks) : blocks'[i] = blocks[i]
      /\ blocks'[new] = b
  BY BlocksGrow DEF Typed, TypeOK
<1>2. /\ at \in 1..Len(source) /\ Len(source) \in Nat
      /\ fence # NoFence => fence.first \in 1..(at - 1)
      /\ b.first \in 1..at /\ result = "none"
  BY LineType DEF Typed, Reading
<1>3. \A i \in 1..Len(blocks') : i \in 1..Len(blocks) \/ i = new
  BY <1>1
<1>4. ASSUME NEW i \in 1..Len(blocks)
      PROVE  /\ blocks[i].last < b.first /\ i < new
             /\ blocks[i].first \in 1..blocks[i].last
             /\ blocks[i].last < at
  <2>1. blocks[i].last < at /\ blocks[i].first \in 1..blocks[i].last
    BY DEF Accounted
  <2>2. fence # NoFence => blocks[i].last < fence.first
    BY DEF Accounted, OpenCode
  <2> QED BY <1>1, <2>1, <2>2
<1>5. ASSUME NEW n \in 1..(at' - 1)
      PROVE  source'[n].form # "nul" /\ Taken(n)'
  <2>1. CASE n \in b.first..at
    <3>2. new \in 1..Len(blocks')
      BY <1>1
    <3>3. \E i \in 1..Len(blocks') : n \in (LinesOf(i))'
      BY <1>1, <2>1, <3>2 DEF LinesOf
    <3>4. source[n].form # "nul"
      BY <1>2, <2>1 DEF Accounted
    <3> QED BY <3>3, <3>4 DEF Taken
  <2>2. CASE n \notin b.first..at
    <3>1. n \in 1..(at - 1) /\ n \notin Pending
      BY <1>2, <2>2 DEF Pending
    <3>2. source[n].form # "nul" /\ Taken(n)
      BY <3>1 DEF Accounted
    <3>3. ASSUME NEW i \in 1..Len(blocks), n \in LinesOf(i)
          PROVE  i \in 1..Len(blocks') /\ n \in LinesOf(i)'
      BY <1>1, <3>3 DEF LinesOf
    <3> QED BY <3>1, <3>2, <3>3 DEF Taken
  <2> QED BY <2>1, <2>2
<1>6. ASSUME NEW i \in 1..Len(blocks')
      PROVE  /\ blocks'[i].first \in 1..blocks'[i].last
             /\ blocks'[i].last < at'
             /\ source'[blocks'[i].first].form \notin {"blank", "nul"}
             /\ Verbatim(source', blocks'[i])
  <2>1. /\ Verbatim(source', b)
        /\ i \in 1..Len(blocks) => Verbatim(source', blocks[i])
    BY DEF Accounted
  <2>2. CASE i = new
    <3>1. blocks'[i] = b
      BY <1>1, <2>2
    <3>2. Verbatim(source', blocks'[i])
      BY <2>1, <3>1 DEF Verbatim
    <3> QED BY <1>2, <3>1, <3>2
  <2>3. CASE i \in 1..Len(blocks)
    <3>1. blocks'[i] = blocks[i]
      BY <1>1, <2>3
    <3>2. Verbatim(source', blocks'[i])
      BY <2>1, <2>3, <3>1 DEF Verbatim
    <3>3. blocks[i].last < at + 1
      BY <1>2, <1>4, <2>3, BlockTypes
    <3> QED BY <1>4, <2>3, <3>1, <3>2, <3>3 DEF Accounted
  <2> QED BY <1>3, <2>2, <2>3
<1>7. ASSUME NEW i \in 1..Len(blocks'), NEW j \in 1..Len(blocks'), i < j
      PROVE  blocks'[i].last < blocks'[j].first
  <2>1. i \in 1..Len(blocks)
    BY <1>1, <1>7
  <2>2. CASE j = new
    BY <1>1, <1>4, <2>1, <2>2
  <2>3. CASE j \in 1..Len(blocks)
    BY <1>1, <1>7, <2>1, <2>3 DEF Accounted
  <2> QED BY <1>3, <2>2, <2>3
<1>8. result' = "none"
  BY <1>2
<1> QED BY <1>5, <1>6, <1>7, <1>8 DEF Accounted

\* A line is passed outside blocks: it is blank, or goes to the code block.
LEMMA PassAccounted ==
  ASSUME Typed, Accounted, Reading, at' = at + 1,
         UNCHANGED <<source, blocks, result>>,
         source[at].form # "nul",
         \/ source[at].form = "blank" /\ fence = NoFence /\ fence' = NoFence
         \/ fence' # NoFence,
         fence # NoFence => fence' = fence /\ ~Closes(source[at]),
         fence' # NoFence /\ fence = NoFence =>
           /\ fence'.first = at /\ source[at].form = "fence"
           /\ fence'.mark = source[at].mark /\ fence'.count = source[at].count
  PROVE  Accounted'
<1>1. /\ at \in 1..Len(source) /\ Len(source) \in Nat
      /\ fence # NoFence => fence.first \in 1..(at - 1)
      /\ result = "none"
  BY LineType DEF Typed, Reading
<1>2. fence' # NoFence => Pending' = Pending \cup {at} /\ at \in Pending'
  BY <1>1 DEF Pending
<1>3. ASSUME NEW n \in 1..(at' - 1)
      PROVE  source'[n].form # "nul" /\ Taken(n)'
  <2>1. CASE n = at
    BY <1>2, <2>1 DEF Taken
  <2>2. CASE n # at
    <3>1. n \in 1..(at - 1)
      BY <1>1, <2>2
    <3>2. source[n].form # "nul" /\ Taken(n)
      BY <3>1 DEF Accounted
    <3>3. n \in Pending => n \in Pending'
      BY <1>2 DEF Pending
    <3> QED BY <3>2, <3>3 DEF Taken, LinesOf
  <2> QED BY <2>1, <2>2
<1>4. ASSUME NEW i \in 1..Len(blocks')
      PROVE  /\ blocks'[i].first \in 1..blocks'[i].last
             /\ blocks'[i].last < at'
             /\ source'[blocks'[i].first].form \notin {"blank", "nul"}
             /\ Verbatim(source', blocks'[i])
  <2>1. /\ blocks[i].first \in 1..blocks[i].last /\ blocks[i].last < at
        /\ source[blocks[i].first].form \notin {"blank", "nul"}
        /\ Verbatim(source, blocks[i])
    BY DEF Accounted
  <2>2. blocks[i].last < at + 1
    BY <1>1, <2>1, BlockTypes
  <2> QED BY <2>1, <2>2 DEF Verbatim
<1>5. OpenCode' \/ fence' = NoFence
  <2> SUFFICES ASSUME fence' # NoFence PROVE OpenCode'
    OBVIOUS
  <2>1. CASE fence = NoFence
    <3>1. \A i \in 1..Len(blocks) : blocks[i].last < at
      BY DEF Accounted
    <3> QED BY <1>1, <2>1, <3>1 DEF OpenCode
  <2>2. CASE fence # NoFence
    <3>1. OpenCode /\ fence' = fence
      BY <2>2 DEF Accounted
    <3>2. ASSUME NEW n \in (fence.first + 1)..(at' - 1)
          PROVE  ~Closes(source[n])
      <4>1. n = at \/ n \in (fence.first + 1)..(at - 1)
        BY <1>1, <2>2
      <4> QED BY <2>2, <3>1, <4>1 DEF OpenCode
    <3> QED BY <3>1, <3>2 DEF OpenCode, Closes
  <2> QED BY <2>1, <2>2
<1>6. result' = "none"
  BY <1>1
<1> QED BY <1>3, <1>4, <1>5, <1>6 DEF Accounted

\* A step that stays at its line, and may return.
LEMMA SameAccounted ==
  ASSUME Accounted, UNCHANGED <<source, at, fence, blocks>>,
         \/ result' = result
         \/ result' \in {"OK", "EMPTY_INPUT"} =>
              /\ at = Len(source) + 1 /\ fence = NoFence
              /\ (result' = "OK")
                   <=> (\E n \in 1..Len(source) : source[n].form # "blank")
  PROVE  Accounted'
<1>1. \A n : Taken(n)' <=> Taken(n)
  BY DEF Taken, Pending, LinesOf
<1>2. OpenCode' <=> OpenCode
  BY DEF OpenCode, Closes
<1> QED BY <1>1, <1>2 DEF Accounted

LEMMA FinishAccounted ==
  ASSUME Typed, Accounted, Finish
  PROVE  Accounted'
<1>1. /\ at = Len(source) + 1 /\ Len(source) \in Nat /\ fence = NoFence
      /\ UNCHANGED <<source, at, fence, blocks>>
      /\ result' = IF blocks = << >> THEN "EMPTY_INPUT" ELSE "OK"
      /\ blocks \in Seq(Block) /\ Len(blocks) \in Nat
  BY DEF Finish, AtEnd, Return, Typed, TypeOK
<1>2. \A n \in 1..(at - 1) : source[n].form # "nul" /\ Taken(n)
  BY DEF Accounted
<1>3. CASE blocks = << >>
  <2>1. Len(blocks) = 0
    BY <1>3
  <2>2. \A n \in 1..Len(source) : source[n].form = "blank"
    BY <1>1, <1>2, <2>1 DEF Taken, Pending
  <2>3. result' = "EMPTY_INPUT"
    BY <1>1, <1>3
  <2> QED BY <1>1, <2>2, <2>3, SameAccounted
<1>4. CASE blocks # << >>
  <2>1. 1 \in 1..Len(blocks)
    BY <1>1, <1>4
  <2>2. /\ blocks[1].first \in 1..Len(source)
        /\ source[blocks[1].first].form # "blank"
    BY <1>1, <2>1, BlockTypes DEF Accounted
  <2>3. result' = "OK"
    BY <1>1, <1>4
  <2> QED BY <1>1, <2>2, <2>3, SameAccounted
<1> QED BY <1>3, <1>4

LEMMA AccountedStep ==
  ASSUME Typed, Accounted, [Next]_vars
  PROVE  Accounted'
<1>1. CASE UNCHANGED vars \/ TooManyBlocks \/ Unclosed
  BY <1>1, SameAccounted DEF vars, TooManyBlocks, Unclosed, Return
<1>2. CASE SkipBlank \/ SkipCode
  <2>1. CASE source[at].form = "nul"
    BY <1>2, <2>1, SameAccounted DEF SkipBlank, SkipCode, After
  <2>2. CASE source[at].form # "nul"
    BY <1>2, <2>2, PassAccounted
    DEF SkipBlank, SkipCode, Outside, Inside, After
  <2> QED BY <2>1, <2>2
<1>3. CASE OpenFence
  <2>1. /\ Reading /\ fence = NoFence /\ source[at].form = "fence"
        /\ at' = at + 1 /\ UNCHANGED <<source, stack, blocks, result>>
        /\ fence' = [first |-> at, mark |-> source[at].mark,
                     count |-> source[at].count, parent |-> CurrentHeading]
    BY <1>3 DEF OpenFence, Outside, Opens, After
  <2>2. at # 0 /\ NoFence.first = 0
    BY <2>1, LineType DEF NoFence
  <2>3. fence'.first = at /\ fence' # NoFence
    BY <2>1, <2>2
  <2> QED BY <2>1, <2>3, PassAccounted
<1>4. CASE CloseFence
  <2> DEFINE b == BlockOf("FENCED_CODE_BLOCK", 0, fence.parent, fence.first)
  <2>1. /\ Reading /\ fence # NoFence /\ Closes(source[at])
        /\ blocks' = Append(blocks, b) /\ fence' = NoFence
        /\ at' = After(source[at]) /\ UNCHANGED <<source, result>>
    BY <1>4 DEF CloseFence, Inside, AddBlock
  <2>2. /\ fence.parent \in Nat /\ fence.first \in 1..(at - 1)
        /\ at \in Nat /\ OpenCode
    BY <2>1 DEF Typed, TypeOK, Accounted
  <2>3. b \in Block /\ b.type = "FENCED_CODE_BLOCK"
        /\ b.first = fence.first /\ b.last = at
    BY <2>2, LevelAssumption DEF BlockOf, Block, BlockType
  <2>4. source[at].form = "fence" /\ at' = at + 1
    BY <2>1 DEF Closes, After
  <2>5. Verbatim(source, b)
    <3>1. \A n : EndsCode(source[fence.first], source[n]) <=> Closes(source[n])
      BY <2>2 DEF EndsCode, Closes, OpenCode
    <3>2. \A n \in (fence.first + 1)..at :
            Closes(source[n]) <=> n = at
      BY <2>1, <2>2 DEF OpenCode
    <3>3. fence.first < at
      BY <2>2
    <3> QED BY <2>3, <3>1, <3>2, <3>3 DEF Verbatim
  <2>6. source[b.first].form = "fence"
    BY <2>2, <2>3 DEF OpenCode
  <2> HIDE DEF b
  <2> QED BY <2>1, <2>3, <2>4, <2>5, <2>6, AddBlockAccounted
<1>5. CASE AddHeading
  <2> DEFINE level == source[at].level
             b == BlockOf("HEADING", level, ParentForHeading(level), at)
  <2>1. /\ Reading /\ source[at].form = "heading" /\ fence = NoFence
        /\ blocks' = Append(blocks, b) /\ fence' = fence
        /\ at' = at + 1 /\ UNCHANGED <<source, result>>
    BY <1>5 DEF AddHeading, Outside, AddBlock, After
  <2>2. at \in 1..Len(source) /\ level \in 1..Levels /\ at \in Nat
        /\ Levels \in Nat
    BY <2>1, LineType, DocumentAssumption, LevelAssumption DEF Line, Typed
  <2> HIDE DEF level
  <2>3. ParentForHeading(level) \in Nat
    <3>1. level - 1 \in 0..Levels /\ 0..Len(blocks) \subseteq Nat
      BY <2>2 DEF Typed, TypeOK
    <3> QED BY <3>1, HeadingType DEF ParentForHeading
  <2>4. b \in Block /\ b.first = at /\ b.last = at /\ b.type = "HEADING"
    BY <2>2, <2>3 DEF BlockOf, Block, BlockType
  <2>5. Verbatim(source, b)
    BY <2>4 DEF Verbatim
  <2> HIDE DEF b
  <2> QED BY <2>1, <2>4, <2>5, AddBlockAccounted
<1>6. CASE AddPlain
  <2> DEFINE b == BlockOf(TypeOf(source[at]), 0, CurrentHeading, at)
  <2>1. /\ Reading /\ fence = NoFence /\ fence' = fence
        /\ source[at].form \notin {"blank", "nul"}
        /\ blocks' = Append(blocks, b)
        /\ at' = at + 1 /\ UNCHANGED <<source, result>>
    BY <1>6 DEF AddPlain, Outside, AddBlock, After, Plain
  <2>2. at \in Nat /\ CurrentHeading \in Nat /\ 0 \in 0..Levels
    <3>1. Levels \in 0..Levels /\ 0..Len(blocks) \subseteq Nat
          /\ 0 \in 0..Levels
      BY LevelAssumption DEF Typed, TypeOK
    <3> QED BY <3>1, HeadingType DEF CurrentHeading, Typed, TypeOK
  <2>3. TypeOf(source[at]) \in BlockType \ {"FENCED_CODE_BLOCK"}
    BY DEF TypeOf, BlockType
  <2>4. b \in Block /\ b.type # "FENCED_CODE_BLOCK"
        /\ b.first = at /\ b.last = at
    BY <2>2, <2>3 DEF BlockOf, Block
  <2>5. Verbatim(source, b)
    BY <2>4 DEF Verbatim
  <2> HIDE DEF b
  <2> QED BY <2>1, <2>4, <2>5, AddBlockAccounted
<1> QED
  BY <1>1, <1>2, <1>3, <1>4, <1>5, <1>6, FinishAccounted DEF Next

LEMMA AccountedInit == Init => Accounted
<1> SUFFICES ASSUME Init PROVE Accounted
  OBVIOUS
<1>1. Len(blocks) = 0 /\ at = 1 /\ fence = NoFence /\ result = "none"
  BY DEF Init
<1> QED BY <1>1 DEF Accounted

LEMMA AlwaysAccounted == Spec => []Accounted
<1>1. Typed /\ Accounted /\ [Next]_vars => Accounted'
  BY AccountedStep
<1> QED BY <1>1, AccountedInit, AlwaysTyped, PTL DEF Spec

\* Every line that was passed is blank or a line of exactly one block, and a
\* document is accepted only when it has been read to its end.
THEOREM AllLinesAccounted == Spec => []LinesAccounted
BY AlwaysAccounted, AlwaysTyped, AccountedGives, PTL

\* A code block ends at the first line that may end it.
THEOREM CodeStaysVerbatim == Spec => []CodeIsVerbatim
BY AlwaysAccounted, AlwaysTyped, AccountedGives, PTL

-----------------------------------------------------------------------------
(***************************************************************************)
(* The levels of blocks, and that an accepted document has some.           *)
(***************************************************************************)

LevelFits(b) == b.level \in (IF b.type = "HEADING" THEN 1..Levels ELSE {0})

Leveled ==
  /\ \A i \in 1..Len(blocks) : LevelFits(blocks[i])
  /\ result = "OK" => blocks # << >>

LEMMA LeveledAppend ==
  ASSUME Typed, Leveled, NEW b, LevelFits(b), blocks' = Append(blocks, b),
         result' = "none"
  PROVE  Leveled'
<1>1. /\ blocks \in Seq(Block) /\ Len(blocks) \in Nat
      /\ Len(blocks') = Len(blocks) + 1
      /\ \A i \in 1..Len(blocks) : blocks'[i] = blocks[i]
      /\ blocks'[Len(blocks) + 1] = b
  BY DEF Typed, TypeOK
<1>2. ASSUME NEW i \in 1..Len(blocks')
      PROVE  LevelFits(blocks'[i])
  <2>1. i \in 1..Len(blocks) \/ i = Len(blocks) + 1
    BY <1>1
  <2> QED BY <1>1, <2>1 DEF Leveled
<1> QED BY <1>2 DEF Leveled, LevelFits

LEMMA LeveledStep ==
  ASSUME Typed, Leveled, [Next]_vars
  PROVE  Leveled'
<1>1. CASE UNCHANGED vars \/ SkipBlank \/ OpenFence \/ SkipCode
  <2>1. blocks' = blocks /\ result' = result
    BY <1>1 DEF vars, SkipBlank, OpenFence, SkipCode
  <2> QED BY <2>1 DEF Leveled, LevelFits
<1>2. CASE TooManyBlocks \/ Unclosed \/ Finish
  <2>1. blocks' = blocks /\ (result' = "OK" => blocks # << >>)
    BY <1>2 DEF TooManyBlocks, Unclosed, Finish, Return
  <2> QED BY <2>1 DEF Leveled, LevelFits
<1>3. CASE CloseFence
  <2> DEFINE b == BlockOf("FENCED_CODE_BLOCK", 0, fence.parent, fence.first)
  <2>1. blocks' = Append(blocks, b) /\ result' = "none"
    BY <1>3 DEF CloseFence, AddBlock, Inside, Reading
  <2>2. LevelFits(b)
    BY DEF BlockOf, LevelFits
  <2> HIDE DEF b
  <2> QED BY <2>1, <2>2, LeveledAppend
<1>4. CASE AddHeading
  <2> DEFINE level == source[at].level
             b == BlockOf("HEADING", level, ParentForHeading(level), at)
  <2>1. /\ blocks' = Append(blocks, b) /\ result' = "none"
        /\ Reading /\ source[at].form = "heading"
    BY <1>4 DEF AddHeading, AddBlock, Outside, Reading
  <2>2. level \in 1..Levels
    <3>1. at \in 1..Len(source) /\ source[at] \in Line
      BY <2>1, LineType
    <3>2. level \in 0..Levels /\ level # 0
      BY <2>1, <3>1, DocumentAssumption DEF Line, Typed
    <3> QED BY <3>2, LevelAssumption
  <2>3. LevelFits(b)
    BY <2>2 DEF BlockOf, LevelFits
  <2> HIDE DEF b
  <2> QED BY <2>1, <2>3, LeveledAppend
<1>5. CASE AddPlain
  <2> DEFINE b == BlockOf(TypeOf(source[at]), 0, CurrentHeading, at)
  <2>1. blocks' = Append(blocks, b) /\ result' = "none"
    BY <1>5 DEF AddPlain, AddBlock, Outside, Reading
  <2>2. TypeOf(source[at]) # "HEADING"
    BY DEF TypeOf
  <2>3. LevelFits(b)
    BY <2>2 DEF BlockOf, LevelFits
  <2> HIDE DEF b
  <2> QED BY <2>1, <2>3, LeveledAppend
<1> QED BY <1>1, <1>2, <1>3, <1>4, <1>5 DEF Next

-----------------------------------------------------------------------------
(***************************************************************************)
(* The kinds of blocks: a block is what its first line says.               *)
(***************************************************************************)

Kind(line) ==
  IF line.form = "heading" THEN "HEADING"
  ELSE IF Opens(line) THEN "FENCED_CODE_BLOCK" ELSE TypeOf(line)

AsWritten(src, b) ==
  /\ b.type = Kind(src[b.first])
  /\ b.level = (IF src[b.first].form = "heading" THEN src[b.first].level
                ELSE 0)

Kinded ==
  /\ \A i \in 1..Len(blocks) : AsWritten(source, blocks[i])
  /\ fence # NoFence => Opens(source[fence.first])

LEMMA KindedAppend ==
  ASSUME Typed, Kinded, NEW b, AsWritten(source, b),
         blocks' = Append(blocks, b), source' = source,
         fence' = NoFence \/ fence' = fence
  PROVE  Kinded'
<1>1. /\ blocks \in Seq(Block) /\ Len(blocks) \in Nat
      /\ Len(blocks') = Len(blocks) + 1
      /\ \A i \in 1..Len(blocks) : blocks'[i] = blocks[i]
      /\ blocks'[Len(blocks) + 1] = b
  BY DEF Typed, TypeOK
<1>2. ASSUME NEW i \in 1..Len(blocks')
      PROVE  AsWritten(source, blocks'[i])
  <2>1. i \in 1..Len(blocks) \/ i = Len(blocks) + 1
    BY <1>1
  <2> QED BY <1>1, <2>1 DEF Kinded
<1> QED BY <1>2 DEF Kinded, AsWritten

LEMMA KindedStep ==
  ASSUME Typed, Kinded, [Next]_vars
  PROVE  Kinded'
<1>1. CASE UNCHANGED vars \/ SkipBlank \/ SkipCode \/ TooManyBlocks
             \/ Unclosed \/ Finish
  <2>1. UNCHANGED <<source, blocks, fence>>
    BY <1>1 DEF vars, SkipBlank, SkipCode, TooManyBlocks, Unclosed, Finish,
       Return
  <2> QED BY <2>1 DEF Kinded, AsWritten
<1>2. CASE OpenFence
  <2>1. /\ UNCHANGED <<source, blocks>> /\ Opens(source[at])
        /\ fence'.first = at
    BY <1>2 DEF OpenFence
  <2> QED BY <2>1 DEF Kinded, AsWritten
<1>3. CASE CloseFence
  <2> DEFINE b == BlockOf("FENCED_CODE_BLOCK", 0, fence.parent, fence.first)
  <2>1. /\ blocks' = Append(blocks, b) /\ source' = source
        /\ fence' = NoFence /\ fence # NoFence
    BY <1>3 DEF CloseFence, AddBlock, Inside
  <2>2. AsWritten(source, b)
    <3>1. Opens(source[fence.first]) /\ source[fence.first].form = "fence"
      BY <2>1 DEF Kinded, Opens
    <3>2. /\ b.type = "FENCED_CODE_BLOCK" /\ b.level = 0
          /\ b.first = fence.first
      BY DEF BlockOf
    <3> QED BY <3>1, <3>2 DEF AsWritten, Kind
  <2> HIDE DEF b
  <2> QED BY <2>1, <2>2, KindedAppend
<1>4. CASE AddHeading
  <2> DEFINE level == source[at].level
             b == BlockOf("HEADING", level, ParentForHeading(level), at)
  <2>1. /\ blocks' = Append(blocks, b) /\ source' = source
        /\ fence' = fence /\ source[at].form = "heading"
    BY <1>4 DEF AddHeading, AddBlock
  <2>2. AsWritten(source, b)
    <3>1. b.type = "HEADING" /\ b.level = level /\ b.first = at
      BY DEF BlockOf
    <3> QED BY <2>1, <3>1 DEF AsWritten, Kind
  <2> HIDE DEF b
  <2> QED BY <2>1, <2>2, KindedAppend
<1>5. CASE AddPlain
  <2> DEFINE b == BlockOf(TypeOf(source[at]), 0, CurrentHeading, at)
  <2>1. /\ blocks' = Append(blocks, b) /\ source' = source
        /\ fence' = fence /\ Plain(source[at])
    BY <1>5 DEF AddPlain, AddBlock
  <2>2. AsWritten(source, b)
    <3>1. b.type = TypeOf(source[at]) /\ b.level = 0 /\ b.first = at
      BY DEF BlockOf
    <3>2. source[at].form # "heading" /\ ~Opens(source[at])
      BY <2>1 DEF Plain
    <3> QED BY <3>1, <3>2 DEF AsWritten, Kind
  <2> HIDE DEF b
  <2> QED BY <2>1, <2>2, KindedAppend
<1> QED BY <1>1, <1>2, <1>3, <1>4, <1>5 DEF Next

LEMMA KindedInit == Init => Kinded
<1> SUFFICES ASSUME Init PROVE Kinded
  OBVIOUS
<1>1. Len(blocks) = 0 /\ fence = NoFence
  BY DEF Init
<1> QED BY <1>1 DEF Kinded

-----------------------------------------------------------------------------
(***************************************************************************)
(* The artifact between the two stages. The parser has not been started,   *)
(* or its invariants hold; what it accepted is what the chunker reads.     *)
(***************************************************************************)

Parser == Typed /\ Stacked /\ Accounted /\ Leveled /\ Kinded

NotStarted ==
  /\ source = << >> /\ at = 1 /\ fence = NoFence /\ blocks = << >>
  /\ result = "none"

\* The chunker has the document, or has written what it made of it.
Given == pc \in {"read", "build", "write"} \/ artifact.state = "whole"

Passing ==
  /\ pc \in {"wait", "read", "build", "write", "done"}
  /\ artifact.state = "whole" => pc = "done"
  /\ \/ NotStarted /\ pc # "wait"
     \/ Parser /\ (Given => result = "OK" /\ document = Structured)

LEMMA ParserInit == Init => Parser
<1>1. Init => Leveled
  <2> SUFFICES ASSUME Init PROVE Leveled
    OBVIOUS
  <2>1. Len(blocks) = 0 /\ result = "none"
    BY DEF Init
  <2> QED BY <2>1 DEF Leveled
<1> QED BY <1>1, TypedInit, StackedInit, AccountedInit, KindedInit DEF Parser

LEMMA ParserStep == Parser /\ [Next]_vars => Parser'
BY TypedStep, StackedStep, AccountedStep, LeveledStep, KindedStep
   DEF Parser

LEMMA PassingInit == DocumentInit => Passing
<1> SUFFICES ASSUME DocumentInit PROVE Passing
  OBVIOUS
<1>1. artifact.state # "whole" /\ pc \in {"wait", "read"}
  BY DEF DocumentInit, C!Init, C!NoArtifact
<1>2. CASE Init /\ pc = "wait"
  BY <1>1, <1>2, ParserInit DEF Passing, Given
<1>3. CASE NotStarted /\ pc = "read"
  BY <1>1, <1>3 DEF Passing
<1> QED BY <1>2, <1>3 DEF DocumentInit, NotStarted, C!Init

\* The chunker reads once, and a whole artifact is the end.
LEMMA ChunkMoves ==
  ASSUME C!Next
  PROVE  /\ pc # "done" /\ pc' \in {"build", "write", "done"}
         /\ document' = document
         /\ artifact'.state = "whole" =>
              pc' = "done" \/ artifact.state = "whole"
<1>1. artifact' = artifact \/ artifact' = C!TornArtifact \/ C!Write
  BY DEF C!Next, C!Step, C!Crash, C!Reject, C!Accept, C!TakeHeading,
         C!TakeAtomic, C!StartChunk, C!ExtendChunk, C!SplitChunk, C!Finish,
         C!OutOfMemory, C!WriteFails, C!Advance
<1>2. C!Write => pc' = "done"
  BY DEF C!Write, C!Stop
<1>3. C!TornArtifact.state # "whole"
  BY DEF C!TornArtifact
<1>4. pc # "done" /\ pc' \in {"build", "write", "done"}
      /\ document' = document
  BY DEF C!Next, C!Step, C!Crash, C!Reject, C!Accept, C!TakeHeading,
         C!TakeAtomic, C!StartChunk, C!ExtendChunk, C!SplitChunk, C!Finish,
         C!OutOfMemory, C!Write, C!WriteFails, C!Stop, C!Advance,
         C!Building, C!Ordinary
<1> QED BY <1>1, <1>2, <1>3, <1>4

LEMMA PassingStep ==
  ASSUME Passing, [DocumentNext]_documentVars
  PROVE  Passing'
<1>1. CASE UNCHANGED documentVars
  <2>1. /\ UNCHANGED vars /\ pc' = pc /\ document' = document
        /\ artifact' = artifact
    BY <1>1 DEF documentVars, vars
  <2>2. Parser => Parser'
    BY <2>1, ParserStep
  <2>3. UNCHANGED <<source, at, fence, blocks, result>>
    BY <2>1 DEF vars
  <2>4. Structured' = Structured
    BY <2>3 DEF Structured, TextSize
  <2> QED BY <2>1, <2>2, <2>3, <2>4 DEF Passing, NotStarted, Given
<1>2. CASE Parse
  <2>1. /\ pc = "wait" /\ pc' = "wait" /\ Next /\ artifact' = artifact
        /\ artifact.state # "whole"
    BY <1>2 DEF Parse, chunkerVars, Passing
  <2>2. Parser'
    BY <2>1, ParserStep DEF Passing
  <2> QED BY <2>1, <2>2 DEF Passing, Given
<1>3. CASE WriteStructured
  <2>1. /\ pc = "wait" /\ pc' = "read" /\ result = "OK"
        /\ document' = Structured /\ UNCHANGED vars
        /\ artifact' = artifact
    BY <1>3 DEF WriteStructured
  <2>2. Parser' /\ artifact.state # "whole"
    BY <2>1, ParserStep DEF Passing
  <2>3. result' = "OK" /\ blocks' = blocks
    BY <2>1 DEF vars
  <2>4. Structured' = Structured
    BY <2>3 DEF Structured, TextSize
  <2> QED BY <2>1, <2>2, <2>3, <2>4 DEF Passing
<1>4. CASE StageFails
  <2>1. /\ pc = "wait" /\ pc' = "done" /\ UNCHANGED vars
        /\ artifact' = artifact
    BY <1>4 DEF StageFails
  <2>2. Parser' /\ artifact.state # "whole"
    BY <2>1, ParserStep DEF Passing
  <2> QED BY <2>1, <2>2 DEF Passing, Given
<1>5. CASE Chunk
  <2>1. pc # "wait" /\ UNCHANGED vars /\ C!Next
    BY <1>5 DEF Chunk
  <2>2. /\ pc \in {"read", "build", "write"} /\ artifact.state # "whole"
        /\ pc' \in {"build", "write", "done"} /\ document' = document
        /\ artifact'.state = "whole" => pc' = "done"
    BY <2>1, ChunkMoves DEF Passing
  <2>3. Parser => Parser'
    BY <2>1, ParserStep
  <2>4. UNCHANGED <<source, at, fence, blocks, result>>
    BY <2>1 DEF vars
  <2>5. Structured' = Structured
    BY <2>4 DEF Structured, TextSize
  <2> QED BY <2>2, <2>3, <2>4, <2>5 DEF Passing, NotStarted, Given
<1> QED BY <1>1, <1>2, <1>3, <1>4, <1>5 DEF DocumentNext

LEMMA AlwaysPassing == DocumentSpec => []Passing
BY PassingInit, PassingStep, PTL DEF DocumentSpec

\* What the parser has found goes through the artifact unchanged.
LEMMA StructuredBlocks ==
  ASSUME Typed
  PROVE  /\ Len(Structured) = Len(blocks) /\ Len(blocks) \in Nat
         /\ \A i \in 1..Len(blocks) :
              /\ Structured[i].type = blocks[i].type
              /\ Structured[i].level = blocks[i].level
              /\ Structured[i].parent = blocks[i].parent
              /\ Structured[i].wellFormed = TRUE
<1>1. Len(blocks) \in Nat
  BY DEF Typed, TypeOK
<1> QED BY <1>1 DEF Structured

\* The parser and the chunker agree on what stands in the artifact: all that
\* the first one accepts, the second one takes.
THEOREM ParserOutputFits == DocumentSpec => []ParserOutputIsAccepted
<1>1. ASSUME Passing PROVE ParserOutputIsAccepted
  <2> SUFFICES ASSUME result = "OK", pc = "read" PROVE C!Valid
    BY DEF ParserOutputIsAccepted
  <2>1. Parser /\ document = Structured
    BY <1>1 DEF Passing, NotStarted, Given
  <2>2. /\ Len(document) = Len(blocks) /\ Len(blocks) \in Nat
        /\ \A i \in 1..Len(blocks) :
             /\ document[i].type = blocks[i].type
             /\ document[i].level = blocks[i].level
             /\ document[i].parent = blocks[i].parent
             /\ document[i].wellFormed = TRUE
    BY <2>1, StructuredBlocks DEF Parser
  <2>3. document # << >>
    <3>1. blocks # << >> /\ blocks \in Seq(Block)
      BY <2>1 DEF Parser, Leveled, Typed, TypeOK
    <3>2. Len(document) # 0
      BY <2>2, <3>1
    <3> QED BY <3>2
  <2>4. ASSUME NEW i \in 1..Len(document)
        PROVE  /\ document[i].wellFormed
               /\ document[i].level \in (IF document[i].type = "HEADING"
                                         THEN 1..Levels ELSE {0})
    BY <2>1, <2>2 DEF Parser, Leveled, LevelFits
  <2>5. ASSUME NEW i \in 1..Len(document), document[i].parent # C!NoParent
        PROVE  /\ document[i].parent < i
               /\ document[document[i].parent].type = "HEADING"
    <3>1. blocks[i].parent \in Above(i)
      BY <2>1, <2>2, <2>5 DEF Parser, Stacked, ParentIsEnclosing, NoParent,
         C!NoParent
    <3>2. blocks[i].parent \in Headings /\ blocks[i].parent < i
      BY <3>1 DEF Above
    <3> QED BY <2>2, <3>2 DEF Headings
  <2> QED BY <2>3, <2>4, <2>5 DEF C!Valid
<1> QED BY <1>1, AlwaysPassing, PTL

\* The parser's own properties hold of it as the first of the two stages.
THEOREM ParserIsSoundInRun ==
  DocumentSpec => [](ParentIsEnclosing /\ LinesAccounted /\ CodeIsVerbatim)
<1>1. Parser => ParentIsEnclosing /\ LinesAccounted /\ CodeIsVerbatim
  BY AccountedGives DEF Parser, Stacked
<1>2. NotStarted => ParentIsEnclosing /\ LinesAccounted /\ CodeIsVerbatim
  <2> SUFFICES ASSUME NotStarted
               PROVE  ParentIsEnclosing /\ LinesAccounted /\ CodeIsVerbatim
    OBVIOUS
  <2>1. Len(blocks) = 0 /\ at = 1 /\ result = "none"
    BY DEF NotStarted
  <2> QED BY <2>1 DEF ParentIsEnclosing, LinesAccounted, CodeIsVerbatim
<1> QED BY <1>1, <1>2, AlwaysPassing, PTL DEF Passing

-----------------------------------------------------------------------------
(***************************************************************************)
(* The chunks. A chunk is a stretch of the document: its first block says  *)
(* which ones it has. The chunk that is gathered ends at the last block    *)
(* taken, so that the next one continues it.                               *)
(***************************************************************************)

LastOf(ch) == ch.blocks[Len(ch.blocks)]

Stretch(ch, n) ==
  /\ ch.blocks \in Seq(Nat \ {0}) /\ Len(ch.blocks) # 0
  /\ LastOf(ch) <= n
  /\ \A k \in 1..Len(ch.blocks) :
       /\ ch.blocks[k] = ch.blocks[1] + k - 1
       /\ document[ch.blocks[k]].type # "HEADING"
       /\ document[ch.blocks[k]].parent = ch.parent
       /\ C!StandsAlone(ch.blocks[k]) => Len(ch.blocks) = 1

\* The blocks up to n have gone into the chunks g.
Gone(g, n) ==
  /\ Len(g) \in Nat
  /\ \A c \in 1..Len(g) : Stretch(g[c], n)
  /\ \A c, d \in 1..Len(g) : c < d => LastOf(g[c]) < g[d].blocks[1]
  /\ \A i \in 1..n : document[i].type # "HEADING" =>
       \E c \in 1..Len(g) : \E k \in 1..Len(g[c].blocks) : g[c].blocks[k] = i

Gathering ==
  /\ document \in Seq(C!SourceBlock)
  /\ pc \in {"wait", "read"} => pos = 1
  /\ pc \notin {"build", "write"} =>
       chunks = << >> /\ current = C!EmptyChunk
  /\ pc \in {"build", "write"} =>
       /\ pos \in 1..(Len(document) + 1)
       /\ current \in C!Chunk /\ chunks \in Seq(C!Chunk)
       /\ Gone(C!Gathered, pos - 1)
       /\ current.blocks # << >> =>
            /\ LastOf(current) = pos - 1
            /\ ~C!StandsAlone(LastOf(current))
  /\ pc = "write" => pos = Len(document) + 1 /\ current = C!EmptyChunk
  /\ artifact.state = "whole" => Gone(artifact.chunks, Len(document))

\* The chunk of one block, put behind the chunks so far.
LEMMA GoneAppend ==
  ASSUME NEW g, g \in Seq(C!Chunk), NEW n \in Nat, Gone(g, n),
         NEW ch \in C!Chunk, ch.blocks = <<n + 1>>,
         ch.parent = document[n + 1].parent,
         document[n + 1].type # "HEADING"
  PROVE  Gone(Append(g, ch), n + 1)
<1> DEFINE h == Append(g, ch)
<1>1. /\ Len(g) \in Nat /\ Len(h) = Len(g) + 1
      /\ \A c \in 1..Len(g) : h[c] = g[c]
      /\ h[Len(g) + 1] = ch
  OBVIOUS
<1> HIDE DEF h
<1>2. /\ Len(ch.blocks) = 1 /\ ch.blocks[1] = n + 1 /\ LastOf(ch) = n + 1
      /\ ch.blocks \in Seq(Nat \ {0})
  BY DEF LastOf, C!Chunk
<1>3. ASSUME NEW c \in 1..Len(g)
      PROVE  Stretch(g[c], n + 1) /\ LastOf(g[c]) < n + 1
  <2>1. Stretch(g[c], n)
    BY <1>3 DEF Gone
  <2>2. LastOf(g[c]) \in Nat
    <3>1. g[c].blocks \in Seq(Nat \ {0}) /\ Len(g[c].blocks) # 0
      BY <2>1 DEF Stretch
    <3> QED BY <3>1, ElementOfSeq DEF LastOf
  <2> QED BY <2>1, <2>2 DEF Stretch
<1>4. Stretch(ch, n + 1)
  BY <1>2 DEF Stretch
<1>5. ASSUME NEW c \in 1..Len(h)
      PROVE  Stretch(h[c], n + 1)
  <2>1. c \in 1..Len(g) \/ c = Len(g) + 1
    BY <1>1
  <2> QED BY <1>1, <1>3, <1>4, <2>1
<1>6. ASSUME NEW c \in 1..Len(h), NEW d \in 1..Len(h), c < d
      PROVE  LastOf(h[c]) < h[d].blocks[1]
  <2>1. c \in 1..Len(g) /\ (d \in 1..Len(g) \/ d = Len(g) + 1)
    BY <1>1, <1>6
  <2>2. CASE d \in 1..Len(g)
    BY <1>1, <1>6, <2>1, <2>2 DEF Gone
  <2>3. CASE d = Len(g) + 1
    BY <1>1, <1>2, <1>3, <2>1, <2>3
  <2> QED BY <2>1, <2>2, <2>3
<1>7. ASSUME NEW i \in 1..(n + 1), document[i].type # "HEADING"
      PROVE  \E c \in 1..Len(h) : \E k \in 1..Len(h[c].blocks) :
               h[c].blocks[k] = i
  <2>1. CASE i = n + 1
    <3>1. Len(h) \in 1..Len(h) /\ h[Len(h)] = ch /\ 1 \in 1..Len(ch.blocks)
      BY <1>1, <1>2
    <3> QED BY <1>2, <2>1, <3>1
  <2>2. CASE i # n + 1
    <3>1. i \in 1..n
      BY <2>2
    <3>2. PICK c \in 1..Len(g) : \E k \in 1..Len(g[c].blocks) :
            g[c].blocks[k] = i
      BY <1>7, <3>1 DEF Gone
    <3>3. c \in 1..Len(h) /\ h[c] = g[c]
      BY <1>1
    <3> QED BY <3>2, <3>3
  <2> QED BY <2>1, <2>2
<1>8. Gone(h, n + 1)
  BY <1>1, <1>5, <1>6, <1>7 DEF Gone
<1> QED BY <1>8 DEF h

\* A block more in the last of the chunks.
LEMMA GoneExtend ==
  ASSUME NEW g, g \in Seq(C!Chunk), NEW n \in Nat,
         NEW old \in C!Chunk, Gone(Append(g, old), n),
         LastOf(old) = n, ~C!StandsAlone(n), ~C!StandsAlone(n + 1),
         NEW ch \in C!Chunk, ch.blocks = Append(old.blocks, n + 1),
         ch.parent = old.parent, ch.parent = document[n + 1].parent,
         document[n + 1].type # "HEADING"
  PROVE  Gone(Append(g, ch), n + 1)
<1> DEFINE h == Append(g, ch)
           o == Append(g, old)
           size == Len(old.blocks)
<1>1. /\ Len(g) \in Nat /\ Len(h) = Len(g) + 1 /\ Len(o) = Len(g) + 1
      /\ \A c \in 1..Len(g) : h[c] = g[c] /\ o[c] = g[c]
      /\ h[Len(g) + 1] = ch /\ o[Len(g) + 1] = old
  OBVIOUS
<1>0. Gone(o, n)
  OBVIOUS
<1> HIDE DEF h, o
<1>2. Stretch(old, n)
  <2>1. Len(o) \in 1..Len(o) /\ o[Len(o)] = old
    BY <1>1
  <2> QED BY <1>0, <2>1 DEF Gone
<1>3. /\ size \in Nat \ {0} /\ Len(ch.blocks) = size + 1
      /\ \A k \in 1..size : ch.blocks[k] = old.blocks[k]
      /\ ch.blocks[size + 1] = n + 1
      /\ ch.blocks[1] = old.blocks[1]
      /\ ch.blocks \in Seq(Nat \ {0})
  <2>1. old.blocks \in Seq(Nat \ {0}) /\ Len(old.blocks) # 0
    BY <1>2 DEF Stretch
  <2> QED BY <2>1 DEF C!Chunk
<1>4. n = old.blocks[1] + size - 1 /\ old.blocks[1] \in Nat
  <2>1. size \in 1..size /\ 1 \in 1..size
    BY <1>3
  <2>2. old.blocks[size] = old.blocks[1] + size - 1
    BY <1>2, <2>1 DEF Stretch
  <2>3. old.blocks[1] \in Nat \ {0}
    BY <1>2, <2>1, ElementOfSeq DEF Stretch
  <2> QED BY <2>2, <2>3 DEF LastOf
<1>5. \A k \in 1..size : ~C!StandsAlone(old.blocks[k])
  <2> SUFFICES ASSUME NEW k \in 1..size, C!StandsAlone(old.blocks[k])
               PROVE  FALSE
    OBVIOUS
  <2>1. size = 1
    BY <1>2 DEF Stretch
  <2>2. old.blocks[k] = n
    BY <2>1 DEF LastOf
  <2> QED BY <2>2
<1> HIDE DEF size
<1>6. Stretch(ch, n + 1)
  <2>1. LastOf(ch) = n + 1
    BY <1>3 DEF LastOf
  <2>2. ASSUME NEW k \in 1..Len(ch.blocks)
        PROVE  /\ ch.blocks[k] = ch.blocks[1] + k - 1
               /\ document[ch.blocks[k]].type # "HEADING"
               /\ document[ch.blocks[k]].parent = ch.parent
               /\ ~C!StandsAlone(ch.blocks[k])
    <3>1. k \in 1..size \/ k = size + 1
      BY <1>3
    <3>2. CASE k \in 1..size
      <4>1. /\ old.blocks[k] = old.blocks[1] + k - 1
            /\ document[old.blocks[k]].type # "HEADING"
            /\ document[old.blocks[k]].parent = old.parent
        BY <1>2, <3>2 DEF Stretch, size
      <4> QED BY <1>3, <1>5, <3>2, <4>1
    <3>3. CASE k = size + 1
      BY <1>3, <1>4, <3>3
    <3> QED BY <3>1, <3>2, <3>3
  <2>3. Len(ch.blocks) # 0 /\ ch.blocks \in Seq(Nat \ {0})
    BY <1>3
  <2> QED BY <2>1, <2>2, <2>3 DEF Stretch
<1>7. ASSUME NEW c \in 1..Len(g)
      PROVE  /\ Stretch(g[c], n + 1)
             /\ LastOf(g[c]) < ch.blocks[1]
  <2>1. c \in 1..Len(o) /\ Len(o) \in 1..Len(o) /\ c < Len(o)
        /\ o[c] = g[c] /\ o[Len(o)] = old
    BY <1>1
  <2>2. Stretch(g[c], n) /\ LastOf(g[c]) < old.blocks[1]
    BY <1>0, <2>1 DEF Gone
  <2>3. LastOf(g[c]) \in Nat
    <3>1. g[c].blocks \in Seq(Nat \ {0}) /\ Len(g[c].blocks) # 0
      BY <2>2 DEF Stretch
    <3> QED BY <3>1, ElementOfSeq DEF LastOf
  <2> QED BY <1>3, <2>2, <2>3 DEF Stretch
<1>8. ASSUME NEW c \in 1..Len(h)
      PROVE  Stretch(h[c], n + 1)
  <2>1. c \in 1..Len(g) \/ c = Len(g) + 1
    BY <1>1
  <2> QED BY <1>1, <1>6, <1>7, <2>1
<1>9. ASSUME NEW c \in 1..Len(h), NEW d \in 1..Len(h), c < d
      PROVE  LastOf(h[c]) < h[d].blocks[1]
  <2>0. c \in Nat /\ d \in Nat /\ 1 <= c /\ c < d /\ d <= Len(g) + 1
        /\ Len(g) \in Nat
    BY <1>1, <1>9
  <2>1. c \in 1..Len(g) /\ (d \in 1..Len(g) \/ d = Len(g) + 1)
    BY <2>0
  <2>2. CASE d \in 1..Len(g)
    <3>1. c \in 1..Len(o) /\ d \in 1..Len(o) /\ o[c] = g[c] /\ o[d] = g[d]
      BY <1>1, <2>1, <2>2
    <3>2. LastOf(o[c]) < o[d].blocks[1]
      BY <1>0, <1>9, <3>1 DEF Gone
    <3> QED BY <1>1, <2>1, <2>2, <3>1, <3>2
  <2>3. CASE d = Len(g) + 1
    BY <1>1, <1>7, <2>1, <2>3
  <2> QED BY <2>1, <2>2, <2>3
<1>10. ASSUME NEW i \in 1..(n + 1), document[i].type # "HEADING"
       PROVE  \E c \in 1..Len(h) : \E k \in 1..Len(h[c].blocks) :
                h[c].blocks[k] = i
  <2>0. Len(h) \in 1..Len(h) /\ h[Len(h)] = ch /\ Len(h) = Len(o)
        /\ o[Len(o)] = old /\ size + 1 \in 1..Len(ch.blocks)
    BY <1>1, <1>3
  <2>1. CASE i = n + 1
    BY <1>3, <2>0, <2>1
  <2>2. CASE i # n + 1
    <3>1. i \in 1..n
      BY <2>2
    <3>2. PICK c \in 1..Len(o) : \E k \in 1..Len(o[c].blocks) :
            o[c].blocks[k] = i
      BY <1>0, <1>10, <3>1 DEF Gone
    <3>3. CASE c \in 1..Len(g)
      <4>1. c \in 1..Len(h) /\ h[c] = o[c]
        BY <1>1, <3>3
      <4> QED BY <3>2, <4>1
    <3>4. CASE c = Len(o)
      <4>1. PICK k \in 1..Len(old.blocks) : old.blocks[k] = i
        BY <2>0, <3>2, <3>4
      <4>2. k \in 1..Len(ch.blocks) /\ ch.blocks[k] = i
        BY <1>3, <4>1 DEF size
      <4> QED BY <2>0, <4>2
    <3> QED BY <1>1, <3>3, <3>4
  <2> QED BY <2>1, <2>2
<1>11. Gone(h, n + 1)
  BY <1>1, <1>8, <1>9, <1>10 DEF Gone
<1> QED BY <1>11 DEF h

\* A heading goes into no chunk.
LEMMA GoneHeading ==
  ASSUME NEW g, NEW n \in Nat, Gone(g, n), document[n + 1].type = "HEADING"
  PROVE  Gone(g, n + 1)
<1>1. ASSUME NEW c \in 1..Len(g)
      PROVE  Stretch(g[c], n + 1)
  <2>1. Stretch(g[c], n)
    BY DEF Gone
  <2>2. LastOf(g[c]) \in Nat
    <3>1. g[c].blocks \in Seq(Nat \ {0}) /\ Len(g[c].blocks) # 0
      BY <2>1 DEF Stretch
    <3> QED BY <3>1, ElementOfSeq DEF LastOf
  <2> QED BY <2>1, <2>2 DEF Stretch
<1>2. ASSUME NEW i \in 1..(n + 1), document[i].type # "HEADING"
      PROVE  i \in 1..n
  BY <1>2
<1> QED BY <1>1, <1>2 DEF Gone

LEMMA GatheredType ==
  ASSUME Gathering, pc \in {"build", "write"}
  PROVE  C!Gathered \in Seq(C!Chunk)
BY DEF Gathering, C!Gathered, C!Committed

\* The block to look at next, and the chunk it makes by itself.
LEMMA NextBlock ==
  ASSUME Gathering, C!Building
  PROVE  /\ pc = "build" /\ pos \in Nat \ {0} /\ pos <= Len(document)
         /\ Len(document) \in Nat /\ document[pos] \in C!SourceBlock
         /\ C!ChunkOf(pos) \in C!Chunk
         /\ C!ChunkOf(pos).blocks = <<pos>>
         /\ C!ChunkOf(pos).parent = document[pos].parent
<1>1. /\ pc = "build" /\ pos \in Nat \ {0} /\ pos <= Len(document)
      /\ Len(document) \in Nat /\ document \in Seq(C!SourceBlock)
  BY DEF Gathering, C!Building
<1>2. document[pos] \in C!SourceBlock
  BY <1>1, ElementOfSeq
<1>3. document[pos].parent \in Nat /\ document[pos].size \in Nat
  BY <1>2 DEF C!SourceBlock
<1>4. <<pos>> \in Seq(Nat \ {0})
  BY <1>1
<1> QED BY <1>1, <1>2, <1>3, <1>4 DEF C!ChunkOf, C!Chunk

\* What a step of the gathering comes to: the block is passed, and the
\* invariant holds of the chunks as they are then.
LEMMA GatheringAdvance ==
  ASSUME Gathering, Passing, C!Building, C!Advance,
         current' \in C!Chunk, chunks' \in Seq(C!Chunk),
         Gone(C!Gathered', pos),
         current'.blocks # << >> =>
           /\ LastOf(current') = pos
           /\ ~C!StandsAlone(LastOf(current'))
  PROVE  Gathering'
<1>1. /\ pc = "build" /\ pos \in Nat \ {0} /\ pos <= Len(document)
      /\ Len(document) \in Nat
  BY NextBlock
<1>2. /\ pos' = pos + 1 /\ document' = document /\ pc' = "build"
      /\ artifact' = artifact
  BY <1>1 DEF C!Advance
<1>3. artifact.state # "whole"
  BY <1>1 DEF Passing
<1>4. pos' \in 1..(Len(document') + 1) /\ pos' - 1 = pos
  BY <1>1, <1>2
<1> DEFINE g == C!Gathered'
           m == pos' - 1
<1>5. Gone(C!Gathered, pos - 1)'
  <2>1. Gone(g, m)
    BY <1>4
  <2> QED BY <1>2, <2>1 DEF Gone, Stretch, LastOf, C!StandsAlone
<1>6. current'.blocks # << >> =>
        /\ LastOf(current)' = pos' - 1
        /\ ~C!StandsAlone(LastOf(current))'
  <2> SUFFICES ASSUME current'.blocks # << >>
               PROVE  /\ LastOf(current)' = pos' - 1
                      /\ ~C!StandsAlone(LastOf(current))'
    OBVIOUS
  <2>1. LastOf(current)' = pos
    BY DEF LastOf
  <2>2. ~C!StandsAlone(pos)
    OBVIOUS
  <2> QED BY <1>2, <1>4, <2>1, <2>2 DEF C!StandsAlone
<1>7. document' \in Seq(C!SourceBlock)
  BY <1>2 DEF Gathering
<1> QED BY <1>2, <1>3, <1>4, <1>5, <1>6, <1>7 DEF Gathering

LEMMA GatheringTakes ==
  ASSUME Gathering, Passing,
         C!TakeHeading \/ C!TakeAtomic \/ C!StartChunk \/ C!SplitChunk
  PROVE  Gathering'
<1> DEFINE g == C!Gathered
           one == C!ChunkOf(pos)
<1>1. C!Building /\ C!Advance
  BY DEF C!TakeHeading, C!TakeAtomic, C!StartChunk, C!SplitChunk, C!Ordinary
<1>2. /\ pc = "build" /\ pos \in Nat \ {0} /\ pos <= Len(document)
      /\ one \in C!Chunk /\ one.blocks = <<pos>>
      /\ one.parent = document[pos].parent
  BY <1>1, NextBlock
<1>3. /\ g \in Seq(C!Chunk) /\ Gone(g, pos - 1) /\ pos - 1 \in Nat
      /\ (pos - 1) + 1 = pos
      /\ current \in C!Chunk /\ chunks \in Seq(C!Chunk)
  BY <1>2, GatheredType DEF Gathering
<1>4. /\ C!EmptyChunk \in C!Chunk /\ C!EmptyChunk.blocks = << >>
      /\ one.blocks # << >> /\ LastOf(one) = pos
  BY <1>2 DEF C!EmptyChunk, C!Chunk, C!NoParent, LastOf
<1>5. /\ current.blocks = << >> => g = chunks
      /\ g = C!Committed(current)
      /\ C!Gathered' = IF current'.blocks = << >> THEN chunks'
                       ELSE Append(chunks', current')
  BY DEF C!Gathered, C!Committed
<1> HIDE DEF g, one
<1>6. CASE C!TakeHeading
  <2>1. /\ chunks' = g /\ current' = C!EmptyChunk
        /\ document[pos].type = "HEADING"
    BY <1>5, <1>6 DEF C!TakeHeading, C!Heading
  <2>2. Gone(g, (pos - 1) + 1)
    BY <1>3, <2>1, GoneHeading
  <2>3. C!Gathered' = g
    BY <1>4, <1>5, <2>1
  <2> QED BY <1>1, <1>3, <1>4, <2>1, <2>2, <2>3, GatheringAdvance
<1>7. ASSUME document[pos].type # "HEADING"
      PROVE  Gone(Append(g, one), pos) /\ Append(g, one) \in Seq(C!Chunk)
  <2>1. Gone(Append(g, one), (pos - 1) + 1)
    BY <1>2, <1>3, <1>7, GoneAppend
  <2> QED BY <1>2, <1>3, <2>1
<1>8. CASE C!TakeAtomic
  <2>1. /\ chunks' = Append(g, one) /\ current' = C!EmptyChunk
        /\ document[pos].type # "HEADING"
    BY <1>5, <1>8 DEF C!TakeAtomic, C!IsAtomic, one
  <2>2. C!Gathered' = Append(g, one)
    BY <1>4, <1>5, <2>1
  <2> QED BY <1>1, <1>4, <1>7, <2>1, <2>2, GatheringAdvance
<1>9. CASE C!StartChunk \/ C!SplitChunk
  <2>1. /\ chunks' = g /\ current' = one
        /\ document[pos].type # "HEADING" /\ ~C!StandsAlone(pos)
    BY <1>5, <1>9 DEF C!StartChunk, C!SplitChunk, C!Ordinary, C!Heading,
       C!IsAtomic, C!StandsAlone, one
  <2>2. C!Gathered' = Append(g, one)
    BY <1>4, <1>5, <2>1
  <2> QED BY <1>1, <1>2, <1>3, <1>4, <1>7, <2>1, <2>2, GatheringAdvance
<1> QED BY <1>6, <1>8, <1>9

LEMMA GatheringExtends ==
  ASSUME Gathering, Passing, C!ExtendChunk
  PROVE  Gathering'
<1> DEFINE g == C!Gathered
           n == pos - 1
<1>1. C!Building /\ C!Advance /\ chunks' = chunks
  BY DEF C!ExtendChunk, C!Ordinary
<1>2. /\ pc = "build" /\ pos \in Nat \ {0} /\ pos <= Len(document)
      /\ document[pos] \in C!SourceBlock /\ n \in Nat /\ n + 1 = pos
  BY <1>1, NextBlock
<1>3. /\ Gone(g, n) /\ current \in C!Chunk /\ chunks \in Seq(C!Chunk)
      /\ current.blocks # << >> /\ g = Append(chunks, current)
      /\ LastOf(current) = n /\ ~C!StandsAlone(n)
  BY <1>2 DEF Gathering, C!ExtendChunk, C!Gathered, C!Committed
<1>4. /\ document[pos].type # "HEADING" /\ ~C!StandsAlone(pos)
      /\ current.parent = document[pos].parent
  BY DEF C!ExtendChunk, C!Ordinary, C!Heading, C!IsAtomic, C!StandsAlone,
         C!Joins, C!SameParent
<1>5. /\ current'.blocks = Append(current.blocks, pos)
      /\ current'.parent = current.parent
      /\ current' = [blocks |-> Append(current.blocks, pos),
                     parent |-> current.parent, size |-> C!Proposed(pos)]
  BY DEF C!ExtendChunk
<1>6. current.blocks \in Seq(Nat \ {0}) /\ current.size \in Nat
      /\ current.parent \in Nat
  BY <1>3 DEF C!Chunk
<1>7. C!Proposed(pos) \in Nat
  <2>1. document[pos].size \in Nat
    BY <1>2 DEF C!SourceBlock
  <2> QED BY <1>6, <2>1 DEF C!Proposed, C!Separator
<1>8. Append(current.blocks, pos) \in Seq(Nat \ {0})
  BY <1>2, <1>6
<1>9. current' \in C!Chunk
  BY <1>5, <1>6, <1>7, <1>8 DEF C!Chunk
<1>10. current'.blocks # << >> /\ LastOf(current') = pos
  BY <1>2, <1>5, <1>6 DEF LastOf
<1>11. C!Gathered' = Append(chunks, current')
  BY <1>1, <1>10 DEF C!Gathered, C!Committed
<1> HIDE DEF g, n
<1>12. Gone(Append(chunks, current'), n + 1)
  <2>1. Gone(Append(chunks, current), n)
    BY <1>3
  <2>2. /\ current'.blocks = Append(current.blocks, n + 1)
        /\ current'.parent = document[n + 1].parent
        /\ document[n + 1].type # "HEADING" /\ ~C!StandsAlone(n + 1)
    BY <1>2, <1>4, <1>5
  <2> QED BY <1>2, <1>3, <1>5, <1>9, <2>1, <2>2, GoneExtend
<1> QED
  BY <1>1, <1>2, <1>3, <1>4, <1>9, <1>10, <1>11, <1>12, GatheringAdvance

\* Nothing of the gathering is changed.
LEMMA GatheringRests ==
  ASSUME Gathering, pc \in {"wait", "read", "build", "write", "done"},
         UNCHANGED <<document, pc, pos, current, chunks, artifact>>
  PROVE  Gathering'
<1> DEFINE g == C!Gathered
<1>1. C!Gathered' = g
  BY DEF C!Gathered, C!Committed
<1>2. pc \in {"build", "write"} => Gone(g, pos - 1)
  BY DEF Gathering
<1> HIDE DEF g
<1>3. pc \in {"build", "write"} => Gone(C!Gathered, pos - 1)'
  BY <1>1, <1>2 DEF Gone, Stretch, LastOf, C!StandsAlone
<1>4. artifact.state = "whole" => Gone(artifact.chunks, Len(document))'
  BY DEF Gathering, Gone, Stretch, LastOf, C!StandsAlone
<1> QED BY <1>3, <1>4 DEF Gathering, LastOf, C!StandsAlone

\* The document is given up; the artifact is not whole.
LEMMA GatheringStops ==
  ASSUME Gathering, Passing, pc # "done", pc' = "done",
         document' = document, chunks' = << >>, current' = C!EmptyChunk,
         artifact' \in {artifact, C!TornArtifact}
  PROVE  Gathering'
<1>1. artifact'.state # "whole"
  BY DEF Passing, C!TornArtifact
<1> QED BY <1>1 DEF Gathering, C!EmptyChunk

\* The artifact has the blocks and the parents of the chunks.
LEMMA GatheringWrites ==
  ASSUME Gathering, Passing, C!Write
  PROVE  Gathering'
<1>1. /\ pc = "write" /\ pc' = "done" /\ document' = document
      /\ chunks' = << >> /\ current' = C!EmptyChunk
      /\ artifact' = C!Written
  BY DEF C!Write, C!Stop
<1>2. /\ chunks \in Seq(C!Chunk) /\ pos = Len(document) + 1
      /\ Len(document) \in Nat /\ Gone(C!Gathered, pos - 1)
      /\ current.blocks = << >>
  BY <1>1 DEF Gathering, C!EmptyChunk
<1>3. Gone(chunks, Len(document))
  BY <1>2 DEF C!Gathered, C!Committed
<1> DEFINE w == C!Written.chunks
<1>4. /\ Len(w) = Len(chunks) /\ Len(chunks) \in Nat
      /\ \A c \in 1..Len(chunks) :
           w[c].blocks = chunks[c].blocks /\ w[c].parent = chunks[c].parent
  BY <1>2 DEF C!Written
<1> HIDE DEF w
<1>5. Gone(w, Len(document))
  <2>1. ASSUME NEW c \in 1..Len(chunks)
        PROVE  Stretch(w[c], Len(document)) /\ LastOf(w[c]) = LastOf(chunks[c])
    <3>1. Stretch(chunks[c], Len(document))
      BY <1>3 DEF Gone
    <3>2. w[c].blocks = chunks[c].blocks /\ w[c].parent = chunks[c].parent
      BY <1>4
    <3> QED BY <3>1, <3>2 DEF Stretch, LastOf
  <2> QED BY <1>3, <1>4, <2>1 DEF Gone
<1>6. artifact'.chunks = w
  BY <1>1 DEF w
<1>7. Gone(artifact.chunks, Len(document))'
  BY <1>1, <1>5, <1>6 DEF Gone, Stretch, LastOf, C!StandsAlone
<1> QED BY <1>1, <1>7 DEF Gathering, C!EmptyChunk

LEMMA GatheringFinishes ==
  ASSUME Gathering, Passing, C!Finish
  PROVE  Gathering'
<1> DEFINE g == C!Gathered
<1>1. /\ pc = "build" /\ pc' = "write" /\ document' = document
      /\ chunks' = g /\ current' = C!EmptyChunk /\ pos' = pos
      /\ artifact' = artifact /\ pos > Len(document)
  BY DEF C!Finish, C!Gathered
<1>2. /\ g \in Seq(C!Chunk) /\ Gone(g, pos - 1)
      /\ pos \in 1..(Len(document) + 1) /\ document \in Seq(C!SourceBlock)
      /\ Len(document) \in Nat
  BY <1>1, GatheredType DEF Gathering
<1>3. /\ C!EmptyChunk \in C!Chunk /\ C!EmptyChunk.blocks = << >>
  BY DEF C!EmptyChunk, C!Chunk, C!NoParent
<1>4. C!Gathered' = chunks'
  BY <1>1, <1>3 DEF C!Gathered, C!Committed
<1> HIDE DEF g
<1>5. Gone(C!Gathered, pos - 1)'
  BY <1>1, <1>2, <1>4 DEF Gone, Stretch, LastOf, C!StandsAlone
<1>6. artifact'.state # "whole" /\ pos' = Len(document') + 1
  BY <1>1, <1>2 DEF Passing
<1> QED BY <1>1, <1>2, <1>3, <1>5, <1>6 DEF Gathering

LEMMA GatheringBegins ==
  ASSUME Gathering, Passing, C!Accept
  PROVE  Gathering'
<1>1. /\ pc = "read" /\ pc' = "build" /\ artifact.state # "whole"
      /\ UNCHANGED <<document, pos, current, chunks, artifact>>
  BY DEF C!Accept, Passing
<1>2. /\ pos = 1 /\ chunks = << >> /\ current = C!EmptyChunk
      /\ document \in Seq(C!SourceBlock)
  BY <1>1 DEF Gathering
<1>3. /\ C!EmptyChunk \in C!Chunk /\ C!EmptyChunk.blocks = << >>
      /\ << >> \in Seq(C!Chunk)
  BY DEF C!EmptyChunk, C!Chunk, C!NoParent
<1>4. C!Gathered' = << >>
  BY <1>1, <1>2, <1>3 DEF C!Gathered, C!Committed
<1>5. Gone(C!Gathered, pos - 1)'
  BY <1>1, <1>2, <1>4 DEF Gone
<1> QED BY <1>1, <1>2, <1>3, <1>5 DEF Gathering

LEMMA GatheringChunk ==
  ASSUME Gathering, Passing, C!Next
  PROVE  Gathering'
<1>1. CASE C!Reject \/ C!OutOfMemory \/ C!WriteFails \/ C!Crash
  <2>1. /\ pc # "done" /\ pc' = "done" /\ document' = document
        /\ chunks' = << >> /\ current' = C!EmptyChunk
        /\ artifact' \in {artifact, C!TornArtifact}
    BY <1>1 DEF C!Reject, C!OutOfMemory, C!WriteFails, C!Crash, C!Stop
  <2> QED BY <2>1, GatheringStops
<1> QED BY <1>1, GatheringBegins, GatheringTakes, GatheringExtends,
           GatheringFinishes, GatheringWrites DEF C!Next, C!Step

\* What the parser writes is a structured artifact.
LEMMA StructuredType ==
  ASSUME Typed, Accounted
  PROVE  Structured \in Seq(C!SourceBlock)
<1>1. blocks \in Seq(Block) /\ Len(blocks) \in Nat
  BY DEF Typed, TypeOK
<1>2. ASSUME NEW i \in 1..Len(blocks)
      PROVE  [type |-> blocks[i].type, level |-> blocks[i].level,
              parent |-> blocks[i].parent, size |-> TextSize(blocks[i]),
              wellFormed |-> TRUE] \in C!SourceBlock
  <2>1. blocks[i] \in Block
    BY <1>1, ElementOfSeq
  <2>2. /\ blocks[i].type \in BlockType /\ blocks[i].parent \in Nat
        /\ blocks[i].level \in Nat /\ blocks[i].first \in Nat
        /\ blocks[i].last \in Nat
    BY <2>1, LevelAssumption DEF Block
  <2>3. Verbatim(source, blocks[i])
    BY DEF Accounted
  <2>4. TextSize(blocks[i]) \in Nat
    BY <2>2, <2>3 DEF TextSize, Verbatim
  <2>5. blocks[i].type \in C!BlockType
    BY <2>2 DEF BlockType, C!BlockType
  <2> QED BY <2>2, <2>4, <2>5 DEF C!SourceBlock
<1> QED BY <1>1, <1>2 DEF Structured

LEMMA GatheringStep ==
  ASSUME Gathering, Passing, [DocumentNext]_documentVars
  PROVE  Gathering'
<1>0. pc \in {"wait", "read", "build", "write", "done"}
  BY DEF Passing
<1>1. CASE UNCHANGED documentVars \/ Parse
  BY <1>0, <1>1, GatheringRests DEF documentVars, Parse, chunkerVars
<1>2. CASE WriteStructured
  <2>1. /\ pc = "wait" /\ pc' = "read" /\ document' = Structured
        /\ UNCHANGED <<pos, current, chunks, artifact>>
        /\ artifact.state # "whole"
    BY <1>2 DEF WriteStructured, Passing
  <2>2. Structured \in Seq(C!SourceBlock)
    BY <2>1, StructuredType DEF Passing, Parser
  <2> QED BY <2>1, <2>2 DEF Gathering
<1>3. CASE StageFails
  <2>1. /\ pc = "wait" /\ pc' = "done" /\ document' = document
        /\ UNCHANGED <<pos, current, chunks, artifact>>
        /\ artifact.state # "whole"
    BY <1>3 DEF StageFails, Passing
  <2> QED BY <2>1 DEF Gathering
<1>4. CASE Chunk
  BY <1>4, GatheringChunk DEF Chunk
<1> QED BY <1>1, <1>2, <1>3, <1>4 DEF DocumentNext

LEMMA GatheringInit == DocumentInit => Gathering
<1> SUFFICES ASSUME DocumentInit PROVE Gathering
  OBVIOUS
<1>1. /\ pc \in {"wait", "read"} /\ pos = 1 /\ chunks = << >>
      /\ current = C!EmptyChunk /\ artifact = C!NoArtifact
      /\ document = << >> \/ document \in Inputs
  BY DEF DocumentInit, C!Init
<1>2. document \in Seq(C!SourceBlock)
  <2>1. << >> \in Seq(C!SourceBlock)
    OBVIOUS
  <2>2. Inputs \subseteq Seq(C!SourceBlock)
    BY ChunkerAssumption DEF C!InputAssumption
  <2> QED BY <1>1, <2>1, <2>2
<1> QED BY <1>1, <1>2 DEF Gathering, C!NoArtifact

LEMMA AlwaysGathering == DocumentSpec => []Gathering
<1>1. Passing /\ Gathering /\ [DocumentNext]_documentVars => Gathering'
  BY GatheringStep
<1> QED BY <1>1, GatheringInit, AlwaysPassing, PTL DEF DocumentSpec

-----------------------------------------------------------------------------
(***************************************************************************)
(* What the chunks are for the document, and for the source.               *)
(***************************************************************************)

\* All blocks of a chunk stand under its heading, and code and quotations
\* have a chunk of their own, whoever wrote the structured artifact.
THEOREM ChunksStayCoherent == DocumentSpec => []ChunksAreCoherent
<1>1. ASSUME Gathering PROVE C!ChunksAreCoherent
  <2>1. CASE pc \in {"build", "write"}
    <3>1. ASSUME NEW c \in 1..Len(C!Gathered)
          PROVE  Stretch(C!Gathered[c], pos - 1)
      BY <1>1, <2>1 DEF Gathering, Gone
    <3> QED BY <3>1 DEF C!ChunksAreCoherent, Stretch
  <2>2. CASE pc \notin {"build", "write"}
    <3>1. chunks = << >> /\ current.blocks = << >>
      BY <1>1, <2>2 DEF Gathering, C!EmptyChunk
    <3>2. Len(C!Gathered) = 0
      BY <3>1 DEF C!Gathered, C!Committed
    <3> QED BY <3>2 DEF C!ChunksAreCoherent
  <2> QED BY <2>1, <2>2
<1> QED BY <1>1, AlwaysGathering, PTL DEF ChunksAreCoherent

\* The numbers of the blocks in a chunk, in terms of the first one.
LEMMA PlaceInStretch ==
  ASSUME NEW ch, NEW n \in Nat, Stretch(ch, n), NEW k \in 1..Len(ch.blocks)
  PROVE  /\ ch.blocks[1] \in Nat \ {0} /\ Len(ch.blocks) \in Nat
         /\ ch.blocks[k] = ch.blocks[1] + k - 1
         /\ LastOf(ch) = ch.blocks[1] + Len(ch.blocks) - 1
         /\ ch.blocks[k] \in 1..n /\ k <= n
         /\ ch.blocks[k] <= LastOf(ch) /\ ch.blocks[1] <= ch.blocks[k]
<1>1. /\ ch.blocks \in Seq(Nat \ {0}) /\ Len(ch.blocks) \in Nat \ {0}
      /\ LastOf(ch) <= n
  BY DEF Stretch
<1>2. 1 \in 1..Len(ch.blocks) /\ Len(ch.blocks) \in 1..Len(ch.blocks)
  BY <1>1
<1>3. ch.blocks[1] \in Nat \ {0}
  BY <1>1, <1>2, ElementOfSeq
<1>4. /\ ch.blocks[k] = ch.blocks[1] + k - 1
      /\ LastOf(ch) = ch.blocks[1] + Len(ch.blocks) - 1
  BY <1>2 DEF Stretch, LastOf
<1> QED BY <1>1, <1>3, <1>4

\* Blocks of earlier chunks come earlier in the document.
LEMMA PlaceOrder ==
  ASSUME NEW g, NEW n \in Nat, Gone(g, n),
         NEW c \in 1..Len(g), NEW d \in 1..Len(g),
         NEW k \in 1..Len(g[c].blocks), NEW l \in 1..Len(g[d].blocks),
         c < d \/ (c = d /\ k < l)
  PROVE  g[c].blocks[k] < g[d].blocks[l]
<1> DEFINE x == g[c].blocks[k]
           y == g[d].blocks[l]
           end == LastOf(g[c])
           size == Len(g[c].blocks)
           start == g[c].blocks[1]
           next == g[d].blocks[1]
<1>1. Stretch(g[c], n) /\ Stretch(g[d], n)
  BY DEF Gone
<1>2. /\ start \in Nat \ {0} /\ size \in Nat
      /\ x = start + k - 1 /\ x <= end /\ end = start + size - 1
  BY <1>1, PlaceInStretch
<1>3. next \in Nat \ {0} /\ y = next + l - 1 /\ next <= y
  BY <1>1, PlaceInStretch
<1>4. k \in Int /\ l \in Int
  BY <1>1 DEF Stretch
<1>5. c < d => end < next
  BY DEF Gone
<1>6. c = d => start = next
  OBVIOUS
<1> HIDE DEF x, y, end, size, start, next
<1>7. x < y
  BY <1>2, <1>3, <1>4, <1>5, <1>6
<1> QED BY <1>7 DEF x, y

\* The blocks of the chunks, one chunk after the other, are those of the
\* document that are no headings, in its order and each one once.
THEOREM NoBlockIsLost == DocumentSpec => []NothingLost
<1>1. ASSUME Gathering, pc \in {"build", "write"}
      PROVE  C!NothingLost
  <2> DEFINE g == C!Gathered
             n == pos - 1
             D == Len(document)
             B(p) == g[p[1]].blocks[p[2]]
  <2>1. Gone(g, n) /\ n \in Nat /\ n <= D /\ D \in Nat
    BY <1>1 DEF Gathering
  <2>2. C!Places = {p \in (1..Len(g)) \X (1..D) : p[2] <= Len(g[p[1]].blocks)}
        /\ \A p : C!BlockAt(p) = B(p)
    BY DEF C!Places, C!BlockAt
  <2> HIDE DEF g, n, D
  <2>3. ASSUME NEW p \in C!Places
        PROVE  /\ p[1] \in 1..Len(g) /\ p[2] \in 1..Len(g[p[1]].blocks)
               /\ Stretch(g[p[1]], n)
    <3>1. p[1] \in 1..Len(g) /\ p[2] \in 1..D
          /\ p[2] <= Len(g[p[1]].blocks)
      BY <2>2
    <3>2. Stretch(g[p[1]], n)
      BY <2>1, <3>1 DEF Gone
    <3>3. Len(g[p[1]].blocks) \in Nat
      BY <3>2 DEF Stretch
    <3> QED BY <2>1, <3>1, <3>2, <3>3
  <2>4. ASSUME NEW p \in C!Places
        PROVE  B(p) \in 1..n /\ document[B(p)].type # "HEADING"
    <3>1. B(p) \in 1..n
      BY <2>1, <2>3, PlaceInStretch
    <3> QED BY <2>3, <3>1 DEF Stretch
  <2>5. ASSUME NEW i \in 1..n, document[i].type # "HEADING"
        PROVE  \E p \in C!Places : B(p) = i
    <3>1. PICK c \in 1..Len(g) : \E k \in 1..Len(g[c].blocks) :
            g[c].blocks[k] = i
      BY <2>1, <2>5 DEF Gone
    <3>2. PICK k \in 1..Len(g[c].blocks) : g[c].blocks[k] = i
      BY <3>1
    <3>3. Stretch(g[c], n)
      BY <2>1 DEF Gone
    <3>4. k <= n /\ Len(g[c].blocks) \in Nat
      BY <2>1, <3>3, PlaceInStretch
    <3>5. k \in 1..D /\ k <= Len(g[c].blocks)
      BY <2>1, <3>4
    <3>6. <<c, k>> \in C!Places
      BY <2>2, <3>5
    <3> QED BY <3>2, <3>6
  <2>6. ASSUME NEW p \in C!Places, NEW q \in C!Places, C!Before(p, q)
        PROVE  B(p) < B(q)
    <3>1. p[1] < q[1] \/ (p[1] = q[1] /\ p[2] < q[2])
      BY <2>6 DEF C!Before
    <3> QED BY <2>1, <2>3, <3>1, PlaceOrder
  <2>7. ASSUME NEW p \in C!Places, NEW q \in C!Places,
               p[1] = q[1], q[2] = p[2] + 1
        PROVE  B(q) = B(p) + 1
    <3>1. /\ g[p[1]].blocks[1] \in Nat
          /\ B(p) = g[p[1]].blocks[1] + p[2] - 1
          /\ B(q) = g[p[1]].blocks[1] + q[2] - 1
      BY <2>1, <2>3, <2>7, PlaceInStretch
    <3>2. p[2] \in Int
      BY <2>3
    <3> QED BY <2>7, <3>1, <3>2
  <2>8. {B(p) : p \in C!Places} =
          {i \in 1..n : document[i].type # "HEADING"}
    BY <2>4, <2>5
  <2> HIDE DEF B
  <2>9. {C!BlockAt(p) : p \in C!Places} = {B(p) : p \in C!Places}
    BY <2>2
  <2> QED BY <2>2, <2>6, <2>7, <2>8, <2>9 DEF C!NothingLost, n
<1>2. Gathering => C!NothingLost
  BY <1>1 DEF C!NothingLost
<1> QED BY <1>2, AlwaysGathering, PTL DEF NothingLost

\* No line is in two blocks.
LEMMA LineOfOneBlock ==
  ASSUME Typed, Accounted, NEW i \in 1..Len(blocks), NEW j \in 1..Len(blocks),
         NEW n, n \in LinesOf(i), n \in LinesOf(j)
  PROVE  i = j
<1>1. /\ blocks[i].first \in Nat /\ blocks[i].last \in Nat
      /\ blocks[j].first \in Nat /\ blocks[j].last \in Nat
  BY BlockTypes
<1>2. /\ blocks[i].first <= n /\ n <= blocks[i].last
      /\ blocks[j].first <= n /\ n <= blocks[j].last /\ n \in Int
  BY <1>1 DEF LinesOf
<1>3. ~(i < j)
  <2> SUFFICES ASSUME i < j PROVE FALSE
    OBVIOUS
  <2>1. blocks[i].last < blocks[j].first
    BY DEF Accounted
  <2> QED BY <1>1, <1>2, <2>1
<1>4. ~(j < i)
  <2> SUFFICES ASSUME j < i PROVE FALSE
    OBVIOUS
  <2>1. blocks[j].last < blocks[i].first
    BY DEF Accounted
  <2> QED BY <1>1, <1>2, <2>1
<1>5. i \in Int /\ j \in Int
  OBVIOUS
<1> QED BY <1>3, <1>4, <1>5

\* A line of the source is in exactly one chunk of the artifact, or it is
\* blank or a heading and in none.
THEOREM SourceStaysCovered == DocumentSpec => []SourceIsCovered
<1>1. ASSUME Passing, Gathering, artifact.state = "whole",
             NEW n \in 1..Len(source)
      PROVE  LET having == {c \in 1..Len(artifact.chunks) :
                              n \in LinesOfChunk(c)}
             IN  \/ Cardinality(having) = 1
                 \/ /\ having = {}
                    /\ \/ source[n].form = "blank"
                       \/ \E h \in Headings : blocks[h].first = n
  <2> DEFINE w == artifact.chunks
             having == {c \in 1..Len(w) : n \in LinesOfChunk(c)}
  <2>1. /\ Parser /\ result = "OK" /\ document = Structured
    BY <1>1 DEF Passing, NotStarted, Given
  <2>2. /\ Len(document) = Len(blocks) /\ Len(blocks) \in Nat
        /\ \A i \in 1..Len(blocks) : document[i].type = blocks[i].type
        /\ Typed /\ Accounted
    BY <2>1, StructuredBlocks DEF Parser
  <2>3. Gone(w, Len(blocks))
    BY <1>1, <2>2 DEF Gathering
  <2>4. source[n].form = "blank" \/ \E i \in 1..Len(blocks) : n \in LinesOf(i)
    <3>1. at = Len(source) + 1 /\ fence = NoFence
      BY <2>1, <2>2 DEF Accounted
    <3>2. Len(source) \in Nat
      BY <2>2 DEF Typed, TypeOK
    <3>3. source[n].form # "nul" /\ Taken(n)
      BY <2>2, <3>1, <3>2 DEF Accounted
    <3> QED BY <3>1, <3>3 DEF Taken, Pending
  <2>5. ASSUME NEW c \in having
        PROVE  \E k \in 1..Len(w[c].blocks) :
                 /\ w[c].blocks[k] \in 1..Len(blocks)
                 /\ blocks[w[c].blocks[k]].type # "HEADING"
                 /\ n \in LinesOf(w[c].blocks[k])
    <3>1. PICK k \in 1..Len(w[c].blocks) : n \in LinesOf(w[c].blocks[k])
      BY DEF LinesOfChunk, LinesOf
    <3>2. Stretch(w[c], Len(blocks))
      BY <2>3 DEF Gone
    <3>3. w[c].blocks[k] \in 1..Len(blocks)
      BY <2>2, <3>2, PlaceInStretch
    <3>4. document[w[c].blocks[k]].type # "HEADING"
      BY <3>2 DEF Stretch
    <3> QED BY <2>2, <3>1, <3>3, <3>4
  <2>6. ASSUME NEW c \in 1..Len(w), NEW k \in 1..Len(w[c].blocks),
               n \in LinesOf(w[c].blocks[k])
        PROVE  c \in having
    BY <2>6 DEF LinesOfChunk, LinesOf
  <2> HIDE DEF w, having
  <2>7. CASE ~ \E i \in 1..Len(blocks) : n \in LinesOf(i)
    <3>1. having = {}
      BY <2>5, <2>7
    <3> QED BY <2>4, <2>7, <3>1 DEF having, w
  <2>8. ASSUME NEW i \in 1..Len(blocks), n \in LinesOf(i),
               blocks[i].type = "HEADING"
        PROVE  having = {} /\ \E h \in Headings : blocks[h].first = n
    <3>1. having = {}
      <4> SUFFICES ASSUME NEW c \in having PROVE FALSE
        OBVIOUS
      <4>1. PICK k \in 1..Len(w[c].blocks) :
              /\ w[c].blocks[k] \in 1..Len(blocks)
              /\ blocks[w[c].blocks[k]].type # "HEADING"
              /\ n \in LinesOf(w[c].blocks[k])
        BY <2>5
      <4>2. w[c].blocks[k] = i
        BY <2>2, <2>8, <4>1, LineOfOneBlock
      <4> QED BY <2>8, <4>1, <4>2
    <3>2. i \in Headings /\ blocks[i].first = blocks[i].last
      BY <2>2, <2>8 DEF Headings, Accounted, Verbatim
    <3>3. blocks[i].first \in Nat
      BY <2>2, BlockTypes
    <3>4. blocks[i].first = n
      BY <2>8, <3>2, <3>3 DEF LinesOf
    <3> QED BY <3>1, <3>2, <3>4
  <2>9. ASSUME NEW i \in 1..Len(blocks), n \in LinesOf(i),
               blocks[i].type # "HEADING"
        PROVE  Cardinality(having) = 1
    <3>1. document[i].type # "HEADING"
      BY <2>2, <2>9
    <3>2. PICK c \in 1..Len(w) : \E k \in 1..Len(w[c].blocks) :
            w[c].blocks[k] = i
      BY <2>3, <3>1 DEF Gone
    <3>3. PICK k \in 1..Len(w[c].blocks) : w[c].blocks[k] = i
      BY <3>2
    <3>4. c \in having
      BY <2>6, <2>9, <3>3
    <3>5. ASSUME NEW d \in having PROVE d = c
      <4>1. PICK l \in 1..Len(w[d].blocks) :
              /\ w[d].blocks[l] \in 1..Len(blocks)
              /\ n \in LinesOf(w[d].blocks[l])
        BY <2>5
      <4>2. w[d].blocks[l] = i
        BY <2>2, <2>9, <4>1, LineOfOneBlock
      <4>3. d \in 1..Len(w) /\ i \in Nat
        BY DEF having
      <4>4. ~(c < d)
        <5> SUFFICES ASSUME c < d PROVE FALSE
          OBVIOUS
        <5>1. w[c].blocks[k] < w[d].blocks[l]
          BY <2>2, <2>3, <4>3, PlaceOrder
        <5> QED BY <3>3, <4>2, <4>3, <5>1
      <4>5. ~(d < c)
        <5> SUFFICES ASSUME d < c PROVE FALSE
          OBVIOUS
        <5>1. w[d].blocks[l] < w[c].blocks[k]
          BY <2>2, <2>3, <4>3, PlaceOrder
        <5> QED BY <3>3, <4>2, <4>3, <5>1
      <4> QED BY <4>3, <4>4, <4>5
    <3>6. having = {c}
      BY <3>4, <3>5
    <3> QED BY <3>6, FS_Singleton
  <2>10. CASE \E i \in 1..Len(blocks) : n \in LinesOf(i)
    <3>1. PICK i \in 1..Len(blocks) : n \in LinesOf(i)
      BY <2>10
    <3>2. \/ Cardinality(having) = 1
          \/ having = {} /\ \E h \in Headings : blocks[h].first = n
      BY <2>8, <2>9, <3>1
    <3> QED BY <3>2 DEF having, w
  <2> QED BY <2>7, <2>10
<1>2. Passing /\ Gathering => SourceIsCovered
  BY <1>1 DEF SourceIsCovered
<1> QED BY <1>2, AlwaysPassing, AlwaysGathering, PTL

-----------------------------------------------------------------------------
(***************************************************************************)
(* The size of a text. SizesIn is the recursive function of TextOf for     *)
(* the document doc: RecursionExists gives it its values.                  *)
(***************************************************************************)

AloneIn(doc, i) == doc[i].type \in {"FENCED_CODE_BLOCK", "BLOCKQUOTE"}
ListIn(doc, i) ==
  doc[i].type \in {"UNORDERED_LIST_ITEM", "ORDERED_LIST_ITEM"}
Between(doc, i) == IF ListIn(doc, i - 1) /\ ListIn(doc, i) THEN 1 ELSE 2

SizesIn(doc, first, last) ==
  CHOOSE f : f = [i \in first..last |->
                    IF i = first THEN doc[i].size
                    ELSE f[i - 1] + Between(doc, i) + doc[i].size]

TextIn(doc, first, last) == SizesIn(doc, first, last)[last]

LEMMA TextIsTextIn ==
  ASSUME NEW CONSTANT first, NEW CONSTANT last
  PROVE  C!TextOf(first, last) = TextIn(document, first, last)
BY DEF C!TextOf, C!IsList, TextIn, SizesIn, Between, ListIn

LEMMA SizesExist ==
  ASSUME NEW doc, doc \in Seq(C!SourceBlock), NEW last \in 1..Len(doc),
         NEW first \in 1..last
  PROVE  /\ SizesIn(doc, first, last) \in [first..last -> Nat]
         /\ \A i \in first..last :
              SizesIn(doc, first, last)[i] =
                IF i = first THEN doc[i].size
                ELSE SizesIn(doc, first, last)[i - 1] + Between(doc, i)
                       + doc[i].size
<1> DEFINE p == [i \in (first + 1)..last |-> i - 1]
           F == [i \in (first + 1)..last |->
                   [s \in Nat |-> s + Between(doc, i) + doc[i].size]]
           start == doc[first].size
           Sizes(f) == f = [i \in first..last |->
                              IF i = first THEN doc[i].size
                              ELSE f[i - 1] + Between(doc, i) + doc[i].size]
<1>1. first \in Nat /\ last \in Nat /\ first <= last
  OBVIOUS
<1>2. \A i \in first..last : doc[i].size \in Nat /\ Between(doc, i) \in Nat
  <2> SUFFICES ASSUME NEW i \in first..last
               PROVE  doc[i].size \in Nat /\ Between(doc, i) \in Nat
    OBVIOUS
  <2>1. doc[i] \in C!SourceBlock
    BY <1>1, ElementOfSeq
  <2> QED BY <2>1 DEF C!SourceBlock, Between
<1>3. start \in Nat
  BY <1>1, <1>2
<1>4. \A i \in (first + 1)..last : p[i] \in first..(i - 1)
  BY <1>1
<1>5. \A i \in (first + 1)..last : \A s \in Nat : F[i][s] \in Nat
  BY <1>1, <1>2
<1>6. \A i \in (first + 1)..last : p[i] = i - 1
        /\ \A s \in Nat : F[i][s] = s + Between(doc, i) + doc[i].size
  OBVIOUS
<1> HIDE DEF p, F
<1>7. PICK f \in [first..last -> Nat] : Recurs(f, first, last, start, p, F)
  BY <1>1, <1>3, <1>4, <1>5, RecursionExists
<1>8. ASSUME NEW i \in first..last
      PROVE  (IF i = first THEN start ELSE F[i][f[p[i]]]) =
               IF i = first THEN doc[i].size
               ELSE f[i - 1] + Between(doc, i) + doc[i].size
  <2>1. CASE i = first
    BY <2>1
  <2>2. CASE i # first
    <3>1. i \in (first + 1)..last /\ i - 1 \in first..last
      BY <1>1, <2>2
    <3>2. f[i - 1] \in Nat /\ p[i] = i - 1
      BY <1>6, <1>7, <3>1
    <3>3. F[i][f[i - 1]] = f[i - 1] + Between(doc, i) + doc[i].size
      BY <1>6, <3>1, <3>2
    <3> QED BY <2>2, <3>2, <3>3
  <2> QED BY <2>1, <2>2
<1>9. Sizes(f)
  BY <1>7, <1>8 DEF Recurs
<1>10. \E g : Sizes(g)
  BY <1>9
<1>11. Sizes(SizesIn(doc, first, last))
  BY <1>10 DEF SizesIn
<1> DEFINE z == SizesIn(doc, first, last)
<1> HIDE DEF z
<1>12. z = [i \in first..last |->
              IF i = first THEN doc[i].size
              ELSE z[i - 1] + Between(doc, i) + doc[i].size]
  BY <1>11 DEF z
<1>13. \A i \in first..last :
         z[i] = IF i = first THEN doc[i].size
                ELSE z[i - 1] + Between(doc, i) + doc[i].size
  BY <1>12
<1>14. ASSUME NEW i \in first..last,
              \A j \in first..(i - 1) : z[j] \in Nat
       PROVE  z[i] \in Nat
  <2>1. CASE i = first
    BY <1>2, <1>13, <2>1
  <2>2. CASE i # first
    <3>1. i - 1 \in first..(i - 1)
      BY <1>1, <2>2
    <3>2. z[i - 1] \in Nat /\ doc[i].size \in Nat /\ Between(doc, i) \in Nat
      BY <1>2, <1>14, <3>1
    <3>3. z[i] = z[i - 1] + Between(doc, i) + doc[i].size
      BY <1>13, <2>2
    <3> QED BY <3>2, <3>3
  <2> QED BY <2>1, <2>2
<1> DEFINE T == {i \in first..last : z[i] \in Nat}
<1>15. \A i \in first..last : i \in T
  <2>1. \A i \in first..last :
          (\A j \in first..(i - 1) : j \in T) => i \in T
    BY <1>14
  <2> HIDE DEF T
  <2> QED BY <1>1, <2>1, IntervalInduction
<1>16. z \in [first..last -> Nat]
  BY <1>12, <1>15
<1> QED BY <1>13, <1>16 DEF z

LEMMA TextOfOne ==
  ASSUME NEW doc, doc \in Seq(C!SourceBlock), NEW i \in 1..Len(doc)
  PROVE  TextIn(doc, i, i) = doc[i].size
<1>1. i \in 1..i /\ i \in i..i
  OBVIOUS
<1> QED BY <1>1, SizesExist DEF TextIn

\* A text and one block more.
LEMMA TextGrows ==
  ASSUME NEW doc, doc \in Seq(C!SourceBlock), NEW last \in 1..Len(doc),
         NEW first \in 1..last, last + 1 <= Len(doc)
  PROVE  TextIn(doc, first, last + 1) =
           TextIn(doc, first, last) + Between(doc, last + 1)
             + doc[last + 1].size
<1> DEFINE next == last + 1
           f == SizesIn(doc, first, last)
           g == SizesIn(doc, first, next)
           Step(h, i) == IF i = first THEN doc[i].size
                         ELSE h[i - 1] + Between(doc, i) + doc[i].size
<1>1. /\ first \in Nat /\ last \in Nat /\ first <= last
      /\ next \in 1..Len(doc) /\ first \in 1..next
  OBVIOUS
<1>2. \A i \in first..last : f[i] = Step(f, i)
  BY SizesExist
<1>3. \A i \in first..next : g[i] = Step(g, i)
  BY <1>1, SizesExist
<1> HIDE DEF f, g
<1> DEFINE T == {i \in first..last : g[i] = f[i]}
<1>4. \A i \in first..last : i \in T
  <2>1. ASSUME NEW i \in first..last, \A j \in first..(i - 1) : j \in T
        PROVE  i \in T
    <3>1. CASE i = first
      BY <1>1, <1>2, <1>3, <3>1
    <3>2. CASE i # first
      <4>1. i - 1 \in first..(i - 1) /\ i \in first..next
        BY <1>1, <3>2
      <4>2. g[i - 1] = f[i - 1]
        BY <2>1, <4>1
      <4> QED BY <1>2, <1>3, <4>1, <4>2
    <3> QED BY <3>1, <3>2
  <2> HIDE DEF T
  <2> QED BY <1>1, <2>1, IntervalInduction
<1>5. next \in first..next /\ next # first /\ last \in first..last
      /\ next - 1 = last
  BY <1>1
<1>6. g[next] = g[last] + Between(doc, next) + doc[next].size
  BY <1>3, <1>5
<1>7. g[last] = f[last]
  BY <1>4, <1>5
<1> QED BY <1>6, <1>7 DEF TextIn, f, g

-----------------------------------------------------------------------------
(***************************************************************************)
(* Tight chunks. A chunk has the size of its text, and between it and the  *)
(* next one is something that keeps them apart; while no chunk is in the   *)
(* making, something keeps the last one from the block to come.            *)
(***************************************************************************)

Measured(doc, ch) ==
  /\ ch.size = TextIn(doc, ch.blocks[1], LastOf(ch))
  /\ Len(ch.blocks) > 1 => ch.size <= MaxCombined

Apart(doc, ch, next) ==
  \/ next # LastOf(ch) + 1
  \/ doc[next].parent # doc[LastOf(ch)].parent
  \/ AloneIn(doc, LastOf(ch)) \/ AloneIn(doc, next)
  \/ TextIn(doc, ch.blocks[1], next) > MaxCombined

Fitted(doc, g) ==
  /\ \A c \in 1..Len(g) : Measured(doc, g[c])
  /\ \A c \in 1..(Len(g) - 1) : Apart(doc, g[c], g[c + 1].blocks[1])

Tightened ==
  pc \in {"build", "write"} =>
    /\ Fitted(document, C!Gathered)
    /\ pc = "build" /\ current.blocks = << >> /\ chunks # << >> =>
         \/ LastOf(chunks[Len(chunks)]) # pos - 1
         \/ AloneIn(document, LastOf(chunks[Len(chunks)]))

LEMMA FittedAppend ==
  ASSUME NEW doc, NEW g, g \in Seq(C!Chunk), Fitted(doc, g), NEW ch,
         ch \in C!Chunk, Measured(doc, ch),
         g # << >> => Apart(doc, g[Len(g)], ch.blocks[1])
  PROVE  Fitted(doc, Append(g, ch))
<1> DEFINE h == Append(g, ch)
<1>1. /\ Len(g) \in Nat /\ Len(h) = Len(g) + 1
      /\ \A c \in 1..Len(g) : h[c] = g[c]
      /\ h[Len(g) + 1] = ch
  OBVIOUS
<1>2. Len(g) # 0 => g # << >>
  OBVIOUS
<1> HIDE DEF h
<1>3. ASSUME NEW c \in 1..Len(h)
      PROVE  Measured(doc, h[c])
  <2>1. c \in 1..Len(g) \/ c = Len(g) + 1
    BY <1>1
  <2> QED BY <1>1, <2>1 DEF Fitted
<1>4. ASSUME NEW c \in 1..(Len(h) - 1)
      PROVE  Apart(doc, h[c], h[c + 1].blocks[1])
  <2>1. CASE c = Len(g)
    BY <1>1, <1>2, <2>1
  <2>2. CASE c # Len(g)
    <3>1. c \in 1..(Len(g) - 1) /\ c \in 1..Len(g) /\ c + 1 \in 1..Len(g)
      BY <1>1, <2>2
    <3>2. Apart(doc, g[c], g[c + 1].blocks[1])
      BY <3>1 DEF Fitted
    <3> QED BY <1>1, <3>1, <3>2
  <2> QED BY <2>1, <2>2
<1>5. Fitted(doc, h)
  BY <1>3, <1>4 DEF Fitted
<1> QED BY <1>5 DEF h

\* What stands behind the chunks but the last one keeps them apart from it.
LEMMA FittedExtend ==
  ASSUME NEW doc, NEW g, g \in Seq(C!Chunk), NEW old, old \in C!Chunk,
         Fitted(doc, Append(g, old)), NEW ch, ch \in C!Chunk,
         Measured(doc, ch), ch.blocks[1] = old.blocks[1]
  PROVE  Fitted(doc, Append(g, ch))
<1> DEFINE o == Append(g, old)
<1>1. /\ Len(g) \in Nat /\ Len(o) = Len(g) + 1
      /\ \A c \in 1..Len(g) : o[c] = g[c]
      /\ o[Len(g) + 1] = old
  OBVIOUS
<1>2. Fitted(doc, o)
  OBVIOUS
<1> HIDE DEF o
<1>3. Fitted(doc, g)
  <2>1. ASSUME NEW c \in 1..Len(g) PROVE Measured(doc, g[c])
    <3>1. c \in 1..Len(o)
      BY <1>1
    <3> QED BY <1>1, <1>2, <3>1 DEF Fitted
  <2>2. ASSUME NEW c \in 1..(Len(g) - 1)
        PROVE  Apart(doc, g[c], g[c + 1].blocks[1])
    <3>1. c \in 1..(Len(o) - 1) /\ c \in 1..Len(g) /\ c + 1 \in 1..Len(g)
      BY <1>1
    <3>2. Apart(doc, o[c], o[c + 1].blocks[1])
      BY <1>2, <3>1 DEF Fitted
    <3> QED BY <1>1, <3>1, <3>2
  <2> QED BY <2>1, <2>2 DEF Fitted
<1>4. g # << >> => Apart(doc, g[Len(g)], ch.blocks[1])
  <2> SUFFICES ASSUME g # << >> PROVE Apart(doc, g[Len(g)], ch.blocks[1])
    OBVIOUS
  <2>1. Len(g) # 0
    OBVIOUS
  <2>2. Len(g) \in 1..(Len(o) - 1) /\ Len(g) \in 1..Len(g)
    BY <1>1, <2>1
  <2>3. Apart(doc, o[Len(g)], o[Len(g) + 1].blocks[1])
    BY <1>2, <2>2 DEF Fitted
  <2> QED BY <1>1, <2>2, <2>3
<1> QED BY <1>3, <1>4, FittedAppend

LEMMA AloneIsAloneIn ==
  ASSUME NEW CONSTANT i
  PROVE  C!StandsAlone(i) <=> AloneIn(document, i)
BY DEF C!StandsAlone, AloneIn

\* What stands between the last chunk and the block to look at next.
LEMMA ApartFromNext ==
  ASSUME Gathering, Tightened, C!Building, C!Gathered # << >>,
         \/ C!IsAtomic(pos) \/ current.blocks = << >> \/ ~C!Joins(pos)
  PROVE  Apart(document, C!Gathered[Len(C!Gathered)], pos)
<1> DEFINE g == C!Gathered
           last == g[Len(g)]
<1> SUFFICES Apart(document, last, pos)
  OBVIOUS
<1>1. /\ pc = "build" /\ pos \in Nat \ {0} /\ pos <= Len(document)
      /\ Len(document) \in Nat
  BY NextBlock
<1>2. CASE C!IsAtomic(pos)
  <2>1. AloneIn(document, pos)
    BY <1>2 DEF C!IsAtomic, AloneIn
  <2> QED BY <2>1 DEF Apart
<1>3. g \in Seq(C!Chunk) /\ Len(g) \in Nat \ {0} /\ Gone(g, pos - 1)
  <2>1. g \in Seq(C!Chunk) /\ g # << >>
    BY <1>1, GatheredType
  <2> QED BY <1>1, <2>1 DEF Gathering
<1>4. Stretch(last, pos - 1)
  BY <1>3 DEF Gone
<1>5. LastOf(last) \in Nat /\ 1 \in 1..Len(last.blocks)
      /\ Len(last.blocks) \in 1..Len(last.blocks)
  <2>1. last.blocks \in Seq(Nat \ {0}) /\ Len(last.blocks) # 0
    BY <1>4 DEF Stretch
  <2> QED BY <2>1, ElementOfSeq DEF LastOf
<1>6. CASE current.blocks = << >>
  <2>1. g = chunks
    BY <1>6 DEF C!Gathered, C!Committed
  <2>2. LastOf(last) # pos - 1 \/ AloneIn(document, LastOf(last))
    BY <1>1, <1>6, <2>1 DEF Tightened
  <2> HIDE DEF g, last
  <2> QED BY <1>1, <1>5, <2>2 DEF Apart
<1>7. CASE current.blocks # << >> /\ ~C!Joins(pos)
  <2>1. last = current /\ LastOf(current) = pos - 1
        /\ current \in C!Chunk
    <3>1. /\ g = Append(chunks, current) /\ chunks \in Seq(C!Chunk)
          /\ current \in C!Chunk /\ LastOf(current) = pos - 1
      BY <1>1, <1>7 DEF C!Gathered, C!Committed, Gathering
    <3> HIDE DEF g
    <3> QED BY <3>1
  <2>2. document[LastOf(current)].parent = current.parent
    BY <1>4, <1>5, <2>1 DEF Stretch, LastOf
  <2>3. CASE ~C!SameParent(pos)
    BY <2>1, <2>2, <2>3 DEF Apart, C!SameParent
  <2>4. CASE C!Proposed(pos) > MaxCombined
    <3> DEFINE n == pos - 1
               first == current.blocks[1]
    <3>1. /\ n \in 1..Len(document) /\ first \in 1..n /\ n + 1 = pos
          /\ n + 1 <= Len(document)
      <4>1. first \in 1..n
        BY <1>1, <1>4, <1>5, <2>1, PlaceInStretch
      <4> QED BY <1>1, <4>1
    <3>2. current.size = TextIn(document, first, n)
      <4>1. Len(g) \in 1..Len(g)
        BY <1>3
      <4> QED BY <1>1, <2>1, <4>1 DEF Tightened, Fitted, Measured
    <3>3. document \in Seq(C!SourceBlock)
      BY DEF Gathering
    <3> HIDE DEF n, first
    <3>4. TextIn(document, first, n + 1) =
            TextIn(document, first, n) + Between(document, n + 1)
              + document[n + 1].size
      BY <3>1, <3>3, TextGrows
    <3>5. C!Proposed(pos) = current.size + Between(document, pos)
                              + document[pos].size
      <4>1. current.blocks[Len(current.blocks)] = pos - 1
        BY <2>1 DEF LastOf
      <4> QED BY <4>1 DEF C!Proposed, C!Separator, C!IsList, Between, ListIn
    <3>6. TextIn(document, first, pos) > MaxCombined
      BY <2>4, <3>1, <3>2, <3>4, <3>5
    <3> HIDE DEF g, last
    <3> QED BY <2>1, <3>6 DEF Apart, first
  <2>5. C!Proposed(pos) > MaxCombined \/ ~C!SameParent(pos)
    <3>1. C!Proposed(pos) \in Int
      <4>1. document[pos].size \in Nat
        BY NextBlock DEF C!SourceBlock
      <4>2. current.size \in Nat
        BY <2>1 DEF C!Chunk
      <4> QED BY <4>1, <4>2 DEF C!Proposed, C!Separator
    <3>2. MaxCombined \in Int
      BY ChunkerAssumption DEF C!LimitAssumption
    <3> QED BY <1>7, <3>1, <3>2 DEF C!Joins
  <2> QED BY <2>3, <2>4, <2>5
<1> QED BY <1>2, <1>6, <1>7

\* The chunk of one block is as large as the block.
LEMMA OneIsMeasured ==
  ASSUME Gathering, C!Building
  PROVE  Measured(document, C!ChunkOf(pos))
<1>1. /\ pos \in 1..Len(document) /\ document \in Seq(C!SourceBlock)
      /\ C!ChunkOf(pos).blocks = <<pos>>
  BY NextBlock DEF Gathering
<1>2. C!ChunkOf(pos).size = document[pos].size
  BY DEF C!ChunkOf
<1>3. TextIn(document, pos, pos) = document[pos].size
  BY <1>1, TextOfOne
<1> QED BY <1>1, <1>2, <1>3 DEF Measured, LastOf

\* The block that is joined adds its size and that of what stands between.
LEMMA JoinedIsMeasured ==
  ASSUME Gathering, Tightened, C!ExtendChunk
  PROVE  Measured(document, current')
<1> DEFINE n == pos - 1
           first == current.blocks[1]
           g == C!Gathered
<1>1. /\ pc = "build" /\ pos \in Nat \ {0} /\ pos <= Len(document)
      /\ Len(document) \in Nat /\ document \in Seq(C!SourceBlock)
  BY NextBlock DEF Gathering, C!ExtendChunk, C!Ordinary
<1>2. /\ current \in C!Chunk /\ chunks \in Seq(C!Chunk)
      /\ current.blocks # << >> /\ g = Append(chunks, current)
      /\ LastOf(current) = n /\ Gone(g, n)
  BY <1>1 DEF Gathering, C!ExtendChunk, C!Gathered, C!Committed
<1>3. Len(g) \in 1..Len(g) /\ g[Len(g)] = current
  BY <1>2
<1>4. Stretch(current, n) /\ Measured(document, current)
  <2> HIDE DEF g
  <2> QED BY <1>1, <1>2, <1>3 DEF Gone, Tightened, Fitted, g
<1>5. current.blocks \in Seq(Nat \ {0}) /\ 1 \in 1..Len(current.blocks)
  BY <1>4 DEF Stretch
<1>6. /\ n \in 1..Len(document) /\ first \in 1..n /\ n + 1 = pos
      /\ n + 1 <= Len(document)
  <2>1. first \in 1..n
    BY <1>1, <1>4, <1>5, PlaceInStretch
  <2> QED BY <1>1, <2>1
<1>7. /\ current'.blocks = Append(current.blocks, pos)
      /\ current'.size = C!Proposed(pos) /\ C!Proposed(pos) <= MaxCombined
  BY DEF C!ExtendChunk, C!Joins
<1>8. LastOf(current') = pos /\ current'.blocks[1] = first
  BY <1>5, <1>7 DEF LastOf
<1>9. current.size = TextIn(document, first, n)
  BY <1>2, <1>4 DEF Measured
<1>10. C!Proposed(pos) = current.size + Between(document, pos)
                           + document[pos].size
  <2>1. current.blocks[Len(current.blocks)] = pos - 1
    BY <1>2 DEF LastOf
  <2> QED BY <2>1 DEF C!Proposed, C!Separator, C!IsList, Between, ListIn
<1> HIDE DEF n, first
<1>11. TextIn(document, first, n + 1) =
         TextIn(document, first, n) + Between(document, n + 1)
           + document[n + 1].size
  BY <1>1, <1>6, TextGrows
<1>12. current'.size = TextIn(document, first, pos)
  BY <1>6, <1>7, <1>9, <1>10, <1>11
<1> QED BY <1>7, <1>8, <1>12 DEF Measured

LEMMA TightenedTakes ==
  ASSUME Gathering, Tightened,
         C!TakeHeading \/ C!TakeAtomic \/ C!StartChunk \/ C!SplitChunk
  PROVE  Tightened'
<1> DEFINE g == C!Gathered
           one == C!ChunkOf(pos)
<1>1. C!Building /\ C!Advance
  BY DEF C!TakeHeading, C!TakeAtomic, C!StartChunk, C!SplitChunk, C!Ordinary
<1>2. /\ pc = "build" /\ pos \in Nat \ {0} /\ pos <= Len(document)
      /\ one \in C!Chunk /\ one.blocks = <<pos>>
  BY <1>1, NextBlock
<1>3. /\ g \in Seq(C!Chunk) /\ Gone(g, pos - 1) /\ Fitted(document, g)
      /\ chunks \in Seq(C!Chunk)
  BY <1>2, GatheredType DEF Gathering, Tightened
<1>4. /\ C!EmptyChunk.blocks = << >> /\ one.blocks # << >>
      /\ LastOf(one) = pos /\ one.blocks[1] = pos
      /\ Measured(document, one)
  BY <1>1, <1>2, OneIsMeasured DEF C!EmptyChunk, LastOf
<1>5. /\ g = C!Committed(current)
      /\ C!Gathered' = IF current'.blocks = << >> THEN chunks'
                       ELSE Append(chunks', current')
      /\ document' = document /\ pos' = pos + 1
  BY <1>1 DEF C!Gathered, C!Committed, C!Advance
<1>6. \/ C!IsAtomic(pos) \/ current.blocks = << >> \/ ~C!Joins(pos)
      \/ C!TakeHeading
  BY DEF C!TakeHeading, C!TakeAtomic, C!StartChunk, C!SplitChunk
<1>7. ASSUME g # << >>, ~C!TakeHeading
      PROVE  Apart(document, g[Len(g)], pos)
  BY <1>1, <1>6, <1>7, ApartFromNext
<1>8. ASSUME g # << >>
      PROVE  LastOf(g[Len(g)]) < pos
  <2>1. Len(g) \in 1..Len(g)
    BY <1>3, <1>8
  <2>2. Stretch(g[Len(g)], pos - 1)
    BY <1>3, <2>1 DEF Gone
  <2> HIDE DEF g
  <2>3. LastOf(g[Len(g)]) \in Nat
    <3>1. /\ g[Len(g)].blocks \in Seq(Nat \ {0})
          /\ Len(g[Len(g)].blocks) # 0
      BY <2>2 DEF Stretch
    <3> QED BY <3>1, ElementOfSeq DEF LastOf
  <2> QED BY <1>2, <2>2, <2>3 DEF Stretch
<1> HIDE DEF g, one
<1>9. CASE C!TakeHeading
  <2>1. chunks' = g /\ current' = C!EmptyChunk
    BY <1>5, <1>9 DEF C!TakeHeading
  <2>2. C!Gathered' = g
    BY <1>4, <1>5, <2>1
  <2>3. chunks' # << >> => LastOf(chunks'[Len(chunks')]) # pos' - 1
    BY <1>2, <1>5, <1>8, <2>1
  <2> QED BY <1>3, <1>5, <2>2, <2>3 DEF Tightened, LastOf
<1>10. CASE ~C!TakeHeading
  <2>1. Fitted(document, Append(g, one))
    BY <1>2, <1>3, <1>4, <1>7, <1>10, FittedAppend
  <2>2. CASE C!TakeAtomic
    <3>1. chunks' = Append(g, one) /\ current' = C!EmptyChunk
      BY <1>5, <2>2 DEF C!TakeAtomic, one
    <3>2. C!Gathered' = Append(g, one)
      BY <1>4, <1>5, <3>1
    <3>3. AloneIn(document, pos)
      BY <2>2 DEF C!TakeAtomic, C!IsAtomic, AloneIn
    <3>4. chunks'[Len(chunks')] = one
      BY <1>3, <3>1
    <3>5. LastOf(chunks'[Len(chunks')]) = pos
      BY <1>4, <3>4
    <3> QED BY <1>5, <2>1, <3>2, <3>3, <3>5 DEF Tightened, LastOf
  <2>3. CASE C!StartChunk \/ C!SplitChunk
    <3>1. chunks' = g /\ current' = one
      BY <1>5, <2>3 DEF C!StartChunk, C!SplitChunk, C!Committed, one
    <3>2. C!Gathered' = Append(g, one)
      BY <1>4, <1>5, <3>1
    <3> QED BY <1>4, <1>5, <2>1, <3>1, <3>2 DEF Tightened
  <2> QED BY <1>10, <2>2, <2>3
<1> QED BY <1>9, <1>10

LEMMA TightenedExtends ==
  ASSUME Gathering, Tightened, C!ExtendChunk, current' \in C!Chunk
  PROVE  Tightened'
<1> DEFINE g == C!Gathered
<1>1. /\ C!Building /\ C!Advance /\ chunks' = chunks
      /\ document' = document
  BY DEF C!ExtendChunk, C!Ordinary, C!Advance
<1>2. /\ pc = "build" /\ pos \in Nat \ {0}
  BY <1>1, NextBlock
<1>3. /\ Fitted(document, g) /\ current \in C!Chunk
      /\ chunks \in Seq(C!Chunk)
      /\ current.blocks # << >> /\ g = Append(chunks, current)
  BY <1>2 DEF Gathering, Tightened, C!ExtendChunk, C!Gathered, C!Committed
<1>4. /\ current'.blocks = Append(current.blocks, pos)
      /\ current.blocks \in Seq(Nat \ {0})
  BY <1>3 DEF C!ExtendChunk, C!Chunk
<1>5. current'.blocks # << >> /\ current'.blocks[1] = current.blocks[1]
  BY <1>2, <1>3, <1>4
<1>6. C!Gathered' = Append(chunks, current')
  BY <1>1, <1>5 DEF C!Gathered, C!Committed
<1> HIDE DEF g
<1>7. Measured(document, current')
  BY JoinedIsMeasured
<1>8. Fitted(document, Append(chunks, current'))
  BY <1>3, <1>5, <1>7, FittedExtend
<1> QED BY <1>1, <1>5, <1>6, <1>8 DEF Tightened

LEMMA TightenedChunk ==
  ASSUME Gathering, Gathering', Tightened, C!Next
  PROVE  Tightened'
<1>1. CASE C!Reject \/ C!OutOfMemory \/ C!Write \/ C!WriteFails \/ C!Crash
  <2>1. pc' = "done"
    BY <1>1 DEF C!Reject, C!OutOfMemory, C!Write, C!WriteFails, C!Crash,
       C!Stop
  <2> QED BY <2>1 DEF Tightened
<1>2. CASE C!Accept
  <2>1. /\ pc = "read" /\ chunks' = << >> /\ current' = C!EmptyChunk
    BY <1>2 DEF C!Accept, Gathering
  <2>2. C!Gathered' = << >>
    BY <2>1 DEF C!Gathered, C!Committed, C!EmptyChunk
  <2>3. Len(C!Gathered') = 0
    BY <2>2
  <2> QED BY <2>1, <2>3 DEF Tightened, Fitted
<1>3. CASE C!Finish
  <2> DEFINE g == C!Gathered
  <2>1. /\ pc = "build" /\ pc' = "write" /\ document' = document
        /\ chunks' = g /\ current' = C!EmptyChunk
    BY <1>3 DEF C!Finish, C!Gathered
  <2>2. C!Gathered' = g
    BY <2>1 DEF C!Gathered, C!Committed, C!EmptyChunk
  <2>3. Fitted(document, g)
    BY <2>1 DEF Tightened
  <2> HIDE DEF g
  <2> QED BY <2>1, <2>2, <2>3 DEF Tightened
<1>4. CASE C!ExtendChunk
  <2>1. pc' = "build"
    BY <1>4 DEF C!ExtendChunk, C!Ordinary, C!Building, C!Advance
  <2>2. current' \in C!Chunk
    BY <2>1 DEF Gathering
  <2> QED BY <1>4, <2>2, TightenedExtends
<1> QED BY <1>1, <1>2, <1>3, <1>4, TightenedTakes DEF C!Next, C!Step

LEMMA TightenedStep ==
  ASSUME Gathering, Gathering', Tightened, [DocumentNext]_documentVars
  PROVE  Tightened'
<1>1. CASE UNCHANGED documentVars \/ Parse
  <2>1. UNCHANGED <<document, pc, pos, current, chunks>>
    BY <1>1 DEF documentVars, Parse, chunkerVars
  <2>2. C!Gathered' = C!Gathered
    BY <2>1 DEF C!Gathered, C!Committed
  <2> QED BY <2>1, <2>2 DEF Tightened, LastOf
<1>2. CASE WriteStructured \/ StageFails
  BY <1>2 DEF WriteStructured, StageFails, Tightened
<1>3. CASE Chunk
  BY <1>3, TightenedChunk DEF Chunk
<1> QED BY <1>1, <1>2, <1>3 DEF DocumentNext

LEMMA AlwaysTightened == DocumentSpec => []Tightened
<1>1. DocumentInit => Tightened
  BY DEF DocumentInit, C!Init, Tightened
<1>2. Gathering /\ Gathering' /\ Tightened /\ [DocumentNext]_documentVars =>
        Tightened'
  BY TightenedStep
<1> QED BY <1>1, <1>2, AlwaysGathering, PTL DEF DocumentSpec

\* A chunk of more than one block is within the limit, its size is that of
\* its text, separators counted; and no two neighbours could have been one.
THEOREM ChunksStayTight == DocumentSpec => []ChunksAreTight
<1>1. ASSUME Gathering, Tightened, pc \in {"build", "write"}
      PROVE  C!ChunksAreTight
  <2> DEFINE g == C!Gathered
  <2>1. Fitted(document, g) /\ Len(g) \in Nat
    BY <1>1 DEF Tightened, Gathering, Gone
  <2> HIDE DEF g
  <2>2. ASSUME NEW c \in 1..Len(g)
        PROVE  /\ g[c].size =
                    C!TextOf(g[c].blocks[1], g[c].blocks[Len(g[c].blocks)])
               /\ Len(g[c].blocks) > 1 => g[c].size <= MaxCombined
    <3>1. Measured(document, g[c])
      BY <2>1 DEF Fitted
    <3>2. C!TextOf(g[c].blocks[1], LastOf(g[c])) =
            TextIn(document, g[c].blocks[1], LastOf(g[c]))
      BY TextIsTextIn
    <3> QED BY <3>1, <3>2 DEF Measured, LastOf
  <2>3. ASSUME NEW c \in 1..Len(g), c < Len(g)
        PROVE  LET last == g[c].blocks[Len(g[c].blocks)]
                   next == g[c + 1].blocks[1]
               IN  \/ next # last + 1
                   \/ document[next].parent # document[last].parent
                   \/ C!StandsAlone(last) \/ C!StandsAlone(next)
                   \/ C!TextOf(g[c].blocks[1], next) > MaxCombined
    <3> DEFINE next == g[c + 1].blocks[1]
    <3>1. c \in 1..(Len(g) - 1)
      BY <2>1, <2>3
    <3>2. Apart(document, g[c], next)
      BY <2>1, <3>1 DEF Fitted
    <3>3. /\ C!StandsAlone(LastOf(g[c])) <=> AloneIn(document, LastOf(g[c]))
          /\ C!StandsAlone(next) <=> AloneIn(document, next)
      BY AloneIsAloneIn
    <3>4. C!TextOf(g[c].blocks[1], next) =
            TextIn(document, g[c].blocks[1], next)
      BY TextIsTextIn
    <3> QED BY <3>2, <3>3, <3>4 DEF Apart, LastOf
  <2> QED BY <2>2, <2>3 DEF C!ChunksAreTight, g
<1>2. ASSUME Gathering, pc \notin {"build", "write"}
      PROVE  C!ChunksAreTight
  <2>1. chunks = << >> /\ current.blocks = << >>
    BY <1>2 DEF Gathering, C!EmptyChunk
  <2>2. Len(C!Gathered) = 0
    BY <2>1 DEF C!Gathered, C!Committed
  <2> QED BY <2>2 DEF C!ChunksAreTight
<1>3. Gathering /\ Tightened => C!ChunksAreTight
  BY <1>1, <1>2
<1> QED BY <1>3, AlwaysGathering, AlwaysTightened, PTL DEF ChunksAreTight

-----------------------------------------------------------------------------
(***************************************************************************)
(* The outline of the document. Outline(h) has heading h and those that    *)
(* are still in force at it. The lineage of a heading is its outline, row  *)
(* by row, as each parent is the nearest heading that encloses.            *)
(***************************************************************************)

Outline(h) ==
  {x \in Headings :
     /\ x <= h
     /\ \A k \in Headings : x < k /\ k <= h =>
          blocks[k].level > blocks[x].level}

LEMMA HeadingsAreNumbers ==
  ASSUME Typed
  PROVE  /\ Len(blocks) \in Nat
         /\ \A h \in Headings : h \in Nat \ {0} /\ h <= Len(blocks)
              /\ blocks[h].level \in Nat
<1>1. blocks \in Seq(Block) /\ Len(blocks) \in Nat
  BY DEF Typed, TypeOK
<1>2. ASSUME NEW h \in Headings
      PROVE  h \in Nat \ {0} /\ h <= Len(blocks) /\ blocks[h].level \in Nat
  <2>1. h \in 1..Len(blocks) /\ blocks[h] \in Block
    BY <1>1, ElementOfSeq DEF Headings
  <2> QED BY <1>1, <2>1, LevelAssumption DEF Block
<1> QED BY <1>1, <1>2

LEMMA OutlineOfNone ==
  ASSUME Typed
  PROVE  Outline(NoParent) = {}
BY HeadingsAreNumbers DEF Outline, NoParent

LEMMA OutlineGrows ==
  ASSUME Typed, ParentIsEnclosing, NEW h \in Headings
  PROVE  Outline(h) = Outline(blocks[h].parent) \cup {h}
<1> DEFINE p == blocks[h].parent
           L(x) == blocks[x].level
<1>1. \A x \in Headings : x \in Nat \ {0} /\ L(x) \in Nat
  BY HeadingsAreNumbers
<1>2. \/ Above(h) = {} /\ p = 0
      \/ p \in Above(h) /\ \A x \in Above(h) : x <= p
  BY DEF ParentIsEnclosing, NoParent, Headings
<1>3. \A x : x \in Above(h) <=> x \in Headings /\ x < h /\ L(x) < L(h)
  BY DEF Above
<1> HIDE DEF p, L
<1>4. \A z, x : x \in Outline(z) <=>
        /\ x \in Headings /\ x <= z
        /\ \A k \in Headings : x < k /\ k <= z => L(k) > L(x)
  BY DEF Outline, L
<1>5. p \in Nat /\ p < h
  BY <1>1, <1>2, <1>3
<1>6. ASSUME NEW x \in Outline(h), x # h
      PROVE  x \in Outline(p)
  <2>1. x \in Headings /\ x < h /\ L(h) > L(x)
    BY <1>1, <1>4, <1>6
  <2>2. x \in Above(h)
    BY <1>1, <1>3, <2>1
  <2>3. x <= p
    BY <1>2, <2>2
  <2>4. ASSUME NEW k \in Headings, x < k, k <= p PROVE L(k) > L(x)
    <3>1. k <= h
      BY <1>1, <1>5, <2>4
    <3> QED BY <1>4, <1>6, <2>4, <3>1
  <2> QED BY <1>4, <2>1, <2>3, <2>4
<1>7. h \in Outline(h)
  BY <1>1, <1>4
<1>8. ASSUME NEW x \in Outline(p)
      PROVE  x \in Outline(h)
  <2>1. x \in Headings /\ x <= p
    BY <1>4
  <2>2. p \in Above(h) /\ p \in Headings /\ L(p) < L(h) /\ L(x) <= L(p)
    <3>1. p # 0
      BY <1>1, <1>5, <2>1
    <3>2. p \in Above(h) /\ p \in Headings /\ L(p) < L(h)
      BY <1>2, <1>3, <3>1
    <3>3. x = p \/ L(p) > L(x)
      BY <1>1, <1>4, <2>1, <3>2
    <3> QED BY <1>1, <2>1, <3>2, <3>3
  <2>3. ASSUME NEW k \in Headings, x < k, k <= h PROVE L(k) > L(x)
    <3>1. CASE k <= p
      BY <1>4, <2>3, <3>1
    <3>2. CASE k > p /\ k < h
      <4>1. k \notin Above(h)
        BY <1>1, <1>2, <1>5, <3>2
      <4>2. ~(L(k) < L(h))
        BY <1>3, <3>2, <4>1
      <4> QED BY <1>1, <2>1, <2>2, <4>2
    <3>3. CASE k = h
      BY <1>1, <2>1, <2>2, <3>3
    <3> QED BY <1>1, <1>5, <2>3, <3>1, <3>2, <3>3
  <2>4. x <= h
    BY <1>1, <1>5, <2>1
  <2> QED BY <1>4, <2>1, <2>3, <2>4
<1>9. Outline(h) = Outline(p) \cup {h}
  BY <1>6, <1>7, <1>8
<1> QED BY <1>9 DEF p

\* What is in force at a block that is no heading is the outline of its
\* parent.
LEMMA OutlineOfBlock ==
  ASSUME Typed, ParentIsEnclosing, NEW i \in 1..Len(blocks), i \notin Headings
  PROVE  /\ InForce(i) = Outline(blocks[i].parent)
         /\ blocks[i].parent \in Headings \cup {0}
<1> DEFINE p == blocks[i].parent
<1>1. \A x \in Headings : x \in Nat \ {0}
  BY HeadingsAreNumbers
<1>2. \/ Above(i) = {} /\ p = 0
      \/ p \in Above(i) /\ \A x \in Above(i) : x <= p
  BY DEF ParentIsEnclosing, NoParent
<1>3. \A x : x \in Above(i) <=> x \in Headings /\ x < i
  BY DEF Above
<1> HIDE DEF p
<1>4. p \in Nat /\ p < i /\ p \in Headings \cup {0}
  BY <1>1, <1>2, <1>3
<1>5. \A k \in Headings : k < i <=> k <= p
  BY <1>1, <1>2, <1>3, <1>4
<1>6. InForce(i) = Outline(p)
  <2>1. ASSUME NEW h \in Headings
        PROVE  (\A k \in Headings : h < k /\ k < i =>
                  blocks[k].level > blocks[h].level)
               <=> (\A k \in Headings : h < k /\ k <= p =>
                      blocks[k].level > blocks[h].level)
    BY <1>5
  <2> QED BY <1>5, <2>1 DEF InForce, Outline
<1> QED BY <1>4, <1>6 DEF p

-----------------------------------------------------------------------------

LineageIn(doc) ==
  CHOOSE f : f = [h \in 0..Len(doc) |->
                    IF h = C!NoParent THEN << >>
                    ELSE Append(f[doc[h].parent], h)]

LEMMA LineageIsLineageIn == C!Lineage = LineageIn(document)
BY DEF C!Lineage, LineageIn

LEMMA LineageExists ==
  ASSUME NEW doc, doc \in Seq(C!SourceBlock),
         \A i \in 1..Len(doc) : doc[i].parent < i
  PROVE  /\ LineageIn(doc) \in [0..Len(doc) -> Seq(Nat)]
         /\ LineageIn(doc)[0] = << >>
         /\ \A i \in 1..Len(doc) :
              LineageIn(doc)[i] = Append(LineageIn(doc)[doc[i].parent], i)
<1> DEFINE n == Len(doc)
           p == [i \in 1..n |-> doc[i].parent]
           F == [i \in 1..n |-> [s \in Seq(Nat) |-> Append(s, i)]]
           Lines(f) == f = [h \in 0..n |->
                              IF h = 0 THEN << >>
                              ELSE Append(f[doc[h].parent], h)]
<1>1. n \in Nat /\ 0 <= n /\ 0 + 1 = 1 /\ 0 \in Nat
  OBVIOUS
<1>2. \A i \in 1..n : doc[i].parent \in 0..(i - 1)
  <2> SUFFICES ASSUME NEW i \in 1..n PROVE doc[i].parent \in 0..(i - 1)
    OBVIOUS
  <2>1. doc[i] \in C!SourceBlock
    BY ElementOfSeq
  <2>2. doc[i].parent \in Nat
    BY <2>1 DEF C!SourceBlock
  <2> QED BY <2>2
<1>3. << >> \in Seq(Nat)
  OBVIOUS
<1>4. \A i \in 1..n : p[i] = doc[i].parent /\ p[i] \in 0..(i - 1)
  BY <1>2
<1>5. \A i \in 1..n : \A s \in Seq(Nat) :
        F[i][s] = Append(s, i) /\ F[i][s] \in Seq(Nat)
  OBVIOUS
<1> HIDE DEF p, F
<1>6. PICK f \in [0..n -> Seq(Nat)] : Recurs(f, 0, n, << >>, p, F)
  BY <1>1, <1>3, <1>4, <1>5, RecursionExists
<1>7. ASSUME NEW i \in 0..n
      PROVE  (IF i = 0 THEN << >> ELSE F[i][f[p[i]]]) =
               IF i = 0 THEN << >> ELSE Append(f[doc[i].parent], i)
  <2>1. CASE i = 0
    BY <2>1
  <2>2. CASE i # 0
    <3>1. i \in 1..n /\ p[i] = doc[i].parent /\ p[i] \in 0..n
      BY <1>1, <1>4, <2>2
    <3>2. f[p[i]] \in Seq(Nat)
      BY <1>6, <3>1
    <3> QED BY <1>5, <2>2, <3>1, <3>2
  <2> QED BY <2>1, <2>2
<1>8. Lines(f)
  BY <1>6, <1>7 DEF Recurs
<1>9. \E g : Lines(g)
  BY <1>8
<1>10. Lines(LineageIn(doc))
  BY <1>9 DEF LineageIn, C!NoParent
<1> DEFINE z == LineageIn(doc)
<1> HIDE DEF z
<1>11. /\ z = [h \in 0..n |-> IF h = 0 THEN << >>
                              ELSE Append(z[doc[h].parent], h)]
  BY <1>10 DEF z
<1>12. z[0] = << >> /\ \A i \in 1..n : z[i] = Append(z[doc[i].parent], i)
  <2> HIDE DEF n
  <2>1. \A h \in 0..n : z[h] = IF h = 0 THEN << >>
                               ELSE Append(z[doc[h].parent], h)
    BY <1>11
  <2>2. 0 \in 0..n /\ \A i \in 1..n : i \in 0..n /\ i # 0
    BY <1>1
  <2> QED BY <2>1, <2>2
<1> DEFINE T == {i \in 0..n : z[i] \in Seq(Nat)}
<1>13. \A i \in 0..n : i \in T
  <2>1. ASSUME NEW i \in 0..n, \A j \in 0..(i - 1) : j \in T
        PROVE  i \in T
    <3>1. CASE i = 0
      BY <1>3, <1>12, <3>1
    <3>2. CASE i # 0
      <4>1. i \in 1..n /\ doc[i].parent \in 0..(i - 1) /\ i \in Nat
        BY <1>1, <1>2, <3>2
      <4>2. z[doc[i].parent] \in Seq(Nat)
        BY <2>1, <4>1
      <4>3. Append(z[doc[i].parent], i) \in Seq(Nat)
        BY <4>1, <4>2
      <4> QED BY <1>12, <4>1, <4>3
    <3> QED BY <3>1, <3>2
  <2> HIDE DEF T
  <2> QED BY <1>1, <2>1, IntervalInduction
<1>14. z \in [0..n -> Seq(Nat)]
  BY <1>11, <1>13
<1> QED BY <1>12, <1>14 DEF z

\* The headings of row s, from the outside in, are the outline at h. There is
\* at most one of each level.
Rows(s, h) ==
  /\ {s[k] : k \in 1..Len(s)} = Outline(h)
  /\ \A k, l \in 1..Len(s) : k < l => s[k] < s[l]
  /\ Len(s) <= IF h = NoParent THEN 0 ELSE blocks[h].level

LEMMA RowsAppend ==
  ASSUME Typed, ParentIsEnclosing, Leveled, NEW h \in Headings,
         NEW s \in Seq(Nat), Rows(s, blocks[h].parent)
  PROVE  Rows(Append(s, h), h)
<1> DEFINE r == Append(s, h)
           p == blocks[h].parent
<1>1. /\ Len(s) \in Nat /\ Len(r) = Len(s) + 1
      /\ \A k \in 1..Len(s) : r[k] = s[k]
      /\ r[Len(s) + 1] = h
  OBVIOUS
<1>2. /\ h \in Nat \ {0} /\ blocks[h].level \in Nat
      /\ \A x \in Headings : x \in Nat \ {0} /\ blocks[x].level \in Nat
  BY HeadingsAreNumbers
<1>3. \/ Above(h) = {} /\ p = 0
      \/ p \in Above(h)
  BY DEF ParentIsEnclosing, NoParent, Headings
<1>4. /\ p \in Nat /\ p < h
      /\ p # 0 => p \in Headings /\ blocks[p].level < blocks[h].level
  <2> HIDE DEF p
  <2>1. \A x \in Above(h) :
          x \in Headings /\ x < h /\ blocks[x].level < blocks[h].level
    BY DEF Above
  <2>2. CASE Above(h) = {} /\ p = 0
    BY <1>2, <2>2
  <2>3. CASE p \in Above(h)
    BY <1>2, <2>1, <2>3
  <2> QED BY <1>3, <2>2, <2>3
<1>5. Outline(h) = Outline(p) \cup {h}
  BY OutlineGrows
<1> HIDE DEF r
<1>6. {r[k] : k \in 1..Len(r)} = {s[k] : k \in 1..Len(s)} \cup {h}
  <2>1. ASSUME NEW k \in 1..Len(r)
        PROVE  r[k] \in {s[l] : l \in 1..Len(s)} \cup {h}
    <3>1. k \in 1..Len(s) \/ k = Len(s) + 1
      BY <1>1
    <3> QED BY <1>1, <3>1
  <2>2. ASSUME NEW k \in 1..Len(s)
        PROVE  s[k] \in {r[l] : l \in 1..Len(r)}
    <3>1. k \in 1..Len(r) /\ s[k] = r[k]
      BY <1>1
    <3> QED BY <3>1
  <2>3. h \in {r[l] : l \in 1..Len(r)}
    <3>1. Len(s) + 1 \in 1..Len(r)
      BY <1>1
    <3> QED BY <1>1, <3>1
  <2> QED BY <2>1, <2>2, <2>3
<1>7. {r[k] : k \in 1..Len(r)} = Outline(h)
  BY <1>5, <1>6 DEF Rows
<1>8. \A k \in 1..Len(s) : s[k] \in Nat /\ s[k] <= p
  <2> SUFFICES ASSUME NEW k \in 1..Len(s) PROVE s[k] \in Nat /\ s[k] <= p
    OBVIOUS
  <2>1. s[k] \in Outline(p)
    BY DEF Rows
  <2> QED BY <1>2, <2>1 DEF Outline
<1>9. ASSUME NEW k \in 1..Len(r), NEW l \in 1..Len(r), k < l
      PROVE  r[k] < r[l]
  <2>1. k \in 1..Len(s) /\ (l \in 1..Len(s) \/ l = Len(s) + 1)
    BY <1>1, <1>9
  <2>2. CASE l \in 1..Len(s)
    BY <1>1, <1>9, <2>1, <2>2 DEF Rows
  <2>3. CASE l = Len(s) + 1
    <3> DEFINE x == r[k]
    <3>1. x = s[k] /\ r[l] = h
      BY <1>1, <2>1, <2>3
    <3>2. x \in Nat /\ x <= p
      BY <1>8, <2>1, <3>1
    <3> HIDE DEF x, p
    <3>3. x < h
      BY <1>2, <1>4, <3>2
    <3> QED BY <3>1, <3>3 DEF x
  <2> QED BY <2>1, <2>2, <2>3
<1>10. Len(r) <= blocks[h].level /\ h # 0
  <2>1. h # 0 /\ blocks[h].level >= 1
    <3>1. h \in 1..Len(blocks) /\ blocks[h].type = "HEADING"
      BY DEF Headings
    <3>2. LevelFits(blocks[h])
      BY <3>1 DEF Leveled
    <3> QED BY <1>2, <3>1, <3>2 DEF LevelFits
  <2>2. Len(s) <= IF p = 0 THEN 0 ELSE blocks[p].level
    BY DEF Rows, NoParent
  <2> DEFINE m == blocks[h].level
             q == blocks[p].level
  <2>3. m \in Nat /\ m >= 1
    BY <1>2, <2>1
  <2>4. p # 0 => p \in Headings /\ q < m
    BY <1>4
  <2>5. p # 0 => q \in Nat
    BY <1>2, <2>4
  <2>6. Len(s) <= IF p = 0 THEN 0 ELSE q
    BY <2>2
  <2> HIDE DEF m, q, p
  <2>7. Len(s) + 1 <= m
    BY <1>1, <2>3, <2>4, <2>5, <2>6
  <2> QED BY <1>1, <2>1, <2>7 DEF m
<1>11. Rows(r, h)
  BY <1>7, <1>9, <1>10 DEF Rows, NoParent
<1> QED BY <1>11 DEF r

\* The lineage of a heading is the outline at it.
LEMMA LineageIsOutline ==
  ASSUME Parser, NEW h \in Headings \cup {NoParent}
  PROVE  /\ LineageIn(Structured)[h] \in Seq(Nat)
         /\ Rows(LineageIn(Structured)[h], h)
<1> DEFINE z == LineageIn(Structured)
           n == Len(blocks)
<1>1. Typed /\ ParentIsEnclosing /\ Leveled
  BY DEF Parser, Stacked
<1>2. \A i \in 1..n :
        /\ blocks[i].parent \in Headings \cup {0}
        /\ blocks[i].parent < i /\ Structured[i].parent = blocks[i].parent
  <2> SUFFICES ASSUME NEW i \in 1..n
               PROVE  /\ blocks[i].parent \in Headings \cup {0}
                      /\ blocks[i].parent < i
                      /\ Structured[i].parent = blocks[i].parent
    OBVIOUS
  <2>1. blocks[i].parent = 0 \/ blocks[i].parent \in Above(i)
    BY <1>1 DEF ParentIsEnclosing, NoParent
  <2>2. \A x \in Above(i) : x \in Headings /\ x < i
    BY DEF Above
  <2>3. 0 < i /\ Structured[i].parent = blocks[i].parent
    <3>1. Len(blocks) \in Nat
      BY <1>1, StructuredBlocks
    <3>2. \A j \in 1..Len(blocks) :
            Structured[j].parent = blocks[j].parent
      BY <1>1, StructuredBlocks
    <3> QED BY <3>1, <3>2
  <2>4. CASE blocks[i].parent = 0
    BY <2>3, <2>4
  <2>5. CASE blocks[i].parent \in Above(i)
    BY <2>2, <2>3, <2>5
  <2> QED BY <2>1, <2>4, <2>5
<1>3. /\ Structured \in Seq(C!SourceBlock) /\ Len(Structured) = n
      /\ n \in Nat
  BY <1>1, StructuredType, StructuredBlocks DEF Parser
<1>4. /\ z \in [0..n -> Seq(Nat)] /\ z[0] = << >>
      /\ \A i \in 1..n : z[i] = Append(z[blocks[i].parent], i)
  <2>1. \A i \in 1..Len(Structured) : Structured[i].parent < i
    BY <1>2, <1>3
  <2>2. /\ z \in [0..Len(Structured) -> Seq(Nat)] /\ z[0] = << >>
        /\ \A i \in 1..Len(Structured) :
             z[i] = Append(z[Structured[i].parent], i)
    BY <1>3, <2>1, LineageExists
  <2> QED BY <1>2, <1>3, <2>2
<1>5. \A x \in Headings : x \in 1..n
  BY DEF Headings
<1> DEFINE T == {i \in 0..n : i \in Headings \cup {0} =>
                                z[i] \in Seq(Nat) /\ Rows(z[i], i)}
<1> HIDE DEF z, n
<1>6. ASSUME NEW i \in 0..n, \A j \in 0..(i - 1) : j \in T
      PROVE  i \in T
  <2>1. CASE i = 0
    <3>1. Rows(<< >>, 0)
      <4>1. Outline(0) = {}
        BY <1>1, OutlineOfNone DEF NoParent
      <4>2. Len(<< >>) = 0 /\ 1..0 = {}
        OBVIOUS
      <4> QED BY <4>1, <4>2 DEF Rows, NoParent
    <3> QED BY <1>4, <2>1, <3>1
  <2>2. CASE i \in Headings
    <3> DEFINE p == blocks[i].parent
    <3>1. i \in 1..n /\ p \in Headings \cup {0} /\ p < i
      BY <1>2, <1>5, <2>2
    <3>2. p \in 0..(i - 1)
      BY <1>3, <1>5, <3>1
    <3>3. z[p] \in Seq(Nat) /\ Rows(z[p], p)
      BY <1>6, <3>1, <3>2
    <3>4. Rows(Append(z[p], i), i)
      BY <1>1, <2>2, <3>3, RowsAppend
    <3>5. z[i] = Append(z[p], i) /\ z[i] \in Seq(Nat)
      BY <1>4, <3>1
    <3> QED BY <3>4, <3>5
  <2>3. CASE i # 0 /\ i \notin Headings
    BY <2>3
  <2> QED BY <2>1, <2>2, <2>3
<1> HIDE DEF T
<1>7. \A i \in 0..n : i \in T
  BY <1>3, <1>6, IntervalInduction
<1>8. h \in 0..n
  BY <1>3, <1>5 DEF NoParent
<1>9. z[h] \in Seq(Nat) /\ Rows(z[h], h)
  BY <1>7, <1>8 DEF T, NoParent
<1> QED BY <1>9 DEF z

PathIn(doc, h) ==
  LET whole == LineageIn(doc)[h]
      lost  == IF Len(whole) > PathMax THEN Len(whole) - PathMax ELSE 0
  IN  SubSeq(whole, lost + 1, Len(whole))

LEMMA PathIsPathIn == \A h : C!HeadingPath(h) = PathIn(document, h)
BY LineageIsLineageIn DEF C!HeadingPath, PathIn

LEMMA WholeSeq ==
  ASSUME NEW S, NEW s \in Seq(S)
  PROVE  SubSeq(s, 1, Len(s)) = s
OBVIOUS

\* The room is enough: nothing of a lineage is lost.
LEMMA PathFits ==
  ASSUME Parser, NEW h \in Headings \cup {NoParent}
  PROVE  PathIn(Structured, h) = LineageIn(Structured)[h]
<1> DEFINE whole == LineageIn(Structured)[h]
<1>1. whole \in Seq(Nat) /\ Rows(whole, h)
  BY LineageIsOutline
<1> HIDE DEF whole
<1>2. Len(whole) \in Nat /\ Len(whole) <= PathMax
  <2>1. Levels \in Nat /\ PathMax \in Nat \ {0} /\ Levels <= PathMax
    BY LevelAssumption, ChunkerAssumption, RoomAssumption
       DEF C!LimitAssumption
  <2>2. h # NoParent => blocks[h].level \in 1..Levels
    <3> SUFFICES ASSUME h # NoParent PROVE blocks[h].level \in 1..Levels
      OBVIOUS
    <3>1. h \in 1..Len(blocks) /\ blocks[h].type = "HEADING"
      BY DEF Headings
    <3> QED BY <3>1 DEF Parser, Leveled, LevelFits
  <2>3. Len(whole) <= IF h = NoParent THEN 0 ELSE blocks[h].level
    BY <1>1 DEF Rows
  <2>4. Len(whole) \in Nat
    BY <1>1
  <2> DEFINE m == blocks[h].level
             len == Len(whole)
  <2> HIDE DEF m, len
  <2>5. len \in Nat /\ len <= IF h = NoParent THEN 0 ELSE m
    BY <2>3, <2>4 DEF m, len
  <2>6. h # NoParent => m \in 1..Levels
    BY <2>2 DEF m
  <2>7. len <= PathMax
    BY <2>1, <2>5, <2>6
  <2> QED BY <2>5, <2>7 DEF len
<1>3. ~(Len(whole) > PathMax)
  BY <1>2, ChunkerAssumption DEF C!LimitAssumption
<1>4. PathIn(Structured, h) = SubSeq(whole, 1, Len(whole))
  BY <1>3 DEF PathIn, whole
<1> QED BY <1>1, <1>4, WholeSeq DEF whole

\* What has been written has the path of its heading in every chunk.
Pathed ==
  /\ artifact.state # "whole" => artifact.chunks = << >>
  /\ artifact.state = "whole" =>
       \A c \in 1..Len(artifact.chunks) :
         artifact.chunks[c].path = PathIn(document, artifact.chunks[c].parent)

LEMMA PathedStep ==
  ASSUME Pathed, Passing, [DocumentNext]_documentVars
  PROVE  Pathed'
<1>1. CASE UNCHANGED documentVars \/ Parse \/ StageFails
  <2>1. document' = document /\ artifact' = artifact
    BY <1>1 DEF documentVars, Parse, chunkerVars, StageFails
  <2> QED BY <2>1 DEF Pathed
<1>2. CASE WriteStructured
  <2>1. artifact' = artifact /\ artifact.state # "whole"
    BY <1>2 DEF WriteStructured, Passing
  <2> QED BY <2>1 DEF Pathed
<1>3. CASE C!Next
  <2>1. document' = document
    BY <1>3, ChunkMoves
  <2>2. artifact' = artifact \/ artifact' = C!TornArtifact \/ C!Write
    BY <1>3 DEF C!Next, C!Step, C!Crash, C!Reject, C!Accept, C!TakeHeading,
         C!TakeAtomic, C!StartChunk, C!ExtendChunk, C!SplitChunk, C!Finish,
         C!OutOfMemory, C!WriteFails, C!Advance
  <2>3. CASE artifact' = artifact
    BY <2>1, <2>3 DEF Pathed
  <2>4. CASE artifact' = C!TornArtifact
    BY <2>4 DEF Pathed, C!TornArtifact
  <2>5. CASE C!Write
    <3> DEFINE w == [i \in 1..Len(chunks) |->
                       [blocks |-> chunks[i].blocks,
                        parent |-> chunks[i].parent,
                        path |-> C!HeadingPath(chunks[i].parent)]]
    <3>1. artifact' = [state |-> "whole", chunks |-> w]
      BY <2>5 DEF C!Write, C!Written
    <3>2. \A c \in DOMAIN w : w[c].path = PathIn(document, w[c].parent)
      BY PathIsPathIn
    <3>3. ASSUME NEW c \in 1..Len(w) PROVE c \in DOMAIN w
      OBVIOUS
    <3> HIDE DEF w
    <3>4. artifact'.state = "whole" /\ artifact'.chunks = w
      BY <3>1
    <3> QED BY <2>1, <3>2, <3>3, <3>4 DEF Pathed
  <2> QED BY <2>2, <2>3, <2>4, <2>5
<1> QED BY <1>1, <1>2, <1>3 DEF DocumentNext, Chunk

LEMMA AlwaysPathed == DocumentSpec => []Pathed
<1>1. DocumentInit => Pathed
  BY DEF DocumentInit, C!Init, C!NoArtifact, Pathed
<1>2. Passing /\ Pathed /\ [DocumentNext]_documentVars => Pathed'
  BY PathedStep
<1> QED BY <1>1, <1>2, AlwaysPassing, PTL DEF DocumentSpec

\* A stretch has a first block, which is none of the headings.
LEMMA StretchBegins ==
  ASSUME NEW ch, NEW n \in Nat, Stretch(ch, n)
  PROVE  /\ ch.blocks[1] \in 1..n
         /\ document[ch.blocks[1]].type # "HEADING"
         /\ document[ch.blocks[1]].parent = ch.parent
<1> DEFINE len == Len(ch.blocks)
           first == ch.blocks[1]
<1>1. len \in Nat \ {0} /\ first \in Nat \ {0} /\ 1 \in 1..len
  BY ElementOfSeq DEF Stretch
<1>2. LastOf(ch) = first + len - 1 /\ LastOf(ch) <= n
  BY <1>1 DEF Stretch, LastOf
<1>3. first <= n
  <2> HIDE DEF len, first
  <2> QED BY <1>1, <1>2
<1> QED BY <1>1, <1>3 DEF Stretch

\* The heading path of a chunk has the headings in force where the chunk
\* begins, all of them, from the outside in; the parents in the structured
\* artifact are enough for the chunker to find them, and so is its room.
THEOREM HeadingPathsAreOutlines == DocumentSpec => []HeadingPathIsOutline
<1>1. ASSUME Passing, Gathering, Pathed, result = "OK",
             NEW c \in 1..Len(artifact.chunks)
      PROVE  LET path == artifact.chunks[c].path IN
             /\ {path[k] : k \in 1..Len(path)} =
                  InForce(artifact.chunks[c].blocks[1])
             /\ \A k, l \in 1..Len(path) : k < l => path[k] < path[l]
  <2> DEFINE ch == artifact.chunks[c]
             i == ch.blocks[1]
  <2>1. artifact.state = "whole"
    BY <1>1 DEF Pathed
  <2>2. Parser /\ document = Structured
    BY <1>1, <2>1 DEF Passing, NotStarted, Given
  <2>3. /\ Len(document) = Len(blocks) /\ Len(blocks) \in Nat
        /\ \A j \in 1..Len(blocks) :
             /\ document[j].type = blocks[j].type
             /\ document[j].parent = blocks[j].parent
    BY <2>2, StructuredBlocks DEF Parser
  <2>4. Stretch(ch, Len(blocks))
    BY <1>1, <2>1, <2>3 DEF Gathering, Gone
  <2>5. /\ i \in 1..Len(blocks) /\ document[i].type # "HEADING"
        /\ document[i].parent = ch.parent
    BY <2>3, <2>4, StretchBegins
  <2>6. i \notin Headings /\ blocks[i].parent = ch.parent
    BY <2>3, <2>5 DEF Headings
  <2>7. /\ InForce(i) = Outline(ch.parent)
        /\ ch.parent \in Headings \cup {0}
    BY <2>2, <2>5, <2>6, OutlineOfBlock DEF Parser, Stacked
  <2>8. ch.path = LineageIn(Structured)[ch.parent]
    BY <1>1, <2>1, <2>2, <2>7, PathFits DEF Pathed, NoParent
  <2>9. Rows(ch.path, ch.parent)
    BY <2>2, <2>7, <2>8, LineageIsOutline DEF NoParent
  <2> QED BY <2>7, <2>9 DEF Rows
<1>2. Passing /\ Gathering /\ Pathed => HeadingPathIsOutline
  BY <1>1 DEF HeadingPathIsOutline
<1> QED BY <1>2, AlwaysPassing, AlwaysGathering, AlwaysPathed, PTL

-----------------------------------------------------------------------------
(***************************************************************************)
(* There is one way to cut a document. A cutting leaves no block out, has  *)
(* coherent chunks under the paths of their headings, keeps the limit, and *)
(* parts two neighbours only where something keeps them apart. The code    *)
(* looks at one block at a time and never back; no other order of work, or *)
(* a look ahead, could come to other chunks.                               *)
(***************************************************************************)

Cutting(w) ==
  /\ Gone(w, Len(document))
  /\ \A c \in 1..Len(w) : Len(w[c].blocks) > 1 =>
       TextIn(document, w[c].blocks[1], LastOf(w[c])) <= MaxCombined
  /\ \A c \in 1..(Len(w) - 1) : Apart(document, w[c], w[c + 1].blocks[1])
  /\ w = [c \in 1..Len(w) |->
            [blocks |-> w[c].blocks, parent |-> w[c].parent,
             path |-> PathIn(document, w[c].parent)]]

\* A text is not longer than one that goes on.
LEMMA TextIsMonotone ==
  ASSUME NEW doc, doc \in Seq(C!SourceBlock), NEW first \in Nat \ {0},
         NEW m \in Nat, NEW n \in Nat, first <= m, m <= n, n <= Len(doc)
  PROVE  TextIn(doc, first, m) <= TextIn(doc, first, n)
<1>0. Len(doc) \in Nat
  OBVIOUS
<1> DEFINE T == {i \in m..n : TextIn(doc, first, m) <= TextIn(doc, first, i)}
<1>1. ASSUME NEW i \in m..n PROVE TextIn(doc, first, i) \in Nat
  <2>1. i \in 1..Len(doc) /\ first \in 1..i /\ i \in first..i
    BY <1>0
  <2>2. SizesIn(doc, first, i) \in [first..i -> Nat]
    BY <2>1, SizesExist
  <2> QED BY <2>1, <2>2 DEF TextIn
<1>2. \A i \in m..n : i \in T
  <2>1. ASSUME NEW i \in m..n, \A j \in m..(i - 1) : j \in T
        PROVE  i \in T
    <3>1. CASE i = m
      BY <1>1, <3>1
    <3>2. CASE i # m
      <4> DEFINE j == i - 1
      <4>1. /\ j \in m..(i - 1) /\ j \in m..n /\ j \in 1..Len(doc)
            /\ first \in 1..j /\ j + 1 = i /\ j + 1 <= Len(doc)
            /\ i \in 1..Len(doc)
        BY <1>0, <3>2
      <4>2. doc[i].size \in Nat
        <5>1. doc[i] \in C!SourceBlock
          BY <4>1, ElementOfSeq
        <5> QED BY <5>1 DEF C!SourceBlock
      <4>3. Between(doc, i) \in Nat
        BY DEF Between
      <4>4. TextIn(doc, first, m) <= TextIn(doc, first, j)
        BY <2>1, <4>1
      <4> HIDE DEF j
      <4>5. TextIn(doc, first, j + 1) =
              TextIn(doc, first, j) + Between(doc, j + 1) + doc[j + 1].size
        BY <4>1, TextGrows
      <4>6. /\ TextIn(doc, first, j) \in Nat /\ TextIn(doc, first, i) \in Nat
            /\ TextIn(doc, first, m) \in Nat
        BY <1>1, <4>1
      <4> QED BY <4>1, <4>2, <4>3, <4>4, <4>5, <4>6
    <3> QED BY <3>1, <3>2
  <2> HIDE DEF T
  <2> QED BY <2>1, IntervalInduction
<1> QED BY <1>2

\* Where two cuttings have been the same, neither goes on earlier.
LEMMA BeginsTogether ==
  ASSUME document \in Seq(C!SourceBlock), NEW w, NEW v,
         Gone(w, Len(document)), Gone(v, Len(document)),
         NEW c \in 1..Len(v), c \in 1..(Len(w) + 1),
         \A d \in 1..(c - 1) : w[d].blocks = v[d].blocks
  PROVE  /\ c \in 1..Len(w)
         /\ w[c].blocks[1] <= v[c].blocks[1]
<1> DEFINE n == Len(document)
           f == v[c].blocks[1]
<1>1. n \in Nat /\ Len(w) \in Nat /\ Len(v) \in Nat /\ c \in Nat
  BY DEF Gone
<1>2. Stretch(v[c], n)
  BY DEF Gone
<1>3. f \in 1..n /\ document[f].type # "HEADING"
  BY <1>1, <1>2, StretchBegins
<1>4. PICK d \in 1..Len(w) : \E k \in 1..Len(w[d].blocks) :
        w[d].blocks[k] = f
  BY <1>3 DEF Gone
<1>5. PICK k \in 1..Len(w[d].blocks) : w[d].blocks[k] = f
  BY <1>4
<1>6. d \in Nat /\ Stretch(w[d], n)
  BY <1>1 DEF Gone
<1>7. 1 \in 1..Len(v[c].blocks)
  BY <1>1, <1>2 DEF Stretch
<1>8. ~(d < c)
  <2> SUFFICES ASSUME d < c PROVE FALSE
    OBVIOUS
  <2>1. d \in 1..(c - 1) /\ d \in 1..Len(v)
    BY <1>1, <1>6
  <2>2. w[d].blocks = v[d].blocks
    BY <2>1
  <2>3. v[d].blocks[k] < v[c].blocks[1]
    BY <1>1, <1>7, <2>1, <2>2, PlaceOrder
  <2>4. v[d].blocks[k] = v[c].blocks[1]
    BY <1>5, <2>2
  <2> QED BY <1>3, <2>3, <2>4
<1>9. c \in 1..Len(w)
  BY <1>1, <1>6, <1>8
<1>10. Stretch(w[c], n)
  BY <1>9 DEF Gone
<1>11. 1 \in 1..Len(w[c].blocks) /\ w[c].blocks[1] \in 1..n
  <2>1. w[c].blocks[1] \in 1..n
    BY <1>1, <1>10, StretchBegins
  <2> QED BY <1>10, <2>1 DEF Stretch
<1>12. w[c].blocks[1] <= f
  <2>1. CASE d = c
    <3>1. w[c].blocks[1] <= w[c].blocks[k]
      BY <1>1, <1>10, <2>1, PlaceInStretch
    <3> QED BY <1>5, <2>1, <3>1
  <2>2. CASE c < d
    <3>1. w[c].blocks[1] < w[d].blocks[k]
      BY <1>1, <1>9, <1>11, <2>2, PlaceOrder
    <3> HIDE DEF f
    <3> QED BY <1>3, <1>5, <1>11, <3>1
  <2> QED BY <1>1, <1>6, <1>8, <2>1, <2>2
<1> QED BY <1>9, <1>12

\* Of two chunks that begin together none ends before the other.
LEMMA EndsTogether ==
  ASSUME document \in Seq(C!SourceBlock), NEW w, NEW v,
         Cutting(w), Cutting(v),
         NEW c \in 1..Len(w), c \in 1..Len(v),
         w[c].blocks[1] = v[c].blocks[1]
  PROVE  LastOf(v[c]) <= LastOf(w[c])
<1> DEFINE n == Len(document)
           first == v[c].blocks[1]
           end == LastOf(w[c])
           stop == LastOf(v[c])
           size == Len(v[c].blocks)
           next == end + 1
<1>1. n \in Nat /\ Len(w) \in Nat /\ Len(v) \in Nat /\ c \in Nat
  BY DEF Gone, Cutting
<1>2. Stretch(v[c], n) /\ Stretch(w[c], n)
  BY DEF Gone, Cutting
<1>3. 1 \in 1..Len(w[c].blocks) /\ 1 \in 1..Len(v[c].blocks)
  BY <1>2 DEF Stretch
<1>4. /\ first \in Nat \ {0} /\ size \in Nat
      /\ stop = first + size - 1 /\ stop <= n
  BY <1>1, <1>2, <1>3, PlaceInStretch DEF Stretch
<1>5. end \in Nat /\ first <= end /\ end <= n
  <2>1. /\ w[c].blocks[1] \in Nat \ {0} /\ Len(w[c].blocks) \in Nat
        /\ LastOf(w[c]) = w[c].blocks[1] + Len(w[c].blocks) - 1
        /\ LastOf(w[c]) <= n
    BY <1>1, <1>2, <1>3, PlaceInStretch DEF Stretch
  <2>2. Len(w[c].blocks) # 0
    BY <1>2 DEF Stretch
  <2> DEFINE len == Len(w[c].blocks)
  <2> HIDE DEF len
  <2>3. /\ first \in Nat \ {0} /\ len \in Nat /\ len # 0
        /\ end = first + len - 1 /\ end <= n
    BY <2>1, <2>2 DEF len
  <2> HIDE DEF first, end, n
  <2> QED BY <2>3
<1> SUFFICES ASSUME end < stop PROVE FALSE
  BY <1>4, <1>5
<1> HIDE DEF n, first, end, stop, size
\* The block after the end is in the chunk that goes on.
<1>6. /\ next \in 1..n /\ next - first + 1 \in 1..size /\ size > 1
      /\ end - first + 1 \in 1..size
  BY <1>1, <1>4, <1>5
<1>7. /\ document[next].type # "HEADING"
      /\ document[next].parent = document[end].parent
      /\ ~AloneIn(document, next) /\ ~AloneIn(document, end)
  <2>1. \A k \in 1..size :
          /\ v[c].blocks[k] = first + k - 1
          /\ document[v[c].blocks[k]].type # "HEADING"
          /\ document[v[c].blocks[k]].parent = v[c].parent
          /\ C!StandsAlone(v[c].blocks[k]) => size = 1
    BY <1>2 DEF Stretch, size, first
  <2>2. v[c].blocks[next - first + 1] = first + (next - first + 1) - 1
    BY <1>6, <2>1
  <2>3. v[c].blocks[next - first + 1] = next
    BY <1>1, <1>4, <1>5, <2>2
  <2>4. v[c].blocks[end - first + 1] = first + (end - first + 1) - 1
    BY <1>6, <2>1
  <2>5. v[c].blocks[end - first + 1] = end
    BY <1>1, <1>4, <1>5, <2>4
  <2>6. size # 1
    BY <1>4, <1>6
  <2>7. ~C!StandsAlone(next)
    BY <1>6, <2>1, <2>3, <2>6
  <2>8. ~C!StandsAlone(end)
    BY <1>6, <2>1, <2>5, <2>6
  <2>9. document[next].type # "HEADING" /\ document[next].parent = v[c].parent
    BY <1>6, <2>1, <2>3
  <2>10. document[end].parent = v[c].parent
    BY <1>6, <2>1, <2>5
  <2> QED BY <2>7, <2>8, <2>9, <2>10 DEF C!StandsAlone, AloneIn
\* In the other cutting it is the first one of the next chunk.
<1>8. PICK d \in 1..Len(w) : \E k \in 1..Len(w[d].blocks) :
        w[d].blocks[k] = next
  BY <1>6, <1>7 DEF Gone, Cutting, n
<1>9. PICK k \in 1..Len(w[d].blocks) : w[d].blocks[k] = next
  BY <1>8
<1>10. d \in Nat /\ Stretch(w[d], n) /\ k \in Nat
  BY <1>1 DEF Gone, Cutting, n, Stretch
<1>11. w[d].blocks[k] <= LastOf(w[d]) /\ LastOf(w[d]) \in Nat
       /\ w[d].blocks[1] <= w[d].blocks[k] /\ w[d].blocks[1] \in Nat
  <2>1. /\ w[d].blocks[1] \in Nat \ {0} /\ Len(w[d].blocks) \in Nat
        /\ LastOf(w[d]) = w[d].blocks[1] + Len(w[d].blocks) - 1
        /\ w[d].blocks[k] <= LastOf(w[d])
        /\ w[d].blocks[1] <= w[d].blocks[k]
    BY <1>1, <1>10, PlaceInStretch
  <2>2. Len(w[d].blocks) # 0
    BY <1>10 DEF Stretch
  <2> QED BY <2>1, <2>2
<1>12. c < d
  <2>1. d # c
    BY <1>5, <1>9, <1>11 DEF end
  <2>2. ~(d < c)
    <3> SUFFICES ASSUME d < c PROVE FALSE
      OBVIOUS
    <3>1. LastOf(w[d]) < w[c].blocks[1]
      BY DEF Gone, Cutting
    <3>2. w[c].blocks[1] = first
      BY DEF first
    <3> QED BY <1>4, <1>5, <1>9, <1>11, <3>1, <3>2
  <2> QED BY <1>1, <1>10, <2>1, <2>2
<1>13. c + 1 \in 1..Len(w) /\ c \in 1..(Len(w) - 1)
  BY <1>1, <1>10, <1>12
<1>14. w[c + 1].blocks[1] = next
  <2>1. end < w[c + 1].blocks[1]
    <3>1. c < c + 1
      BY <1>1
    <3> QED BY <1>13, <3>1 DEF Gone, Cutting, end
  <2>2. Stretch(w[c + 1], n)
    BY <1>13 DEF Gone, Cutting, n
  <2>3. w[c + 1].blocks[1] \in Nat /\ 1 \in 1..Len(w[c + 1].blocks)
    BY <1>1, <2>2, StretchBegins DEF Stretch
  <2>4. w[c + 1].blocks[1] <= next
    <3>1. CASE d = c + 1
      BY <1>9, <1>11, <3>1
    <3>2. CASE c + 1 < d
      <4>1. Gone(w, n)
        BY DEF Cutting, n
      <4>2. w[c + 1].blocks[1] < w[d].blocks[k]
        BY <1>1, <1>13, <2>3, <3>2, <4>1, PlaceOrder
      <4> QED BY <1>5, <1>9, <2>3, <4>2
    <3> QED BY <1>1, <1>10, <1>12, <3>1, <3>2
  <2> QED BY <1>5, <2>1, <2>3, <2>4
\* Nothing keeps it apart.
<1>15. Apart(document, w[c], next)
  BY <1>13, <1>14 DEF Cutting
<1>16. TextIn(document, first, next) > MaxCombined
  <2>1. w[c].blocks[1] = first /\ LastOf(w[c]) = end
    BY DEF first, end
  <2> QED BY <1>7, <1>15, <2>1 DEF Apart
<1>17. TextIn(document, first, stop) <= MaxCombined
  BY <1>6 DEF Cutting, first, stop, size
<1>18. TextIn(document, first, next) <= TextIn(document, first, stop)
  <2>1. next <= stop /\ next \in Nat /\ stop \in Nat /\ first <= next
        /\ stop <= Len(document) /\ first \in Nat \ {0}
    BY <1>1, <1>4, <1>5 DEF n
  <2> HIDE DEF next
  <2> QED BY <2>1, TextIsMonotone
<1>19. /\ TextIn(document, first, next) \in Int
       /\ TextIn(document, first, stop) \in Int
  <2>1. ASSUME NEW m \in Nat, first <= m, m <= n
        PROVE  TextIn(document, first, m) \in Int
    <3>1. m \in 1..Len(document) /\ first \in 1..m /\ m \in first..m
      BY <1>1, <1>4, <2>1 DEF n
    <3>2. SizesIn(document, first, m) \in [first..m -> Nat]
      BY <3>1, SizesExist
    <3> QED BY <3>1, <3>2 DEF TextIn
  <2>2. next \in Nat /\ first <= next /\ next <= n
    BY <1>1, <1>4, <1>5
  <2>3. stop \in Nat /\ first <= stop
    BY <1>1, <1>4, <1>5
  <2> QED BY <1>4, <2>1, <2>2, <2>3
<1>20. MaxCombined \in Int
  BY ChunkerAssumption DEF C!LimitAssumption
<1> HIDE DEF next
<1> QED BY <1>16, <1>17, <1>18, <1>19, <1>20

\* Two cuttings have the same chunks, from the first one on.
LEMMA SameChunk ==
  ASSUME document \in Seq(C!SourceBlock), NEW w, NEW v,
         Cutting(w), Cutting(v), NEW c \in 1..Len(v),
         \A d \in 1..(c - 1) : d \in 1..Len(w) /\ w[d].blocks = v[d].blocks
  PROVE  c \in 1..Len(w) /\ w[c].blocks = v[c].blocks
<1> DEFINE n == Len(document)
<1>1. /\ n \in Nat /\ Len(w) \in Nat /\ Len(v) \in Nat /\ c \in Nat
      /\ Gone(w, n) /\ Gone(v, n)
  <2>1. Gone(w, n) /\ Gone(v, n)
    BY DEF Cutting
  <2>2. n \in Nat /\ Len(w) \in Nat /\ Len(v) \in Nat /\ c \in Nat
    BY DEF Cutting, Gone
  <2> QED BY <2>1, <2>2
<1>2. c \in 1..(Len(w) + 1)
  <2>1. CASE c = 1
    BY <1>1, <2>1
  <2>2. CASE c # 1
    <3>1. c - 1 \in 1..(c - 1)
      BY <1>1, <2>2
    <3>2. c - 1 \in 1..Len(w)
      BY <3>1
    <3> QED BY <1>1, <3>2
  <2> QED BY <2>1, <2>2
<1>3. c \in 1..Len(w) /\ w[c].blocks[1] <= v[c].blocks[1]
  BY <1>1, <1>2, BeginsTogether
<1>4. v[c].blocks[1] <= w[c].blocks[1]
  <2>1. c \in 1..(Len(v) + 1)
    BY <1>1
  <2> QED BY <1>1, <1>3, <2>1, BeginsTogether
<1>5. Stretch(w[c], n) /\ Stretch(v[c], n)
  BY <1>1, <1>3 DEF Gone
<1>6. w[c].blocks[1] = v[c].blocks[1]
  <2>1. w[c].blocks[1] \in Nat /\ v[c].blocks[1] \in Nat
    BY <1>1, <1>5, StretchBegins
  <2> QED BY <1>3, <1>4, <2>1
<1>7. LastOf(v[c]) <= LastOf(w[c]) /\ LastOf(w[c]) <= LastOf(v[c])
  BY <1>3, <1>6, EndsTogether
<1>8. Len(w[c].blocks) = Len(v[c].blocks)
  <2> DEFINE x == Len(w[c].blocks)
             y == Len(v[c].blocks)
             first == v[c].blocks[1]
  <2>1. x \in Nat \ {0} /\ y \in Nat \ {0} /\ 1 \in 1..x /\ 1 \in 1..y
    BY <1>5 DEF Stretch
  <2>2. first \in Nat /\ LastOf(v[c]) = first + y - 1
    BY <1>1, <1>5, <2>1, PlaceInStretch
  <2>3. LastOf(w[c]) = first + x - 1
    BY <1>1, <1>5, <1>6, <2>1, PlaceInStretch
  <2> HIDE DEF x, y, first
  <2>4. x = y
    BY <1>7, <2>1, <2>2, <2>3
  <2> QED BY <2>4 DEF x, y
<1>9. /\ w[c].blocks \in Seq(Nat \ {0}) /\ v[c].blocks \in Seq(Nat \ {0})
      /\ \A k \in 1..Len(v[c].blocks) : w[c].blocks[k] = v[c].blocks[k]
  BY <1>5, <1>6, <1>8 DEF Stretch
<1>10. w[c].blocks = v[c].blocks
  <2> DEFINE a == w[c].blocks
             b == v[c].blocks
  <2> HIDE DEF a, b
  <2>1. /\ a \in Seq(Nat \ {0}) /\ b \in Seq(Nat \ {0}) /\ Len(a) = Len(b)
        /\ \A k \in 1..Len(b) : a[k] = b[k]
    BY <1>8, <1>9 DEF a, b
  <2>2. a = b
    BY <2>1, SeqEqual
  <2> QED BY <2>2 DEF a, b
<1> QED BY <1>3, <1>10

LEMMA SameChunks ==
  ASSUME document \in Seq(C!SourceBlock), NEW w, NEW v,
         Cutting(w), Cutting(v), NEW c \in 1..Len(v)
  PROVE  c \in 1..Len(w) /\ w[c].blocks = v[c].blocks
<1> DEFINE n == Len(v)
           T == {d \in 1..n : d \in 1..Len(w) /\ w[d].blocks = v[d].blocks}
<1>1. n \in Nat
  BY DEF Gone, Cutting
<1>2. ASSUME NEW d \in 1..n, \A e \in 1..(d - 1) : e \in T
      PROVE  d \in T
  BY <1>2, SameChunk
<1>3. \A d \in 1..n : d \in T
  <2> HIDE DEF T, n
  <2> QED BY <1>1, <1>2, IntervalInduction
<1> QED BY <1>3

\* Two cuttings of a document are one.
LEMMA OneCutting ==
  ASSUME document \in Seq(C!SourceBlock), NEW w, NEW v,
         Cutting(w), Cutting(v)
  PROVE  w = v
<1>1. /\ Len(w) \in Nat /\ Len(v) \in Nat /\ Len(document) \in Nat
      /\ Gone(w, Len(document)) /\ Gone(v, Len(document))
  BY DEF Gone, Cutting
<1>2. /\ \A c \in 1..Len(v) : c \in 1..Len(w) /\ w[c].blocks = v[c].blocks
      /\ \A c \in 1..Len(w) : c \in 1..Len(v)
  BY SameChunks
<1>3. Len(w) = Len(v)
  <2>1. Len(v) # 0 => Len(v) \in 1..Len(w)
    BY <1>1, <1>2
  <2>2. Len(w) # 0 => Len(w) \in 1..Len(v)
    BY <1>1, <1>2
  <2> QED BY <1>1, <2>1, <2>2
<1>4. ASSUME NEW c \in 1..Len(v) PROVE w[c].parent = v[c].parent
  <2>1. w[c].blocks = v[c].blocks
    BY <1>2
  <2>2. Stretch(v[c], Len(document)) /\ Stretch(w[c], Len(document))
    BY <1>1, <1>3 DEF Gone
  <2> QED BY <1>1, <2>1, <2>2, StretchBegins
<1> DEFINE Chunks(u) ==
             [c \in 1..Len(u) |->
                [blocks |-> u[c].blocks, parent |-> u[c].parent,
                 path |-> PathIn(document, u[c].parent)]]
<1>5. w = Chunks(w) /\ v = Chunks(v)
  BY DEF Cutting
<1>6. Chunks(w) = Chunks(v)
  BY <1>2, <1>3, <1>4
<1> HIDE DEF Chunks
<1> QED BY <1>5, <1>6

\* The artifact that is written is a cutting.
Settled == artifact.state = "whole" => Cutting(artifact.chunks)

LEMMA SettledWrites ==
  ASSUME Gathering, Gathering', Tightened, C!Write
  PROVE  Cutting(artifact.chunks)'
<1> DEFINE w == C!Written.chunks
<1>1. /\ pc = "write" /\ document' = document /\ artifact' = C!Written
      /\ current = C!EmptyChunk /\ chunks \in Seq(C!Chunk)
  BY DEF C!Write, C!Stop, Gathering
<1>2. C!Gathered = chunks
  BY <1>1 DEF C!Gathered, C!Committed, C!EmptyChunk
<1>3. Fitted(document, chunks)
  BY <1>1, <1>2 DEF Tightened
<1>4. /\ w = [c \in 1..Len(chunks) |->
                [blocks |-> chunks[c].blocks, parent |-> chunks[c].parent,
                 path |-> PathIn(document, chunks[c].parent)]]
      /\ C!Written.state = "whole"
  <2>1. C!Written = [state |-> "whole", chunks |->
          [c \in 1..Len(chunks) |->
             [blocks |-> chunks[c].blocks, parent |-> chunks[c].parent,
              path |-> C!HeadingPath(chunks[c].parent)]]]
    BY DEF C!Written
  <2>2. \A c \in 1..Len(chunks) :
          C!HeadingPath(chunks[c].parent) =
            PathIn(document, chunks[c].parent)
    BY PathIsPathIn
  <2> QED BY <2>1, <2>2
<1>5. artifact'.chunks = w /\ artifact'.state = "whole"
  BY <1>1, <1>4
<1>6. Gone(artifact.chunks, Len(document))'
  BY <1>5 DEF Gathering
<1> HIDE DEF w
<1>7. /\ Len(w) = Len(chunks) /\ Len(chunks) \in Nat
      /\ \A c \in 1..Len(chunks) :
           /\ w[c].blocks = chunks[c].blocks
           /\ w[c].parent = chunks[c].parent
  BY <1>1, <1>4
<1>8. ASSUME NEW c \in 1..Len(w), Len(w[c].blocks) > 1
      PROVE  TextIn(document, w[c].blocks[1], LastOf(w[c])) <= MaxCombined
  <2>1. Measured(document, chunks[c]) /\ w[c].blocks = chunks[c].blocks
    BY <1>3, <1>7 DEF Fitted
  <2> QED BY <1>8, <2>1 DEF Measured, LastOf
<1>9. ASSUME NEW c \in 1..(Len(w) - 1)
      PROVE  Apart(document, w[c], w[c + 1].blocks[1])
  <2>1. c \in 1..Len(chunks) /\ c + 1 \in 1..Len(chunks)
    BY <1>7
  <2>2. Apart(document, chunks[c], chunks[c + 1].blocks[1])
    BY <1>3, <1>7 DEF Fitted
  <2>3. /\ w[c].blocks = chunks[c].blocks
        /\ w[c + 1].blocks = chunks[c + 1].blocks
    BY <1>7, <2>1
  <2> QED BY <2>2, <2>3 DEF Apart, LastOf
<1>10. w = [c \in 1..Len(w) |->
             [blocks |-> w[c].blocks, parent |-> w[c].parent,
              path |-> PathIn(document, w[c].parent)]]
  BY <1>4, <1>7
<1> QED BY <1>1, <1>5, <1>6, <1>8, <1>9, <1>10 DEF Cutting, LastOf, Apart

LEMMA SettledStep ==
  ASSUME Settled, Passing, Gathering, Gathering', Tightened,
         [DocumentNext]_documentVars
  PROVE  Settled'
<1>1. CASE UNCHANGED documentVars \/ Parse \/ StageFails
  <2>1. document' = document /\ artifact' = artifact
    BY <1>1 DEF documentVars, Parse, chunkerVars, StageFails
  <2> QED BY <2>1 DEF Settled, Cutting, Gone, Stretch, C!StandsAlone
<1>2. CASE WriteStructured
  <2>1. artifact' = artifact /\ artifact.state # "whole"
    BY <1>2 DEF WriteStructured, Passing
  <2> QED BY <2>1 DEF Settled
<1>3. CASE C!Next
  <2>1. document' = document
    BY <1>3, ChunkMoves
  <2>2. artifact' = artifact \/ artifact' = C!TornArtifact \/ C!Write
    BY <1>3 DEF C!Next, C!Step, C!Crash, C!Reject, C!Accept, C!TakeHeading,
         C!TakeAtomic, C!StartChunk, C!ExtendChunk, C!SplitChunk, C!Finish,
         C!OutOfMemory, C!WriteFails, C!Advance
  <2>3. CASE artifact' = artifact
    BY <2>1, <2>3 DEF Settled, Cutting, Gone, Stretch, C!StandsAlone
  <2>4. CASE artifact' = C!TornArtifact
    BY <2>4 DEF Settled, C!TornArtifact
  <2>5. CASE C!Write
    BY <2>5, SettledWrites DEF Settled
  <2> QED BY <2>2, <2>3, <2>4, <2>5
<1> QED BY <1>1, <1>2, <1>3 DEF DocumentNext, Chunk

LEMMA AlwaysSettled == DocumentSpec => []Settled
<1>1. DocumentInit => Settled
  BY DEF DocumentInit, C!Init, C!NoArtifact, Settled
<1>2. Passing /\ Gathering /\ Gathering' /\ Tightened /\ Settled
        /\ [DocumentNext]_documentVars => Settled'
  BY SettledStep
<1> QED BY <1>1, <1>2, AlwaysPassing, AlwaysGathering, AlwaysTightened, PTL
        DEF DocumentSpec

\* The chunks of a document are determined by it: a chunk artifact is written
\* with the one cutting that there is, whatever the machine or the run.
THEOREM ChunksAreDetermined ==
  DocumentSpec =>
    [](artifact.state = "whole" =>
         \A w : Cutting(w) <=> w = artifact.chunks)
<1>1. ASSUME Settled, Gathering, artifact.state = "whole"
      PROVE  \A w : Cutting(w) <=> w = artifact.chunks
  <2>1. Cutting(artifact.chunks) /\ document \in Seq(C!SourceBlock)
    BY <1>1 DEF Settled, Gathering
  <2>2. ASSUME NEW w, Cutting(w) PROVE w = artifact.chunks
    BY <2>1, <2>2, OneCutting
  <2> QED BY <2>1, <2>2
<1>2. Settled /\ Gathering =>
        (artifact.state = "whole" =>
           \A w : Cutting(w) <=> w = artifact.chunks)
  BY <1>1
<1> QED BY <1>2, AlwaysSettled, AlwaysGathering, PTL

-----------------------------------------------------------------------------
(***************************************************************************)
(* There is one way to read a document. A reading takes each line that is  *)
(* not blank for one block, in order; a block is what its first line says, *)
(* code ends where it can first, and everything stands under the nearest   *)
(* heading. The parser goes through the lines once with a stack of the     *)
(* headings in force and the open fence, and the reading knows of neither. *)
(***************************************************************************)

AboveIn(bs, i) ==
  {h \in 1..Len(bs) :
     /\ bs[h].type = "HEADING" /\ h < i
     /\ bs[i].type = "HEADING" => bs[h].level < bs[i].level}

EnclosedIn(bs, i) ==
  \/ AboveIn(bs, i) = {} /\ bs[i].parent = NoParent
  \/ /\ bs[i].parent \in AboveIn(bs, i)
     /\ \A h \in AboveIn(bs, i) : h <= bs[i].parent

Interpretation(src, bs) ==
  /\ bs \in Seq(Block)
  /\ \A i, j \in 1..Len(bs) : i < j => bs[i].last < bs[j].first
  /\ \A i \in 1..Len(bs) :
       /\ bs[i].first \in 1..bs[i].last /\ bs[i].last <= Len(src)
       /\ src[bs[i].first].form # "blank"
       /\ AsWritten(src, bs[i]) /\ Verbatim(src, bs[i])
       /\ EnclosedIn(bs, i)
  /\ \A n \in 1..Len(src) :
       \/ src[n].form = "blank"
       \/ \E i \in 1..Len(bs) : n \in bs[i].first..bs[i].last

\* Where two interpretations have been the same, neither goes on earlier.
LEMMA StartsTogether ==
  ASSUME NEW src \in Seq(Line), NEW r, NEW q,
         Interpretation(src, r), Interpretation(src, q),
         NEW i \in 1..Len(q), i \in 1..(Len(r) + 1),
         \A d \in 1..(i - 1) : r[d] = q[d]
  PROVE  i \in 1..Len(r) /\ r[i].first <= q[i].first
<1> DEFINE f == q[i].first
<1>1. /\ Len(src) \in Nat /\ Len(r) \in Nat /\ Len(q) \in Nat /\ i \in Nat
      /\ \A j \in 1..Len(r) : r[j] \in Block
      /\ \A j \in 1..Len(q) : q[j] \in Block
  <2>1. r \in Seq(Block) /\ q \in Seq(Block)
    BY DEF Interpretation
  <2> QED BY <2>1, ElementOfSeq
<1>2. \A b \in Block : b.first \in Nat /\ b.last \in Nat
  BY DEF Block
<1>3. /\ f \in Nat /\ q[i].last \in Nat /\ f \in 1..q[i].last
      /\ q[i].last <= Len(src) /\ src[f].form # "blank"
  BY <1>1, <1>2 DEF Interpretation
<1>4. f \in 1..Len(src)
  BY <1>1, <1>3
<1>5. PICK j \in 1..Len(r) : f \in r[j].first..r[j].last
  BY <1>3, <1>4 DEF Interpretation
<1>6. /\ j \in Nat /\ r[j].first \in Nat /\ r[j].last \in Nat
      /\ r[j].first <= f /\ f <= r[j].last
  <2>1. r[j].first \in Nat /\ r[j].last \in Nat
    BY <1>1, <1>2
  <2> QED BY <1>3, <1>5, <2>1
<1>7. ~(j < i)
  <2> SUFFICES ASSUME j < i PROVE FALSE
    OBVIOUS
  <2>1. j \in 1..(i - 1) /\ j \in 1..Len(q)
    BY <1>1, <1>6
  <2>2. r[j] = q[j]
    BY <2>1
  <2>3. q[j].last < f
    BY <2>1 DEF Interpretation
  <2> HIDE DEF f
  <2> QED BY <1>3, <1>6, <2>2, <2>3
<1>8. i \in 1..Len(r)
  BY <1>1, <1>6, <1>7
<1>9. r[i].first <= f
  <2>1. CASE i = j
    BY <1>6, <2>1
  <2>2. CASE i < j
    <3>1. r[i].last < r[j].first
      BY <1>8, <2>2 DEF Interpretation
    <3>2. /\ r[i].first \in Nat /\ r[i].last \in Nat
          /\ r[i].first \in 1..r[i].last
      BY <1>1, <1>2, <1>8 DEF Interpretation
    <3> HIDE DEF f
    <3> QED BY <1>3, <1>6, <3>1, <3>2
  <2> QED BY <1>1, <1>6, <1>7, <2>1, <2>2
<1> QED BY <1>8, <1>9

\* Blocks that begin together end together.
LEMMA OneEnd ==
  ASSUME NEW src, NEW b, NEW c, b \in Block, c \in Block,
         b.type = c.type, b.first = c.first,
         Verbatim(src, b), Verbatim(src, c)
  PROVE  b.last = c.last
<1>1. b.first \in Nat /\ b.last \in Nat /\ c.last \in Nat
  BY DEF Block
<1>2. CASE b.type # "FENCED_CODE_BLOCK"
  BY <1>2 DEF Verbatim
<1>3. CASE b.type = "FENCED_CODE_BLOCK"
  <2> DEFINE first == b.first
             x == b.last
             y == c.last
             Ends(n) == EndsCode(src[first], src[n])
  <2>1. /\ first < x /\ \A n \in (first + 1)..x : Ends(n) <=> n = x
        /\ first < y /\ \A n \in (first + 1)..y : Ends(n) <=> n = y
    BY <1>3 DEF Verbatim
  <2> HIDE DEF first, x, y, Ends
  <2>2. first \in Nat /\ x \in Nat /\ y \in Nat
    BY <1>1 DEF first, x, y
  <2>3. x \in (first + 1)..x /\ y \in (first + 1)..y
    BY <2>1, <2>2
  <2>4. Ends(x) /\ Ends(y)
    BY <2>1, <2>3
  <2>5. ~(x < y)
    <3> SUFFICES ASSUME x < y PROVE FALSE
      OBVIOUS
    <3>1. x \in (first + 1)..y /\ x # y
      BY <2>2, <2>3
    <3> QED BY <2>1, <2>4, <3>1
  <2>6. ~(y < x)
    <3> SUFFICES ASSUME y < x PROVE FALSE
      OBVIOUS
    <3>1. y \in (first + 1)..x /\ x # y
      BY <2>2, <2>3
    <3> QED BY <2>1, <2>4, <3>1
  <2> QED BY <2>2, <2>5, <2>6 DEF x, y
<1> QED BY <1>2, <1>3

\* The blocks before it, its type and its level say what a block is under.
LEMMA OneParent ==
  ASSUME NEW r \in Seq(Block), NEW q \in Seq(Block),
         NEW i \in 1..Len(q), i \in 1..Len(r),
         \A d \in 1..(i - 1) : r[d] = q[d],
         r[i].type = q[i].type, r[i].level = q[i].level,
         EnclosedIn(r, i), EnclosedIn(q, i)
  PROVE  r[i].parent = q[i].parent
<1>1. Len(r) \in Nat /\ Len(q) \in Nat /\ i \in Nat
  OBVIOUS
<1>2. ASSUME NEW h \in Nat, h < i
      PROVE  h \in AboveIn(r, i) <=> h \in AboveIn(q, i)
  <2>1. h # 0 => h \in 1..(i - 1) /\ h \in 1..Len(r) /\ h \in 1..Len(q)
    BY <1>1, <1>2
  <2>2. h # 0 => r[h] = q[h]
    BY <2>1
  <2>3. h = 0 => h \notin 1..Len(r) /\ h \notin 1..Len(q)
    BY <1>1
  <2> QED BY <2>1, <2>2, <2>3 DEF AboveIn
<1>3. /\ \A h \in AboveIn(r, i) : h \in Nat /\ h < i
      /\ \A h \in AboveIn(q, i) : h \in Nat /\ h < i
  BY <1>1 DEF AboveIn
<1>4. AboveIn(r, i) = AboveIn(q, i)
  BY <1>2, <1>3
<1>5. CASE AboveIn(q, i) = {}
  BY <1>4, <1>5 DEF EnclosedIn
<1>6. CASE AboveIn(q, i) # {}
  <2> DEFINE x == r[i].parent
             y == q[i].parent
  <2>1. /\ x \in AboveIn(q, i) /\ \A h \in AboveIn(q, i) : h <= x
        /\ y \in AboveIn(q, i) /\ \A h \in AboveIn(q, i) : h <= y
    BY <1>4, <1>6 DEF EnclosedIn
  <2> HIDE DEF x, y
  <2>2. x \in Nat /\ y \in Nat /\ x <= y /\ y <= x
    BY <1>3, <2>1
  <2>3. x = y
    BY <2>2
  <2> QED BY <2>3 DEF x, y
<1> QED BY <1>5, <1>6

LEMMA SameBlock ==
  ASSUME NEW src \in Seq(Line), NEW r, NEW q,
         Interpretation(src, r), Interpretation(src, q),
         NEW i \in 1..Len(q),
         \A d \in 1..(i - 1) : d \in 1..Len(r) /\ r[d] = q[d]
  PROVE  i \in 1..Len(r) /\ r[i] = q[i]
<1>1. /\ r \in Seq(Block) /\ q \in Seq(Block)
      /\ Len(r) \in Nat /\ Len(q) \in Nat /\ i \in Nat
  <2>1. r \in Seq(Block) /\ q \in Seq(Block)
    BY DEF Interpretation
  <2> QED BY <2>1
<1>2. i \in 1..(Len(r) + 1)
  <2>1. CASE i = 1
    BY <1>1, <2>1
  <2>2. CASE i # 1
    <3>1. i - 1 \in 1..(i - 1)
      BY <1>1, <2>2
    <3>2. i - 1 \in 1..Len(r)
      BY <3>1
    <3> QED BY <1>1, <3>2
  <2> QED BY <2>1, <2>2
<1>3. i \in 1..Len(r) /\ r[i].first <= q[i].first
  BY <1>2, StartsTogether
<1>4. q[i].first <= r[i].first
  <2>1. i \in 1..(Len(q) + 1)
    BY <1>1
  <2> QED BY <1>3, <2>1, StartsTogether
<1>5. r[i] \in Block /\ q[i] \in Block
  BY <1>1, <1>3, ElementOfSeq
<1>6. r[i].first = q[i].first
  <2>1. r[i].first \in Nat /\ q[i].first \in Nat
    BY <1>5 DEF Block
  <2> QED BY <1>3, <1>4, <2>1
<1>7. /\ AsWritten(src, r[i]) /\ Verbatim(src, r[i]) /\ EnclosedIn(r, i)
      /\ AsWritten(src, q[i]) /\ Verbatim(src, q[i]) /\ EnclosedIn(q, i)
  BY <1>3 DEF Interpretation
<1>8. r[i].type = q[i].type /\ r[i].level = q[i].level
  BY <1>6, <1>7 DEF AsWritten
<1>9. r[i].last = q[i].last
  BY <1>5, <1>6, <1>7, <1>8, OneEnd
<1>10. r[i].parent = q[i].parent
  BY <1>1, <1>3, <1>7, <1>8, OneParent
<1>11. r[i] = q[i]
  <2>1. \A b, c \in Block :
          /\ b.type = c.type /\ b.level = c.level /\ b.parent = c.parent
          /\ b.first = c.first /\ b.last = c.last
          => b = c
    BY DEF Block
  <2> QED BY <1>5, <1>6, <1>8, <1>9, <1>10, <2>1
<1> QED BY <1>3, <1>11

LEMMA SameBlocks ==
  ASSUME NEW src \in Seq(Line), NEW r, NEW q,
         Interpretation(src, r), Interpretation(src, q),
         NEW i \in 1..Len(q)
  PROVE  i \in 1..Len(r) /\ r[i] = q[i]
<1> DEFINE n == Len(q)
           T == {d \in 1..n : d \in 1..Len(r) /\ r[d] = q[d]}
<1>1. n \in Nat
  BY DEF Interpretation
<1>2. ASSUME NEW d \in 1..n, \A e \in 1..(d - 1) : e \in T
      PROVE  d \in T
  BY <1>2, SameBlock
<1>3. \A d \in 1..n : d \in T
  <2> HIDE DEF T, n
  <2> QED BY <1>1, <1>2, IntervalInduction
<1> QED BY <1>3

LEMMA OneInterpretation ==
  ASSUME NEW src \in Seq(Line), NEW r, NEW q,
         Interpretation(src, r), Interpretation(src, q)
  PROVE  r = q
<1>1. /\ r \in Seq(Block) /\ q \in Seq(Block)
      /\ Len(r) \in Nat /\ Len(q) \in Nat
  <2>1. r \in Seq(Block) /\ q \in Seq(Block)
    BY DEF Interpretation
  <2> QED BY <2>1
<1>2. /\ \A i \in 1..Len(q) : i \in 1..Len(r) /\ r[i] = q[i]
      /\ \A i \in 1..Len(r) : i \in 1..Len(q)
  BY SameBlocks
<1>3. Len(r) = Len(q)
  <2>1. Len(q) # 0 => Len(q) \in 1..Len(r)
    BY <1>1, <1>2
  <2>2. Len(r) # 0 => Len(r) \in 1..Len(q)
    BY <1>1, <1>2
  <2> QED BY <1>1, <2>1, <2>2
<1> QED BY <1>1, <1>2, <1>3, SeqEqual

\* What the parser accepts has the blocks of the one interpretation.
LEMMA BlocksInterpret ==
  ASSUME Parser, result = "OK"
  PROVE  Interpretation(source, blocks) /\ source \in Seq(Line)
<1>1. /\ source \in Seq(Line) /\ Len(source) \in Nat
      /\ blocks \in Seq(Block) /\ Len(blocks) \in Nat
      /\ at = Len(source) + 1 /\ fence = NoFence
  BY DEF Parser, Typed, TypeOK, Accounted
<1>2. ASSUME NEW i \in 1..Len(blocks)
      PROVE  /\ blocks[i].first \in 1..blocks[i].last
             /\ blocks[i].last <= Len(source)
             /\ source[blocks[i].first].form # "blank"
             /\ AsWritten(source, blocks[i]) /\ Verbatim(source, blocks[i])
             /\ EnclosedIn(blocks, i)
  <2>1. /\ blocks[i].first \in 1..blocks[i].last /\ blocks[i].last < at
        /\ source[blocks[i].first].form \notin {"blank", "nul"}
        /\ Verbatim(source, blocks[i])
    BY DEF Parser, Accounted
  <2>2. blocks[i].last \in Nat
    BY BlockTypes DEF Parser
  <2>3. EnclosedIn(blocks, i)
    <3>1. AboveIn(blocks, i) = Above(i)
      BY DEF AboveIn, Above, Headings
    <3>2. ParentIsEnclosing
      BY DEF Parser, Stacked
    <3> QED BY <3>1, <3>2 DEF EnclosedIn, ParentIsEnclosing
  <2>4. blocks[i].last <= Len(source)
    BY <1>1, <2>1, <2>2
  <2> QED BY <2>1, <2>3, <2>4 DEF Parser, Kinded
<1>3. ASSUME NEW n \in 1..Len(source)
      PROVE  \/ source[n].form = "blank"
             \/ \E i \in 1..Len(blocks) :
                  n \in blocks[i].first..blocks[i].last
  <2>1. n \in 1..(at - 1)
    BY <1>1
  <2>2. source[n].form # "nul" /\ Taken(n)
    BY <2>1 DEF Parser, Accounted
  <2> QED BY <1>1, <2>2 DEF Taken, Pending, LinesOf
<1>4. \A i, j \in 1..Len(blocks) : i < j => blocks[i].last < blocks[j].first
  BY DEF Parser, Accounted
<1> QED BY <1>1, <1>2, <1>3, <1>4 DEF Interpretation

\* The blocks of a document are determined by it: the parser accepts it with
\* the one interpretation that there is.
THEOREM BlocksAreDetermined ==
  Spec =>
    [](result = "OK" =>
         \A r : Interpretation(source, r) <=> r = blocks)
<1>1. ASSUME Parser, result = "OK"
      PROVE  \A r : Interpretation(source, r) <=> r = blocks
  <2>1. Interpretation(source, blocks) /\ source \in Seq(Line)
    BY <1>1, BlocksInterpret
  <2>2. ASSUME NEW r, Interpretation(source, r) PROVE r = blocks
    BY <2>1, <2>2, OneInterpretation
  <2> QED BY <2>1, <2>2
<1>2. Parser =>
        (result = "OK" => \A r : Interpretation(source, r) <=> r = blocks)
  BY <1>1
<1> QED BY <1>2, ParserInit, ParserStep, PTL DEF Spec

\* From the source to the chunks: README.md promises deterministic processing,
\* and whatever comes out of a run of both stages is what the source alone
\* says, whatever the machine or an earlier run.
THEOREM ProcessingIsDetermined ==
  DocumentSpec =>
    [](result = "OK" /\ artifact.state = "whole" =>
         /\ \A r : Interpretation(source, r) <=> r = blocks
         /\ document = Structured
         /\ \A w : Cutting(w) <=> w = artifact.chunks)
<1>1. ASSUME Passing, Settled, Gathering, result = "OK",
             artifact.state = "whole"
      PROVE  /\ \A r : Interpretation(source, r) <=> r = blocks
             /\ document = Structured
             /\ \A w : Cutting(w) <=> w = artifact.chunks
  <2>1. Parser /\ document = Structured
    BY <1>1 DEF Passing, NotStarted, Given
  <2>2. Interpretation(source, blocks) /\ source \in Seq(Line)
    BY <1>1, <2>1, BlocksInterpret
  <2>3. ASSUME NEW r, Interpretation(source, r) PROVE r = blocks
    BY <2>2, <2>3, OneInterpretation
  <2>4. Cutting(artifact.chunks) /\ document \in Seq(C!SourceBlock)
    BY <1>1 DEF Settled, Gathering
  <2>5. ASSUME NEW w, Cutting(w) PROVE w = artifact.chunks
    BY <2>4, <2>5, OneCutting
  <2> QED BY <2>1, <2>2, <2>3, <2>4, <2>5
<1>2. Passing /\ Settled /\ Gathering =>
        (result = "OK" /\ artifact.state = "whole" =>
           /\ \A r : Interpretation(source, r) <=> r = blocks
           /\ document = Structured
           /\ \A w : Cutting(w) <=> w = artifact.chunks)
  BY <1>1
<1> QED BY <1>2, AlwaysPassing, AlwaysSettled, AlwaysGathering, PTL

-----------------------------------------------------------------------------
(***************************************************************************)
(* The steps that a document can still take: a block of the chunker for    *)
(* each block so far, and for each line still to read the line itself and  *)
(* the block that it can become.                                           *)
(***************************************************************************)

StepsLeft ==
  IF pc = "wait"
  THEN 2 * (Len(source) + 1 - at) + Len(blocks)
         + (IF result = "none" THEN 5 ELSE 4)
  ELSE IF pc = "read" THEN Len(document) + 3
  ELSE IF pc = "build" THEN Len(document) + 3 - pos
  ELSE IF pc = "write" THEN 1 ELSE 0

LEMMA StepsLeftType ==
  ASSUME Passing, Gathering
  PROVE  /\ StepsLeft \in Nat
         /\ pc # "done" => StepsLeft > 0
<1>1. Len(document) \in Nat
  BY DEF Gathering
<1>2. CASE pc = "wait"
  <2>1. Parser
    BY <1>2 DEF Passing
  <2>2. /\ Len(source) \in Nat /\ Len(blocks) \in Nat
        /\ at \in 1..(Len(source) + 1)
    BY <2>1 DEF Parser, Typed, TypeOK
  <2>3. 2 * (Len(source) + 1 - at) + Len(blocks) \in Nat
    BY <2>2
  <2> QED BY <1>2, <2>3 DEF StepsLeft
<1>3. CASE pc = "build"
  <2>1. pos \in 1..(Len(document) + 1)
    BY <1>3 DEF Gathering
  <2> QED BY <1>1, <1>3, <2>1 DEF StepsLeft
<1>4. CASE pc \in {"read", "write", "done"}
  BY <1>1, <1>4 DEF StepsLeft
<1> QED BY <1>2, <1>3, <1>4 DEF Passing

\* A line is passed, and with it at most one block more is there.
LEMMA ParseCounts ==
  ASSUME Passing, Parse, ~ UNCHANGED documentVars
  PROVE  StepsLeft' < StepsLeft
<1>1. /\ pc = "wait" /\ pc' = "wait" /\ Parser /\ Next
      /\ ~ UNCHANGED vars
  BY DEF Parse, chunkerVars, Passing, vars, documentVars
<1>2. /\ Len(source) \in Nat /\ Len(blocks) \in Nat
      /\ at \in 1..(Len(source) + 1) /\ blocks \in Seq(Block)
  BY <1>1 DEF Parser, Typed, TypeOK
<1>3. CASE TooManyBlocks \/ Unclosed \/ Finish
  <2>1. /\ UNCHANGED <<source, at, blocks>>
        /\ result = "none" /\ result' # "none"
    BY <1>3 DEF TooManyBlocks, Unclosed, Finish, Return, Inside, Outside,
       Reading, AtEnd
  <2> QED BY <1>1, <1>2, <2>1 DEF StepsLeft
<1>4. CASE ~ (TooManyBlocks \/ Unclosed \/ Finish)
  <2>1. /\ source' = source /\ result' = result
        /\ at' = at \/ at' = at + 1
        /\ blocks' = blocks \/ \E b : blocks' = Append(blocks, b)
    BY <1>1, <1>4 DEF Next, SkipBlank, OpenFence, SkipCode, CloseFence,
       AddHeading, AddPlain, AddBlock, After
  <2>2. at' = at + 1
    <3>1. CASE SkipBlank \/ SkipCode
      <4>1. /\ UNCHANGED <<source, stack, fence, blocks, result>>
            /\ at' = at \/ at' = at + 1
        BY <2>1, <3>1 DEF SkipBlank, SkipCode
      <4> QED BY <1>1, <4>1 DEF vars
    <3>2. CASE OpenFence \/ CloseFence
      BY <3>2 DEF OpenFence, CloseFence, Opens, Closes, AddBlock, After
    <3>3. CASE AddHeading \/ AddPlain
      BY <3>3 DEF AddHeading, AddPlain, Plain, AddBlock, After
    <3> QED BY <1>1, <1>4, <3>1, <3>2, <3>3 DEF Next
  <2>3. Len(blocks') \in Nat /\ Len(blocks') <= Len(blocks) + 1
    BY <1>2, <2>1
  <2> QED BY <1>1, <1>2, <2>1, <2>2, <2>3 DEF StepsLeft
<1> QED BY <1>3, <1>4

\* The chunker takes block after block, then writes.
LEMMA ChunkCounts ==
  ASSUME Passing, Gathering, C!Next
  PROVE  StepsLeft' < StepsLeft
<1>1. Len(document) \in Nat /\ document' = document /\ pc # "done"
  BY ChunkMoves DEF Gathering
<1>2. CASE C!Reject \/ C!OutOfMemory \/ C!Write \/ C!WriteFails \/ C!Crash
  <2>1. pc' = "done"
    BY <1>2 DEF C!Reject, C!OutOfMemory, C!Write, C!WriteFails, C!Crash,
       C!Stop
  <2>2. StepsLeft' = 0
    BY <2>1 DEF StepsLeft
  <2> QED BY <1>1, <2>2, StepsLeftType
<1>3. CASE C!Accept
  <2>1. pc = "read" /\ pos' = pos /\ pos = 1 /\ pc' = "build"
    BY <1>3 DEF C!Accept, Gathering
  <2> QED BY <1>1, <2>1 DEF StepsLeft
<1>4. CASE C!Finish
  <2>1. /\ pc = "build" /\ pc' = "write" /\ pos > Len(document)
        /\ pos \in 1..(Len(document) + 1)
    BY <1>4 DEF C!Finish, Gathering
  <2> QED BY <1>1, <2>1 DEF StepsLeft
<1>5. CASE \/ C!TakeHeading \/ C!TakeAtomic \/ C!StartChunk
           \/ C!ExtendChunk \/ C!SplitChunk
  <2>1. pc = "build" /\ pc' = pc /\ pos' = pos + 1
    BY <1>5 DEF C!TakeHeading, C!TakeAtomic, C!StartChunk, C!ExtendChunk,
       C!SplitChunk, C!Ordinary, C!Building, C!Advance
  <2>2. pos \in 1..(Len(document) + 1)
    BY <2>1 DEF Gathering
  <2> QED BY <1>1, <2>1, <2>2 DEF StepsLeft
<1> QED BY <1>2, <1>3, <1>4, <1>5 DEF C!Next, C!Step

LEMMA StageCounts ==
  ASSUME Passing, Gathering, WriteStructured \/ StageFails
  PROVE  StepsLeft' < StepsLeft
<1>1. CASE StageFails
  <2>1. pc = "wait" /\ pc' = "done"
    BY <1>1 DEF StageFails
  <2>2. StepsLeft' = 0 /\ StepsLeft > 0 /\ StepsLeft \in Nat
    BY <2>1, StepsLeftType DEF StepsLeft
  <2> QED BY <2>2
<1>2. CASE WriteStructured
  <2>1. /\ pc = "wait" /\ result = "OK" /\ pc' = "read"
        /\ document' = Structured /\ Parser
    BY <1>2 DEF WriteStructured, Passing
  <2>2. /\ Len(source) \in Nat /\ Len(blocks) \in Nat
        /\ at \in 1..(Len(source) + 1)
    BY <2>1 DEF Parser, Typed, TypeOK
  <2>3. Len(document') = Len(blocks)
    BY <2>1, <2>2 DEF Structured
  <2> QED BY <2>1, <2>2, <2>3 DEF StepsLeft
<1> QED BY <1>1, <1>2

\* Nothing goes round in circles: a document has no more steps than twice its
\* lines and five, and each step of the two stages leaves less to do. So there
\* is no run without an end but one that stops at a line, as at a NUL.
THEOREM DocumentStepsAreBounded ==
  DocumentSpec =>
    /\ pc = "wait" => StepsLeft = 2 * Len(source) + 5
    /\ [](StepsLeft \in Nat)
    /\ [][StepsLeft' < StepsLeft]_documentVars
<1>1. DocumentInit /\ Passing =>
        (pc = "wait" => StepsLeft = 2 * Len(source) + 5)
  <2> SUFFICES ASSUME DocumentInit, Passing, pc = "wait"
               PROVE  StepsLeft = 2 * Len(source) + 5
    OBVIOUS
  <2>1. at = 1 /\ blocks = << >> /\ result = "none"
    BY DEF DocumentInit, Init
  <2>2. Len(source) \in Nat
    BY DEF Passing, Parser, Typed, TypeOK
  <2> QED BY <2>1, <2>2 DEF StepsLeft
<1>2. Passing /\ Gathering => StepsLeft \in Nat
  BY StepsLeftType
<1>3. Passing /\ Gathering /\ [DocumentNext]_documentVars =>
        [StepsLeft' < StepsLeft]_documentVars
  <2> SUFFICES ASSUME Passing, Gathering, DocumentNext,
                      ~ UNCHANGED documentVars
               PROVE  StepsLeft' < StepsLeft
    OBVIOUS
  <2> QED BY ParseCounts, StageCounts, ChunkCounts DEF DocumentNext, Chunk
<1> QED BY <1>1, <1>2, <1>3, AlwaysPassing, AlwaysGathering, PTL
        DEF DocumentSpec

=============================================================================
