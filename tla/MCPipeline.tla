---------------------------- MODULE MCPipeline ----------------------------
(***************************************************************************)
(* An instance of Pipeline with three names, the last that of kb.md, and   *)
(* two originals and a revision of one of them: texts of one size under    *)
(* one identity and under two, a digest that is not spelled like that of   *)
(* the index, and documents that one stage or another does not take. There *)
(* is room for one identity in a run, for two corpus files and for two     *)
(* records of the index.                                                   *)
(***************************************************************************)
EXTENDS Pipeline, TLC

VersionOf(text, size, form, id) ==
  [text |-> text, size |-> size, form |-> form, id |-> id, spelling |-> 1]

First  == [root |-> 1, revision |-> 1]
Second == [root |-> 1, revision |-> 2]
Other  == [root |-> 2, revision |-> 1]

Old    == VersionOf(1, 1, "prose", First)
Edited == VersionOf(2, 1, "prose", First)    \* the header as it was
New    == VersionOf(3, 1, "prose", Second)   \* of the same size
Guide  == VersionOf(5, 1, "prose", Other)
Note   == VersionOf(6, 2, "prose", Uncontrolled)
Bare   == VersionOf(7, 1, "bare", Other)     \* headings and nothing else
Bad    == VersionOf(8, 1, "bad", Other)
\* A..F where the index has a..f.
Cased  == [VersionOf(4, 2, "prose", Second) EXCEPT !.spelling = 2]

Doc(n, v) == [m \in {n} |-> v]
Two(v, w) == [m \in 1..2 |-> IF m = 1 THEN v ELSE w]

MCLibraries ==
  {Doc(2, Old), Doc(1, Edited), Doc(1, Guide), Doc(2, Bare),
   Two(Note, Bad), Two(Cased, New), Doc(1, New) @@ Doc(3, Edited)}

Authority(approved, current, refused) ==
  [approved |-> approved, refused |-> refused, records |-> 2,
   latest |-> {[id |-> id, spelling |-> 1] : id \in current}]

MCAuthorities ==
  {Authority({First, Other}, {First, Other}, {}),
   Authority({First, Second}, {Second}, {Other})}

\* All modules; all but the chunker; two that leave the output to others.
MCSelections ==
  {Stage, Stage \ {"chunker"}, {"chunker", "provenance"}}
=============================================================================
