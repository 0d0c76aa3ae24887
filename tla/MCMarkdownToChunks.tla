------------------------ MODULE MCMarkdownToChunks ------------------------
(***************************************************************************)
(* An instance of MarkdownToChunks: every document of a few lines, and     *)
(* every artifact of up to four blocks, of which a few do not keep the     *)
(* contract.                                                               *)
(***************************************************************************)
EXTENDS MarkdownToChunks

LineOf(form, level) ==
  [form |-> form, level |-> level, mark |-> "none", count |-> 0,
   rest |-> "nothing"]

Row(mark, count, rest) ==
  [form |-> "fence", level |-> 0, mark |-> mark, count |-> count,
   rest |-> rest]

Ordinary == {LineOf("blank", 0), LineOf("text", 0), LineOf("heading", 1),
             LineOf("heading", 2), LineOf("heading", 3)}

\* A row too short to open, one with an info text, and longer ones.
Rows == {Row("tick", 2, "nothing"), Row("tick", 3, "nothing"),
         Row("tick", 4, "nothing"), Row("tick", 3, "info"),
         Row("tick", 3, "tick"), Row("tilde", 3, "nothing")}

UpTo(n, lines) == UNION {[1..k -> lines] : k \in 0..n}

\* Headings of every level in every order, and code among them.
MCOutlines ==
  UpTo(6, {LineOf("text", 0), LineOf("heading", 1), LineOf("heading", 2),
           LineOf("heading", 3)})
  \cup UpTo(4, Ordinary \cup Rows)
  \cup UpTo(2, {LineOf(form, 0) : form \in {"quote", "bullet", "number"}})

Found(type, level, parent, size) ==
  [type |-> type, level |-> level, parent |-> parent, size |-> size,
   wellFormed |-> TRUE]

\* A block at place i can have any heading before it as its parent.
Possible(i) ==
  {Found("HEADING", 1, 0, 1)}
  \cup {Found("PARAGRAPH", 0, parent, size) :
          parent \in 0..(i - 1), size \in {0, 1, 2}}
  \cup {Found(type, 0, 0, size) :
          type \in {"UNORDERED_LIST_ITEM", "ORDERED_LIST_ITEM"},
          size \in {1, 6}}
  \cup {Found(type, 0, 0, 1) : type \in {"FENCED_CODE_BLOCK",
                                           "BLOCKQUOTE"}}

MCInputs ==
  {<< >>, <<[Found("PARAGRAPH", 0, 0, 1) EXCEPT !.wellFormed = FALSE]>>,
   <<Found("PARAGRAPH", 1, 0, 1)>>, <<Found("HEADING", 0, 0, 1)>>}
  \cup {<<a>> : a \in Possible(1)}
  \cup {<<a, b>> : a \in Possible(1), b \in Possible(2)}
  \cup {<<a, b, c>> : a \in Possible(1), b \in Possible(2),
                      c \in Possible(3)}
  \cup {<<a, b, c, d>> : a \in Possible(1), b \in Possible(2),
                         c \in Possible(3),
                         d \in {Found("PARAGRAPH", 0, 0, 2),
                                Found("PARAGRAPH", 0, 2, 2),
                                Found("UNORDERED_LIST_ITEM", 0, 0, 1)}}
=============================================================================
