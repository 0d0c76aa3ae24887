------------------------- MODULE MCMarkdownParser -------------------------
(***************************************************************************)
(* An instance of MarkdownParser: documents with a NUL byte somewhere.     *)
(***************************************************************************)
EXTENDS MarkdownParser

LineOf(form, level) ==
  [form |-> form, level |-> level, mark |-> "none", count |-> 0,
   rest |-> "nothing"]

Row(mark, count, rest) ==
  [form |-> "fence", level |-> 0, mark |-> mark, count |-> count,
   rest |-> rest]

UpTo(n, lines) == UNION {[1..k -> lines] : k \in 0..n}

MCBinary ==
  UpTo(3, {LineOf("text", 0), LineOf("nul", 0), Row("tick", 3, "nothing"),
           LineOf("heading", 1), LineOf("blank", 0)})
=============================================================================
