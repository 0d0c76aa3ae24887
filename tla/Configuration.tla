---------------------------- MODULE Configuration ----------------------------
(***************************************************************************)
(* What main does with rag_builder.conf before there is a Core:            *)
(* rb_config_load, the resolution of modules_path against the directory of *)
(* the program, and rb_config_validate.                                    *)
(*                                                                         *)
(* A file is the sequence of pieces that fgets hands over: lines, and what *)
(* is left of a line of more than 1023 bytes, a comment's too. A value is  *)
(* its length and what main and the validator ask of it. An operator named *)
(* Slip... is the definition below it with one plausible programming       *)
(* error; nothing uses it.                                                 *)
(***************************************************************************)
EXTENDS Integers, Sequences

CONSTANTS
  PathMax,    \* RB_PATH_MAX
  LevelMax,   \* RB_LOG_LEVEL_MAX
  DirSize     \* the length of the program's directory

SizeAssumption == {PathMax, LevelMax, DirSize} \subseteq Nat \ {0}

Required == {"source_path", "output_path", "log_level"}
Key == Required \cup {"modules_path"}

\* rb_path_is_absolute asks for two characters at least.
Value ==
  {v \in [size : Nat, absolute : BOOLEAN, level : BOOLEAN] :
     v.absolute => v.size > 0}

\* A value that is neither an absolute path nor the name of a level.
Word(size) == [size |-> size, absolute |-> FALSE, level |-> FALSE]

\* A blank line or a comment; a line without "="; and the others, in which
\* "unknown" stands for any other key.
Skip == [kind |-> "skip"]
Text == [kind |-> "text"]
Piece ==
  {Skip, Text}
    \cup [kind : {"pair"}, key : Key \cup {"unknown"}, value : Value]

-----------------------------------------------------------------------------

\* rb_config_clear: the default of modules_path is "modules".
Cleared == [key \in Key |-> Word(IF key = "modules_path" THEN 7 ELSE 0)]

Initial == [result |-> "OK", seen |-> {}, config |-> Cleared]

TooLong(key, value) ==
  value.size >= IF key = "log_level" THEN LevelMax ELSE PathMax

\* Slip: a second log_level replaces the first one.
SlipRefusal(state, piece) ==
  IF \/ piece.kind = "text" \/ piece.key \notin Key
     \/ piece.key \in state.seen \ {"log_level"}
  THEN "INVALID_FORMAT"
  ELSE IF TooLong(piece.key, piece.value) THEN "VALUE_TOO_LONG" ELSE "OK"

\* The tests of one piece, in the order of the code.
Refusal(state, piece) ==
  IF \/ piece.kind = "text" \/ piece.key \notin Key
     \/ piece.key \in state.seen
  THEN "INVALID_FORMAT"
  ELSE IF TooLong(piece.key, piece.value) THEN "VALUE_TOO_LONG" ELSE "OK"

\* The pieces after one that is refused are not read.
Take(state, piece) ==
  IF state.result # "OK" \/ piece.kind = "skip" THEN state
  ELSE LET result == Refusal(state, piece)
       IN  IF result # "OK" THEN [state EXCEPT !.result = result]
           ELSE [result |-> "OK", seen |-> state.seen \cup {piece.key},
                 config |-> [state.config EXCEPT ![piece.key] = piece.value]]

\* rb_config_load, when the file can be read.
Load(file) ==
  LET after[i \in 0..Len(file)] ==
        IF i = 0 THEN Initial ELSE Take(after[i - 1], file[i])
      end == after[Len(file)]
  IN  IF end.result = "OK" /\ ~(Required \subseteq end.seen)
      THEN [end EXCEPT !.result = "MISSING_FIELD"] ELSE end

-----------------------------------------------------------------------------

\* rb_build_path: the directory, a backslash and the path.
Joined(path) ==
  [path EXCEPT !.size = DirSize + 1 + path.size, !.absolute = TRUE]

Resolved(path) == IF path.absolute THEN path ELSE Joined(path)

\* The joined path has to fit; an absolute one is kept as it was.
Resolvable(path) == path.absolute \/ Joined(path).size < PathMax

\* rb_config_validate.
Validated(config) ==
  /\ \A key \in Key : config[key].size > 0
  /\ config["log_level"].level

\* What main passes to rb_core_init.
Effective(loaded) ==
  [loaded.config EXCEPT
     !["modules_path"] = Resolved(loaded.config["modules_path"])]

\* main gets as far as rb_core_init with what was loaded.
Accepts(loaded) ==
  /\ loaded.result = "OK"
  /\ Resolvable(loaded.config["modules_path"])
  /\ Validated(Effective(loaded))

-----------------------------------------------------------------------------
(***************************************************************************)
(* The same as a reader of the file sees it, whatever the order of its     *)
(* lines: a reference for the loop above.                                  *)
(***************************************************************************)

Lines(file, key) ==
  {i \in 1..Len(file) : file[i].kind = "pair" /\ file[i].key = key}

Given(file, key) ==
  IF Lines(file, key) = {} THEN Cleared[key]
  ELSE file[CHOOSE i \in Lines(file, key) : TRUE].value

Sound(file) ==
  /\ \A i \in 1..Len(file) :
       file[i].kind # "skip" => \E key \in Key : i \in Lines(file, key)
  /\ \A key \in Key : \A i, j \in Lines(file, key) : i = j
  /\ \A key \in Required :
       Lines(file, key) # {} /\ Given(file, key).size > 0
  /\ \A key \in Key : ~TooLong(key, Given(file, key))
  /\ Given(file, "log_level").level
  /\ LET path == Given(file, "modules_path")
     IN  path.absolute \/ DirSize + 1 + path.size < PathMax

=============================================================================
