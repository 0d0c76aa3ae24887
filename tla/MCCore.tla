------------------------------ MODULE MCCore ------------------------------
(***************************************************************************)
(* Core on two instances: one process over three identifiers, in every     *)
(* order of their directories, with an inventory too small for all; and    *)
(* three processes over two identifiers, between which a module can be     *)
(* replaced under its identifier, with an audit log too small for both.    *)
(* The first one meets every configuration file of up to four pieces, in   *)
(* which lengths reach and pass the limits; the second a good and a bad    *)
(* one.                                                                    *)
(***************************************************************************)
EXTENDS Core

SizedWord(size) == [size |-> size, absolute |-> FALSE, level |-> FALSE]
Rooted(size)    == [size |-> size, absolute |-> TRUE, level |-> FALSE]
Debug           == [size |-> 5, absolute |-> FALSE, level |-> TRUE]

Line(key, value) == [kind |-> "pair", key |-> key, value |-> value]

\* With room for 15 bytes in a path, 5 in a level and 4 in the directory.
MCPieces ==
  {[kind |-> "skip"], [kind |-> "text"], Line("unknown", SizedWord(3))}
    \cup {Line("source_path", SizedWord(size)) : size \in {0, 15, 16}}
    \cup {Line("output_path", SizedWord(3))}
    \cup {Line("log_level", v) : v \in {Debug, SizedWord(5), SizedWord(6)}}
    \cup {Line("modules_path", v) :
            v \in {SizedWord(0), SizedWord(10), SizedWord(11), Rooted(15)}}

MCFiles == UNION {[1..n -> MCPieces] : n \in 0..4}

Good == <<Line("source_path", SizedWord(3)), Line("output_path", SizedWord(3)),
          Line("log_level", Debug)>>
MCRestartFiles == {Good, <<Good[1]>>}

MCDescriptor(id, stage, minor) ==
  [id |-> id, stage |-> stage, major |-> 1, minor |-> minor,
   wellFormed |-> TRUE]

MCModule == 1..3

\* The inventory cannot read back the third one.
MCLegible == {1, 2}

\* The first identifier runs last; its two binaries ask for different Cores.
MCBinary ==
  {MCDescriptor(1, 200, 2), MCDescriptor(1, 200, 1),
   MCDescriptor(2, 100, 1), MCDescriptor(3, 100, 2)}

MCRestartModule == 1..2
MCRestartBinary == {b \in MCBinary : b.id \in MCRestartModule}

MCReport ==
  {[executed |-> 0, passed |-> 0, failed |-> 0,
    negativeExecuted |-> FALSE, negativePassed |-> FALSE],
   [executed |-> 10, passed |-> 10, failed |-> 0,
    negativeExecuted |-> TRUE, negativePassed |-> TRUE]}

=============================================================================
