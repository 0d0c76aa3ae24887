---------------------------- MODULE Publication ----------------------------
(***************************************************************************)
(* What the four stages promise together, seen from the reader of          *)
(* kb.corpus.json: documents come and go, the authority decides which      *)
(* revision of a root is the current one, and now and then the corpus is   *)
(* replaced as a whole. Whatever is published under an identity was        *)
(* delivered under it, as far as the size of a document can tell.          *)
(*                                                                         *)
(* The promise has one hole: the corpus file of a document called kb.md is *)
(* kb.corpus.json too. While there is such a document, its own corpus can  *)
(* take the place of the published one, and not as a whole.                *)
(***************************************************************************)
CONSTANTS
  Libraries,   \* the contents the source directory may have
  Kb           \* the name whose corpus file is kb.corpus.json

VARIABLES
  sources,     \* the source directory: a version of each document
  delivered,   \* every version that has been in it
  authority,   \* the identities by what the authority says of them
  kb           \* the published file

vars == <<sources, delivered, authority, kb>>

Missing == [state |-> "missing"]
Torn    == [state |-> "torn"]

VersionsOf(library) == {library[n] : n \in DOMAIN library}

\* What the aggregator compares: an identity, and how its digest is spelled.
Tuple(version) == [id |-> version.id, spelling |-> version.spelling]

\* The text was delivered in the size of the version it is given for. Beyond
\* its size nothing ties the text of an artifact to a source.
Traceable(entry) ==
  /\ entry.source \in delivered
  /\ \E v \in delivered : v.text = entry.text /\ v.size = entry.source.size

Publishable(corpus) ==
  /\ DOMAIN corpus = {"entries"}
  /\ \A root \in DOMAIN corpus.entries :
       /\ corpus.entries[root].source.id.root = root
       /\ Tuple(corpus.entries[root].source) \in authority.latest
       /\ Traceable(corpus.entries[root])

Init ==
  /\ sources \in Libraries
  /\ delivered = VersionsOf(sources)
  /\ kb = Missing

Deliver ==
  /\ sources' \in Libraries
  /\ delivered' = delivered \cup VersionsOf(sources')
  /\ UNCHANGED <<authority, kb>>

Decide == UNCHANGED <<sources, delivered, kb>>

Publish ==
  /\ Publishable(kb')
  /\ UNCHANGED <<sources, delivered, authority>>

\* The corpus of the document kb.md, or a part of it.
Overwrite ==
  /\ Kb \in DOMAIN sources
  /\ \/ kb' = Torn
     \/ /\ "source" \in DOMAIN kb'
        /\ kb'.source = sources[Kb] /\ Traceable(kb')
  /\ UNCHANGED <<sources, delivered, authority>>

Next == Deliver \/ Decide \/ Publish \/ Overwrite

Spec == Init /\ [][Next]_vars
=============================================================================
