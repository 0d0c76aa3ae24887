---------------------------- MODULE Provenance ----------------------------
(***************************************************************************)
(* RB-PROVENANCE, stage 300 (modules/provenance/src/provenance.c): for     *)
(* each chunk artifact in the output directory whose source is still       *)
(* there, it looks up the policy index and the chainlog for the controlled *)
(* header of the source, and writes a corpus file, in place.               *)
(*                                                                         *)
(* The index and the chainlog belong to the authority, which may change    *)
(* either at any time; both are read anew for every artifact. Sources and  *)
(* chunk artifacts change between runs.                                    *)
(*                                                                         *)
(* The text of a source stands for its bytes, and so for its SHA-256; the  *)
(* digest in a header is what the authority registers. An operator named   *)
(* Slip... is the definition below it with one plausible programming       *)
(* error; no action uses it.                                               *)
(***************************************************************************)
EXTENDS Integers, Sequences, FiniteSets

CONSTANTS
  Name,        \* the names of documents, and of the files made for them
  Indexes,     \* the policy indexes the authority may publish
  Chains,      \* the chainlogs: sequences of registrations
  Libraries,   \* what stands in the two directories: sources, artifacts
  SeenMax,     \* RB_PROV_SEEN_MAX
  MaxRuns,     \* bound on the number of runs
  MaxChanges   \* bound on the number of changes of the authority

ASSUME ProvenanceAssumption ==
  SeenMax \in Nat /\ MaxRuns \in Nat /\ MaxChanges \in Nat

\* The files of the authority have finitely many records, and a controlled
\* header has all of its fields.
ASSUME FileAssumption ==
  /\ \A x \in Indexes : Len(x.records) \in Nat
  /\ \A c \in Chains : Len(c) \in Nat
  /\ \A l \in Libraries : \A s \in DOMAIN l.sources :
       l.sources[s].header.wellFormed =>
         l.sources[s].header \in
           [wellFormed : {TRUE}, root : Nat, revision : Nat, previous : Nat,
            sha : Nat, approved : BOOLEAN]

VARIABLES
  index,      \* the policy index: whether it parses, and its records
  chain,      \* the registrations on the chainlog
  library,    \* the sources and the chunk artifacts
  corpus,     \* the corpus file of each name
  pc,         \* where the run is
  todo,       \* the artifacts the directory scan has not come to
  name,       \* the artifact in hand
  header,     \* the controlled header of its source
  seen,       \* identities accepted in this run, with their digests
  fresh,      \* the names whose corpus file this run wrote or confirmed
  status,     \* how the last run ended
  consulted,  \* history: the index and the chainlog read for the header
  disturbed,  \* history: whether the authority changed during the run
  runs, changes

authority == <<index, chain>>
progress  == <<pc, todo, name, header, seen, fresh, status, consulted>>
counters  == <<disturbed, runs, changes>>
vars == <<index, chain, library, corpus, pc, todo, name, header, seen, fresh,
          status, consulted, disturbed, runs, changes>>

Missing == [text |-> "missing"]   \* no file
Torn    == [text |-> "torn"]      \* a part of a file

Unread == [wellFormed |-> FALSE]
Unconsulted == [index |-> [wellFormed |-> FALSE, records |-> << >>],
                chain |-> << >>]

sources   == library.sources
artifacts == library.artifacts

SameIdentity(a, b) == a.root = b.root /\ a.revision = b.revision

-----------------------------------------------------------------------------
Init ==
  /\ index \in Indexes /\ chain \in Chains /\ library \in Libraries
  /\ corpus = [n \in Name |-> Missing]
  /\ pc = "idle"
  /\ todo = {} /\ name = {} /\ header = Unread /\ seen = {} /\ fresh = {}
  /\ status = "none"
  /\ consulted = Unconsulted
  /\ disturbed = FALSE /\ runs = 0 /\ changes = 0

\* The authority replaces one of its two files, whatever the run is doing.
Publish ==
  /\ changes < MaxChanges
  /\ \/ index' \in Indexes \ {index} /\ UNCHANGED chain
     \/ chain' \in Chains \ {chain} /\ UNCHANGED index
  /\ changes' = changes + 1
  /\ disturbed' = TRUE
  /\ UNCHANGED <<library, corpus, progress, runs>>

\* Documents and the earlier stages, between two runs.
Deliver ==
  /\ pc = "idle" /\ runs \in 1..(MaxRuns - 1)
  /\ library' \in Libraries \ {library}
  /\ UNCHANGED <<authority, corpus, progress, counters>>

Begin ==
  /\ pc = "idle" /\ runs < MaxRuns
  /\ pc' = "next"
  /\ todo' = DOMAIN artifacts
  /\ seen' = {} /\ fresh' = {}
  /\ status' = "none"
  /\ disturbed' = FALSE
  /\ runs' = runs + 1
  /\ UNCHANGED <<authority, library, corpus, name, header, consulted, changes>>

-----------------------------------------------------------------------------
(***************************************************************************)
(* The loop of rb_prov_execute. Artifacts come in the order of the         *)
(* directory, which is any order.                                          *)
(***************************************************************************)

PutDown == name' = {} /\ header' = Unread /\ consulted' = Unconsulted

\* On to the next file.
Continue == pc' = "next" /\ PutDown

Stop(how) == pc' = "idle" /\ status' = how /\ todo' = {} /\ PutDown

\* The run is over with an error; what it has written stays.
FailClosed ==
  /\ Stop("FAILED")
  /\ UNCHANGED <<authority, library, corpus, seen, fresh, counters>>

\* The log does not open, the directory is not listed, a file is not read.
Unusable == pc = "next" /\ FailClosed

\* The contract is checked before the source is looked for.
Malformed(n) ==
  /\ pc = "next" /\ n \in todo /\ ~artifacts[n].wellFormed
  /\ FailClosed

SourceOf(n) == artifacts[n].filename

\* An artifact that an earlier run left, without a source, is passed over.
Stale(n) ==
  /\ pc = "next" /\ n \in todo /\ artifacts[n].wellFormed
  /\ SourceOf(n) \notin DOMAIN sources
  /\ todo' = todo \ {n}
  /\ Continue
  /\ UNCHANGED <<authority, library, corpus, seen, fresh, status, counters>>

Current(n) ==
  /\ pc = "next" /\ n \in todo /\ artifacts[n].wellFormed
  /\ SourceOf(n) \in DOMAIN sources

SizeDiffers(n) ==
  /\ Current(n) /\ sources[SourceOf(n)].size # artifacts[n].size
  /\ FailClosed

\* A document without a whole controlled header is not a controlled one.
Uncontrolled(n) ==
  /\ Current(n) /\ sources[SourceOf(n)].size = artifacts[n].size
  /\ ~sources[SourceOf(n)].header.wellFormed
  /\ todo' = todo \ {n}
  /\ Continue
  /\ UNCHANGED <<authority, library, corpus, seen, fresh, status, counters>>

ReadHeader(n) ==
  /\ Current(n) /\ sources[SourceOf(n)].size = artifacts[n].size
  /\ sources[SourceOf(n)].header.wellFormed
  /\ todo' = todo \ {n}
  /\ name' = {n} /\ header' = sources[SourceOf(n)].header
  /\ pc' = "lookup"
  /\ UNCHANGED <<authority, library, corpus, seen, fresh, status, consulted,
                 counters>>

-----------------------------------------------------------------------------
(***************************************************************************)
(* rb_prov_policy_lookup and rb_prov_chainlog_verify.                      *)
(***************************************************************************)

Claims == {i \in 1..Len(index.records) :
             SameIdentity(index.records[i], header)}

\* Exactly one record with the identity, of the same digest, approved like
\* the document itself.
Authorized ==
  /\ index.wellFormed /\ Cardinality(Claims) = 1
  /\ \A i \in Claims :
       index.records[i].sha = header.sha /\ index.records[i].approved
  /\ header.approved

\* Slip: the lineage stays as the document has it.
SlipAdopted == header

\* The predecessor is what the index says.
Adopted ==
  LET i == CHOOSE i \in Claims : TRUE
  IN  [header EXCEPT !.previous = index.records[i].previous]

Lookup ==
  /\ pc = "lookup" /\ Authorized
  /\ header' = Adopted
  /\ consulted' = [consulted EXCEPT !.index = index]
  /\ pc' = "verify"
  /\ UNCHANGED <<authority, library, corpus, todo, name, seen, fresh, status,
                 counters>>

\* Slip: a source the index contradicts is skipped as well.
SlipNotFound ==
  /\ pc = "lookup" /\ index.wellFormed /\ ~Authorized
  /\ Continue
  /\ UNCHANGED <<authority, library, corpus, todo, seen, fresh, status,
                 counters>>

\* No record at all: the source is skipped, not refused.
NotFound ==
  /\ pc = "lookup" /\ index.wellFormed /\ Claims = {}
  /\ Continue
  /\ UNCHANGED <<authority, library, corpus, todo, seen, fresh, status,
                 counters>>

\* A contradiction, a document without approval, or an index that cannot be
\* read or does not parse.
LookupFails == pc = "lookup" /\ FailClosed

Entries == {i \in 1..Len(chain) : SameIdentity(chain[i], header)}

Registered ==
  /\ Cardinality(Entries) = 1
  /\ \A i \in Entries :
       chain[i].previous = header.previous /\ chain[i].sha = header.sha

Verify ==
  /\ pc = "verify" /\ Registered
  /\ consulted' = [consulted EXCEPT !.chain = chain]
  /\ pc' = "identity"
  /\ UNCHANGED <<authority, library, corpus, todo, name, header, seen, fresh,
                 status, counters>>

\* A contradiction, no registration, or a chainlog that cannot be read.
VerifyFails == pc = "verify" /\ FailClosed

-----------------------------------------------------------------------------
(***************************************************************************)
(* rb_prov_identity_check, rb_prov_identity_add and rb_prov_write_corpus.  *)
(***************************************************************************)

Identity == [root |-> header.root, revision |-> header.revision,
             sha |-> header.sha]

\* Slip: the digest belongs to the identity.
SlipKnown == {s \in seen : s = Identity}

Known == {s \in seen : SameIdentity(s, header)}

\* The same document again.
Duplicate ==
  /\ pc = "identity" /\ Identity \in Known
  /\ Continue
  /\ UNCHANGED <<authority, library, corpus, todo, seen, fresh, status,
                 counters>>

\* An identity with another digest, or no room to remember this one.
Conflict ==
  /\ pc = "identity" /\ Identity \notin Known
  /\ Known # {} \/ Cardinality(seen) = SeenMax
  /\ FailClosed

\* Slip: the room for identities is not looked at.
SlipAdmit ==
  /\ pc = "identity" /\ Known = {}
  /\ seen' = seen \cup {Identity}
  /\ pc' = "write"
  /\ UNCHANGED <<authority, library, corpus, todo, name, header, fresh,
                 status, consulted, counters>>

Admit ==
  /\ pc = "identity" /\ Known = {} /\ Cardinality(seen) < SeenMax
  /\ seen' = seen \cup {Identity}
  /\ pc' = "write"
  /\ UNCHANGED <<authority, library, corpus, todo, name, header, fresh,
                 status, consulted, counters>>

\* The chunks come from the artifact, the digest from the source as it is.
CorpusOf(n) ==
  [text |-> artifacts[n].text, size |-> artifacts[n].size,
   raw |-> sources[SourceOf(n)].text,
   root |-> header.root, revision |-> header.revision,
   previous |-> header.previous, sha |-> header.sha]

\* A file that has these bytes already is not opened, and stays the same.
Write(n) ==
  /\ pc = "write" /\ n \in name /\ artifacts[n].numbered
  /\ corpus' = [corpus EXCEPT ![n] = CorpusOf(n)]
  /\ fresh' = fresh \cup {n}
  /\ Continue
  /\ UNCHANGED <<authority, library, todo, seen, status, counters>>

\* Chunks out of sequence are found before the file is opened. Otherwise it
\* does not open, or a part of it is written, or it does not close.
WriteFails(n) ==
  /\ pc = "write" /\ n \in name
  /\ \/ UNCHANGED corpus
     \/ /\ artifacts[n].numbered /\ corpus[n] # CorpusOf(n)
        /\ \E left \in {Torn, CorpusOf(n)} :
             corpus' = [corpus EXCEPT ![n] = left]
  /\ Stop("FAILED")
  /\ UNCHANGED <<authority, library, seen, fresh, counters>>

End ==
  /\ pc = "next" /\ todo = {}
  /\ Stop("OK")
  /\ UNCHANGED <<authority, library, corpus, seen, fresh, counters>>

\* The process is killed; in the middle of a write a part is left.
Crash ==
  /\ pc # "idle"
  /\ \/ UNCHANGED corpus
     \/ \E n \in name :
          /\ pc = "write" /\ artifacts[n].numbered /\ corpus[n] # CorpusOf(n)
          /\ corpus' = [corpus EXCEPT ![n] = Torn]
  /\ Stop("none")
  /\ UNCHANGED <<authority, library, seen, fresh, counters>>

Resolve(n) ==
  Malformed(n) \/ Stale(n) \/ SizeDiffers(n) \/ Uncontrolled(n) \/ ReadHeader(n)

Step ==
  \/ Unusable \/ End
  \/ \E n \in Name : Resolve(n) \/ Write(n) \/ WriteFails(n)
  \/ Lookup \/ NotFound \/ LookupFails
  \/ Verify \/ VerifyFails
  \/ Duplicate \/ Conflict \/ Admit

Next == Publish \/ Deliver \/ Begin \/ Step \/ Crash

Spec == Init /\ [][Next]_vars

-----------------------------------------------------------------------------
(***************************************************************************)
(* Properties.                                                             *)
(***************************************************************************)

\* Type invariant of the stage.
ProvenanceTypeOK ==
  /\ index \in Indexes /\ chain \in Chains /\ library \in Libraries
  /\ \A n \in Name : corpus[n] \in {Missing, Torn} \/ corpus[n].sha \in Nat
  /\ pc \in {"idle", "next", "lookup", "verify", "identity", "write"}
  /\ todo \subseteq DOMAIN artifacts
  /\ pc \in {"idle", "next"} <=> name = {}
  /\ Cardinality(name) <= 1 /\ name \cap (todo \cup fresh) = {}
  /\ header.wellFormed <=> name # {}
  /\ Cardinality(seen) <= SeenMax
  /\ Cardinality(fresh) <= Cardinality(seen)
  /\ status \in {"none", "OK", "FAILED"}
  /\ disturbed \in BOOLEAN
  /\ runs \in 0..MaxRuns /\ changes \in 0..MaxChanges

\* The index has one record of a corpus, approved, and the chainlog one
\* registration, and on all four fields the three are of one mind.
Vouched(c, authorities) ==
  LET recs == authorities.index.records
      regs == authorities.chain
      Tuple(r) == <<r.root, r.revision, r.previous, r.sha>>
  IN  /\ \E i \in 1..Len(recs) :
           /\ Tuple(recs[i]) = Tuple(c) /\ recs[i].approved
           /\ \A j \in 1..Len(recs) : SameIdentity(recs[j], c) => j = i
      /\ \E i \in 1..Len(regs) :
           /\ Tuple(regs[i]) = Tuple(c)
           /\ \A j \in 1..Len(regs) : SameIdentity(regs[j], c) => j = i

(***************************************************************************)
(* Every corpus file that a run writes or confirms carries an identity, a  *)
(* predecessor and a digest on which the index and the chainlog agreed     *)
(* when they were read for it, though either may change between the two    *)
(* readings, and though the document may claim another predecessor.        *)
(***************************************************************************)
CorpusIsVouched ==
  [][\A n \in fresh' \ fresh : Vouched(corpus'[n], consulted)]_vars

(***************************************************************************)
(* In the course of a run no two corpus files get the same root and        *)
(* revision, even when the authority changes the digest it registers for   *)
(* them while the run is under way.                                        *)
(***************************************************************************)
OneCorpusPerIdentity ==
  \A n, m \in fresh : n # m => ~SameIdentity(corpus[n], corpus[m])

(***************************************************************************)
(* A run that ends well has a whole corpus file, of this artifact and this *)
(* source, for each controlled source that has an artifact, or for another *)
(* copy of it: also where an earlier run was killed or failed in the write.*)
(* Only what the index does not know is left out.                          *)
(***************************************************************************)
Covered(n) ==
  LET h == sources[SourceOf(n)].header
  IN  \/ ~h.wellFormed
      \/ ~ \E i \in 1..Len(index.records) : SameIdentity(index.records[i], h)
      \/ \E m \in fresh : /\ SameIdentity(corpus[m], h)
                          /\ corpus[m].text = artifacts[m].text
                          /\ corpus[m].raw = sources[SourceOf(m)].text

GoodRunIsComplete ==
  [][status' = "OK" /\ status # "OK" /\ ~disturbed =>
       \A n \in DOMAIN artifacts : SourceOf(n) \in DOMAIN sources => Covered(n)
    ]_vars

=============================================================================
